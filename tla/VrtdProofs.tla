----------------------------- MODULE VrtdProofs ------------------------------
(***************************************************************************)
(* What the vrtd daemon guarantees for every number of boards, clients and *)
(* requests and for every configuration: the flash worker has the device   *)
(* list to itself, a client waits for its own job, roles follow the        *)
(* configuration, the buffers of a device and the map of its memory agree, *)
(* every buffer has an owner and stays until its owner gives it up, and a  *)
(* round-down clock request is never answered with a rate above it.        *)
(***************************************************************************)
EXTENDS VrtdHandlerProofs

------------------------------------------------------------------------------
(* Hangups *)

\* One element less: the others stay, each from one place.
LEMMA SeqRemove ==
    ASSUME NEW s, IsSeq(s), NEW i \in DOMAIN s, NEW t, t = RemoveAt(s, i)
    PROVE  /\ IsSeq(t)
           /\ \A k \in DOMAIN t : \E j \in DOMAIN s \ {i} : t[k] = s[j]
           /\ \A j \in DOMAIN s \ {i} : \E k \in DOMAIN t : t[k] = s[j]
           /\ \A k, l \in DOMAIN t : \E j, n \in DOMAIN s \ {i} :
                 t[k] = s[j] /\ t[l] = s[n] /\ (j = n => k = l)
<1> DEFINE At(k) == IF k < i THEN k ELSE k + 1
<1>1. Len(s) \in Nat /\ DOMAIN s = 1..Len(s)
  BY SeqFacts
<1>2. /\ t \in Seq(Range(s)) /\ Len(t) = Len(s) - 1
      /\ \A k \in 1..(Len(s) - 1) : t[k] = s[At(k)]
  BY <1>1, RemoveAtFacts, Zenon DEF IsSeq
<1>3. /\ Len(s) - 1 \in Nat /\ DOMAIN t = 1..(Len(s) - 1)
      /\ t = [j \in 1..(Len(s) - 1) |-> t[j]]
  BY <1>1, <1>2
<1>4. IsSeq(t)
  BY <1>3, SeqMade
<1>5. \A k \in DOMAIN t : At(k) \in DOMAIN s \ {i}
  BY <1>1, <1>3
<1>6. \A k, l \in DOMAIN t : At(k) = At(l) => k = l
  BY <1>1, <1>3
<1>7. \A j \in DOMAIN s \ {i} : \E k \in DOMAIN t : At(k) = j
  <2> SUFFICES ASSUME NEW j \in 1..Len(s), j # i PROVE \E k \in DOMAIN t : At(k) = j
    BY <1>1
  <2>1. CASE j < i
    BY <1>1, <1>3, <2>1, SMTT(30)
  <2>2. CASE ~(j < i)
    <3>1. j - 1 \in DOMAIN t /\ At(j - 1) = j
      BY <1>1, <1>3, <2>2, SMTT(30)
    <3> QED
      BY <3>1
  <2> QED
    BY <2>1, <2>2, Zenon
<1> HIDE DEF At
<1>8. \A k \in DOMAIN t : t[k] = s[At(k)]
  BY <1>2, <1>3
<1>9. \A j \in DOMAIN s \ {i} : \E k \in DOMAIN t : t[k] = s[j]
  BY <1>7, <1>8
<1>10. \A k, l \in DOMAIN t : \E j, n \in DOMAIN s \ {i} :
          t[k] = s[j] /\ t[l] = s[n] /\ (j = n => k = l)
  BY <1>5, <1>6, <1>8
<1> QED
  BY <1>4, <1>5, <1>8, <1>9, <1>10, SMTT(30)

\* The struct after the result of an async operation.
LEMMA DeliveredClient ==
    ASSUME NEW c, IsClient(c), NEW result
    PROVE  LET e == Delivered(c, result)
           IN /\ IsClient(e) /\ e.conn = c.conn /\ e.uid = c.uid /\ e.role = c.role
              /\ c.pending # "device" => e = c
              /\ c.pending = "device" => /\ e.pending = "none" /\ e.req = NoRequest
                                         /\ e.reply.value = 0
<1> DEFINE reply == [ret |-> result, value |-> 0, fd |-> NoFd]
           e == [c EXCEPT !.pending = "none", !.req = NoRequest, !.reply = reply]
<1>0. reply.value = 0
  OBVIOUS
<1> HIDE DEF reply
<1>1. /\ e.conn = c.conn /\ e.uid = c.uid /\ e.pending = "none"
      /\ e.req = NoRequest /\ e.role = c.role /\ e.reply = reply
  BY DEF IsClient
<1>2. IsClient(e)
  BY Zenon DEF IsClient
<1>3. Delivered(c, result) = IF c.pending # "device" THEN c ELSE e
  BY DEF Delivered, reply
<1> HIDE DEF e
<1> QED
  BY <1>0, <1>1, <1>2, <1>3

\* Buffers keep their owners while those of the connections in C go.
LEMMA FreedOwned ==
    ASSUME BuffersOwned, NEW C, Freed(dm, dm', C), cleanups' # << >> => async_op',
           \A c : /\ Index(c) # {} /\ c \notin C => Index(c)' # {}
                  /\ c \in Range(cleanups) => c \in C \/ c \in Range(cleanups')
    PROVE  BuffersOwned'
<1> SUFFICES ASSUME NEW e \in Listed(dm'), NEW k \in DOMAIN e.buffers
             PROVE  \/ Index(e.buffers[k].client)' # {}
                    \/ e.buffers[k].client \in Range(cleanups')
  BY DEF BuffersOwned
<1>1. PICK d \in Listed(dm) : Without(d, e, C)
  BY DEF Freed
<1>2. PICK i \in DOMAIN d.buffers : d.buffers[i] = e.buffers[k]
  BY <1>1 DEF Without
<1>3. e.buffers[k].client \notin C
  BY <1>1 DEF Without
<1> QED
  BY <1>2, <1>3 DEF BuffersOwned

\* The clients after a disconnect: all but the one that went.
LEMMA HangupClients ==
    ASSUME DaemonInv, NEW c \in Conns, Hangup(c)
    PROVE  /\ TypeInv' /\ c \in 1..next_conn
           /\ \A k \in DOMAIN clients' :
                 clients'[k].conn # c /\ \E j \in DOMAIN clients : clients'[k] = clients[j]
           /\ Index(c)' = {}
           /\ \A x : /\ Index(x) = {} => Index(x)' = {}
                     /\ x # c /\ Index(x) # {} => Index(x)' # {}
<1> USE DEF DaemonInv
<1>1. /\ loop.at = "poll"
      /\ UNCHANGED <<up, config, async_op, flash, loop, next_conn, peer>>
  BY DEF Hangup
<1>2. PICK i \in DOMAIN clients : clients[i].conn = c /\ clients' = RemoveAt(clients, i)
  BY Zenon DEF Hangup, Index
<1>3. /\ IsSeq(clients')
      /\ \A k \in DOMAIN clients' : \E j \in DOMAIN clients \ {i} : clients'[k] = clients[j]
      /\ \A j \in DOMAIN clients \ {i} : \E k \in DOMAIN clients' : clients'[k] = clients[j]
      /\ \A k, l \in DOMAIN clients' : \E j, n \in DOMAIN clients \ {i} :
            clients'[k] = clients[j] /\ clients'[l] = clients[n] /\ (j = n => k = l)
  BY <1>2, SeqRemove DEF TypeInv
<1>4. \A k \in DOMAIN clients' :
         clients'[k].conn # c /\ \E j \in DOMAIN clients : clients'[k] = clients[j]
  <2>1. \A j \in DOMAIN clients \ {i} : clients[j].conn # c
    BY <1>2, Zenon DEF TypeInv
  <2>2. ASSUME NEW k \in DOMAIN clients'
        PROVE  \E j \in DOMAIN clients : clients'[k] = clients[j] /\ clients[j].conn # c
    <3>1. PICK j \in DOMAIN clients \ {i} : clients'[k] = clients[j]
      BY <1>3
    <3> QED
      BY <2>1, <3>1, Zenon
  <2> QED
    BY ONLY <2>2
<1>5. Index(c)' = {} /\ \A x : /\ Index(x) = {} => Index(x)' = {}
                               /\ x # c /\ Index(x) # {} => Index(x)' # {}
  <2>1. Index(c)' = {} /\ \A x : Index(x) = {} => Index(x)' = {}
    BY <1>4 DEF Index
  <2>2. ASSUME NEW x, x # c, Index(x) # {} PROVE Index(x)' # {}
    <3>1. PICK j \in DOMAIN clients : clients[j].conn = x
      BY <2>2 DEF Index
    <3>2. j \in DOMAIN clients \ {i}
      BY <1>2, <2>2, <3>1, SMTT(30)
    <3>3. PICK k \in DOMAIN clients' : clients'[k] = clients[j]
      BY <1>3, <3>2, SMTT(30)
    <3> QED
      BY <3>1, <3>3, SMTT(30) DEF Index
  <2> QED
    BY <2>1, <2>2, SMTT(30)
<1>6. TypeInv'
  <2>1. \A k, l \in DOMAIN clients' : clients'[k].conn = clients'[l].conn => k = l
    <3>1. \A j, n \in DOMAIN clients : clients[j].conn = clients[n].conn => j = n
      BY Zenon DEF TypeInv
    <3>2. ASSUME NEW k \in DOMAIN clients', NEW l \in DOMAIN clients',
                 clients'[k].conn = clients'[l].conn
          PROVE  k = l
      <4>1. PICK j \in DOMAIN clients \ {i}, n \in DOMAIN clients \ {i} :
                    clients'[k] = clients[j] /\ clients'[l] = clients[n] /\ (j = n => k = l)
        BY <1>3
      <4> QED
        BY <3>1, <3>2, <4>1, Zenon
    <3> QED
      BY ONLY <3>2
  <2>2. \A k \in DOMAIN clients' : IsClient(clients'[k]) /\ clients'[k].conn \in 1..next_conn
    <3>1. \A j \in DOMAIN clients : IsClient(clients[j]) /\ clients[j].conn \in 1..next_conn
      BY Zenon DEF TypeInv
    <3> QED
      BY ONLY <1>4, <3>1
  <2>3. IsSeq(clients')
    BY <1>3
  <2> QED
    BY <1>1, <2>1, <2>2, <2>3, Zenon DEF TypeInv
<1>7. c \in 1..next_conn
  BY <1>2, Zenon DEF TypeInv
<1> QED
  BY <1>4, <1>5, <1>6, <1>7, SMTT(30)

\* A disconnect: the struct goes, and its buffers now or with the deferred cleanups.
LEMMA HangupKeeps ==
    ASSUME DaemonInv, NEW c \in Conns, Hangup(c)
    PROVE  DaemonInv'
<1> USE DEF DaemonInv
<1>1. /\ loop.at = "poll"
      /\ UNCHANGED <<up, config, async_op, flash, loop, next_conn, peer>>
  BY DEF Hangup
<1>4. \A k \in DOMAIN clients' :
         clients'[k].conn # c /\ \E j \in DOMAIN clients : clients'[k] = clients[j]
  BY HangupClients, Zenon
<1>5. Index(c)' = {} /\ \A x : /\ Index(x) = {} => Index(x)' = {}
                               /\ x # c /\ Index(x) # {} => Index(x)' # {}
  BY HangupClients, SMTT(30)
<1>6. TypeInv' /\ c \in 1..next_conn
  BY HangupClients, SMTT(30)
<1>7. LoopInv'
  BY <1>1, SMTT(30) DEF LoopInv
<1>8. BusyInv'
  <2>1. async_op => dm' = dm
    BY DEF Hangup
  <2>2. async_op => ~AnyDesignWriteActive'
    BY <1>4, <2>1, Zenon DEF BusyInv, AnyDesignWriteActive
  <2> QED
    BY <1>1, <2>2, SMTT(30) DEF BusyInv
<1>9. WaitsForOwnJob' /\ ReqInv'
  BY <1>1, <1>4, SMTT(30) DEF WaitsForOwnJob, ReqInv
<1>10. RolesFollowConfig' /\ TalkInv'
  BY <1>1, <1>4, Zenon DEF RolesFollowConfig, TalkInv
<1>11. DmOk(dm) /\ MemoryOk(dm) /\ IsSeq(cleanups) /\ (cleanups # << >> => async_op)
  BY Zenon DEF MemoryInv, CleanupInv, BuffersOwned
<1>12. CASE async_op
  <2>1. dm' = dm /\ cleanups' = Deferred(cleanups, c)
    BY <1>12 DEF Hangup
  <2>2. IsSeq(cleanups') /\ Range(cleanups') = Range(cleanups) \cup {c}
    <3>1. CASE c \in Range(cleanups)
      BY <1>11, <2>1, <3>1, SMTT(30) DEF Deferred
    <3>2. CASE c \notin Range(cleanups)
      <4>1. Longer(cleanups, c, cleanups')
        BY <1>11, <2>1, <3>2, SeqAppend, SMTT(30) DEF Deferred
      <4> QED
        BY <4>1 DEF Longer
    <3> QED
      BY <3>1, <3>2, SMTT(30)
  <2>3. CleanupInv'
    BY <1>1, <1>5, <1>6, <2>2, SMTT(30) DEF CleanupInv
  <2>4. BuffersOwned'
    <3>1. \A d \in Listed(dm) : \A k \in DOMAIN d.buffers :
             Index(d.buffers[k].client)' # {} \/ d.buffers[k].client \in Range(cleanups')
      BY <1>5, <2>2, SMTT(30) DEF BuffersOwned
    <3> QED
      BY <1>1, <1>12, <2>1, <3>1, SMTT(30) DEF BuffersOwned
  <2> QED
    BY <1>6, <1>7, <1>8, <1>9, <1>10, <2>1, <2>3, <2>4, SMTT(30) DEF MemoryInv
<1>13. CASE ~async_op
  <2>1. dm' = CleanupBuffersFor(dm, c) /\ cleanups' = cleanups
    BY <1>13 DEF Hangup
  <2>2. DmOk(dm') /\ MemoryOk(dm') /\ Freed(dm, dm', {c})
    BY <1>11, <2>1, CleanupForFacts, SMTT(30)
  <2>3. BuffersOwned'
    BY <1>1, <1>5, <1>11, <2>1, <2>2, FreedOwned, SMTT(30)
  <2>4. CleanupInv'
    BY <1>1, <1>5, <2>1, SMTT(30) DEF CleanupInv
  <2> QED
    BY <1>6, <1>7, <1>8, <1>9, <1>10, <2>2, <2>3, <2>4, SMTT(30) DEF MemoryInv
<1> QED
  BY <1>12, <1>13, SMTT(30)

\* The end of an async operation: every waiting client has its result, the deferred
\* cleanups are done.
LEMMA AsyncKeeps ==
    ASSUME DaemonInv, TickAsync
    PROVE  DaemonInv'
<1> USE DEF DaemonInv
<1>1. /\ flash.step = "idle" /\ async_op' = FALSE /\ cleanups' = << >>
      /\ dm' = DrainCleanups(dm, cleanups)
      /\ UNCHANGED <<up, config, flash, next_conn, peer>>
  BY DEF TickAsync
<1>2. loop' \in Loops /\ loop'.at = "drain" /\ loop'.i = 1
  BY DEF TickAsync, Loops
<1>3. \A j \in DOMAIN clients :
         LET e == clients'[j]
         IN /\ IsClient(e) /\ e.conn = clients[j].conn /\ e.uid = clients[j].uid
            /\ e.role = clients[j].role
            /\ clients[j].pending # "device" => e = clients[j]
            /\ clients[j].pending = "device" => e.pending = "none" /\ e.req = NoRequest
  <2>1. \A j \in DOMAIN clients : clients'[j] = Delivered(clients[j], flash.result)
    BY DEF TickAsync
  <2>2. \A j \in DOMAIN clients : IsClient(clients[j])
    BY Zenon DEF TypeInv
  <2> QED
    BY <2>1, <2>2, DeliveredClient, SMTT(30)
<1>4. SameClients
  <2>1. DOMAIN clients' = DOMAIN clients /\ clients' = [j \in DOMAIN clients |-> clients'[j]]
    BY DEF TickAsync
  <2> QED
    BY <1>3, <2>1, AllChanged, SMTT(30)
<1>5. /\ \A c : Index(c)' = Index(c)
      /\ DOMAIN clients' = DOMAIN clients /\ IsSeq(clients')
      /\ \A j \in DOMAIN clients' : IsClient(clients'[j]) /\ clients'[j].conn \in 1..next_conn'
      /\ \A j, k \in DOMAIN clients' : clients'[j].conn = clients'[k].conn => j = k
  BY <1>1, <1>4, SameIndex, Zenon DEF SameClients
<1>6. TypeInv'
  BY <1>1, <1>2, <1>5, SMTT(30) DEF TypeInv
<1>7. LoopInv' /\ BusyInv'
  BY <1>1, <1>2, Zenon DEF LoopInv, BusyInv
<1>8. WaitsForOwnJob' /\ ReqInv'
  BY <1>3, <1>5, Zenon DEF WaitsForOwnJob, ReqInv
<1>9. RolesFollowConfig'
  BY <1>1, <1>3, <1>5, Zenon DEF RolesFollowConfig
<1>10. TalkInv'
  <2> SUFFICES ASSUME NEW j \in DOMAIN clients
               PROVE  Talk(clients'[j], peer[clients'[j].conn])
    BY <1>1, <1>5, Zenon DEF TalkInv
  <2> DEFINE p == peer[clients[j].conn]
  <2>1. Talk(clients[j], p) /\ clients'[j].conn = clients[j].conn
    BY <1>3, Zenon DEF TalkInv
  <2>2. CASE clients[j].pending = "device"
    <3>1. clients'[j].pending = "none" /\ clients'[j].req = NoRequest
      BY <1>3, <2>2
    <3> HIDE DEF p
    <3>2. Talk(clients'[j], p)
      BY <2>1, <2>2, <3>1, Zenon DEF Talk, AtRest
    <3> QED
      BY <2>1, <3>2, SMTT(30) DEF p
  <2>3. CASE clients[j].pending # "device"
    BY <1>3, <2>1, <2>3, SMTT(30)
  <2> QED
    BY <2>2, <2>3
<1>11. CleanupInv'
  <2>1. IsSeq(<< >>) /\ Range(<< >>) = {}
    BY DEF IsSeq, Range
  <2> QED
    BY <1>1, <2>1 DEF CleanupInv
<1>12. DmOk(dm') /\ MemoryOk(dm') /\ Freed(dm, dm', Range(cleanups))
  BY <1>1, DrainFacts DEF MemoryInv, CleanupInv, IsSeq
<1>13. BuffersOwned'
  <2>1. PICK C : C = Range(cleanups)
    OBVIOUS
  <2> QED
    BY <1>1, <1>5, <1>12, <2>1, FreedOwned, Zenon
<1> QED
  BY <1>6, <1>7, <1>8, <1>9, <1>10, <1>11, <1>12, <1>13, SMTT(30) DEF MemoryInv

\* The daemon ends, in order or by the assertion of ensure_role.
LEMMA EndKeeps ==
    ASSUME DaemonInv, Shutdown \/ RoleLookupAborts
    PROVE  DaemonInv'
<1> USE DEF DaemonInv
<1>1. CASE Shutdown
  <2>1. /\ loop.at = "poll" /\ up' = FALSE /\ clients' = << >> /\ cleanups' = << >>
        /\ dm' = [dm EXCEPT !.list = << >>] /\ flash' = IdleFlash /\ async_op' = FALSE
        /\ peer' = [c \in Conns |-> NoPeer] /\ UNCHANGED <<config, loop, next_conn>>
    BY <1>1 DEF Shutdown
  <2>2. IsSeq(<< >>) /\ Range(<< >>) = {} /\ DOMAIN << >> = {}
    BY DEF IsSeq, Range
  <2>3. IsFlash(IdleFlash) /\ IdleFlash.step = "idle"
    BY DEF IsFlash, IdleFlash
  <2>4. peer' \in [Conns -> Peers] /\ \A c \in Conns : ~peer'[c].open /\ ~peer'[c].unread
    BY <2>1 DEF NoPeer, Peers
  <2>5. TypeInv'
    BY <2>1, <2>2, <2>3, <2>4, SMTT(30) DEF TypeInv
  <2>6. LoopInv' /\ BusyInv'
    BY <2>1, <2>3, SMTT(30) DEF LoopInv, BusyInv
  <2>7. WaitsForOwnJob' /\ ReqInv' /\ TalkInv' /\ RolesFollowConfig'
    BY <2>1, <2>2, SMTT(30) DEF WaitsForOwnJob, ReqInv, TalkInv, RolesFollowConfig
  <2>8. CleanupInv'
    BY <2>1, <2>2, SMTT(30) DEF CleanupInv
  <2>9. DmOk(dm') /\ Listed(dm') = {}
    <3>1. << >> \in Seq(Devices)
      OBVIOUS
    <3>2. /\ dm' \in [present : SUBSET Boards, list : Seq(Devices), next : Nat, wizard : {dm'.wizard}]
          /\ Listed(dm') = {<< >>[i] : i \in DOMAIN << >>}
      BY <2>1, <3>1, ListChanged, Zenon DEF MemoryInv
    <3>3. Listed(dm') = {}
      BY <2>2, <3>2, SMTT(30)
    <3> QED
      BY <3>2, <3>3, SMTT(30) DEF DmOk
  <2>10. BuffersOwned' /\ MemoryInv'
    BY <2>1, <2>9, SMTT(30) DEF BuffersOwned, MemoryInv, MemoryOk
  <2> QED
    BY <2>5, <2>6, <2>7, <2>8, <2>10, SMTT(30)
<1>2. CASE RoleLookupAborts
  <2>1. /\ up' = FALSE
        /\ UNCHANGED <<config, dm, clients, async_op, cleanups, flash, loop, next_conn, peer>>
    BY <1>2 DEF RoleLookupAborts
  <2>2. TypeInv' /\ LoopInv'
    BY <2>1, Zenon DEF TypeInv, LoopInv, Req, Me
  <2>3. BusyInv' /\ WaitsForOwnJob' /\ RolesFollowConfig' /\ ReqInv' /\ TalkInv'
    BY <2>1, Zenon DEF BusyInv, AnyDesignWriteActive, WaitsForOwnJob, RolesFollowConfig, ReqInv, TalkInv,
                Req, Me
  <2>4. CleanupInv' /\ BuffersOwned' /\ MemoryInv'
    BY <2>1, Zenon DEF CleanupInv, BuffersOwned, MemoryInv, Index
  <2> QED
    BY <2>2, <2>3, <2>4, SMTT(30)
<1> QED
  BY <1>1, <1>2, SMTT(30)

------------------------------------------------------------------------------
(* The invariant *)

\* main: discovery opens every board, nobody is connected.
LEMMA DaemonInit ==
    ASSUME Init
    PROVE  DaemonInv
<1> DEFINE wizard == [w \in Boards \X Regions |-> Program([m |-> MMax, d |-> DMin, o |-> OMax])]
           m == [present |-> Boards, list |-> << >>, next |-> 1, wizard |-> wizard]
<1>1. PICK o \in DiscoverOutcomes(m) : dm = o.dm
  BY DEF Init
<1>2. /\ clients = << >> /\ async_op = FALSE /\ cleanups = << >> /\ flash = IdleFlash
      /\ loop = Polling /\ next_conn = 0 /\ peer = [c \in Conns |-> NoPeer]
  BY DEF Init
<1> HIDE DEF wizard
<1>3. DmOk(m) /\ Listed(m) = {}
  <2>1. m \in [present : SUBSET Boards, list : Seq(Devices), next : Nat, wizard : {m.wizard}]
    OBVIOUS
  <2>2. Listed(m) = {}
    BY DEF Listed
  <2> QED
    BY <2>1, <2>2, Zenon DEF DmOk
<1> HIDE DEF m
<1>4. Carried(m, dm)
  BY <1>1, <1>3, DiscoverFacts, SMTT(30)
<1>5. DmOk(dm) /\ MemoryOk(dm)
  BY <1>3, <1>4, CarriedMemory, SMTT(30) DEF Carried, MemoryOk
<1>6. \A e \in Listed(dm) : e.buffers = << >>
  BY <1>3, <1>4, Zenon DEF Carried, Holds, Fresh
<1>7. IsSeq(<< >>) /\ Range(<< >>) = {} /\ DOMAIN << >> = {}
  BY DEF IsSeq, Range
<1>8. IsFlash(IdleFlash) /\ IdleFlash.step = "idle"
  BY DEF IsFlash, IdleFlash
<1>9. peer \in [Conns -> Peers] /\ \A c \in Conns : ~peer[c].open /\ ~peer[c].unread
  BY <1>2 DEF NoPeer, Peers
<1>10. loop \in Loops /\ loop.at = "poll"
  BY <1>2 DEF Polling, Loops
<1>11. next_conn \in 0..MaxConns
  BY <1>2, VrtdAssumption
<1>12. TypeInv
  BY <1>2, <1>7, <1>8, <1>9, <1>10, <1>11, Zenon DEF TypeInv
<1>13. LoopInv /\ BusyInv
  BY <1>2, <1>8, <1>10, SMTT(30) DEF LoopInv, BusyInv
<1>14. WaitsForOwnJob /\ ReqInv /\ TalkInv /\ RolesFollowConfig
  BY <1>2, <1>7, Zenon DEF WaitsForOwnJob, ReqInv, TalkInv, RolesFollowConfig
<1>15. CleanupInv
  BY <1>2, <1>7, SMTT(30) DEF CleanupInv
<1>16. BuffersOwned
  BY <1>2, <1>6, <1>7, Zenon DEF BuffersOwned
<1> QED
  BY <1>5, <1>12, <1>13, <1>14, <1>15, <1>16, SMTT(30) DEF DaemonInv, MemoryInv

\* Every step preserves the invariant.
LEMMA DaemonNext ==
    ASSUME DaemonInv, [Next]_vars
    PROVE  DaemonInv'
<1>1. ASSUME NEW uid \in Users, Accept(uid) PROVE DaemonInv'
  BY <1>1, AcceptKeeps
<1>2. ASSUME NEW c \in Conns, NEW r \in Requests, PeerSend(c, r) PROVE DaemonInv'
  BY <1>2, PeersKeep
<1>3. ASSUME NEW c \in Conns, PeerClose(c) PROVE DaemonInv'
  BY <1>3, PeersKeep
<1>4. ASSUME NEW c \in Conns, ClientIo(c) PROVE DaemonInv'
  BY <1>4, HangupKeeps, ReceiveKeeps, DrainKeeps, SMTT(30) DEF ClientIo
<1>5. CASE Handle
  BY <1>5, HandleKinds, PlainKeeps, JobKeeps, EndKeeps, SMTT(30)
<1>6. CASE LoopStep
  BY <1>5, <1>6, SendKeeps, DrainKeeps, FinalizeKinds, FinalizeKeeps, SMTT(30) DEF LoopStep
<1>7. CASE Tick
  BY <1>7, AsyncKeeps, DrainKeeps, SMTT(30) DEF Tick
<1>8. CASE FlashStep \/ WriterStep
  BY <1>8, ThreadKinds, ThreadKeeps, SMTT(30)
<1>9. CASE Reload \/ Shutdown
  BY <1>9, ReloadKeeps, EndKeeps, SMTT(30)
<1>10. CASE vars' = vars
  <2>1. /\ UNCHANGED <<up, config, dm, clients, async_op, cleanups, flash, next_conn, peer, sent>>
        /\ loop' = loop
    BY <1>10, SMTT(30) DEF vars
  <2>2. TypeInv' /\ LoopInv'
    BY <2>1, Zenon DEF DaemonInv, TypeInv, LoopInv, Req, Me
  <2>3. BusyInv' /\ WaitsForOwnJob' /\ RolesFollowConfig' /\ ReqInv' /\ TalkInv'
    BY <2>1, Zenon DEF DaemonInv, BusyInv, AnyDesignWriteActive, WaitsForOwnJob, RolesFollowConfig, ReqInv,
                TalkInv, Req, Me
  <2>4. CleanupInv' /\ BuffersOwned' /\ MemoryInv'
    BY <2>1, Zenon DEF DaemonInv, CleanupInv, BuffersOwned, MemoryInv, Index
  <2> QED
    BY <2>2, <2>3, <2>4, SMTT(30) DEF DaemonInv
<1> QED
  BY <1>1, <1>2, <1>3, <1>4, <1>6, <1>7, <1>8, <1>9, <1>10, SMTT(30) DEF Next

\* DaemonInv is an invariant of the daemon, for all boards, users, requests and bounds.
THEOREM DaemonSafe == Spec => []DaemonInv
<1>1. Init => DaemonInv
  BY DaemonInit
<1>2. DaemonInv /\ [Next]_vars => DaemonInv'
  BY DaemonNext
<1> QED
  BY <1>1, <1>2, PTL DEF Spec

\* While a flash job runs, no design is written, and nothing but the status of the job is
\* handled (worker_busy, serve.c).
THEOREM JobsExclude == Spec => []Exclusive
<1>1. DaemonInv => Exclusive
  BY SMTT(30) DEF DaemonInv, BusyInv, Exclusive
<1> QED
  BY <1>1, DaemonSafe, PTL

\* The client that waits for the async device operation is the one that started it
\* (process_async_device_op_completion).
THEOREM OwnJobAwaited == Spec => []WaitsForOwnJob
<1>1. DaemonInv => WaitsForOwnJob
  BY SMTT(30) DEF DaemonInv
<1> QED
  BY <1>1, DaemonSafe, PTL

\* No buffer outlives its client: whoever owns one is connected, or its cleanup is queued
\* behind the async operation that runs (cleanup_client_buffers).
THEOREM OwnersKnown == Spec => []BuffersOwned
<1>1. DaemonInv => BuffersOwned
  BY SMTT(30) DEF DaemonInv
<1> QED
  BY <1>1, DaemonSafe, PTL

\* Every subregion that is reserved belongs to exactly one open buffer, and every open buffer
\* has its subregions (allocator.c, buffer.c).
THEOREM MemoryExact == Spec => []MemoryAccounted
<1>1. DaemonInv => MemoryAccounted
  BY SMTT(30) DEF DaemonInv, MemoryInv, MemoryOk, MemoryAccounted
<1> QED
  BY <1>1, DaemonSafe, PTL

\* A cached role is the one the present configuration gives (reload_config, ensure_role).
THEOREM RolesCurrent == Spec => []RolesFollowConfig
<1>1. DaemonInv => RolesFollowConfig
  BY DEF DaemonInv
<1> QED
  BY <1>1, DaemonSafe, PTL

------------------------------------------------------------------------------
(* Buffers that stay *)

\* The action BuffersKept speaks of.
Keeps ==
    \A d \in Listed(dm) : \A k \in DOMAIN d.buffers :
        Lives(dm', d.id) =>
            \/ \E j \in DOMAIN Device(dm', d.id).buffers :
                  Device(dm', d.id).buffers[j] = d.buffers[k]
            \/ loop.at = "dispatch" /\ Me.conn = d.buffers[k].client
            \/ \A i \in DOMAIN clients' : clients'[i].conn # d.buffers[k].client

\* A step that moves buffers of one connection only takes no other buffer from a struct.
LEMMA MovedKept ==
    ASSUME NEW m, DmOk(m), NEW n, NEW conn, Moved(m, n, conn),
           NEW d \in Listed(m), NEW k \in DOMAIN d.buffers, Lives(n, d.id)
    PROVE  \/ d.buffers[k].client = conn
           \/ \E j \in DOMAIN Device(n, d.id).buffers : Device(n, d.id).buffers[j] = d.buffers[k]
<1>1. PICK e \in Listed(n) : e = Device(n, d.id) /\ e.id = d.id
  BY DeviceFacts
<1>2. d.id < m.next /\ d.id \in Nat /\ m.next \in Nat
  BY ListedFacts, Zenon DEF DmOk, Devices
<1>3. PICK x \in Listed(m) : OnlyOf(x, e, conn)
  BY <1>1, <1>2 DEF Moved
<1>4. x = d
  BY <1>1, <1>3, Zenon DEF OnlyOf, DmOk
<1> QED
  BY <1>1, <1>3, <1>4, SMTT(30) DEF OnlyOf

\* Freeing the buffers of some connections takes no other buffer from a struct.
LEMMA FreedKept ==
    ASSUME NEW m, DmOk(m), NEW n, NEW C, Freed(m, n, C),
           NEW d \in Listed(m), NEW k \in DOMAIN d.buffers, Lives(n, d.id)
    PROVE  \/ d.buffers[k].client \in C
           \/ \E j \in DOMAIN Device(n, d.id).buffers : Device(n, d.id).buffers[j] = d.buffers[k]
<1>1. PICK e \in Listed(n) : e = Device(n, d.id) /\ e.id = d.id
  BY DeviceFacts
<1>2. PICK x \in Listed(m) : Without(x, e, C)
  BY <1>1 DEF Freed
<1>3. x = d
  BY <1>1, <1>2, Zenon DEF Without, DmOk
<1> QED
  BY <1>1, <1>2, <1>3, SMTT(30) DEF Without

\* Threads, discovery and plain bookkeeping take no buffer from a struct.
LEMMA CarriedKeeps ==
    ASSUME DaemonInv, Carried(dm, dm')
    PROVE  Keeps
<1>1. DmOk(dm) /\ MemoryOk(dm)
  BY DEF DaemonInv, MemoryInv
<1>2. Moved(dm, dm', 0)
  BY <1>1, CarriedMoved, SMTT(30)
<1>3. ASSUME NEW d \in Listed(dm), NEW k \in DOMAIN d.buffers, Lives(dm', d.id)
      PROVE  \E j \in DOMAIN Device(dm', d.id).buffers :
                Device(dm', d.id).buffers[j] = d.buffers[k]
  <2>1. d.buffers[k].client # 0
    BY <1>1, OwnerFacts, Zenon
  <2> QED
    BY <1>1, <1>2, <1>3, <2>1, MovedKept, SMTT(30)
<1> QED
  BY <1>3, Zenon DEF Keeps

\* Nor does a step that leaves the boards alone.
LEMMA SameKeeps ==
    ASSUME DaemonInv, dm' = dm
    PROVE  Keeps
BY CarriedSame, CarriedKeeps, SMTT(30) DEF DaemonInv, MemoryInv

\* A request takes only buffers of the connection it came from.
LEMMA PlainKept ==
    ASSUME DaemonInv, PlainStep
    PROVE  Keeps
<1>1. DmOk(dm) /\ Moved(dm, dm', Me.conn) /\ loop.at = "dispatch"
  BY DEF DaemonInv, MemoryInv, PlainStep
<1>2. PICK mine : mine = Me.conn
  BY SMTT(30)
<1>3. ASSUME NEW d \in Listed(dm), NEW k \in DOMAIN d.buffers, Lives(dm', d.id)
      PROVE  \/ \E j \in DOMAIN Device(dm', d.id).buffers :
                   Device(dm', d.id).buffers[j] = d.buffers[k]
             \/ mine = d.buffers[k].client
  BY <1>1, <1>2, <1>3, MovedKept, SMTT(30)
<1> QED
  BY <1>1, <1>2, <1>3, Zenon DEF Keeps

\* A disconnect takes only the buffers of the client that goes.
LEMMA HangupKept ==
    ASSUME DaemonInv, NEW c \in Conns, Hangup(c)
    PROVE  Keeps
<1>1. DmOk(dm) /\ MemoryOk(dm)
  BY DEF DaemonInv, MemoryInv
<1>2. CASE async_op
  BY <1>2, SameKeeps, SMTT(30) DEF Hangup
<1>3. CASE ~async_op
  <2>1. Freed(dm, dm', {c})
    BY <1>1, <1>3, CleanupForFacts, SMTT(30) DEF Hangup
  <2>2. \A i \in DOMAIN clients' : clients'[i].conn # c
    BY HangupClients, SMTT(30)
  <2>3. ASSUME NEW d \in Listed(dm), NEW k \in DOMAIN d.buffers, Lives(dm', d.id)
        PROVE  \/ \E j \in DOMAIN Device(dm', d.id).buffers :
                     Device(dm', d.id).buffers[j] = d.buffers[k]
               \/ d.buffers[k].client = c
    BY <1>1, <2>1, <2>3, FreedKept, SMTT(30)
  <2> QED
    BY <2>2, <2>3, Zenon DEF Keeps
<1> QED
  BY <1>2, <1>3, SMTT(30)

\* The deferred cleanups take only buffers of clients that have gone.
LEMMA AsyncKept ==
    ASSUME DaemonInv, TickAsync
    PROVE  Keeps
<1>1. Freed(dm, dm', Range(cleanups))
  BY DrainFacts DEF DaemonInv, MemoryInv, CleanupInv, IsSeq, TickAsync
<1>2. DmOk(dm)
  BY SMTT(30) DEF DaemonInv, MemoryInv
<1>3. \A i \in DOMAIN clients' : i \in DOMAIN clients /\ clients'[i].conn = clients[i].conn
  <2>1. \A i \in DOMAIN clients : IsClient(clients[i])
    BY Zenon DEF DaemonInv, TypeInv
  <2>2. /\ DOMAIN clients' = DOMAIN clients
        /\ \A i \in DOMAIN clients : clients'[i] = Delivered(clients[i], flash.result)
    BY DEF TickAsync
  <2> QED
    BY <2>1, <2>2, DeliveredClient, SMTT(30)
<1>4. \A c \in Range(cleanups) : \A i \in DOMAIN clients' : clients'[i].conn # c
  BY <1>3 DEF DaemonInv, CleanupInv, Index
<1>5. PICK C : C = Range(cleanups)
  BY SMTT(30)
<1>6. ASSUME NEW d \in Listed(dm), NEW k \in DOMAIN d.buffers, Lives(dm', d.id)
      PROVE  \/ \E j \in DOMAIN Device(dm', d.id).buffers :
                   Device(dm', d.id).buffers[j] = d.buffers[k]
             \/ d.buffers[k].client \in C
  BY <1>1, <1>2, <1>5, <1>6, FreedKept, SMTT(30)
<1> QED
  BY <1>4, <1>5, <1>6, ZenonT(40) DEF Keeps

\* The daemon ends, and no struct is left to speak of.
LEMMA EndKept ==
    ASSUME DaemonInv, Shutdown \/ RoleLookupAborts
    PROVE  Keeps
<1>1. CASE Shutdown
  <2>1. dm' = [dm EXCEPT !.list = << >>] /\ DmOk(dm)
    BY <1>1, SMTT(30) DEF Shutdown, DaemonInv, MemoryInv
  <2>2. dm'.list = << >>
    BY <2>1, SMTT(30) DEF DmOk
  <2>3. \A id : ~Lives(dm', id)
    BY <2>2, SMTT(30) DEF Lives, Listed
  <2> QED
    BY <2>3, Zenon DEF Keeps
<1>2. CASE RoleLookupAborts
  BY <1>2, SameKeeps, SMTT(30) DEF RoleLookupAborts
<1> QED
  BY <1>1, <1>2, SMTT(30)

\* Every step keeps the buffers of the clients it is not about.
LEMMA BuffersNext ==
    ASSUME DaemonInv, [Next]_vars
    PROVE  [Keeps]_vars
<1>1. ASSUME NEW uid \in Users, Accept(uid) PROVE Keeps
  BY <1>1, SameKeeps, SMTT(30) DEF Accept
<1>2. ASSUME NEW c \in Conns, NEW r \in Requests, PeerSend(c, r) PROVE Keeps
  BY <1>2, SameKeeps, SMTT(30) DEF PeerSend
<1>3. ASSUME NEW c \in Conns, PeerClose(c) PROVE Keeps
  BY <1>3, SameKeeps, SMTT(30) DEF PeerClose
<1>4. ASSUME NEW c \in Conns, ClientIo(c) PROVE Keeps
  BY <1>4, HangupKept, SameKeeps, Zenon DEF ClientIo, Receive, Writable
<1>5. CASE Handle
  <2>1. CASE JobStep
    BY <2>1, SameKeeps, SMTT(30) DEF JobStep
  <2> QED
    BY <1>5, <2>1, HandleKinds, PlainKept, EndKept, SMTT(30)
<1>6. CASE LoopStep
  <2>1. CASE Send \/ DrainNext
    BY <2>1, SameKeeps, SMTT(30) DEF Send, DrainNext
  <2>2. CASE FinalizeStep
    BY <2>2, CarriedKeeps, SMTT(30) DEF FinalizeStep
  <2> QED
    BY <1>5, <1>6, <2>1, <2>2, FinalizeKinds, SMTT(30) DEF LoopStep
<1>7. CASE Tick
  BY <1>7, AsyncKept, SameKeeps, Zenon DEF Tick, TickWrites
<1>8. CASE FlashStep \/ WriterStep
  <2>1. ThreadStep
    BY <1>8, ThreadKinds, SMTT(30)
  <2> QED
    BY <2>1, CarriedKeeps, SMTT(30) DEF ThreadStep
<1>9. CASE Reload \/ Shutdown
  BY <1>9, EndKept, SameKeeps, SMTT(30) DEF Reload
<1> QED
  BY <1>1, <1>2, <1>3, <1>4, <1>6, <1>7, <1>8, <1>9, SMTT(30) DEF Next

\* An open buffer goes away only by its owner's own request, after its owner has gone, or
\* with the device struct.
THEOREM BuffersStay == Spec => BuffersKept
<1>1. DaemonInv /\ [Next]_vars => [Keeps]_vars
  BY BuffersNext, SMTT(30)
<1> QED
  BY <1>1, DaemonSafe, PTL DEF Spec, BuffersKept, Keeps

------------------------------------------------------------------------------
(* Clock answers *)

\* The action NoOverclock speaks of.
Timed ==
    \A c \in Conns :
        /\ peer[c].asked.op = "clock_op" /\ peer[c].asked.cop = "set_round_down"
        /\ peer'[c].open /\ peer'[c].asked = NoRequest /\ Me.reply.ret = "OK"
        => Me.reply.value <= peer[c].asked.rate

\* A step that gives no peer its answer.
Unanswering == \A c \in Conns : peer'[c].open /\ peer'[c].asked = NoRequest => peer[c].asked = NoRequest

\* Such a step tells no peer of its clock.
LEMMA UnansweringTimed ==
    ASSUME Unanswering
    PROVE  Timed
<1>1. NoRequest.op # "clock_op"
  BY DEF NoRequest
<1> HIDE DEF NoRequest
<1> QED
  BY <1>1 DEF Unanswering, Timed

\* Nothing but a sent response answers a peer.
LEMMA OnlySendAnswers ==
    ASSUME DaemonInv, Next, ~Send
    PROVE  Unanswering
<1>0. peer \in [Conns -> Peers]
  BY DEF DaemonInv, TypeInv
<1>1. ASSUME UNCHANGED peer PROVE Unanswering
  BY <1>1 DEF Unanswering
<1>2. ASSUME NEW uid \in Users, Accept(uid) PROVE Unanswering
  <2>1. PICK n : peer' = [peer EXCEPT ![n].open = TRUE]
    BY <1>2, Zenon DEF Accept
  <2>2. \A c \in Conns : peer'[c].asked = peer[c].asked
    BY <1>0, <2>1, SMTT(30) DEF Peers
  <2> QED
    BY <2>2 DEF Unanswering
<1>3. ASSUME NEW c \in Conns, NEW r \in Requests, PeerSend(c, r) PROVE Unanswering
  <2>1. peer[c].asked = NoRequest /\ \A x \in Conns \ {c} : peer'[x] = peer[x]
    BY <1>0, <1>3, SMTT(30) DEF PeerSend
  <2> QED
    BY <2>1 DEF Unanswering
<1>4. ASSUME NEW c \in Conns, PeerClose(c) PROVE Unanswering
  <2>1. ~peer'[c].open /\ \A x \in Conns \ {c} : peer'[x] = peer[x]
    BY <1>0, <1>4, SMTT(30) DEF PeerClose, NoPeer
  <2> QED
    BY <2>1, SMTT(30) DEF Unanswering
<1>5. ASSUME NEW c \in Conns, ClientIo(c) PROVE Unanswering
  <2>1. CASE Receive(c)
    <3>1. peer' = [peer EXCEPT ![c].unread = FALSE]
      BY <2>1 DEF Receive
    <3>2. \A x \in Conns : peer'[x].asked = peer[x].asked
      BY <1>0, <3>1, SMTT(30) DEF Peers
    <3> QED
      BY <3>2 DEF Unanswering
  <2> QED
    BY <1>1, <1>5, <2>1, Zenon DEF ClientIo, Hangup, Writable
<1>6. CASE Shutdown
  <2>1. \A c \in Conns : ~peer'[c].open
    BY <1>6 DEF Shutdown, NoPeer
  <2> QED
    BY <2>1 DEF Unanswering
<1>7. CASE Handle
  <2>1. PlainStep \/ JobStep \/ RoleLookupAborts
    BY <1>7, HandleKinds, SMTT(30)
  <2>2. UNCHANGED peer
    BY <2>1, Zenon DEF PlainStep, JobStep, Stays, RoleLookupAborts
  <2> QED
    BY <1>1, <2>2
<1>8. CASE LoopStep
  <2>1. CASE FinalizeSkip \/ FinalizeWrite \/ FinalizeDangling
    BY <1>1, <2>1, FinalizeKinds, SMTT(30) DEF FinalizeStep, FinalizeOnly
  <2>2. CASE DrainNext
    BY <1>1, <2>2, SMTT(30) DEF DrainNext
  <2> QED
    BY <1>7, <1>8, <2>1, <2>2, SMTT(30) DEF LoopStep
<1>9. CASE Tick
  BY <1>1, <1>9, SMTT(30) DEF Tick, TickAsync, TickWrites
<1>10. CASE FlashStep \/ WriterStep
  BY <1>1, <1>10, ThreadKinds, SMTT(30) DEF ThreadStep
<1>11. CASE Reload
  BY <1>1, <1>11, SMTT(30) DEF Reload
<1> QED
  BY <1>2, <1>3, <1>4, <1>5, <1>6, <1>8, <1>9, <1>10, <1>11, SMTT(30) DEF Next

\* A response that is sent keeps what its client was promised.
LEMMA SendTimed ==
    ASSUME DaemonInv, Send
    PROVE  Timed
<1> DEFINE mine == Me.conn
<1>0. TypeInv /\ TalkInv /\ peer \in [Conns -> Peers]
  BY Zenon DEF DaemonInv, TypeInv
<1>1. loop.i \in DOMAIN clients /\ mine \in Conns /\ Talk(Me, peer[mine])
  BY <1>0, ConnFacts, SMTT(30) DEF TypeInv, TalkInv, Me, Send
<1>2. CASE peer[mine].open /\ peer' = [peer EXCEPT ![mine].asked = NoRequest]
  <2>1. \A x \in Conns : x # mine => peer'[x] = peer[x]
    BY <1>0, <1>2, SMTT(30)
  <2>2. /\ peer[mine].asked.op = "clock_op" /\ peer[mine].asked.cop = "set_round_down"
        /\ Me.reply.ret = "OK"
        => Me.reply.value <= peer[mine].asked.rate
    BY <1>1, <1>2, SMTT(30) DEF Talk
  <2>3. NoRequest.op # "clock_op"
    BY DEF NoRequest
  <2> HIDE DEF mine
  <2> QED
    BY <2>1, <2>2, <2>3, Zenon DEF Timed
<1>3. CASE UNCHANGED peer
  BY <1>3, UnansweringTimed DEF Unanswering
<1> QED
  BY <1>2, <1>3, SMTT(30) DEF Send, Me

\* A peer that was told a round-down clock request succeeded runs at most at the rate it
\* asked for (clock.c, the CLOCK_OP handler of serve.c).
THEOREM ClocksBounded == Spec => NoOverclock
<1>1. DaemonInv /\ [Next]_vars => [Timed]_vars
  BY OnlySendAnswers, SendTimed, UnansweringTimed
<1> QED
  BY <1>1, DaemonSafe, PTL DEF Spec, NoOverclock, Timed

==============================================================================

--------------------------- MODULE VrtdStepProofs ----------------------------
(***************************************************************************)
(* Every kind of step of the vrtd daemon that leaves the buffers of other  *)
(* clients alone keeps the invariant: the handlers, the background         *)
(* threads, the event loop, the peers and a reload of the configuration.   *)
(***************************************************************************)
EXTENDS VrtdInvariant, TLAPS

------------------------------------------------------------------------------
(* Sequences of any elements *)

\* The domain of a sequence.
LEMMA SeqFacts ==
    ASSUME NEW s, IsSeq(s)
    PROVE  Len(s) \in Nat /\ DOMAIN s = 1..Len(s)
BY DEF IsSeq

\* A function over 1..n is a sequence.
LEMMA SeqMade ==
    ASSUME NEW n \in Nat, NEW s, DOMAIN s = 1..n, s = [i \in 1..n |-> s[i]]
    PROVE  IsSeq(s) /\ Len(s) = n
<1>1. s \in [1..n -> Range(s)]
  BY DEF Range
<1> HIDE DEF Range
<1>2. s \in Seq(Range(s)) /\ Len(s) = n
  BY <1>1
<1> QED
  BY <1>2 DEF IsSeq

\* A sequence over some set is one over its own elements.
LEMMA SeqItself ==
    ASSUME NEW X, NEW s \in Seq(X)
    PROVE  IsSeq(s)
<1>1. Len(s) \in Nat /\ DOMAIN s = 1..Len(s) /\ s = [i \in 1..Len(s) |-> s[i]]
  OBVIOUS
<1> QED
  BY <1>1, SeqMade

\* One element replaced.
LEMMA SeqUpdate ==
    ASSUME NEW s, IsSeq(s), NEW i \in DOMAIN s, NEW e, NEW t, t = [s EXCEPT ![i] = e]
    PROVE  /\ IsSeq(t) /\ DOMAIN t = DOMAIN s /\ Len(t) = Len(s)
           /\ t[i] = e /\ \A j \in DOMAIN s : j # i => t[j] = s[j]
<1>1. Len(s) \in Nat /\ DOMAIN s = 1..Len(s)
  BY SeqFacts
<1>2. DOMAIN t = 1..Len(s) /\ t = [j \in 1..Len(s) |-> t[j]]
  BY <1>1, Zenon
<1>3. t[i] = e /\ \A j \in DOMAIN s : j # i => t[j] = s[j]
  BY <1>1
<1> QED
  BY <1>1, <1>2, <1>3, SeqMade

\* The sequence t is s with one element more.
Longer(s, e, t) ==
    /\ IsSeq(t) /\ DOMAIN t = 1..(Len(s) + 1)
    /\ t[Len(s) + 1] = e /\ \A j \in DOMAIN s : t[j] = s[j]
    /\ Range(t) = Range(s) \cup {e}

\* One element more.
LEMMA SeqAppend ==
    ASSUME NEW s, IsSeq(s), NEW e
    PROVE  Longer(s, e, Append(s, e))
<1>0. PICK t : t = Append(s, e)
  BY Zenon
<1> DEFINE X == Range(s) \cup {e}
<1>1. Len(s) \in Nat /\ DOMAIN s = 1..Len(s) /\ \A j \in DOMAIN s : s[j] \in X
  BY SeqFacts DEF Range
<1>2. s \in Seq(X) /\ e \in X
  <2>1. e \in X /\ s = [j \in 1..Len(s) |-> s[j]]
    BY DEF IsSeq
  <2> HIDE DEF X
  <2>2. s \in [1..Len(s) -> X]
    BY <1>1, <2>1
  <2> QED
    BY <1>1, <2>1, <2>2
<1> HIDE DEF X
<1>3. /\ t \in Seq(X) /\ Len(t) = Len(s) + 1 /\ t[Len(s) + 1] = e
      /\ \A j \in 1..Len(s) : t[j] = s[j]
  BY <1>0, <1>1, <1>2
<1>5. IsSeq(t)
  BY <1>3, SeqItself
<1>4. DOMAIN t = 1..(Len(s) + 1)
  BY <1>3, <1>5, SeqFacts
<1>6. Range(t) = Range(s) \cup {e}
  <2>1. \A j \in DOMAIN t : t[j] \in Range(s) \cup {e}
    BY <1>1, <1>3, <1>4 DEF Range
  <2>2. \A x \in Range(s) \cup {e} : \E j \in DOMAIN t : t[j] = x
    BY <1>1, <1>3, <1>4 DEF Range
  <2> QED
    BY <2>1, <2>2 DEF Range
<1>7. Longer(s, e, t)
  BY <1>1, <1>3, <1>4, <1>5, <1>6 DEF Longer
<1> QED
  BY <1>0, <1>7, Zenon

------------------------------------------------------------------------------
(* The device list *)

\* Nothing changed.
LEMMA Unmoved ==
    ASSUME NEW m, DmOk(m)
    PROVE  Carried(m, m)
BY DEF DmOk, Listed, Carried, Holds, Same

\* A list whose memory is carried over from one in agreement is in agreement.
LEMMA CarriedMemory ==
    ASSUME NEW m, NEW n, Carried(m, n), MemoryOk(m)
    PROVE  MemoryOk(n)
<1>1. Accounted(EmptyMap, << >>)
  BY DEF Accounted, EmptyMap
<1> QED
  BY <1>1 DEF MemoryOk, Carried, Holds, Fresh, Same

\* The operations that keep memory.
LEMMA CarriedMoved ==
    ASSUME NEW m, DmOk(m), MemoryOk(m), NEW n, Carried(m, n), NEW conn
    PROVE  Moved(m, n, conn)
<1>1. DmOk(n) /\ MemoryOk(n) /\ m.next <= n.next
  BY CarriedMemory DEF Carried, Holds
<1>2. ASSUME NEW e \in Listed(n)
      PROVE  \/ e.id >= m.next /\ \A k \in DOMAIN e.buffers : e.buffers[k].client = conn
             \/ \E d \in Listed(m) : OnlyOf(d, e, conn)
  <2>1. CASE Fresh(m, e)
    BY <2>1 DEF Fresh
  <2>2. CASE \E d \in Listed(m) : Same(d, e)
    BY <2>2 DEF Same, OnlyOf
  <2> QED
    BY <2>1, <2>2 DEF Carried, Holds
<1> QED
  BY <1>1, <1>2 DEF Moved

\* The owner of a buffer is a connection, numbered from 1.
LEMMA OwnerFacts ==
    ASSUME NEW m, DmOk(m), NEW d \in Listed(m), NEW k \in DOMAIN d.buffers
    PROVE  d.buffers[k].client \in Nat \ {0}
<1>0. d \in Devices
  BY DEF DmOk, Listed
<1>1. d.buffers \in Seq(Buffers)
  BY <1>0 DEF Devices
<1>2. d.buffers[k] \in Buffers
  BY <1>1
<1> QED
  BY <1>2 DEF Buffers

------------------------------------------------------------------------------
(* Struct client *)

\* The struct that has received a request, whose source is disabled, whose answer was
\* sent, and whose role was dropped.
WithRequest(c, r, fd) == [c EXCEPT !.req = r, !.in_fd = fd]

Disabled(c) == [c EXCEPT !.armed = FALSE]

WithReply(c, r) == [c EXCEPT !.reply = r]

WithRole(c, r) == [c EXCEPT !.role = r]

\* The fields of a struct that has received a request.
LEMMA RequestedClient ==
    ASSUME NEW c, IsClient(c), NEW r, NEW fd, NEW e, e = WithRequest(c, r, fd)
    PROVE  /\ IsClient(e) /\ e.conn = c.conn /\ e.uid = c.uid /\ e.role = c.role
           /\ e.pending = c.pending /\ e.reply = c.reply /\ e.req = r
BY Zenon DEF IsClient, WithRequest

\* Those of a struct whose source is disabled.
LEMMA DisabledClient ==
    ASSUME NEW c, IsClient(c), NEW e, e = Disabled(c)
    PROVE  /\ IsClient(e) /\ e.conn = c.conn /\ e.uid = c.uid /\ e.role = c.role
           /\ e.pending = c.pending /\ e.reply = c.reply /\ e.req = c.req
BY Zenon DEF IsClient, Disabled

\* Those of a struct whose answer was sent.
LEMMA RepliedClient ==
    ASSUME NEW c, IsClient(c), NEW r, NEW e, e = WithReply(c, r)
    PROVE  /\ IsClient(e) /\ e.conn = c.conn /\ e.uid = c.uid /\ e.role = c.role
           /\ e.pending = c.pending /\ e.reply = r /\ e.req = c.req
BY Zenon DEF IsClient, WithReply

\* Those of a struct whose role was dropped.
LEMMA UnroledClient ==
    ASSUME NEW c, IsClient(c), NEW r, NEW e, e = WithRole(c, r)
    PROVE  /\ IsClient(e) /\ e.conn = c.conn /\ e.uid = c.uid /\ e.role = r
           /\ e.pending = c.pending /\ e.reply = c.reply /\ e.req = c.req
BY Zenon DEF IsClient, WithRole

------------------------------------------------------------------------------
(* What the steps have in common *)

\* What holds at the start of a handler.
LEMMA HandlingFacts ==
    ASSUME Handling
    PROVE  /\ loop.i \in DOMAIN clients /\ IsClient(Me) /\ Me.conn \in Nat \ {0}
           /\ Req \in Requests /\ Me.pending = "none"
           /\ DmOk(dm) /\ MemoryOk(dm)
           /\ dm.list \in Seq(Devices)
           /\ \A k \in DOMAIN dm.list : dm.list[k] \in Listed(dm)
<1>1. loop.i \in DOMAIN clients /\ next_conn \in Nat
  BY DEF Handling, DaemonInv, TypeInv
<1>2. IsClient(Me) /\ Me.conn \in 1..next_conn
  BY <1>1 DEF Handling, DaemonInv, TypeInv, Me
<1>3. Req \in Requests /\ Me.pending = "none"
  BY <1>1 DEF Handling, DaemonInv, ReqInv, LoopInv, Req, Me
<1>4. DmOk(dm) /\ MemoryOk(dm)
  BY DEF Handling, DaemonInv, MemoryInv
<1>5. dm.list \in Seq(Devices) /\ \A k \in DOMAIN dm.list : dm.list[k] \in Listed(dm)
  BY <1>4 DEF DmOk, Listed
<1> QED
  BY <1>1, <1>2, <1>3, <1>4, <1>5

\* No client comes or goes.
SameClients ==
    /\ IsSeq(clients') /\ DOMAIN clients' = DOMAIN clients
    /\ \A j \in DOMAIN clients :
          /\ IsClient(clients'[j])
          /\ clients'[j].conn = clients[j].conn /\ clients'[j].uid = clients[j].uid

\* One struct changes.
LEMMA OneChanged ==
    ASSUME TypeInv, NEW i \in DOMAIN clients, NEW e, clients' = [clients EXCEPT ![i] = e],
           IsClient(e), e.conn = clients[i].conn, e.uid = clients[i].uid
    PROVE  /\ SameClients /\ clients'[i] = e
           /\ \A j \in DOMAIN clients : j # i => clients'[j] = clients[j]
<1>1. /\ IsSeq(clients') /\ DOMAIN clients' = DOMAIN clients /\ clients'[i] = e
      /\ \A j \in DOMAIN clients : j # i => clients'[j] = clients[j]
  BY SeqUpdate, Zenon DEF TypeInv
<1> QED
  BY <1>1 DEF SameClients, TypeInv

\* Every struct may change.
LEMMA AllChanged ==
    ASSUME TypeInv, DOMAIN clients' = DOMAIN clients,
           clients' = [j \in DOMAIN clients |-> clients'[j]],
           \A j \in DOMAIN clients :
              /\ IsClient(clients'[j])
              /\ clients'[j].conn = clients[j].conn /\ clients'[j].uid = clients[j].uid
    PROVE  SameClients
<1> DEFINE t == clients'
<1>1. Len(clients) \in Nat /\ DOMAIN clients = 1..Len(clients)
  BY SeqFacts DEF TypeInv
<1>2. DOMAIN t = 1..Len(clients) /\ t = [j \in 1..Len(clients) |-> t[j]]
  BY <1>1
<1> HIDE DEF t
<1>3. IsSeq(t)
  BY <1>1, <1>2, SeqMade
<1> QED
  BY <1>3 DEF SameClients, t

\* Nothing changes.
LEMMA NoneChanged ==
    ASSUME TypeInv, clients' = clients
    PROVE  SameClients
BY DEF SameClients, TypeInv

\* The same connections have their struct at the same place.
LEMMA SameIndex ==
    ASSUME TypeInv, SameClients, next_conn' = next_conn
    PROVE  /\ \A c : Index(c)' = Index(c)
           /\ \A j \in DOMAIN clients' : IsClient(clients'[j]) /\ clients'[j].conn \in 1..next_conn'
           /\ \A j, k \in DOMAIN clients' : clients'[j].conn = clients'[k].conn => j = k
           /\ Len(clients') = Len(clients)
<1>1. \A c : Index(c)' = Index(c)
  BY DEF SameClients, Index
<1>2. Len(clients') = Len(clients)
  BY SeqFacts DEF SameClients, TypeInv
<1> QED
  BY <1>1, <1>2, Zenon DEF SameClients, TypeInv

\* The connection of a struct is one of the model's.
LEMMA ConnFacts ==
    ASSUME TypeInv
    PROVE  \A j \in DOMAIN clients : clients[j].conn \in Conns
<1>1. MaxConns \in Nat /\ next_conn \in 0..MaxConns
  BY VrtdAssumption DEF TypeInv
<1>2. \A j \in DOMAIN clients : clients[j].conn \in 1..next_conn
  BY DEF TypeInv
<1> QED
  BY <1>1, <1>2 DEF Conns

\* Deferred cleanups stay those of connections without a struct.
LEMMA SameCleanups ==
    ASSUME TypeInv, CleanupInv, SameClients, UNCHANGED <<next_conn, cleanups>>
    PROVE  CleanupInv'
BY SameIndex DEF CleanupInv

\* Buffers keep their owners while only those of a connected client come or go.
LEMMA MovedOwned ==
    ASSUME BuffersOwned, NEW conn, Moved(dm, dm', conn), conn = 0 \/ Index(conn)' # {},
           \A c : Index(c) # {} => Index(c)' # {},
           cleanups' = cleanups, async_op => async_op'
    PROVE  BuffersOwned'
<1> SUFFICES ASSUME NEW e \in Listed(dm'), NEW k \in DOMAIN e.buffers
             PROVE  \/ Index(e.buffers[k].client)' # {}
                    \/ e.buffers[k].client \in Range(cleanups')
  BY DEF BuffersOwned
<1>1. e.buffers[k].client # 0
  BY OwnerFacts DEF Moved
<1>2. CASE e.buffers[k].client = conn
  BY <1>1, <1>2
<1>3. CASE \E d \in Listed(dm) : \E j \in DOMAIN d.buffers : d.buffers[j] = e.buffers[k]
  BY <1>3 DEF BuffersOwned
<1> QED
  BY <1>2, <1>3, Zenon DEF Moved, OnlyOf

\* Steps that keep all memory.
LEMMA CarriedOwned ==
    ASSUME BuffersOwned, MemoryInv, Carried(dm, dm'), \A c : Index(c) # {} => Index(c)' # {},
           cleanups' = cleanups, async_op => async_op'
    PROVE  BuffersOwned' /\ MemoryInv'
<1>1. Moved(dm, dm', 0)
  BY CarriedMoved DEF MemoryInv
<1>2. BuffersOwned'
  BY <1>1, MovedOwned
<1> QED
  BY <1>1, <1>2 DEF Moved, MemoryInv

\* Where the callback can stand after a handler.
LEMMA LoopAfter ==
    ASSUME loop \in Loops, NEW replied \in BOOLEAN, AfterHandler(replied)
    PROVE  /\ loop' \in Loops /\ loop'.at \in {"poll", "send", "drain"}
           /\ loop'.at = "send" => replied /\ loop'.i = loop.i
           /\ loop'.at = "drain" => ~async_op' /\ loop'.i # 0
<1>1. CASE loop' = Polling
  BY <1>1 DEF Polling, Loops
<1>2. CASE replied /\ loop' = [loop EXCEPT !.at = "send"]
  BY <1>2 DEF Loops
<1>3. CASE ~async_op' /\ loop' = [at |-> "drain", i |-> loop.i + 1, from |-> "none"]
  BY <1>3 DEF Loops
<1> QED
  BY <1>1, <1>2, <1>3 DEF AfterHandler

------------------------------------------------------------------------------
(* Handlers *)

\* The client of a handler, and the others.
LEMMA HandlerClients ==
    ASSUME DaemonInv, loop.at = "dispatch", Stays, IsFlash(flash'),
           NEW kind \in {"write", "device"}, AnswerStep \/ LaterStep(kind)
    PROVE  /\ TypeInv' /\ LoopInv' /\ RolesFollowConfig' /\ ReqInv' /\ TalkInv' /\ CleanupInv'
           /\ \A c : Index(c)' = Index(c)
           /\ DOMAIN clients' = DOMAIN clients
           /\ \A j \in DOMAIN clients : j # loop.i => clients'[j] = clients[j]
           /\ clients'[loop.i].conn = Me.conn /\ clients'[loop.i].pending \in {"none", kind}
           /\ loop'.at \in {"poll", "send", "drain"} /\ (loop'.at = "drain" => ~async_op')
<1> USE DEF DaemonInv
<1>1. /\ loop.i \in DOMAIN clients /\ IsClient(Me) /\ Req \in Requests /\ Req # NoRequest
      /\ Me.pending = "none"
  BY HandlingFacts DEF Handling, LoopInv
<1>2. PICK e : /\ Becomes(e)
               /\ \/ Replied(e) /\ AfterHandler(TRUE)
                  \/ Held(e, kind) /\ AfterHandler(FALSE)
  BY Zenon DEF AnswerStep, LaterStep
<1>3. /\ IsClient(e) /\ e.conn = Me.conn /\ e.uid = Me.uid /\ e.pending \in {"none", kind}
      /\ e.req \in {NoRequest, Req} /\ RoleKept(e.role)
  BY <1>1, <1>2, Zenon DEF Replied, Held
<1>4. /\ SameClients /\ clients'[loop.i] = e
      /\ \A j \in DOMAIN clients : j # loop.i => clients'[j] = clients[j]
  BY <1>1, <1>2, <1>3, OneChanged, Zenon DEF Becomes, Me
<1>5. /\ loop' \in Loops /\ loop'.at \in {"poll", "send", "drain"}
      /\ loop'.at = "send" => Replied(e) /\ loop'.i = loop.i
      /\ loop'.at = "drain" => ~async_op' /\ loop'.i # 0
  BY <1>2, LoopAfter, Zenon DEF TypeInv
<1>6. UNCHANGED <<up, config, cleanups, next_conn, peer>>
  BY DEF Stays
<1>7. /\ \A c : Index(c)' = Index(c)
      /\ DOMAIN clients' = DOMAIN clients /\ IsSeq(clients')
      /\ \A j \in DOMAIN clients' : IsClient(clients'[j]) /\ clients'[j].conn \in 1..next_conn'
      /\ \A j, k \in DOMAIN clients' : clients'[j].conn = clients'[k].conn => j = k
  BY <1>4, <1>6, SameIndex, Zenon DEF SameClients
<1>8. TypeInv'
  BY <1>1, <1>5, <1>6, <1>7, Zenon DEF TypeInv
<1>9. LoopInv'
  <2>1. Awaits(peer[Me.conn])
    BY <1>1, Zenon DEF TalkInv, Talk, AtRest, Awaits, Req, Me
  <2> QED
    BY <1>3, <1>4, <1>5, <1>6, <2>1, Zenon DEF LoopInv, Req, Me, Replied
<1>10. RolesFollowConfig'
  <2> SUFFICES ASSUME up, NEW j \in DOMAIN clients, clients'[j].role # NoRole
               PROVE  /\ config.loaded
                      /\ clients'[j].role = MergedRole(config, clients'[j].uid, GidsOf[clients'[j].uid])
    BY <1>6, <1>7 DEF RolesFollowConfig
  <2>1. CASE j # loop.i
    BY <1>4, <2>1 DEF RolesFollowConfig
  <2>2. CASE j = loop.i
    <3>1. e.role = Me.role \/ (Me.role = NoRole /\ config.loaded /\ e.role = MyRole)
      BY <1>3 DEF RoleKept, MyRole
    <3>2. CASE e.role = Me.role
      BY <1>1, <1>3, <1>4, <2>2, <3>2 DEF RolesFollowConfig, Me
    <3>3. CASE Me.role = NoRole /\ config.loaded /\ e.role = MyRole
      BY <1>3, <1>4, <2>2, <3>3 DEF MyRole
    <3> QED
      BY <3>1, <3>2, <3>3
  <2> QED
    BY <2>1, <2>2
<1>11. ReqInv'
  BY <1>1, <1>3, <1>4, <1>7 DEF ReqInv
<1>12. TalkInv'
  <2> SUFFICES ASSUME NEW j \in DOMAIN clients
               PROVE  Talk(clients'[j], peer[clients'[j].conn])
    BY <1>6, <1>7, Zenon DEF TalkInv
  <2>1. Talk(clients[j], peer[clients[j].conn])
    BY DEF TalkInv
  <2>2. CASE j # loop.i
    BY <1>4, <2>1, <2>2, Zenon
  <2>3. CASE j = loop.i
    <3> DEFINE p == peer[Me.conn]
    <3>1. Talk(Me, p)
      BY <2>1, <2>3 DEF Me
    <3> HIDE DEF p
    <3>2. Talk(e, p)
      <4>1. CASE Replied(e)
        BY <1>1, <3>1, <4>1 DEF Talk, AtRest, Replied, Req
      <4>2. CASE Held(e, kind)
        BY <1>1, <3>1, <4>2 DEF Talk, AtRest, Held, Req
      <4> QED
        BY <1>2, <4>1, <4>2, Zenon
    <3> QED
      BY <1>3, <1>4, <2>3, <3>2, Zenon DEF p
  <2> QED
    BY <2>2, <2>3
<1>13. CleanupInv'
  BY <1>4, <1>6, SameCleanups
<1> QED
  BY <1>3, <1>4, <1>5, <1>7, <1>8, <1>9, <1>10, <1>11, <1>12, <1>13, Zenon

\* The handlers that start no job.
LEMMA PlainKeeps ==
    ASSUME DaemonInv, PlainStep
    PROVE  DaemonInv'
<1> USE DEF DaemonInv
<1>1. /\ loop.at = "dispatch" /\ Stays /\ UNCHANGED <<async_op, flash>> /\ Moved(dm, dm', Me.conn)
      /\ AnswerStep \/ LaterStep("write")
  BY DEF PlainStep
<1>2. /\ TypeInv' /\ LoopInv' /\ RolesFollowConfig' /\ ReqInv' /\ TalkInv' /\ CleanupInv'
      /\ \A c : Index(c)' = Index(c)
      /\ DOMAIN clients' = DOMAIN clients
      /\ \A j \in DOMAIN clients : j # loop.i => clients'[j] = clients[j]
      /\ clients'[loop.i].conn = Me.conn /\ clients'[loop.i].pending \in {"none", "write"}
      /\ loop'.at \in {"poll", "send", "drain"} /\ (loop'.at = "drain" => ~async_op')
  BY <1>1, HandlerClients, Zenon DEF TypeInv
<1>3. loop.i \in DOMAIN clients /\ Me.pending = "none"
  BY <1>1, HandlingFacts, Zenon DEF Handling
<1>4. BusyInv'
  <2>1. CASE ~async_op
    BY <1>1, <2>1 DEF BusyInv
  <2>2. CASE async_op
    <3>1. Req.op = "cfgmem_status" /\ dm' = dm /\ AnswerStep
      BY <1>1, <2>2 DEF BusyInv, PlainStep
    <3>2. clients'[loop.i].pending = "none"
      <4>1. PICK e : Becomes(e) /\ Replied(e)
        BY <3>1 DEF AnswerStep
      <4>2. IsSeq(clients)
        BY DEF TypeInv
      <4>3. clients'[loop.i] = e
        BY <1>3, <4>1, <4>2, SeqUpdate DEF Becomes
      <4> QED
        BY <1>3, <4>1, <4>3 DEF Replied
    <3>3. ~AnyDesignWriteActive'
      BY <1>2, <2>2, <3>1, <3>2 DEF BusyInv, AnyDesignWriteActive
    <3> QED
      BY <1>1, <1>2, <2>2, <3>3 DEF BusyInv
  <2> QED
    BY <2>1, <2>2
<1>5. WaitsForOwnJob'
  BY <1>1, <1>2 DEF WaitsForOwnJob
<1>6. PICK mine : mine = Me.conn
  OBVIOUS
<1>8. Index(mine) # {} /\ Index(mine)' # {}
  BY <1>2, <1>3, <1>6 DEF Index, Me
<1>7. BuffersOwned' /\ MemoryInv'
  <2>1. cleanups' = cleanups
    BY <1>1 DEF Stays
  <2>2. BuffersOwned'
    BY <1>1, <1>2, <1>6, <1>8, <2>1, MovedOwned, SMTT(30)
  <2> QED
    BY <1>1, <2>2 DEF Moved, MemoryInv
<1> QED
  BY <1>2, <1>4, <1>5, <1>7

\* The handlers that start a job.
LEMMA JobKeeps ==
    ASSUME DaemonInv, JobStep
    PROVE  DaemonInv'
<1> USE DEF DaemonInv
<1>1. /\ loop.at = "dispatch" /\ Stays /\ dm' = dm /\ ~WorkerBusy /\ async_op' = TRUE
      /\ IsFlash(flash') /\ flash'.owner = Me.conn
      /\ AnswerStep \/ LaterStep("device")
  BY DEF JobStep
<1>2. /\ TypeInv' /\ LoopInv' /\ RolesFollowConfig' /\ ReqInv' /\ TalkInv' /\ CleanupInv'
      /\ \A c : Index(c)' = Index(c)
      /\ DOMAIN clients' = DOMAIN clients
      /\ \A j \in DOMAIN clients : j # loop.i => clients'[j] = clients[j]
      /\ clients'[loop.i].conn = Me.conn /\ clients'[loop.i].pending \in {"none", "device"}
      /\ loop'.at \in {"poll", "send", "drain"} /\ (loop'.at = "drain" => ~async_op')
  BY <1>1, HandlerClients
<1>3. ~async_op /\ ~AnyDesignWriteActive
  BY <1>1 DEF WorkerBusy
<1>4. BusyInv'
  <2>1. ~AnyDesignWriteActive'
    BY <1>1, <1>2, <1>3 DEF AnyDesignWriteActive
  <2> QED
    BY <1>1, <1>2, <2>1 DEF BusyInv
<1>5. WaitsForOwnJob'
  BY <1>1, <1>2, <1>3 DEF WaitsForOwnJob
<1>6. BuffersOwned' /\ MemoryInv'
  <2>1. cleanups' = cleanups /\ Carried(dm, dm')
    BY <1>1, Unmoved DEF Stays, MemoryInv
  <2> QED
    BY <1>1, <1>2, <2>1, CarriedOwned
<1> QED
  BY <1>2, <1>4, <1>5, <1>6

------------------------------------------------------------------------------
(* Background threads *)

\* A step of a thread preserves the invariant.
LEMMA ThreadKeeps ==
    ASSUME DaemonInv, ThreadStep
    PROVE  DaemonInv'
<1> USE DEF DaemonInv
<1>1. UNCHANGED <<up, config, clients, async_op, cleanups, loop, next_conn, peer>>
  BY DEF ThreadStep
<1>2. TypeInv' /\ LoopInv' /\ RolesFollowConfig' /\ ReqInv' /\ TalkInv' /\ CleanupInv'
  <2>1. TypeInv'
    BY <1>1, Zenon DEF TypeInv, ThreadStep
  <2>2. LoopInv' /\ RolesFollowConfig' /\ ReqInv' /\ TalkInv'
    BY <1>1, Zenon DEF LoopInv, RolesFollowConfig, ReqInv, TalkInv, Req, Me
  <2>3. CleanupInv'
    BY <1>1, NoneChanged, SameCleanups
  <2> QED
    BY <2>1, <2>2, <2>3
<1>3. BusyInv'
  <2>1. async_op => ~AnyDesignWriteActive'
    <3>1. (async_op => Quiet(dm)) /\ Carried(dm, dm')
      BY DEF BusyInv, AnyDesignWriteActive, Quiet, ThreadStep
    <3>2. async_op => Quiet(dm')
      BY <3>1 DEF Carried
    <3> QED
      BY <1>1, <3>2 DEF BusyInv, AnyDesignWriteActive, Quiet
  <2> QED
    BY <1>1, <2>1 DEF BusyInv, ThreadStep, Req, Me
<1>4. WaitsForOwnJob'
  BY <1>1 DEF WaitsForOwnJob, ThreadStep
<1>5. BuffersOwned' /\ MemoryInv'
  <2>1. \A c : Index(c)' = Index(c)
    BY <1>1, NoneChanged, SameIndex, SMTT(30)
  <2> QED
    BY <1>1, <2>1, CarriedOwned DEF ThreadStep
<1> QED
  BY <1>2, <1>3, <1>4, <1>5

------------------------------------------------------------------------------
(* Steps of the event loop *)

\* The callback moves on and nothing else happens.
LEMMA LoopKeeps ==
    ASSUME DaemonInv,
           UNCHANGED <<up, config, dm, clients, async_op, cleanups, flash, next_conn, peer, sent>>,
           loop' \in Loops,
           loop'.at \in {"dispatch", "send", "finalize"} => loop'.i \in DOMAIN clients,
           loop'.at = "drain" => loop'.i # 0,
           loop'.at = "dispatch" =>
               clients[loop'.i].req # NoRequest /\ clients[loop'.i].pending = "none",
           loop'.at = "send" =>
               clients[loop'.i].req = NoRequest /\ Awaits(peer[clients[loop'.i].conn]),
           async_op => loop'.at \in {"poll", "send"}
    PROVE  DaemonInv'
<1> USE DEF DaemonInv
<1>1. TypeInv' /\ LoopInv'
  BY Zenon DEF TypeInv, LoopInv, Req, Me
<1>2. BusyInv' /\ WaitsForOwnJob' /\ RolesFollowConfig' /\ ReqInv' /\ TalkInv'
  BY Zenon DEF BusyInv, AnyDesignWriteActive, WaitsForOwnJob, RolesFollowConfig, ReqInv, TalkInv
<1>3. CleanupInv' /\ BuffersOwned' /\ MemoryInv'
  BY Zenon DEF CleanupInv, BuffersOwned, MemoryInv, Index
<1> QED
  BY <1>1, <1>2, <1>3

\* The loop looks for the next deferred request, or at a finished write or a writable client.
LEMMA DrainKeeps ==
    ASSUME DaemonInv, DrainNext \/ TickWrites \/ \E c \in Conns : Writable(c)
    PROVE  DaemonInv'
<1>1. /\ Len(clients) \in Nat /\ DOMAIN clients = 1..Len(clients) /\ loop \in Loops
      /\ TypeInv /\ BusyInv /\ TalkInv
  BY SeqFacts, Zenon DEF DaemonInv, TypeInv
<1>2. CASE DrainNext
  <2>1. loop.at = "drain" /\ loop.i \in Nat \ {0} /\ ~async_op
    BY <1>1, <1>2 DEF DrainNext, TypeInv, BusyInv, Loops
  <2>2. UNCHANGED <<up, config, dm, clients, async_op, cleanups, flash, next_conn, peer, sent>>
    BY <1>2 DEF DrainNext
  <2>3. CASE loop' = Polling
    <3>1. loop' \in Loops /\ loop'.at = "poll"
      BY <2>3 DEF Polling, Loops
    <3> QED
      BY <2>2, <3>1, LoopKeeps, Zenon
  <2>4. CASE loop' = [loop EXCEPT !.i = @ + 1]
    <3>1. loop' \in Loops /\ loop'.at = "drain" /\ loop'.i # 0
      BY <1>1, <2>1, <2>4 DEF Loops
    <3> QED
      BY <2>1, <2>2, <3>1, LoopKeeps
  <2>5. CASE /\ ~(loop.i > Len(clients)) /\ Me.req # NoRequest /\ Me.pending = "none"
             /\ loop' = [loop EXCEPT !.at = "dispatch", !.from = "drain"]
    <3>1. loop' \in Loops /\ loop'.at = "dispatch" /\ loop'.i = loop.i
      BY <1>1, <2>1, <2>5, Zenon DEF Loops
    <3>2. loop.i \in DOMAIN clients
      BY <1>1, <2>1, <2>5
    <3> QED
      BY <2>1, <2>2, <2>5, <3>1, <3>2, LoopKeeps DEF Me
  <2> QED
    BY <1>2, <2>3, <2>4, <2>5 DEF DrainNext
<1>3. CASE TickWrites
  <2>1. loop' \in Loops /\ loop'.at = "finalize" /\ loop'.i = 1
    BY <1>3 DEF TickWrites, Loops
  <2>2. 1 \in DOMAIN clients
    BY <1>1, <1>3 DEF TickWrites
  <2>3. /\ UNCHANGED <<up, config, dm, clients, async_op, cleanups, flash, next_conn, peer, sent>>
        /\ ~async_op
    BY <1>3 DEF TickWrites
  <2> QED
    BY <2>1, <2>2, <2>3, LoopKeeps, Zenon
<1>4. ASSUME NEW c \in Conns, Writable(c)
      PROVE  DaemonInv'
  <2>1. PICK i \in Index(c) : /\ clients[i].reply # NoReply
                              /\ loop' = [at |-> "send", i |-> i, from |-> "io"]
    BY <1>4 DEF Writable
  <2>2. i \in DOMAIN clients /\ clients[i].conn = c /\ peer[c].open
    BY <1>4, <2>1, Zenon DEF Index, Writable
  <2>3. clients[i].req = NoRequest /\ Awaits(peer[clients[i].conn])
    BY <1>1, <2>1, <2>2, Zenon DEF TalkInv, Talk, AtRest, Awaits
  <2>4. loop' \in Loops /\ loop'.at = "send" /\ loop'.i = i
    BY <1>1, <2>1, <2>2 DEF Loops
  <2>5. UNCHANGED <<up, config, dm, clients, async_op, cleanups, flash, next_conn, peer, sent>>
    BY <1>4 DEF Writable
  <2> QED
    BY <2>2, <2>3, <2>4, <2>5, LoopKeeps, Zenon
<1> QED
  BY <1>2, <1>3, <1>4

\* Finalizing a design write preserves the invariant.
LEMMA FinalizeKeeps ==
    ASSUME DaemonInv, FinalizeStep
    PROVE  DaemonInv'
<1> USE DEF DaemonInv
<1>1. /\ loop.at = "finalize" /\ Carried(dm, dm') /\ (up' => up)
      /\ UNCHANGED <<config, async_op, cleanups, flash, next_conn, peer>>
  BY DEF FinalizeStep, FinalizeOnly
<1>2. /\ loop.i \in DOMAIN clients /\ ~async_op /\ flash.step = "idle" /\ loop \in Loops
      /\ Len(clients) \in Nat /\ DOMAIN clients = 1..Len(clients)
  BY <1>1, SeqFacts, Zenon DEF TypeInv, BusyInv
<1>3. loop' \in Loops /\ loop'.at \in {"poll", "finalize"}
      /\ (loop'.at = "finalize" => loop'.i \in DOMAIN clients)
  <2>1. CASE loop' = loop
    BY <1>1, <1>2, <2>1
  <2>2. CASE loop' = Polling
    BY <2>2 DEF Polling, Loops
  <2>3. CASE loop.i # Len(clients) /\ loop' = [loop EXCEPT !.i = @ + 1]
    <3>1. loop' \in Loops /\ loop'.at = "finalize" /\ loop'.i = loop.i + 1
      BY <1>1, <1>2, <2>3 DEF Loops
    <3> QED
      BY <1>2, <2>3, <3>1
  <2> QED
    BY <2>1, <2>2, <2>3 DEF FinalizeStep, NextWrite
<1>4. /\ SameClients
      /\ \A j \in DOMAIN clients :
            \/ clients'[j] = clients[j]
            \/ j = loop.i /\ Finished(clients'[j])
  <2>1. CASE clients' = clients
    BY <2>1, NoneChanged
  <2>2. ASSUME NEW e, Becomes(e), Finished(e)
        PROVE  /\ SameClients
               /\ \A j \in DOMAIN clients :
                     \/ clients'[j] = clients[j]
                     \/ j = loop.i /\ Finished(clients'[j])
    BY <1>2, <2>2, OneChanged, Zenon DEF Becomes, Finished, Me
  <2> QED
    BY <2>1, <2>2, Zenon DEF FinalizeStep
<1>5. /\ \A c : Index(c)' = Index(c)
      /\ DOMAIN clients' = DOMAIN clients /\ IsSeq(clients')
      /\ \A j \in DOMAIN clients' : IsClient(clients'[j]) /\ clients'[j].conn \in 1..next_conn'
      /\ \A j, k \in DOMAIN clients' : clients'[j].conn = clients'[k].conn => j = k
  BY <1>1, <1>4, SameIndex, Zenon DEF SameClients
<1>6. TypeInv'
  BY <1>1, <1>3, <1>5, Zenon DEF TypeInv
<1>7. LoopInv' /\ BusyInv'
  BY <1>1, <1>2, <1>3, Zenon DEF LoopInv, BusyInv
<1>8. WaitsForOwnJob'
  BY <1>1, <1>2, <1>4, <1>5, Zenon DEF WaitsForOwnJob, Finished
<1>9. RolesFollowConfig'
  <2>1. \A j \in DOMAIN clients : clients'[j].role = clients[j].role /\ clients'[j].uid = clients[j].uid
    BY <1>4, Zenon DEF Finished, SameClients, Me
  <2> QED
    BY <1>1, <1>5, <2>1, Zenon DEF RolesFollowConfig
<1>10. ReqInv'
  BY <1>4, <1>5, Zenon DEF ReqInv, Finished
<1>11. TalkInv'
  <2> SUFFICES ASSUME NEW j \in DOMAIN clients
               PROVE  Talk(clients'[j], peer[clients'[j].conn])
    BY <1>1, <1>5, Zenon DEF TalkInv
  <2> DEFINE p == peer[clients[j].conn]
  <2>1. Talk(clients[j], p) /\ clients'[j].conn = clients[j].conn
    BY <1>4, Zenon DEF TalkInv, SameClients
  <2>2. CASE j = loop.i /\ Finished(clients'[j])
    <3>1. clients[j].pending = "write" /\ clients'[j].pending = "none" /\ clients'[j].req = NoRequest
      BY <2>2 DEF Finished, Me
    <3> HIDE DEF p
    <3>2. Talk(clients'[j], p)
      BY <2>1, <3>1, Zenon DEF Talk, AtRest
    <3> QED
      BY <2>1, <3>2, Zenon DEF p
  <2> QED
    BY <1>4, <2>1, <2>2, Zenon
<1>12. CleanupInv'
  BY <1>1, <1>4, SameCleanups, Zenon
<1>13. BuffersOwned' /\ MemoryInv'
  BY <1>1, <1>5, CarriedOwned, Zenon
<1> QED
  BY <1>6, <1>7, <1>8, <1>9, <1>10, <1>11, <1>12, <1>13, SMTT(30)

------------------------------------------------------------------------------
(* Peers *)

\* A step that changes only the peers.
LEMMA PeerKeeps ==
    ASSUME DaemonInv,
           UNCHANGED <<up, config, dm, clients, async_op, cleanups, flash, loop, next_conn>>,
           peer' \in [Conns -> Peers],
           \A c \in Conns : peer'[c].open => peer[c].open,
           \A c \in Conns : peer'[c].unread => peer'[c].asked # NoRequest,
           \A c \in Conns : Awaits(peer[c]) => Awaits(peer'[c]),
           TalkInv'
    PROVE  DaemonInv'
<1> USE DEF DaemonInv
<1>1. TypeInv'
  BY Zenon DEF TypeInv
<1>2. LoopInv'
  <2>1. loop.at = "send" => Me.conn \in Conns
    BY ConnFacts, Zenon DEF TypeInv, Me
  <2> QED
    BY <2>1, Zenon DEF LoopInv, Req, Me
<1>3. BusyInv' /\ WaitsForOwnJob' /\ RolesFollowConfig' /\ ReqInv'
  BY Zenon DEF BusyInv, AnyDesignWriteActive, WaitsForOwnJob, RolesFollowConfig, ReqInv, Req, Me
<1>4. CleanupInv' /\ BuffersOwned' /\ MemoryInv'
  BY Zenon DEF CleanupInv, BuffersOwned, MemoryInv, Index
<1> QED
  BY <1>1, <1>2, <1>3, <1>4

\* A peer sends a request or closes its socket.
LEMMA PeersKeep ==
    ASSUME DaemonInv, NEW c \in Conns, PeerClose(c) \/ \E r \in Requests : PeerSend(c, r)
    PROVE  DaemonInv'
<1>1. peer \in [Conns -> Peers] /\ TypeInv /\ TalkInv
  BY Zenon DEF DaemonInv, TypeInv
<1>2. UNCHANGED <<up, config, dm, clients, async_op, cleanups, flash, loop, next_conn>>
  BY Zenon DEF PeerClose, PeerSend
<1>3. CASE PeerClose(c)
  <2>1. peer' = [peer EXCEPT ![c] = NoPeer]
    BY <1>3 DEF PeerClose
  <2>2. NoPeer \in Peers /\ ~NoPeer.open /\ ~NoPeer.unread
    BY DEF NoPeer, Peers
  <2> HIDE DEF NoPeer
  <2>3. peer' \in [Conns -> Peers] /\ \A x \in Conns : peer'[x] = IF x = c THEN NoPeer ELSE peer[x]
    BY <1>1, <2>1, <2>2
  <2>4. TalkInv'
    <3> SUFFICES ASSUME NEW j \in DOMAIN clients
                 PROVE  Talk(clients[j], peer'[clients[j].conn])
      BY <1>2 DEF TalkInv
    <3>1. Talk(clients[j], peer[clients[j].conn]) /\ clients[j].conn \in Conns
      BY <1>1, ConnFacts DEF TalkInv
    <3>2. CASE clients[j].conn = c
      BY <2>2, <2>3, <3>2, Zenon DEF Talk
    <3> QED
      BY <2>3, <3>1, <3>2, Zenon
  <2> QED
    BY <1>1, <1>2, <2>2, <2>3, <2>4, PeerKeeps, Zenon DEF TypeInv, Awaits
<1>4. ASSUME NEW r \in Requests, PeerSend(c, r)
      PROVE  DaemonInv'
  <2> DEFINE p == [peer[c] EXCEPT !.asked = r, !.unread = TRUE]
  <2>1. peer' = [peer EXCEPT ![c] = p] /\ peer[c].open /\ peer[c].asked = NoRequest
    BY <1>4, Zenon DEF PeerSend
  <2>2. r # NoRequest
    BY RequestsAssumption DEF NoRequest
  <2>3. p \in Peers /\ p.open = peer[c].open /\ p.asked = r /\ p.unread
    BY <1>1, Zenon DEF Peers
  <2> HIDE DEF p
  <2>4. peer' \in [Conns -> Peers] /\ \A x \in Conns : peer'[x] = IF x = c THEN p ELSE peer[x]
    BY <1>1, <2>1, <2>3
  <2>5. ASSUME NEW j \in DOMAIN clients
        PROVE  Talk(clients[j], peer'[clients[j].conn])
    <3>1. Talk(clients[j], peer[clients[j].conn]) /\ clients[j].conn \in Conns
      BY <1>1, ConnFacts DEF TalkInv
    <3>2. CASE clients[j].conn = c
      <4>1. AtRest(clients[j])
        BY <2>1, <3>1, <3>2, Zenon DEF Talk
      <4>2. clients[j].reply.ret # "OK"
        BY <4>1 DEF AtRest, NoReply
      <4> QED
        BY <2>2, <2>3, <2>4, <3>1, <3>2, <4>1, <4>2, Zenon DEF Talk, AtRest
    <3> QED
      BY <2>4, <3>1, <3>2, Zenon
  <2>6. TalkInv'
    BY <1>2, <2>5 DEF TalkInv
  <2> QED
    BY <1>1, <1>2, <2>1, <2>2, <2>3, <2>4, <2>6, PeerKeeps, Zenon DEF TypeInv, Awaits
<1> QED
  BY <1>3, <1>4

\* A new connection: a number of its own, nothing to answer.
LEMMA AcceptKeeps ==
    ASSUME DaemonInv, NEW uid, Accept(uid)
    PROVE  DaemonInv'
<1> USE DEF DaemonInv
<1> DEFINE n == next_conn + 1
           new == NewClient(n, uid)
           p == [peer[n] EXCEPT !.open = TRUE]
<1>1. /\ loop.at = "poll" /\ next_conn \in Nat /\ next_conn' = n /\ n \in Conns
      /\ clients' = Append(clients, new) /\ peer' = [peer EXCEPT ![n] = p]
      /\ UNCHANGED <<up, config, dm, async_op, cleanups, flash, loop>>
  <2>1. next_conn \in 0..MaxConns /\ MaxConns \in Nat /\ next_conn < MaxConns
    BY VrtdAssumption DEF Accept, TypeInv
  <2>2. n \in Conns /\ next_conn \in Nat
    BY <2>1 DEF Conns
  <2> QED
    BY <2>2 DEF Accept
<1>2. /\ IsClient(new) /\ new.conn = n /\ new.role = NoRole /\ AtRest(new)
  BY Zenon DEF NewClient, IsClient, AtRest
<1> HIDE DEF new
<1>3. /\ IsSeq(clients') /\ DOMAIN clients' = 1..(Len(clients) + 1)
      /\ clients'[Len(clients) + 1] = new
      /\ \A j \in DOMAIN clients : clients'[j] = clients[j]
  <2>1. IsSeq(clients)
    BY DEF TypeInv
  <2>2. Longer(clients, new, clients')
    BY <1>1, <2>1, SeqAppend, SMTT(30)
  <2> QED
    BY <2>2 DEF Longer
<1>4. /\ Len(clients) \in Nat /\ DOMAIN clients = 1..Len(clients)
      /\ DOMAIN clients' = DOMAIN clients \cup {Len(clients) + 1}
  BY <1>3, SeqFacts, SMTT(30) DEF TypeInv
<1>5. \A j \in DOMAIN clients' :
         \/ j \in DOMAIN clients /\ clients'[j] = clients[j]
         \/ j = Len(clients) + 1 /\ j \notin DOMAIN clients /\ clients'[j] = new
  BY <1>3, <1>4
<1>6. \A j \in DOMAIN clients : clients[j].conn \in 1..next_conn /\ clients[j].conn # n
  BY <1>1 DEF TypeInv
<1>7. p \in Peers /\ p.open /\ p.asked = peer[n].asked /\ p.unread = peer[n].unread
  BY <1>1, ZenonT(40) DEF TypeInv, Peers
<1>8. peer' \in [Conns -> Peers] /\ \A x \in Conns : peer'[x] = IF x = n THEN p ELSE peer[x]
  BY <1>1, <1>7 DEF TypeInv
<1>9. TypeInv'
  <2>1. next_conn' \in 0..MaxConns
    BY <1>1, VrtdAssumption DEF Conns
  <2>2. \A j \in DOMAIN clients' : IsClient(clients'[j]) /\ clients'[j].conn \in 1..next_conn'
    BY <1>1, <1>2, <1>5, <1>6 DEF TypeInv
  <2>3. \A j, k \in DOMAIN clients' : clients'[j].conn = clients'[k].conn => j = k
    BY <1>2, <1>5, <1>6 DEF TypeInv
  <2>4. \A c \in Conns : /\ peer'[c].open => c <= next_conn'
                         /\ peer'[c].unread => peer'[c].asked # NoRequest
    BY <1>1, <1>7, <1>8 DEF TypeInv, Conns
  <2> QED
    BY <1>1, <1>3, <1>8, <2>1, <2>2, <2>3, <2>4 DEF TypeInv
<1>10. LoopInv'
  BY <1>1 DEF LoopInv
<1>11. BusyInv' /\ WaitsForOwnJob' /\ ReqInv'
  <2>1. new.pending = "none" /\ new.req = NoRequest
    BY <1>2 DEF AtRest
  <2>2. AnyDesignWriteActive' => AnyDesignWriteActive
    BY <1>1, <1>5, <2>1 DEF AnyDesignWriteActive
  <2> QED
    BY <1>1, <1>5, <2>1, <2>2 DEF BusyInv, WaitsForOwnJob, ReqInv
<1>12. RolesFollowConfig'
  BY <1>1, <1>2, <1>5 DEF RolesFollowConfig
<1>13. TalkInv'
  <2> SUFFICES ASSUME NEW j \in DOMAIN clients'
               PROVE  Talk(clients'[j], peer'[clients'[j].conn])
    BY DEF TalkInv
  <2>1. CASE j \in DOMAIN clients
    <3>1. clients'[j] = clients[j] /\ peer'[clients[j].conn] = peer[clients[j].conn]
      BY <1>1, <1>3, <1>6, <1>8, <2>1 DEF Conns
    <3> QED
      BY <2>1, <3>1 DEF TalkInv
  <2>2. CASE clients'[j] = new
    <3>1. new.reply.ret # "OK" /\ new.req = NoRequest /\ new.pending = "none"
      BY <1>2 DEF AtRest, NoReply
    <3> QED
      BY <1>2, <2>2, <3>1, Zenon DEF Talk
  <2> QED
    BY <1>5, <2>1, <2>2
<1>14. \A c : /\ Index(c) # {} => Index(c)' # {}
              /\ c # n /\ Index(c) = {} => Index(c)' = {}
  BY <1>2, <1>3, <1>4, <1>5 DEF Index
<1>15. CleanupInv'
  BY <1>1, <1>14 DEF CleanupInv
<1>16. BuffersOwned' /\ MemoryInv'
  BY <1>1, <1>14, CarriedOwned, Unmoved DEF MemoryInv
<1> QED
  BY <1>9, <1>10, <1>11, <1>12, <1>13, <1>15, <1>16

\* One struct changes in a step that leaves the devices alone.
LEMMA ClientKeeps ==
    ASSUME DaemonInv, UNCHANGED <<up, config, dm, async_op, cleanups, flash, next_conn>>,
           NEW i \in DOMAIN clients, NEW e, clients' = [clients EXCEPT ![i] = e],
           IsClient(e), e.conn = clients[i].conn, e.uid = clients[i].uid, e.role = clients[i].role,
           e.pending = clients[i].pending, e.req \in Requests \cup {NoRequest},
           peer' \in [Conns -> Peers],
           \A c \in Conns : /\ peer'[c].open = peer[c].open
                            /\ peer'[c].unread => peer'[c].asked # NoRequest
                            /\ c # e.conn => peer'[c] = peer[c],
           Talk(e, peer'[e.conn]),
           \/ loop' = Polling
           \/ loop' = loop /\ loop.at = "poll"
           \/ /\ loop' = [at |-> "dispatch", i |-> i, from |-> "io"]
              /\ e.req # NoRequest /\ e.pending = "none"
              /\ async_op => e.req.op = "cfgmem_status"
    PROVE  DaemonInv'
<1> USE DEF DaemonInv
<1>1. /\ SameClients /\ clients'[i] = e
      /\ \A j \in DOMAIN clients : j # i => clients'[j] = clients[j]
  BY OneChanged, Zenon
<1>2. /\ \A c : Index(c)' = Index(c)
      /\ DOMAIN clients' = DOMAIN clients /\ IsSeq(clients')
      /\ \A j \in DOMAIN clients' : IsClient(clients'[j]) /\ clients'[j].conn \in 1..next_conn'
      /\ \A j, k \in DOMAIN clients' : clients'[j].conn = clients'[k].conn => j = k
  BY <1>1, SameIndex, Zenon DEF SameClients
<1>3. /\ loop' \in Loops
      /\ loop'.at = "poll" \/ /\ loop'.at = "dispatch" /\ loop'.i = i
                              /\ e.req # NoRequest /\ e.pending = "none"
                              /\ async_op => e.req.op = "cfgmem_status"
  <2>1. CASE loop' = Polling
    BY <2>1 DEF Polling, Loops
  <2>2. CASE loop' = loop /\ loop.at = "poll"
    BY <2>2, Zenon DEF TypeInv
  <2>3. CASE loop' = [at |-> "dispatch", i |-> i, from |-> "io"]
    <3>1. i \in Nat
      BY SeqFacts DEF TypeInv
    <3>2. loop' \in Loops /\ loop'.at = "dispatch" /\ loop'.i = i /\ loop' # Polling
      BY <2>3, <3>1 DEF Loops, Polling
    <3>3. ~(loop' = loop /\ loop.at = "poll")
      BY <3>2
    <3> QED
      BY <3>2, <3>3, SMTT(30)
  <2> QED
    BY <2>1, <2>2, <2>3, Zenon
<1>4. TypeInv'
  <2>1. \A c \in Conns : /\ peer'[c].open => c <= next_conn'
                         /\ peer'[c].unread => peer'[c].asked # NoRequest
    BY Zenon DEF TypeInv
  <2> QED
    BY <1>2, <1>3, <2>1, Zenon DEF TypeInv
<1>5. LoopInv'
  BY <1>1, <1>3, Zenon DEF LoopInv, Req, Me
<1>6. BusyInv'
  <2>1. AnyDesignWriteActive' => AnyDesignWriteActive
    BY <1>1, <1>2, ZenonT(40) DEF AnyDesignWriteActive
  <2> QED
    BY <1>1, <1>3, <2>1, Zenon DEF BusyInv, Req, Me
<1>7. WaitsForOwnJob' /\ ReqInv'
  BY <1>1, <1>2, ZenonT(40) DEF WaitsForOwnJob, ReqInv
<1>8. RolesFollowConfig'
  BY <1>1, <1>2 DEF RolesFollowConfig
<1>9. TalkInv'
  <2> SUFFICES ASSUME NEW j \in DOMAIN clients
               PROVE  Talk(clients'[j], peer'[clients'[j].conn])
    BY <1>2, Zenon DEF TalkInv
  <2>1. CASE j = i
    BY <1>1, <2>1, Zenon
  <2>2. CASE j # i
    <3>1. clients'[j] = clients[j] /\ clients[j].conn # e.conn /\ clients[j].conn \in Conns
      BY <1>1, <2>2, ConnFacts, Zenon DEF TypeInv
    <3>2. peer'[clients[j].conn] = peer[clients[j].conn]
      BY <3>1
    <3> QED
      BY <3>1, <3>2 DEF TalkInv
  <2> QED
    BY <2>1, <2>2
<1>10. CleanupInv'
  BY <1>1, SameCleanups
<1>11. BuffersOwned' /\ MemoryInv'
  BY <1>2, CarriedOwned, Unmoved, Zenon DEF MemoryInv
<1> QED
  BY <1>4, <1>5, <1>6, <1>7, <1>8, <1>9, <1>10, <1>11, Zenon

\* A request arrives.
LEMMA ReceiveKeeps ==
    ASSUME DaemonInv, NEW c \in Conns, Receive(c)
    PROVE  DaemonInv'
<1> DEFINE r == peer[c].asked
           q == [peer[c] EXCEPT !.unread = FALSE]
<1>0. TypeInv /\ TalkInv
  BY DEF DaemonInv
<1>1. /\ loop.at = "poll" /\ peer[c].open /\ peer[c].unread /\ peer' = [peer EXCEPT ![c] = q]
      /\ UNCHANGED <<up, config, dm, async_op, cleanups, flash, next_conn>>
  BY DEF Receive
<1>2. PICK i \in DOMAIN clients :
         /\ clients[i].conn = c
         /\ IF r.op = "unframed"
            THEN clients' = [clients EXCEPT ![i].armed = FALSE] /\ UNCHANGED loop
            ELSE /\ clients' = [clients EXCEPT ![i] = [@ EXCEPT !.req = r, !.in_fd = r.fd]]
                 /\ loop' = IF MayDispatch(r)
                              THEN [at |-> "dispatch", i |-> i, from |-> "io"] ELSE loop
  BY Zenon DEF Receive, Index
<1>3. IsClient(clients[i]) /\ AtRest(clients[i])
  BY <1>0, <1>1, <1>2 DEF TypeInv, TalkInv, Talk
<1>4. r \in Requests /\ r # NoRequest
  BY <1>0, <1>1 DEF TypeInv, Peers
<1>5. q \in Peers /\ q.open = peer[c].open /\ q.asked = r /\ q.unread = FALSE
  BY <1>0, Zenon DEF TypeInv, Peers
<1> HIDE DEF q
<1>6. peer' \in [Conns -> Peers] /\ \A x \in Conns : peer'[x] = IF x = c THEN q ELSE peer[x]
  BY <1>0, <1>1, <1>5, Zenon DEF TypeInv
<1>7. \A x \in Conns : /\ peer'[x].open = peer[x].open
                       /\ peer'[x].unread => peer'[x].asked # NoRequest
                       /\ x # c => peer'[x] = peer[x]
  BY <1>0, <1>5, <1>6, Zenon DEF TypeInv
<1>8. ASSUME NEW e, IsClient(e), e.conn = c, e.uid = clients[i].uid, e.role = clients[i].role,
             e.pending = clients[i].pending, e.reply = clients[i].reply,
             e.req = NoRequest \/ e.req = r,
             clients' = [clients EXCEPT ![i] = e],
             \/ loop' = loop
             \/ /\ loop' = [at |-> "dispatch", i |-> i, from |-> "io"]
                /\ e.req = r /\ MayDispatch(r)
      PROVE  DaemonInv'
  <2>1. e.pending = "none" /\ e.reply = NoReply /\ e.reply.ret # "OK"
    BY <1>3, <1>8 DEF AtRest, NoReply
  <2>2. Talk(e, peer'[e.conn])
    BY <1>4, <1>5, <1>6, <1>8, <2>1, Zenon DEF Talk
  <2>3. \/ loop' = Polling
        \/ loop' = loop /\ loop.at = "poll"
        \/ /\ loop' = [at |-> "dispatch", i |-> i, from |-> "io"]
           /\ e.req # NoRequest /\ e.pending = "none"
           /\ async_op => e.req.op = "cfgmem_status"
    BY <1>1, <1>4, <1>8, <2>1 DEF MayDispatch
  <2>4. e.req \in Requests \cup {NoRequest}
    BY <1>4, <1>8
  <2> QED
    BY <1>1, <1>2, <1>6, <1>7, <1>8, <2>2, <2>3, <2>4, ClientKeeps, Zenon
<1>9. CASE r.op = "unframed"
  <2> DEFINE e == Disabled(clients[i])
  <2>2. clients' = [clients EXCEPT ![i] = e] /\ loop' = loop
    BY <1>2, <1>9 DEF Disabled
  <2>3. /\ IsClient(e) /\ e.conn = clients[i].conn /\ e.uid = clients[i].uid
        /\ e.role = clients[i].role /\ e.pending = clients[i].pending
        /\ e.reply = clients[i].reply /\ e.req = clients[i].req
    BY <1>3, DisabledClient, Zenon
  <2> HIDE DEF e
  <2> QED
    BY <1>2, <1>3, <1>8, <2>2, <2>3, Zenon DEF AtRest
<1>10. CASE r.op # "unframed"
  <2> DEFINE e == WithRequest(clients[i], r, r.fd)
  <2>2. /\ clients' = [clients EXCEPT ![i] = e]
        /\ loop' = IF MayDispatch(r) THEN [at |-> "dispatch", i |-> i, from |-> "io"] ELSE loop
    BY <1>2, <1>10, SMTT(30) DEF WithRequest
  <2>3. /\ IsClient(e) /\ e.conn = clients[i].conn /\ e.uid = clients[i].uid
        /\ e.role = clients[i].role /\ e.pending = clients[i].pending
        /\ e.reply = clients[i].reply /\ e.req = r
    BY <1>3, Zenon DEF IsClient, WithRequest
  <2> HIDE DEF e
  <2> QED
    BY <1>2, <1>8, <2>2, <2>3, Zenon
<1> QED
  BY <1>9, <1>10

\* An answer goes out, or the source of the client is disabled.
LEMMA SendKeeps ==
    ASSUME DaemonInv, Send
    PROVE  DaemonInv'
<1> DEFINE c == Me.conn
<1>0. TypeInv /\ TalkInv /\ LoopInv /\ ReqInv
  BY DEF DaemonInv
<1>1. /\ loop.at = "send" /\ loop' = Polling
      /\ UNCHANGED <<up, config, dm, async_op, cleanups, flash, next_conn>>
  BY DEF Send
<1>2. /\ loop.i \in DOMAIN clients /\ IsClient(Me) /\ c \in Conns /\ Talk(Me, peer[c])
      /\ Me.req = NoRequest /\ Awaits(peer[c]) /\ Me.req \in Requests \cup {NoRequest}
  BY <1>0, <1>1, ConnFacts, Zenon DEF TypeInv, TalkInv, LoopInv, ReqInv, Req, Me
<1>5. PICK i \in DOMAIN clients : i = loop.i /\ Me = clients[i]
  BY <1>2, Zenon DEF Me
<1>6. ASSUME NEW e, IsClient(e), e.conn = c, e.uid = Me.uid, e.role = Me.role,
             e.pending = Me.pending, e.req = NoRequest, clients' = [clients EXCEPT ![i] = e],
             peer' \in [Conns -> Peers],
             \A x \in Conns : /\ peer'[x].open = peer[x].open
                              /\ peer'[x].unread => peer'[x].asked # NoRequest
                              /\ x # c => peer'[x] = peer[x],
             Talk(e, peer'[c])
      PROVE  DaemonInv'
  BY <1>1, <1>5, <1>6, ClientKeeps, Zenon
<1>3. CASE /\ peer[c].open
           /\ clients' = [clients EXCEPT ![loop.i].reply = NoReply]
           /\ peer' = [peer EXCEPT ![c].asked = NoRequest]
  <2> DEFINE e == WithReply(Me, NoReply)
             q == [peer[c] EXCEPT !.asked = NoRequest]
  <2>1. clients' = [clients EXCEPT ![i] = e] /\ peer' = [peer EXCEPT ![c] = q]
    BY <1>3, <1>5, SMTT(30) DEF WithReply
  <2>2. /\ IsClient(e) /\ e.conn = Me.conn /\ e.uid = Me.uid /\ e.role = Me.role
        /\ e.pending = Me.pending /\ e.reply = NoReply /\ e.req = NoRequest
    BY <1>2, Zenon DEF IsClient, WithReply
  <2> HIDE DEF e
  <2>3. q \in Peers /\ q.open = peer[c].open /\ q.asked = NoRequest /\ q.unread = peer[c].unread
    BY <1>0, <1>2 DEF TypeInv, Peers
  <2> HIDE DEF q
  <2>4. peer' \in [Conns -> Peers] /\ \A x \in Conns : peer'[x] = IF x = c THEN q ELSE peer[x]
    BY <1>0, <1>2, <2>1, <2>3, Zenon DEF TypeInv
  <2>5. \A x \in Conns : /\ peer'[x].open = peer[x].open
                         /\ peer'[x].unread => peer'[x].asked # NoRequest
                         /\ x # e.conn => peer'[x] = peer[x]
    BY <1>0, <1>2, <1>3, <2>2, <2>3, <2>4, SMTT(30) DEF TypeInv, Awaits
  <2>6. e.pending = "none" /\ e.reply.ret # "OK"
    BY <1>2, <1>3, <2>2 DEF Talk, NoReply
  <2>7. Talk(e, peer'[e.conn])
    BY <2>2, <2>6, Zenon DEF Talk, AtRest
  <2> QED
    BY <1>6, <2>1, <2>2, <2>4, <2>5, <2>7, Zenon
<1>4. CASE clients' = [clients EXCEPT ![loop.i].armed = FALSE] /\ UNCHANGED peer
  <2> DEFINE e == Disabled(Me)
  <2>1. clients' = [clients EXCEPT ![i] = e]
    BY <1>4, <1>5 DEF Disabled
  <2>2. /\ IsClient(e) /\ e.conn = Me.conn /\ e.uid = Me.uid /\ e.role = Me.role
        /\ e.pending = Me.pending /\ e.reply = Me.reply /\ e.req = Me.req
    BY <1>2, DisabledClient, Zenon
  <2> HIDE DEF e
  <2>3. Talk(e, peer'[e.conn])
    BY <1>2, <1>4, <2>2 DEF Talk, AtRest
  <2>4. /\ peer' \in [Conns -> Peers]
        /\ \A x \in Conns : peer'[x].unread => peer'[x].asked # NoRequest
    BY <1>0, <1>4 DEF TypeInv
  <2> QED
    BY <1>2, <1>4, <1>6, <2>1, <2>2, <2>3, <2>4, Zenon
<1> QED
  BY <1>3, <1>4, Zenon DEF Send, Me

------------------------------------------------------------------------------
(* Signals *)

\* A reload drops every role with the configuration it came from.
LEMMA ReloadKeeps ==
    ASSUME DaemonInv, Reload
    PROVE  DaemonInv'
<1> USE DEF DaemonInv
<1>1. /\ loop.at = "poll"
      /\ UNCHANGED <<up, dm, async_op, cleanups, flash, loop, next_conn, peer>>
  BY DEF Reload
<1>2. \A j \in DOMAIN clients :
         LET e == clients'[j]
             c == clients[j]
         IN /\ IsClient(e) /\ e.conn = c.conn /\ e.uid = c.uid /\ e.role = NoRole
            /\ e.pending = c.pending /\ e.reply = c.reply /\ e.req = c.req
  <2>1. \A j \in DOMAIN clients : clients'[j] = WithRole(clients[j], NoRole)
    BY DEF Reload, WithRole
  <2>2. \A j \in DOMAIN clients : IsClient(clients[j])
    BY Zenon DEF TypeInv
  <2> QED
    BY <2>1, <2>2, UnroledClient
<1>3. SameClients
  <2>1. DOMAIN clients' = DOMAIN clients /\ clients' = [j \in DOMAIN clients |-> clients'[j]]
    BY DEF Reload
  <2> QED
    BY <1>2, <2>1, AllChanged
<1>4. /\ \A c : Index(c)' = Index(c)
      /\ DOMAIN clients' = DOMAIN clients /\ IsSeq(clients')
      /\ \A j \in DOMAIN clients' : IsClient(clients'[j]) /\ clients'[j].conn \in 1..next_conn'
      /\ \A j, k \in DOMAIN clients' : clients'[j].conn = clients'[k].conn => j = k
  BY <1>1, <1>3, SameIndex, Zenon DEF SameClients
<1>5. TypeInv'
  BY <1>1, <1>4, Zenon DEF TypeInv
<1>6. LoopInv'
  BY <1>1 DEF LoopInv
<1>7. BusyInv'
  <2>1. AnyDesignWriteActive' => AnyDesignWriteActive
    BY <1>1, <1>2, <1>4 DEF AnyDesignWriteActive
  <2> QED
    BY <1>1, <2>1 DEF BusyInv
<1>8. WaitsForOwnJob' /\ ReqInv'
  BY <1>1, <1>2, <1>4, Zenon DEF WaitsForOwnJob, ReqInv
<1>9. RolesFollowConfig'
  BY <1>2, <1>4, Zenon DEF RolesFollowConfig
<1>10. TalkInv'
  <2> SUFFICES ASSUME NEW j \in DOMAIN clients
               PROVE  Talk(clients'[j], peer[clients'[j].conn])
    BY <1>1, <1>4, Zenon DEF TalkInv
  <2>1. Talk(clients[j], peer[clients[j].conn])
    BY DEF TalkInv
  <2> QED
    BY <1>2, <2>1, Zenon DEF Talk, AtRest
<1>11. CleanupInv'
  BY <1>1, <1>3, SameCleanups
<1>12. BuffersOwned' /\ MemoryInv'
  BY <1>1, <1>4, CarriedOwned, Unmoved, Zenon DEF MemoryInv
<1> QED
  BY <1>5, <1>6, <1>7, <1>8, <1>9, <1>10, <1>11, <1>12

==============================================================================

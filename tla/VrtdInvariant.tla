---------------------------- MODULE VrtdInvariant ----------------------------
(***************************************************************************)
(* The inductive invariant of the vrtd daemon, and the kinds of steps that *)
(* its handlers and its threads come down to.                              *)
(*                                                                         *)
(* DaemonInv is inductive. Its parts beyond the properties themselves say  *)
(* where the event loop can be and what a connection and its peer agree    *)
(* on.                                                                     *)
(***************************************************************************)
EXTENDS Vrtd, VrtdDeviceInvariant

------------------------------------------------------------------------------
(* The inductive invariant *)

IsSeq(s) == s \in Seq(Range(s))

\* A struct client: a record with these fields.
IsClient(c) ==
    c \in [conn : {c.conn}, uid : {c.uid}, role : {c.role}, req : {c.req}, in_fd : {c.in_fd},
           reply : {c.reply}, pending : {c.pending}, wdev : {c.wdev}, armed : {c.armed}]

\* The flash worker's record.
IsFlash(f) ==
    f \in [step : {f.step}, kind : {f.kind}, dev : {f.dev}, bdf : {f.bdf},
           partition : {f.partition}, owner : {f.owner}, job : {f.job}, result : {f.result}]

Peers == [open : BOOLEAN, asked : Requests \cup {NoRequest}, unread : BOOLEAN]

Loops == [at : {"poll", "dispatch", "send", "drain", "finalize"}, i : Nat,
          from : {"none", "io", "drain"}]

\* Connections are numbered in the order of their arrival and never reused; a callback
\* that is under way stands at a client of the list.
TypeInv ==
    /\ IsSeq(clients) /\ next_conn \in 0..MaxConns
    /\ \A i \in DOMAIN clients : IsClient(clients[i]) /\ clients[i].conn \in 1..next_conn
    /\ \A i, j \in DOMAIN clients : clients[i].conn = clients[j].conn => i = j
    /\ loop \in Loops
    /\ loop.at \in {"dispatch", "send", "finalize"} => loop.i \in DOMAIN clients
    /\ loop.at = "drain" => loop.i # 0
    /\ IsFlash(flash)
    /\ peer \in [Conns -> Peers]
    /\ \A c \in Conns :
          /\ peer[c].open => c <= next_conn
          /\ peer[c].unread => peer[c].asked # NoRequest

\* A peer that is connected waits for an answer.
Awaits(p) == p.open => p.asked # NoRequest /\ ~p.unread

\* A handler runs for a request that nobody has answered yet, an answer is sent for one
\* that is done with.
LoopInv ==
    /\ loop.at = "dispatch" => Req # NoRequest /\ Me.pending = "none"
    /\ loop.at = "send" => Req = NoRequest /\ Awaits(peer[Me.conn])

\* An async operation keeps the loop away from the device list until its result is
\* delivered, also after the worker has published it.
BusyInv ==
    /\ flash.step # "idle" => async_op
    /\ async_op =>
          /\ ~AnyDesignWriteActive
          /\ loop.at = "dispatch" => Req.op = "cfgmem_status"
          /\ loop.at \notin {"drain", "finalize"}

\* A client of which the daemon has nothing to answer.
AtRest(c) == c.req = NoRequest /\ c.reply = NoReply /\ c.pending = "none"

\* A connected peer p and its client struct c: the peer waits for the answer to the
\* request the struct holds, a request that is answered later is not a clock request, and
\* a successful round-down answer reports at most the rate asked for.
Talk(c, p) ==
    p.open =>
        /\ p.asked = NoRequest \/ p.unread => AtRest(c)
        /\ c.req # NoRequest => c.req = p.asked /\ c.reply = NoReply
        /\ c.pending # "none" => c.req # NoRequest /\ c.req.op # "clock_op"
        /\ p.asked.op = "clock_op" /\ p.asked.cop = "set_round_down" /\ c.reply.ret = "OK"
              => c.reply.value <= p.asked.rate

TalkInv == \A i \in DOMAIN clients : Talk(clients[i], peer[clients[i].conn])

\* Requests are those of the model also after their peer has gone.
ReqInv == \A i \in DOMAIN clients : clients[i].req \in Requests \cup {NoRequest}

\* Deferred cleanups are of connections that have no client struct any more.
CleanupInv ==
    /\ IsSeq(cleanups)
    /\ \A c \in Range(cleanups) : c \in 1..next_conn /\ Index(c) = {}

MemoryInv == DmOk(dm) /\ MemoryOk(dm)

DaemonInv ==
    /\ TypeInv /\ LoopInv /\ BusyInv /\ WaitsForOwnJob /\ RolesFollowConfig
    /\ ReqInv /\ TalkInv /\ CleanupInv /\ BuffersOwned /\ MemoryInv

------------------------------------------------------------------------------
(* What a handler can do *)

\* From m to n: memory stays accounted, structs are the ones of m or were opened since,
\* and only buffers of conn come or go.
Moved(m, n, conn) ==
    /\ DmOk(n) /\ MemoryOk(n) /\ m.next <= n.next
    /\ \A e \in Listed(n) :
          \/ e.id >= m.next /\ \A k \in DOMAIN e.buffers : e.buffers[k].client = conn
          \/ \E d \in Listed(m) : OnlyOf(d, e, conn)

Stays == UNCHANGED <<up, config, cleanups, next_conn, peer, sent>>

\* The role a handler leaves: the one it found, or the one ensure_role looked up.
RoleKept(role) == role = Me.role \/ (role = MyRole /\ (Me.role # NoRole \/ config.loaded))

\* The struct e is the dispatched client's with its request answered.
Replied(e) ==
    /\ IsClient(e) /\ e.conn = Me.conn /\ e.uid = Me.uid /\ e.pending = Me.pending
    /\ e.req = NoRequest /\ RoleKept(e.role)
    /\ Req.op = "clock_op" /\ Req.cop = "set_round_down" /\ e.reply.ret = "OK"
          => e.reply.value <= Req.rate

\* The struct e is the dispatched client's with its request left for later.
Held(e, kind) ==
    /\ IsClient(e) /\ e.conn = Me.conn /\ e.uid = Me.uid /\ e.pending = kind
    /\ e.req = Req /\ e.reply = Me.reply /\ RoleKept(e.role) /\ Req.op # "clock_op"

Becomes(e) == clients' = [clients EXCEPT ![loop.i] = e]

\* The handler answered.
AnswerStep == AfterHandler(TRUE) /\ \E e : Becomes(e) /\ Replied(e)

\* The handler leaves the answer to a background thread.
LaterStep(kind) == AfterHandler(FALSE) /\ \E e : Becomes(e) /\ Held(e, kind)

\* The handlers that start no job of the flash worker.
PlainStep ==
    /\ loop.at = "dispatch" /\ Stays /\ UNCHANGED <<async_op, flash>>
    /\ Moved(dm, dm', Me.conn)
    /\ Req.op = "cfgmem_status" => dm' = dm
    /\ AnswerStep \/ (Req.op # "cfgmem_status" /\ LaterStep("write"))

\* The handlers that start one.
JobStep ==
    /\ loop.at = "dispatch" /\ Stays /\ dm' = dm
    /\ ~WorkerBusy /\ async_op' = TRUE /\ IsFlash(flash') /\ flash'.owner = Me.conn
    /\ Req.op # "cfgmem_status"
    /\ AnswerStep \/ LaterStep("device")

\* What holds at the start of every handler.
Handling == DaemonInv /\ loop.at = "dispatch"

------------------------------------------------------------------------------
(* The background threads and the end of a job *)

\* A step of the flash worker or of a design writer: the memory of every device is kept
\* and the worker keeps its job.
ThreadStep ==
    /\ UNCHANGED <<up, config, clients, async_op, cleanups, loop, next_conn, peer, sent>>
    /\ Carried(dm, dm')
    /\ IsFlash(flash') /\ flash'.owner = flash.owner
    /\ flash'.step # "idle" => flash.step # "idle"

\* The struct e is the finalized client's with its design write answered.
Finished(e) ==
    /\ IsClient(e) /\ e.conn = Me.conn /\ e.uid = Me.uid /\ e.role = Me.role
    /\ Me.pending = "write" /\ e.pending = "none" /\ e.req = NoRequest

\* A turn of the design write loop.
FinalizeStep ==
    /\ loop.at = "finalize" /\ FinalizeOnly /\ Carried(dm, dm') /\ (up' => up)
    /\ loop' = loop \/ NextWrite
    /\ clients' = clients \/ \E e : Becomes(e) /\ Finished(e)

==============================================================================

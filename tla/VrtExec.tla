------------------------------ MODULE VrtExec ------------------------------
(***************************************************************************)
(* Running a compiled graph: Execution::launch and wait on any number of   *)
(* host threads, one CPU worker per host queue, one image per FPGA queue   *)
(* executed by RP1, and the signal slots, bridges and memories they share. *)
(*                                                                         *)
(* A case is a compiled graph (plan) with the input scalars to try, how    *)
(* often it is run, who calls, and the kernel failures and slow waits to   *)
(* allow.  A behaviour picks one case and stays with it.                   *)
(*                                                                         *)
(* RP1 takes the next packet it can complete in scan order; with nothing   *)
(* to do it may stand anywhere in its scan.  Its completion queue has room *)
(* here: a full one is a subject of Rp1Loop.                               *)
(***************************************************************************)
EXTENDS VrtLower, VrtMeaning

CONSTANT Cases

VARIABLES
  sc,      \* the case: the compiled graph, its inputs, how often it may run and fail
  ph,      \* Execution::Phase, and the next root to launch
  fin,     \* per run: its Completion, open, ok or error
  thr,     \* host threads: where in launch() or wait(), and for which run
  inp,     \* input scalars of the current run
  cpuq,    \* CPU queues
  im,      \* FPGA images
  store,   \* buffers, aliases, the scalar map, scalar slots
  slots,   \* rendezvous slots
  stag,    \* bridge operations: semaphore and staged value
  brd,     \* per device: the image loaded, and ready, dead or poisoned
  spare    \* failures and slow waits still allowed in this run

api == <<sc, ph, fin, thr, inp>>
vars == <<sc, ph, fin, thr, inp, cpuq, im, store, slots, stag, brd, spare>>

Case == sc
P == Case.plan
Node(x, i) == P.progs[x].node[i]
CpuQueues == {x \in Range(P.queues) : ~P.fpga[x]}
Images == {x \in Range(P.queues) : P.fpga[x] /\ P.frame[x] = "main"}
Runs == 1..Case.runs
Run == Cardinality({r \in Runs : fin[r] # "none"})

----------------------------------------------------------------------------
(* Memory.                                                                 *)

RECURSIVE canonicalBufferKey(_, _)
canonicalBufferKey(al, k) == IF k \in DOMAIN al THEN canonicalBufferKey(al, al[k]) ELSE k

hasBuffer(m, d, k) == canonicalBufferKey(m.alias[d], k) \in DOMAIN m.buf[d]
getOutputBuffer(m, d, k) == m.buf[d][canonicalBufferKey(m.alias[d], k)]
setInputBuffer(m, d, k, v) ==
  [m EXCEPT !.buf[d] = (canonicalBufferKey(m.alias[d], k) :> v) @@ @]

Slot(m, d, k) == IF <<d, k>> \in DOMAIN m.slot THEN m.slot[<<d, k>>] ELSE 0
SetSlot(m, d, k, v) == [m EXCEPT !.slot = (<<d, k>> :> v) @@ @]
SetScalar(m, k, v) == [m EXCEPT !.host = (k :> v) @@ @]

\* A scalar with a slot on the device is read there, any other in the map.
readable(m, d, k) == <<d, k>> \in P.scalars \/ k \in DOMAIN m.host
readScalar(m, d, k) == IF <<d, k>> \in P.scalars THEN Slot(m, d, k) ELSE m.host[k]
writeScalar(m, d, k, v) ==
  IF <<d, k>> \in P.scalars THEN SetSlot(SetScalar(m, k, v), d, k, v) ELSE SetScalar(m, k, v)

\* aliasBufferKey: the target's storage becomes the source's.
aliasBufferKey(m, d, target, source) ==
  LET s == canonicalBufferKey(m.alias[d], source)
      t == canonicalBufferKey(m.alias[d], target)
  IN  IF s = t THEN m ELSE [m EXCEPT !.alias[d] = (t :> s) @@ @]

\* One pass over the alias requests: storage on either side decides.
aliasPass(m, d, seq) ==
  Chain(LAMBDA n, p : IF hasBuffer(n, d, p[1]) THEN aliasBufferKey(n, d, p[2], p[1])
                      ELSE IF hasBuffer(n, d, p[2]) THEN aliasBufferKey(n, d, p[1], p[2])
                      ELSE n, m, seq)
unresolved(m, d, seq) ==
  SelectSeq(seq, LAMBDA p : ~hasBuffer(m, d, p[1]) /\ ~hasBuffer(m, d, p[2]))

RECURSIVE aliasFixpoint(_, _, _)
aliasFixpoint(m, d, seq) ==
  LET n == aliasPass(m, d, seq) IN IF n = m THEN n ELSE aliasFixpoint(n, d, seq)

awaitingRootInput(m, d, seq) ==
  \E p \in Range(unresolved(m, d, seq)) : p[1][2] = 0 /\ p[2][2] # 0

Zero == <<"zero", {}, {}>>

\* resolveDeferredBufferAliases past the staging wait.
resolveDeferredBufferAliases(m, d, seq) ==
  Chain(LAMBDA n, p : aliasBufferKey(
                        IF hasBuffer(n, d, p[1]) THEN n ELSE setInputBuffer(n, d, p[1], Zero),
                        d, p[2], p[1]),
        m, unresolved(m, d, seq))

----------------------------------------------------------------------------
(* Kernels and transfers.                                                  *)

ScalarsReady(n, m) == \A a \in n.snap : a[2] \in DOMAIN m.host
BuffersReady(n, m, d) == \A a \in n.ins : hasBuffer(m, d, a[2])

Store(m, n, d, bufs, scals) ==
  Chain(LAMBDA w, o : setInputBuffer(w, d, o[2], BufferResult(n.kernel, o[1], bufs, scals)),
        m, Listed(n.outs))

\* CpuDevicePlan::executeKernel.
executeKernel(m, n, d) ==
  LET bufs == {<<a[1], getOutputBuffer(m, d, a[2])>> : a \in n.ins}
      scals == {<<a[1], m.host[a[2]]>> : a \in n.snap}
  IN  Chain(LAMBDA w, o : SetScalar(w, o[2], ScalarResult(scals)),
            Store(m, n, d, bufs, scals), Listed(n.souts))

\* A kernel of an image: its arguments are what was patched in at launch, and what
\* was forwarded between kernels; its scalars go to slots.
runFpgaKernel(m, n, d, snap) ==
  LET bufs == {<<a[1], getOutputBuffer(m, d, a[2])>> : a \in n.ins}
      scals == {<<a[1], snap[a[2]]>> : a \in n.snap}
                 \cup {<<a[1], Slot(m, d, a[2])>> : a \in n.fwd}
  IN  Chain(LAMBDA w, o : SetSlot(w, d, o[2], ScalarResult(scals)),
            Store(m, n, d, bufs, scals), Listed(n.souts))

Bridge(v) == <<v.route, v.leg>>
NothingStaged == [ready |-> FALSE, value |-> <<>>, scalar |-> 0]

\* The producer half snapshots the source, the consumer half writes the copy.
moveReady(v, m) ==
  v.half # "consume" => CASE v.payload = "buffer" -> hasBuffer(m, v.s[1], v.s[2])
                          [] v.payload = "scalar" -> readable(m, v.s[1], v.s[2])
                          [] OTHER -> TRUE
produce(m, v) ==
  [ready |-> TRUE,
   value |-> IF v.payload = "buffer" THEN getOutputBuffer(m, v.s[1], v.s[2]) ELSE <<>>,
   scalar |-> IF v.payload = "scalar" THEN readScalar(m, v.s[1], v.s[2]) ELSE 0]
consume(m, v, s) ==
  CASE v.payload = "buffer" -> setInputBuffer(m, v.d[1], v.d[2], s.value)
    [] v.payload = "scalar" -> writeScalar(m, v.d[1], v.d[2], s.scalar)
    [] OTHER -> m

\* The moves of one step in order; w is <<store, stag>>.
transfer(w, v) ==
  LET old == w[2][Bridge(v)]
  IN  CASE v.half = "produce" -> <<w[1], [w[2] EXCEPT ![Bridge(v)] = produce(w[1], v)]>>
        [] v.half = "consume" ->
             <<consume(w[1], v, old), [w[2] EXCEPT ![Bridge(v)].ready = FALSE]>>
        [] OTHER -> <<consume(w[1], v, produce(w[1], v)), w[2]>>

\* executeBoundary and publishControlValue: values copied under new names.
copyReady(m, d, k) == IF k[1] = "scalar" THEN k \in DOMAIN m.host ELSE hasBuffer(m, d, k)
copyValue(m, d, from, to) ==
  IF from[1] = "scalar" THEN SetScalar(m, to, m.host[from])
  ELSE setInputBuffer(m, d, to, getOutputBuffer(m, d, from))
copyAll(m, d, pairs) == Chain(LAMBDA w, p : copyValue(w, d, p[1], p[2]), m, Listed(pairs))

----------------------------------------------------------------------------
(* A CPU queue: a FIFO of commands to run, a set to poll, and at most one  *)
(* control command in progress.                                            *)

NoCtl == [at |-> "none", i |-> <<0, 0>>, trip |-> 0, iter |-> 0, arm |-> 1, k |-> 0,
          go |-> FALSE, bad |-> FALSE]
IdleQueue == [st |-> "idle", left |-> {}, fifo |-> <<>>, pend |-> {}, ctl |-> NoCtl]

Polled(x, i) == Node(x, i).kind \in {"wait", "consumer"}

\* Hands freed commands to the FIFO, in program order, or to the poll set.
Promote(x, s, Free(_)) ==
  LET freed == SelectSeq(P.progs[x].order, LAMBDA j : j \in s.left /\ Free(j))
  IN  [s EXCEPT !.fifo = @ \o SelectSeq(freed, LAMBDA j : ~Polled(x, j)),
                !.pend = @ \cup {j \in Range(freed) : Polled(x, j)}]

\* Releases the successors of a finished command.
runIndex(x, s, i) ==
  LET left == s.left \ {i}
  IN  Promote(x, [s EXCEPT !.left = left],
              LAMBDA j : i \in Node(x, j).deps /\ Node(x, j).deps \cap left = {})

RECURSIVE Settle(_, _)

\* Noops run with the step that frees them.  Nothing queued or polled: done.
Settle(x, s) ==
  IF s.fifo # <<>>
  THEN IF Node(x, Head(s.fifo)).kind = "noop"
       THEN Settle(x, runIndex(x, [s EXCEPT !.fifo = Tail(@)], Head(s.fifo))) ELSE s
  ELSE IF s.pend = {} THEN [s EXCEPT !.st = "ok"] ELSE s

runOnce(x) ==
  Settle(x, Promote(x, [IdleQueue EXCEPT !.st = "run", !.left = Range(P.progs[x].order)],
                    LAMBDA j : Node(x, j).deps = {}))

Finish(x, s, i) == Settle(x, runIndex(x, [s EXCEPT !.ctl = NoCtl], i))
Failed(s) == [s EXCEPT !.st = "fail", !.fifo = <<>>, !.pend = {}, !.ctl = NoCtl]

\* The queue stands before its next command, of kind k.
StandsAt(x, k) ==
  /\ cpuq[x].st = "run" /\ cpuq[x].ctl.at = "none" /\ cpuq[x].fifo # <<>>
  /\ Node(x, Head(cpuq[x].fifo)).kind \in k
Popped(x) == [cpuq[x] EXCEPT !.fifo = Tail(@)]

\* Runs the next command: its effect when its values are there, else the queue fails.
Step(x, ok) ==
  cpuq' = [cpuq EXCEPT ![x] = IF ok THEN Finish(x, Popped(x), Head(@.fifo)) ELSE Failed(@)]

CpuKernel(x) ==
  /\ StandsAt(x, {"kernel"})
  /\ LET n == Node(x, Head(cpuq[x].fifo))
         ok == ScalarsReady(n, store) /\ BuffersReady(n, store, x[2])
     IN  Step(x, ok) /\ store' = IF ok THEN executeKernel(store, n, x[2]) ELSE store
  /\ UNCHANGED <<api, im, slots, stag, brd, spare>>

\* The kernel itself throws.
CpuKernelThrows(x) ==
  /\ StandsAt(x, {"kernel"})
  /\ spare.fail > 0
  /\ spare' = [spare EXCEPT !.fail = @ - 1, !.hit = TRUE]
  /\ Step(x, FALSE)
  /\ UNCHANGED <<api, im, store, slots, stag, brd>>

CpuProducer(x) ==
  /\ StandsAt(x, {"producer"})
  /\ LET moves == Node(x, Head(cpuq[x].fifo)).moves
         ok == \A k \in DOMAIN moves : moveReady(moves[k], store)
         done == Chain(transfer, <<store, stag>>, moves)
     IN  /\ Step(x, ok)
         /\ store' = IF ok THEN done[1] ELSE store
         /\ stag' = IF ok THEN done[2] ELSE stag
  /\ UNCHANGED <<api, im, slots, brd, spare>>

CpuBoundary(x) ==
  /\ StandsAt(x, {"boundary"})
  /\ LET pairs == Node(x, Head(cpuq[x].fifo)).copies
         ok == \A p \in pairs : copyReady(store, x[2], p[1])
     IN  Step(x, ok) /\ store' = IF ok THEN copyAll(store, x[2], pairs) ELSE store
  /\ UNCHANGED <<api, im, slots, stag, brd, spare>>

executeSignal(x) ==
  /\ StandsAt(x, {"signal"})
  /\ slots' = [slots EXCEPT ![Node(x, Head(cpuq[x].fifo)).rv] = 1]
  /\ Step(x, TRUE)
  /\ UNCHANGED <<api, im, store, stag, brd, spare>>

PollReady(x, i) ==
  LET n == Node(x, i)
  IN  IF n.kind = "wait" THEN slots[n.rv] # 0
      ELSE \A k \in DOMAIN n.moves : stag[Bridge(n.moves[k])].ready

\* Mutant: the slot keeps the publication.
KeepSlot(v) == slots
TakeSlot(v) == [slots EXCEPT ![v] = 0]

\* One satisfied command of the poll set.
CpuPoll(x, i) ==
  /\ cpuq[x].st = "run" /\ cpuq[x].ctl.at = "none" /\ cpuq[x].fifo = <<>>
  /\ i \in cpuq[x].pend
  /\ PollReady(x, i)
  /\ LET n == Node(x, i)
         done == Chain(transfer, <<store, stag>>, n.moves)
     IN  /\ slots' = IF n.kind = "wait" THEN TakeSlot(n.rv) ELSE slots
         /\ store' = done[1]
         /\ stag' = done[2]
  /\ cpuq' = [cpuq EXCEPT ![x] = Finish(x, [@ EXCEPT !.pend = @ \ {i}], i)]
  /\ UNCHANGED <<api, im, brd, spare>>

----------------------------------------------------------------------------
(* Control commands of a CPU queue.                                        *)

Ctl(x) == cpuq[x].ctl
CtlNode(x) == Node(x, Ctl(x).i)
CtlOp(x) == P.a.ops[CtlNode(x).op]
InCtl(x, at) == cpuq[x].st = "run" /\ Ctl(x).at = at
Kids(x) == P.kids[x][Ctl(x).i][Ctl(x).arm]

ScalarsSet(toks) == Keys(toks) \subseteq DOMAIN store.host
evaluateTripCount(op) == store.host[Key(CHOOSE t \in op.trip : TRUE)]
evaluateCondition(op) == CondHolds({store.host[k] : k \in Keys(op.cond.operands)})

\* The start of executeLoop and executeConditional: a count is read once, here.
CpuControl(x) ==
  /\ StandsAt(x, {"loop", "cond"})
  /\ LET i == Head(cpuq[x].fifo)
         op == P.a.ops[Node(x, i).op]
         start == [NoCtl EXCEPT !.i = i, !.at = "decide"]
     IN  cpuq' = [cpuq EXCEPT ![x] =
                 IF ~ScalarsSet(op.trip \cup op.cond.operands) THEN Failed(@)
                 ELSE [Popped(x) EXCEPT !.ctl =
                         IF op.trip = {} THEN start
                         ELSE [start EXCEPT !.trip = evaluateTripCount(op)]]]
  /\ UNCHANGED <<api, im, store, slots, stag, brd, spare>>

\* Another iteration, or the then arm.
Decision(x) ==
  IF CtlOp(x).trip # {} THEN Ctl(x).iter < Ctl(x).trip ELSE evaluateCondition(CtlOp(x))

\* The authority of a split loop tells its follower first; a local loop acts.
Decide(x) ==
  /\ InCtl(x, "decide")
  /\ LET go == Decision(x)
         tells == CtlNode(x).role = "authority"
         v == P.split[CtlNode(x).op].value
         local == IF CtlNode(x).kind = "loop" /\ ~go THEN "publish" ELSE "launch"
     IN  /\ cpuq' = [cpuq EXCEPT ![x].ctl = [@ EXCEPT !.go = go, !.k = 0,
                    !.arm = IF CtlNode(x).kind = "cond" /\ ~go THEN 2 ELSE 1,
                    !.at = IF tells THEN "announce" ELSE local]]
         /\ slots' = IF tells THEN [slots EXCEPT ![v] = IF go THEN 0 ELSE 1] ELSE slots
  /\ UNCHANGED <<api, im, store, stag, brd, spare>>

Announce(x) ==
  /\ InCtl(x, "announce")
  /\ slots' = [slots EXCEPT ![P.split[CtlNode(x).op].decision] = 1]
  /\ cpuq' = [cpuq EXCEPT ![x].ctl.at = "ack"]
  /\ UNCHANGED <<api, im, store, stag, brd, spare>>

Acked(x) == slots[P.split[CtlNode(x).op].ack] # 0

Acknowledged(x) ==
  /\ InCtl(x, "ack")
  /\ Acked(x)
  /\ slots' = [slots EXCEPT ![P.split[CtlNode(x).op].ack] = 0]
  /\ cpuq' = [cpuq EXCEPT ![x].ctl.at = IF Ctl(x).go THEN "launch" ELSE "publish"]
  /\ UNCHANGED <<api, im, store, stag, brd, spare>>

\* Slots an image clears in prepareLaunch.
Prepared(images) ==
  [v \in DOMAIN slots |-> IF v \in UNION {P.clears[y] : y \in images} THEN 0 ELSE slots[v]]
PreparedSlots(m, images) ==
  [m EXCEPT !.slot = [s \in DOMAIN @ |->
     IF s \in UNION {P.predicates[y] : y \in images} THEN 0 ELSE @[s]]]

IdleImage == [st |-> "idle", ev |-> {}, dn |-> {}, park |-> {}, infl |-> {}, cur |-> 0,
              iters |-> <<>>, snap |-> <<>>, trips |-> <<>>]
Usable(y) == brd[y[2]].st # "poisoned"

\* Prepares and launches the next child; the first that cannot be ends it.
LaunchChild(x) ==
  /\ InCtl(x, "launch")
  /\ LET k == Ctl(x).k + 1
         y == Kids(x)[k]
         last == k = Len(Kids(x))
         after == [Ctl(x) EXCEPT !.k = k, !.at = IF last THEN "join" ELSE "launch"]
     IN  IF Kids(x) = <<>>
         THEN cpuq' = [cpuq EXCEPT ![x].ctl.at = "join"] /\ UNCHANGED <<im, store, slots>>
         ELSE IF ~P.fpga[y]
         THEN /\ cpuq' = [cpuq EXCEPT ![x].ctl = after, ![y] = runOnce(y)]
              /\ UNCHANGED <<im, store, slots>>
         ELSE IF ~Usable(y)
         THEN /\ cpuq' = [cpuq EXCEPT ![x].ctl = [@ EXCEPT !.at = "join", !.bad = TRUE]]
              /\ UNCHANGED <<im, store, slots>>
         ELSE /\ cpuq' = [cpuq EXCEPT ![x].ctl = after]
              /\ im' = [im EXCEPT ![y] = [IdleImage EXCEPT !.st = "launched"]]
              /\ slots' = Prepared({y})
              /\ store' = PreparedSlots(store, {y})
  /\ UNCHANGED <<api, stag, brd, spare>>

Stopped(y) == IF P.fpga[y] THEN im[y].st \in {"ended", "failed", "lost"}
              ELSE cpuq[y].st \in {"ok", "fail"}
Good(y) == IF P.fpga[y] THEN im[y].st = "ended" ELSE cpuq[y].st = "ok"
Launched(x) == {Kids(x)[k] : k \in 1..Ctl(x).k}

\* Mutant: the first failed child is enough to go on.
JoinsFirst(Y) == (\A y \in Y : Stopped(y)) \/ \E y \in Y : Stopped(y) /\ ~Good(y)
JoinsAll(Y) == \A y \in Y : Stopped(y)

JoinChildren(x) ==
  /\ InCtl(x, "join")
  /\ JoinsAll(Launched(x))
  /\ LET ok == ~Ctl(x).bad /\ \A y \in Launched(x) : Good(y)
         again == CtlNode(x).kind = "loop"
         lost == again /\ ~ScalarsSet(CtlOp(x).cond.operands)
     IN  cpuq' = [cpuq EXCEPT ![x] = IF ~ok \/ lost THEN Failed(@)
                               ELSE [@ EXCEPT !.ctl.iter = @ + 1,
                                              !.ctl.at = IF again THEN "decide" ELSE "publish"]]
  /\ UNCHANGED <<api, im, store, slots, stag, brd, spare>>

\* publishLoopOutputs and publishConditionalOutputs: the last iteration's values or
\* the initial ones; the arm that ran.
Publish(x) ==
  /\ InCtl(x, "publish")
  /\ LET second == IF CtlNode(x).kind = "loop" THEN Ctl(x).iter = 0 ELSE Ctl(x).arm = 2
         pairs == {<<IF second THEN p[3] ELSE p[2], p[1]>> : p \in CtlNode(x).pubs}
         ok == \A p \in pairs : copyReady(store, x[2], p[1])
     IN  /\ store' = IF ok THEN copyAll(store, x[2], pairs) ELSE store
         /\ cpuq' = [cpuq EXCEPT ![x] = IF ok THEN Finish(x, @, Ctl(x).i) ELSE Failed(@)]
  /\ UNCHANGED <<api, im, slots, stag, brd, spare>>

----------------------------------------------------------------------------
(* The worker of an FPGA image, before RP1 has it.                         *)

FrameNodes(x) == UNION {Range(P.progs[y].node) : y \in P.frames[x]}
ScalarArgs(x) == UNION {{a[2] : a \in n.snap} : n \in FrameNodes(x)}
CountedLoops(x) ==
  {i \in DOMAIN P.progs[x].node :
     /\ Node(x, i).kind = "loop" /\ Node(x, i).role # "follower"
     /\ P.a.ops[Node(x, i).op].trip # {}}
TripKey(x, i) == Key(CHOOSE t \in P.a.ops[Node(x, i).op].trip : TRUE)

\* Kernel scalars and trip counts are read from the map now, before any staging.
resolveDeferredScalars(x) ==
  /\ im[x].st = "launched"
  /\ LET keys == ScalarArgs(x) \cup {TripKey(x, i) : i \in CountedLoops(x)}
     IN  im' = [im EXCEPT ![x] =
                 IF ~(keys \subseteq DOMAIN store.host) THEN [@ EXCEPT !.st = "failed"]
                 ELSE [@ EXCEPT !.st = "staging",
                         !.snap = [k \in ScalarArgs(x) |-> store.host[k]],
                         !.trips = [i \in CountedLoops(x) |-> store.host[TripKey(x, i)]]]]
  /\ UNCHANGED <<api, cpuq, store, slots, stag, brd, spare>>

PreLaunchSlots(x) == {n.rv : n \in {m \in Range(P.progs[x].node) : m.pre}}
Staged(x) ==
  /\ \A v \in PreLaunchSlots(x) : slots[v] # 0
  /\ ~awaitingRootInput(aliasFixpoint(store, x[2], P.aliases[x]), x[2], P.aliases[x])

\* resolveDeferredBufferAddresses: an argument without storage gets some.
BufferArgs(x) == UNION {{a[2] : a \in n.ins \cup n.outs} :
                          n \in {m \in FrameNodes(x) : m.kind = "kernel"}}
resolveDeferredBufferAddresses(m, x) ==
  Chain(LAMBDA w, k : IF hasBuffer(w, x[2], k) THEN w ELSE setInputBuffer(w, x[2], k, Zero),
        m, Listed(BufferArgs(x)))

\* Mutant: the submitter clears what prepareLaunch cleared already.
ClearAgain(x) == Prepared({x})
SubmitClears(x) == slots

\* Inputs staged: addresses are fixed and RP1 gets the image, unless it halted.
Submit(x) ==
  /\ im[x].st = "staging"
  /\ Staged(x)
  /\ LET d == x[2]
         known == aliasFixpoint(store, d, P.aliases[x])
         aliased == resolveDeferredBufferAliases(known, d, P.aliases[x])
     IN  /\ store' = resolveDeferredBufferAddresses(aliased, x)
         /\ im' = [im EXCEPT ![x].st = IF brd[d].st = "ready" THEN "run" ELSE "failed"]
         /\ slots' = SubmitClears(x)
  /\ UNCHANGED <<api, cpuq, stag, brd, spare>>

----------------------------------------------------------------------------
(* RP1 on an image.  A pass polls parked WAITs, scans the packets in order *)
(* and polls running kernels; cur is the packet last fired in this pass,   *)
(* 0 between passes.                                                       *)

Running(x) == im[x].st \in {"run", "lost"}
Pkt(x, k) == P.packets[x][k]
Ready(s, x, k) ==
  k \notin s.dn \cup s.park \cup s.infl /\ Pkt(x, k).await \subseteq s.ev
ReadyAfter(s, x) == {k \in DOMAIN P.packets[x] : k > s.cur /\ Ready(s, x, k)}

\* The state after packet k, at the end of the pass if nothing more is ready.
Scanned(s, x, k) ==
  LET t == [s EXCEPT !.cur = k] IN IF ReadyAfter(t, x) = {} THEN [t EXCEPT !.cur = 0] ELSE t

Raised(s, x, k) == [s EXCEPT !.dn = @ \cup {k}, !.ev = @ \cup {Pkt(x, k).raises}]
Skipped(s, k) == [s EXCEPT !.dn = @ \cup {k}]

PredicateSlots(x, p) ==
  {Slot(store, x[2], o) : o \in Keys(P.a.ops[Node(p.q, p.i).op].cond.operands)}

\* A LOOP's exit predicate, with the count aside; its gate opens on the opposite.
ExitPredicate(x, p) ==
  CASE Node(p.q, p.i).role = "follower" -> slots[P.split[Node(p.q, p.i).op].value] # 0
    [] p.i \in DOMAIN im[x].trips -> im[x].trips[p.i] = 0
    [] OTHER -> ~CondHolds(PredicateSlots(x, p))

Fired(x, i) == IF i \in DOMAIN im[x].iters THEN im[x].iters[i] ELSE 0

\* LOOP: leaves, or re-arms its body.
LoopFires(s, x, k) ==
  LET p == Pkt(x, k)
      n == Fired(x, p.i) + 1
      t == [s EXCEPT !.iters = (p.i :> n) @@ @]
      inner == {j \in DOMAIN P.packets[x] : Pkt(x, j).raises \in p.rerun}
  IN  IF ExitPredicate(x, p) \/ (p.i \in DOMAIN s.trips /\ n > s.trips[p.i])
      THEN Raised(t, x, k)
      ELSE [t EXCEPT !.dn = (@ \ inner) \cup {k}, !.park = @ \ inner, !.ev = @ \ p.rerun]

RerunFires(s, x, k) ==
  [Raised(s, x, k) EXCEPT !.dn = @ \ {j \in DOMAIN P.packets[x] :
                                        Pkt(x, j).op = "loop" /\ Pkt(x, j).i = Pkt(x, k).i}]

\* The image after packet k in each of its kinds; a kernel starts, the rest complete.
Fire(s, x, k) ==
  LET p == Pkt(x, k)
  IN  CASE p.op = "kernel" -> [s EXCEPT !.infl = @ \cup {k}]
        [] p.op = "wait" -> IF slots[p.rv] # 0 THEN Raised(s, x, k)
                            ELSE [s EXCEPT !.park = @ \cup {k}]
        [] p.op = "loop" -> LoopFires(s, x, k)
        [] p.op = "gate" -> IF ExitPredicate(x, p) THEN Skipped(s, k) ELSE Raised(s, x, k)
        [] p.op = "then" -> IF CondHolds(PredicateSlots(x, p)) THEN Raised(s, x, k)
                            ELSE Skipped(s, k)
        [] p.op = "else" -> IF CondHolds(PredicateSlots(x, p)) THEN Skipped(s, k)
                            ELSE Raised(s, x, k)
        [] p.op = "rerun" -> RerunFires(s, x, k)
        [] OTHER -> Raised(s, x, k)

WrongImage(x, p) ==
  LET wanted == P.a.ops[Node(p.q, p.i).op].image
  IN  p.op = "kernel" /\ wanted \notin {None, brd[x[2]].img}

\* The next packet in scan order.  A kernel of another image than the loaded one is
\* a firmware error, which only a reset clears.
Rp1Scan(x) ==
  /\ Running(x)
  /\ ReadyAfter(im[x], x) # {}
  /\ LET k == Min(ReadyAfter(im[x], x))
         p == Pkt(x, k)
         d == x[2]
     IN  IF WrongImage(x, p)
         THEN /\ im' = [im EXCEPT ![x] = [IdleImage EXCEPT !.st = "failed"]]
              /\ brd' = [brd EXCEPT ![d].st = "dead"]
              /\ UNCHANGED slots
         ELSE /\ im' = [im EXCEPT ![x] = Scanned(Fire(@, x, k), x, k)]
              /\ slots' = IF p.op \in {"signal", "clear"}
                       THEN [slots EXCEPT ![p.rv] = IF p.op = "signal" THEN 1 ELSE 0] ELSE slots
              /\ brd' = IF p.op = "reprogram" THEN [brd EXCEPT ![d].img = Node(p.q, p.i).image]
                        ELSE brd
  /\ UNCHANGED <<api, cpuq, store, stag, spare>>

Rp1Poll(x, k) ==
  /\ Running(x) /\ im[x].cur = 0
  /\ k \in im[x].park
  /\ slots[Pkt(x, k).rv] # 0
  /\ im' = [im EXCEPT ![x] = [Raised(@, x, k) EXCEPT !.park = @ \ {k}]]
  /\ UNCHANGED <<api, cpuq, store, slots, stag, brd, spare>>

KernelDone(x, k) ==
  /\ Running(x) /\ im[x].cur = 0
  /\ k \in im[x].infl
  /\ im' = [im EXCEPT ![x] = [Raised(@, x, k) EXCEPT !.infl = @ \ {k}]]
  /\ store' = runFpgaKernel(store, Node(Pkt(x, k).q, Pkt(x, k).i), x[2], im[x].snap)
  /\ UNCHANGED <<api, cpuq, slots, stag, brd, spare>>

\* A kernel RP1 gives up on, an image that does not load: fatal.
Rp1Fails(x) ==
  /\ Running(x) /\ im[x].cur = 0
  /\ im[x].infl # {}
  /\ spare.fail > 0
  /\ spare' = [spare EXCEPT !.fail = @ - 1, !.hit = TRUE]
  /\ im' = [im EXCEPT ![x] = [IdleImage EXCEPT !.st = "failed"]]
  /\ brd' = [brd EXCEPT ![x[2]].st = "dead"]
  /\ UNCHANGED <<api, cpuq, store, slots, stag>>

Quiet(x) == im[x].cur = 0 /\ im[x].infl = {} /\ im[x].park = {} /\ ReadyAfter(im[x], x) = {}

\* The sentinel: every main-line command has completed.
Sentinel(x) ==
  {Event(i, "done") : i \in Range(Emitted(P.progs[x]))} \subseteq im[x].ev

ImageEnds(x) ==
  /\ im[x].st = "run"
  /\ Quiet(x)
  /\ im' = [im EXCEPT ![x] =
              [IdleImage EXCEPT !.st = IF Sentinel(x) THEN "ended" ELSE "failed"]]
  /\ UNCHANGED <<api, cpuq, store, slots, stag, brd, spare>>

----------------------------------------------------------------------------
(* Timeouts.  A wait runs out when nobody can end it, or, while slow waits *)
(* are allowed, when its peer is merely late.                              *)

Polling(x) == cpuq[x].st = "run" /\ Ctl(x).at = "none" /\ cpuq[x].fifo = <<>>
CpuBlocked(x) == \/ Polling(x) /\ \A i \in cpuq[x].pend : ~PollReady(x, i)
                 \/ InCtl(x, "ack") /\ ~Acked(x)
CpuJoining(x) == InCtl(x, "join") /\ ~JoinsAll(Launched(x))
ImageBlocked(x) ==
  \/ im[x].st = "staging" /\ ~Staged(x)
  \/ /\ Running(x) /\ im[x].cur = 0 /\ im[x].infl = {} /\ ReadyAfter(im[x], x) = {}
     /\ \A k \in im[x].park : slots[Pkt(x, k).rv] = 0
     /\ im[x].park # {} \/ im[x].st = "lost"

\* Everybody who is not done waits.
Stuck ==
  /\ \A t \in Case.callers : thr[t].at # "launch"
  /\ \A x \in CpuQueues : cpuq[x].st = "run" => CpuBlocked(x) \/ CpuJoining(x)
  /\ \A x \in Images : im[x].st \in {"launched", "staging", "run", "lost"} => ImageBlocked(x)

\* Mutant: waits without a deadline.
NoDeadline == FALSE
Expires == Stuck \/ spare.slow > 0

Expired == spare' = IF Stuck THEN spare ELSE [spare EXCEPT !.slow = @ - 1, !.hit = TRUE]

CpuTimeout(x) ==
  /\ CpuBlocked(x)
  /\ Expires /\ Expired
  /\ cpuq' = [cpuq EXCEPT ![x] = Failed(@)]
  /\ UNCHANGED <<api, im, store, slots, stag, brd>>

StagingTimeout(x) ==
  /\ im[x].st = "staging" /\ ~Staged(x)
  /\ Expires /\ Expired
  /\ im' = [im EXCEPT ![x].st = "failed"]
  /\ UNCHANGED <<api, cpuq, store, slots, stag, brd>>

\* submitAndWait gives up: what RP1 does from here on is unknown, so the device is
\* poisoned and its buffers stay pinned.
SubmitTimeout(x) ==
  /\ im[x].st = "run"
  /\ ImageBlocked(x) \/ spare.slow > 0
  /\ Expires /\ Expired
  /\ im' = [im EXCEPT ![x].st = "lost"]
  /\ brd' = [brd EXCEPT ![x[2]].st = "poisoned"]
  /\ UNCHANGED <<api, cpuq, store, slots, stag>>

----------------------------------------------------------------------------
(* Execution.                                                              *)

RootImages == {x \in Range(P.roots) : P.fpga[x]}
InputBuffers == Keys(P.a.regions[0].inputs)

\* The caller's writes, allowed in Idle only.
Written(m, s, r) ==
  [m EXCEPT !.host = s @@ @, !.buf[P.host] = [k \in InputBuffers |-> InputTerm(k, r)] @@ @]

\* launch() up to the prepared roots.  A root that cannot be prepared fails the run.
Launch(t) ==
  /\ thr[t].at = "out" /\ ph.at = "idle" /\ Run < Case.runs
  /\ \E s \in Case.scal :
       /\ inp' = s
       /\ store' = PreparedSlots(Written(store, s, Run + 1), RootImages)
  /\ IF \A x \in RootImages : Usable(x)
     THEN /\ fin' = [fin EXCEPT ![Run + 1] = "open"]
          /\ ph' = [at |-> "launching", k |-> 1]
          /\ thr' = [thr EXCEPT ![t] = [at |-> "launch", run |-> Run + 1]]
          /\ slots' = Prepared(RootImages)
     ELSE /\ fin' = [fin EXCEPT ![Run + 1] = "error"]
          /\ UNCHANGED <<ph, thr, slots>>
  /\ spare' = [spare EXCEPT !.hit = \E x \in RootImages : brd[x[2]].st # "ready"]
  /\ UNCHANGED <<sc, cpuq, im, stag, brd>>

\* launch() of a root checks its device once more.
Startable(x) == P.fpga[x] => Usable(x)

\* Starts the worker of one root; after the last the run is Running.
LaunchRoot(t) ==
  /\ thr[t].at = "launch"
  /\ Startable(P.roots[ph.k])
  /\ LET x == P.roots[ph.k]
         last == ph.k = Len(P.roots)
     IN  /\ IF P.fpga[x]
            THEN im' = [im EXCEPT ![x] = [IdleImage EXCEPT !.st = "launched"]] /\ UNCHANGED cpuq
            ELSE cpuq' = [cpuq EXCEPT ![x] = runOnce(x)] /\ UNCHANGED im
         /\ ph' = IF last THEN [at |-> "running", k |-> 0] ELSE [ph EXCEPT !.k = @ + 1]
         /\ thr' = [thr EXCEPT ![t].at = IF last THEN "out" ELSE @]
  /\ UNCHANGED <<sc, fin, inp, store, slots, stag, brd, spare>>

\* launch() of a root throws, also when there is no thread to be had: the rest is not
\* launched.
LaunchFails(t) ==
  /\ thr[t].at = "launch"
  /\ Startable(P.roots[ph.k]) => spare.fail > 0
  /\ spare' = IF Startable(P.roots[ph.k])
              THEN [spare EXCEPT !.fail = @ - 1, !.hit = TRUE] ELSE spare
  /\ thr' = [thr EXCEPT ![t].at = "abort"]
  /\ UNCHANGED <<sc, ph, fin, inp, cpuq, im, store, slots, stag, brd>>

\* publishCompletion, the workers of the roots being joined.
publishCompletion(t, outcome) ==
  /\ fin' = [fin EXCEPT ![thr[t].run] = outcome]
  /\ ph' = [at |-> "idle", k |-> 0]
  /\ thr' = [thr EXCEPT ![t] = [at |-> "out", run |-> 0]]
  /\ cpuq' = [x \in CpuQueues |-> IF x \in Range(P.roots) THEN IdleQueue ELSE cpuq[x]]
  /\ im' = [x \in Images |->
              IF x \in Range(P.roots) /\ im[x].st # "lost" THEN IdleImage ELSE im[x]]
  /\ UNCHANGED <<sc, inp, store, slots, stag, brd, spare>>

\* The failed launch() joins the roots it has launched and publishes its error.
AbortLaunch(t) ==
  /\ thr[t].at = "abort"
  /\ JoinsAll({P.roots[k] : k \in 1..(ph.k - 1)})
  /\ publishCompletion(t, "error")

\* wait(): the first to find the run Running joins it, the others sleep.
Wait(t) ==
  /\ thr[t].at = "out" /\ Run > 0
  /\ fin[Run] = "open"
  /\ thr' = [thr EXCEPT ![t] =
               [at |-> IF ph.at = "running" THEN "join" ELSE "sleep", run |-> Run]]
  /\ ph' = IF ph.at = "running" THEN [ph EXCEPT !.at = "joining"] ELSE ph
  /\ UNCHANGED <<sc, fin, inp, cpuq, im, store, slots, stag, brd, spare>>

\* A sleeper that waited for the launch to finish may become the joiner.
WakeToJoin(t) ==
  /\ thr[t].at = "sleep" /\ fin[thr[t].run] = "open" /\ ph.at = "running"
  /\ thr' = [thr EXCEPT ![t].at = "join"]
  /\ ph' = [ph EXCEPT !.at = "joining"]
  /\ UNCHANGED <<sc, fin, inp, cpuq, im, store, slots, stag, brd, spare>>

\* waitRoots and the outcome.
Join(t) ==
  /\ thr[t].at = "join"
  /\ JoinsAll(Range(P.roots))
  /\ publishCompletion(t, IF \A x \in Range(P.roots) : Good(x) THEN "ok" ELSE "error")

Return(t) ==
  /\ thr[t].at = "sleep" /\ fin[thr[t].run] # "open"
  /\ thr' = [thr EXCEPT ![t] = [at |-> "out", run |-> 0]]
  /\ UNCHANGED <<sc, ph, fin, inp, cpuq, im, store, slots, stag, brd, spare>>

----------------------------------------------------------------------------

Moves == UNION {Range(n.moves) : n \in UNION {Range(P.progs[x].node) : x \in CpuQueues}}

Init ==
  /\ sc \in Range(Cases)
  /\ ph = [at |-> "idle", k |-> 0]
  /\ fin = [r \in Runs |-> "none"]
  /\ thr = [t \in Case.callers |-> [at |-> "out", run |-> 0]]
  /\ inp = <<>>
  /\ cpuq = [x \in CpuQueues |-> IdleQueue]
  /\ im = [x \in Images |-> IdleImage]
  /\ store = [buf |-> [d \in P.devices |-> <<>>], alias |-> [d \in P.devices |-> <<>>],
              host |-> <<>>, slot |-> <<>>]
  /\ slots = [v \in DOMAIN P.rvs |-> 0]
  /\ stag = [b \in {Bridge(v) : v \in Moves} |-> NothingStaged]
  /\ brd = [d \in P.devices |-> [img |-> None, st |-> "ready"]]
  /\ spare = [fail |-> Case.fail, slow |-> Case.slow, hit |-> FALSE]

\* What goes on once a run is launched.
Progress ==
  \/ \E t \in Case.callers : LaunchRoot(t)
  \/ \E t \in Case.callers : LaunchFails(t)
  \/ \E t \in Case.callers : AbortLaunch(t)
  \/ \E t \in Case.callers : Wait(t)
  \/ \E t \in Case.callers : WakeToJoin(t)
  \/ \E t \in Case.callers : Join(t)
  \/ \E t \in Case.callers : Return(t)
  \/ \E x \in CpuQueues : CpuKernel(x)
  \/ \E x \in CpuQueues : CpuKernelThrows(x)
  \/ \E x \in CpuQueues : CpuProducer(x)
  \/ \E x \in CpuQueues : CpuBoundary(x)
  \/ \E x \in CpuQueues : executeSignal(x)
  \/ \E x \in CpuQueues : \E i \in cpuq[x].pend : CpuPoll(x, i)
  \/ \E x \in CpuQueues : CpuControl(x)
  \/ \E x \in CpuQueues : Decide(x)
  \/ \E x \in CpuQueues : Announce(x)
  \/ \E x \in CpuQueues : Acknowledged(x)
  \/ \E x \in CpuQueues : LaunchChild(x)
  \/ \E x \in CpuQueues : JoinChildren(x)
  \/ \E x \in CpuQueues : Publish(x)
  \/ \E x \in CpuQueues : CpuTimeout(x)
  \/ \E x \in Images : resolveDeferredScalars(x)
  \/ \E x \in Images : Submit(x)
  \/ \E x \in Images : StagingTimeout(x)
  \/ \E x \in Images : Rp1Scan(x)
  \/ \E x \in Images : \E k \in im[x].park : Rp1Poll(x, k)
  \/ \E x \in Images : \E k \in im[x].infl : KernelDone(x, k)
  \/ \E x \in Images : Rp1Fails(x)
  \/ \E x \in Images : ImageEnds(x)
  \/ \E x \in Images : SubmitTimeout(x)

Next == (\E t \in Case.callers : Launch(t)) \/ Progress

\* Some thread, worker or RP1 takes a step as long as one can; every run is a finite
\* amount of work, so this is all the fairness its end needs.
Spec == Init /\ [][Next]_vars /\ WF_vars(Progress)

----------------------------------------------------------------------------
(* Properties.                                                             *)

Ended(outcome) == ph.at = "idle" /\ Run > 0 /\ fin[Run] = outcome

Inputs == [k \in InputBuffers |-> InputTerm(k, Run)] @@ inp
OutputKeys == {KeyOf(v) : v \in P.outputs}
Output(k) == IF k[1] = "scalar" THEN store.host[k] ELSE getOutputBuffer(store, P.host, k)
HasOutput(k) == IF k[1] = "scalar" THEN k \in DOMAIN store.host ELSE hasBuffer(store, P.host, k)

\* A run that reports success leaves in every graph output the value the authored
\* graph means for this run's inputs: placement, routes, queues, rendezvous and
\* aliases neither lose, mix up nor keep a value.
ResultsRight ==
  Ended("ok") => LET m == Meaning(P.a, Inputs)
                 IN  \A k \in OutputKeys : HasOutput(k) /\ Output(k) = m[k]

\* In every split loop the follower's body is fed by the authority's: it sends nothing,
\* and does not end, before it has received something.  Its gate awaits nothing and
\* opens on the cleared value slot, so that the body, and the handshake behind it, may
\* run ahead of the first decision; only a value of the authority's body holds them up.
FollowerFed ==
  LET Bodies(q, n) == UNION {Range(P.kids[q][i][1]) :
                               i \in {j \in DOMAIN P.kids[q] : Node(q, j).op = n}}
  IN  \A n \in DOMAIN P.split : \A y \in Bodies(P.split[n].followerQueue, n) :
        LET ids == DOMAIN P.progs[y].node
            source == Bodies(P.split[n].authorityQueue, n)
            Input(i) == Polled(y, i) /\ P.rvs[Node(y, i).rv].publisher \in source
            fed[i \in ids] == Input(i) \/ \E j \in Node(y, i).deps \cap ids : fed[j]
        IN  /\ \E i \in ids : Input(i)
            /\ \A i \in ids : Node(y, i).kind = "signal" => fed[i]

\* A split loop of this run has no iterations.
ZeroTripSplit ==
  \E n \in DOMAIN P.split : \E t \in P.a.ops[n].trip : Key(t) \in DOMAIN inp /\ inp[Key(t)] = 0

\* A run in which nothing failed and no wait was cut short succeeds: the compiled
\* queues never wait for each other in a circle and never miss a value.  Two kinds of
\* split loop are excepted, both for their body gate.  Without iterations the follower
\* may stand in its body, waiting for a value that no iteration sends, when the stop
\* decision comes.  With a follower that is not fed its handshakes lose count.
FaultFreeSucceeds == Ended("error") => spare.hit \/ ZeroTripSplit \/ ~FollowerFed

\* RP1 never comes to a kernel while another image than the kernel's is loaded, and
\* the kernel's image stays loaded while it runs.
KernelOnItsImage ==
  \A x \in Images : Running(x) =>
    LET next == IF ReadyAfter(im[x], x) = {} THEN {} ELSE {Min(ReadyAfter(im[x], x))}
    IN  \A k \in im[x].infl \cup next : ~WrongImage(x, Pkt(x, k))

\* A successful run leaves no rendezvous raised that the next run could take for its own
\* (where a follower is not fed, an acknowledgement may be left over).
SlotsDrained ==
  Ended("ok") /\ FollowerFed => \A v \in DOMAIN slots : P.rvs[v].kind # "value" => slots[v] = 0

\* When the authority of a split loop comes to its decision k + 1, the LOOP packet of
\* its follower has read k decisions, neither fewer nor more: "the round trip prevents
\* either participant getting one decision ahead".  The round trip alone does not, and
\* a follower that is fed is needed for it: it acknowledges before its LOOP packet reads
\* the decision, and its gate is not behind that packet.
FollowerInStep ==
  \A n \in DOMAIN P.split :
    LET x == P.split[n].authorityQueue
        y == P.split[n].followerQueue
    IN  InCtl(x, "decide") /\ CtlNode(x).op = n /\ im[y].st = "run" /\ FollowerFed =>
          \A i \in DOMAIN P.progs[y].node : Node(y, i).op = n => Fired(y, i) = Ctl(x).iter

\* A run that has ended left no worker behind, whatever failed in it: a kernel, a wait,
\* an image, or the launch of a later root while the earlier ones were running.
NothingLeftRunning ==
  ph.at = "idle" => /\ \A x \in CpuQueues : cpuq[x].st # "run"
                    /\ \A x \in Images : im[x].st \notin {"launched", "staging", "run"}

\* Every launched run ends, with a result or an error.
RunsEnd == ph.at # "idle" ~> ph.at = "idle"

=============================================================================

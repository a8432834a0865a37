------------------------------ MODULE VrtLower ------------------------------
(***************************************************************************)
(* Lowering: the program each queue runs, the physical home of every       *)
(* rendezvous, the host action of every transfer step, and which queues a  *)
(* control launches.                                                       *)
(*                                                                         *)
(* A command is named by <<step, part>>: part 0, or part 1 for the signal  *)
(* that clears the slot an FPGA wait consumed.  All commands have the same *)
(* fields; a field a kind does not use keeps the value it has in           *)
(* BlankNode.  c collects what the earlier stages produced: the catalogue  *)
(* cat, res, rt and the schedule sch.                                      *)
(***************************************************************************)
EXTENDS VrtSchedule

BlankNode ==
  [kind |-> None, op |-> NoNode, deps |-> {}, rv |-> 0, pre |-> FALSE,
   kernel |-> None, ins |-> {}, outs |-> {}, snap |-> {}, fwd |-> {}, souts |-> {},
   image |-> None, copies |-> {}, pubs |-> {}, moves |-> <<>>, role |-> None]

----------------------------------------------------------------------------
(* Binding.                                                                *)

\* Devices whose slots could carry the rendezvous.
Owners(c, v) ==
  {d \in {c.sch.rvs[v].publisher[2], c.sch.rvs[v].waiter[2]} :
     ownsRendezvousNamespace(c.cat, d)}

\* One owner: a slot on it.  None: a host event.
slotOwner(c, v) == IF Owners(c, v) = {} THEN None ELSE The(Owners(c, v))

bindErrors(c) ==
  IF \E v \in DOMAIN c.sch.rvs : Cardinality(Owners(c, v)) > 1
  THEN {"AmbiguousPlacement"} ELSE {}

\* One scalar slot per device with a rendezvous namespace and scoped key that
\* has a replica there.
collectScalarResources(c) ==
  {<<p[2][1], KeyOf(p[1])>> :
     p \in {x \in c.rt.replicas : /\ ~IsBuffer(x[1])
                                  /\ ownsRendezvousNamespace(c.cat, x[2][1])}}

----------------------------------------------------------------------------
(* Private destinations: a device copy or an isolated route delivers into  *)
(* a token of its own, which its consumers are rebound to.                 *)

PrivateKey(rt, i) ==
  LET k == KeyOf(rt.routes[i].sig.source[1])
  IN  <<k[1], k[2], k[3] \o "__route_" \o ToString(i)>>

\* Pairs of <<operation, value>> and the key that replaces the value's own.
copyTargets(rt) ==
  LET private == {i \in DOMAIN rt.routes :
                    /\ rt.routes[i].sig.payload = "buffer" /\ rt.routes[i].to # NoNode
                    /\ rt.routes[i].legs[1].mech = "copy" \/ rt.routes[i].isolated}
  IN  UNION {{<<<<rt.routes[i].to, rt.routes[i].sig.source[1]>>, PrivateKey(rt, i)>>}
             \cup {<<<<d.consumer, d.target[1]>>, PrivateKey(rt, i)>> :
                     d \in {e \in rt.deps : e.data /\ e.route = i /\ e.consumer # NoNode}}
             : i \in private}

\* The key an input binding reads.
InputKey(c, n, v) ==
  LET hits == {t \in copyTargets(c.rt) : t[1] = <<n, v>>}
  IN  IF hits = {} THEN KeyOf(v) ELSE The(hits)[2]

Args(c, n, accs, isBuffer) ==
  {<<b.port, IF b.acc \in {"in", "ioin"} /\ isBuffer THEN InputKey(c, n, b.value)
                                                     ELSE KeyOf(b.value)>>
     : b \in {x \in c.res.ops[n].binds : x.acc \in accs /\ IsBuffer(x.value) = isBuffer}}

kernelNode(c, n) ==
  [BlankNode EXCEPT !.kind = "kernel", !.op = n, !.kernel = c.rt.a.ops[n].kernel,
     !.ins = Args(c, n, {"in", "ioin"}, TRUE),
     !.outs = Args(c, n, {"out", "ioout"}, TRUE),
     !.snap = Args(c, n, {"in"}, FALSE),
     !.souts = Args(c, n, {"out"}, FALSE)]

----------------------------------------------------------------------------
(* Host actions of transfer steps.                                         *)

\* One half of a leg, or a whole copy; the values move between <<device, key>>
\* homes, barriers move nothing.
Move(half, i, l, payload, s, d) ==
  [half |-> half, route |-> i, leg |-> l, payload |-> payload, s |-> s, d |-> d]

\* materialize and assembleDeviceCopy: the two homes of a leg.
LegHomes(rt, i, l) ==
  LET r == rt.routes[i]
      leg == r.legs[l]
      into == IF r.isolated \/ leg.mech = "copy" THEN PrivateKey(rt, i)
              ELSE KeyOf(r.sig.destination[1])
      from == IF r.isolated /\ leg.source # r.sig.s[1] THEN PrivateKey(rt, i)
              ELSE KeyOf(r.sig.source[1])
  IN  IF r.sig.payload = "barrier"
      THEN <<<<leg.source, <<>>>>, <<leg.destination, <<>>>>>>
      ELSE <<<<leg.source, from>>, <<leg.destination, into>>>>

\* Device copies act on the action step; slots of one device put both halves
\* there; host events put each half on its own step.
assembleTransferStep(rt, s) ==
  LET r == rt.routes[s.route]
      homes == LegHomes(rt, s.route, s.leg)
      Half(h) == Move(h, s.route, s.leg, r.sig.payload, homes[1], homes[2])
  IN  IF r.legs[s.leg].mech = "copy"
      THEN IF s.kind = "action" THEN <<Half("copy")>> ELSE <<>>
      ELSE IF r.owner # None
      THEN IF s.kind = "action" THEN <<Half("produce"), Half("consume")>> ELSE <<>>
      ELSE IF s.kind = "action" THEN <<>> ELSE <<Half(s.kind)>>

----------------------------------------------------------------------------
(* CPU queues.                                                             *)

\* The arm's value, when it is held by device d.
ArmKey(c, x, arm, d) ==
  {KeyOf(i.value) : i \in {j \in x.incoming :
     j.arm = arm /\ j.value \in DOMAIN c.rt.pl.primary /\ c.rt.pl.primary[j.value][1] = d}}

ArmPresent(x, arm) == \E i \in x.incoming : i.arm = arm

\* Target, source after the first arm, source after the second.
publication(c, x, first, second, d) ==
  LET other == IF ArmPresent(x, second) THEN second ELSE first
      here == /\ x.result \in DOMAIN c.rt.pl.primary /\ c.rt.pl.primary[x.result][1] = d
              /\ ArmKey(c, x, first, d) # {} /\ ArmKey(c, x, other, d) # {}
  IN  IF here THEN {<<KeyOf(x.result), The(ArmKey(c, x, first, d)),
                      The(ArmKey(c, x, other, d))>>} ELSE {}

appendPublications(c, n, first, second, d) ==
  UNION {publication(c, x, first, second, d) : x \in {y \in c.res.results : y.ctl = n}}

\* Authority, follower, or no part in a split protocol.
applyControlProtocol(c, n, q) ==
  IF n \notin DOMAIN c.sch.split THEN None
  ELSE IF c.sch.split[n].authorityQueue = q THEN "authority"
  ELSE IF c.sch.split[n].followerQueue = q THEN "follower" ELSE None

BoundaryCopies(s) == {<<KeyOf(m.source), KeyOf(m.target)>> : m \in s.maps}

cpuOperation(c, q, n) ==
  CASE c.res.ops[n].kind = "kernel" -> kernelNode(c, n)
    [] c.res.ops[n].kind = "loop" ->
         [BlankNode EXCEPT !.kind = "loop", !.op = n, !.role = applyControlProtocol(c, n, q),
            !.pubs = appendPublications(c, n, "backedge", "initial", q[2])]
    [] c.res.ops[n].kind = "conditional" ->
         [BlankNode EXCEPT !.kind = "cond", !.op = n,
            !.pubs = appendPublications(c, n, "then", "else", q[2])]
    [] OTHER -> [BlankNode EXCEPT !.kind = "rejected", !.op = n]

cpuRuntimeStep(c, s) ==
  LET moves == IF s.route = 0 THEN <<>> ELSE assembleTransferStep(c.rt, s)
      slot == s.rv # 0 /\ slotOwner(c, s.rv) # None
  IN  CASE s.kind = "publish" /\ slot -> [BlankNode EXCEPT !.kind = "signal", !.rv = s.rv]
        [] s.kind = "wait" /\ slot -> [BlankNode EXCEPT !.kind = "wait", !.rv = s.rv]
        [] moves # <<>> -> [BlankNode EXCEPT !.moves = moves,
                              !.kind = IF s.kind = "consume" THEN "consumer" ELSE "producer"]
        [] OTHER -> [BlankNode EXCEPT !.kind = "noop"]

\* Only dependencies inside the queue are kept.
cpuLower(c, q) ==
  LET mine == Range(c.sch.order[q])
      One(x) ==
        LET s == c.sch.steps[x]
            node == CASE s.kind = "op" -> cpuOperation(c, q, s.op)
                      [] s.kind = "bound" -> [BlankNode EXCEPT !.kind = "boundary",
                                                !.op = s.op, !.copies = BoundaryCopies(s)]
                      [] OTHER -> cpuRuntimeStep(c, s)
        IN  [node EXCEPT !.deps = {<<y, 0>> : y \in s.deps \cap mine}]
  IN  [order |-> [i \in DOMAIN c.sch.order[q] |-> <<c.sch.order[q][i], 0>>],
       node |-> [i \in {<<x, 0>> : x \in mine} |-> One(i[1])]]

----------------------------------------------------------------------------
(* FPGA queues: a list of RP1 commands.  Transfer steps emit none.         *)

fpgaOperation(c, q, n) ==
  LET kind == c.res.ops[n].kind
  IN  CASE kind = "kernel" -> kernelNode(c, n)
        [] kind = "reprogram" -> [BlankNode EXCEPT !.kind = "reprogram", !.op = n,
                                    !.image = c.rt.a.ops[n].image]
        [] kind = "loop" -> [BlankNode EXCEPT !.kind = "loop", !.op = n,
                               !.role = applyControlProtocol(c, n, q)]
        [] OTHER -> [BlankNode EXCEPT !.kind = "cond", !.op = n]

\* Mutant: RP1 leaves the slot raised after its wait.
eventNodesUncleared(c, s) ==
  IF slotOwner(c, s.rv) = None THEN <<>>
  ELSE <<[BlankNode EXCEPT !.kind = IF s.kind = "publish" THEN "signal" ELSE "wait", !.rv = s.rv]>>

\* A publish is SIGNAL SET 1.  A wait is WAIT, then SIGNAL SET 0; a wait for
\* data staged before the launch is also polled by the host.
eventNodes(c, s) ==
  LET v == c.sch.rvs[s.rv]
      pre == /\ v.kind \in {"ready", "consumed"}
             /\ c.rt.routes[v.about].sig.phase = "prelaunch"
  IN  IF slotOwner(c, s.rv) = None THEN <<>>
      ELSE IF s.kind = "publish" THEN <<[BlankNode EXCEPT !.kind = "signal", !.rv = s.rv]>>
      ELSE <<[BlankNode EXCEPT !.kind = "wait", !.rv = s.rv, !.pre = pre],
             [BlankNode EXCEPT !.kind = "clear", !.rv = s.rv]>>

nodesFor(c, q, s) ==
  CASE s.kind = "op" -> <<fpgaOperation(c, q, s.op)>>
    [] s.kind \in {"publish", "wait"} -> eventNodes(c, s)
    [] s.kind = "bound" -> <<[BlankNode EXCEPT !.kind = "boundary", !.op = s.op,
                                !.copies = BoundaryCopies(s)]>>
    [] OTHER -> <<>>

\* The nearest emitted commands before a step, through steps that emit none.
concreteDependencies(c, emitted, x) ==
  LET near[y \in DOMAIN c.sch.steps] ==
        IF y \in DOMAIN emitted /\ emitted[y] # <<>> THEN {<<y, Len(emitted[y]) - 1>>}
        ELSE UNION {near[z] : z \in c.sch.steps[y].deps}
  IN  near[x]

fpgaLower(c, q) ==
  LET steps == c.sch.order[q]
      emitted == [x \in Range(steps) |-> nodesFor(c, q, c.sch.steps[x])]
      ids(x) == [i \in DOMAIN emitted[x] |-> <<x, i - 1>>]
      order == Chain(LAMBDA s, x : s \o ids(x), <<>>, steps)
      Deps(i) == IF i[2] = 1 THEN {<<i[1], 0>>}
                 ELSE UNION {concreteDependencies(c, emitted, y)
                               : y \in c.sch.steps[i[1]].deps}
  IN  [order |-> order,
       node |-> [i \in Range(order) |-> [emitted[i[1]][i[2] + 1] EXCEPT !.deps = Deps(i)]]]

\* Scalar boundary copies of a body, from local key to parent key.
collectLoopScalarAliases(c, prog, side) ==
  LET copies == UNION {prog.node[i].copies : i \in {j \in DOMAIN prog.node :
                  /\ prog.node[j].kind = "boundary"
                  /\ c.rt.a.ops[prog.node[j].op].side = side}}
      scalars == {p \in copies : p[1][1] = "scalar"}
  IN  IF side = "start" THEN {<<p[2], p[1]>> : p \in scalars} ELSE scalars

\* How scalars reach a kernel's registers and leave them: on the main line from
\* kernels earlier in the image, in a loop body through the parent's slot, in a
\* branch not at all.  What is not forwarded is read from the scalar map when
\* the image is launched.
forwardScalars(c, prog, frame) ==
  LET imports == collectLoopScalarAliases(c, prog, "start")
      exports == collectLoopScalarAliases(c, prog, "end")
      pos(i) == CHOOSE k \in DOMAIN prog.order : prog.order[k] = i
      made(i) == UNION {{o[2] : o \in prog.node[j].souts} : j \in {k \in DOMAIN prog.node :
                          prog.node[k].kind = "kernel" /\ pos(k) < pos(i)}}
      via(i, key) == IF frame = "main" THEN IF key \in made(i) THEN {key} ELSE {}
                     ELSE IF frame = "loop" THEN {p[2] : p \in {t \in imports : t[1] = key}}
                     ELSE {}
      home(key) == LET up == {p[2] : p \in {t \in exports : t[1] = key}}
                   IN  IF frame = "loop" /\ up # {} THEN The(up) ELSE key
      One(i, n) ==
        IF n.kind # "kernel" THEN n
        ELSE [n EXCEPT !.fwd = {<<a[1], The(via(i, a[2]))>> :
                                  a \in {b \in n.snap : via(i, b[2]) # {}}},
                       !.snap = {a \in n.snap : via(i, a[2]) = {}},
                       !.souts = IF frame = "branch" THEN {}
                                 ELSE {<<o[1], home(o[2])>> : o \in n.souts}]
  IN  [prog EXCEPT !.node = [i \in DOMAIN prog.node |-> One(i, prog.node[i])]]

----------------------------------------------------------------------------
(* Assembly.                                                               *)

IsFpga(c, q) == c.cat[q[2]].type = "fpga"

\* A queue is the frame of a control that runs on the same FPGA, or a program.
FrameOf(c, q) ==
  LET n == c.rt.a.regions[q[1]].ctl
  IN  IF n = NoNode \/ ~IsFpga(c, q) THEN "main"
      ELSE IF c.rt.pl.ctl[n].mode = "host" \/ q[2] \notin c.rt.pl.ctl[n].participants
      THEN "main"
      ELSE IF c.res.ops[n].kind = "loop" THEN "loop" ELSE "branch"

lowerQueue(c, q) ==
  IF IsFpga(c, q) THEN forwardScalars(c, fpgaLower(c, q), FrameOf(c, q)) ELSE cpuLower(c, q)

\* What the backends refuse to lower.
lowerErrors(c, progs) ==
  LET Kinds(q) == {progs[q].node[i].kind : i \in DOMAIN progs[q].node}
      Data(q) == \E i \in DOMAIN progs[q].node : /\ progs[q].node[i].kind = "boundary"
                                                 /\ progs[q].node[i].copies # {}
      Bad(q) == IF ~IsFpga(c, q) THEN "rejected" \in Kinds(q)
                ELSE CASE FrameOf(c, q) = "main" ->
                            "boundary" \in Kinds(q) /\ {"loop", "cond"} \cap Kinds(q) = {}
                       [] FrameOf(c, q) = "loop" -> {"loop", "cond"} \cap Kinds(q) # {}
                       [] OTHER -> \/ {"loop", "cond", "signal", "wait"} \cap Kinds(q) # {}
                                   \/ Data(q)
  IN  IF \E q \in DOMAIN progs : Bad(q) THEN {"Unsupported"} ELSE {}

\* The queues a control's step launches for one child region, in queue order.
childQueues(c, n, q, r) ==
  SelectSeq(c.sch.queues, LAMBDA k :
    k[1] = r /\ (c.rt.pl.ctl[n].mode = "split" => k[2] = q[2]))

\* Every control of the queue: its child regions in order (body; then, else)
\* with the queues of each.
connectControlChildren(c, q, prog) ==
  [i \in {j \in DOMAIN prog.node : prog.node[j].kind \in {"loop", "cond"}} |->
     LET n == prog.node[i].op
         kids == Children(c.rt.a, n)
     IN  [k \in DOMAIN kids |-> childQueues(c, n, q, kids[k])]]

collectRoots(c) ==
  SelectSeq(c.sch.queues, LAMBDA q : q[1] = 0 /\ c.sch.order[q] # <<>>)

\* Slots an image clears before each launch: those it signals, waits for, or
\* loops on, its frames included.
FramesUnder(c, kids, q) ==
  {q} \cup (IF IsFpga(c, q) THEN UNION {UNION {Range(kids[q][i][k]) : k \in DOMAIN kids[q][i]}
                                         : i \in DOMAIN kids[q]} ELSE {})

clearHandshakeSlots(c, progs, frames) ==
  UNION {{progs[q].node[i].rv : i \in {j \in DOMAIN progs[q].node :
            progs[q].node[j].kind \in {"signal", "wait", "clear"}}}
         \cup UNION {{c.sch.split[progs[q].node[i].op].value,
                      c.sch.split[progs[q].node[i].op].decision,
                      c.sch.split[progs[q].node[i].op].ack} :
                     i \in {j \in DOMAIN progs[q].node : progs[q].node[j].role = "follower"}}
         : q \in frames}

\* The slots of while predicates are cleared too, unless a kernel of the image is
\* given the value: then it is data.
clearPredicates(c, progs, frames, d) ==
  LET nodes == UNION {Range(progs[q].node) : q \in frames}
      whiles == {n \in nodes : n.kind = "loop" /\ n.role # "follower"}
      tested == UNION {Keys(c.rt.a.ops[n.op].cond.operands) : n \in whiles}
  IN  {<<d, k>> : k \in tested \ UNION {{f[2] : f \in n.fwd} : n \in nodes}}

\* Alias requests of an image in emission order: loop boundaries, and the two
\* names of an inout argument.
deferredAliases(c, progs, frames) ==
  LET Inout(n) == {<<a[2], b[2]>> : a \in n.ins, b \in n.outs} \cap
                  UNION {{<<InputKey(c, x.op, x.input), KeyOf(x.output)>>} :
                           x \in {y \in c.res.inouts : y.op = n.op}}
      Of(q, i) == LET n == progs[q].node[i]
                  IN  IF n.kind = "kernel" THEN Listed(Inout(n))
                      ELSE IF n.kind = "boundary"
                      THEN Listed({p \in n.copies : p[1][1] = "buffer"}) ELSE <<>>
      Frame(s, q) == Chain(LAMBDA t, i : t \o Of(q, i), s, progs[q].order)
  IN  Chain(Frame, <<>>, SelectSeq(c.sch.queues, LAMBDA q : q \in frames))

----------------------------------------------------------------------------
(* The RP1 image of a main queue: its packets in scan order, the frames of *)
(* its controls inlined.  A packet awaits and raises events; which barrier *)
(* bits carry them, and the packets that only move bits or scalars, are    *)
(* the subject of Rp1Lowering.                                             *)

Event(i, tag) == <<i[1], i[2], tag>>

Packet(op, i, q, await, raises) ==
  [op |-> op, i |-> i, q |-> q, await |-> await, raises |-> raises, rv |-> 0, rerun |-> {}]

\* Commands that become packets, and the events of what one depends on.
Emitted(prog) == SelectSeq(prog.order, LAMBDA i : prog.node[i].kind # "boundary")
Awaited(prog, i) ==
  {Event(j, "done") : j \in {k \in prog.node[i].deps \cap DOMAIN prog.node :
                               prog.node[k].kind # "boundary"}}

\* Body roots await the event that opens the body.
BodyPackets(prog, q, gate) ==
  LET ids == Emitted(prog)
      One(i) == [Packet(prog.node[i].kind, i, q,
                        IF Awaited(prog, i) = {} THEN {gate} ELSE Awaited(prog, i),
                        Event(i, "done")) EXCEPT !.rv = prog.node[i].rv]
  IN  [k \in DOMAIN ids |-> One(ids[k])]

BodyLeaves(body, gate) ==
  LET left == {body[k].raises : k \in DOMAIN body} \ UNION {body[k].await : k \in DOMAIN body}
  IN  IF body = <<>> THEN {gate} ELSE left

\* Mutant: the decision is not taken back.
handshakeUncleared(c, i, q, n, await, tag) ==
  LET s == c.sch.split[n]
      Step(op, from, t, rv) == [Packet(op, i, q, from, Event(i, t)) EXCEPT !.rv = rv]
  IN  <<Step("wait", await, tag \o "wait", s.decision),
        Step("signal", {Event(i, tag \o "wait")}, tag \o "ack", s.ack)>>

\* Wait for the decision, take it back, acknowledge.
followerHandshake(c, i, q, n, await, tag) ==
  LET s == c.sch.split[n]
      Step(op, from, t, rv) == [Packet(op, i, q, from, Event(i, t)) EXCEPT !.rv = rv]
      waited == tag \o "wait"
      cleared == tag \o "clear"
  IN  <<Step("wait", await, waited, s.decision),
        Step("clear", {Event(i, waited)}, cleared, s.decision),
        Step("signal", {Event(i, cleared)}, tag \o "ack", s.ack)>>

\* LOOP, the body gate (which awaits nothing), the body, RERUN.
loopPackets(c, progs, kids, q, i) ==
  LET node == progs[q].node[i]
      follows == node.role = "follower"
      y == kids[q][i][1][1]
      gate == Event(i, "gate")
      first == IF follows THEN followerHandshake(c, i, q, node.op, Awaited(progs[q], i), "first.")
               ELSE <<>>
      body == BodyPackets(progs[y], y, gate)
      leaves == BodyLeaves(body, gate)
      again == IF follows THEN followerHandshake(c, i, q, node.op, leaves, "next.") ELSE <<>>
      tail == IF follows THEN {Event(i, "next.ack")} ELSE leaves
      start == IF follows THEN {Event(i, "first.ack")} ELSE Awaited(progs[q], i)
      inner == <<Packet("gate", i, q, {}, gate)>> \o body \o again
                 \o <<Packet("rerun", i, q, tail, Event(i, "rerun"))>>
      loop == [Packet("loop", i, q, start, Event(i, "done")) EXCEPT
                 !.rerun = {inner[k].raises : k \in DOMAIN inner}]
  IN  first \o <<loop>> \o inner

\* Per arm a test, the body it opens, and a join; an empty arm's test joins.
condPackets(c, progs, kids, q, i) ==
  LET Arm(k, op) ==
        LET go == Event(i, op)
            y == IF kids[q][i][k] = <<>> THEN <<>> ELSE BodyPackets(progs[kids[q][i][k][1]],
                                                                    kids[q][i][k][1], go)
        IN  IF y = <<>> THEN <<Packet(op, i, q, Awaited(progs[q], i), Event(i, "done"))>>
            ELSE <<Packet(op, i, q, Awaited(progs[q], i), go)>> \o y
                   \o <<Packet("join", i, q, BodyLeaves(y, go), Event(i, "done"))>>
  IN  Arm(1, "then") \o Arm(2, "else")

buildImage(c, progs, kids, q) ==
  LET One(i) == CASE progs[q].node[i].kind = "loop" -> loopPackets(c, progs, kids, q, i)
                  [] progs[q].node[i].kind = "cond" -> condPackets(c, progs, kids, q, i)
                  [] OTHER -> <<[Packet(progs[q].node[i].kind, i, q, Awaited(progs[q], i),
                                        Event(i, "done")) EXCEPT !.rv = progs[q].node[i].rv]>>
  IN  Chain(LAMBDA s, i : s \o One(i), <<>>, Emitted(progs[q]))

----------------------------------------------------------------------------
(* GraphCompiler::compile.                                                 *)

Refused(errors) == [errors |-> errors]

\* The compiled plan of the lowered queues.
Assembled(c, progs, kids, frames) ==
  LET Q == Range(c.sch.queues)
  IN  [errors |-> {}, a |-> c.rt.a, ops |-> c.res.ops, queues |-> c.sch.queues,
       fpga |-> [q \in Q |-> IsFpga(c, q)], progs |-> progs, kids |-> kids,
       frame |-> [q \in Q |-> FrameOf(c, q)],
       roots |-> collectRoots(c), rvs |-> c.sch.rvs, split |-> c.sch.split,
       slot |-> [v \in DOMAIN c.sch.rvs |-> slotOwner(c, v)],
       scalars |-> collectScalarResources(c),
       clears |-> [q \in Q |-> IF IsFpga(c, q)
                               THEN clearHandshakeSlots(c, progs, frames[q]) ELSE {}],
       predicates |-> [q \in Q |-> IF IsFpga(c, q)
                       THEN clearPredicates(c, progs, frames[q], q[2]) ELSE {}],
       aliases |-> [q \in Q |-> IF IsFpga(c, q)
                                THEN deferredAliases(c, progs, frames[q]) ELSE <<>>],
       frames |-> frames, outputs |-> c.res.outputs,
       devices |-> DOMAIN c.cat, host |-> host(c.cat),
       packets |-> [q \in Q |-> IF IsFpga(c, q) /\ FrameOf(c, q) = "main"
                                THEN buildImage(c, progs, kids, q) ELSE <<>>]]

Connected(c, progs, kids) ==
  Assembled(c, progs, kids, [q \in DOMAIN progs |-> FramesUnder(c, kids, q)])

Lowered(c, progs, bad) ==
  IF bad # {} THEN Refused(bad)
  ELSE Connected(c, progs, [q \in DOMAIN progs |-> connectControlChildren(c, q, progs[q])])

assembleExecutables(c) ==
  LET Checked(progs) == Lowered(c, progs, bindErrors(c) \cup lowerErrors(c, progs))
  IN  Checked([q \in Range(c.sch.queues) |-> lowerQueue(c, q)])

\* Each stage runs when the one before reported no error.
Schedule(cat, res, rt, sch) ==
  IF sch.errors # {} THEN Refused(sch.errors)
  ELSE assembleExecutables([cat |-> cat, res |-> res, rt |-> rt, sch |-> sch])

Routed(cat, res, rt) ==
  IF rt.errors # {} THEN Refused(rt.errors)
  ELSE Schedule(cat, res, rt, scheduleGraph(cat, res, rt))

Placed(cat, res, pl) ==
  IF pl.errors # {} THEN Refused(pl.errors) ELSE Routed(cat, res, routeGraph(cat, res, pl))

Resolved(cat, res) ==
  IF res.errors # {} THEN Refused(res.errors) ELSE Placed(cat, res, placeGraph(cat, res))

Validated(cat, a, invalid) ==
  IF invalid # {} THEN Refused(invalid) ELSE Resolved(cat, resolveValidatedGraph(a))

compile(cat, g) ==
  LET TooDeep(a) == IF a.threw THEN {"snapshot"} ELSE {}
      Checked(a) == Validated(cat, a, g.threw \cup TooDeep(a) \cup validateAuthoredGraph(a))
  IN  Checked(Snapshot(g))

=============================================================================

------------------------------ MODULE Rp1Lowering ------------------------------
(***************************************************************************)
(* How FpgaDevicePlan (fpga_device.cpp) lowers a typed queue program to an *)
(* RP1 image: buildMainlineImage() for a program without control flow,     *)
(* buildControlImage() with lowerLoop() and lowerConditional() otherwise.  *)
(*                                                                         *)
(* A program is a sequence of commands, records with kind, id and deps and *)
(* the fields of their kind.  A scalar is the signal slot it was given, a  *)
(* kernel argument is one 8-byte word, boundaries (which emit no packet)   *)
(* are left out.  A barrier bit is a pair <<bucket, bit>>.  Each packet    *)
(* carries, beside the fields of rp1_node_t, the id cmd of the command it  *)
(* was emitted for, and the sentinel the program prog; only properties     *)
(* read them.                                                              *)
(***************************************************************************)
EXTENDS Rp1Packets, SequencesExt

CONSTANT SentinelSlot    \* sentinelSlot_

KernelBits  == WordBits - 1      \* kKernelBitsPerBucket
SentinelBit == WordBits - 1      \* kSentinelBit, in bucket kSentinelBucket = 0
NoId        == ""

\* invertRp1Op().
InvertRp1Op(op) ==
    CASE op = "EQ" -> "NE"         [] op = "NE" -> "EQ"
      [] op = "LT" -> "GE"         [] op = "GE" -> "LT"
      [] op = "AND_NZ" -> "AND_Z"  [] op = "AND_Z" -> "AND_NZ"

\* A left fold.  The accumulator is kept in a singleton set, which makes TLC evaluate
\* one step before it begins the next (FoldLeft nests them all).
Fold(op(_, _), base, seq) ==
    LET f[i \in 0..Len(seq)] ==
            IF i = 0 THEN {base} ELSE {op(acc, seq[i]) : acc \in f[i - 1]}
    IN CHOOSE acc \in f[Len(seq)] : TRUE

BitAt(start, k) == <<start + k \div KernelBits, k % KernelBits>>
Buckets(refs)   == {r[1] : r \in refs}
MaskIn(refs, b) == {r[2] : r \in {x \in refs : x[1] = b}}

\* An await over bits of at most one bucket.
OneBucket(refs) == IF refs = {} THEN <<0, {}>>
                   ELSE LET b == CHOOSE b \in Buckets(refs) : TRUE IN <<b, MaskIn(refs, b)>>

Packet(cmd, await, ref, payload) ==
    payload @@ [cmd |-> cmd, flags |-> {}, await_bucket |-> await[1],
                await_mask |-> await[2], set_bucket |-> ref[1], set_mask |-> {ref[2]}]

\* The silent NOP that projects the bits of one bucket to a bit of another.
Collector(await, ref) == Packet(NoId, await, ref, [op |-> "NOP", flags |-> {"SILENT"}])

ArgBytes(nodes) == 8 * Len(SelectSeq(nodes, LAMBDA n : n.op = "KERNEL_DISPATCH"))

\* The payload of a command that is one packet: emitKernelPacket() appends the
\* arguments before the dispatch, emitReprogramPacket() leaves the address to launch.
Payload(c, nodes) ==
    CASE c.kind = "kernel" ->
            [op |-> "KERNEL_DISPATCH", flags |-> {"HALT_ON_ERROR"}, base |-> c.base,
             arg_offset |-> ArgBytes(nodes), arg_count |-> 1, image |-> c.image]
      [] c.kind = "reprogram" ->
            [op |-> "PDI_LOAD", flags |-> {"HALT_ON_ERROR"}, image |-> c.image]
      [] c.kind = "signal" ->
            [op |-> "SIGNAL", slot |-> c.slot, operation |-> c.operation, value |-> c.value]
      [] c.kind = "wait" ->
            [op |-> "WAIT", signal |-> c.slot, cond_op |-> c.cond_op, value |-> c.value]

\* The lifecycle sentinel, and clearHandshakeSlots().
Sentinel(prog, await) ==
    Packet("sentinel", await, <<0, SentinelBit>>,
           [op |-> "SIGNAL", slot |-> SentinelSlot, operation |-> "SET", value |-> {0},
            prog |-> prog])
HandshakeSlots(nodes) ==
    LET P(ops) == {i \in 1..Len(nodes) : nodes[i].op \in ops}
    IN (  {nodes[i].signal : i \in P({"LOOP", "WAIT"})} \cup {nodes[i].slot : i \in P({"SIGNAL"})})
       \ {nodes[i].slot : i \in P({"SCALAR_COPY"})}
Finish(prog, nodes, await) ==
    LET all == Append(nodes, Sentinel(prog, await))
    IN [nodes |-> all, clear |-> {SentinelSlot} \cup HandshakeSlots(all), args |-> ArgBytes(all)]

-------------------------------------------------------------------------------
(* buildMainlineImage(): command p owns bit p; the bits of scalar copies and *)
(* reads follow, and joins over several buckets get buckets of their own.    *)

Outs(c) == IF c.kind = "kernel" THEN c.outs ELSE <<>>
Ins(c)  == IF c.kind = "kernel" THEN c.ins  ELSE <<>>

\* The input scalars of command p that an earlier command produces.
Forwarded(prog, p) ==
    SelectSeq(Ins(prog[p]), LAMBDA s : \E q \in 1..(p - 1) : s \in ToSet(Outs(prog[q])))

TotalWork(prog) ==
    Fold(LAMBDA n, p : n + 1 + Len(Forwarded(prog, p)) + Len(Outs(prog[p])),
             0, [p \in 1..Len(prog) |-> p])

\* Mutant: only the lowest bucket is awaited.
ResolveAwaitFirst(w, refs) ==
    [w EXCEPT !.await = OneBucket({r \in refs : r[1] = Min(Buckets(refs))})]

\* resolveAwait(): the await of a set of bits, and the collectors it takes.
ResolveAwait(w, refs) ==
    LET bs   == SetToSortSeq(Buckets(refs), <)
        m    == Len(bs)
        join == IF w.joinBit + m > KernelBits THEN [bucket |-> w.joinBucket + 1, bit |-> 0]
                                              ELSE [bucket |-> w.joinBucket, bit |-> w.joinBit]
        made == [j \in 1..m |-> Collector(<<bs[j], MaskIn(refs, bs[j])>>,
                                          <<join.bucket, join.bit + j - 1>>)]
    IN IF m <= 1 THEN [w EXCEPT !.await = OneBucket(refs)]
       ELSE [w EXCEPT !.await = <<join.bucket, join.bit..(join.bit + m - 1)>>,
                      !.joinBucket = join.bucket, !.joinBit = join.bit + m,
                      !.aggregators = @ \o made]

\* Mutant: only the first dependency is awaited.
PredsFirst(prog, p) ==
    LET qs == {q \in 1..Len(prog) : prog[q].id \in prog[p].deps}
    IN {BitAt(0, q - 1) : q \in {q \in qs : \A r \in qs : q <= r}}

\* The completion bits of the commands that command p depends on.
Preds(prog, p) == {BitAt(0, q - 1) : q \in {q \in 1..Len(prog) : prog[q].id \in prog[p].deps}}

\* emitMainlineCommands(), one command: its scalar copies, its packet, its reads.
\* w.ready maps a produced scalar to the bit that says it is in its slot.
MainlineCommand(prog, w, p) ==
    LET c     == prog[p]
        preds == Preds(prog, p)
        extra(v, op, slot) ==
            [v EXCEPT !.nodes = Append(@, Packet(c.id, v.await, BitAt(0, v.extra),
                                                 [op |-> op, slot |-> slot])),
                      !.refs = @ \cup {BitAt(0, v.extra)},
                      !.extra = @ + 1]
        copy(v, slot) == extra(ResolveAwait(v, preds \cup {v.ready[slot]}),
                               "SCALAR_COPY", slot)
        read(v, slot) ==
            [extra(v, "SCALAR_READ", slot) EXCEPT
                !.await  = OneBucket({BitAt(0, v.extra)}),
                !.ready  = (slot :> BitAt(0, v.extra)) @@ @,
                !.leaves = @ \cup {BitAt(0, v.extra)}]
        copied == Fold(copy, [w EXCEPT !.refs = preds], Forwarded(prog, p))
        ready  == ResolveAwait(copied, copied.refs)
        placed == [ready EXCEPT
                     !.nodes = Append(@, Packet(c.id, ready.await, BitAt(0, p - 1),
                                                Payload(c, ready.nodes))),
                     !.await = OneBucket({BitAt(0, p - 1)})]
    IN Fold(read, placed, Outs(c))

BuildMainlineImage(prog) ==
    LET step(w, p) == MainlineCommand(prog, w, p)
        start == [nodes |-> <<>>, aggregators |-> <<>>, extra |-> Len(prog),
                  joinBucket |-> (TotalWork(prog) + KernelBits - 1) \div KernelBits,
                  joinBit |-> 0, await |-> <<0, {}>>, refs |-> {}, ready |-> <<>>,
                  leaves |-> {}]
        w     == Fold(step, start, [p \in 1..Len(prog) |-> p])
        leaf  == {p \in 1..Len(prog) : /\ Outs(prog[p]) = <<>>
                                       /\ \A q \in 1..Len(prog) : prog[p].id \notin prog[q].deps}
        done  == ResolveAwait(w, w.leaves \cup {BitAt(0, p - 1) : p \in leaf})
    IN Finish(prog, done.nodes \o done.aggregators, done.await)

-------------------------------------------------------------------------------
(* ResetDomainEmitter: the bits of one body, in buckets of its own.  The     *)
(* main line of a control image is such a domain too, confined to bucket 0.  *)
(* An emission state w has the nodes, a domain and the next free bucket.     *)

NewDomain(start) ==
    [start |-> start, n |-> 0, at |-> <<>>, events |-> {}, consumed |-> {},
     roots |-> {}, kept |-> {}]

Fresh(d)       == BitAt(d.start, d.n)
AllocBit(d)    == [d EXCEPT !.n = @ + 1]
Event(d)       == [AllocBit(d) EXCEPT !.events = @ \cup {Fresh(d)}]
Define(d, id)  == [Event(d) EXCEPT !.at = (id :> Fresh(d)) @@ @]
ClearEnd(d)    == d.start + (d.n - 1) \div KernelBits
Leaves(d)      == (d.events \ d.consumed) \cup d.kept

\* refsFor(): the bits of the dependencies in this domain, or else its root gate.
RefsFor(d, deps) ==
    LET refs == {d.at[x] : x \in deps \cap DOMAIN d.at} IN IF refs = {} THEN d.roots ELSE refs

\* awaitFor(): bits of several buckets are collected, bucket by bucket, into fresh
\* bits, and those once more if they lie in two buckets.
RECURSIVE AwaitFor(_, _)
AwaitFor(w, refs) ==
    LET collect(v, b) ==
            [v EXCEPT !.nodes = Append(@, Collector(<<b, MaskIn(refs, b)>>, Fresh(v.dom))),
                      !.dom   = AllocBit(@),
                      !.refs  = @ \cup {Fresh(v.dom)}]
        w1 == Fold(collect, [w EXCEPT !.refs = {}], SetToSortSeq(Buckets(refs), <))
    IN IF Cardinality(Buckets(refs)) <= 1 THEN [w EXCEPT !.await = OneBucket(refs)]
       ELSE AwaitFor(w1, w1.refs)

\* One packet in the domain of w, with an event of its own.
Emit(w, id, cmd, payload) ==
    [w EXCEPT !.nodes = Append(@, Packet(cmd, w.await, Fresh(w.dom), payload)),
              !.dom   = IF id = NoId THEN Event(@) ELSE Define(@, id)]

\* The await of the command's dependencies, which stop being leaves.
AwaitDeps(w, c) ==
    AwaitFor([w EXCEPT !.dom.consumed = @ \cup RefsFor(w.dom, c.deps)], RefsFor(w.dom, c.deps))

\* A command that is one packet.
EmitOne(w, c) == LET v == AwaitDeps(w, c) IN Emit(v, c.id, c.id, Payload(c, v.nodes))

\* The chained SCALAR_READs of a kernel's outputs.  On the main line each absorbs
\* the packet before it; in a loop body it does not.
EmitReads(w, c, absorb) ==
    LET read(v, slot) ==
            LET last == BitAt(v.dom.start, v.dom.n - 1)
                u    == [v EXCEPT !.await = OneBucket({last}),
                                  !.dom.consumed = IF absorb THEN @ \cup {last} ELSE @]
            IN Emit(u, NoId, c.id, [op |-> "SCALAR_READ", slot |-> slot])
    IN Fold(read, w, Outs(c))

\* emitLoopKernel(): carried scalars are copied in behind the dependencies, the
\* dispatch awaits the copies too.
EmitLoopKernel(w, c) ==
    LET refs == RefsFor(w.dom, c.deps)
        copy(v, slot) ==
            LET u == AwaitFor(v, v.awaits)
            IN [Emit(u, NoId, c.id, [op |-> "SCALAR_COPY", slot |-> slot])
                  EXCEPT !.awaits = @ \cup {Fresh(u.dom)}]
        copied == Fold(copy, [w EXCEPT !.dom.consumed = @ \cup refs, !.awaits = refs], Ins(c))
        ready  == AwaitFor(copied, copied.awaits)
    IN EmitReads(Emit(ready, c.id, c.id, Payload(c, ready.nodes)), c, FALSE)

\* collectControlBody(): the first ready command first; a cycle keeps source order.
CollectControlBody(body) ==
    LET ids  == {body[i].id : i \in DOMAIN body}
        next(done, i) ==
            LET free == {k \in DOMAIN body \ ToSet(done) :
                           body[k].deps \cap ids \subseteq {body[j].id : j \in ToSet(done)}}
            IN IF free = {} THEN done ELSE Append(done, Min(free))
        order == Fold(next, <<>>, [i \in DOMAIN body |-> i])
    IN IF Len(order) = Len(body) THEN [i \in DOMAIN body |-> body[order[i]]] ELSE body

-------------------------------------------------------------------------------
(* buildControlImage().  w.dom is the main line; a body is emitted with its   *)
(* own domain in w.dom and the main line is put back afterwards.              *)

\* Mutants: a zero trip count goes to the firmware as it is, which takes it for "no
\* limit"; the predicate of a while loop is not inverted.
TerminationRaw(c) ==
    IF c.loopKind = "while"
    THEN [max |-> 0, signal |-> c.slot, value |-> c.value, cond_op |-> InvertRp1Op(c.cond_op)]
    ELSE [max |-> c.trip, signal |-> 0, value |-> {}, cond_op |-> "AND_NZ"]
TerminationPlain(c) ==
    IF c.loopKind = "while"
    THEN [max |-> 0, signal |-> c.slot, value |-> c.value, cond_op |-> c.cond_op]
    ELSE [max |-> IF c.trip = 0 THEN 1 ELSE c.trip, signal |-> 0, value |-> {},
          cond_op |-> IF c.trip = 0 THEN InvertRp1Op("AND_NZ") ELSE "AND_NZ"]

\* The termination fields of a LOOP packet: backpatchLoopPacket(), with the trip
\* count that resolveDeferredLoopTripCounts() patches in at launch.
Termination(c) ==
    IF c.loopKind = "while"
    THEN [max |-> 0, signal |-> c.slot, value |-> c.value, cond_op |-> InvertRp1Op(c.cond_op)]
    ELSE [max |-> IF c.trip = 0 THEN 1 ELSE c.trip, signal |-> 0, value |-> {},
          cond_op |-> IF c.trip = 0 THEN InvertRp1Op("AND_NZ") ELSE "AND_NZ"]

\* A COND with an empty body is a pure boolean: it raises the bit ref when met.
Boolean(await, ref, signal, op, value) ==
    [op |-> "COND", cmd |-> NoId, flags |-> {},
     await_bucket |-> await[1], await_mask |-> await[2], set_bucket |-> 0, set_mask |-> {},
     signal |-> signal, cond_op |-> op, value |-> value, done_bucket |-> ref[1],
     done_mask |-> {ref[2]}, body_start |-> 2, body_end |-> 1, clear_start |-> 1, clear_end |-> 0]

\* lowerLoop(): LOOP, the body gate, the body, RERUN.
LowerLoop(w, c) ==
    LET main == AwaitDeps(w, c)
        exit == Fresh(main.dom)
        loop == Len(w.nodes) + 1
        gate == BitAt(w.bkt, 0)
        t    == Termination(c)
        body == [Event(NewDomain(w.bkt)) EXCEPT !.roots = {gate}]
        head == Packet(c.id, main.await, exit, [op |-> "LOOP", loop_id |-> w.loops] @@ t)
        guard == Boolean(<<0, {}>>, gate, t.signal, InvertRp1Op(t.cond_op), t.value)
        in(v, d) == IF d.kind = "kernel" THEN EmitLoopKernel(v, d) ELSE EmitOne(v, d)
        work == Fold(in, [w EXCEPT !.nodes = @ \o <<head, guard>>, !.dom = body],
                         CollectControlBody(c.body))
        join == AwaitFor(work, Leaves(work.dom))
        last == Emit(join, NoId, NoId, [op |-> "RERUN", target |-> loop, loop_id |-> 0,
                                        clear_state |-> FALSE])
        rng  == [body_start |-> loop + 1, body_end |-> Len(last.nodes),
                 clear_start |-> w.bkt, clear_end |-> ClearEnd(last.dom)]
    IN [last EXCEPT !.nodes = [@ EXCEPT ![loop] = rng @@ @],
                    !.dom = Define(main.dom, c.id),
                    !.bkt = ClearEnd(last.dom) + 1, !.loops = @ + 1]

\* One arm of lowerConditional(); done is the shared completion bit.
LowerBranch(w, c, op, body, await, done) ==
    LET go    == BitAt(w.bkt, 0)
        test(ref) == [Boolean(await, ref, c.slot, op, c.value) EXCEPT !.cmd = c.id]
        dom   == [Event(NewDomain(w.bkt)) EXCEPT !.roots = {go}, !.kept = {go}]
        work  == Fold(EmitOne, [w EXCEPT !.nodes = Append(@, test(go)), !.dom = dom],
                          CollectControlBody(body))
        leaf  == AwaitFor(work, Leaves(work.dom))
    IN IF body = <<>> THEN [w EXCEPT !.nodes = Append(@, test(done))]
       ELSE [leaf EXCEPT !.nodes = Append(@, Packet(NoId, leaf.await, done, [op |-> "NOP"])),
                         !.dom = w.dom, !.bkt = ClearEnd(leaf.dom) + 1]

\* Mutant: both arms test the same predicate.
ElseOpSame(op) == op

ElseOp(op) == InvertRp1Op(op)

LowerConditional(w, c) ==
    LET main == AwaitDeps(w, c)
        done == Fresh(main.dom)
        w1   == [main EXCEPT !.dom = Define(@, c.id)]
        w2   == LowerBranch(w1, c, c.cond_op, c.then, main.await, done)
    IN LowerBranch(w2, c, ElseOp(c.cond_op), c.else, main.await, done)

ControlCommand(w, c) ==
    CASE c.kind = "loop"   -> LowerLoop(w, c)
      [] c.kind = "cond"   -> LowerConditional(w, c)
      [] c.kind = "kernel" -> EmitReads(EmitOne(w, c), c, TRUE)
      [] OTHER             -> EmitOne(w, c)

\* Mutant: the sentinel awaits nothing.
SentinelAwaitNone(d) == <<0, {}>>

\* finishControlImage(): the sentinel awaits the unconsumed bits of the main line.
SentinelAwait(d) == <<0, MaskIn(Leaves(d), 0)>>

BuildControlImage(prog) ==
    LET start == [nodes |-> <<>>, dom |-> NewDomain(0), bkt |-> 1, loops |-> 0,
                  await |-> <<0, {}>>, refs |-> {}, awaits |-> {}]
        w     == Fold(ControlCommand, start, prog)
    IN Finish(prog, w.nodes, SentinelAwait(w.dom))

\* The image of a program.
Lower(prog) ==
    IF \E i \in DOMAIN prog : prog[i].kind \in {"loop", "cond"}
    THEN BuildControlImage(prog) ELSE BuildMainlineImage(prog)
===============================================================================

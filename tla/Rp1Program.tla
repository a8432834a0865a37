------------------------------- MODULE Rp1Program -------------------------------
(***************************************************************************)
(* Lowered queue programs on the firmware: the composition of Rp1Lowering  *)
(* (what FpgaDevicePlan compiles) with Rp1Loop (what executes it).  The    *)
(* properties speak about commands, their dependencies, trip counts and    *)
(* predicates; the behaviours are those of the packets.                    *)
(***************************************************************************)
EXTENDS Rp1Loop, Rp1Lowering

CONSTANT Programs       \* the queue programs the host may launch

\* The images of the programs: the value of the constant Images.
LoweredImages == {Lower(p) : p \in Programs}

\* The program on the board (there is one once a graph has been accepted).
OnBoard == {nodes[i].prog : i \in {k \in 1..Count : nodes[k].cmd = "sentinel"}}

Commands(p)  == ToSet(p)
BodyOf(c)    == CASE c.kind = "loop" -> ToSet(c.body)
                  [] c.kind = "cond" -> ToSet(c.then) \cup ToSet(c.else)
                  [] OTHER -> {}
Everything(p) == Commands(p) \cup UNION {BodyOf(c) : c \in Commands(p)}

\* The packet that does a command's work, and its SCALAR_READs.
WorkOps       == {"KERNEL_DISPATCH", "PDI_LOAD", "SIGNAL", "WAIT", "LOOP"}
PacketsOf(id, ops) == {i \in 1..Count : nodes[i].cmd = id /\ nodes[i].op \in ops}
Runs(id)      == IF PacketsOf(id, WorkOps) = {} THEN 0
                 ELSE evidence[Min(PacketsOf(id, WorkOps))]

InGraph   == pc \in Scan \cup {"quiesce"} \/ Publishing
Succeeded == Publishing /\ result = 0 /\ error.code = "none"

\* How often a command of a loop body must have run once the loop has exited.
Trips(c) == IF c.trip > EvidenceCap THEN EvidenceCap ELSE c.trip

\* The command is over: its packet is done, its loop has run its trip count, one of its
\* arms has run.
Over(c) ==
    CASE c.kind = "loop" /\ c.loopKind = "fixed" -> \A d \in BodyOf(c) : Runs(d.id) = Trips(c)
      [] c.kind = "loop" /\ c.loopKind = "while" -> Runs(c.id) = 1
      [] c.kind = "cond" -> \/ c.then # <<>> /\ \A d \in ToSet(c.then) : Runs(d.id) = 1
                            \/ c.else # <<>> /\ \A d \in ToSet(c.else) : Runs(d.id) = 1
                            \/ <<>> \in {c.then, c.else}
      [] OTHER -> Runs(c.id) = 1

Conditionals(p) == {c \in Commands(p) : c.kind = "cond"}

\* A COND has looked at its predicate's slot before the SCALAR_READ has filled it: both
\* await the kernel that produces the scalar, and a full CQ may hold back the read alone.
TestedEarly ==
    InGraph /\ \E p \in OnBoard : \E c \in Conditionals(p) :
        /\ \E i \in PacketsOf(c.id, {"COND"}) : node_status[i] = "DONE"
        /\ \E i \in 1..Count : /\ nodes[i].op = "SCALAR_READ" /\ nodes[i].slot = c.slot
                               /\ node_status[i] # "DONE"

\* Neither COND of the conditional has raised its bit.
NoArm(c) == \A i \in PacketsOf(c.id, {"COND"}) :
                ~(nodes[i].done_mask \subseteq barriers[nodes[i].done_bucket])

Started(c)     == \E i \in PacketsOf(c.id, WorkOps) : node_status[i] # "PENDING"
DepsOver(p, c) == \A d \in Commands(p) : d.id \in c.deps => Over(d)

-------------------------------------------------------------------------------
(* Properties.                                                              *)

\* A command on the main line, and a body it has, starts only when every command it
\* depends on is over: a kernel behind a loop sees all its iterations, one behind a
\* conditional the arm that was taken.  The lowering may spread the bits over buckets and collect them with
\* NOPs; the program order survives.
ProgramOrder ==
    InGraph => \A p \in OnBoard : \A c \in Commands(p) :
        Started(c) \/ (\E d \in BodyOf(c) : Started(d)) => DepsOver(p, c)

\* A kernel never starts with a stale input: the scalars the lowering forwards or carries
\* into its registers have been copied, from slots that their producer's SCALAR_READ
\* has filled, in the iteration it belongs to.
InputsCopied ==
    InGraph => \A p \in OnBoard : \A c \in Everything(p) :
        /\ (\E i \in PacketsOf(c.id, {"KERNEL_DISPATCH"}) : node_status[i] # "PENDING") =>
              \A i \in PacketsOf(c.id, {"SCALAR_COPY"}) : node_status[i] = "DONE"
        /\ \A i \in PacketsOf(c.id, {"SCALAR_COPY"}) : node_status[i] # "PENDING" =>
              \A d \in Everything(p) : d.id \in c.deps =>
                  \A k \in PacketsOf(d.id, {"SCALAR_READ"}) :
                      nodes[k].slot = nodes[i].slot => node_status[k] = "DONE"

\* A loop whose graph succeeded has run each command of its body exactly tripCount
\* times, none for a trip count of zero; at no moment has it run one more often.
TripCount ==
    InGraph => \A p \in OnBoard : \A c \in Commands(p) :
        c.kind = "loop" /\ c.loopKind = "fixed" =>
            \A d \in BodyOf(c) : /\ Runs(d.id) <= Trips(c)
                                 /\ Succeeded => Runs(d.id) = Trips(c)

\* A while loop exits on its predicate: in a graph that succeeded, the value last read
\* by the body (or the cleared slot) makes it false.
WhileExit ==
    Succeeded => \A p \in OnBoard : \A c \in Commands(p) :
        c.kind = "loop" /\ c.loopKind = "while" => ~Compare(signals[c.slot], c.cond_op, c.value)

\* A conditional whose graph succeeded has run one arm in full and nothing of the
\* other, and the arm is the one its predicate selects, unless a COND looked too early.
\* lowerConditional() says the predicate "must already have been captured" and that
\* "exactly one arm" completes; the exception is what its CONDs leave open.
ExactlyOneArm ==
    [](~TestedEarly) => [](Succeeded =>
        \A p \in OnBoard : \A c \in Conditionals(p) :
            LET met == Compare(signals[c.slot], c.cond_op, c.value)
            IN /\ \A d \in ToSet(c.then) : Runs(d.id) = IF met THEN 1 ELSE 0
               /\ \A d \in ToSet(c.else) : Runs(d.id) = IF met THEN 0 ELSE 1)

\* launch() takes the sentinel slot as proof that the program ran: while it is set, every
\* command on the main line is over and every output scalar has been captured; and
\* a graph that succeeded has set it, unless neither test of a conditional was met.
SentinelProves ==
    /\ Succeeded => \/ signals[SentinelSlot] = {0}
                    \/ \E p \in OnBoard : \E c \in Conditionals(p) : NoArm(c)
    /\ pc \in Scan /\ signals[SentinelSlot] = {0} =>
         \A p \in OnBoard : \A c \in Commands(p) :
            Over(c) /\ \A i \in PacketsOf(c.id, {"SCALAR_READ"}) : node_status[i] = "DONE"
===============================================================================

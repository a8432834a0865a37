----------------------------- MODULE VrtMeaning -----------------------------
(***************************************************************************)
(* What an authored graph means: the values its tokens have after one run, *)
(* computed region by region from the author's graph alone, with no        *)
(* devices, queues or transfers.  The compiled program is checked against  *)
(* this.                                                                   *)
(*                                                                         *)
(* A buffer's content is the term <<producer, buffer arguments, scalar     *)
(* arguments>> that made it; a scalar is a number.  An environment maps    *)
(* token keys to either.                                                   *)
(***************************************************************************)
EXTENDS VrtAuthored

\* Conditions in the graphs checked compare their operands with this constant.
CondLimit == 2

CondHolds(vals) == \A v \in vals : v < CondLimit

\* The results of a kernel, as a buffer and as a scalar.
BufferResult(kernel, port, bufs, scals) == <<kernel \o "." \o port, bufs, scals>>
ScalarResult(scals) == IF scals = {} THEN 1 ELSE 1 + Max({s[2] : s \in scals})

\* The content the host writes into an input buffer before run r.
InputTerm(key, r) == <<key[3], {}, {<<"run", r>>}>>

OfKind(ports, accs, kind) == {p \in ports : p.acc \in accs /\ p.tok.kind = kind}

RECURSIVE Steps(_, _, _, _, _), RunLoop(_, _, _, _, _)

ReadKeys(a, op) ==
  Keys({p.tok : p \in ioInputs(op)} \cup controlBoundaryInputs(a, op.id) \cup ControlScalars(op))

DeclaredInputs(a, r) == Keys(a.regions[r].inputs \cup a.regions[r].inputScalars)

\* A declared input is read as it was when the region started, except by the
\* loop that carries it.
Value(a, r, init, env, op, k) ==
  IF k \in DeclaredInputs(a, r) \ loopCarriedValues(a, op) THEN init[k] ELSE env[k]

\* An operation may run once the values it reads are final.
RunnableNow(a, r, left, op) ==
  /\ op.after \cap left = {}
  /\ \A o \in {a.ops[n] : n \in left \ {op.id}} :
       (Keys(producedValues(a, o)) \cap ReadKeys(a, op)) \subseteq DeclaredInputs(a, r)

KernelEffect(a, r, init, env, op) ==
  LET Arg(p) == <<p.port, Value(a, r, init, env, op, Key(p.tok))>>
      bufs == {Arg(p) : p \in OfKind(op.io, {"in", "ioin"}, "buffer")}
      scals == {Arg(p) : p \in OfKind(op.io, {"in"}, "scalar")}
      outs == OfKind(op.io, {"out", "ioout"}, "buffer")
      souts == OfKind(op.io, {"out"}, "scalar")
      Made(k) == LET p == CHOOSE o \in outs \cup souts : Key(o.tok) = k
                 IN  IF p \in souts THEN ScalarResult(scals)
                     ELSE BufferResult(op.kernel, p.port, bufs, scals)
  IN  [k \in Keys({p.tok : p \in outs \cup souts}) |-> Made(k)] @@ env

\* Runs one child region and returns the environment after its exports.
Child(a, r, init, env, op, c) ==
  LET in == MapsOf(a, c, "start")
      out == MapsOf(a, c, "end")
      seed == [k \in {Key(m[2]) : m \in in} |->
                 Value(a, r, init, env, op,
                       Key((CHOOSE m \in in : Key(m[2]) = k)[1]))]
              @@ [k \in {x \in DOMAIN env : x[1] = "scalar" /\ x[2] = 0} |-> env[k]]
      end == Steps(a, c, seed, seed, {n \in a.regions[c].ops : a.ops[n].kind # "boundary"})
  IN  [k \in {Key(m[2]) : m \in out} |-> end[Key((CHOOSE m \in out : Key(m[2]) = k)[1])]]
      @@ env

Continue(op, env, i) ==
  IF op.loop = "count" THEN i < env[Key(CHOOSE t \in op.trip : TRUE)]
  ELSE CondHolds({env[Key(t)] : t \in op.cond.operands})

RunLoop(a, r, env, op, i) ==
  LET c == CHOOSE x \in ChildSet(a, op.id) : TRUE
  IN  IF Continue(op, env, i) THEN RunLoop(a, r, Child(a, r, env, env, op, c), op, i + 1)
      ELSE env

\* Before its first iteration a loop's results are the seeds they continue.
LoopSeeds(a, op, env) ==
  LET c == CHOOSE x \in ChildSet(a, op.id) : TRUE
      out == MapsOf(a, c, "end")
      carried == loopCarriedValues(a, op)
      seedOf(m) == {Key(n[2]) : n \in {x \in out : x[1] = m[1] /\ Key(x[2]) \in carried}}
      fresh == {m \in out : seedOf(m) # {} /\ Key(m[2]) \notin carried}
  IN  [k \in {Key(m[2]) : m \in fresh} |->
         env[CHOOSE s \in seedOf(CHOOSE m \in fresh : Key(m[2]) = k) : TRUE]] @@ env

Effect(a, r, init, env, op) ==
  CASE op.kind = "kernel" -> KernelEffect(a, r, init, env, op)
    [] op.kind = "loop" -> RunLoop(a, r, LoopSeeds(a, op, env), op, 0)
    [] op.kind = "conditional" ->
         LET arm == IF CondHolds({env[Key(t)] : t \in op.cond.operands}) THEN "then" ELSE "else"
         IN  Child(a, r, init, env, op,
                   CHOOSE c \in ChildSet(a, op.id) : a.regions[c].arm = arm)
    [] OTHER -> env

Steps(a, r, init, env, left) ==
  IF left = {} THEN env
  ELSE LET n == CHOOSE m \in left : RunnableNow(a, r, left, a.ops[m])
       IN  Steps(a, r, init, Effect(a, r, init, env, a.ops[n]), left \ {n})

\* The environment after a run whose graph inputs are given by inputs.
Meaning(a, inputs) == Steps(a, 0, inputs, inputs, a.regions[0].ops)

=============================================================================

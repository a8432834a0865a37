----------------------------- MODULE VrtResolve -----------------------------
(***************************************************************************)
(* Resolution: every token use is tied to the one value it must observe,   *)
(* and every ordering a region needs becomes a dependency.                 *)
(*                                                                         *)
(* The code numbers values as it creates them.  Here a value is what       *)
(* determines it: <<"input", 0>> \o key for a graph input, <<"param", r>>  *)
(* \o key for a parameter of region r, and <<"out", n>> \o key for what    *)
(* node n defines (an operation output, or a control result when n is a    *)
(* loop or conditional).                                                   *)
(*                                                                         *)
(* Finals do not depend on children, so the code's recursion over regions  *)
(* is a definition per region.  Errors discard the whole result; a lookup  *)
(* that fails is NoValue and an error code.                                *)
(***************************************************************************)
EXTENDS VrtAuthored

NoValue == <<None, NoNode, None, 0, None>>

valueProducer(v) == IF v[1] = "out" THEN v[2] ELSE NoNode
KeyOf(v) == SubSeq(v, 3, 5)
IsBuffer(v) == v[3] = "buffer"

OutValue(n, k) == <<"out", n>> \o k
InitValue(r, k) == IF r = 0 THEN <<"input", 0>> \o k ELSE <<"param", r>> \o k

ProducerIds(a, r, k) == {op.id : op \in Producers(a, r, k)}
CarrierIds(a, r, k) == {op.id : op \in Carriers(a, r, k)}

MinOf(S) == CHOOSE x \in S : \A y \in S : x <= y

\* createRootInputs: explicit inputs, scalars nobody writes that are not
\* outputs, and scalars a loop carries; input buffers.
RootInputKeys(a) ==
  LET root == a.regions[0]
      IsInput(t) ==
        \/ t \in root.inputScalars
        \/ t \notin root.outputScalars /\ Producers(a, 0, Key(t)) = {}
        \/ \E op \in Producers(a, 0, Key(t)) : Key(t) \in loopCarriedValues(a, op)
  IN  Keys(root.inputs) \cup {Key(t) : t \in {u \in root.scalars : IsInput(u)}}

InitialKeys(a, r) ==
  IF r = 0 THEN RootInputKeys(a) ELSE {Key(m[2]) : m \in MapsOf(a, r, "start")}

\* selectFinalProducers: of two producers the carrying loop is final.
FinalProducer(a, r, k) ==
  LET ps == ProducerIds(a, r, k)
      cs == ps \cap CarrierIds(a, r, k)
  IN  IF Cardinality(ps) = 2 /\ Cardinality(cs) = 1 THEN MinOf(cs) ELSE MinOf(ps)

\* The per-region value namespace: initial keys, the value visible under each
\* key, and the seed of each carried key of each loop.
RegionValues(a, r) ==
  LET init == InitialKeys(a, r)
      made == AllProduced(a, r)
      carried == {<<op.id, k>> : op \in {o \in OpsOf(a, r) : o.kind = "loop"},
                                 k \in made}
      seeded == {c \in carried :
                   /\ c[2] \in loopCarriedValues(a, a.ops[c[1]])
                   /\ \/ Cardinality(ProducerIds(a, r, c[2])) = 2
                      \/ c[2] \in init}
  IN  [init |-> init,
       final |-> [k \in init \cup made |->
                    IF k \in made THEN OutValue(FinalProducer(a, r, k), k)
                                  ELSE InitValue(r, k)],
       seed |-> [c \in seeded |->
                   LET others == ProducerIds(a, r, c[2]) \ {c[1]}
                   IN  IF others # {} THEN OutValue(MinOf(others), c[2])
                                      ELSE InitValue(r, c[2])]]

AllRegionValues(a) == [r \in DOMAIN a.regions |-> RegionValues(a, r)]

DeclaredInput(a, k) ==
  k \in Keys(a.regions[0].inputs) \cup Keys(a.regions[0].inputScalars)

RootScalarValue(rv, k) ==
  IF k[1] = "scalar" /\ k[2] = 0 /\ k \in rv[0].init
  THEN InitValue(0, k) ELSE NoValue

\* The definition an input must observe, in the order the code prefers them.
valueForUse(a, rv, op, k, acc) ==
  LET r == op.region IN
  IF k \in loopCarriedValues(a, op)
  THEN IF <<op.id, k>> \in DOMAIN rv[r].seed THEN rv[r].seed[<<op.id, k>>]
                                            ELSE NoValue
  ELSE IF /\ acc = "ioin" /\ k \in rv[r].init
          /\ k \in Keys(producedValues(a, op))
       THEN InitValue(r, k)
  ELSE IF r = 0 /\ DeclaredInput(a, k) /\ k \in rv[r].init THEN InitValue(0, k)
  ELSE IF k \in DOMAIN rv[r].final THEN rv[r].final[k]
  ELSE RootScalarValue(rv, k)

\* What a child import reads in the parent.
parentValue(a, rv, op, k) ==
  LET r == op.region IN
  IF /\ k \in loopCarriedValues(a, op)
     /\ <<op.id, k>> \in DOMAIN rv[r].seed
  THEN rv[r].seed[<<op.id, k>>]
  ELSE IF k \in DOMAIN rv[r].final THEN rv[r].final[k]
  ELSE RootScalarValue(rv, k)

----------------------------------------------------------------------------
(* Bindings of one operation: [port, acc, value].                          *)

Bind(port, acc, v) == [port |-> port, acc |-> acc, value |-> v]

bindDataOperation(a, rv, op) ==
  {Bind(p.port, p.acc, valueForUse(a, rv, op, Key(p.tok), p.acc))
     : p \in ioInputs(op)}
  \cup {Bind(p.port, p.acc, OutValue(op.id, Key(p.tok))) : p \in ioOutputs(op)}

bindControlOperation(a, rv, op) ==
  {Bind(t.name, "bsrc", valueForUse(a, rv, op, Key(t), "in"))
     : t \in controlBoundaryInputs(a, op.id)}
  \cup {Bind(t.name, "btgt", OutValue(op.id, Key(t)))
          : t \in controlBoundaryOutputs(a, op.id)}
  \cup {Bind(t.name, "trip", valueForUse(a, rv, op, Key(t), "in")) : t \in op.trip}
  \cup {Bind(t.name, "cond", valueForUse(a, rv, op, Key(t), "in"))
          : t \in op.cond.operands}

\* A start boundary aliases the parent's value to a parameter; an end
\* boundary hands the region's final value to the control's result.
BoundaryPairs(a, rv, b) ==
  LET r == b.region
      ctl == a.ops[a.regions[r].ctl]
      Child(k) == IF k \in DOMAIN rv[r].final THEN rv[r].final[k] ELSE NoValue
  IN  IF b.side = "start"
      THEN {<<parentValue(a, rv, ctl, Key(m[1])), InitValue(r, Key(m[2]))>>
              : m \in ToSet(b.maps)}
      ELSE {<<Child(Key(m[1])), OutValue(ctl.id, Key(m[2]))>> : m \in ToSet(b.maps)}

\* Both sides of a pair keep the pair in their port, so that they match up.
bindBoundary(a, rv, b) ==
  UNION {{Bind(b.side, "bsrc", pr[1]), Bind(b.side, "btgt", pr[2])}
         : pr \in BoundaryPairs(a, rv, b)}

Bindings(a, rv, op) ==
  IF op.kind = "boundary" THEN bindBoundary(a, rv, op)
  ELSE bindDataOperation(a, rv, op) \cup bindControlOperation(a, rv, op)

----------------------------------------------------------------------------
(* Dependencies: [pred, why, value].                                       *)

Dep(n, why, v) == [pred |-> n, why |-> why, value |-> v]

Reads == {"in", "ioin", "bsrc", "trip", "cond"}

\* addDependency for what the operation reads.  A start boundary reads its
\* parent and takes no dependency.
DataDeps(op, binds) ==
  LET why == IF op.kind = "boundary" THEN "boundary" ELSE "data"
      used == IF op.kind = "boundary" /\ op.side = "start" THEN {}
              ELSE {b.value : b \in {c \in binds : c.acc \in Reads}}
  IN  {Dep(valueProducer(v), why, v)
         : v \in {u \in used : valueProducer(u) \notin {NoNode, op.id}}}

UserDeps(op) == {Dep(n, "user", NoValue) : n \in op.after}

\* Mutant: the next image loads while kernels of the last one may run.
NoDrain(a, op) == {}

\* A reprogram that follows a reprogram waits for all that follows the latter.
addReprogramDrain(a, op) ==
  IF op.kind # "reprogram" THEN {}
  ELSE {Dep(c.id, "drain", NoValue)
          : c \in {d \in OpsOf(a, op.region) :
                     /\ d.id # op.id
                     /\ \E n \in op.after : /\ a.ops[n].kind = "reprogram"
                                            /\ n \in d.after}}

\* An inout waits for every other operation that reads the token it mutates.
addReadersBeforeMutator(a, op) ==
  LET mutated == {Key(p.tok) : p \in {q \in op.io : q.acc = "ioin"}}
  IN  {Dep(c.id, "readers", NoValue)
         : c \in {d \in OpsOf(a, op.region) :
                    /\ d.id # op.id
                    /\ \E p \in d.io : /\ p.acc = "in" /\ p.tok.kind = "buffer"
                                       /\ Key(p.tok) \in mutated}}

ResolveOperation(a, rv, op) ==
  LET binds == Bindings(a, rv, op)
  IN  [id |-> op.id, region |-> op.region, kind |-> op.kind, binds |-> binds,
       deps |-> UserDeps(op) \cup DataDeps(op, binds)
                  \cup addReprogramDrain(a, op)
                  \cup addReadersBeforeMutator(a, op)]

\* Kahn's algorithm emits every node exactly when no set of nodes each waits
\* for another of the set: peel off what is ready until nothing is.
Acyclic(nodes, preds) ==
  LET Peel(left, i) == {n \in left : preds[n] \cap left # {}}
  IN  Chain(Peel, nodes, [i \in 1..Cardinality(nodes) |-> i]) = {}

OrderErrors(a, ops) ==
  IF \E r \in DOMAIN a.regions :
       ~Acyclic(a.regions[r].ops,
                [n \in a.regions[r].ops |-> {d.pred : d \in ops[n].deps}])
  THEN {"Cycle"} ELSE {}

----------------------------------------------------------------------------
(* Control results: what each arm hands to a control's result.             *)

Incoming(arm, region, v) == [arm |-> arm, region |-> region, value |-> v]

EndMaps(a, r) ==
  Chain(LAMBDA s, b : s \o b.maps, <<>>,
           SortedSeq(Boundaries(a, r, "end"), LAMBDA x, y : x.id < y.id))

\* The seed of a result: its own, or that of another result of the same
\* body value.
InitialFor(a, rv, ctl, child, m) ==
  LET seeds == rv[ctl.region].seed
      own == <<ctl.id, Key(m[2])>>
      shared == SelectSeq(EndMaps(a, child),
                          LAMBDA q : /\ Key(q[1]) = Key(m[1])
                                     /\ <<ctl.id, Key(q[2])>> \in DOMAIN seeds)
  IN  IF own \in DOMAIN seeds THEN {seeds[own]}
      ELSE IF shared # <<>> THEN {seeds[<<ctl.id, Key(Head(shared)[2])>>]} ELSE {}

addExplicitIncoming(a, rv, ctl, k) ==
  LET arms == UNION {{[arm |-> a.regions[c].arm, child |-> c, map |-> m]
                        : m \in {q \in MapsOf(a, c, "end") : Key(q[2]) = k}}
                     : c \in ChildSet(a, ctl.id)}
      live == {x \in arms : Key(x.map[1]) \in DOMAIN rv[x.child].final}
      Region0(v) == IF v[1] = "param" THEN v[2] ELSE ctl.region
  IN  {Incoming(x.arm, x.child, rv[x.child].final[Key(x.map[1])]) : x \in live}
      \cup UNION {{Incoming("initial", Region0(v), v)
                     : v \in InitialFor(a, rv, ctl, x.child, x.map)}
                  : x \in {y \in live : y.arm = "backedge"}}

\* An output port of the control with no end mapping: the one child token
\* produced under that port name.
ImplicitCandidates(a, c, p) ==
  {Key(q.tok) : q \in UNION {{s \in ioOutputs(o) : /\ s.port = p.port
                                                   /\ s.tok.kind = p.tok.kind}
                             : o \in OpsOf(a, c)}}

addImplicitIncoming(a, rv, ctl, k, explicit) ==
  UNION {UNION {LET cands == ImplicitCandidates(a, c, p)
                    arm == a.regions[c].arm
                IN  IF \/ Cardinality(cands) # 1
                       \/ \E x \in explicit : x.arm = arm
                    THEN {}
                    ELSE {Incoming(arm, c, rv[c].final[q]) : q \in cands}
                : c \in ChildSet(a, ctl.id)}
         : p \in {s \in ioOutputs(ctl) : Key(s.tok) = k}}

ControlResult(a, rv, ctl, k) ==
  LET explicit == addExplicitIncoming(a, rv, ctl, k)
      names == {nm[1] : nm \in {x \in ctl.named : Key(x[2]) = k}}
  IN  [ctl |-> ctl.id, result |-> OutValue(ctl.id, k),
       port |-> IF names # {} THEN CHOOSE n \in names : TRUE ELSE k[3],
       incoming |-> explicit
                      \cup addImplicitIncoming(a, rv, ctl, k, explicit)]

ControlResults(a, rv) ==
  LET ctls == {n \in DOMAIN a.ops : IsControl(a.ops[n])}
  IN  {x \in UNION {{ControlResult(a, rv, a.ops[n], k)
                       : k \in Keys(producedValues(a, a.ops[n]))} : n \in ctls}
         : x.incoming # {}}

ImplicitErrors(a) ==
  IF \E n \in DOMAIN a.ops : /\ IsControl(a.ops[n])
                             /\ \E p \in ioOutputs(a.ops[n]), c \in ChildSet(a, n) :
                                  Cardinality(ImplicitCandidates(a, c, p)) # 1
  THEN {"InvalidControlResult"} ELSE {}

----------------------------------------------------------------------------
(* The resolved graph.                                                     *)

Tokens(a) ==
  UNION {UNION {{p.tok : p \in op.io} : op \in OpsOf(a, r)}
         \cup {m[1] : m \in MapsOf(a, r, "start") \cup MapsOf(a, r, "end")}
         \cup {m[2] : m \in MapsOf(a, r, "start") \cup MapsOf(a, r, "end")}
         \cup a.regions[r].inputs \cup a.regions[r].scalars
         : r \in DOMAIN a.regions}

ProducerTypeErrors(a) ==
  IF \E r \in DOMAIN a.regions : \E k \in AllProduced(a, r) :
       Cardinality({t.type : t \in {u \in UNION {producedValues(a, op)
                      : op \in OpsOf(a, r)} : Key(u) = k}}) > 1
  THEN {"TypeMismatch"} ELSE {}

AllValues(a, rv) ==
  UNION {{InitValue(r, k) : k \in rv[r].init}
         \cup UNION {{OutValue(op.id, k) : k \in Keys(producedValues(a, op))}
                     : op \in OpsOf(a, r)}
         : r \in DOMAIN a.regions}

\* markRootOutputs: graph outputs are the values final under their names.
RootOutputKeys(a) ==
  Keys(a.regions[0].outputs) \cup Keys(a.regions[0].outputScalars)

UseErrors(ops) ==
  IF \E n \in DOMAIN ops : \E b \in ops[n].binds : b.value = NoValue
  THEN {"InvalidScope"} ELSE {}

resolveValidatedGraph(a) ==
  LET rv == AllRegionValues(a)
      ops == [n \in DOMAIN a.ops |-> ResolveOperation(a, rv, a.ops[n])]
      outKeys == RootOutputKeys(a)
      starts == {n \in DOMAIN a.ops : /\ a.ops[n].kind = "boundary"
                                      /\ a.ops[n].side = "start"}
  IN  [errors |-> UseErrors(ops) \cup OrderErrors(a, ops) \cup ImplicitErrors(a)
                    \cup ProducerTypeErrors(a)
                    \cup (IF outKeys \subseteq DOMAIN rv[0].final
                          THEN {} ELSE {"MissingProducer"}),
       a |-> a, ops |-> ops, values |-> AllValues(a, rv),
       inouts |-> UNION {{[op |-> n, port |-> b.port, input |-> b.value,
                           output |-> c.value]
                            : <<b, c>> \in {x \in ops[n].binds \X ops[n].binds :
                                 /\ x[1].acc = "ioin" /\ x[2].acc = "ioout"
                                 /\ x[1].port = x[2].port}}
                         : n \in DOMAIN ops},
       aliases |-> UNION {{[op |-> n, source |-> pr[1], target |-> pr[2]]
                             : pr \in BoundaryPairs(a, rv, a.ops[n])}
                          : n \in starts},
       pairs |-> [n \in {m \in DOMAIN a.ops : a.ops[m].kind = "boundary"} |->
                    BoundaryPairs(a, rv, a.ops[n])],
       results |-> ControlResults(a, rv),
       outputs |-> {rv[0].final[k] : k \in outKeys \cap DOMAIN rv[0].final}]

\* A value followed through start-boundary aliases to where it is allocated.
canonical(res, v) ==
  LET Hop(x, al) == IF \E l \in res.aliases : l.target = x
                    THEN (CHOOSE l \in res.aliases : l.target = x).source ELSE x
  IN  Chain(Hop, v, Listed(res.aliases))

=============================================================================

---------------------------- MODULE VrtAuthored ----------------------------
(***************************************************************************)
(* The frozen graph: AuthoredGraph::snapshot, RegionTreeIndex, the token   *)
(* descriptions every later pass shares, and validateAuthoredGraph.        *)
(*                                                                         *)
(* A frozen graph a has a.regions (region id -> region) and a.ops (node id *)
(* -> operation).  Ids are numbered as the code numbers them: regions in   *)
(* pre-order, the nodes of a region before those of its children.  A pass  *)
(* that finds errors returns their diagnostic codes; any error discards    *)
(* the pass's result.                                                      *)
(***************************************************************************)
EXTENDS VrtAuthor, Integers

MaxNesting == 256

NoNode == -1

IsControl(op) == op.kind \in {"loop", "conditional"}

Roles(op) == IF op.kind = "loop" THEN <<"backedge">> ELSE <<"then", "else">>

NoMap == [x \in {} |-> 0]

\* Freezes the first region still to visit; its children are visited before the rest.
SnapshotRegion(g, acc) ==
  LET it == Head(acc.todo)
      src == Region(g, it.scope)
      rid == acc.nextRegion
      Id(i) == acc.nextNode + i - 1
      Find(name) == {i \in DOMAIN src.ops : src.ops[i].id = name}
      Freeze(i) ==
        LET op == src.ops[i] IN
        [id |-> Id(i), region |-> rid, name |-> op.id, kind |-> op.kind,
         kernel |-> op.kernel, dev |-> op.dev, devType |-> op.devType,
         image |-> op.image, sig |-> op.sig, io |-> op.io,
         after |-> {Id(j) : j \in UNION {Find(n) : n \in op.after}},
         dangling |-> \E n \in op.after : Find(n) = {},
         side |-> op.side, maps |-> op.maps, loop |-> op.loop,
         trip |-> op.trip, cond |-> op.cond, kidScopes |-> op.kids,
         hints |-> op.hints, named |-> op.named]
      Kids(i) == [j \in DOMAIN src.ops[i].kids |->
                    [scope |-> src.ops[i].kids[j], parent |-> rid, ctl |-> Id(i),
                     arm |-> Roles(src.ops[i])[j], depth |-> it.depth + 1]]
  IN  IF it.depth >= MaxNesting THEN [acc EXCEPT !.threw = TRUE, !.todo = <<>>]
      ELSE [acc EXCEPT
        !.nextRegion = rid + 1,
        !.nextNode = @ + Len(src.ops),
        !.regions = @ @@ (rid :>
           [id |-> rid, parent |-> it.parent, ctl |-> it.ctl, arm |-> it.arm,
            scope |-> it.scope, parentScope |-> src.parentScope,
            inputs |-> src.inputs, outputs |-> src.outputs,
            scalars |-> src.scalars, inputScalars |-> src.inputScalars,
            outputScalars |-> src.outputScalars,
            ops |-> {Id(i) : i \in DOMAIN src.ops}]),
        !.ops = @ @@ [n \in {Id(i) : i \in DOMAIN src.ops} |-> Freeze(n - acc.nextNode + 1)],
        !.todo = Chain(LAMBDA ks, i : ks \o Kids(i), <<>>, [i \in DOMAIN src.ops |-> i])
                   \o Tail(@)]

Snapshot(g) ==
  Chain(LAMBDA acc, r : IF acc.todo = <<>> THEN acc ELSE SnapshotRegion(g, acc),
        [nextRegion |-> 0, nextNode |-> 0, regions |-> NoMap, ops |-> NoMap, threw |-> FALSE,
         todo |-> <<[scope |-> 0, parent |-> -1, ctl |-> NoNode, arm |-> None, depth |-> 0]>>],
        [i \in 1..Len(g.regions) |-> i])

----------------------------------------------------------------------------
(* Index lookups and token descriptions.                                   *)

OpsOf(a, r) == {a.ops[n] : n \in a.regions[r].ops}

\* The child regions of a control, in authored arm order.
Children(a, n) ==
  SortedSeq({r \in DOMAIN a.regions : a.regions[r].ctl = n},
               LAMBDA x, y : x < y)

ChildSet(a, n) == {r \in DOMAIN a.regions : a.regions[r].ctl = n}

Boundaries(a, r, side) ==
  {op \in OpsOf(a, r) : op.kind = "boundary" /\ op.side = side}

MapsOf(a, r, side) == UNION {ToSet(b.maps) : b \in Boundaries(a, r, side)}

ioInputs(op) == {p \in op.io : p.acc \in {"in", "ioin"}}
ioOutputs(op) == {p \in op.io : p.acc \in {"out", "ioout"}}

\* Parent-side tokens the child start boundaries import, and export targets.
controlBoundaryInputs(a, n) ==
  {m[1] : m \in UNION {MapsOf(a, r, "start") : r \in ChildSet(a, n)}}

controlBoundaryOutputs(a, n) ==
  {m[2] : m \in UNION {MapsOf(a, r, "end") : r \in ChildSet(a, n)}}

producedValues(a, op) ==
  {p.tok : p \in ioOutputs(op)} \cup controlBoundaryOutputs(a, op.id)

Keys(toks) == {Key(t) : t \in toks}

loopCarriedValues(a, op) ==
  IF op.kind # "loop" THEN {}
  ELSE Keys(controlBoundaryInputs(a, op.id))
         \cap Keys(controlBoundaryOutputs(a, op.id))

ControlScalars(op) == op.trip \cup op.cond.operands

----------------------------------------------------------------------------
(* Structural validation, region by region.                                *)

\* A port's declared and bound types agree, none is missing, none unknown.
PortErrors(op) ==
  LET Same(d, p) == d.port = p.port /\ d.acc = p.acc /\ d.kind = p.tok.kind
  IN  IF op.sig = {} THEN {}
      ELSE (IF \E d \in op.sig : ~\E p \in op.io : Same(d, p)
            THEN {"UnboundPort"} ELSE {})
           \cup (IF \E p \in op.io : ~\E d \in op.sig : Same(d, p)
                 THEN {"UnboundPort"} ELSE {})
           \cup (IF \E d \in op.sig, p \in op.io :
                      Same(d, p) /\ d.type # p.tok.type
                 THEN {"TypeMismatch"} ELSE {})

RootInputScalar(a, name, type) ==
  \E t \in a.regions[0].inputScalars : t.name = name /\ t.type = type

validateBufferSize(a, t) ==
  IF t.size = None \/ ~RootInputScalar(a, t.size, "U64")
  THEN {"SizeMismatch"} ELSE {}

RootScalarErrors(a, t) ==
  LET declared == {d \in a.regions[0].scalars : d.name = t.name}
  IN  IF t.scope # 0 THEN {}
      ELSE IF declared = {} THEN {"InvalidScope"}
      ELSE IF \E d \in declared : d.type # t.type THEN {"TypeMismatch"} ELSE {}

ScopeErrors(a, r, op) ==
  UNION {LET t == p.tok
             local == t.scope = a.regions[r].scope
         IN  IF t.kind = "buffer"
             THEN (IF local THEN {} ELSE {"InvalidScope"})
                    \cup validateBufferSize(a, t)
             ELSE (IF local \/ (p.acc = "in" /\ t.scope = 0)
                   THEN {} ELSE {"InvalidScope"}) \cup RootScalarErrors(a, t)
         : p \in op.io}

IntegerTypes == {"U8", "U16", "U32", "U64", "I8", "I16", "I32", "I64"}

validateConditionScopes(a, r, op) ==
  LET declared == a.regions[r].scalars
      One(t) == IF t.scope # a.regions[r].scope THEN {"InvalidScope"}
                ELSE IF ~\E d \in declared : d.name = t.name
                     THEN {"InvalidScope"}
                ELSE IF t \notin declared THEN {"TypeMismatch"} ELSE {}
  IN  UNION {One(t) : t \in ControlScalars(op)}
        \cup (IF \E t \in op.trip : t.type \notin IntegerTypes
              THEN {"TypeMismatch"} ELSE {})

validateBoundary(a, r, b) ==
  LET from == IF b.side = "start" THEN a.regions[r].parentScope
                                  ELSE a.regions[r].scope
      to == IF b.side = "start" THEN a.regions[r].scope
                                ELSE a.regions[r].parentScope
      One(m) ==
        (IF m[1].type # m[2].type THEN {"TypeMismatch"} ELSE {})
        \cup (IF m[1].kind = "buffer" /\ m[1].size = None /\ m[2].size = None
              THEN {"SizeMismatch"} ELSE {})
        \cup (IF m[1].scope # from \/ m[2].scope # to
              THEN {"InvalidBoundary"} ELSE {})
  IN  UNION {One(m) : m \in ToSet(b.maps)}

\* An FPGA kernel of an image directly follows a reprogram to that image.
validateImageSafety(a, r) ==
  IF \E op \in OpsOf(a, r) :
       /\ op.kind = "kernel" /\ op.devType = "fpga" /\ op.image # None
       /\ ~\E n \in op.after : /\ a.ops[n].kind = "reprogram"
                               /\ a.ops[n].image = op.image
  THEN {"ImageSafetyViolation"} ELSE {}

validateOperation(a, r, op) ==
  PortErrors(op) \cup ScopeErrors(a, r, op) \cup validateConditionScopes(a, r, op)
    \cup (IF op.kind = "boundary" THEN validateBoundary(a, r, op) ELSE {})
    \cup (IF op.dangling THEN {"UnknownDependency"} ELSE {})
    \cup (IF op.id \in op.after THEN {"Cycle"} ELSE {})
    \cup (IF \E k \in ChildSet(a, op.id) :
               a.regions[k].parentScope # a.regions[r].scope
          THEN {"InvalidBoundary"} ELSE {})

validateRegion(a, r) ==
  validateImageSafety(a, r)
    \cup UNION {validateOperation(a, r, op) : op \in OpsOf(a, r)}

----------------------------------------------------------------------------
(* Producer and consumer validation.                                       *)

Producers(a, r, k) ==
  {op \in OpsOf(a, r) : k \in Keys(producedValues(a, op))}

Carriers(a, r, k) == {op \in OpsOf(a, r) : k \in loopCarriedValues(a, op)}

GraphInputs(a, r) ==
  IF r # 0 THEN {}
  ELSE Keys(a.regions[0].inputs) \cup Keys(a.regions[0].inputScalars)

AllProduced(a, r) == UNION {Keys(producedValues(a, op)) : op \in OpsOf(a, r)}

\* One producer per value; two when exactly one is a loop carrying it; a
\* graph input only when its sole producer carries it.
validateDuplicateProducers(a, r) ==
  IF \E k \in AllProduced(a, r) :
       LET ps == Producers(a, r, k)
           cs == Carriers(a, r, k)
       IN  IF k \in GraphInputs(a, r)
           THEN ~(Cardinality(ps) = 1 /\ ps \subseteq cs)
           ELSE /\ Cardinality(ps) > 1
                /\ ~(Cardinality(ps) = 2 /\ Cardinality(cs) = 1)
  THEN {"DuplicateProducer"} ELSE {}

regionParameters(a, r) ==
  GraphInputs(a, r) \cup {Key(m[2]) : m \in MapsOf(a, r, "start")}

Consumed(a, op) ==
  {p.tok : p \in ioInputs(op)} \cup controlBoundaryInputs(a, op.id)
    \cup ControlScalars(op)
    \cup (IF op.kind = "boundary" /\ op.side = "end"
          THEN {m[1] : m \in ToSet(op.maps)} ELSE {})

validateConsumers(a, r) ==
  IF \E op \in OpsOf(a, r) : \E k \in Keys(Consumed(a, op)) :
       /\ Producers(a, r, k) \ {op} = {}
       /\ k \notin regionParameters(a, r)
       /\ k \notin Keys(a.regions[0].scalars)
  THEN {"MissingProducer"} ELSE {}

validateGraphOutputScalars(a, r) ==
  IF r = 0 /\ \E t \in a.regions[0].outputScalars : Producers(a, 0, Key(t)) = {}
  THEN {"MissingProducer"} ELSE {}

validateProducers(a, r) ==
  validateDuplicateProducers(a, r) \cup validateGraphOutputScalars(a, r)
    \cup validateConsumers(a, r)

validateAuthoredGraph(a) ==
  (IF a.regions[0].ops = {} THEN {"EmptyGraph"} ELSE {})
    \cup UNION {validateRegion(a, r) \cup validateProducers(a, r)
                : r \in DOMAIN a.regions}

=============================================================================

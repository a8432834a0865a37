----------------------------- MODULE VrtAuthor -----------------------------
(***************************************************************************)
(* Authoring a graph.                                                      *)
(*                                                                         *)
(* The mutable region API, AuthoringRegion, with the RegionBuilder sugar   *)
(* on top of it.  A graph under construction is a sequence of regions, the *)
(* region of scope s at index s + 1, and the set of calls that threw.  A   *)
(* call that throws leaves the graph as it was.                            *)
(*                                                                         *)
(* Tokens, ports and operations are records.  A token's key is its kind,   *)
(* scope and name.  One graph is built at a time, so the graph id of a     *)
(* token is left out.                                                      *)
(***************************************************************************)
EXTENDS Naturals, Sequences, FiniteSets, SequencesExt, FiniteSetsExt, TLC

None == "none"

\* Folds from the left, each intermediate result evaluated before the next, so
\* that a long fold does not nest.
Chain(op(_, _), base, seq) ==
  LET f[i \in 0..Len(seq)] ==
        IF i = 0 THEN base ELSE CHOOSE r \in {op(x, seq[i]) : x \in {f[i - 1]}} : TRUE
  IN  f[Len(seq)]

Listed(S) == FoldSet(LAMBDA x, s : Append(s, x), <<>>, S)
SortedSeq(S, Before(_, _)) == SortSeq(Listed(S), Before)

Token(kind, scope, name, type, size) ==
  [kind |-> kind, scope |-> scope, name |-> name, type |-> type, size |-> size]

Key(t) == <<t.kind, t.scope, t.name>>

\* A port binding: acc is in, out, ioin or ioout (the two sides of an inout).
Port(port, acc, tok) == [port |-> port, acc |-> acc, tok |-> tok]

\* A condition: the scalar operands it reads and whether the RP1 firmware can
\* evaluate it by itself.
NoCond == [operands |-> {}, rp1 |-> FALSE]

EmptyRegion(scope, parent) ==
  [scope |-> scope, parentScope |-> parent, claimed |-> FALSE,
   tokenNames |-> {}, inputs |-> {}, outputs |-> {}, scalars |-> {},
   inputScalars |-> {}, outputScalars |-> {}, ops |-> <<>>]

NewGraph == [regions |-> <<EmptyRegion(0, 0)>>, threw |-> {}]

Region(g, s) == g.regions[s + 1]

Throw(g, call) == [g EXCEPT !.threw = @ \cup {call}]

createChild(g, s) ==
  [g EXCEPT !.regions = Append(@, EmptyRegion(Len(@), s))]

----------------------------------------------------------------------------
(* Declaring tokens.                                                       *)

inputBuffer(g, s, t) ==
  IF t.name \in Region(g, s).tokenNames THEN Throw(g, "inputBuffer")
  ELSE [g EXCEPT !.regions[s + 1].tokenNames = @ \cup {t.name},
                 !.regions[s + 1].inputs = @ \cup {t}]

buffer(g, s, t) ==
  IF t.name \in Region(g, s).tokenNames THEN Throw(g, "buffer")
  ELSE [g EXCEPT !.regions[s + 1].tokenNames = @ \cup {t.name}]

outputBuffer(g, s, t) ==
  IF t.name \in Region(g, s).tokenNames THEN Throw(g, "outputBuffer")
  ELSE [g EXCEPT !.regions[s + 1].tokenNames = @ \cup {t.name},
                 !.regions[s + 1].outputs = @ \cup {t}]

ScalarNames(g, s) == {t.name : t \in Region(g, s).scalars}

scalar(g, s, t) ==
  IF t.name \in ScalarNames(g, s) THEN Throw(g, "scalar")
  ELSE [g EXCEPT !.regions[s + 1].scalars = @ \cup {t}]

inputScalar(g, s, t) ==
  IF t.name \in ScalarNames(g, s) THEN Throw(g, "inputScalar")
  ELSE [g EXCEPT !.regions[s + 1].scalars = @ \cup {t},
                 !.regions[s + 1].inputScalars = @ \cup {t}]

outputScalar(g, s, t) ==
  IF t.name \in ScalarNames(g, s) THEN Throw(g, "outputScalar")
  ELSE [g EXCEPT !.regions[s + 1].scalars = @ \cup {t},
                 !.regions[s + 1].outputScalars = @ \cup {t}]

----------------------------------------------------------------------------
(* Operations.  Every operation has all the fields; a field a kind does    *)
(* not use keeps the value it has here.                                    *)

BlankOp ==
  [kind |-> None, id |-> <<None, 0>>, kernel |-> None, dev |-> None,
   devType |-> None, image |-> None, sig |-> {}, io |-> {}, after |-> {},
   side |-> None, maps |-> <<>>, loop |-> None, trip |-> {}, cond |-> NoCond,
   kids |-> <<>>, hints |-> {}, named |-> {}]

\* nextOpId and addOp: the counter makes every id of a region distinct.
addOp(g, s, base, op) ==
  LET n == Len(Region(g, s).ops)
  IN  [g EXCEPT !.regions[s + 1].ops = Append(@, [op EXCEPT !.id = <<base, n>>])]

\* PortBindings refuses a second binding of a port on the same side.
BindsOnce(io) ==
  \A p, q \in io : p.port = q.port /\ p.acc = q.acc
                     /\ p.tok.kind = q.tok.kind => p = q

InoutsAgree(io) ==
  \A p, q \in io : p.acc = "ioin" /\ q.acc = "ioout" /\ p.port = q.port
                     => p.tok.type = q.tok.type

addKernel(g, s, c) ==
  IF c.dev = None \/ ~BindsOnce(c.io) \/ ~InoutsAgree(c.io)
  THEN Throw(g, "addKernel")
  ELSE addOp(g, s, c.kernel,
             [BlankOp EXCEPT !.kind = "kernel", !.kernel = c.kernel,
                !.dev = c.dev, !.devType = c.devType, !.image = c.image,
                !.sig = c.sig, !.io = c.io, !.after = c.after])

addReprogram(g, s, c) ==
  IF c.image = None \/ c.dev = None THEN Throw(g, "addReprogram")
  ELSE addOp(g, s, "reprogram",
             [BlankOp EXCEPT !.kind = "reprogram", !.image = c.image,
                !.dev = c.dev, !.after = c.after])

\* importFromParent and exportToParent, authored on the child region.
addParentBoundary(g, s, side, maps) ==
  IF Region(g, s).scope = Region(g, s).parentScope
  THEN Throw(g, "addParentBoundary")
  ELSE addOp(g, s, "subgraph_" \o side,
             [BlankOp EXCEPT !.kind = "boundary", !.side = side, !.maps = maps])

\* Every child is a distinct unclaimed direct child, or nothing is claimed.
ChildClaims(g, s, kids) ==
  /\ Cardinality(ToSet(kids)) = Len(kids)
  /\ \A k \in ToSet(kids) : /\ k # s
                            /\ Region(g, k).parentScope = s
                            /\ ~Region(g, k).claimed

claimChildren(g, kids) ==
  [g EXCEPT !.regions = [i \in DOMAIN @ |->
     [@[i] EXCEPT !.claimed = @ \/ (i - 1) \in ToSet(kids)]]]

LoopRecordOK(c) ==
  /\ Len(c.kids) = 1
  /\ c.loop = "count" => c.trip # {}
  /\ c.loop = "while" => c.cond # NoCond

regionAddLoop(g, s, c) ==
  IF ~LoopRecordOK(c) \/ ~ChildClaims(g, s, c.kids) THEN Throw(g, "addLoop")
  ELSE claimChildren(
         addOp(g, s, c.loop,
               [BlankOp EXCEPT !.kind = "loop", !.loop = c.loop,
                  !.trip = c.trip, !.cond = c.cond, !.kids = c.kids,
                  !.hints = c.hints, !.named = c.named, !.io = c.io,
                  !.sig = c.sig, !.after = c.after]), c.kids)

regionAddConditional(g, s, c) ==
  IF c.cond = NoCond \/ Len(c.kids) # 2 \/ ~ChildClaims(g, s, c.kids)
  THEN Throw(g, "addConditional")
  ELSE claimChildren(
         addOp(g, s, "if",
               [BlankOp EXCEPT !.kind = "conditional", !.cond = c.cond,
                  !.kids = c.kids, !.hints = c.hints, !.named = c.named,
                  !.io = c.io, !.sig = c.sig, !.after = c.after]), c.kids)

----------------------------------------------------------------------------
(* The sugar: a loop or conditional described by its ports.  ins and outs  *)
(* are sequences of port bindings in the parent's scope.                   *)

Local(p, prefix, scope) ==
  [p.tok EXCEPT !.name = prefix \o p.port, !.scope = scope]

Imports(ins, prefix, scope) ==
  [i \in DOMAIN ins |-> <<ins[i].tok, Local(ins[i], prefix, scope)>>]

\* The value of an output port is published to the output token, and to the
\* input token too when the port is also an input: that carries it.
LoopExports(ins, outs, scope) ==
  LET Carry(p) == SelectSeq(ins, LAMBDA q : q.port = p.port)
      One(p) == <<<<Local(p, "loop_out_", scope), p.tok>>>> \o
                (IF Carry(p) = <<>> THEN <<>>
                 ELSE <<<<Local(p, "loop_out_", scope), Head(Carry(p)).tok>>>>)
  IN  Chain(LAMBDA acc, p : acc \o One(p), <<>>, outs)

BoundaryIfAny(g, s, side, maps) ==
  IF maps = <<>> THEN g ELSE addParentBoundary(g, s, side, maps)

Named(outs) == {<<p.port, p.tok>> : p \in ToSet(outs)}

builderAddLoop(g, s, c) ==
  IF (c.trip # {}) = (c.cond # NoCond) THEN Throw(g, "builder.addLoop")
  ELSE LET body == Len(g.regions)
           g1 == createChild(g, s)
           g2 == BoundaryIfAny(g1, body, "start",
                               Imports(c.ins, "loop_in_", body))
           g3 == BoundaryIfAny(g2, body, "end",
                               LoopExports(c.ins, c.outs, body))
       IN  regionAddLoop(g3, s,
             [loop |-> IF c.trip # {} THEN "count" ELSE "while",
              trip |-> c.trip, cond |-> c.cond, kids |-> <<body>>,
              hints |-> c.hints, named |-> Named(c.outs),
              io |-> {}, sig |-> {}, after |-> c.after])

builderAddConditional(g, s, c) ==
  IF c.cond = NoCond THEN Throw(g, "builder.addConditional")
  ELSE LET then == Len(g.regions)
           else == then + 1
           Exports(k) == [i \in DOMAIN c.outs |->
                            <<Local(c.outs[i], "if_out_", k), c.outs[i].tok>>]
           g1 == createChild(createChild(g, s), s)
           g2 == BoundaryIfAny(g1, then, "start", Imports(c.ins, "if_in_", then))
           g3 == BoundaryIfAny(g2, else, "start", Imports(c.ins, "if_in_", else))
           g4 == BoundaryIfAny(g3, then, "end", Exports(then))
           g5 == BoundaryIfAny(g4, else, "end", Exports(else))
       IN  regionAddConditional(g5, s,
             [cond |-> c.cond, kids |-> <<then, else>>, hints |-> c.hints,
              named |-> Named(c.outs), io |-> {}, sig |-> {},
              after |-> c.after])

=============================================================================

------------------------------ MODULE VrtRoute ------------------------------
(***************************************************************************)
(* Routing: how each value gets from the memory that holds it to every     *)
(* memory that needs it, and which ordering edges need a barrier.          *)
(*                                                                         *)
(* A replica is <<value, memory, owner>>; owner is NoNode for the replica  *)
(* shared by location and an operation for the private copy of its inout   *)
(* input.  Route ids are positions in rt.routes; an endpoint of a barrier  *)
(* is <<"op", node>>.                                                      *)
(***************************************************************************)
EXTENDS VrtPlace

Shared(v, mem) == <<v, mem, NoNode>>

\* TransferCapabilityCatalog::fromGraph with the default bridge factories:
\* one bridge type, between the host and an FPGA, in both directions.
host(cat) == The(graphIoHosts(cat))
hasDirect(cat, s, d) ==
  /\ cat[s].type # cat[d].type
  /\ s = host(cat) \/ d = host(cat)

----------------------------------------------------------------------------
(* Control ancestry of a region.                                           *)

\* Enclosing controls of a region, innermost first.
ParentControls(a, r) ==
  LET up[x \in DOMAIN a.regions] ==
        IF a.regions[x].ctl = NoNode THEN <<>>
        ELSE <<a.regions[x].ctl>> \o up[a.ops[a.regions[x].ctl].region]
  IN  up[r]

RegionOf(a, n) == IF n = NoNode THEN 0 ELSE a.ops[n].region

Mode(pl, n) == IF n \in DOMAIN pl.ctl THEN pl.ctl[n].mode ELSE None

nearestSplitControl(rt, n) ==
  LET s == SelectSeq(ParentControls(rt.a, RegionOf(rt.a, n)),
                     LAMBDA c : Mode(rt.pl, c) = "split")
  IN  IF s = <<>> THEN NoNode ELSE Head(s)

graphScopeRegion(rt, n) ==
  LET cs == ParentControls(rt.a, RegionOf(rt.a, n))
  IN  IF cs = <<>> THEN RegionOf(rt.a, n) ELSE RegionOf(rt.a, Last(cs))

nestedAutonomousCopy(rt, consumer) ==
  /\ consumer # NoNode
  /\ \E c \in Range(ParentControls(rt.a, RegionOf(rt.a, consumer))) :
       Mode(rt.pl, c) = "auto"

transferPhase(rt, producer, consumer) ==
  IF producer = NoNode THEN "prelaunch"
  ELSE IF /\ nearestSplitControl(rt, producer) # NoNode
          /\ nearestSplitControl(rt, producer) = nearestSplitControl(rt, consumer)
       THEN "iteration"
  ELSE IF IsControl(rt.a.ops[producer]) THEN "aftercontrol" ELSE "once"

\* <<controlling node or NoNode, region>>
transferScope(rt, phase, producer, consumer) ==
  LET owner == IF phase = "iteration" THEN nearestSplitControl(rt, producer)
               ELSE IF phase = "aftercontrol" THEN producer ELSE NoNode
  IN  IF owner = NoNode THEN <<NoNode, graphScopeRegion(rt, consumer)>>
      ELSE <<owner, RegionOf(rt.a, owner)>>

\* Controls that must not start before the route has delivered.
controlPrerequisites(rt, phase, consumer) ==
  IF consumer = NoNode \/ phase = "iteration" THEN {}
  ELSE {c \in Range(ParentControls(rt.a, RegionOf(rt.a, consumer))) :
          Mode(rt.pl, c) # "auto"}

----------------------------------------------------------------------------
(* Selection and interning of routes.                                      *)

sameLocation(s, d) ==
  s[1] = d[1] /\ (s[2] = None \/ d[2] = None \/ s[2] = d[2])

Leg(mech, s, d, exec) == [mech |-> mech, source |-> s, destination |-> d, executor |-> exec]

\* <<legs, error>>; no legs and no error: nothing has to move.
selectRoute(cat, s, d, forceCopy) ==
  LET h == host(cat)
  IN  IF sameLocation(s, d) /\ ~forceCopy THEN <<<<>>, None>>
      ELSE IF s[1] = d[1]
      THEN IF supportsMemoryRegionCopies(cat, s[1])
           THEN <<<<Leg("copy", s[1], d[1], h)>>, None>>
           ELSE <<<<>>, "IncompatibleMemoryPlacement">>
      ELSE IF hasDirect(cat, s[1], d[1])
      THEN <<<<Leg("direct", s[1], d[1],
                   IF h \in {s[1], d[1]} THEN h ELSE d[1])>>, None>>
      ELSE IF /\ h \notin {s[1], d[1]}
              /\ hasDirect(cat, s[1], h) /\ hasDirect(cat, h, d[1])
      THEN <<<<Leg("bounce", s[1], h, h), Leg("bounce", h, d[1], h)>>, None>>
      ELSE <<<<>>, "MissingTransferRoute">>

\* Slots of exactly one device can synchronise the whole route.
rendezvousOwner(cat, legs) ==
  LET own == {d \in UNION {{l.source, l.destination, l.executor} : l \in Range(legs)} :
                ownsRendezvousNamespace(cat, d)}
  IN  IF Cardinality(own) = 1 THEN The(own) ELSE None

\* The regions whose queues run the two ends and the action of a leg.
LegRegions(rt, sig, from, to, leg) ==
  LET src == IF leg.source = sig.s[1] THEN RegionOf(rt.a, from) ELSE 0
      end == IF leg.destination = sig.d[1] THEN RegionOf(rt.a, to) ELSE 0
      dst == IF sig.phase # "iteration" THEN sig.scope[2]
             ELSE IF to # NoNode /\ rt.a.regions[src].ctl = to THEN src ELSE end
      exe == IF leg.executor = leg.source THEN src
             ELSE IF leg.executor = leg.destination THEN dst ELSE 0
  IN  leg @@ [sourceRegion |-> src, destinationRegion |-> dst, executorRegion |-> exe]

RouteError(rt, e) == [rt EXCEPT !.errors = @ \cup {e}]

\* Returns <<rt, route id or 0>>.
internRoute(cat, rt, sig, from, to, prereqs, ctls, isolated) ==
  LET sel == selectRoute(cat, sig.s, sig.d, isolated /\ sig.s[1] = sig.d[1])
      known == {i \in DOMAIN rt.routes : rt.routes[i].sig = sig}
      legs == [i \in DOMAIN sel[1] |-> LegRegions(rt, sig, from, to, sel[1][i])]
  IN  IF sel[2] # None THEN <<RouteError(rt, sel[2]), 0>>
      ELSE IF sel[1] = <<>> THEN <<rt, 0>>
      ELSE IF known # {}
      THEN <<[rt EXCEPT !.routes[The(known)].ctls = @ \cup ctls], The(known)>>
      ELSE <<[rt EXCEPT !.routes = Append(@,
                [sig |-> sig, from |-> from, to |-> to, legs |-> legs,
                 prereqs |-> prereqs, ctls |-> ctls, isolated |-> isolated,
                 owner |-> rendezvousOwner(cat, sel[1]),
                 delivery |-> /\ prereqs # {} /\ sig.phase = "prelaunch"
                              /\ sel[1][1].mech = "copy"])],
             Len(rt.routes) + 1>>

Signature(rt, payload, src, dst, s, d, producer, consumer) ==
  LET phase == transferPhase(rt, producer, consumer)
  IN  [payload |-> payload, source |-> src, destination |-> dst, s |-> s, d |-> d,
       phase |-> phase, scope |-> transferScope(rt, phase, producer, consumer)]

planDataRoute(cat, rt, src, dst, producer, consumer, prereqs, isolated) ==
  LET s == src[2]
      d == dst[2]
      sig == Signature(rt, IF IsBuffer(src[1]) THEN "buffer" ELSE "scalar",
                       src, dst, s, d, producer, consumer)
  IN  IF {src, dst} \subseteq rt.replicas
      THEN IF /\ s[1] = d[1] /\ ~sameLocation(s, d)
              /\ nestedAutonomousCopy(rt, consumer)
           THEN <<RouteError(rt, "UnsupportedNestedCopy"), 0>>
           ELSE internRoute(cat, rt, sig, producer, consumer, prereqs,
                  controlPrerequisites(rt, sig.phase, consumer), isolated)
      ELSE <<RouteError(rt, "InternalInvariant"), 0>>

planBarrierRoute(cat, rt, producer, consumer) ==
  LET s == Memory(rt.pl.dev[producer], None)
      d == Memory(rt.pl.dev[consumer], None)
      sig == Signature(rt, "barrier", <<"op", producer>>, <<"op", consumer>>,
                       s, d, producer, consumer)
  IN  internRoute(cat, rt, sig, producer, consumer, {},
        controlPrerequisites(rt, sig.phase, consumer), FALSE)

----------------------------------------------------------------------------
(* Mutable storage must not move.                                          *)

MutableStorageErrors(res, pl) ==
  LET clashIO(x) ==
        /\ x.output \in DOMAIN pl.primary
        /\ \E p \in pl.ports : /\ p.op = x.op /\ p.value = x.input
                               /\ ~sameLocation(p.mem, pl.primary[x.output])
      arm(x, name) == {pl.primary[i.value] : i \in {j \in x.incoming :
                         j.arm = name /\ j.value \in DOMAIN pl.primary}}
      clashLoop(x) ==
        \E s \in arm(x, "initial"), d \in arm(x, "backedge") :
          s[1] = d[1] /\ ~sameLocation(s, d)
  IN  IF (\E x \in res.inouts : clashIO(x)) \/ (\E x \in res.results : clashLoop(x))
      THEN {"IncompatibleMemoryPlacement"} ELSE {}

----------------------------------------------------------------------------
(* Uses: where an operation needs a value.                                 *)

placedUses(pl, n, v) == {p.mem : p \in {q \in pl.ports : q.op = n /\ q.value = v}}

usesForBinding(pl, n, v) ==
  IF placedUses(pl, n, v) # {} THEN placedUses(pl, n, v)
  ELSE IF Mode(pl, n) = "split"
  THEN {Memory(d, None) : d \in pl.ctl[n].participants}
  ELSE IF n \in DOMAIN pl.dev THEN {Memory(pl.dev[n], None)} ELSE {}

Use(n, v, mem, cow) == [op |-> n, value |-> v, mem |-> mem, cow |-> cow]

\* Sources of a control's own boundaries are published separately.
discoverValueUses(res, pl) ==
  UNION {UNION {{Use(n, b.value, mem, b.acc = "ioin")
                   : mem \in usesForBinding(pl, n, b.value)}
                 : b \in {x \in res.ops[n].binds :
                            /\ x.acc \in {"in", "ioin", "cond", "trip", "bsrc"}
                            /\ x.acc = "bsrc" => ~IsControl(res.a.ops[n])}}
          : n \in {m \in DOMAIN res.ops : res.ops[m].kind # "boundary"}}

\* The first mapping that hands out this replica names the one to fill.
boundarySourceFor(pl, rep) ==
  LET hits == {m \in pl.bmaps : Shared(m.target, m.mem) = rep}
      first == CHOOSE m \in hits : \A o \in hits : m.boundary <= o.boundary
  IN  IF hits = {} THEN rep ELSE Shared(first.source, first.mem)

addValueDependency(rt, producer, consumer, src, dst, id) ==
  [rt EXCEPT !.deps = @ \cup {[data |-> TRUE, producer |-> producer,
                               consumer |-> consumer, source |-> src,
                               target |-> dst, route |-> id]},
             !.datadeps = IF NoNode \in {producer, consumer} THEN @
                          ELSE @ \cup {<<producer, consumer>>}]

\* A route that already brings the value to the device: the exact replica if
\* there is one, else the first.
materializedRoutes(rt, v, device, target) ==
  LET into == {i \in DOMAIN rt.routes : /\ rt.routes[i].sig.payload # "barrier"
                                        /\ rt.routes[i].sig.destination = target}
      near == {i \in DOMAIN rt.routes : /\ rt.routes[i].sig.payload # "barrier"
                                        /\ rt.routes[i].sig.destination[1] = v
                                        /\ rt.routes[i].sig.d[1] = device}
  IN  IF into # {} THEN {MinOf(into)} ELSE IF near # {} THEN {MinOf(near)} ELSE {}

\* The dependency on what a route plan returned.
AddRouted(routed, producer, consumer, src, dst) ==
  addValueDependency(routed[1], producer, consumer, src, dst, routed[2])

\* have: a route that already brings the graph input to the device.
fillReplica(cat, rt, u, v, mem, target, into, have) ==
  LET via == The(have)
      src == IF have = {} THEN Shared(v, mem) ELSE rt.routes[via].sig.destination
  IN  IF ~IsBuffer(v) /\ v[1] = "input"
      THEN addValueDependency(rt, valueProducer(v), u.op, Shared(v, mem), target, 0)
      ELSE IF have # {} /\ src = into
      THEN addValueDependency(rt, valueProducer(v), u.op, rt.routes[via].sig.source, target, via)
      ELSE AddRouted(planDataRoute(cat, rt, src, into, valueProducer(v), u.op, have,
                                   target[3] # NoNode),
                     valueProducer(v), u.op, src, target)

\* A mutating use has a replica of its own, unless the value is the host's.
planReplica(cat, rt, u, v, mem, isolate) ==
  LET target == <<u.value, u.mem, IF isolate THEN u.op ELSE NoNode>>
      into == IF isolate THEN target ELSE boundarySourceFor(rt.pl, target)
      fanout == IsBuffer(v) /\ v[1] = "input" /\ mem[1] # into[2][1] /\ ~isolate
  IN  fillReplica(cat, [rt EXCEPT !.replicas = @ \cup {target}], u, v, mem, target, into,
                  IF fanout THEN materializedRoutes(rt, v, into[2][1], into) ELSE {})

planUseOf(cat, rt, u, v) ==
  LET mem == rt.pl.primary[v]
      same == mem[1] = u.mem[1]
      isolate == u.cow /\ ~(same /\ mem[1] = host(cat))
  IN  IF v \notin DOMAIN rt.pl.primary THEN RouteError(rt, "InternalInvariant")
      ELSE IF isolate /\ same /\ ~supportsMemoryRegionCopies(cat, mem[1])
      THEN RouteError(rt, "IncompatibleMemoryPlacement")
      ELSE planReplica(cat, rt, u, v, mem, isolate)

planValueUse(cat, res, rt, u) == planUseOf(cat, rt, u, canonical(res, u.value))

\* Each arm of a control publishes into the one replica of the result.
planArm(cat, rt, ctl, v, result) ==
  LET src == Shared(v, rt.pl.primary[v])
      dst == Shared(result, rt.pl.primary[result])
  IN  IF {v, result} \subseteq DOMAIN rt.pl.primary
      THEN AddRouted(planDataRoute(cat, rt, src, dst, valueProducer(v), ctl, {}, FALSE),
                     valueProducer(v), ctl, src, dst)
      ELSE rt

planControlPublication(cat, res, rt, x, i) ==
  planArm(cat, rt, x.ctl, canonical(res, i.value), x.result)

planGraphOutput(cat, rt, v) ==
  LET src == Shared(v, rt.pl.primary[v])
      dst == Shared(v, Memory(host(cat), None))
  IN  IF v \in DOMAIN rt.pl.primary
      THEN AddRouted(planDataRoute(cat, [rt EXCEPT !.replicas = @ \cup {dst}], src, dst,
                                   valueProducer(v), NoNode, {}, FALSE),
                     valueProducer(v), NoNode, src, dst)
      ELSE rt

AddOrder(routed, p, n) ==
  [routed[1] EXCEPT !.deps = @ \cup {[data |-> FALSE, producer |-> p, consumer |-> n,
                                      source |-> <<"op", p>>, target |-> <<"op", n>>,
                                      route |-> routed[2]]}]

planOrderDependency(cat, rt, p, n) == AddOrder(planBarrierRoute(cat, rt, p, n), p, n)

\* Edges whose two ends run somewhere and that no data dependency covers.
OrderPairs(res, rt) ==
  {q \in UNION {{<<d.pred, n>> : d \in res.ops[n].deps} : n \in DOMAIN res.ops} :
     {q[1], q[2]} \subseteq DOMAIN rt.pl.dev /\ q \notin rt.datadeps}

planUses(cat, res, rt) ==
  Chain(LAMBDA r, u : planValueUse(cat, res, r, u), rt,
        SortedSeq(discoverValueUses(res, rt.pl), LAMBDA x, y : x.op < y.op))

planPublications(cat, res, rt) ==
  Chain(LAMBDA r, p : planControlPublication(cat, res, r, p[1], p[2]), rt,
        SortedSeq(UNION {{<<x, i>> : i \in x.incoming} : x \in res.results},
                  LAMBDA p, q : p[1].ctl < q[1].ctl))

planGraphOutputs(cat, res, rt) ==
  Chain(LAMBDA r, v : planGraphOutput(cat, r, v), rt, Listed(res.outputs))

planOrderDependencies(cat, res, rt) ==
  Chain(LAMBDA r, q : planOrderDependency(cat, r, q[1], q[2]), rt,
        SortedSeq(OrderPairs(res, rt), LAMBDA p, q : p[2] < q[2]))

routeGraph(cat, res, pl) ==
  planOrderDependencies(cat, res, planGraphOutputs(cat, res, planPublications(cat, res,
    planUses(cat, res,
      [a |-> res.a, pl |-> pl, routes |-> <<>>, deps |-> {}, datadeps |-> {},
       replicas |-> {Shared(q[1], q[2]) : q \in pl.replicas},
       errors |-> MutableStorageErrors(res, pl)]))))

=============================================================================

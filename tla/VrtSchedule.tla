---------------------------- MODULE VrtSchedule ----------------------------
(***************************************************************************)
(* Scheduling: one serial queue per region and device, the steps each      *)
(* queue runs, and the rendezvous by which queues wait for each other.     *)
(*                                                                         *)
(* The code interns a queue by region and device and numbers it; here a    *)
(* queue is the pair <<region, device>>.  Steps and rendezvous are         *)
(* numbered by position.                                                   *)
(***************************************************************************)
EXTENDS VrtRoute

Queue(r, d) == <<r, d>>

\* The order of DeviceId: the host's name sorts first.
DevicesInOrder(cat, D) ==
  SortedSeq(D, LAMBDA x, y : cat[x].type = "cpu" /\ cat[y].type # "cpu")

Ascending(S) == SortedSeq(S, LAMBDA x, y : x < y)

queueFor(qs, q) == IF q \in Range(qs) THEN qs ELSE Append(qs, q)

\* Region summaries, operation sites, boundary owners.
materializePlacedQueues(cat, rt, qs) ==
  LET pl == rt.pl
      Summary(s, r) == Chain(LAMBDA t, d : queueFor(t, Queue(r, d)), s,
                             DevicesInOrder(cat, pl.sums[r].devices))
      Site(s, n) == queueFor(s, Queue(RegionOf(rt.a, n), pl.dev[n]))
      Owner(s, m) == queueFor(s, Queue(RegionOf(rt.a, m.boundary), m.mem[1]))
  IN  Chain(Owner, Chain(Site, Chain(Summary, qs, Ascending(DOMAIN pl.sums)),
                         Ascending(DOMAIN pl.dev)),
            Listed(pl.bmaps))

\* A participant runs its control and a part of every child region.
materializeControlQueues(cat, rt, qs) ==
  LET Regions(n) == <<RegionOf(rt.a, n)>> \o Ascending(ChildSet(rt.a, n))
      Part(n, d, s) == Chain(LAMBDA t, r : queueFor(t, Queue(r, d)), s, Regions(n))
  IN  Chain(LAMBDA s, n : Chain(LAMBDA t, d : Part(n, d, t), s,
                                DevicesInOrder(cat, rt.pl.ctl[n].participants)),
            qs, Ascending(DOMAIN rt.pl.ctl))

materializeRouteQueues(rt, qs) ==
  LET Sites(s, l) == queueFor(queueFor(queueFor(s,
                       Queue(l.sourceRegion, l.source)),
                       Queue(l.destinationRegion, l.destination)),
                       Queue(l.executorRegion, l.executor))
  IN  Chain(LAMBDA s, i : Chain(Sites, s, rt.routes[i].legs), qs,
            [i \in DOMAIN rt.routes |-> i])

\* Graph host, placed work, control participants, transfer sites.  A queue's id
\* is its position.
materializeQueues(cat, rt) ==
  materializeRouteQueues(rt, materializeControlQueues(cat, rt,
    materializePlacedQueues(cat, rt, <<Queue(0, host(cat))>>)))

----------------------------------------------------------------------------
(* Steps.                                                                  *)

BlankStep == [queue |-> <<0, None>>, kind |-> None, op |-> NoNode, route |-> 0,
              leg |-> 0, rv |-> 0, maps |-> {}, deps |-> {}]

\* at is the step created last, or the one a receiver may depend on.
createStep(st, q, step) ==
  [st EXCEPT !.steps = Append(@, [step EXCEPT !.queue = q]), !.at = Len(st.steps) + 1]

addDependency(st, step, dep) ==
  IF step = dep THEN st ELSE [st EXCEPT !.steps[step].deps = @ \cup {dep}]

addPrerequisites(st, step, deps) ==
  Chain(LAMBDA s, d : addDependency(s, step, d), st, Listed(deps))

StepsOf(st, n) == IF n \in DOMAIN st.opSteps THEN st.opSteps[n] ELSE <<>>

\* The instance on the device, or the first one.
operationStep(st, n, d) ==
  LET all == StepsOf(st, n)
      exact == SelectSeq(all, LAMBDA s : st.steps[s].queue[2] = d)
  IN  IF exact # <<>> THEN {Head(exact)} ELSE IF all # <<>> THEN {Head(all)} ELSE {}

recordStep(st, n, q, step) ==
  [createStep(st, q, step) EXCEPT
     !.opSteps = (n :> Append(StepsOf(st, n), Len(st.steps) + 1)) @@ @]

scheduleGraphIo(cat, st) ==
  createStep(createStep(st, Queue(0, host(cat)), [BlankStep EXCEPT !.kind = "gin"]),
             Queue(0, host(cat)), [BlankStep EXCEPT !.kind = "gout"])

GraphInput == 1
GraphOutput == 2

\* One step per participant of a control, one for any other operation.
scheduleOperations(rt, st) ==
  LET ops == SortedSeq(DOMAIN rt.pl.dev, LAMBDA x, y : x < y)
      Sites(n) == IF n \in DOMAIN rt.pl.ctl THEN rt.pl.ctl[n].participants
                                            ELSE {rt.pl.dev[n]}
      One(s, n) == Chain(LAMBDA t, d : recordStep(t, n, Queue(RegionOf(rt.a, n), d),
                                            [BlankStep EXCEPT !.kind = "op", !.op = n]),
                            s, Listed(Sites(n)))
  IN  Chain(One, st, ops)

scheduleBoundaries(rt, st) ==
  LET owners == {<<m.boundary, m.mem[1]>> : m \in rt.pl.bmaps}
      One(s, o) == recordStep(s, o[1], Queue(RegionOf(rt.a, o[1]), o[2]),
                     [BlankStep EXCEPT !.kind = "bound", !.op = o[1],
                        !.maps = {m \in rt.pl.bmaps : <<m.boundary, m.mem[1]>> = o}])
  IN  Chain(One, st, SortedSeq(owners, LAMBDA x, y : x[1] < y[1]))

----------------------------------------------------------------------------
(* Rendezvous.                                                             *)

createRendezvous(st, pub, wait, kind, about) ==
  [st EXCEPT !.rvs = Append(@, [publisher |-> pub, waiter |-> wait,
                                kind |-> kind, about |-> about])]

\* The publisher tells the waiter that the last step is done.
publishAndWait(st, pub, wait, kind, about) ==
  IF pub = wait THEN st
  ELSE createStep(
         createStep(createRendezvous(st, pub, wait, kind, about), pub,
                    [BlankStep EXCEPT !.kind = "publish", !.rv = Len(st.rvs) + 1,
                       !.deps = {st.at}]),
         wait, [BlankStep EXCEPT !.kind = "wait", !.rv = Len(st.rvs) + 1,
                  !.deps = {Len(st.steps) + 1}])

----------------------------------------------------------------------------
(* Routes.                                                                 *)

RouteStep(kind, i, l) == [BlankStep EXCEPT !.kind = kind, !.route = i, !.leg = l]

\* A host event that gates a control ends on the queue that runs the action.
completeHostEventOnExecutor(rt, r) ==
  /\ r.owner = None
  /\ r.ctls # {} \/ r.to \in DOMAIN rt.pl.ctl

\* The step of queue q that follows the last one, and the milestones of route i it is.
RouteStepAfter(st, q, kind, i, l) ==
  createStep(st, q, [RouteStep(kind, i, l) EXCEPT !.deps = {st.at}])
Acted(st, i) == [st EXCEPT !.action = (i :> st.at) @@ @]
Received(st, i) == [st EXCEPT !.done = (i :> st.at) @@ @]

\* On the publishing queue the delivery is the publish step, not the wait.
deliveryPublisher(st, pub, wait) == IF pub = wait THEN st.at ELSE The(st.steps[st.at].deps)

Delivered(st, pub, wait, i) == [st EXCEPT !.launch = (i :> deliveryPublisher(st, pub, wait)) @@ @]

\* From the action on: tell the receiver, who consumes.
ActAndConsume(st, aq, rq, i, l) ==
  LET told == publishAndWait(Acted(st, i), aq, rq, "ready", i)
  IN  Received(RouteStepAfter(Delivered(told, aq, rq, i), rq, "consume", i, l), i)

\* The executor acts, tells the destination, and the destination consumes.
scheduleDeliveryOnlyLeg(rt, st, i, l, prereqs) ==
  LET leg == rt.routes[i].legs[l]
      aq == Queue(leg.executorRegion, leg.executor)
      first == IF prereqs = {} /\ rt.routes[i].from = NoNode THEN {GraphInput} ELSE prereqs
  IN  ActAndConsume(createStep(st, aq, [RouteStep("action", i, l) EXCEPT !.deps = first]),
                    aq, Queue(leg.destinationRegion, leg.destination), i, l)

\* Produce, tell the executor, act, tell the receiver, consume, acknowledge.
scheduleAcknowledgedLeg(rt, st, i, l, prereqs) ==
  LET r == rt.routes[i]
      leg == r.legs[l]
      sq == Queue(leg.sourceRegion, leg.source)
      aq == Queue(leg.executorRegion, leg.executor)
      rq == IF completeHostEventOnExecutor(rt, r) THEN aq
            ELSE Queue(leg.destinationRegion, leg.destination)
      from == operationStep(st, r.from, leg.source)
      first == IF prereqs # {} THEN prereqs
               ELSE IF from # {} THEN from
               ELSE IF r.from = NoNode THEN {GraphInput} ELSE {}
      made == createStep(st, sq, [RouteStep("produce", i, l) EXCEPT !.deps = first])
      acted == RouteStepAfter(publishAndWait(made, sq, aq, "ready", i), aq, "action", i, l)
  IN  publishAndWait(ActAndConsume(acted, aq, rq, i, l), rq, sq, "consumed", i)

\* The latest milestone of a route that a step of this queue may wait for.
localRouteCompletion(st, i, step) ==
  IF /\ st.steps[step].queue # st.steps[st.done[i]].queue
     /\ st.steps[step].queue = st.steps[st.launch[i]].queue
  THEN st.launch[i] ELSE st.done[i]

connectRouteConsumers(rt, st, i) ==
  LET users == {d.consumer : d \in {e \in rt.deps : e.route = i /\ e.consumer # NoNode}}
      Gate(s, step) == addDependency(s, step, localRouteCompletion(st, i, step))
      One(s, n) ==
        IF n \in DOMAIN rt.pl.ctl THEN Chain(Gate, s, StepsOf(st, n))
        ELSE Chain(LAMBDA t, x : addDependency(t, x, st.done[i]), s,
                      Listed(operationStep(st, n, rt.routes[i].sig.d[1])))
  IN  Chain(One, st, Listed(users))

scheduleRoute(rt, st, i) ==
  LET r == rt.routes[i]
      milestone == IF r.delivery THEN st.action ELSE st.done
      prereqs == {milestone[p] : p \in r.prereqs}
      Next(s, l) ==
        LET before == IF l = 1 THEN prereqs ELSE {s.done[i]}
        IN  IF r.delivery THEN scheduleDeliveryOnlyLeg(rt, s, i, l, before)
                          ELSE scheduleAcknowledgedLeg(rt, s, i, l, before)
  IN  connectRouteConsumers(rt, Chain(Next, st, [l \in DOMAIN r.legs |-> l]), i)

scheduleRoutes(rt, st) ==
  Chain(LAMBDA s, i : scheduleRoute(rt, s, i), st, [i \in DOMAIN rt.routes |-> i])

----------------------------------------------------------------------------
(* Split controls and the remaining wiring.                                *)

\* Per follower: the value, the decision, and the acknowledgement.
scheduleSplitControl(rt, st, n) ==
  LET c == rt.pl.ctl[n]
      aStep == The(operationStep(st, n, c.authority))
      f == The(c.followers)
      fStep == The(operationStep(st, n, f))
      aq == st.steps[aStep].queue
      fq == st.steps[fStep].queue
      base == Len(st.rvs)
      named == createRendezvous(createRendezvous(createRendezvous(st,
                 aq, fq, "value", n), aq, fq, "decision", n), fq, aq, "ack", n)
  IN  [named EXCEPT !.split = (n :> [authorityStep |-> aStep, followerStep |-> fStep,
                                  authorityQueue |-> aq, followerQueue |-> fq,
                                  value |-> base + 1, decision |-> base + 2,
                                  ack |-> base + 3]) @@ @]

scheduleSplitControls(rt, st) ==
  Chain(LAMBDA s, n : scheduleSplitControl(rt, s, n), st,
           SortedSeq({n \in DOMAIN rt.pl.ctl : rt.pl.ctl[n].mode = "split"},
                        LAMBDA x, y : x < y))

\* A control starts after the routes its region needs have delivered.
wireRouteControlDependencies(rt, st) ==
  LET pairs == UNION {{<<i, n>> : n \in rt.routes[i].ctls} : i \in DOMAIN rt.routes}
      StepFor(n) == IF n \in DOMAIN st.split THEN {st.split[n].authorityStep}
                    ELSE operationStep(st, n, rt.pl.dev[n])
      One(s, p) == Chain(LAMBDA t, x : addDependency(t, x, localRouteCompletion(st, p[1], x)),
                            s, Listed(StepFor(p[2])))
  IN  Chain(One, st, Listed(pairs))

wireOperationDependencies(rt, st) ==
  LET edges == {e \in rt.deps : /\ e.route = 0 /\ NoNode \notin {e.producer, e.consumer}
                                /\ {e.producer, e.consumer} \subseteq DOMAIN st.opSteps}
      One(s, e) == Chain(LAMBDA t, x :
                     addPrerequisites(t, x, operationStep(st, e.producer, st.steps[x].queue[2])),
                     s, st.opSteps[e.consumer])
  IN  Chain(One, st, Listed(edges))

wireGraphIoDependencies(cat, res, rt, st) ==
  LET eaters == {n \in DOMAIN rt.pl.dev : \E b \in res.ops[n].binds : b.value[1] = "input"}
      onHost == {s \in UNION {Range(StepsOf(st, n)) : n \in eaters} :
                   st.steps[s].queue[2] = host(cat)}
      makers == UNION {Range(StepsOf(st, valueProducer(v))) : v \in res.outputs}
      s1 == Chain(LAMBDA s, x : addDependency(s, x, GraphInput), st, Listed(onHost))
  IN  addPrerequisites(s1, GraphOutput, makers)

\* A boundary waits for its predecessors; a start boundary is waited for by
\* every other step of its queue.
wireBoundaryDependencies(res, rt, st) ==
  LET bounds == {x \in DOMAIN st.steps : st.steps[x].kind = "bound"}
      Preds(x) == UNION {operationStep(st, d.pred, st.steps[x].queue[2])
                           : d \in res.ops[st.steps[x].op].deps}
      Gated(x) == IF rt.a.ops[st.steps[x].op].side # "start" THEN {}
                  ELSE {y \in DOMAIN st.steps : /\ st.steps[y].queue = st.steps[x].queue
                                                /\ st.steps[y].kind # "bound"}
      One(s, x) == Chain(LAMBDA t, y : addDependency(t, y, x),
                            addPrerequisites(s, x, Preds(x)), Listed(Gated(x)))
  IN  Chain(One, st, Listed(bounds))

----------------------------------------------------------------------------
(* Validation and order.                                                   *)

\* Every step's rendezvous has it on the right queue; queues are known.
validateReferences(st) ==
  /\ \A x \in DOMAIN st.steps :
       LET s == st.steps[x] IN
       /\ s.queue \in Range(st.queues) /\ s.deps \subseteq DOMAIN st.steps
       /\ s.kind = "publish" => st.rvs[s.rv].publisher = s.queue
       /\ s.kind = "wait" => st.rvs[s.rv].waiter = s.queue
       /\ s.kind = "bound" => s.maps # {}
  /\ \A v \in DOMAIN st.rvs : {st.rvs[v].publisher, st.rvs[v].waiter} \subseteq Range(st.queues)

\* Kahn's algorithm, lowest id first; shorter than the steps on a cycle.
topologicalOrder(steps) ==
  LET Ready(order) == {x \in DOMAIN steps \ Range(order) : steps[x].deps \subseteq Range(order)}
      Emit(order, i) == IF Ready(order) = {} THEN order ELSE Append(order, MinOf(Ready(order)))
  IN  Chain(Emit, <<>>, steps)

queueOrderPriority(rt, s) ==
  CASE s.kind = "gin" -> 0
    [] s.kind = "bound" /\ rt.a.ops[s.op].side = "start" -> 1
    [] s.kind = "bound" /\ rt.a.ops[s.op].side = "end" -> 3
    [] s.kind = "gout" -> 4
    [] OTHER -> 2

orderQueues(rt, st, order) ==
  LET rank == [x \in DOMAIN st.steps |-> CHOOSE i \in DOMAIN order : order[i] = x]
      prio == [x \in DOMAIN st.steps |-> queueOrderPriority(rt, st.steps[x])]
  IN  [q \in Range(st.queues) |->
         SortedSeq({x \in DOMAIN st.steps : st.steps[x].queue = q},
                      LAMBDA x, y : \/ prio[x] < prio[y]
                                    \/ prio[x] = prio[y] /\ rank[x] < rank[y])]

emptySchedule(cat, rt) ==
  [queues |-> materializeQueues(cat, rt), steps |-> <<>>, rvs |-> <<>>, at |-> 0,
   opSteps |-> NoMap, action |-> NoMap, launch |-> NoMap, done |-> NoMap, split |-> NoMap]

OrderedSchedule(rt, st, order) ==
  LET whole == Len(order) = Len(st.steps)
  IN  [queues |-> st.queues, steps |-> st.steps, rvs |-> st.rvs, split |-> st.split,
       opSteps |-> st.opSteps,
       order |-> IF whole THEN orderQueues(rt, st, order) ELSE NoMap,
       errors |-> (IF whole THEN {} ELSE {"Cycle"})
                    \cup (IF validateReferences(st) THEN {} ELSE {"InternalInvariant"})]

scheduleAll(cat, rt) ==
  scheduleSplitControls(rt, scheduleRoutes(rt, scheduleBoundaries(rt,
    scheduleOperations(rt, scheduleGraphIo(cat, emptySchedule(cat, rt))))))

wireAll(cat, res, rt, st) ==
  wireBoundaryDependencies(res, rt, wireGraphIoDependencies(cat, res, rt,
    wireOperationDependencies(rt, wireRouteControlDependencies(rt, st))))

validateAndOrder(rt, st) == OrderedSchedule(rt, st, topologicalOrder(st.steps))

scheduleGraph(cat, res, rt) ==
  validateAndOrder(rt, wireAll(cat, res, rt, scheduleAll(cat, rt)))

=============================================================================

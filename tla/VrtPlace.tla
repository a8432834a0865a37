------------------------------ MODULE VrtPlace ------------------------------
(***************************************************************************)
(* Placement: which device runs each operation and controls each loop or   *)
(* conditional, and in which memories each value has replicas.             *)
(*                                                                         *)
(* A catalog cat maps a device name to its type and to the memory bank of  *)
(* each kernel port (FPGA only).  A memory is <<device, bank>>.  The code  *)
(* numbers replicas and interns them by value and memory; here a replica   *)
(* is that pair.                                                           *)
(***************************************************************************)
EXTENDS VrtResolve

Memory(d, bank) == <<d, bank>>

\* compilerCapabilities.
kernelTypes(cat, d) == {cat[d].type}
hostsGraphIo(cat, d) == cat[d].type = "cpu"
ownsFallbackControl(cat, d) == cat[d].type = "cpu"
supportsSplitAuthority(cat, d) == cat[d].type = "cpu"
supportsSplitFollower(cat, d) == cat[d].type = "fpga"
supportsReprogram(cat, d) == cat[d].type = "fpga"
supportsAutonomousControl(cat, d) == cat[d].type = "fpga"
prefersSplitPrimary(cat, d) == cat[d].type = "fpga"
supportsMemoryRegionCopies(cat, d) == cat[d].type = "fpga"
ownsRendezvousNamespace(cat, d) == cat[d].type = "fpga"

graphIoHosts(cat) == {d \in DOMAIN cat : hostsGraphIo(cat, d)}
fallbackControlDevices(cat) == {d \in DOMAIN cat : ownsFallbackControl(cat, d)}

resolveMemoryRegion(cat, d, kernel, port) ==
  LET hits == {b[3] : b \in {x \in cat[d].banks : x[1] = kernel /\ x[2] = port}}
  IN  IF hits = {} THEN None ELSE CHOOSE b \in hits : TRUE

The(S) == CHOOSE x \in S : TRUE

----------------------------------------------------------------------------
(* Operations and controls, region by region, children first.              *)

NoSummary == [devices |-> {}, work |-> FALSE, nested |-> FALSE, data |-> FALSE]

combineChildren(sums) ==
  [devices |-> UNION {s.devices : s \in sums},
   work |-> \E s \in sums : s.work,
   nested |-> \E s \in sums : s.nested,
   data |-> \E s \in sums : s.data]

\* A loop re-evaluates what its body hands back; a conditional reads its
\* condition once.  Only what the candidate itself produces is at hand.
predicateAvailableOnCandidate(res, dev, op, d) ==
  LET On(v) == valueProducer(v) # NoNode /\ valueProducer(v) \in DOMAIN dev
                 /\ dev[valueProducer(v)] = d
      names == {t.name : t \in op.cond.operands}
  IN  IF op.kind = "loop"
      THEN \E x \in res.results :
             /\ x.ctl = op.id /\ ~IsBuffer(x.result) /\ x.result[5] \in names
             /\ \E i \in x.incoming : i.arm = "backedge" /\ On(i.value)
      ELSE \E b \in res.ops[op.id].binds : b.acc = "cond" /\ On(b.value)

\* IDevice::evaluateControlCapability of an FPGA.
evaluateControlCapability(res, dev, op, d, kids) ==
  /\ kids.work /\ ~kids.nested /\ kids.devices = {d}
  /\ \/ op.kind = "loop" /\ op.loop = "count"
     \/ /\ op.cond # NoCond /\ op.cond.rp1
        /\ predicateAvailableOnCandidate(res, dev, op, d)
        /\ ~(op.kind = "conditional" /\ kids.data)

Control(mode, primary, authority, followers) ==
  [mode |-> mode, primary |-> primary, authority |-> authority,
   followers |-> followers, participants |-> {authority} \cup followers]

NoControl == Control(None, None, None, {})

\* One authority and one different follower among exactly two devices.
splitLoopPlacement(cat, kids) ==
  LET auth == {d \in kids.devices : supportsSplitAuthority(cat, d)}
      foll == {d \in kids.devices : supportsSplitFollower(cat, d)}
      prim == {d \in kids.devices : prefersSplitPrimary(cat, d)}
  IN  IF /\ Cardinality(kids.devices) = 2 /\ ~kids.nested /\ kids.work
         /\ Cardinality(auth) = 1 /\ Cardinality(foll) = 1 /\ auth # foll
      THEN Control("split", IF prim # {} THEN The(prim) ELSE The(auth),
                   The(auth), foll)
      ELSE NoControl

placeControl(cat, res, dev, op, kids) ==
  LET split == splitLoopPlacement(cat, kids)
      hosts == fallbackControlDevices(cat)
  IN  IF /\ Cardinality(kids.devices) = 1
         /\ supportsAutonomousControl(cat, The(kids.devices))
         /\ evaluateControlCapability(res, dev, op, The(kids.devices), kids)
      THEN Control("auto", The(kids.devices), The(kids.devices), {})
      ELSE IF op.kind = "loop" /\ split # NoControl THEN split
      ELSE IF Cardinality(hosts) = 1 THEN Control("host", The(hosts), The(hosts), {})
      ELSE NoControl

LeafErrors(cat, op) ==
  IF op.kind \notin {"kernel", "reprogram"} THEN {}
  ELSE IF op.dev \notin DOMAIN cat THEN {"UnknownDevice"}
  ELSE IF \/ op.kind = "kernel" /\ op.devType \notin kernelTypes(cat, op.dev)
          \/ op.kind = "reprogram" /\ ~supportsReprogram(cat, op.dev)
       THEN {"UnsupportedOperation"} ELSE {}

\* acc collects dev (node -> device), ctl (control -> placement), the region
\* summaries and the errors.  Every child of the region is already placed.
PlaceOneRegion(cat, res, acc, r) ==
  LET a == res.a
      leaves == {op \in OpsOf(a, r) : op.kind \in {"kernel", "reprogram"}
                                        /\ LeafErrors(cat, op) = {}}
      ctls == {op \in OpsOf(a, r) : IsControl(op)}
      Kids(op) == combineChildren({acc.sums[c] : c \in ChildSet(a, op.id)})
      dev1 == acc.dev @@ [n \in {op.id : op \in leaves} |-> a.ops[n].dev]
      placed == [n \in {op.id : op \in ctls} |->
                   placeControl(cat, res, dev1, a.ops[n], Kids(a.ops[n]))]
      good == {n \in DOMAIN placed : placed[n] # NoControl}
  IN  [dev |-> dev1 @@ [n \in good |-> placed[n].primary],
       ctl |-> acc.ctl @@ [n \in good |-> placed[n]],
       sums |-> acc.sums @@ (r :>
         [devices |-> {op.dev : op \in leaves}
                        \cup UNION {placed[n].participants : n \in good},
          work |-> leaves # {} \/ good # {}, nested |-> good # {},
          data |-> \E op \in OpsOf(a, r) : op.kind = "boundary" /\ op.maps # <<>>]),
       errors |-> acc.errors
                    \cup UNION {LeafErrors(cat, op) : op \in OpsOf(a, r)}
                    \cup (IF good # DOMAIN placed
                          THEN {"AmbiguousPlacement"} ELSE {})]

\* Regions are numbered in pre-order, so descending order places children
\* before parents.
placeRegions(cat, res) ==
  Chain(LAMBDA acc, r : PlaceOneRegion(cat, res, acc, r),
           [dev |-> NoMap, ctl |-> NoMap, sums |-> NoMap, errors |-> {}],
           SortedSeq(DOMAIN res.a.regions, LAMBDA x, y : x > y))

----------------------------------------------------------------------------
(* Replicas.  pl.replicas is a set of <<value, memory>>, pl.primary maps a *)
(* value to the memory of its primary replica.                             *)

ensureReplica(pl, v, mem, primary) ==
  [pl EXCEPT !.replicas = @ \cup {<<v, mem>>},
             !.primary = IF primary THEN (v :> mem) @@ @ ELSE @]

portMemory(cat, pl, op, b) ==
  Memory(pl.dev[op.id],
         IF IsBuffer(b.value)
         THEN resolveMemoryRegion(cat, pl.dev[op.id], op.kernel, b.port) ELSE None)

\* Graph inputs live on the host; a kernel's ports in the memory of the port.
placeReplicas(cat, res, pl) ==
  LET host == The(graphIoHosts(cat))
      ins == {v \in res.values : v[1] = "input"}
      kernels == {n \in DOMAIN pl.dev : res.a.ops[n].kind = "kernel"}
      ports == UNION {{[op |-> n, port |-> b.port, acc |-> b.acc,
                        value |-> b.value,
                        mem |-> portMemory(cat, pl, res.a.ops[n], b)]
                         : b \in res.ops[n].binds} : n \in kernels}
      defs == {p \in ports : p.acc \in {"out", "ioout"}}
  IN  [pl EXCEPT
        !.replicas = {<<v, Memory(host, None)>> : v \in ins}
                       \cup {<<p.value, p.mem>> : p \in ports},
        !.primary = [v \in ins |-> Memory(host, None)]
                      @@ [v \in {p.value : p \in defs} |->
                            (CHOOSE p \in defs : p.value = v).mem],
        !.ports = ports]

\* A result is where all publishing arms agree.
inferControlResult(res, pl, x) ==
  LET mems == {pl.primary[i.value]
                 : i \in {j \in x.incoming : /\ j.arm # "initial"
                                             /\ j.value \in DOMAIN pl.primary}}
      hinted == \E h \in res.a.ops[x.ctl].hints :
                  h[1] = x.port /\ h[2] = IsBuffer(x.result)
  IN  IF Cardinality(mems) = 1
      THEN ensureReplica(pl, x.result, The(mems), TRUE)
      ELSE IF mems # {} /\ ~hinted
           THEN [pl EXCEPT !.errors = @ \cup {"AmbiguousPlacement"}] ELSE pl

\* A hint <<port, is a buffer, device>> overrides inference and keeps the
\* bank when it names the inferred device.
applyHint(cat, res, pl, n, h) ==
  LET hits == {x \in res.results : /\ x.ctl = n /\ x.port = h[1]
                                   /\ IsBuffer(x.result) = h[2]}
      v == The(hits).result
  IN  IF h[3] \notin DOMAIN cat
      THEN [pl EXCEPT !.errors = @ \cup {"UnknownDevice"}]
      ELSE IF hits = {} THEN [pl EXCEPT !.errors = @ \cup {"InvalidControlResult"}]
      ELSE ensureReplica(pl, v,
             IF v \in DOMAIN pl.primary /\ pl.primary[v][1] = h[3]
             THEN pl.primary[v] ELSE Memory(h[3], None), TRUE)

\* Inner controls are resolved first: results in descending order of control.
placeControlResults(cat, res, pl) ==
  LET xs == SortedSeq(res.results, LAMBDA x, y : x.ctl > y.ctl)
      hs == {<<n, h>> : n \in DOMAIN res.a.ops,
                        h \in UNION {res.a.ops[m].hints : m \in DOMAIN res.a.ops}}
      mine == Listed({q \in hs : q[2] \in res.a.ops[q[1]].hints})
  IN  Chain(LAMBDA acc, q : applyHint(cat, res, acc, q[1], q[2]),
               Chain(LAMBDA acc, x : inferControlResult(res, acc, x), pl, xs),
               mine)

----------------------------------------------------------------------------
(* Boundary mappings: [boundary, source, target, mem].                     *)

operationDevices(pl, n) ==
  IF n \in DOMAIN pl.ctl THEN pl.ctl[n].participants
  ELSE IF n \in DOMAIN pl.dev THEN {pl.dev[n]} ELSE {}

\* A start boundary materialises its target where the region consumes it.
\* Exact port memories count always, whole devices only while nothing else
\* is known.
startMemories(res, pl, b, target) ==
  LET users == {n \in DOMAIN res.ops :
                  /\ res.ops[n].region = b.region /\ res.ops[n].kind # "boundary"
                  /\ \E x \in res.ops[n].binds : x.value = target /\ x.acc \in Reads}
      Add(mems, n) ==
        LET exact == mems \cup {p.mem : p \in {q \in pl.ports :
                                          q.op = n /\ q.value = target}}
        IN  IF exact # {} THEN exact
            ELSE {Memory(d, None) : d \in operationDevices(pl, n)}
  IN  Chain(Add, {}, SortedSeq(users, LAMBDA x, y : x < y))

endMemories(pl, source) ==
  IF source \in DOMAIN pl.primary THEN {pl.primary[source]}
  ELSE {Memory(d, None) : d \in operationDevices(pl, valueProducer(source))}

placePair(res, pl, b, pr) ==
  LET found == IF b.side = "start" THEN startMemories(res, pl, b, pr[2])
                                   ELSE endMemories(pl, pr[1])
      parent == res.a.regions[b.region].ctl
      mems == IF found = {} /\ parent \in DOMAIN pl.ctl
              THEN {Memory(pl.ctl[parent].primary, None)} ELSE found
      One(acc, mem) ==
        [ensureReplica(ensureReplica(acc, pr[1], mem, FALSE), pr[2], mem,
                       pr[2] \notin DOMAIN acc.primary)
         EXCEPT !.bmaps = @ \cup {[boundary |-> b.id, source |-> pr[1],
                                   target |-> pr[2], mem |-> mem]}]
  IN  Chain(One, pl, Listed(mems))

placeBoundaryMappings(res, pl) ==
  LET bs == SortedSeq(DOMAIN res.pairs, LAMBDA x, y : x < y)
  IN  Chain(LAMBDA acc, n :
                 Chain(LAMBDA acc2, pr : placePair(res, acc2, res.a.ops[n], pr),
                          acc, Listed(res.pairs[n])),
               pl, bs)

placeGraph(cat, res) ==
  LET regions == placeRegions(cat, res)
      base == [dev |-> regions.dev, ctl |-> regions.ctl, sums |-> regions.sums,
               errors |-> regions.errors, replicas |-> {}, primary |-> NoMap,
               ports |-> {}, bmaps |-> {}]
  IN  IF Cardinality(graphIoHosts(cat)) # 1
      THEN [base EXCEPT !.errors = @ \cup {"AmbiguousPlacement"}]
      ELSE placeBoundaryMappings(res,
             placeControlResults(cat, res, placeReplicas(cat, res, base)))

=============================================================================

----------------------------- MODULE Rp1LoopProofs -----------------------------
(***************************************************************************)
(* Proofs about Rp1Loop, for every set of images and every size of the     *)
(* tables: the type invariant, and the safety invariants that the runs     *)
(* check on small instances.  Type correctness and the control state are   *)
(* inductive together; each other invariant adds the strengthening its     *)
(* section begins with.                                                    *)
(***************************************************************************)
EXTENDS Rp1Loop, TLAPS

-------------------------------------------------------------------------------
(* The inductive invariant, in named parts.                                 *)

Active == Scan \cup {"validate", "reject", "quiesce"}

\* rp1_store_init() has checked the node count before the graph runs.
Bounded == pc \in Active => Count \in 1..MaxNodes

\* validate_nodes() has accepted every packet before the first pass.
Valid == pc \in Scan => BadNodes(nodes) = {}

\* Nothing has been activated before validation.
Unstarted == pc = "validate" => node_status = [i \in NodeIdx |-> "PENDING"]

\* The host does not stage an image while a graph runs: the sequence numbers differ
\* from acceptance to publication, and the state is RUNNING.
Sequenced ==
    /\ pc # "idle" => accepted_seq = graph_seq /\ graph_seq # graph_done_seq
    /\ pc \notin {"idle", "publish_done"} => rp1_state = "RUNNING"

Control == Bounded /\ Valid /\ Unstarted /\ Sequenced

-------------------------------------------------------------------------------
(* Facts about the operators.                                               *)

\* The sizes alone, without what LoopAssumption says of the images.
LEMMA Sizes ==
  /\ EvidenceCap \in Nat \ {0}
  /\ CqSize \in Nat \ {0}
  /\ MaxInflight \in Nat \ {0}
  /\ SeqWrap \in Nat \ {0, 1}
  /\ IterWrap \in Nat \ {0}
  BY LoopAssumption

\* A step that leaves one part of the state alone keeps its type.
LEMMA WindowKept ==
  ASSUME WindowType, UNCHANGED <<nodes, signals, graph_seq, graph_done_seq, rp1_state>>,
         error' \in ErrorRec, cq_used' \in 0..(CqSize + 1)
  PROVE  WindowType'
  BY DEF WindowType

\* The same of the per-graph store.
LEMMA StoreKept ==
  ASSUME StoreType, UNCHANGED store
  PROVE  StoreType'
  BY DEF StoreType, store

\* The same of the fabric.
LEMMA FabricKept ==
  ASSUME FabricType, UNCHANGED <<active_image, kernel, evidence>>
  PROVE  FabricType'
  BY DEF FabricType

\* A step that only moves the scanner.
LEMMA AllKept ==
  ASSUME TypeOK, ScanType', UNCHANGED <<host, shared, store, signals, error, cq_used,
                                        active_image, kernel, evidence>>
  PROVE  TypeOK'
<1>1. WindowType'
  BY DEF TypeOK, WindowType, host, shared
<1> QED BY <1>1, StoreKept, FabricKept DEF TypeOK

\* Every packet of the window has the layout of rp1_node_t.
LEMMA Layout ==
  ASSUME WindowType, NEW i \in 1..Count
  PROVE  /\ IsPacket(nodes[i])
         /\ nodes[i].op = "KERNEL_DISPATCH" => nodes[i].base \in Bases \cup {0}
         /\ nodes[i].op \in {"KERNEL_DISPATCH", "PDI_LOAD"} =>
               nodes[i].image \in ImageIds \cup {0}
<1>1. nodes # <<>>
  BY DEF Count
<1>2. PICK img \in Images : nodes = img.nodes
  BY <1>1 DEF WindowType
<1> QED BY <1>2, LoopAssumption DEF Count

\* What validate_nodes() guarantees of a packet that is activated.
LEMMA Checked ==
  ASSUME WindowType, ScanType, Bounded, Valid, pc \in Scan, NEW i \in 1..Count
  PROVE  /\ i \in NodeIdx
         /\ nodes[i].set_bucket \in Bucket /\ nodes[i].set_mask \in Word
         /\ nodes[i].await_bucket \in Bucket
         /\ nodes[i].op = "KERNEL_DISPATCH" => nodes[i].base \in Bases
<1>1. NodeFault(nodes[i], Len(nodes)) = "none"
  BY DEF Valid, BadNodes, Count
<1>2. i \in NodeIdx
  BY PacketAssumption DEF Bounded, Active, NodeIdx
<1>3. ~(nodes[i].await_bucket >= MaxBuckets \/ nodes[i].set_bucket >= MaxBuckets)
  BY <1>1 DEF NodeFault
<1>4. IsPacket(nodes[i])
  BY Layout
<1>5. nodes[i].set_bucket \in Bucket /\ nodes[i].await_bucket \in Bucket
  BY <1>3, <1>4, PacketAssumption DEF IsPacket, Bucket
<1>6. nodes[i].op = "KERNEL_DISPATCH" => nodes[i].base # 0
  BY <1>1 DEF NodeFault
<1> QED BY <1>2, <1>4, <1>5, <1>6, Layout DEF IsPacket

\* remove_inflight(): one entry fewer, and every other entry is still in the table.
LEMMA UntrackType ==
  ASSUME StoreType, NEW k \in 1..Len(inflight)
  PROVE  /\ Untrack(k) \in Seq(Entry)
         /\ Len(Untrack(k)) = Len(inflight) - 1
         /\ \A j \in 1..Len(inflight) : j # k =>
               \E m \in 1..Len(Untrack(k)) : Untrack(k)[m] = inflight[j]
<1> DEFINE n == Len(inflight)
<1>1. n \in Nat /\ n >= 1 /\ \A j \in 1..n : inflight[j] \in Entry
  BY DEF StoreType
<1>2. Untrack(k) \in [1..(n - 1) -> Entry]
  BY <1>1 DEF Untrack
<1>3. Untrack(k) \in Seq(Entry) /\ Len(Untrack(k)) = n - 1
  BY <1>1, <1>2
<1>4. ASSUME NEW j \in 1..n, j # k
      PROVE  \E m \in 1..Len(Untrack(k)) : Untrack(k)[m] = inflight[j]
  <2>1. CASE j = n
    <3>1. k \in 1..(n - 1)
      BY <1>1, <1>4, <2>1
    <3>2. Untrack(k)[k] = inflight[j]
      BY <3>1, <2>1 DEF Untrack
    <3> QED BY <3>1, <3>2, <1>3
  <2>2. CASE j # n
    <3>1. j \in 1..(n - 1)
      BY <1>1, <1>4, <2>2
    <3>2. Untrack(k)[j] = inflight[j]
      BY <3>1, <1>4 DEF Untrack
    <3> QED BY <3>1, <3>2, <1>3
  <2> QED BY <2>1, <2>2
<1> QED BY <1>3, <1>4

\* add_inflight(): one entry more, behind the ones there were.
LEMMA TrackedType ==
  ASSUME StoreType, NEW i \in NodeIdx, NEW n, n.base \in Bases, n.set_bucket \in Bucket,
         n.set_mask \in Word
  PROVE  /\ Tracked(n, i) \in Seq(Entry)
         /\ Len(Tracked(n, i)) = Len(inflight) + 1
         /\ \A j \in 1..Len(inflight) : Tracked(n, i)[j] = inflight[j]
         /\ Tracked(n, i)[Len(inflight) + 1].node = i
         /\ Tracked(n, i)[Len(inflight) + 1].infinite = ("INFINITE" \in n.flags)
<1> DEFINE e == [node |-> i, base |-> n.base, set_bucket |-> n.set_bucket,
                 set_mask |-> n.set_mask, infinite |-> "INFINITE" \in n.flags,
                 expired |-> FALSE]
<1>1. e \in Entry
  BY DEF Entry
<1>2. Tracked(n, i) = Append(inflight, e)
  BY DEF Tracked
<1> QED BY <1>1, <1>2 DEF StoreType

\* Raising the bits of a packet keeps every bucket a word.
LEMMA RaiseType ==
  ASSUME StoreType, NEW e, e.set_mask \in Word
  PROVE  Raise(e) \in [Bucket -> Word]
  BY Zenon DEF StoreType, Raise, Word

\* write_cq_entry() after cq_can_write() stays inside the ring.
LEMMA WriteCqType ==
  ASSUME WindowType, FabricType, NEW flags, NEW i, CqState(flags) = "room", WriteCq(flags, i)
  PROVE  cq_used' \in 0..(CqSize + 1) /\ evidence' \in [NodeIdx -> 0..EvidenceCap]
  BY Sizes DEF WindowType, FabricType, CqState, WriteCq

\* A refused record leaves the cursor outside the ring and the evidence alone.
LEMMA RefuseCqType ==
  ASSUME FabricType, NEW flags, RefuseCq(flags)
  PROVE  cq_used' \in 0..(CqSize + 1) /\ evidence' \in [NodeIdx -> 0..EvidenceCap]
  BY Sizes DEF FabricType, RefuseCq

\* rp1_latch_error() leaves a base code behind, and an older one alone.
LEMMA LatchedType ==
  ASSUME WindowType, NEW code \in ErrCodes, NEW i \in 0..MaxNodes
  PROVE  /\ Latched(code, i) \in ErrorRec
         /\ Latched(code, i).code # "none"
         /\ Latched(code, i).recovery = error.recovery
         /\ error.code # "none" => Latched(code, i) = error
  BY Zenon DEF WindowType, ErrorRec, Latched, ErrCodes

\* The record of a stray consumer cursor.
LEMMA CorruptType ==
  ASSUME WindowType
  PROVE  Latched("CQ_CORRUPT", 0) \in ErrorRec /\ Latched("CQ_CORRUPT", 0).code # "none"
  BY LatchedType, PacketAssumption DEF ErrCodes

\* The same when quiesce_inflight() meets it.
LEMMA CorruptRecoveryType ==
  ASSUME WindowType
  PROVE  /\ CorruptRecovery \in ErrorRec /\ CorruptRecovery.code # "none"
         /\ CorruptRecovery.recovery
         /\ error.code # "none" => CorruptRecovery = Recovery
<1>1. Latched("CQ_CORRUPT", 0) \in ErrorRec /\ Latched("CQ_CORRUPT", 0).code # "none"
  BY CorruptType
<1>2. error.code # "none" => Latched("CQ_CORRUPT", 0) = error
  BY Zenon DEF Latched
<1> QED BY <1>1, <1>2, Zenon DEF CorruptRecovery, Recovery, ErrorRec

\* rp1_mark_recovery_required() touches the flag only.
LEMMA RecoveryType ==
  ASSUME WindowType
  PROVE  Recovery \in ErrorRec /\ Recovery.code = error.code
  BY Zenon DEF WindowType, ErrorRec, Recovery

\* The values that SIGNAL computes are words.
LEMMA SignalType ==
  ASSUME NEW old \in Word, NEW op, NEW val \in Word
  PROVE  ApplySignal(old, op, val) \in Word
<1>1. WordOf(NumOf(old) + NumOf(val)) \in Word
  BY DEF WordOf, Word
<1>2. old \cup val \in Word /\ old \cap val \in Word
  BY DEF Word
<1> QED BY <1>1, <1>2, Zenon DEF ApplySignal

\* The three ways a scan moves on keep its position well-formed.
LEMMA BeginPassType ==
  ASSUME ScanType, BeginPass, UNCHANGED accepted_seq
  PROVE  ScanType'
<1>1. progress' \in BOOLEAN /\ cq_blocked' \in BOOLEAN
  BY Zenon DEF BeginPass
<1> QED BY <1>1 DEF ScanType, BeginPass, Scan

\* The scan goes on with the next packet.
LEMMA NextNodeType ==
  ASSUME ScanType, NEW i \in Nat, NEW moved, NextNode(i, moved), UNCHANGED accepted_seq
  PROVE  ScanType'
<1>1. progress' \in BOOLEAN
  BY DEF NextNode
<1> QED BY <1>1 DEF ScanType, NextNode

\* A fatal return of a phase.
LEMMA FatalType ==
  ASSUME ScanType, NEW r \in {-1, -2}, Fatal(r), UNCHANGED accepted_seq
  PROVE  ScanType'
  BY DEF ScanType, Fatal

-------------------------------------------------------------------------------
(* The type invariant is preserved by every step.                           *)

\* rp1_run() accepting a graph, rp1_store_init() included, keeps the type invariant.
LEMMA AcceptType ==
  ASSUME TypeOK, Control, Accept
  PROVE  TypeOK'
<1>1. error' \in ErrorRec
  <2>1. 0 \in 0..MaxNodes
    BY PacketAssumption
  <2>2. NoError \in ErrorRec
    BY <2>1 DEF ErrorRec, NoError
  <2>3. [NoError EXCEPT !.code = "INVALID_CONFIG"] \in ErrorRec
    BY <2>2 DEF ErrorRec, ErrCodes
  <2> QED BY <2>2, <2>3 DEF Accept
<1>2. WindowType'
  BY <1>1 DEF Accept, TypeOK, WindowType, host
<1>3. ScanType'
  BY DEF Accept, TypeOK, WindowType, ScanType
<1>4. FabricType'
  BY Sizes DEF Accept, TypeOK, FabricType
<1>5. StoreType'
  <2>1. CASE ConfigOK
    <3>1. /\ node_status' = [i \in NodeIdx |-> "PENDING"]
          /\ barriers' = [b \in Bucket |-> {}]
          /\ loop_iters' = [l \in LoopId |-> 0]
          /\ inflight' = <<>>
      BY <2>1 DEF Accept
    <3>2. 0 \in 0..(IterWrap - 1) /\ 0 <= MaxInflight
      BY Sizes
    <3>3. node_status' \in [NodeIdx -> Status] /\ barriers' \in [Bucket -> Word]
      BY <3>1 DEF Status, Word
    <3>4. loop_iters' \in [LoopId -> 0..(IterWrap - 1)]
      BY <3>1, <3>2
    <3>5. inflight' \in Seq(Entry) /\ Len(inflight') <= MaxInflight
      BY <3>1, <3>2
    <3> QED BY <3>3, <3>4, <3>5 DEF StoreType
  <2>2. CASE ~ConfigOK
    BY <2>2 DEF Accept, TypeOK, StoreType, store
  <2> QED BY <2>1, <2>2
<1> QED BY <1>2, <1>3, <1>4, <1>5 DEF TypeOK

\* So does the publication of the result.
LEMMA PublishType ==
  ASSUME TypeOK, PublishState \/ PublishDone
  PROVE  TypeOK'
<1>1. CASE PublishState
  <2>1. rp1_state' \in {"READY", "RUNNING"} \cup Terminal
    BY <1>1, Zenon DEF PublishState, Terminal
  <2> QED BY <1>1, <2>1 DEF PublishState, TypeOK, WindowType, ScanType, StoreType,
                            FabricType, host, store
<1>2. CASE PublishDone
  BY <1>2
     DEF PublishDone, TypeOK, WindowType, ScanType, StoreType, FabricType, host, store
<1> QED BY <1>1, <1>2

\* So do validate_nodes() and the forced record of a rejected packet.
LEMMA ValidateType ==
  ASSUME TypeOK, Control, Validate \/ Reject
  PROVE  TypeOK'
<1>1. CASE Validate
  <2>1. CASE BadNodes(nodes) = {}
    BY <1>1, <2>1, BeginPassType, Zenon
       DEF Validate, TypeOK, WindowType, StoreType, FabricType, host, shared
  <2>2. CASE BadNodes(nodes) # {}
    <3>1. PICK i \in BadNodes(nodes) : /\ error' = Latched("INVALID_NODE", i)
                                       /\ SetStatus(i, "ERROR")
                                       /\ pc' = "reject"
                                       /\ UNCHANGED <<idx, progress, cq_blocked, result>>
      BY <1>1, <2>2 DEF Validate
    <3>2. i \in 0..MaxNodes
      BY <1>1, PacketAssumption DEF Validate, BadNodes, Control, Bounded, Active, Count
    <3>3. error' \in ErrorRec
      BY <3>1, <3>2, LatchedType DEF ErrCodes, TypeOK
    <3>4. node_status' \in [NodeIdx -> Status]
      BY <3>1, Zenon DEF SetStatus, TypeOK, StoreType, Status
    <3> QED BY <1>1, <3>1, <3>3, <3>4
            DEF Validate, TypeOK, WindowType, ScanType, StoreType, FabricType, host, shared
  <2> QED BY <2>1, <2>2
<1>2. CASE Reject
  <2>1. cq_used' \in 0..(CqSize + 1) /\ evidence' \in [NodeIdx -> 0..EvidenceCap]
    <3>1. CASE CqState({}) = "room"
      BY <1>2, <3>1, WriteCqType DEF Reject, TypeOK
    <3>2. CASE CqState({}) # "room"
      BY <1>2, <3>2 DEF Reject, TypeOK, WindowType, FabricType
    <3> QED BY <3>1, <3>2
  <2> QED BY <1>2, <2>1 DEF Reject, TypeOK, WindowType, ScanType, StoreType, FabricType,
                            host, shared, store
<1> QED BY <1>1, <1>2

\* The end of a packet's case keeps the window and the position well-formed.
LEMMA PublishedType ==
  ASSUME TypeOK, NEW i \in Nat, CqState(nodes[i].flags) = "room", Publish(i),
         UNCHANGED accepted_seq
  PROVE  /\ cq_used' \in 0..(CqSize + 1)
         /\ evidence' \in [NodeIdx -> 0..EvidenceCap]
         /\ error' \in ErrorRec
         /\ ScanType'
<1>1. CASE WriteCq(nodes[i].flags, i) /\ NextNode(i, TRUE) /\ UNCHANGED error
  <2>1. ScanType'
    BY <1>1, NextNodeType, Zenon DEF TypeOK
  <2> QED BY <1>1, <2>1, WriteCqType, Zenon DEF TypeOK, WindowType
<1>2. CASE RefuseCq(nodes[i].flags) /\ CorruptExit
  <2>1. ScanType' /\ error' \in ErrorRec
    BY <1>2, FatalType, CorruptType, Zenon DEF CorruptExit, TypeOK
  <2> QED BY <1>2, <2>1, RefuseCqType, Zenon DEF TypeOK
<1> QED BY <1>1, <1>2, Zenon DEF Publish

\* What Complete() leaves behind has the right shape.
LEMMA CompleteType ==
  ASSUME TypeOK, Control, pc \in Scan, NEW i \in 1..Count, CqState(nodes[i].flags) = "room",
         Complete(i), UNCHANGED accepted_seq
  PROVE  /\ node_status' \in [NodeIdx -> Status]
         /\ barriers' \in [Bucket -> Word]
         /\ cq_used' \in 0..(CqSize + 1)
         /\ evidence' \in [NodeIdx -> 0..EvidenceCap]
         /\ error' \in ErrorRec
         /\ ScanType'
<1>1. node_status' \in [NodeIdx -> Status]
  BY Zenon DEF Complete, SetStatus, TypeOK, StoreType, Status
<1>2. barriers' \in [Bucket -> Word]
  BY Checked, RaiseType DEF Complete, TypeOK, Control
<1>3. i \in Nat
  BY PacketAssumption DEF Control, Bounded, Active, Scan
<1> QED BY <1>1, <1>2, <1>3, PublishedType, Zenon DEF Complete

\* The same of Fail().
LEMMA FailType ==
  ASSUME TypeOK, Control, pc \in Scan, NEW i \in 1..Count, CqState(nodes[i].flags) = "room",
         NEW code \in ErrCodes, Fail(i, code), UNCHANGED accepted_seq
  PROVE  /\ node_status' \in [NodeIdx -> Status]
         /\ barriers' \in [Bucket -> Word]
         /\ cq_used' \in 0..(CqSize + 1)
         /\ evidence' \in [NodeIdx -> 0..EvidenceCap]
         /\ error' \in ErrorRec
         /\ ScanType'
<1>1. node_status' \in [NodeIdx -> Status]
  BY Zenon DEF Fail, SetStatus, TypeOK, StoreType, Status
<1>2. barriers' \in [Bucket -> Word]
  BY Checked, RaiseType, Zenon DEF Fail, TypeOK, Control, StoreType
<1>3. cq_used' \in 0..(CqSize + 1) /\ evidence' \in [NodeIdx -> 0..EvidenceCap]
  BY WriteCqType, RefuseCqType, Zenon DEF Fail, TypeOK
<1>4. ScanType'
  <2>1. i \in Nat
    BY PacketAssumption DEF Control, Bounded, Active, Scan
  <2> QED BY <2>1, NextNodeType, FatalType, Zenon DEF Fail, TypeOK
<1>5. error' \in ErrorRec
  <2>1. i \in 0..MaxNodes
    BY Checked, PacketAssumption DEF TypeOK, Control, NodeIdx
  <2> QED BY <2>1, LatchedType DEF Fail, TypeOK
<1> QED BY <1>1, <1>2, <1>3, <1>4, <1>5

\* Re-arming a body, at the firing of LOOP or COND.
LEMMA RearmType ==
  ASSUME StoreType, NEW n, NEW i
  PROVE  /\ ClearedBarriers(n) \in [Bucket -> Word]
         /\ RearmedStatus(n, i) \in [NodeIdx -> Status]
<1>1. ClearedBarriers(n) \in [Bucket -> Word]
  BY DEF StoreType, ClearedBarriers, Word
<1>2. RearmedStatus(n, i) \in [NodeIdx -> Status]
  BY DEF StoreType, RearmedStatus, Status
<1> QED BY <1>1, <1>2

\* activate_nodes(): every opcode keeps the type invariant.
LEMMA ActivateType ==
  ASSUME TypeOK, Control, NEW i \in 1..Count, ActivateNode(i)
  PROVE  TypeOK'
<1> USE DEF TypeOK
<1>1. pc \in Scan /\ At(i)
  BY Zenon
     DEF ActivateNode, ActivateCorrupt, ActivateBlocked, ImageMismatch, InflightFull,
         Dispatch, PdiLoad, LoopNode, CondNode, RerunNode, WaitNode, Halt, Immediate,
         Activate, At, Scan
<1>2. i \in NodeIdx /\ i \in Nat /\ i \in 0..MaxNodes
  BY <1>1, Checked, PacketAssumption DEF Control, NodeIdx
<1>3. CASE ActivateCorrupt(i)
  <2>1. ScanType' /\ error' \in ErrorRec
    BY <1>3, FatalType, CorruptType, Zenon DEF ActivateCorrupt, CorruptExit
  <2> QED BY <1>3, <2>1, Zenon
          DEF ActivateCorrupt, WindowType, StoreType, FabricType, host, shared, store
<1>4. CASE ActivateBlocked(i)
  <2>1. ScanType'
    BY <1>2, <1>4 DEF ActivateBlocked, ScanType
  <2> QED BY <1>4, <2>1
          DEF ActivateBlocked, WindowType, StoreType, FabricType, host, shared, store
<1>5. CASE ImageMismatch(i)
  <2>1. /\ node_status' \in [NodeIdx -> Status] /\ barriers' \in [Bucket -> Word]
        /\ cq_used' \in 0..(CqSize + 1) /\ evidence' \in [NodeIdx -> 0..EvidenceCap]
        /\ error' \in ErrorRec /\ ScanType'
    BY <1>1, <1>5, FailType, Zenon DEF ImageMismatch, Activate, ErrCodes
  <2> QED BY <1>5, <2>1, Zenon
          DEF ImageMismatch, WindowType, StoreType, FabricType, host, shared
<1>6. CASE InflightFull(i)
  <2>1. ScanType' /\ error' \in ErrorRec
    BY <1>2, <1>6, FatalType, LatchedType DEF InflightFull, ErrCodes
  <2>2. cq_used' \in 0..(CqSize + 1) /\ evidence' \in [NodeIdx -> 0..EvidenceCap]
    BY <1>6, WriteCqType, RefuseCqType, Zenon DEF InflightFull, Activate
  <2>3. node_status' \in [NodeIdx -> Status]
    BY <1>6, Zenon DEF InflightFull, SetStatus, StoreType, Status
  <2> QED BY <1>6, <2>1, <2>2, <2>3, Zenon
          DEF InflightFull, WindowType, StoreType, FabricType, host, shared
<1>7. CASE Dispatch(i)
  <2>1. inflight' \in Seq(Entry) /\ Len(inflight') <= MaxInflight
    <3>1. /\ nodes[i].base \in Bases /\ nodes[i].set_bucket \in Bucket
          /\ nodes[i].set_mask \in Word
      BY <1>1, <1>7, Checked, Zenon DEF Dispatch, Activate, Control
    <3>2. \/ inflight' \in Seq(Entry) /\ Len(inflight') = Len(inflight) + 1
          \/ inflight' = inflight
      <4>1. inflight' = Tracked(nodes[i], i) \/ inflight' = inflight
        BY <1>7, Zenon DEF Dispatch
      <4>2. /\ Tracked(nodes[i], i) \in Seq(Entry)
            /\ Len(Tracked(nodes[i], i)) = Len(inflight) + 1
        BY <1>2, <3>1, TrackedType
      <4> QED BY ONLY <4>1, <4>2, Zenon
    <3>3. ~TableFull
      BY <1>7, Zenon DEF Dispatch
    <3>4. inflight \in Seq(Entry) /\ Len(inflight) \in Nat
      BY DEF StoreType
    <3> QED BY <3>2, <3>3, <3>4, Sizes DEF TableFull
  <2>2. kernel' \in [Bases -> {"idle", "running", "done"}]
    BY <1>7, Zenon DEF Dispatch, FabricType
  <2>3. /\ node_status' \in [NodeIdx -> Status] /\ barriers' \in [Bucket -> Word]
        /\ cq_used' \in 0..(CqSize + 1) /\ evidence' \in [NodeIdx -> 0..EvidenceCap]
        /\ error' \in ErrorRec /\ ScanType'
    <3>1. CASE "INFINITE" \in nodes[i].flags
      BY <1>1, <1>7, <3>1, CompleteType DEF Dispatch, Activate
    <3>2. CASE "INFINITE" \notin nodes[i].flags
      <4>1. ScanType'
        BY <1>2, <1>7, <3>2, NextNodeType, Zenon DEF Dispatch
      <4> QED BY <1>7, <3>2, <4>1, Zenon
              DEF Dispatch, SetStatus, Status, StoreType, WindowType, FabricType
    <3> QED BY <3>1, <3>2, Zenon
  <2> QED BY <1>7, <2>1, <2>2, <2>3, Zenon
          DEF Dispatch, WindowType, StoreType, FabricType, host, shared
<1>8. CASE PdiLoad(i)
  <2>1. /\ node_status' \in [NodeIdx -> Status] /\ barriers' \in [Bucket -> Word]
        /\ cq_used' \in 0..(CqSize + 1) /\ evidence' \in [NodeIdx -> 0..EvidenceCap]
        /\ error' \in ErrorRec /\ ScanType'
    BY <1>1, <1>8, CompleteType, FailType, Zenon DEF PdiLoad, Activate, ErrCodes
  <2>2. active_image' \in ImageIds \cup {0}
    BY <1>8, Layout, Zenon DEF PdiLoad, Activate, FabricType
  <2> QED BY <1>8, <2>1, <2>2, Zenon
          DEF PdiLoad, WindowType, StoreType, FabricType, host, shared
<1>9. CASE LoopNode(i)
  <2> DEFINE iters == (loop_iters[nodes[i].loop_id] + 1) % IterWrap
  <2>1. loop_iters' \in [LoopId -> 0..(IterWrap - 1)]
    <3>1. loop_iters' = [loop_iters EXCEPT ![nodes[i].loop_id] = iters]
      BY <1>9, Zenon DEF LoopNode
    <3>2. nodes[i].loop_id \in LoopId => iters \in 0..(IterWrap - 1)
      <4>1. \A m \in 0..(IterWrap - 1) : (m + 1) % IterWrap \in 0..(IterWrap - 1)
        BY Sizes
      <4> QED BY <4>1 DEF StoreType
    <3> QED BY <3>1, <3>2, Zenon DEF StoreType
  <2>2. \/ Complete(i)
        \/ /\ barriers' = ClearedBarriers(nodes[i])
           /\ node_status' = RearmedStatus(nodes[i], i)
           /\ NextNode(i, TRUE)
           /\ UNCHANGED <<error, cq_used, evidence>>
    BY <1>9, Zenon DEF LoopNode
  <2>3. /\ node_status' \in [NodeIdx -> Status] /\ barriers' \in [Bucket -> Word]
        /\ cq_used' \in 0..(CqSize + 1) /\ evidence' \in [NodeIdx -> 0..EvidenceCap]
        /\ error' \in ErrorRec /\ ScanType'
    <3>1. CASE Complete(i)
      BY <1>1, <1>9, <3>1, CompleteType, Zenon DEF LoopNode, Activate
    <3>2. CASE ~Complete(i)
      <4>1. ScanType'
        BY <1>2, <1>9, <2>2, <3>2, NextNodeType, Zenon DEF LoopNode
      <4>2. node_status' \in [NodeIdx -> Status] /\ barriers' \in [Bucket -> Word]
        BY <2>2, <3>2, RearmType, Zenon
      <4> QED BY <2>2, <3>2, <4>1, <4>2, Zenon DEF WindowType, FabricType
    <3> QED BY <3>1, <3>2
  <2> QED BY <1>9, <2>1, <2>3, Zenon
          DEF LoopNode, WindowType, StoreType, FabricType, host, shared
<1>10. CASE CondNode(i)
  <2>1. nodes[i].set_mask \in Word /\ nodes[i].done_mask \in Word
    BY <1>1, <1>10, Layout, Zenon DEF CondNode, Activate, IsPacket
  <2>2. node_status' \in [NodeIdx -> Status]
    BY <1>10, RearmType, Zenon DEF CondNode, StoreType, Status
  <2>3. barriers' \in [Bucket -> Word]
    <3>1. PICK b1 \in [Bucket -> Word] :
            barriers' = [b1 EXCEPT ![nodes[i].set_bucket] = @ \cup nodes[i].set_mask]
      <4>1. [barriers EXCEPT ![nodes[i].done_bucket] = @ \cup nodes[i].done_mask]
              \in [Bucket -> Word]
        BY <2>1, Zenon DEF StoreType, Word
      <4>2. ClearedBarriers(nodes[i]) \in [Bucket -> Word]
        BY RearmType
      <4> QED BY <1>10, <4>1, <4>2, Zenon DEF CondNode
    <3> QED BY <2>1, <3>1, Zenon DEF Word
  <2>4. /\ cq_used' \in 0..(CqSize + 1) /\ evidence' \in [NodeIdx -> 0..EvidenceCap]
        /\ error' \in ErrorRec /\ ScanType'
    BY <1>2, <1>10, PublishedType, Zenon DEF CondNode, Activate
  <2> QED BY <1>10, <2>2, <2>3, <2>4, Zenon
          DEF CondNode, WindowType, StoreType, FabricType, host, shared
<1>11. CASE RerunNode(i)
  <2>1. node_status' \in [NodeIdx -> Status]
    BY <1>11, Zenon DEF RerunNode, StoreType, Status
  <2>2. loop_iters' \in [LoopId -> 0..(IterWrap - 1)]
    <3>1. 0 \in 0..(IterWrap - 1)
      BY Sizes
    <3> QED BY <1>11, <3>1, Zenon DEF RerunNode, StoreType
  <2>3. barriers' \in [Bucket -> Word]
    BY <1>1, <1>11, Checked, RaiseType, Zenon DEF RerunNode, Control
  <2>4. /\ cq_used' \in 0..(CqSize + 1) /\ evidence' \in [NodeIdx -> 0..EvidenceCap]
        /\ error' \in ErrorRec /\ ScanType'
    BY <1>2, <1>11, PublishedType, Zenon DEF RerunNode, Activate
  <2> QED BY <1>11, <2>1, <2>2, <2>3, <2>4, Zenon
          DEF RerunNode, WindowType, StoreType, FabricType, host, shared
<1>12. CASE WaitNode(i)
  <2>1. /\ node_status' \in [NodeIdx -> Status] /\ barriers' \in [Bucket -> Word]
        /\ cq_used' \in 0..(CqSize + 1) /\ evidence' \in [NodeIdx -> 0..EvidenceCap]
        /\ error' \in ErrorRec /\ ScanType'
    <3>1. CASE Met(nodes[i])
      BY <1>1, <1>12, <3>1, CompleteType, Zenon DEF WaitNode, Activate
    <3>2. CASE ~Met(nodes[i])
      <4>1. ScanType'
        BY <1>2, <1>12, <3>2, NextNodeType, Zenon DEF WaitNode
      <4> QED BY <1>12, <3>2, <4>1, Zenon
              DEF WaitNode, SetStatus, Status, StoreType, WindowType, FabricType
    <3> QED BY <3>1, <3>2
  <2> QED BY <1>12, <2>1, Zenon
             DEF WaitNode, WindowType, StoreType, FabricType, host, shared
<1>13. CASE Halt(i)
  <2>1. ScanType' /\ error' \in ErrorRec
    BY <1>13, FatalType, CorruptType, Zenon DEF Halt, CorruptExit, WindowType
  <2>2. cq_used' \in 0..(CqSize + 1) /\ evidence' \in [NodeIdx -> 0..EvidenceCap]
    BY <1>13, WriteCqType, RefuseCqType, Zenon DEF Halt, Activate
  <2>3. node_status' \in [NodeIdx -> Status]
    BY <1>13, Zenon DEF Halt, SetStatus, StoreType, Status
  <2> QED BY <1>13, <2>1, <2>2, <2>3, Zenon
          DEF Halt, WindowType, StoreType, FabricType, host, shared
<1>14. CASE Immediate(i)
  <2>1. /\ node_status' \in [NodeIdx -> Status] /\ barriers' \in [Bucket -> Word]
        /\ cq_used' \in 0..(CqSize + 1) /\ evidence' \in [NodeIdx -> 0..EvidenceCap]
        /\ error' \in ErrorRec /\ ScanType'
    BY <1>1, <1>14, CompleteType DEF Immediate, Activate
  <2>2. signals' \in [Slot -> Word]
    <3>1. CASE nodes[i].op = "SIGNAL"
      <4>1. signals' = [signals EXCEPT ![nodes[i].slot] =
                          ApplySignal(@, nodes[i].operation, nodes[i].value)]
        BY <1>14, <3>1, Zenon DEF Immediate
      <4>2. nodes[i].value \in Word
        BY <3>1, Layout, Zenon DEF IsPacket
      <4>3. \A s \in Slot :
              ApplySignal(signals[s], nodes[i].operation, nodes[i].value) \in Word
        BY <4>2, SignalType DEF WindowType
      <4> QED BY <4>1, <4>3, Zenon DEF WindowType
    <3>2. CASE nodes[i].op = "SCALAR_READ"
      <4>1. \E w \in RegWords : signals' = [signals EXCEPT ![nodes[i].slot] = w]
        BY <1>14, <3>2, Zenon DEF Immediate
      <4> QED BY <4>1, LoopAssumption, Zenon DEF WindowType
    <3>3. CASE nodes[i].op \notin {"SIGNAL", "SCALAR_READ"}
      <4>1. UNCHANGED signals
        BY <1>14, <3>3, Zenon DEF Immediate
      <4> QED BY <4>1 DEF WindowType
    <3> QED BY <3>1, <3>2, <3>3
  <2> QED BY <1>14, <2>1, <2>2
          DEF Immediate, WindowType, StoreType, FabricType, host, shared
<1> QED BY <1>3, <1>4, <1>5, <1>6, <1>7, <1>8, <1>9, <1>10, <1>11, <1>12, <1>13, <1>14
        DEF ActivateNode

\* The entry that check_inflight() and quiesce_inflight() look at.
LEMMA PolledType ==
  ASSUME ScanType, StoreType, idx <= Len(inflight)
  PROVE  /\ idx \in 1..Len(inflight)
         /\ Polled \in Entry
         /\ Polled.node \in NodeIdx /\ Polled.base \in Bases
         /\ Polled.set_bucket \in Bucket /\ Polled.set_mask \in Word
<1>1. idx \in 1..Len(inflight)
  BY DEF ScanType, StoreType
<1>2. Polled \in Entry
  BY <1>1 DEF StoreType, Polled
<1> QED BY <1>1, <1>2 DEF Entry

\* check_inflight() keeps the type invariant.
LEMMA InflightType ==
  ASSUME TypeOK, Control,
         \/ InflightCorrupt \/ InflightBlocked \/ InflightDone \/ InflightTimeout
         \/ InflightPending \/ EndInflight
  PROVE  TypeOK'
<1> USE DEF TypeOK
<1>1. CASE InflightCorrupt
  <2>1. ScanType' /\ error' \in ErrorRec
    BY <1>1, FatalType, CorruptType DEF InflightCorrupt, CorruptExit
  <2> QED BY <1>1, <2>1, Zenon
          DEF InflightCorrupt, WindowType, StoreType, FabricType, host, shared, store
<1>2. CASE InflightBlocked
  <2>1. cq_blocked' = TRUE /\ NextEntry /\ UNCHANGED accepted_seq
    BY <1>2 DEF InflightBlocked
  <2>2. cq_blocked' \in BOOLEAN
    BY <2>1, Zenon
  <2>3. ScanType'
    BY <2>1, <2>2 DEF NextEntry, ScanType
  <2> QED BY <1>2, <2>3, AllKept, Zenon DEF InflightBlocked
<1>3. CASE InflightDone
  <2>1. /\ idx \in 1..Len(inflight) /\ Polled.node \in NodeIdx
        /\ Polled.set_bucket \in Bucket /\ Polled.set_mask \in Word
    BY <1>3, PolledType, Zenon DEF InflightDone, CanPoll, PollEntry
  <2>2. inflight' \in Seq(Entry) /\ Len(inflight') <= MaxInflight
    <3>1. \/ inflight' = inflight
          \/ inflight' \in Seq(Entry) /\ Len(inflight') = Len(inflight) - 1
      BY <1>3, <2>1, UntrackType, Zenon DEF InflightDone, Retire
    <3> QED BY <3>1, Sizes DEF StoreType
  <2>3. kernel' \in [Bases -> {"idle", "running", "done"}]
    BY <1>3, Zenon DEF InflightDone, FabricType
  <2>4. ScanType' /\ error' \in ErrorRec
    <3>1. CASE Retire /\ UNCHANGED error
      <4>1. progress' \in BOOLEAN
        BY <3>1, Zenon DEF Retire
      <4> QED BY <1>3, <3>1, <4>1, Zenon DEF InflightDone, Retire, ScanType, WindowType
    <3>2. CASE CorruptExit
      BY <1>3, <3>2, FatalType, CorruptType, Zenon DEF InflightDone, CorruptExit
    <3> QED BY <1>3, <3>1, <3>2, Zenon DEF InflightDone
  <2>5. /\ node_status' \in [NodeIdx -> Status] /\ barriers' \in [Bucket -> Word]
        /\ cq_used' \in 0..(CqSize + 1) /\ evidence' \in [NodeIdx -> 0..EvidenceCap]
    <3>1. CASE Polled.infinite
      BY <1>3, <3>1, Zenon DEF InflightDone, WindowType, StoreType, FabricType
    <3>2. CASE ~Polled.infinite
      <4>1. cq_used' \in 0..(CqSize + 1) /\ evidence' \in [NodeIdx -> 0..EvidenceCap]
        BY <1>3, <3>2, WriteCqType, RefuseCqType, Zenon DEF InflightDone, CanPoll
      <4>2. barriers' \in [Bucket -> Word]
        BY <1>3, <2>1, <3>2, RaiseType DEF InflightDone
      <4>3. node_status' \in [NodeIdx -> Status]
        BY <1>3, <3>2, Zenon DEF InflightDone, SetStatus, StoreType, Status
      <4> QED BY <4>1, <4>2, <4>3
    <3> QED BY <3>1, <3>2
  <2> QED BY <1>3, <2>2, <2>3, <2>4, <2>5, Zenon
          DEF InflightDone, WindowType, StoreType, FabricType, host, shared
<1>4. CASE InflightTimeout
  <2>1. /\ idx \in 1..Len(inflight) /\ Polled.node \in NodeIdx
        /\ Polled.set_bucket \in Bucket /\ Polled.set_mask \in Word
    BY <1>4, PolledType, Zenon DEF InflightTimeout, CanPoll, PollEntry
  <2>2. inflight' \in Seq(Entry) /\ Len(inflight') <= MaxInflight
    <3>1. \/ inflight' = inflight
          \/ inflight' \in Seq(Entry) /\ Len(inflight') = Len(inflight) - 1
      BY <1>4, <2>1, UntrackType, Zenon DEF InflightTimeout, Retire
    <3> QED BY <3>1, Sizes DEF StoreType
  <2>3. cq_used' \in 0..(CqSize + 1) /\ evidence' \in [NodeIdx -> 0..EvidenceCap]
    BY <1>4, WriteCqType, RefuseCqType, Zenon DEF InflightTimeout
  <2>4. barriers' \in [Bucket -> Word]
    BY <1>4, <2>1, RaiseType, Zenon DEF InflightTimeout, StoreType
  <2>5. node_status' \in [NodeIdx -> Status]
    BY <1>4, Zenon DEF InflightTimeout, SetStatus, StoreType, Status
  <2>6. error' \in ErrorRec
    <3>1. Polled.node \in 0..MaxNodes
      BY <2>1, PacketAssumption DEF NodeIdx
    <3> QED BY <1>4, <3>1, LatchedType, Zenon DEF InflightTimeout, ErrCodes
  <2>7. ScanType'
    <3>1. CASE Fatal(-1)
      BY <1>4, <3>1, FatalType, Zenon DEF InflightTimeout
    <3>2. CASE Retire
      <4>1. progress' \in BOOLEAN
        BY <3>2, Zenon DEF Retire
      <4> QED BY <1>4, <3>2, <4>1, Zenon DEF InflightTimeout, Retire, ScanType
    <3> QED BY <1>4, <3>1, <3>2, Zenon DEF InflightTimeout
  <2> QED BY <1>4, <2>2, <2>3, <2>4, <2>5, <2>6, <2>7, Zenon
          DEF InflightTimeout, WindowType, StoreType, FabricType, host, shared
<1>5. CASE InflightPending
  <2>1. idx + 1 \in Nat \ {0}
    BY DEF ScanType
  <2>2. ScanType'
    BY <1>5, <2>1, Zenon DEF InflightPending, NextEntry, ScanType
  <2> QED BY <1>5, <2>2, AllKept, Zenon DEF InflightPending
<1>6. CASE EndInflight
  <2>1. ScanType'
    BY <1>6 DEF EndInflight, ScanType, Scan
  <2> QED BY <1>6, <2>1, AllKept DEF EndInflight
<1> QED BY <1>1, <1>2, <1>3, <1>4, <1>5, <1>6

\* check_waits() and the ends of the phases keep the type invariant.
LEMMA WaitsType ==
  ASSUME TypeOK, Control,
         \/ \E i \in 1..Count : WaitCorrupt(i) \/ WaitBlocked(i) \/ WaitPoll(i)
         \/ EndActivate \/ EndPass
  PROVE  TypeOK'
<1> USE DEF TypeOK
<1>1. ASSUME NEW i \in 1..Count, WaitCorrupt(i)
      PROVE  TypeOK'
  <2>1. ScanType' /\ error' \in ErrorRec
    BY <1>1, FatalType, CorruptType DEF WaitCorrupt, CorruptExit
  <2> QED BY <1>1, <2>1, Zenon
          DEF WaitCorrupt, WindowType, StoreType, FabricType, host, shared, store
<1>2. ASSUME NEW i \in 1..Count, pc \in Scan
      PROVE  i \in Nat
  BY <1>2, PacketAssumption DEF Control, Bounded, Active
<1>3. ASSUME NEW i \in 1..Count, WaitBlocked(i)
      PROVE  TypeOK'
  <2>1. i \in Nat
    BY <1>2, <1>3, Zenon DEF WaitBlocked, Parked, Scan
  <2>2. i + 1 \in Nat \ {0}
    BY ONLY <2>1
  <2>3. ScanType'
    BY <1>3, <2>2, Zenon DEF WaitBlocked, ScanType
  <2> QED BY <1>3, <2>3, Zenon
          DEF WaitBlocked, WindowType, StoreType, FabricType, host, shared, store
<1>4. ASSUME NEW i \in 1..Count, WaitPoll(i)
      PROVE  TypeOK'
  <2>1. pc \in Scan
    BY <1>4, Zenon DEF WaitPoll, Parked, Scan
  <2>2. /\ node_status' \in [NodeIdx -> Status] /\ barriers' \in [Bucket -> Word]
        /\ cq_used' \in 0..(CqSize + 1) /\ evidence' \in [NodeIdx -> 0..EvidenceCap]
        /\ error' \in ErrorRec /\ ScanType'
    <3>1. CASE Met(nodes[i])
      BY <1>4, <2>1, <3>1, CompleteType, Zenon DEF WaitPoll
    <3>2. CASE ~Met(nodes[i])
      <4>1. ScanType'
        BY <1>2, <1>4, <2>1, <3>2, NextNodeType, Zenon DEF WaitPoll
      <4> QED BY <1>4, <3>2, <4>1, Zenon DEF WaitPoll, StoreType, WindowType, FabricType
    <3> QED BY <3>1, <3>2
  <2> QED BY <1>4, <2>2, Zenon
             DEF WaitPoll, WindowType, StoreType, FabricType, host, shared
<1>5. CASE EndActivate
  <2>1. ScanType'
    BY <1>5 DEF EndActivate, ScanType, Scan
  <2> QED BY <1>5, <2>1, AllKept, Zenon DEF EndActivate
<1>6. CASE EndPass
  <2>1. ScanType'
    <3>1. CASE Quiet
      BY <1>6, <3>1, Zenon DEF EndPass, ScanType
    <3>2. CASE ~Quiet
      BY <1>6, <3>2, BeginPassType DEF EndPass
    <3> QED BY <3>1, <3>2
  <2> QED BY <1>6, <2>1, Zenon
             DEF EndPass, WindowType, StoreType, FabricType, host, shared, store
<1> QED BY <1>1, <1>3, <1>4, <1>5, <1>6, Zenon

\* quiesce_inflight() keeps the type invariant.
LEMMA QuiesceType ==
  ASSUME TypeOK,
         \/ QuiesceInfinite \/ QuiesceCorrupt \/ QuiesceDone \/ QuiesceTimeout
         \/ QuiescePending \/ QuiescePass
  PROVE  TypeOK'
<1> USE DEF TypeOK
<1>1. ASSUME QuiesceEntry, Release
      PROVE  StoreType' <=> node_status' \in [NodeIdx -> Status]
  <2>1. inflight' \in Seq(Entry) /\ Len(inflight') <= MaxInflight
    <3>1. idx \in 1..Len(inflight)
      BY <1>1, PolledType, Zenon DEF QuiesceEntry
    <3>2. inflight' \in Seq(Entry) /\ Len(inflight') = Len(inflight) - 1
      BY <1>1, <3>1, UntrackType DEF Release
    <3> QED BY <3>2, Sizes DEF StoreType
  <2> QED BY <1>1, <2>1 DEF Release, StoreType
<1>2. ASSUME NEW s \in Status, NEW err \in ErrorRec, CqState(PollFlags) = "room",
             LastRecord(s, err)
      PROVE  /\ node_status' \in [NodeIdx -> Status]
             /\ cq_used' \in 0..(CqSize + 1)
             /\ evidence' \in [NodeIdx -> 0..EvidenceCap]
             /\ error' \in ErrorRec
  <2>1. node_status' \in [NodeIdx -> Status]
    BY <1>2 DEF LastRecord, SetStatus, StoreType
  <2>2. cq_used' \in 0..(CqSize + 1) /\ evidence' \in [NodeIdx -> 0..EvidenceCap]
    <3>1. CASE node_status[Polled.node] = "ERROR"
      BY <1>2, <3>1, Zenon DEF LastRecord, WindowType, FabricType
    <3>2. CASE node_status[Polled.node] # "ERROR"
      BY <1>2, <3>2, WriteCqType, RefuseCqType, Zenon DEF LastRecord
    <3> QED BY <3>1, <3>2
  <2>3. error' \in ErrorRec
    BY <1>2, CorruptRecoveryType, Zenon DEF LastRecord
  <2> QED BY <2>1, <2>2, <2>3, Zenon
<1>3. ASSUME Release
      PROVE  ScanType'
  BY <1>3 DEF Release, ScanType
<1>4. CASE QuiesceInfinite
  <2>1. StoreType' /\ ScanType' /\ error' \in ErrorRec
    BY <1>1, <1>3, <1>4, RecoveryType, Zenon DEF QuiesceInfinite, StoreType
  <2> QED BY <1>4, <2>1, Zenon
             DEF QuiesceInfinite, Release, WindowType, FabricType, host, shared
<1>5. CASE QuiesceCorrupt
  <2>1. StoreType' /\ ScanType'
    BY <1>1, <1>3, <1>5 DEF QuiesceCorrupt, StoreType
  <2>2. error' \in ErrorRec
    BY <1>5, CorruptRecoveryType, Zenon DEF QuiesceCorrupt
  <2> QED BY <1>5, <2>1, <2>2
          DEF QuiesceCorrupt, Release, WindowType, FabricType, host, shared
<1>6. CASE QuiesceDone
  <2>1. /\ node_status' \in [NodeIdx -> Status]
        /\ cq_used' \in 0..(CqSize + 1) /\ evidence' \in [NodeIdx -> 0..EvidenceCap]
        /\ error' \in ErrorRec
    BY <1>2, <1>6, Zenon DEF QuiesceDone, Status, WindowType
  <2>2. StoreType' /\ ScanType'
    BY <1>1, <1>3, <1>6, <2>1 DEF QuiesceDone
  <2> QED BY <1>6, <2>1, <2>2, Zenon
          DEF QuiesceDone, Release, WindowType, FabricType, host, shared
<1>7. CASE QuiesceTimeout
  <2>1. /\ node_status' \in [NodeIdx -> Status]
        /\ cq_used' \in 0..(CqSize + 1) /\ evidence' \in [NodeIdx -> 0..EvidenceCap]
        /\ error' \in ErrorRec
    BY <1>2, <1>7, RecoveryType, Zenon DEF QuiesceTimeout, Status
  <2>2. StoreType' /\ ScanType'
    BY <1>1, <1>3, <1>7, <2>1, Zenon DEF QuiesceTimeout
  <2> QED BY <1>7, <2>1, <2>2, Zenon
          DEF QuiesceTimeout, Release, WindowType, FabricType, host, shared
<1>8. CASE QuiescePending
  <2>1. ScanType'
    <3>1. idx' = idx + 1 /\ UNCHANGED <<pc, progress, cq_blocked, result, accepted_seq>>
      BY <1>8, Zenon DEF QuiescePending
    <3> QED BY <3>1 DEF ScanType
  <2> QED BY <1>8, <2>1, AllKept, Zenon DEF QuiescePending
<1>9. CASE QuiescePass
  <2>1. 1 \in Nat \ {0}
    OBVIOUS
  <2>2. ScanType'
    <3>1. CASE inflight = <<>>
      BY <1>9, <3>1, Zenon DEF QuiescePass, ScanType
    <3>2. CASE inflight # <<>>
      BY <1>9, <2>1, <3>2, Zenon DEF QuiescePass, ScanType
    <3> QED BY <3>1, <3>2
  <2> QED BY <1>9, <2>2, AllKept, Zenon DEF QuiescePass
<1> QED BY <1>4, <1>5, <1>6, <1>7, <1>8, <1>9

\* The host, its peers, the kernels and the clock keep the type invariant.
LEMMA EnvironmentType ==
  ASSUME TypeOK, Environment
  PROVE  TypeOK'
<1> USE DEF TypeOK
<1>1. ASSUME NEW img \in Images, Submit(img)
      PROVE  TypeOK'
  <2>1. signals' \in [Slot -> Word]
    BY <1>1, Zenon DEF Submit, WindowType, Word
  <2>2. graph_seq' \in 0..(SeqWrap - 1)
    <3>1. \A m \in 0..(SeqWrap - 1) : (m + 1) % SeqWrap \in 0..(SeqWrap - 1)
      BY Sizes
    <3> QED BY <1>1, <3>1, Zenon DEF Submit, WindowType
  <2>3. cq_used' \in 0..(CqSize + 1)
    BY <1>1, Sizes DEF Submit
  <2>4. WindowType'
    BY <1>1, <2>1, <2>2, <2>3, Zenon DEF Submit, WindowType, shared
  <2> QED BY <1>1, <2>4, Zenon DEF Submit, ScanType, StoreType, FabricType, firmware
<1>2. CASE Drain \/ CursorFault
  <2>1. cq_used' \in 0..(CqSize + 1)
    <3>1. CASE Drain
      <4>1. \E k \in 1..cq_used : cq_used' = cq_used - k
        BY <3>1 DEF Drain
      <4>2. cq_used \in 0..(CqSize + 1)
        BY DEF WindowType
      <4> QED BY <4>1, <4>2, Sizes
    <3>2. CASE CursorFault
      BY <3>2, Sizes DEF CursorFault
    <3> QED BY <1>2, <3>1, <3>2
  <2>2. WindowType'
    BY <1>2, <2>1, WindowKept, Zenon DEF Drain, CursorFault, WindowType, host, shared
  <2> QED BY <1>2, <2>2, Zenon
             DEF Drain, CursorFault, ScanType, StoreType, FabricType, firmware
<1>3. CASE PeerSignal
  <2>1. signals' \in [Slot -> Word]
    BY <1>3, LoopAssumption, Zenon DEF PeerSignal, WindowType
  <2>2. WindowType'
    BY <1>3, <2>1, Zenon DEF PeerSignal, WindowType, host, shared
  <2> QED BY <1>3, <2>2, Zenon DEF PeerSignal, ScanType, StoreType, FabricType, firmware
<1>4. CASE Deadline
  <2>1. inflight' \in Seq(Entry) /\ Len(inflight') = Len(inflight)
    <3>1. PICK k \in 1..Len(inflight) : inflight' = [inflight EXCEPT ![k].expired = TRUE]
      BY <1>4, Zenon DEF Deadline
    <3>2. inflight[k] \in Entry
      BY DEF StoreType
    <3>3. [inflight[k] EXCEPT !.expired = TRUE] \in Entry
      BY <3>2, Zenon DEF Entry
    <3> QED BY <3>1, <3>3 DEF StoreType
  <2>2. StoreType'
    BY <1>4, <2>1 DEF Deadline, StoreType, firmware
  <2>3. WindowType'
    BY <1>4, WindowKept DEF Deadline, WindowType, host, shared
  <2> QED BY <1>4, <2>2, <2>3 DEF Deadline, ScanType, FabricType, firmware
<1>5. ASSUME NEW b \in Bases, KernelFinish(b)
      PROVE  TypeOK'
  <2>1. WindowType'
    BY <1>5, WindowKept, Zenon DEF KernelFinish, WindowType, host, shared
  <2> QED BY <1>5, <2>1, Zenon DEF KernelFinish, ScanType, StoreType, FabricType, firmware
<1> QED BY <1>1, <1>2, <1>3, <1>4, <1>5 DEF Environment

-------------------------------------------------------------------------------
(* The type invariant and Control together are inductive.                   *)

\* A step of the graph on the board, from validation to the end of the last pass.
GraphStep ==
    /\ pc \in Active
    /\ pc' \in (Active \cup {"publish_state"}) \ {"validate"}
    /\ pc' \in Scan => pc \in Scan \/ (pc = "validate" /\ BadNodes(nodes) = {})
    /\ pc' = "reject" => pc = "validate"
    /\ pc = "quiesce" => pc' \in {"quiesce", "publish_state"} /\ UNCHANGED result
    /\ UNCHANGED <<nodes, graph_seq, graph_done_seq, rp1_state, accepted_seq>>

\* A step of the environment that is not a submission.
OutsideStep ==
    UNCHANGED <<nodes, graph_seq, graph_done_seq, rp1_state, error, pc, idx, progress,
                cq_blocked, result, accepted_seq, node_status, barriers>>

\* After a packet's record the scan stays in its phase, or the graph is failing.
LEMMA PublishMoves ==
  ASSUME NEW i, Publish(i)
  PROVE  pc' = pc \/ pc' = "quiesce"
  BY Zenon DEF Publish, NextNode, CorruptExit, Fatal

\* How rp1_run() and rp1_loop() move: acceptance, a graph step, publication; nothing
\* but a submission touches the window's packets.
LEMMA Moves ==
  ASSUME [Next]_vars
  PROVE  \/ Accept \/ PublishState \/ PublishDone
         \/ GraphStep
         \/ \E img \in Images : Submit(img)
         \/ OutsideStep
<1> USE DEF host, shared, Active, Scan
<1>1. CASE Validate \/ Reject
  BY <1>1, Zenon DEF GraphStep, Validate, Reject, BeginPass
<1>2. ASSUME NEW i \in 1..Count, ActivateNode(i)
      PROVE  GraphStep
  <2>1. CASE ActivateCorrupt(i) \/ ActivateBlocked(i)
    BY <2>1, Zenon DEF GraphStep, ActivateCorrupt, ActivateBlocked, At, CorruptExit, Fatal
  <2>2. CASE ImageMismatch(i) \/ InflightFull(i)
    BY <2>2, Zenon
       DEF GraphStep, ImageMismatch, InflightFull, Activate, At, Fail, Fatal, NextNode
  <2>3. CASE Dispatch(i)
    BY <2>3, PublishMoves, Zenon DEF GraphStep, Dispatch, Activate, At, Complete, NextNode
  <2>4. CASE PdiLoad(i)
    BY <2>4, PublishMoves, Zenon
       DEF GraphStep, PdiLoad, Activate, At, Fail, Fatal, Complete, NextNode
  <2>5. CASE LoopNode(i)
    BY <2>5, PublishMoves, Zenon DEF GraphStep, LoopNode, Activate, At, Complete, NextNode
  <2>6. CASE CondNode(i) \/ RerunNode(i)
    BY <2>6, PublishMoves, Zenon DEF GraphStep, CondNode, RerunNode, Activate, At
  <2>7. CASE WaitNode(i)
    BY <2>7, PublishMoves, Zenon DEF GraphStep, WaitNode, Activate, At, Complete, NextNode
  <2>8. CASE Halt(i)
    BY <2>8, Zenon DEF GraphStep, Halt, Activate, At, CorruptExit, Fatal
  <2>9. CASE Immediate(i)
    BY <2>9, PublishMoves, Zenon DEF GraphStep, Immediate, Activate, At, Complete
  <2> QED BY <1>2, <2>1, <2>2, <2>3, <2>4, <2>5, <2>6, <2>7, <2>8, <2>9 DEF ActivateNode
<1>3. CASE EndActivate \/ InflightCorrupt \/ InflightBlocked \/ InflightPending
           \/ EndInflight
  BY <1>3, Zenon
     DEF GraphStep, EndActivate, InflightCorrupt, InflightBlocked, InflightPending,
              EndInflight, CanPoll, PollEntry, NextEntry, CorruptExit, Fatal
<1>4. CASE InflightDone \/ InflightTimeout
  BY <1>4, Zenon
     DEF GraphStep, InflightDone, InflightTimeout, CanPoll, PollEntry, Retire, CorruptExit,
         Fatal
<1>5. ASSUME NEW i \in 1..Count, WaitCorrupt(i) \/ WaitBlocked(i) \/ WaitPoll(i)
      PROVE  GraphStep
  BY <1>5, PublishMoves, Zenon
     DEF GraphStep, WaitCorrupt, WaitBlocked, WaitPoll, Parked, CorruptExit, Fatal,
              Complete, NextNode
<1>6. CASE EndPass
  BY <1>6 DEF GraphStep, EndPass, BeginPass
<1>7. CASE QuiesceInfinite \/ QuiesceCorrupt \/ QuiesceDone \/ QuiesceTimeout
           \/ QuiescePending \/ QuiescePass
  BY <1>7 DEF GraphStep, QuiesceInfinite, QuiesceCorrupt, QuiesceDone, QuiesceTimeout,
              QuiescePending, QuiescePass, QuiesceEntry, Release
<1>8. CASE Drain \/ PeerSignal \/ Deadline \/ CursorFault \/ \E b \in Bases : KernelFinish(b)
  BY <1>8
     DEF OutsideStep, Drain, PeerSignal, Deadline, CursorFault, KernelFinish, firmware
<1>9. CASE UNCHANGED vars
  BY <1>9, Zenon DEF OutsideStep, vars
<1> QED BY <1>1, <1>2, <1>3, <1>4, <1>5, <1>6, <1>7, <1>8, <1>9
        DEF Next, Firmware, Environment

\* The validation, the sequence numbers and the run state stay in step.
LEMMA ControlStep ==
  ASSUME TypeOK, Control, [Next]_vars
  PROVE  Control'
<1> USE DEF Control, Bounded, Valid, Unstarted, Sequenced, Count
<1>1. CASE Accept
  BY <1>1 DEF Accept, ConfigOK, host, Active, Scan
<1>2. CASE PublishState
  BY <1>2 DEF PublishState, host, Active, Scan
<1>3. CASE PublishDone
  BY <1>3, Zenon DEF PublishDone, host, Active, Scan
<1>4. CASE GraphStep
  BY <1>4, Zenon DEF GraphStep, Active, Scan
<1>5. ASSUME NEW img \in Images, Submit(img)
      PROVE  Control'
  BY <1>5, Zenon DEF Submit, firmware, shared, Active, Scan
<1>6. CASE OutsideStep
  BY <1>6, Zenon DEF OutsideStep
<1> QED BY <1>1, <1>2, <1>3, <1>4, <1>5, <1>6, Moves, Zenon

\* Every step keeps the type invariant.
LEMMA TypeStep ==
  ASSUME TypeOK, Control, [Next]_vars
  PROVE  TypeOK'
<1>1. CASE UNCHANGED vars
  <2>1. ScanType'
    BY <1>1, Zenon DEF vars, TypeOK, ScanType
  <2> QED BY <1>1, <2>1, AllKept, Zenon DEF vars, host, shared, store
<1> QED BY <1>1, AcceptType, PublishType, ValidateType, ActivateType, InflightType,
           WaitsType, QuiesceType, EnvironmentType
        DEF Next, Firmware

\* The state after boot.
LEMMA InitType == Init => TypeOK /\ Control
<1> SUFFICES ASSUME Init PROVE TypeOK /\ Control
  OBVIOUS
<1>1. error \in ErrorRec
  <2>1. NoError \in ErrorRec
    BY ONLY PacketAssumption DEF ErrorRec, NoError
  <2> QED BY <2>1, Zenon DEF Init
<1>2. 0 \in 0..(SeqWrap - 1) /\ 0 \in 0..(CqSize + 1) /\ 0 \in 0..(IterWrap - 1)
        /\ 0 \in 0..EvidenceCap
  BY Sizes
<1>3. WindowType
  <2>1. signals \in [Slot -> Word]
    BY DEF Init, Word
  <2> QED BY <1>1, <1>2, <2>1, Zenon DEF Init, WindowType
<1>4. progress \in BOOLEAN /\ cq_blocked \in BOOLEAN
  BY Zenon DEF Init
<1>5. ScanType
  BY <1>2, <1>4 DEF Init, ScanType
<1>6. StoreType
  <2>1. node_status \in [NodeIdx -> Status] /\ barriers \in [Bucket -> Word]
    BY DEF Init, Status, Word
  <2>2. loop_iters \in [LoopId -> 0..(IterWrap - 1)]
    BY <1>2 DEF Init
  <2>3. inflight \in Seq(Entry) /\ Len(inflight) <= MaxInflight
    BY Sizes DEF Init
  <2> QED BY <2>1, <2>2, <2>3 DEF StoreType
<1>7. FabricType
  BY <1>2 DEF Init, FabricType
<1>8. Control
  BY DEF Init, Control, Bounded, Valid, Unstarted, Sequenced, Active, Scan
<1> QED BY <1>3, <1>5, <1>6, <1>7, <1>8 DEF TypeOK

\* Type correctness, for every set of images and every size of the tables: the in-flight
\* table never grows past RP1_MAX_INFLIGHT, every entry names a bucket and a kernel that
\* exist, and no CQ record is written past the end of the ring.
THEOREM TypeCorrect == Spec => [](TypeOK /\ Control)
<1>1. (TypeOK /\ Control) /\ [Next]_vars => (TypeOK /\ Control)'
  BY TypeStep, ControlStep
<1> QED BY InitType, <1>1, PTL DEF Spec

-------------------------------------------------------------------------------
(* The strengthenings.                                                      *)

Closing == {"quiesce", "publish_state", "publish_done"}

\* Whoever returns -1 has latched an error first, and a fatal exit is never a success.
Explained ==
    /\ pc = "reject" => error.code # "none"
    /\ pc \in Closing /\ result = -1 => error.code # "none"
    /\ pc = "quiesce" => result # 0
    /\ ErrorExplained

\* In a pass that has moved nothing and was not held back by the CQ, no packet the
\* activation phase has looked at is ready.
Scanned ==
    ~progress /\ ~cq_blocked =>
        /\ pc = "activate" => \A j \in 1..Count : j < idx => ~Ready(j)
        /\ pc \in {"inflight", "waits"} => \A j \in 1..Count : ~Ready(j)

\* What a validating host stages has passed its validator.
HostChecked ==
    ValidatingHost /\ nodes # <<>> =>
        \E img \in Images : nodes = img.nodes /\ HostAcceptsImage(img)

-------------------------------------------------------------------------------
(* The two validators.                                                      *)

\* The arithmetic of the argument check: fitting in the image's own buffer is fitting
\* in the window, and the firmware's subtraction cannot wrap.
LEMMA ArgumentsFit ==
  ASSUME NEW offset \in Nat, NEW count \in Nat, NEW bytes \in 0..ArgAvailable,
         offset + 8 * count <= bytes
  PROVE  offset <= ArgAvailable /\ 8 * count <= ArgAvailable - offset
  BY PacketAssumption, SMTT(30)

\* validateImage() is at least as strict as validate_nodes(), packet by packet.
LEMMA ValidatorsAgree ==
  ASSUME NEW n, NEW count \in Nat, NEW bytes \in 0..ArgAvailable, IsPacket(n),
         HostAccepts(n, count, bytes)
  PROVE  NodeFault(n, count) = "none"
<1>1. ~(n.await_bucket >= MaxBuckets \/ n.set_bucket >= MaxBuckets)
  BY PacketAssumption DEF HostAccepts, IsPacket
<1>2. CASE n.op \in {"NOP", "SCALAR_WRITE", "DMA_COPY", "DMA_FILL", "HALT"}
  BY <1>1, <1>2, Zenon DEF NodeFault
<1>3. CASE n.op = "SIGNAL"
  BY <1>1, <1>3 DEF NodeFault, HostAccepts, HostSignal
<1>4. CASE n.op = "WAIT"
  BY <1>1, <1>4 DEF NodeFault, HostAccepts
<1>5. CASE n.op \in {"SCALAR_READ", "SCALAR_COPY"}
  BY <1>1, <1>5 DEF NodeFault, HostAccepts
<1>6. CASE n.op = "KERNEL_DISPATCH"
  <2>1. n.arg_offset <= ArgAvailable /\ 8 * n.arg_count <= ArgAvailable - n.arg_offset
    BY <1>6, ArgumentsFit DEF HostAccepts, IsPacket
  <2> QED BY <1>1, <1>6, <2>1, SMTT(30) DEF NodeFault, HostAccepts
<1>7. CASE n.op = "PDI_LOAD"
  BY <1>1, <1>7 DEF NodeFault, HostAccepts
<1>8. CASE n.op = "LOOP"
  BY <1>1, <1>8 DEF NodeFault, HostAccepts
<1>9. CASE n.op = "COND"
  BY <1>1, <1>9 DEF NodeFault, HostAccepts, IsPacket, Ranges
<1>10. CASE n.op = "RERUN"
  BY <1>1, <1>10 DEF NodeFault, HostAccepts
<1> QED BY <1>2, <1>3, <1>4, <1>5, <1>6, <1>7, <1>8, <1>9, <1>10, SMTT(30)
        DEF HostAccepts, Opcodes, Immediates, ControlOps

\* So a validating host never stages a packet the firmware rejects.
LEMMA HostClean ==
  ASSUME WindowType, HostChecked, ValidatingHost
  PROVE  BadNodes(nodes) = {}
<1>1. CASE nodes = <<>>
  BY <1>1 DEF BadNodes
<1>2. CASE nodes # <<>>
  <2>1. PICK img \in Images : nodes = img.nodes /\ HostAcceptsImage(img)
    BY <1>2 DEF HostChecked
  <2>2. ASSUME NEW i \in 1..Len(nodes)
        PROVE  NodeFault(nodes[i], Len(nodes)) = "none"
    <3>1. IsPacket(nodes[i])
      BY Layout DEF Count
    <3>2. HostAccepts(nodes[i], Len(nodes), img.args) /\ Len(nodes) \in Nat
      BY <2>1, PacketAssumption DEF HostAcceptsImage
    <3>3. img.args \in 0..ArgAvailable
      BY LoopAssumption
    <3> QED BY <3>1, <3>2, <3>3, ValidatorsAgree
  <2> QED BY <2>2 DEF BadNodes
<1> QED BY <1>1, <1>2

\* Nothing but a checked submission replaces the packets.
LEMMA HostStep ==
  ASSUME HostChecked, [Next]_vars
  PROVE  HostChecked'
<1>1. CASE \E img \in Images : Submit(img)
  BY <1>1 DEF HostChecked, Submit
<1>2. CASE Accept \/ PublishState \/ PublishDone \/ GraphStep \/ OutsideStep
  <2>1. nodes' = nodes
    BY <1>2 DEF Accept, PublishState, PublishDone, GraphStep, OutsideStep, host
  <2> QED BY <2>1 DEF HostChecked
<1> QED BY <1>1, <1>2, Moves

-------------------------------------------------------------------------------
(* The error record.                                                        *)

\* What a step other than an acceptance does to the record: nothing, rp1_latch_error()
\* or rp1_mark_recovery_required(), or both; INVALID_NODE is latched for a bad packet only.
ErrorKept ==
    /\ error.code # "none" => error'.code = error.code /\ error'.node = error.node
    /\ error.recovery => error'.recovery
    /\ error'.code = "INVALID_NODE" => error.code = "INVALID_NODE" \/ BadNodes(nodes) # {}

\* The second half of Explained, after the step.
ExplainedNext ==
    /\ pc' = "reject" => error'.code # "none"
    /\ pc' \in Closing /\ result' = -1 => error'.code # "none"
    /\ pc' = "quiesce" => result' # 0

\* rp1_latch_error() with any code explains a fatal exit and keeps an older error.
LEMMA LatchStep ==
  ASSUME WindowType, NEW code \in ErrCodes, NEW i \in 0..MaxNodes, error' = Latched(code, i),
         code = "INVALID_NODE" => BadNodes(nodes) # {}
  PROVE  ErrorKept /\ error'.code # "none"
<1>1. error'.code \in {code, error.code}
  BY DEF Latched, WindowType, ErrorRec
<1> QED BY <1>1, LatchedType DEF ErrorKept

\* The fatal exit for a stray consumer cursor explains itself.
LEMMA CorruptStep ==
  ASSUME WindowType, CorruptExit
  PROVE  ErrorKept /\ ExplainedNext
<1>1. ErrorKept /\ error'.code # "none"
  BY LatchStep, PacketAssumption DEF CorruptExit, ErrCodes
<1> QED BY <1>1 DEF CorruptExit, Fatal, ExplainedNext, Closing

\* A step that stays in its phase with the record untouched.
LEMMA QuietStep ==
  ASSUME Explained, UNCHANGED error,
         \/ UNCHANGED <<pc, result>>
         \/ pc' \in Scan \cup {"idle", "validate"}
         \/ pc' \in Closing /\ result' = -2
  PROVE  ErrorKept /\ ExplainedNext
  BY DEF Explained, ErrorKept, ExplainedNext, Scan, Closing

\* A packet that fails in activate_nodes() explains itself, fatal or not.
LEMMA FailStep ==
  ASSUME TypeOK, Control, Explained, pc \in Scan, NEW i \in 1..Count,
         NEW code \in ErrCodes, code # "INVALID_NODE", Fail(i, code)
  PROVE  ErrorKept /\ ExplainedNext
<1>1. i \in 0..MaxNodes
  BY Checked, PacketAssumption DEF TypeOK, Control, NodeIdx
<1>2. ErrorKept /\ error'.code # "none"
  BY <1>1, LatchStep DEF Fail, TypeOK
<1>3. pc' = "quiesce" => result' # 0
  BY DEF Fail, Fatal, NextNode, Scan
<1> QED BY <1>2, <1>3 DEF ExplainedNext

\* A packet's record, written or refused, leaves the error explained.
LEMMA PublishStep ==
  ASSUME WindowType, Explained, NEW i, Publish(i)
  PROVE  ErrorKept /\ ExplainedNext
<1>1. CASE NextNode(i, TRUE) /\ UNCHANGED error
  BY <1>1, QuietStep, Zenon DEF NextNode
<1> QED BY <1>1, CorruptStep, Zenon DEF Publish

\* activate_nodes() explains its failures.
LEMMA ActivateErrors ==
  ASSUME TypeOK, Control, Explained, NEW i \in 1..Count, ActivateNode(i)
  PROVE  ErrorKept /\ ExplainedNext
<1>1. pc \in Scan /\ pc = "activate"
  BY Zenon
     DEF ActivateNode, ActivateCorrupt, ActivateBlocked, ImageMismatch, InflightFull,
         Dispatch, PdiLoad, LoopNode, CondNode, RerunNode, WaitNode, Halt, Immediate,
         Activate, At, Scan
<1>2. CASE ActivateCorrupt(i)
  BY <1>2, CorruptStep DEF ActivateCorrupt, TypeOK
<1>3. CASE ActivateBlocked(i)
  BY <1>3, QuietStep DEF ActivateBlocked
<1>4. CASE ImageMismatch(i)
  BY <1>1, <1>4, FailStep DEF ImageMismatch, ErrCodes
<1>5. CASE InflightFull(i)
  <2>1. i \in 0..MaxNodes
    BY <1>1, Checked, PacketAssumption DEF TypeOK, Control, NodeIdx
  <2>2. ErrorKept /\ error'.code # "none"
    BY <1>5, <2>1, LatchStep, SMTT(30) DEF InflightFull, TypeOK, ErrCodes
  <2> QED BY <1>5, <2>2 DEF InflightFull, Fatal, ExplainedNext
<1>6. CASE Dispatch(i)
  BY <1>6, PublishStep, QuietStep, Zenon DEF Dispatch, Complete, NextNode, TypeOK
<1>7. CASE PdiLoad(i)
  <2>1. CASE Complete(i)
    BY <2>1, PublishStep, Zenon DEF Complete, TypeOK
  <2>2. CASE Fail(i, "PDI_TIMEOUT") \/ Fail(i, "PDI_FAILED")
    BY <1>1, <2>2, FailStep, Zenon DEF ErrCodes
  <2> QED BY <1>7, <2>1, <2>2 DEF PdiLoad
<1>8. CASE LoopNode(i)
  BY <1>8, PublishStep, QuietStep, Zenon DEF LoopNode, Complete, NextNode, TypeOK
<1>9. CASE CondNode(i) \/ RerunNode(i)
  BY <1>9, PublishStep, Zenon DEF CondNode, RerunNode, TypeOK
<1>10. CASE WaitNode(i)
  BY <1>10, PublishStep, QuietStep, Zenon DEF WaitNode, Complete, NextNode, TypeOK
<1>11. CASE Halt(i)
  BY <1>11, QuietStep, CorruptStep, Zenon DEF Halt, Fatal, Closing, TypeOK
<1>12. CASE Immediate(i)
  BY <1>12, PublishStep, Zenon DEF Immediate, Complete, TypeOK
<1> QED BY <1>2, <1>3, <1>4, <1>5, <1>6, <1>7, <1>8, <1>9, <1>10, <1>11, <1>12
        DEF ActivateNode

\* Every step but an acceptance keeps the first error, and no step leaves a fatal exit
\* without one.
LEMMA ErrorStep ==
  ASSUME TypeOK, Control, Explained, [Next]_vars, ~Accept
  PROVE  ErrorKept /\ ExplainedNext
<1> USE DEF TypeOK
<1>1. CASE Validate
  <2>1. CASE BadNodes(nodes) = {}
    BY <1>1, <2>1, QuietStep DEF Validate, BeginPass, Scan
  <2>2. CASE BadNodes(nodes) # {}
    <3>1. PICK i \in BadNodes(nodes) : error' = Latched("INVALID_NODE", i) /\ pc' = "reject"
      BY <1>1, <2>2 DEF Validate
    <3>2. i \in 0..MaxNodes
      BY <1>1, PacketAssumption DEF Validate, BadNodes, Control, Bounded, Active, Count
    <3> QED BY <2>2, <3>1, <3>2, LatchStep DEF ErrCodes, ExplainedNext, Closing
  <2> QED BY <2>1, <2>2
<1>2. CASE Reject
  BY <1>2 DEF Reject, Explained, ErrorKept, ExplainedNext
<1>3. CASE PublishState \/ PublishDone
  BY <1>3 DEF PublishState, PublishDone, Explained, ErrorKept, ExplainedNext, Closing
<1>4. CASE EndActivate \/ InflightBlocked \/ InflightPending \/ EndInflight
  BY <1>4, QuietStep, Zenon
     DEF EndActivate, InflightBlocked, InflightPending, EndInflight, NextEntry, Scan
<1>4a. CASE InflightDone
  BY <1>4a, QuietStep, CorruptStep, Zenon DEF InflightDone, Retire
<1>5. CASE InflightCorrupt
  BY <1>5, CorruptStep DEF InflightCorrupt
<1>6. CASE InflightTimeout
  <2>1. Polled.node \in 0..MaxNodes
    <3>1. Polled.node \in NodeIdx
      BY <1>6, PolledType, Zenon DEF InflightTimeout, CanPoll, PollEntry
    <3> QED BY <3>1, PacketAssumption DEF NodeIdx
  <2>2. ErrorKept /\ error'.code # "none"
    BY <1>6, <2>1, LatchStep, SMTT(30) DEF InflightTimeout, ErrCodes
  <2>3. pc' = "quiesce" => result' # 0
    BY <1>6 DEF InflightTimeout, CanPoll, PollEntry, Fatal, Retire
  <2> QED BY <2>2, <2>3 DEF ExplainedNext
<1>7. ASSUME NEW i \in 1..Count, WaitCorrupt(i) \/ WaitBlocked(i) \/ WaitPoll(i)
      PROVE  ErrorKept /\ ExplainedNext
  <2>1. CASE WaitCorrupt(i)
    BY <2>1, CorruptStep DEF WaitCorrupt
  <2>2. CASE WaitBlocked(i) \/ WaitPoll(i)
    BY <2>2, PublishStep, QuietStep, Zenon DEF WaitBlocked, WaitPoll, Complete, NextNode
  <2> QED BY <1>7, <2>1, <2>2
<1>8. CASE EndPass
  <2>1. CASE Quiet
    BY <1>8, <2>1 DEF EndPass, ErrorKept, ExplainedNext
  <2>2. CASE ~Quiet
    BY <1>8, <2>2, QuietStep DEF EndPass, BeginPass, Scan
  <2> QED BY <2>1, <2>2
<1>9. ASSUME error' = Recovery, UNCHANGED <<pc, result>>
      PROVE  ErrorKept /\ ExplainedNext
  <2>1. error'.code = error.code /\ error'.node = error.node /\ error'.recovery
    BY <1>9 DEF Recovery, WindowType, ErrorRec
  <2> QED BY <1>9, <2>1 DEF Explained, ErrorKept, ExplainedNext
<1>10. ASSUME error' = CorruptRecovery, UNCHANGED <<pc, result>>
       PROVE  ErrorKept /\ ExplainedNext
  <2>1. /\ error'.code = Latched("CQ_CORRUPT", 0).code
        /\ error'.node = Latched("CQ_CORRUPT", 0).node
        /\ error'.recovery
    BY <1>10, CorruptType DEF CorruptRecovery, ErrorRec
  <2>2. /\ error'.code # "none"
        /\ error.code # "none" => error'.code = error.code /\ error'.node = error.node
        /\ error'.code = "INVALID_NODE" => error.code = "INVALID_NODE"
    BY <2>1, LatchedType, PacketAssumption, Zenon
       DEF ErrCodes, Latched, WindowType, ErrorRec
  <2> QED BY <1>10, <2>1, <2>2 DEF Explained, ErrorKept, ExplainedNext
<1>11. CASE QuiesceInfinite \/ QuiesceCorrupt \/ QuiesceDone \/ QuiesceTimeout
            \/ QuiescePending
  <2>1. UNCHANGED <<pc, result>>
    BY <1>11, Zenon DEF QuiesceInfinite, QuiesceCorrupt, QuiesceDone, QuiesceTimeout,
                        QuiescePending, Release
  <2>2. error' = Recovery \/ error' = CorruptRecovery \/ UNCHANGED error
    BY <1>11, Zenon DEF QuiesceInfinite, QuiesceCorrupt, QuiesceDone, QuiesceTimeout,
                        QuiescePending, LastRecord
  <2> QED BY <1>9, <1>10, <2>1, <2>2, QuietStep, Zenon
<1>12. CASE QuiescePass
  BY <1>12 DEF QuiescePass, Explained, ErrorKept, ExplainedNext, Closing
<1>13. ASSUME NEW img \in Images, Submit(img)
       PROVE  ErrorKept /\ ExplainedNext
  BY <1>13, QuietStep DEF Submit, firmware
<1>14. CASE Drain \/ PeerSignal \/ Deadline \/ CursorFault \/ \E b \in Bases : KernelFinish(b)
  BY <1>14, QuietStep DEF Drain, PeerSignal, Deadline, CursorFault, KernelFinish, firmware
<1>15. CASE UNCHANGED vars
  BY <1>15, QuietStep DEF vars
<1> QED BY <1>1, <1>2, <1>3, <1>4, <1>4a, <1>5, <1>6, <1>7, <1>8, <1>11, <1>12, <1>13, <1>14,
           <1>15, ActivateErrors, SMTT(30)
        DEF Next, Firmware, Environment

\* Every step keeps Explained; PublishState turns a latched -1 into ERROR.
LEMMA ExplainedStep ==
  ASSUME TypeOK, Control, Explained, [Next]_vars
  PROVE  Explained'
<1>1. CASE Accept
  BY <1>1, Zenon DEF Accept, Explained, ErrorExplained, NoError, Closing
<1>2. CASE ~Accept
  <2>1. ErrorKept /\ ExplainedNext
    BY <1>2, ErrorStep
  <2>2. CASE PublishState
    <3>1. rp1_state' = "ERROR" => result = -1
      BY <2>2, Zenon DEF PublishState
    <3> QED BY <2>1, <2>2, <3>1 DEF PublishState, Explained, ErrorExplained, ErrorKept,
                                    ExplainedNext, Closing
  <2>3. CASE rp1_state' = rp1_state
    BY <2>1, <2>3 DEF Explained, ErrorExplained, ErrorKept, ExplainedNext
  <2> QED BY <1>2, <2>2, <2>3, Moves
          DEF PublishDone, GraphStep, Submit, OutsideStep, shared
<1> QED BY <1>1, <1>2

\* The invariant behind ErrorExplained.
LEMMA AlwaysExplained == Spec => []Explained
<1>1. Init => Explained
  BY DEF Init, Explained, ErrorExplained, Closing
<1>2. TypeOK /\ Control /\ Explained /\ [Next]_vars => Explained'
  BY ExplainedStep
<1> QED BY TypeCorrect, <1>1, <1>2, PTL DEF Spec


\* rp1_run() publishes ERROR only with a base code in rp1_error_code.
THEOREM ErrorsExplained == Spec => []ErrorExplained
<1>1. Explained => ErrorExplained
  BY DEF Explained
<1> QED BY AlwaysExplained, <1>1, PTL

\* The first error of a graph keeps its code and node, and a recovery flag once set
\* stays, until the next graph is accepted: rp1_latch_error() and
\* rp1_mark_recovery_required() in any order, from any phase.
THEOREM FirstErrorKept == Spec => FirstErrorWins
<1> DEFINE Kept == pc # "idle" /\ error.code # "none" =>
                     /\ error'.code = error.code /\ error'.node = error.node
                     /\ error.recovery => error'.recovery
<1>1. Init => Explained
  BY DEF Init, Explained, ErrorExplained, Closing
<1>2. TypeOK /\ Control /\ Explained /\ [Next]_vars => Explained'
  BY ExplainedStep
<1>3. TypeOK /\ Control /\ Explained /\ [Next]_vars => [Kept]_vars
  BY ErrorStep DEF Accept, ErrorKept
<1> QED BY TypeCorrect, <1>1, <1>2, <1>3, PTL DEF Spec, FirstErrorWins

\* No packet that validateImage() lets through is rejected by validate_nodes(): the two
\* hand-written validators agree, whatever the images and the limits are.
THEOREM HostCheckEnough == Spec => []HostCheckSuffices
<1> DEFINE I == HostChecked /\ HostCheckSuffices /\ Explained
<1>1. Init => I
  BY DEF Init, HostChecked, HostCheckSuffices, NoError, Explained, ErrorExplained, Closing
<1>2. TypeOK /\ Control /\ I /\ [Next]_vars => I'
  <2> SUFFICES ASSUME TypeOK, Control, I, [Next]_vars
               PROVE  HostCheckSuffices'
    BY HostStep, ExplainedStep
  <2>1. CASE Accept
    BY <2>1 DEF Accept, HostCheckSuffices, NoError
  <2>2. CASE ~Accept
    <3>1. ErrorKept
      BY <2>2, ErrorStep
    <3>2. ValidatingHost => BadNodes(nodes) = {}
      BY HostClean DEF TypeOK
    <3> QED BY <3>1, <3>2 DEF ErrorKept, HostCheckSuffices
  <2> QED BY <2>1, <2>2
<1> QED BY TypeCorrect, <1>1, <1>2, PTL DEF Spec

-------------------------------------------------------------------------------
(* The in-flight table.                                                     *)

\* A step that launches nothing and retires nothing.
LEMMA TableKept ==
  ASSUME DispatchedTracked, pc' \in Scan => pc \in Scan, UNCHANGED inflight,
         \A i \in NodeIdx : node_status'[i] = "DISPATCHED" => node_status[i] = "DISPATCHED"
  PROVE  DispatchedTracked'
  BY DEF DispatchedTracked

\* A step that sets the status of one packet to another value than DISPATCHED.
LEMMA StatusSet ==
  ASSUME StoreType, NEW i, NEW s \in Status \ {"DISPATCHED"}, SetStatus(i, s)
  PROVE  \A j \in NodeIdx : node_status'[j] = "DISPATCHED" => node_status[j] = "DISPATCHED"
  BY DEF StoreType, SetStatus

\* Retiring the polled entry: the others stay tracked wherever the swap puts them.
LEMMA TableShrunk ==
  ASSUME TypeOK, DispatchedTracked, pc \in Scan, idx <= Len(inflight),
         inflight' = Untrack(idx),
         \A i \in NodeIdx : node_status'[i] = "DISPATCHED" =>
            node_status[i] = "DISPATCHED" /\ (i # Polled.node \/ Polled.infinite)
  PROVE  DispatchedTracked'
<1> SUFFICES ASSUME NEW i \in NodeIdx, node_status'[i] = "DISPATCHED"
             PROVE  \E m \in 1..Len(inflight') :
                       inflight'[m].node = i /\ ~inflight'[m].infinite
  BY DEF DispatchedTracked
<1>1. PICK k \in 1..Len(inflight) : inflight[k].node = i /\ ~inflight[k].infinite
  BY DEF DispatchedTracked
<1>2. k # idx
  BY <1>1 DEF Polled
<1>3. idx \in 1..Len(inflight)
  BY PolledType DEF TypeOK
<1>4. \E m \in 1..Len(Untrack(idx)) : Untrack(idx)[m] = inflight[k]
  BY <1>2, <1>3, UntrackType, Zenon DEF TypeOK
<1> QED BY <1>1, <1>4

\* activate_nodes() tracks what it dispatches, and re-arming a body forgets nothing.
LEMMA ActivateTracked ==
  ASSUME TypeOK, Control, DispatchedTracked, NEW i \in 1..Count, ActivateNode(i)
  PROVE  DispatchedTracked'
<1> USE DEF TypeOK
<1>1. pc = "activate" /\ pc \in Scan
  BY Zenon
     DEF ActivateNode, ActivateCorrupt, ActivateBlocked, ImageMismatch, InflightFull,
         Dispatch, PdiLoad, LoopNode, CondNode, RerunNode, WaitNode, Halt, Immediate,
         Activate, At, Scan
<1>2. CASE ActivateCorrupt(i) \/ ActivateBlocked(i)
  BY <1>1, <1>2, TableKept DEF ActivateCorrupt, ActivateBlocked, store
<1>3. ASSUME SetStatus(i, "DONE") \/ SetStatus(i, "ERROR") \/ SetStatus(i, "WAITING"),
             UNCHANGED inflight
      PROVE  DispatchedTracked'
  BY <1>1, <1>3, TableKept, StatusSet DEF Status
<1>4. CASE ImageMismatch(i) \/ InflightFull(i)
  BY <1>3, <1>4, Zenon DEF ImageMismatch, InflightFull, Fail
<1>4a. CASE Dispatch(i) /\ pc' = "quiesce"
  BY <1>4a, Zenon DEF DispatchedTracked, Scan
<1>5. CASE Dispatch(i) /\ pc' # "quiesce"
  <2>1. /\ i \in NodeIdx /\ nodes[i].base \in Bases
        /\ nodes[i].set_bucket \in Bucket /\ nodes[i].set_mask \in Word
    BY <1>1, <1>5, Checked, Zenon DEF Dispatch, Activate, Control
  <2>2. /\ Len(inflight') = Len(inflight) + 1
        /\ \A j \in 1..Len(inflight) : inflight'[j] = inflight[j]
        /\ inflight'[Len(inflight) + 1].node = i
        /\ inflight'[Len(inflight) + 1].infinite = ("INFINITE" \in nodes[i].flags)
    <3>1. inflight' = Tracked(nodes[i], i)
      BY <1>5, Zenon DEF Dispatch
    <3>2. StoreType
      BY SMTT(30)
    <3>3. /\ Len(Tracked(nodes[i], i)) = Len(inflight) + 1
          /\ \A j \in 1..Len(inflight) : Tracked(nodes[i], i)[j] = inflight[j]
          /\ Tracked(nodes[i], i)[Len(inflight) + 1].node = i
          /\ Tracked(nodes[i], i)[Len(inflight) + 1].infinite =
                ("INFINITE" \in nodes[i].flags)
      BY ONLY <2>1, <3>2, TrackedType
    <3> QED BY ONLY <3>1, <3>3, ZenonT(40)
  <2>3. ASSUME NEW j \in NodeIdx, node_status'[j] = "DISPATCHED"
        PROVE  \E k \in 1..Len(inflight') :
                  inflight'[k].node = j /\ ~inflight'[k].infinite
    <3>1. CASE j = i
      <4>1. "INFINITE" \notin nodes[i].flags
        BY <1>5, <2>1, <2>3, <3>1, Zenon DEF Dispatch, Complete, SetStatus, StoreType
      <4>2. Len(inflight) + 1 \in 1..Len(inflight')
        BY <2>2 DEF StoreType
      <4> QED BY <2>2, <3>1, <4>1, <4>2, Zenon
    <3>2. CASE j # i
      <4>1. node_status[j] = "DISPATCHED"
        BY <1>5, <2>3, <3>2, Zenon DEF Dispatch, Complete, SetStatus, StoreType
      <4>2. PICK k \in 1..Len(inflight) : inflight[k].node = j /\ ~inflight[k].infinite
        BY <1>1, <4>1 DEF DispatchedTracked
      <4>3. k \in 1..Len(inflight') /\ inflight'[k] = inflight[k]
        BY <2>2 DEF StoreType
      <4> QED BY <4>2, <4>3
    <3> QED BY <3>1, <3>2, Zenon
  <2> QED BY <2>3 DEF DispatchedTracked
<1>6. CASE PdiLoad(i)
  BY <1>3, <1>6, Zenon DEF PdiLoad, Complete, Fail
<1>7. ASSUME node_status' = RearmedStatus(nodes[i], i), UNCHANGED inflight
      PROVE  DispatchedTracked'
  BY <1>1, <1>7, TableKept DEF RearmedStatus
<1>8. CASE LoopNode(i)
  BY <1>3, <1>7, <1>8, Zenon DEF LoopNode, Complete
<1>9. CASE CondNode(i)
  BY <1>3, <1>7, <1>9, Zenon DEF CondNode, SetStatus
<1>10. CASE RerunNode(i)
  <2>1. \A j \in NodeIdx : node_status'[j] = "DISPATCHED" => node_status[j] = "DISPATCHED"
    BY <1>10, Zenon DEF RerunNode, StoreType
  <2> QED BY <1>1, <1>10, <2>1, TableKept, Zenon DEF RerunNode
<1>11. CASE WaitNode(i) \/ Halt(i) \/ Immediate(i)
  BY <1>3, <1>11, Zenon DEF WaitNode, Halt, Immediate, Complete
<1> QED BY <1>2, <1>4, <1>4a, <1>5, <1>6, <1>8, <1>9, <1>10, <1>11 DEF ActivateNode

\* Every step keeps the table in step with the DISPATCHED packets.
LEMMA TrackedStep ==
  ASSUME TypeOK, Control, DispatchedTracked, [Next]_vars
  PROVE  DispatchedTracked'
<1> USE DEF TypeOK
<1>1. CASE Accept \/ PublishState \/ PublishDone \/ Reject
  BY <1>1 DEF Accept, PublishState, PublishDone, Reject, DispatchedTracked, Scan
<1>2. CASE Validate
  <2>1. \A i \in NodeIdx : node_status[i] # "DISPATCHED"
    BY <1>2 DEF Validate, Control, Unstarted
  <2>2. pc' \in Scan => node_status' = node_status
    BY <1>2 DEF Validate, Scan
  <2> QED BY <2>1, <2>2, Zenon DEF DispatchedTracked
<1>3. CASE EndActivate \/ InflightCorrupt \/ InflightBlocked \/ InflightPending
           \/ EndInflight
  BY <1>3, TableKept, Zenon
     DEF EndActivate, InflightCorrupt, InflightBlocked, InflightPending, EndInflight,
         CanPoll, PollEntry, Scan, store
<1>4. CASE InflightDone
  <2>1. pc \in Scan /\ idx <= Len(inflight)
    BY <1>4 DEF InflightDone, CanPoll, PollEntry, Scan
  <2>2. ASSUME NEW i \in NodeIdx, node_status'[i] = "DISPATCHED"
        PROVE  node_status[i] = "DISPATCHED" /\ (i # Polled.node \/ Polled.infinite)
    BY <1>4, <2>2, Zenon DEF InflightDone, SetStatus, StoreType
  <2>3. CASE pc' = "quiesce"
    BY <2>3 DEF DispatchedTracked, Scan
  <2>4. CASE inflight' = Untrack(idx)
    BY <2>1, <2>2, <2>4, TableShrunk
  <2> QED BY <1>4, <2>3, <2>4, Zenon DEF InflightDone, Retire, CorruptExit, Fatal
<1>5. CASE InflightTimeout
  <2>1. pc \in Scan /\ idx <= Len(inflight)
    BY <1>5 DEF InflightTimeout, CanPoll, PollEntry, Scan
  <2>2. ASSUME NEW i \in NodeIdx, node_status'[i] = "DISPATCHED"
        PROVE  node_status[i] = "DISPATCHED" /\ (i # Polled.node \/ Polled.infinite)
    BY <1>5, <2>2, Zenon DEF InflightTimeout, SetStatus, StoreType
  <2>3. CASE pc' = "quiesce"
    BY <2>3 DEF DispatchedTracked, Scan
  <2>4. CASE inflight' = Untrack(idx)
    BY <2>1, <2>2, <2>4, TableShrunk
  <2> QED BY <1>5, <2>3, <2>4, Zenon DEF InflightTimeout, Retire, Fatal
<1>6. ASSUME NEW i \in 1..Count, WaitCorrupt(i) \/ WaitBlocked(i) \/ WaitPoll(i)
      PROVE  DispatchedTracked'
  <2>1. pc \in Scan /\ UNCHANGED inflight
    BY <1>6, Zenon DEF WaitCorrupt, WaitBlocked, WaitPoll, Parked, Scan, store
  <2>2. \A j \in NodeIdx : node_status'[j] = "DISPATCHED" => node_status[j] = "DISPATCHED"
    BY <1>6, StatusSet, Zenon
       DEF WaitCorrupt, WaitBlocked, WaitPoll, Complete, Status, store
  <2> QED BY <2>1, <2>2, TableKept
<1>7. CASE EndPass
  BY <1>7, TableKept DEF EndPass, Scan, store
<1>8. CASE QuiesceInfinite \/ QuiesceCorrupt \/ QuiesceDone \/ QuiesceTimeout
           \/ QuiescePending \/ QuiescePass
  BY <1>8, Zenon
     DEF QuiesceInfinite, QuiesceCorrupt, QuiesceDone, QuiesceTimeout, QuiescePending,
              QuiescePass, QuiesceEntry, Release, DispatchedTracked, Scan
<1>9. ASSUME NEW img \in Images, Submit(img)
      PROVE  DispatchedTracked'
  BY <1>9, TableKept DEF Submit, firmware
<1>10. CASE Deadline
  <2>1. PICK k \in 1..Len(inflight) : inflight' = [inflight EXCEPT ![k].expired = TRUE]
    BY <1>10, Zenon DEF Deadline
  <2>2. \A j \in 1..Len(inflight) : inflight[j] \in Entry
    BY DEF StoreType
  <2>3. /\ Len(inflight') = Len(inflight)
        /\ \A j \in 1..Len(inflight) : /\ inflight'[j].node = inflight[j].node
                                       /\ inflight'[j].infinite = inflight[j].infinite
    BY <2>1, <2>2 DEF StoreType, Entry
  <2> QED BY <1>10, <2>3 DEF Deadline, firmware, DispatchedTracked
<1>11. CASE Drain \/ PeerSignal \/ CursorFault \/ (\E b \in Bases : KernelFinish(b))
            \/ UNCHANGED vars
  BY <1>11, TableKept, Zenon
     DEF Drain, PeerSignal, CursorFault, KernelFinish, firmware, vars
<1> QED BY <1>1, <1>2, <1>3, <1>4, <1>5, <1>6, <1>7, <1>8, <1>9, <1>10, <1>11,
           ActivateTracked
        DEF Next, Firmware, Environment

\* A DISPATCHED packet always has a finite in-flight entry that check_inflight() polls:
\* the swap in remove_inflight() and the re-arming of bodies never lose one.
THEOREM NothingForgotten == Spec => []DispatchedTracked
<1>1. Init => DispatchedTracked
  BY DEF Init, DispatchedTracked
<1>2. TypeOK /\ Control /\ DispatchedTracked /\ [Next]_vars => DispatchedTracked'
  BY TrackedStep
<1> QED BY TypeCorrect, <1>1, <1>2, PTL DEF Spec

-------------------------------------------------------------------------------
(* Completion.                                                              *)

\* A graph step that did something, or was held back, makes the pass count.
LEMMA BusyStep ==
  ASSUME progress' \/ cq_blocked'
  PROVE  Scanned'
  BY DEF Scanned

\* A step that leaves the store alone and stays in its phase, or leaves the scan.
LEMMA IdleStep ==
  ASSUME Scanned, UNCHANGED <<nodes, node_status, barriers>>,
         \/ pc' \notin Scan
         \/ UNCHANGED <<pc, progress, cq_blocked, idx>>
         \/ pc \in {"inflight", "waits"} /\ pc' \in {"inflight", "waits"}
            /\ UNCHANGED <<progress, cq_blocked>>
  PROVE  Scanned'
  BY Zenon DEF Scanned, Scan, Ready, Count

\* The packets between the scan position and the one it stopped at are not ready.
LEMMA ScannedUpTo ==
  ASSUME TypeOK, Control, Scanned, NEW i \in 1..Count, At(i), ~progress, ~cq_blocked
  PROVE  \A j \in 1..Count : j < i => ~Ready(j)
<1>1. i \in Nat /\ idx \in Nat /\ Count \in Nat
  BY PacketAssumption DEF At, TypeOK, ScanType, Control, Bounded, Active, Scan
<1> QED BY <1>1 DEF At, Scanned

\* A packet that publishes its record is progress, or ends the scan.
LEMMA PublishScanned ==
  ASSUME NEW i, Publish(i)
  PROVE  Scanned'
  BY Zenon DEF Publish, NextNode, CorruptExit, Fatal, Scanned

\* activate_nodes() reports progress, or parks a packet that is then not ready.
LEMMA ActivateScanned ==
  ASSUME TypeOK, Control, Scanned, NEW i \in 1..Count, ActivateNode(i)
  PROVE  Scanned'
<1>1. CASE ActivateCorrupt(i) \/ InflightFull(i) \/ Halt(i)
  BY <1>1, Zenon DEF ActivateCorrupt, CorruptExit, InflightFull, Halt, Fatal, Scanned
<1>2. CASE ActivateBlocked(i)
  BY <1>2, BusyStep DEF ActivateBlocked
<1>3. CASE ImageMismatch(i)
  BY <1>3, Zenon DEF ImageMismatch, Fail, NextNode, Fatal, Scanned
<1>4. CASE Dispatch(i)
  BY <1>4, BusyStep, PublishScanned, Zenon DEF Dispatch, Complete, NextNode
<1>5. CASE PdiLoad(i)
  BY <1>5, PublishScanned, Zenon DEF PdiLoad, Complete, Fail, NextNode, Fatal, Scanned
<1>6. CASE LoopNode(i)
  BY <1>6, BusyStep, PublishScanned, Zenon DEF LoopNode, Complete, NextNode
<1>7. CASE CondNode(i) \/ RerunNode(i) \/ Immediate(i)
  BY <1>7, PublishScanned, Zenon DEF CondNode, RerunNode, Immediate, Complete
<1>8. CASE WaitNode(i)
  <2>1. CASE Met(nodes[i])
    BY <1>8, <2>1, PublishScanned, Zenon DEF WaitNode, Complete
  <2>2. CASE ~Met(nodes[i])
    <3>0. /\ pc' = "activate" /\ idx' = i + 1 /\ nodes' = nodes
          /\ ~progress' => ~progress
          /\ ~cq_blocked' => ~cq_blocked
      BY <1>8, <2>2, Zenon DEF WaitNode, NextNode, Activate, At, host
    <3> SUFFICES ASSUME ~progress, ~cq_blocked, NEW j \in 1..Count, j < i + 1
                 PROVE  ~Ready(j)'
      BY <3>0, Zenon DEF Scanned, Ready, Count
    <3>1. At(i) /\ SetStatus(i, "WAITING") /\ UNCHANGED <<nodes, barriers>>
      BY <1>8, <2>2, Zenon DEF WaitNode, Activate, host
    <3>2. j = i \/ j < i
      BY PacketAssumption, <3>1 DEF At, Control, Bounded, Active, Scan
    <3>3. CASE j = i
      <4>1. i \in NodeIdx
        BY <3>1, Checked, Zenon DEF At, Scan, TypeOK, Control
      <4> QED BY <3>1, <3>3, <4>1, Zenon DEF Ready, SetStatus, TypeOK, StoreType
    <3>4. CASE j < i
      <4>1. ~Ready(j) /\ j # i
        BY <3>1, <3>4, ScannedUpTo DEF Count
      <4>2. node_status'[j] = node_status[j]
        BY <3>1, <4>1 DEF SetStatus, TypeOK, StoreType
      <4> QED BY <3>1, <4>1, <4>2, Zenon DEF Ready
    <3> QED BY <3>2, <3>3, <3>4
  <2> QED BY <2>1, <2>2
<1> QED BY <1>1, <1>2, <1>3, <1>4, <1>5, <1>6, <1>7, <1>8 DEF ActivateNode

\* A new pass has gone over nothing yet.
LEMMA PassStarts ==
  ASSUME BeginPass
  PROVE  Scanned'
<1> SUFFICES ASSUME NEW j \in 1..Count', j < 1
             PROVE  FALSE
  BY DEF BeginPass, Scanned
<1> QED OBVIOUS

\* Every step of a pass keeps Scanned.
LEMMA ScannedStep ==
  ASSUME TypeOK, Control, Scanned, [Next]_vars
  PROVE  Scanned'
<1>1. CASE Accept \/ PublishState \/ PublishDone \/ Reject
  BY <1>1 DEF Accept, PublishState, PublishDone, Reject, Scanned
<1>2. CASE Validate \/ EndPass
  <2>1. CASE Validate
    BY <2>1, PassStarts, Zenon DEF Validate, Scanned
  <2>2. CASE EndPass
    BY <2>2, PassStarts, Zenon DEF EndPass, Scanned
  <2> QED BY <1>2, <2>1, <2>2
<1>3. CASE EndActivate
  <2> SUFFICES ASSUME ~progress, ~cq_blocked, NEW j \in 1..Count
               PROVE  ~Ready(j)
    BY <1>3, Zenon DEF EndActivate, Scanned, Ready, Count, host, store
  <2>1. j \in Nat /\ idx \in Nat
    BY <1>3, PacketAssumption
       DEF EndActivate, TypeOK, ScanType, Control, Bounded, Active, Scan
  <2>2. CASE j < idx
    BY <1>3, <2>2 DEF EndActivate, Scanned
  <2>3. CASE ~(j < idx)
    BY <1>3, <2>1, <2>3 DEF EndActivate
  <2> QED BY <2>2, <2>3
<1>4. CASE InflightCorrupt
  BY <1>4 DEF InflightCorrupt, CorruptExit, Fatal, Scanned
<1>5. CASE InflightBlocked \/ InflightDone
  BY <1>5, BusyStep, Zenon
     DEF InflightBlocked, InflightDone, Retire, CorruptExit, Fatal, Scanned
<1>6. CASE InflightTimeout
  BY <1>6, Zenon DEF InflightTimeout, Retire, Fatal, Scanned
<1>7. CASE InflightPending \/ EndInflight
  BY <1>7, IdleStep, Zenon
     DEF InflightPending, EndInflight, CanPoll, PollEntry, NextEntry, host,
                        store
<1>8. ASSUME NEW i \in 1..Count, WaitCorrupt(i) \/ WaitBlocked(i) \/ WaitPoll(i)
      PROVE  Scanned'
  <2>1. CASE WaitCorrupt(i)
    BY <2>1 DEF WaitCorrupt, CorruptExit, Fatal, Scanned
  <2>2. CASE WaitBlocked(i)
    BY <2>2, BusyStep DEF WaitBlocked
  <2>3. CASE WaitPoll(i)
    <3>1. CASE Met(nodes[i])
      BY <2>3, <3>1, PublishScanned, Zenon DEF WaitPoll, Complete
    <3>2. CASE ~Met(nodes[i])
      BY <2>3, <3>2, IdleStep, Zenon
         DEF WaitPoll, NextNode, Parked, host, Scanned, Ready, Count
    <3> QED BY <3>1, <3>2
  <2> QED BY <1>8, <2>1, <2>2, <2>3
<1>9. CASE QuiesceInfinite \/ QuiesceCorrupt \/ QuiesceDone \/ QuiesceTimeout
           \/ QuiescePending \/ QuiescePass
  BY <1>9
     DEF QuiesceInfinite, QuiesceCorrupt, QuiesceDone, QuiesceTimeout, QuiescePending,
              QuiescePass, QuiesceEntry, Release, Scanned
<1>10. ASSUME NEW img \in Images, Submit(img)
       PROVE  Scanned'
  BY <1>10, Zenon DEF Submit, firmware, Scanned, Control, Sequenced
<1>11. CASE OutsideStep
  BY <1>11, IdleStep DEF OutsideStep
<1>12. CASE Drain \/ PeerSignal \/ Deadline \/ CursorFault
            \/ (\E b \in Bases : KernelFinish(b)) \/ UNCHANGED vars
  <2>1. OutsideStep
    BY <1>12, Zenon
       DEF OutsideStep, Drain, PeerSignal, Deadline, CursorFault, KernelFinish,
                 firmware, host, shared, vars
  <2> QED BY <1>11, <2>1
<1> QED BY <1>1, <1>2, <1>3, <1>4, <1>5, <1>6, <1>7, <1>8, <1>9, <1>10, <1>12,
           ActivateScanned
        DEF Next, Firmware, Environment

\* What is published as a success was a fixpoint when the last pass ended, and nothing
\* has touched the store since.
LEMMA FixpointStep ==
  ASSUME TypeOK, Control, Explained, Scanned, CompletionIsFixpoint, [Next]_vars
  PROVE  CompletionIsFixpoint'
<1>1. CASE Accept
  BY <1>1 DEF Accept, CompletionIsFixpoint, Publishing
<1>2. CASE PublishState \/ PublishDone
  BY <1>2 DEF PublishState, PublishDone, CompletionIsFixpoint, Publishing, Ready, Count,
              host, store
<1>3. CASE EndPass
  <2>1. CASE Quiet
    <3>1. \A i \in 1..Count : ~Ready(i) /\ node_status[i] \notin {"DISPATCHED", "WAITING"}
      BY <1>3, <2>1 DEF EndPass, Quiet, Scanned
    <3> QED BY <1>3, <3>1, Zenon
               DEF EndPass, CompletionIsFixpoint, Ready, Count, host, store
  <2>2. CASE ~Quiet
    BY <1>3, <2>2, Zenon DEF EndPass, BeginPass, CompletionIsFixpoint, Publishing
  <2> QED BY <2>1, <2>2
<1>4. CASE QuiescePass
  BY <1>4 DEF QuiescePass, CompletionIsFixpoint, Publishing, Explained
<1>5. CASE Reject
  BY <1>5 DEF Reject, CompletionIsFixpoint
<1>6. ASSUME ~Publishing'
      PROVE  CompletionIsFixpoint'
  BY <1>6 DEF CompletionIsFixpoint
<1>7. CASE Validate
  BY <1>6, <1>7 DEF Validate, BeginPass, Publishing
<1>8. ASSUME NEW i \in 1..Count, ActivateNode(i)
      PROVE  ~Publishing'
  <2>1. CASE ActivateCorrupt(i) \/ ActivateBlocked(i)
    BY <2>1 DEF ActivateCorrupt, ActivateBlocked, CorruptExit, Fatal, At, Publishing
  <2>2. CASE ImageMismatch(i) \/ InflightFull(i) \/ Halt(i)
    BY <2>2, Zenon
       DEF ImageMismatch, InflightFull, Halt, Fail, CorruptExit, Fatal, NextNode, Activate,
           At, Publishing
  <2>3. CASE Dispatch(i) \/ PdiLoad(i)
    BY <2>3, PublishMoves, Zenon
       DEF Dispatch, PdiLoad, Complete, Fail, Fatal, NextNode, Activate, At, Publishing
  <2>4. CASE LoopNode(i) \/ CondNode(i) \/ RerunNode(i)
    BY <2>4, PublishMoves, Zenon
       DEF LoopNode, CondNode, RerunNode, Complete, NextNode, Activate, At, Publishing
  <2>5. CASE WaitNode(i) \/ Immediate(i)
    BY <2>5, PublishMoves, Zenon
       DEF WaitNode, Immediate, Complete, NextNode, Activate, At, Publishing
  <2> QED BY <1>8, <2>1, <2>2, <2>3, <2>4, <2>5, Zenon DEF ActivateNode
<1>9. CASE EndActivate \/ InflightCorrupt \/ InflightBlocked \/ InflightDone
           \/ InflightTimeout \/ InflightPending \/ EndInflight
  BY <1>6, <1>9, Zenon DEF EndActivate, InflightCorrupt, InflightBlocked, InflightDone,
                    InflightTimeout, InflightPending, EndInflight, CanPoll, PollEntry,
                    NextEntry, Retire, CorruptExit, Fatal, Publishing
<1>10. ASSUME NEW i \in 1..Count, WaitCorrupt(i) \/ WaitBlocked(i) \/ WaitPoll(i)
       PROVE  ~Publishing'
  BY <1>10, PublishMoves, Zenon
     DEF WaitCorrupt, WaitBlocked, WaitPoll, Parked, CorruptExit, Fatal, Complete,
               NextNode, Publishing
<1>11. CASE QuiesceInfinite \/ QuiesceCorrupt \/ QuiesceDone \/ QuiesceTimeout
            \/ QuiescePending
  BY <1>6, <1>11 DEF QuiesceInfinite, QuiesceCorrupt, QuiesceDone, QuiesceTimeout,
                     QuiescePending, QuiesceEntry, Release, Publishing
<1>12. ASSUME NEW img \in Images, Submit(img)
       PROVE  CompletionIsFixpoint'
  BY <1>6, <1>12, Zenon DEF Submit, firmware, Control, Sequenced, Publishing
<1>13. CASE Drain \/ PeerSignal \/ Deadline \/ CursorFault
            \/ (\E b \in Bases : KernelFinish(b)) \/ UNCHANGED vars
  <2>1. OutsideStep
    BY <1>13 DEF OutsideStep, Drain, PeerSignal, Deadline, CursorFault, KernelFinish,
                 firmware, host, shared, vars
  <2> QED BY <2>1, Zenon DEF OutsideStep, CompletionIsFixpoint, Publishing, Ready, Count
<1> QED BY <1>1, <1>2, <1>3, <1>4, <1>5, <1>6, <1>7, <1>8, <1>9, <1>10, <1>11, <1>12,
           <1>13
        DEF Next, Firmware, Environment

\* rp1_loop() returns 0 only at a fixpoint: nothing in flight or parked, and no packet
\* whose await mask is satisfied left PENDING, however the CQ held the passes back.
THEOREM SuccessIsFixpoint == Spec => []CompletionIsFixpoint
<1> DEFINE I == Explained /\ Scanned /\ CompletionIsFixpoint
<1>1. Init => I
  BY
     DEF Init, Explained, ErrorExplained, Closing, Scanned, CompletionIsFixpoint, Publishing
<1>2. TypeOK /\ Control /\ I /\ [Next]_vars => I'
  BY ExplainedStep, ScannedStep, FixpointStep
<1> QED BY TypeCorrect, <1>1, <1>2, PTL DEF Spec

-------------------------------------------------------------------------------
(* After a fatal exit.                                                      *)

\* What the step of FatalStopsWork may not do.
NoNewWork ==
    /\ barriers' = barriers
    /\ \A i \in NodeIdx : node_status'[i] # node_status[i] =>
          node_status'[i] \in Finished /\ \E k \in 1..Len(inflight) : inflight[k].node = i
    /\ \A b \in Bases : kernel'[b] = "running" => kernel[b] = "running"

\* A step that leaves the store and the kernels alone.
LEMMA NoWorkKept ==
  ASSUME UNCHANGED <<barriers, node_status, kernel>>
  PROVE  NoNewWork
  BY DEF NoNewWork

\* quiesce_inflight() only retires entries of the table.
LEMMA QuiesceStops ==
  ASSUME TypeOK, pc = "quiesce", [Next]_vars
  PROVE  NoNewWork
<1> USE DEF TypeOK
<1>1. ASSUME QuiesceEntry, NEW s \in Finished, NEW err, LastRecord(s, err)
      PROVE  \A i \in NodeIdx : node_status'[i] # node_status[i] =>
                node_status'[i] \in Finished /\ \E k \in 1..Len(inflight) : inflight[k].node = i
  <2> SUFFICES ASSUME NEW i \in NodeIdx, node_status'[i] # node_status[i]
               PROVE  node_status'[i] \in Finished
                        /\ \E k \in 1..Len(inflight) : inflight[k].node = i
    OBVIOUS
  <2>1. idx \in 1..Len(inflight)
    BY <1>1, PolledType DEF QuiesceEntry
  <2>2. SetStatus(Polled.node, s)
    BY <1>1, Zenon DEF LastRecord
  <2>3. i = Polled.node /\ node_status'[i] = s
    BY <2>2 DEF SetStatus, StoreType
  <2> QED BY <1>1, <2>1, <2>3 DEF Polled
<1>2. CASE QuiesceInfinite \/ QuiesceCorrupt \/ QuiescePending \/ QuiescePass
  BY <1>2, NoWorkKept
     DEF QuiesceInfinite, QuiesceCorrupt, QuiescePending, QuiescePass, Release, store
<1>3. CASE QuiesceDone
  <2>1. \A b \in Bases : kernel'[b] = "running" => kernel[b] = "running"
    BY <1>3 DEF QuiesceDone, FabricType
  <2> QED BY <1>1, <1>3, <2>1, Zenon DEF QuiesceDone, Release, NoNewWork, Finished
<1>4. CASE QuiesceTimeout
  BY <1>1, <1>4, Zenon DEF QuiesceTimeout, Release, NoNewWork, Finished
<1>5. CASE Accept \/ Validate \/ Reject \/ PublishState \/ PublishDone \/ EndActivate
           \/ EndInflight \/ EndPass
  BY <1>5 DEF Accept, Validate, Reject, PublishState, PublishDone, EndActivate,
              EndInflight, EndPass
<1>6. ASSUME NEW i \in 1..Count, ActivateNode(i)
      PROVE  FALSE
  BY <1>6, Zenon
     DEF ActivateNode, ActivateCorrupt, ActivateBlocked, ImageMismatch, InflightFull,
              Dispatch, PdiLoad, LoopNode, CondNode, RerunNode, WaitNode, Halt, Immediate,
              Activate, At
<1>7. CASE InflightCorrupt \/ InflightBlocked \/ InflightDone \/ InflightTimeout
           \/ InflightPending
  BY <1>7, Zenon DEF InflightCorrupt, InflightBlocked, InflightDone, InflightTimeout,
              InflightPending, CanPoll, PollEntry
<1>8. ASSUME NEW i \in 1..Count, WaitCorrupt(i) \/ WaitBlocked(i) \/ WaitPoll(i)
      PROVE  FALSE
  BY <1>8, Zenon DEF WaitCorrupt, WaitBlocked, WaitPoll, Parked
<1>9. ASSUME Environment \/ UNCHANGED vars
      PROVE  NoNewWork
  <2>1. ASSUME NEW b \in Bases, KernelFinish(b)
        PROVE  NoNewWork
    BY <2>1, Zenon DEF KernelFinish, firmware, NoNewWork, FabricType
  <2>2. CASE UNCHANGED <<barriers, node_status, kernel>>
    BY <2>2, NoWorkKept
  <2> QED BY <1>9, <2>1, <2>2
          DEF Environment, Submit, Drain, PeerSignal, Deadline, CursorFault, firmware, vars
<1> QED BY <1>2, <1>3, <1>4, <1>5, <1>6, <1>7, <1>8, <1>9, Zenon DEF Next, Firmware

\* ERROR and HALTED are reset-only: only the doorbell's acknowledgement and the
\* environment still move.
LEMMA TerminalStops ==
  ASSUME TypeOK, Control, rp1_state \in Terminal, [Next]_vars
  PROVE  NoNewWork
<1>1. pc \in {"idle", "publish_done"}
  BY DEF Control, Sequenced, Terminal
<1>2. CASE Firmware
  <2>1. PublishDone
    <3>1. ASSUME NEW i \in 1..Count, ActivateNode(i)
          PROVE  FALSE
      BY <1>1, <3>1, Zenon
         DEF ActivateNode, ActivateCorrupt, ActivateBlocked, ImageMismatch, InflightFull,
             Dispatch, PdiLoad, LoopNode, CondNode, RerunNode, WaitNode, Halt, Immediate,
             Activate, At
    <3> QED BY <1>1, <1>2, <3>1, Zenon
            DEF Firmware, Accept, Validate, Reject, PublishState, EndActivate,
                InflightCorrupt, InflightBlocked, InflightDone, InflightTimeout,
                InflightPending, EndInflight, CanPoll, PollEntry, WaitCorrupt, WaitBlocked,
                WaitPoll, Parked, EndPass, QuiesceInfinite, QuiesceCorrupt, QuiesceDone,
                QuiesceTimeout, QuiescePending, QuiescePass, QuiesceEntry
  <2> QED BY <2>1, NoWorkKept DEF PublishDone, store
<1>3. CASE Environment \/ UNCHANGED vars
  <2>1. ASSUME NEW b \in Bases, KernelFinish(b)
        PROVE  NoNewWork
    BY <2>1, Zenon DEF KernelFinish, firmware, NoNewWork, TypeOK, FabricType
  <2>2. CASE UNCHANGED <<barriers, node_status, kernel>>
    BY <2>2, NoWorkKept
  <2> QED BY <1>3, <2>1, <2>2
          DEF Environment, Submit, Drain, PeerSignal, Deadline, CursorFault, firmware, vars
<1> QED BY <1>2, <1>3 DEF Next

\* After a fatal exit nothing starts, for ever: no barrier is raised, no kernel launched,
\* and only packets already in flight still change.
THEOREM FatalIsFinal == Spec => FatalStopsWork
<1>1. TypeOK /\ Control /\ [Next]_vars =>
        [pc = "quiesce" \/ rp1_state \in Terminal =>
           /\ barriers' = barriers
           /\ \A i \in NodeIdx : node_status'[i] # node_status[i] =>
                /\ node_status'[i] \in Finished
                /\ \E k \in 1..Len(inflight) : inflight[k].node = i
           /\ \A b \in Bases : kernel'[b] = "running" => kernel[b] = "running"]_vars
  BY QuiesceStops, TerminalStops, Zenon DEF NoNewWork
<1> QED BY TypeCorrect, <1>1, PTL DEF Spec, FatalStopsWork

-------------------------------------------------------------------------------
(* Straight-line graphs: evidence, order and completions.                   *)

\* The graph is ending, not as a success and with an error latched, under a host whose
\* cursor may have left the ring.
Failing == StrayHost /\ pc \in Closing /\ result # 0 /\ error.code # "none"

\* Only then may the record of a packet be missing.
Lost(j) == Failing /\ evidence[j] = 0 /\ "SILENT" \notin nodes[j].flags

\* What EvidenceExact and DependencyOrder say of a straight-line graph.
Recorded ==
    \A i \in 1..Count : "INFINITE" \notin nodes[i].flags =>
        IF node_status[i] \in Finished /\ "SILENT" \notin nodes[i].flags
        THEN evidence[i] = 1 \/ Lost(i)
        ELSE evidence[i] = 0

\* Packet j has let its dependents go for good: one whose record was refused may still be
\* marked as failed by quiesce_inflight().
Settled(j) ==
    /\ Released(j)
    /\ evidence[j] # 0 \/ "SILENT" \in nodes[j].flags \/ "INFINITE" \in nodes[j].flags

\* Bit bit of bucket b was set by a packet that has let its dependents go.
SetBy(b, bit) ==
    \E j \in 1..Count : nodes[j].set_bucket = b /\ bit \in nodes[j].set_mask /\ Settled(j)

Ordered ==
    \A i \in 1..Count : node_status[i] # "PENDING" =>
        \A bit \in nodes[i].await_mask : SetBy(nodes[i].await_bucket, bit)

\* While the scan goes on, every barrier bit was set that way.
Covered == pc \in Scan => \A b \in Bucket : \A bit \in barriers[b] : SetBy(b, bit)

\* An entry of the table carries the fields of the packet ns[e.node], ...
EntryOf(e, ns) ==
    /\ e.node \in 1..Len(ns)
    /\ LET n == ns[e.node]
       IN  /\ n.op = "KERNEL_DISPATCH" /\ e.base = n.base
           /\ e.set_bucket = n.set_bucket /\ e.set_mask = n.set_mask
           /\ e.infinite = ("INFINITE" \in n.flags)

\* ... which was dispatched, and only in the fatal exit may it have ended already.
InFlight(e, status, at, lost) ==
    /\ status # "PENDING"
    /\ \/ e.infinite
       \/ status = "DISPATCHED"
       \/ status = "ERROR" /\ at \notin Scan
       \/ status = "DONE" /\ lost

Faithful(e) == EntryOf(e, nodes) /\ InFlight(e, node_status[e.node], pc, Lost(e.node))

\* Every entry is faithful, and no packet has two.
Entries ==
    /\ \A k \in 1..Len(inflight) : Faithful(inflight[k])
    /\ \A j, k \in 1..Len(inflight) : inflight[j].node = inflight[k].node => j = k

\* The completion of entry e has been read, and its record was refused.
Consumed(e) == ~e.infinite /\ node_status[e.node] = "DONE" /\ Lost(e.node)

\* What NoLostCompletion says of it.
Shown == DistinctKernels =>
    \A k \in 1..Len(inflight) : kernel[inflight[k].base] # "idle" \/ Consumed(inflight[k])

\* All of it.
Body == Recorded /\ Covered /\ Ordered /\ Entries /\ Shown

\* A graph that has been accepted and not validated yet.
Fresh ==
    /\ error.code = "none" /\ inflight = <<>>
    /\ evidence = [i \in NodeIdx |-> 0] /\ barriers = [b \in Bucket |-> {}]

\* The inductive invariant: a rejected graph keeps its code, and so is never published as a
\* straight-line graph.
StraightInv ==
    /\ pc = "validate" => Fresh
    /\ pc = "reject" => error.code = "INVALID_NODE"
    /\ StraightLine => Body

\* A written record counts for its packet alone.
LEMMA Counted ==
  ASSUME FabricType, NEW i \in NodeIdx, NEW flags, WriteCq(flags, i)
  PROVE  /\ \A j \in NodeIdx : j # i => evidence'[j] = evidence[j]
         /\ "SILENT" \in flags => evidence'[i] = evidence[i]
         /\ "SILENT" \notin flags => evidence'[i] # 0
         /\ "SILENT" \notin flags /\ evidence[i] = 0 => evidence'[i] = 1
<1>1. evidence \in [NodeIdx -> 0..EvidenceCap]
  BY Zenon DEF FabricType
<1>2. CASE "SILENT" \in flags
  BY <1>2, Zenon DEF WriteCq
<1>3. CASE "SILENT" \notin flags
  <2>1. evidence' = [evidence EXCEPT ![i] = IF @ = EvidenceCap THEN @ ELSE @ + 1]
    BY <1>3, Zenon DEF WriteCq
  <2>2. evidence'[i] = IF evidence[i] = EvidenceCap THEN evidence[i] ELSE evidence[i] + 1
    BY <1>1, <2>1, Zenon
  <2>3. evidence[i] \in 0..EvidenceCap
    BY <1>1, Zenon
  <2>4. evidence'[i] # 0 /\ (evidence[i] = 0 => evidence'[i] = 1)
    BY ONLY <2>2, <2>3, Sizes
  <2> QED BY <1>1, <1>3, <2>1, <2>4, Zenon
<1> QED BY <1>2, <1>3

\* A packet that ends, parks or starts writes its record with its last status only, and
\* its bits are raised only when it lets its dependents go.
LEMMA MarkStep ==
  ASSUME TypeOK, Recorded, Covered, Ordered, UNCHANGED nodes, 1..Count \subseteq NodeIdx,
         Failing => Failing', pc' \in Scan => pc \in Scan,
         NEW i \in 1..Count, NEW s \in Status \ {"PENDING"}, SetStatus(i, s),
         \/ node_status[i] # "PENDING"
         \/ /\ pc \in Scan /\ nodes[i].await_bucket \in Bucket
            /\ nodes[i].await_mask \subseteq barriers[nodes[i].await_bucket],
         Settled(i) => Settled(i)',
         pc' \in Scan => barriers' = barriers \/ (barriers' = Raise(nodes[i]) /\ Settled(i)'),
         \/ "INFINITE" \in nodes[i].flags /\ (evidence' = evidence \/ WriteCq(nodes[i].flags, i))
         \/ /\ evidence[i] = 0 /\ s \in Finished
            /\ WriteCq(nodes[i].flags, i) \/ (evidence' = evidence /\ Failing')
         \/ evidence[i] = 0 /\ s \notin Finished /\ evidence' = evidence
  PROVE  Recorded' /\ Covered' /\ Ordered'
<1>1. node_status'[i] = s /\ \A j \in NodeIdx : j # i => node_status'[j] = node_status[j]
  BY Zenon DEF SetStatus, TypeOK, StoreType
<1>2. \A j \in 1..Count : j # i => node_status'[j] = node_status[j]
  BY <1>1, Zenon
<1>3. \A j \in 1..Count : j # i => evidence'[j] = evidence[j]
  <2>1. evidence' = evidence \/ WriteCq(nodes[i].flags, i)
    BY Zenon
  <2> QED BY <2>1, Counted, Zenon DEF TypeOK
<1>4. \A b, bit : SetBy(b, bit) => SetBy(b, bit)'
  <2>1. \A j \in 1..Count : Settled(j) => Settled(j)'
    BY <1>2, <1>3, Zenon DEF Settled, Released
  <2> QED BY <2>1, ZenonT(40) DEF SetBy, Count
<1>5. Covered'
  <2> SUFFICES ASSUME pc' \in Scan, NEW b \in Bucket, NEW bit \in barriers'[b]
               PROVE  SetBy(b, bit)'
    BY Zenon DEF Covered
  <2>1. CASE bit \in barriers[b]
    BY <2>1, <1>4, Zenon DEF Covered
  <2>2. CASE bit \notin barriers[b]
    <3>1. barriers' = Raise(nodes[i]) /\ Settled(i)'
      BY <2>2, Zenon
    <3>2. b = nodes[i].set_bucket /\ bit \in nodes[i].set_mask
      BY <2>2, <3>1, Zenon DEF Raise, TypeOK, StoreType
    <3> QED BY <3>1, <3>2, Zenon DEF SetBy, Count
  <2> QED BY <2>1, <2>2, Zenon
<1>6. Ordered'
  <2>1. ASSUME NEW j \in 1..Count, node_status'[j] # "PENDING",
               NEW bit \in nodes[j].await_mask
        PROVE  SetBy(nodes[j].await_bucket, bit)'
    <3>1. SetBy(nodes[j].await_bucket, bit)
      <4>1. CASE node_status[j] # "PENDING"
        BY <4>1, Zenon DEF Ordered
      <4>2. CASE node_status[j] = "PENDING"
        <5>1. j = i
          BY <2>1, <4>2, <1>2, Zenon
        <5> QED BY <4>2, <5>1, Zenon DEF Covered
      <4> QED BY <4>1, <4>2, Zenon
    <3> QED BY <3>1, <1>4, ZenonT(40)
  <2> QED BY <2>1, Zenon DEF Ordered, Count
<1>7. Recorded'
  <2>1. ASSUME NEW j \in 1..Count, j # i, "INFINITE" \notin nodes[j].flags
        PROVE  IF node_status'[j] \in Finished /\ "SILENT" \notin nodes[j].flags
               THEN evidence'[j] = 1 \/ Lost(j)' ELSE evidence'[j] = 0
    BY <1>2, <1>3, <2>1, Zenon DEF Recorded, Lost
  <2>2. ASSUME "INFINITE" \notin nodes[i].flags
        PROVE  IF s \in Finished /\ "SILENT" \notin nodes[i].flags
               THEN evidence'[i] = 1 \/ Lost(i)' ELSE evidence'[i] = 0
    <3>1. /\ evidence[i] = 0
          /\ evidence' = evidence \/ (s \in Finished /\ WriteCq(nodes[i].flags, i))
      BY <2>2, Zenon
    <3>2. CASE WriteCq(nodes[i].flags, i) /\ s \in Finished
      BY <3>1, <3>2, Counted, Zenon DEF TypeOK
    <3>3. CASE evidence' = evidence /\ (s \notin Finished \/ Failing')
      BY <3>1, <3>3, Zenon DEF Lost
    <3> QED BY <2>2, <3>2, <3>3, Zenon
  <2> QED BY <1>1, <2>1, <2>2, Zenon DEF Recorded, Count
<1> QED BY <1>5, <1>6, <1>7

\* The fields of an entry that never change.
SameEntry(e, f) ==
    /\ e.node = f.node /\ e.base = f.base /\ e.infinite = f.infinite
    /\ e.set_bucket = f.set_bucket /\ e.set_mask = f.set_mask

\* A step that neither adds nor removes an entry: packets that were not in flight move, or
\* one that is in flight ends in the fatal exit, ...
LEMMA EntriesStay ==
  ASSUME Entries, UNCHANGED nodes, pc' \in Scan => pc \in Scan,
         Len(inflight') = Len(inflight),
         \A k \in 1..Len(inflight) : SameEntry(inflight'[k], inflight[k]),
         \A j \in 1..Count : Lost(j) => Lost(j)',
         \A j \in 1..Count :
            \/ node_status'[j] = node_status[j]
            \/ node_status[j] \in {"PENDING", "WAITING"} /\ node_status'[j] # "PENDING"
            \/ node_status'[j] = "ERROR" /\ pc' \notin Scan
            \/ node_status'[j] = "DONE" /\ Lost(j)'
  PROVE  Entries'
<1>1. ASSUME NEW k \in 1..Len(inflight)
      PROVE  Faithful(inflight[k])'
  <2>1. Faithful(inflight[k]) /\ SameEntry(inflight'[k], inflight[k])
    BY Zenon DEF Entries
  <2>3. inflight[k].node \in 1..Count /\ inflight'[k].node = inflight[k].node
    BY <2>1, Zenon DEF Faithful, EntryOf, SameEntry, Count
  <2>4. PICK n \in 1..Count : n = inflight[k].node
    BY <2>3, Zenon
  <2>5. InFlight(inflight[k], node_status[n], pc, Lost(n))
    BY <2>1, <2>4, Zenon DEF Faithful
  <2>6. InFlight(inflight[k], node_status'[n], pc', Lost(n)')
    BY <2>5, Zenon DEF InFlight
  <2>7. InFlight(inflight'[k], node_status'[n], pc', Lost(n)')
    BY <2>1, <2>6, Zenon DEF InFlight, SameEntry
  <2>8. EntryOf(inflight'[k], nodes)
    BY <2>1, Zenon DEF Faithful, EntryOf, SameEntry
  <2> QED BY <2>3, <2>4, <2>7, <2>8, Zenon DEF Faithful, Lost
<1>2. \A j, k \in 1..Len(inflight) : inflight'[j].node = inflight'[k].node => j = k
  BY Zenon DEF Entries, SameEntry
<1> QED BY <1>1, <1>2, Zenon DEF Entries

\* ... and, if no completion is consumed, what is tracked still shows its own.
LEMMA TableStays ==
  ASSUME StoreType, Entries, Shown, UNCHANGED nodes, pc' \in Scan => pc \in Scan,
         Len(inflight') = Len(inflight),
         \A k \in 1..Len(inflight) : SameEntry(inflight'[k], inflight[k]),
         \A j \in 1..Count : Lost(j) => Lost(j)' /\ node_status'[j] = node_status[j],
         \A j \in 1..Count :
            \/ node_status'[j] = node_status[j]
            \/ node_status[j] \in {"PENDING", "WAITING"} /\ node_status'[j] # "PENDING"
            \/ node_status'[j] = "ERROR" /\ pc' \notin Scan,
         \A b \in Bases : kernel[b] # "idle" => kernel'[b] # "idle"
  PROVE  Entries' /\ Shown'
<1>1. Entries'
  BY EntriesStay, Zenon
<1>2. ASSUME DistinctKernels, NEW k \in 1..Len(inflight)
      PROVE  kernel'[inflight'[k].base] # "idle" \/ Consumed(inflight[k])'
  <2>1. inflight \in Seq(Entry)
    BY Zenon DEF StoreType
  <2>2. inflight[k] \in Entry
    BY ONLY <2>1, <1>2
  <2>3. /\ inflight[k].base \in Bases /\ inflight'[k].base = inflight[k].base
        /\ inflight'[k].node = inflight[k].node /\ inflight'[k].infinite = inflight[k].infinite
    BY <2>2, Zenon DEF Entry, SameEntry
  <2>4. CASE kernel[inflight[k].base] # "idle"
    BY <2>3, <2>4, Zenon
  <2>5. CASE Consumed(inflight[k])
    <3>1. PICK n \in 1..Count : n = inflight[k].node
      BY Zenon DEF Entries, Faithful, EntryOf, Count
    <3>2. ~inflight[k].infinite /\ node_status'[n] = "DONE" /\ Lost(n)'
      BY <2>5, <3>1, Zenon DEF Consumed
    <3> QED BY <2>3, <3>1, <3>2, Zenon DEF Consumed, Lost
  <2> QED BY <1>2, <2>4, <2>5, Zenon DEF Shown
<1>3. Shown'
  BY <1>2, Zenon DEF Shown, DistinctKernels, Count
<1> QED BY <1>1, <1>3

\* Two entries name two packets, and so two kernels.
LEMMA OtherBase ==
  ASSUME Entries, DistinctKernels, NEW j \in 1..Len(inflight), NEW k \in 1..Len(inflight),
         j # k
  PROVE  inflight[j].base # inflight[k].base
<1>1. /\ EntryOf(inflight[j], nodes) /\ EntryOf(inflight[k], nodes)
      /\ inflight[j].node # inflight[k].node
  BY Zenon DEF Entries, Faithful
<1>2. /\ inflight[j].node \in {i \in 1..Count : nodes[i].op = "KERNEL_DISPATCH"}
      /\ nodes[inflight[j].node].base = inflight[j].base
  BY <1>1, Zenon DEF EntryOf, Count
<1>3. /\ inflight[k].node \in {i \in 1..Count : nodes[i].op = "KERNEL_DISPATCH"}
      /\ nodes[inflight[k].node].base = inflight[k].base
  BY <1>1, Zenon DEF EntryOf, Count
<1> QED BY <1>1, <1>2, <1>3, Zenon DEF DistinctKernels

\* Where remove_inflight() finds the entry it leaves at place m when it frees place k.
From(k, m) == IF m = k THEN Len(inflight) ELSE m

\* What is left comes from other places than the one freed, and each from another one.
LEMMA UntrackFrom ==
  ASSUME StoreType, NEW k \in 1..Len(inflight)
  PROVE  /\ \A m \in 1..Len(Untrack(k)) :
               /\ From(k, m) \in 1..Len(inflight) /\ From(k, m) # k
               /\ Untrack(k)[m] = inflight[From(k, m)]
         /\ \A l, m \in 1..Len(Untrack(k)) : From(k, l) = From(k, m) => l = m
<1>1. Len(inflight) \in Nat /\ k \in 1..Len(inflight)
  BY DEF StoreType
<1>2. Len(Untrack(k)) = Len(inflight) - 1
  BY UntrackType
<1>3. \A m \in 1..Len(Untrack(k)) : From(k, m) \in 1..Len(inflight) /\ From(k, m) # k
  BY ONLY <1>1, <1>2 DEF From
<1>4. \A l, m \in 1..Len(Untrack(k)) : From(k, l) = From(k, m) => l = m
  BY ONLY <1>1, <1>2 DEF From
<1>5. \A m \in 1..Len(Untrack(k)) : Untrack(k)[m] = inflight[From(k, m)]
  BY ONLY <1>1, <1>2, Zenon DEF Untrack, From
<1> QED BY <1>3, <1>4, <1>5

\* A step that removes the polled entry and changes no other packet and no other kernel.
LEMMA TableShrinks ==
  ASSUME StoreType, ScanType, Entries, Shown, UNCHANGED <<nodes, pc>>, idx <= Len(inflight),
         inflight' = Untrack(idx),
         \A j \in 1..Count : j # Polled.node => /\ node_status'[j] = node_status[j]
                                                /\ Lost(j) => Lost(j)',
         \A b \in Bases : b # Polled.base /\ kernel[b] # "idle" => kernel'[b] # "idle"
  PROVE  Entries' /\ Shown'
<1>1. idx \in 1..Len(inflight)
  BY PolledType, Zenon
<1>2. \A l, m \in 1..Len(inflight') : From(idx, l) = From(idx, m) => l = m
  BY <1>1, UntrackFrom, Zenon
<1>3. ASSUME NEW m \in 1..Len(inflight')
      PROVE  /\ From(idx, m) \in 1..Len(inflight) /\ From(idx, m) # idx
             /\ inflight'[m] = inflight[From(idx, m)]
  BY <1>1, <1>3, UntrackFrom, Zenon
<1>4. ASSUME NEW m \in 1..Len(inflight')
      PROVE  /\ EntryOf(inflight'[m], nodes)
             /\ inflight'[m].node # Polled.node
             /\ Faithful(inflight[m])'
  <2>1. Faithful(inflight[From(idx, m)]) /\ inflight[From(idx, m)].node # Polled.node
    BY <1>1, <1>3, Zenon DEF Entries, Polled
  <2>2. PICK n \in 1..Count : n = inflight[From(idx, m)].node
    BY <2>1, Zenon DEF Faithful, EntryOf, Count
  <2>3. /\ EntryOf(inflight[From(idx, m)], nodes)
        /\ InFlight(inflight[From(idx, m)], node_status[n], pc, Lost(n))
    BY <2>1, <2>2, Zenon DEF Faithful
  <2>4. InFlight(inflight[From(idx, m)], node_status'[n], pc', Lost(n)')
    BY <2>1, <2>2, <2>3, Zenon DEF InFlight
  <2> QED BY <2>1, <2>2, <2>3, <2>4, <1>3, Zenon DEF Faithful, Lost
<1>5. ASSUME NEW l \in 1..Len(inflight'), NEW m \in 1..Len(inflight'),
             inflight'[l].node = inflight'[m].node
      PROVE  l = m
  <2>1. inflight[From(idx, l)].node = inflight[From(idx, m)].node
    BY <1>3, <1>5, Zenon
  <2>2. From(idx, l) = From(idx, m)
    BY <1>3, <2>1, Zenon DEF Entries
  <2> QED BY <1>2, <2>2, Zenon
<1>6. Entries'
  BY <1>4, <1>5, Zenon DEF Entries
<1>7. ASSUME DistinctKernels, NEW m \in 1..Len(inflight')
      PROVE  kernel'[inflight'[m].base] # "idle" \/ Consumed(inflight[m])'
  <2>1. PICK f \in 1..Len(inflight) : f # idx /\ inflight'[m] = inflight[f]
    BY <1>3, Zenon
  <2>2. inflight[f].base # Polled.base
    BY <1>1, <1>7, <2>1, OtherBase, Zenon DEF Polled
  <2>3. inflight \in Seq(Entry)
    BY Zenon DEF StoreType
  <2>4. inflight[f] \in Entry
    BY ONLY <2>1, <2>3
  <2>5. CASE kernel[inflight[f].base] # "idle"
    BY <2>1, <2>2, <2>4, <2>5, Zenon DEF Entry
  <2>6. CASE Consumed(inflight[f])
    <3>1. PICK n \in 1..Count : n = inflight[f].node /\ n # Polled.node
      BY <1>1, <2>1, Zenon DEF Entries, Faithful, EntryOf, Count, Polled
    <3>2. ~inflight[f].infinite /\ node_status'[n] = "DONE" /\ Lost(n)'
      BY <2>6, <3>1, Zenon DEF Consumed
    <3> QED BY <2>1, <3>1, <3>2, Zenon DEF Consumed, Lost
  <2> QED BY <1>7, <2>5, <2>6, Zenon DEF Shown
<1>8. Shown'
  BY <1>7, Zenon DEF Shown, DistinctKernels, Count
<1> QED BY <1>6, <1>8

\* add_inflight() for a packet that was PENDING: its entry is the only one, and its kernel runs.
LEMMA TableGrows ==
  ASSUME StoreType, FabricType, Entries, Shown, UNCHANGED <<nodes, pc>>,
         pc \in Scan, NEW i \in 1..Count, i \in NodeIdx, nodes[i].base \in Bases,
         nodes[i].set_bucket \in Bucket, nodes[i].set_mask \in Word,
         nodes[i].op = "KERNEL_DISPATCH", node_status[i] = "PENDING",
         inflight' = Tracked(nodes[i], i),
         kernel' = [kernel EXCEPT ![nodes[i].base] = "running"],
         IF "INFINITE" \in nodes[i].flags THEN SetStatus(i, "DONE")
                                          ELSE SetStatus(i, "DISPATCHED")
  PROVE  Entries' /\ Shown'
<1> DEFINE n == Len(inflight)
           e == [node |-> i, base |-> nodes[i].base, set_bucket |-> nodes[i].set_bucket,
                 set_mask |-> nodes[i].set_mask, infinite |-> "INFINITE" \in nodes[i].flags,
                 expired |-> FALSE]
<1>1. n \in Nat /\ inflight \in Seq(Entry) /\ e \in Entry
  <2>1. inflight \in Seq(Entry)
    BY Zenon DEF StoreType
  <2>2. e \in Entry
    <3>1. ("INFINITE" \in nodes[i].flags) \in BOOLEAN
      BY ONLY SMTT(30)
    <3> QED BY <3>1, ZenonT(40) DEF Entry
  <2>3. n \in Nat
    BY ONLY <2>1, SMTT(30)
  <2> QED BY <2>1, <2>2, <2>3, Zenon
<1>2. inflight' = Append(inflight, e)
  BY Zenon DEF Tracked
<1> HIDE DEF e
<1>3. /\ Len(inflight') = n + 1 /\ inflight'[n + 1] = e
      /\ \A k \in 1..n : inflight'[k] = inflight[k]
  BY ONLY <1>1, <1>2, SMTT(30)
<1>4. \A k \in 1..(n + 1) : k = n + 1 \/ k \in 1..n
  BY ONLY <1>1
<1>5. /\ node_status'[i] = IF "INFINITE" \in nodes[i].flags THEN "DONE" ELSE "DISPATCHED"
      /\ \A j : j # i /\ j \in NodeIdx => node_status'[j] = node_status[j]
  BY Zenon DEF SetStatus, StoreType
<1>6. /\ e.node = i /\ e.base = nodes[i].base
      /\ EntryOf(e, nodes') /\ InFlight(e, node_status'[i], pc', Lost(i)')
  <2>1. /\ e.node = i /\ e.base = nodes[i].base /\ e.set_bucket = nodes[i].set_bucket
        /\ e.set_mask = nodes[i].set_mask /\ e.infinite = ("INFINITE" \in nodes[i].flags)
    BY Zenon DEF e
  <2>2. EntryOf(e, nodes)
    BY <2>1, Zenon DEF EntryOf, Count
  <2>3. InFlight(e, node_status'[i], pc, Lost(i)')
    BY <1>5, <2>1, Zenon DEF InFlight
  <2> QED BY <2>1, <2>2, <2>3, Zenon
<1>7. ASSUME NEW k \in 1..n
      PROVE  /\ inflight[k].node # i /\ inflight[k].node \in NodeIdx
             /\ inflight[k].base \in Bases /\ Faithful(inflight[k])'
  <2>1. inflight[k] \in Entry
    BY ONLY <1>1, <1>7
  <2>2. Faithful(inflight[k])
    BY Zenon DEF Entries
  <2>3. inflight[k].node # i /\ inflight[k].node \in NodeIdx /\ inflight[k].base \in Bases
    BY <2>1, <2>2, Zenon DEF Faithful, InFlight, Entry
  <2>4. node_status'[inflight[k].node] = node_status[inflight[k].node]
    BY <2>3, <1>5, Zenon
  <2>5. inflight'[k] = inflight[k]
    BY <1>3, Zenon
  <2>6. /\ EntryOf(inflight[k], nodes)
        /\ InFlight(inflight[k], node_status'[inflight[k].node], pc, FALSE)
    BY <2>2, <2>4, Zenon DEF Faithful, InFlight, Lost, Failing, Closing, Scan
  <2>7. InFlight(inflight'[k], node_status'[inflight'[k].node], pc', Lost(inflight[k].node)')
    BY <2>5, <2>6, Zenon DEF InFlight
  <2> QED BY <2>3, <2>5, <2>6, <2>7, Zenon DEF Faithful
<1>8. Entries'
  <2>1. ASSUME NEW k \in 1..Len(inflight')
        PROVE  Faithful(inflight[k])'
    <3>1. CASE k \in 1..n
      BY <3>1, <1>7, Zenon
    <3>2. CASE k = n + 1
      <4>1. inflight'[k] = e
        BY <3>2, <1>3, Zenon
      <4> QED BY <4>1, <1>6, Zenon DEF Faithful, Lost
    <3> QED BY <2>1, <3>1, <3>2, <1>3, <1>4, Zenon
  <2>2. ASSUME NEW j \in 1..Len(inflight'), NEW k \in 1..Len(inflight'),
               inflight'[j].node = inflight'[k].node
        PROVE  j = k
    <3>1. CASE j \in 1..n /\ k \in 1..n
      <4>1. inflight[j].node = inflight[k].node
        BY <2>2, <3>1, <1>3, Zenon
      <4> QED BY <3>1, <4>1, Zenon DEF Entries
    <3>2. \A m \in 1..n : inflight'[m].node # i
      BY <1>3, <1>7, Zenon
    <3>3. inflight'[n + 1].node = i
      BY <1>3, <1>6, Zenon
    <3> QED BY <2>2, <3>1, <3>2, <3>3, <1>3, <1>4, Zenon
  <2> QED BY <2>1, <2>2, Zenon DEF Entries
<1>9. Shown'
  <2>1. kernel \in [Bases -> {"idle", "running", "done"}]
    BY Zenon DEF FabricType
  <2>2. \A b \in Bases : kernel[b] # "idle" => kernel'[b] # "idle"
    BY <2>1, Zenon
  <2>3. kernel'[nodes[i].base] # "idle"
    BY <2>1, Zenon
  <2>4. ASSUME DistinctKernels, NEW k \in 1..Len(inflight')
        PROVE  kernel'[inflight'[k].base] # "idle"
    <3>1. \A m \in 1..n : kernel[inflight[m].base] # "idle"
      BY <2>4, Zenon DEF Shown, Consumed, Lost, Failing, Closing, Scan
    <3> QED BY <1>3, <1>4, <1>6, <1>7, <2>2, <2>3, <2>4, <3>1, Zenon
  <2> QED BY <2>4, Zenon DEF Shown, DistinctKernels, Count
<1> QED BY <1>8, <1>9

\* Nothing is lost while the scan goes on.
LEMMA NoneLost ==
  ASSUME pc \in Scan
  PROVE  ~Failing /\ \A j : ~Lost(j)
  BY Zenon DEF Lost, Failing, Closing, Scan

\* A refused record ends the scan with an error.
LEMMA RefusedFails ==
  ASSUME NEW flags, RefuseCq(flags), UNCHANGED nodes, pc' = "quiesce", result' # 0,
         error'.code # "none"
  PROVE  Failing'
  BY Zenon DEF RefuseCq, StrayHost, Failing, Closing

\* A step that changes no packet, no barrier and no record, ...
LEMMA MarksKept ==
  ASSUME Recorded, Covered, Ordered, UNCHANGED <<nodes, node_status, barriers, evidence>>,
         Failing => Failing', pc' \in Scan => pc \in Scan
  PROVE  Recorded' /\ Covered' /\ Ordered'
<1>1. Recorded'
  BY Zenon DEF Recorded, Lost, Count
<1>2. \A b, bit : SetBy(b, bit) => SetBy(b, bit)'
  BY DEF SetBy, Settled, Released, Count
<1>3. Covered'
  BY <1>2, Zenon DEF Covered
<1>4. Ordered'
  BY <1>2, Zenon DEF Ordered, Count
<1> QED BY <1>1, <1>3, <1>4

\* ... and moves no entry and loses no completion.
LEMMA BodyKept ==
  ASSUME StoreType, Body, UNCHANGED <<nodes, node_status, barriers, evidence>>,
         Failing => Failing', pc' \in Scan => pc \in Scan, Len(inflight') = Len(inflight),
         \A k \in 1..Len(inflight) : SameEntry(inflight'[k], inflight[k]),
         \A b \in Bases : kernel[b] # "idle" => kernel'[b] # "idle"
  PROVE  Body'
<1>1. Recorded' /\ Covered' /\ Ordered'
  BY MarksKept, Zenon DEF Body
<1>2. \A j \in 1..Count : Lost(j) => Lost(j)' /\ node_status'[j] = node_status[j]
  BY Zenon DEF Lost
<1>3. Entries' /\ Shown'
  BY <1>2, TableStays, Zenon DEF Body
<1> QED BY <1>1, <1>3, Zenon DEF Body

\* The same, when the table is not touched at all.
LEMMA BodySame ==
  ASSUME StoreType, Body, UNCHANGED <<nodes, node_status, barriers, evidence, inflight, kernel>>,
         Failing => Failing', pc' \in Scan => pc \in Scan
  PROVE  Body'
<1>1. \A k \in 1..Len(inflight) : SameEntry(inflight'[k], inflight[k])
  BY Zenon DEF SameEntry
<1> QED BY <1>1, BodyKept, Zenon

\* A PENDING or parked packet changes, and the table does not.
LEMMA PacketMoves ==
  ASSUME TypeOK, Control, Body, pc \in Scan, NEW i \in 1..Count,
         NEW s \in Status \ {"PENDING"}, SetStatus(i, s), UNCHANGED <<nodes, inflight>>,
         \A b \in Bases : kernel[b] # "idle" => kernel'[b] # "idle",
         Ready(i) \/ node_status[i] = "WAITING",
         s = "ERROR" /\ barriers' # barriers => "HALT_ON_ERROR" \notin nodes[i].flags,
         barriers' = barriers \/ (barriers' = Raise(nodes[i]) /\ s \in Finished),
         s \in Finished => WriteCq(nodes[i].flags, i) \/ (evidence' = evidence /\ Failing'),
         s \notin Finished => evidence' = evidence
  PROVE  Body'
<1>1. 1..Count \subseteq NodeIdx /\ i \in NodeIdx /\ nodes[i].await_bucket \in Bucket
  <2>1. ASSUME NEW j \in 1..Count PROVE j \in NodeIdx /\ nodes[j].await_bucket \in Bucket
    BY <2>1, Checked, Zenon DEF TypeOK, Control
  <2> QED BY <2>1, Zenon
<1>2. /\ node_status'[i] = s /\ node_status[i] \notin Finished
      /\ \A j \in NodeIdx : j # i => node_status'[j] = node_status[j]
  BY <1>1, Zenon DEF SetStatus, TypeOK, StoreType, Ready, Finished
<1>3. /\ ~Settled(i) /\ ~Failing /\ \A j \in 1..Count : ~Lost(j)
      /\ "INFINITE" \in nodes[i].flags \/ evidence[i] = 0
  BY <1>2, NoneLost, Zenon DEF Settled, Released, Finished, Body, Recorded
<1>4. pc' \in Scan => barriers' = barriers \/ (barriers' = Raise(nodes[i]) /\ Settled(i)')
  <2> SUFFICES ASSUME pc' \in Scan, barriers' # barriers
               PROVE  barriers' = Raise(nodes[i]) /\ Settled(i)'
    BY Zenon
  <2>1. ~Failing'
    BY Zenon DEF Failing, Closing, Scan
  <2>2. Released(i)'
    BY <1>2, Zenon DEF Released, Finished
  <2>3. "SILENT" \in nodes[i].flags \/ evidence'[i] # 0
    BY <1>1, <2>1, Counted, Zenon DEF TypeOK
  <2> QED BY <2>2, <2>3, Zenon DEF Settled
<1>5. \/ node_status[i] # "PENDING"
      \/ nodes[i].await_mask \subseteq barriers[nodes[i].await_bucket]
  BY Zenon DEF Ready
<1>6. Recorded' /\ Covered' /\ Ordered'
  <2>1. \/ "INFINITE" \in nodes[i].flags /\ (evidence' = evidence \/ WriteCq(nodes[i].flags, i))
        \/ /\ evidence[i] = 0 /\ s \in Finished
           /\ WriteCq(nodes[i].flags, i) \/ (evidence' = evidence /\ Failing')
        \/ evidence[i] = 0 /\ s \notin Finished /\ evidence' = evidence
    BY <1>3, Zenon
  <2>2. /\ TypeOK /\ Recorded /\ Covered /\ Ordered /\ UNCHANGED nodes /\ SetStatus(i, s)
        /\ 1..Count \subseteq NodeIdx /\ (Failing => Failing') /\ (pc' \in Scan => pc \in Scan)
        /\ i \in 1..Count /\ s \in Status \ {"PENDING"} /\ (Settled(i) => Settled(i)')
    BY <1>1, <1>3, Zenon DEF Body
  <2>3. \/ node_status[i] # "PENDING"
        \/ /\ pc \in Scan /\ nodes[i].await_bucket \in Bucket
           /\ nodes[i].await_mask \subseteq barriers[nodes[i].await_bucket]
    BY <1>1, <1>5, Zenon
  <2> QED BY ONLY <1>4, <2>1, <2>2, <2>3, MarkStep, Zenon
<1>7. \A k \in 1..Len(inflight) : SameEntry(inflight'[k], inflight[k])
  BY Zenon DEF SameEntry
<1>8. \A j \in 1..Count :
         \/ node_status'[j] = node_status[j]
         \/ node_status[j] \in {"PENDING", "WAITING"} /\ node_status'[j] # "PENDING"
  BY <1>1, <1>2, Zenon DEF Ready
<1>9. Entries' /\ Shown'
  BY <1>3, <1>7, <1>8, TableStays, Zenon DEF TypeOK, Body
<1> QED BY <1>6, <1>9, Zenon DEF Body

\* A refused record that is reported as a corrupt cursor.
LEMMA RefusedExit ==
  ASSUME WindowType, NEW flags, RefuseCq(flags), CorruptExit, UNCHANGED nodes
  PROVE  evidence' = evidence /\ Failing' /\ pc' = "quiesce"
<1>1. pc' = "quiesce" /\ result' = -1 /\ evidence' = evidence
      /\ error' = Latched("CQ_CORRUPT", 0)
  BY Zenon DEF CorruptExit, Fatal, RefuseCq
<1>2. error'.code # "none" /\ result' # 0
  <2>1. 0 \in 0..MaxNodes /\ "CQ_CORRUPT" \in ErrCodes
    BY PacketAssumption DEF ErrCodes
  <2> QED BY <1>1, <2>1, LatchedType
<1> QED BY <1>1, <1>2, RefusedFails, Zenon

\* The end of a packet's case writes the record, or fails.
LEMMA PublishFails ==
  ASSUME WindowType, NEW i, Publish(i), UNCHANGED nodes
  PROVE  WriteCq(nodes[i].flags, i) \/ (evidence' = evidence /\ Failing' /\ pc' = "quiesce")
  BY RefusedExit, Zenon DEF Publish

\* A packet that ends in one step; an INFINITE one may have started its kernel.
LEMMA CompleteBody ==
  ASSUME TypeOK, Control, Body, pc \in Scan, NEW i \in 1..Count, Complete(i),
         Ready(i) \/ node_status[i] = "WAITING", UNCHANGED <<nodes, inflight>>,
         \A b \in Bases : kernel[b] # "idle" => kernel'[b] # "idle"
  PROVE  Body'
<1>1. WriteCq(nodes[i].flags, i) \/ (evidence' = evidence /\ Failing')
  BY PublishFails, Zenon DEF Complete, TypeOK
<1>2. "DONE" \in Status \ {"PENDING"} /\ "DONE" \in Finished
  BY Zenon DEF Status, Finished
<1> QED BY <1>1, <1>2, PacketMoves, Zenon DEF Complete

\* A packet that fails in one step, fatal or not.
LEMMA FailBody ==
  ASSUME TypeOK, Control, Body, pc \in Scan, NEW i \in 1..Count, NEW code \in ErrCodes,
         Fail(i, code), Ready(i), UNCHANGED <<nodes, inflight, kernel>>
  PROVE  Body'
<1>1. WriteCq(nodes[i].flags, i) \/ (evidence' = evidence /\ Failing')
  <2>1. CASE RefuseCq(nodes[i].flags) /\ Fatal(-1)
    <3>1. i \in 0..MaxNodes
      BY Checked, PacketAssumption DEF TypeOK, Control, NodeIdx
    <3>2. error'.code # "none"
      BY <3>1, LatchedType DEF Fail, TypeOK
    <3>3. pc' = "quiesce" /\ result' # 0 /\ evidence' = evidence
      BY <2>1 DEF Fatal, RefuseCq
    <3> QED BY <2>1, <3>2, <3>3, RefusedFails, Zenon
  <2> QED BY <2>1, Zenon DEF Fail
<1>2. "ERROR" \in Status \ {"PENDING"} /\ "ERROR" \in Finished
  BY Zenon DEF Status, Finished
<1> QED BY <1>1, <1>2, PacketMoves, Zenon DEF Fail

\* activate_nodes() on a straight-line graph.
LEMMA ActivateBody ==
  ASSUME TypeOK, Control, Body, NEW i \in 1..Count, ActivateNode(i),
         nodes[i].op \notin ControlOps
  PROVE  Body'
<1>1. pc = "activate" /\ pc \in Scan /\ Ready(i)
  BY Zenon
     DEF ActivateNode, ActivateCorrupt, ActivateBlocked, ImageMismatch, InflightFull,
         Dispatch, PdiLoad, LoopNode, CondNode, RerunNode, WaitNode, Halt, Immediate,
         Activate, At, Scan
<1>2. CASE ActivateCorrupt(i) \/ ActivateBlocked(i)
  BY <1>1, <1>2, NoneLost, BodySame, Zenon
     DEF ActivateCorrupt, ActivateBlocked, store, host, TypeOK
<1>3. CASE ImageMismatch(i)
  BY <1>1, <1>3, FailBody, Zenon DEF ImageMismatch, host, ErrCodes
<1>4. CASE InflightFull(i)
  <2>1. /\ UNCHANGED <<nodes, inflight, kernel, barriers>> /\ SetStatus(i, "ERROR")
        /\ WriteCq(nodes[i].flags, i) \/ RefuseCq(nodes[i].flags)
        /\ pc' = "quiesce" /\ result' = -1 /\ error' = Latched("INFLIGHT_FULL", i)
    BY <1>4, Zenon DEF InflightFull, Fatal, host
  <2>2. error'.code # "none" /\ result' # 0
    <3>1. i \in 0..MaxNodes /\ "INFLIGHT_FULL" \in ErrCodes
      BY <1>1, Checked, PacketAssumption DEF TypeOK, Control, NodeIdx, ErrCodes
    <3> QED BY <2>1, <3>1, LatchedType DEF TypeOK
  <2>3. WriteCq(nodes[i].flags, i) \/ (evidence' = evidence /\ Failing')
    BY <2>1, <2>2, RefusedFails, Zenon DEF RefuseCq
  <2> QED BY <1>1, <2>1, <2>3, PacketMoves, Zenon DEF Status, Finished
<1>5. CASE Dispatch(i)
  <2>1. /\ 1..Count \subseteq NodeIdx /\ i \in NodeIdx
        /\ nodes[i].base \in Bases /\ nodes[i].set_bucket \in Bucket
        /\ nodes[i].set_mask \in Word /\ nodes[i].await_bucket \in Bucket
        /\ nodes[i].op = "KERNEL_DISPATCH"
    <3>1. ASSUME NEW j \in 1..Count PROVE j \in NodeIdx
      BY <1>1, <3>1, Checked, Zenon DEF TypeOK, Control
    <3>2. nodes[i].op = "KERNEL_DISPATCH"
      BY <1>5, Zenon DEF Dispatch, Activate
    <3> QED BY <1>1, <3>1, <3>2, Checked, Zenon DEF TypeOK, Control
  <2>2. /\ UNCHANGED nodes /\ node_status[i] = "PENDING"
        /\ kernel' = [kernel EXCEPT ![nodes[i].base] = "running"]
    BY <1>1, <1>5, Zenon DEF Dispatch, Ready, host
  <2>3. CASE "INFINITE" \in nodes[i].flags /\ pc' = "quiesce"
    <3>1. Complete(i) /\ UNCHANGED <<nodes, inflight>>
      BY <1>5, <2>3, Zenon DEF Dispatch, host
    <3>2. \A b \in Bases : kernel[b] # "idle" => kernel'[b] # "idle"
      BY <2>1, <2>2, Zenon DEF TypeOK, FabricType
    <3> QED BY <1>1, <3>1, <3>2, CompleteBody, Zenon
  <2>4. CASE ~("INFINITE" \in nodes[i].flags /\ pc' = "quiesce")
    <3>1. /\ UNCHANGED pc /\ inflight' = Tracked(nodes[i], i)
          /\ IF "INFINITE" \in nodes[i].flags THEN SetStatus(i, "DONE")
                                               ELSE SetStatus(i, "DISPATCHED")
      <4>1. CASE "INFINITE" \in nodes[i].flags
        BY <1>5, <2>4, <4>1, Zenon DEF Dispatch, Complete, Publish, CorruptExit, Fatal, NextNode
      <4>2. CASE "INFINITE" \notin nodes[i].flags
        BY <1>5, <4>2, Zenon DEF Dispatch, NextNode
      <4> QED BY <4>1, <4>2
    <3>2. Entries' /\ Shown'
      BY <1>1, <2>1, <2>2, <3>1, TableGrows, Zenon DEF TypeOK, Body
    <3>3. /\ ~Settled(i) /\ ~Failing
          /\ "INFINITE" \in nodes[i].flags \/ evidence[i] = 0
          /\ nodes[i].await_mask \subseteq barriers[nodes[i].await_bucket]
      BY <1>1, <2>2, NoneLost, Zenon DEF Ready, Settled, Released, Finished, Body, Recorded
    <3>4. Recorded' /\ Covered' /\ Ordered'
      <4>1. /\ TypeOK /\ Recorded /\ Covered /\ Ordered /\ UNCHANGED nodes
            /\ 1..Count \subseteq NodeIdx /\ (Failing => Failing')
            /\ (pc' \in Scan => pc \in Scan) /\ i \in 1..Count /\ (Settled(i) => Settled(i)')
            /\ \/ node_status[i] # "PENDING"
               \/ /\ pc \in Scan /\ nodes[i].await_bucket \in Bucket
                  /\ nodes[i].await_mask \subseteq barriers[nodes[i].await_bucket]
        BY <1>1, <2>1, <2>2, <3>3, Zenon DEF Body
      <4>2. CASE "INFINITE" \in nodes[i].flags
        <5>1. /\ SetStatus(i, "DONE") /\ barriers' = Raise(nodes[i])
              /\ WriteCq(nodes[i].flags, i)
          BY <1>5, <2>4, <4>2, Zenon DEF Dispatch, Complete, Publish, CorruptExit, Fatal
        <5>2. Settled(i)'
          BY <2>1, <2>2, <4>2, <5>1, Zenon
             DEF SetStatus, Settled, Released, TypeOK, StoreType
        <5>3. "DONE" \in Status \ {"PENDING"}
          BY Zenon DEF Status
        <5> QED BY ONLY <4>1, <4>2, <5>1, <5>2, <5>3, MarkStep, Zenon
      <4>3. CASE "INFINITE" \notin nodes[i].flags
        <5>1. SetStatus(i, "DISPATCHED") /\ UNCHANGED <<barriers, evidence>> /\ evidence[i] = 0
          BY <1>5, <3>3, <4>3, Zenon DEF Dispatch
        <5>2. "DISPATCHED" \in Status \ {"PENDING"} /\ "DISPATCHED" \notin Finished
          BY Zenon DEF Status, Finished
        <5> QED BY ONLY <4>1, <5>1, <5>2, MarkStep, Zenon
      <4> QED BY <4>2, <4>3
    <3> QED BY <3>2, <3>4, Zenon DEF Body
  <2> QED BY <2>3, <2>4
<1>6. CASE PdiLoad(i)
  <2>1. UNCHANGED <<nodes, inflight, kernel>>
    BY <1>6, Zenon DEF PdiLoad, host
  <2>2. CASE Complete(i)
    BY <1>1, <2>1, <2>2, CompleteBody, Zenon
  <2>3. ASSUME NEW code \in {"PDI_TIMEOUT", "PDI_FAILED"}, Fail(i, code)
        PROVE  Body'
    <3>1. code \in ErrCodes
      BY Zenon DEF ErrCodes
    <3> QED BY <1>1, <2>1, <2>3, <3>1, FailBody, Zenon
  <2> QED BY <1>6, <2>2, <2>3, Zenon DEF PdiLoad
<1>7. CASE WaitNode(i)
  <2>1. CASE Complete(i)
    BY <1>1, <1>7, <2>1, CompleteBody, Zenon DEF WaitNode, host
  <2>2. CASE ~Complete(i)
    BY <1>1, <1>7, <2>2, PacketMoves, Zenon DEF WaitNode, host, Status, Finished
  <2> QED BY <2>1, <2>2
<1>8. CASE Halt(i)
  <2>1. /\ UNCHANGED <<nodes, inflight, kernel, barriers>> /\ SetStatus(i, "DONE")
        /\ WriteCq(nodes[i].flags, i) \/ (RefuseCq(nodes[i].flags) /\ CorruptExit)
    BY <1>8, Zenon DEF Halt, host
  <2>2. WriteCq(nodes[i].flags, i) \/ (evidence' = evidence /\ Failing')
    BY <2>1, RefusedExit, Zenon DEF TypeOK
  <2> QED BY <1>1, <2>1, <2>2, PacketMoves, Zenon DEF Status, Finished
<1>9. CASE Immediate(i)
  BY <1>1, <1>9, CompleteBody, Zenon DEF Immediate, host
<1>10. ~(LoopNode(i) \/ CondNode(i) \/ RerunNode(i))
  BY Zenon DEF LoopNode, CondNode, RerunNode, Activate, ControlOps
<1> QED BY <1>2, <1>3, <1>4, <1>5, <1>6, <1>7, <1>8, <1>9, <1>10, Zenon DEF ActivateNode

\* The entry that check_inflight() or quiesce_inflight() looks at is of a packet of the graph.
LEMMA PolledOf ==
  ASSUME TypeOK, Control, Body, pc \in Scan \cup {"quiesce"}, idx <= Len(inflight)
  PROVE  /\ 1..Count \subseteq NodeIdx
         /\ Polled.node \in 1..Count
         /\ Polled.infinite = ("INFINITE" \in nodes[Polled.node].flags)
         /\ Raise(Polled) = Raise(nodes[Polled.node])
         /\ InFlight(Polled, node_status[Polled.node], pc, Lost(Polled.node))
<1>1. Faithful(Polled)
  BY PolledType, Zenon DEF TypeOK, Body, Entries, Polled
<1>2. Count \in 1..MaxNodes
  BY Zenon DEF Control, Bounded, Active
<1>3. 1..Count \subseteq NodeIdx
  BY ONLY <1>2, PacketAssumption DEF NodeIdx
<1> QED BY <1>1, <1>3, Zenon DEF Faithful, EntryOf, Raise, Count

\* Its last record: the packet ends, and releases its dependents unless it must not.
LEMMA PolledMarks ==
  ASSUME TypeOK, Control, Body, pc \in Scan \cup {"quiesce"}, idx <= Len(inflight),
         NEW s \in Finished, SetStatus(Polled.node, s), UNCHANGED nodes,
         Failing => Failing', pc' \in Scan => pc \in Scan,
         WriteCq(PollFlags, Polled.node) \/ (evidence' = evidence /\ Failing'),
         \/ node_status[Polled.node] = "DISPATCHED" \/ Polled.infinite
         \/ node_status[Polled.node] = "DONE" /\ Lost(Polled.node),
         pc' \in Scan =>
            \/ barriers' = barriers
            \/ /\ barriers' = Raise(Polled)
               /\ s = "DONE" \/ "HALT_ON_ERROR" \notin PollFlags
  PROVE  Recorded' /\ Covered' /\ Ordered'
<1>1. PICK p \in 1..Count : p = Polled.node
  BY PolledOf, Zenon
<1>2. /\ 1..Count \subseteq NodeIdx /\ p \in NodeIdx /\ PollFlags = nodes[p].flags
      /\ Polled.infinite = ("INFINITE" \in nodes[p].flags)
      /\ Raise(Polled) = Raise(nodes[p]) /\ node_status[p] # "PENDING"
  BY <1>1, PolledOf, Zenon DEF InFlight, PollFlags
<1>3. SetStatus(p, s) /\ node_status'[p] = s /\ s \in Status \ {"PENDING"}
  BY <1>1, <1>2, Zenon DEF SetStatus, TypeOK, StoreType, Finished, Status
<1>4. "INFINITE" \in nodes[p].flags \/ (~Settled(p) /\ evidence[p] = 0)
  <2>1. CASE node_status[p] = "DISPATCHED"
    BY <2>1, Zenon DEF Body, Recorded, Settled, Released, Finished
  <2>2. CASE Lost(p)
    BY <2>2, Zenon DEF Lost, Settled
  <2> QED BY <1>1, <1>2, <2>1, <2>2, Zenon
<1>5. Settled(p) => Settled(p)'
  BY <1>3, <1>4, Zenon DEF Settled, Released, Finished
<1>6. WriteCq(nodes[p].flags, p) \/ (evidence' = evidence /\ Failing')
  BY <1>1, <1>2, Zenon
<1>7. pc' \in Scan => barriers' = barriers \/ (barriers' = Raise(nodes[p]) /\ Settled(p)')
  <2> SUFFICES ASSUME pc' \in Scan, barriers' # barriers
               PROVE  barriers' = Raise(nodes[p]) /\ Settled(p)'
    BY Zenon
  <2>1. barriers' = Raise(nodes[p]) /\ Released(p)'
    BY <1>2, <1>3, Zenon DEF Released, Finished
  <2>2. ~Failing'
    BY Zenon DEF Failing, Closing, Scan
  <2>3. "SILENT" \in nodes[p].flags \/ evidence'[p] # 0
    BY <1>2, <1>6, <2>2, Counted, Zenon DEF TypeOK
  <2> QED BY <2>1, <2>3, Zenon DEF Settled
<1>8. /\ TypeOK /\ Recorded /\ Covered /\ Ordered /\ UNCHANGED nodes
      /\ (Failing => Failing') /\ (pc' \in Scan => pc \in Scan) /\ p \in 1..Count
      /\ \/ "INFINITE" \in nodes[p].flags /\ (evidence' = evidence \/ WriteCq(nodes[p].flags, p))
         \/ /\ evidence[p] = 0 /\ s \in Finished
            /\ WriteCq(nodes[p].flags, p) \/ (evidence' = evidence /\ Failing')
  BY <1>4, <1>6, Zenon DEF Body
<1> QED BY ONLY <1>2, <1>3, <1>5, <1>7, <1>8, MarkStep, Zenon

\* check_inflight() on a straight-line graph.
LEMMA InflightBody ==
  ASSUME TypeOK, Control, Body,
         \/ InflightCorrupt \/ InflightBlocked \/ InflightDone \/ InflightTimeout
         \/ InflightPending \/ EndInflight
  PROVE  Body'
<1>1. CASE InflightCorrupt \/ InflightBlocked \/ InflightPending \/ EndInflight
  <2>1. UNCHANGED <<nodes, node_status, barriers, evidence, inflight, kernel>>
    BY <1>1, Zenon
       DEF InflightCorrupt, InflightBlocked, InflightPending, EndInflight, host, store
  <2>2. pc \in Scan
    BY <1>1, Zenon
       DEF InflightCorrupt, InflightBlocked, InflightPending, EndInflight, CanPoll,
           PollEntry, Scan
  <2> QED BY <2>1, <2>2, NoneLost, BodySame, Zenon DEF TypeOK
<1>2. ASSUME CanPoll
      PROVE  /\ pc \in Scan /\ pc \in Scan \cup {"quiesce"} /\ idx <= Len(inflight)
             /\ 1..Count \subseteq NodeIdx
             /\ node_status[Polled.node] = "DISPATCHED" \/ Polled.infinite
  <2>1. pc \in Scan /\ pc \in Scan \cup {"quiesce"} /\ idx <= Len(inflight)
    BY <1>2, Zenon DEF CanPoll, PollEntry, Scan
  <2>2. /\ 1..Count \subseteq NodeIdx
        /\ InFlight(Polled, node_status[Polled.node], pc, Lost(Polled.node))
    BY <2>1, PolledOf, Zenon
  <2>3. ~Lost(Polled.node)
    BY <2>1, NoneLost, Zenon
  <2> QED BY <2>1, <2>2, <2>3, Zenon DEF InFlight
<1>3. ASSUME CanPoll PROVE ~Failing /\ \A j : ~Lost(j)
  BY <1>2, <1>3, NoneLost, Zenon
<1>4. ASSUME InflightDone, Retire
      PROVE  Body'
  <2>1. CanPoll /\ UNCHANGED <<nodes, pc>> /\ inflight' = Untrack(idx)
    BY <1>4, Zenon DEF InflightDone, Retire, host
  <2>2. \A b \in Bases : b # Polled.base /\ kernel[b] # "idle" => kernel'[b] # "idle"
    BY <1>4, Zenon DEF InflightDone, TypeOK, FabricType
  <2>3. \A j \in 1..Count : j # Polled.node => /\ node_status'[j] = node_status[j]
                                               /\ Lost(j) => Lost(j)'
    BY <1>2, <1>3, <1>4, <2>1, Zenon DEF InflightDone, SetStatus, TypeOK, StoreType
  <2>4. Entries' /\ Shown'
    BY <1>2, <2>1, <2>2, <2>3, TableShrinks, Zenon DEF TypeOK, Body
  <2>5. Recorded' /\ Covered' /\ Ordered'
    <3>1. CASE UNCHANGED <<node_status, barriers, evidence>>
      BY <1>3, <2>1, <3>1, MarksKept, Zenon DEF Body
    <3>2. CASE /\ SetStatus(Polled.node, "DONE") /\ barriers' = Raise(Polled)
               /\ WriteCq(PollFlags, Polled.node)
      <4>1. "DONE" \in Finished
        BY Zenon DEF Finished
      <4> QED BY <1>2, <1>3, <2>1, <3>2, <4>1, PolledMarks, Zenon
    <3>3. pc # "quiesce"
      BY <1>2, <2>1, Zenon DEF Scan
    <3> QED BY <1>4, <2>1, <3>1, <3>2, <3>3, Zenon DEF InflightDone, CorruptExit, Fatal
  <2> QED BY <2>4, <2>5, Zenon DEF Body
<1>5. ASSUME InflightDone, ~Retire
      PROVE  Body'
  <2>1. /\ CanPoll /\ UNCHANGED <<nodes, inflight>> /\ ~Polled.infinite
        /\ SetStatus(Polled.node, "DONE") /\ RefuseCq(PollFlags) /\ CorruptExit
        /\ kernel' = [kernel EXCEPT ![Polled.base] = "idle"]
    BY <1>5, Zenon DEF InflightDone, host
  <2>2. evidence' = evidence /\ Failing' /\ pc' \notin Scan
    <3>1. evidence' = evidence /\ Failing' /\ pc' = "quiesce"
      BY <2>1, RefusedExit, Zenon DEF TypeOK
    <3> QED BY <3>1, Zenon DEF Scan
  <2>3. PICK p \in 1..Count : p = Polled.node /\ p \in NodeIdx /\ PollFlags = nodes[p].flags
    BY <1>2, <2>1, PolledOf, Zenon DEF PollFlags
  <2>4. Recorded' /\ Covered' /\ Ordered'
    <3>1. "DONE" \in Finished
      BY Zenon DEF Finished
    <3> QED BY <1>2, <1>3, <2>1, <2>2, <3>1, PolledMarks, Zenon
  <2>5. Lost(p)'
    <3>1. node_status[p] \notin Finished /\ "INFINITE" \notin nodes[p].flags
      BY <1>2, <2>1, <2>3, PolledOf, Zenon DEF Finished
    <3>2. evidence[p] = 0 /\ "SILENT" \notin nodes[p].flags
      BY <2>1, <2>3, <3>1, Zenon DEF Body, Recorded, RefuseCq
    <3> QED BY <2>1, <2>2, <3>2, Zenon DEF Lost
  <2>6. node_status'[p] = "DONE" /\ \A j \in 1..Count : j # p => node_status'[j] = node_status[j]
    BY <1>2, <2>1, <2>3, Zenon DEF SetStatus, TypeOK, StoreType
  <2>7. Entries'
    <3>1. \A k \in 1..Len(inflight) : SameEntry(inflight'[k], inflight[k])
      BY <2>1, Zenon DEF SameEntry
    <3> QED BY <1>2, <1>3, <2>1, <2>2, <2>5, <2>6, <3>1, EntriesStay, Zenon DEF Body
  <2>8. ASSUME DistinctKernels, NEW k \in 1..Len(inflight)
        PROVE  kernel'[inflight[k].base] # "idle" \/ Consumed(inflight[k])'
    <3>1. CASE k = idx
      BY <2>1, <2>3, <2>5, <2>6, <3>1, Zenon DEF Consumed, Polled, Lost
    <3>2. CASE k # idx
      <4>1. inflight[k].base # Polled.base
        BY <1>2, <2>1, <2>8, <3>2, PolledType, OtherBase, Zenon DEF Body, Polled, TypeOK
      <4>2. kernel[inflight[k].base] # "idle"
        BY <1>3, <2>1, <2>8, Zenon DEF Body, Shown, Consumed
      <4>3. kernel'[inflight[k].base] = kernel[inflight[k].base]
        <5>1. inflight \in Seq(Entry)
          BY Zenon DEF TypeOK, StoreType
        <5>2. inflight[k] \in Entry
          BY ONLY <5>1, <2>8
        <5> QED BY <2>1, <4>1, <5>2, Zenon DEF Entry, TypeOK, FabricType
      <4> QED BY <4>2, <4>3
    <3> QED BY <3>1, <3>2
  <2>9. Shown'
    BY <2>1, <2>8, Zenon DEF Shown, DistinctKernels, Count
  <2> QED BY <2>4, <2>7, <2>9, Zenon DEF Body
<1>6. CASE InflightTimeout
  <2>1. /\ CanPoll /\ UNCHANGED <<nodes, kernel>> /\ SetStatus(Polled.node, "ERROR")
        /\ error' = Latched("KERNEL_TIMEOUT", Polled.node)
        /\ \/ WriteCq(PollFlags, Polled.node)
           \/ RefuseCq(PollFlags) /\ pc' = "quiesce" /\ result' = -1
    BY <1>6, Zenon DEF InflightTimeout, Fatal, host
  <2>2. \/ pc' = "quiesce" /\ UNCHANGED <<barriers, inflight>>
        \/ /\ barriers' = Raise(Polled) /\ "HALT_ON_ERROR" \notin PollFlags
           /\ inflight' = Untrack(idx) /\ UNCHANGED pc
    BY <1>6, Zenon DEF InflightTimeout, Fatal, Retire
  <2>3. WriteCq(PollFlags, Polled.node) \/ (evidence' = evidence /\ Failing')
    <3>1. Polled.node \in 0..MaxNodes /\ "KERNEL_TIMEOUT" \in ErrCodes
      <4>1. Polled.node \in NodeIdx
        BY <2>1, PolledType, Zenon DEF CanPoll, PollEntry, TypeOK
      <4> QED BY <4>1, PacketAssumption DEF NodeIdx, ErrCodes
    <3>2. error'.code # "none"
      BY <2>1, <3>1, LatchedType DEF TypeOK
    <3>3. result' = -1 => result' # 0
      OBVIOUS
    <3> QED BY <2>1, <3>2, <3>3, RefusedFails, Zenon DEF RefuseCq
  <2>4. pc' \in Scan => pc \in Scan
    BY <1>2, <2>1, Zenon
  <2>5. Recorded' /\ Covered' /\ Ordered'
    <3>1. "ERROR" \in Finished
      BY Zenon DEF Finished
    <3>2. pc' \in Scan => /\ barriers' = Raise(Polled)
                          /\ "ERROR" = "DONE" \/ "HALT_ON_ERROR" \notin PollFlags
      BY <2>2, Zenon DEF Scan
    <3> QED BY <1>2, <1>3, <2>1, <2>3, <2>4, <3>1, <3>2, PolledMarks, Zenon
  <2>6. \A j \in 1..Count : IF j = Polled.node THEN node_status'[j] = "ERROR"
                                               ELSE node_status'[j] = node_status[j]
    BY <1>2, <2>1, Zenon DEF SetStatus, TypeOK, StoreType
  <2>7. CASE pc' = "quiesce" /\ UNCHANGED <<barriers, inflight>>
    <3>1. \A k \in 1..Len(inflight) : SameEntry(inflight'[k], inflight[k])
      BY <2>7, Zenon DEF SameEntry
    <3>2. pc' \notin Scan
      BY <2>7, Zenon DEF Scan
    <3>3. Entries' /\ Shown'
      BY <1>3, <2>1, <2>6, <2>7, <3>1, <3>2, TableStays, Zenon DEF TypeOK, Body
    <3> QED BY <2>5, <3>3, Zenon DEF Body
  <2>8. CASE inflight' = Untrack(idx) /\ UNCHANGED pc
    <3>1. Entries' /\ Shown'
      BY <1>2, <1>3, <2>1, <2>6, <2>8, TableShrinks, Zenon DEF TypeOK, Body
    <3> QED BY <2>5, <3>1, Zenon DEF Body
  <2> QED BY <2>2, <2>7, <2>8
<1> QED BY <1>1, <1>4, <1>5, <1>6

\* check_waits() and the completion test on a straight-line graph.
LEMMA WaitsBody ==
  ASSUME TypeOK, Control, Body,
         \/ \E i \in 1..Count : WaitCorrupt(i) \/ WaitBlocked(i) \/ WaitPoll(i)
         \/ EndActivate \/ EndPass
  PROVE  Body'
<1>1. ASSUME NEW i \in 1..Count, WaitPoll(i), Complete(i)
      PROVE  Body'
  BY <1>1, CompleteBody, Zenon DEF WaitPoll, Parked, Scan, host
<1>2. CASE UNCHANGED <<nodes, node_status, barriers, evidence, inflight, kernel>>
  <2>1. pc \in Scan
    BY Zenon DEF WaitCorrupt, WaitBlocked, WaitPoll, Parked, EndActivate, EndPass, Scan
  <2> QED BY <1>2, <2>1, NoneLost, BodySame, Zenon DEF TypeOK
<1>3. ASSUME NEW i \in 1..Count, WaitCorrupt(i) \/ WaitBlocked(i)
      PROVE  UNCHANGED <<nodes, node_status, barriers, evidence, inflight, kernel>>
  BY <1>3, Zenon DEF WaitCorrupt, WaitBlocked, host, store
<1>4. ASSUME NEW i \in 1..Count, WaitPoll(i), ~Complete(i)
      PROVE  UNCHANGED <<nodes, node_status, barriers, evidence, inflight, kernel>>
  BY <1>4, Zenon DEF WaitPoll, host
<1>5. ASSUME EndActivate \/ EndPass
      PROVE  UNCHANGED <<nodes, node_status, barriers, evidence, inflight, kernel>>
  BY <1>5, Zenon DEF EndActivate, EndPass, host, store
<1> QED BY <1>1, <1>2, <1>3, <1>4, <1>5

\* rp1_mark_recovery_required() after the latch keeps the code.
LEMMA CorruptRecoveryCode ==
  ASSUME WindowType
  PROVE  CorruptRecovery.code # "none"
<1>1. 0 \in 0..MaxNodes /\ "CQ_CORRUPT" \in ErrCodes
  BY PacketAssumption DEF ErrCodes
<1> QED BY <1>1, LatchedType DEF CorruptRecovery, ErrorRec

\* quiesce_inflight() on a straight-line graph: a packet that failed before keeps its record.
LEMMA QuiesceBody ==
  ASSUME TypeOK, Control, Explained, Body, Failing => Failing',
         \/ QuiesceInfinite \/ QuiesceCorrupt \/ QuiesceDone \/ QuiesceTimeout
         \/ QuiescePending \/ QuiescePass
  PROVE  Body'
<1>1. CASE QuiescePending \/ QuiescePass
  <2>1. UNCHANGED <<nodes, node_status, barriers, evidence, inflight, kernel>>
    BY <1>1, Zenon DEF QuiescePending, QuiescePass, host, store
  <2>2. pc' \notin Scan
    BY <1>1, Zenon DEF QuiescePending, QuiescePass, QuiesceEntry, Scan
  <2> QED BY <2>1, <2>2, BodySame, Zenon DEF TypeOK
<1>2. CASE QuiesceInfinite \/ QuiesceCorrupt \/ QuiesceDone \/ QuiesceTimeout
  <2>1. /\ pc \in Scan \cup {"quiesce"} /\ idx <= Len(inflight)
        /\ UNCHANGED <<nodes, pc, barriers>> /\ inflight' = Untrack(idx)
    BY <1>2, Zenon
       DEF QuiesceInfinite, QuiesceCorrupt, QuiesceDone, QuiesceTimeout, QuiesceEntry,
           Release, host
  <2>2. \A b \in Bases : b # Polled.base /\ kernel[b] # "idle" => kernel'[b] # "idle"
    BY <1>2, Zenon
       DEF QuiesceInfinite, QuiesceCorrupt, QuiesceDone, QuiesceTimeout, TypeOK, FabricType
  <2>3. \/ UNCHANGED <<node_status, evidence>>
        \/ /\ ~Polled.infinite /\ node_status[Polled.node] # "ERROR"
           /\ SetStatus(Polled.node, "DONE") \/ SetStatus(Polled.node, "ERROR")
           /\ \/ WriteCq(PollFlags, Polled.node)
              \/ RefuseCq(PollFlags) /\ error' = CorruptRecovery
    BY <1>2, Zenon
       DEF QuiesceInfinite, QuiesceCorrupt, QuiesceDone, QuiesceTimeout, LastRecord
  <2>3a. /\ RefuseCq(PollFlags) /\ error' = CorruptRecovery => evidence' = evidence /\ Failing'
         /\ pc' \in Scan => pc \in Scan
    <3>1. pc = "quiesce" /\ pc' = "quiesce" /\ result' = result
      BY <1>2, Zenon
         DEF QuiesceInfinite, QuiesceCorrupt, QuiesceDone, QuiesceTimeout, QuiesceEntry, Release
    <3>2. result' # 0
      BY <3>1, Zenon DEF Explained
    <3>3. CorruptRecovery.code # "none"
      BY CorruptRecoveryCode, Zenon DEF TypeOK
    <3> QED BY <2>1, <3>1, <3>2, <3>3, RefusedFails, Zenon DEF RefuseCq, Scan
  <2>4. 1..Count \subseteq NodeIdx /\ Polled.node \in 1..Count
        /\ InFlight(Polled, node_status[Polled.node], pc, Lost(Polled.node))
    BY <2>1, PolledOf, Zenon
  <2>5. \A j \in 1..Count : j # Polled.node => /\ node_status'[j] = node_status[j]
                                               /\ Lost(j) => Lost(j)'
    <3>1. \A j \in 1..Count : j # Polled.node => /\ node_status'[j] = node_status[j]
                                                 /\ evidence'[j] = evidence[j]
      BY <2>3, <2>3a, <2>4, Counted, Zenon DEF SetStatus, TypeOK, StoreType
    <3> QED BY <2>1, <3>1, Zenon DEF Lost
  <2>6. Entries' /\ Shown'
    BY <2>1, <2>2, <2>5, TableShrinks, Zenon DEF TypeOK, Body
  <2>7. CASE UNCHANGED <<node_status, evidence>>
    BY <2>1, <2>3a, <2>6, <2>7, MarksKept, Zenon DEF Body
  <2>8. ASSUME /\ ~Polled.infinite /\ node_status[Polled.node] # "ERROR"
               /\ SetStatus(Polled.node, "DONE") \/ SetStatus(Polled.node, "ERROR")
               /\ \/ WriteCq(PollFlags, Polled.node)
                  \/ RefuseCq(PollFlags) /\ error' = CorruptRecovery
        PROVE  Body'
    <3>1. \/ node_status[Polled.node] = "DISPATCHED"
          \/ node_status[Polled.node] = "DONE" /\ Lost(Polled.node)
      BY <2>4, <2>8, Zenon DEF InFlight
    <3>2. "DONE" \in Finished /\ "ERROR" \in Finished
      BY Zenon DEF Finished
    <3>3. WriteCq(PollFlags, Polled.node) \/ (evidence' = evidence /\ Failing')
      BY <2>3a, <2>8, Zenon
    <3>4. Recorded' /\ Covered' /\ Ordered'
      BY <2>1, <2>3a, <2>8, <3>1, <3>2, <3>3, PolledMarks, Zenon
    <3> QED BY <2>6, <3>4, Zenon DEF Body
  <2> QED BY <2>3, <2>7, <2>8
<1> QED BY <1>1, <1>2

\* A graph that has just been validated has started nothing.
LEMMA FreshBody ==
  ASSUME Count' \in 1..MaxNodes, Fresh', node_status' = [i \in NodeIdx |-> "PENDING"]
  PROVE  Body'
<1>1. 1..Count' \subseteq NodeIdx
  BY PacketAssumption DEF NodeIdx
<1>2. \A i \in 1..Count' : node_status'[i] = "PENDING" /\ evidence'[i] = 0
  BY <1>1, Zenon DEF Fresh
<1>3. Recorded' /\ Ordered'
  BY <1>2, Zenon DEF Recorded, Ordered, Finished, Count
<1>4. Covered'
  BY Zenon DEF Covered, Fresh
<1>5. 1..Len(inflight') = {}
  BY DEF Fresh
<1>6. Entries' /\ Shown'
  BY <1>5, Zenon DEF Entries, Shown
<1> QED BY <1>3, <1>4, <1>6 DEF Body

\* A graph that is failing goes on failing until its result is published.
LEMMA FailingStep ==
  ASSUME TypeOK, Control, Explained, [Next]_vars, Failing, ~PublishDone
  PROVE  Failing'
<1>1. pc \in Closing /\ ~Accept /\ pc # "idle" /\ pc \notin Scan
  BY Zenon DEF Failing, Closing, Accept, Scan
<1>2. ErrorKept
  BY <1>1, ErrorStep, Zenon
<1>3. \/ GraphStep \/ OutsideStep \/ PublishState
  <2>1. ~ \E img \in Images : Submit(img)
    BY <1>1, Zenon DEF Submit, Control, Sequenced
  <2> QED BY <1>1, <2>1, Moves, Zenon
<1>4. CASE PublishState
  BY <1>2, <1>4, Zenon DEF PublishState, Failing, Closing, StrayHost, ErrorKept, host
<1>5. CASE OutsideStep
  <2>1. UNCHANGED <<pc, result, nodes>>
    BY <1>5, Zenon DEF OutsideStep
  <2> QED BY <1>1, <1>2, <2>1, Zenon DEF Failing, StrayHost, ErrorKept
<1>6. CASE GraphStep
  <2>1. UNCHANGED <<nodes, result>> /\ pc' \in Closing
    BY <1>1, <1>6, Zenon DEF GraphStep, Active, Closing, Scan
  <2> QED BY <1>1, <1>2, <2>1, Zenon DEF Failing, StrayHost, ErrorKept
<1> QED BY <1>3, <1>4, <1>5, <1>6

\* Every step keeps StraightInv.
LEMMA StraightStep ==
  ASSUME TypeOK, Control, Explained, StraightInv, [Next]_vars
  PROVE  StraightInv'
<1>0. ~PublishDone => (Failing => Failing')
  BY FailingStep, Zenon
<1>1. CASE Accept
  <2>1. CASE ConfigOK
    <3>1. Fresh' /\ pc' = "validate"
      BY <1>1, <2>1 DEF Accept, Fresh, NoError
    <3> QED BY <3>1, Zenon DEF StraightInv, StraightLine, Publishing, Scan
  <2>2. CASE ~ConfigOK
    <3>1. error'.code = "INVALID_CONFIG" /\ pc' = "publish_state"
      BY <1>1, <2>2, Zenon DEF Accept, NoError
    <3> QED BY <3>1, Zenon DEF StraightInv, StraightLine, Publishing, Scan
  <2> QED BY <2>1, <2>2
<1>2. CASE Validate
  <2>1. CASE BadNodes(nodes) = {}
    <3>1. pc = "validate" /\ pc' = "activate"
      BY <1>2, <2>1, Zenon DEF Validate, BeginPass
    <3>2. Fresh' /\ Count' \in 1..MaxNodes /\ node_status' = [i \in NodeIdx |-> "PENDING"]
      BY <1>2, <2>1, <3>1, Zenon
         DEF Validate, Fresh, StraightInv, Control, Bounded, Unstarted, Active, Count, host
    <3>3. Body'
      BY <3>2, FreshBody, Zenon
    <3> QED BY <3>1, <3>3, Zenon DEF StraightInv
  <2>2. CASE BadNodes(nodes) # {}
    <3>1. PICK i : pc = "validate" /\ pc' = "reject" /\ error' = Latched("INVALID_NODE", i)
      BY <1>2, <2>2, Zenon DEF Validate
    <3>2. error'.code = "INVALID_NODE"
      BY <3>1, Zenon DEF StraightInv, Fresh, Latched, TypeOK, WindowType, ErrorRec
    <3> QED BY <3>1, <3>2, Zenon DEF StraightInv, StraightLine, Publishing, Scan
  <2> QED BY <2>1, <2>2
<1>3. CASE Reject
  <2>1. pc = "reject" /\ pc' = "publish_state" /\ UNCHANGED error
    BY <1>3, Zenon DEF Reject
  <2> QED BY <2>1, Zenon DEF StraightInv, StraightLine, Publishing, Scan
<1>4. CASE PublishDone
  BY <1>4, Zenon DEF PublishDone, StraightInv, StraightLine, Publishing, Scan
<1>5. CASE PublishState
  <2>1. /\ pc = "publish_state" /\ pc' = "publish_done"
        /\ UNCHANGED <<nodes, error, node_status, barriers, evidence, inflight, kernel>>
    BY <1>5, Zenon DEF PublishState, host, store
  <2>2. Body => Body'
    BY <1>0, <2>1, BodySame, Zenon DEF TypeOK, Scan, PublishDone
  <2> QED BY <2>1, <2>2, Zenon DEF StraightInv, StraightLine, Publishing, Count, Scan
<1>6. ASSUME NEW img \in Images, Submit(img)
      PROVE  StraightInv'
  <2>1. graph_seq = graph_done_seq /\ UNCHANGED pc
    BY <1>6, Zenon DEF Submit, firmware
  <2>2. pc' = "idle"
    BY <2>1, Zenon DEF Control, Sequenced
  <2> QED BY <2>2, Zenon DEF StraightInv, StraightLine, Publishing, Scan
<1>7. ASSUME UNCHANGED <<nodes, pc, error>>, pc = "validate" => Fresh', Body => Body'
      PROVE  StraightInv'
  BY <1>7, Zenon DEF StraightInv, StraightLine, Publishing, Count
<1>8. CASE Deadline
  <2>1. PICK k \in 1..Len(inflight) : inflight' = [inflight EXCEPT ![k].expired = TRUE]
    BY <1>8, Zenon DEF Deadline
  <2>2. inflight \in Seq(Entry)
    BY Zenon DEF TypeOK, StoreType
  <2>3. /\ Len(inflight') = Len(inflight) /\ inflight # <<>>
        /\ \A j \in 1..Len(inflight) : SameEntry(inflight'[j], inflight[j])
    BY ONLY <2>1, <2>2 DEF SameEntry, Entry
  <2>4. UNCHANGED <<nodes, pc, error, node_status, barriers, evidence, kernel>>
    BY <1>8, Zenon DEF Deadline, firmware, host
  <2>5. pc # "validate"
    BY <2>3, Zenon DEF StraightInv, Fresh
  <2>6. Body => Body'
    BY <1>0, <2>3, <2>4, BodyKept, Zenon DEF TypeOK, PublishDone
  <2> QED BY <1>7, <2>4, <2>5, <2>6, Zenon
<1>9. CASE Drain \/ PeerSignal \/ CursorFault \/ UNCHANGED vars
  <2>1. UNCHANGED <<nodes, pc, error, node_status, barriers, evidence, inflight, kernel>>
    BY <1>9, Zenon DEF Drain, PeerSignal, CursorFault, firmware, host, vars
  <2>2. Body => Body'
    BY <1>0, <2>1, BodySame, Zenon DEF TypeOK, PublishDone
  <2>3. pc = "validate" => Fresh'
    BY <2>1, Zenon DEF StraightInv, Fresh
  <2> QED BY <1>7, <2>1, <2>2, <2>3, Zenon
<1>10. ASSUME NEW b \in Bases, KernelFinish(b)
       PROVE  StraightInv'
  <2>1. /\ UNCHANGED <<nodes, pc, error, node_status, barriers, evidence, inflight>>
        /\ kernel' = [kernel EXCEPT ![b] = "done"]
    BY <1>10, Zenon DEF KernelFinish, firmware, host
  <2>2. \A c \in Bases : kernel[c] # "idle" => kernel'[c] # "idle"
    BY <2>1, Zenon DEF TypeOK, FabricType
  <2>3. \A k \in 1..Len(inflight) : SameEntry(inflight'[k], inflight[k])
    BY <2>1, Zenon DEF SameEntry
  <2>4. Body => Body'
    BY <1>0, <2>1, <2>2, <2>3, BodyKept, Zenon DEF TypeOK, PublishDone
  <2>5. pc = "validate" => Fresh'
    BY <2>1, Zenon DEF StraightInv, Fresh
  <2> QED BY <1>7, <2>1, <2>4, <2>5, Zenon
<1>11. ASSUME GraphStep \/ OutsideStep, pc \in Scan \cup {"quiesce"}, Body /\ StraightLine => Body'
       PROVE  StraightInv'
  <2>1. /\ pc' # "validate" /\ pc' # "reject" /\ UNCHANGED nodes
    BY <1>11, Zenon DEF GraphStep, OutsideStep, Scan
  <2>2. StraightLine' => StraightLine
    BY <1>11, <2>1, Zenon DEF StraightLine, Count
  <2> QED BY <1>11, <2>1, <2>2, Zenon DEF StraightInv
<1>12. ASSUME \/ \E i \in 1..Count : ActivateNode(i)
              \/ EndActivate
              \/ InflightCorrupt \/ InflightBlocked \/ InflightDone \/ InflightTimeout
              \/ InflightPending \/ EndInflight
              \/ \E i \in 1..Count : WaitCorrupt(i) \/ WaitBlocked(i) \/ WaitPoll(i)
              \/ EndPass
              \/ QuiesceInfinite \/ QuiesceCorrupt \/ QuiesceDone \/ QuiesceTimeout
              \/ QuiescePending \/ QuiescePass
       PROVE  StraightInv'
  <2>2. pc \in Scan \cup {"quiesce"}
    BY <1>12, ZenonT(40)
       DEF ActivateNode, ActivateCorrupt, ActivateBlocked, ImageMismatch, InflightFull,
           Dispatch, PdiLoad, LoopNode, CondNode, RerunNode, WaitNode, Halt, Immediate,
           Activate, At, EndActivate, InflightCorrupt, InflightBlocked, InflightDone,
           InflightTimeout, InflightPending, EndInflight, CanPoll, PollEntry, WaitCorrupt,
           WaitBlocked, WaitPoll, Parked, EndPass, QuiesceInfinite, QuiesceCorrupt,
           QuiesceDone, QuiesceTimeout, QuiescePending, QuiescePass, QuiesceEntry, Scan
  <2>3. GraphStep \/ OutsideStep
    <3>1. ~Accept /\ ~PublishState /\ ~PublishDone
      BY <2>2, Zenon DEF Accept, PublishState, PublishDone, Scan
    <3>2. ~ \E img \in Images : Submit(img)
      BY <2>2, Zenon DEF Submit, Control, Sequenced, Scan
    <3> QED BY <3>1, <3>2, Moves, Zenon
  <2>4. Failing => Failing'
    BY <1>0, <2>2, Zenon DEF PublishDone, Scan
  <2>5. Body /\ StraightLine => Body'
    BY <1>12, <2>4, ActivateBody, InflightBody, WaitsBody, QuiesceBody, Zenon DEF StraightLine
  <2> QED BY <1>11, <2>2, <2>3, <2>5, Zenon
<1> QED BY <1>1, <1>2, <1>3, <1>4, <1>5, <1>6, <1>8, <1>9, <1>10, <1>12, Zenon
        DEF Next, Firmware, Environment

\* The invariant behind the three theorems below.
THEOREM StraightCorrect == Spec => []StraightInv
<1>1. Init => StraightInv
  BY DEF Init, StraightInv, StraightLine, Publishing, Scan
<1>2. TypeOK /\ Control /\ Explained /\ StraightInv /\ [Next]_vars => StraightInv'
  BY StraightStep
<1> QED BY TypeCorrect, AlwaysExplained, <1>1, <1>2, PTL DEF Spec

\* A lost record is one that write_cq_entry() refused.
LEMMA LostRefused ==
  ASSUME NEW i, Lost(i), node_status[i] \in Finished
  PROVE  RecordRefused(i)
  BY Zenon DEF Lost, Failing, RecordRefused, Closing, Scan

\* Completion evidence is exact in every straight-line graph: a finished packet that is not
\* SILENT has one CQ record and any other packet none, through CQ back-pressure, the fatal
\* exit and quiesce_inflight().  A record is missing only where write_cq_entry() refused it
\* for a stray cursor, and then the graph is ending with an error latched.
THEOREM EvidenceIsExact == Spec => []EvidenceExact
<1>1. StraightInv => EvidenceExact
  BY LostRefused, Zenon DEF StraightInv, Body, Recorded, EvidenceExact
<1> QED BY StraightCorrect, <1>1, PTL

\* A packet of a straight-line graph leaves PENDING only after every bit it awaits was set by
\* a packet that had let its dependents go; a HALT_ON_ERROR failure releases nobody.
THEOREM DependenciesRespected == Spec => []DependencyOrder
<1>1. StraightInv => DependencyOrder
  BY Zenon DEF StraightInv, Body, Ordered, SetBy, Settled, DependencyOrder
<1> QED BY StraightCorrect, <1>1, PTL

\* A kernel that is still tracked is running or shows its completion: the clear-on-read
\* ap_done is consumed only in the step that retires the entry, or whose record was refused
\* for a stray cursor; then the packet is DONE and the graph is ending with an error latched.
THEOREM CompletionsKept == Spec => []NoLostCompletion
<1>1. ASSUME NEW e, Consumed(e)
      PROVE  /\ node_status[e.node] = "DONE" /\ ~e.infinite
             /\ RecordRefused(e.node)
  BY <1>1, LostRefused, Zenon DEF Consumed, Finished
<1>2. StraightInv => NoLostCompletion
  BY <1>1, Zenon DEF StraightInv, Body, Shown, NoLostCompletion
<1> QED BY StraightCorrect, <1>2, PTL
===============================================================================

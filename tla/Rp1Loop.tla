-------------------------------- MODULE Rp1Loop --------------------------------
(***************************************************************************)
(* The RP1 firmware: the outer graph loop (rp1_run.c), the per-graph store *)
(* (rp1_store.c) and the flat scanner with its in-flight kernel table      *)
(* (rp1_loop.c), against a host that submits images and drains the         *)
(* completion queue, kernels that may or may not finish, and a clock.      *)
(*                                                                         *)
(* One step is one iteration of one of the scanner's loops: one packet     *)
(* activated, one in-flight entry or one parked WAIT polled.  Packets an   *)
(* iteration skips have no effect and are passed over in the same step.    *)
(* The completion queue is its occupancy here (cq_write_idx - cq_read_idx  *)
(* of the code), not the ring and its two cursors.                         *)
(***************************************************************************)
EXTENDS Rp1Packets

CONSTANTS
    Images,         \* the images a host may submit: [nodes, clear, args]
    ValidatingHost, \* TRUE: the host is Rp1Submitter, which validates an image;
                    \* FALSE: a bring-up tool that writes the window directly
    Bases,          \* AXI-Lite base addresses of the kernels
    ImageIds,       \* partial images; 0 is "no image" / "no guard"
    RegWords,       \* what a SCALAR_READ may find in a kernel register
    PeerWrites,     \* <<slot, word>> pairs a peer queue or the host may write
    CqSize,         \* rp1_ctrl_t.cq_size
    MaxInflight,    \* RP1_MAX_INFLIGHT
    SeqWrap,         \* graph_seq and graph_done_seq wrap here (2^32)
    IterWrap,        \* loop_iterations[] wraps here (2^32)
    CursorFaults,   \* images under which the host may publish a cursor outside the ring
    EvidenceCap     \* where the history variable evidence stops counting

ASSUME LoopAssumption ==
    /\ \A img \in Images :
          /\ Len(img.nodes) \in Nat /\ DOMAIN img.nodes = 1..Len(img.nodes)
          /\ img.args \in 0..ArgAvailable
          /\ \A i \in 1..Len(img.nodes) :
                /\ IsPacket(img.nodes[i])
                /\ img.nodes[i].op = "KERNEL_DISPATCH" => img.nodes[i].base \in Bases \cup {0}
                /\ img.nodes[i].op \in {"KERNEL_DISPATCH", "PDI_LOAD"} =>
                      img.nodes[i].image \in ImageIds \cup {0}
    /\ RegWords \subseteq Word
    /\ PeerWrites \subseteq Slot \X Word
    /\ EvidenceCap \in Nat \ {0}
    /\ ValidatingHost \in BOOLEAN
    /\ CqSize \in Nat \ {0}
    /\ MaxInflight \in Nat \ {0}
    /\ SeqWrap \in Nat \ {0, 1}
    /\ IterWrap \in Nat \ {0}
    /\ CursorFaults \subseteq Images

VARIABLES
    \* the shared control block and DDR regions
    nodes, signals, graph_seq, graph_done_seq, rp1_state, error, cq_used,
    \* the firmware's private state
    pc, idx, progress, cq_blocked, result, accepted_seq,
    node_status, barriers, loop_iters, inflight, active_image,
    \* the fabric
    kernel,
    \* history: how many CQ records this graph has published per node, up to
    \* EvidenceCap
    evidence

store  == <<node_status, barriers, loop_iters, inflight>>
host   == <<nodes, graph_seq>>
shared == <<graph_done_seq, rp1_state>>
vars   == <<nodes, signals, graph_seq, graph_done_seq, rp1_state, error, cq_used,
            pc, idx, progress, cq_blocked, result, accepted_seq, node_status,
            barriers, loop_iters, inflight, active_image, kernel, evidence>>

Status   == {"PENDING", "DISPATCHED", "DONE", "WAITING", "ERROR"}
Terminal == {"ERROR", "HALTED"}
ErrCodes == {"INFLIGHT_FULL", "KERNEL_TIMEOUT", "PDI_TIMEOUT", "IMAGE_MISMATCH",
             "PDI_FAILED", "INVALID_CONFIG", "INVALID_NODE", "CQ_CORRUPT"}
ErrorRec == [code : ErrCodes \cup {"none"}, node : 0..MaxNodes, recovery : BOOLEAN]
NoError  == [code |-> "none", node |-> 0, recovery |-> FALSE]
Entry    == [node : NodeIdx, base : Bases, set_bucket : Bucket, set_mask : Word,
             infinite : BOOLEAN, expired : BOOLEAN]
Scan     == {"activate", "inflight", "waits"}

Count    == Len(nodes)
Finished == {"DONE", "ERROR"}

-------------------------------------------------------------------------------
(* Building blocks: each is one helper of rp1_loop.c or rp1_store.c.        *)

\* cq_can_write(): SILENT packets need no slot.
CqState(flags) ==
    IF "SILENT" \in flags THEN "room"
    ELSE IF cq_used > CqSize THEN "corrupt"
    ELSE IF cq_used = CqSize THEN "full" ELSE "room"

\* write_cq_entry() asks cq_can_write() again, after its caller did.  Either there is
\* still room and the record is written, ...
WriteCq(flags, i) ==
    IF "SILENT" \in flags THEN UNCHANGED <<cq_used, evidence>>
    ELSE /\ cq_used' = cq_used + 1
         /\ evidence' = [evidence EXCEPT ![i] = IF @ = EvidenceCap THEN @ ELSE @ + 1]

\* The host of the graph on the board may publish a cursor outside the ring.
StrayHost == \E img \in CursorFaults : nodes = img.nodes

\* ... or the host's cursor has left the ring since the caller's check: nothing is
\* written, and the -1 ends the caller, which has changed the store already.
RefuseCq(flags) ==
    /\ "SILENT" \notin flags
    /\ StrayHost
    /\ cq_used' = CqSize + 1
    /\ UNCHANGED evidence

\* Mutant: the last error owns the record.
LatchedLast(code, i) == [error EXCEPT !.code = code, !.node = i]

\* rp1_latch_error(): the first base code owns the record.
Latched(code, i) ==
    IF error.code = "none" THEN [error EXCEPT !.code = code, !.node = i] ELSE error

\* rp1_mark_recovery_required().
Recovery == [error EXCEPT !.recovery = TRUE]

\* g_barriers[set_bucket] |= set_mask, for a packet or an in-flight entry.
Raise(e) == [barriers EXCEPT ![e.set_bucket] = @ \cup e.set_mask]

SetStatus(i, s) == node_status' = [node_status EXCEPT ![i] = s]

\* add_inflight().
Tracked(n, i) ==
    Append(inflight, [node |-> i, base |-> n.base, set_bucket |-> n.set_bucket,
                      set_mask |-> n.set_mask, infinite |-> "INFINITE" \in n.flags,
                      expired |-> FALSE])

\* Mutant: the count is decremented but the last entry is not moved.
UntrackLast(k) == [j \in 1..(Len(inflight) - 1) |-> inflight[j]]

\* remove_inflight(): the last entry takes the freed place.
Untrack(k) ==
    [j \in 1..(Len(inflight) - 1) |-> IF j = k THEN inflight[Len(inflight)]
                                               ELSE inflight[j]]

\* Mutant: one of the awaited bits is enough.
ReadyOnAny(i) == /\ node_status[i] = "PENDING"
                 /\ \/ nodes[i].await_mask = {}
                    \/ nodes[i].await_mask \cap barriers[nodes[i].await_bucket] # {}

\* The await guard of activate_nodes(), and the next packet the scan stops at.
Ready(i) == /\ node_status[i] = "PENDING"
            /\ nodes[i].await_mask \subseteq barriers[nodes[i].await_bucket]
At(i)    == /\ pc = "activate"
            /\ i \in idx..Count
            /\ Ready(i)
            /\ \A j \in idx..(i - 1) : ~Ready(j)

\* The iteration ends and the scan goes on with packet i + 1.
NextNode(i, moved) ==
    /\ idx' = i + 1
    /\ progress' = (progress \/ moved)
    /\ UNCHANGED <<pc, cq_blocked, result>>

\* A fatal return of any phase: quiesce_inflight(), then return r.
Fatal(r) ==
    /\ pc' = "quiesce"
    /\ idx' = 1
    /\ result' = r
    /\ UNCHANGED <<progress, cq_blocked>>

\* Mutant: the corrupt cursor is not reported.
CorruptExitUnlatched == Fatal(-1) /\ UNCHANGED error

\* cq_can_write() found the consumer cursor outside the ring.
CorruptExit == error' = Latched("CQ_CORRUPT", 0) /\ Fatal(-1)

\* The end of a packet's case: its record and the next packet, or the early return
\* when the record is refused.
Publish(i) ==
    \/ WriteCq(nodes[i].flags, i) /\ NextNode(i, TRUE) /\ UNCHANGED error
    \/ RefuseCq(nodes[i].flags) /\ CorruptExit

BeginPass ==
    /\ pc' = "activate"
    /\ idx' = 1
    /\ progress' = FALSE
    /\ cq_blocked' = FALSE
    /\ UNCHANGED result

-------------------------------------------------------------------------------
(* rp1_run(): accept a new graph_seq, publish the result.                   *)

\* rp1_store_init(): count and cursor checks (the addresses the host programs
\* are fixed and in the window).
ConfigOK == Count \in 1..MaxNodes /\ cq_used <= CqSize

Accept ==
    /\ pc = "idle"
    /\ rp1_state \notin Terminal
    /\ graph_seq # graph_done_seq
    /\ accepted_seq' = graph_seq
    /\ rp1_state' = "RUNNING"
    /\ IF ConfigOK
       THEN /\ error' = NoError
            /\ node_status' = [i \in NodeIdx |-> "PENDING"]
            /\ barriers' = [b \in Bucket |-> {}]
            /\ loop_iters' = [l \in LoopId |-> 0]
            /\ inflight' = <<>>
            /\ pc' = "validate"
            /\ UNCHANGED result
       ELSE /\ error' = [NoError EXCEPT !.code = "INVALID_CONFIG"]
            /\ result' = -1
            /\ pc' = "publish_state"
            /\ UNCHANGED store
    /\ evidence' = [i \in NodeIdx |-> 0]
    /\ UNCHANGED <<host, signals, graph_done_seq, cq_used, idx, progress,
                   cq_blocked, active_image, kernel>>

PublishState ==
    /\ pc = "publish_state"
    /\ rp1_state' = CASE result = -1 -> "ERROR" [] result = -2 -> "HALTED"
                      [] OTHER -> "READY"
    /\ pc' = "publish_done"
    /\ UNCHANGED <<host, store, signals, graph_done_seq, error, cq_used, idx, progress,
                   cq_blocked, result, accepted_seq, active_image, kernel, evidence>>

PublishDone ==
    /\ pc = "publish_done"
    /\ graph_done_seq' = accepted_seq
    /\ pc' = "idle"
    /\ UNCHANGED <<host, store, signals, rp1_state, error, cq_used, idx, progress,
                   cq_blocked, result, accepted_seq, active_image, kernel, evidence>>

-------------------------------------------------------------------------------
(* rp1_loop(): all-or-nothing validation before the first pass.             *)

Validate ==
    /\ pc = "validate"
    /\ IF BadNodes(nodes) = {}
       THEN /\ BeginPass
            /\ UNCHANGED <<error, node_status>>
       ELSE \E i \in BadNodes(nodes) :
            /\ \A j \in BadNodes(nodes) : i <= j
            /\ error' = Latched("INVALID_NODE", i)
            /\ SetStatus(i, "ERROR")
            /\ pc' = "reject"
            /\ UNCHANGED <<idx, progress, cq_blocked, result>>
    /\ UNCHANGED <<host, shared, signals, cq_used, accepted_seq, barriers, loop_iters,
                   inflight, active_image, kernel, evidence>>

\* The forced CQ record of a rejected packet waits while the ring is full.
Reject ==
    /\ pc = "reject"
    /\ CqState({}) # "full"
    /\ IF CqState({}) = "room" THEN WriteCq({}, error.node)
                               ELSE UNCHANGED <<cq_used, evidence>>
    /\ pc' = "publish_state"
    /\ result' = -1
    /\ UNCHANGED <<host, shared, store, signals, error, idx, progress, cq_blocked,
                   accepted_seq, active_image, kernel>>

-------------------------------------------------------------------------------
(* activate_nodes(): CQ capacity first, then the opcode.                    *)

ActivateCorrupt(i) ==
    /\ At(i)
    /\ CqState(nodes[i].flags) = "corrupt"
    /\ CorruptExit
    /\ UNCHANGED <<host, shared, store, signals, cq_used, accepted_seq, active_image,
                   kernel, evidence>>

ActivateBlocked(i) ==
    /\ At(i)
    /\ CqState(nodes[i].flags) = "full"
    /\ cq_blocked' = TRUE
    /\ idx' = i + 1
    /\ UNCHANGED <<host, shared, store, signals, error, cq_used, pc, progress, result,
                   accepted_seq, active_image, kernel, evidence>>

Activate(i, op) ==
    /\ At(i)
    /\ nodes[i].op = op
    /\ CqState(nodes[i].flags) = "room"

\* A packet that ends in this step with RP1_CQ_OK.
Complete(i) ==
    /\ SetStatus(i, "DONE")
    /\ barriers' = Raise(nodes[i])
    /\ Publish(i)

\* A packet that fails in this step: ERROR, the latch, a CQ record; then either the
\* fatal exit (also when the record is refused, which latches too late to own the
\* error) or, without HALT_ON_ERROR, its barriers as if it were done.
Fail(i, code) ==
    /\ SetStatus(i, "ERROR")
    /\ error' = Latched(code, i)
    /\ \/ /\ WriteCq(nodes[i].flags, i)
          /\ IF "HALT_ON_ERROR" \in nodes[i].flags
             THEN Fatal(-1) /\ UNCHANGED barriers
             ELSE NextNode(i, TRUE) /\ barriers' = Raise(nodes[i])
       \/ RefuseCq(nodes[i].flags) /\ Fatal(-1) /\ UNCHANGED barriers

Mismatch(n) == n.image # 0 /\ n.image # active_image

ImageMismatch(i) ==
    /\ Activate(i, "KERNEL_DISPATCH")
    /\ Mismatch(nodes[i])
    /\ Fail(i, "IMAGE_MISMATCH")
    /\ UNCHANGED <<host, shared, signals, accepted_seq, loop_iters, inflight,
                   active_image, kernel>>

\* Mutant: one entry too many.
TableFullLate == Len(inflight) > MaxInflight

TableFull == Len(inflight) >= MaxInflight

InflightFull(i) ==
    /\ Activate(i, "KERNEL_DISPATCH")
    /\ ~Mismatch(nodes[i])
    /\ TableFull
    /\ SetStatus(i, "ERROR")
    /\ error' = Latched("INFLIGHT_FULL", i)
    /\ WriteCq(nodes[i].flags, i) \/ RefuseCq(nodes[i].flags)
    /\ Fatal(-1)
    /\ UNCHANGED <<host, shared, signals, accepted_seq, barriers, loop_iters, inflight,
                   active_image, kernel>>

\* launch_kernel() reads the control register first, which clears a stale
\* ap_done, and then starts the kernel; an INFINITE packet is DONE at once, and the
\* refusal of its record returns before add_inflight().
Dispatch(i) ==
    /\ Activate(i, "KERNEL_DISPATCH")
    /\ ~Mismatch(nodes[i])
    /\ ~TableFull
    /\ kernel' = [kernel EXCEPT ![nodes[i].base] = "running"]
    /\ IF "INFINITE" \in nodes[i].flags
       THEN /\ Complete(i)
            /\ inflight' = IF pc' = "quiesce" THEN inflight ELSE Tracked(nodes[i], i)
       ELSE /\ SetStatus(i, "DISPATCHED")
            /\ inflight' = Tracked(nodes[i], i)
            /\ NextNode(i, TRUE)
            /\ UNCHANGED <<barriers, error, cq_used, evidence>>
    /\ UNCHANGED <<host, shared, signals, accepted_seq, loop_iters, active_image>>

PdiLoad(i) ==
    /\ Activate(i, "PDI_LOAD")
    /\ \/ active_image' = nodes[i].image /\ Complete(i)
       \/ Fail(i, "PDI_TIMEOUT") /\ UNCHANGED active_image
       \/ Fail(i, "PDI_FAILED") /\ UNCHANGED active_image
    /\ UNCHANGED <<host, shared, signals, accepted_seq, loop_iters, inflight, kernel>>

\* Re-arming a body: its buckets are cleared and its packets become PENDING.
ClearedBarriers(n) ==
    [b \in Bucket |-> IF b \in n.clear_start..n.clear_end THEN {} ELSE barriers[b]]
RearmedStatus(n, i) ==
    [j \in NodeIdx |-> IF j = i THEN "DONE"
                       ELSE IF j \in n.body_start..n.body_end THEN "PENDING"
                       ELSE node_status[j]]

\* LOOP: the counter counts firings, so the body runs max_iterations times.
LoopNode(i) ==
    /\ Activate(i, "LOOP")
    /\ LET n     == nodes[i]
           iters == (loop_iters[n.loop_id] + 1) % IterWrap
           exit  == \/ n.max > 0 /\ iters > n.max
                    \/ Compare(signals[n.signal], n.cond_op, n.value)
       IN /\ loop_iters' = [loop_iters EXCEPT ![n.loop_id] = iters]
          /\ IF exit
             THEN Complete(i)
             ELSE /\ barriers' = ClearedBarriers(n)
                  /\ node_status' = RearmedStatus(n, i)
                  /\ NextNode(i, TRUE)
                  /\ UNCHANGED <<error, cq_used, evidence>>
    /\ UNCHANGED <<host, shared, signals, accepted_seq, inflight, active_image, kernel>>

\* COND: met sets the done bits, not met re-arms the body; its own barrier
\* bits are raised either way.
CondNode(i) ==
    /\ Activate(i, "COND")
    /\ LET n   == nodes[i]
           met == Compare(signals[n.signal], n.cond_op, n.value)
           b1  == IF met THEN [barriers EXCEPT ![n.done_bucket] = @ \cup n.done_mask]
                         ELSE ClearedBarriers(n)
       IN /\ node_status' = IF met THEN [node_status EXCEPT ![i] = "DONE"]
                                   ELSE RearmedStatus(n, i)
          /\ barriers' = [b1 EXCEPT ![n.set_bucket] = @ \cup n.set_mask]
          /\ Publish(i)
    /\ UNCHANGED <<host, shared, signals, accepted_seq, loop_iters, inflight,
                   active_image, kernel>>

RerunNode(i) ==
    /\ Activate(i, "RERUN")
    /\ node_status' = [node_status EXCEPT ![nodes[i].target] = "PENDING", ![i] = "DONE"]
    /\ loop_iters' = IF nodes[i].clear_state
                     THEN [loop_iters EXCEPT ![nodes[i].loop_id] = 0] ELSE loop_iters
    /\ barriers' = Raise(nodes[i])
    /\ Publish(i)
    /\ UNCHANGED <<host, shared, signals, accepted_seq, inflight, active_image, kernel>>

Met(n) == Compare(signals[n.signal], n.cond_op, n.value)

\* WAIT: completes now, or parks without counting as progress.
WaitNode(i) ==
    /\ Activate(i, "WAIT")
    /\ IF Met(nodes[i])
       THEN Complete(i)
       ELSE /\ SetStatus(i, "WAITING")
            /\ NextNode(i, FALSE)
            /\ UNCHANGED <<barriers, error, cq_used, evidence>>
    /\ UNCHANGED <<host, shared, signals, accepted_seq, loop_iters, inflight,
                   active_image, kernel>>

Halt(i) ==
    /\ Activate(i, "HALT")
    /\ SetStatus(i, "DONE")
    /\ \/ WriteCq(nodes[i].flags, i) /\ Fatal(-2) /\ UNCHANGED error
       \/ RefuseCq(nodes[i].flags) /\ CorruptExit
    /\ UNCHANGED <<host, shared, signals, accepted_seq, barriers, loop_iters,
                   inflight, active_image, kernel>>

\* execute_immediate(): only SIGNAL and SCALAR_READ touch state kept here.
Immediate(i) ==
    /\ nodes[i].op \in Immediates
    /\ Activate(i, nodes[i].op)
    /\ CASE nodes[i].op = "SIGNAL" ->
              signals' = [signals EXCEPT ![nodes[i].slot] =
                            ApplySignal(@, nodes[i].operation, nodes[i].value)]
         [] nodes[i].op = "SCALAR_READ" ->
              \E w \in RegWords : signals' = [signals EXCEPT ![nodes[i].slot] = w]
         [] OTHER -> UNCHANGED signals
    /\ Complete(i)
    /\ UNCHANGED <<host, shared, accepted_seq, loop_iters, inflight,
                   active_image, kernel>>

EndActivate ==
    /\ pc = "activate"
    /\ \A i \in idx..Count : ~Ready(i)
    /\ pc' = "inflight"
    /\ idx' = 1
    /\ UNCHANGED <<host, shared, store, signals, error, cq_used, progress, cq_blocked,
                   result, accepted_seq, active_image, kernel, evidence>>

-------------------------------------------------------------------------------
(* check_inflight(): poll the entry at idx; a removal leaves idx in place.  *)

PollEntry == pc = "inflight" /\ idx <= Len(inflight)
Polled    == inflight[idx]
PollFlags == nodes[Polled.node].flags
NextEntry == idx' = idx + 1 /\ UNCHANGED <<pc, progress, result>>

InflightCorrupt ==
    /\ PollEntry
    /\ CqState(PollFlags) = "corrupt"
    /\ CorruptExit
    /\ UNCHANGED <<host, shared, store, signals, cq_used, accepted_seq, active_image,
                   kernel, evidence>>

\* Mutant: the control register is read, and ap_done lost, before the entry is parked.
InflightBlockedReads ==
    /\ PollEntry
    /\ CqState(PollFlags) = "full"
    /\ Polled.infinite => kernel[Polled.base] # "done" /\ Polled.expired
    /\ cq_blocked' = TRUE
    /\ NextEntry
    /\ kernel' = [kernel EXCEPT ![Polled.base] = IF @ = "done" THEN "idle" ELSE @]
    /\ UNCHANGED <<host, shared, store, signals, error, cq_used, accepted_seq,
                   active_image, evidence>>

\* A full ring parks finite work before its control register is read, and an
\* expired infinite kernel after.
InflightBlocked ==
    /\ PollEntry
    /\ CqState(PollFlags) = "full"
    /\ Polled.infinite => kernel[Polled.base] # "done" /\ Polled.expired
    /\ cq_blocked' = TRUE
    /\ NextEntry
    /\ UNCHANGED <<host, shared, store, signals, error, cq_used, accepted_seq,
                   active_image, kernel, evidence>>

CanPoll == PollEntry /\ CqState(PollFlags) \in (IF Polled.infinite THEN {"room", "full"}
                                                                   ELSE {"room"})

\* remove_inflight(): the scan goes on with the entry that took the place.
Retire == /\ inflight' = Untrack(idx)
          /\ progress' = TRUE
          /\ UNCHANGED <<pc, idx, cq_blocked, result>>

\* Reading ap_done clears it.  If the record is then refused, the packet is DONE and
\* its barriers are up, but the entry stays tracked for quiesce_inflight().
InflightDone ==
    /\ CanPoll
    /\ kernel[Polled.base] = "done"
    /\ kernel' = [kernel EXCEPT ![Polled.base] = "idle"]
    /\ IF Polled.infinite
       THEN Retire /\ UNCHANGED <<node_status, barriers, error, cq_used, evidence>>
       ELSE /\ SetStatus(Polled.node, "DONE")
            /\ barriers' = Raise(Polled)
            /\ \/ WriteCq(PollFlags, Polled.node) /\ Retire /\ UNCHANGED error
               \/ RefuseCq(PollFlags) /\ CorruptExit /\ UNCHANGED inflight
    /\ UNCHANGED <<host, shared, signals, accepted_seq, loop_iters, active_image>>

\* A fatal timeout, or one whose record is refused, leaves the entry tracked for
\* quiesce_inflight().
InflightTimeout ==
    /\ CanPoll
    /\ kernel[Polled.base] # "done"
    /\ Polled.expired
    /\ CqState(PollFlags) = "room"
    /\ SetStatus(Polled.node, "ERROR")
    /\ error' = Latched("KERNEL_TIMEOUT", Polled.node)
    /\ \/ /\ WriteCq(PollFlags, Polled.node)
          /\ IF "HALT_ON_ERROR" \in PollFlags
             THEN Fatal(-1) /\ UNCHANGED <<barriers, inflight>>
             ELSE barriers' = Raise(Polled) /\ Retire
       \/ RefuseCq(PollFlags) /\ Fatal(-1) /\ UNCHANGED <<barriers, inflight>>
    /\ UNCHANGED <<host, shared, signals, accepted_seq, loop_iters, active_image, kernel>>

InflightPending ==
    /\ CanPoll
    /\ kernel[Polled.base] # "done"
    /\ ~Polled.expired
    /\ NextEntry
    /\ UNCHANGED <<host, shared, store, signals, error, cq_used, cq_blocked, accepted_seq,
                   active_image, kernel, evidence>>

EndInflight ==
    /\ pc = "inflight"
    /\ idx > Len(inflight)
    /\ pc' = "waits"
    /\ idx' = 1
    /\ UNCHANGED <<host, shared, store, signals, error, cq_used, progress, cq_blocked,
                   result, accepted_seq, active_image, kernel, evidence>>

-------------------------------------------------------------------------------
(* check_waits(), and the completion test that ends a pass.                 *)

Parked(i) == /\ pc = "waits"
             /\ i \in idx..Count
             /\ node_status[i] = "WAITING"
             /\ \A j \in idx..(i - 1) : node_status[j] # "WAITING"

WaitCorrupt(i) ==
    /\ Parked(i)
    /\ CqState(nodes[i].flags) = "corrupt"
    /\ CorruptExit
    /\ UNCHANGED <<host, shared, store, signals, cq_used, accepted_seq, active_image,
                   kernel, evidence>>

WaitBlocked(i) ==
    /\ Parked(i)
    /\ CqState(nodes[i].flags) = "full"
    /\ cq_blocked' = TRUE
    /\ idx' = i + 1
    /\ UNCHANGED <<host, shared, store, signals, error, cq_used, pc, progress, result,
                   accepted_seq, active_image, kernel, evidence>>

WaitPoll(i) ==
    /\ Parked(i)
    /\ CqState(nodes[i].flags) = "room"
    /\ IF Met(nodes[i])
       THEN Complete(i)
       ELSE /\ NextNode(i, FALSE)
            /\ UNCHANGED <<node_status, barriers, error, cq_used, evidence>>
    /\ UNCHANGED <<host, shared, signals, accepted_seq, loop_iters, inflight,
                   active_image, kernel>>

\* Mutant: a pass held back by the CQ counts as quiet.
QuietIfBlocked == ~progress /\ \A i \in 1..Count : node_status[i] \notin {"DISPATCHED", "WAITING"}

\* No progress, nothing held back by the CQ, nothing in flight or parked.
Quiet == /\ ~progress
         /\ ~cq_blocked
         /\ \A i \in 1..Count : node_status[i] \notin {"DISPATCHED", "WAITING"}

EndPass ==
    /\ pc = "waits"
    /\ \A i \in idx..Count : node_status[i] # "WAITING"
    /\ IF Quiet
       THEN /\ pc' = "publish_state"
            /\ result' = 0
            /\ UNCHANGED <<idx, progress, cq_blocked>>
       ELSE BeginPass
    /\ UNCHANGED <<host, shared, store, signals, error, cq_used, accepted_seq,
                   active_image, kernel, evidence>>

-------------------------------------------------------------------------------
(* quiesce_inflight(): schedules nothing and raises no barrier.             *)

QuiesceEntry == pc = "quiesce" /\ idx <= Len(inflight)

\* Mutant: quiescing releases the dependents.
ReleaseRaising ==
    /\ inflight' = Untrack(idx)
    /\ barriers' = Raise(Polled)
    /\ UNCHANGED <<host, shared, signals, pc, idx, progress, cq_blocked, result,
                   accepted_seq, loop_iters, active_image>>

\* The part every removal shares.
Release ==
    /\ inflight' = Untrack(idx)
    /\ UNCHANGED <<host, shared, signals, pc, idx, progress, cq_blocked, result,
                   accepted_seq, barriers, loop_iters, active_image>>

QuiesceInfinite ==
    /\ QuiesceEntry
    /\ Polled.infinite
    /\ error' = Recovery
    /\ Release
    /\ UNCHANGED <<node_status, cq_used, evidence, kernel>>

\* cq_can_write() has latched its error and returned -1: the device needs recovery.
CorruptRecovery == [Latched("CQ_CORRUPT", 0) EXCEPT !.recovery = TRUE]

QuiesceCorrupt ==
    /\ QuiesceEntry
    /\ ~Polled.infinite
    /\ CqState(PollFlags) = "corrupt"
    /\ error' = CorruptRecovery
    /\ Release
    /\ UNCHANGED <<node_status, cq_used, evidence, kernel>>

\* Mutant: a packet that already failed gets a second record.
LastRecordAlways(s, err) ==
    SetStatus(Polled.node, s) /\ WriteCq(PollFlags, Polled.node) /\ error' = err

\* The final record of an entry that has none yet; a refused one asks for recovery.
LastRecord(s, err) ==
    IF node_status[Polled.node] = "ERROR"
    THEN error' = err /\ UNCHANGED <<node_status, cq_used, evidence>>
    ELSE /\ SetStatus(Polled.node, s)
         /\ \/ WriteCq(PollFlags, Polled.node) /\ error' = err
            \/ RefuseCq(PollFlags) /\ error' = CorruptRecovery

QuiesceDone ==
    /\ QuiesceEntry
    /\ ~Polled.infinite
    /\ CqState(PollFlags) = "room"
    /\ kernel[Polled.base] = "done"
    /\ kernel' = [kernel EXCEPT ![Polled.base] = "idle"]
    /\ LastRecord("DONE", error)
    /\ Release

\* Mutant: an expired kernel stays in the table.
QuiesceTimeoutKeeps ==
    /\ QuiesceEntry
    /\ ~Polled.infinite
    /\ CqState(PollFlags) = "room"
    /\ kernel[Polled.base] # "done"
    /\ Polled.expired
    /\ LastRecord("ERROR", Recovery)
    /\ idx' = idx + 1
    /\ UNCHANGED <<host, shared, signals, pc, progress, cq_blocked, result, accepted_seq,
                   barriers, loop_iters, inflight, active_image, kernel>>

QuiesceTimeout ==
    /\ QuiesceEntry
    /\ ~Polled.infinite
    /\ CqState(PollFlags) = "room"
    /\ kernel[Polled.base] # "done"
    /\ Polled.expired
    /\ LastRecord("ERROR", Recovery)
    /\ Release
    /\ UNCHANGED kernel

\* A full ring, or a kernel that still has time: look at the next entry.
QuiescePending ==
    /\ QuiesceEntry
    /\ ~Polled.infinite
    /\ \/ CqState(PollFlags) = "full"
       \/ CqState(PollFlags) = "room" /\ kernel[Polled.base] # "done" /\ ~Polled.expired
    /\ idx' = idx + 1
    /\ UNCHANGED <<host, shared, store, signals, error, cq_used, pc, progress, cq_blocked,
                   result, accepted_seq, active_image, kernel, evidence>>

QuiescePass ==
    /\ pc = "quiesce"
    /\ idx > Len(inflight)
    /\ IF inflight = <<>> THEN pc' = "publish_state" /\ UNCHANGED idx
                          ELSE idx' = 1 /\ UNCHANGED pc
    /\ UNCHANGED <<host, shared, store, signals, error, cq_used, progress, cq_blocked,
                   result, accepted_seq, active_image, kernel, evidence>>

-------------------------------------------------------------------------------
(* The environment: submitter, peers, kernels, clock.                       *)

firmware == <<pc, idx, progress, cq_blocked, result, accepted_seq, node_status, barriers,
              loop_iters, active_image, evidence>>

\* Rp1Submitter::submitAndWait() up to the doorbell: validation, the READY check
\* (its previous call has returned, so its graph is done), the drain of old
\* records, staging.
Submit(img) ==
    /\ ValidatingHost => HostAcceptsImage(img)
    /\ rp1_state = "READY"
    /\ graph_seq = graph_done_seq
    /\ cq_used' = 0
    /\ nodes' = img.nodes
    /\ signals' = [s \in Slot |-> IF s \in img.clear THEN {} ELSE signals[s]]
    /\ graph_seq' = (graph_seq + 1) % SeqWrap
    /\ UNCHANGED <<firmware, inflight, shared, error, kernel>>

\* drainAvailableCq() frees the records published when it looked; the cursor it
\* writes back is its own, which also mends a stray cq_read_idx.
Drain ==
    /\ \E k \in 1..cq_used : cq_used' = cq_used - k
    /\ UNCHANGED <<firmware, inflight, host, shared, signals, error, kernel>>

\* A peer queue or the host raises a signal slot.
PeerSignal ==
    /\ \E p \in PeerWrites :
          /\ signals[p[1]] # p[2]
          /\ signals' = [signals EXCEPT ![p[1]] = p[2]]
    /\ UNCHANGED <<firmware, inflight, host, shared, error, cq_used, kernel>>

KernelFinish(b) ==
    /\ kernel[b] = "running"
    /\ kernel' = [kernel EXCEPT ![b] = "done"]
    /\ UNCHANGED <<firmware, inflight, host, shared, signals, error, cq_used>>

\* The PMU counter passes the deadline of a tracked kernel.
Deadline ==
    /\ \E k \in 1..Len(inflight) :
          /\ ~inflight[k].expired
          /\ inflight' = [inflight EXCEPT ![k].expired = TRUE]
    /\ UNCHANGED <<firmware, host, shared, signals, error, cq_used, kernel>>

\* A consumer cursor outside the ring, which cq_can_write() must notice.
CursorFault ==
    /\ StrayHost
    /\ cq_used <= CqSize
    /\ cq_used' = CqSize + 1
    /\ UNCHANGED <<firmware, inflight, host, shared, signals, error, kernel>>

-------------------------------------------------------------------------------
Init ==
    /\ nodes = <<>>
    /\ signals = [s \in Slot |-> {}]
    /\ graph_seq = 0 /\ graph_done_seq = 0 /\ accepted_seq = 0
    /\ rp1_state = "READY"
    /\ error = NoError
    /\ cq_used = 0
    /\ pc = "idle" /\ idx = 1 /\ result = 0
    /\ progress = FALSE /\ cq_blocked = FALSE
    /\ node_status = [i \in NodeIdx |-> "PENDING"]
    /\ barriers = [b \in Bucket |-> {}]
    /\ loop_iters = [l \in LoopId |-> 0]
    /\ inflight = <<>>
    /\ active_image = 0
    /\ kernel = [b \in Bases |-> "idle"]
    /\ evidence = [i \in NodeIdx |-> 0]

\* Everything one packet's activation can do.
ActivateNode(i) ==
    \/ ActivateCorrupt(i) \/ ActivateBlocked(i)
    \/ ImageMismatch(i) \/ InflightFull(i) \/ Dispatch(i) \/ PdiLoad(i)
    \/ LoopNode(i) \/ CondNode(i) \/ RerunNode(i)
    \/ WaitNode(i) \/ Halt(i) \/ Immediate(i)

Firmware ==
    \/ Accept \/ Validate \/ Reject \/ PublishState \/ PublishDone
    \/ \E i \in 1..Count : ActivateNode(i)
    \/ EndActivate
    \/ InflightCorrupt \/ InflightBlocked \/ InflightDone \/ InflightTimeout
    \/ InflightPending \/ EndInflight
    \/ \E i \in 1..Count : WaitCorrupt(i) \/ WaitBlocked(i) \/ WaitPoll(i)
    \/ EndPass
    \/ QuiesceInfinite \/ QuiesceCorrupt \/ QuiesceDone \/ QuiesceTimeout
    \/ QuiescePending \/ QuiescePass

Environment ==
    \/ \E img \in Images : Submit(img)
    \/ Drain \/ PeerSignal \/ Deadline \/ CursorFault
    \/ \E b \in Bases : KernelFinish(b)

Next == Firmware \/ Environment

Spec == Init /\ [][Next]_vars

(***************************************************************************)
(* The firmware never stops polling, the host drains while it waits, peers *)
(* deliver the signals they owe and time passes.  Kernels owe nothing: a   *)
(* graph must end even if none of them ever finishes.                      *)
(***************************************************************************)
FairSpec == /\ Spec
            /\ WF_vars(Firmware)
            /\ WF_vars(Drain)
            /\ WF_vars(PeerSignal)
            /\ WF_vars(Deadline)

-------------------------------------------------------------------------------
(* Properties.                                                              *)

\* The type invariant, in four parts: what the window holds, ...
WindowType ==
    /\ nodes = <<>> \/ \E img \in Images : nodes = img.nodes
    /\ signals \in [Slot -> Word]
    /\ graph_seq \in 0..(SeqWrap - 1)
    /\ graph_done_seq \in 0..(SeqWrap - 1)
    /\ rp1_state \in {"READY", "RUNNING"} \cup Terminal
    /\ error \in ErrorRec
    /\ cq_used \in 0..(CqSize + 1)

\* ... the position of the scanner, ...
ScanType ==
    /\ pc \in Scan \cup {"idle", "validate", "reject", "quiesce", "publish_state",
                        "publish_done"}
    /\ idx \in Nat \ {0}
    /\ progress \in BOOLEAN /\ cq_blocked \in BOOLEAN
    /\ result \in {0, -1, -2}
    /\ accepted_seq \in 0..(SeqWrap - 1)

\* ... the per-graph store, ...
StoreType ==
    /\ node_status \in [NodeIdx -> Status]
    /\ barriers \in [Bucket -> Word]
    /\ loop_iters \in [LoopId -> 0..(IterWrap - 1)]
    /\ inflight \in Seq(Entry) /\ Len(inflight) <= MaxInflight

\* ... and the fabric.
FabricType ==
    /\ active_image \in ImageIds \cup {0}
    /\ kernel \in [Bases -> {"idle", "running", "done"}]
    /\ evidence \in [NodeIdx -> 0..EvidenceCap]

\* The shape of every variable; in particular the in-flight table never grows
\* past RP1_MAX_INFLIGHT, every entry names a bucket that exists, and the CQ is never
\* written past its end.
TypeOK == WindowType /\ ScanType /\ StoreType /\ FabricType

\* A DISPATCHED packet always has a finite in-flight entry, so check_inflight()
\* polls it: the swap in remove_inflight() and the re-arming of bodies never
\* leave the scanner waiting for a kernel that nobody looks at.
DispatchedTracked ==
    pc \in Scan => \A i \in NodeIdx : node_status[i] = "DISPATCHED" =>
        \E k \in 1..Len(inflight) : inflight[k].node = i /\ ~inflight[k].infinite

Publishing == pc \in {"publish_state", "publish_done"}

\* rp1_loop() returns 0 only at a fixpoint: no packet is in flight or parked, and
\* none whose await mask is satisfied is left PENDING.  A pass held back by a full
\* CQ is not mistaken for one that had nothing to do.
CompletionIsFixpoint ==
    Publishing /\ result = 0 =>
        \A i \in 1..Count : /\ node_status[i] \notin {"DISPATCHED", "WAITING"}
                            /\ ~Ready(i)

\* An error state is always explained: rp1_run() publishes ERROR only with a base
\* code in rp1_error_code.
ErrorExplained == rp1_state = "ERROR" => error.code # "none"

\* No packet that Rp1Submitter's validateImage() lets through is rejected by the
\* firmware's validate_nodes(): the two hand-written validators agree.
HostCheckSuffices == ValidatingHost => error.code # "INVALID_NODE"

\* The graph on the board has no LOOP, COND or RERUN, and has passed validation.
StraightLine ==
    /\ pc \in Scan \cup {"quiesce"} \/ (Publishing /\ error.code \notin {"INVALID_NODE",
                                                                      "INVALID_CONFIG"})
    /\ \A i \in 1..Count : nodes[i].op \notin ControlOps

\* The record of packet i is missing and the host is to blame: the graph is failing
\* or halted, with an error latched, and the cursor may have left the ring between
\* the two looks at it.
RecordRefused(i) ==
    /\ StrayHost
    /\ pc \notin Scan /\ result # 0 /\ error.code # "none"
    /\ node_status[i] \in Finished
    /\ evidence[i] = 0

\* Completion evidence is exact: a finished non-SILENT packet has one CQ record, any
\* other packet none.  CQ back-pressure, the fatal exit and quiesce_inflight()
\* neither lose a record nor write a second one.  The one exception is a record that
\* write_cq_entry() refuses after the packet has finished, because the host's cursor
\* left the ring after the caller's check: that graph stops at once, with an error
\* latched.  (An INFINITE packet is DONE at launch and may time out later, with a record
\* for each.)
EvidenceExact ==
    StraightLine => \A i \in 1..Count : "INFINITE" \notin nodes[i].flags =>
        IF node_status[i] \in Finished /\ "SILENT" \notin nodes[i].flags
        THEN evidence[i] = 1 \/ RecordRefused(i)
        ELSE evidence[i] = 0

\* Packet j has let its dependents go: it is done, or it failed without
\* HALT_ON_ERROR, or it failed after it was released at launch.
Released(j) ==
    \/ node_status[j] = "DONE"
    \/ node_status[j] = "ERROR" /\ ("HALT_ON_ERROR" \notin nodes[j].flags
                                    \/ "INFINITE" \in nodes[j].flags)

\* Dependency order: a packet has left PENDING only if each bit it awaits was set by
\* a packet that had let its dependents go; a HALT_ON_ERROR failure releases nobody.
DependencyOrder ==
    StraightLine => \A i \in 1..Count : node_status[i] # "PENDING" =>
        \A bit \in nodes[i].await_mask : \E j \in 1..Count :
            /\ nodes[j].set_bucket = nodes[i].await_bucket
            /\ bit \in nodes[j].set_mask
            /\ Released(j)

\* No two packets of the graph dispatch the same kernel.
DistinctKernels ==
    \A i, j \in {k \in 1..Count : nodes[k].op = "KERNEL_DISPATCH"} :
        nodes[i].base = nodes[j].base => i = j

\* ap_done is clear-on-read: it is consumed only in the step that retires the entry.
\* So a kernel that is still tracked is either running or shows its completion.  The
\* one exception is an entry kept by a refused record: its completion is in the status
\* of its packet, and the graph is already failing.  (For graphs whose packets name
\* different kernels.)
NoLostCompletion ==
    StraightLine /\ DistinctKernels =>
        \A k \in 1..Len(inflight) :
            \/ kernel[inflight[k].base] # "idle"
            \/ /\ node_status[inflight[k].node] = "DONE" /\ ~inflight[k].infinite
               /\ RecordRefused(inflight[k].node)

\* The first error of a graph keeps its code and node, and a recovery flag once set
\* stays, until the next graph is accepted.
FirstErrorWins ==
    [][pc # "idle" /\ error.code # "none" =>
          /\ error'.code = error.code /\ error'.node = error.node
          /\ error.recovery => error'.recovery]_vars

\* After a fatal exit nothing starts, for ever: quiesce_inflight() and the reset-only
\* terminal states raise no barrier and launch no kernel, and the only packets that still
\* change are those in flight, which end.
FatalStopsWork ==
    [][pc = "quiesce" \/ rp1_state \in Terminal =>
          /\ barriers' = barriers
          /\ \A i \in NodeIdx : node_status'[i] # node_status[i] =>
                /\ node_status'[i] \in Finished
                /\ \E k \in 1..Len(inflight) : inflight[k].node = i
          /\ \A b \in Bases : kernel'[b] = "running" => kernel[b] = "running"]_vars

\* Every submitted graph ends: completes, fails or halts, even if no kernel ever
\* finishes and the CQ is smaller than the graph, under a host whose cursor is
\* from some time on inside the ring.
GraphEnds ==
    <>[](cq_used <= CqSize) =>
        ((graph_seq # graph_done_seq) ~> (graph_seq = graph_done_seq))
===============================================================================

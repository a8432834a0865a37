------------------------------ MODULE Rp1Packets ------------------------------
(***************************************************************************)
(* The packet vocabulary of the RP1 graph protocol (rp1_protocol.h), the   *)
(* condition evaluator of the firmware and the two packet validators: the  *)
(* firmware's validate_nodes() and the host's validateImage().             *)
(*                                                                         *)
(* A machine word is the set of its bit positions.  OR and AND are then    *)
(* union and intersection, a barrier mask is a word, and NumOf / WordOf    *)
(* convert to and from the unsigned number where the code does arithmetic  *)
(* (WordOf truncates, which is the wrap of uint32_t).                      *)
(*                                                                         *)
(* Node indices are 1-based here and 0-based in the code.                  *)
(***************************************************************************)
EXTENDS Integers, Sequences, FiniteSets, FiniteSetsExt

CONSTANTS
    WordBits,       \* width of a signal word and of a barrier mask (32)
    MaxNodes,       \* RP1_MAX_NODES
    MaxBuckets,     \* RP1_MAX_BUCKETS
    MaxSignals,     \* RP1_MAX_SIGNALS
    MaxLoops,       \* RP1_MAX_LOOPS
    ArgAvailable    \* bytes from the argument base to the end of the window

ASSUME PacketAssumption ==
    /\ WordBits \in Nat
    /\ MaxNodes \in Nat \ {0}
    /\ MaxBuckets \in Nat \ {0}
    /\ MaxSignals \in Nat
    /\ MaxLoops \in Nat
    /\ ArgAvailable \in Nat

BitIdx  == 0..(WordBits - 1)
Word    == SUBSET BitIdx
NodeIdx == 1..MaxNodes
Bucket  == 0..(MaxBuckets - 1)
Slot    == 0..(MaxSignals - 1)
LoopId  == 0..(MaxLoops - 1)

\* The word a uint32_t store of n leaves behind, and the number a word denotes.
WordOf(n) == {k \in BitIdx : (n \div 2^k) % 2 = 1}
NumOf(w)  == MapThenSumSet(LAMBDA k : 2^k, w)

\* rp1_opcode_t, split by how the scanner treats the opcode.
Immediates == {"NOP", "SIGNAL", "SCALAR_WRITE", "SCALAR_READ", "SCALAR_COPY",
               "DMA_COPY", "DMA_FILL"}
ControlOps == {"LOOP", "COND", "RERUN"}
Opcodes    == Immediates \cup ControlOps
                \cup {"KERNEL_DISPATCH", "PDI_LOAD", "WAIT", "HALT"}

Flags  == {"HALT_ON_ERROR", "SILENT", "INFINITE"}
CondOp == {"EQ", "NE", "LT", "GE", "AND_NZ", "AND_Z"}
SigOp  == {"SET", "ADD", "OR", "AND"}

\* compare(): the one condition evaluator of WAIT, LOOP and COND.
Compare(sig, op, val) ==
    CASE op = "EQ"     -> sig = val
      [] op = "NE"     -> sig # val
      [] op = "LT"     -> NumOf(sig) < NumOf(val)
      [] op = "GE"     -> NumOf(sig) >= NumOf(val)
      [] op = "AND_NZ" -> sig \cap val # {}
      [] op = "AND_Z"  -> sig \cap val = {}
      [] OTHER         -> FALSE

\* The SIGNAL opcode's read-modify-write of a slot.
ApplySignal(old, op, val) ==
    CASE op = "SET" -> val
      [] op = "ADD" -> WordOf(NumOf(old) + NumOf(val))
      [] op = "OR"  -> old \cup val
      [] op = "AND" -> old \cap val
      [] OTHER      -> old

ValidSlot(s) == s < MaxSignals

(***************************************************************************)
(* validate_nodes(), one packet: the error detail, or "none".  The header  *)
(* is judged before the payload, and a bad signal slot before the rest of  *)
(* a control packet's ranges.                                              *)
(***************************************************************************)
NodeFault(n, count) ==
    IF n.await_bucket >= MaxBuckets \/ n.set_bucket >= MaxBuckets
    THEN "BAD_BARRIER"
    ELSE CASE n.op \in {"NOP", "SCALAR_WRITE", "DMA_COPY", "DMA_FILL", "HALT"} ->
                "none"
           [] n.op = "SIGNAL" ->
                IF ~ValidSlot(n.slot) THEN "BAD_SIGNAL_SLOT"
                ELSE IF n.operation \notin SigOp THEN "BAD_OPERATION" ELSE "none"
           [] n.op = "WAIT" ->
                IF ~ValidSlot(n.signal) THEN "BAD_SIGNAL_SLOT"
                ELSE IF n.cond_op \notin CondOp THEN "BAD_OPERATION" ELSE "none"
           [] n.op \in {"SCALAR_READ", "SCALAR_COPY"} ->
                IF ValidSlot(n.slot) THEN "none" ELSE "BAD_SIGNAL_SLOT"
           [] n.op = "KERNEL_DISPATCH" ->
                IF /\ n.base # 0
                   /\ n.arg_offset % 8 = 0
                   /\ n.arg_offset <= ArgAvailable
                   /\ 8 * n.arg_count <= ArgAvailable - n.arg_offset
                THEN "none" ELSE "BAD_ARGUMENTS"
           [] n.op = "PDI_LOAD" ->
                IF "SILENT" \in n.flags THEN "PDI_WITHOUT_CQ" ELSE "none"
           [] n.op = "LOOP" ->
                IF ~ValidSlot(n.signal) THEN "BAD_SIGNAL_SLOT"
                ELSE IF /\ n.cond_op \in CondOp
                        /\ n.loop_id < MaxLoops
                        /\ n.body_start <= n.body_end /\ n.body_end <= count
                        /\ n.clear_start <= n.clear_end /\ n.clear_end < MaxBuckets
                THEN "none" ELSE "BAD_LOOP_CONFIG"
           [] n.op = "COND" ->
                IF ~ValidSlot(n.signal) THEN "BAD_SIGNAL_SLOT"
                ELSE IF /\ n.cond_op \in CondOp
                        /\ n.done_bucket < MaxBuckets
                        /\ n.body_start > n.body_end \/ n.body_end <= count
                        /\ n.clear_start > n.clear_end \/ n.clear_end < MaxBuckets
                THEN "none" ELSE "BAD_LOOP_CONFIG"
           [] n.op = "RERUN" ->
                IF n.target <= count /\ (n.clear_state => n.loop_id < MaxLoops)
                THEN "none" ELSE "BAD_TARGET"
           [] OTHER -> "BAD_OPERATION"

\* validate_nodes() over a whole graph: the packets it would reject.
BadNodes(nodes) == {i \in 1..Len(nodes) : NodeFault(nodes[i], Len(nodes)) # "none"}

\* Mutant: the host does not look at the slot of a SIGNAL.
HostSignalUnchecked(n) == n.operation \in SigOp

HostSignal(n) == ValidSlot(n.slot) /\ n.operation \in SigOp

(***************************************************************************)
(* validateImage() on the host, one packet.  argBytes is the size of the   *)
(* image's own argument buffer, not the window's.                          *)
(***************************************************************************)
HostAccepts(n, count, argBytes) ==
    /\ n.await_bucket < MaxBuckets /\ n.set_bucket < MaxBuckets
    /\ n.op \in Opcodes
    /\ n.op = "SIGNAL" => HostSignal(n)
    /\ n.op = "WAIT" => ValidSlot(n.signal) /\ n.cond_op \in CondOp
    /\ n.op \in {"SCALAR_READ", "SCALAR_COPY"} => ValidSlot(n.slot)
    /\ n.op = "KERNEL_DISPATCH" =>
          /\ n.base # 0
          /\ n.arg_offset % 8 = 0
          /\ n.arg_offset + 8 * n.arg_count <= argBytes
    /\ n.op = "PDI_LOAD" => "SILENT" \notin n.flags
    /\ n.op = "LOOP" =>
          /\ ValidSlot(n.signal) /\ n.cond_op \in CondOp /\ n.loop_id < MaxLoops
          /\ n.body_start <= n.body_end /\ n.body_end <= count
          /\ n.clear_start <= n.clear_end /\ n.clear_end < MaxBuckets
    /\ n.op = "COND" =>
          /\ ValidSlot(n.signal) /\ n.cond_op \in CondOp
          /\ n.done_bucket < MaxBuckets
          /\ n.body_start <= n.body_end => n.body_end <= count
          /\ n.clear_start <= n.clear_end => n.clear_end < MaxBuckets
    /\ n.op = "RERUN" =>
          n.target <= count /\ (n.clear_state => n.loop_id < MaxLoops)

\* validateImage() and the size checks before it, over a whole image.
HostAcceptsImage(img) ==
    /\ Len(img.nodes) \in 1..MaxNodes
    /\ \A i \in 1..Len(img.nodes) : HostAccepts(img.nodes[i], Len(img.nodes), img.args)
    /\ img.clear \subseteq Slot

(***************************************************************************)
(* The layout of rp1_node_t: the common header, and the payload member of  *)
(* the union each opcode reads.  Index, bucket and slot fields are plain   *)
(* numbers: whether they are in range is what the validators decide.       *)
(***************************************************************************)
Condition(n) == n.signal \in Nat /\ n.value \in Word
Ranges(n)    == {n.body_start, n.body_end, n.clear_start, n.clear_end} \subseteq Nat

IsPacket(n) ==
    /\ n.flags \subseteq Flags
    /\ n.await_bucket \in Nat /\ n.set_bucket \in Nat
    /\ n.await_mask \in Word /\ n.set_mask \in Word
    /\ n.op = "SIGNAL" => n.slot \in Nat /\ n.value \in Word
    /\ n.op \in {"SCALAR_READ", "SCALAR_COPY"} => n.slot \in Nat
    /\ n.op = "WAIT" => Condition(n)
    /\ n.op = "KERNEL_DISPATCH" =>
          n.base \in Nat /\ n.arg_offset \in Nat /\ n.arg_count \in Nat /\ n.image \in Nat
    /\ n.op = "PDI_LOAD" => n.image \in Nat
    /\ n.op = "LOOP" => Condition(n) /\ Ranges(n) /\ n.max \in Nat /\ n.loop_id \in Nat
    /\ n.op = "COND" => /\ Condition(n) /\ Ranges(n)
                        /\ n.done_bucket \in Nat /\ n.done_mask \in Word
    /\ n.op = "RERUN" => n.target \in Nat \ {0} /\ n.loop_id \in Nat
                           /\ n.clear_state \in BOOLEAN
===============================================================================

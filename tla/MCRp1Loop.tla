------------------------------- MODULE MCRp1Loop -------------------------------
(***************************************************************************)
(* Small graph images for model checking Rp1Loop.                          *)
(***************************************************************************)
EXTENDS Rp1Loop, TLC

Packet(op, flags, await, set) ==
    [op |-> op, flags |-> flags, await_bucket |-> await[1], await_mask |-> await[2],
     set_bucket |-> set[1], set_mask |-> set[2]]

Kernel(b, image, flags, await, set) ==
    Packet("KERNEL_DISPATCH", flags, await, set)
        @@ [base |-> b, arg_offset |-> 0, arg_count |-> 1, image |-> image]
Pdi(image, flags, await, set) == Packet("PDI_LOAD", flags, await, set) @@ [image |-> image]
Signal(slot, operation, value, await, set) ==
    Packet("SIGNAL", {}, await, set)
        @@ [slot |-> slot, operation |-> operation, value |-> value]
Wait(slot, op, value, flags, await, set) ==
    Packet("WAIT", flags, await, set) @@ [signal |-> slot, cond_op |-> op, value |-> value]
Nop(flags, await, set) == Packet("NOP", flags, await, set)
Rerun(target, await, set) ==
    Packet("RERUN", {}, await, set) @@ [target |-> target, clear_state |-> TRUE, loop_id |-> 0]
Read(slot, await, set) == Packet("SCALAR_READ", {}, await, set) @@ [slot |-> slot]

Image(ns) == [nodes |-> ns, clear |-> {0}, args |-> 8]
Free      == <<0, {}>>
Bit(k)    == <<0, {k}>>

\* Two kernels, one fatal on timeout and one not, a silent join and a sentinel.
Diamond == Image(<<
    Kernel(1, 0, {"HALT_ON_ERROR"}, Free, Bit(0)),
    Kernel(2, 0, {}, Free, Bit(1)),
    Nop({"SILENT"}, <<0, {0, 1}>>, <<1, {0}>>),
    Signal(0, "ADD", {0}, <<1, {0}>>, Bit(2))>>)

\* A reconfiguration that may fail, a guarded dispatch of the image it installs and
\* one of another image, and a join that halts the queue.
Reconfigure == Image(<<
    Pdi(1, {}, Free, Bit(0)),
    Kernel(1, 1, {"HALT_ON_ERROR"}, Bit(0), Bit(1)),
    Kernel(2, 2, {}, Bit(0), Bit(2)),
    Packet("HALT", {}, <<0, {1, 2}>>, Free)>>)

\* A fatal reconfiguration, or a halt, beside a kernel in flight.
FatalReconfigure == Image(<<
    Kernel(1, 0, {}, Free, Bit(0)),
    Pdi(2, {"HALT_ON_ERROR"}, Free, Bit(1)),
    Packet("HALT", {}, Bit(1), Free)>>)

\* A free-running kernel and a finite one behind it.
Streaming == Image(<<
    Kernel(1, 0, {"INFINITE"}, Free, Bit(0)),
    Kernel(2, 0, {"HALT_ON_ERROR"}, Bit(0), Bit(1)),
    Nop({}, Bit(1), Bit(2))>>)

\* One kernel more than the in-flight table holds.
Wide == Image(<<
    Kernel(1, 0, {}, Free, Bit(0)),
    Kernel(2, 0, {"SILENT"}, Free, Bit(1)),
    Kernel(3, 0, {}, Free, Bit(2))>>)

\* Two waits for signals of the fabric and of a peer, one behind the other.
Waiting == Image(<<
    Read(0, Free, Bit(0)),
    Wait(0, "GE", {0}, {}, Bit(0), Bit(1)),
    Wait(1, "NE", {}, {"SILENT"}, Free, Bit(2)),
    Nop({}, <<0, {1, 2}>>, Bit(3))>>)

\* A kernel re-armed while it is in flight, and once more when it is done.
Again == Image(<<
    Kernel(1, 0, {}, Free, Bit(0)),
    Rerun(1, Free, Bit(1)),
    Rerun(1, Bit(0), Bit(2))>>)

\* Images that validate_nodes() or rp1_store_init() must refuse.
BadSlot  == Image(<<Nop({}, Free, Bit(0)), Signal(9, "SET", {}, Bit(0), Free)>>)
BadFlags == Image(<<Pdi(1, {"SILENT"}, Free, Bit(0))>>)
Empty    == Image(<<>>)

StraightImages == {Diamond, Reconfigure, FatalReconfigure, Streaming, Wide, Waiting,
                   Again, BadSlot, BadFlags, Empty}
FaultImages    == {FatalReconfigure, Streaming, Waiting, BadSlot}
PeerSlots      == {<<0, {0}>>, <<1, {0}>>}
Words          == {{}, {0}}
===============================================================================

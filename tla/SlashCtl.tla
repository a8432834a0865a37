------------------------------ MODULE SlashCtl ------------------------------
(***************************************************************************)
(* The control function of the kernel module (slash_ctldev.c) and the BAR  *)
(* exporters it owns (slash_dmabuf.c): PF2.                                *)
(*                                                                         *)
(* ctls[i] is struct slash_ctldev of the i-th probe.  Its bars give, for   *)
(* every active MMIO BAR, the dma-buf: "held" is the driver's reference,   *)
(* "fds" the descriptors given out, "vmas" the mappings, which hold the    *)
(* dma-buf's file.  "pdev" counts the references on struct pci_dev: the    *)
(* binding's and one of every dma-buf.                                     *)
(***************************************************************************)
EXTENDS SlashBoard

CONSTANTS
    Bars,          \* the active MMIO BARs of PF2
    MaxCtlProbes,  \* bound: probes of PF2
    MaxCtlOpens,   \* bound: open files of one node
    MaxBarFds      \* bound: descriptors, and mappings, of one BAR

ASSUME CtlAssumption ==
    /\ IsFiniteSet(Bars)
    /\ \A n \in {MaxCtlProbes, MaxCtlOpens, MaxBarFds} : n \in Nat

VARIABLE ctls

CtlInit == ctls = <<>>

\* slash_pcie_probe and slash_ctldev_create: the BARs are exported, each export taking a reference
\* on the PCI device, then the node is published under the board's number.
\* A failure undoes what was done.
CtlProbe(b) ==
    /\ Len(ctls) < MaxCtlProbes
    /\ LET got == BoardGet(b, ControlPf)
       IN  /\ ~got.err
           /\ slots' = got.slots
           /\ ctls' = Append(ctls,
                 [board |-> b, slot |-> got.number, dead |-> FALSE, cdev |-> TRUE,
                  ref |-> 1, opens |-> 0, bound |-> TRUE, pdev |-> 1 + Cardinality(Bars),
                  bars |-> [r \in Bars |-> [ref |-> 1, held |-> TRUE, fds |-> 0, vmas |-> 0]]])

\* A step before slash_chrdev_board_get fails, the board slot is refused, or the
\* node cannot be registered and the slot is given back.
CtlProbeFails(b) ==
    /\ slots' \in {slots, GivenBack(b, ControlPf)}
    /\ UNCHANGED ctls

----------------------------------------------------------------------------
(* slash_ctldev_destroy, in the parts the lock separates. *)

\* The device is marked dead, under its lock.
MarkDead(i) ==
    /\ ~ctls[i].dead
    /\ ctls' = [ctls EXCEPT ![i].dead = TRUE]
    /\ UNCHANGED slots

\* The node and the board slot go.
CtlUnpublish(i) ==
    /\ ctls' = [ctls EXCEPT ![i].cdev = FALSE, ![i].slot = 0]
    /\ slots' = BoardPut(ctls[i].board, ControlPf)

\* One more reference on a dma-buf (get_dma_buf, the mapping's file).
TakeBar(i, r, after) ==
    LET bar == [after EXCEPT !.ref = @ + 1]
    IN  ctls' = [ctls EXCEPT ![i].bars[r] = bar]

\* One reference of a dma-buf goes (dma_buf_put, close, munmap); the last one
\* runs slash_bar_dmabuf_release, which gives back the PCI device.
PutBar(i, r, after) ==
    LET bar == [after EXCEPT !.ref = @ - 1]
    IN  ctls' = [ctls EXCEPT ![i].bars[r] = bar,
                             ![i].pdev = IF ctls[i].bars[r].ref = 1 THEN @ - 1 ELSE @]

\* slash_ctldev_destroy_dmabufs: the driver's reference on every BAR.
DropBar(bar) == [bar EXCEPT !.ref = @ - 1, !.held = FALSE]

DestroyDmabufs(i) ==
    /\ ctls' = [ctls EXCEPT
          ![i].bars = [r \in Bars |-> DropBar(ctls[i].bars[r])],
          ![i].pdev = @ - Cardinality({r \in Bars : ctls[i].bars[r].ref = 1})]
    /\ UNCHANGED slots

\* slash_pcie_remove, the end: the binding's references.
CtlUnbind(i) ==
    /\ ctls' = [ctls EXCEPT ![i].bound = FALSE, ![i].ref = @ - 1, ![i].pdev = @ - 1]
    /\ UNCHANGED slots

----------------------------------------------------------------------------
(* Files. *)

\* slash_ctldev_fop_open.
OpenCtl(i) ==
    /\ ctls[i].cdev
    /\ ~ctls[i].dead
    /\ ctls[i].opens < MaxCtlOpens
    /\ ctls' = [ctls EXCEPT ![i].ref = @ + 1, ![i].opens = @ + 1]
    /\ UNCHANGED slots

\* slash_ctldev_fop_release.
CloseCtl(i) ==
    /\ ctls[i].opens > 0
    /\ ctls' = [ctls EXCEPT ![i].ref = @ - 1, ![i].opens = @ - 1]
    /\ UNCHANGED slots

\* slash_ctldev_ioctl_get_bar_fd: get_dma_buf, then dma_buf_fd; a failing
\* descriptor gives the reference back.  -ENODEV once the device is dead: the
\* pointers in bars[] are not cleared when the driver drops its references.
GetBarFd(i, r) ==
    /\ ctls[i].opens > 0
    /\ ~ctls[i].dead
    /\ ctls[i].bars[r].fds < MaxBarFds
    /\ TakeBar(i, r, [ctls[i].bars[r] EXCEPT !.fds = @ + 1])
    /\ UNCHANGED slots

CloseBarFd(i, r) ==
    /\ ctls[i].bars[r].fds > 0
    /\ PutBar(i, r, [ctls[i].bars[r] EXCEPT !.fds = @ - 1])
    /\ UNCHANGED slots

\* slash_bar_dmabuf_mmap: the mapping holds the dma-buf's file.
MmapBar(i, r) ==
    /\ ctls[i].bars[r].fds > 0
    /\ ctls[i].bars[r].vmas < MaxBarFds
    /\ TakeBar(i, r, [ctls[i].bars[r] EXCEPT !.vmas = @ + 1])
    /\ UNCHANGED slots

MunmapBar(i, r) ==
    /\ ctls[i].bars[r].vmas > 0
    /\ PutBar(i, r, [ctls[i].bars[r] EXCEPT !.vmas = @ - 1])
    /\ UNCHANGED slots
=============================================================================

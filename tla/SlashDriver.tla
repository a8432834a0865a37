----------------------------- MODULE SlashDriver -----------------------------
(***************************************************************************)
(* The kernel module as a whole: the two PCI functions of every board      *)
(* (SlashQdma, SlashCtl), the hotplug node (slash_hotplug.c) and the       *)
(* module's own life (slash_main.c), with the PCI core as they use it.     *)
(*                                                                         *)
(*   bus[f]  a function <<board, pf>> is absent, present without a driver, *)
(*           or bound.                                                     *)
(*   pci     the holder of pci_lock_rescan_remove, or the module loader:   *)
(*           what it does, the functions it has still to probe, and the    *)
(*           function it is unbinding.  Probes and removes of one          *)
(*           function exclude each other; files, transfers and mappings    *)
(*           go on meanwhile.                                              *)
(***************************************************************************)
EXTENDS SlashQdma, SlashCtl

CONSTANTS
    Workloads      \* machines and what user space does on them

\* A workload: the PCI functions of the machine, the dir_mask values queue
\* pairs are asked for, whether the QDMA control node is opened, whether
\* buffers are created, the directions transfers take, and the bound on load,
\* unload and hotplug operations.
IsWorkload(w) ==
    /\ w.functions \subseteq Boards \X Pfs
    /\ w.masks \subseteq (SUBSET QueueTypes) \ {{}}
    /\ w.qdma \in BOOLEAN
    /\ w.buffers \in BOOLEAN
    /\ w.directions \subseteq {"h2c", "c2h"}
    /\ w.ops \in Nat

ASSUME DriverAssumption == \A w \in Workloads : IsWorkload(w)

VARIABLES bus, pci, loaded, work

driverVars == <<slots, qdev, entries, qfds, bufs, xfers, ctls, bus, pci, loaded, work>>

Functions == work.functions

\* No function: what pci.f holds when nothing is being unbound.
NoFunction == <<>>

IdlePci == [op |-> "idle", todo |-> {}, f |-> NoFunction, step |-> 0, left |-> work.ops]

Init ==
    /\ work \in Workloads
    /\ slots = <<>>
    /\ QdmaInit
    /\ CtlInit
    /\ bus = [f \in Functions |-> "present"]
    /\ pci = IdlePci
    /\ loaded = FALSE

----------------------------------------------------------------------------
(* The PCI operations. *)

Begin(op, todo, f) ==
    /\ pci.op = "idle"
    /\ pci.left > 0
    /\ pci' = [op |-> op, todo |-> todo, f |-> f, step |-> 0, left |-> pci.left - 1]
    /\ UNCHANGED <<slots, qdmaVars, ctls, bus, loaded>>

\* slash_init: the character devices and the hotplug node, then the PF1 driver,
\* then the PF2 driver; registering a driver probes the functions present.
Load ==
    /\ ~loaded
    /\ Begin("load", {f \in Functions : bus[f] = "present"}, NoFunction)

\* A file of the module is open, or mapped: the module cannot be unloaded.
InUse ==
    \/ \E i \in DOMAIN qdev : qdev[i].opens > 0
    \/ \E f \in Fds : qfds[f].open
    \/ \E b \in DOMAIN bufs : bufs[b].ref > 0
    \/ \E i \in DOMAIN ctls : \/ ctls[i].opens > 0
                              \/ \E r \in Bars : ctls[i].bars[r].fds + ctls[i].bars[r].vmas > 0

\* slash_exit: the PF2 driver, the PF1 driver, the nodes.
Unload ==
    /\ loaded
    /\ ~InUse
    /\ Begin("unload", {f \in Functions : bus[f] = "bound"}, NoFunction)

\* SLASH_HOTPLUG_IOCTL_RESCAN: slash_hotplug_handle_rescan.
Rescan ==
    /\ loaded
    /\ Begin("rescan", {f \in Functions : bus[f] = "absent"}, NoFunction)

\* SLASH_HOTPLUG_IOCTL_REMOVE: slash_hotplug_handle_remove of a function the
\* lookup found.
Remove(f) ==
    /\ loaded
    /\ bus[f] # "absent"
    /\ Begin("remove", {}, f)

\* SLASH_HOTPLUG_IOCTL_HOTPLUG: slash_hotplug_handle_hotplug; the bus rescan
\* that follows the removal is left in todo when the removal ends.
Hotplug(f) ==
    /\ loaded
    /\ bus[f] # "absent"
    /\ Begin("hotplug", {}, f)

\* The PF1 driver is registered first.
ProbeNext(f) ==
    /\ pci.f = NoFunction
    /\ pci.op \in {"load", "rescan", "hotplug"}
    /\ f \in pci.todo
    /\ pci.op = "load" /\ f[2] = ControlPf => \A g \in pci.todo : g[2] = ControlPf

\* pci_rescan_bus or pci_register_driver reaches a function: slash_qdma_probe
\* or slash_pcie_probe binds it.
Bind(f) ==
    /\ ProbeNext(f)
    /\ \/ f[2] = QdmaPf /\ QdmaProbe(f[1]) /\ UNCHANGED ctls
       \/ f[2] = ControlPf /\ CtlProbe(f[1]) /\ UNCHANGED qdmaVars
    /\ bus' = [bus EXCEPT ![f] = "bound"]
    /\ pci' = [pci EXCEPT !.todo = @ \ {f}]
    /\ UNCHANGED loaded

\* The probe fails: the function stays without a driver.
BindFails(f) ==
    /\ ProbeNext(f)
    /\ \/ f[2] = QdmaPf /\ QdmaProbeFails(f[1]) /\ UNCHANGED ctls
       \/ f[2] = ControlPf /\ CtlProbeFails(f[1]) /\ UNCHANGED qdmaVars
    /\ bus' = [bus EXCEPT ![f] = "present"]
    /\ pci' = [pci EXCEPT !.todo = @ \ {f}]
    /\ UNCHANGED loaded

\* The rescan does not find the function.
NotFound(f) ==
    /\ ProbeNext(f)
    /\ pci.op # "load"
    /\ pci' = [pci EXCEPT !.todo = @ \ {f}]
    /\ UNCHANGED <<slots, qdmaVars, ctls, bus, loaded>>

\* pci_unregister_driver takes the next bound function, PF2 first.
UnloadNext(f) ==
    /\ pci.op = "unload"
    /\ pci.f = NoFunction
    /\ f \in pci.todo
    /\ f[2] = QdmaPf => \A g \in pci.todo : g[2] = QdmaPf
    /\ pci' = [pci EXCEPT !.f = f, !.todo = @ \ {f}]
    /\ UNCHANGED <<slots, qdmaVars, ctls, bus, loaded>>

\* The instance bound to a function.
QdmaOf(b) == CHOOSE i \in DOMAIN qdev : qdev[i].bound /\ qdev[i].board = b

CtlOf(b) == CHOOSE i \in DOMAIN ctls : ctls[i].bound /\ ctls[i].board = b

\* slash_qdma_remove and slash_pcie_remove, in the four parts of each.
UnbindStep ==
    /\ pci.f # NoFunction
    /\ bus[pci.f] = "bound"
    /\ pci.step < 4
    /\ \/ /\ pci.f[2] = QdmaPf
          /\ LET i == QdmaOf(pci.f[1])
             IN  CASE pci.step = 0 -> ShutDown(i)
                   [] pci.step = 1 -> Unpublish(i)
                   [] pci.step = 2 -> TearDown(i)
                   [] OTHER -> Unbind(i)
          /\ UNCHANGED ctls
       \/ /\ pci.f[2] = ControlPf
          /\ LET i == CtlOf(pci.f[1])
             IN  CASE pci.step = 0 -> MarkDead(i)
                   [] pci.step = 1 -> CtlUnpublish(i)
                   [] pci.step = 2 -> DestroyDmabufs(i)
                   [] OTHER -> CtlUnbind(i)
          /\ UNCHANGED qdmaVars
    /\ pci' = [pci EXCEPT !.step = @ + 1]
    /\ UNCHANGED <<bus, loaded>>

\* The function is unbound: it leaves the bus, unless the module is being
\* unloaded; after the removal of HOTPLUG its bus is rescanned.
Unbound ==
    /\ pci.f # NoFunction
    /\ bus[pci.f] = "bound" => pci.step = 4
    /\ bus' = [bus EXCEPT ![pci.f] = IF pci.op = "unload" THEN "present" ELSE "absent"]
    /\ pci' = [pci EXCEPT
          !.f = NoFunction, !.step = 0,
          !.todo = IF pci.op = "hotplug"
                   THEN {g \in Functions : g[1] = pci.f[1] /\ (g = pci.f \/ bus[g] = "absent")}
                   ELSE @]
    /\ UNCHANGED <<slots, qdmaVars, ctls, loaded>>

\* The operation ends; slash_chrdev_exit frees the board slots.
EndPci ==
    /\ pci.op # "idle"
    /\ pci.f = NoFunction
    /\ pci.todo = {}
    /\ slots' = IF pci.op = "unload" THEN <<>> ELSE slots
    /\ loaded' = (pci.op # "unload")
    /\ pci' = [IdlePci EXCEPT !.left = pci.left]
    /\ UNCHANGED <<qdmaVars, ctls, bus>>

PciStep ==
    \/ \E f \in Functions : Bind(f) \/ BindFails(f) \/ NotFound(f) \/ UnloadNext(f)
    \/ UnbindStep
    \/ Unbound
    \/ EndPci

----------------------------------------------------------------------------
(* User space. *)

\* chrdev_open takes the module first, and fails while it is being unloaded.
CanOpen == pci.op # "unload"

KeepBus == UNCHANGED <<bus, pci, loaded, work>>

QdmaFiles ==
    /\ \E i \in DOMAIN qdev :
          \/ CanOpen /\ work.qdma /\ OpenControl(i)
          \/ CloseControl(i)
          \/ \E mask \in work.masks : QpairAdd(i, mask) \/ QpairAddFails(i, mask)
          \/ \E q \in Qids : QpairStart(i, q) \/ QpairStop(i, q) \/ QpairDel(i, q)
          \/ \E f \in Fds, qs \in UNION {[1..n -> Qids] : n \in 1..FdMaxQpairs} : GetFd(i, f, qs)
          \/ work.buffers /\ BufCreate(i)
    /\ UNCHANGED ctls
    /\ KeepBus

BufferFiles ==
    /\ \/ \E f \in Fds : ReleaseFd(f)
       \/ \E b \in DOMAIN bufs : BufMmap(b) \/ BufVmOpen(b) \/ BufClose(b) \/ BufVmClose(b)
    /\ UNCHANGED ctls
    /\ KeepBus

Start ==
    /\ \E x \in Xfers, f \in Fds, kind \in {"ioctl", "uring"}, count \in 1..FdMaxQpairs :
          StartXfer(x, f, kind, count)
    /\ UNCHANGED ctls
    /\ KeepBus

\* The thread, io_uring and libqdma moving a transfer on.
Moves(x) ==
    /\ \/ \E k \in 1..FdMaxQpairs, t \in work.directions, b \in DOMAIN bufs :
             /\ k <= Len(qfds[xfers[x].fd].ents)
             /\ PrepXfer(x, k, t, b)
       \/ PrepFails(x)
       \/ SubmitXfer(x)
       \/ \E k \in 1..FdMaxQpairs : CompleteXfer(x, k)
       \/ FinishXfer(x)
    /\ UNCHANGED ctls
    /\ KeepBus

CtlFiles ==
    /\ \E i \in DOMAIN ctls :
          \/ CanOpen /\ OpenCtl(i)
          \/ CloseCtl(i)
          \/ \E r \in Bars : GetBarFd(i, r) \/ CloseBarFd(i, r) \/ MmapBar(i, r) \/ MunmapBar(i, r)
    /\ UNCHANGED qdmaVars
    /\ KeepBus

Step ==
    \/ Load
    \/ Unload
    \/ Rescan
    \/ \E f \in Functions : Remove(f) \/ Hotplug(f)
    \/ PciStep
    \/ QdmaFiles
    \/ BufferFiles
    \/ Start
    \/ \E x \in Xfers : xfers[x].pc # "idle" /\ Moves(x)
    \/ CtlFiles

Next == Step /\ UNCHANGED work

\* The thread in the kernel goes on, and libqdma ends every request it took.
Fairness == \A x \in Xfers : WF_driverVars(xfers[x].pc # "idle" /\ Moves(x))

Spec == Init /\ [][Next]_driverVars /\ Fairness

----------------------------------------------------------------------------
(* Properties. *)

One(p) == IF p THEN 1 ELSE 0

\* Every reference count is exactly the number of its holders, whatever order
\* files, mappings, transfers and the removal of the function come in: the
\* QDMA device (binding, control files, queue pair fds, buffers), a queue pair
\* entry (xarray, fds), a buffer (fd, mappings, prepared sub-transfers), a
\* control device (binding, files), a BAR's dma-buf (driver, fds, mappings)
\* and the PCI device (binding, dma-bufs).  So nothing is freed while it is
\* held, and everything is freed once it is not.
RefsExact ==
    /\ \A i \in DOMAIN qdev :
          qdev[i].ref = One(qdev[i].bound) + qdev[i].opens
                          + Cardinality({f \in Fds : qfds[f].open /\ qfds[f].dev = i})
                          + Cardinality({b \in DOMAIN bufs : bufs[b].ref > 0 /\ bufs[b].dev = i})
    /\ \A e \in DOMAIN entries :
          entries[e].ref =
              Cardinality({q \in Qids : qdev[entries[e].dev].qpairs[q] = e})
                + Cardinality({p \in Fds \X (1..FdMaxQpairs) :
                      p[2] \in DOMAIN qfds[p[1]].ents /\ qfds[p[1]].ents[p[2]] = e})
    /\ \A b \in DOMAIN bufs :
          bufs[b].ref = One(bufs[b].fd) + bufs[b].vmas
                          + Cardinality({p \in Xfers \X (1..FdMaxQpairs) :
                                /\ p[2] \in DOMAIN xfers[p[1]].prep
                                /\ xfers[p[1]].prep[p[2]].buf = b})
    /\ \A i \in DOMAIN ctls :
          /\ ctls[i].ref = One(ctls[i].bound) + ctls[i].opens
          /\ \A r \in Bars : LET bar == ctls[i].bars[r]
                            IN  bar.ref = One(bar.held) + bar.fds + bar.vmas
          /\ ctls[i].pdev = One(ctls[i].bound)
                               + Cardinality({r \in Bars : ctls[i].bars[r].ref > 0})

\* The states of a queue that was added and not removed.
Added == {"enabled", "online"}

\* No queue is left behind: while libqdma is open, a queue that is enabled or
\* online belongs to the entry stored under its id, which knows it, so that a
\* DEL can be repeated until all queues are gone, whichever of its removals
\* fail.  The one exception is an ADD that fails and then cannot remove a queue
\* it had added (an orphan); no orphan is ever started.
QueuesTracked ==
    \A i \in DOMAIN qdev : qdev[i].handle =>
        \A q \in Qids, t \in QueueTypes :
            qdev[i].queues[<<q, t>>] \in Added =>
                LET e == qdev[i].qpairs[q]
                IN  /\ e # 0
                    /\ t \in entries[e].dirs
                    /\ entries[e].qhndl[t] = q

\* The published nodes with the board and the minor of each.
Nodes ==
    {[board |-> qdev[i].board, pf |-> QdmaPf, number |-> qdev[i].slot] :
        i \in {j \in DOMAIN qdev : qdev[j].cdev}}
      \cup {[board |-> ctls[i].board, pf |-> ControlPf, number |-> ctls[i].slot] :
        i \in {j \in DOMAIN ctls : ctls[j].cdev}}

\* /dev/slash_qdma_ctl<N> and /dev/slash_ctl<N> are the two functions of one
\* board: through removals, rescans and failed probes in any order, published
\* nodes have the same number exactly when they are of the same board, no two
\* have one minor, and every number is one of SLASH_MAX_CARDS.
NodesMatch ==
    /\ \A m, n \in Nodes : m.board = n.board <=> m.number = n.number
    /\ \A m, n \in Nodes : Minor(m.number, m.pf) = Minor(n.number, n.pf) => m = n
    /\ \A m \in Nodes : m.number < MaxCards

\* A sub-transfer was submitted after libqdma had been closed.
SubmittedLate(x) == \E k \in DOMAIN xfers[x].prep : xfers[x].prep[k].st = "gone"

\* A transfer that was started ends, by the ioctl's return or the completion of
\* the io_uring command, also when its submission fails, its queues are stopped
\* or its device is removed under it.  The exception is a submission that comes
\* after qdma_device_close: nothing holds the removal back between the
\* preparation and the submission, and a request made of the closed handle may
\* never end.
XferEnds ==
    \A x \in Xfers : xfers[x].pc # "idle" ~> xfers[x].pc = "idle" \/ SubmittedLate(x)

\* A sub-transfer in flight is on a queue of the queue pair its fd was made
\* for.
OwnQueue ==
    \A x \in Xfers : \A k \in DOMAIN xfers[x].prep :
        LET sub == xfers[x].prep[k]
        IN  sub.st = "flight" =>
                qdev[qfds[xfers[x].fd].dev].qpairs[sub.qhndl] = sub.entry
=============================================================================

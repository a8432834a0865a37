--------------------------- MODULE SlashInvariant ----------------------------
(***************************************************************************)
(* The inductive invariant of the kernel module: the types of its tables,  *)
(* what the life of an instance says of its node and its slot, and who     *)
(* knows of which queue pair, file, buffer and transfer.                   *)
(***************************************************************************)
EXTENDS SlashDriver, Integers

------------------------------------------------------------------------------
(* Types *)

Slots == [board : Boards, pfs : SUBSET Pfs]

QueueStates == {"disabled", "enabled", "online", "orphan"}

QpairMaps == [Qids -> Nat]

QueueMaps == [Qids \X QueueTypes -> QueueStates]

Qdevs ==
    [board : Boards, slot : Nat, shutdown : BOOLEAN, handle : BOOLEAN, cdev : BOOLEAN, ref : Int,
     opens : Nat, bound : BOOLEAN, qpairs : QpairMaps, queues : QueueMaps]

Entries == [dev : Nat, ref : Int, dirs : SUBSET QueueTypes, qhndl : [QueueTypes -> 0..MaxQpairs]]

Files == [open : BOOLEAN, dev : Nat, ents : Seq(Nat)]

Buffers == [dev : Nat, ref : Int, fd : BOOLEAN, vmas : Nat]

Subs ==
    [entry : Nat, type : QueueTypes, buf : Nat, qhndl : 0..MaxQpairs,
     st : {"ready", "flight", "ended", "gone"}]

Preps == Seq(Subs)

Pcs == {"idle", "prep", "submit", "wait"}

Transfers ==
    [pc : Pcs, kind : {"ioctl", "uring"}, fd : Fds \cup {NoFd},
     count : 0..FdMaxQpairs, prep : Preps, outstanding : Int]

BarStates == [ref : Int, held : BOOLEAN, fds : Nat, vmas : Nat]

Ctls ==
    [board : Boards, slot : Nat, dead : BOOLEAN, cdev : BOOLEAN, ref : Int, opens : Nat,
     bound : BOOLEAN, pdev : Int, bars : [Bars -> BarStates]]

PciOps == {"idle", "load", "unload", "rescan", "remove", "hotplug"}

TypeInv ==
    /\ slots \in Seq(Slots)
    /\ qdev \in Seq(Qdevs) /\ entries \in Seq(Entries) /\ qfds \in [Fds -> Files]
    /\ bufs \in Seq(Buffers) /\ xfers \in [Xfers -> Transfers]
    /\ ctls \in Seq(Ctls)
    /\ work \in Workloads /\ bus \in [Functions -> {"absent", "present", "bound"}]
    /\ pci \in [op : PciOps, todo : SUBSET Functions, f : Functions \cup {NoFunction},
                step : 0..4, left : Nat]

------------------------------------------------------------------------------
(* The inductive invariants *)

\* The functions the holder of the lock works on: nothing but an unbound function is probed, and
\* unloading reaches every bound one.
PciInv ==
    /\ pci.op = "idle" => pci.f = NoFunction
    /\ pci.f = NoFunction \/ bus[pci.f] # "bound" => pci.step = 0
    /\ pci.op \in {"load", "rescan", "hotplug"} => \A f \in pci.todo : bus[f] # "bound"
    /\ pci.op = "unload" => \A f \in Functions : bus[f] = "bound" => f \in pci.todo \/ f = pci.f

\* The instances of one function (qdev for PF1, ctls for PF2): a bound function has exactly one
\* bound instance until the last step of its removal, and only a bound instance has a node, which
\* it loses with the second step.
LifeIn(devs, pf, functions, on, f, step) ==
    /\ \A i \in DOMAIN devs :
          /\ devs[i].cdev => devs[i].bound
          /\ devs[i].bound =>
                LET g == <<devs[i].board, pf>>
                IN /\ g \in functions /\ on[g] = "bound"
                   /\ f = g => step < 4 /\ (step >= 2 => ~devs[i].cdev)
    /\ \A i, j \in DOMAIN devs :
          devs[i].bound /\ devs[j].bound /\ devs[i].board = devs[j].board => i = j
    /\ \A g \in functions :
          g[2] = pf /\ on[g] = "bound" /\ ~(f = g /\ step = 4) =>
              \E i \in DOMAIN devs : devs[i].bound /\ devs[i].board = g[1]

LifeOf(devs, pf) == LifeIn(devs, pf, Functions, bus, pci.f, pci.step)

\* A node has the number of its board.
Numbered(devs) ==
    \A i \in DOMAIN devs : devs[i].cdev =>
        \E k \in DOMAIN slots : slots[k].board = devs[i].board /\ devs[i].slot = k - 1

SlotsInv ==
    /\ Len(slots) <= MaxCards
    /\ \A k, l \in DOMAIN slots : slots[k].board = slots[l].board => k = l
    /\ Numbered(qdev) /\ Numbered(ctls)

\* What points to what: an entry in the xarray is of this device and under one id; fds, buffers
\* and transfers name what exists, and a transfer under way keeps its fd open.
PairsInv ==
    /\ \A i \in DOMAIN qdev : \A q \in Qids :
          LET e == qdev[i].qpairs[q]
          IN e # 0 => /\ e \in DOMAIN entries /\ entries[e].dev = i
                      /\ \A r \in Qids : qdev[i].qpairs[r] = e => r = q
    /\ \A e \in DOMAIN entries : entries[e].dev \in DOMAIN qdev

FdsInv ==
    \A f \in Fds : /\ \A k \in DOMAIN qfds[f].ents : qfds[f].ents[k] \in DOMAIN entries
                   /\ Len(qfds[f].ents) <= FdMaxQpairs
                   /\ qfds[f].open => qfds[f].dev \in DOMAIN qdev
                   /\ ~qfds[f].open => qfds[f].ents = << >>

BufsInv == \A b \in DOMAIN bufs : bufs[b].dev \in DOMAIN qdev

XfersInv ==
    \A x \in Xfers : /\ \A k \in DOMAIN xfers[x].prep : xfers[x].prep[k].buf \in DOMAIN bufs
                     /\ Len(xfers[x].prep) <= xfers[x].count
                     /\ xfers[x].pc = "prep" => Len(xfers[x].prep) < xfers[x].count
                     /\ xfers[x].pc # "idle" => xfers[x].fd \in Fds /\ qfds[xfers[x].fd].open

\* An entry in the xarray knows the queues of its id.
HandleInv ==
    \A i \in DOMAIN qdev : \A q \in Qids :
        LET e == qdev[i].qpairs[q]
        IN e # 0 => \A t \in entries[e].dirs : entries[e].qhndl[t] = q

\* The driver's references on the BARs: given up by the third step of the removal, after the
\* device is marked dead.
HeldInv ==
    \A i \in DOMAIN ctls : \A r \in Bars :
        ~ctls[i].bars[r].held =>
            /\ ctls[i].dead
            /\ ctls[i].bound => pci.f = <<ctls[i].board, ControlPf>> /\ pci.step >= 3

\* The first step of a removal marks the device dead.
DeadInv ==
    \A i \in DOMAIN ctls :
        ctls[i].bound /\ pci.f = <<ctls[i].board, ControlPf>> /\ pci.step >= 1 => ctls[i].dead

DriverInv ==
    /\ TypeInv /\ PciInv /\ LifeOf(qdev, QdmaPf) /\ LifeOf(ctls, ControlPf)
    /\ SlotsInv /\ PairsInv /\ FdsInv /\ BufsInv /\ XfersInv
    /\ HandleInv /\ QueuesTracked /\ HeldInv /\ DeadInv

==============================================================================

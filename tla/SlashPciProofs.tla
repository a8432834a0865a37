--------------------------- MODULE SlashPciProofs ----------------------------
(***************************************************************************)
(* Loading, unloading, probing and removing the functions of the boards,   *)
(* and the files of the control function, keep the invariant of the kernel *)
(* module.                                                                 *)
(***************************************************************************)
EXTENDS SlashInvariant, FiniteSetTheorems, TLAPS

------------------------------------------------------------------------------
(* Sequences and records *)

Changed(s, i, d) == [s EXCEPT ![i] = d]

\* Replacing an element of a sequence.
LEMMA SeqChanged ==
    ASSUME NEW S, NEW s \in Seq(S), NEW i \in DOMAIN s, NEW d \in S
    PROVE  LET t == Changed(s, i, d)
           IN /\ t \in Seq(S) /\ DOMAIN t = DOMAIN s /\ Len(t) = Len(s)
              /\ \A j \in DOMAIN s : t[j] = IF j = i THEN d ELSE s[j]
BY DEF Changed

\* Replacing every element of a sequence.
LEMMA SeqRedone ==
    ASSUME NEW T, NEW s \in Seq(T), NEW S, NEW t, t = [j \in DOMAIN s |-> t[j]],
           \A j \in DOMAIN s : t[j] \in S
    PROVE  t \in Seq(S) /\ DOMAIN t = DOMAIN s /\ Len(t) = Len(s)
OBVIOUS

Longer(s, d, t) ==
    /\ DOMAIN t = DOMAIN s \cup {Len(s) + 1} /\ Len(t) = Len(s) + 1 /\ Len(s) + 1 \notin DOMAIN s
    /\ t[Len(s) + 1] = d /\ \A j \in DOMAIN s : t[j] = s[j]

\* Appending to a sequence.
LEMMA SeqAppended ==
    ASSUME NEW S, NEW s \in Seq(S), NEW d \in S
    PROVE  Append(s, d) \in Seq(S) /\ Longer(s, d, Append(s, d))
BY DEF Longer

\* The fields of a QDMA instance that belong together.
WithRefs(d, ref, opens, bound) == [d EXCEPT !.ref = ref, !.opens = opens, !.bound = bound]

WithNode(d, shutdown, cdev, slot) ==
    [d EXCEPT !.shutdown = shutdown, !.cdev = cdev, !.slot = slot]

WithQueues(d, handle, qpairs, queues) ==
    [d EXCEPT !.handle = handle, !.qpairs = qpairs, !.queues = queues]

\* New references leave the node and the queues alone.
LEMMA WithRefsFacts ==
    ASSUME NEW d \in Qdevs, NEW ref \in Int, NEW opens \in Nat, NEW bound \in BOOLEAN
    PROVE  LET n == WithRefs(d, ref, opens, bound)
           IN /\ n \in Qdevs /\ n.board = d.board /\ n.slot = d.slot /\ n.shutdown = d.shutdown
              /\ n.handle = d.handle /\ n.cdev = d.cdev /\ n.qpairs = d.qpairs /\ n.queues = d.queues
              /\ n.ref = ref /\ n.opens = opens /\ n.bound = bound
BY Zenon DEF WithRefs, Qdevs

\* A new node leaves the references and the queues alone.
LEMMA WithNodeFacts ==
    ASSUME NEW d \in Qdevs, NEW shutdown \in BOOLEAN, NEW cdev \in BOOLEAN, NEW slot \in Nat
    PROVE  LET n == WithNode(d, shutdown, cdev, slot)
           IN /\ n \in Qdevs /\ n.board = d.board /\ n.slot = slot /\ n.shutdown = shutdown
              /\ n.handle = d.handle /\ n.cdev = cdev /\ n.qpairs = d.qpairs /\ n.queues = d.queues
              /\ n.ref = d.ref /\ n.opens = d.opens /\ n.bound = d.bound
BY Zenon DEF WithNode, Qdevs

\* New queues leave the node and the references alone.
LEMMA WithQueuesFacts ==
    ASSUME NEW d \in Qdevs, NEW handle \in BOOLEAN, NEW qpairs \in QpairMaps,
           NEW queues \in QueueMaps
    PROVE  LET n == WithQueues(d, handle, qpairs, queues)
           IN /\ n \in Qdevs /\ n.board = d.board /\ n.slot = d.slot /\ n.shutdown = d.shutdown
              /\ n.handle = handle /\ n.cdev = d.cdev /\ n.qpairs = qpairs /\ n.queues = queues
              /\ n.ref = d.ref /\ n.opens = d.opens /\ n.bound = d.bound
BY Zenon DEF WithQueues, Qdevs

------------------------------------------------------------------------------
(* The control function's files *)

WithFiles(c, ref, opens) == [c EXCEPT !.ref = ref, !.opens = opens]

WithBars(c, bars, pdev) == [c EXCEPT !.bars = bars, !.pdev = pdev]

\* What is open on a control device leaves the rest of it alone.
LEMMA WithFilesFacts ==
    ASSUME NEW c \in Ctls, NEW ref \in Int, NEW opens \in Nat
    PROVE  LET n == WithFiles(c, ref, opens)
           IN /\ n \in Ctls /\ n.board = c.board /\ n.slot = c.slot /\ n.dead = c.dead
              /\ n.cdev = c.cdev /\ n.bound = c.bound /\ n.pdev = c.pdev /\ n.bars = c.bars
              /\ n.ref = ref /\ n.opens = opens
BY Zenon DEF WithFiles, Ctls

\* So do its dma-bufs.
LEMMA WithBarsFacts ==
    ASSUME NEW c \in Ctls, NEW bars \in [Bars -> BarStates], NEW pdev \in Int
    PROVE  LET n == WithBars(c, bars, pdev)
           IN /\ n \in Ctls /\ n.board = c.board /\ n.slot = c.slot /\ n.dead = c.dead
              /\ n.cdev = c.cdev /\ n.bound = c.bound /\ n.pdev = pdev /\ n.bars = bars
              /\ n.ref = c.ref /\ n.opens = c.opens
BY Zenon DEF WithBars, Ctls

\* A step of the control function's files: the files of one device, or one of its BARs.
FilesTo(i, ref, opens) == ctls' = Changed(ctls, i, WithFiles(ctls[i], ref, opens))

BarTo(i, r, bar, pdev) ==
    ctls' = Changed(ctls, i, WithBars(ctls[i], [ctls[i].bars EXCEPT ![r] = bar], pdev))

\* The files of a control node are counted.
LEMMA CtlOpenEffect ==
    ASSUME TypeInv, NEW i \in DOMAIN ctls
    PROVE  /\ OpenCtl(i) => FilesTo(i, ctls[i].ref + 1, ctls[i].opens + 1)
           /\ CloseCtl(i) => ctls[i].opens > 0 /\ FilesTo(i, ctls[i].ref - 1, ctls[i].opens - 1)
<1>1. ctls[i] \in Ctls
  BY DEF TypeInv
<1> QED
  BY <1>1, Zenon DEF OpenCtl, CloseCtl, FilesTo, Changed, WithFiles, Ctls

Bar(b, ref, fds, vmas) == [b EXCEPT !.ref = ref, !.fds = fds, !.vmas = vmas]

\* Descriptors and mappings of a BAR are counted, and its last reference is the PCI device's.
LEMMA CtlBarEffect ==
    ASSUME TypeInv, NEW i \in DOMAIN ctls, NEW r \in Bars
    PROVE  LET c == ctls[i]
               b == c.bars[r]
               put == IF b.ref = 1 THEN c.pdev - 1 ELSE c.pdev
           IN /\ GetBarFd(i, r) => ~c.dead /\ BarTo(i, r, Bar(b, b.ref + 1, b.fds + 1, b.vmas), c.pdev)
              /\ MmapBar(i, r) => b.fds > 0 /\ BarTo(i, r, Bar(b, b.ref + 1, b.fds, b.vmas + 1), c.pdev)
              /\ CloseBarFd(i, r) => b.fds > 0 /\ BarTo(i, r, Bar(b, b.ref - 1, b.fds - 1, b.vmas), put)
              /\ MunmapBar(i, r) => b.vmas > 0 /\ BarTo(i, r, Bar(b, b.ref - 1, b.fds, b.vmas - 1), put)
<1>1. ctls[i] \in Ctls
  BY DEF TypeInv
<1>2. ctls[i].bars \in [Bars -> BarStates] /\ ctls[i].bars[r] \in BarStates
  BY <1>1, Zenon DEF Ctls
<1> DEFINE c == ctls[i]
           b == c.bars[r]
           put == IF b.ref = 1 THEN c.pdev - 1 ELSE c.pdev
<1>3. ASSUME GetBarFd(i, r) PROVE BarTo(i, r, Bar(b, b.ref + 1, b.fds + 1, b.vmas), c.pdev)
  BY <1>1, <1>2, <1>3, ZenonT(40) DEF GetBarFd, TakeBar, BarTo, Bar, Changed, WithBars, Ctls, BarStates
<1>4. ASSUME MmapBar(i, r) PROVE BarTo(i, r, Bar(b, b.ref + 1, b.fds, b.vmas + 1), c.pdev)
  BY <1>1, <1>2, <1>4, ZenonT(40) DEF MmapBar, TakeBar, BarTo, Bar, Changed, WithBars, Ctls, BarStates
<1>5. ASSUME CloseBarFd(i, r) PROVE BarTo(i, r, Bar(b, b.ref - 1, b.fds - 1, b.vmas), put)
  BY <1>1, <1>2, <1>5, Zenon DEF CloseBarFd, PutBar, BarTo, Bar, Changed, WithBars, Ctls, BarStates
<1>6. ASSUME MunmapBar(i, r) PROVE BarTo(i, r, Bar(b, b.ref - 1, b.fds, b.vmas - 1), put)
  BY <1>1, <1>2, <1>6, Zenon DEF MunmapBar, PutBar, BarTo, Bar, Changed, WithBars, Ctls, BarStates
<1>7. /\ GetBarFd(i, r) => ~c.dead
      /\ MmapBar(i, r) \/ CloseBarFd(i, r) => b.fds > 0
      /\ MunmapBar(i, r) => b.vmas > 0
  BY Zenon DEF GetBarFd, MmapBar, CloseBarFd, MunmapBar
<1> QED
  BY <1>3, <1>4, <1>5, <1>6, <1>7, Zenon

------------------------------------------------------------------------------
(* Board slots *)

SlotsOk(s) ==
    /\ s \in Seq(Slots) /\ Len(s) <= MaxCards
    /\ \A k, l \in DOMAIN s : s[k].board = s[l].board => k = l

\* No board loses its number.
Grown(s, t) == SlotsOk(t) /\ \A k \in DOMAIN s : k \in DOMAIN t /\ t[k].board = s[k].board

WithPfs(s, pfs) == [s EXCEPT !.pfs = pfs]

\* The active functions of a slot leave its board alone.
LEMMA WithPfsFacts ==
    ASSUME NEW s \in Slots, NEW pfs \in SUBSET Pfs
    PROVE  WithPfs(s, pfs) \in Slots /\ WithPfs(s, pfs).board = s.board
BY Zenon DEF WithPfs, Slots

\* The slot of a board.
LEMMA SlotFacts ==
    ASSUME SlotsOk(slots), NEW b
    PROVE  LET k == SlotOf(b)
           IN /\ k = 0 => \A l \in DOMAIN slots : slots[l].board # b
              /\ k # 0 => k \in DOMAIN slots /\ slots[k].board = b
<1>1. 0 \notin DOMAIN slots
  BY DEF SlotsOk
<1> QED
  BY <1>1, Zenon DEF SlotOf

\* slash_chrdev_board_put.
LEMMA PutFacts ==
    ASSUME SlotsOk(slots), NEW b, NEW pf
    PROVE  Grown(slots, BoardPut(b, pf))
<1>1. CASE SlotOf(b) = 0
  BY <1>1, Zenon DEF BoardPut, Grown, SlotsOk
<1>2. CASE SlotOf(b) # 0
  <2>1. PICK k \in DOMAIN slots : k = SlotOf(b) /\ slots[k].board = b
    BY <1>2, SlotFacts, Zenon
  <2>2. slots[k] \in Slots
    BY DEF SlotsOk
  <2> DEFINE d == WithPfs(slots[k], slots[k].pfs \ {pf})
  <2>3. BoardPut(b, pf) = Changed(slots, k, d)
    BY <1>2, <2>1, Zenon DEF BoardPut, Changed, WithPfs
  <2>4. d \in Slots /\ d.board = b
    <3>1. slots[k].pfs \ {pf} \in SUBSET Pfs
      BY <2>2, Zenon DEF Slots
    <3> QED
      BY <2>1, <2>2, <3>1, WithPfsFacts, Zenon
  <2> HIDE DEF d
  <2>5. /\ Changed(slots, k, d) \in Seq(Slots) /\ Len(Changed(slots, k, d)) = Len(slots)
        /\ DOMAIN Changed(slots, k, d) = DOMAIN slots
        /\ \A j \in DOMAIN slots : Changed(slots, k, d)[j] = IF j = k THEN d ELSE slots[j]
    BY <2>4, SeqChanged DEF SlotsOk
  <2> QED
    BY <2>1, <2>3, <2>4, <2>5 DEF Grown, SlotsOk
<1> QED
  BY <1>1, <1>2, Zenon

\* What slash_chrdev_board_get returns.
Got(b, got) ==
    /\ got.err => got.slots = slots
    /\ ~got.err => /\ got.number \in Nat /\ got.number + 1 \in DOMAIN got.slots
                   /\ got.slots[got.number + 1].board = b
    /\ Grown(slots, got.slots)

\* slash_chrdev_board_get: a known board keeps its number, a new one has the next.
LEMMA GetFacts ==
    ASSUME SlotsOk(slots), NEW b \in Boards, NEW pf \in Pfs
    PROVE  Got(b, BoardGet(b, pf))
<1> DEFINE k == SlotOf(b)
           got == BoardGet(b, pf)
<1>1. Grown(slots, slots)
  BY Zenon DEF Grown
<1>2. CASE k # 0 /\ pf \in slots[k].pfs
  <2>1. got = [err |-> TRUE, slots |-> slots, number |-> 0]
    BY <1>2, Zenon DEF BoardGet
  <2> QED
    BY <1>1, <2>1 DEF Got
<1>3. CASE k # 0 /\ pf \notin slots[k].pfs
  <2>1. PICK l \in DOMAIN slots : l = k /\ slots[l].board = b
    BY <1>3, SlotFacts, Zenon
  <2>2. slots[l] \in Slots
    BY DEF SlotsOk
  <2> DEFINE d == WithPfs(slots[l], slots[l].pfs \cup {pf})
             new == Changed(slots, l, d)
  <2>3. new = [slots EXCEPT ![k].pfs = @ \cup {pf}]
    BY <2>1, Zenon DEF Changed, WithPfs
  <2>4. got = [err |-> FALSE, slots |-> new, number |-> l - 1]
    BY <1>3, <2>1, <2>3, Zenon DEF BoardGet
  <2>5. d \in Slots /\ d.board = b
    <3>1. slots[l].pfs \cup {pf} \in SUBSET Pfs
      BY <2>2, Zenon DEF Slots
    <3> QED
      BY <2>1, <2>2, <3>1, WithPfsFacts, Zenon
  <2> HIDE DEF d
  <2>6. /\ new \in Seq(Slots) /\ Len(new) = Len(slots) /\ DOMAIN new = DOMAIN slots
        /\ \A j \in DOMAIN slots : new[j] = IF j = l THEN d ELSE slots[j]
    BY <2>5, SeqChanged DEF SlotsOk
  <2> HIDE DEF new
  <2>7. Grown(slots, new) /\ l - 1 \in Nat /\ (l - 1) + 1 = l
    BY <2>1, <2>5, <2>6 DEF Grown, SlotsOk
  <2> QED
    BY <2>1, <2>4, <2>5, <2>6, <2>7 DEF Got
<1>4. CASE k = 0 /\ Len(slots) = MaxCards
  <2>1. got = [err |-> TRUE, slots |-> slots, number |-> 0]
    BY <1>4, Zenon DEF BoardGet
  <2> QED
    BY <1>1, <2>1 DEF Got
<1>5. CASE k = 0 /\ Len(slots) # MaxCards
  <2> DEFINE d == [board |-> b, pfs |-> {pf}]
             new == Append(slots, d)
  <2>1. got = [err |-> FALSE, slots |-> new, number |-> Len(slots)]
    BY <1>5, Zenon DEF BoardGet
  <2>2. d \in Slots /\ d.board = b
    BY Zenon DEF Slots
  <2> HIDE DEF d
  <2>3. new \in Seq(Slots) /\ Longer(slots, d, new)
    BY <2>2, SeqAppended, Zenon DEF SlotsOk
  <2> HIDE DEF new
  <2>4. \A j \in DOMAIN slots : slots[j].board # b
    BY <1>5, SlotFacts, Zenon
  <2>5. Len(new) <= MaxCards /\ Len(slots) \in Nat
    BY <1>5, <2>3, BoardAssumption DEF SlotsOk, Longer
  <2>6. Grown(slots, new)
    BY <2>2, <2>3, <2>4, <2>5, Zenon DEF Grown, SlotsOk, Longer
  <2> QED
    BY <2>1, <2>2, <2>3, <2>5, <2>6 DEF Got, Longer
<1> QED
  BY <1>2, <1>3, <1>4, <1>5, Zenon

\* A probe that fails: a number that was given stays with the board.
LEMMA FailedFacts ==
    ASSUME SlotsOk(slots), NEW b \in Boards, NEW pf \in Pfs
    PROVE  Grown(slots, GivenBack(b, pf)) /\ Grown(slots, slots)
<1> DEFINE got == BoardGet(b, pf)
           new == [k \in DOMAIN got.slots |->
                      IF got.err \/ got.slots[k].board # b THEN got.slots[k]
                      ELSE WithPfs(got.slots[k], got.slots[k].pfs \ {pf})]
<1>1. Grown(slots, got.slots)
  BY GetFacts, Zenon DEF Got
<1>2. PICK s : s = got.slots
  BY Zenon
<1>3. s \in Seq(Slots) /\ \A k \in DOMAIN s : s[k] \in Slots
  BY <1>1, <1>2 DEF Grown, SlotsOk
<1>4. \A k \in DOMAIN s : new[k] \in Slots /\ new[k].board = s[k].board
  <2>1. \A k \in DOMAIN s : s[k].pfs \ {pf} \in SUBSET Pfs
    BY <1>3, Zenon DEF Slots
  <2> QED
    BY <1>2, <1>3, <2>1, WithPfsFacts, Zenon
<1>5. new = [k \in DOMAIN s |-> new[k]]
  BY <1>2, Zenon
<1> HIDE DEF new
<1>6. new \in Seq(Slots) /\ DOMAIN new = DOMAIN s /\ Len(new) = Len(s)
  BY <1>3, <1>4, <1>5, SeqRedone, Zenon
<1>7. Grown(slots, new)
  BY <1>1, <1>2, <1>4, <1>6, Zenon DEF Grown, SlotsOk
<1>8. Grown(slots, GivenBack(b, pf))
  BY <1>7, Zenon DEF new, WithPfs, GivenBack
<1>9. Grown(slots, slots)
  BY Zenon DEF Grown
<1> QED
  BY <1>8, <1>9, Zenon

------------------------------------------------------------------------------
(* The removal of a control device *)

WithCtlNode(c, dead, cdev, slot) == [c EXCEPT !.dead = dead, !.cdev = cdev, !.slot = slot]

WithoutBinding(c, ref, pdev) == [c EXCEPT !.bound = FALSE, !.ref = ref, !.pdev = pdev]

Dropped(bars) == [r \in Bars |-> DropBar(bars[r])]

\* The binding of a control device.
LEMMA WithoutBindingFacts ==
    ASSUME NEW c \in Ctls, NEW ref \in Int, NEW pdev \in Int
    PROVE  LET n == WithoutBinding(c, ref, pdev)
           IN /\ n \in Ctls /\ n.board = c.board /\ n.slot = c.slot /\ n.dead = c.dead
              /\ n.cdev = c.cdev /\ ~n.bound /\ n.pdev = pdev /\ n.bars = c.bars
              /\ n.ref = ref /\ n.opens = c.opens
BY Zenon DEF WithoutBinding, Ctls

\* The driver's references on the dma-bufs.
LEMMA DroppedFacts ==
    ASSUME NEW bars \in [Bars -> BarStates]
    PROVE  /\ Dropped(bars) \in [Bars -> BarStates]
           /\ \A r \in Bars : /\ Dropped(bars)[r].ref = bars[r].ref - 1 /\ ~Dropped(bars)[r].held
                              /\ Dropped(bars)[r].fds = bars[r].fds /\ Dropped(bars)[r].vmas = bars[r].vmas
<1>1. ASSUME NEW b \in BarStates
      PROVE  /\ DropBar(b) \in BarStates /\ DropBar(b).ref = b.ref - 1 /\ ~DropBar(b).held
             /\ DropBar(b).fds = b.fds /\ DropBar(b).vmas = b.vmas
  <2>1. PICK ref \in Int : ref = b.ref - 1
    BY DEF BarStates
  <2>2. DropBar(b) = [b EXCEPT !.ref = ref, !.held = FALSE]
    BY <2>1, Zenon DEF DropBar
  <2> QED
    BY <2>1, <2>2, Zenon DEF BarStates
<1> QED
  BY <1>1, Zenon DEF Dropped

Last(bars) == {r \in Bars : bars[r].ref = 1}

\* slash_ctldev_destroy and the end of slash_pcie_remove.
LEMMA CtlRemoveEffect ==
    ASSUME TypeInv, NEW i \in DOMAIN ctls
    PROVE  LET c == ctls[i]
           IN /\ MarkDead(i) => ctls' = Changed(ctls, i, WithCtlNode(c, TRUE, c.cdev, c.slot))
              /\ CtlUnpublish(i) => ctls' = Changed(ctls, i, WithCtlNode(c, c.dead, FALSE, 0))
              /\ DestroyDmabufs(i) =>
                    ctls' = Changed(ctls, i, WithBars(c, Dropped(c.bars),
                                                      c.pdev - Cardinality(Last(c.bars))))
              /\ CtlUnbind(i) => ctls' = Changed(ctls, i, WithoutBinding(c, c.ref - 1, c.pdev - 1))
<1> DEFINE c == ctls[i]
<1>1. c \in Ctls
  BY DEF TypeInv
<1>2. MarkDead(i) => ctls' = Changed(ctls, i, WithCtlNode(c, TRUE, c.cdev, c.slot))
  BY <1>1, Zenon DEF MarkDead, Changed, WithCtlNode, Ctls
<1>3. CtlUnpublish(i) => ctls' = Changed(ctls, i, WithCtlNode(c, c.dead, FALSE, 0))
  BY <1>1, Zenon DEF CtlUnpublish, Changed, WithCtlNode, Ctls
<1>4. DestroyDmabufs(i) =>
         ctls' = Changed(ctls, i, WithBars(c, Dropped(c.bars), c.pdev - Cardinality(Last(c.bars))))
  BY <1>1, Zenon DEF DestroyDmabufs, Changed, WithBars, Dropped, Last, Ctls
<1>5. CtlUnbind(i) => ctls' = Changed(ctls, i, WithoutBinding(c, c.ref - 1, c.pdev - 1))
  BY <1>1, Zenon DEF CtlUnbind, Changed, WithoutBinding, Ctls
<1> QED
  BY <1>2, <1>3, <1>4, <1>5, Zenon

------------------------------------------------------------------------------
(* The QDMA function *)

RefsTo(i, ref, opens, bound) == qdev' = Changed(qdev, i, WithRefs(qdev[i], ref, opens, bound))

NodeTo(i, shutdown, cdev, slot) == qdev' = Changed(qdev, i, WithNode(qdev[i], shutdown, cdev, slot))

QueuesTo(i, handle, qpairs, queues) ==
    qdev' = Changed(qdev, i, WithQueues(qdev[i], handle, qpairs, queues))

\* Opening, closing and unbinding count.
LEMMA RefsEffect ==
    ASSUME TypeInv, NEW i \in DOMAIN qdev
    PROVE  LET d == qdev[i]
           IN /\ OpenControl(i) => RefsTo(i, d.ref + 1, d.opens + 1, d.bound)
              /\ CloseControl(i) => d.opens > 0 /\ RefsTo(i, d.ref - 1, d.opens - 1, d.bound)
              /\ Unbind(i) => RefsTo(i, d.ref - 1, d.opens, FALSE)
              /\ qdev' = [qdev EXCEPT ![i].ref = @ + 1] => RefsTo(i, d.ref + 1, d.opens, d.bound)
              /\ qdev' = PutDev(qdev, i) => RefsTo(i, d.ref - 1, d.opens, d.bound)
<1> DEFINE d == qdev[i]
<1>1. d \in Qdevs
  BY DEF TypeInv
<1>2. OpenControl(i) => RefsTo(i, d.ref + 1, d.opens + 1, d.bound)
  BY <1>1, Zenon DEF OpenControl, RefsTo, Changed, WithRefs, Qdevs
<1>3. CloseControl(i) => d.opens > 0 /\ RefsTo(i, d.ref - 1, d.opens - 1, d.bound)
  BY <1>1, Zenon DEF CloseControl, PutDev, RefsTo, Changed, WithRefs, Qdevs
<1>4. Unbind(i) => RefsTo(i, d.ref - 1, d.opens, FALSE)
  BY <1>1, Zenon DEF Unbind, PutDev, RefsTo, Changed, WithRefs, Qdevs
<1>5. qdev' = [qdev EXCEPT ![i].ref = @ + 1] => RefsTo(i, d.ref + 1, d.opens, d.bound)
  BY <1>1, Zenon DEF RefsTo, Changed, WithRefs, Qdevs
<1>6. qdev' = PutDev(qdev, i) => RefsTo(i, d.ref - 1, d.opens, d.bound)
  BY <1>1, Zenon DEF PutDev, RefsTo, Changed, WithRefs, Qdevs
<1> QED
  BY <1>2, <1>3, <1>4, <1>5, <1>6, Zenon

\* The first two steps of slash_qdma_remove.
LEMMA NodeEffect ==
    ASSUME TypeInv, NEW i \in DOMAIN qdev
    PROVE  LET d == qdev[i]
           IN /\ ShutDown(i) => NodeTo(i, TRUE, d.cdev, d.slot)
              /\ Unpublish(i) => NodeTo(i, d.shutdown, FALSE, 0)
<1> DEFINE d == qdev[i]
<1>1. d \in Qdevs
  BY DEF TypeInv
<1>2. ShutDown(i) => NodeTo(i, TRUE, d.cdev, d.slot)
  BY <1>1, Zenon DEF ShutDown, NodeTo, Changed, WithNode, Qdevs
<1>3. Unpublish(i) => NodeTo(i, d.shutdown, FALSE, 0)
  BY <1>1, Zenon DEF Unpublish, NodeTo, Changed, WithNode, Qdevs
<1> QED
  BY <1>2, <1>3, Zenon

\* The instance that changes, and what it changes to.
LEMMA DevChanged ==
    ASSUME TypeInv, NEW i \in DOMAIN qdev, NEW d \in Qdevs, qdev' = Changed(qdev, i, d)
    PROVE  /\ qdev' \in Seq(Qdevs) /\ DOMAIN qdev' = DOMAIN qdev /\ Len(qdev') = Len(qdev)
           /\ \A j \in DOMAIN qdev : qdev'[j] = IF j = i THEN d ELSE qdev[j]
BY SeqChanged DEF TypeInv

\* What a step leaves alone: nodes, queues or references of the QDMA instances.
SameNodes(a, b) ==
    /\ DOMAIN b = DOMAIN a
    /\ \A j \in DOMAIN a : /\ b[j].board = a[j].board /\ b[j].slot = a[j].slot
                           /\ b[j].cdev = a[j].cdev /\ b[j].bound = a[j].bound

SameQueues ==
    /\ DOMAIN qdev' = DOMAIN qdev
    /\ \A j \in DOMAIN qdev : /\ qdev'[j].handle = qdev[j].handle
                              /\ qdev'[j].qpairs = qdev[j].qpairs /\ qdev'[j].queues = qdev[j].queues

SameCounts ==
    /\ DOMAIN qdev' = DOMAIN qdev
    /\ \A j \in DOMAIN qdev : /\ qdev'[j].ref = qdev[j].ref /\ qdev'[j].opens = qdev[j].opens
                              /\ qdev'[j].bound = qdev[j].bound

\* A step that only counts.
LEMMA RefsToFacts ==
    ASSUME TypeInv, NEW i \in DOMAIN qdev, NEW ref \in Int, NEW opens \in Nat, NEW bound \in BOOLEAN,
           RefsTo(i, ref, opens, bound)
    PROVE  /\ qdev' \in Seq(Qdevs) /\ SameQueues
           /\ \A j \in DOMAIN qdev :
                 /\ qdev'[j].board = qdev[j].board /\ qdev'[j].slot = qdev[j].slot
                 /\ qdev'[j].cdev = qdev[j].cdev
                 /\ j # i => qdev'[j] = qdev[j]
           /\ qdev'[i].ref = ref /\ qdev'[i].opens = opens /\ qdev'[i].bound = bound
<1> DEFINE d == WithRefs(qdev[i], ref, opens, bound)
<1>1. qdev[i] \in Qdevs
  BY DEF TypeInv
<1>2. /\ d \in Qdevs /\ d.board = qdev[i].board /\ d.slot = qdev[i].slot /\ d.cdev = qdev[i].cdev
      /\ d.handle = qdev[i].handle /\ d.qpairs = qdev[i].qpairs /\ d.queues = qdev[i].queues
      /\ d.ref = ref /\ d.opens = opens /\ d.bound = bound
  BY <1>1, Zenon DEF WithRefs, Qdevs
<1>3. qdev' = Changed(qdev, i, d)
  BY Zenon DEF RefsTo
<1> HIDE DEF d
<1>4. /\ qdev' \in Seq(Qdevs) /\ DOMAIN qdev' = DOMAIN qdev
      /\ \A j \in DOMAIN qdev : qdev'[j] = IF j = i THEN d ELSE qdev[j]
  BY <1>2, <1>3, DevChanged, Zenon
<1> QED
  BY <1>2, <1>4, Zenon DEF SameQueues

\* A step that only changes a node.
LEMMA NodeToFacts ==
    ASSUME TypeInv, NEW i \in DOMAIN qdev, NEW shutdown \in BOOLEAN, NEW cdev \in BOOLEAN,
           NEW slot \in Nat, NodeTo(i, shutdown, cdev, slot)
    PROVE  /\ qdev' \in Seq(Qdevs) /\ SameQueues /\ SameCounts
           /\ \A j \in DOMAIN qdev : qdev'[j].board = qdev[j].board /\ (j # i => qdev'[j] = qdev[j])
           /\ qdev'[i].cdev = cdev /\ qdev'[i].slot = slot
<1> DEFINE d == WithNode(qdev[i], shutdown, cdev, slot)
<1>1. qdev[i] \in Qdevs
  BY DEF TypeInv
<1>2. /\ d \in Qdevs /\ d.board = qdev[i].board /\ d.slot = slot /\ d.cdev = cdev
      /\ d.handle = qdev[i].handle /\ d.qpairs = qdev[i].qpairs /\ d.queues = qdev[i].queues
      /\ d.ref = qdev[i].ref /\ d.opens = qdev[i].opens /\ d.bound = qdev[i].bound
  BY <1>1, WithNodeFacts, SMTT(30)
<1>3. qdev' = Changed(qdev, i, d)
  BY Zenon DEF NodeTo
<1> HIDE DEF d
<1>4. /\ qdev' \in Seq(Qdevs) /\ DOMAIN qdev' = DOMAIN qdev
      /\ \A j \in DOMAIN qdev : qdev'[j] = IF j = i THEN d ELSE qdev[j]
  BY <1>2, <1>3, DevChanged, Zenon
<1> QED
  BY <1>2, <1>4, Zenon DEF SameQueues, SameCounts

\* A step that only changes the queues of an instance.
LEMMA QueuesToFacts ==
    ASSUME TypeInv, NEW i \in DOMAIN qdev, NEW handle \in BOOLEAN, NEW qpairs \in QpairMaps,
           NEW queues \in QueueMaps, QueuesTo(i, handle, qpairs, queues)
    PROVE  /\ qdev' \in Seq(Qdevs) /\ SameNodes(qdev, qdev') /\ SameCounts
           /\ \A j \in DOMAIN qdev \ {i} : qdev'[j] = qdev[j]
           /\ qdev'[i].handle = handle /\ qdev'[i].qpairs = qpairs /\ qdev'[i].queues = queues
<1> DEFINE d == WithQueues(qdev[i], handle, qpairs, queues)
<1>1. qdev[i] \in Qdevs
  BY SMTT(30) DEF TypeInv
<1>2. /\ d \in Qdevs /\ d.board = qdev[i].board /\ d.slot = qdev[i].slot /\ d.cdev = qdev[i].cdev
      /\ d.handle = handle /\ d.qpairs = qpairs /\ d.queues = queues
      /\ d.ref = qdev[i].ref /\ d.opens = qdev[i].opens /\ d.bound = qdev[i].bound
  BY <1>1, WithQueuesFacts, SMTT(30)
<1>3. qdev' = Changed(qdev, i, d)
  BY Zenon DEF QueuesTo
<1> HIDE DEF d
<1>4. /\ qdev' \in Seq(Qdevs) /\ DOMAIN qdev' = DOMAIN qdev
      /\ \A j \in DOMAIN qdev : qdev'[j] = IF j = i THEN d ELSE qdev[j]
  BY <1>2, <1>3, DevChanged, Zenon
<1> QED
  BY <1>2, <1>4, Zenon DEF SameNodes, SameCounts

------------------------------------------------------------------------------
(* Queue pairs *)

\* The fields of an instance.
LEMMA DevFacts ==
    ASSUME TypeInv, NEW i \in DOMAIN qdev
    PROVE  /\ qdev[i] \in Qdevs /\ qdev[i].handle \in BOOLEAN /\ qdev[i].bound \in BOOLEAN
           /\ qdev[i].cdev \in BOOLEAN /\ qdev[i].shutdown \in BOOLEAN /\ qdev[i].slot \in Nat
           /\ qdev[i].ref \in Int /\ qdev[i].opens \in Nat /\ qdev[i].board \in Boards
           /\ qdev[i].qpairs \in QpairMaps /\ qdev[i].queues \in QueueMaps
<1>1. qdev[i] \in Qdevs
  BY DEF TypeInv
<1> QED
  BY <1>1, Zenon DEF Qdevs

\* The entries of an instance's xarray.
Stored(i) == {e \in DOMAIN entries : \E q \in Qids : qdev[i].qpairs[q] = e}

WithEntry(n, ref, dirs, qhndl) == [n EXCEPT !.ref = ref, !.dirs = dirs, !.qhndl = qhndl]

\* The fields of an entry.
LEMMA WithEntryFacts ==
    ASSUME NEW n \in Entries, NEW ref \in Int, NEW dirs \in SUBSET QueueTypes,
           NEW qhndl \in [QueueTypes -> 0..MaxQpairs]
    PROVE  LET m == WithEntry(n, ref, dirs, qhndl)
           IN m \in Entries /\ m.dev = n.dev /\ m.ref = ref /\ m.dirs = dirs /\ m.qhndl = qhndl
BY Zenon DEF WithEntry, Entries

\* What the removal of an entry's queues does to the entry.
LEMMA RemovedFacts ==
    ASSUME NEW n \in Entries, NEW left
    PROVE  LET m == Removed(n, left)
           IN m \in Entries /\ m.dev = n.dev /\ m.ref = n.ref - 1
<1> DEFINE gone == {t \in n.dirs : \/ n.qhndl[t] = Invalid
                                   \/ ~left[<<n.qhndl[t], t>>].err}
           dirs == n.dirs \ gone
           qhndl == [t \in QueueTypes |-> IF t \in gone THEN Invalid ELSE n.qhndl[t]]
<1>1. Removed(n, left) = WithEntry(n, n.ref - 1, dirs, qhndl)
  BY Zenon DEF Removed, WithEntry
<1>2. n.ref - 1 \in Int /\ n.dirs \subseteq QueueTypes /\ n.qhndl \in [QueueTypes -> 0..MaxQpairs]
  BY DEF Entries
<1> HIDE DEF gone
<1>3. dirs \in SUBSET QueueTypes /\ qhndl \in [QueueTypes -> 0..MaxQpairs]
  BY <1>2, QdmaAssumption DEF Invalid
<1> HIDE DEF dirs, qhndl
<1>4. PICK ref \in Int : ref = n.ref - 1
  BY <1>2, Zenon
<1> QED
  BY <1>1, <1>3, <1>4, WithEntryFacts, SMTT(30)

\* The third part of slash_qdma_remove: the entries of the xarray lose its reference and may keep
\* queues that could not be removed; the others are left alone.
LEMMA TearDownEffect ==
    ASSUME TypeInv, NEW i \in DOMAIN qdev, TearDown(i)
    PROVE  /\ QueuesTo(i, FALSE, [q \in Qids |-> 0], [h \in Qids \X QueueTypes |-> "disabled"])
           /\ entries' \in Seq(Entries) /\ DOMAIN entries' = DOMAIN entries
           /\ \A e \in DOMAIN entries :
                 /\ entries'[e].dev = entries[e].dev
                 /\ e \in Stored(i) => entries'[e].ref = entries[e].ref - 1
                 /\ e \notin Stored(i) => entries'[e] = entries[e]
<1>1. qdev[i] \in Qdevs
  BY DevFacts, Zenon
<1>2. QueuesTo(i, FALSE, [q \in Qids |-> 0], [h \in Qids \X QueueTypes |-> "disabled"])
  <2>1. qdev' = [qdev EXCEPT ![i].qpairs = [q \in Qids |-> 0], ![i].handle = FALSE,
                             ![i].queues = [h \in Qids \X QueueTypes |-> "disabled"]]
    BY Zenon DEF TearDown
  <2>2. PICK zero, off : zero = [q \in Qids |-> 0] /\ off = [h \in Qids \X QueueTypes |-> "disabled"]
    BY Zenon
  <2>3. qdev' = [qdev EXCEPT ![i].qpairs = zero, ![i].handle = FALSE, ![i].queues = off]
    BY <2>1, <2>2, Zenon
  <2>4. QueuesTo(i, FALSE, zero, off)
    BY <1>1, <2>3, Zenon DEF QueuesTo, Changed, WithQueues, Qdevs
  <2> QED
    BY <2>2, <2>4, Zenon
<1>3. PICK left :
         entries' = [e \in DOMAIN entries |->
            IF e \in Stored(i) THEN Removed(entries[e], left) ELSE entries[e]]
  BY Zenon DEF TearDown, Stored
<1>4. ASSUME NEW e \in DOMAIN entries
      PROVE  /\ entries'[e] \in Entries /\ entries'[e].dev = entries[e].dev
             /\ e \in Stored(i) => entries'[e].ref = entries[e].ref - 1
             /\ e \notin Stored(i) => entries'[e] = entries[e]
  <2>1. entries[e] \in Entries
    BY DEF TypeInv
  <2>2. CASE e \notin Stored(i)
    BY <1>3, <2>1, <2>2, Zenon
  <2>3. CASE e \in Stored(i)
    BY <1>3, <2>1, <2>3, RemovedFacts, Zenon
  <2> QED
    BY <2>2, <2>3, Zenon
<1>5. entries' \in Seq(Entries) /\ DOMAIN entries' = DOMAIN entries
  <2>1. entries' = [e \in DOMAIN entries |-> entries'[e]]
    BY <1>3, Zenon
  <2> QED
    BY <1>4, <2>1, SeqRedone, Zenon DEF TypeInv
<1> QED
  BY <1>2, <1>4, <1>5, Zenon

------------------------------------------------------------------------------
(* Counting, entries, buffers and transfers *)

\* A part of a finite set is finite and has a number of elements.
LEMMA PartOf ==
    ASSUME NEW S, IsFiniteSet(S), NEW T, T \subseteq S
    PROVE  IsFiniteSet(T) /\ Cardinality(T) \in Nat
BY FS_Subset, FS_CardinalityType, Zenon

\* The positions of a sequence are finitely many.
LEMMA IndexFinite ==
    ASSUME NEW X, NEW s \in Seq(X)
    PROVE  IsFiniteSet(DOMAIN s)
<1>1. DOMAIN s = 1..Len(s) /\ Len(s) \in Nat
  OBVIOUS
<1> QED
  BY <1>1, FS_Interval

SameEntries ==
    /\ DOMAIN entries' = DOMAIN entries
    /\ \A e \in DOMAIN entries : /\ entries'[e].dev = entries[e].dev
                                 /\ entries'[e].dirs = entries[e].dirs
                                 /\ entries'[e].qhndl = entries[e].qhndl

\* The buffers, apart from their holders.
SameBuffers ==
    /\ DOMAIN bufs' = DOMAIN bufs
    /\ \A b \in DOMAIN bufs : bufs'[b].dev = bufs[b].dev

WithSubs(x, pc, prep, outstanding) ==
    [x EXCEPT !.pc = pc, !.prep = prep, !.outstanding = outstanding]

\* A transfer that moves on.
LEMMA WithSubsFacts ==
    ASSUME NEW x \in Transfers, NEW pc \in Pcs, NEW prep \in Preps, NEW outstanding \in Int
    PROVE  LET y == WithSubs(x, pc, prep, outstanding)
           IN /\ y \in Transfers /\ y.kind = x.kind /\ y.fd = x.fd /\ y.count = x.count
              /\ y.pc = pc /\ y.prep = prep /\ y.outstanding = outstanding
BY Zenon DEF WithSubs, Transfers

\* What submission and completion keep of a transfer.
SameSubs(x, y) ==
    /\ y.fd = x.fd /\ y.count = x.count
    /\ DOMAIN y.prep = DOMAIN x.prep /\ Len(y.prep) = Len(x.prep)
    /\ \A k \in DOMAIN x.prep : y.prep[k].buf = x.prep[k].buf
    /\ y.pc = x.pc \/ (y.pc \in {"submit", "wait"} /\ x.pc \in {"submit", "wait"})

\* The state of a sub-transfer changes.
LEMMA SubEnds ==
    ASSUME NEW s \in Subs, NEW st \in {"ready", "flight", "ended", "gone"}
    PROVE  LET t == [s EXCEPT !.st = st] IN t \in Subs /\ t.buf = s.buf
BY Zenon DEF Subs

\* Transfers whose requests are aborted.
LEMMA StoppingEffect ==
    ASSUME TypeInv, NEW i, NEW stopped, Stopping(i, stopped)
    PROVE  xfers' \in [Xfers -> Transfers] /\ \A x \in Xfers : SameSubs(xfers[x], xfers'[x])
<1>1. ASSUME NEW x \in Xfers
      PROVE  xfers'[x] \in Transfers /\ SameSubs(xfers[x], xfers'[x])
  <2>1. xfers[x] \in Transfers
    BY Zenon DEF TypeInv
  <2>2. PICK y \in Transfers : y = xfers[x]
    BY <2>1, Zenon
  <2>3. y.prep \in Seq(Subs) /\ y.outstanding \in Int /\ y.pc \in Pcs
    BY Zenon DEF Transfers, Preps
  <2> DEFINE hit == {k \in DOMAIN y.prep : /\ y.prep[k].st = "flight" /\ qfds[y.fd].dev = i
                                           /\ <<y.prep[k].qhndl, y.prep[k].type>> \in stopped}
             prep == [k \in DOMAIN y.prep |->
                         IF k \in hit THEN [y.prep[k] EXCEPT !.st = "ended"] ELSE y.prep[k]]
             left == IF y.kind = "uring" THEN y.outstanding - Cardinality(hit) ELSE y.outstanding
  <2>4. xfers'[x] = WithSubs(y, y.pc, prep, left)
    <3>1. xfers'[x] = Aborted(y, i, stopped)
      BY <2>2, Zenon DEF Stopping
    <3> QED
      BY <3>1, Zenon DEF Aborted, WithSubs, Transfers
  <2>5. left \in Int
    <3>1. Cardinality(hit) \in Nat
      <4> hit \subseteq DOMAIN y.prep
        BY Zenon
      <4> HIDE DEF hit
      <4> QED
        BY <2>3, IndexFinite, PartOf, Zenon
    <3> HIDE DEF hit
    <3> QED
      BY <2>3, <3>1
  <2> HIDE DEF hit, left
  <2>6. /\ prep \in Seq(Subs) /\ DOMAIN prep = DOMAIN y.prep /\ Len(prep) = Len(y.prep)
        /\ \A k \in DOMAIN y.prep : prep[k].buf = y.prep[k].buf
    <3>1. ASSUME NEW k \in DOMAIN y.prep PROVE prep[k] \in Subs /\ prep[k].buf = y.prep[k].buf
      <4>1. y.prep[k] \in Subs
        BY <2>3
      <4>2. PICK s \in Subs : s = y.prep[k]
        BY <4>1, Zenon
      <4>3. prep[k] = [s EXCEPT !.st = "ended"] \/ prep[k] = s
        BY <4>2, Zenon
      <4> HIDE DEF prep
      <4> QED
        BY <4>2, <4>3, SubEnds, Zenon
    <3>2. prep = [k \in DOMAIN y.prep |-> prep[k]]
      BY Zenon
    <3> HIDE DEF prep
    <3> QED
      BY <2>3, <3>1, <3>2, SeqRedone, Zenon
  <2> HIDE DEF prep
  <2>7. LET z == xfers'[x]
        IN /\ z \in Transfers /\ z.kind = y.kind /\ z.fd = y.fd /\ z.count = y.count
           /\ z.pc = y.pc /\ z.prep = prep
    <3>1. prep \in Preps
      BY <2>6, Zenon DEF Preps
    <3>2. PICK pc \in Pcs : pc = y.pc
      BY <2>3, Zenon
    <3>3. PICK z : z = WithSubs(y, pc, prep, left)
      BY Zenon
    <3>4. z \in Transfers /\ z.kind = y.kind /\ z.fd = y.fd /\ z.count = y.count /\ z.pc = pc /\ z.prep = prep
      BY <2>5, <3>1, <3>3, WithSubsFacts
    <3> QED
      BY <2>4, <3>2, <3>3, <3>4, Zenon
  <2> QED
    BY <2>2, <2>6, <2>7, Zenon DEF SameSubs
<1>2. xfers' = [x \in Xfers |-> xfers'[x]]
  BY Zenon DEF Stopping
<1> QED
  BY <1>1, <1>2, Zenon

------------------------------------------------------------------------------
(* The steps of files and transfers *)

\* What those steps have to show of the QDMA function.
QdmaKept ==
    /\ qdev' \in Seq(Qdevs) /\ entries' \in Seq(Entries) /\ qfds' \in [Fds -> Files]
    /\ bufs' \in Seq(Buffers) /\ xfers' \in [Xfers -> Transfers]
    /\ PairsInv' /\ FdsInv' /\ BufsInv' /\ XfersInv' /\ HandleInv' /\ QueuesTracked'

\* Entries and instances with other reference counts.
LEMMA PairsSame ==
    ASSUME PairsInv, HandleInv, QueuesTracked, SameQueues, SameEntries
    PROVE  PairsInv' /\ HandleInv' /\ QueuesTracked'
<1>1. PairsInv'
  BY DEF PairsInv, SameQueues, SameEntries
<1>2. HandleInv'
  BY DEF PairsInv, HandleInv, SameQueues, SameEntries
<1>3. QueuesTracked'
  BY DEF PairsInv, QueuesTracked, SameQueues, SameEntries
<1> QED
  BY <1>1, <1>2, <1>3, Zenon

\* The same fds, while entries and instances only become more.
LEMMA FdsSame ==
    ASSUME FdsInv, UNCHANGED qfds, DOMAIN entries \subseteq DOMAIN entries',
           DOMAIN qdev \subseteq DOMAIN qdev'
    PROVE  FdsInv'
BY Zenon DEF FdsInv

\* The same buffers with other holders.
LEMMA BufsSame ==
    ASSUME BufsInv, SameBuffers, DOMAIN qdev \subseteq DOMAIN qdev'
    PROVE  BufsInv'
BY Zenon DEF BufsInv, SameBuffers

\* Transfers that only move on.
LEMMA XfersSame ==
    ASSUME XfersInv, UNCHANGED qfds, DOMAIN bufs \subseteq DOMAIN bufs',
           \A x \in Xfers : SameSubs(xfers[x], xfers'[x])
    PROVE  XfersInv'
<1> SUFFICES ASSUME NEW x \in Xfers
             PROVE  /\ \A k \in DOMAIN xfers'[x].prep : xfers'[x].prep[k].buf \in DOMAIN bufs'
                    /\ Len(xfers'[x].prep) <= xfers'[x].count
                    /\ xfers'[x].pc = "prep" => Len(xfers'[x].prep) < xfers'[x].count
                    /\ xfers'[x].pc # "idle" => xfers'[x].fd \in Fds /\ qfds'[xfers'[x].fd].open
  BY Zenon DEF XfersInv
<1>1. SameSubs(xfers[x], xfers'[x])
  BY Zenon
<1>2. /\ \A k \in DOMAIN xfers[x].prep : xfers[x].prep[k].buf \in DOMAIN bufs
      /\ Len(xfers[x].prep) <= xfers[x].count
      /\ xfers[x].pc = "prep" => Len(xfers[x].prep) < xfers[x].count
      /\ xfers[x].pc # "idle" => xfers[x].fd \in Fds /\ qfds[xfers[x].fd].open
  BY Zenon DEF XfersInv
<1> QED
  BY <1>1, <1>2, Zenon DEF SameSubs

\* What does not change is the same.
LEMMA SameThings ==
    /\ UNCHANGED entries => SameEntries
    /\ UNCHANGED bufs => SameBuffers
    /\ UNCHANGED xfers => \A x \in Xfers : SameSubs(xfers[x], xfers'[x])
    /\ UNCHANGED qdev => SameQueues /\ SameNodes(qdev, qdev')
    /\ UNCHANGED ctls => SameNodes(ctls, ctls')
BY Zenon DEF SameEntries, SameBuffers, SameSubs, SameQueues, SameNodes

\* A queue the entry under its id knows.
Known(i, q, t) ==
    LET e == qdev[i].qpairs[q] IN e # 0 /\ t \in entries[e].dirs /\ entries[e].qhndl[t] = q

------------------------------------------------------------------------------
(* The files of the control function *)

\* A step of one control device that leaves its node and its driver's references alone.
LEMMA CtlKeeps ==
    ASSUME DriverInv, NEW i \in DOMAIN ctls, NEW z \in Ctls, ctls' = Changed(ctls, i, z),
           z.board = ctls[i].board, z.slot = ctls[i].slot, z.cdev = ctls[i].cdev,
           z.bound = ctls[i].bound, z.dead = ctls[i].dead,
           \A r \in Bars : z.bars[r].held = ctls[i].bars[r].held,
           UNCHANGED <<slots, qdev, entries, qfds, bufs, xfers, bus, pci, work>>
    PROVE  DriverInv'
<1>1. /\ ctls' \in Seq(Ctls) /\ DOMAIN ctls' = DOMAIN ctls
      /\ \A j \in DOMAIN ctls : ctls'[j] = IF j = i THEN z ELSE ctls[j]
  BY SeqChanged DEF DriverInv, TypeInv
<1>2. SameNodes(ctls, ctls')
  BY <1>1, Zenon DEF SameNodes
<1>3. \A j \in DOMAIN ctls : /\ ctls'[j].dead = ctls[j].dead
                             /\ \A r \in Bars : ctls'[j].bars[r].held = ctls[j].bars[r].held
  BY <1>1, Zenon
<1>4. TypeInv'
  BY <1>1, Zenon DEF DriverInv, TypeInv, Functions
<1>5. PciInv' /\ LifeOf(qdev, QdmaPf)'
  BY DEF DriverInv, PciInv, LifeOf, LifeIn, Functions
<1>6. LifeOf(ctls, ControlPf)'
  BY <1>2 DEF DriverInv, LifeOf, LifeIn, SameNodes, Functions
<1>7. SlotsInv'
  BY <1>2, SMTT(30) DEF DriverInv, SlotsInv, Numbered, SameNodes
<1>8. PairsInv' /\ FdsInv' /\ BufsInv' /\ XfersInv' /\ HandleInv' /\ QueuesTracked'
  BY DEF DriverInv, PairsInv, FdsInv, BufsInv, XfersInv, HandleInv, QueuesTracked
<1>9. HeldInv'
  BY <1>2, <1>3 DEF DriverInv, HeldInv, SameNodes
<1>10. DeadInv'
  BY <1>2, <1>3 DEF DriverInv, DeadInv, SameNodes
<1> QED
  BY <1>4, <1>5, <1>6, <1>7, <1>8, <1>9, <1>10, Zenon DEF DriverInv

\* One BAR changes.
LEMMA BarKeeps ==
    ASSUME DriverInv, NEW i \in DOMAIN ctls, NEW r \in Bars, NEW ref \in Int, NEW fds \in Nat,
           NEW vmas \in Nat, NEW pdev \in Int, BarTo(i, r, Bar(ctls[i].bars[r], ref, fds, vmas), pdev),
           UNCHANGED <<slots, qdev, entries, qfds, bufs, xfers, bus, pci, work>>
    PROVE  DriverInv'
<1>1. PICK c \in Ctls : c = ctls[i]
  BY DEF DriverInv, TypeInv
<1>2. c.bars \in [Bars -> BarStates] /\ c.bars[r] \in BarStates
  BY <1>1, Zenon DEF Ctls
<1>8. PICK b \in BarStates : b = c.bars[r]
  BY <1>2, Zenon
<1>10. Bar(b, ref, fds, vmas) \in BarStates /\ Bar(b, ref, fds, vmas).held = b.held
  BY Zenon DEF Bar, BarStates
<1>9. PICK bar : bar = Bar(b, ref, fds, vmas)
  BY Zenon
<1>3. bar \in BarStates /\ bar = Bar(c.bars[r], ref, fds, vmas) /\ bar.held = c.bars[r].held
  BY <1>8, <1>9, <1>10, Zenon
<1>4. PICK bars \in [Bars -> BarStates] : bars = [c.bars EXCEPT ![r] = bar]
  BY <1>2, <1>3, Zenon
<1>5. \A s \in Bars : bars[s].held = c.bars[s].held
  BY <1>2, <1>3, <1>4, Zenon
<1>6. PICK z \in Ctls : /\ z = WithBars(c, bars, pdev)
                        /\ z.board = c.board /\ z.slot = c.slot /\ z.dead = c.dead
                        /\ z.cdev = c.cdev /\ z.bound = c.bound /\ z.bars = bars
  BY WithBarsFacts, Zenon
<1>7. ctls' = Changed(ctls, i, z)
  BY <1>1, <1>3, <1>4, <1>6, Zenon DEF BarTo
<1> QED
  BY <1>1, <1>5, <1>6, <1>7, CtlKeeps

\* The files of the control function keep the invariant.
LEMMA CtlFilesKeep ==
    ASSUME DriverInv, CtlFiles
    PROVE  DriverInv'
<1>1. PICK i \in DOMAIN ctls :
         \/ OpenCtl(i)
         \/ CloseCtl(i)
         \/ \E r \in Bars : GetBarFd(i, r) \/ CloseBarFd(i, r) \/ MmapBar(i, r) \/ MunmapBar(i, r)
  BY Zenon DEF CtlFiles
<1>2. UNCHANGED <<slots, qdev, entries, qfds, bufs, xfers, bus, pci, work>>
  BY <1>1, Zenon DEF CtlFiles, KeepBus, qdmaVars, OpenCtl, CloseCtl, GetBarFd, CloseBarFd, MmapBar, MunmapBar
<1>3. PICK c \in Ctls : c = ctls[i]
  BY DEF DriverInv, TypeInv
<1>4. c.ref \in Int /\ c.opens \in Nat /\ c.pdev \in Int /\ c.bars \in [Bars -> BarStates]
  BY <1>3, Zenon DEF Ctls
<1>5. TypeInv
  BY Zenon DEF DriverInv
<1>6. CASE OpenCtl(i) \/ CloseCtl(i)
  <2>1. PICK ref \in Int, opens \in Nat : FilesTo(i, ref, opens)
    <3>1. c.ref + 1 \in Int /\ c.ref - 1 \in Int /\ c.opens + 1 \in Nat /\ (c.opens > 0 => c.opens - 1 \in Nat)
      BY <1>4
    <3>2. FilesTo(i, c.ref + 1, c.opens + 1) \/ (c.opens > 0 /\ FilesTo(i, c.ref - 1, c.opens - 1))
      BY <1>3, <1>5, <1>6, CtlOpenEffect, Zenon
    <3> QED
      BY <3>1, <3>2, Zenon
  <2>2. PICK z \in Ctls : /\ z = WithFiles(c, ref, opens)
                          /\ z.board = c.board /\ z.slot = c.slot /\ z.dead = c.dead
                          /\ z.cdev = c.cdev /\ z.bound = c.bound /\ z.bars = c.bars
    BY WithFilesFacts
  <2>3. ctls' = Changed(ctls, i, z)
    BY <1>3, <2>1, <2>2, Zenon DEF FilesTo
  <2> QED
    BY <1>2, <1>3, <2>2, <2>3, CtlKeeps, Zenon
<1>7. ASSUME NEW r \in Bars, GetBarFd(i, r) \/ CloseBarFd(i, r) \/ MmapBar(i, r) \/ MunmapBar(i, r)
      PROVE  DriverInv'
  <2>1. PICK b \in BarStates : b = c.bars[r]
    BY <1>4, Zenon
  <2>2. /\ b.ref + 1 \in Int /\ b.ref - 1 \in Int /\ b.fds \in Nat /\ b.fds + 1 \in Nat
        /\ b.fds > 0 => b.fds - 1 \in Nat
        /\ b.vmas \in Nat /\ b.vmas + 1 \in Nat /\ (b.vmas > 0 => b.vmas - 1 \in Nat)
    BY <2>1 DEF BarStates
  <2>3. PICK put \in Int : put = IF b.ref = 1 THEN c.pdev - 1 ELSE c.pdev
    BY <1>4
  <2>4. \/ BarTo(i, r, Bar(b, b.ref + 1, b.fds + 1, b.vmas), c.pdev)
        \/ BarTo(i, r, Bar(b, b.ref + 1, b.fds, b.vmas + 1), c.pdev)
        \/ b.fds > 0 /\ BarTo(i, r, Bar(b, b.ref - 1, b.fds - 1, b.vmas), put)
        \/ b.vmas > 0 /\ BarTo(i, r, Bar(b, b.ref - 1, b.fds, b.vmas - 1), put)
    BY <1>3, <1>5, <1>7, <2>1, <2>3, CtlBarEffect, Zenon
  <2>5. PICK ref \in Int, fds \in Nat, vmas \in Nat, pdev \in Int :
           BarTo(i, r, Bar(b, ref, fds, vmas), pdev)
    BY <1>4, <2>2, <2>4, Zenon
  <2> QED
    BY <1>2, <1>3, <2>1, <2>5, BarKeeps, Zenon
<1> QED
  BY <1>1, <1>6, <1>7, Zenon

------------------------------------------------------------------------------
(* The life of an instance *)

\* The third step of a removal: the instance has no queue pair left, and those of the others are
\* not touched.
LEMMA TearDownKeeps ==
    ASSUME DriverInv, NEW i \in DOMAIN qdev, TearDown(i)
    PROVE  QdmaKept /\ SameNodes(qdev, qdev')
<1>1. TypeInv /\ PairsInv /\ HandleInv /\ QueuesTracked /\ FdsInv /\ BufsInv /\ XfersInv
  BY Zenon DEF DriverInv
<1>2. /\ entries' \in Seq(Entries) /\ DOMAIN entries' = DOMAIN entries
      /\ \A e \in DOMAIN entries :
            entries'[e].dev = entries[e].dev /\ (e \notin Stored(i) => entries'[e] = entries[e])
  BY <1>1, TearDownEffect, Zenon
<1>3. PICK qpairs, queues : /\ qpairs = [q \in Qids |-> 0]
                            /\ queues = [h \in Qids \X QueueTypes |-> "disabled"]
  BY Zenon
<1>4. QueuesTo(i, FALSE, qpairs, queues)
  BY <1>1, <1>3, TearDownEffect, Zenon
<1>5. qpairs \in QpairMaps /\ queues \in QueueMaps /\ \A q \in Qids : qpairs[q] = 0
  BY <1>3, Zenon DEF QpairMaps, QueueMaps, QueueStates
<1>6. /\ qdev' \in Seq(Qdevs) /\ SameNodes(qdev, qdev')
      /\ \A j \in DOMAIN qdev \ {i} : qdev'[j] = qdev[j]
      /\ qdev'[i].handle = FALSE /\ qdev'[i].qpairs = qpairs
  BY <1>1, <1>4, <1>5, QueuesToFacts, Zenon
<1>7. DOMAIN qdev' = DOMAIN qdev
  BY <1>6, Zenon DEF SameNodes
<1>8. ASSUME NEW j \in DOMAIN qdev, NEW q \in Qids, qdev'[j].qpairs[q] # 0
      PROVE  LET e == qdev[j].qpairs[q]
             IN /\ j # i /\ qdev'[j] = qdev[j] /\ e # 0 /\ e \in DOMAIN entries
                /\ entries[e].dev = j /\ entries'[e] = entries[e]
  <2>1. j # i /\ qdev'[j] = qdev[j] /\ qdev[j].qpairs[q] # 0
    BY <1>5, <1>6, <1>8, Zenon
  <2>2. qdev[j].qpairs[q] \in DOMAIN entries /\ entries[qdev[j].qpairs[q]].dev = j
    BY <1>1, <2>1, Zenon DEF PairsInv
  <2>3. qdev[j].qpairs[q] \notin Stored(i)
    <3>1. \A r \in Qids : qdev[i].qpairs[r] # qdev[j].qpairs[q]
      BY <1>1, <2>1, <2>2 DEF PairsInv
    <3> QED
      BY <3>1, Zenon DEF Stored
  <2> QED
    BY <1>2, <2>1, <2>2, <2>3, Zenon
<1>9. PairsInv'
  <2>1. ASSUME NEW j \in DOMAIN qdev, NEW q \in Qids, qdev'[j].qpairs[q] # 0
        PROVE  LET e == qdev'[j].qpairs[q]
               IN /\ e \in DOMAIN entries' /\ entries'[e].dev = j
                  /\ \A r \in Qids : qdev'[j].qpairs[r] = e => r = q
    BY <1>1, <1>2, <1>8, <2>1 DEF PairsInv
  <2>2. \A e \in DOMAIN entries' : entries'[e].dev \in DOMAIN qdev'
    BY <1>1, <1>2, <1>7, Zenon DEF PairsInv
  <2> QED
    BY <1>7, <2>1, <2>2, Zenon DEF PairsInv
<1>10. HandleInv'
  <2>1. ASSUME NEW j \in DOMAIN qdev, NEW q \in Qids, qdev'[j].qpairs[q] # 0
        PROVE  LET e == qdev'[j].qpairs[q]
               IN \A t \in entries'[e].dirs : entries'[e].qhndl[t] = q
    BY <1>1, <1>8, <2>1, SMTT(30) DEF HandleInv
  <2> QED
    BY <1>7, <2>1, Zenon DEF HandleInv
<1>11. QueuesTracked'
  <2> SUFFICES ASSUME NEW j \in DOMAIN qdev, qdev'[j].handle,
                      NEW r \in Qids, NEW t \in QueueTypes, qdev'[j].queues[<<r, t>>] \in Added
               PROVE  LET f == qdev'[j].qpairs[r]
                      IN f # 0 /\ t \in entries'[f].dirs /\ entries'[f].qhndl[t] = r
    BY <1>7 DEF QueuesTracked
  <2>1. j # i /\ qdev'[j] = qdev[j]
    BY <1>6, Zenon
  <2>2. Known(j, r, t)
    BY <1>1, <2>1 DEF QueuesTracked, Known
  <2>3. qdev'[j].qpairs[r] # 0
    BY <2>1, <2>2, Zenon DEF Known
  <2> QED
    BY <1>8, <2>2, <2>3, SMTT(30) DEF Known
<1>12. UNCHANGED <<qfds, bufs>> /\ Stopping(i, Qids \X QueueTypes)
  BY Zenon DEF TearDown
<1>13. xfers' \in [Xfers -> Transfers] /\ \A x \in Xfers : SameSubs(xfers[x], xfers'[x])
  BY <1>1, <1>12, StoppingEffect, Zenon
<1>14. FdsInv' /\ BufsInv' /\ XfersInv'
  BY <1>1, <1>2, <1>7, <1>12, <1>13, FdsSame, BufsSame, XfersSame, SameThings, Zenon
<1> QED
  BY <1>1, <1>2, <1>6, <1>9, <1>10, <1>11, <1>12, <1>13, <1>14, Zenon DEF QdmaKept, TypeInv

\* The steps that leave the queues alone.
LEMMA NodeKeeps ==
    ASSUME DriverInv, qdev' \in Seq(Qdevs), SameQueues, UNCHANGED <<entries, qfds, bufs, xfers>>
    PROVE  QdmaKept
<1>1. TypeInv /\ PairsInv /\ HandleInv /\ QueuesTracked /\ FdsInv /\ BufsInv /\ XfersInv
  BY Zenon DEF DriverInv
<1>2. DOMAIN qdev' = DOMAIN qdev
  BY Zenon DEF SameQueues
<1>3. PairsInv' /\ HandleInv' /\ QueuesTracked'
  BY <1>1, PairsSame, SameThings, Zenon
<1>4. FdsInv' /\ BufsInv' /\ XfersInv'
  BY <1>1, <1>2, FdsSame, BufsSame, XfersSame, SameThings, Zenon
<1> QED
  BY <1>1, <1>3, <1>4, Zenon DEF QdmaKept, TypeInv

\* The steps of the control function leave the QDMA function alone.
LEMMA QdmaStill ==
    ASSUME DriverInv, UNCHANGED qdmaVars
    PROVE  QdmaKept
<1>1. UNCHANGED <<qdev, entries, qfds, bufs, xfers>>
  BY Zenon DEF qdmaVars
<1>2. qdev' \in Seq(Qdevs)
  BY <1>1, Zenon DEF DriverInv, TypeInv
<1> QED
  BY <1>1, <1>2, NodeKeeps, SameThings, Zenon

\* A new instance.
LEMMA ProbeKeeps ==
    ASSUME DriverInv, NEW b \in Boards, NEW number \in Nat, QdmaProbed(b, number),
           UNCHANGED <<entries, qfds, bufs, xfers>>
    PROVE  /\ QdmaKept
           /\ \E d \in Qdevs : /\ Longer(qdev, d, qdev')
                               /\ d.board = b /\ d.slot = number /\ d.cdev /\ d.bound
<1>1. TypeInv /\ PairsInv /\ HandleInv /\ QueuesTracked /\ FdsInv /\ BufsInv /\ XfersInv
  BY Zenon DEF DriverInv
<1>2. PICK qpairs, queues : /\ qpairs = [q \in Qids |-> 0]
                            /\ queues = [h \in Qids \X QueueTypes |-> "disabled"]
  BY Zenon
<1>3. /\ qpairs \in QpairMaps /\ queues \in QueueMaps /\ \A q \in Qids : qpairs[q] = 0
      /\ \A q \in Qids, t \in QueueTypes : queues[<<q, t>>] = "disabled"
  BY <1>2, Zenon DEF QpairMaps, QueueMaps, QueueStates
<1>4. PICK d : d = [board |-> b, slot |-> number, shutdown |-> FALSE, handle |-> TRUE,
                    cdev |-> TRUE, ref |-> 1, opens |-> 0, bound |-> TRUE,
                    qpairs |-> qpairs, queues |-> queues]
  BY Zenon
<1>5. /\ d \in Qdevs /\ d.board = b /\ d.slot = number /\ d.cdev = TRUE /\ d.bound = TRUE
      /\ d.qpairs = qpairs /\ d.queues = queues
  BY <1>3, <1>4 DEF Qdevs
<1>6. qdev' = Append(qdev, d)
  BY <1>2, <1>4, Zenon DEF QdmaProbed
<1>7. qdev' \in Seq(Qdevs) /\ Longer(qdev, d, qdev')
  BY <1>1, <1>5, <1>6, SeqAppended, Zenon DEF TypeInv
<1>8. PICK n : /\ DOMAIN qdev' = DOMAIN qdev \cup {n} /\ n \notin DOMAIN qdev
               /\ qdev'[n] = d /\ \A j \in DOMAIN qdev : qdev'[j] = qdev[j]
  BY <1>7, Zenon DEF Longer
<1>9. /\ \A q \in Qids : qdev'[n].qpairs[q] = 0
      /\ \A q \in Qids, t \in QueueTypes : qdev'[n].queues[<<q, t>>] = "disabled"
  BY <1>3, <1>5, <1>8, Zenon
<1>10. PairsInv'
  BY <1>1, <1>8, <1>9, SMTT(30) DEF PairsInv
<1>11. HandleInv'
  BY <1>1, <1>8, <1>9, SMTT(30) DEF HandleInv
<1>12. QueuesTracked'
  <2> SUFFICES ASSUME NEW j \in DOMAIN qdev', qdev'[j].handle,
                      NEW r \in Qids, NEW t \in QueueTypes, qdev'[j].queues[<<r, t>>] \in Added
               PROVE  LET f == qdev'[j].qpairs[r]
                      IN f # 0 /\ t \in entries[f].dirs /\ entries[f].qhndl[t] = r
    BY DEF QueuesTracked
  <2>1. j # n
    BY <1>9, Zenon DEF Added
  <2>2. j \in DOMAIN qdev /\ qdev'[j] = qdev[j]
    BY <1>8, <2>1, Zenon
  <2> QED
    BY <1>1, <2>2, SMTT(30) DEF QueuesTracked
<1>13. FdsInv' /\ BufsInv' /\ XfersInv'
  BY <1>1, <1>8, FdsSame, BufsSame, XfersSame, SameThings, Zenon
<1>14. QdmaKept
  BY <1>1, <1>7, <1>10, <1>11, <1>12, <1>13, Zenon DEF QdmaKept, TypeInv
<1> QED
  BY <1>5, <1>7, <1>14, Zenon

\* A step of the removal of the function f = <<board of i, pf>>: the node goes with the second step
\* and the binding with the fourth.
LEMMA LifeMoves ==
    ASSUME NEW a, NEW b, NEW pf, NEW functions, NEW on, NEW step \in 0..3, NEW i \in DOMAIN a,
           \A g \in functions : g = <<g[1], g[2]>>,
           LifeIn(a, pf, functions, on, <<a[i].board, pf>>, step), a[i].bound,
           DOMAIN b = DOMAIN a,
           \A j \in DOMAIN a : b[j].board = a[j].board,
           \A j \in DOMAIN a \ {i} : b[j].cdev = a[j].cdev /\ b[j].bound = a[j].bound,
           b[i].cdev => a[i].cdev, step = 1 => ~b[i].cdev,
           step < 3 => b[i].bound, step = 3 => ~b[i].bound
    PROVE  LifeIn(b, pf, functions, on, <<a[i].board, pf>>, step + 1)
<1> DEFINE f == <<a[i].board, pf>>
<1>1. /\ \A j \in DOMAIN a :
            /\ a[j].cdev => a[j].bound
            /\ a[j].bound =>
                  LET g == <<a[j].board, pf>>
                  IN /\ g \in functions /\ on[g] = "bound"
                     /\ f = g => step < 4 /\ (step >= 2 => ~a[j].cdev)
      /\ \A j, k \in DOMAIN a :
            a[j].bound /\ a[k].bound /\ a[j].board = a[k].board => j = k
      /\ \A g \in functions :
            g[2] = pf /\ on[g] = "bound" /\ ~(f = g /\ step = 4) =>
                \E j \in DOMAIN a : a[j].bound /\ a[j].board = g[1]
  BY Zenon DEF LifeIn
<1>2. \A j \in DOMAIN a \ {i} : a[j].bound => <<a[j].board, pf>> # f
  BY <1>1, Zenon
<1>3. \A j \in DOMAIN a : b[j].bound => a[j].bound
  BY Zenon
<1>4. ~(step >= 2 /\ a[i].cdev)
  BY <1>1, Zenon
<1> HIDE DEF f
<1>5. ASSUME NEW j \in DOMAIN a
      PROVE  /\ b[j].cdev => b[j].bound
             /\ b[j].bound =>
                   LET g == <<b[j].board, pf>>
                   IN /\ g \in functions /\ on[g] = "bound"
                      /\ f = g => step + 1 < 4 /\ (step + 1 >= 2 => ~b[j].cdev)
  <2>1. CASE j # i
    BY <1>1, <1>2, <2>1
  <2>2. CASE j = i
    BY <1>1, <1>4, <2>2
  <2> QED
    BY <2>1, <2>2, Zenon
<1>6. \A j, k \in DOMAIN a : b[j].bound /\ b[k].bound /\ b[j].board = b[k].board => j = k
  BY <1>1, <1>3, Zenon
<1>7. ASSUME NEW g \in functions, g[2] = pf, on[g] = "bound", ~(f = g /\ step + 1 = 4)
      PROVE  \E j \in DOMAIN a : b[j].bound /\ b[j].board = g[1]
  <2>1. PICK j \in DOMAIN a : a[j].bound /\ a[j].board = g[1]
    BY <1>1, <1>7
  <2>2. CASE j = i /\ step = 3
    <3>1. g # f
      BY <1>7, <2>2
    <3>2. g = <<a[i].board, pf>>
      BY <1>7, <2>1, <2>2, Zenon
    <3> QED
      BY <3>1, <3>2, Zenon DEF f
  <2>3. CASE ~(j = i /\ step = 3)
    BY <2>1, <2>3
  <2> QED
    BY <2>2, <2>3, Zenon
<1> QED
  BY <1>5, <1>6, <1>7, Zenon DEF LifeIn, f

\* The other function of a board does not see the removal.
LEMMA LifeElse ==
    ASSUME NEW a, NEW pf, NEW functions, NEW on, NEW f, f[2] # pf, NEW step, NEW next,
           LifeIn(a, pf, functions, on, f, step)
    PROVE  LifeIn(a, pf, functions, on, f, next)
<1>1. \A b : f # <<b, pf>>
  OBVIOUS
<1> QED
  BY <1>1, Zenon DEF LifeIn

\* The functions of the machine.
LEMMA FunctionFacts ==
    ASSUME TypeInv
    PROVE  /\ \A f \in Functions : /\ f = <<f[1], f[2]>> /\ f[1] \in Boards /\ f[2] \in Pfs
                                   /\ f # NoFunction
           /\ pci.f \in Functions \cup {NoFunction} /\ pci.todo \subseteq Functions
           /\ pci.step \in 0..4 /\ pci.left \in Nat /\ pci.op \in PciOps
<1>1. Functions \subseteq Boards \X Pfs
  BY DriverAssumption, Zenon DEF TypeInv, Functions, IsWorkload
<1>2. \A f \in Boards \X Pfs : f = <<f[1], f[2]>> /\ f[1] \in Boards /\ f[2] \in Pfs /\ f # << >>
  OBVIOUS
<1>3. \A f \in Functions : /\ f = <<f[1], f[2]>> /\ f[1] \in Boards /\ f[2] \in Pfs
                           /\ f # NoFunction
  BY <1>1, <1>2, Zenon DEF NoFunction
<1>4. /\ pci.f \in Functions \cup {NoFunction} /\ pci.todo \subseteq Functions
      /\ pci.step \in 0..4 /\ pci.left \in Nat /\ pci.op \in PciOps
  BY Zenon DEF TypeInv
<1> QED
  BY <1>3, <1>4, Zenon

\* The steps that only move the holder of the lock on.
LEMMA BusStill ==
    ASSUME DriverInv, UNCHANGED <<qdev, entries, qfds, bufs, xfers, ctls, bus, work>>,
           slots' = slots \/ (slots' = << >> /\ \A f \in Functions : bus[f] # "bound"),
           pci' \in [op : PciOps, todo : SUBSET Functions, f : Functions \cup {NoFunction},
                     step : 0..4, left : Nat],
           pci.f = NoFunction, pci'.step = 0, PciInv'
    PROVE  DriverInv'
<1>1. Functions' = Functions
  BY Zenon DEF Functions
<1>2. pci.step = 0
  BY Zenon DEF DriverInv, PciInv
<1>3. \A b, pf : <<b, pf>> # NoFunction
  BY Zenon DEF NoFunction
<1>4. LifeOf(qdev, QdmaPf)'
  <2>1. LifeIn(qdev, QdmaPf, Functions, bus, NoFunction, 0)
    BY <1>2, Zenon DEF DriverInv, LifeOf
  <2>2. LifeIn(qdev, QdmaPf, Functions, bus, pci'.f, 0)
    BY <1>3, <2>1 DEF LifeIn
  <2> QED
    BY <1>1, <2>2, Zenon DEF LifeOf
<1>5. LifeOf(ctls, ControlPf)'
  <2>1. LifeIn(ctls, ControlPf, Functions, bus, NoFunction, 0)
    BY <1>2, Zenon DEF DriverInv, LifeOf
  <2>2. LifeIn(ctls, ControlPf, Functions, bus, pci'.f, 0)
    BY <1>3, <2>1 DEF LifeIn
  <2> QED
    BY <1>1, <2>2, Zenon DEF LifeOf
<1>6. slots' \in Seq(Slots)
  <2>1. slots \in Seq(Slots) /\ << >> \in Seq(Slots)
    BY DEF DriverInv, TypeInv
  <2> QED
    BY <2>1, Zenon
<1>7. TypeInv'
  BY <1>1, <1>6, Zenon DEF DriverInv, TypeInv
<1>8. SlotsInv'
  <2>1. CASE slots' = slots
    BY <2>1, Zenon DEF DriverInv, SlotsInv, Numbered
  <2>2. CASE slots' = << >> /\ \A f \in Functions : bus[f] # "bound"
    <3>1. (\A i \in DOMAIN qdev : ~qdev[i].cdev) /\ (\A i \in DOMAIN ctls : ~ctls[i].cdev)
      BY <2>2, Zenon DEF DriverInv, LifeOf, LifeIn
    <3>2. Numbered(qdev)' /\ Numbered(ctls)'
      BY <3>1, Zenon DEF Numbered
    <3>3. Len(slots') = 0 /\ DOMAIN slots' = {} /\ MaxCards \in Nat
      BY <2>2, BoardAssumption
    <3> QED
      BY <3>2, <3>3 DEF SlotsInv
  <2> QED
    BY <2>1, <2>2, Zenon
<1>9. QdmaKept
  BY QdmaStill, Zenon DEF qdmaVars
<1>10. HeldInv'
  BY <1>3, Zenon DEF DriverInv, HeldInv
<1>11. DeadInv'
  BY DEF DeadInv
<1> QED
  BY <1>4, <1>5, <1>7, <1>8, <1>9, <1>10, <1>11, Zenon DEF DriverInv, QdmaKept

\* A PCI operation begins.
LEMMA BeginKeeps ==
    ASSUME DriverInv, Load \/ Unload \/ Rescan \/ \E f \in Functions : Remove(f) \/ Hotplug(f),
           UNCHANGED work
    PROVE  DriverInv'
<1>1. TypeInv
  BY Zenon DEF DriverInv
<1>2. PICK op, todo, f : /\ Begin(op, todo, f)
                         /\ op \in {"load", "unload", "rescan", "remove", "hotplug"}
                         /\ todo \subseteq Functions /\ f \in Functions \cup {NoFunction}
                         /\ op \in {"load", "rescan", "hotplug"} => \A g \in todo : bus[g] # "bound"
                         /\ op = "unload" => \A g \in Functions : bus[g] = "bound" => g \in todo
  <2>1. CASE Load
    BY <2>1 DEF Load
  <2>2. CASE Unload
    BY <2>2 DEF Unload
  <2>3. CASE Rescan
    BY <2>3 DEF Rescan
  <2>4. ASSUME NEW f \in Functions, Remove(f) \/ Hotplug(f)
        PROVE  \/ Begin("remove", {}, f)
               \/ Begin("hotplug", {}, f)
    BY <2>4, Zenon DEF Remove, Hotplug
  <2> QED
    BY <2>1, <2>2, <2>3, <2>4, SMTT(30)
<1>3. /\ pci.op = "idle" /\ pci.left > 0
      /\ pci' = [op |-> op, todo |-> todo, f |-> f, step |-> 0, left |-> pci.left - 1]
      /\ UNCHANGED <<slots, qdev, entries, qfds, bufs, xfers, ctls, bus>>
  BY <1>2, Zenon DEF Begin, qdmaVars
<1>4. PICK left \in Nat : left = pci.left - 1
  BY <1>1, <1>3, FunctionFacts
<1>5. /\ pci' \in [op : PciOps, todo : SUBSET Functions, f : Functions \cup {NoFunction},
                   step : 0..4, left : Nat]
      /\ pci'.op = op /\ pci'.todo = todo /\ pci'.f = f /\ pci'.step = 0
  BY <1>2, <1>3, <1>4 DEF PciOps
<1>6. pci.f = NoFunction
  BY <1>3, Zenon DEF DriverInv, PciInv
<1>7. Functions' = Functions
  BY Zenon DEF Functions
<1>8. PciInv'
  BY <1>2, <1>3, <1>5, <1>7, Zenon DEF PciInv
<1> QED
  BY <1>3, <1>5, <1>6, <1>8, BusStill, Zenon

PciTypes ==
    [op : PciOps, todo : SUBSET Functions, f : Functions \cup {NoFunction}, step : 0..4, left : Nat]

WithPci(p, f, step, todo) == [p EXCEPT !.f = f, !.step = step, !.todo = todo]

\* The function the holder of the lock works on, and the functions left to it.
LEMMA WithPciFacts ==
    ASSUME NEW p \in PciTypes, NEW f \in Functions \cup {NoFunction}, NEW step \in 0..4,
           NEW todo \in SUBSET Functions
    PROVE  LET n == WithPci(p, f, step, todo)
           IN n \in PciTypes /\ n.op = p.op /\ n.f = f /\ n.step = step /\ n.todo = todo
BY Zenon DEF WithPci, PciTypes

\* The rescan, the unloading or the whole operation goes on without a function changing.
LEMMA NextKeeps ==
    ASSUME DriverInv, EndPci \/ \E f \in Functions : NotFound(f) \/ UnloadNext(f), UNCHANGED work
    PROVE  DriverInv'
<1>1. TypeInv /\ PciInv
  BY Zenon DEF DriverInv
<1>2. /\ pci \in PciTypes /\ pci.f = NoFunction /\ pci.step = 0
      /\ UNCHANGED <<qdev, entries, qfds, bufs, xfers, ctls, bus>> /\ Functions' = Functions
  BY <1>1, Zenon DEF TypeInv, PciInv, PciTypes, EndPci, NotFound, UnloadNext, ProbeNext, qdmaVars, Functions
<1>3. CASE EndPci
  <2>1. /\ pci.todo = {} /\ pci' = [IdlePci EXCEPT !.left = pci.left]
        /\ slots' = IF pci.op = "unload" THEN << >> ELSE slots
    BY <1>3, Zenon DEF EndPci
  <2>2. pci.left \in Nat /\ work.ops \in Nat
    BY <1>1, <1>2, DriverAssumption, Zenon DEF PciTypes, TypeInv, IsWorkload
  <2>3. pci' = [op |-> "idle", todo |-> {}, f |-> NoFunction, step |-> 0, left |-> pci.left]
    BY <2>1, Zenon DEF IdlePci
  <2>4. pci' \in PciTypes /\ pci'.op = "idle" /\ pci'.f = NoFunction /\ pci'.step = 0
    BY <2>2, <2>3 DEF PciTypes, PciOps
  <2>5. pci.op = "unload" => \A f \in Functions : bus[f] # "bound"
    BY <1>1, <1>2, <2>1, FunctionFacts, Zenon DEF PciInv
  <2>6. PciInv'
    BY <2>4, Zenon DEF PciInv
  <2> QED
    BY <1>2, <2>1, <2>4, <2>5, <2>6, BusStill, Zenon DEF PciTypes
<1>4. ASSUME NEW f \in Functions, NotFound(f) \/ UnloadNext(f)
      PROVE  DriverInv'
  <2>1. /\ slots' = slots
        /\ \/ /\ pci' = [pci EXCEPT !.todo = @ \ {f}] /\ pci.op \in {"load", "rescan", "hotplug"}
           \/ pci' = [pci EXCEPT !.f = f, !.todo = @ \ {f}] /\ pci.op = "unload" /\ f \in pci.todo
    BY <1>4, Zenon DEF NotFound, ProbeNext, UnloadNext
  <2>2. /\ pci' \in PciTypes /\ pci'.op = pci.op /\ pci'.todo = pci.todo \ {f} /\ pci'.step = 0
        /\ pci'.f = pci.f \/ (pci'.f = f /\ pci.op = "unload")
    BY <1>2, <2>1, Zenon DEF PciTypes
  <2>3. /\ pci.op = "unload" => pci'.f = f
        /\ pci.op \in {"load", "rescan", "hotplug", "unload"}
    BY <1>2, <2>1, Zenon DEF PciTypes
  <2>4. PciInv'
    <3>1. pci'.op # "idle"
      BY <2>2, <2>3, Zenon
    <3>2. pci'.op \in {"load", "rescan", "hotplug"} => \A g \in pci'.todo : bus'[g] # "bound"
      BY <1>1, <1>2, <2>2, Zenon DEF PciInv
    <3>3. pci'.op = "unload" =>
             \A g \in Functions : bus'[g] = "bound" => g \in pci'.todo \/ g = pci'.f
      BY <1>1, <1>2, <2>2, <2>3, FunctionFacts, Zenon DEF PciInv
    <3> QED
      BY <1>2, <2>2, <3>1, <3>2, <3>3, Zenon DEF PciInv
  <2> QED
    BY <1>2, <2>1, <2>2, <2>4, BusStill, Zenon DEF PciTypes
<1> QED
  BY <1>3, <1>4, Zenon

\* A function has been unbound.
LEMMA UnboundKeeps ==
    ASSUME DriverInv, Unbound, UNCHANGED work
    PROVE  DriverInv'
<1>1. TypeInv /\ PciInv
  BY Zenon DEF DriverInv
<1>2. PICK f \in Functions : f = pci.f
  BY <1>1, FunctionFacts, Zenon DEF Unbound
<1>3. /\ bus[f] = "bound" => pci.step = 4
      /\ UNCHANGED <<slots, qdev, entries, qfds, bufs, xfers, ctls>> /\ Functions' = Functions
  BY <1>2, Zenon DEF Unbound, qdmaVars, Functions
<1>4. /\ bus' \in [Functions -> {"absent", "present", "bound"}] /\ bus'[f] # "bound"
      /\ \A g \in Functions \ {f} : bus'[g] = bus[g]
  BY <1>1, <1>2, Zenon DEF Unbound, TypeInv
<1>5. PICK todo : /\ todo = IF pci.op = "hotplug"
                            THEN {g \in Functions : g[1] = f[1] /\ (g = f \/ bus[g] = "absent")}
                            ELSE pci.todo
                  /\ pci' = [pci EXCEPT !.f = NoFunction, !.step = 0, !.todo = todo]
  BY <1>2, Zenon DEF Unbound
<1>6. pci \in PciTypes /\ todo \subseteq Functions
  BY <1>1, <1>5, FunctionFacts, Zenon DEF TypeInv, PciTypes
<1>7. pci' \in PciTypes /\ pci'.op = pci.op /\ pci'.f = NoFunction /\ pci'.step = 0 /\ pci'.todo = todo
  <2>1. pci' = WithPci(pci, NoFunction, 0, todo)
    BY <1>5, Zenon DEF WithPci
  <2> QED
    BY <1>6, <2>1, WithPciFacts
<1>8. PciInv'
  <2>1. pci.op \in {"load", "rescan", "hotplug"} => \A g \in todo : bus'[g] # "bound"
    BY <1>1, <1>4, <1>5, <1>6, Zenon DEF PciInv
  <2>2. pci.op = "unload" => \A g \in Functions : bus'[g] = "bound" => g \in todo
    BY <1>1, <1>2, <1>4, <1>5, Zenon DEF PciInv
  <2> QED
    BY <1>3, <1>7, <2>1, <2>2, Zenon DEF PciInv
<1>9. \A b, pf : <<b, pf>> # NoFunction
  BY Zenon DEF NoFunction
<1>10. ASSUME NEW devs, NEW pf, LifeIn(devs, pf, Functions, bus, f, pci.step)
       PROVE  /\ LifeIn(devs, pf, Functions, bus', NoFunction, 0)
              /\ \A i \in DOMAIN devs : devs[i].bound => <<devs[i].board, pf>> # f
  <2>1. \A i \in DOMAIN devs : devs[i].bound => <<devs[i].board, pf>> # f
    BY <1>3, <1>10 DEF LifeIn
  <2>2. \A i \in DOMAIN devs :
           /\ devs[i].cdev => devs[i].bound
           /\ devs[i].bound =>
                 <<devs[i].board, pf>> \in Functions /\ bus'[<<devs[i].board, pf>>] = "bound"
    BY <1>4, <1>10, <2>1, Zenon DEF LifeIn
  <2>3. \A g \in Functions : bus'[g] = "bound" => g # f /\ bus[g] = "bound"
    BY <1>4, Zenon
  <2>4. \A g \in Functions :
           g[2] = pf /\ bus'[g] = "bound" => \E i \in DOMAIN devs : devs[i].bound /\ devs[i].board = g[1]
    BY <1>10, <2>3, Zenon DEF LifeIn
  <2>5. \A i, j \in DOMAIN devs :
           devs[i].bound /\ devs[j].bound /\ devs[i].board = devs[j].board => i = j
    BY <1>10, Zenon DEF LifeIn
  <2>6. LifeIn(devs, pf, Functions, bus', NoFunction, 0)
    BY <1>9, <2>2, <2>4, <2>5, Zenon DEF LifeIn
  <2> QED
    BY <2>1, <2>6, Zenon
<1>11. LifeIn(qdev, QdmaPf, Functions, bus, f, pci.step) /\ LifeIn(ctls, ControlPf, Functions, bus, f, pci.step)
  BY <1>2, Zenon DEF DriverInv, LifeOf
<1>12. LifeOf(qdev, QdmaPf)' /\ LifeOf(ctls, ControlPf)'
  BY <1>3, <1>7, <1>10, <1>11, Zenon DEF LifeOf
<1>13. TypeInv'
  BY <1>1, <1>3, <1>4, <1>7, Zenon DEF TypeInv, PciTypes
<1>14. SlotsInv'
  BY <1>3, Zenon DEF DriverInv, SlotsInv, Numbered
<1>15. QdmaKept
  BY <1>3, QdmaStill, Zenon DEF qdmaVars
<1>16. \A i \in DOMAIN ctls : ctls[i].bound => <<ctls[i].board, ControlPf>> # f
  BY <1>10, <1>11, Zenon
<1>17. HeldInv'
  BY <1>2, <1>3, <1>16, Zenon DEF DriverInv, HeldInv
<1>18. DeadInv'
  BY <1>7 DEF DeadInv
<1> QED
  BY <1>8, <1>12, <1>13, <1>14, <1>15, <1>17, <1>18, Zenon DEF DriverInv, QdmaKept

\* Nothing is probed but a function without a driver, and the probe takes it off the list.
LEMMA ProbeMoves ==
    ASSUME DriverInv, NEW f \in Functions, ProbeNext(f), NEW on \in {"present", "bound"},
           bus' = [bus EXCEPT ![f] = on], pci' = [pci EXCEPT !.todo = @ \ {f}], UNCHANGED work
    PROVE  /\ bus' \in [Functions -> {"absent", "present", "bound"}] /\ bus'[f] = on
           /\ \A g \in Functions \ {f} : bus'[g] = bus[g]
           /\ bus[f] # "bound" /\ Functions' = Functions
           /\ pci' \in PciTypes /\ pci.f = NoFunction /\ pci.step = 0
           /\ pci'.f = NoFunction /\ pci'.step = 0
           /\ PciInv'
<1>1. TypeInv /\ PciInv
  BY Zenon DEF DriverInv
<1>2. f \in pci.todo /\ pci.f = NoFunction /\ pci.op \in {"load", "rescan", "hotplug"}
  BY Zenon DEF ProbeNext
<1>3. bus[f] # "bound" /\ pci.step = 0 /\ Functions' = Functions
  BY <1>1, <1>2, Zenon DEF PciInv, Functions
<1>4. /\ bus' \in [Functions -> {"absent", "present", "bound"}] /\ bus'[f] = on
      /\ \A g \in Functions \ {f} : bus'[g] = bus[g]
  BY <1>1, Zenon DEF TypeInv
<1>5. pci \in PciTypes
  BY <1>1, Zenon DEF TypeInv, PciTypes
<1>6. pci' \in PciTypes /\ pci'.op = pci.op /\ pci'.f = pci.f /\ pci'.step = pci.step /\ pci'.todo = pci.todo \ {f}
  BY <1>5, Zenon DEF PciTypes
<1>7. PciInv'
  <2>1. \A g \in pci'.todo : bus'[g] # "bound"
    BY <1>1, <1>2, <1>4, <1>6, FunctionFacts, Zenon DEF PciInv
  <2> QED
    BY <1>2, <1>3, <1>6, <2>1, Zenon DEF PciInv
<1> QED
  BY <1>2, <1>3, <1>4, <1>6, <1>7, Zenon

\* Probing one function leaves the instances of the other alone.
LEMMA LifeSees ==
    ASSUME NEW a, NEW pf, NEW functions, NEW on, NEW next, LifeIn(a, pf, functions, on, NoFunction, 0),
           \A g \in functions : g[2] = pf => (next[g] = "bound" <=> on[g] = "bound")
    PROVE  LifeIn(a, pf, functions, next, NoFunction, 0)
<1>1. \A b : <<b, pf>>[2] = pf
  BY Zenon
<1> QED
  BY <1>1, Zenon DEF LifeIn

\* An unbound function gets a driver and an instance d.
Grows(a, d, b, pf, functions, on, next) ==
    LET f == <<d.board, pf>>
    IN /\ \A g \in functions : g = <<g[1], g[2]>>
       /\ f \in functions /\ on[f] # "bound" /\ next[f] = "bound"
       /\ \A g \in functions \ {f} : next[g] = on[g]
       /\ LifeIn(a, pf, functions, on, NoFunction, 0)
       /\ Longer(a, d, b) /\ d.bound

\* A probe makes the one instance of its function.
LEMMA LifeGrows ==
    ASSUME NEW a, NEW b, NEW d, NEW pf, NEW functions, NEW on, NEW next,
           Grows(a, d, b, pf, functions, on, next)
    PROVE  LifeIn(b, pf, functions, next, NoFunction, 0)
<1> USE DEF Grows
<1>1. PICK n : /\ DOMAIN b = DOMAIN a \cup {n} /\ n \notin DOMAIN a
               /\ b[n] = d /\ \A j \in DOMAIN a : b[j] = a[j]
  BY Zenon DEF Longer
<1>2. PICK f \in functions : f = <<d.board, pf>>
  BY Zenon
<1>3. \A j \in DOMAIN a : a[j].bound => a[j].board # d.board
  BY DEF LifeIn
<1>4. \A c : <<c, pf>> # NoFunction
  BY Zenon DEF NoFunction
<1>5. ASSUME NEW j \in DOMAIN b
      PROVE  /\ b[j].cdev => b[j].bound
             /\ b[j].bound => <<b[j].board, pf>> \in functions /\ next[<<b[j].board, pf>>] = "bound"
  <2>1. CASE j = n
    BY <1>1, <2>1, Zenon
  <2>2. CASE j \in DOMAIN a
    <3>1. /\ a[j].cdev => a[j].bound
          /\ a[j].bound => <<a[j].board, pf>> \in functions /\ on[<<a[j].board, pf>>] = "bound"
      BY <2>2, Zenon DEF LifeIn
    <3> QED
      BY <1>1, <1>3, <2>2, <3>1
  <2> QED
    BY <1>1, <2>1, <2>2, Zenon
<1>6. \A j, k \in DOMAIN b : b[j].bound /\ b[k].bound /\ b[j].board = b[k].board => j = k
  <2>1. \A j, k \in DOMAIN a : a[j].bound /\ a[k].bound /\ a[j].board = a[k].board => j = k
    BY Zenon DEF LifeIn
  <2> QED
    BY <1>1, <1>3, <2>1
<1>7. ASSUME NEW g \in functions, g[2] = pf, next[g] = "bound"
      PROVE  \E j \in DOMAIN b : b[j].bound /\ b[j].board = g[1]
  <2>1. CASE g = f
    <3>1. g[1] = d.board
      BY <1>2, <2>1, Zenon
    <3> QED
      BY <1>1, <3>1, Zenon
  <2>2. CASE g # f
    <3>1. on[g] = "bound"
      BY <1>2, <1>7, <2>2, Zenon
    <3>2. g # NoFunction
      BY <1>4, <1>7
    <3>3. PICK j \in DOMAIN a : a[j].bound /\ a[j].board = g[1]
      BY <1>7, <3>1, <3>2, Zenon DEF LifeIn
    <3> QED
      BY <1>1, <3>3
  <2> QED
    BY <2>1, <2>2, Zenon
<1> QED
  BY <1>4, <1>5, <1>6, <1>7, Zenon DEF LifeIn

\* The slots of the boards.
LEMMA SlotsKeep ==
    ASSUME DriverInv
    PROVE  /\ SlotsOk(slots)
           /\ Grown(slots, slots') =>
                 /\ slots' \in Seq(Slots)
                 /\ Numbered(qdev)' /\ Numbered(ctls)' => SlotsInv'
<1>1. SlotsOk(slots)
  BY Zenon DEF DriverInv, TypeInv, SlotsInv, SlotsOk
<1>2. Grown(slots, slots') =>
         /\ slots' \in Seq(Slots)
         /\ Numbered(qdev)' /\ Numbered(ctls)' => SlotsInv'
  BY Zenon DEF Grown, SlotsOk, SlotsInv
<1> QED
  BY <1>1, <1>2, Zenon

\* The probe of PF1.
LEMMA BindQdmaKeeps ==
    ASSUME DriverInv, NEW f \in Functions, ProbeNext(f), f[2] = QdmaPf, QdmaProbe(f[1]),
           UNCHANGED <<ctls, work>>, bus' = [bus EXCEPT ![f] = "bound"],
           pci' = [pci EXCEPT !.todo = @ \ {f}]
    PROVE  DriverInv'
<1>1. TypeInv
  BY Zenon DEF DriverInv
<1>2. /\ bus' \in [Functions -> {"absent", "present", "bound"}] /\ bus'[f] = "bound"
      /\ \A g \in Functions \ {f} : bus'[g] = bus[g]
      /\ bus[f] # "bound" /\ Functions' = Functions
      /\ pci' \in PciTypes /\ pci.f = NoFunction /\ pci.step = 0
      /\ pci'.f = NoFunction /\ pci'.step = 0
      /\ PciInv'
  BY ProbeMoves, Zenon
<1>3. PICK b \in Boards : b = f[1]
  BY <1>1, FunctionFacts, Zenon
<1>4. f = <<b, QdmaPf>> /\ QdmaPf \in Pfs /\ \A g \in Functions : g = <<g[1], g[2]>>
  BY <1>1, <1>3, FunctionFacts, Zenon DEF Pfs
<1>5. PICK got : got = BoardGet(b, QdmaPf)
  BY Zenon
<1>6. ~got.err /\ slots' = got.slots /\ QdmaProbed(b, got.number) /\ UNCHANGED <<entries, qfds, bufs, xfers>>
  BY <1>3, <1>5, Zenon DEF QdmaProbe
<1>7. SlotsOk(slots)
  BY SlotsKeep, Zenon
<1>8. Got(b, got)
  BY <1>4, <1>5, <1>7, GetFacts, Zenon
<1>9. /\ got.number \in Nat /\ got.number + 1 \in DOMAIN slots' /\ slots'[got.number + 1].board = b
      /\ Grown(slots, slots')
  BY <1>6, <1>8, Zenon DEF Got
<1>10. QdmaKept
  BY <1>6, <1>9, ProbeKeeps, Zenon
<1>11. PICK d \in Qdevs : /\ Longer(qdev, d, qdev')
                          /\ d.board = b /\ d.slot = got.number /\ d.cdev /\ d.bound
  BY <1>6, <1>9, ProbeKeeps
<1>12. LifeOf(qdev, QdmaPf)'
  <2>1. LifeIn(qdev, QdmaPf, Functions, bus, NoFunction, 0)
    BY <1>2, Zenon DEF DriverInv, LifeOf
  <2>3. <<d.board, QdmaPf>> = f /\ d.bound /\ Longer(qdev, d, qdev')
    BY <1>4, <1>11, Zenon
  <2>4. /\ <<d.board, QdmaPf>> \in Functions /\ bus[<<d.board, QdmaPf>>] # "bound"
        /\ bus'[<<d.board, QdmaPf>>] = "bound"
        /\ \A g \in Functions \ {<<d.board, QdmaPf>>} : bus'[g] = bus[g]
    BY <1>2, <2>3, Zenon
  <2>5. \A g \in Functions : g = <<g[1], g[2]>>
    BY <1>4, Zenon
  <2>2. LifeIn(qdev', QdmaPf, Functions, bus', NoFunction, 0)
    <3>1. Grows(qdev, d, qdev', QdmaPf, Functions, bus, bus')
      BY <2>1, <2>3, <2>4, <2>5, Zenon DEF Grows
    <3> QED
      BY <3>1, LifeGrows, Zenon
  <2> QED
    BY <1>2, <2>2, Zenon DEF LifeOf
<1>13. LifeOf(ctls, ControlPf)'
  <2>1. LifeIn(ctls, ControlPf, Functions, bus, NoFunction, 0)
    BY <1>2, Zenon DEF DriverInv, LifeOf
  <2>2. \A g \in Functions : g[2] = ControlPf => (bus'[g] = "bound" <=> bus[g] = "bound")
    BY <1>2 DEF QdmaPf, ControlPf
  <2>3. LifeIn(ctls, ControlPf, Functions, bus', NoFunction, 0)
    BY <2>1, <2>2, LifeSees, Zenon
  <2> QED
    BY <1>2, <2>3, Zenon DEF LifeOf
<1>14. Numbered(qdev)' /\ Numbered(ctls)'
  <2>1. Numbered(qdev) /\ Numbered(ctls)
    BY Zenon DEF DriverInv, SlotsInv
  <2>2. \A k \in DOMAIN slots : k \in DOMAIN slots' /\ slots'[k].board = slots[k].board
    BY <1>9, Zenon DEF Grown
  <2>3. Numbered(ctls)'
    BY <2>1, <2>2 DEF Numbered
  <2>4. PICK n : /\ DOMAIN qdev' = DOMAIN qdev \cup {n} /\ n \notin DOMAIN qdev
                 /\ qdev'[n] = d /\ \A j \in DOMAIN qdev : qdev'[j] = qdev[j]
    BY <1>11, Zenon DEF Longer
  <2>5. got.number = (got.number + 1) - 1
    BY <1>9
  <2>6. Numbered(qdev)'
    BY <1>9, <1>11, <2>1, <2>2, <2>4, <2>5, SMTT(30) DEF Numbered
  <2> QED
    BY <2>3, <2>6, Zenon
<1>15. SlotsInv' /\ slots' \in Seq(Slots)
  BY <1>9, <1>14, SlotsKeep, Zenon
<1>16. HeldInv' /\ DeadInv'
  BY <1>2 DEF DriverInv, HeldInv, DeadInv
<1>17. TypeInv'
  BY <1>1, <1>2, <1>10, <1>15, Zenon DEF TypeInv, QdmaKept, PciTypes
<1> QED
  BY <1>2, <1>10, <1>12, <1>13, <1>15, <1>16, <1>17, Zenon DEF DriverInv, QdmaKept

\* The probe of PF2.
LEMMA BindCtlKeeps ==
    ASSUME DriverInv, NEW f \in Functions, ProbeNext(f), f[2] = ControlPf, CtlProbe(f[1]),
           UNCHANGED <<qdmaVars, work>>, bus' = [bus EXCEPT ![f] = "bound"],
           pci' = [pci EXCEPT !.todo = @ \ {f}]
    PROVE  DriverInv'
<1>1. TypeInv
  BY Zenon DEF DriverInv
<1>2. /\ bus' \in [Functions -> {"absent", "present", "bound"}] /\ bus'[f] = "bound"
      /\ \A g \in Functions \ {f} : bus'[g] = bus[g]
      /\ bus[f] # "bound" /\ Functions' = Functions
      /\ pci' \in PciTypes /\ pci.f = NoFunction /\ pci.step = 0
      /\ pci'.f = NoFunction /\ pci'.step = 0
      /\ PciInv'
  BY ProbeMoves, Zenon
<1>3. PICK b \in Boards : b = f[1]
  BY <1>1, FunctionFacts, Zenon
<1>4. f = <<b, ControlPf>> /\ ControlPf \in Pfs /\ \A g \in Functions : g = <<g[1], g[2]>>
  BY <1>1, <1>3, FunctionFacts, Zenon DEF Pfs
<1>5. PICK got : got = BoardGet(b, ControlPf)
  BY Zenon
<1>6. PICK bars, pdev, d :
         /\ bars = [r \in Bars |-> [ref |-> 1, held |-> TRUE, fds |-> 0, vmas |-> 0]]
         /\ pdev = 1 + Cardinality(Bars)
         /\ d = [board |-> b, slot |-> got.number, dead |-> FALSE, cdev |-> TRUE, ref |-> 1,
                 opens |-> 0, bound |-> TRUE, pdev |-> pdev, bars |-> bars]
  BY Zenon
<1>7. ~got.err /\ slots' = got.slots /\ ctls' = Append(ctls, d)
  BY <1>3, <1>5, <1>6, Zenon DEF CtlProbe
<1>8. SlotsOk(slots)
  BY SlotsKeep, Zenon
<1>9. Got(b, got)
  BY <1>4, <1>5, <1>8, GetFacts, Zenon
<1>10. /\ got.number \in Nat /\ got.number + 1 \in DOMAIN slots' /\ slots'[got.number + 1].board = b
       /\ Grown(slots, slots')
  BY <1>7, <1>9, Zenon DEF Got
<1>11. bars \in [Bars -> BarStates] /\ \A r \in Bars : bars[r].held = TRUE
  BY <1>6 DEF BarStates
<1>12. pdev \in Int
  BY <1>6, CtlAssumption, FS_CardinalityType
<1>13. /\ d \in Ctls /\ d.board = b /\ d.slot = got.number /\ d.cdev = TRUE /\ d.bound = TRUE
       /\ d.bars = bars
  BY <1>6, <1>10, <1>11, <1>12 DEF Ctls
<1>14. ctls' \in Seq(Ctls) /\ Longer(ctls, d, ctls')
  BY <1>1, <1>7, <1>13, SeqAppended, Zenon DEF TypeInv
<1>15. LifeOf(ctls, ControlPf)'
  <2>1. LifeIn(ctls, ControlPf, Functions, bus, NoFunction, 0)
    BY <1>2, Zenon DEF DriverInv, LifeOf
  <2>2. <<d.board, ControlPf>> = f /\ d.bound
    BY <1>4, <1>13, Zenon
  <2>3. /\ <<d.board, ControlPf>> \in Functions /\ bus[<<d.board, ControlPf>>] # "bound"
        /\ bus'[<<d.board, ControlPf>>] = "bound"
        /\ \A g \in Functions \ {<<d.board, ControlPf>>} : bus'[g] = bus[g]
    BY <1>2, <2>2, Zenon
  <2>4. Grows(ctls, d, ctls', ControlPf, Functions, bus, bus')
    BY <1>4, <1>14, <2>1, <2>2, <2>3, Zenon DEF Grows
  <2>5. LifeIn(ctls', ControlPf, Functions, bus', NoFunction, 0)
    BY <2>4, LifeGrows, Zenon
  <2> QED
    BY <1>2, <2>5, Zenon DEF LifeOf
<1>16. UNCHANGED <<qdev, entries, qfds, bufs, xfers>>
  BY Zenon DEF qdmaVars
<1>17. LifeOf(qdev, QdmaPf)'
  <2>1. LifeIn(qdev, QdmaPf, Functions, bus, NoFunction, 0)
    BY <1>2, Zenon DEF DriverInv, LifeOf
  <2>2. \A g \in Functions : g[2] = QdmaPf => (bus'[g] = "bound" <=> bus[g] = "bound")
    BY <1>2 DEF QdmaPf, ControlPf
  <2>3. LifeIn(qdev, QdmaPf, Functions, bus', NoFunction, 0)
    BY <2>1, <2>2, LifeSees, Zenon
  <2> QED
    BY <1>2, <1>16, <2>3, Zenon DEF LifeOf
<1>18. PICK n : /\ DOMAIN ctls' = DOMAIN ctls \cup {n} /\ n \notin DOMAIN ctls
                /\ ctls'[n] = d /\ \A j \in DOMAIN ctls : ctls'[j] = ctls[j]
  BY <1>14, Zenon DEF Longer
<1>19. Numbered(qdev)' /\ Numbered(ctls)'
  <2>1. Numbered(qdev) /\ Numbered(ctls)
    BY Zenon DEF DriverInv, SlotsInv
  <2>2. \A k \in DOMAIN slots : k \in DOMAIN slots' /\ slots'[k].board = slots[k].board
    BY <1>10, Zenon DEF Grown
  <2>3. Numbered(qdev)'
    BY <1>16, <2>1, <2>2 DEF Numbered
  <2>4. got.number = (got.number + 1) - 1
    BY <1>10
  <2>5. Numbered(ctls)'
    BY <1>10, <1>13, <1>18, <2>1, <2>2, <2>4, SMTT(30) DEF Numbered
  <2> QED
    BY <2>3, <2>5, Zenon
<1>20. SlotsInv' /\ slots' \in Seq(Slots)
  BY <1>10, <1>19, SlotsKeep, Zenon
<1>21. HeldInv'
  BY <1>2, <1>11, <1>13, <1>18, SMTT(30) DEF DriverInv, HeldInv
<1>22. DeadInv'
  BY <1>2 DEF DeadInv
<1>23. QdmaKept
  BY <1>16, QdmaStill, Zenon DEF qdmaVars
<1>24. TypeInv'
  BY <1>1, <1>2, <1>14, <1>20, <1>23, Zenon DEF TypeInv, QdmaKept, PciTypes
<1> QED
  BY <1>2, <1>15, <1>17, <1>20, <1>21, <1>22, <1>23, <1>24, Zenon DEF DriverInv, QdmaKept

\* A probe that fails.
LEMMA BindFailsKeeps ==
    ASSUME DriverInv, NEW f \in Functions, BindFails(f), UNCHANGED work
    PROVE  DriverInv'
<1>1. TypeInv
  BY Zenon DEF DriverInv
<1>2. /\ ProbeNext(f) /\ bus' = [bus EXCEPT ![f] = "present"]
      /\ pci' = [pci EXCEPT !.todo = @ \ {f}] /\ UNCHANGED <<qdmaVars, ctls>>
  BY Zenon DEF BindFails, QdmaProbeFails, CtlProbeFails
<1>3. /\ bus' \in [Functions -> {"absent", "present", "bound"}] /\ bus'[f] = "present"
      /\ \A g \in Functions \ {f} : bus'[g] = bus[g]
      /\ bus[f] # "bound" /\ Functions' = Functions
      /\ pci' \in PciTypes /\ pci.f = NoFunction /\ pci.step = 0
      /\ pci'.f = NoFunction /\ pci'.step = 0
      /\ PciInv'
  BY <1>2, ProbeMoves, Zenon
<1>4. UNCHANGED <<qdev, entries, qfds, bufs, xfers, ctls>>
  BY <1>2, Zenon DEF qdmaVars
<1>5. \A g \in Functions : bus'[g] = "bound" <=> bus[g] = "bound"
  BY <1>3, Zenon
<1>6. LifeOf(qdev, QdmaPf)'
  <2>1. LifeIn(qdev, QdmaPf, Functions, bus, NoFunction, 0)
    BY <1>3, Zenon DEF DriverInv, LifeOf
  <2>2. LifeIn(qdev, QdmaPf, Functions, bus', NoFunction, 0)
    BY <1>5, <2>1, LifeSees, Zenon
  <2> QED
    BY <1>3, <1>4, <2>2, Zenon DEF LifeOf
<1>7. LifeOf(ctls, ControlPf)'
  <2>1. LifeIn(ctls, ControlPf, Functions, bus, NoFunction, 0)
    BY <1>3, Zenon DEF DriverInv, LifeOf
  <2>2. LifeIn(ctls, ControlPf, Functions, bus', NoFunction, 0)
    BY <1>5, <2>1, LifeSees, Zenon
  <2> QED
    BY <1>3, <1>4, <2>2, Zenon DEF LifeOf
<1>8. SlotsOk(slots)
  BY SlotsKeep, Zenon
<1>9. Grown(slots, slots')
  <2>1. f[1] \in Boards
    BY <1>1, FunctionFacts, Zenon
  <2>2. QdmaPf \in Pfs /\ ControlPf \in Pfs
    BY Zenon DEF Pfs
  <2>3. CASE QdmaProbeFails(f[1])
    BY <1>8, <2>1, <2>2, <2>3, FailedFacts, Zenon DEF QdmaProbeFails
  <2>4. CASE CtlProbeFails(f[1])
    BY <1>8, <2>1, <2>2, <2>4, FailedFacts, Zenon DEF CtlProbeFails
  <2> QED
    BY <2>3, <2>4, Zenon DEF BindFails
<1>10. Numbered(qdev)' /\ Numbered(ctls)'
  <2>1. Numbered(qdev) /\ Numbered(ctls)
    BY Zenon DEF DriverInv, SlotsInv
  <2>2. \A k \in DOMAIN slots : k \in DOMAIN slots' /\ slots'[k].board = slots[k].board
    BY <1>9, Zenon DEF Grown
  <2> QED
    BY <1>4, <2>1, <2>2 DEF Numbered
<1>11. SlotsInv' /\ slots' \in Seq(Slots)
  BY <1>9, <1>10, SlotsKeep, Zenon
<1>12. HeldInv' /\ DeadInv'
  BY <1>3, <1>4, Zenon DEF DriverInv, HeldInv, DeadInv
<1>13. QdmaKept
  BY <1>2, QdmaStill, Zenon
<1>14. TypeInv'
  BY <1>1, <1>3, <1>4, <1>11, <1>13, Zenon DEF TypeInv, QdmaKept, PciTypes
<1> QED
  BY <1>3, <1>6, <1>7, <1>11, <1>12, <1>13, <1>14, Zenon DEF DriverInv, QdmaKept

\* A step of the removal of instance i, of the devices a: b.
Leaves(a, b, i, step) ==
    /\ DOMAIN b = DOMAIN a
    /\ \A j \in DOMAIN a : b[j].board = a[j].board /\ (b[j].cdev => a[j].cdev /\ b[j].slot = a[j].slot)
    /\ \A j \in DOMAIN a \ {i} : b[j].cdev = a[j].cdev /\ b[j].bound = a[j].bound
    /\ step = 1 => ~b[i].cdev
    /\ step < 3 => b[i].bound
    /\ step = 3 => ~b[i].bound

\* The four parts of slash_qdma_remove.
LEMMA QdmaLeaves ==
    ASSUME DriverInv, NEW i \in DOMAIN qdev, qdev[i].bound, NEW step \in 0..3,
           \/ step = 0 /\ ShutDown(i)
           \/ step = 1 /\ Unpublish(i)
           \/ step = 2 /\ TearDown(i)
           \/ step = 3 /\ Unbind(i)
    PROVE  QdmaKept /\ Leaves(qdev, qdev', i, step) /\ Grown(slots, slots')
<1>1. TypeInv /\ SlotsOk(slots)
  BY SlotsKeep, Zenon DEF DriverInv
<1>2. Grown(slots, slots)
  BY <1>1, Zenon DEF Grown
<1>3. /\ qdev[i].shutdown \in BOOLEAN /\ qdev[i].cdev \in BOOLEAN /\ qdev[i].slot \in Nat
      /\ qdev[i].ref \in Int /\ qdev[i].opens \in Nat /\ qdev[i].bound = TRUE
  <2>1. qdev[i] \in Qdevs
    BY <1>1 DEF TypeInv
  <2> QED
    BY <2>1, Zenon DEF Qdevs
<1>4. CASE step = 0 /\ ShutDown(i)
  <2>1. NodeTo(i, TRUE, qdev[i].cdev, qdev[i].slot)
    BY <1>1, <1>4, NodeEffect, Zenon
  <2>2. /\ qdev' \in Seq(Qdevs) /\ SameQueues /\ SameCounts
        /\ \A j \in DOMAIN qdev : qdev'[j].board = qdev[j].board /\ (j # i => qdev'[j] = qdev[j])
        /\ qdev'[i].cdev = qdev[i].cdev /\ qdev'[i].slot = qdev[i].slot
    BY <1>1, <1>3, <2>1, NodeToFacts, ZenonT(40)
  <2>3. UNCHANGED <<slots, entries, qfds, bufs, xfers>>
    BY <1>4, Zenon DEF ShutDown
  <2>4. QdmaKept
    BY <2>2, <2>3, NodeKeeps, Zenon
  <2>5. Leaves(qdev, qdev', i, step)
    BY <1>3, <1>4, <2>2 DEF Leaves, SameCounts
  <2> QED
    BY <1>2, <2>3, <2>4, <2>5, Zenon
<1>5. CASE step = 1 /\ Unpublish(i)
  <2>1. NodeTo(i, qdev[i].shutdown, FALSE, 0)
    BY <1>1, <1>5, NodeEffect, Zenon
  <2>2. /\ qdev' \in Seq(Qdevs) /\ SameQueues /\ SameCounts
        /\ \A j \in DOMAIN qdev : qdev'[j].board = qdev[j].board /\ (j # i => qdev'[j] = qdev[j])
        /\ qdev'[i].cdev = FALSE
    BY <1>1, <1>3, <2>1, NodeToFacts, Zenon
  <2>3. UNCHANGED <<entries, qfds, bufs, xfers>> /\ slots' = BoardPut(qdev[i].board, QdmaPf)
    BY <1>5, Zenon DEF Unpublish
  <2>4. QdmaKept
    BY <2>2, <2>3, NodeKeeps, Zenon
  <2>5. Leaves(qdev, qdev', i, step)
    BY <1>3, <1>5, <2>2 DEF Leaves, SameCounts
  <2> QED
    BY <1>1, <2>3, <2>4, <2>5, PutFacts, Zenon
<1>6. CASE step = 2 /\ TearDown(i)
  <2>1. QdmaKept /\ SameNodes(qdev, qdev')
    BY <1>6, TearDownKeeps, Zenon
  <2>2. Leaves(qdev, qdev', i, step)
    BY <1>3, <1>6, <2>1 DEF Leaves, SameNodes
  <2>3. slots' = slots
    BY <1>6, Zenon DEF TearDown
  <2> QED
    BY <1>2, <2>1, <2>2, <2>3, Zenon
<1>7. CASE step = 3 /\ Unbind(i)
  <2>1. PICK ref \in Int : ref = qdev[i].ref - 1
    BY <1>3
  <2>2. RefsTo(i, ref, qdev[i].opens, FALSE)
    BY <1>1, <1>7, <2>1, RefsEffect, Zenon
  <2>3. /\ qdev' \in Seq(Qdevs) /\ SameQueues
        /\ \A j \in DOMAIN qdev :
              /\ qdev'[j].board = qdev[j].board /\ qdev'[j].slot = qdev[j].slot
              /\ qdev'[j].cdev = qdev[j].cdev
              /\ j # i => qdev'[j] = qdev[j]
        /\ qdev'[i].bound = FALSE
    BY <1>1, <1>3, <2>2, RefsToFacts, Zenon
  <2>4. UNCHANGED <<slots, entries, qfds, bufs, xfers>>
    BY <1>7, Zenon DEF Unbind
  <2>5. QdmaKept
    BY <2>3, <2>4, NodeKeeps, Zenon
  <2>6. Leaves(qdev, qdev', i, step)
    BY <1>3, <1>7, <2>3, SMTT(30) DEF Leaves, SameQueues
  <2> QED
    BY <1>2, <2>4, <2>5, <2>6, Zenon
<1> QED
  BY <1>4, <1>5, <1>6, <1>7, Zenon

\* The four parts of slash_pcie_remove.
LEMMA CtlLeaves ==
    ASSUME DriverInv, NEW i \in DOMAIN ctls, ctls[i].bound, NEW step \in 0..3,
           \/ step = 0 /\ MarkDead(i)
           \/ step = 1 /\ CtlUnpublish(i)
           \/ step = 2 /\ DestroyDmabufs(i)
           \/ step = 3 /\ CtlUnbind(i)
    PROVE  /\ ctls' \in Seq(Ctls) /\ Leaves(ctls, ctls', i, step) /\ Grown(slots, slots')
           /\ \A j \in DOMAIN ctls : j # i => ctls'[j] = ctls[j]
           /\ step = 0 \/ ctls[i].dead => ctls'[i].dead
           /\ step # 2 => ctls'[i].bars = ctls[i].bars
<1>1. TypeInv /\ SlotsOk(slots)
  BY SlotsKeep, Zenon DEF DriverInv
<1>2. Grown(slots, slots)
  BY <1>1, Zenon DEF Grown
<1>3. ctls \in Seq(Ctls) /\ ctls[i] \in Ctls
  BY <1>1 DEF TypeInv
<1>4. /\ ctls[i].dead \in BOOLEAN /\ ctls[i].cdev \in BOOLEAN /\ ctls[i].slot \in Nat
      /\ ctls[i].ref \in Int /\ ctls[i].pdev \in Int /\ ctls[i].bound = TRUE
      /\ ctls[i].bars \in [Bars -> BarStates]
  BY <1>3, Zenon DEF Ctls
<1>5. ASSUME NEW c \in Ctls, ctls' = Changed(ctls, i, c), c.board = ctls[i].board,
             c.cdev => ctls[i].cdev /\ c.slot = ctls[i].slot, step = 1 => ~c.cdev,
             step < 3 => c.bound, step = 3 => ~c.bound
      PROVE  /\ ctls' \in Seq(Ctls) /\ Leaves(ctls, ctls', i, step)
             /\ \A j \in DOMAIN ctls : j # i => ctls'[j] = ctls[j]
             /\ ctls'[i] = c
  <2>1. /\ ctls' \in Seq(Ctls) /\ DOMAIN ctls' = DOMAIN ctls
        /\ \A j \in DOMAIN ctls : ctls'[j] = IF j = i THEN c ELSE ctls[j]
    BY <1>3, <1>5, SeqChanged
  <2> QED
    BY <1>5, <2>1, Zenon DEF Leaves
<1>6. CASE step = 0 /\ MarkDead(i)
  <2>1. PICK c : c = WithCtlNode(ctls[i], TRUE, ctls[i].cdev, ctls[i].slot)
    BY Zenon
  <2>2. ctls' = Changed(ctls, i, c) /\ slots' = slots
    BY <1>1, <1>6, <2>1, CtlRemoveEffect, Zenon DEF MarkDead
  <2>3. /\ c \in Ctls /\ c.board = ctls[i].board /\ c.cdev = ctls[i].cdev /\ c.slot = ctls[i].slot
        /\ c.bound = ctls[i].bound /\ c.dead = TRUE /\ c.bars = ctls[i].bars
    BY <1>3, <1>4, <2>1, Zenon DEF WithCtlNode, Ctls
  <2>4. /\ ctls' \in Seq(Ctls) /\ Leaves(ctls, ctls', i, step) /\ ctls'[i] = c
        /\ \A j \in DOMAIN ctls : j # i => ctls'[j] = ctls[j]
    <3>1. /\ c \in Ctls /\ ctls' = Changed(ctls, i, c) /\ c.board = ctls[i].board
          /\ c.cdev => ctls[i].cdev /\ c.slot = ctls[i].slot
          /\ step = 1 => ~c.cdev
          /\ step < 3 => c.bound
          /\ step = 3 => ~c.bound
      BY <1>4, <1>6, <2>2, <2>3, SMTT(30)
    <3> QED
      BY <1>5, <3>1, Zenon
  <2> QED
    BY <1>2, <1>6, <2>2, <2>3, <2>4, Zenon
<1>7. CASE step = 1 /\ CtlUnpublish(i)
  <2>1. PICK c : c = WithCtlNode(ctls[i], ctls[i].dead, FALSE, 0)
    BY Zenon
  <2>2. ctls' = Changed(ctls, i, c) /\ slots' = BoardPut(ctls[i].board, ControlPf)
    BY <1>1, <1>7, <2>1, CtlRemoveEffect, Zenon DEF CtlUnpublish
  <2>3. /\ c \in Ctls /\ c.board = ctls[i].board /\ c.cdev = FALSE
        /\ c.bound = ctls[i].bound /\ c.dead = ctls[i].dead /\ c.bars = ctls[i].bars
    BY <1>3, <1>4, <2>1, Zenon DEF WithCtlNode, Ctls
  <2>4. Grown(slots, slots')
    BY <1>1, <2>2, PutFacts, Zenon
  <2>5. /\ ctls' \in Seq(Ctls) /\ Leaves(ctls, ctls', i, step) /\ ctls'[i] = c
        /\ \A j \in DOMAIN ctls : j # i => ctls'[j] = ctls[j]
    <3>1. /\ c \in Ctls /\ ctls' = Changed(ctls, i, c) /\ c.board = ctls[i].board
          /\ c.cdev => ctls[i].cdev /\ c.slot = ctls[i].slot
          /\ step = 1 => ~c.cdev
          /\ step < 3 => c.bound
          /\ step = 3 => ~c.bound
      BY <1>4, <1>7, <2>2, <2>3, SMTT(30)
    <3> QED
      BY <1>5, <3>1, Zenon
  <2> QED
    BY <1>7, <2>3, <2>4, <2>5, SMTT(30)
<1>8. CASE step = 2 /\ DestroyDmabufs(i)
  <2>1. PICK pdev : pdev = ctls[i].pdev - Cardinality(Last(ctls[i].bars))
    BY Zenon
  <2>2. pdev \in Int
    <3>1. Last(ctls[i].bars) \subseteq Bars /\ IsFiniteSet(Bars)
      BY CtlAssumption, Zenon DEF Last
    <3>2. Cardinality(Last(ctls[i].bars)) \in Nat
      BY <3>1, FS_Subset, FS_CardinalityType, Zenon
    <3> QED
      BY <1>4, <2>1, <3>2, SMTT(30)
  <2>3. Dropped(ctls[i].bars) \in [Bars -> BarStates]
    BY <1>4, DroppedFacts, Zenon
  <2>4. PICK c : c = WithBars(ctls[i], Dropped(ctls[i].bars), pdev)
    BY Zenon
  <2>5. ctls' = Changed(ctls, i, c) /\ slots' = slots
    BY <1>1, <1>8, <2>1, <2>4, CtlRemoveEffect, Zenon DEF DestroyDmabufs
  <2>6. /\ c \in Ctls /\ c.board = ctls[i].board /\ c.cdev = ctls[i].cdev /\ c.slot = ctls[i].slot
        /\ c.bound = ctls[i].bound /\ c.dead = ctls[i].dead
    BY <1>3, <2>2, <2>3, <2>4, Zenon DEF WithBars, Ctls
  <2>7. /\ ctls' \in Seq(Ctls) /\ Leaves(ctls, ctls', i, step) /\ ctls'[i] = c
        /\ \A j \in DOMAIN ctls : j # i => ctls'[j] = ctls[j]
    <3>1. /\ c \in Ctls /\ ctls' = Changed(ctls, i, c) /\ c.board = ctls[i].board
          /\ c.cdev => ctls[i].cdev /\ c.slot = ctls[i].slot
          /\ step = 1 => ~c.cdev
          /\ step < 3 => c.bound
          /\ step = 3 => ~c.bound
      BY <1>4, <1>8, <2>5, <2>6, SMTT(30)
    <3> QED
      BY <1>5, <3>1, Zenon
  <2> QED
    BY <1>2, <1>8, <2>5, <2>6, <2>7, SMTT(30)
<1>9. CASE step = 3 /\ CtlUnbind(i)
  <2>1. PICK ref \in Int, pdev \in Int : ref = ctls[i].ref - 1 /\ pdev = ctls[i].pdev - 1
    BY <1>4
  <2>2. PICK c : c = WithoutBinding(ctls[i], ref, pdev)
    BY Zenon
  <2>3. ctls' = Changed(ctls, i, c) /\ slots' = slots
    BY <1>1, <1>9, <2>1, <2>2, CtlRemoveEffect, Zenon DEF CtlUnbind
  <2>4. /\ c \in Ctls /\ c.board = ctls[i].board /\ c.cdev = ctls[i].cdev /\ c.slot = ctls[i].slot
        /\ ~c.bound /\ c.dead = ctls[i].dead /\ c.bars = ctls[i].bars
    BY <1>3, <2>2, WithoutBindingFacts, SMTT(30)
  <2>5. /\ ctls' \in Seq(Ctls) /\ Leaves(ctls, ctls', i, step) /\ ctls'[i] = c
        /\ \A j \in DOMAIN ctls : j # i => ctls'[j] = ctls[j]
    BY <1>4, <1>5, <1>9, <2>3, <2>4, SMTT(30)
  <2> QED
    BY <1>2, <1>9, <2>3, <2>4, <2>5, SMTT(30)
<1> QED
  BY <1>6, <1>7, <1>8, <1>9, Zenon

\* The function being removed, and its instance.
LEMMA OwnInstance ==
    ASSUME NEW devs, NEW pf, NEW functions, NEW on, NEW f \in functions, NEW step \in 0..3,
           LifeIn(devs, pf, functions, on, f, step), f[2] = pf, on[f] = "bound"
    PROVE  \E i \in DOMAIN devs : devs[i].bound /\ devs[i].board = f[1]
BY DEF LifeIn

\* The nodes left have their numbers.
LEMMA LeavesNumbered ==
    ASSUME NEW a, NEW b, NEW s, NEW t, NEW i, NEW step, Leaves(a, b, i, step), Grown(s, t),
           \A j \in DOMAIN a : a[j].cdev =>
              \E k \in DOMAIN s : s[k].board = a[j].board /\ a[j].slot = k - 1
    PROVE  \A j \in DOMAIN b : b[j].cdev =>
              \E k \in DOMAIN t : t[k].board = b[j].board /\ b[j].slot = k - 1
<1> SUFFICES ASSUME NEW j \in DOMAIN b, b[j].cdev
             PROVE  \E k \in DOMAIN t : t[k].board = b[j].board /\ b[j].slot = k - 1
  BY Zenon
<1>1. j \in DOMAIN a /\ a[j].cdev /\ b[j].board = a[j].board /\ b[j].slot = a[j].slot
  BY Zenon DEF Leaves
<1>2. PICK k \in DOMAIN s : s[k].board = a[j].board /\ a[j].slot = k - 1
  BY <1>1, Zenon
<1>3. k \in DOMAIN t /\ t[k].board = s[k].board
  BY Zenon DEF Grown
<1> QED
  BY <1>1, <1>2, <1>3, Zenon

\* A step of the removal moves the lock's holder on by one.
LEMMA StepMoves ==
    ASSUME DriverInv, pci.f # NoFunction, bus[pci.f] = "bound", pci.step < 4,
           pci' = [pci EXCEPT !.step = @ + 1], UNCHANGED <<bus, work>>
    PROVE  /\ pci.f \in Functions /\ pci.f = <<pci.f[1], pci.f[2]>> /\ pci.step \in 0..3
           /\ pci' \in PciTypes /\ pci'.f = pci.f /\ pci'.step = pci.step + 1
           /\ Functions' = Functions /\ PciInv'
<1>1. TypeInv /\ PciInv
  BY Zenon DEF DriverInv
<1>2. pci.f \in Functions /\ pci.f = <<pci.f[1], pci.f[2]>> /\ pci.step \in 0..3
  BY <1>1, FunctionFacts
<1>3. /\ pci' \in PciTypes /\ pci'.f = pci.f /\ pci'.step = pci.step + 1
      /\ pci'.op = pci.op /\ pci'.todo = pci.todo
  <2>1. PICK p \in PciTypes : p = pci
    BY <1>1, Zenon DEF TypeInv, PciTypes
  <2>2. PICK next \in 0..4 : next = pci.step + 1
    BY <1>2
  <2>3. pci' = [p EXCEPT !.step = next]
    BY <2>1, <2>2, Zenon
  <2>4. /\ pci' \in PciTypes /\ pci'.f = p.f /\ pci'.step = next
        /\ pci'.op = p.op /\ pci'.todo = p.todo
    BY <2>3, Zenon DEF PciTypes
  <2> QED
    BY <2>1, <2>2, <2>4, Zenon
<1>4. Functions' = Functions
  BY Zenon DEF Functions
<1>5. PciInv'
  BY <1>1, <1>3, <1>4, Zenon DEF PciInv
<1> QED
  BY <1>2, <1>3, <1>4, <1>5, Zenon

\* A step of slash_qdma_remove.
LEMMA UnbindQdmaKeeps ==
    ASSUME DriverInv, UnbindStep, pci.f[2] = QdmaPf, UNCHANGED work
    PROVE  DriverInv'
<1>1. TypeInv
  BY Zenon DEF DriverInv
<1>2. /\ pci.f # NoFunction /\ bus[pci.f] = "bound" /\ pci.step < 4 /\ UNCHANGED <<bus, ctls>>
      /\ pci' = [pci EXCEPT !.step = @ + 1]
  BY DEF UnbindStep, QdmaPf, ControlPf
<1>3. /\ pci.f \in Functions /\ pci.f = <<pci.f[1], pci.f[2]>> /\ pci.step \in 0..3
      /\ pci' \in PciTypes /\ pci'.f = pci.f /\ pci'.step = pci.step + 1
      /\ Functions' = Functions /\ PciInv'
  BY <1>2, StepMoves, Zenon
<1>4. LifeIn(qdev, QdmaPf, Functions, bus, pci.f, pci.step)
  BY Zenon DEF DriverInv, LifeOf
<1>5. PICK i : i = QdmaOf(pci.f[1])
  BY Zenon
<1>6. i \in DOMAIN qdev /\ qdev[i].bound /\ qdev[i].board = pci.f[1]
  <2>1. \E j \in DOMAIN qdev : qdev[j].bound /\ qdev[j].board = pci.f[1]
    BY <1>2, <1>3, <1>4, OwnInstance, SMTT(30)
  <2> QED
    BY <1>5, <2>1, Zenon DEF QdmaOf
<1>7. \/ pci.step = 0 /\ ShutDown(i)
      \/ pci.step = 1 /\ Unpublish(i)
      \/ pci.step = 2 /\ TearDown(i)
      \/ pci.step = 3 /\ Unbind(i)
  BY <1>3, <1>5 DEF UnbindStep, QdmaPf, ControlPf
<1>8. QdmaKept /\ Leaves(qdev, qdev', i, pci.step) /\ Grown(slots, slots')
  BY <1>3, <1>6, <1>7, QdmaLeaves, Zenon
<1>9. pci.f = <<qdev[i].board, QdmaPf>>
  BY <1>3, <1>6, Zenon
<1>10. LifeOf(qdev, QdmaPf)'
  <2>1. \A g \in Functions : g = <<g[1], g[2]>>
    BY <1>1, FunctionFacts, Zenon
  <2>2. LifeIn(qdev, QdmaPf, Functions, bus, <<qdev[i].board, QdmaPf>>, pci.step)
    BY <1>4, <1>9, Zenon
  <2>3. LifeIn(qdev', QdmaPf, Functions, bus, <<qdev[i].board, QdmaPf>>, pci.step + 1)
    BY <1>3, <1>6, <1>8, <2>1, <2>2, LifeMoves, Zenon DEF Leaves
  <2> QED
    BY <1>2, <1>3, <1>9, <2>3, Zenon DEF LifeOf
<1>11. LifeOf(ctls, ControlPf)'
  <2>1. LifeIn(ctls, ControlPf, Functions, bus, pci.f, pci.step) /\ pci.f[2] # ControlPf
    BY DEF DriverInv, LifeOf, QdmaPf, ControlPf
  <2>2. LifeIn(ctls, ControlPf, Functions, bus, pci.f, pci.step + 1)
    BY <2>1, LifeElse, Zenon
  <2> QED
    BY <1>2, <1>3, <2>2, Zenon DEF LifeOf
<1>12. Numbered(qdev)' /\ Numbered(ctls)'
  <2>1. Numbered(qdev) /\ Numbered(ctls)
    BY Zenon DEF DriverInv, SlotsInv
  <2>2. Numbered(qdev)'
    BY <1>8, <2>1, LeavesNumbered DEF Numbered
  <2>3. \A k \in DOMAIN slots : k \in DOMAIN slots' /\ slots'[k].board = slots[k].board
    BY <1>8, Zenon DEF Grown
  <2>4. Numbered(ctls)'
    BY <1>2, <2>1, <2>3 DEF Numbered
  <2> QED
    BY <2>2, <2>4, Zenon
<1>13. SlotsInv' /\ slots' \in Seq(Slots)
  BY <1>8, <1>12, SlotsKeep, Zenon
<1>14. HeldInv' /\ DeadInv'
  <2>1. \A b : pci.f # <<b, ControlPf>>
    BY <1>9 DEF QdmaPf, ControlPf
  <2> QED
    BY <1>2, <1>3, <2>1, Zenon DEF DriverInv, HeldInv, DeadInv
<1>15. TypeInv'
  BY <1>1, <1>2, <1>3, <1>8, <1>13, Zenon DEF TypeInv, QdmaKept, PciTypes
<1> QED
  BY <1>3, <1>8, <1>10, <1>11, <1>13, <1>14, <1>15, Zenon DEF DriverInv, QdmaKept

\* A step of slash_pcie_remove.
LEMMA UnbindCtlKeeps ==
    ASSUME DriverInv, UnbindStep, pci.f[2] = ControlPf, UNCHANGED work
    PROVE  DriverInv'
<1>1. TypeInv
  BY Zenon DEF DriverInv
<1>2. /\ pci.f # NoFunction /\ bus[pci.f] = "bound" /\ pci.step < 4 /\ UNCHANGED <<bus, qdmaVars>>
      /\ pci' = [pci EXCEPT !.step = @ + 1]
  BY DEF UnbindStep, QdmaPf, ControlPf
<1>3. /\ pci.f \in Functions /\ pci.f = <<pci.f[1], pci.f[2]>> /\ pci.step \in 0..3
      /\ pci' \in PciTypes /\ pci'.f = pci.f /\ pci'.step = pci.step + 1
      /\ Functions' = Functions /\ PciInv'
  BY <1>2, StepMoves, Zenon
<1>4. LifeIn(ctls, ControlPf, Functions, bus, pci.f, pci.step)
  BY Zenon DEF DriverInv, LifeOf
<1>5. PICK i : i = CtlOf(pci.f[1])
  BY Zenon
<1>6. i \in DOMAIN ctls /\ ctls[i].bound /\ ctls[i].board = pci.f[1]
  <2>1. \E j \in DOMAIN ctls : ctls[j].bound /\ ctls[j].board = pci.f[1]
    BY <1>2, <1>3, <1>4, OwnInstance, SMTT(30)
  <2> QED
    BY <1>5, <2>1, Zenon DEF CtlOf
<1>7. \/ pci.step = 0 /\ MarkDead(i)
      \/ pci.step = 1 /\ CtlUnpublish(i)
      \/ pci.step = 2 /\ DestroyDmabufs(i)
      \/ pci.step = 3 /\ CtlUnbind(i)
  BY <1>3, <1>5 DEF UnbindStep, QdmaPf, ControlPf
<1>8. /\ ctls' \in Seq(Ctls) /\ Leaves(ctls, ctls', i, pci.step) /\ Grown(slots, slots')
      /\ \A j \in DOMAIN ctls : j # i => ctls'[j] = ctls[j]
      /\ pci.step = 0 \/ ctls[i].dead => ctls'[i].dead
      /\ pci.step # 2 => ctls'[i].bars = ctls[i].bars
  BY <1>3, <1>6, <1>7, CtlLeaves, Zenon
<1>9. pci.f = <<ctls[i].board, ControlPf>>
  BY <1>3, <1>6, Zenon
<1>10. LifeOf(ctls, ControlPf)'
  <2>1. \A g \in Functions : g = <<g[1], g[2]>>
    BY <1>1, FunctionFacts, Zenon
  <2>2. LifeIn(ctls, ControlPf, Functions, bus, <<ctls[i].board, ControlPf>>, pci.step)
    BY <1>4, <1>9, Zenon
  <2>3. LifeIn(ctls', ControlPf, Functions, bus, <<ctls[i].board, ControlPf>>, pci.step + 1)
    BY <1>3, <1>6, <1>8, <2>1, <2>2, LifeMoves, Zenon DEF Leaves
  <2> QED
    BY <1>2, <1>3, <1>9, <2>3, Zenon DEF LifeOf
<1>11. UNCHANGED <<qdev, entries, qfds, bufs, xfers>>
  BY <1>2, Zenon DEF qdmaVars
<1>12. LifeOf(qdev, QdmaPf)'
  <2>1. LifeIn(qdev, QdmaPf, Functions, bus, pci.f, pci.step) /\ pci.f[2] # QdmaPf
    BY DEF DriverInv, LifeOf, QdmaPf, ControlPf
  <2>2. LifeIn(qdev, QdmaPf, Functions, bus, pci.f, pci.step + 1)
    BY <2>1, LifeElse, Zenon
  <2> QED
    BY <1>2, <1>3, <1>11, <2>2, Zenon DEF LifeOf
<1>13. Numbered(qdev)' /\ Numbered(ctls)'
  <2>1. Numbered(qdev) /\ Numbered(ctls)
    BY Zenon DEF DriverInv, SlotsInv
  <2>2. Numbered(ctls)'
    BY <1>8, <2>1, LeavesNumbered, SMTT(30) DEF Numbered
  <2>3. \A k \in DOMAIN slots : k \in DOMAIN slots' /\ slots'[k].board = slots[k].board
    BY <1>8, Zenon DEF Grown
  <2>4. Numbered(qdev)'
    BY <1>11, <2>1, <2>3, SMTT(30) DEF Numbered
  <2> QED
    BY <2>2, <2>4, Zenon
<1>14. SlotsInv' /\ slots' \in Seq(Slots)
  BY <1>8, <1>13, SlotsKeep, Zenon
<1>15. DOMAIN ctls' = DOMAIN ctls /\ ctls'[i].board = ctls[i].board
  BY <1>6, <1>8, Zenon DEF Leaves
<1>16. \A j \in DOMAIN ctls : j # i /\ ctls[j].bound => pci.f # <<ctls[j].board, ControlPf>>
  BY <1>4, <1>6, <1>9, SMTT(30) DEF LifeIn
<1>17. pci.step >= 1 => ctls[i].dead
  BY <1>6, <1>9, ZenonT(40) DEF DriverInv, DeadInv
<1>18. ctls'[i].dead
  BY <1>3, <1>8, <1>17, SMTT(30)
<1>19. DeadInv'
  BY <1>3, <1>8, <1>15, <1>16, <1>18, Zenon DEF DeadInv
<1>20. HeldInv'
  <2>1. ASSUME NEW j \in DOMAIN ctls, NEW r \in Bars, ~ctls'[j].bars[r].held
        PROVE  /\ ctls'[j].dead
               /\ ctls'[j].bound => pci.f = <<ctls'[j].board, ControlPf>> /\ pci.step + 1 >= 3
    <3>1. CASE j # i
      <4>1. ctls'[j] = ctls[j] /\ ~ctls[j].bars[r].held
        BY <1>8, <2>1, <3>1, Zenon
      <4>2. ctls[j].dead /\ ~ctls[j].bound
        BY <1>16, <3>1, <4>1, Zenon DEF DriverInv, HeldInv
      <4> QED
        BY <4>1, <4>2, Zenon
    <3>2. CASE j = i
      <4>1. pci.step >= 2
        <5>1. CASE pci.step # 2
          <6>1. ~ctls[i].bars[r].held
            BY <1>8, <2>1, <3>2, <5>1, Zenon
          <6>2. pci.step >= 3
            BY <1>6, <6>1, Zenon DEF DriverInv, HeldInv
          <6> QED
            BY <1>3, <6>2
        <5> QED
          BY <5>1
      <4> QED
        BY <1>3, <1>9, <1>15, <1>18, <3>2, <4>1, SMTT(30)
    <3> QED
      BY <3>1, <3>2, Zenon
  <2> QED
    BY <1>3, <1>15, <2>1, Zenon DEF HeldInv
<1>21. QdmaKept
  BY <1>2, QdmaStill, Zenon
<1>22. TypeInv'
  BY <1>1, <1>2, <1>3, <1>8, <1>14, <1>21, Zenon DEF TypeInv, QdmaKept, PciTypes
<1> QED
  BY <1>3, <1>10, <1>12, <1>14, <1>19, <1>20, <1>21, <1>22, Zenon DEF DriverInv, QdmaKept

------------------------------------------------------------------------------
(* The actions of the specification *)

\* The PCI operations under way.
LEMMA PciStepKeeps ==
    ASSUME DriverInv, PciStep, UNCHANGED work
    PROVE  DriverInv'
<1>1. ASSUME NEW f \in Functions, Bind(f)
      PROVE  DriverInv'
  <2>1. CASE f[2] = QdmaPf /\ QdmaProbe(f[1]) /\ UNCHANGED ctls
    BY <1>1, <2>1, BindQdmaKeeps, Zenon DEF Bind
  <2>2. CASE f[2] = ControlPf /\ CtlProbe(f[1]) /\ UNCHANGED qdmaVars
    BY <1>1, <2>2, BindCtlKeeps, Zenon DEF Bind
  <2> QED
    BY <1>1, <2>1, <2>2, Zenon DEF Bind
<1>2. CASE UnbindStep
  BY <1>2, UnbindQdmaKeeps, UnbindCtlKeeps, Zenon DEF UnbindStep
<1> QED
  BY <1>1, <1>2, BindFailsKeeps, NextKeeps, UnboundKeeps, Zenon DEF PciStep

==============================================================================

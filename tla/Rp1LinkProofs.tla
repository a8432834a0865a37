---------------------------- MODULE Rp1LinkProofs ----------------------------
(***************************************************************************)
(* Proofs about Rp1Link, for any callers, launches, images, ring sizes and *)
(* word widths: while the firmware works through an image, the window      *)
(* holds that image and nothing else; the completion ring delivers its     *)
(* completions in order and without loss; the window protocol implements   *)
(* the contract of launching (Rp1Contract); and between launches the       *)
(* device knows which image is loaded.                                     *)
(***************************************************************************)
EXTENDS Rp1Link, Integers, TLAPS

----------------------------------------------------------------------------
(* Types.                                                                  *)

Words == 0..(WordWrap - 1)
Numbers == Launches \cup {0}

Boots == {"boot", "boot_init", "boot_done", "boot_cq", "boot_ready", "boot_magic"}
Resting == Boots \cup {"idle"}
Active == {"accepted", "config", "packet", "kernel", "record", "bump", "publish", "publish_done"}
Statuses == {"ok", "error", "timeout"}
Records == [launch : Numbers, packet : Nat, status : Statuses]

Shaking == {"magic", "await", "hs_size", "hs_read", "hs_write"}
Staging == {"args", "nodes", "count", "size", "ring"}
Draining == {"drain", "copy"}
PlanPcs ==
  {"none", "lease", "leased", "enter", "preflight", "state", "done", "last", "judge", "join"}
    \cup Shaking \cup Staging \cup Draining

WinType ==
  win \in [magic : BOOLEAN, state : {"INIT", "READY", "RUNNING", "ERROR"}, seq : Words,
           done : Words, size : 1..MaxCqSize, wr : Words, rd : Words, nodes : Numbers,
           args : Numbers, count : Numbers, sentinel : BOOLEAN]

RingType == ring \in [0..(MaxCqSize - 1) -> Records]

FwType ==
  fw \in [pc : Resting \cup Active, seq : Words, img : Numbers, n : Nat, k : Nat,
          status : Statuses, failed : BOOLEAN]

SubType ==
  sub \in [ready : BOOLEAN, size : 1..MaxCqSize, cursor : Words, pending : Seq(Records),
           poisoned : BOOLEAN, active : BOOLEAN]

DevType ==
  dev \in [leased : BOOLEAN, poisoned : BOOLEAN, active : Numbers, quarantine : SUBSET Numbers]

PlanRecord ==
  [pc : PlanPcs, l : Numbers, site : {"pre", "wait", "last", "raw"}, end : Words, i : Words,
   want : Words, rung : BOOLEAN, err : BOOLEAN, lost : BOOLEAN, pinned : BOOLEAN]

PlanType == plan \in [Callers -> PlanRecord]

LogType ==
  /\ log \in [result : [Launches -> [out : {"none", "ok", "error"}, evidence : Seq(Records)]],
              bell : Numbers, finished : SUBSET Numbers, spare : Nat]

Types == WinType /\ RingType /\ FwType /\ SubType /\ DevType /\ PlanType /\ LogType

----------------------------------------------------------------------------
(* The inductive invariant, in named parts.                                *)

\* The firmware has nothing to do and nothing to accept.
Quiet ==
  \/ fw.pc \in Resting /\ win.seq = win.done
  \/ fw.pc \in {"idle", "publish_done"} /\ win.state = "ERROR"

\* The execution lease: one holder at most.
Holds(c) == plan[c].pc \notin {"none", "lease"}

Leased ==
  /\ \A c \in Callers : Holds(c) => dev.leased
  /\ \A c, d \in Callers : Holds(c) /\ Holds(d) => c = d

\* Sequence words: the firmware works on the doorbell rung last, which is not done yet.
Sequenced ==
  /\ log.bell = 0 => fw.pc \in Resting /\ win.seq = win.done /\ win.wr = win.done
  /\ fw.pc \in Boots => win.done = 0 /\ win.wr = 0
  /\ fw.pc \in Active => fw.seq = win.seq /\ win.done # win.seq
  /\ win.state = "ERROR" => fw.pc \in {"idle", "publish_done"} /\ log.bell # 0

\* The ring: both sides know its length, and the producer never overruns it.
Bounded ==
  /\ win.size = sub.size
  /\ sub.ready => sub.cursor = win.rd
  /\ log.bell # 0 => sub.ready /\ Used <= win.size
  /\ fw.pc \in {"record", "bump"} => Used < win.size
  /\ \A c \in Callers : plan[c].pc = "copy" => Minus(win.wr, plan[c].end) <= Used

\* The window holds one image whenever there is something to work through.
Staged ==
  /\ ~Quiet => win.args = win.nodes /\ win.count = win.nodes
  /\ fw.pc \in Scanning => fw.img = win.nodes

\* A caller from its claim of the submitter to its doorbell: the card rests.
Preparing(c) == plan[c].pc \in Staging \/ (plan[c].pc \in Draining /\ plan[c].site = "pre")

Prepared(c) ==
  /\ plan[c].pc \in Shaking => ~sub.ready /\ ~sub.poisoned /\ ~plan[c].rung
  /\ plan[c].pc = "preflight" => sub.ready /\ ~sub.poisoned /\ ~plan[c].rung
  /\ Preparing(c) => /\ sub.ready /\ ~sub.poisoned /\ ~plan[c].rung
                     /\ fw.pc \in Resting /\ win.seq = win.done
  /\ plan[c].pc = "copy" /\ plan[c].site = "pre" => plan[c].end = win.wr
  /\ plan[c].pc \in Staging => win.rd = win.wr
  /\ plan[c].pc \in Staging \ {"args"} => win.args = plan[c].l
  /\ plan[c].pc \in {"count", "size", "ring"} => win.nodes = plan[c].l
  /\ plan[c].pc \in {"size", "ring"} => win.count = plan[c].l /\ plan[c].want = Plus1(win.seq)

\* A caller from its doorbell to its result: what it stops waiting for is over, or the
\* submitter is poisoned.
Rung(c) ==
  /\ plan[c].rung => /\ plan[c].pc \in Draining \cup {"state", "done", "last", "judge", "join"}
                     /\ plan[c].site # "pre"
                     /\ plan[c].want = win.seq /\ log.bell # 0
  /\ plan[c].rung /\ plan[c].site # "wait" => Quiet \/ sub.poisoned
  /\ plan[c].pc \in {"state", "done"} => plan[c].site = "wait" /\ plan[c].rung
  /\ plan[c].pc = "last" => plan[c].site = "last" /\ plan[c].rung
  /\ plan[c].pc \in {"judge", "join"} /\ plan[c].rung => plan[c].site = "raw"
  /\ plan[c].pc \in Draining /\ plan[c].site # "pre" => plan[c].rung
  /\ Holds(c) /\ plan[c].pc # "leased" => plan[c].l \in Launches

\* Without a launch under way the card is at rest.
AtRest == (\A c \in Callers : ~plan[c].rung) /\ ~sub.poisoned => Quiet

LinkInv ==
  /\ Types
  /\ Leased /\ Sequenced /\ Bounded /\ Staged /\ AtRest
  /\ \A c \in Callers : Prepared(c) /\ Rung(c)

----------------------------------------------------------------------------
(* Words and sizes.                                                        *)

\* The widths, without what LinkAssumption says of the images.
LEMMA Sizes ==
  /\ WordWrap \in Nat /\ MaxCqSize \in Nat
  /\ CqSize \in 1..MaxCqSize /\ MaxCqSize < WordWrap
  BY LinkAssumption, Zenon DEF isValidCqSize

\* Adding one is adding one, or the step from the last word to 0.
LEMMA NextWord ==
  ASSUME NEW a \in Words
  PROVE  Plus1(a) = IF a = WordWrap - 1 THEN 0 ELSE a + 1
  BY Sizes DEF Plus1, Words

\* The distance from one word to another, written without a remainder.
LEMMA Distance ==
  ASSUME NEW a \in Words, NEW b \in Words
  PROVE  Minus(a, b) = IF a >= b THEN a - b ELSE a + WordWrap - b
  BY Sizes DEF Minus, Words

\* A successor is a word, and another one.
LEMMA WordStep ==
  ASSUME NEW a \in Words
  PROVE  Plus1(a) \in Words /\ Plus1(a) # a
  BY Sizes, NextWord DEF Words

\* Distances are words; a word is at distance 0 from itself.
LEMMA WordDistance ==
  ASSUME NEW a \in Words, NEW b \in Words
  PROVE  Minus(a, b) \in Words /\ Minus(a, a) = 0
  BY Sizes, Distance DEF Words

\* The distance grows by one with the producer, short of a full turn.
LEMMA DistanceStep ==
  ASSUME NEW a \in Words, NEW b \in Words, Minus(a, b) < WordWrap - 1
  PROVE  Minus(Plus1(a), b) = Minus(a, b) + 1
<1>1. Plus1(a) \in Words
  BY WordStep, Zenon
<1>2. Minus(a, b) = IF a >= b THEN a - b ELSE a + WordWrap - b
  BY Distance, Zenon
<1>3. Minus(Plus1(a), b) = IF Plus1(a) >= b THEN Plus1(a) - b ELSE Plus1(a) + WordWrap - b
  BY <1>1, Distance, Zenon
<1>4. QED
  BY <1>1, <1>2, <1>3, Sizes, NextWord DEF Words

\* A length the submitter accepts is within the ring.
LEMMA ValidSize ==
  ASSUME NEW n, isValidCqSize(n)
  PROVE  n \in 1..MaxCqSize
  BY Zenon DEF isValidCqSize

----------------------------------------------------------------------------
(* The firmware.                                                           *)

\* What a step of the firmware leaves alone: the host's side, the staged image and
\* what the host wrote in the window.
FwFrame ==
  /\ UNCHANGED host
  /\ log'.bell = log.bell
  /\ win'.seq = win.seq /\ win'.size = win.size /\ win'.rd = win.rd
  /\ win'.nodes = win.nodes /\ win'.args = win.args /\ win'.count = win.count

\* The bounds survive a step that leaves the producer's cursor alone.
LEMMA CursorKept ==
  ASSUME Bounded, FwFrame, win'.wr = win.wr,
         fw'.pc \in {"record", "bump"} => Used < win.size
  PROVE  Bounded'
  BY Zenon DEF Bounded, FwFrame, host, Used

\* A step of the firmware keeps the invariant if it keeps the words in order, the
\* bounds of the ring and a card at rest, and works on no other image.
LEMMA FirmwareFrame ==
  ASSUME LinkInv, FwFrame, Types', Sequenced', Bounded', Quiet => Quiet',
         fw.pc \in Resting /\ win.seq = win.done =>
             fw'.pc \in Resting /\ win'.done = win.done /\ win'.wr = win.wr,
         fw'.pc \in Scanning => fw'.img = win.nodes
  PROVE  LinkInv'
<1>1. Leased'
  BY Zenon DEF LinkInv, Leased, Holds, FwFrame, host
<1>2. Staged'
  BY Zenon DEF LinkInv, Staged, FwFrame
<1>3. AtRest'
  BY Zenon DEF LinkInv, AtRest, FwFrame, host
<1>4. ASSUME NEW c \in Callers PROVE Prepared(c)'
  BY Zenon DEF LinkInv, Prepared, Preparing, Staging, Draining, FwFrame, host
<1>5. ASSUME NEW c \in Callers PROVE Rung(c)'
  BY Zenon DEF LinkInv, Rung, Holds, FwFrame, host
<1>6. QED
  BY <1>1, <1>2, <1>3, <1>4, <1>5, Zenon DEF LinkInv

\* Start-up writes what the window holds already, but for the state and the magic.
LEMMA BootStep == ASSUME LinkInv, Boot PROVE LinkInv'
<1>1. Types /\ Sequenced /\ Bounded
  BY Zenon DEF LinkInv
<1>2. /\ fw.pc \in Boots /\ fw'.pc \in Resting
      /\ win'.done = win.done /\ win'.wr = win.wr
      /\ win'.state \in {win.state, "INIT", "READY"}
      /\ fw'.pc \in Boots \/ fw'.pc = "idle"
  BY <1>1 DEF Boot, FwGo, Boots, Resting, Types, WinType, FwType, Sequenced
<1>3. FwFrame
  BY <1>1 DEF Boot, FwFrame, Types, WinType
<1>4. Types'
  <2>1. WinType'
    <3>1. 0 \in Words
      BY Sizes DEF Words
    <3>2. QED
      BY <1>1, <3>1, ZenonT(40) DEF Boot, Types, WinType
  <2>2. FwType'
    BY <1>1 DEF Boot, FwGo, Types, FwType, Boots, Resting
  <2>3. UNCHANGED <<ring, sub, dev, plan, log>>
    BY Zenon DEF Boot, host
  <2>4. QED
    BY <1>1, <2>1, <2>2, <2>3, Zenon DEF Types, RingType, SubType, DevType, PlanType, LogType
<1>5. Sequenced'
  BY <1>1, <1>2, <1>3, Zenon DEF Sequenced, Boots, Resting, Active, FwFrame
<1>6. Bounded'
  BY <1>1, <1>2, <1>3, CursorKept, Zenon DEF Boots, Resting
<1>7. Quiet => Quiet'
  BY <1>1, <1>2, <1>3, Zenon DEF Quiet, FwFrame, Boots, Resting, Sequenced
<1>8. QED
  BY <1>2, <1>3, <1>4, <1>5, <1>6, <1>7, FirmwareFrame, Zenon DEF Boots, Resting, Scanning

\* The host's side keeps its types when the firmware moves.
LEMMA HostTypesKept ==
  ASSUME Types, UNCHANGED host, WinType', RingType', FwType', LogType'
  PROVE  Types'
  BY Zenon DEF Types, host, SubType, DevType, PlanType

\* A doorbell is accepted once, and not after an error.
LEMMA AcceptStep == ASSUME LinkInv, Accept PROVE LinkInv'
<1>1. Types /\ Sequenced /\ Bounded
  BY Zenon DEF LinkInv
<1>2. FwFrame /\ UNCHANGED <<win, ring, log>>
  BY Zenon DEF Accept, FwFrame, host
<1>3. fw'.pc = "accepted" /\ fw'.seq = win.seq /\ FwType'
  BY <1>1, Zenon DEF Accept, Types, FwType, WinType, Active
<1>4. Types'
  BY <1>1, <1>2, <1>3, HostTypesKept, Zenon DEF Types, WinType, RingType, LogType, FwFrame
<1>5. Sequenced'
  BY <1>1, <1>2, <1>3, Zenon DEF Accept, Sequenced, Boots, Resting, Active
<1>6. Bounded'
  BY <1>1, <1>2, <1>3, CursorKept, Zenon
<1>7. ~Quiet
  BY Zenon DEF Accept, Quiet
<1>8. QED
  BY <1>2, <1>3, <1>4, <1>5, <1>6, <1>7, FirmwareFrame, Zenon DEF Accept, Scanning

\* From acceptance to publication a step keeps the sequence numbers.
LEMMA WorkFrame ==
  ASSUME LinkInv, FwFrame, Types', Bounded',
         fw.pc \in Active \ {"publish_done"}, fw'.pc \in Active, fw'.seq = fw.seq,
         win'.done = win.done, win'.state = "ERROR" => fw'.pc = "publish_done",
         fw'.pc \in Scanning => fw'.img = win.nodes
  PROVE  LinkInv'
<1>1. Sequenced'
  BY Zenon DEF LinkInv, Sequenced, Boots, Resting, Active, FwFrame
<1>2. ~Quiet /\ fw.pc \notin Resting
  BY Zenon DEF Quiet, Resting, Boots, Active
<1>3. QED
  BY <1>1, <1>2, FirmwareFrame, Zenon

\* ERROR is only published at the end of a graph.
LEMMA NoError ==
  ASSUME LinkInv, fw.pc \in Active \ {"publish_done"}
  PROVE  win.state # "ERROR"
  BY Zenon DEF LinkInv, Sequenced, Active

\* The state word becomes RUNNING.
LEMMA SetRunningStep == ASSUME LinkInv, SetRunning PROVE LinkInv'
<1>1. Types /\ Bounded
  BY Zenon DEF LinkInv
<1>2. fw.pc = "accepted" /\ fw'.pc = "config" /\ fw'.seq = fw.seq /\ FwType'
  BY <1>1, Zenon DEF SetRunning, FwGo, Types, FwType, Active
<1>3. FwFrame /\ win'.state = "RUNNING" /\ win'.done = win.done /\ win'.wr = win.wr /\ WinType'
  BY <1>1, Zenon DEF SetRunning, FwFrame, Types, WinType
<1>4. Types'
  BY <1>1, <1>2, <1>3, HostTypesKept, Zenon DEF SetRunning, Types, RingType, LogType
<1>5. Bounded'
  BY <1>1, <1>2, <1>3, CursorKept, Zenon
<1>6. QED
  BY <1>2, <1>3, <1>4, <1>5, WorkFrame, Zenon DEF Scanning, Active

\* The scan starts on the image in the window.
LEMMA StoreInitStep == ASSUME LinkInv, StoreInit PROVE LinkInv'
<1>1. Types /\ Bounded
  BY Zenon DEF LinkInv
<1>2. FwFrame /\ UNCHANGED <<win, ring, log>>
  BY Zenon DEF StoreInit, FwFrame, host
<1>3. ASSUME win.count # 0 PROVE Len(ImageOf[win.count].packets) \in Nat
  <2>1. win.count \in Launches
    BY <1>1, <1>3, Zenon DEF Types, WinType, Numbers
  <2>2. ImageOf[win.count].packets \in Seq(PacketKinds)
    BY <2>1, LinkAssumption, Zenon
  <2>3. QED
    BY <2>2
<1>4. /\ fw.pc = "config" /\ fw'.pc \in {"packet", "publish"} /\ fw'.seq = fw.seq
      /\ fw'.pc = "packet" => fw'.img = win.nodes
  BY <1>1, Zenon DEF StoreInit, Types, FwType
<1>5. FwType'
  BY <1>1, <1>3, Zenon DEF StoreInit, ConfigOK, Types, FwType, WinType, Active
<1>6. Types'
  BY <1>1, <1>2, <1>5, HostTypesKept, Zenon DEF Types, WinType, RingType, LogType, FwFrame
<1>7. Bounded'
  BY <1>1, <1>2, <1>4, CursorKept, Zenon
<1>8. QED
  BY <1>2, <1>4, <1>6, <1>7, WorkFrame, NoError, Zenon DEF Scanning, Active

\* A packet is taken only with room for its record.
LEMMA ActivateStep == ASSUME LinkInv, Activate PROVE LinkInv'
<1>1. Types /\ Bounded /\ Staged
  BY Zenon DEF LinkInv
<1>2. Used \in Words /\ win.size \in Nat
  BY <1>1, WordDistance DEF Types, WinType, Used
<1>3. /\ fw.pc = "packet" /\ fw'.pc \in {"kernel", "record", "publish"} /\ fw'.seq = fw.seq
      /\ fw'.img = fw.img /\ FwType'
      /\ fw'.pc = "record" => ~(Used > win.size)
  BY <1>1, ZenonT(40) DEF Activate, Dispatch, FwFails, Types, FwType, Active, Statuses
<1>4. /\ WinType' /\ FwFrame
      /\ win'.done = win.done /\ win'.wr = win.wr /\ win'.state = win.state
  BY <1>1, Zenon DEF Activate, Dispatch, Types, WinType, FwFrame
<1>5. Types'
  BY <1>1, <1>3, <1>4, HostTypesKept, Zenon DEF Activate, Types, RingType, LogType
<1>6. fw'.pc = "record" => Used < win.size
  BY <1>2, <1>3, Sizes DEF Activate, Words
<1>7. Bounded'
  BY <1>1, <1>3, <1>4, <1>6, CursorKept, Zenon
<1>8. QED
  BY <1>1, <1>3, <1>4, <1>5, <1>7, WorkFrame, NoError, Zenon DEF Staged, Scanning, Active

\* So is the end of a kernel.
LEMMA CheckInflightStep == ASSUME LinkInv, CheckInflight PROVE LinkInv'
<1>1. Types /\ Bounded /\ Staged
  BY Zenon DEF LinkInv
<1>2. Used \in Words /\ win.size \in Nat
  BY <1>1, WordDistance DEF Types, WinType, Used
<1>3. /\ fw.pc = "kernel" /\ fw'.pc \in {"record", "publish"} /\ fw'.seq = fw.seq
      /\ fw'.img = fw.img /\ FwType'
      /\ fw'.pc = "record" => ~(Used > win.size)
  BY <1>1, Zenon DEF CheckInflight, FwFails, Types, FwType, Active, Statuses
<1>4. FwFrame /\ UNCHANGED <<win, ring, log>>
  BY Zenon DEF CheckInflight, FwFrame, host
<1>5. Types'
  BY <1>1, <1>3, <1>4, HostTypesKept, Zenon DEF Types, WinType, RingType, LogType, FwFrame
<1>6. fw'.pc = "record" => Used < win.size
  BY <1>2, <1>3, Sizes DEF CheckInflight, Words
<1>7. Bounded'
  BY <1>1, <1>3, <1>4, <1>6, CursorKept, Zenon
<1>8. QED
  BY <1>1, <1>3, <1>4, <1>5, <1>7, WorkFrame, NoError, Zenon DEF Staged, Scanning, Active

\* A record is written into the slot before the cursor moves.
LEMMA WriteRecordStep == ASSUME LinkInv, WriteRecord PROVE LinkInv'
<1>1. Types /\ Bounded /\ Staged
  BY Zenon DEF LinkInv
<1>2. fw.pc = "record" /\ fw'.pc = "bump" /\ fw'.seq = fw.seq /\ fw'.img = fw.img /\ FwType'
  BY <1>1, Zenon DEF WriteRecord, FwGo, Types, FwType, Active
<1>3. FwFrame /\ UNCHANGED <<win, log>>
  BY Zenon DEF WriteRecord, FwFrame, host
<1>4. RingType'
  <2>1. [launch |-> win.nodes, packet |-> fw.k, status |-> fw.status] \in Records
    BY <1>1, Zenon DEF Types, WinType, FwType, Records
  <2>2. QED
    BY <1>1, <2>1, Zenon DEF WriteRecord, Types, RingType
<1>5. Types'
  BY <1>1, <1>2, <1>3, <1>4, HostTypesKept, Zenon DEF Types, WinType, LogType, FwFrame
<1>6. Bounded'
  BY <1>1, <1>2, <1>3, CursorKept, Zenon DEF Bounded
<1>7. QED
  BY <1>1, <1>2, <1>3, <1>5, <1>6, WorkFrame, NoError, Zenon DEF Staged, Scanning, Active

\* The cursor moves by one and stays within the ring.
LEMMA BumpCursorStep == ASSUME LinkInv, BumpCursor PROVE LinkInv'
<1>1. Types /\ Bounded /\ Staged
  BY Zenon DEF LinkInv
<1>2. /\ fw.pc = "bump" /\ fw'.pc \in {"packet", "publish"} /\ fw'.seq = fw.seq
      /\ fw'.img = fw.img
  BY <1>1, Zenon DEF BumpCursor, Types, FwType
<1>3. FwType'
  <2>1. fw.k + 1 \in Nat /\ fw \in [pc : Resting \cup Active, seq : Words, img : Numbers, n : Nat,
                                    k : Nat, status : Statuses, failed : BOOLEAN]
    BY <1>1 DEF Types, FwType
  <2>2. CASE fw.status = "ok"
    BY <2>1, <2>2, Zenon DEF BumpCursor, FwType, Active
  <2>3. CASE fw.status # "ok"
    BY <2>1, <2>3, Zenon DEF BumpCursor, FwType, Active
  <2>4. QED
    BY <2>2, <2>3, Zenon
<1>4. /\ FwFrame /\ UNCHANGED <<ring, log>>
      /\ win'.done = win.done /\ win'.state = win.state /\ win'.wr = Plus1(win.wr)
  BY <1>1, Zenon DEF BumpCursor, FwFrame, Types, WinType
<1>5. WinType'
  <2>1. Plus1(win.wr) \in Words
    BY <1>1, WordStep, Zenon DEF Types, WinType
  <2>2. QED
    BY <1>1, <2>1, Zenon DEF BumpCursor, Types, WinType
<1>6. Types'
  BY <1>1, <1>3, <1>4, <1>5, HostTypesKept, Zenon DEF Types, RingType, LogType, FwFrame
<1>7. Bounded'
  <2>1. /\ win.wr \in Words /\ win.rd \in Words /\ win.size \in 1..MaxCqSize
        /\ \A c \in Callers : plan[c].end \in Words
    BY <1>1, Zenon DEF Types, WinType, PlanType, PlanRecord
  <2>2. Used \in Words /\ Used < win.size
    BY <1>1, <1>2, <2>1, WordDistance, Zenon DEF Bounded, Used
  <2>3. Used < WordWrap - 1
    BY <2>1, <2>2, Sizes DEF Words
  <2>4. Used' = Used + 1
    BY <1>4, <2>1, <2>3, DistanceStep, Zenon DEF Used, FwFrame
  <2>5. ASSUME NEW c \in Callers, plan[c].pc = "copy"
        PROVE  Minus(win'.wr, plan[c].end) <= Used + 1
    <3>1. Minus(win.wr, plan[c].end) <= Used /\ Minus(win.wr, plan[c].end) \in Words
      BY <1>1, <2>1, <2>5, WordDistance, Zenon DEF Bounded
    <3>2. Minus(win.wr, plan[c].end) < WordWrap - 1
      BY <2>2, <2>3, <3>1, Sizes DEF Words
    <3>3. Minus(win'.wr, plan[c].end) = Minus(win.wr, plan[c].end) + 1
      BY <1>4, <2>1, <3>2, DistanceStep, Zenon
    <3>4. QED
      BY <2>2, <3>1, <3>3, Sizes DEF Words
  <2>6. Used + 1 <= win.size
    BY <2>1, <2>2, Sizes DEF Words
  <2>7. QED
    BY <1>1, <1>2, <1>4, <2>4, <2>5, <2>6, Zenon DEF Bounded, FwFrame, host
<1>8. QED
  BY <1>1, <1>2, <1>4, <1>6, <1>7, WorkFrame, NoError, Zenon DEF Staged, Scanning, Active

\* The end of the scan.
LEMMA CompleteStep == ASSUME LinkInv, Complete PROVE LinkInv'
<1>1. Types /\ Bounded
  BY Zenon DEF LinkInv
<1>2. fw.pc = "packet" /\ fw'.pc = "publish" /\ fw'.seq = fw.seq /\ FwType'
  BY <1>1, Zenon DEF Complete, Types, FwType, Active
<1>3. LogType' /\ log'.bell = log.bell
  BY <1>1, Zenon DEF Complete, Types, FwType, LogType
<1>4. FwFrame /\ UNCHANGED <<win, ring>>
  BY <1>3, Zenon DEF Complete, FwFrame, host
<1>5. Types'
  BY <1>1, <1>2, <1>3, <1>4, HostTypesKept, Zenon DEF Types, WinType, RingType, FwFrame
<1>6. Bounded'
  BY <1>1, <1>2, <1>4, CursorKept, Zenon
<1>7. QED
  BY <1>2, <1>4, <1>5, <1>6, WorkFrame, NoError, Zenon DEF Scanning, Active

\* The outcome is published before the sequence number.
LEMMA PublishStateStep == ASSUME LinkInv, PublishState PROVE LinkInv'
<1>1. Types /\ Bounded
  BY Zenon DEF LinkInv
<1>2. fw.pc = "publish" /\ fw'.pc = "publish_done" /\ fw'.seq = fw.seq /\ FwType'
  BY <1>1, Zenon DEF PublishState, FwGo, Types, FwType, Active
<1>3. FwFrame /\ win'.done = win.done /\ win'.wr = win.wr /\ WinType'
  BY <1>1, Zenon DEF PublishState, FwFrame, Types, WinType
<1>4. Types'
  BY <1>1, <1>2, <1>3, HostTypesKept, Zenon DEF PublishState, Types, RingType, LogType
<1>5. Bounded'
  BY <1>1, <1>2, <1>3, CursorKept, Zenon
<1>6. QED
  BY <1>2, <1>3, <1>4, <1>5, WorkFrame, Zenon DEF Scanning, Active

\* With the sequence number the card is at rest.
LEMMA PublishDoneStep == ASSUME LinkInv, PublishDone PROVE LinkInv'
<1>1. Types /\ Bounded /\ Sequenced
  BY Zenon DEF LinkInv
<1>2. fw.pc = "publish_done" /\ fw'.pc = "idle" /\ FwType'
  BY <1>1, Zenon DEF PublishDone, FwGo, Types, FwType, Resting
<1>3. /\ FwFrame /\ win'.done = fw.seq /\ win'.wr = win.wr /\ win'.state = win.state
      /\ WinType'
  BY <1>1, Zenon DEF PublishDone, FwFrame, Types, WinType, FwType
<1>4. Types'
  BY <1>1, <1>2, <1>3, HostTypesKept, Zenon DEF PublishDone, Types, RingType, LogType
<1>5. Bounded'
  BY <1>1, <1>2, <1>3, CursorKept, Zenon
<1>6. Sequenced' /\ Quiet'
  BY <1>1, <1>2, <1>3, Zenon DEF Sequenced, Quiet, Boots, Resting, Active, FwFrame
<1>7. QED
  BY <1>2, <1>3, <1>4, <1>5, <1>6, FirmwareFrame, Zenon DEF Scanning, Resting, Boots

\* Starting over before the first doorbell finds every word at 0.
LEMMA RestartStep == ASSUME LinkInv, Restart PROVE LinkInv'
<1>1. Types /\ Bounded /\ Sequenced
  BY Zenon DEF LinkInv
<1>2. fw'.pc = "boot" /\ FwType'
  BY <1>1, Zenon DEF Restart, Types, FwType, Resting, Boots
<1>3. LogType' /\ log'.bell = log.bell /\ log.bell = 0 /\ win.seq = 0
  BY <1>1 DEF Restart, Types, LogType
<1>4. FwFrame /\ UNCHANGED <<win, ring>>
  BY <1>3, Zenon DEF Restart, FwFrame, host
<1>5. Types'
  BY <1>1, <1>2, <1>3, <1>4, HostTypesKept, Zenon DEF Types, WinType, RingType, FwFrame
<1>6. Bounded'
  BY <1>1, <1>2, <1>4, CursorKept, Zenon
<1>7. Sequenced' /\ Quiet'
  BY <1>1, <1>2, <1>3, <1>4, Zenon DEF Sequenced, Quiet, Boots, Resting, Active
<1>8. QED
  BY <1>2, <1>4, <1>5, <1>6, <1>7, FirmwareFrame, Zenon DEF Scanning, Resting, Boots

\* A kernel that finishes touches nothing the invariant speaks of.
LEMMA KernelFinishesStep == ASSUME LinkInv, KernelFinishes PROVE LinkInv'
  BY DEF LinkInv, KernelFinishes, host, Types, WinType, RingType, FwType, SubType, DevType,
         PlanType, LogType, Leased, Holds, Sequenced, Bounded, Used, Staged, Quiet, AtRest,
         Prepared, Preparing, Rung

\* Every step of the firmware keeps the invariant.
LEMMA FirmwareStep == ASSUME LinkInv, Firmware PROVE LinkInv'
  BY BootStep, AcceptStep, SetRunningStep, StoreInitStep, ActivateStep, CheckInflightStep,
     WriteRecordStep, BumpCursorStep, CompleteStep, PublishStateStep, PublishDoneStep, Zenon
  DEF Firmware

----------------------------------------------------------------------------
(* The host.                                                               *)

\* Nobody but the holder of the lease is inside a launch.
LEMMA OthersOutside ==
  ASSUME LinkInv, NEW c \in Callers, Holds(c), NEW d \in Callers, d # c
  PROVE  plan[d].pc \in {"none", "lease"} /\ ~plan[d].rung
<1>1. ~Holds(d)
  BY Zenon DEF LinkInv, Leased
<1>2. Rung(d) /\ plan[d].rung \in BOOLEAN
  BY Zenon DEF LinkInv, Types, PlanType, PlanRecord
<1>3. QED
  BY <1>1, <1>2, Zenon DEF Holds, Rung, Draining

\* A caller outside a launch is bound by nothing.
LEMMA OutsideFree ==
  ASSUME NEW d \in Callers, plan'[d].pc \in {"none", "lease"}, ~plan'[d].rung
  PROVE  Prepared(d)' /\ Rung(d)' /\ plan'[d].pc # "copy"
  BY Zenon DEF Prepared, Preparing, Rung, Holds, Shaking, Staging, Draining

\* The bounds of the ring but for the drain under way.
RingBounds ==
  /\ win.size = sub.size
  /\ sub.ready => sub.cursor = win.rd
  /\ log.bell # 0 => sub.ready /\ Used <= win.size
  /\ fw.pc \in {"record", "bump"} => Used < win.size

\* A step of the holder keeps the invariant if it keeps the holder's part of it.
LEMMA HolderFrame ==
  ASSUME LinkInv, NEW c \in Callers, Types', Holds(c), Holds(c)',
         \A d \in Callers \ {c} : plan'[d] = plan[d],
         dev'.leased = dev.leased, Sequenced', Staged', RingBounds',
         plan'[c].pc = "copy" => Minus(win'.wr, plan'[c].end) <= Used',
         ~plan'[c].rung /\ ~sub'.poisoned => Quiet',
         Prepared(c)', Rung(c)'
  PROVE  LinkInv'
<1>1. ASSUME NEW d \in Callers, d # c
      PROVE  /\ plan'[d].pc \in {"none", "lease"} /\ ~plan'[d].rung
             /\ Prepared(d)' /\ Rung(d)' /\ plan'[d].pc # "copy"
  BY <1>1, OthersOutside, OutsideFree, Zenon
<1>2. Leased'
  BY <1>1, Zenon DEF LinkInv, Leased, Holds
<1>3. Bounded'
  BY <1>1, Zenon DEF RingBounds, Bounded
<1>4. AtRest'
  BY Zenon DEF AtRest
<1>5. QED
  BY <1>1, <1>2, <1>3, <1>4, Zenon DEF LinkInv

\* The same for a step that writes nothing into the window.
LEMMA PollFrame ==
  ASSUME LinkInv, NEW c \in Callers, UNCHANGED <<win, ring, fw>>,
         log'.bell = log.bell, sub'.size = sub.size, sub'.ready = sub.ready,
         sub'.cursor = sub.cursor, dev'.leased = dev.leased,
         SubType', DevType', PlanType', LogType',
         \A d \in Callers \ {c} : plan'[d] = plan[d],
         Holds(c), Holds(c)',
         plan'[c].pc = "copy" => Minus(win.wr, plan'[c].end) <= Used,
         ~plan'[c].rung /\ ~sub'.poisoned => Quiet,
         Prepared(c)', Rung(c)'
  PROVE  LinkInv'
<1>1. Types'
  BY Zenon DEF LinkInv, Types, WinType, RingType, FwType
<1>2. Sequenced' /\ Staged' /\ RingBounds' /\ Quiet' = Quiet /\ Used' = Used
  BY Zenon DEF LinkInv, Sequenced, Staged, Bounded, RingBounds, Quiet, Used
<1>3. QED
  BY <1>1, <1>2, HolderFrame, Zenon

\* An assignment to the place of a caller changes nothing else of its plan.
LEMMA GoEffect ==
  ASSUME PlanType, NEW c \in Callers, NEW x \in PlanPcs, Go(c, x)
  PROVE  /\ PlanType'
         /\ plan'[c] = [plan[c] EXCEPT !.pc = x]
         /\ plan'[c].pc = x /\ plan'[c].l = plan[c].l /\ plan'[c].site = plan[c].site
         /\ plan'[c].end = plan[c].end /\ plan'[c].want = plan[c].want
         /\ plan'[c].rung = plan[c].rung
         /\ \A d \in Callers \ {c} : plan'[d] = plan[d]
  BY DEF PlanType, PlanRecord, Go

\* Where a caller is inside a launch without its doorbell rung, the card is at rest.
LEMMA RestBefore ==
  ASSUME LinkInv, NEW c \in Callers, Holds(c), ~plan[c].rung, ~sub.poisoned
  PROVE  Quiet
<1>1. \A d \in Callers : ~plan[d].rung
  BY OthersOutside, Zenon
<1>2. QED
  BY <1>1, Zenon DEF LinkInv, AtRest

\* A caller between launches moves.
LEMMA OutsideFrame ==
  ASSUME LinkInv, NEW c \in Callers, UNCHANGED <<win, ring, fw, sub, log>>,
         DevType', PlanType', Leased', \A d \in Callers \ {c} : plan'[d] = plan[d],
         ~plan[c].rung, ~plan'[c].rung, plan'[c].pc \in {"none", "lease", "leased"}
  PROVE  LinkInv'
<1>1. Types'
  BY DEF LinkInv, Types, WinType, RingType, FwType, SubType, LogType
<1>2. ASSUME NEW d \in Callers PROVE Prepared(d)' /\ Rung(d)'
  <2>1. CASE d = c
    BY <2>1, Zenon DEF Prepared, Preparing, Rung, Holds, Shaking, Staging, Draining
  <2>2. CASE d # c
    <3>1. plan'[d] = plan[d] /\ Prepared(d) /\ Rung(d)
      BY <2>2, Zenon DEF LinkInv
    <3>2. Quiet' = Quiet
      BY Zenon DEF Quiet
    <3>3. QED
      BY <3>1, <3>2 DEF Prepared, Preparing, Rung, Holds
  <2>3. QED
    BY <2>1, <2>2, Zenon
<1>3. Sequenced' /\ Staged'
  BY Zenon DEF LinkInv, Sequenced, Staged, Quiet
<1>4. Bounded'
  BY Zenon DEF LinkInv, Bounded, Used
<1>5. AtRest'
  BY Zenon DEF LinkInv, AtRest, Quiet
<1>6. QED
  BY <1>1, <1>2, <1>3, <1>4, <1>5, Zenon DEF LinkInv

\* A place outside a launch, or the handing over of the lease.
LEMMA NotRung ==
  ASSUME LinkInv, NEW c \in Callers,
         plan[c].pc \in {"none", "lease", "leased", "enter", "preflight"} \cup Shaking \cup Staging
  PROVE  ~plan[c].rung
  BY Zenon DEF LinkInv, Rung, Types, PlanType, PlanRecord, Shaking, Staging, Draining

\* Taking and giving back the lease.
LEMMA LeaseStep ==
  ASSUME LinkInv, NEW c \in Callers, LeaseCheck(c) \/ LeaseTake(c) \/ Release(c)
  PROVE  LinkInv'
<1>1. Types /\ Leased
  BY Zenon DEF LinkInv
<1>2. plan[c].pc \in {"none", "lease", "leased"} /\ ~plan[c].rung
  BY NotRung, Zenon DEF LeaseCheck, LeaseTake, Release, At
<1>3. DevType'
  BY <1>1, Zenon DEF Types, DevType, SubType, LeaseCheck, LeaseTake, Release
<1>4. /\ PlanType' /\ \A d \in Callers \ {c} : plan'[d] = plan[d]
      /\ ~plan'[c].rung /\ plan'[c].pc \in {"none", "lease", "leased"}
  <2>1. {"none", "lease", "leased"} \subseteq PlanPcs
    BY Zenon DEF PlanPcs
  <2>2. UNCHANGED plan \/ \E x \in {"none", "lease", "leased"} : Go(c, x)
    BY Zenon DEF LeaseCheck, LeaseTake, Release
  <2>3. QED
    BY <1>1, <1>2, <2>1, <2>2, GoEffect, Zenon DEF Types, PlanType
<1>5. Leased'
  <2>1. CASE LeaseCheck(c)
    <3>1. dev'.leased = dev.leased /\ plan'[c].pc \in {"none", "lease"}
      BY <1>1, <1>2, <2>1, GoEffect, Zenon DEF LeaseCheck, At, Types, DevType, PlanPcs
    <3>2. QED
      BY <1>1, <1>4, <3>1, Zenon DEF Leased, Holds
  <2>2. CASE LeaseTake(c)
    <3>1. dev'.leased /\ plan'[c].pc = IF dev.leased THEN "none" ELSE "leased"
      BY <1>1, <2>2, GoEffect, Zenon DEF LeaseTake, Types, DevType, PlanPcs
    <3>2. QED
      BY <1>1, <1>4, <3>1, Zenon DEF Leased, Holds
  <2>3. CASE Release(c)
    <3>1. plan'[c].pc = "none" /\ Holds(c)
      BY <1>1, <2>3, GoEffect, Zenon DEF Release, At, Holds, Types, PlanPcs
    <3>2. QED
      BY <1>1, <1>4, <3>1, Zenon DEF Leased, Holds
  <2>4. QED
    BY <2>1, <2>2, <2>3, Zenon
<1>6. UNCHANGED <<win, ring, fw, sub, log>>
  BY Zenon DEF LeaseCheck, LeaseTake, Release, card
<1>7. QED
  BY <1>2, <1>3, <1>4, <1>5, <1>6, OutsideFrame, Zenon

\* A launch starts with a plan of its own.
LEMMA LaunchStep == ASSUME LinkInv, NEW c \in Callers, Launch(c) PROVE LinkInv'
<1>1. Types
  BY Zenon DEF LinkInv
<1>2. PICK l \in Launches :
        plan' = [plan EXCEPT ![c] = [IdlePlan EXCEPT !.pc = "enter", !.l = l, !.pinned = TRUE]]
  BY Zenon DEF Launch
<1>3. /\ PlanType' /\ \A d \in Callers \ {c} : plan'[d] = plan[d]
      /\ plan'[c].pc = "enter" /\ plan'[c].l = l /\ plan'[c].rung = FALSE
  <2>1. 0 \in Words
    BY Sizes DEF Words
  <2>2. QED
    BY <1>1, <1>2, <2>1, Zenon DEF Types, PlanType, PlanRecord, IdlePlan, PlanPcs, Numbers
<1>4. Holds(c) /\ Holds(c)' /\ ~plan[c].rung
  BY <1>3, NotRung, Zenon DEF Launch, At, Holds
<1>5. Prepared(c)' /\ Rung(c)'
  BY <1>3, Zenon DEF Prepared, Preparing, Rung, Holds, Shaking, Staging, Draining
<1>6. UNCHANGED <<win, ring, fw, sub, dev, log>>
  BY Zenon DEF Launch, card
<1>7. ~sub.poisoned => Quiet
  BY <1>4, RestBefore, Zenon
<1>8. QED
  BY <1>1, <1>3, <1>4, <1>5, <1>6, <1>7, PollFrame, Zenon DEF Types, SubType, DevType, LogType

\* An exception leaves a card at rest, a poisoned submitter, or no doorbell.
LEMMA ThrowStep ==
  ASSUME LinkInv, NEW c \in Callers, Throw(c), UNCHANGED <<win, ring, fw, dev, log>>,
         Holds(c), plan[c].pc # "leased", plan[c].rung => Quiet \/ sub.poisoned
  PROVE  LinkInv'
<1>1. Types /\ Rung(c)
  BY Zenon DEF LinkInv
<1>2. /\ PlanType' /\ \A d \in Callers \ {c} : plan'[d] = plan[d]
      /\ plan'[c].pc = (IF plan[c].rung THEN "drain" ELSE "judge")
      /\ plan'[c].site = "raw" /\ plan'[c].l = plan[c].l
      /\ plan'[c].rung = plan[c].rung /\ plan'[c].want = plan[c].want
  <2> DEFINE to == IF plan[c].rung THEN "drain" ELSE "judge"
  <2>1. to \in PlanPcs
    BY Zenon DEF PlanPcs, Draining
  <2>2. plan' = [plan EXCEPT ![c].err = TRUE, ![c].site = "raw", ![c].pc = to]
    BY Zenon DEF Throw
  <2> HIDE DEF to
  <2>3. plan'[c] \in PlanRecord /\ \A d \in Callers \ {c} : plan'[d] = plan[d]
    BY <1>1, <2>1, <2>2, ZenonT(40) DEF Types, PlanType, PlanRecord
  <2>4. /\ plan'[c].pc = to /\ plan'[c].site = "raw" /\ plan'[c].l = plan[c].l
        /\ plan'[c].rung = plan[c].rung /\ plan'[c].want = plan[c].want
    BY <1>1, <2>1, <2>2 DEF Types, PlanType, PlanRecord
  <2>5. PlanType'
    BY <1>1, <2>2, <2>3, Zenon DEF Types, PlanType
  <2>6. QED
    BY <2>3, <2>4, <2>5, Zenon DEF to
<1>3. /\ SubType' /\ sub'.size = sub.size /\ sub'.ready = sub.ready
      /\ sub'.cursor = sub.cursor /\ sub'.poisoned = sub.poisoned
  BY <1>1, Zenon DEF Throw, Types, SubType
<1>4. Quiet' = Quiet
  BY Zenon DEF Quiet
<1>5. Holds(c)'
  BY <1>2, Zenon DEF Holds
<1>6. Prepared(c)'
  BY <1>2, Zenon DEF Prepared, Preparing, Shaking, Staging, Draining
<1>7. Rung(c)'
  BY <1>1, <1>2, <1>3, <1>4, Zenon DEF Rung, Holds, Draining
<1>8. ~plan'[c].rung /\ ~sub'.poisoned => Quiet
  BY <1>2, <1>3, RestBefore, Zenon
<1>9. QED
  BY <1>1, <1>2, <1>3, <1>5, <1>6, <1>7, <1>8, PollFrame, Zenon DEF Types, DevType, LogType

\* The claim of the submitter, refused when it is poisoned.
LEMMA EnterStep == ASSUME LinkInv, NEW c \in Callers, Enter(c) PROVE LinkInv'
<1>1. Types /\ Rung(c) /\ plan[c].pc = "enter" /\ ~plan[c].rung
  BY NotRung, Zenon DEF LinkInv, Enter, At
<1>2. /\ PlanType' /\ \A d \in Callers \ {c} : plan'[d] = plan[d]
      /\ plan'[c].pc \in {"judge", "preflight", "magic"}
      /\ plan'[c].pc = "preflight" => sub.ready /\ ~sub.poisoned
      /\ plan'[c].pc = "magic" => ~sub.ready /\ ~sub.poisoned
      /\ plan'[c].l = plan[c].l /\ plan'[c].rung = FALSE
  BY <1>1 DEF Enter, Go, Types, PlanType, PlanRecord, PlanPcs, Shaking
<1>3. /\ SubType' /\ sub'.size = sub.size /\ sub'.ready = sub.ready
      /\ sub'.cursor = sub.cursor /\ sub'.poisoned = sub.poisoned
  BY <1>1, Zenon DEF Enter, Types, SubType
<1>4. UNCHANGED <<win, ring, fw, dev, log>>
  BY Zenon DEF Enter, card
<1>5. Holds(c) /\ Holds(c)'
  BY <1>1, <1>2, Zenon DEF Holds
<1>6. Prepared(c)'
  BY <1>2, <1>3, Zenon DEF Prepared, Preparing, Shaking, Staging, Draining
<1>7. Rung(c)'
  BY <1>1, <1>2, Zenon DEF Rung, Holds, Draining
<1>8. ~sub'.poisoned => Quiet
  BY <1>1, <1>3, <1>5, RestBefore, Zenon
<1>9. QED
  BY <1>1, <1>2, <1>3, <1>4, <1>5, <1>6, <1>7, <1>8, PollFrame, Zenon DEF Types, DevType, LogType

\* The waits of the handshake.
LEMMA AwaitStep ==
  ASSUME LinkInv, NEW c \in Callers, AwaitMagic(c) \/ AwaitReady(c) \/ HandshakeFails(c)
  PROVE  LinkInv'
<1>1. Types /\ Prepared(c) /\ Rung(c) /\ plan[c].pc \in {"magic", "await"}
  BY Zenon DEF LinkInv, AwaitMagic, AwaitReady, HandshakeFails, At
<1>2. ~plan[c].rung /\ Holds(c)
  BY <1>1, NotRung, Zenon DEF Shaking, Holds
<1>3. UNCHANGED <<win, ring, fw, dev, log>>
  BY Zenon DEF AwaitMagic, AwaitReady, HandshakeFails, card
<1>4. CASE HandshakeFails(c)
  BY <1>1, <1>2, <1>3, <1>4, ThrowStep, Zenon DEF HandshakeFails
<1>5. CASE AwaitMagic(c) \/ AwaitReady(c)
  <2>1. /\ PlanType' /\ \A d \in Callers \ {c} : plan'[d] = plan[d]
        /\ plan'[c].pc \in {"await", "hs_size"}
        /\ plan'[c].l = plan[c].l /\ plan'[c].rung = plan[c].rung
    BY <1>1, <1>5, GoEffect, Zenon DEF AwaitMagic, AwaitReady, Types, PlanPcs, Shaking
  <2>2. UNCHANGED sub
    BY <1>5, Zenon DEF AwaitMagic, AwaitReady
  <2>3. Prepared(c)' /\ Holds(c)'
    BY <1>1, <1>2, <2>1, <2>2, Zenon DEF Prepared, Preparing, Holds, Shaking, Staging, Draining
  <2>4. Rung(c)'
    BY <1>1, <1>2, <2>1, Zenon DEF Rung, Holds, Draining
  <2>5. ~sub.poisoned => Quiet
    BY <1>2, RestBefore, Zenon
  <2>6. QED
    BY <1>1, <1>2, <1>3, <2>1, <2>2, <2>3, <2>4, <2>5, PollFrame, Zenon
    DEF Types, SubType, DevType, LogType
<1>6. QED
  BY <1>4, <1>5, Zenon

\* READY before the first drain means that nothing is left of the launch before.
LEMMA PreflightStep == ASSUME LinkInv, NEW c \in Callers, Preflight(c) PROVE LinkInv'
<1>1. Types /\ Prepared(c) /\ Rung(c) /\ plan[c].pc = "preflight"
  BY Zenon DEF LinkInv, Preflight, At
<1>2. ~plan[c].rung /\ Holds(c)
  BY <1>1, NotRung, Zenon DEF Holds
<1>3. UNCHANGED <<win, ring, fw, dev, log>>
  BY Zenon DEF Preflight, card
<1>4. CASE win.state # "READY"
  BY <1>1, <1>2, <1>3, <1>4, ThrowStep, Zenon DEF Preflight
<1>5. CASE win.state = "READY"
  <2>1. /\ PlanType' /\ \A d \in Callers \ {c} : plan'[d] = plan[d]
        /\ plan'[c].pc = "drain" /\ plan'[c].site = "pre"
        /\ plan'[c].l = plan[c].l /\ plan'[c].rung = plan[c].rung
    BY <1>1, <1>5 DEF Preflight, Types, PlanType, PlanRecord, PlanPcs, Draining
  <2>2. UNCHANGED sub
    BY <1>5, Zenon DEF Preflight
  <2>3. sub.ready /\ ~sub.poisoned
    BY <1>1, Zenon DEF Prepared
  <2>4. Quiet /\ fw.pc \in Resting /\ win.seq = win.done
    BY <1>2, <1>5, <2>3, RestBefore, Zenon DEF Quiet
  <2>5. Prepared(c)' /\ Holds(c)'
    BY <1>2, <1>3, <2>1, <2>2, <2>3, <2>4, Zenon
    DEF Prepared, Preparing, Holds, Shaking, Staging, Draining
  <2>6. Rung(c)'
    BY <1>1, <1>2, <2>1, Zenon DEF Rung, Holds, Draining
  <2>7. QED
    BY <1>1, <1>2, <1>3, <2>1, <2>2, <2>4, <2>5, <2>6, PollFrame, Zenon
    DEF Types, SubType, DevType, LogType
<1>6. QED
  BY <1>4, <1>5, Zenon

\* Once the doorbell is rung, the producer is never found beyond the ring.
LEMMA DrainReadStep == ASSUME LinkInv, NEW c \in Callers, DrainRead(c) PROVE LinkInv'
<1>1. Types /\ Prepared(c) /\ Rung(c) /\ Bounded /\ plan[c].pc = "drain"
  BY Zenon DEF LinkInv, DrainRead, At
<1>2. UNCHANGED <<win, ring, fw, dev, log>> /\ Holds(c)
  BY <1>1, Zenon DEF DrainRead, card, Holds
<1>3. win.wr \in Words /\ win.rd \in Words /\ sub.cursor \in Words /\ plan[c].rung \in BOOLEAN
  BY <1>1, Zenon DEF Types, WinType, SubType, PlanType, PlanRecord
<1>4. ~plan[c].rung /\ ~sub.poisoned => Quiet
  BY <1>2, RestBefore, Zenon
<1>5. Quiet' = Quiet
  BY <1>2, Zenon DEF Quiet
<1>6. CASE Minus(win.wr, sub.cursor) <= sub.size
  <2>1. /\ plan' = [plan EXCEPT ![c].pc = "copy", ![c].end = win.wr, ![c].i = sub.cursor]
        /\ UNCHANGED sub
    BY <1>6, Zenon DEF DrainRead
  <2>2. plan'[c] \in PlanRecord /\ \A d \in Callers \ {c} : plan'[d] = plan[d]
    <3>1. PICK p \in PlanRecord : p = plan[c]
      BY <1>1, Zenon DEF Types, PlanType
    <3>2. PICK r : r = [p EXCEPT !.pc = "copy", !.end = win.wr, !.i = sub.cursor]
      BY Zenon
    <3>3. r \in PlanRecord
      BY <1>3, <3>2, Zenon DEF PlanRecord, PlanPcs, Draining
    <3>4. plan' = [plan EXCEPT ![c] = r] /\ PlanType
      BY <1>1, <2>1, <3>1, <3>2, Zenon DEF Types
    <3>5. QED
      BY <3>3, <3>4, Zenon DEF PlanType
  <2>3. /\ plan'[c].pc = "copy" /\ plan'[c].end = win.wr /\ plan'[c].site = plan[c].site
        /\ plan'[c].l = plan[c].l /\ plan'[c].rung = plan[c].rung
        /\ plan'[c].want = plan[c].want
    BY <1>1, <2>1 DEF Types, PlanType, PlanRecord
  <2>4. PlanType'
    BY <1>1, <2>1, <2>2, Zenon DEF Types, PlanType
  <2>5. Minus(win.wr, plan'[c].end) <= Used
    <3>1. Minus(win.wr, win.wr) = 0 /\ Used \in Words
      BY <1>3, WordDistance, Zenon DEF Used
    <3>2. QED
      BY <2>3, <3>1, Sizes DEF Words
  <2>6. Prepared(c)' /\ Holds(c)'
    BY <1>1, <1>2, <2>1, <2>3, Zenon DEF Prepared, Preparing, Holds, Shaking, Staging, Draining
  <2>7. Rung(c)'
    BY <1>1, <1>2, <1>5, <2>1, <2>3, Zenon DEF Rung, Holds, Draining
  <2>8. QED
    BY <1>1, <1>2, <1>4, <2>1, <2>2, <2>3, <2>4, <2>5, <2>6, <2>7, PollFrame, Zenon
    DEF Types, SubType, DevType, LogType
<1>7. CASE ~(Minus(win.wr, sub.cursor) <= sub.size) /\ plan[c].site = "raw"
  <2>1. plan' = [plan EXCEPT ![c].pc = "judge", ![c].lost = TRUE] /\ UNCHANGED sub
    BY <1>7, Zenon DEF DrainRead
  <2>2. /\ PlanType' /\ \A d \in Callers \ {c} : plan'[d] = plan[d]
        /\ plan'[c].pc = "judge" /\ plan'[c].site = "raw" /\ plan'[c].l = plan[c].l
        /\ plan'[c].rung = plan[c].rung /\ plan'[c].want = plan[c].want
    <3>1. plan'[c] \in PlanRecord /\ \A d \in Callers \ {c} : plan'[d] = plan[d]
      BY <1>1, <2>1, Zenon DEF Types, PlanType, PlanRecord, PlanPcs
    <3>2. /\ plan'[c].pc = "judge" /\ plan'[c].site = plan[c].site /\ plan'[c].l = plan[c].l
          /\ plan'[c].rung = plan[c].rung /\ plan'[c].want = plan[c].want
      BY <1>1, <2>1 DEF Types, PlanType, PlanRecord
    <3>3. PlanType'
      BY <1>1, <2>1, <3>1, Zenon DEF Types, PlanType
    <3>4. QED
      BY <1>7, <3>1, <3>2, <3>3, Zenon
  <2>3. Prepared(c)' /\ Holds(c)'
    BY <2>2, Zenon DEF Prepared, Preparing, Holds, Shaking, Staging, Draining
  <2>4. Rung(c)'
    BY <1>1, <1>2, <1>5, <1>7, <2>1, <2>2, Zenon DEF Rung, Holds, Draining
  <2>5. QED
    BY <1>1, <1>2, <1>4, <2>1, <2>2, <2>3, <2>4, PollFrame, Zenon DEF Types, SubType, DevType, LogType
<1>8. CASE ~(Minus(win.wr, sub.cursor) <= sub.size) /\ plan[c].site # "raw"
  <2>1. Throw(c)
    BY <1>8, Zenon DEF DrainRead
  <2>2. ~plan[c].rung
    BY <1>1, <1>8, Zenon DEF Rung, Bounded, Used
  <2>3. QED
    BY <1>1, <1>2, <2>1, <2>2, ThrowStep, Zenon
<1>9. QED
  BY <1>6, <1>7, <1>8, Zenon

\* Copying a record.
LEMMA DrainCopyStep == ASSUME LinkInv, NEW c \in Callers, DrainCopy(c) PROVE LinkInv'
<1>1. Types /\ Prepared(c) /\ Rung(c) /\ Bounded /\ plan[c].pc = "copy"
  BY Zenon DEF LinkInv, DrainCopy, At
<1>2. UNCHANGED <<win, ring, fw, dev, log>> /\ Holds(c)
  BY <1>1, Zenon DEF DrainCopy, card, Holds
<1>3. /\ SubType' /\ sub'.size = sub.size /\ sub'.ready = sub.ready
      /\ sub'.cursor = sub.cursor /\ sub'.poisoned = sub.poisoned
  <2>1. plan[c].i \in Nat /\ sub.size \in 1..MaxCqSize
    BY <1>1, Sizes DEF Types, PlanType, PlanRecord, SubType, Words
  <2>2. plan[c].i % sub.size \in 0..(MaxCqSize - 1)
    BY <2>1, Sizes
  <2>3. ring[plan[c].i % sub.size] \in Records
    BY <1>1, <2>2, Zenon DEF Types, RingType
  <2>4. Append(sub.pending, ring[plan[c].i % sub.size]) \in Seq(Records)
    BY <1>1, <2>3 DEF Types, SubType
  <2>5. QED
    BY <1>1, <2>4, Zenon DEF DrainCopy, Types, SubType
<1>4. /\ PlanType' /\ \A d \in Callers \ {c} : plan'[d] = plan[d]
      /\ plan'[c].pc = "copy" /\ plan'[c].end = plan[c].end /\ plan'[c].site = plan[c].site
      /\ plan'[c].l = plan[c].l /\ plan'[c].rung = plan[c].rung
      /\ plan'[c].want = plan[c].want
  <2>1. Plus1(plan[c].i) \in Words
    BY <1>1, WordStep, Zenon DEF Types, PlanType, PlanRecord
  <2>2. QED
    BY <1>1, <2>1 DEF DrainCopy, Types, PlanType, PlanRecord
<1>5. Quiet' = Quiet
  BY <1>2, Zenon DEF Quiet
<1>6. Prepared(c)' /\ Holds(c)'
  BY <1>1, <1>2, <1>3, <1>4, Zenon DEF Prepared, Preparing, Holds, Shaking, Staging, Draining
<1>7. Rung(c)'
  BY <1>1, <1>2, <1>3, <1>4, <1>5, Zenon DEF Rung, Holds, Draining
<1>8. ~plan'[c].rung /\ ~sub'.poisoned => Quiet
  BY <1>2, <1>3, <1>4, RestBefore, Zenon
<1>9. Minus(win.wr, plan'[c].end) <= Used
  BY <1>1, <1>4, Zenon DEF Bounded
<1>10. QED
  BY <1>1, <1>2, <1>3, <1>4, <1>6, <1>7, <1>8, <1>9, PollFrame, Zenon DEF Types, DevType, LogType

\* The polls of the wait loop: ERROR and the awaited sequence number both mean that the
\* firmware is done with the image.
LEMMA PollStateStep == ASSUME LinkInv, NEW c \in Callers, PollState(c) PROVE LinkInv'
<1>1. Types /\ Rung(c) /\ Sequenced /\ plan[c].pc = "state"
  BY Zenon DEF LinkInv, PollState, At
<1>2. UNCHANGED <<win, ring, fw, dev, log>> /\ Holds(c) /\ plan[c].rung
  BY <1>1, Zenon DEF PollState, card, Holds, Rung
<1>3. CASE win.state = "ERROR"
  <2>1. Quiet
    BY <1>1, <1>3, Zenon DEF Sequenced, Quiet
  <2>2. QED
    BY <1>1, <1>2, <1>3, <2>1, ThrowStep, Zenon DEF PollState
<1>4. CASE win.state # "ERROR"
  <2>1. Go(c, "done") /\ UNCHANGED sub
    BY <1>4, Zenon DEF PollState
  <2>2. /\ PlanType' /\ \A d \in Callers \ {c} : plan'[d] = plan[d]
        /\ plan'[c].pc = "done" /\ plan'[c].l = plan[c].l /\ plan'[c].site = plan[c].site
        /\ plan'[c].want = plan[c].want /\ plan'[c].rung = plan[c].rung
    BY <1>1, <2>1, GoEffect, Zenon DEF Types, PlanPcs
  <2>3. Prepared(c)' /\ Holds(c)'
    BY <2>2, Zenon DEF Prepared, Preparing, Holds, Shaking, Staging, Draining
  <2>4. Rung(c)'
    BY <1>1, <1>2, <2>2, Zenon DEF Rung, Holds, Draining
  <2>5. QED
    BY <1>1, <1>2, <2>1, <2>2, <2>3, <2>4, PollFrame, Zenon DEF Types, SubType, DevType, LogType
<1>5. QED
  BY <1>3, <1>4, Zenon

\* The sequence number.
LEMMA PollDoneStep == ASSUME LinkInv, NEW c \in Callers, PollDone(c) PROVE LinkInv'
<1>1. Types /\ Rung(c) /\ Sequenced /\ plan[c].pc = "done"
  BY Zenon DEF LinkInv, PollDone, At
<1>2. UNCHANGED <<win, ring, fw, sub, dev, log>> /\ Holds(c) /\ plan[c].rung
  BY <1>1, Zenon DEF PollDone, card, Holds, Rung
<1>3. win.done = plan[c].want => Quiet
  BY <1>1, <1>2, Zenon DEF Rung, Sequenced, Quiet, Types, FwType
<1>4. plan'[c] \in PlanRecord /\ \A d \in Callers \ {c} : plan'[d] = plan[d]
  BY <1>1, ZenonT(40) DEF PollDone, Types, PlanType, PlanRecord, PlanPcs, Draining
<1>5. /\ plan'[c].pc = "drain" /\ plan'[c].l = plan[c].l
      /\ plan'[c].site = (IF win.done = plan[c].want THEN "last" ELSE "wait")
      /\ plan'[c].want = plan[c].want /\ plan'[c].rung = plan[c].rung
  BY <1>1 DEF PollDone, Types, PlanType, PlanRecord
<1>6. PlanType'
  BY <1>1, <1>4, Zenon DEF PollDone, Types, PlanType
<1>7. Prepared(c)' /\ Holds(c)'
  BY <1>5, Zenon DEF Prepared, Preparing, Holds, Shaking, Staging, Draining
<1>8. Quiet' = Quiet
  BY <1>2, Zenon DEF Quiet
<1>9. Rung(c)'
  BY <1>1, <1>2, <1>3, <1>5, <1>8, Zenon DEF Rung, Holds, Draining
<1>10. QED
  BY <1>1, <1>2, <1>4, <1>5, <1>6, <1>7, <1>9, PollFrame, Zenon DEF Types, SubType, DevType, LogType

\* The state once more after the last drain.
LEMMA LastStateStep == ASSUME LinkInv, NEW c \in Callers, LastState(c) PROVE LinkInv'
<1>1. Types /\ Rung(c) /\ plan[c].pc = "last"
  BY Zenon DEF LinkInv, LastState, At
<1>2. UNCHANGED <<win, ring, fw, dev, log>> /\ Holds(c)
  BY <1>1, Zenon DEF LastState, card, Holds
<1>3. plan[c].rung /\ (Quiet \/ sub.poisoned)
  BY <1>1, Zenon DEF Rung
<1>4. CASE win.state = "ERROR"
  BY <1>1, <1>2, <1>3, <1>4, ThrowStep, Zenon DEF LastState
<1>5. CASE win.state # "ERROR"
  <2>1. /\ sub' = [sub EXCEPT !.active = FALSE]
        /\ plan' = [plan EXCEPT ![c].pc = "drain", ![c].site = "raw"]
    BY <1>5, Zenon DEF LastState
  <2>2. plan'[c] \in PlanRecord /\ \A d \in Callers \ {c} : plan'[d] = plan[d]
    BY <1>1, <2>1, ZenonT(40) DEF Types, PlanType, PlanRecord, PlanPcs, Draining
  <2>3. /\ plan'[c].pc = "drain" /\ plan'[c].l = plan[c].l /\ plan'[c].site = "raw"
        /\ plan'[c].want = plan[c].want /\ plan'[c].rung = plan[c].rung
    BY <1>1, <2>1 DEF Types, PlanType, PlanRecord
  <2>4. PlanType'
    BY <1>1, <2>1, <2>2, Zenon DEF Types, PlanType
  <2>5. /\ SubType' /\ sub'.size = sub.size /\ sub'.ready = sub.ready
        /\ sub'.cursor = sub.cursor /\ sub'.poisoned = sub.poisoned
    BY <1>1, <2>1, Zenon DEF Types, SubType
  <2>6. Prepared(c)' /\ Holds(c)'
    BY <2>3, Zenon DEF Prepared, Preparing, Holds, Shaking, Staging, Draining
  <2>7. Quiet' = Quiet
    BY <1>2, Zenon DEF Quiet
  <2>8. Rung(c)'
    BY <1>1, <1>2, <1>3, <2>3, <2>5, <2>7, Zenon DEF Rung, Holds, Draining
  <2>9. QED
    BY <1>1, <1>2, <1>3, <2>2, <2>3, <2>4, <2>5, <2>6, <2>8, PollFrame, Zenon
    DEF Types, DevType, LogType
<1>6. QED
  BY <1>4, <1>5, Zenon

\* A deadline poisons the submitter, and with it everything that could come next.
LEMMA ExpireStep == ASSUME LinkInv, NEW c \in Callers, Expire(c) PROVE LinkInv'
<1>1. Types /\ Rung(c) /\ plan[c].pc = "done"
  BY Zenon DEF LinkInv, Expire, At
<1>2. UNCHANGED <<win, ring, fw, dev, log>> /\ Holds(c) /\ plan[c].rung
  BY <1>1, Zenon DEF Expire, card, Holds, Rung
<1>3. plan' = [plan EXCEPT ![c].err = TRUE, ![c].site = "raw", ![c].pc = "drain"]
  BY Zenon DEF Expire
<1>4. plan'[c] \in PlanRecord /\ \A d \in Callers \ {c} : plan'[d] = plan[d]
  BY <1>1, <1>3 DEF Types, PlanType, PlanRecord, PlanPcs, Draining
<1>5. /\ plan'[c].pc = "drain" /\ plan'[c].l = plan[c].l /\ plan'[c].site = "raw"
      /\ plan'[c].want = plan[c].want /\ plan'[c].rung = plan[c].rung
  BY <1>1, <1>3 DEF Types, PlanType, PlanRecord
<1>6. PlanType'
  BY <1>1, <1>3, <1>4, Zenon DEF Types, PlanType
<1>7. /\ SubType' /\ sub'.size = sub.size /\ sub'.ready = sub.ready
      /\ sub'.cursor = sub.cursor /\ sub'.poisoned
  BY <1>1, Zenon DEF Expire, Types, SubType
<1>8. Prepared(c)' /\ Holds(c)'
  BY <1>5, Zenon DEF Prepared, Preparing, Holds, Shaking, Staging, Draining
<1>9. Rung(c)'
  BY <1>1, <1>2, <1>5, <1>7, Zenon DEF Rung, Holds, Draining
<1>10. QED
  BY <1>1, <1>2, <1>4, <1>5, <1>6, <1>7, <1>8, <1>9, PollFrame, Zenon DEF Types, DevType, LogType

\* The verdict on a launch.
LEMMA JudgeStep == ASSUME LinkInv, NEW c \in Callers, Judge(c) PROVE LinkInv'
<1>1. Types /\ Rung(c) /\ plan[c].pc = "judge"
  BY Zenon DEF LinkInv, Judge, At
<1>2. UNCHANGED <<win, ring, fw>> /\ Holds(c)
  BY <1>1, Zenon DEF Judge, card, Holds
<1>3. plan[c].l \in Launches
  BY <1>1, <1>2, Zenon DEF Rung
<1>4. /\ PlanType' /\ \A d \in Callers \ {c} : plan'[d] = plan[d]
      /\ plan'[c].pc = "join" /\ plan'[c].l = plan[c].l /\ plan'[c].site = plan[c].site
      /\ plan'[c].want = plan[c].want /\ plan'[c].rung = plan[c].rung
  BY <1>1, GoEffect, Zenon DEF Judge, Types, PlanPcs
<1>5. /\ SubType' /\ sub'.size = sub.size /\ sub'.ready = sub.ready
      /\ sub'.cursor = sub.cursor /\ sub'.poisoned = sub.poisoned
  <2> DEFINE left == IF plan[c].rung /\ ~plan[c].lost THEN <<>> ELSE sub.pending
  <2>1. sub' = [sub EXCEPT !.pending = left]
    BY Zenon DEF Judge
  <2>2. left \in Seq(Records)
    BY <1>1 DEF Types, SubType
  <2>3. QED
    <3> HIDE DEF left
    <3> QED
      BY <1>1, <2>1, <2>2, Zenon DEF Types, SubType
<1>6. PICK cq \in Seq(Records), ok \in BOOLEAN :
        /\ log' = [log EXCEPT !.result[plan[c].l] =
                     [out |-> IF ok THEN "ok" ELSE "error", evidence |-> IF ok THEN cq ELSE <<>>]]
        /\ dev' = [dev EXCEPT !.active = Reconciled(c, cq),
                              !.poisoned = @ \/ (~ok /\ sub.poisoned)]
  <2> DEFINE cq == IF plan[c].rung /\ ~plan[c].lost THEN sub.pending ELSE <<>>
             ok == /\ ~plan[c].err /\ ~plan[c].lost /\ ~Foreign(plan[c].l, cq) /\ AllOK(cq)
                   /\ win.sentinel
  <2>1. cq \in Seq(Records)
    BY <1>1 DEF Types, SubType
  <2>2. ok \in BOOLEAN
    BY Zenon
  <2>3. QED
    BY <2>1, <2>2, Zenon DEF Judge
<1>7. LogType' /\ log'.bell = log.bell
  <2>1. [out |-> IF ok THEN "ok" ELSE "error", evidence |-> IF ok THEN cq ELSE <<>>]
          \in [out : {"none", "ok", "error"}, evidence : Seq(Records)]
    OBVIOUS
  <2>2. QED
    BY <1>1, <1>3, <1>6, <2>1, Zenon DEF Types, LogType
<1>8. DevType' /\ dev'.leased = dev.leased
  <2>1. Reconciled(c, cq) \in {dev.active, 0, plan[c].l}
    BY Zenon DEF Reconciled
  <2>2. Reconciled(c, cq) \in Numbers
    BY <1>1, <1>3, <2>1, Zenon DEF Types, DevType, Numbers
  <2>3. QED
    BY <1>1, <1>6, <2>2, Zenon DEF Types, DevType, SubType
<1>9. Prepared(c)' /\ Holds(c)'
  BY <1>4, Zenon DEF Prepared, Preparing, Holds, Shaking, Staging, Draining
<1>10. Quiet' = Quiet
  BY <1>2, Zenon DEF Quiet
<1>11. Rung(c)'
  BY <1>1, <1>2, <1>3, <1>4, <1>5, <1>7, <1>10 DEF Rung, Holds, Draining
<1>12. ~plan'[c].rung /\ ~sub'.poisoned => Quiet
  BY <1>2, <1>4, <1>5, RestBefore, Zenon
<1>13. QED
  BY <1>1, <1>2, <1>4, <1>5, <1>7, <1>8, <1>9, <1>11, <1>12, PollFrame, Zenon

\* The launch is joined.
LEMMA JoinStep == ASSUME LinkInv, NEW c \in Callers, Join(c) PROVE LinkInv'
<1>1. Types /\ Rung(c) /\ plan[c].pc = "join"
  BY Zenon DEF LinkInv, Join, At
<1>2. UNCHANGED <<win, ring, fw, sub, log>> /\ Holds(c)
  BY <1>1, Zenon DEF Join, card, Holds
<1>3. /\ PlanType' /\ \A d \in Callers \ {c} : plan'[d] = plan[d]
      /\ plan'[c].pc = "leased" /\ plan'[c].rung = FALSE
  <2>1. 0 \in Words
    BY Sizes DEF Words
  <2>2. QED
    BY <1>1, <2>1, Zenon DEF Join, Types, PlanType, PlanRecord, IdlePlan, PlanPcs, Numbers
<1>4. DevType' /\ dev'.leased = dev.leased
  <2>1. plan[c].l \in Numbers
    BY <1>1, Zenon DEF Types, PlanType, PlanRecord
  <2>2. QED
    BY <1>1, <2>1, Zenon DEF Join, Types, DevType
<1>5. ~sub.poisoned => Quiet
  BY <1>1, <1>2, RestBefore, Zenon DEF Rung
<1>6. Prepared(c)' /\ Rung(c)' /\ Holds(c)'
  BY <1>3, Zenon DEF Prepared, Preparing, Rung, Holds, Shaking, Staging, Draining
<1>7. QED
  BY <1>1, <1>2, <1>3, <1>4, <1>5, <1>6, PollFrame, Zenon DEF Types, SubType, LogType

\* What a host write other than the doorbell leaves alone.
WriteFrame ==
  /\ UNCHANGED fw
  /\ log'.bell = log.bell
  /\ win'.seq = win.seq /\ win'.done = win.done /\ win'.wr = win.wr /\ win'.state = win.state

\* Such a write concerns neither the sequence words nor whether the card rests.
LEMMA WriteKept ==
  ASSUME LinkInv, WriteFrame
  PROVE  Sequenced' /\ (Quiet' <=> Quiet)
  BY Zenon DEF LinkInv, WriteFrame, Sequenced, Quiet

\* The handshake: before it nothing was rung, so nothing depends on the cursors.
LEMMA HandshakeStep == ASSUME LinkInv, NEW c \in Callers, Handshake(c) PROVE LinkInv'
<1>1. /\ Types /\ Bounded /\ Sequenced /\ Staged /\ Prepared(c) /\ Rung(c)
      /\ plan[c].pc \in {"hs_size", "hs_read", "hs_write"}
  BY Zenon DEF LinkInv, Handshake, At
<1>2. /\ UNCHANGED <<ring, fw, dev, log>> /\ Holds(c)
      /\ ~sub.ready /\ ~sub.poisoned /\ ~plan[c].rung
  BY <1>1, Zenon DEF Handshake, card, Holds, Prepared, Shaking
<1>3. log.bell = 0 /\ fw.pc \in Resting
  BY <1>1, <1>2, Zenon DEF Bounded, Sequenced
<1>4. PICK x \in {"hs_read", "hs_write", "preflight"} :
        /\ Go(c, x)
        /\ x = "preflight" => sub' = [sub EXCEPT !.pending = <<>>, !.ready = TRUE]
        /\ x = "hs_write" => sub' = [sub EXCEPT !.cursor = win.wr]
        /\ x = "hs_read" => UNCHANGED sub
        /\ x = "preflight" => win' = [win EXCEPT !.rd = sub.cursor]
        /\ x = "hs_write" => UNCHANGED win
        /\ x = "hs_read" => win' = [win EXCEPT !.size = sub.size]
  BY Zenon DEF Handshake
<1>5. /\ PlanType' /\ \A d \in Callers \ {c} : plan'[d] = plan[d]
      /\ plan'[c].pc = x /\ plan'[c].l = plan[c].l /\ plan'[c].rung = plan[c].rung
      /\ plan'[c].want = plan[c].want
  BY <1>1, <1>4, GoEffect, Zenon DEF Types, PlanPcs, Shaking
<1>6. /\ SubType' /\ sub'.size = sub.size /\ sub'.poisoned = sub.poisoned
      /\ sub'.ready = (x = "preflight")
      /\ x = "preflight" => sub'.cursor = sub.cursor
  <2>1. <<>> \in Seq(Records) /\ win.wr \in Words
    BY <1>1 DEF Types, WinType
  <2>2. QED
    BY <1>1, <1>2, <1>4, <2>1, Zenon DEF Types, SubType
<1>7. /\ WinType' /\ win'.size = win.size
      /\ x = "preflight" => win'.rd = sub.cursor
  <2>1. sub.cursor \in Words /\ sub.size \in 1..MaxCqSize /\ win.size = sub.size
    BY <1>1, Zenon DEF Types, SubType, Bounded
  <2>2. QED
    BY <1>1, <1>4, <2>1 DEF Types, WinType
<1>8. /\ WriteFrame
      /\ win'.args = win.args /\ win'.nodes = win.nodes /\ win'.count = win.count
  BY <1>1, <1>2, <1>4 DEF Types, WinType, WriteFrame
<1>9. Types'
  BY <1>1, <1>2, <1>5, <1>6, <1>7, Zenon DEF Types, RingType, FwType, DevType, LogType
<1>10. Sequenced' /\ Staged' /\ Quiet'
  BY <1>1, <1>2, <1>8, WriteKept, RestBefore, Zenon DEF Staged, WriteFrame
<1>11. RingBounds'
  <2>1. win'.size = sub'.size
    BY <1>1, <1>6, <1>7, Zenon DEF Bounded
  <2>2. sub'.ready => sub'.cursor = win'.rd
    BY <1>6, <1>7, Zenon
  <2>3. log'.bell = 0 /\ fw'.pc \notin {"record", "bump"}
    BY <1>2, <1>3, Zenon DEF Resting, Boots
  <2>4. QED
    BY <2>1, <2>2, <2>3, Zenon DEF RingBounds
<1>12. Prepared(c)' /\ Rung(c)' /\ Holds(c)' /\ plan'[c].pc # "copy"
  BY <1>1, <1>2, <1>4, <1>5, <1>6, Zenon
  DEF Prepared, Preparing, Rung, Holds, Shaking, Staging, Draining
<1>13. QED
  BY <1>2, <1>5, <1>9, <1>10, <1>11, <1>12, HolderFrame, Zenon

\* The consumer's cursor: what was copied is handed back, the rest of the ring is not.
LEMMA DrainWriteStep == ASSUME LinkInv, NEW c \in Callers, DrainWrite(c) PROVE LinkInv'
<1>1. /\ Types /\ Bounded /\ Sequenced /\ Staged /\ Prepared(c) /\ Rung(c)
      /\ plan[c].pc = "copy"
  BY Zenon DEF LinkInv, DrainWrite, At
<1>2. UNCHANGED <<ring, fw, dev, log>> /\ Holds(c)
  BY <1>1, Zenon DEF DrainWrite, card, Holds
<1>3. /\ plan[c].site \in {"pre", "wait", "last", "raw"} /\ plan[c].end \in Words
      /\ win.wr \in Words /\ win.rd \in Words /\ win.size \in 1..MaxCqSize
  BY <1>1, Zenon DEF Types, PlanType, PlanRecord, WinType
<1>4. /\ PlanType' /\ \A d \in Callers \ {c} : plan'[d] = plan[d]
      /\ plan'[c].pc = AfterDrain[plan[c].site] /\ plan'[c].l = plan[c].l
      /\ plan'[c].site = plan[c].site /\ plan'[c].want = plan[c].want
      /\ plan'[c].rung = plan[c].rung
  <2>1. AfterDrain[plan[c].site] \in PlanPcs
    BY <1>3 DEF AfterDrain, PlanPcs, Staging
  <2>2. QED
    BY <1>1, <2>1, GoEffect, Zenon DEF DrainWrite, Types
<1>5. /\ SubType' /\ sub'.size = sub.size /\ sub'.ready = sub.ready
      /\ sub'.cursor = plan[c].end /\ sub'.poisoned = sub.poisoned
  <2> DEFINE left == IF plan[c].site = "pre" THEN <<>> ELSE sub.pending
  <2>1. sub' = [sub EXCEPT !.cursor = plan[c].end, !.pending = left]
    BY Zenon DEF DrainWrite
  <2>2. left \in Seq(Records)
    BY <1>1 DEF Types, SubType
  <2>3. QED
    <3> HIDE DEF left
    <3> QED
      BY <1>1, <1>3, <2>1, <2>2, Zenon DEF Types, SubType
<1>6. /\ WinType' /\ win'.rd = plan[c].end /\ WriteFrame /\ win'.size = win.size
      /\ win'.args = win.args /\ win'.nodes = win.nodes /\ win'.count = win.count
  BY <1>1, <1>2, <1>3, Zenon DEF DrainWrite, Types, WinType, WriteFrame
<1>7. Types'
  BY <1>1, <1>2, <1>4, <1>5, <1>6, Zenon DEF Types, RingType, FwType, DevType, LogType
<1>8. Sequenced' /\ (Quiet' <=> Quiet) /\ Staged'
  BY <1>1, <1>2, <1>6, WriteKept, Zenon DEF Staged
<1>9. RingBounds'
  <2>1. Used' = Minus(win.wr, plan[c].end) /\ Used' <= Used
    BY <1>1, <1>6, Zenon DEF Used, Bounded, WriteFrame
  <2>2. Used \in Nat /\ Used' \in Nat /\ win.size \in Nat
    <3>1. Minus(win.wr, win.rd) \in Words /\ Minus(win.wr, plan[c].end) \in Words
      BY <1>3, WordDistance, Zenon
    <3>2. Words \subseteq Nat /\ 1..MaxCqSize \subseteq Nat
      BY Sizes DEF Words
    <3>3. QED
      BY <1>3, <2>1, <3>1, <3>2, Zenon DEF Used
  <2>3. QED
    <3>1. PICK u \in Nat, v \in Nat, n \in Nat : u = Used /\ v = Used' /\ n = win.size
      BY <2>2, Zenon
    <3>2. v <= u /\ (log.bell # 0 => u <= n) /\ (fw.pc \in {"record", "bump"} => u < n)
      BY <1>1, <2>1, <3>1, Zenon DEF Bounded
    <3>3. (log.bell # 0 => v <= n) /\ (fw.pc \in {"record", "bump"} => v < n)
      BY <3>2
    <3>4. QED
      BY <1>1, <1>5, <1>6, <3>1, <3>3, Zenon DEF RingBounds, Bounded, WriteFrame
<1>10. /\ plan[c].site = "pre" => plan'[c].pc = "args"
       /\ plan[c].site = "wait" => plan'[c].pc = "state"
       /\ plan[c].site = "last" => plan'[c].pc = "last"
       /\ plan[c].site = "raw" => plan'[c].pc = "judge"
  BY <1>4 DEF AfterDrain
<1>11. Holds(c)' /\ plan'[c].pc # "copy"
  BY <1>3, <1>10, Zenon DEF Holds
<1>12. Prepared(c)'
  <2>1. CASE plan[c].site = "pre"
    BY <1>1, <1>2, <1>4, <1>5, <1>6, <1>10, <2>1, Zenon
    DEF Prepared, Preparing, Shaking, Staging, Draining, WriteFrame
  <2>2. CASE plan[c].site # "pre"
    BY <1>3, <1>10, <2>2, Zenon DEF Prepared, Preparing, Shaking, Staging, Draining
  <2>3. QED
    BY <2>1, <2>2, Zenon
<1>13. Rung(c)'
  BY <1>1, <1>2, <1>3, <1>4, <1>5, <1>6, <1>8, <1>10, Zenon DEF Rung, Holds, Draining, WriteFrame
<1>14. ~plan'[c].rung /\ ~sub'.poisoned => Quiet'
  BY <1>2, <1>4, <1>5, <1>8, RestBefore, Zenon
<1>15. QED
  BY <1>2, <1>4, <1>7, <1>8, <1>9, <1>11, <1>12, <1>13, <1>14, HolderFrame, Zenon

\* Staging: the card rests, so what the window holds concerns nobody yet.
LEMMA StageStep == ASSUME LinkInv, NEW c \in Callers, Stage(c) PROVE LinkInv'
<1>1. /\ Types /\ Bounded /\ Staged /\ Prepared(c) /\ Rung(c)
      /\ plan[c].pc \in {"args", "nodes", "count"}
  BY Zenon DEF LinkInv, Stage, At
<1>2. /\ UNCHANGED <<ring, fw, sub, dev, log>> /\ Holds(c)
      /\ sub.ready /\ ~sub.poisoned /\ ~plan[c].rung
      /\ fw.pc \in Resting /\ win.seq = win.done /\ win.rd = win.wr
  BY <1>1, Zenon DEF Stage, card, Holds, Prepared, Preparing, Staging
<1>3. plan[c].l \in Numbers /\ Plus1(win.seq) \in Words /\ win.seq \in Words
  BY <1>1, WordStep, Zenon DEF Types, PlanType, PlanRecord, WinType
<1>4. PICK x \in {"nodes", "count", "size", "ring"} :
        /\ \/ Go(c, x) /\ x \in {"nodes", "count"}
           \/ plan' = [plan EXCEPT ![c].want = Plus1(win.seq), ![c].pc = x] /\ x \in {"size", "ring"}
        /\ x = "nodes" => /\ win' = [win EXCEPT !.args = plan[c].l, !.sentinel = FALSE]
                          /\ plan[c].pc = "args"
        /\ x = "count" => /\ win' = [win EXCEPT !.nodes = plan[c].l]
                          /\ plan[c].pc = "nodes"
        /\ x \in {"size", "ring"} => /\ win' = [win EXCEPT !.count = plan[c].l]
                                     /\ plan[c].pc = "count"
  BY Zenon DEF Stage, At
<1>5. /\ PlanType' /\ \A d \in Callers \ {c} : plan'[d] = plan[d]
      /\ plan'[c].pc = x /\ plan'[c].l = plan[c].l /\ plan'[c].rung = plan[c].rung
      /\ x \in {"size", "ring"} => plan'[c].want = Plus1(win.seq)
  <2>1. x \in PlanPcs
    BY Zenon DEF PlanPcs, Staging
  <2>2. CASE Go(c, x) /\ x \in {"nodes", "count"}
    BY <1>1, <2>1, <2>2, GoEffect, Zenon DEF Types
  <2>3. CASE /\ plan' = [plan EXCEPT ![c].want = Plus1(win.seq), ![c].pc = x]
             /\ x \in {"size", "ring"}
    <3>1. plan'[c] \in PlanRecord /\ \A d \in Callers \ {c} : plan'[d] = plan[d]
      BY <1>1, <1>3, <2>1, <2>3 DEF Types, PlanType, PlanRecord
    <3>2. /\ plan'[c].pc = x /\ plan'[c].l = plan[c].l /\ plan'[c].rung = plan[c].rung
          /\ plan'[c].want = Plus1(win.seq)
      BY <1>1, <2>3 DEF Types, PlanType, PlanRecord
    <3>3. PlanType'
      BY <1>1, <2>3, <3>1, Zenon DEF Types, PlanType
    <3>4. QED
      BY <3>1, <3>2, <3>3, Zenon
  <2>4. QED
    BY <1>4, <2>2, <2>3, Zenon
<1>6. /\ WinType' /\ WriteFrame /\ win'.size = win.size /\ win'.rd = win.rd
      /\ win'.args = (IF x = "nodes" THEN plan[c].l ELSE win.args)
      /\ win'.nodes = (IF x = "count" THEN plan[c].l ELSE win.nodes)
      /\ win'.count = (IF x \in {"size", "ring"} THEN plan[c].l ELSE win.count)
  <2>1. CASE x = "nodes"
    BY <1>1, <1>2, <1>3, <1>4, <2>1, Zenon DEF Types, WinType, WriteFrame
  <2>2. CASE x = "count"
    BY <1>1, <1>2, <1>3, <1>4, <2>2 DEF Types, WinType, WriteFrame
  <2>3. CASE x \in {"size", "ring"}
    BY <1>1, <1>2, <1>3, <1>4, <2>3 DEF Types, WinType, WriteFrame
  <2>4. QED
    BY <2>1, <2>2, <2>3, Zenon
<1>7. Types'
  BY <1>1, <1>2, <1>5, <1>6, Zenon DEF Types, RingType, FwType, SubType, DevType, LogType
<1>8. Sequenced' /\ Quiet'
  BY <1>2, <1>6, WriteKept, Zenon DEF Quiet
<1>9. Staged'
  BY <1>2, <1>8, Zenon DEF Staged, Scanning, Resting, Boots
<1>10. RingBounds'
  BY <1>1, <1>2, <1>6, Zenon DEF RingBounds, Bounded, Used, WriteFrame
<1>11. Prepared(c)' /\ Holds(c)' /\ plan'[c].pc # "copy"
  BY <1>1, <1>2, <1>4, <1>5, <1>6
  DEF Prepared, Preparing, Holds, Shaking, Staging, Draining, WriteFrame
<1>12. Rung(c)'
  BY <1>1, <1>2, <1>5, Zenon DEF Rung, Holds, Draining
<1>13. QED
  BY <1>2, <1>5, <1>7, <1>8, <1>9, <1>10, <1>11, <1>12, HolderFrame, Zenon

\* A new length of the ring is written while the ring is empty.
LEMMA OverrideStep == ASSUME LinkInv, NEW c \in Callers, Override(c) PROVE LinkInv'
<1>1. /\ Types /\ Bounded /\ Staged /\ Prepared(c) /\ Rung(c) /\ plan[c].pc = "size"
  BY Zenon DEF LinkInv, Override, At
<1>2. /\ UNCHANGED <<ring, fw, dev, log>> /\ Holds(c)
      /\ sub.ready /\ ~sub.poisoned /\ ~plan[c].rung
      /\ fw.pc \in Resting /\ win.seq = win.done /\ win.rd = win.wr
  BY <1>1, Zenon DEF Override, card, Holds, Prepared, Preparing, Staging
<1>3. CASE Throw(c) /\ UNCHANGED win
  BY <1>1, <1>2, <1>3, ThrowStep, Zenon
<1>4. ASSUME NEW n, isValidCqSize(n), Go(c, "ring"), sub' = [sub EXCEPT !.size = n],
             win' = [win EXCEPT !.size = n]
      PROVE  LinkInv'
  <2>1. n \in 1..MaxCqSize
    BY <1>4, ValidSize, Zenon
  <2>2. /\ PlanType' /\ \A d \in Callers \ {c} : plan'[d] = plan[d]
        /\ plan'[c].pc = "ring" /\ plan'[c].l = plan[c].l /\ plan'[c].rung = plan[c].rung
        /\ plan'[c].want = plan[c].want
    BY <1>1, <1>4, GoEffect, Zenon DEF Types, PlanPcs, Staging
  <2>3. /\ SubType' /\ sub'.size = n /\ sub'.ready = sub.ready
        /\ sub'.cursor = sub.cursor /\ sub'.poisoned = sub.poisoned
    BY <1>1, <1>4, <2>1, Zenon DEF Types, SubType
  <2>4. /\ WinType' /\ WriteFrame /\ win'.size = n /\ win'.rd = win.rd
        /\ win'.args = win.args /\ win'.nodes = win.nodes /\ win'.count = win.count
    BY <1>1, <1>2, <1>4, <2>1, Zenon DEF Types, WinType, WriteFrame
  <2>5. Types'
    BY <1>1, <1>2, <2>2, <2>3, <2>4, Zenon DEF Types, RingType, FwType, DevType, LogType
  <2>6. Sequenced' /\ Quiet' /\ Staged'
    BY <1>1, <1>2, <2>4, WriteKept, Zenon DEF Quiet, Staged
  <2>7. RingBounds'
    <3>1. win.wr \in Words
      BY <1>1, Zenon DEF Types, WinType
    <3>2. Used' = 0 /\ 0 < n
      BY <1>2, <2>1, <2>4, <3>1, WordDistance DEF Used, WriteFrame
    <3>3. 0 <= n
      BY <2>1
    <3>4. QED
      <4> HIDE DEF Used
      <4> QED
        BY <1>1, <1>2, <2>3, <2>4, <3>2, <3>3, Zenon DEF RingBounds, Bounded
  <2>8. Prepared(c)' /\ Holds(c)' /\ plan'[c].pc # "copy"
    BY <1>1, <1>2, <2>2, <2>3, <2>4, Zenon
    DEF Prepared, Preparing, Holds, Shaking, Staging, Draining, WriteFrame
  <2>9. Rung(c)'
    BY <1>1, <1>2, <2>2, Zenon DEF Rung, Holds, Draining
  <2>10. QED
    BY <1>2, <2>2, <2>5, <2>6, <2>7, <2>8, <2>9, HolderFrame, Zenon
<1>5. QED
  BY <1>3, <1>4, Zenon DEF Override

\* The doorbell: a new sequence word, over one image and an empty ring.
LEMMA DoorbellStep == ASSUME LinkInv, NEW c \in Callers, Doorbell(c) PROVE LinkInv'
<1>1. /\ Types /\ Bounded /\ Sequenced /\ Prepared(c) /\ Rung(c) /\ plan[c].pc = "ring"
  BY Zenon DEF LinkInv, Doorbell, At
<1>2. /\ UNCHANGED <<ring, fw, sub, dev>> /\ Holds(c)
      /\ sub.ready /\ ~sub.poisoned /\ ~plan[c].rung
      /\ fw.pc \in Resting /\ win.seq = win.done /\ win.rd = win.wr
      /\ win.args = plan[c].l /\ win.nodes = plan[c].l /\ win.count = plan[c].l
      /\ plan[c].want = Plus1(win.seq)
  BY <1>1, Zenon DEF Doorbell, card, Holds, Prepared, Preparing, Staging
<1>3. plan[c].l \in Launches /\ plan[c].l # 0
  BY <1>1, <1>2, LinkAssumption, Zenon DEF Rung
<1>4. win.seq \in Words /\ win.wr \in Words /\ plan[c].want \in Words
  BY <1>1, Zenon DEF Types, WinType, PlanType, PlanRecord
<1>5. plan[c].want # win.done
  BY <1>2, <1>4, WordStep, Zenon
<1>6. plan' = [plan EXCEPT ![c].pc = "drain", ![c].site = "wait", ![c].rung = TRUE]
  BY Zenon DEF Doorbell
<1>7. plan'[c] \in PlanRecord /\ \A d \in Callers \ {c} : plan'[d] = plan[d]
  <2>1. PICK p \in PlanRecord : p = plan[c]
    BY <1>1, Zenon DEF Types, PlanType
  <2>2. PICK r : r = [p EXCEPT !.pc = "drain", !.site = "wait", !.rung = TRUE]
    BY Zenon
  <2>3. r \in PlanRecord
    BY <2>2, Zenon DEF PlanRecord, PlanPcs, Draining
  <2>4. plan' = [plan EXCEPT ![c] = r] /\ PlanType
    BY <1>1, <1>6, <2>1, <2>2, Zenon DEF Types
  <2>5. QED
    BY <2>3, <2>4, Zenon DEF PlanType
<1>8. /\ plan'[c].pc = "drain" /\ plan'[c].l = plan[c].l /\ plan'[c].site = "wait"
      /\ plan'[c].want = plan[c].want /\ plan'[c].rung = TRUE
  BY <1>1, <1>6 DEF Types, PlanType, PlanRecord
<1>9. PlanType'
  BY <1>1, <1>6, <1>7, Zenon DEF Types, PlanType
<1>10. /\ WinType' /\ win'.seq = plan[c].want /\ win'.done = win.done /\ win'.wr = win.wr
       /\ win'.state = win.state /\ win'.size = win.size /\ win'.rd = win.rd
       /\ win'.args = win.args /\ win'.nodes = win.nodes /\ win'.count = win.count
  BY <1>1, <1>4, Zenon DEF Doorbell, Types, WinType
<1>11. LogType' /\ log'.bell = plan[c].l
  BY <1>1, <1>3, Zenon DEF Doorbell, Types, LogType, Numbers
<1>12. Types'
  BY <1>1, <1>2, <1>9, <1>10, <1>11, Zenon DEF Types, RingType, FwType, SubType, DevType
<1>13. Sequenced'
  BY <1>1, <1>2, <1>3, <1>10, <1>11, Zenon DEF Sequenced, Resting, Boots, Active
<1>14. Staged'
  BY <1>2, <1>10, Zenon DEF Staged, Scanning, Resting, Boots
<1>15. RingBounds'
  <2>1. Used' = 0
    BY <1>2, <1>4, <1>10, WordDistance, Zenon DEF Used
  <2>2. 0 <= win.size /\ 0 < win.size
    BY <1>1 DEF Types, WinType
  <2>3. QED
    <3> HIDE DEF Used
    <3> QED
      BY <1>1, <1>2, <1>10, <2>1, <2>2, Zenon DEF RingBounds, Bounded
<1>16. Prepared(c)' /\ Holds(c)' /\ plan'[c].pc # "copy"
  BY <1>8, Zenon DEF Prepared, Preparing, Holds, Shaking, Staging, Draining
<1>17. Rung(c)'
  BY <1>3, <1>8, <1>10, <1>11, Zenon DEF Rung, Holds, Draining
<1>18. QED
  BY <1>2, <1>7, <1>8, <1>12, <1>13, <1>14, <1>15, <1>16, <1>17, HolderFrame, Zenon

----------------------------------------------------------------------------
(* The theorem.                                                            *)

\* Every step keeps the invariant.
LEMMA NextStep == ASSUME LinkInv, [Next]_vars PROVE LinkInv'
<1>1. CASE Firmware \/ Restart \/ KernelFinishes
  BY <1>1, FirmwareStep, RestartStep, KernelFinishesStep, Zenon
<1>2. ASSUME NEW c \in Callers, Caller(c) PROVE LinkInv'
  BY <1>2, LeaseStep, LaunchStep, Zenon DEF Caller
<1>3. ASSUME NEW c \in Callers, Worker(c) PROVE LinkInv'
  BY <1>3, EnterStep, AwaitStep, HandshakeStep, PreflightStep, DrainReadStep, DrainCopyStep,
     DrainWriteStep, StageStep, OverrideStep, DoorbellStep, PollStateStep, PollDoneStep,
     LastStateStep, JudgeStep, JoinStep, Zenon
  DEF Worker
<1>4. ASSUME NEW c \in Callers, Expire(c) PROVE LinkInv'
  BY <1>4, ExpireStep, Zenon
<1>5. CASE UNCHANGED vars
  <2>1. Types'
    BY <1>5 DEF vars, LinkInv, Types, WinType, RingType, FwType, SubType, DevType, PlanType, LogType
  <2>2. Leased' /\ Sequenced' /\ Bounded'
    BY <1>5, Zenon DEF vars, LinkInv, Leased, Holds, Sequenced, Bounded, Used
  <2>3. Staged' /\ AtRest'
    BY <1>5, Zenon DEF vars, LinkInv, Staged, Quiet, AtRest
  <2>4. ASSUME NEW c \in Callers PROVE Prepared(c)' /\ Rung(c)'
    <3>1. Prepared(c) /\ Rung(c)
      BY Zenon DEF LinkInv
    <3>2. QED
      BY <1>5, <3>1, Zenon DEF vars, Holds, Quiet, Prepared, Preparing, Rung
  <2>5. QED
    BY <2>1, <2>2, <2>3, <2>4, Zenon DEF LinkInv
<1>6. QED
  BY <1>1, <1>2, <1>3, <1>4, <1>5, Zenon DEF Next

\* A card just powered on, or one in service, is at rest.
LEMMA InitInv == Init => LinkInv
<1> SUFFICES ASSUME Init PROVE LinkInv
  BY Zenon
<1>1. PICK s \in Starts :
    /\ win = [magic |-> s.word # 0, state |-> IF s.word = 0 THEN "INIT" ELSE "READY",
              seq |-> s.word, done |-> s.word, size |-> CqSize, wr |-> s.word, rd |-> s.word,
              nodes |-> 0, args |-> 0, count |-> 0, sentinel |-> FALSE]
    /\ fw = [pc |-> IF s.word = 0 THEN "boot" ELSE "idle", seq |-> 0, img |-> 0, n |-> 0,
             k |-> 0, status |-> "ok", failed |-> FALSE]
    /\ log = [result |-> [l \in Launches |-> NoResult], bell |-> 0, finished |-> {},
              spare |-> s.restarts]
    /\ ring = [i \in 0..(MaxCqSize - 1) |-> NoRecord]
    /\ sub = [ready |-> FALSE, size |-> CqSize, cursor |-> 0, pending |-> <<>>,
              poisoned |-> FALSE, active |-> FALSE]
    /\ dev = [leased |-> FALSE, poisoned |-> FALSE, active |-> 0, quarantine |-> {}]
    /\ plan = [c \in Callers |-> IdlePlan]
  BY Zenon DEF Init
<1>2. s.word \in Words /\ s.restarts \in Nat /\ 0 \in Words /\ 0 \in Numbers
  BY LinkAssumption, Sizes DEF Words, Numbers
<1>3. <<>> \in Seq(Records) /\ NoRecord \in Records /\ CqSize \in 1..MaxCqSize
  BY <1>2, Sizes DEF NoRecord, Records, Statuses
<1>4. WinType
  BY <1>1, <1>2, <1>3, Zenon DEF WinType
<1>5. RingType
  BY <1>1, <1>3, Zenon DEF RingType
<1>6. FwType
  BY <1>1, <1>2, Zenon DEF FwType, Resting, Boots, Statuses
<1>7. /\ SubType /\ sub.size = CqSize /\ ~sub.ready
  BY <1>1, <1>2, <1>3, Zenon DEF SubType
<1>8. DevType
  BY <1>1, <1>2, Zenon DEF DevType
<1>9. /\ PlanType /\ \A c \in Callers : plan[c].pc = "none" /\ ~plan[c].rung
  BY <1>1, <1>2, Zenon DEF PlanType, PlanRecord, IdlePlan, PlanPcs
<1>10. LogType
  BY <1>1, <1>2, <1>3, Zenon DEF LogType, NoResult
<1>11. fw.pc \in Resting /\ win.seq = win.done /\ Quiet
  BY <1>1, Zenon DEF Resting, Boots, Quiet
<1>12. Sequenced
  BY <1>1, Zenon DEF Sequenced, Resting, Boots, Active
<1>13. Bounded
  BY <1>1, <1>7, <1>9, Zenon DEF Bounded
<1>14. Staged
  BY <1>11, Zenon DEF Staged, Scanning, Resting, Boots
<1>15. Leased /\ AtRest
  BY <1>9, <1>11, Zenon DEF Leased, Holds, AtRest
<1>16. \A c \in Callers : Prepared(c) /\ Rung(c)
  BY <1>9 DEF Prepared, Preparing, Rung, Holds, Shaking, Staging, Draining
<1>17. QED
  BY <1>4, <1>5, <1>6, <1>7, <1>8, <1>9, <1>10, <1>12, <1>13, <1>14, <1>15, <1>16, Zenon
  DEF LinkInv, Types

\* The invariant holds throughout.
THEOREM LinkInvariant == Spec => []LinkInv
  BY InitInv, NextStep, PTL DEF Spec

\* While the firmware works through an image, the arguments, the packets and their number
\* in the window are all of that image (submitAndWait, rp1_run).
THEOREM ImageKept == Spec => []ImageIntact
<1>1. LinkInv => ImageIntact
  BY Zenon DEF LinkInv, Staged, Quiet, ImageIntact, Scanning, Resting, Boots
<1>2. QED
  BY <1>1, LinkInvariant, PTL

\* The check of activate_nodes and check_inflight for cursors further apart than the ring is
\* long never fires, and a record is only written into room the host has handed back.
NoOverrun ==
  /\ fw.pc \in Scanning => Used <= win.size
  /\ fw.pc = "record" => Used < win.size

\* The completion ring is never overrun, whatever lengths the images ask for and wherever
\* the cursors wrap (write_cq_entry, drainAvailableCq).
THEOREM RingKept == Spec => []NoOverrun
<1>1. LinkInv => NoOverrun
  BY Zenon DEF LinkInv, Sequenced, Bounded, NoOverrun, Scanning, Resting, Boots
<1>2. QED
  BY <1>1, LinkInvariant, PTL

\* A doorbell is rung while the card rests, over one image and an empty ring.
RungAtRest ==
  [][win'.seq # win.seq =>
       /\ fw.pc \in Resting /\ win.seq = win.done /\ win.rd = win.wr
       /\ win.args = win.nodes /\ win.count = win.nodes /\ win'.seq = Plus1(win.seq)]_win

\* submitAndWait hands an image over only when everything before it is over, and always
\* under the sequence word that follows (submitAndWait, waitForGraphDone).
THEOREM HandedAtRest == Spec => RungAtRest
<1> DEFINE Handed == win'.seq # win.seq =>
             /\ fw.pc \in Resting /\ win.seq = win.done /\ win.rd = win.wr
             /\ win.args = win.nodes /\ win.count = win.nodes /\ win'.seq = Plus1(win.seq)
<1>1. ASSUME LinkInv, [Next]_vars PROVE Handed
  <2>1. WinType
    BY <1>1, Zenon DEF LinkInv, Types
  <2>2. CASE Firmware \/ Restart \/ KernelFinishes
    <3>1. CASE Boot
      BY <2>1, <3>1, Zenon DEF Boot, WinType
    <3>2. CASE Activate
      BY <2>1, <3>2, Zenon DEF Activate, Dispatch, WinType
    <3>3. CASE Accept \/ SetRunning \/ StoreInit \/ CheckInflight \/ WriteRecord
      BY <2>1, <3>3, Zenon DEF Accept, SetRunning, StoreInit, CheckInflight, WriteRecord, WinType
    <3>4. CASE BumpCursor \/ Complete \/ PublishState \/ PublishDone
      BY <2>1, <3>4, Zenon DEF BumpCursor, Complete, PublishState, PublishDone, WinType
    <3>5. CASE Restart \/ KernelFinishes
      BY <3>5, Zenon DEF Restart, KernelFinishes
    <3>6. QED
      BY <2>2, <3>1, <3>2, <3>3, <3>4, <3>5, Zenon DEF Firmware
  <2>3. ASSUME NEW c \in Callers, Doorbell(c) PROVE Handed
    BY <1>1, <2>1, <2>3, Zenon DEF LinkInv, Prepared, Preparing, Staging, Doorbell, At, WinType
  <2>4. ASSUME NEW c \in Callers, Handshake(c) \/ DrainWrite(c) \/ Override(c) PROVE Handed
    BY <2>1, <2>4, Zenon DEF Handshake, DrainWrite, Override, WinType
  <2>5. ASSUME NEW c \in Callers, Stage(c) PROVE Handed
    BY <2>1, <2>5, Zenon DEF Stage, WinType
  <2>6. ASSUME NEW c \in Callers,
               \/ Caller(c) \/ Expire(c) \/ Enter(c) \/ AwaitMagic(c) \/ AwaitReady(c)
               \/ HandshakeFails(c) \/ Preflight(c) \/ DrainRead(c) \/ DrainCopy(c)
        PROVE  UNCHANGED win
    BY <2>6, Zenon
    DEF Caller, LeaseCheck, LeaseTake, Launch, Release, Expire, Enter, AwaitMagic,
        AwaitReady, HandshakeFails, Preflight, DrainRead, DrainCopy
  <2>7. ASSUME NEW c \in Callers, PollState(c) \/ PollDone(c) \/ LastState(c) \/ Judge(c) \/ Join(c)
        PROVE  UNCHANGED win
    BY <2>7, Zenon DEF PollState, PollDone, LastState, Judge, Join
  <2>8. CASE UNCHANGED vars
    BY <2>8, Zenon DEF vars
  <2>9. QED
    BY <1>1, <2>2, <2>3, <2>4, <2>5, <2>6, <2>7, <2>8, Zenon DEF Next, Worker
<1>2. LinkInv /\ [Next]_vars => [Handed]_win
  BY <1>1, Zenon
<1>3. QED
  BY <1>2, LinkInvariant, PTL DEF Spec, RungAtRest

----------------------------------------------------------------------------
(* Slots of the ring.                                                      *)

\* No multiple of n lies strictly between 0 and n.
LEMMA Multiple ==
  ASSUME NEW n \in Nat \ {0}, NEW m \in Int, 0 < n * m, n * m < n
  PROVE  FALSE
<1>1. CASE m <= 0
  <2>1. n * m <= 0
    BY <1>1
  <2> QED
    BY <2>1
<1>2. CASE m >= 1
  <2>1. n * m >= n
    BY <1>2
  <2> QED
    BY <2>1
<1> QED
  BY <1>1, <1>2

\* Division with remainder.
LEMMA Divided ==
  ASSUME NEW n \in Nat \ {0}, NEW a \in Nat
  PROVE  \E q \in Nat : a = n * q + (a % n)
<1>1. a \div n \in Nat /\ a = n * (a \div n) + (a % n)
  OBVIOUS
<1> QED
  BY <1>1, Zenon

\* Words less than a ring apart have slots of their own, across the wrap of the words too.
LEMMA SlotsDiffer ==
  ASSUME NEW n \in 1..MaxCqSize, WordWrap % n = 0, NEW a \in Words, NEW b \in Words,
         0 < Minus(a, b), Minus(a, b) < n
  PROVE  a % n # b % n
<1> SUFFICES ASSUME a % n = b % n PROVE FALSE
  BY Zenon
<1>0. n \in Nat \ {0} /\ WordWrap \in Nat /\ a \in Nat /\ b \in Nat
  BY Sizes DEF Words
<1>1. PICK q \in Nat : a = n * q + (a % n)
  BY <1>0, Divided, Zenon
<1>2. PICK r \in Nat : b = n * r + (a % n)
  BY <1>0, Divided
<1>3. PICK s \in Nat : WordWrap = n * s + (WordWrap % n)
  BY <1>0, Divided, Zenon
<1>4. Minus(a, b) = IF a >= b THEN a - b ELSE a + WordWrap - b
  BY Distance, Zenon
<1>5. a % n \in Nat
  BY <1>0
<1>6. CASE a >= b
  <2>1. Minus(a, b) = n * (q - r)
    BY <1>0, <1>1, <1>2, <1>4, <1>5, <1>6
  <2> QED
    BY <1>0, <2>1, Multiple
<1>7. CASE ~(a >= b)
  <2>1. Minus(a, b) = n * (q + s - r)
    BY <1>0, <1>1, <1>2, <1>3, <1>4, <1>5, <1>7
  <2> QED
    BY <1>0, <2>1, Multiple
<1> QED
  BY <1>6, <1>7, Zenon

----------------------------------------------------------------------------
(* What the completion ring delivers.                                      *)

\* A launch without its result.
Launching(c) == plan[c].pc \notin {"none", "lease", "leased", "join"}

\* Results: a launch under way has none yet, and the image handed over last has one as soon
\* as nobody waits for it.
Known ==
  /\ log.bell # 0 /\ log.result[log.bell] = NoResult =>
       \E c \in Callers : plan[c].rung /\ Launching(c)
  /\ \A c \in Callers : Launching(c) => log.result[plan[c].l] = NoResult
  /\ \A c \in Callers : plan[c].rung => plan[c].l = log.bell

\* The firmware has ended the image handed over last.
Ended == fw.pc \in {"publish", "publish_done"} \/ (log.bell # 0 /\ Quiet)

Length == Len(ImageOf[log.bell].packets)

\* The firmware's progress: it ends an image after its last packet, or with the packet that
\* failed, and the state says which.
Outcome ==
  /\ isValidCqSize(win.size)
  /\ log.bell # 0 /\ ~Quiet => win.nodes = log.bell
  /\ fw.pc \in Scanning => ~fw.failed /\ fw.n = Length /\ fw.k \in 1..(Length + 1)
  /\ fw.pc \in Scanning \ {"packet"} => fw.k <= Length
  /\ Ended /\ fw.failed => fw.status # "ok" /\ fw.k \in 1..Length
  /\ Ended /\ ~fw.failed => fw.k = Length + 1 /\ log.bell \in log.finished
  /\ Ended /\ fw.pc # "publish" => (fw.failed <=> win.state = "ERROR")

\* A caller on its way to a result: without an error the image was worked through, and the
\* drain before the result reaches the producer's last cursor.
Finishing(c) ==
  /\ ~plan[c].lost
  /\ Preparing(c) => win.state # "ERROR"
  /\ plan[c].pc \in Staging => sub.pending = <<>>
  /\ plan[c].rung /\ ~plan[c].err => ~sub.poisoned
  /\ plan[c].pc = "judge" /\ ~plan[c].rung => plan[c].err
  /\ plan[c].rung /\ ~plan[c].err /\ plan[c].site = "raw" => win.state # "ERROR"
  /\ plan[c].rung /\ ~sub.poisoned /\ plan[c].site = "raw" =>
       /\ plan[c].pc = "copy" => plan[c].end = win.wr
       /\ plan[c].pc = "judge" => sub.cursor = win.wr

\* The records handed to the host since the doorbell: their number, and the k-th of them.
Sent ==
  IF fw.pc \in Scanning \/ (Ended /\ ~fw.failed) THEN fw.k - 1
  ELSE IF Ended THEN fw.k ELSE 0

RecordOf(k) ==
  [launch |-> log.bell, packet |-> k, status |-> IF k = fw.k THEN fw.status ELSE "ok"]

\* Where the host stands in the ring, and what it has yet to copy.
Cursor(c) == IF plan[c].pc = "copy" THEN plan[c].i ELSE sub.cursor
Left(c) == Minus(win.wr, Cursor(c))

\* The host has the first records of the image, and the ring the others, in order.
Delivered(c) ==
  plan[c].rung /\ Launching(c) =>
    /\ Len(sub.pending) + Left(c) = Sent
    /\ \A j \in 1..Len(sub.pending) : sub.pending[j] = RecordOf(j)
    /\ \A w \in Words : Minus(w, Cursor(c)) < Left(c) =>
         ring[w % win.size] = RecordOf(Len(sub.pending) + 1 + Minus(w, Cursor(c)))
    /\ plan[c].pc = "copy" => Minus(win.wr, plan[c].end) <= Left(c) /\ Left(c) <= Used
    /\ fw.pc = "bump" => ring[win.wr % win.size] = RecordOf(fw.k)

DeliveryInv == Known /\ Outcome /\ \A c \in Callers : Finishing(c) /\ Delivered(c)

\* A step of the firmware leaves results and callers alone; one that hands over a record or
\* publishes a state meets nobody who has stopped waiting.
LEMMA FirmwareFinishing ==
  ASSUME LinkInv, DeliveryInv, FwFrame, log'.result = log.result,
         fw.pc \in {"bump", "publish"} \/
           (win'.wr = win.wr /\ (win'.state = "ERROR" => win.state = "ERROR"))
  PROVE  Known' /\ \A c \in Callers : Finishing(c)'
<1>1. plan' = plan /\ sub' = sub /\ log'.bell = log.bell
  BY Zenon DEF FwFrame, host
<1>2. Known'
  BY <1>1, Zenon DEF DeliveryInv, Known, Launching
<1>3. ASSUME NEW c \in Callers PROVE Finishing(c)'
  <2>1. Finishing(c) /\ Prepared(c) /\ Rung(c)
    BY Zenon DEF DeliveryInv, LinkInv
  <2>2. CASE fw.pc \in {"bump", "publish"}
    <3>1. ~Quiet /\ fw.pc \notin Resting
      BY <2>2, Zenon DEF Quiet, Resting, Boots
    <3>2. ~Preparing(c)
      BY <2>1, <3>1, Zenon DEF Prepared
    <3>3. plan[c].rung /\ ~sub.poisoned => plan[c].site # "raw"
      BY <2>1, <3>1, Zenon DEF Rung
    <3> QED
      BY <1>1, <2>1, <3>2, <3>3, Zenon DEF Finishing, Preparing
  <2>3. CASE win'.wr = win.wr /\ (win'.state = "ERROR" => win.state = "ERROR")
    BY <1>1, <2>1, <2>3, Zenon DEF Finishing, Preparing
  <2> QED
    BY <2>2, <2>3, Zenon
<1> QED
  BY <1>2, <1>3, Zenon

\* One that writes no record and no cursor delivers nothing.
LEMMA FirmwareDelivered ==
  ASSUME LinkInv, DeliveryInv, FwFrame, ring' = ring, win'.wr = win.wr, fw'.pc # "bump",
         Sent' = Sent, \A k \in 1..Sent : RecordOf(k)' = RecordOf(k)
  PROVE  \A c \in Callers : Delivered(c)'
<1> SUFFICES ASSUME NEW c \in Callers, (plan[c].rung /\ Launching(c))' PROVE Delivered(c)'
  BY Zenon DEF Delivered
<1>1. plan' = plan /\ sub' = sub /\ win'.size = win.size /\ win'.rd = win.rd
  BY Zenon DEF FwFrame, host
<1>2. plan[c].rung /\ Launching(c) /\ Delivered(c)
  BY <1>1, Zenon DEF DeliveryInv, Launching
<1>3. Cursor(c)' = Cursor(c) /\ Left(c)' = Left(c) /\ Used' = Used
  BY <1>1, Zenon DEF Cursor, Left, Used
<1>4. /\ sub.pending \in Seq(Records) /\ sub.cursor \in Words /\ plan[c].i \in Words
      /\ win.wr \in Words
  BY Zenon DEF LinkInv, Types, SubType, PlanType, PlanRecord, WinType
<1>5. Cursor(c) \in Words /\ Left(c) \in Nat /\ Len(sub.pending) \in Nat
  <2>1. Cursor(c) \in Words
    BY <1>4, Zenon DEF Cursor
  <2>2. Left(c) \in Words
    BY <1>4, <2>1, WordDistance, Zenon DEF Left
  <2> QED
    BY <1>4, <2>1, <2>2, Sizes DEF Words
<1>6. Len(sub.pending) + Left(c) = Sent
  BY <1>2, Zenon DEF Delivered
<1>7. \A j \in 1..Len(sub.pending) : sub.pending[j] = RecordOf(j)'
  BY <1>2, <1>5, <1>6 DEF Delivered
<1>8. ASSUME NEW w \in Words, Minus(w, Cursor(c)) < Left(c)
      PROVE  ring[w % win.size] = RecordOf(Len(sub.pending) + 1 + Minus(w, Cursor(c)))'
  <2>1. Minus(w, Cursor(c)) \in Nat
    <3>1. Minus(w, Cursor(c)) \in Words
      BY <1>5, WordDistance, Zenon
    <3> QED
      BY <3>1, Sizes DEF Words
  <2>2. PICK k \in 1..Sent : k = Len(sub.pending) + 1 + Minus(w, Cursor(c))
    BY <1>5, <1>6, <1>8, <2>1
  <2>3. ring[w % win.size] = RecordOf(k)
    BY <1>2, <1>8, <2>2, Zenon DEF Delivered
  <2>4. (k = Len(sub.pending) + 1 + Minus(w, Cursor(c)))'
    BY <1>1, <1>3, <2>2, Zenon
  <2>5. ring[w % win.size] = RecordOf(k)'
    BY <2>3, Zenon
  <2> QED
    BY <2>4, <2>5, Zenon
<1> QED
  BY <1>1, <1>2, <1>3, <1>6, <1>7, <1>8, Zenon DEF Delivered

\* Types of the firmware's fields and the words, for the steps below.
LEMMA FirmwareTyped ==
  ASSUME LinkInv
  PROVE  /\ fw.k \in Nat /\ fw.n \in Nat /\ fw.failed \in BOOLEAN /\ fw.status \in Statuses
         /\ win.wr \in Words /\ win.rd \in Words /\ win.size \in 1..MaxCqSize
         /\ (log.bell # 0 => log.bell \in Launches /\ Length \in Nat)
<1>1. /\ fw.k \in Nat /\ fw.n \in Nat /\ fw.failed \in BOOLEAN /\ fw.status \in Statuses
      /\ win.wr \in Words /\ win.rd \in Words /\ win.size \in 1..MaxCqSize
      /\ log.bell \in Numbers
  BY Zenon DEF LinkInv, Types, FwType, WinType, LogType
<1>2. ASSUME log.bell \in Launches PROVE Length \in Nat
  <2>1. ImageOf[log.bell].packets \in Seq(PacketKinds)
    BY <1>2, LinkAssumption, Zenon
  <2> QED
    BY <2>1 DEF Length
<1> QED
  BY <1>1, <1>2, Zenon DEF Numbers

\* A step of the firmware that neither sends a record nor starts on a packet.
LEMMA SteadyDelivers ==
  ASSUME LinkInv, DeliveryInv, FwFrame, ring' = ring, log'.result = log.result,
         win'.wr = win.wr, fw.pc = "publish" \/ (win'.state = "ERROR" => win.state = "ERROR"),
         fw'.pc # "bump", fw'.k = fw.k, fw'.status = fw.status, Sent' = Sent, Outcome'
  PROVE  DeliveryInv'
<1>1. Known' /\ \A c \in Callers : Finishing(c)'
  BY FirmwareFinishing, Zenon
<1>2. \A k \in 1..Sent : RecordOf(k)' = RecordOf(k)
  BY Zenon DEF RecordOf, FwFrame
<1>3. \A c \in Callers : Delivered(c)'
  BY <1>2, FirmwareDelivered, Zenon
<1> QED
  BY <1>1, <1>3, Zenon DEF DeliveryInv

\* Start-up: nothing was accepted yet.
LEMMA BootDelivers == ASSUME LinkInv, DeliveryInv, Boot PROVE DeliveryInv' /\ Sent' = Sent
<1>1. Types /\ Sequenced /\ Outcome
  BY Zenon DEF LinkInv, DeliveryInv
<1>2. /\ fw.pc \in Boots /\ fw'.pc \in Resting
      /\ win'.done = win.done /\ win'.wr = win.wr
      /\ win'.state \in {win.state, "INIT", "READY"}
      /\ fw'.k = fw.k /\ fw'.status = fw.status /\ fw'.failed = fw.failed
  BY <1>1 DEF Boot, FwGo, Boots, Resting, Types, WinType, FwType, Sequenced
<1>3. FwFrame /\ ring' = ring /\ log' = log
  BY <1>1 DEF Boot, FwFrame, Types, WinType
<1>4. win.state # "ERROR" /\ win'.state # "ERROR"
  BY <1>1, <1>2, Zenon DEF Sequenced, Boots
<1>5. Quiet' <=> Quiet
  BY <1>2, <1>3, <1>4, Zenon DEF Quiet, FwFrame, Resting
<1>6. /\ fw.pc \notin Scanning \cup {"publish", "publish_done"}
      /\ fw'.pc \notin Scanning \cup {"publish", "publish_done"}
  BY <1>2, Zenon DEF Resting, Boots, Scanning
<1>7. Ended' <=> Ended
  BY <1>3, <1>5, <1>6, Zenon DEF Ended, FwFrame
<1>8. Sent' = Sent
  BY <1>2, <1>6, <1>7, Zenon DEF Sent
<1>9. Outcome'
  BY <1>1, <1>2, <1>3, <1>4, <1>5, <1>6, <1>7, Zenon DEF Outcome, Length, FwFrame
<1> QED
  BY <1>2, <1>3, <1>4, <1>6, <1>8, <1>9, SteadyDelivers, Zenon DEF Scanning

\* A sequence word is accepted, and RUNNING published.
LEMMA AcceptDelivers ==
  ASSUME LinkInv, DeliveryInv, Accept \/ SetRunning
  PROVE  DeliveryInv' /\ Sent' = Sent
<1>1. Types /\ Outcome
  BY Zenon DEF LinkInv, DeliveryInv
<1>2. /\ fw.pc \in {"idle", "accepted"} /\ fw'.pc \in {"accepted", "config"}
      /\ fw.pc = "idle" => win.state # "ERROR" /\ win.seq # win.done
      /\ win'.done = win.done /\ win'.wr = win.wr
      /\ win'.state \in {win.state, "RUNNING"}
      /\ fw'.k = fw.k /\ fw'.status = fw.status /\ fw'.failed = fw.failed
  BY <1>1, ZenonT(40) DEF Accept, SetRunning, FwGo, Types, WinType, FwType
<1>3. FwFrame /\ ring' = ring /\ log' = log
  BY <1>1, Zenon DEF Accept, SetRunning, FwFrame, Types, WinType
<1>4. ~Quiet /\ ~Quiet' /\ ~Ended /\ ~Ended'
  BY <1>2, Zenon DEF Quiet, Ended, Resting, Boots
<1>5. fw.pc \notin Scanning /\ fw'.pc \notin Scanning
  BY <1>2, Zenon DEF Scanning
<1>6. Sent' = Sent
  BY <1>4, <1>5, Zenon DEF Sent
<1>7. Outcome'
  BY <1>1, <1>3, <1>4, <1>5, Zenon DEF Outcome, FwFrame
<1> QED
  BY <1>2, <1>3, <1>6, <1>7, SteadyDelivers, Zenon

\* The host refuses a configuration that the firmware would refuse.
LEMMA StoreInitDelivers == ASSUME LinkInv, DeliveryInv, StoreInit PROVE DeliveryInv' /\ Sent' = Sent
<1>1. Types /\ Sequenced /\ Bounded /\ Staged /\ Outcome
  BY Zenon DEF LinkInv, DeliveryInv
<1>2. fw.pc = "config" /\ win' = win /\ ring' = ring /\ log' = log /\ FwFrame
  BY Zenon DEF StoreInit, FwFrame
<1>3. ~Quiet /\ ~Ended /\ log.bell # 0
  BY <1>1, <1>2, Zenon DEF Quiet, Ended, Sequenced, Resting, Boots
<1>4. win.count = log.bell
  BY <1>1, <1>3, Zenon DEF Staged, Outcome
<1>5. ConfigOK
  BY <1>1, <1>3, <1>4, Zenon DEF ConfigOK, Outcome, Bounded
<1>6. /\ fw'.pc = "packet" /\ fw'.k = 1 /\ ~fw'.failed /\ fw'.n = Length
      /\ fw'.status = fw.status
  BY <1>1, <1>4, <1>5, Zenon DEF StoreInit, Length, Types, FwType
<1>7. Sent = 0
  BY <1>2, <1>3, Zenon DEF Sent, Scanning
<1>8. Sent' = 0
  BY <1>6 DEF Sent, Scanning
<1>9. Known' /\ \A c \in Callers : Finishing(c)'
  BY <1>2, FirmwareFinishing, Zenon
<1>10. \A c \in Callers : Delivered(c)'
  BY <1>2, <1>6, <1>7, <1>8, FirmwareDelivered
<1>11. Outcome'
  <2>1. Length \in Nat /\ Length' = Length
    BY <1>2, <1>3, FirmwareTyped, Zenon DEF Length
  <2>2. ~Quiet' /\ ~Ended'
    BY <1>6, Zenon DEF Quiet, Ended, Resting, Boots
  <2> QED
    BY <1>1, <1>2, <1>3, <1>6, <2>1, <2>2 DEF Outcome
<1> QED
  BY <1>7, <1>8, <1>9, <1>10, <1>11, Zenon DEF DeliveryInv

\* The scanner stays on a packet: its records are those of the packets before.
LEMMA ScanDelivers ==
  ASSUME LinkInv, DeliveryInv, FwFrame, fw.pc \in {"packet", "kernel"}, fw.k <= fw.n,
         fw'.pc \in {"kernel", "record"}, fw'.k = fw.k, fw'.n = fw.n, fw'.failed = fw.failed,
         ring' = ring, log' = log, win'.wr = win.wr, win'.state = win.state
  PROVE  DeliveryInv'
<1>1. Outcome /\ fw.k \in Nat
  BY FirmwareTyped, Zenon DEF DeliveryInv
<1>2. fw.pc \in Scanning /\ fw'.pc \in Scanning
  BY Zenon DEF Scanning
<1>3. ~Quiet /\ ~Quiet' /\ ~Ended /\ ~Ended'
  BY Zenon DEF Quiet, Ended, Resting, Boots
<1>4. Sent = fw.k - 1 /\ Sent' = fw.k - 1
  BY <1>2, Zenon DEF Sent
<1>5. \A k \in 1..Sent : RecordOf(k)' = RecordOf(k)
  BY <1>1, <1>4 DEF RecordOf
<1>6. Known' /\ \A c \in Callers : Finishing(c)'
  BY FirmwareFinishing, Zenon
<1>7. \A c \in Callers : Delivered(c)'
  BY <1>4, <1>5, FirmwareDelivered, Zenon
<1>8. Outcome'
  BY <1>1, <1>2, <1>3, Zenon DEF Outcome, Length, FwFrame
<1> QED
  BY <1>6, <1>7, <1>8, Zenon DEF DeliveryInv

\* A packet is started, or its kernel over.
LEMMA ActivateDelivers ==
  ASSUME LinkInv, DeliveryInv, Activate \/ CheckInflight
  PROVE  DeliveryInv'
<1>1. Types /\ Sequenced /\ Bounded /\ Outcome
  BY Zenon DEF LinkInv, DeliveryInv
<1>2. fw.pc \in {"packet", "kernel"} /\ ring' = ring /\ log' = log /\ UNCHANGED host
  BY Zenon DEF Activate, CheckInflight
<1>3. log.bell # 0
  BY <1>1, <1>2, Zenon DEF Sequenced, Resting, Boots
<1>4. ~(Used > win.size)
  <2>1. Used <= win.size /\ Used \in Words /\ win.size \in 1..MaxCqSize
    BY <1>1, <1>3, FirmwareTyped, WordDistance, Zenon DEF Bounded, Used
  <2> QED
    BY <2>1, Sizes DEF Words
<1>5. /\ fw'.pc \in {"kernel", "record"} /\ fw'.k = fw.k /\ fw'.n = fw.n
      /\ fw'.failed = fw.failed /\ win'.wr = win.wr /\ win'.state = win.state
      /\ FwFrame /\ fw.k <= fw.n
  <2>1. CASE Activate
    <3>1. Dispatch
      BY <1>4, <2>1, Zenon DEF Activate
    <3>2. win' = [win EXCEPT !.sentinel = @ \/ fw.k = fw.n]
      BY <3>1, Zenon DEF Dispatch
    <3>3. /\ win'.wr = win.wr /\ win'.state = win.state /\ win'.seq = win.seq
          /\ win'.size = win.size /\ win'.rd = win.rd /\ win'.nodes = win.nodes
          /\ win'.args = win.args /\ win'.count = win.count
      BY <1>1, <3>2, Zenon DEF Types, WinType
    <3>4. /\ fw'.pc \in {"kernel", "record"} /\ fw'.k = fw.k /\ fw'.n = fw.n
          /\ fw'.failed = fw.failed
      BY <1>1, <3>1, Zenon DEF Dispatch, Types, FwType
    <3>5. fw.k <= fw.n
      BY <2>1, Zenon DEF Activate
    <3> QED
      BY <1>2, <3>3, <3>4, <3>5, Zenon DEF FwFrame
  <2>2. CASE CheckInflight
    <3>1. /\ fw'.pc = "record" /\ fw'.k = fw.k /\ fw'.n = fw.n
          /\ fw'.failed = fw.failed /\ win' = win
      BY <1>1, <1>4, <2>2, Zenon DEF CheckInflight, Types, FwType
    <3>2. fw.k <= fw.n
      BY <1>1, <2>2, Zenon DEF CheckInflight, Outcome, Scanning
    <3> QED
      BY <1>2, <3>1, <3>2, Zenon DEF FwFrame
  <2> QED
    BY <2>1, <2>2, Zenon
<1> QED
  BY <1>2, <1>5, ScanDelivers, Zenon

\* Distances to one word tell words apart, and their difference is a distance.
LEMMA DistanceSplit ==
  ASSUME NEW a \in Words, NEW b \in Words, NEW c \in Words
  PROVE  /\ Minus(b, c) < Minus(a, c) => Minus(a, b) = Minus(a, c) - Minus(b, c)
         /\ Minus(a, c) = Minus(b, c) => a = b
<1>1. Minus(a, c) = IF a >= c THEN a - c ELSE a + WordWrap - c
  BY Distance, Zenon
<1>2. Minus(b, c) = IF b >= c THEN b - c ELSE b + WordWrap - c
  BY Distance, Zenon
<1>3. Minus(a, b) = IF a >= b THEN a - b ELSE a + WordWrap - b
  BY Distance, Zenon
<1> QED
  BY <1>1, <1>2, <1>3, Sizes DEF Words

\* What the host has yet to copy is within the ring.
LEMMA LeftTyped ==
  ASSUME LinkInv, DeliveryInv, NEW c \in Callers, plan[c].rung, Launching(c)
  PROVE  /\ Cursor(c) \in Words /\ Left(c) \in Nat /\ Used \in Nat /\ Left(c) <= Used
         /\ Len(sub.pending) \in Nat /\ log.bell # 0 /\ Delivered(c)
<1>1. /\ sub.pending \in Seq(Records) /\ sub.cursor \in Words /\ plan[c].i \in Words
      /\ win.wr \in Words /\ win.rd \in Words
  BY Zenon DEF LinkInv, Types, SubType, PlanType, PlanRecord, WinType
<1>2. Delivered(c) /\ log.bell # 0
  BY Zenon DEF DeliveryInv, LinkInv, Rung
<1>3. Cursor(c) \in Words
  BY <1>1, Zenon DEF Cursor
<1>4. Left(c) \in Words /\ Used \in Words
  BY <1>1, <1>3, WordDistance, Zenon DEF Left, Used
<1>5. Left(c) \in Nat /\ Used \in Nat
  BY <1>4, Sizes DEF Words
<1>6. plan[c].pc # "copy" => Left(c) = Used
  BY <1>2, Zenon DEF LinkInv, Bounded, Left, Cursor, Used
<1>7. Left(c) <= Used
  BY <1>2, <1>5, <1>6 DEF Delivered
<1> QED
  BY <1>1, <1>2, <1>3, <1>5, <1>7

\* A record goes into a slot that holds nothing the host has yet to copy.
LEMMA WriteRecordDelivers == ASSUME LinkInv, DeliveryInv, WriteRecord PROVE DeliveryInv'
<1>1. Types /\ Sequenced /\ Bounded /\ Outcome
  BY Zenon DEF LinkInv, DeliveryInv
<1>2. /\ fw.pc = "record" /\ fw'.pc = "bump" /\ fw'.k = fw.k /\ fw'.n = fw.n
      /\ fw'.failed = fw.failed /\ fw'.status = fw.status
      /\ win' = win /\ log' = log /\ sub' = sub /\ plan' = plan /\ FwFrame
  BY <1>1, Zenon DEF WriteRecord, FwGo, FwFrame, host, Types, FwType
<1>3. ~Quiet /\ ~Quiet' /\ ~Ended /\ ~Ended' /\ log.bell # 0
  BY <1>1, <1>2, Zenon DEF Quiet, Ended, Sequenced, Resting, Boots
<1>4. fw.pc \in Scanning /\ fw'.pc \in Scanning
  BY <1>2, Zenon DEF Scanning
<1>5. Sent' = Sent
  BY <1>2, <1>4, Zenon DEF Sent
<1>6. \A k : RecordOf(k)' = RecordOf(k)
  BY <1>2, Zenon DEF RecordOf
<1>7. Known' /\ \A c \in Callers : Finishing(c)'
  BY <1>2, FirmwareFinishing, Zenon
<1>8. Outcome'
  BY <1>1, <1>2, <1>3, <1>4, Zenon DEF Outcome, Length
<1>9. /\ win.size \in 1..MaxCqSize /\ win.wr \in Words /\ Used < win.size
      /\ WordWrap % win.size = 0
  <2>1. isValidCqSize(win.size) /\ win.size \in 1..MaxCqSize
    BY <1>1, FirmwareTyped, Zenon DEF Outcome
  <2>2. WordWrap % win.size = 0
    BY <2>1, LinkAssumption, Zenon
  <2> QED
    BY <1>1, <1>2, <2>1, <2>2, FirmwareTyped, Zenon DEF Bounded
<1>10. win.wr % win.size \in 0..(MaxCqSize - 1)
  BY <1>9, Sizes DEF Words
<1>11. /\ ring'[win.wr % win.size] = RecordOf(fw.k)
       /\ \A i \in 0..(MaxCqSize - 1) : i # win.wr % win.size => ring'[i] = ring[i]
  <2>1. ring' = [ring EXCEPT ![win.wr % win.size] =
                   [launch |-> win.nodes, packet |-> fw.k, status |-> fw.status]]
    BY Zenon DEF WriteRecord
  <2>2. win.nodes = log.bell
    BY <1>1, <1>3, Zenon DEF Outcome
  <2> QED
    BY <1>1, <1>10, <2>1, <2>2, Zenon DEF Types, RingType, RecordOf
<1>12. ASSUME NEW c \in Callers, plan[c].rung, Launching(c) PROVE Delivered(c)'
  <2>1. /\ Cursor(c) \in Words /\ Left(c) \in Nat /\ Left(c) <= Used /\ Used \in Nat
        /\ Delivered(c)
    BY <1>12, LeftTyped, Zenon
  <2>2. Cursor(c)' = Cursor(c) /\ Left(c)' = Left(c) /\ Used' = Used
    BY <1>2, Zenon DEF Cursor, Left, Used
  <2>3. ASSUME NEW w \in Words, Minus(w, Cursor(c)) < Left(c)
        PROVE  ring'[w % win.size] = RecordOf(Len(sub.pending) + 1 + Minus(w, Cursor(c)))
    <3>1. Minus(win.wr, w) = Left(c) - Minus(w, Cursor(c))
      BY <1>9, <2>1, <2>3, DistanceSplit, Zenon DEF Left
    <3>2. Minus(w, Cursor(c)) \in Nat
      <4>1. Minus(w, Cursor(c)) \in Words
        BY <2>1, WordDistance, Zenon
      <4> QED
        BY <4>1, Sizes DEF Words
    <3>3. 0 < Minus(win.wr, w) /\ Minus(win.wr, w) < win.size
      BY <1>9, <2>1, <2>3, <3>1, <3>2
    <3>4. win.wr % win.size # w % win.size
      BY <1>9, <3>3, SlotsDiffer, Zenon
    <3>5. w % win.size \in 0..(MaxCqSize - 1)
      BY <1>9, Sizes DEF Words
    <3>6. ring'[w % win.size] = ring[w % win.size]
      BY <1>11, <3>4, <3>5, Zenon
    <3> QED
      BY <1>12, <2>1, <2>3, <3>6, Zenon DEF Delivered
  <2>4. ring'[win.wr % win.size] = RecordOf(fw.k)'
    <3>1. RecordOf(fw.k)' = RecordOf(fw.k)
      BY <1>2, Zenon DEF RecordOf
    <3> QED
      BY <1>11, <3>1, Zenon
  <2>5. \A j \in 1..Len(sub.pending) : sub.pending[j] = RecordOf(j)'
    BY <1>6, <1>12, <2>1, Zenon DEF Delivered
  <2> QED
    BY <1>2, <1>5, <1>6, <1>12, <2>1, <2>2, <2>3, <2>4, <2>5, Zenon DEF Delivered
<1>13. \A c \in Callers : Delivered(c)'
  <2> SUFFICES ASSUME NEW c \in Callers, (plan[c].rung /\ Launching(c))' PROVE Delivered(c)'
    BY Zenon DEF Delivered
  <2>1. plan[c].rung /\ Launching(c)
    BY <1>2, Zenon DEF Launching
  <2> QED
    BY <1>12, <2>1, Zenon
<1> QED
  BY <1>7, <1>8, <1>13, Zenon DEF DeliveryInv

\* The cursor hands the record over.
LEMMA BumpCursorDelivers == ASSUME LinkInv, DeliveryInv, BumpCursor PROVE DeliveryInv'
<1>1. Types /\ Sequenced /\ Bounded /\ Outcome
  BY Zenon DEF LinkInv, DeliveryInv
<1>2. /\ fw.pc = "bump" /\ fw'.n = fw.n /\ fw'.status = fw.status
      /\ \/ fw.status = "ok" /\ fw'.pc = "packet" /\ fw'.k = fw.k + 1 /\ fw'.failed = fw.failed
         \/ fw.status # "ok" /\ fw'.pc = "publish" /\ fw'.k = fw.k /\ fw'.failed
  BY <1>1, Zenon DEF BumpCursor, Types, FwType
<1>3. /\ win'.wr = Plus1(win.wr) /\ win'.size = win.size /\ win'.rd = win.rd
      /\ win'.nodes = win.nodes /\ ring' = ring /\ log' = log /\ sub' = sub /\ plan' = plan
      /\ FwFrame
  BY <1>1, Zenon DEF BumpCursor, FwFrame, host, Types, WinType
<1>4. ~Quiet /\ ~Quiet' /\ ~Ended /\ log.bell # 0
  BY <1>1, <1>2, Zenon DEF Quiet, Ended, Sequenced, Resting, Boots
<1>5. fw.k \in 1..Length /\ Length \in Nat /\ ~fw.failed /\ fw.n = Length
  BY <1>1, <1>2, <1>4, FirmwareTyped DEF Outcome, Scanning
<1>6. Sent = fw.k - 1 /\ Sent' = fw.k
  BY <1>2, <1>4, <1>5 DEF Sent, Scanning, Ended
<1>7. \A j \in 1..fw.k : RecordOf(j)' = RecordOf(j)
  BY <1>2, <1>3, <1>5, Zenon DEF RecordOf
<1>8. Known' /\ \A c \in Callers : Finishing(c)'
  BY <1>2, <1>3, FirmwareFinishing, Zenon
<1>9. Outcome'
  <2>1. Length' = Length
    BY <1>3, Zenon DEF Length
  <2>2. CASE fw'.pc = "packet"
    BY <1>1, <1>2, <1>3, <1>4, <1>5, <2>1, <2>2 DEF Outcome, Ended, Scanning
  <2>3. CASE fw'.pc = "publish"
    BY <1>1, <1>2, <1>3, <1>4, <1>5, <2>1, <2>3, Zenon DEF Outcome, Ended, Scanning
  <2> QED
    BY <1>2, <2>2, <2>3, Zenon
<1>10. ASSUME NEW c \in Callers, plan[c].rung, Launching(c) PROVE Delivered(c)'
  <2>1. /\ Cursor(c) \in Words /\ Left(c) \in Nat /\ Used \in Nat /\ Left(c) <= Used
        /\ Len(sub.pending) \in Nat /\ Delivered(c)
    BY <1>10, LeftTyped, Zenon
  <2>2. /\ Used < win.size /\ win.size \in 1..MaxCqSize /\ win.wr \in Words /\ win.rd \in Words
        /\ plan[c].end \in Words
    BY <1>1, <1>2, FirmwareTyped, Zenon DEF Bounded, Types, PlanType, PlanRecord
  <2>3. Used < WordWrap - 1
    BY <2>1, <2>2, Sizes
  <2>4. Cursor(c)' = Cursor(c)
    BY <1>3, Zenon DEF Cursor
  <2>5. Left(c)' = Left(c) + 1
    <3>1. Minus(win.wr, Cursor(c)) < WordWrap - 1
      BY <2>1, <2>3, Sizes DEF Left
    <3> QED
      BY <1>3, <2>1, <2>2, <2>4, <3>1, DistanceStep, Zenon DEF Left
  <2>6. Used' = Used + 1
    BY <1>3, <2>2, <2>3, DistanceStep, Zenon DEF Used
  <2>7. plan[c].pc = "copy" => Minus(win'.wr, plan[c].end) <= Left(c) + 1
    <3> SUFFICES ASSUME plan[c].pc = "copy" PROVE Minus(win'.wr, plan[c].end) <= Left(c) + 1
      BY Zenon
    <3>1. Minus(win.wr, plan[c].end) <= Left(c)
      BY <1>10, <2>1, Zenon DEF Delivered
    <3>2. Minus(win.wr, plan[c].end) \in Words
      BY <2>2, WordDistance, Zenon
    <3>3. Minus(win.wr, plan[c].end) < WordWrap - 1 /\ Minus(win.wr, plan[c].end) \in Nat
      BY <2>1, <2>3, <3>1, <3>2, Sizes DEF Words
    <3>4. Minus(Plus1(win.wr), plan[c].end) = Minus(win.wr, plan[c].end) + 1
      BY <2>2, <3>3, DistanceStep, Zenon
    <3> QED
      BY <1>3, <2>1, <3>1, <3>3, <3>4
  <2>8. Len(sub.pending) + Left(c) = fw.k - 1
    BY <1>6, <1>10, <2>1, Zenon DEF Delivered
  <2>9. \A j \in 1..Len(sub.pending) : sub.pending[j] = RecordOf(j)'
    <3> SUFFICES ASSUME NEW j \in 1..Len(sub.pending) PROVE sub.pending[j] = RecordOf(j)'
      BY Zenon
    <3>1. j \in 1..fw.k
      BY <1>5, <2>1, <2>8
    <3>2. sub.pending[j] = RecordOf(j)
      BY <1>10, <2>1, Zenon DEF Delivered
    <3> QED
      BY <1>7, <3>1, <3>2, Zenon
  <2>10. ASSUME NEW w \in Words, Minus(w, Cursor(c)) < Left(c) + 1
         PROVE  ring[w % win.size] = RecordOf(Len(sub.pending) + 1 + Minus(w, Cursor(c)))'
    <3>1. Minus(w, Cursor(c)) \in Nat
      <4>1. Minus(w, Cursor(c)) \in Words
        BY <2>1, WordDistance, Zenon
      <4> QED
        BY <4>1, Sizes DEF Words
    <3>2. PICK j \in 1..fw.k : j = Len(sub.pending) + 1 + Minus(w, Cursor(c))
      BY <1>5, <2>1, <2>8, <2>10, <3>1, SMTT(30)
    <3>3. ring[w % win.size] = RecordOf(j)
      <4>1. CASE Minus(w, Cursor(c)) < Left(c)
        BY <1>10, <2>1, <3>2, <4>1, Zenon DEF Delivered
      <4>2. CASE Minus(w, Cursor(c)) = Left(c)
        <5>1. w = win.wr
          BY <2>1, <2>2, <4>2, DistanceSplit DEF Left
        <5>2. j = fw.k
          BY <1>5, <2>1, <2>8, <3>2, <4>2
        <5>3. ring[win.wr % win.size] = RecordOf(fw.k)
          BY <1>2, <1>10, <2>1, Zenon DEF Delivered
        <5> QED
          BY <5>1, <5>2, <5>3, Zenon
      <4> QED
        BY <2>1, <2>10, <3>1, <4>1, <4>2
    <3>4. (j = Len(sub.pending) + 1 + Minus(w, Cursor(c)))'
      BY <1>3, <2>4, <3>2, Zenon
    <3>5. ring[w % win.size] = RecordOf(j)'
      BY <1>7, <3>3, Zenon
    <3> QED
      BY <3>4, <3>5, Zenon
  <2>11. (Len(sub.pending) + Left(c) = Sent)'
    BY <1>3, <1>5, <1>6, <2>1, <2>5, <2>8, SMTT(30)
  <2>12. (plan[c].pc = "copy" => Minus(win.wr, plan[c].end) <= Left(c) /\ Left(c) <= Used)'
    BY <1>3, <2>1, <2>5, <2>6, <2>7
  <2> QED
    BY <1>2, <1>3, <2>4, <2>5, <2>9, <2>10, <2>11, <2>12, Zenon DEF Delivered
<1>11. \A c \in Callers : Delivered(c)'
  <2> SUFFICES ASSUME NEW c \in Callers, (plan[c].rung /\ Launching(c))' PROVE Delivered(c)'
    BY Zenon DEF Delivered
  <2>1. plan[c].rung /\ Launching(c)
    BY <1>3, Zenon DEF Launching
  <2> QED
    BY <1>10, <2>1, Zenon
<1> QED
  BY <1>8, <1>9, <1>11, Zenon DEF DeliveryInv

\* The image is worked through.
LEMMA CompleteDelivers == ASSUME LinkInv, DeliveryInv, Complete PROVE DeliveryInv' /\ Sent' = Sent
<1>1. Types /\ Sequenced /\ Staged /\ Outcome
  BY Zenon DEF LinkInv, DeliveryInv
<1>2. /\ fw.pc = "packet" /\ fw'.pc = "publish" /\ fw'.k = fw.k /\ fw'.n = fw.n
      /\ fw'.failed = fw.failed /\ fw'.status = fw.status /\ fw.k > fw.n
      /\ log'.result = log.result /\ log'.bell = log.bell
      /\ log'.finished = log.finished \cup {fw.img}
      /\ win' = win /\ ring' = ring /\ FwFrame
  BY <1>1, Zenon DEF Complete, FwFrame, Types, FwType, LogType
<1>3. ~Quiet /\ ~Quiet' /\ ~Ended /\ Ended' /\ log.bell # 0
  BY <1>1, <1>2, Zenon DEF Quiet, Ended, Sequenced, Resting, Boots
<1>4. fw.k = Length + 1 /\ ~fw.failed /\ fw.img = log.bell
  BY <1>1, <1>2, <1>3, FirmwareTyped DEF Outcome, Staged, Scanning
<1>5. Sent' = Sent
  BY <1>2, <1>3, <1>4, Zenon DEF Sent, Scanning
<1>6. Outcome'
  BY <1>1, <1>2, <1>3, <1>4, Zenon DEF Outcome, Length, Scanning
<1> QED
  BY <1>2, <1>5, <1>6, SteadyDelivers, Zenon

\* The end is published: the state, then the sequence word.
LEMMA PublishDelivers ==
  ASSUME LinkInv, DeliveryInv, PublishState \/ PublishDone
  PROVE  DeliveryInv' /\ Sent' = Sent
<1>1. Types /\ Sequenced /\ Outcome
  BY Zenon DEF LinkInv, DeliveryInv
<1>2. /\ fw.pc \in {"publish", "publish_done"} /\ fw'.pc \in {"publish_done", "idle"}
      /\ fw'.k = fw.k /\ fw'.failed = fw.failed /\ fw'.status = fw.status
      /\ fw.pc = "publish" => fw'.pc = "publish_done"
                              /\ win'.state = IF fw.failed THEN "ERROR" ELSE "READY"
      /\ fw.pc = "publish_done" => fw'.pc = "idle" /\ win'.state = win.state
                                   /\ win'.done = fw.seq
      /\ win'.wr = win.wr /\ ring' = ring /\ log' = log /\ FwFrame
  BY <1>1 DEF PublishState, PublishDone, FwGo, FwFrame, Types, FwType, WinType
<1>3. log.bell # 0 /\ Ended
  BY <1>1, <1>2, Zenon DEF Ended, Sequenced, Resting, Boots
<1>4. Ended'
  BY <1>1, <1>2, <1>3, Zenon DEF Ended, Quiet, Sequenced, Active, Resting, FwFrame
<1>5. Sent' = Sent
  BY <1>2, <1>3, <1>4, Zenon DEF Sent, Scanning
<1>6. Quiet' \/ ~Quiet
  BY <1>2, Zenon DEF Quiet, Resting, Boots
<1>7. Outcome'
  <2>1. fw'.failed <=> win'.state = "ERROR"
    BY <1>1, <1>2, <1>3, Zenon DEF Outcome, Ended
  <2> QED
    BY <1>1, <1>2, <1>3, <1>4, <1>6, <2>1, Zenon DEF Outcome, Length, Scanning, FwFrame
<1> QED
  BY <1>2, <1>5, <1>7, SteadyDelivers, Zenon

\* The firmware starts over before anything was handed over; a kernel ends.
LEMMA RestartDelivers ==
  ASSUME LinkInv, DeliveryInv, Restart \/ KernelFinishes
  PROVE  DeliveryInv' /\ Sent' = Sent
<1>1. Types /\ Sequenced /\ Outcome
  BY Zenon DEF LinkInv, DeliveryInv
<1>2. /\ win' = win /\ ring' = ring /\ log'.result = log.result /\ log'.bell = log.bell
      /\ log'.finished = log.finished /\ FwFrame
      /\ fw'.k = fw.k /\ fw'.n = fw.n /\ fw'.failed = fw.failed /\ fw'.status = fw.status
      /\ fw'.pc = fw.pc \/ (log.bell = 0 /\ fw'.pc = "boot")
  BY <1>1, Zenon DEF Restart, KernelFinishes, FwFrame, host, Types, LogType, FwType
<1>3. CASE log.bell = 0 /\ fw'.pc = "boot"
  <2>1. fw.pc \in Resting
    BY <1>1, <1>3, Zenon DEF Sequenced
  <2>2. ~Ended /\ ~Ended' /\ fw.pc \notin Scanning /\ fw'.pc \notin Scanning
    BY <1>2, <1>3, <2>1, Zenon DEF Ended, Resting, Boots, Scanning
  <2>3. Sent' = Sent
    BY <2>2, Zenon DEF Sent
  <2>4. Outcome'
    BY <1>1, <1>2, <1>3, <2>2, Zenon DEF Outcome
  <2> QED
    BY <1>2, <1>3, <2>3, <2>4, SteadyDelivers, Zenon
<1>4. CASE fw'.pc = fw.pc
  <2>1. Quiet' = Quiet /\ Ended' = Ended
    BY <1>2, <1>4, Zenon DEF Quiet, Ended
  <2>2. Sent' = Sent
    BY <1>2, <1>4, <2>1, Zenon DEF Sent
  <2>3. Outcome'
    BY <1>1, <1>2, <1>4, <2>1, Zenon DEF Outcome, Length
  <2>4. \A k : RecordOf(k)' = RecordOf(k)
    BY <1>2, Zenon DEF RecordOf
  <2>5. Known' /\ \A c \in Callers : Finishing(c)'
    BY <1>2, FirmwareFinishing, Zenon
  <2>6. \A c \in Callers : Delivered(c)'
    <3>1. CASE fw.pc # "bump"
      BY <1>2, <1>4, <2>2, <2>4, <3>1, FirmwareDelivered, Zenon
    <3>2. CASE fw.pc = "bump"
      <4>1. fw' = fw /\ log' = log /\ sub' = sub /\ plan' = plan
        BY <1>1, <3>2, Zenon DEF Restart, KernelFinishes, host, Sequenced, Resting, Boots
      <4> QED
        BY <1>2, <2>2, <2>4, <4>1, Zenon
        DEF DeliveryInv, Delivered, Launching, Cursor, Left, Used
    <3> QED
      BY <3>1, <3>2, Zenon
  <2> QED
    BY <2>2, <2>3, <2>5, <2>6, Zenon DEF DeliveryInv
<1> QED
  BY <1>2, <1>3, <1>4, Zenon

\* A step of the holder keeps the invariant if it keeps the holder's part of it.
LEMMA HolderDelivers ==
  ASSUME LinkInv, DeliveryInv, NEW c \in Callers, Holds(c),
         \A d \in Callers \ {c} : plan'[d] = plan[d],
         Known', Outcome', Finishing(c)', Delivered(c)'
  PROVE  DeliveryInv'
<1>1. ASSUME NEW d \in Callers, d # c PROVE Finishing(d)' /\ Delivered(d)'
  <2>1. plan[d].pc \in {"none", "lease"} /\ ~plan[d].rung /\ ~plan[d].lost
    BY <1>1, OthersOutside, Zenon DEF DeliveryInv, Finishing
  <2>2. plan'[d] = plan[d]
    BY <1>1, Zenon
  <2> QED
    BY <2>1, <2>2, Zenon DEF Finishing, Delivered, Preparing, Staging, Draining
<1> QED
  BY <1>1, Zenon DEF DeliveryInv

\* A launch goes on: no result, no doorbell.
LEMMA KnownKept ==
  ASSUME DeliveryInv, NEW c \in Callers, log' = log, Launching(c), Launching(c)',
         plan'[c].l = plan[c].l, plan'[c].rung = plan[c].rung,
         \A d \in Callers \ {c} : plan'[d] = plan[d]
  PROVE  Known'
<1>1. ASSUME NEW d \in Callers
      PROVE  /\ Launching(d)' <=> Launching(d)
             /\ plan'[d].rung = plan[d].rung /\ plan'[d].l = plan[d].l
  BY Zenon DEF Launching
<1> QED
  BY <1>1, Zenon DEF DeliveryInv, Known

\* The firmware's progress is not the host's to change.
LEMMA OutcomeKept ==
  ASSUME Outcome, fw' = fw, log'.bell = log.bell, log'.finished = log.finished,
         win'.seq = win.seq, win'.done = win.done, win'.state = win.state,
         isValidCqSize(win'.size), Quiet \/ win'.nodes = win.nodes
  PROVE  Outcome' /\ Sent' = Sent /\ \A k : RecordOf(k)' = RecordOf(k)
<1>1. Quiet' = Quiet /\ Ended' = Ended /\ Length' = Length
  BY Zenon DEF Quiet, Ended, Length
<1> QED
  BY <1>1, Zenon DEF Outcome, Sent, RecordOf

\* A step of the holder before its doorbell.
LEMMA UnrungDelivers ==
  ASSUME LinkInv, DeliveryInv, NEW c \in Callers, Holds(c),
         \A d \in Callers \ {c} : plan'[d] = plan[d],
         fw' = fw, log' = log, win'.seq = win.seq, win'.done = win.done, win'.state = win.state,
         isValidCqSize(win'.size), Quiet \/ win'.nodes = win.nodes,
         Launching(c), Launching(c)', plan'[c].l = plan[c].l, ~plan[c].rung,
         plan'[c].rung = plan[c].rung, Finishing(c)'
  PROVE  DeliveryInv'
<1>1. Known'
  BY KnownKept, Zenon
<1>2. Outcome'
  BY OutcomeKept, Zenon DEF DeliveryInv
<1>3. Delivered(c)'
  BY Zenon DEF Delivered
<1> QED
  BY <1>1, <1>2, <1>3, HolderDelivers, Zenon

\* A step of the holder after its doorbell that writes nothing but the consumer's cursor.
LEMMA RungDelivers ==
  ASSUME LinkInv, DeliveryInv, NEW c \in Callers, Holds(c),
         \A d \in Callers \ {c} : plan'[d] = plan[d],
         fw' = fw, log' = log, ring' = ring, win'.seq = win.seq, win'.done = win.done,
         win'.state = win.state, win'.size = win.size, win'.nodes = win.nodes, win'.wr = win.wr,
         Launching(c), Launching(c)', plan'[c].l = plan[c].l, plan'[c].rung = plan[c].rung,
         sub'.pending = sub.pending, Cursor(c)' = Cursor(c),
         plan'[c].pc = "copy" => Minus(win.wr, plan'[c].end) <= Left(c) /\ Left(c) <= Used',
         Finishing(c)'
  PROVE  DeliveryInv'
<1>1. Known'
  BY KnownKept, Zenon
<1>2. Outcome' /\ Sent' = Sent /\ \A k : RecordOf(k)' = RecordOf(k)
  <2>1. isValidCqSize(win'.size) /\ Outcome
    BY Zenon DEF DeliveryInv, Outcome
  <2> QED
    BY <2>1, OutcomeKept, Zenon
<1>3. Left(c)' = Left(c)
  BY Zenon DEF Left
<1>4. ASSUME NEW k PROVE RecordOf(k)' = RecordOf(k)
  BY <1>2, Zenon
<1>5. Delivered(c)'
  <2> SUFFICES ASSUME plan[c].rung PROVE Delivered(c)'
    BY Zenon DEF Delivered
  <2>1. Delivered(c)
    BY Zenon DEF DeliveryInv
  <2>2. \A j \in 1..Len(sub.pending) : sub.pending[j] = RecordOf(j)'
    BY <1>2, <2>1, Zenon DEF Delivered
  <2>3. ASSUME NEW w \in Words, Minus(w, Cursor(c)) < Left(c)
        PROVE  ring[w % win.size] = RecordOf(Len(sub.pending) + 1 + Minus(w, Cursor(c)))'
    <3>1. PICK k : k = Len(sub.pending) + 1 + Minus(w, Cursor(c))
      BY Zenon
    <3>2. ring[w % win.size] = RecordOf(k)
      BY <2>1, <2>3, <3>1, Zenon DEF Delivered
    <3>3. (k = Len(sub.pending) + 1 + Minus(w, Cursor(c)))'
      BY <3>1, Zenon
    <3>4. ring[w % win.size] = RecordOf(k)'
      BY <1>2, <3>2, Zenon
    <3> QED
      BY <3>3, <3>4, Zenon
  <2>4. fw.pc = "bump" => ring[win.wr % win.size] = RecordOf(fw.k)'
    <3>1. RecordOf(fw.k)' = RecordOf(fw.k)
      BY Zenon DEF RecordOf
    <3> QED
      BY <2>1, <3>1, Zenon DEF Delivered
  <2> QED
    BY <1>2, <1>3, <2>1, <2>2, <2>3, <2>4, Zenon DEF Delivered
<1> QED
  BY <1>1, <1>2, <1>5, HolderDelivers, Zenon

\* A caller without a launch changes nothing.
LEMMA OutsiderDelivers ==
  ASSUME DeliveryInv, NEW c \in Callers, UNCHANGED <<win, ring, fw, sub, log>>,
         \A d \in Callers \ {c} : plan'[d] = plan[d],
         plan[c].pc \in {"none", "lease", "leased"}, plan'[c].pc \in {"none", "lease", "leased"},
         ~plan[c].rung, ~plan'[c].rung, ~plan'[c].lost
  PROVE  DeliveryInv'
<1>1. Known'
  <2>1. ~Launching(c) /\ ~Launching(c)'
    BY Zenon DEF Launching
  <2>2. ASSUME NEW d \in Callers, d # c PROVE Launching(d)' = Launching(d) /\ plan'[d] = plan[d]
    BY <2>2, Zenon DEF Launching
  <2> QED
    BY <2>1, <2>2 DEF DeliveryInv, Known
<1>2. Outcome'
  BY Zenon DEF DeliveryInv, Outcome, Quiet, Ended, Length
<1>3. Finishing(c)' /\ Delivered(c)'
  BY Zenon DEF Finishing, Delivered, Preparing, Staging, Draining
<1>4. ASSUME NEW d \in Callers, d # c PROVE Finishing(d)' /\ Delivered(d)'
  <2>1. plan'[d] = plan[d] /\ Finishing(d) /\ Delivered(d)
    BY <1>4, Zenon DEF DeliveryInv
  <2>2. Finishing(d)'
    BY <2>1, Zenon DEF Finishing, Preparing
  <2>3. Delivered(d)'
    BY <2>1 DEF Delivered, Launching, Left, Cursor, Sent, Ended, Quiet, RecordOf, Used
  <2> QED
    BY <2>2, <2>3, Zenon
<1> QED
  BY <1>1, <1>2, <1>3, <1>4, Zenon DEF DeliveryInv

\* The lease, the start of a launch and its end leave the window alone.
LEMMA CallerDelivers ==
  ASSUME LinkInv, DeliveryInv, NEW c \in Callers, LeaseCheck(c) \/ LeaseTake(c) \/ Release(c)
  PROVE  DeliveryInv'
<1>1. UNCHANGED <<win, ring, fw, sub, log>>
  BY Zenon DEF LeaseCheck, LeaseTake, Release, card
<1>2. /\ \A d \in Callers \ {c} : plan'[d] = plan[d]
      /\ plan[c].pc \in {"none", "lease", "leased"}
      /\ plan'[c].pc \in {"none", "lease", "leased"}
      /\ plan'[c].rung = plan[c].rung /\ plan'[c].lost = plan[c].lost
  BY DEF LinkInv, Types, PlanType, PlanRecord, LeaseCheck, LeaseTake, Release, Go, At
<1>3. ~plan[c].rung /\ ~plan[c].lost
  BY <1>2, Zenon DEF LinkInv, Rung, Draining, DeliveryInv, Finishing
<1> QED
  BY <1>1, <1>2, <1>3, OutsiderDelivers, Zenon

\* A launch starts without a result.
LEMMA LaunchDelivers ==
  ASSUME LinkInv, DeliveryInv, NEW c \in Callers, Launch(c)
  PROVE  DeliveryInv'
<1>1. UNCHANGED <<win, ring, fw, sub, log>>
  BY Zenon DEF Launch, card
<1>2. /\ \A d \in Callers \ {c} : plan'[d] = plan[d]
      /\ plan[c].pc = "leased" /\ plan'[c].pc = "enter" /\ ~plan'[c].rung /\ ~plan'[c].lost
      /\ log.result[plan'[c].l] = NoResult
  BY DEF LinkInv, Types, PlanType, Launch, At, IdlePlan
<1>3. Known'
  <2>1. ~Launching(c)
    BY <1>2, Zenon DEF Launching
  <2>2. ASSUME NEW d \in Callers, d # c PROVE Launching(d)' = Launching(d) /\ plan'[d] = plan[d]
    BY <1>2, <2>2, Zenon DEF Launching
  <2> QED
    BY <1>1, <1>2, <2>1, <2>2 DEF DeliveryInv, Known
<1>4. Outcome'
  BY <1>1, Zenon DEF DeliveryInv, Outcome, Quiet, Ended, Length
<1>5. Finishing(c)' /\ Delivered(c)'
  BY <1>2, Zenon DEF Finishing, Delivered, Preparing, Staging, Draining
<1> QED
  BY <1>2, <1>3, <1>4, <1>5, HolderDelivers, Zenon DEF Holds

\* wait() gives the worker back.
LEMMA JoinDelivers ==
  ASSUME LinkInv, DeliveryInv, NEW c \in Callers, Join(c)
  PROVE  DeliveryInv'
<1>1. UNCHANGED <<win, ring, fw, sub, log>>
  BY Zenon DEF Join, card
<1>2. /\ \A d \in Callers \ {c} : plan'[d] = plan[d]
      /\ plan[c].pc = "join" /\ plan'[c].pc = "leased" /\ ~plan'[c].rung /\ ~plan'[c].lost
  BY Zenon DEF LinkInv, Types, PlanType, Join, At, IdlePlan
<1>3. Known'
  <2>1. ~Launching(c) /\ ~Launching(c)'
    BY <1>2, Zenon DEF Launching
  <2>2. ASSUME NEW d \in Callers, d # c PROVE Launching(d)' = Launching(d) /\ plan'[d] = plan[d]
    BY <1>2, <2>2, Zenon DEF Launching
  <2> QED
    BY <1>1, <1>2, <2>1, <2>2 DEF DeliveryInv, Known
<1>4. Outcome'
  BY <1>1, Zenon DEF DeliveryInv, Outcome, Quiet, Ended, Length
<1>5. Finishing(c)' /\ Delivered(c)'
  BY <1>2, Zenon DEF Finishing, Delivered, Preparing, Staging, Draining
<1> QED
  BY <1>2, <1>3, <1>4, <1>5, HolderDelivers, Zenon DEF Holds

\* An exception: before the doorbell the launch has failed, after it the ring is drained.
LEMMA ThrowDelivers ==
  ASSUME LinkInv, DeliveryInv, NEW c \in Callers, Throw(c), UNCHANGED <<win, ring, fw, log>>,
         Holds(c), plan[c].pc \notin {"leased", "copy", "join"}
  PROVE  DeliveryInv'
<1>1. /\ \A d \in Callers \ {c} : plan'[d] = plan[d]
      /\ plan'[c].pc = IF plan[c].rung THEN "drain" ELSE "judge"
      /\ plan'[c].rung = plan[c].rung /\ plan'[c].err /\ plan'[c].lost = plan[c].lost
      /\ plan'[c].l = plan[c].l /\ plan'[c].site = "raw"
      /\ sub' = [sub EXCEPT !.active = FALSE]
  BY DEF LinkInv, Types, PlanType, PlanRecord, Throw
<1>2. sub'.poisoned = sub.poisoned /\ sub'.pending = sub.pending /\ sub'.cursor = sub.cursor
  BY <1>1, Zenon DEF LinkInv, Types, SubType
<1>3. Launching(c) /\ Launching(c)'
  BY <1>1, Zenon DEF Launching, Holds
<1>4. ~plan[c].lost
  BY Zenon DEF DeliveryInv, Finishing
<1>5. CASE plan[c].rung
  <2>1. Cursor(c)' = Cursor(c)
    BY <1>1, <1>2, <1>5, Zenon DEF Cursor
  <2>2. Finishing(c)'
    BY <1>1, <1>4, <1>5, Zenon DEF Finishing, Preparing, Staging, Draining
  <2> QED
    BY <1>1, <1>2, <1>3, <1>5, <2>1, <2>2, RungDelivers, Zenon
<1>6. CASE ~plan[c].rung
  <2>1. Finishing(c)'
    BY <1>1, <1>4, <1>6, Zenon DEF Finishing, Preparing, Staging, Draining
  <2>2. isValidCqSize(win'.size)
    BY Zenon DEF DeliveryInv, Outcome
  <2> QED
    BY <1>1, <1>3, <1>6, <2>1, <2>2, UnrungDelivers, Zenon
<1> QED
  BY <1>5, <1>6, Zenon

\* Entering the submitter and the handshake: no doorbell yet, and nothing staged.
LEMMA EnterDelivers ==
  ASSUME LinkInv, DeliveryInv, NEW c \in Callers, Enter(c)
  PROVE  DeliveryInv'
<1>1. UNCHANGED <<win, ring, fw, log>>
  BY Zenon DEF Enter, card
<1>2. /\ \A d \in Callers \ {c} : plan'[d] = plan[d]
      /\ plan[c].pc = "enter" /\ plan'[c].pc \in {"judge", "preflight", "magic"}
      /\ plan'[c].rung = plan[c].rung /\ plan'[c].lost = plan[c].lost /\ plan'[c].l = plan[c].l
      /\ plan'[c].pc = "judge" => plan'[c].err
  BY DEF LinkInv, Types, PlanType, PlanRecord, Enter, Go, At
<1>3. ~plan[c].rung /\ ~plan[c].lost
  BY <1>2, Zenon DEF LinkInv, Rung, Draining, DeliveryInv, Finishing
<1>4. Finishing(c)'
  BY <1>2, <1>3, Zenon DEF Finishing, Preparing, Staging, Draining
<1>5. isValidCqSize(win'.size)
  BY <1>1, Zenon DEF DeliveryInv, Outcome
<1> QED
  BY <1>1, <1>2, <1>3, <1>4, <1>5, UnrungDelivers, Zenon DEF Holds, Launching

\* The handshake writes the ring's length, which it has already, and the consumer's cursor.
LEMMA HandshakeDelivers ==
  ASSUME LinkInv, DeliveryInv, NEW c \in Callers, AwaitMagic(c) \/ AwaitReady(c) \/ Handshake(c)
  PROVE  DeliveryInv'
<1>1. UNCHANGED <<ring, fw, log>>
  BY Zenon DEF AwaitMagic, AwaitReady, Handshake, card
<1>2. /\ \A d \in Callers \ {c} : plan'[d] = plan[d]
      /\ plan[c].pc \in Shaking /\ plan'[c].pc \in Shaking \cup {"preflight"}
      /\ plan'[c].rung = plan[c].rung /\ plan'[c].lost = plan[c].lost /\ plan'[c].l = plan[c].l
  BY DEF LinkInv, Types, PlanType, PlanRecord, AwaitMagic, AwaitReady, Handshake, Go, At, Shaking
<1>3. /\ win'.seq = win.seq /\ win'.done = win.done /\ win'.state = win.state
      /\ win'.size = win.size /\ win'.nodes = win.nodes
  BY Zenon DEF LinkInv, Types, WinType, Bounded, AwaitMagic, AwaitReady, Handshake
<1>4. ~plan[c].rung /\ ~plan[c].lost
  BY <1>2, Zenon DEF LinkInv, Prepared, DeliveryInv, Finishing
<1>5. Finishing(c)'
  BY <1>2, <1>4, Zenon DEF Finishing, Preparing, Staging, Draining, Shaking
<1>6. isValidCqSize(win'.size)
  BY <1>3, Zenon DEF DeliveryInv, Outcome
<1> QED
  BY <1>1, <1>2, <1>3, <1>4, <1>5, <1>6, UnrungDelivers, Zenon DEF Holds, Launching, Shaking

\* The drain before staging starts on a card in state READY.
LEMMA PreflightDelivers ==
  ASSUME LinkInv, DeliveryInv, NEW c \in Callers, Preflight(c)
  PROVE  DeliveryInv'
<1>1. UNCHANGED <<win, ring, fw, log>> /\ plan[c].pc = "preflight"
  BY Zenon DEF Preflight, card, At
<1>2. CASE win.state = "READY"
  <2>1. /\ \A d \in Callers \ {c} : plan'[d] = plan[d]
        /\ plan'[c].pc = "drain" /\ plan'[c].site = "pre"
        /\ plan'[c].rung = plan[c].rung /\ plan'[c].lost = plan[c].lost /\ plan'[c].l = plan[c].l
    BY <1>2 DEF LinkInv, Types, PlanType, PlanRecord, Preflight
  <2>2. ~plan[c].rung /\ ~plan[c].lost
    BY <1>1, Zenon DEF LinkInv, Prepared, DeliveryInv, Finishing
  <2>3. Finishing(c)'
    BY <1>1, <1>2, <2>1, <2>2, Zenon DEF Finishing, Staging
  <2>4. isValidCqSize(win'.size)
    BY <1>1, Zenon DEF DeliveryInv, Outcome
  <2> QED
    BY <1>1, <2>1, <2>2, <2>3, <2>4, UnrungDelivers, Zenon DEF Holds, Launching
<1>3. CASE win.state # "READY"
  <2>1. Throw(c)
    BY <1>3, Zenon DEF Preflight
  <2> QED
    BY <1>1, <2>1, ThrowDelivers, Zenon DEF Holds
<1> QED
  BY <1>2, <1>3, Zenon

\* Staging writes to a card at rest, with nothing pending.
LEMMA StageDelivers ==
  ASSUME LinkInv, DeliveryInv, NEW c \in Callers, Stage(c)
  PROVE  DeliveryInv'
<1>1. UNCHANGED <<ring, fw, log, sub>>
  BY Zenon DEF Stage, card
<1>2. /\ \A d \in Callers \ {c} : plan'[d] = plan[d]
      /\ plan[c].pc \in Staging /\ plan'[c].pc \in Staging
      /\ plan'[c].rung = plan[c].rung /\ plan'[c].lost = plan[c].lost /\ plan'[c].l = plan[c].l
  BY DEF LinkInv, Types, PlanType, PlanRecord, Stage, Go, At, Staging
<1>3. /\ win'.seq = win.seq /\ win'.done = win.done /\ win'.state = win.state
      /\ win'.size = win.size
  BY Zenon DEF LinkInv, Types, WinType, Stage
<1>4. ~plan[c].rung /\ fw.pc \in Resting /\ win.seq = win.done
  BY <1>2, Zenon DEF LinkInv, Prepared, Preparing
<1>5. Quiet
  BY <1>4, Zenon DEF Quiet
<1>6. Finishing(c)
  BY Zenon DEF DeliveryInv
<1>7. Finishing(c)'
  BY <1>1, <1>2, <1>3, <1>4, <1>6, Zenon DEF Finishing, Preparing, Staging, Draining
<1>8. isValidCqSize(win'.size)
  BY <1>3, Zenon DEF DeliveryInv, Outcome
<1> QED
  BY <1>1, <1>2, <1>3, <1>4, <1>5, <1>7, <1>8, UnrungDelivers, Zenon DEF Holds, Launching, Staging

\* An image's own ring length is valid, or the launch fails.
LEMMA OverrideDelivers ==
  ASSUME LinkInv, DeliveryInv, NEW c \in Callers, Override(c)
  PROVE  DeliveryInv'
<1>1. UNCHANGED <<ring, fw, log>> /\ plan[c].pc = "size"
  BY Zenon DEF Override, card, At
<1>2. CASE isValidCqSize(ImageOf[plan[c].l].size)
  <2>1. /\ \A d \in Callers \ {c} : plan'[d] = plan[d]
        /\ plan'[c].pc = "ring"
        /\ plan'[c].rung = plan[c].rung /\ plan'[c].lost = plan[c].lost /\ plan'[c].l = plan[c].l
    BY <1>2 DEF LinkInv, Types, PlanType, PlanRecord, Override, Go
  <2>2. /\ win'.seq = win.seq /\ win'.done = win.done /\ win'.state = win.state
        /\ win'.nodes = win.nodes /\ win'.size = ImageOf[plan[c].l].size
        /\ sub'.pending = sub.pending
    BY <1>2, Zenon DEF LinkInv, Types, WinType, SubType, Override
  <2>3. ~plan[c].rung
    BY <1>1, Zenon DEF LinkInv, Prepared, Preparing, Staging
  <2>4. Finishing(c)
    BY Zenon DEF DeliveryInv
  <2>5. Finishing(c)'
    BY <1>1, <2>1, <2>2, <2>3, <2>4, Zenon DEF Finishing, Preparing, Staging, Draining
  <2>6. isValidCqSize(win'.size)
    BY <1>2, <2>2, Zenon
  <2> QED
    BY <1>1, <2>1, <2>2, <2>3, <2>5, <2>6, UnrungDelivers, Zenon DEF Holds, Launching
<1>3. CASE ~isValidCqSize(ImageOf[plan[c].l].size)
  <2>1. Throw(c) /\ UNCHANGED win
    BY <1>3, Zenon DEF Override
  <2> QED
    BY <1>1, <2>1, ThrowDelivers, Zenon DEF Holds
<1> QED
  BY <1>2, <1>3, Zenon

\* The polls write nothing; the last one is made before the drain that reaches the
\* producer's last cursor.
LEMMA PollDelivers ==
  ASSUME LinkInv, DeliveryInv, NEW c \in Callers,
         PollState(c) \/ PollDone(c) \/ LastState(c) \/ Expire(c)
  PROVE  DeliveryInv'
<1>1. UNCHANGED <<win, ring, fw, log>> /\ plan[c].pc \in {"state", "done", "last"}
  BY Zenon DEF PollState, PollDone, LastState, Expire, card, At
<1>2. CASE Throw(c)
  BY <1>1, <1>2, ThrowDelivers, Zenon DEF Holds
<1>3. CASE ~Throw(c)
  <2>1. /\ \A d \in Callers \ {c} : plan'[d] = plan[d]
        /\ plan'[c].pc \in {"done", "drain"}
        /\ plan'[c].rung = plan[c].rung /\ plan'[c].lost = plan[c].lost /\ plan'[c].l = plan[c].l
        /\ plan'[c].pc = "drain" => plan'[c].site # "pre"
        /\ ~plan'[c].err /\ plan'[c].site = "raw" => win.state # "ERROR"
        /\ ~plan'[c].err => ~plan[c].err
    <3>1. CASE PollState(c)
      <4>1. plan[c].site = "wait"
        BY <3>1, Zenon DEF LinkInv, Rung, PollState, At
      <4> QED
        BY <1>3, <3>1, <4>1 DEF LinkInv, Types, PlanType, PlanRecord, PollState, Go, At
    <3>2. CASE PollDone(c)
      BY <1>3, <3>2, Zenon DEF LinkInv, Types, PlanType, PlanRecord, PollDone
    <3>3. CASE LastState(c)
      BY <1>3, <3>3 DEF LinkInv, Types, PlanType, PlanRecord, LastState
    <3>4. CASE Expire(c)
      BY <1>3, <3>4 DEF LinkInv, Types, PlanType, PlanRecord, Expire
    <3> QED
      BY <3>1, <3>2, <3>3, <3>4, Zenon
  <2>2. /\ sub'.pending = sub.pending /\ sub'.cursor = sub.cursor
        /\ ~plan'[c].err => sub'.poisoned = sub.poisoned
    <3>1. CASE PollState(c) \/ PollDone(c) \/ LastState(c)
      BY <1>3, <3>1, Zenon DEF LinkInv, Types, SubType, PollState, PollDone, LastState
    <3>2. CASE Expire(c)
      BY <3>2 DEF LinkInv, Types, SubType, PlanType, PlanRecord, Expire
    <3> QED
      BY <3>1, <3>2, Zenon
  <2>3. plan[c].rung
    BY <1>1, Zenon DEF LinkInv, Rung
  <2>4. Cursor(c)' = Cursor(c)
    BY <1>1, <2>1, <2>2, Zenon DEF Cursor
  <2>5. Finishing(c)
    BY Zenon DEF DeliveryInv
  <2>6. Finishing(c)'
    BY <1>1, <2>1, <2>2, <2>3, <2>5, Zenon DEF Finishing, Preparing, Staging, Draining
  <2>7. Launching(c) /\ Launching(c)' /\ Holds(c)
    BY <1>1, <2>1, Zenon DEF Launching, Holds
  <2>8. plan'[c].pc # "copy"
    BY <2>1, Zenon
  <2> QED
    BY <1>1, <2>1, <2>2, <2>4, <2>6, <2>7, <2>8, RungDelivers, Zenon
<1> QED
  BY <1>2, <1>3, Zenon

\* A drain notes the producer's cursor; after the doorbell it is always in range.
LEMMA DrainReadDelivers ==
  ASSUME LinkInv, DeliveryInv, NEW c \in Callers, DrainRead(c)
  PROVE  DeliveryInv'
<1>1. UNCHANGED <<win, ring, fw, log>> /\ plan[c].pc = "drain"
  BY Zenon DEF DrainRead, card, At
<1>2. CASE Minus(win.wr, sub.cursor) <= sub.size
  <2>1. /\ \A d \in Callers \ {c} : plan'[d] = plan[d]
        /\ plan'[c].pc = "copy" /\ plan'[c].end = win.wr /\ plan'[c].i = sub.cursor
        /\ plan'[c].rung = plan[c].rung /\ plan'[c].lost = plan[c].lost /\ plan'[c].l = plan[c].l
        /\ plan'[c].site = plan[c].site /\ plan'[c].err = plan[c].err /\ sub' = sub
    BY <1>2 DEF LinkInv, Types, PlanType, PlanRecord, DrainRead
  <2>2. Finishing(c)
    BY Zenon DEF DeliveryInv
  <2>3. Finishing(c)'
    BY <1>1, <2>1, <2>2, Zenon DEF Finishing, Preparing, Staging, Draining
  <2>4. Launching(c) /\ Launching(c)' /\ Holds(c)
    BY <1>1, <2>1, Zenon DEF Launching, Holds
  <2>5. CASE plan[c].rung
    <3>1. Cursor(c)' = Cursor(c)
      BY <1>1, <2>1, Zenon DEF Cursor
    <3>2. sub.cursor = win.rd
      BY <2>5, Zenon DEF LinkInv, Rung, Bounded
    <3>3. Left(c) = Used /\ Used' = Used
      BY <1>1, <3>2, Zenon DEF Left, Cursor, Used
    <3>4. Used \in Words /\ Minus(win.wr, win.wr) = 0
      BY WordDistance, Zenon DEF LinkInv, Types, WinType, Used
    <3>5. Minus(win.wr, plan'[c].end) <= Left(c) /\ Left(c) <= Used'
      BY <2>1, <3>3, <3>4, Sizes DEF Words
    <3> QED
      BY <1>1, <2>1, <2>3, <2>4, <3>1, <3>5, RungDelivers, Zenon
  <2>6. CASE ~plan[c].rung
    <3>1. isValidCqSize(win'.size)
      BY <1>1, Zenon DEF DeliveryInv, Outcome
    <3> QED
      BY <1>1, <2>1, <2>3, <2>4, <2>6, <3>1, UnrungDelivers, Zenon
  <2> QED
    BY <2>5, <2>6, Zenon
<1>3. CASE ~(Minus(win.wr, sub.cursor) <= sub.size)
  <2>1. plan[c].site # "raw"
    <3> SUFFICES ASSUME plan[c].site = "raw" PROVE FALSE
      BY Zenon
    <3>1. plan[c].rung /\ log.bell # 0
      BY <1>1, Zenon DEF LinkInv, Rung, Draining
    <3>2. sub.cursor = win.rd /\ Used <= sub.size
      BY <3>1, Zenon DEF LinkInv, Bounded
    <3> QED
      BY <1>3, <3>2, Zenon DEF Used
  <2>2. Throw(c)
    BY <1>3, <2>1, Zenon DEF DrainRead
  <2> QED
    BY <1>1, <2>2, ThrowDelivers, Zenon DEF Holds
<1> QED
  BY <1>2, <1>3, Zenon

\* The consumer's cursor follows when everything noted was copied.
LEMMA DrainWriteDelivers ==
  ASSUME LinkInv, DeliveryInv, NEW c \in Callers, DrainWrite(c)
  PROVE  DeliveryInv'
<1>1. UNCHANGED <<ring, fw, log>> /\ plan[c].pc = "copy" /\ plan[c].i = plan[c].end
  BY Zenon DEF DrainWrite, card, At
<1>2. /\ \A d \in Callers \ {c} : plan'[d] = plan[d]
      /\ plan'[c].pc = AfterDrain[plan[c].site]
      /\ plan'[c].rung = plan[c].rung /\ plan'[c].lost = plan[c].lost /\ plan'[c].l = plan[c].l
      /\ plan'[c].site = plan[c].site /\ plan'[c].err = plan[c].err
  BY Zenon DEF LinkInv, Types, PlanType, PlanRecord, DrainWrite, Go
<1>3. /\ win'.seq = win.seq /\ win'.done = win.done /\ win'.state = win.state
      /\ win'.size = win.size /\ win'.nodes = win.nodes /\ win'.wr = win.wr
      /\ sub'.cursor = plan[c].end /\ sub'.poisoned = sub.poisoned
      /\ sub'.pending = IF plan[c].site = "pre" THEN <<>> ELSE sub.pending
  BY Zenon DEF LinkInv, Types, WinType, SubType, DrainWrite
<1>4. plan[c].site \in {"pre", "wait", "last", "raw"} /\ (plan[c].site # "pre" <=> plan[c].rung)
  BY <1>1, Zenon DEF LinkInv, Types, PlanType, PlanRecord, Rung, Draining
<1>5. plan'[c].pc = CASE plan[c].site = "pre" -> "args" [] plan[c].site = "wait" -> "state"
                       [] plan[c].site = "last" -> "last" [] plan[c].site = "raw" -> "judge"
  BY <1>2, <1>4 DEF AfterDrain
<1>6. Finishing(c)
  BY Zenon DEF DeliveryInv
<1>7. Finishing(c)'
  BY <1>1, <1>2, <1>3, <1>4, <1>5, <1>6, Zenon DEF Finishing, Preparing, Staging, Draining
<1>8. Launching(c) /\ Launching(c)' /\ Holds(c) /\ plan'[c].pc # "copy"
  BY <1>1, <1>4, <1>5, Zenon DEF Launching, Holds
<1>9. isValidCqSize(win'.size)
  BY <1>3, Zenon DEF DeliveryInv, Outcome
<1>10. CASE plan[c].rung
  <2>1. Cursor(c)' = Cursor(c) /\ sub'.pending = sub.pending
    BY <1>1, <1>3, <1>4, <1>8, <1>10, Zenon DEF Cursor
  <2> QED
    BY <1>1, <1>2, <1>3, <1>7, <1>8, <2>1, RungDelivers, Zenon
<1>11. CASE ~plan[c].rung
  BY <1>1, <1>2, <1>3, <1>7, <1>8, <1>9, <1>11, UnrungDelivers, Zenon
<1> QED
  BY <1>10, <1>11, Zenon

\* The distance shrinks by one with the consumer, and the words still ahead of it come closer.
LEMMA ConsumerStep ==
  ASSUME NEW a \in Words, NEW b \in Words, NEW w \in Words, Minus(a, b) # 0
  PROVE  /\ Minus(a, Plus1(b)) = Minus(a, b) - 1
         /\ Minus(w, Plus1(b)) < Minus(a, Plus1(b)) =>
              Minus(w, b) = Minus(w, Plus1(b)) + 1 /\ Minus(w, b) < Minus(a, b)
<1>1. Plus1(b) \in Words
  BY WordStep, Zenon
<1>2. Minus(a, b) = IF a >= b THEN a - b ELSE a + WordWrap - b
  BY Distance, Zenon
<1>3. Minus(a, Plus1(b)) = IF a >= Plus1(b) THEN a - Plus1(b) ELSE a + WordWrap - Plus1(b)
  BY <1>1, Distance, Zenon
<1>4. Minus(w, b) = IF w >= b THEN w - b ELSE w + WordWrap - b
  BY Distance, Zenon
<1>5. Minus(w, Plus1(b)) = IF w >= Plus1(b) THEN w - Plus1(b) ELSE w + WordWrap - Plus1(b)
  BY <1>1, Distance, Zenon
<1> QED
  BY <1>1, <1>2, <1>3, <1>4, <1>5, Sizes, NextWord DEF Words

\* Distances from one word tell words apart.
LEMMA DistanceFrom ==
  ASSUME NEW a \in Words, NEW b \in Words, NEW c \in Words, Minus(a, b) = Minus(a, c)
  PROVE  b = c
<1>1. Minus(a, b) = IF a >= b THEN a - b ELSE a + WordWrap - b
  BY Distance, Zenon
<1>2. Minus(a, c) = IF a >= c THEN a - c ELSE a + WordWrap - c
  BY Distance, Zenon
<1>3. a \in Nat /\ b \in Nat /\ c \in Nat /\ WordWrap \in Nat
      /\ a < WordWrap /\ b < WordWrap /\ c < WordWrap
  BY Sizes DEF Words
<1>4. (IF a >= b THEN a - b ELSE a + WordWrap - b) = (IF a >= c THEN a - c ELSE a + WordWrap - c)
  BY <1>1, <1>2, Zenon
<1> QED
  BY <1>3, <1>4

\* The record copied is the next one of the image.
LEMMA DrainCopyDelivers ==
  ASSUME LinkInv, DeliveryInv, NEW c \in Callers, DrainCopy(c)
  PROVE  DeliveryInv'
<1>1. /\ UNCHANGED <<win, ring, fw, log>> /\ plan[c].pc = "copy" /\ plan[c].i # plan[c].end
      /\ sub.size = win.size
  BY Zenon DEF DrainCopy, card, At, LinkInv, Bounded
<1>2. /\ \A d \in Callers \ {c} : plan'[d] = plan[d]
      /\ plan'[c].pc = "copy" /\ plan'[c].i = Plus1(plan[c].i) /\ plan'[c].end = plan[c].end
      /\ plan'[c].rung = plan[c].rung /\ plan'[c].lost = plan[c].lost /\ plan'[c].l = plan[c].l
      /\ plan'[c].site = plan[c].site /\ plan'[c].err = plan[c].err
  BY <1>1, Zenon DEF LinkInv, Types, PlanType, PlanRecord, DrainCopy
<1>3. /\ sub'.pending = Append(sub.pending, ring[plan[c].i % win.size])
      /\ sub'.poisoned = sub.poisoned
  BY <1>1, Zenon DEF LinkInv, Types, SubType, DrainCopy
<1>4. Finishing(c)
  BY Zenon DEF DeliveryInv
<1>5. Finishing(c)'
  BY <1>1, <1>2, <1>3, <1>4, Zenon DEF Finishing, Preparing, Staging, Draining
<1>6. Launching(c) /\ Launching(c)' /\ Holds(c)
  BY <1>1, <1>2, Zenon DEF Launching, Holds
<1>7. isValidCqSize(win'.size)
  BY <1>1, Zenon DEF DeliveryInv, Outcome
<1>8. CASE ~plan[c].rung
  BY <1>1, <1>2, <1>5, <1>6, <1>7, <1>8, UnrungDelivers, Zenon
<1>9. CASE plan[c].rung
  <2>1. /\ Cursor(c) \in Words /\ Left(c) \in Nat /\ Left(c) <= Used /\ Used \in Nat
        /\ Len(sub.pending) \in Nat /\ Delivered(c)
    BY <1>6, <1>9, LeftTyped, Zenon
  <2>2. /\ Cursor(c) = plan[c].i /\ Cursor(c)' = Plus1(plan[c].i)
        /\ Left(c) = Minus(win.wr, plan[c].i) /\ Left(c)' = Minus(win.wr, Plus1(plan[c].i))
    BY <1>1, <1>2, Zenon DEF Cursor, Left
  <2>3. /\ win.wr \in Words /\ plan[c].i \in Words /\ plan[c].end \in Words
        /\ Plus1(plan[c].i) \in Words
        /\ sub.pending \in Seq(Records) /\ ring \in [0..(MaxCqSize - 1) -> Records]
        /\ win.size \in 1..MaxCqSize
    <3>1. /\ win.wr \in Words /\ plan[c].i \in Words /\ plan[c].end \in Words
          /\ sub.pending \in Seq(Records) /\ ring \in [0..(MaxCqSize - 1) -> Records]
          /\ win.size \in 1..MaxCqSize
      BY Zenon DEF LinkInv, Types, WinType, PlanType, PlanRecord, SubType, RingType
    <3> QED
      BY <3>1, WordStep, Zenon
  <2>4. Minus(win.wr, plan[c].end) <= Left(c)
    BY <1>1, <1>6, <1>9, <2>1, Zenon DEF Delivered
  <2>5. Minus(win.wr, plan[c].end) \in Nat
    <3>1. Minus(win.wr, plan[c].end) \in Words
      BY <2>3, WordDistance, Zenon
    <3> QED
      BY <3>1, Sizes DEF Words
  <2>6. Minus(win.wr, plan[c].end) < Left(c)
    <3>1. Minus(win.wr, plan[c].end) # Left(c)
      BY <1>1, <2>2, <2>3, DistanceFrom, Zenon
    <3> QED
      BY <2>1, <2>4, <2>5, <3>1
  <2>7. Left(c)' = Left(c) - 1
    BY <2>1, <2>2, <2>3, <2>5, <2>6, ConsumerStep
  <2>8. Sent' = Sent /\ \A k : RecordOf(k)' = RecordOf(k)
    BY <1>1, Zenon DEF Sent, Ended, Quiet, RecordOf
  <2>9. plan[c].i % win.size \in 0..(MaxCqSize - 1)
    BY <2>3, Sizes, SMTT(30) DEF Words
  <2>10. ring[plan[c].i % win.size] \in Records
    BY <2>3, <2>9, Zenon
  <2>11. /\ Len(sub'.pending) = Len(sub.pending) + 1
         /\ \A j \in 1..Len(sub.pending) : sub'.pending[j] = sub.pending[j]
         /\ sub'.pending[Len(sub.pending) + 1] = ring[plan[c].i % win.size]
    BY <1>3, <2>3, <2>10
  <2>12. ring[plan[c].i % win.size] = RecordOf(Len(sub.pending) + 1)
    <3>1. Minus(plan[c].i, Cursor(c)) = 0
      BY <2>2, <2>3, WordDistance, Zenon
    <3>2. 0 < Left(c)
      BY <2>1, <2>5, <2>6
    <3>3. ring[plan[c].i % win.size]
            = RecordOf(Len(sub.pending) + 1 + Minus(plan[c].i, Cursor(c)))
      BY <2>1, <2>3, <1>6, <1>9, <3>1, <3>2, Zenon DEF Delivered
    <3>4. Len(sub.pending) + 1 + Minus(plan[c].i, Cursor(c)) = Len(sub.pending) + 1
      BY <2>1, <3>1
    <3> QED
      BY <3>3, <3>4, Zenon
  <2>13. Len(sub'.pending) + Left(c)' = Sent'
    <3>1. Len(sub.pending) + Left(c) = Sent
      BY <1>6, <1>9, <2>1, Zenon DEF Delivered
    <3> QED
      BY <2>1, <2>7, <2>8, <2>11, <3>1
  <2>14. ASSUME NEW j \in 1..Len(sub'.pending) PROVE sub'.pending[j] = RecordOf(j)'
    <3>1. RecordOf(j)' = RecordOf(j)
      BY <2>8, Zenon
    <3>2. CASE j \in 1..Len(sub.pending)
      <4>1. sub.pending[j] = RecordOf(j)
        BY <1>6, <1>9, <2>1, <3>2, Zenon DEF Delivered
      <4> QED
        BY <2>11, <3>1, <3>2, <4>1, Zenon
    <3>3. CASE j = Len(sub.pending) + 1
      <4>1. RecordOf(j) = RecordOf(Len(sub.pending) + 1)
        BY <3>3, Zenon
      <4>2. sub'.pending[j] = ring[plan[c].i % win.size]
        BY <2>11, <3>3, Zenon
      <4> QED
        BY <2>12, <3>1, <4>1, <4>2, Zenon
    <3> QED
      BY <2>1, <2>11, <3>2, <3>3
  <2>15. ASSUME NEW w \in Words, Minus(w, Cursor(c)') < Left(c)'
         PROVE  ring[w % win.size] = RecordOf(Len(sub.pending) + 1 + Minus(w, Cursor(c)))'
    <3>1. PICK k : k = Len(sub'.pending) + 1 + Minus(w, Plus1(plan[c].i))
      BY Zenon
    <3>2. Minus(w, plan[c].i) = Minus(w, Plus1(plan[c].i)) + 1 /\ Minus(w, plan[c].i) < Left(c)
      <4>1. Minus(win.wr, plan[c].i) # 0
        BY <2>1, <2>2, <2>5, <2>6
      <4> QED
        BY <2>2, <2>3, <2>15, <4>1, ConsumerStep, SMTT(30)
    <3>3. Minus(w, Plus1(plan[c].i)) \in Nat
      <4>1. Minus(w, Plus1(plan[c].i)) \in Words
        BY <2>3, WordDistance, Zenon
      <4> QED
        BY <4>1, Sizes DEF Words
    <3>4. k = Len(sub.pending) + 1 + Minus(w, plan[c].i)
      <4>1. /\ Len(sub.pending) \in Nat /\ Len(sub'.pending) = Len(sub.pending) + 1
            /\ Minus(w, plan[c].i) = Minus(w, Plus1(plan[c].i)) + 1
        BY <2>1, <2>11, <3>2, Zenon
      <4> QED
        BY ONLY <3>1, <3>3, <4>1
    <3>5. ring[w % win.size] = RecordOf(k)
      BY <1>6, <1>9, <2>1, <2>2, <3>2, <3>4, Zenon DEF Delivered
    <3>6. ring[w % win.size] = RecordOf(k)'
      BY <2>8, <3>5, Zenon
    <3>7. (k = Len(sub.pending) + 1 + Minus(w, Cursor(c)))'
      BY <2>2, <3>1, Zenon
    <3> QED
      BY <3>6, <3>7, Zenon
  <2>16. Minus(win.wr, plan'[c].end) <= Left(c)' /\ Left(c)' <= Used'
    <3>1. Used' = Used
      BY <1>1, Zenon DEF Used
    <3> QED
      BY <1>2, <2>1, <2>5, <2>6, <2>7, <3>1
  <2>17. fw.pc = "bump" => ring[win.wr % win.size] = RecordOf(fw.k)'
    <3>1. RecordOf(fw.k)' = RecordOf(fw.k)
      BY <1>1, Zenon DEF RecordOf
    <3> QED
      BY <1>6, <1>9, <2>1, <3>1, Zenon DEF Delivered
  <2>18. Delivered(c)'
    BY <1>1, <2>13, <2>14, <2>15, <2>16, <2>17, Zenon DEF Delivered
  <2>19. Known'
    BY <1>1, <1>2, <1>6, KnownKept, Zenon
  <2>20. Outcome'
    BY <1>1, Zenon DEF DeliveryInv, Outcome, Quiet, Ended, Length
  <2> QED
    BY <1>2, <1>5, <1>6, <2>18, <2>19, <2>20, HolderDelivers, Zenon
<1> QED
  BY <1>8, <1>9, Zenon

\* The doorbell hands over an image of which the ring holds nothing yet.
LEMMA DoorbellDelivers ==
  ASSUME LinkInv, DeliveryInv, NEW c \in Callers, Doorbell(c)
  PROVE  DeliveryInv' /\ Sent' = 0
<1>1. UNCHANGED <<ring, fw, sub>> /\ plan[c].pc = "ring"
  BY Zenon DEF Doorbell, card, At
<1>2. /\ \A d \in Callers \ {c} : plan'[d] = plan[d]
      /\ plan'[c].pc = "drain" /\ plan'[c].site = "wait" /\ plan'[c].rung
      /\ plan'[c].lost = plan[c].lost /\ plan'[c].l = plan[c].l
  BY Zenon DEF LinkInv, Types, PlanType, PlanRecord, Doorbell
<1>3. /\ win'.seq = plan[c].want /\ win'.done = win.done /\ win'.state = win.state
      /\ win'.size = win.size /\ win'.nodes = win.nodes /\ win'.wr = win.wr /\ win'.rd = win.rd
      /\ log'.bell = plan[c].l /\ log'.result = log.result /\ log'.finished = log.finished
  BY Zenon DEF LinkInv, Types, WinType, LogType, Doorbell
<1>4. /\ ~sub.poisoned /\ fw.pc \in Resting /\ win.seq = win.done /\ win.rd = win.wr
      /\ win.nodes = plan[c].l /\ plan[c].want = Plus1(win.seq)
      /\ sub.cursor = win.rd /\ plan[c].l \in Launches /\ plan[c].l # 0
      /\ win.seq \in Words /\ win.wr \in Words /\ Holds(c)
  <2>1. Prepared(c) /\ Rung(c) /\ Bounded /\ WinType
    BY Zenon DEF LinkInv, Types
  <2>2. plan[c].l \in Launches /\ Holds(c)
    BY <1>1, <2>1, Zenon DEF Rung, Holds
  <2>3. plan[c].l # 0
    BY <2>2, LinkAssumption, Zenon
  <2> QED
    BY <1>1, <2>1, <2>2, <2>3, Zenon DEF Prepared, Preparing, Staging, Bounded, WinType
<1>5. Finishing(c) /\ win.state # "ERROR" /\ sub.pending = <<>>
  BY <1>1, Zenon DEF DeliveryInv, Finishing, Preparing, Staging
<1>6. ~Quiet' /\ ~Ended'
  <2>1. win'.seq # win'.done
    BY <1>3, <1>4, WordStep, ZenonT(40)
  <2> QED
    BY <1>1, <1>3, <1>4, <1>5, <2>1, Zenon DEF Quiet, Ended, Resting, Boots
<1>7. fw.pc \notin Scanning /\ Sent' = 0
  BY <1>1, <1>4, <1>6 DEF Scanning, Resting, Boots, Sent
<1>8. Known'
  <2>1. Launching(c) /\ Launching(c)'
    BY <1>1, <1>2, Zenon DEF Launching
  <2>2. log.result[plan[c].l] = NoResult
    BY <2>1, Zenon DEF DeliveryInv, Known
  <2>3. ASSUME NEW d \in Callers, d # c PROVE ~Launching(d)' /\ ~plan'[d].rung
    <3>1. plan[d].pc \in {"none", "lease"} /\ ~plan[d].rung /\ plan'[d] = plan[d]
      BY <1>2, <1>4, <2>3, OthersOutside, Zenon
    <3> QED
      BY <3>1, Zenon DEF Launching
  <2> QED
    BY <1>2, <1>3, <2>1, <2>2, <2>3, Zenon DEF Known
<1>9. Outcome'
  BY <1>1, <1>3, <1>4, <1>6, <1>7, Zenon DEF DeliveryInv, Outcome
<1>10. Finishing(c)'
  BY <1>1, <1>2, <1>4, <1>5, Zenon DEF Finishing, Preparing, Staging, Draining
<1>11. Delivered(c)'
  <2>1. Left(c)' = 0 /\ Cursor(c)' = win.wr
    BY <1>1, <1>2, <1>3, <1>4, WordDistance, Zenon DEF Left, Cursor
  <2>2. Sent' = 0
    BY <1>7
  <2>3. Len(sub'.pending) = 0
    BY <1>1, <1>5, Zenon
  <2>4. ASSUME NEW w \in Words PROVE ~(Minus(w, Cursor(c)') < Left(c)')
    <3>1. Minus(w, win.wr) \in Words
      BY <1>4, WordDistance, Zenon
    <3> QED
      BY <2>1, <3>1, Sizes DEF Words
  <2>5. fw'.pc # "bump" /\ plan'[c].pc # "copy"
    BY <1>1, <1>2, <1>7, Zenon DEF Scanning
  <2>6. Len(sub'.pending) + Left(c)' = Sent' /\ \A j \in 1..Len(sub'.pending) : FALSE
    BY <2>1, <2>2, <2>3
  <2> QED
    BY <2>4, <2>5, <2>6, Zenon DEF Delivered
<1> QED
  BY <1>2, <1>4, <1>7, <1>8, <1>9, <1>10, <1>11, HolderDelivers, Zenon

\* The result of a launch: success with what was drained, or an error.
Verdict(c, ok, e) ==
  /\ ok \in BOOLEAN
  /\ log' = [log EXCEPT !.result[plan[c].l] =
               [out |-> IF ok THEN "ok" ELSE "error", evidence |-> e]]
  /\ ok => ~plan[c].err /\ (plan[c].rung => e = sub.pending)
  /\ ~ok => e = <<>>

\* Judging a launch gives it a verdict.
LEMMA JudgeResult ==
  ASSUME NEW c \in Callers, Judge(c)
  PROVE  \E ok, e : Verdict(c, ok, e)
<1> DEFINE cq == IF plan[c].rung /\ ~plan[c].lost THEN sub.pending ELSE <<>>
           good == /\ ~plan[c].err /\ ~plan[c].lost /\ ~Foreign(plan[c].l, cq) /\ AllOK(cq)
                   /\ win.sentinel
           ev == IF good THEN cq ELSE <<>>
<1>1. log' = [log EXCEPT !.result[plan[c].l] =
                [out |-> IF good THEN "ok" ELSE "error", evidence |-> ev]]
  BY Zenon DEF Judge
<1>2. good => ~plan[c].err /\ (plan[c].rung => ev = sub.pending)
  BY Zenon
<1>3. ~good => ev = <<>>
  BY Zenon
<1>4. good \in BOOLEAN
  BY Zenon
<1> HIDE DEF good, ev
<1>5. Verdict(c, good, ev)
  BY <1>1, <1>2, <1>3, <1>4, Zenon DEF Verdict
<1> QED
  BY <1>5, Zenon

\* The result ends the launch.
LEMMA JudgeDelivers ==
  ASSUME LinkInv, DeliveryInv, NEW c \in Callers, Judge(c)
  PROVE  DeliveryInv'
<1>1. UNCHANGED <<win, ring, fw>> /\ plan[c].pc = "judge"
  BY Zenon DEF Judge, card, At
<1>2. /\ \A d \in Callers \ {c} : plan'[d] = plan[d]
      /\ plan'[c].pc = "join" /\ plan'[c].l = plan[c].l /\ plan'[c].site = plan[c].site
      /\ plan'[c].rung = plan[c].rung /\ plan'[c].lost = plan[c].lost /\ plan'[c].err = plan[c].err
  BY Zenon DEF LinkInv, Types, PlanType, PlanRecord, Judge, Go
<1>3. sub'.poisoned = sub.poisoned
  BY Zenon DEF LinkInv, Types, SubType, Judge
<1>4. /\ log'.bell = log.bell /\ log'.finished = log.finished
      /\ log'.result[plan[c].l] # NoResult
      /\ \A l \in Launches \ {plan[c].l} : log'.result[l] = log.result[l]
  <2>1. PICK ok, e : Verdict(c, ok, e)
    BY JudgeResult, Zenon
  <2>2. plan[c].l \in Launches
    BY <1>1, Zenon DEF LinkInv, Rung, Holds
  <2>3. log'.result = [log.result EXCEPT ![plan[c].l] =
                         [out |-> IF ok THEN "ok" ELSE "error", evidence |-> e]]
    BY <2>1, Zenon DEF Verdict, LinkInv, Types, LogType
  <2>4. log'.result[plan[c].l].out \in {"ok", "error"}
    BY <2>2, <2>3 DEF LinkInv, Types, LogType
  <2>5. log'.result[plan[c].l] # NoResult
    BY <2>4 DEF NoResult
  <2> QED
    BY <2>1, <2>3, <2>5, Zenon DEF Verdict, LinkInv, Types, LogType
<1>5. ASSUME NEW d \in Callers, d # c
      PROVE  plan'[d] = plan[d] /\ ~plan[d].rung /\ ~Launching(d)'
  <2>1. plan[d].pc \in {"none", "lease"} /\ ~plan[d].rung
    BY <1>1, <1>5, OthersOutside, Zenon DEF Holds
  <2> QED
    BY <1>2, <1>5, <2>1, Zenon DEF Launching
<1>6. Known'
  <2>1. ~Launching(c)'
    BY <1>2, Zenon DEF Launching
  <2>2. plan[c].rung => plan[c].l = log.bell
    BY Zenon DEF DeliveryInv, Known
  <2>3. log.bell = 0 \/ log'.result[log.bell] # NoResult
    <3> SUFFICES ASSUME log.bell # 0, log'.result[log.bell] = NoResult PROVE FALSE
      BY Zenon
    <3>1. log.bell \in Launches /\ log.bell # plan[c].l
      BY <1>4, Zenon DEF LinkInv, Types, LogType, Numbers
    <3>2. log.result[log.bell] = NoResult
      BY <1>4, <3>1, Zenon
    <3>3. PICK d \in Callers : plan[d].rung
      BY <3>2, Zenon DEF DeliveryInv, Known
    <3> QED
      BY <1>5, <2>2, <3>1, <3>3, Zenon
  <2> QED
    BY <1>2, <1>4, <1>5, <2>1, <2>2, <2>3, Zenon DEF Known
<1>7. Outcome'
  BY <1>1, <1>4, Zenon DEF DeliveryInv, Outcome, Quiet, Ended, Length
<1>8. Finishing(c)
  BY Zenon DEF DeliveryInv
<1>9. Finishing(c)' /\ Delivered(c)'
  BY <1>1, <1>2, <1>3, <1>8, Zenon DEF Finishing, Preparing, Staging, Draining, Delivered, Launching
<1> QED
  BY <1>1, <1>2, <1>6, <1>7, <1>9, HolderDelivers, Zenon DEF Holds

\* The invariant holds from the start and through every step.
LEMMA InitDelivers == Init => DeliveryInv
<1> SUFFICES ASSUME Init PROVE DeliveryInv
  BY Zenon
<1>1. PICK s \in Starts :
    /\ win = [magic |-> s.word # 0, state |-> IF s.word = 0 THEN "INIT" ELSE "READY",
              seq |-> s.word, done |-> s.word, size |-> CqSize, wr |-> s.word, rd |-> s.word,
              nodes |-> 0, args |-> 0, count |-> 0, sentinel |-> FALSE]
    /\ fw = [pc |-> IF s.word = 0 THEN "boot" ELSE "idle", seq |-> 0, img |-> 0, n |-> 0,
             k |-> 0, status |-> "ok", failed |-> FALSE]
    /\ log = [result |-> [l \in Launches |-> NoResult], bell |-> 0, finished |-> {},
              spare |-> s.restarts]
  BY Zenon DEF Init
<1>2. ASSUME NEW c \in Callers PROVE plan[c] = IdlePlan
  BY Zenon DEF Init
<1>3. win.size = CqSize /\ log.bell = 0 /\ fw.pc \in {"boot", "idle"}
  BY <1>1, Zenon
<1>4. Outcome
  BY <1>3, LinkAssumption, Zenon DEF Outcome, Ended, Scanning
<1>5. ASSUME NEW c \in Callers
      PROVE  plan[c].pc = "none" /\ ~plan[c].rung /\ ~plan[c].lost /\ ~Launching(c)
  BY <1>2 DEF IdlePlan, Launching
<1>6. Known
  BY <1>3, <1>5, Zenon DEF Known
<1>7. ASSUME NEW c \in Callers PROVE Finishing(c) /\ Delivered(c)
  BY <1>5, Zenon DEF Finishing, Delivered, Preparing, Staging, Draining
<1> QED
  BY <1>4, <1>6, <1>7, Zenon DEF DeliveryInv

\* The steps of the card.
LEMMA FirmwareDelivers ==
  ASSUME LinkInv, DeliveryInv, Firmware \/ Restart \/ KernelFinishes
  PROVE  DeliveryInv'
  BY BootDelivers, AcceptDelivers, StoreInitDelivers, ActivateDelivers, WriteRecordDelivers,
     BumpCursorDelivers, CompleteDelivers, PublishDelivers, RestartDelivers, Zenon
  DEF Firmware

\* A handshake that fails is before the doorbell.
LEMMA HandshakeFailsDelivers ==
  ASSUME LinkInv, DeliveryInv, NEW c \in Callers, HandshakeFails(c)
  PROVE  DeliveryInv'
<1>1. plan[c].pc \in {"magic", "await"} /\ Throw(c) /\ UNCHANGED <<win, ring, fw, log>>
  BY Zenon DEF HandshakeFails, At, card
<1> QED
  BY <1>1, ThrowDelivers, Zenon DEF Holds

\* The steps of the callers.
LEMMA WorkerDelivers ==
  ASSUME LinkInv, DeliveryInv, NEW c \in Callers, Caller(c) \/ Worker(c) \/ Expire(c)
  PROVE  DeliveryInv'
<1>1. CASE Caller(c)
  BY <1>1, CallerDelivers, LaunchDelivers, Zenon DEF Caller
<1>2. CASE Expire(c)
  BY <1>2, PollDelivers, Zenon
<1>3. CASE Worker(c)
  BY <1>3, EnterDelivers, HandshakeFailsDelivers, HandshakeDelivers, PreflightDelivers,
     DrainReadDelivers, DrainCopyDelivers, DrainWriteDelivers, StageDelivers, OverrideDelivers,
     DoorbellDelivers, PollDelivers, JudgeDelivers, JoinDelivers, Zenon
  DEF Worker
<1> QED
  BY <1>1, <1>2, <1>3, Zenon

\* Every step.
LEMMA NextDelivers == ASSUME LinkInv, DeliveryInv, [Next]_vars PROVE DeliveryInv'
<1>1. CASE Next
  BY <1>1, FirmwareDelivers, WorkerDelivers, Zenon DEF Next
<1>2. CASE UNCHANGED vars
  <2>1. /\ win' = win /\ ring' = ring /\ fw' = fw /\ sub' = sub /\ plan' = plan /\ log' = log
    BY <1>2, Zenon DEF vars
  <2>2. Known' /\ Outcome'
    BY <2>1, Zenon DEF DeliveryInv, Known, Outcome, Launching, Quiet, Ended, Length
  <2>3. ASSUME NEW c \in Callers PROVE Finishing(c)' /\ Delivered(c)'
    <3>1. Finishing(c) /\ Delivered(c)
      BY Zenon DEF DeliveryInv
    <3>2. Finishing(c)'
      BY <2>1, <3>1, Zenon DEF Finishing, Preparing
    <3>3. Delivered(c)'
      BY <2>1, <3>1, Zenon DEF Delivered, Launching, Left, Cursor, Sent, Ended, Quiet, RecordOf, Used
    <3> QED
      BY <3>2, <3>3, Zenon
  <2> QED
    BY <2>2, <2>3, Zenon DEF DeliveryInv
<1> QED
  BY <1>1, <1>2, Zenon

\* Whatever the ring's length and wherever its cursors wrap, the completions the host has
\* copied and those still in the ring are those of the image handed over last, in order,
\* none lost and none overwritten (write_cq_entry, drainAvailableCq).
THEOREM CompletionsDelivered == Spec => []DeliveryInv
<1>1. Init => LinkInv /\ DeliveryInv
  BY InitInv, InitDelivers, Zenon
<1>2. LinkInv /\ DeliveryInv /\ [Next]_vars => (LinkInv /\ DeliveryInv)'
  BY NextStep, NextDelivers, Zenon
<1> QED
  BY <1>1, <1>2, PTL DEF Spec

----------------------------------------------------------------------------
(* The contract of launching.                                              *)

\* A launch without an error has all its completions, and the firmware has worked through
\* its image.
LEMMA EvidenceComplete ==
  ASSUME LinkInv, DeliveryInv, NEW c \in Callers, plan[c].pc = "judge", ~plan[c].err
  PROVE  /\ plan[c].rung /\ ~sub.poisoned /\ plan[c].l = log.bell /\ log.bell \in Launches
         /\ sub.pending = Evidence(log.bell) /\ log.bell \in log.finished /\ Quiet
<1>1. Finishing(c) /\ Rung(c) /\ Known /\ Outcome /\ Types
  BY Zenon DEF DeliveryInv, LinkInv
<1>2. plan[c].rung /\ ~sub.poisoned /\ plan[c].l = log.bell
  BY <1>1, Zenon DEF Finishing, Known
<1>3. plan[c].site = "raw" /\ Quiet /\ log.bell # 0 /\ win.state # "ERROR" /\ sub.cursor = win.wr
  BY <1>1, <1>2, Zenon DEF Finishing, Rung
<1>4. log.bell \in Launches /\ Length \in Nat
  BY <1>3, FirmwareTyped, Zenon
<1>5. Ended /\ fw.pc \notin Scanning \cup {"publish"}
  BY <1>3, Zenon DEF Ended, Quiet, Scanning, Resting, Boots
<1>6. ~fw.failed /\ fw.k = Length + 1 /\ log.bell \in log.finished
  BY <1>1, <1>3, <1>5, FirmwareTyped, Zenon DEF Outcome
<1>7. Left(c) = 0
  <2>1. win.wr \in Words /\ Cursor(c) = win.wr
    BY <1>3, FirmwareTyped, Zenon DEF Cursor
  <2> QED
    BY <2>1, WordDistance, Zenon DEF Left
<1>8. Launching(c)
  BY Zenon DEF Launching
<1>9. Delivered(c) /\ Len(sub.pending) \in Nat
  BY <1>2, <1>8, LeftTyped, Zenon
<1>10. Len(sub.pending) = Length
  <2>1. Sent = fw.k - 1
    BY <1>5, <1>6, Zenon DEF Sent
  <2>2. Len(sub.pending) + Left(c) = Sent
    BY <1>2, <1>8, <1>9, Zenon DEF Delivered
  <2> QED
    BY <1>4, <1>6, <1>7, <1>9, <2>1, <2>2
<1>11. ASSUME NEW j \in 1..Length
       PROVE  sub.pending[j] = [launch |-> log.bell, packet |-> j, status |-> "ok"]
  <2>1. sub.pending[j] = RecordOf(j)
    BY <1>2, <1>8, <1>9, <1>10, Zenon DEF Delivered
  <2>2. j # fw.k
    BY <1>4, <1>6
  <2> QED
    BY <2>1, <2>2, Zenon DEF RecordOf
<1>12. sub.pending = [j \in 1..Length |-> sub.pending[j]]
  <2>1. sub.pending \in Seq(Records)
    BY <1>1, Zenon DEF Types, SubType
  <2> QED
    BY <1>10, <2>1
<1>13. DOMAIN ImageOf[log.bell].packets = 1..Length
  <2>1. ImageOf[log.bell].packets \in Seq(PacketKinds)
    BY <1>4, LinkAssumption, Zenon
  <2> QED
    BY <2>1 DEF Length
<1>14. sub.pending = Evidence(log.bell)
  BY <1>11, <1>12, <1>13, Zenon DEF Evidence
<1> QED
  BY <1>2, <1>3, <1>4, <1>6, <1>14, Zenon

\* Whatever the firmware is busy with is open.
LEMMA BusyOpen ==
  ASSUME LinkInv, DeliveryInv, ~Quiet
  PROVE  log.bell # 0 /\ (sub.poisoned \/ log.result[log.bell] = NoResult)
<1>1. log.bell # 0
  BY Zenon DEF LinkInv, Sequenced, Quiet
<1>2. ASSUME ~sub.poisoned PROVE log.result[log.bell] = NoResult
  <2>1. PICK c \in Callers : plan[c].rung
    BY <1>2, Zenon DEF LinkInv, AtRest
  <2>2. Rung(c) /\ Known
    BY Zenon DEF LinkInv, DeliveryInv
  <2>3. Launching(c)
    BY <1>2, <2>1, <2>2, Zenon DEF Rung, Launching, Draining
  <2> QED
    BY <2>1, <2>2, <2>3, Zenon DEF Known
<1> QED
  BY <1>1, <1>2, Zenon

\* The launch that is open and the one the firmware works on, as the contract reads them.
Open == IF log.bell # 0 /\ (sub.poisoned \/ log.result[log.bell] = NoResult) THEN log.bell ELSE 0
Hw == IF fw.pc \in Scanning THEN fw.img ELSE 0

\* A step that changes nothing the contract reads.
LEMMA ContractStutters ==
  ASSUME log'.bell = log.bell, log'.result = log.result, log'.finished = log.finished,
         sub'.poisoned = sub.poisoned, Hw' = Hw
  PROVE  UNCHANGED Contract!vars
  BY Zenon DEF Contract!vars, Hw

\* A step of the firmware that leaves its image, or stops in it.
LEMMA FirmwareContract ==
  ASSUME LinkInv, DeliveryInv, Firmware \/ Restart \/ KernelFinishes
  PROVE  [Contract!Next]_(Contract!vars)
<1>1. Types /\ Sequenced /\ Staged /\ Outcome
  BY Zenon DEF LinkInv, DeliveryInv
<1>2. sub' = sub /\ log'.bell = log.bell /\ log'.result = log.result
  BY <1>1, Zenon
  DEF Types, LogType, Firmware, Boot, Accept, SetRunning, StoreInit, Activate, CheckInflight,
      WriteRecord, BumpCursor, Complete, PublishState, PublishDone, Restart, KernelFinishes, host
<1>3. CASE StoreInit
  <2>1. fw.pc = "config" /\ log' = log
    BY <1>3, Zenon DEF StoreInit
  <2>2. ~Quiet /\ Hw = 0
    BY <2>1, Zenon DEF Quiet, Resting, Boots, Scanning, Hw
  <2>3. log.bell # 0 /\ Open = log.bell /\ win.nodes = log.bell
    BY <1>1, <2>2, BusyOpen, Zenon DEF Open, Outcome
  <2>4. (fw'.pc = "packet" /\ fw'.img = win.nodes) \/ fw'.pc = "publish"
    BY <1>1, <1>3, Zenon DEF StoreInit, Types, FwType
  <2>5. CASE fw'.pc = "publish"
    BY <1>2, <2>1, <2>2, <2>5, ContractStutters, Zenon DEF Hw, Scanning
  <2>6. CASE fw'.pc = "packet" /\ fw'.img = win.nodes
    <3>1. Hw' = Open /\ Open' = Open
      BY <1>2, <2>3, <2>6, Zenon DEF Hw, Scanning, Open
    <3>2. Contract!Take
      BY <1>2, <2>1, <2>2, <2>3, <3>1, Zenon DEF Contract!Take, Hw, Open
    <3> QED
      BY <3>2, Zenon DEF Contract!Next
  <2> QED
    BY <2>4, <2>5, <2>6, Zenon
<1>4. CASE Activate \/ CheckInflight \/ WriteRecord \/ BumpCursor
  <2>1. /\ fw.pc \in Scanning /\ fw'.img = fw.img /\ log' = log
        /\ fw'.pc \in Scanning \cup {"publish"}
    <3>1. CASE Activate
      BY <1>1, <3>1, Zenon DEF Activate, Dispatch, FwFails, Types, FwType, Scanning
    <3>2. CASE CheckInflight \/ WriteRecord \/ BumpCursor
      BY <1>1, <3>2, Zenon
      DEF CheckInflight, WriteRecord, BumpCursor, FwGo, FwFails, Types, FwType, Scanning
    <3> QED
      BY <1>4, <3>1, <3>2, Zenon
  <2>2. CASE fw'.pc \in Scanning
    BY <1>2, <2>1, <2>2, ContractStutters, Zenon DEF Hw
  <2>3. CASE fw'.pc = "publish"
    <3>1. Hw # 0 /\ Hw' = 0
      <4>1. ~Quiet /\ log.bell # 0
        BY <1>1, <2>1, Zenon DEF Quiet, Sequenced, Resting, Boots, Scanning
      <4>2. fw.img = log.bell
        BY <1>1, <2>1, <4>1, Zenon DEF Staged, Outcome
      <4> QED
        BY <2>1, <2>3, <4>1, <4>2, Zenon DEF Hw, Scanning
    <3>2. Contract!Abandon
      BY <1>2, <2>1, <3>1, Zenon DEF Contract!Abandon, Hw
    <3> QED
      BY <3>2, Zenon DEF Contract!Next
  <2> QED
    BY <2>1, <2>2, <2>3, Zenon
<1>5. CASE Complete
  <2>1. /\ fw.pc = "packet" /\ fw'.pc = "publish"
        /\ log'.finished = log.finished \cup {fw.img}
    BY <1>1, <1>5, Zenon DEF Complete, Types, FwType, LogType
  <2>2. ~Quiet /\ log.bell # 0
    BY <1>1, <2>1, Zenon DEF Quiet, Sequenced, Resting, Boots
  <2>3. fw.img = log.bell
    BY <1>1, <2>1, <2>2, Zenon DEF Staged, Outcome, Scanning
  <2>4. Hw = fw.img /\ Hw # 0 /\ Hw' = 0
    BY <2>1, <2>2, <2>3, Zenon DEF Hw, Scanning
  <2>5. Contract!Finish
    BY <1>2, <2>1, <2>4, Zenon DEF Contract!Finish, Hw
  <2> QED
    BY <2>5, Zenon DEF Contract!Next
<1>6. CASE Boot \/ Accept \/ SetRunning \/ PublishState \/ PublishDone \/ Restart
  <2>1. fw.pc \notin Scanning /\ fw'.pc \notin Scanning /\ log'.finished = log.finished
    <3>1. CASE Boot
      BY <1>1, <3>1, Zenon DEF Boot, FwGo, Types, FwType, Scanning
    <3>2. CASE Accept \/ SetRunning \/ PublishState \/ PublishDone
      BY <1>1, <3>2, Zenon DEF Accept, SetRunning, PublishState, PublishDone, FwGo, Types, FwType, Scanning
    <3>3. CASE Restart
      BY <1>1, <3>3, Zenon DEF Restart, Types, FwType, LogType, Scanning, Sequenced, Resting, Boots
    <3> QED
      BY <1>6, <3>1, <3>2, <3>3, Zenon
  <2> QED
    BY <1>2, <2>1, ContractStutters, Zenon DEF Hw
<1>7. CASE KernelFinishes
  BY <1>2, <1>7, ContractStutters, Zenon DEF KernelFinishes, Hw
<1> QED
  BY <1>3, <1>4, <1>5, <1>6, <1>7, Zenon DEF Firmware

\* The doorbell hands over the next image when the one before has its result.
LEMMA DoorbellContract ==
  ASSUME LinkInv, DeliveryInv, NEW c \in Callers, Doorbell(c)
  PROVE  Contract!Next
<1>1. plan[c].pc = "ring" /\ fw' = fw /\ sub' = sub /\ Launching(c) /\ Holds(c)
  BY Zenon DEF Doorbell, At, card, Launching, Holds
<1>2. log'.bell = plan[c].l /\ log'.result = log.result /\ log'.finished = log.finished
  BY Zenon DEF LinkInv, Types, LogType, Doorbell
<1>3. ~sub.poisoned /\ fw.pc \in Resting /\ ~plan[c].rung /\ plan[c].l \in Launches
  BY <1>1, Zenon DEF LinkInv, Prepared, Preparing, Staging, Rung
<1>4. log.result[plan[c].l] = NoResult /\ plan[c].l # 0
  BY <1>1, <1>3, LinkAssumption, Zenon DEF DeliveryInv, Known
<1>5. Hw = 0 /\ Hw' = 0
  BY <1>1, <1>3, Zenon DEF Hw, Scanning, Resting, Boots
<1>6. Open = 0
  <2> SUFFICES ASSUME log.bell # 0, log.result[log.bell] = NoResult PROVE FALSE
    BY <1>3, Zenon DEF Open
  <2>1. PICK d \in Callers : plan[d].rung
    BY Zenon DEF DeliveryInv, Known
  <2> QED
    BY <1>1, <1>3, <2>1, OthersOutside, Zenon
<1>7. Open' = plan[c].l
  BY <1>2, <1>4, Zenon DEF Open
<1>8. Contract!HandOver(plan[c].l)
  BY <1>1, <1>2, <1>3, <1>4, <1>5, <1>6, <1>7, Zenon
  DEF Contract!HandOver, Contract!NoResult, NoResult, Open, Hw
<1> QED
  BY <1>3, <1>8, Zenon DEF Contract!Next

\* A timeout retires the hardware with its launch open.
LEMMA ExpireContract ==
  ASSUME LinkInv, DeliveryInv, NEW c \in Callers, Expire(c)
  PROVE  Contract!Next
<1>1. plan[c].pc = "done" /\ fw' = fw /\ log' = log /\ Launching(c)
  BY Zenon DEF Expire, At, card, Launching
<1>2. sub'.poisoned = TRUE
  BY Zenon DEF LinkInv, Types, SubType, Expire
<1>3. plan[c].rung /\ log.bell # 0
  BY <1>1, Zenon DEF LinkInv, Rung
<1>4. log.result[log.bell] = NoResult
  BY <1>1, <1>3, Zenon DEF DeliveryInv, Known
<1>5. Open = log.bell /\ Open' = log.bell
  BY <1>1, <1>2, <1>3, <1>4, Zenon DEF Open
<1>6. Contract!Retire
  BY <1>1, <1>2, <1>3, <1>5, Zenon DEF Contract!Retire, Open
<1> QED
  BY <1>6, Zenon DEF Contract!Next

\* A result is that of the launch: success with its evidence, or a failure.
LEMMA JudgeContract ==
  ASSUME LinkInv, DeliveryInv, NEW c \in Callers, Judge(c)
  PROVE  Contract!Next
<1>1. plan[c].pc = "judge" /\ fw' = fw /\ Launching(c)
  BY Zenon DEF Judge, At, card, Launching
<1>2. sub'.poisoned = sub.poisoned
  BY Zenon DEF LinkInv, Types, SubType, Judge
<1>3. PICK ok, e : Verdict(c, ok, e)
  BY JudgeResult, Zenon
<1>4. plan[c].l \in Launches /\ plan[c].l # 0
  BY <1>1, LinkAssumption, Zenon DEF LinkInv, Rung, Holds
<1>5. log.result[plan[c].l] = NoResult
  BY <1>1, Zenon DEF DeliveryInv, Known
<1>6. /\ log'.bell = log.bell /\ log'.finished = log.finished
      /\ log'.result = [log.result EXCEPT ![plan[c].l] =
                          [out |-> IF ok THEN "ok" ELSE "error", evidence |-> e]]
      /\ log.result \in [Launches -> [out : {"none", "ok", "error"}, evidence : Seq(Records)]]
      /\ log.bell # 0 => log.bell \in Launches
  BY <1>3, Zenon DEF Verdict, LinkInv, Types, LogType, Numbers
<1>7. log'.result[plan[c].l] # NoResult
  BY <1>4, <1>6 DEF NoResult
<1>8. CASE ok
  <2>1. /\ plan[c].rung /\ ~sub.poisoned /\ plan[c].l = log.bell /\ log.bell \in Launches
        /\ sub.pending = Evidence(log.bell) /\ log.bell \in log.finished /\ Quiet
    BY <1>1, <1>3, <1>8, EvidenceComplete, Zenon DEF Verdict
  <2>2. Hw = 0 /\ Hw' = 0
    BY <1>1, <2>1, Zenon DEF Hw, Quiet, Scanning, Resting, Boots
  <2>3. Open = log.bell
    BY <1>4, <1>5, <2>1, Zenon DEF Open
  <2>4. Open' = 0
    BY <1>2, <1>6, <1>7, <2>1, Zenon DEF Open
  <2>5. log'.result = [log.result EXCEPT ![Open] = Contract!Ok(Open)]
    BY <1>3, <1>6, <1>8, <2>1, <2>3, Zenon DEF Verdict, Contract!Ok
  <2>6. Contract!Succeed
    BY <1>2, <1>6, <2>1, <2>2, <2>3, <2>4, <2>5, Zenon DEF Contract!Succeed, Open, Hw
  <2> QED
    BY <2>6, Zenon DEF Contract!Next
<1>9. CASE ~ok
  <2>1. log'.result = [log.result EXCEPT ![plan[c].l].out = "error"]
    <3>1. [log.result[plan[c].l] EXCEPT !.out = "error"] = [out |-> "error", evidence |-> <<>>]
      BY <1>5 DEF NoResult
    <3> QED
      BY <1>3, <1>6, <1>9, <3>1, Zenon DEF Verdict
  <2>2. Open' = IF Open = plan[c].l /\ ~sub.poisoned THEN 0 ELSE Open
    <3>1. CASE sub.poisoned
      BY <1>2, <1>6, <3>1, Zenon DEF Open
    <3>2. CASE ~sub.poisoned /\ log.bell = plan[c].l
      BY <1>2, <1>4, <1>5, <1>6, <1>7, <3>2, Zenon DEF Open
    <3>3. CASE ~sub.poisoned /\ log.bell # plan[c].l
      <4>1. log.bell # 0 => log'.result[log.bell] = log.result[log.bell]
        BY <1>6, <3>3, Zenon
      <4> QED
        BY <1>2, <1>4, <1>6, <3>3, <4>1, Zenon DEF Open
    <3> QED
      BY <3>1, <3>2, <3>3, Zenon
  <2>3. Contract!Fail(plan[c].l)
    BY <1>1, <1>2, <1>5, <1>6, <2>1, <2>2, Zenon
    DEF Contract!Fail, Contract!NoResult, NoResult, Open, Hw
  <2> QED
    BY <1>4, <2>3, Zenon DEF Contract!Next
<1> QED
  BY <1>8, <1>9, Zenon

\* What the steps of a caller other than its doorbell and its result leave alone.
LEMMA CallerFrame ==
  ASSUME LinkInv, NEW c \in Callers, Caller(c) \/ Worker(c), ~Doorbell(c), ~Judge(c)
  PROVE  /\ fw' = fw /\ board' = board /\ log' = log
         /\ sub'.poisoned = sub.poisoned /\ dev'.active = dev.active
         /\ win'.seq = win.seq /\ win'.done = win.done /\ win'.state = win.state
<1>1. SubType /\ DevType /\ WinType
  BY DEF LinkInv, Types
<1>2. fw' = fw /\ board' = board /\ log' = log
  BY Zenon
  DEF Caller, Worker, LeaseCheck, LeaseTake, Launch, Release, Enter, AwaitMagic, AwaitReady,
      HandshakeFails, Handshake, Preflight, DrainRead, DrainCopy, DrainWrite, Stage, Override,
      PollState, PollDone, LastState, Join, card
<1>3. sub'.poisoned = sub.poisoned
  <2>1. CASE Caller(c)
    BY <2>1 DEF Caller, LeaseCheck, LeaseTake, Launch, Release
  <2>2. CASE Throw(c)
    BY <1>1, <2>2, SMTT(30) DEF Throw, SubType
  <2>3. CASE ~Throw(c) /\ Worker(c)
    BY <1>1, <2>3
    DEF Worker, Enter, AwaitMagic, AwaitReady, HandshakeFails, Handshake, Preflight,
        DrainRead, DrainCopy, DrainWrite, Stage, Override, PollState, PollDone, LastState,
        Join, SubType
  <2> QED
    BY <2>1, <2>2, <2>3, SMTT(30)
<1>4. dev'.active = dev.active
  <2>1. CASE LeaseCheck(c) \/ LeaseTake(c) \/ Release(c) \/ Join(c)
    BY <1>1, <2>1 DEF LeaseCheck, LeaseTake, Release, Join, DevType
  <2>2. CASE ~(LeaseCheck(c) \/ LeaseTake(c) \/ Release(c) \/ Join(c))
    <3>1. dev' = dev
      BY <2>2, Zenon
      DEF Caller, Worker, Launch, Enter, AwaitMagic, AwaitReady, HandshakeFails, Handshake,
          Preflight, DrainRead, DrainCopy, DrainWrite, Stage, Override, PollState, PollDone,
          LastState
    <3> QED
      BY <3>1
  <2> QED
    BY <2>1, <2>2
<1>5. win'.seq = win.seq /\ win'.done = win.done /\ win'.state = win.state
  <2>1. CASE Handshake(c) \/ DrainWrite(c) \/ Stage(c) \/ Override(c)
    BY <1>1, <2>1 DEF Handshake, DrainWrite, Stage, Override, WinType
  <2>2. CASE ~(Handshake(c) \/ DrainWrite(c) \/ Stage(c) \/ Override(c))
    <3>1. win' = win
      BY <2>2, Zenon
      DEF Caller, Worker, LeaseCheck, LeaseTake, Launch, Release, Enter, AwaitMagic, AwaitReady,
          HandshakeFails, Preflight, DrainRead, DrainCopy, PollState, PollDone, LastState, Join
    <3> QED
      BY <3>1
  <2> QED
    BY <2>1, <2>2
<1> QED
  BY <1>2, <1>3, <1>4, <1>5

\* No other step of a caller concerns the contract.
LEMMA CallerContract ==
  ASSUME LinkInv, DeliveryInv, NEW c \in Callers, Caller(c) \/ Worker(c) \/ Expire(c)
  PROVE  [Contract!Next]_(Contract!vars)
<1>1. CASE Doorbell(c) \/ Judge(c) \/ Expire(c)
  BY <1>1, DoorbellContract, JudgeContract, ExpireContract
<1>2. CASE ~(Doorbell(c) \/ Judge(c) \/ Expire(c))
  <2>1. fw' = fw /\ log' = log /\ sub'.poisoned = sub.poisoned
    BY <1>2, CallerFrame
  <2> QED
    BY <2>1, ContractStutters DEF Hw
<1> QED
  BY <1>1, <1>2

\* Rp1Link implements Rp1Contract: one image at a time is with the firmware, no image is
\* handed over after a timeout, and a launch that returns success was worked through to its
\* end, its evidence being exactly its image's completions in order (submitAndWait,
\* drainAvailableCq, FpgaDevicePlan::launch, rp1_run).
THEOREM LaunchContract == Spec => Implements
<1>1. Init => Contract!Init
  <2> SUFFICES ASSUME Init PROVE Contract!Init
    BY Zenon
  <2>1. log.bell = 0 /\ log.finished = {} /\ log.result = [l \in Launches |-> NoResult]
    BY SMTT(30) DEF Init
  <2>2. fw.pc \in {"boot", "idle"} /\ sub.poisoned = FALSE
    BY DEF Init
  <2> QED
    BY <2>1, <2>2, ZenonT(40) DEF Contract!Init, Contract!NoResult, NoResult, Scanning
<1>2. LinkInv /\ DeliveryInv /\ [Next]_vars => [Contract!Next]_(Contract!vars)
  <2> SUFFICES ASSUME LinkInv, DeliveryInv, [Next]_vars
               PROVE  [Contract!Next]_(Contract!vars)
    BY Zenon
  <2>1. CASE Firmware \/ Restart \/ KernelFinishes
    BY <2>1, FirmwareContract, Zenon
  <2>2. ASSUME NEW c \in Callers, Caller(c) \/ Worker(c) \/ Expire(c)
        PROVE  [Contract!Next]_(Contract!vars)
    BY <2>2, CallerContract, Zenon
  <2>3. CASE UNCHANGED vars
    BY <2>3, ContractStutters, Zenon DEF vars, Hw
  <2> QED
    BY <2>1, <2>2, <2>3, Zenon DEF Next
<1> QED
  BY <1>1, <1>2, LinkInvariant, CompletionsDelivered, PTL DEF Spec, Implements, Contract!Spec

----------------------------------------------------------------------------
(* The image loaded.                                                       *)

\* The packets dispatched of the image handed over last, and whether one of them, or the
\* last one without success, loads an image.
Tried == IF fw.pc \in Scanning \ {"packet"} THEN fw.k ELSE Sent
Loads(j) == ImageOf[log.bell].packets[j] = "pdi"
Reloaded == \E j \in 1..Tried : Loads(j)
LoadFailed == fw.k \in 1..Tried /\ Loads(fw.k) /\ fw.status # "ok"

BoardType == board \in [loaded : Numbers, kernels : SUBSET Numbers]

\* What is loaded: of the launch that is open, once one of its packets says so, and otherwise
\* what the device believes.
LoadedInv ==
  /\ BoardType
  /\ fw.pc = "kernel" => ~Loads(fw.k)
  /\ ~sub.poisoned =>
       IF Open # 0 /\ Reloaded THEN board.loaded = IF LoadFailed THEN 0 ELSE log.bell
       ELSE dev.active # 0 => board.loaded = dev.active

\* A step that dispatches nothing, hands nothing over and judges nothing.
LEMMA LoadedKept ==
  ASSUME LoadedInv, sub'.poisoned = sub.poisoned, log'.bell = log.bell, log'.result = log.result,
         dev'.active = dev.active, board'.loaded = board.loaded, BoardType',
         fw'.pc = "kernel" => fw.pc = "kernel" /\ fw'.k = fw.k,
         Tried' = Tried, LoadFailed' = LoadFailed
  PROVE  LoadedInv'
<1>1. Open' = Open /\ \A j : Loads(j)' = Loads(j)
  BY Zenon DEF Open, Loads
<1>2. Reloaded' = Reloaded
  BY <1>1, Zenon DEF Reloaded
<1>3. (fw.pc = "kernel" => ~Loads(fw.k))'
  BY Zenon DEF LoadedInv, Loads
<1> QED
  BY <1>1, <1>2, <1>3, Zenon DEF LoadedInv

\* The frame of a step of the firmware.
LEMMA FirmwareLoadedFrame ==
  ASSUME LinkInv, Firmware \/ Restart \/ KernelFinishes
  PROVE  sub' = sub /\ dev' = dev /\ log'.bell = log.bell /\ log'.result = log.result
<1>1. Types
  BY Zenon DEF LinkInv
<1> QED
  BY <1>1, Zenon
  DEF Types, LogType, Firmware, Boot, Accept, SetRunning, StoreInit, Activate, CheckInflight,
      WriteRecord, BumpCursor, Complete, PublishState, PublishDone, Restart, KernelFinishes, host

\* The firmware outside the scan of an image.
LEMMA RestLoaded ==
  ASSUME LinkInv, DeliveryInv, LoadedInv,
         \/ Boot \/ Accept \/ SetRunning \/ StoreInit \/ Complete \/ PublishState \/ PublishDone
         \/ Restart \/ KernelFinishes
  PROVE  LoadedInv'
<1>1. Types /\ Sequenced /\ Outcome /\ BoardType
  BY Zenon DEF LinkInv, DeliveryInv, LoadedInv
<1>2. sub' = sub /\ dev' = dev /\ log'.bell = log.bell /\ log'.result = log.result
  BY FirmwareLoadedFrame, Zenon DEF Firmware
<1>3. Sent' = Sent
  BY BootDelivers, AcceptDelivers, StoreInitDelivers, CompleteDelivers, PublishDelivers,
     RestartDelivers, Zenon
<1>4. board'.loaded = board.loaded /\ BoardType'
  <2>1. CASE KernelFinishes
    BY <1>1, <2>1, Zenon DEF KernelFinishes, BoardType
  <2>2. CASE ~KernelFinishes
    <3>1. board' = board
      BY <2>2, Zenon
      DEF Boot, Accept, SetRunning, StoreInit, Complete, PublishState, PublishDone, Restart
    <3> QED
      BY <1>1, <3>1, Zenon DEF BoardType
  <2> QED
    BY <2>1, <2>2, Zenon
<1>5. CASE KernelFinishes
  <2>1. fw' = fw
    BY <1>5, Zenon DEF KernelFinishes
  <2>2. Tried' = Tried
    BY <1>3, <2>1, Zenon DEF Tried
  <2>3. LoadFailed' = LoadFailed
    BY <1>2, <2>1, <2>2, Zenon DEF LoadFailed, Loads
  <2> QED
    BY <1>2, <1>4, <2>1, <2>2, <2>3, LoadedKept, Zenon
<1>6. CASE StoreInit
  <2>1. fw.pc = "config" /\ fw'.pc \in {"packet", "publish"}
    BY <1>1, <1>6, Zenon DEF StoreInit, Types, FwType
  <2>2. Sent = 0
    BY <2>1, Zenon DEF Sent, Scanning, Ended, Quiet, Resting, Boots
  <2>3. Tried = 0 /\ Tried' = 0
    BY <1>3, <2>1, <2>2, Zenon DEF Tried, Scanning
  <2>4. LoadFailed' = LoadFailed
    BY <2>3 DEF LoadFailed
  <2> QED
    BY <1>2, <1>4, <2>1, <2>3, <2>4, LoadedKept, Zenon
<1>7. CASE Boot \/ Accept \/ SetRunning \/ Complete \/ PublishState \/ PublishDone \/ Restart
  <2>1. /\ fw.pc \notin Scanning \ {"packet"} /\ fw'.pc \notin Scanning
        /\ fw'.k = fw.k /\ fw'.status = fw.status
    <3>1. CASE Boot
      BY <1>1, <3>1 DEF Boot, FwGo, Types, FwType, Scanning
    <3>2. CASE Accept \/ SetRunning \/ PublishState \/ PublishDone \/ Complete
      BY <1>1, <3>2, ZenonT(40)
      DEF Accept, SetRunning, PublishState, PublishDone, Complete, FwGo, Types, FwType, Scanning
    <3>3. CASE Restart
      BY <1>1, <3>3, Zenon DEF Restart, Types, FwType, Scanning, Sequenced, Resting, Boots
    <3> QED
      BY <1>7, <3>1, <3>2, <3>3, Zenon
  <2>2. Tried' = Tried
    BY <1>3, <2>1, Zenon DEF Tried
  <2>3. LoadFailed' = LoadFailed
    BY <1>2, <2>1, <2>2, Zenon DEF LoadFailed, Loads
  <2> QED
    BY <1>2, <1>4, <2>1, <2>2, <2>3, LoadedKept, Zenon DEF Scanning
<1> QED
  BY <1>5, <1>6, <1>7, Zenon

\* Recording a completion.
LEMMA RecordLoaded ==
  ASSUME LinkInv, DeliveryInv, LoadedInv, CheckInflight \/ WriteRecord \/ BumpCursor
  PROVE  LoadedInv'
<1>1. Types /\ Sequenced /\ Bounded /\ Outcome /\ BoardType
  BY Zenon DEF LinkInv, DeliveryInv, LoadedInv
<1>2. sub' = sub /\ dev' = dev /\ log'.bell = log.bell /\ log'.result = log.result
  BY FirmwareLoadedFrame, Zenon DEF Firmware
<1>3. board' = board
  BY Zenon DEF CheckInflight, WriteRecord, BumpCursor
<1>4. BoardType'
  BY <1>1, <1>3, Zenon DEF BoardType
<1>5. fw.pc \in {"kernel", "record", "bump"} /\ fw.k \in Nat /\ Tried = fw.k
  BY FirmwareTyped, Zenon DEF CheckInflight, WriteRecord, BumpCursor, FwGo, Tried, Scanning
<1>6. CASE CheckInflight \/ WriteRecord
  <2>1. fw'.pc \in {"record", "bump"} /\ fw'.k = fw.k
    <3>1. CASE CheckInflight
      <4>1. log.bell # 0
        BY <1>1, <1>5, Zenon DEF Sequenced, Resting, Boots
      <4>2. ~(Used > win.size)
        <5>1. Used <= win.size /\ Used \in Words /\ win.size \in 1..MaxCqSize
          BY <1>1, <4>1, FirmwareTyped, WordDistance, Zenon DEF Bounded, Used
        <5> QED
          BY <5>1, Sizes DEF Words
      <4> QED
        BY <1>1, <3>1, <4>2, Zenon DEF CheckInflight, Types, FwType
    <3>2. CASE WriteRecord
      BY <1>1, <3>2, Zenon DEF WriteRecord, FwGo, Types, FwType
    <3> QED
      BY <1>6, <3>1, <3>2, Zenon
  <2>2. Tried' = Tried
    BY <1>5, <2>1, Zenon DEF Tried, Scanning
  <2>3. LoadFailed' = LoadFailed
    <3>1. CASE CheckInflight
      <4>1. ~Loads(fw.k)
        BY <3>1, Zenon DEF CheckInflight, LoadedInv
      <4>2. Loads(fw.k)' = Loads(fw.k)
        BY <1>2, <2>1, Zenon DEF Loads
      <4>3. LoadFailed = FALSE /\ LoadFailed' = FALSE
        BY <4>1, <4>2, Zenon DEF LoadFailed
      <4> QED
        BY <4>3, Zenon
    <3>2. CASE WriteRecord
      <4>1. fw'.status = fw.status
        BY <1>1, <3>2, Zenon DEF WriteRecord, FwGo, Types, FwType
      <4> QED
        BY <1>2, <2>1, <2>2, <4>1, Zenon DEF LoadFailed, Loads
    <3> QED
      BY <1>6, <3>1, <3>2, Zenon
  <2> QED
    BY <1>2, <1>3, <1>4, <2>1, <2>2, <2>3, LoadedKept, Zenon
<1>7. CASE BumpCursor /\ fw.status = "ok"
  <2>1. fw'.pc = "packet" /\ fw'.k = fw.k + 1
    BY <1>1, <1>7, Zenon DEF BumpCursor, Types, FwType
  <2>2. Tried' = Tried
    BY <1>5, <2>1 DEF Tried, Sent, Scanning
  <2>3. LoadFailed = FALSE /\ LoadFailed' = FALSE
    BY <1>5, <1>7, <2>1, <2>2 DEF LoadFailed
  <2> QED
    BY <1>2, <1>3, <1>4, <2>1, <2>2, <2>3, LoadedKept, Zenon
<1>8. CASE BumpCursor /\ fw.status # "ok"
  <2>1. fw'.pc = "publish" /\ fw'.k = fw.k /\ fw'.status = fw.status /\ fw'.failed
    BY <1>1, <1>8, Zenon DEF BumpCursor, Types, FwType
  <2>2. Tried' = Tried
    BY <1>5, <2>1, Zenon DEF Tried, Sent, Ended, Scanning
  <2>3. LoadFailed' = LoadFailed
    BY <1>2, <2>1, <2>2, Zenon DEF LoadFailed, Loads
  <2> QED
    BY <1>2, <1>3, <1>4, <2>1, <2>2, <2>3, LoadedKept, Zenon
<1> QED
  BY <1>6, <1>7, <1>8, Zenon

\* Dispatching a packet.
LEMMA ActivateLoaded == ASSUME LinkInv, DeliveryInv, LoadedInv, Activate PROVE LoadedInv'
<1>1. Types /\ Sequenced /\ Bounded /\ Staged /\ Outcome /\ BoardType
  BY Zenon DEF LinkInv, DeliveryInv, LoadedInv
<1>2. sub' = sub /\ dev' = dev /\ log'.bell = log.bell /\ log'.result = log.result
  BY FirmwareLoadedFrame, Zenon DEF Firmware
<1>3. fw.pc = "packet" /\ fw.k <= fw.n
  BY Zenon DEF Activate
<1>4. ~Quiet
  BY <1>3, Zenon DEF Quiet, Resting, Boots
<1>5. log.bell # 0 /\ log.bell \in Launches /\ Length \in Nat /\ fw.k \in Nat
  BY <1>4, BusyOpen, FirmwareTyped, Zenon
<1>6. Open # 0 /\ Open' = Open
  BY <1>2, <1>4, <1>5, BusyOpen, ZenonT(40) DEF Open
<1>7. fw.k \in 1..Length /\ win.nodes = log.bell /\ fw.img = log.bell
  BY <1>1, <1>3, <1>4, <1>5 DEF Outcome, Staged, Scanning
<1>8. Dispatch
  <2>1. Used <= win.size /\ Used \in Words /\ win.size \in 1..MaxCqSize
    BY <1>1, <1>5, FirmwareTyped, WordDistance, Zenon DEF Bounded, Used
  <2>2. ~(Used > win.size)
    BY <2>1, Sizes DEF Words
  <2> QED
    BY <2>2, Zenon DEF Activate
<1>9. Packet = ImageOf[log.bell].packets[fw.k]
  <2>1. ImageOf[log.bell].packets \in Seq(PacketKinds)
    BY <1>5, LinkAssumption, Zenon
  <2>2. DOMAIN ImageOf[log.bell].packets = 1..Length
    BY <2>1 DEF Length
  <2> QED
    BY <1>5, <1>7, <2>2, Zenon DEF Packet
<1>10. fw'.pc \in {"kernel", "record"} /\ fw'.k = fw.k /\ (fw'.pc = "kernel" => Packet = "kernel")
  BY <1>1, <1>8, Zenon DEF Dispatch, Types, FwType
<1>11. Tried = fw.k - 1 /\ Tried' = fw.k
  BY <1>3, <1>5, <1>10, Zenon DEF Tried, Sent, Scanning
<1>12. LoadFailed = FALSE
  BY <1>5, <1>11 DEF LoadFailed
<1>13. \A j : Loads(j)' = Loads(j)
  BY <1>2, Zenon DEF Loads
<1>14. Loads(fw.k) <=> Packet = "pdi"
  BY <1>9, Zenon DEF Loads
<1>15. (fw.pc = "kernel" => ~Loads(fw.k))'
  BY <1>9, <1>10, <1>2, Zenon DEF Loads
<1>16. CASE Packet = "pdi"
  <2>1. PICK ok \in BOOLEAN :
          /\ board' = [board EXCEPT !.loaded = IF ok THEN fw.img ELSE 0]
          /\ fw' = [fw EXCEPT !.pc = "record", !.status = IF ok THEN "ok" ELSE "error"]
    BY <1>8, <1>16, Zenon DEF Dispatch
  <2>2. fw'.status = IF ok THEN "ok" ELSE "error"
    BY <1>1, <2>1, Zenon DEF Types, FwType
  <2>3. BoardType' /\ board'.loaded = IF ok THEN log.bell ELSE 0
    BY <1>1, <1>5, <1>7, <2>1, Zenon DEF BoardType, Numbers
  <2>4. Reloaded'
    BY <1>5, <1>7, <1>11, <1>13, <1>14, <1>16, SMTT(30) DEF Reloaded
  <2>5. LoadFailed' = ~ok
    BY <1>5, <1>7, <1>10, <1>11, <1>13, <1>14, <1>16, <2>2, SMTT(30) DEF LoadFailed, Loads
  <2> QED
    BY <1>2, <1>6, <1>15, <2>3, <2>4, <2>5, Zenon DEF LoadedInv
<1>17. CASE Packet # "pdi"
  <2>1. BoardType' /\ board'.loaded = board.loaded
    <3>1. board' = board \/ board' = [board EXCEPT !.kernels = @ \cup {fw.img}]
      BY <1>8, <1>17, Zenon DEF Dispatch
    <3> QED
      BY <1>1, <1>5, <1>7, <3>1, Zenon DEF BoardType, Numbers
  <2>2. Reloaded' <=> Reloaded
    BY <1>5, <1>7, <1>11, <1>13, <1>14, <1>17, SMTT(30) DEF Reloaded
  <2>3. LoadFailed' = FALSE
    BY <1>10, <1>13, <1>14, <1>17, Zenon DEF LoadFailed, Loads
  <2> QED
    BY <1>2, <1>6, <1>12, <1>15, <2>1, <2>2, <2>3, Zenon DEF LoadedInv
<1> QED
  BY <1>16, <1>17, Zenon

\* A step of a caller that neither hands over nor judges.
LEMMA CallerLoaded ==
  ASSUME LinkInv, LoadedInv, NEW c \in Callers, Caller(c) \/ Worker(c), ~Doorbell(c), ~Judge(c)
  PROVE  LoadedInv'
<1>1. /\ fw' = fw /\ board' = board /\ log' = log
      /\ sub'.poisoned = sub.poisoned /\ dev'.active = dev.active
      /\ win'.seq = win.seq /\ win'.done = win.done /\ win'.state = win.state
  BY CallerFrame, Zenon
<1>2. Sent' = Sent
  BY <1>1, Zenon DEF Sent, Ended, Quiet
<1>3. Tried' = Tried
  BY <1>1, <1>2, Zenon DEF Tried
<1>4. LoadFailed' = LoadFailed
  BY <1>1, <1>3, Zenon DEF LoadFailed, Loads
<1>5. BoardType'
  BY <1>1, Zenon DEF LoadedInv, BoardType
<1> QED
  BY <1>1, <1>3, <1>4, <1>5, LoadedKept, Zenon

\* After a timeout nothing is believed.
LEMMA ExpireLoaded ==
  ASSUME LinkInv, LoadedInv, NEW c \in Callers, Expire(c)
  PROVE  LoadedInv'
<1>1. fw' = fw /\ board' = board /\ log' = log
  BY Zenon DEF Expire, card
<1>2. sub'.poisoned = TRUE
  BY Zenon DEF LinkInv, Types, SubType, Expire
<1>3. BoardType' /\ (fw.pc = "kernel" => ~Loads(fw.k))'
  BY <1>1, Zenon DEF LoadedInv, BoardType, Loads
<1> QED
  BY <1>2, <1>3, Zenon DEF LoadedInv

\* The doorbell: no packet of the image handed over was dispatched yet.
LEMMA DoorbellLoaded ==
  ASSUME LinkInv, DeliveryInv, LoadedInv, NEW c \in Callers, Doorbell(c)
  PROVE  LoadedInv'
<1>1. fw' = fw /\ board' = board /\ sub' = sub /\ dev' = dev /\ Holds(c) /\ Preparing(c)
  BY Zenon DEF Doorbell, card, At, Holds, Preparing, Staging
<1>2. ~sub.poisoned /\ fw.pc \in Resting /\ ~plan[c].rung
  BY <1>1, Zenon DEF LinkInv, Prepared
<1>3. Open = 0
  <2> SUFFICES ASSUME log.bell # 0, log.result[log.bell] = NoResult PROVE FALSE
    BY <1>2, Zenon DEF Open
  <2>1. PICK d \in Callers : plan[d].rung
    BY Zenon DEF DeliveryInv, Known
  <2> QED
    BY <1>1, <1>2, <2>1, OthersOutside, Zenon
<1>4. Tried' = 0
  <2>1. Sent' = 0
    BY DoorbellDelivers, Zenon
  <2> QED
    BY <1>1, <1>2, <2>1, Zenon DEF Tried, Scanning, Resting, Boots
<1>5. ~Reloaded'
  BY <1>4 DEF Reloaded
<1>6. BoardType' /\ fw'.pc # "kernel"
  BY <1>1, <1>2, Zenon DEF LoadedInv, BoardType, Resting, Boots
<1>7. dev.active # 0 => board.loaded = dev.active
  BY <1>2, <1>3, Zenon DEF LoadedInv
<1> QED
  BY <1>1, <1>5, <1>6, <1>7, Zenon DEF LoadedInv

\* What the completions of a launch say, when it is judged: each packet worked through, and
\* the last of them with its own status.
LEMMA Judged ==
  ASSUME LinkInv, DeliveryInv, NEW c \in Callers, plan[c].pc = "judge", plan[c].rung,
         ~sub.poisoned
  PROVE  /\ plan[c].l = log.bell /\ log.bell \in Launches /\ log.bell # 0 /\ ~plan[c].lost
         /\ Tried \in Nat /\ Tried <= Length /\ Length \in Nat /\ fw.k \in Nat /\ Tried <= fw.k
         /\ DOMAIN sub.pending = 1..Tried
         /\ \A j \in 1..Tried : sub.pending[j] = RecordOf(j)
<1>1. Finishing(c) /\ Rung(c) /\ Known /\ Outcome /\ Types
  BY Zenon DEF DeliveryInv, LinkInv
<1>2. plan[c].l = log.bell /\ ~plan[c].lost /\ Launching(c)
  BY <1>1, Zenon DEF Finishing, Known, Launching
<1>3. plan[c].site = "raw" /\ Quiet /\ log.bell # 0 /\ sub.cursor = win.wr
  BY <1>1, Zenon DEF Finishing, Rung
<1>4. log.bell \in Launches /\ Length \in Nat /\ fw.k \in Nat /\ fw.failed \in BOOLEAN
  BY <1>3, FirmwareTyped, Zenon
<1>5. Ended /\ fw.pc \notin Scanning
  BY <1>3, Zenon DEF Ended, Quiet, Scanning, Resting, Boots
<1>6. Tried = IF fw.failed THEN fw.k ELSE fw.k - 1
  BY <1>4, <1>5, ZenonT(40) DEF Tried, Sent
<1>7. Tried \in Nat /\ Tried <= Length /\ Tried <= fw.k /\ Tried = Sent
  BY <1>1, <1>4, <1>5, <1>6, SMTT(30) DEF Outcome, Sent
<1>8. Left(c) = 0
  <2>1. win.wr \in Words /\ Cursor(c) = win.wr
    BY <1>3, FirmwareTyped, Zenon DEF Cursor
  <2> QED
    BY <2>1, WordDistance, Zenon DEF Left
<1>9. Delivered(c) /\ Len(sub.pending) \in Nat
  BY <1>2, LeftTyped, Zenon
<1>10. Len(sub.pending) = Tried
  <2>1. Len(sub.pending) + Left(c) = Sent
    BY <1>2, <1>9, Zenon DEF Delivered
  <2> QED
    BY <1>7, <1>8, <1>9, <2>1, SMTT(30)
<1>11. DOMAIN sub.pending = 1..Tried
  <2>1. sub.pending \in Seq(Records)
    BY <1>1, Zenon DEF Types, SubType
  <2> QED
    BY <1>10, <2>1
<1>12. \A j \in 1..Tried : sub.pending[j] = RecordOf(j)
  BY <1>2, <1>9, <1>10, Zenon DEF Delivered
<1> QED
  BY <1>2, <1>3, <1>4, <1>7, <1>11, <1>12, Zenon

\* The image the completions name, if any, is the one loaded.
LEMMA ReconciledKnown ==
  ASSUME LinkInv, DeliveryInv, LoadedInv, NEW c \in Callers, plan[c].pc = "judge", plan[c].rung,
         ~sub.poisoned
  PROVE  Reconciled(c, sub.pending) # 0 => board.loaded = Reconciled(c, sub.pending)
<1> DEFINE l == plan[c].l
           packets == ImageOf[l].packets
           pdis == {i \in DOMAIN sub.pending : packets[sub.pending[i].packet] = "pdi"}
<1>1. /\ l = log.bell /\ l \in Launches /\ l # 0
      /\ Tried \in Nat /\ Tried <= Length /\ Length \in Nat /\ fw.k \in Nat /\ Tried <= fw.k
      /\ DOMAIN sub.pending = 1..Tried
      /\ \A j \in 1..Tried : sub.pending[j] = RecordOf(j)
  BY Judged, Zenon
<1>2. ASSUME NEW j \in 1..Tried
      PROVE  sub.pending[j].packet = j /\ (j = fw.k => sub.pending[j].status = fw.status)
  <2>1. sub.pending[j] = RecordOf(j)
    BY <1>1, Zenon
  <2> QED
    BY <2>1 DEF RecordOf
<1>3. \A j : j \in pdis <=> j \in 1..Tried /\ Loads(j)
  BY <1>1, <1>2, Zenon DEF Loads
<1>4. Reloaded <=> pdis # {}
  BY <1>3, Zenon DEF Reloaded
<1>5. Open # 0
  <2>1. Launching(c)
    BY Zenon DEF Launching
  <2>2. log.result[l] = NoResult
    BY <1>1, <2>1, Zenon DEF DeliveryInv, Known
  <2> QED
    BY <1>1, <2>2, Zenon DEF Open
<1>6. IF Reloaded THEN board.loaded = IF LoadFailed THEN 0 ELSE l
      ELSE dev.active # 0 => board.loaded = dev.active
  BY <1>1, <1>5, Zenon DEF LoadedInv
<1>7. CASE "pdi" \notin Range(packets)
  <2>1. Reconciled(c, sub.pending) = dev.active
    BY <1>7, Zenon DEF Reconciled
  <2>2. packets \in Seq(PacketKinds)
    BY <1>1, LinkAssumption, Zenon
  <2>3. \A j \in 1..Tried : j \in DOMAIN packets
    BY <1>1, <2>2 DEF Length
  <2>4. ~Reloaded
    BY <1>1, <1>7, <2>3, Zenon DEF Reloaded, Loads, Range
  <2> QED
    BY <1>6, <2>1, <2>4, Zenon
<1>8. CASE "pdi" \in Range(packets)
  <2> DEFINE known == \E i \in pdis : sub.pending[i].status = "ok" /\ \A j \in pdis : j <= i
  <2>1. \/ Reconciled(c, sub.pending) = 0
        \/ Reconciled(c, sub.pending) = IF pdis = {} THEN dev.active ELSE IF known THEN l ELSE 0
    BY <1>8, Zenon DEF Reconciled
  <2>2. ASSUME known PROVE ~LoadFailed
    <3> SUFFICES ASSUME LoadFailed PROVE FALSE
      BY Zenon
    <3>1. PICK i \in pdis : sub.pending[i].status = "ok" /\ \A j \in pdis : j <= i
      BY <2>2, Zenon
    <3>2. fw.k \in 1..Tried /\ Loads(fw.k) /\ fw.status # "ok"
      BY Zenon DEF LoadFailed
    <3>3. fw.k \in pdis /\ i \in 1..Tried
      BY <1>3, <3>1, <3>2, ZenonT(40)
    <3>4. i = fw.k
      <4>1. fw.k <= i
        BY <3>1, <3>3, Zenon
      <4> HIDE DEF pdis
      <4> QED
        BY <1>1, <3>3, <4>1
    <3> QED
      BY <1>2, <3>1, <3>2, <3>4, Zenon
  <2>3. CASE pdis = {}
    <3>1. ~Reloaded
      BY <1>4, <2>3, Zenon
    <3> QED
      BY <1>6, <2>1, <2>3, <3>1, Zenon
  <2>4. CASE pdis # {}
    <3>1. Reloaded
      BY <1>4, <2>4, Zenon
    <3>2. known => board.loaded = l
      BY <1>6, <2>2, <3>1, Zenon
    <3> HIDE DEF known
    <3> QED
      BY <2>1, <2>4, <3>2, Zenon
  <2> QED
    BY <2>3, <2>4, Zenon
<1> QED
  BY <1>7, <1>8, Zenon

\* The result: the device believes what the completions say.
LEMMA JudgeLoaded ==
  ASSUME LinkInv, DeliveryInv, LoadedInv, NEW c \in Callers, Judge(c)
  PROVE  LoadedInv'
<1>1. plan[c].pc = "judge" /\ fw' = fw /\ board' = board /\ win' = win /\ Holds(c)
  BY Zenon DEF Judge, At, card, Holds
<1>2. sub'.poisoned = sub.poisoned /\ DevType /\ Finishing(c)
  BY Zenon DEF LinkInv, Types, SubType, Judge, DeliveryInv
<1>3. /\ \A d \in Callers \ {c} : plan'[d] = plan[d]
      /\ plan'[c].pc = "join"
  BY Zenon DEF LinkInv, Types, PlanType, PlanRecord, Judge, Go
<1>4. log'.bell = log.bell
  <2>1. PICK ok, e : Verdict(c, ok, e)
    BY JudgeResult, Zenon
  <2> QED
    BY <2>1, Zenon DEF Verdict, LinkInv, Types, LogType
<1>5. BoardType' /\ (fw.pc = "kernel" => ~Loads(fw.k))'
  BY <1>1, <1>4, Zenon DEF LoadedInv, BoardType, Loads
<1>6. CASE sub.poisoned
  BY <1>2, <1>5, <1>6, Zenon DEF LoadedInv
<1>7. CASE ~sub.poisoned
  <2>1. Open' = 0
    <3>1. Known'
      BY JudgeDelivers, Zenon DEF DeliveryInv
    <3>2. ASSUME NEW d \in Callers PROVE ~(plan'[d].rung /\ Launching(d)')
      <4>1. CASE d = c
        BY <1>3, <4>1, Zenon DEF Launching
      <4>2. CASE d # c
        BY <1>1, <1>3, <4>2, OthersOutside, Zenon
      <4> QED
        BY <4>1, <4>2, Zenon
    <3> QED
      BY <1>2, <1>7, <3>1, <3>2, Zenon DEF Known, Open
  <2>2. dev'.active = Reconciled(c, IF plan[c].rung /\ ~plan[c].lost THEN sub.pending ELSE <<>>)
    <3>1. dev' = [dev EXCEPT
            !.active = Reconciled(c, IF plan[c].rung /\ ~plan[c].lost THEN sub.pending ELSE <<>>),
            !.poisoned = dev'.poisoned]
      BY <1>2, Zenon DEF Judge, DevType
    <3> QED
      BY <1>2, <3>1, Zenon DEF DevType
  <2>3. dev'.active # 0 => board.loaded = dev'.active
    <3>1. CASE plan[c].rung
      BY <1>1, <1>2, <1>7, <2>2, <3>1, ReconciledKnown, Zenon DEF Finishing
    <3>2. CASE ~plan[c].rung
      <4>1. dev'.active = dev.active
        BY <2>2, <3>2, Zenon DEF Reconciled
      <4>2. Open = 0
        <5> SUFFICES ASSUME log.bell # 0, log.result[log.bell] = NoResult PROVE FALSE
          BY <1>7, Zenon DEF Open
        <5>1. PICK d \in Callers : plan[d].rung
          BY Zenon DEF DeliveryInv, Known
        <5> QED
          BY <1>1, <3>2, <5>1, OthersOutside, Zenon
      <4> QED
        BY <1>7, <4>1, <4>2, Zenon DEF LoadedInv
    <3> QED
      BY <3>1, <3>2, Zenon
  <2> QED
    BY <1>1, <1>5, <2>1, <2>3, Zenon DEF LoadedInv
<1> QED
  BY <1>6, <1>7, Zenon

LEMMA InitLoaded == Init => LoadedInv
<1> SUFFICES ASSUME Init PROVE LoadedInv
  BY Zenon
<1>1. /\ board = [loaded |-> 0, kernels |-> {}] /\ fw.pc \in {"boot", "idle"}
      /\ dev.active = 0 /\ log.bell = 0
  BY DEF Init
<1>2. Open = 0 /\ BoardType
  BY <1>1, Zenon DEF Open, BoardType, Numbers
<1> QED
  BY <1>1, <1>2, Zenon DEF LoadedInv

LEMMA NextLoaded ==
  ASSUME LinkInv, DeliveryInv, LoadedInv, [Next]_vars
  PROVE  LoadedInv'
<1>1. CASE Firmware \/ Restart \/ KernelFinishes
  BY <1>1, RestLoaded, RecordLoaded, ActivateLoaded, Zenon DEF Firmware
<1>2. ASSUME NEW c \in Callers, Caller(c) \/ Worker(c) \/ Expire(c) PROVE LoadedInv'
  BY <1>2, CallerLoaded, ExpireLoaded, DoorbellLoaded, JudgeLoaded, Zenon
<1>3. CASE UNCHANGED vars
  <2>1. UNCHANGED <<win, fw, board, sub, dev, log>>
    BY <1>3, Zenon DEF vars
  <2>2. Sent' = Sent /\ BoardType'
    BY <2>1, Zenon DEF Sent, Ended, Quiet, LoadedInv, BoardType
  <2>3. Tried' = Tried
    BY <2>1, <2>2, Zenon DEF Tried
  <2>4. LoadFailed' = LoadFailed
    BY <2>1, <2>3, Zenon DEF LoadFailed, Loads
  <2> QED
    BY <2>1, <2>2, <2>3, <2>4, LoadedKept, Zenon
<1> QED
  BY <1>1, <1>2, <1>3, Zenon DEF Next

\* Between launches, whatever succeeded, failed or was lost before, an image the device
\* believes active is the image loaded (reconcileImageSideEffects).
THEOREM ActiveKnown == Spec => []ActiveImageKnown
<1>1. Spec => []LoadedInv
  BY InitLoaded, NextLoaded, LinkInvariant, CompletionsDelivered, PTL DEF Spec
<1>2. DeliveryInv /\ LoadedInv => ActiveImageKnown
  <2> SUFFICES ASSUME DeliveryInv, LoadedInv, dev.active # 0, ~sub.poisoned,
                      \A c \in Callers : ~plan[c].rung
               PROVE  board.loaded = dev.active
    BY Zenon DEF ActiveImageKnown
  <2>1. Open = 0
    BY Zenon DEF Open, DeliveryInv, Known
  <2> QED
    BY <2>1, Zenon DEF LoadedInv
<1> QED
  BY <1>1, <1>2, CompletionsDelivered, PTL
=============================================================================

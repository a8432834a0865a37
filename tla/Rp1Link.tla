------------------------------ MODULE Rp1Link ------------------------------
(***************************************************************************)
(* Launching images on RP1 through the shared window, at the grain of      *)
(* single BAR accesses: FpgaDevicePlan::launch and wait with the execution *)
(* lease and the launch pins (fpga_device.cpp), Rp1Submitter               *)
(* (rp1_submitter.cpp), and the firmware's start-up, outer loop, ring      *)
(* producer and publication order (rp1_run.c, rp1_store.c, rp1_loop.c).    *)
(*                                                                         *)
(* Launches are numbered and the image of a launch is known by its number. *)
(* A caller is the owner of an Execution: it leases the device, launches   *)
(* any number of times and gives the lease back.  Words count modulo       *)
(* WordWrap.  The host's deadline may pass at any moment, and the firmware *)
(* may start over as long as no doorbell was rung.                         *)
(*                                                                         *)
(* Left out: the argument bytes and signals an image carries, the trace    *)
(* ring, the version words, which a matching firmware always publishes,    *)
(* and HALTED, which the host treats as ERROR.                             *)
(***************************************************************************)
EXTENDS Naturals, Sequences, Functions

CONSTANTS
  Callers,
  Launches,      \* bound: the launches of one behaviour, numbered
  ImageOf,       \* their images: packets, and cq_size_override or 0
  WordWrap,      \* 2^32
  CqSize,        \* the submitter's cq_size
  MaxCqSize,     \* RP1_MAX_CQ_ENTRIES
  Starts         \* where words may stand at first, and bound: restarts then

PacketKinds == {"pdi", "kernel", "signal"}

isValidCqSize(n) == n \in {m \in 1..MaxCqSize : \E k \in 0..m : m = 2^k}

\* The constructor of Rp1Submitter refuses another CqSize; a ring's length, a
\* power of two, divides the range of a word.
ASSUME LinkAssumption ==
  /\ Launches \subseteq Nat \ {0}
  /\ \A l \in Launches : /\ ImageOf[l].packets \in Seq(PacketKinds) \ {<<>>}
                          /\ ImageOf[l].size \in Nat
  /\ WordWrap \in Nat /\ MaxCqSize \in Nat /\ MaxCqSize < WordWrap
  /\ isValidCqSize(CqSize)
  /\ \A n \in 1..MaxCqSize : isValidCqSize(n) => WordWrap % n = 0
  /\ \A s \in Starts : s.word \in 0..(WordWrap - 1) /\ s.restarts \in Nat

VARIABLES
  win,      \* the control block and the staged image
  ring,     \* the completion ring
  fw,       \* the firmware
  board,    \* the image loaded, and the launches whose kernel may be running
  sub,      \* the Rp1Submitter
  dev,      \* the FpgaDevice
  plan,     \* per caller: its FpgaDevicePlan and where its worker is
  log       \* results, the last doorbell, launches worked through; restarts left

vars == <<win, ring, fw, board, sub, dev, plan, log>>

Minus(a, b) == (a + WordWrap - b) % WordWrap
Plus1(a) == (a + 1) % WordWrap

Evidence(l) ==
  [k \in DOMAIN ImageOf[l].packets |-> [launch |-> l, packet |-> k, status |-> "ok"]]

NoResult == [out |-> "none", evidence |-> <<>>]
NoRecord == [launch |-> 0, packet |-> 0, status |-> "ok"]

IdlePlan ==
  [pc |-> "none", l |-> 0, site |-> "pre", end |-> 0, i |-> 0, want |-> 0,
   rung |-> FALSE, err |-> FALSE, lost |-> FALSE, pinned |-> FALSE]

\* A card just powered on, or one long in service that a new process opens.
Init ==
  \E s \in Starts :
    /\ win = [magic |-> s.word # 0, state |-> IF s.word = 0 THEN "INIT" ELSE "READY",
              seq |-> s.word, done |-> s.word, size |-> CqSize, wr |-> s.word, rd |-> s.word,
              nodes |-> 0, args |-> 0, count |-> 0, sentinel |-> FALSE]
    /\ ring = [i \in 0..(MaxCqSize - 1) |-> NoRecord]
    /\ fw = [pc |-> IF s.word = 0 THEN "boot" ELSE "idle", seq |-> 0, img |-> 0, n |-> 0,
             k |-> 0, status |-> "ok", failed |-> FALSE]
    /\ board = [loaded |-> 0, kernels |-> {}]
    /\ sub = [ready |-> FALSE, size |-> CqSize, cursor |-> 0, pending |-> <<>>,
              poisoned |-> FALSE, active |-> FALSE]
    /\ dev = [leased |-> FALSE, poisoned |-> FALSE, active |-> 0, quarantine |-> {}]
    /\ plan = [c \in Callers |-> IdlePlan]
    /\ log = [result |-> [l \in Launches |-> NoResult], bell |-> 0, finished |-> {},
              spare |-> s.restarts]

----------------------------------------------------------------------------
(* The firmware.                                                           *)

host == <<sub, dev, plan>>

FwGo(from, to) == fw.pc = from /\ fw' = [fw EXCEPT !.pc = to]

\* rp1_run() up to the outer loop: magic is withdrawn first and published last.
Boot ==
  /\ \/ FwGo("boot", "boot_init") /\ win' = [win EXCEPT !.magic = FALSE]
     \/ FwGo("boot_init", "boot_done") /\ win' = [win EXCEPT !.state = "INIT"]
     \/ FwGo("boot_done", "boot_cq") /\ win' = [win EXCEPT !.done = 0]
     \/ FwGo("boot_cq", "boot_ready") /\ win' = [win EXCEPT !.wr = 0]
     \/ FwGo("boot_ready", "boot_magic") /\ win' = [win EXCEPT !.state = "READY"]
     \/ FwGo("boot_magic", "idle") /\ win' = [win EXCEPT !.magic = TRUE]
  /\ UNCHANGED <<ring, board, host, log>>

\* ERROR is reset-only; otherwise a sequence that is not the last one done is
\* accepted.
Accept ==
  /\ fw.pc = "idle" /\ win.state # "ERROR" /\ win.seq # win.done
  /\ fw' = [fw EXCEPT !.pc = "accepted", !.seq = win.seq]
  /\ UNCHANGED <<win, ring, board, host, log>>

SetRunning ==
  /\ FwGo("accepted", "config")
  /\ win' = [win EXCEPT !.state = "RUNNING"]
  /\ UNCHANGED <<ring, board, host, log>>

Used == Minus(win.wr, win.rd)

ConfigOK == /\ win.count # 0
            /\ isValidCqSize(win.size)
            /\ Used <= win.size

\* rp1_store_init.
StoreInit ==
  /\ fw.pc = "config"
  /\ fw' = IF ConfigOK
           THEN [fw EXCEPT !.pc = "packet", !.img = win.nodes, !.k = 1, !.failed = FALSE,
                           !.n = Len(ImageOf[win.count].packets)]
           ELSE [fw EXCEPT !.pc = "publish", !.failed = TRUE]
  /\ UNCHANGED <<win, ring, board, host, log>>

\* The packets are read from the window as the scanner comes to them.
Packet == IF win.nodes # 0 /\ fw.k \in DOMAIN ImageOf[win.nodes].packets
          THEN ImageOf[win.nodes].packets[fw.k] ELSE "signal"

FwFails == fw' = [fw EXCEPT !.pc = "publish", !.failed = TRUE]

\* The last packet of an image is the SIGNAL that raises the lifecycle sentinel.
Dispatch ==
  /\ win' = [win EXCEPT !.sentinel = @ \/ fw.k = fw.n]
  /\ \/ /\ Packet = "kernel"
        /\ board' = [board EXCEPT !.kernels = @ \cup {fw.img}]
        /\ fw' = [fw EXCEPT !.pc = "kernel"]
     \/ /\ Packet = "kernel"                   \* refused: another image is active
        /\ fw' = [fw EXCEPT !.pc = "record", !.status = "error"]
        /\ UNCHANGED board
     \/ /\ Packet = "pdi"
        /\ \E ok \in BOOLEAN :
             /\ board' = [board EXCEPT !.loaded = IF ok THEN fw.img ELSE 0]
             /\ fw' = [fw EXCEPT !.pc = "record", !.status = IF ok THEN "ok" ELSE "error"]
     \/ /\ Packet = "signal"
        /\ fw' = [fw EXCEPT !.pc = "record", !.status = "ok"]
        /\ UNCHANGED board

\* activate_nodes(): a full ring holds it back, and cursors further apart than
\* the ring is long are fatal.
Activate ==
  /\ fw.pc = "packet" /\ fw.k <= fw.n /\ Used # win.size
  /\ IF Used > win.size THEN FwFails /\ UNCHANGED <<win, board>> ELSE Dispatch
  /\ UNCHANGED <<ring, host, log>>

\* check_inflight(): the kernel has finished, or its deadline has passed.
CheckInflight ==
  /\ fw.pc = "kernel" /\ Used # win.size
  /\ IF Used > win.size THEN FwFails
     ELSE fw' = [fw EXCEPT !.pc = "record",
                           !.status = IF fw.img \in board.kernels THEN "timeout" ELSE "ok"]
  /\ UNCHANGED <<win, ring, board, host, log>>

\* write_cq_entry: the slot, then the cursor that hands it over.
WriteRecord ==
  /\ FwGo("record", "bump")
  /\ ring' = [ring EXCEPT ![win.wr % win.size] =
                [launch |-> win.nodes, packet |-> fw.k, status |-> fw.status]]
  /\ UNCHANGED <<win, board, host, log>>

BumpCursor ==
  /\ fw.pc = "bump"
  /\ win' = [win EXCEPT !.wr = Plus1(@)]
  /\ fw' = IF fw.status = "ok" THEN [fw EXCEPT !.pc = "packet", !.k = @ + 1]
           ELSE [fw EXCEPT !.pc = "publish", !.failed = TRUE]
  /\ UNCHANGED <<ring, board, host, log>>

Complete ==
  /\ fw.pc = "packet" /\ fw.k > fw.n
  /\ fw' = [fw EXCEPT !.pc = "publish"]
  /\ log' = [log EXCEPT !.finished = @ \cup {fw.img}]
  /\ UNCHANGED <<win, ring, board, host>>

PublishState ==
  /\ FwGo("publish", "publish_done")
  /\ win' = [win EXCEPT !.state = IF fw.failed THEN "ERROR" ELSE "READY"]
  /\ UNCHANGED <<ring, board, host, log>>

PublishDone ==
  /\ FwGo("publish_done", "idle")
  /\ win' = [win EXCEPT !.done = fw.seq]
  /\ UNCHANGED <<ring, board, host, log>>

Firmware ==
  \/ Boot \/ Accept \/ SetRunning \/ StoreInit \/ Activate \/ CheckInflight
  \/ WriteRecord \/ BumpCursor \/ Complete \/ PublishState \/ PublishDone

\* The firmware starts over while nothing was ever handed to it.  One that
\* starts over later is for a reset of the card: the host has no way back.
Restart ==
  /\ log.spare > 0 /\ win.seq = 0 /\ log.bell = 0
  /\ log' = [log EXCEPT !.spare = @ - 1]
  /\ fw' = [fw EXCEPT !.pc = "boot"]
  /\ UNCHANGED <<win, ring, board, host>>

KernelFinishes ==
  /\ \E l \in board.kernels : board' = [board EXCEPT !.kernels = @ \ {l}]
  /\ UNCHANGED <<win, ring, fw, host, log>>

----------------------------------------------------------------------------
(* The launch worker and the submitter.                                    *)

card == <<fw, board>>

At(c, pc) == plan[c].pc = pc
Go(c, pc) == plan' = [plan EXCEPT ![c].pc = pc]

\* leaseExecution up to the exchange: a poisoned submitter poisons the device.
LeaseCheck(c) ==
  /\ At(c, "none")
  /\ dev' = [dev EXCEPT !.poisoned = @ \/ sub.poisoned]
  /\ IF dev.poisoned \/ sub.poisoned THEN UNCHANGED plan ELSE Go(c, "lease")
  /\ UNCHANGED <<win, ring, card, sub, log>>

LeaseTake(c) ==
  /\ At(c, "lease")
  /\ dev' = [dev EXCEPT !.leased = TRUE]
  /\ Go(c, IF dev.leased THEN "none" ELSE "leased")
  /\ UNCHANGED <<win, ring, card, sub, log>>

\* ~FpgaExecutionLease: a poisoned device stays leased.
Release(c) ==
  /\ At(c, "leased")
  /\ dev' = [dev EXCEPT !.leased = dev.poisoned]
  /\ Go(c, "none")
  /\ UNCHANGED <<win, ring, card, sub, log>>

\* launch(): the worker starts, having resolved, and pinned, its buffers.
Launch(c) ==
  /\ At(c, "leased") /\ ~dev.poisoned
  /\ \E l \in Launches :
       /\ log.result[l] = NoResult
       /\ plan' = [plan EXCEPT ![c] = [IdlePlan EXCEPT !.pc = "enter", !.l = l, !.pinned = TRUE]]
  /\ UNCHANGED <<win, ring, card, sub, dev, log>>

\* An exception leaves submitAndWait; once rung, what the ring holds is drained.
Throw(c) ==
  /\ sub' = [sub EXCEPT !.active = FALSE]
  /\ plan' = [plan EXCEPT ![c].err = TRUE, ![c].site = "raw",
                          ![c].pc = IF plan[c].rung THEN "drain" ELSE "judge"]

\* requireUsable and the claim; the handshake is only run the first time.
Enter(c) ==
  /\ At(c, "enter")
  /\ IF sub.poisoned \/ sub.active
     THEN /\ plan' = [plan EXCEPT ![c].err = TRUE, ![c].pc = "judge"]
          /\ UNCHANGED sub
     ELSE /\ sub' = [sub EXCEPT !.active = TRUE]
          /\ Go(c, IF sub.ready THEN "preflight" ELSE "magic")
  /\ UNCHANGED <<win, ring, card, dev, log>>

\* waitForMagic and waitForState: the polls that end the wait.
AwaitMagic(c) ==
  /\ At(c, "magic") /\ win.magic
  /\ Go(c, "await")
  /\ UNCHANGED <<win, ring, card, sub, dev, log>>

AwaitReady(c) ==
  /\ At(c, "await") /\ win.state = "READY"
  /\ Go(c, "hs_size")
  /\ UNCHANGED <<win, ring, card, sub, dev, log>>

HandshakeFails(c) ==
  /\ \/ At(c, "magic") /\ ~win.magic
     \/ At(c, "await") /\ win.state # "READY"
  /\ Throw(c)
  /\ UNCHANGED <<win, ring, card, dev, log>>

\* ensureReady: the ring's length, the producer's cursor, the host's own.
Handshake(c) ==
  /\ \/ /\ At(c, "hs_size") /\ Go(c, "hs_read")
        /\ win' = [win EXCEPT !.size = sub.size]
        /\ UNCHANGED sub
     \/ /\ At(c, "hs_read") /\ Go(c, "hs_write")
        /\ sub' = [sub EXCEPT !.cursor = win.wr]
        /\ UNCHANGED win
     \/ /\ At(c, "hs_write") /\ Go(c, "preflight")
        /\ win' = [win EXCEPT !.rd = sub.cursor]
        /\ sub' = [sub EXCEPT !.pending = <<>>, !.ready = TRUE]
  /\ UNCHANGED <<ring, card, dev, log>>

Preflight(c) ==
  /\ At(c, "preflight")
  /\ IF win.state = "READY"
     THEN /\ plan' = [plan EXCEPT ![c].pc = "drain", ![c].site = "pre"]
          /\ UNCHANGED sub
     ELSE Throw(c)
  /\ UNCHANGED <<win, ring, card, dev, log>>

AfterDrain == [pre |-> "args", wait |-> "state", last |-> "last", raw |-> "judge"]

\* Mutant: the room is given back before the records are copied.
DrainReadFrees(c) ==
  /\ At(c, "drain")
  /\ IF Minus(win.wr, sub.cursor) <= sub.size
     THEN /\ plan' = [plan EXCEPT ![c].pc = "copy", ![c].end = win.wr, ![c].i = sub.cursor]
          /\ win' = [win EXCEPT !.rd = win.wr]
          /\ UNCHANGED sub
     ELSE Throw(c) /\ UNCHANGED win
  /\ UNCHANGED <<ring, card, dev, log>>

\* drainAvailableCq: the producer's cursor, ...
DrainRead(c) ==
  /\ At(c, "drain")
  /\ IF Minus(win.wr, sub.cursor) <= sub.size
     THEN /\ plan' = [plan EXCEPT ![c].pc = "copy", ![c].end = win.wr, ![c].i = sub.cursor]
          /\ UNCHANGED sub
     ELSE IF plan[c].site = "raw"
     THEN /\ plan' = [plan EXCEPT ![c].pc = "judge", ![c].lost = TRUE]
          /\ UNCHANGED sub
     ELSE Throw(c)
  /\ UNCHANGED <<win, ring, card, dev, log>>

\* ... each record up to it, ...
DrainCopy(c) ==
  /\ At(c, "copy") /\ plan[c].i # plan[c].end
  /\ sub' = [sub EXCEPT !.pending = Append(@, ring[plan[c].i % sub.size])]
  /\ plan' = [plan EXCEPT ![c].i = Plus1(@)]
  /\ UNCHANGED <<win, ring, card, dev, log>>

\* ... and only then the consumer's cursor.
DrainWrite(c) ==
  /\ At(c, "copy") /\ plan[c].i = plan[c].end
  /\ win' = [win EXCEPT !.rd = plan[c].end]
  /\ sub' = [sub EXCEPT !.cursor = plan[c].end,
                        !.pending = IF plan[c].site = "pre" THEN <<>> ELSE @]
  /\ Go(c, AfterDrain[plan[c].site])
  /\ UNCHANGED <<ring, card, dev, log>>

\* Staging: arguments and cleared signals, nodes, node_count.
Stage(c) ==
  /\ \/ /\ At(c, "args") /\ Go(c, "nodes")
        /\ win' = [win EXCEPT !.args = plan[c].l, !.sentinel = FALSE]
     \/ /\ At(c, "nodes") /\ Go(c, "count")
        /\ win' = [win EXCEPT !.nodes = plan[c].l]
     \/ /\ At(c, "count")
        /\ win' = [win EXCEPT !.count = plan[c].l]
        /\ plan' = [plan EXCEPT ![c].want = Plus1(win.seq),
                     ![c].pc = IF ImageOf[plan[c].l].size = 0 THEN "ring" ELSE "size"]
  /\ UNCHANGED <<ring, card, sub, dev, log>>

\* cq_size_override stays in force for the submissions that follow.
Override(c) ==
  /\ At(c, "size")
  /\ IF isValidCqSize(ImageOf[plan[c].l].size)
     THEN /\ sub' = [sub EXCEPT !.size = ImageOf[plan[c].l].size]
          /\ win' = [win EXCEPT !.size = ImageOf[plan[c].l].size]
          /\ Go(c, "ring")
     ELSE Throw(c) /\ UNCHANGED win
  /\ UNCHANGED <<ring, card, dev, log>>

\* The doorbell: the one write that hands the staged image to RP1.
Doorbell(c) ==
  /\ At(c, "ring")
  /\ win' = [win EXCEPT !.seq = plan[c].want]
  /\ plan' = [plan EXCEPT ![c].pc = "drain", ![c].site = "wait", ![c].rung = TRUE]
  /\ log' = [log EXCEPT !.bell = plan[c].l]
  /\ UNCHANGED <<ring, card, sub, dev>>

\* waitForGraphDone: the state after each drain, ...
PollState(c) ==
  /\ At(c, "state")
  /\ IF win.state = "ERROR" THEN Throw(c) ELSE Go(c, "done") /\ UNCHANGED sub
  /\ UNCHANGED <<win, ring, card, dev, log>>

\* Mutant: the ring is not drained between two polls.
PollDoneOnly(c) ==
  /\ At(c, "done")
  /\ plan' = IF win.done = plan[c].want
             THEN [plan EXCEPT ![c].pc = "drain", ![c].site = "last"]
             ELSE [plan EXCEPT ![c].pc = "state"]
  /\ UNCHANGED <<win, ring, card, sub, dev, log>>

\* ... then graph_done_seq, with a last drain once it is the one awaited.
PollDone(c) ==
  /\ At(c, "done")
  /\ plan' = [plan EXCEPT ![c].pc = "drain",
                          ![c].site = IF win.done = plan[c].want THEN "last" ELSE "wait"]
  /\ UNCHANGED <<win, ring, card, sub, dev, log>>

\* Mutant: a timeout is an error like any other.
ExpireUnpoisoned(c) ==
  /\ At(c, "done") /\ win.done # plan[c].want
  /\ Throw(c)
  /\ UNCHANGED <<win, ring, card, dev, log>>

\* The deadline has passed: the doorbell cannot be taken back.
Expire(c) ==
  /\ At(c, "done") /\ win.done # plan[c].want
  /\ plan' = [plan EXCEPT ![c].err = TRUE, ![c].site = "raw", ![c].pc = "drain"]
  /\ sub' = [sub EXCEPT !.active = FALSE, !.poisoned = TRUE]
  /\ UNCHANGED <<win, ring, card, dev, log>>

\* The state once more, and the drain of drainCqRaw follows.
LastState(c) ==
  /\ At(c, "last")
  /\ IF win.state = "ERROR" THEN Throw(c)
     ELSE /\ sub' = [sub EXCEPT !.active = FALSE]
          /\ plan' = [plan EXCEPT ![c].pc = "drain", ![c].site = "raw"]
  /\ UNCHANGED <<win, ring, card, dev, log>>

\* A completion that names no packet of the image.
Foreign(l, cq) == \E i \in DOMAIN cq : cq[i].packet \notin DOMAIN ImageOf[l].packets

AllOK(cq) == \A i \in DOMAIN cq : cq[i].status = "ok"

\* Mutant: a failed reconfiguration leaves the old image in place.
ReconciledOnSuccess(c, cq) ==
  LET packets == ImageOf[plan[c].l].packets
      pdis    == {i \in DOMAIN cq : packets[cq[i].packet] = "pdi" /\ cq[i].status = "ok"}
  IN  IF pdis = {} THEN dev.active ELSE plan[c].l

\* reconcileImageSideEffects: what the completions say of the image loaded.
Reconciled(c, cq) ==
  LET packets == ImageOf[plan[c].l].packets
      pdis    == {i \in DOMAIN cq : packets[cq[i].packet] = "pdi"}
      unsure  == plan[c].lost \/ (plan[c].err /\ (sub.poisoned \/ AllOK(cq)))
  IN  CASE ~plan[c].rung \/ "pdi" \notin Range(packets) -> dev.active
        [] OTHER -> IF unsure \/ Foreign(plan[c].l, cq) THEN 0
                    ELSE IF pdis = {} THEN dev.active
                    ELSE IF \E i \in pdis : cq[i].status = "ok" /\ \A j \in pdis : j <= i
                         THEN plan[c].l ELSE 0

\* The end of the worker: evidence, image, statuses, sentinel, poison.
Judge(c) ==
  /\ At(c, "judge")
  /\ LET cq == IF plan[c].rung /\ ~plan[c].lost THEN sub.pending ELSE <<>>
         ok == /\ ~plan[c].err /\ ~plan[c].lost /\ ~Foreign(plan[c].l, cq) /\ AllOK(cq)
               /\ win.sentinel
     IN  /\ log' = [log EXCEPT !.result[plan[c].l] =
                      [out |-> IF ok THEN "ok" ELSE "error", evidence |-> IF ok THEN cq ELSE <<>>]]
         /\ dev' = [dev EXCEPT !.active = Reconciled(c, cq),
                               !.poisoned = @ \/ (~ok /\ sub.poisoned)]
  /\ sub' = [sub EXCEPT !.pending = IF plan[c].rung /\ ~plan[c].lost THEN <<>> ELSE @]
  /\ Go(c, "join")
  /\ UNCHANGED <<win, ring, card>>

\* wait(): the pins of a poisoned launch go to the device's quarantine.
Join(c) ==
  /\ At(c, "join")
  /\ dev' = [dev EXCEPT !.quarantine = IF dev.poisoned THEN @ \cup {plan[c].l} ELSE @]
  /\ plan' = [plan EXCEPT ![c] = [IdlePlan EXCEPT !.pc = "leased"]]
  /\ UNCHANGED <<win, ring, card, sub, log>>

\* The steps of a launch that is under way.
Worker(c) ==
  \/ Enter(c) \/ AwaitMagic(c) \/ AwaitReady(c) \/ HandshakeFails(c) \/ Handshake(c)
  \/ Preflight(c) \/ DrainRead(c) \/ DrainCopy(c) \/ DrainWrite(c) \/ Stage(c) \/ Override(c)
  \/ Doorbell(c) \/ PollState(c) \/ PollDone(c) \/ LastState(c) \/ Judge(c) \/ Join(c)

Caller(c) == LeaseCheck(c) \/ LeaseTake(c) \/ Launch(c) \/ Release(c)

Next ==
  \/ Firmware \/ Restart \/ KernelFinishes
  \/ \E c \in Callers : Caller(c) \/ Worker(c) \/ Expire(c)

\* Threads and the firmware's loop are scheduled; no kernel is assumed to
\* finish, and no deadline of the host to pass.
Fairness == WF_vars(Firmware) /\ \A c \in Callers : WF_vars(Worker(c))

Spec == Init /\ [][Next]_vars /\ Fairness

----------------------------------------------------------------------------
(* Properties.                                                             *)

Scanning == {"packet", "kernel", "record", "bump"}

\* What launching promises (Rp1Contract), read off this state: the image whose
\* doorbell was rung last is open until its result is known, and for ever once
\* the submitter is poisoned.
Contract == INSTANCE Rp1Contract WITH
  open     <- IF log.bell # 0 /\ (sub.poisoned \/ log.result[log.bell] = NoResult)
              THEN log.bell ELSE 0,
  hw       <- IF fw.pc \in Scanning THEN fw.img ELSE 0,
  finished <- log.finished,
  result   <- log.result,
  retired  <- sub.poisoned

\* The window protocol implements the contract of launching: one image at a
\* time, worked through by the firmware and left alone by it before the host
\* reports success, with exactly that image's completions in order as evidence;
\* after a timeout nothing is ever handed over again (submitAndWait, rp1_run).
Implements == Contract!Spec

\* While the firmware works through an image, the arguments, the packets and
\* their number in the window are all of that image (submitAndWait stages
\* before the doorbell and not after it, whatever restarts or times out).
ImageIntact ==
  fw.pc \in Scanning => win.args = fw.img /\ win.nodes = fw.img /\ win.count = fw.img

\* Between launches an image the device believes active is the image loaded,
\* so a dispatch it lets through meets its own kernels
\* (reconcileImageSideEffects).
ActiveImageKnown ==
  dev.active # 0 /\ (\A c \in Callers : ~plan[c].rung) /\ ~sub.poisoned =>
    board.loaded = dev.active

\* Every launch comes to a result, without the host's deadline and though no
\* kernel need ever finish: the firmware's own kernel deadline and the drains
\* of the wait loop suffice (waitForGraphDone, check_inflight).
LaunchEnds ==
  \A c \in Callers : At(c, "enter") ~> At(c, "leased")

\* A kernel that may still be running has its buffers pinned by the launch or
\* held in the device's quarantine (wait, quarantineLaunchPins).
PinsHeld ==
  \A l \in board.kernels :
    l \in dev.quarantine \/ \E c \in Callers : plan[c].l = l /\ plan[c].pinned
=============================================================================

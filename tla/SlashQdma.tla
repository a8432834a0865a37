------------------------------ MODULE SlashQdma ------------------------------
(***************************************************************************)
(* The QDMA function of the kernel module (slash_qdma.c): PF1.             *)
(*                                                                         *)
(* Objects are numbered by creation and never reused, so that "freed" is a *)
(* reference count of 0 and a use after free is a reference to such an     *)
(* object.                                                                 *)
(*   qdev[i]    struct slash_qdma_dev of the i-th probe.  "bound" is the   *)
(*              reference of the PCI binding, "opens" the open files of    *)
(*              /dev/slash_qdma_ctl<N>, "qpairs" the xarray (0: no entry), *)
(*              "queues" libqdma's state of every queue of the handle; an  *)
(*              "orphan" is an enabled queue that ADD failed to remove     *)
(*              when it undid itself.                                      *)
(*   entries[e] struct slash_qdma_qpair_entry.                             *)
(*   qfds[f]    a queue pair fd and its struct slash_qdma_qpair_file_ctx.  *)
(*   bufs[b]    struct slash_qdma_buf, its fd and its VMAs.                *)
(*   xfers[x]   a thread in the TRANSFER ioctl, or an io_uring command.    *)
(*                                                                         *)
(* What runs under qdma_dev->lock is one action.  A transfer is not: it    *)
(* copies the queue handle under the lock and submits after it.            *)
(***************************************************************************)
EXTENDS SlashBoard

CONSTANTS
    MaxQpairs,     \* SLASH_QDMA_MAX_QPAIRS
    Fds, NoFd,     \* queue pair fds, and no fd
    Xfers,         \* transfers that can be under way at once
    QdmaFaults,    \* the libqdma and kernel calls that may fail
    MaxQdmaProbes, \* bound: probes of PF1
    MaxEntries,    \* bound: queue pair entries ever allocated
    MaxBufs,       \* bound: buffers ever created
    MaxVmas,       \* bound: mappings of one buffer
    MaxOpens       \* bound: open files of one control node

\* enum queue_type_t, in the order every loop over the directions takes.
TypeOrder == <<"h2c", "c2h", "cmpt">>

QueueTypes == {TypeOrder[k] : k \in DOMAIN TypeOrder}

Before(t, u) == \E j, k \in DOMAIN TypeOrder : j < k /\ TypeOrder[j] = t /\ TypeOrder[k] = u

QueueFaults == {"add", "config", "start", "stop", "query", "remove", "submit"}

ASSUME QdmaAssumption ==
    /\ MaxQpairs \in Nat \ {0}
    /\ QdmaFaults \subseteq QueueFaults
    /\ IsFiniteSet(Fds) /\ IsFiniteSet(Xfers)
    /\ \A n \in {MaxQdmaProbes, MaxEntries, MaxBufs, MaxVmas, MaxOpens} : n \in Nat

VARIABLES qdev, entries, qfds, bufs, xfers

qdmaVars == <<qdev, entries, qfds, bufs, xfers>>

Qids == 0..(MaxQpairs - 1)

\* QDMA_QUEUE_IDX_INVALID.  A valid handle is the queue's index, which with
\* the type names the queue: libqdma gives the index out again once the queue
\* has been removed.
Invalid == MaxQpairs

\* SLASH_QDMA_FD_MAX_QPAIRS.
FdMaxQpairs == 2

ClosedFd == [open |-> FALSE, dev |-> 0, ents |-> <<>>]

IdleXfer ==
    [pc |-> "idle", kind |-> "ioctl", fd |-> NoFd, count |-> 0, prep |-> <<>>,
     outstanding |-> 0]

QdmaInit ==
    /\ qdev = <<>>
    /\ entries = <<>>
    /\ qfds = [f \in Fds |-> ClosedFd]
    /\ bufs = <<>>
    /\ xfers = [x \in Xfers |-> IdleXfer]

----------------------------------------------------------------------------
(* Reference counts. *)

PutDev(devs, i) == [devs EXCEPT ![i].ref = @ - 1]

\* slash_qdma_qpair_put for every element of a sequence of entries.
PutEntries(ents, es) ==
    [e \in DOMAIN ents |->
        [ents[e] EXCEPT !.ref = @ - Cardinality({k \in DOMAIN es : es[k] = e})]]

\* slash_qdma_buf_put, n[b] times for each buffer b; slash_qdma_buf_release of
\* the ones whose last reference goes drops their device reference.
PutBufs(n) ==
    LET freed == {b \in DOMAIN bufs : n[b] > 0 /\ bufs[b].ref = n[b]}
    IN  /\ bufs' = [b \in DOMAIN bufs |-> [bufs[b] EXCEPT !.ref = @ - n[b]]]
        /\ qdev' = [i \in DOMAIN qdev |->
                      [qdev[i] EXCEPT !.ref =
                          @ - Cardinality({b \in freed : bufs[b].dev = i})]]

\* The buffer references of prepared sub-transfers.
PreparedOn(prep) ==
    [b \in DOMAIN bufs |-> Cardinality({k \in DOMAIN prep : prep[k].buf = b})]

----------------------------------------------------------------------------
(* libqdma, as this file uses it. *)

\* Stopping a queue ends what is in flight on it with an error, through
\* fp_done for the asynchronous requests.
Aborted(x, i, stopped) ==
    LET hit == {k \in DOMAIN x.prep :
                  /\ x.prep[k].st = "flight"
                  /\ qfds[x.fd].dev = i
                  /\ <<x.prep[k].qhndl, x.prep[k].type>> \in stopped}
    IN  [x EXCEPT
            !.prep = [k \in DOMAIN @ |->
                        IF k \in hit THEN [@[k] EXCEPT !.st = "ended"] ELSE @[k]],
            !.outstanding = IF x.kind = "uring" THEN @ - Cardinality(hit) ELSE @]

Stopping(i, stopped) == xfers' = [x \in Xfers |-> Aborted(xfers[x], i, stopped)]

\* slash_qdma_queue_remove_safe: the state it leaves a queue in, and its
\* result.  It fails where the state cannot be read or is none of the three it
\* knows ("query"), which leaves the queue as it is, where stopping fails, and
\* where the removal fails once the queue is stopped.
RemoveSafe(state) ==
    LET after == (IF "query" \in QdmaFaults THEN {state} ELSE {})
           \cup (IF state = "online" /\ "stop" \in QdmaFaults THEN {"online"} ELSE {})
           \cup (IF state # "disabled" /\ "remove" \in QdmaFaults THEN {"enabled"} ELSE {})
    IN  {[state |-> "disabled", err |-> FALSE]} \cup {[state |-> s, err |-> TRUE] : s \in after}

\* What the removal of some queues can come to.
Removals == [state : {"disabled", "enabled", "online"}, err : BOOLEAN]

\* The directions of an entry an operation visits, and their queues.
Active(e) == {t \in entries[e].dirs : entries[e].qhndl[t] # Invalid}

QueuesOf(e) == {<<entries[e].qhndl[t], t>> : t \in Active(e)}

----------------------------------------------------------------------------
(* Probe. *)

\* slash_qdma_probe: the board slot, qdma_device_open, the two host profiles
\* and the node.  Any failure undoes what was done; the card number stays with
\* the board.
QdmaProbed(b, number) ==
    qdev' = Append(qdev,
        [board |-> b, slot |-> number, shutdown |-> FALSE, handle |-> TRUE,
         cdev |-> TRUE, ref |-> 1, opens |-> 0, bound |-> TRUE,
         qpairs |-> [q \in Qids |-> 0],
         queues |-> [h \in Qids \X QueueTypes |-> "disabled"]])

QdmaProbe(b) ==
    /\ Len(qdev) < MaxQdmaProbes
    /\ LET got == BoardGet(b, QdmaPf)
       IN  /\ ~got.err
           /\ slots' = got.slots
           /\ QdmaProbed(b, got.number)
    /\ UNCHANGED <<entries, qfds, bufs, xfers>>

\* The structure is not allocated, the board slot is refused, or a later step of
\* the probe fails and gives the slot back.
QdmaProbeFails(b) ==
    /\ slots' \in {slots, GivenBack(b, QdmaPf)}
    /\ UNCHANGED qdmaVars

----------------------------------------------------------------------------
(* Remove, in the four parts that the lock separates. *)

\* slash_qdma_destroy_qdma_device, first part: hw_shutdown.
ShutDown(i) ==
    /\ ~qdev[i].shutdown
    /\ qdev' = [qdev EXCEPT ![i].shutdown = TRUE]
    /\ UNCHANGED <<slots, entries, qfds, bufs, xfers>>

\* Second part: the node and the board slot go.
Unpublish(i) ==
    /\ qdev' = [qdev EXCEPT ![i].cdev = FALSE, ![i].slot = 0]
    /\ slots' = BoardPut(qdev[i].board, QdmaPf)
    /\ UNCHANGED <<entries, qfds, bufs, xfers>>

\* slash_qdma_ioctl_qpair_rm_q of an entry whose queues are left as "left" says,
\* and the put of the xarray's reference.
Removed(n, left) ==
    LET gone == {t \in n.dirs : \/ n.qhndl[t] = Invalid
                                \/ ~left[<<n.qhndl[t], t>>].err}
    IN  [n EXCEPT !.ref = @ - 1,
                  !.dirs = @ \ gone,
                  !.qhndl = [t \in QueueTypes |-> IF t \in gone THEN Invalid ELSE @[t]]]

\* Third part, under the lock: every queue of every entry is removed, the
\* entries lose the xarray's reference and libqdma is closed.
TearDown(i) ==
    LET held == {e \in DOMAIN entries : \E q \in Qids : qdev[i].qpairs[q] = e}
        visited == UNION {QueuesOf(e) : e \in held}
    IN  \E left \in [visited -> Removals] :
            /\ \A h \in visited : left[h] \in RemoveSafe(qdev[i].queues[h])
            /\ entries' = [e \in DOMAIN entries |->
                  IF e \in held THEN Removed(entries[e], left) ELSE entries[e]]
            /\ qdev' = [qdev EXCEPT
                  ![i].qpairs = [q \in Qids |-> 0],
                  ![i].handle = FALSE,
                  ![i].queues = [h \in Qids \X QueueTypes |-> "disabled"]]
            /\ Stopping(i, Qids \X QueueTypes)
            /\ UNCHANGED <<slots, qfds, bufs>>

\* slash_qdma_remove: the binding's reference.
Unbind(i) ==
    /\ qdev' = PutDev([qdev EXCEPT ![i].bound = FALSE], i)
    /\ UNCHANGED <<slots, entries, qfds, bufs, xfers>>

----------------------------------------------------------------------------
(* The control node. *)

Live(i) == ~qdev[i].shutdown /\ qdev[i].handle

\* slash_qdma_fop_open.
OpenControl(i) ==
    /\ qdev[i].cdev
    /\ Live(i)
    /\ qdev[i].opens < MaxOpens
    /\ qdev' = [qdev EXCEPT ![i].ref = @ + 1, ![i].opens = @ + 1]
    /\ UNCHANGED <<slots, entries, qfds, bufs, xfers>>

\* slash_qdma_fop_release.
CloseControl(i) ==
    /\ qdev[i].opens > 0
    /\ qdev' = PutDev([qdev EXCEPT ![i].opens = @ - 1], i)
    /\ UNCHANGED <<slots, entries, qfds, bufs, xfers>>

\* slash_qdma_fop_ioctl: an ioctl on an open control file; -ENODEV once the
\* device shuts down.
Control(i) == qdev[i].opens > 0 /\ Live(i)

\* slash_qdma_qpair_insert: xa_alloc takes the lowest free id.
FreeIds(i) == {q \in Qids : qdev[i].qpairs[q] = 0}

LowestFree(i) == CHOOSE q \in FreeIds(i) : \A r \in FreeIds(i) : q <= r

\* slash_qdma_ioctl_qpair_add: every direction asked for is added.
QpairAdd(i, mask) ==
    /\ Control(i)
    /\ FreeIds(i) # {}
    /\ Len(entries) < MaxEntries
    /\ LET q == LowestFree(i)
       IN  /\ \A t \in mask : qdev[i].queues[<<q, t>>] = "disabled"
           /\ entries' = Append(entries,
                 [dev |-> i, ref |-> 1, dirs |-> mask,
                  qhndl |-> [t \in QueueTypes |-> IF t \in mask THEN q ELSE Invalid]])
           /\ qdev' = [qdev EXCEPT
                 ![i].qpairs[q] = Len(entries) + 1,
                 ![i].queues = [h \in DOMAIN @ |-> IF h \in {q} \X mask THEN "enabled" ELSE @[h]]]
    /\ UNCHANGED <<slots, qfds, bufs, xfers>>

\* The same, when adding or configuring one direction fails: the directions
\* before it, and the one itself when only its configuration failed, are
\* removed again, and the entry is erased and freed.  A removal that fails
\* leaves its queue behind: libqdma still has it enabled, and no entry knows it.
QpairAddFails(i, mask) ==
    /\ Control(i)
    /\ FreeIds(i) # {}
    /\ \E t \in mask :
          LET q == LowestFree(i)
              before == {u \in mask : Before(u, t)}
          IN  \E touched \in ({before} \cup
                    (IF "config" \in QdmaFaults THEN {before \cup {t}} ELSE {})) :
              \E left \in SUBSET touched :
                 /\ touched = before =>
                        "add" \in QdmaFaults \/ qdev[i].queues[<<q, t>>] # "disabled"
                 /\ left # {} => \E r \in RemoveSafe("enabled") : r.err
                 /\ \A u \in touched : qdev[i].queues[<<q, u>>] = "disabled"
                 /\ qdev' = [qdev EXCEPT ![i].queues =
                       [h \in DOMAIN @ |-> IF h \in {q} \X left THEN "orphan" ELSE @[h]]]
    /\ UNCHANGED <<slots, entries, qfds, bufs, xfers>>

\* slash_qdma_ioctl_qpair_op_apply with stop_on_err: the queues change from one
\* state to the other in order; the loop ends at the first one that cannot.
Applied(i, e, from, to, fault) ==
    LET state(t) == qdev[i].queues[<<entries[e].qhndl[t], t>>]
        prior(t) == {u \in Active(e) : Before(u, t)}
        reached == {d \in SUBSET Active(e) :
                       /\ \A t \in d : state(t) = from /\ prior(t) \subseteq d
                       /\ \/ d = Active(e)
                          \/ \E t \in Active(e) \ d : prior(t) \subseteq d /\ state(t) # from
                          \/ fault \in QdmaFaults}
    IN  {[h \in DOMAIN qdev[i].queues |->
             IF \E t \in d : h = <<entries[e].qhndl[t], t>> THEN to ELSE qdev[i].queues[h]] :
         d \in reached}

\* SLASH_QDMA_QUEUE_OP_START.
QpairStart(i, q) ==
    /\ Control(i)
    /\ qdev[i].qpairs[q] # 0
    /\ \E after \in Applied(i, qdev[i].qpairs[q], "enabled", "online", "start") :
          qdev' = [qdev EXCEPT ![i].queues = after]
    /\ UNCHANGED <<slots, entries, qfds, bufs, xfers>>

\* SLASH_QDMA_QUEUE_OP_STOP.
QpairStop(i, q) ==
    /\ Control(i)
    /\ qdev[i].qpairs[q] # 0
    /\ \E after \in Applied(i, qdev[i].qpairs[q], "online", "enabled", "stop") :
          /\ qdev' = [qdev EXCEPT ![i].queues = after]
          /\ Stopping(i, {h \in DOMAIN after : after[h] # qdev[i].queues[h]})
    /\ UNCHANGED <<slots, entries, qfds, bufs>>

\* A DEL that erases the entry whatever the removals returned.
QpairDelAlways(i, q) ==
    /\ Control(i)
    /\ qdev[i].qpairs[q] # 0
    /\ LET e == qdev[i].qpairs[q]
           visited == QueuesOf(e)
       IN  \E left \in [visited -> Removals] :
             /\ \A h \in visited : left[h] \in RemoveSafe(qdev[i].queues[h])
             /\ qdev' = [qdev EXCEPT ![i].queues =
                            [h \in DOMAIN @ |-> IF h \in visited THEN left[h].state ELSE @[h]],
                            ![i].qpairs[q] = 0]
             /\ entries' = PutEntries(entries, <<e>>)
             /\ Stopping(i, {h \in visited : left[h].state # "online"})
    /\ UNCHANGED <<slots, qfds, bufs>>

\* SLASH_QDMA_QUEUE_OP_DEL: every queue is tried, and only when all are removed
\* does the entry leave the xarray.  Its handles and directions are not
\* touched.
QpairDel(i, q) ==
    /\ Control(i)
    /\ qdev[i].qpairs[q] # 0
    /\ LET e == qdev[i].qpairs[q]
           visited == QueuesOf(e)
       IN  \E left \in [visited -> Removals] :
             LET after == [qdev EXCEPT ![i].queues =
                              [h \in DOMAIN @ |-> IF h \in visited THEN left[h].state ELSE @[h]]]
             IN  /\ \A h \in visited : left[h] \in RemoveSafe(qdev[i].queues[h])
                 /\ IF \A h \in visited : ~left[h].err
                    THEN /\ qdev' = [after EXCEPT ![i].qpairs[q] = 0]
                         /\ entries' = PutEntries(entries, <<e>>)
                    ELSE qdev' = after /\ UNCHANGED entries
                 /\ Stopping(i, {h \in visited : left[h].state # "online"})
    /\ UNCHANGED <<slots, qfds, bufs>>

\* slash_qdma_ioctl_qpair_get_fd_w: an fd bound to one or two queue pairs.  A
\* queue pair that does not exist or has no direction fails it, and so does a
\* failing fd; both give back the references taken.
GetFd(i, f, qs) ==
    /\ Control(i)
    /\ ~qfds[f].open
    /\ Len(qs) \in 1..FdMaxQpairs
    /\ \A k \in DOMAIN qs : /\ qdev[i].qpairs[qs[k]] # 0
                           /\ entries[qdev[i].qpairs[qs[k]]].dirs # {}
    /\ LET es == [k \in DOMAIN qs |-> qdev[i].qpairs[qs[k]]]
       IN  /\ entries' = [e \in DOMAIN entries |->
                 [entries[e] EXCEPT !.ref = @ + Cardinality({k \in DOMAIN es : es[k] = e})]]
           /\ qfds' = [qfds EXCEPT ![f] = [open |-> TRUE, dev |-> i, ents |-> es]]
    /\ qdev' = [qdev EXCEPT ![i].ref = @ + 1]
    /\ UNCHANGED <<slots, bufs, xfers>>

\* A release that gives back only the first entry.
ReleaseFdFirst(f) ==
    /\ qfds[f].open
    /\ \A x \in Xfers : xfers[x].fd # f
    /\ entries' = PutEntries(entries, SubSeq(qfds[f].ents, 1, 1))
    /\ qdev' = PutDev(qdev, qfds[f].dev)
    /\ qfds' = [qfds EXCEPT ![f] = ClosedFd]
    /\ UNCHANGED <<slots, bufs, xfers>>

\* slash_qdma_qpair_release, when the last user of the file is gone: a transfer
\* under way holds the file.
ReleaseFd(f) ==
    /\ qfds[f].open
    /\ \A x \in Xfers : xfers[x].fd # f
    /\ entries' = PutEntries(entries, qfds[f].ents)
    /\ qdev' = PutDev(qdev, qfds[f].dev)
    /\ qfds' = [qfds EXCEPT ![f] = ClosedFd]
    /\ UNCHANGED <<slots, bufs, xfers>>

----------------------------------------------------------------------------
(* Buffers. *)

\* slash_qdma_ioctl_buf_create_w, on the control node or on a queue pair fd.
\* A failure gives back the device reference.
BufCreate(i) ==
    /\ qdev[i].opens > 0 \/ \E f \in Fds : qfds[f].open /\ qfds[f].dev = i
    /\ Live(i)
    /\ Len(bufs) < MaxBufs
    /\ bufs' = Append(bufs, [dev |-> i, ref |-> 1, fd |-> TRUE, vmas |-> 0])
    /\ qdev' = [qdev EXCEPT ![i].ref = @ + 1]
    /\ UNCHANGED <<slots, entries, qfds, xfers>>

\* slash_qdma_buf_mmap of the whole buffer, through its fd.
BufMmap(b) ==
    /\ bufs[b].fd
    /\ bufs[b].vmas < MaxVmas
    /\ bufs' = [bufs EXCEPT ![b].ref = @ + 1, ![b].vmas = @ + 1]
    /\ UNCHANGED <<slots, qdev, entries, qfds, xfers>>

\* slash_qdma_buf_vm_open: a mapping is split or copied by fork.
BufVmOpen(b) ==
    /\ bufs[b].vmas \in 1..(MaxVmas - 1)
    /\ bufs' = [bufs EXCEPT ![b].ref = @ + 1, ![b].vmas = @ + 1]
    /\ UNCHANGED <<slots, qdev, entries, qfds, xfers>>

\* Dropping one holder of a buffer: slash_qdma_buf_fop_release for its fd and
\* slash_qdma_buf_vm_close for a mapping.
BufDrop(b, after) ==
    LET last == bufs[b].ref = 1
        left == [after EXCEPT !.ref = @ - 1]
    IN  /\ bufs' = [bufs EXCEPT ![b] = left]
        /\ qdev' = IF last THEN PutDev(qdev, bufs[b].dev) ELSE qdev
        /\ UNCHANGED <<slots, entries, qfds, xfers>>

BufClose(b) == bufs[b].fd /\ BufDrop(b, [bufs[b] EXCEPT !.fd = FALSE])

BufVmClose(b) == bufs[b].vmas > 0 /\ BufDrop(b, [bufs[b] EXCEPT !.vmas = @ - 1])

----------------------------------------------------------------------------
(* Transfers: slash_qdma_qpair_transfer and slash_qdma_qpair_uring_cmd.  The *)
(* descriptors were copied at the start; each is chosen when it is prepared. *)

StartXfer(x, f, kind, count) ==
    /\ xfers[x].pc = "idle"
    /\ qfds[f].open
    /\ xfers' = [xfers EXCEPT ![x] =
          [pc |-> "prep", kind |-> kind, fd |-> f, count |-> count, prep |-> <<>>,
           outstanding |-> IF kind = "uring" THEN count ELSE 0]]
    /\ UNCHANGED <<slots, qdev, entries, qfds, bufs>>

\* slash_qdma_xfer_prep: the buffer named by an open fd of this device is
\* referenced, then the liveness of the device and the handle of the direction
\* are read under the lock.
PrepXfer(x, k, t, b) ==
    LET e == qfds[xfers[x].fd].ents[k]
        prep == Append(xfers[x].prep,
                   [entry |-> e, type |-> t, buf |-> b,
                    qhndl |-> entries[e].qhndl[t], st |-> "ready"])
    IN  /\ xfers[x].pc = "prep"
        /\ bufs[b].fd
        /\ bufs[b].dev = qfds[xfers[x].fd].dev
        /\ Live(qfds[xfers[x].fd].dev)
        /\ t \in entries[e].dirs
        /\ entries[e].qhndl[t] # Invalid
        /\ bufs' = [bufs EXCEPT ![b].ref = @ + 1]
        /\ xfers' = [xfers EXCEPT ![x].prep = prep,
                        ![x].pc = IF Len(prep) = xfers[x].count THEN "submit" ELSE @]
        /\ UNCHANGED <<slots, qdev, entries, qfds>>

\* A descriptor that is refused: slash_qdma_xfer_cleanup of the ones prepared.
PrepFails(x) ==
    /\ xfers[x].pc = "prep"
    /\ PutBufs(PreparedOn(xfers[x].prep))
    /\ xfers' = [xfers EXCEPT ![x] = IdleXfer]
    /\ UNCHANGED <<slots, entries, qfds>>

\* The next sub-transfer, in order.
NextSub(x) == 1 + Cardinality({k \in DOMAIN xfers[x].prep : xfers[x].prep[k].st # "ready"})

\* What a submission that is not queued does to the counter: nothing.
NotQueuedForgotten(x) == xfers[x].outstanding

\* A sub-transfer of an io_uring command that is not queued is accounted for
\* inline: fp_done will not fire.
NotQueued(x) ==
    IF xfers[x].kind = "uring" THEN xfers[x].outstanding - 1 ELSE xfers[x].outstanding

\* qdma_request_submit, without the lock and with no look at the device: queued
\* on an online queue of the handle that was read, or refused.  Once
\* qdma_device_close has freed what the handle stands for, the call reads freed
\* memory: it is refused, or the request is never heard of again.
SubmitXfer(x) ==
    LET k == NextSub(x)
        sub == xfers[x].prep[k]
        i == qfds[xfers[x].fd].dev
        online == qdev[i].handle /\ qdev[i].queues[<<sub.qhndl, sub.type>>] = "online"
        pc == IF k = xfers[x].count THEN "wait" ELSE "submit"
    IN  /\ xfers[x].pc = "submit"
        /\ \/ /\ online
              /\ xfers' = [xfers EXCEPT ![x].prep[k].st = "flight", ![x].pc = pc]
           \/ /\ ~qdev[i].handle
              /\ xfers' = [xfers EXCEPT ![x].prep[k].st = "gone", ![x].pc = pc]
           \/ /\ online => "submit" \in QdmaFaults
              /\ xfers' = [xfers EXCEPT ![x].prep[k].st = "ended", ![x].pc = pc,
                              ![x].outstanding = NotQueued(x)]
        /\ UNCHANGED <<slots, qdev, entries, qfds, bufs>>

\* libqdma ends a request: slash_qdma_xfer_done, slash_qdma_uring_xfer_done, or
\* the return of the blocking submission.
CompleteXfer(x, k) ==
    /\ k \in DOMAIN xfers[x].prep
    /\ xfers[x].prep[k].st = "flight"
    /\ xfers' = [xfers EXCEPT ![x].prep[k].st = "ended",
                    ![x].outstanding = IF xfers[x].kind = "uring" THEN @ - 1 ELSE @]
    /\ UNCHANGED <<slots, qdev, entries, qfds, bufs>>

\* All sub-transfers have ended: slash_qdma_xfer_finish of each.  The ioctl
\* waits for the ones that are in flight; the io_uring command completes from
\* the task work that the last of its sub-transfers schedules.
FinishXfer(x) ==
    /\ xfers[x].pc = "wait"
    /\ IF xfers[x].kind = "uring" THEN xfers[x].outstanding = 0
       ELSE \A k \in DOMAIN xfers[x].prep : xfers[x].prep[k].st = "ended"
    /\ PutBufs(PreparedOn(xfers[x].prep))
    /\ xfers' = [xfers EXCEPT ![x] = IdleXfer]
    /\ UNCHANGED <<slots, entries, qfds>>
=============================================================================

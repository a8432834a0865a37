-------------------------------- MODULE Vrtd --------------------------------
(***************************************************************************)
(* The vrtd daemon: one sd-event loop that accepts connections, receives   *)
(* one request per client, runs its handler and sends the answer           *)
(* (accept.c, serve.c, signals.c), and two kinds of background thread: the *)
(* design writer of a device (design_writer.c) and the flash worker, which *)
(* programs flash or resets a board and edits the device list meanwhile    *)
(* (flash_worker.c, flash.c, reset.c).                                     *)
(*                                                                         *)
(* A callback of the loop is a chain of steps, loop.at naming the next:    *)
(*   poll       in epoll_wait                                              *)
(*   dispatch   client_handle_request for client loop.i                    *)
(*   send       client_handle_out for client loop.i                        *)
(*   drain      drain_deferred_requests, at client loop.i                  *)
(*   finalize   the design write loop of the timer, at client loop.i       *)
(* Threads, peers and signals take steps in between.                       *)
(*                                                                         *)
(* A peer is a libvrtd client: it waits for the answer to a request before *)
(* it sends the next one.  Allocation failures and full socket buffers are *)
(* left out.                                                               *)
(***************************************************************************)
EXTENDS VrtdDevices

CONSTANTS
    Requests,       \* the requests peers may send, records with an op
    MaxConns,       \* bound: connections accepted in one behaviour
    MaxRequests,    \* bound: requests sent in one behaviour
    GidsOf,         \* the groups of every user
    FileSystems,    \* the configurations an operator may install
    MainFile,       \* the path of vrtd.conf
    Signals         \* the signals the operator may send, of "HUP" and "TERM"

ASSUME VrtdAssumption ==
    /\ MaxConns \in Nat /\ MaxRequests \in Nat
    /\ GidsOf \in [Users -> SUBSET Groups]

\* The fields of a request as the wire structs declare them.
ASSUME RequestsAssumption ==
    \A r \in Requests :
        /\ r.op # "none"
        /\ r.op \in {"buffer_open", "buffer_open_raw"} => r.size \in Nat
        /\ r.op = "buffer_open" => r.arg \in Nat
        /\ r.op = "buffer_open_raw" => r.addr \in Nat
        /\ r.op = "clock_op" => r.rate \in Nat
        /\ r.op = "set_shell_state" => r.jtag \in BOOLEAN

VARIABLES
    up,         \* the daemon runs
    config,     \* state->config
    dm,         \* the device list, see VrtdDevices
    clients,    \* state->clients
    async_op,   \* state->async_device_op_in_progress
    cleanups,   \* state->deferred_buffer_cleanup_conn_ids
    flash,      \* the flash worker and its job
    loop,       \* the position of the event loop
    next_conn,  \* state->next_conn_id
    peer,       \* the other end of every connection
    sent        \* requests sent so far

vars == <<up, config, dm, clients, async_op, cleanups, flash, loop, next_conn, peer, sent>>

Conns == 1..MaxConns

NoRole == [none |-> TRUE]
NoRequest == [op |-> "none"]
NoFd == [kind |-> "none"]
NoReply == [ret |-> "none", value |-> 0, fd |-> NoFd]
NoPeer == [open |-> FALSE, asked |-> NoRequest, unread |-> FALSE]
Polling == [at |-> "poll", i |-> 0, from |-> "none"]

\* What config_load makes of the files an operator may install.
Loadable == {ConfigLoad(fs, MainFile) : fs \in FileSystems}

\* create_client_event, with the credentials populate_uid_gid reads.
NewClient(conn, uid) ==
    [conn |-> conn, uid |-> uid, role |-> NoRole, req |-> NoRequest, in_fd |-> FALSE,
     reply |-> NoReply, pending |-> "none", wdev |-> 0, armed |-> TRUE]

IdleFlash ==
    [step |-> "idle", kind |-> "none", dev |-> 0, bdf |-> "none", partition |-> 0,
     owner |-> 0, job |-> 0, result |-> "INTERNAL_ERROR"]

\* main: configuration, device discovery, flash worker, then the loop.
Init ==
    /\ up = TRUE
    /\ config \in {c \in Loadable : c.loaded}
    /\ \E o \in DiscoverOutcomes([present |-> Boards, list |-> << >>, next |-> 1,
                                  wizard |-> [w \in Boards \X Regions |->
                                                 Program([m |-> MMax, d |-> DMin, o |-> OMax])]]) :
          o.ok /\ dm = o.dm
    /\ clients = << >> /\ async_op = FALSE /\ cleanups = << >> /\ flash = IdleFlash
    /\ loop = Polling /\ next_conn = 0 /\ sent = 0
    /\ peer = [c \in Conns |-> NoPeer]

----------------------------------------------------------------------------
(* Peers *)

\* on_event_new_connection.
Accept(uid) ==
    /\ up /\ loop.at = "poll" /\ next_conn < MaxConns
    /\ next_conn' = next_conn + 1
    /\ clients' = Append(clients, NewClient(next_conn', uid))
    /\ peer' = [peer EXCEPT ![next_conn'].open = TRUE]
    /\ UNCHANGED <<up, config, dm, async_op, cleanups, flash, loop, sent>>

\* A libvrtd call: one request, with its file descriptor, then wait for the answer.
PeerSend(c, r) ==
    /\ up /\ sent < MaxRequests
    /\ peer[c].open /\ peer[c].asked = NoRequest
    /\ peer' = [peer EXCEPT ![c] = [@ EXCEPT !.asked = r, !.unread = TRUE]]
    /\ sent' = sent + 1
    /\ UNCHANGED <<up, config, dm, clients, async_op, cleanups, flash, loop, next_conn>>

\* The peer exits or closes its socket, at any time.
PeerClose(c) ==
    /\ up /\ peer[c].open
    /\ peer' = [peer EXCEPT ![c] = NoPeer]
    /\ UNCHANGED <<up, config, dm, clients, async_op, cleanups, flash, loop, next_conn, sent>>

----------------------------------------------------------------------------
(* Client I/O *)

Index(c) == {i \in DOMAIN clients : clients[i].conn = c}

\* client_request_is_cfgmem_status, with the guard on_client_io puts around dispatch.
MayDispatch(r) == ~async_op \/ r.op = "cfgmem_status"

\* Mutant: a disconnect during an async operation defers nothing.
HangupForgets(c) ==
    /\ up /\ loop.at = "poll" /\ ~peer[c].open
    /\ \E i \in Index(c) :
          /\ clients[i].armed
          /\ clients' = RemoveAt(clients, i)
    /\ dm' = IF async_op THEN dm ELSE CleanupBuffersFor(dm, c)
    /\ UNCHANGED <<up, config, async_op, cleanups, flash, loop, next_conn, peer, sent>>

\* defer_buffer_cleanup: a connection is recorded once.
Deferred(conns, c) == IF c \in Range(conns) THEN conns ELSE Append(conns, c)

\* cleanup_client_buffers: the worker owns the device list while it runs.
Hangup(c) ==
    /\ up /\ loop.at = "poll" /\ ~peer[c].open
    /\ \E i \in Index(c) :
          /\ clients[i].armed
          /\ clients' = RemoveAt(clients, i)
    /\ IF async_op THEN cleanups' = Deferred(cleanups, c) /\ UNCHANGED dm
                   ELSE dm' = CleanupBuffersFor(dm, c) /\ UNCHANGED cleanups
    /\ UNCHANGED <<up, config, async_op, flash, loop, next_conn, peer, sent>>

\* client_handle_in: an ill-framed message fails the callback, which disables the source.
Receive(c) ==
    /\ up /\ loop.at = "poll" /\ peer[c].open /\ peer[c].unread
    /\ peer' = [peer EXCEPT ![c].unread = FALSE]
    /\ \E i \in Index(c) :
          /\ clients[i].armed /\ clients[i].req = NoRequest
          /\ LET r == peer[c].asked
             IN IF r.op = "unframed"
                THEN clients' = [clients EXCEPT ![i].armed = FALSE] /\ UNCHANGED loop
                ELSE /\ clients' = [clients EXCEPT ![i] = [@ EXCEPT !.req = r, !.in_fd = r.fd]]
                     /\ loop' = IF MayDispatch(r)
                                  THEN [at |-> "dispatch", i |-> i, from |-> "io"] ELSE loop
    /\ UNCHANGED <<up, config, dm, async_op, cleanups, flash, next_conn, sent>>

\* EPOLLOUT for a response that a timer callback prepared.
Writable(c) ==
    /\ up /\ loop.at = "poll" /\ peer[c].open
    /\ \E i \in Index(c) :
          /\ clients[i].armed /\ clients[i].reply # NoReply
          /\ loop' = [at |-> "send", i |-> i, from |-> "io"]
    /\ UNCHANGED <<up, config, dm, clients, async_op, cleanups, flash, next_conn, peer, sent>>

\* The struct a response's descriptor was taken from still holds it open.
StillOpen(fd) ==
    /\ Lives(dm, fd.dev)
    /\ fd.kind = "bar" => Device(dm, fd.dev).epoch = fd.epoch

\* client_handle_out: what sendmsg does.  A closed peer and a closed descriptor fail
\* the callback; a descriptor number that was used again goes out in place of the old.
Send ==
    /\ up /\ loop.at = "send" /\ loop' = Polling
    /\ LET me == clients[loop.i]
           broken == me.reply.fd.kind \notin {"none", "own"} /\ ~StillOpen(me.reply.fd)
           deliver ==
               /\ clients' = [clients EXCEPT ![loop.i].reply = NoReply]
               /\ peer' = [peer EXCEPT ![me.conn].asked = NoRequest]
           fail == clients' = [clients EXCEPT ![loop.i].armed = FALSE] /\ UNCHANGED peer
       IN \/ peer[me.conn].open /\ deliver
          \/ (broken \/ ~peer[me.conn].open) /\ fail
    /\ UNCHANGED <<up, config, dm, async_op, cleanups, flash, next_conn, sent>>

----------------------------------------------------------------------------
(* Dispatch *)

Me == clients[loop.i]
Req == Me.req

Dispatching(op) == up /\ loop.at = "dispatch" /\ Req.op = op

\* The subsystem permission auth.c asks for; "query" for the inspecting requests.
SubsystemOf(op) ==
    CASE op = "get_bar_fd" -> "bar"
      [] op \in {"qpair_add", "qpair_op", "qpair_get_fd"} -> "qdma"
      [] op \in {"buffer_open", "buffer_close"} -> "buffer"
      [] op = "buffer_open_raw" -> "raw_mem_access"
      [] op = "design_write" -> "design_write"
      [] op \in {"cfgmem_program", "cfgmem_program_start"} -> "cfgmem_program"
      [] op = "clock_op" -> "clock"
      [] op \in {"hotplug_op", "set_shell_state"} -> "pcie_hotplug"
      [] OTHER -> "query"

\* The requests whose handler never asks auth.c.
Unauthenticated(r) ==
    \/ r.op \in {"cfgmem_status", "unknown"}
    \/ r.op = "hotplug_op" /\ r.hop = "rescan"

\* ensure_role.
MyRole ==
    IF Me.role # NoRole THEN Me.role ELSE MergedRole(config, Me.uid, GidsOf[Me.uid])

\* auth_request_*: an index outside the list is denied like a missing permission.
Permitted(r) ==
    \/ SubsystemOf(r.op) = "query" /\ MyRole.query
    \/ /\ SubsystemOf(r.op) # "query"
       /\ r.dev \in DOMAIN dm.list
       /\ DevicePermission(MyRole, dm.list[r.dev].bdf, SubsystemOf(r.op))

\* ensure_role after a reload that failed: assert(config != NULL).
RoleLookupAborts ==
    /\ up /\ loop.at = "dispatch" /\ ~Unauthenticated(Req)
    /\ Me.role = NoRole /\ ~config.loaded
    /\ up' = FALSE
    /\ UNCHANGED <<config, dm, clients, async_op, cleanups, flash, loop, next_conn, peer, sent>>

\* The authorization a handler starts with.
Authorized(op) ==
    /\ Dispatching(op)
    /\ Me.role # NoRole \/ config.loaded
    /\ Permitted(Req)

\* Where the callback goes on after the handler: io sends at once, a drain goes on to
\* the next client unless an async operation was started.
AfterHandler(replied) ==
    loop' = IF loop.from = "io" THEN IF replied THEN [loop EXCEPT !.at = "send"] ELSE Polling
            ELSE IF async_op' THEN Polling
            ELSE [at |-> "drain", i |-> loop.i + 1, from |-> "none"]

\* The tail of client_handle_request: answer, drop the request and an unused descriptor.
Answer(ret, value, fd, role) ==
    /\ clients' = [clients EXCEPT ![loop.i] =
                      [@ EXCEPT !.req = NoRequest, !.in_fd = FALSE, !.role = role,
                                !.reply = [ret |-> ret, value |-> value, fd |-> fd]]]
    /\ AfterHandler(TRUE)

\* Its early return: the answer comes later.
AnswerLater(kind, wdev, role) ==
    /\ clients' = [clients EXCEPT ![loop.i] =
                      [@ EXCEPT !.in_fd = FALSE, !.role = role, !.pending = kind, !.wdev = wdev]]
    /\ AfterHandler(FALSE)

Return(ret) == Answer(ret, 0, NoFd, MyRole)

\* A handler that changed at most the device list.
Sync == UNCHANGED <<up, config, async_op, cleanups, flash, next_conn, peer, sent>>

\* VRTD_RET_AUTH_ERROR.
Deny ==
    /\ up /\ loop.at = "dispatch" /\ ~Unauthenticated(Req)
    /\ Me.role # NoRole \/ config.loaded
    /\ ~Permitted(Req)
    /\ Sync /\ UNCHANGED dm
    /\ Return("AUTH_ERROR")

\* VRTD_RET_BAD_REQUEST for an opcode nobody handles.
UnknownOpcode ==
    /\ Dispatching("unknown")
    /\ Sync /\ UNCHANGED dm
    /\ Answer("BAD_REQUEST", 0, NoFd, Me.role)

----------------------------------------------------------------------------
(* Inspecting handlers *)

GetNumDevices ==
    /\ Authorized("get_num_devices")
    /\ Sync /\ UNCHANGED dm
    /\ Answer("OK", Len(dm.list), NoFd, MyRole)

\* The index of the board, in the numbering of the list.
GetDeviceByBdf ==
    /\ Authorized("get_device_by_bdf")
    /\ Sync /\ UNCHANGED dm
    /\ LET hits == {i \in DOMAIN dm.list : dm.list[i].bdf = Req.bdf}
       IN IF hits = {} THEN Return("NOEXIST") ELSE Answer("OK", Min(hits), NoFd, MyRole)

\* get_device_info, get_bar_info, qdma_get_info and get_sensor_info: a device that is
\* not listed or lacks the part asked for does not exist, a failed read is internal.
GetInfo(op, exists(_), fault) ==
    /\ Authorized(op)
    /\ Sync /\ UNCHANGED dm
    /\ IF Req.dev \notin DOMAIN dm.list \/ ~exists(dm.list[Req.dev]) THEN Return("NOEXIST")
       ELSE \E ret \in {"OK"} \cup (IF fault \in Faults THEN {"INTERNAL_ERROR"} ELSE {}) :
               Return(ret)

GetDeviceInfo == GetInfo("get_device_info", LAMBDA d : TRUE, "none")
GetBarInfo == GetInfo("get_bar_info", LAMBDA d : d.bars # "none", "none")
QdmaGetInfo == GetInfo("qdma_get_info", LAMBDA d : d.qdma, "qpair")
GetSensorInfo == GetInfo("get_sensor_info", LAMBDA d : TRUE, "ami")

\* The descriptor stays the daemon's, the answer borrows it.
GetBarFd ==
    /\ Authorized("get_bar_fd")
    /\ Sync /\ UNCHANGED dm
    /\ LET d == dm.list[Req.dev]
       IN IF d.bars = "none" THEN Return("NOEXIST")
          ELSE Answer("OK", 0, [kind |-> "bar", dev |-> d.id, epoch |-> d.epoch,
                                stale |-> d.bars = "stale"], MyRole)

----------------------------------------------------------------------------
(* Queue pairs and buffers *)

\* qdma_qpair_add and qdma_qpair_op: calls on the QDMA node.
QpairCall(op) ==
    /\ Authorized(op)
    /\ Sync /\ UNCHANGED dm
    /\ IF ~dm.list[Req.dev].qdma THEN Return("NOEXIST")
       ELSE \E ret \in {"OK"} \cup (IF "qpair" \in Faults THEN {"INTERNAL_ERROR"} ELSE {}) :
               Return(ret)

\* qdma_qpair_get_fd: a new descriptor, handed over to the answer.
QpairGetFd ==
    /\ Authorized("qpair_get_fd")
    /\ Sync /\ UNCHANGED dm
    /\ LET d == dm.list[Req.dev]
       IN IF ~d.qdma THEN Return("NOEXIST")
          ELSE \/ Answer("OK", 0, [kind |-> "own", dev |-> d.id], MyRole)
               \/ "qpair" \in Faults /\ Return("INTERNAL_ERROR")

\* buffer_open and buffer_open_raw share their checks and their answer.
OpenBuffer(op, outcomes(_, _)) ==
    /\ Authorized(op)
    /\ Sync
    /\ LET d == dm.list[Req.dev]
       IN IF Req.size = 0 \/ Req.channel \notin {"auto", "0", "1"}
          THEN Return("INVALID_ARGUMENT") /\ UNCHANGED dm
          ELSE IF ~d.qdma THEN Return("NOEXIST") /\ UNCHANGED dm
          ELSE \E o \in outcomes(d, Req) :
                  /\ dm' = o.dm
                  /\ IF o.ret # "OK" THEN Return(o.ret)
                     ELSE Answer("OK", o.buf.addr, [kind |-> "buffer", dev |-> d.id], MyRole)

BufferOpen ==
    OpenBuffer("buffer_open", LAMBDA d, r : BufferOpenOutcomes(dm, d, r, Me.conn))

BufferOpenRaw ==
    OpenBuffer("buffer_open_raw", LAMBDA d, r : BufferOpenRawOutcomes(dm, d, r, Me.conn))

\* buffer_close: the caller's buffer with this address and size, and no other.
BufferClose ==
    /\ Authorized("buffer_close")
    /\ Sync
    /\ LET d == dm.list[Req.dev]
           i == FindBuffer(d, Req, Me.conn)
           same == {j \in DOMAIN d.buffers : d.buffers[j].addr = Req.addr}
       IN IF Req.size = 0 THEN Return("INVALID_ARGUMENT") /\ UNCHANGED dm
          ELSE IF i # 0 THEN Return("OK") /\ dm' = WithDevice(dm, DropBuffer(d, i))
          ELSE /\ UNCHANGED dm
               /\ Return(IF \E j \in same : d.buffers[j].size = Req.size THEN "AUTH_ERROR"
                         ELSE IF same # {} THEN "INVALID_ARGUMENT" ELSE "NOEXIST")

----------------------------------------------------------------------------
(* Clocks and shells *)

ClockOps(region) == {"get", "set"} \cup (IF region = "user" THEN {"set_round_down"} ELSE {})

\* clock_op: set answers the rate the registers were programmed to.
ClockOp ==
    /\ Authorized("clock_op")
    /\ Sync
    /\ LET key == <<dm.list[Req.dev].bdf, Req.region>>
       IN IF Req.region \notin Regions \/ Req.cop \notin ClockOps(Req.region)
          THEN Return("INVALID_ARGUMENT") /\ UNCHANGED dm
          ELSE IF Req.cop = "get"
          THEN Answer("OK", RateOf(dm.wizard[key]), NoFd, MyRole) /\ UNCHANGED dm
          ELSE IF Req.rate = 0 THEN Return("INVALID_ARGUMENT") /\ UNCHANGED dm
          ELSE \E o \in SetRateOutcomes(dm.wizard[key], Req.rate, Req.cop = "set_round_down") :
                  /\ dm' = [dm EXCEPT !.wizard[key] = o.regs]
                  /\ IF o.ok THEN Answer("OK", RateOf(o.regs), NoFd, MyRole)
                             ELSE Return("INTERNAL_ERROR")

\* set_shell_state: a known shell and a set JTAG flag stay.
SetShellState ==
    /\ Authorized("set_shell_state")
    /\ Sync
    /\ LET d == dm.list[Req.dev]
       IN IF Req.shell \notin {"service", "compute"}
          THEN Return("INVALID_ARGUMENT") /\ UNCHANGED dm
          ELSE IF \/ d.shell \notin {"unknown", Req.shell}
                  \/ ~Req.jtag /\ d.jtag
          THEN Return("BUSY") /\ UNCHANGED dm
          ELSE /\ Return("OK")
               /\ dm' = WithDevice(dm, [d EXCEPT !.shell = Req.shell, !.jtag = Req.jtag])

----------------------------------------------------------------------------
(* Operations of the background threads *)

\* any_design_write_active.
AnyDesignWriteActive ==
    \/ \E d \in Listed(dm) : d.writing
    \/ \E i \in DOMAIN clients : clients[i].pending = "write"

\* design_writer_submit_fd_async: the writer thread takes over the descriptor.
Submit(devices, d) == WithDevice(devices, [d EXCEPT !.writing = TRUE, !.failed = FALSE])

\* design_write: a board that runs another shell is reset in the handler itself.
DesignWrite ==
    /\ Authorized("design_write")
    /\ Sync
    /\ LET d == dm.list[Req.dev]
       IN IF ~d.qdma THEN Return("NOEXIST") /\ UNCHANGED dm
          ELSE IF ~Me.in_fd THEN Return("BAD_REQUEST") /\ UNCHANGED dm
          ELSE IF Req.shell \notin {"service", "compute"}
          THEN Return("INVALID_ARGUMENT") /\ UNCHANGED dm
          ELSE IF d.writing THEN Return("BUSY") /\ UNCHANGED dm
          ELSE IF BlockedByJtag(d.shell, Req.shell, d.jtag)
          THEN Return("SHELL_LOCKED") /\ UNCHANGED dm
          ELSE IF ~ResetRequired(d.shell, Req.shell)
          THEN dm' = Submit(dm, d) /\ AnswerLater("write", d.id, MyRole)
          ELSE \E o \in ResetOutcomes(dm, d, BootPartition(Req.shell)) :
                  LET again == {e \in FindByBdf(o.dm, d.bdf) : e.qdma}
                  IN IF o.ret # "OK" THEN Return(o.ret) /\ dm' = o.dm
                     ELSE IF again = {} THEN Return("NOEXIST") /\ dm' = o.dm
                     ELSE \E e \in again :
                             dm' = Submit(o.dm, e) /\ AnswerLater("write", e.id, MyRole)

\* flash_worker_submit_job_async.
Job(kind, d, partition) ==
    [step |-> "queued", kind |-> kind, dev |-> d.id, bdf |-> d.bdf, partition |-> partition,
     owner |-> Me.conn, job |-> flash.job + 1, result |-> "INTERNAL_ERROR"]

\* Mutant: the busy check forgets the design writes.
WorkerBusyNoWrites == async_op \/ flash.step # "idle"

\* The busy checks of client_submit_cfgmem_program and client_submit_device_reset.
WorkerBusy == async_op \/ AnyDesignWriteActive \/ flash.step # "idle"

\* client_submit_cfgmem_program: the legacy request waits for the result, _start
\* answers with the job.
CfgmemProgram(op) ==
    /\ Authorized(op)
    /\ LET bad == IF ~Me.in_fd THEN "BAD_REQUEST"
                  ELSE IF ~Req.valid THEN "INVALID_ARGUMENT"
                  ELSE IF WorkerBusy THEN "BUSY" ELSE "OK"
       IN IF bad # "OK" THEN UNCHANGED <<async_op, flash>> /\ Return(bad)
          ELSE /\ async_op' = TRUE
               /\ flash' = Job("program", dm.list[Req.dev], Req.partition)
               /\ IF op = "cfgmem_program" THEN AnswerLater("device", 0, MyRole)
                  ELSE Answer("OK", flash'.job, NoFd, MyRole)
    /\ UNCHANGED <<up, config, dm, cleanups, next_conn, peer, sent>>

\* The state flash_worker_update_status_locked last recorded.
JobState ==
    IF flash.step = "queued" THEN 0
    ELSE IF flash.step # "idle" THEN 1
    ELSE IF flash.result = "OK" THEN 2 ELSE 3

\* cfgmem_program_status: only the owner of the current job.
CfgmemProgramStatus ==
    /\ Dispatching("cfgmem_status")
    /\ Sync /\ UNCHANGED dm
    /\ LET ret == IF Req.job = 0 \/ Req.job # flash.job THEN "NOEXIST"
                  ELSE IF Me.conn # flash.owner THEN "AUTH_ERROR" ELSE "OK"
       IN Answer(ret, IF ret = "OK" THEN JobState ELSE 0, NoFd, Me.role)

\* device_hotplug_op, RESCAN: no authorization, a failed discovery is only logged.
HotplugRescan ==
    /\ Dispatching("hotplug_op") /\ Req.hop = "rescan"
    /\ Sync
    /\ \E o \in RescanRequestOutcomes(dm) : dm' = o.dm /\ Answer(o.ret, 0, NoFd, Me.role)

AllFunctions == 255

\* REMOVE, TOGGLE_SBR and HOTPLUG, of one function or of all; other operations are refused.
HotplugOp ==
    /\ Authorized("hotplug_op") /\ Req.hop \notin {"reset", "rescan"}
    /\ Sync
    /\ LET d == dm.list[Req.dev]
           all == Req.function = AllFunctions
       IN IF \/ Req.hop \notin {"remove", "toggle_sbr", "hotplug"}
             \/ all /\ Req.hop = "toggle_sbr"
             \/ ~all /\ Req.function > 7
          THEN Return("INVALID_ARGUMENT") /\ UNCHANGED dm
          ELSE \E o \in IF all THEN HotplugAllOutcomes(dm, d, Req.hop)
                        ELSE HotplugOneOutcomes(dm, d, Req.hop, Req.function) :
                  dm' = o.dm /\ Return(o.ret)

\* RESET_SEQUENCE: client_submit_device_reset.
ResetSequence ==
    /\ Authorized("hotplug_op") /\ Req.hop = "reset"
    /\ IF Req.shell \notin {"service", "compute"}
       THEN UNCHANGED <<async_op, flash>> /\ Return("INVALID_ARGUMENT")
       ELSE IF WorkerBusy THEN UNCHANGED <<async_op, flash>> /\ Return("BUSY")
       ELSE /\ async_op' = TRUE
            /\ flash' = Job("reset", dm.list[Req.dev], BootPartition(Req.shell))
            /\ AnswerLater("device", 0, MyRole)
    /\ UNCHANGED <<up, config, dm, cleanups, next_conn, peer, sent>>

----------------------------------------------------------------------------
(* Background threads *)

\* design_writer_worker: the transfer ends, the fabric behind PF2 is a new one.
WriterDone(id, ok) ==
    /\ up /\ Lives(dm, id) /\ Device(dm, id).writing
    /\ ok \/ "transfer" \in Faults
    /\ LET d == Device(dm, id)
       IN dm' = WithDevice(dm, [d EXCEPT !.writing = FALSE, !.failed = ~ok,
                                         !.bars = IF ok /\ @ = "fresh" THEN "stale" ELSE @])
    /\ UNCHANGED <<up, config, clients, async_op, cleanups, flash, loop, next_conn, peer, sent>>

FlashOnly == UNCHANGED <<up, config, clients, async_op, cleanups, loop, next_conn, peer, sent>>

FlashTo(step, result) == flash' = [flash EXCEPT !.step = step, !.result = result]

\* flash_worker_thread picks up the job.
FlashTake ==
    /\ up /\ flash.step = "queued"
    /\ FlashTo(IF flash.kind = "program" THEN "download" ELSE "remove", flash.result)
    /\ FlashOnly /\ UNCHANGED dm

\* cfgmem_program_with_ami up to the reset.
FlashDownload ==
    /\ up /\ flash.step = "download"
    /\ \/ FlashTo("remove", flash.result)
       \/ "download" \in Faults /\ FlashTo("publish", "INTERNAL_ERROR")
    /\ FlashOnly /\ UNCHANGED dm

\* reset_with_ami_partition_progress, step 2.
FlashRemoveDevice ==
    /\ up /\ flash.step = "remove"
    /\ dm' = RemoveDevice(dm, flash.dev)
    /\ FlashTo("ami", flash.result)
    /\ FlashOnly

\* Steps 3 to 6.
FlashAmi ==
    /\ up /\ flash.step = "ami"
    /\ \E ret \in AmiOutcomes : FlashTo(IF ret = "OK" THEN "bus" ELSE "publish", ret)
    /\ FlashOnly /\ UNCHANGED dm

\* Steps 7 to 12.
FlashBus ==
    /\ up /\ flash.step = "bus"
    /\ \E o \in BusOutcomes(dm, flash.bdf) :
          dm' = o.dm /\ FlashTo(IF o.ret = "OK" THEN "discover" ELSE "publish", o.ret)
    /\ FlashOnly

\* Step 13.
FlashRediscover ==
    /\ up /\ flash.step = "discover"
    /\ \E o \in RediscoverOutcomes(dm, flash.bdf, flash.partition) :
          dm' = o.dm /\ FlashTo("publish", o.ret)
    /\ FlashOnly

\* flash_worker_thread publishes the result.
FlashPublish ==
    /\ up /\ flash.step = "publish"
    /\ FlashTo("idle", flash.result)
    /\ FlashOnly /\ UNCHANGED dm

----------------------------------------------------------------------------
(* The deferred work timer *)

\* Mutant: the result is stored and the wait not ended.
DeliveredStillWaiting(c, result) ==
    IF c.pending # "device" THEN c
    ELSE [c EXCEPT !.req = NoRequest, !.reply = [ret |-> result, value |-> 0, fd |-> NoFd]]

\* client_deliver_async_device_op_result, for every client that waits.
Delivered(c, result) ==
    IF c.pending # "device" THEN c
    ELSE [c EXCEPT !.pending = "none", !.req = NoRequest,
                   !.reply = [ret |-> result, value |-> 0, fd |-> NoFd]]


\* process_async_device_op_completion, then drain_deferred_requests from the first client.
TickAsync ==
    /\ up /\ loop.at = "poll" /\ async_op /\ flash.step = "idle"
    /\ async_op' = FALSE
    /\ dm' = DrainCleanups(dm, cleanups)
    /\ cleanups' = << >>
    /\ clients' = [i \in DOMAIN clients |-> Delivered(clients[i], flash.result)]
    /\ loop' = [at |-> "drain", i |-> 1, from |-> "none"]
    /\ UNCHANGED <<up, config, flash, next_conn, peer, sent>>

\* One turn of drain_deferred_requests.
DrainNext ==
    /\ up /\ loop.at = "drain"
    /\ loop' = IF loop.i > Len(clients) THEN Polling
               ELSE IF \/ Me.req = NoRequest \/ Me.reply # NoReply \/ Me.pending # "none"
               THEN [loop EXCEPT !.i = @ + 1]
               ELSE [loop EXCEPT !.at = "dispatch", !.from = "drain"]
    /\ UNCHANGED <<up, config, dm, clients, async_op, cleanups, flash, next_conn, peer, sent>>

\* on_event_deferred_work without an async operation.
TickWrites ==
    /\ up /\ loop.at = "poll" /\ ~async_op
    /\ \E i \in DOMAIN clients : clients[i].pending = "write"
    /\ loop' = [at |-> "finalize", i |-> 1, from |-> "none"]
    /\ UNCHANGED <<up, config, dm, clients, async_op, cleanups, flash, next_conn, peer, sent>>

FinalizeOnly == UNCHANGED <<config, async_op, cleanups, flash, next_conn, peer, sent>>

NextWrite ==
    loop' = IF loop.i = Len(clients) THEN Polling ELSE [loop EXCEPT !.i = @ + 1]

\* client_finalize_pending_design_write: the response after the transfer.
FinalAnswer(ret) ==
    /\ clients' = [clients EXCEPT ![loop.i] =
                      [@ EXCEPT !.pending = "none", !.wdev = 0, !.req = NoRequest,
                                !.reply = [ret |-> ret, value |-> 0, fd |-> NoFd]]]
    /\ NextWrite

\* The turn of a client without a write, or with one in flight.
FinalizeSkip ==
    /\ up /\ loop.at = "finalize"
    /\ \/ Me.pending # "write"
       \/ Lives(dm, Me.wdev) /\ Device(dm, Me.wdev).writing
    /\ NextWrite
    /\ FinalizeOnly /\ UNCHANGED <<up, dm, clients>>

\* The turn of a client whose write has ended.
FinalizeWrite ==
    /\ up /\ loop.at = "finalize" /\ Me.pending = "write" /\ Lives(dm, Me.wdev)
    /\ LET d == Device(dm, Me.wdev)
       IN /\ ~d.writing
          /\ IF d.failed THEN FinalAnswer("INTERNAL_ERROR") /\ UNCHANGED dm
             ELSE \E o \in RefreshOutcomes(dm, d) : FinalAnswer(o.ret) /\ dm' = o.dm
    /\ FinalizeOnly /\ UNCHANGED up

\* The struct pending_design_write_device points to was freed: whatever the memory
\* holds now says that the write is in flight, that it ended, or faults.
FinalizeDangling ==
    /\ up /\ loop.at = "finalize" /\ Me.pending = "write" /\ ~Lives(dm, Me.wdev)
    /\ \/ NextWrite /\ UNCHANGED <<up, clients>>
       \/ \E ret \in {"OK", "INTERNAL_ERROR"} : FinalAnswer(ret) /\ UNCHANGED up
       \/ up' = FALSE /\ UNCHANGED <<clients, loop>>
    /\ FinalizeOnly /\ UNCHANGED dm

----------------------------------------------------------------------------
(* Signals *)

\* Mutant: cached roles survive the reload.
ReloadKeepsRoles ==
    /\ "HUP" \in Signals
    /\ up /\ loop.at = "poll"
    /\ config' \in Loadable
    /\ UNCHANGED <<up, dm, clients, async_op, cleanups, flash, loop, next_conn, peer, sent>>

\* SIGHUP, reload_config: every cached role and the old configuration go first.
Reload ==
    /\ "HUP" \in Signals
    /\ up /\ loop.at = "poll"
    /\ clients' = [i \in DOMAIN clients |-> [clients[i] EXCEPT !.role = NoRole]]
    /\ config' \in Loadable
    /\ UNCHANGED <<up, dm, async_op, cleanups, flash, loop, next_conn, peer, sent>>

\* SIGTERM, and the cleanup of main.
Shutdown ==
    /\ "TERM" \in Signals
    /\ up /\ loop.at = "poll"
    /\ up' = FALSE
    /\ clients' = << >> /\ cleanups' = << >> /\ dm' = [dm EXCEPT !.list = << >>]
    /\ flash' = IdleFlash /\ async_op' = FALSE
    /\ peer' = [c \in Conns |-> NoPeer]
    /\ UNCHANGED <<config, loop, next_conn, sent>>

----------------------------------------------------------------------------

Handle ==
    \/ GetNumDevices \/ GetDeviceByBdf \/ GetDeviceInfo \/ GetBarInfo \/ QdmaGetInfo
    \/ GetSensorInfo \/ GetBarFd \/ QpairCall("qpair_add") \/ QpairCall("qpair_op")
    \/ QpairGetFd \/ BufferOpen \/ BufferOpenRaw \/ BufferClose \/ ClockOp
    \/ SetShellState \/ DesignWrite \/ CfgmemProgram("cfgmem_program")
    \/ CfgmemProgram("cfgmem_program_start") \/ CfgmemProgramStatus \/ HotplugRescan
    \/ HotplugOp \/ ResetSequence \/ Deny \/ UnknownOpcode \/ RoleLookupAborts

\* The steps that end a callback of the event loop once it has begun.
LoopStep ==
    Handle \/ Send \/ DrainNext \/ FinalizeSkip \/ FinalizeWrite \/ FinalizeDangling

Tick == TickAsync \/ TickWrites

FlashStep ==
    \/ FlashTake \/ FlashDownload \/ FlashRemoveDevice \/ FlashAmi \/ FlashBus
    \/ FlashRediscover \/ FlashPublish

WriterStep == \E id \in {d.id : d \in Listed(dm)} : WriterDone(id, TRUE) \/ WriterDone(id, FALSE)

ClientIo(c) == Hangup(c) \/ Receive(c) \/ Writable(c)

Next ==
    \/ \E uid \in Users : Accept(uid)
    \/ \E c \in Conns, r \in Requests : PeerSend(c, r)
    \/ \E c \in Conns : PeerClose(c) \/ ClientIo(c)
    \/ LoopStep \/ Tick \/ FlashStep \/ WriterStep
    \/ Reload \/ Shutdown

\* A callback that has begun ends, threads run, and epoll_wait hands out every ready
\* source in turn: sd-event picks the one that waited longest.
Fairness ==
    /\ WF_vars(LoopStep) /\ WF_vars(FlashStep) /\ WF_vars(WriterStep)
    /\ SF_vars(Tick) /\ \A c \in Conns : SF_vars(ClientIo(c))

Spec == Init /\ [][Next]_vars /\ Fairness

----------------------------------------------------------------------------
(* Properties *)

(***************************************************************************)
(* While the flash worker has a job it alone may touch the device list:    *)
(* the loop runs no handler but the status query, finalizes no design      *)
(* write, and no design writer is busy (the comment on on_client_io and    *)
(* the busy checks of the submit helpers).                                 *)
(***************************************************************************)
Exclusive ==
    flash.step # "idle" =>
        /\ async_op
        /\ ~AnyDesignWriteActive
        /\ loop.at = "dispatch" => Req.op = "cfgmem_status"
        /\ loop.at \notin {"drain", "finalize"}

(***************************************************************************)
(* A client that waits for an async device operation waits for its own:    *)
(* the result process_async_device_op_completion hands to every waiting    *)
(* client belongs to the one that is waiting.                              *)
(***************************************************************************)
WaitsForOwnJob ==
    \A i \in DOMAIN clients :
        clients[i].pending = "device" => async_op /\ flash.owner = clients[i].conn

(***************************************************************************)
(* Every buffer of a listed device belongs to a connection that still has  *)
(* a struct client or whose cleanup is deferred, and cleanups are deferred *)
(* only while an async operation runs (cleanup_client_buffers).            *)
(***************************************************************************)
BuffersOwned ==
    /\ cleanups # << >> => async_op
    /\ \A d \in Listed(dm) : \A k \in DOMAIN d.buffers :
          \/ Index(d.buffers[k].client) # {}
          \/ d.buffers[k].client \in Range(cleanups)

(***************************************************************************)
(* The subregions of a device are reserved by exactly the buffers that are *)
(* open on it, through allocation, failed creation, close, disconnect and  *)
(* reset (allocator.c, buffer.c).                                          *)
(***************************************************************************)
MemoryAccounted == \A d \in Listed(dm) : Accounted(d.map, d.buffers)

(***************************************************************************)
(* A cached role is the merge of the roles the present configuration gives *)
(* the client: no request is judged by a configuration that was replaced   *)
(* (reload_config, ensure_role).                                           *)
(***************************************************************************)
RolesFollowConfig ==
    up => \A i \in DOMAIN clients :
             clients[i].role # NoRole =>
                 /\ config.loaded
                 /\ clients[i].role =
                        MergedRole(config, clients[i].uid, GidsOf[clients[i].uid])

(***************************************************************************)
(* A peer that was told a round-down clock request succeeded runs at most  *)
(* at the rate it asked for, so the user logic never runs faster than its  *)
(* timed frequency (clock.c).                                              *)
(***************************************************************************)
NoOverclock ==
    [][\A c \in Conns :
          /\ peer[c].asked.op = "clock_op" /\ peer[c].asked.cop = "set_round_down"
          /\ peer'[c].open /\ peer'[c].asked = NoRequest /\ Me.reply.ret = "OK"
          => Me.reply.value <= peer[c].asked.rate]_vars

(***************************************************************************)
(* An open buffer goes away only by its owner's own request, after its     *)
(* owner has gone, or together with the device struct.                     *)
(***************************************************************************)
BuffersKept ==
    [][\A d \in Listed(dm) : \A k \in DOMAIN d.buffers :
          Lives(dm', d.id) =>
              \/ \E j \in DOMAIN Device(dm', d.id).buffers :
                    Device(dm', d.id).buffers[j] = d.buffers[k]
              \/ loop.at = "dispatch" /\ Me.conn = d.buffers[k].client
              \/ \A i \in DOMAIN clients' : clients'[i].conn # d.buffers[k].client]_vars

\* A request that is framed, and whose answer borrows no descriptor of a device: the
\* struct may be freed by another request before a deferred answer is sent.
Answerable(r) == r.op \notin {"none", "unframed", "get_bar_fd", "buffer_open", "buffer_open_raw"}


(***************************************************************************)
(* The buffers of a peer that has gone are released ("automatically freed  *)
(* if the client disconnects", BUFFER_OPEN in serve.c).                    *)
(***************************************************************************)
BuffersReleased ==
    \A c \in Conns :
        (c <= next_conn /\ ~peer[c].open) ~>
            (~up \/ \A d \in Listed(dm) : \A k \in DOMAIN d.buffers : d.buffers[k].client # c)

=============================================================================

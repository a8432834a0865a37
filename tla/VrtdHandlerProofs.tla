-------------------------- MODULE VrtdHandlerProofs --------------------------
(***************************************************************************)
(* What every request handler and every step of a background thread of     *)
(* vrtd does, as one of the kinds of steps of VrtdInvariant.               *)
(***************************************************************************)
EXTENDS VrtdStepProofs, VrtdDeviceProofs

------------------------------------------------------------------------------
(* Steps of the device list *)

\* The operations on the buffers of conn.
LEMMA TouchedMoved ==
    ASSUME NEW m, DmOk(m), NEW n, NEW conn, Touched(m, n, conn)
    PROVE  Moved(m, n, conn)
<1>1. m.next <= n.next
  BY ListedFacts DEF Touched
<1> QED
  BY <1>1 DEF Touched, Moved

\* The struct of an identity that is listed.
LEMMA DeviceFacts ==
    ASSUME NEW m, NEW id, Lives(m, id)
    PROVE  Device(m, id) \in Listed(m) /\ Device(m, id).id = id
BY Zenon DEF Device, Lives

\* A replaced struct with the same memory.
LEMMA WithMoved ==
    ASSUME NEW m, DmOk(m), MemoryOk(m), NEW d \in Listed(m), NEW e \in Devices, Same(d, e),
           NEW conn
    PROVE  Moved(m, WithDevice(m, e), conn)
<1> DEFINE n == WithDevice(m, e)
<1>1. DmOk(n) /\ n.next = m.next /\ Listed(n) = (Listed(m) \ {d}) \cup {e}
  BY WithFacts DEF Same
<1> HIDE DEF n
<1>2. ASSUME NEW f \in Listed(n) PROVE \E c \in Listed(m) : Same(c, f)
  BY <1>1 DEF Same
<1>3. MemoryOk(n)
  BY <1>2 DEF MemoryOk, Same
<1>4. \A f \in Listed(n) : \E c \in Listed(m) : OnlyOf(c, f, conn)
  BY <1>2 DEF Same, OnlyOf
<1>5. m.next <= n.next
  BY <1>1, ListedFacts
<1> QED
  BY <1>1, <1>3, <1>4, <1>5 DEF Moved, n

\* Two steps, the first of which keeps memory.
LEMMA MovedAfter ==
    ASSUME NEW m, DmOk(m), NEW n, NEW p, NEW conn, Carried(m, n), Moved(n, p, conn)
    PROVE  Moved(m, p, conn)
<1>1. DmOk(p) /\ MemoryOk(p) /\ m.next <= p.next
  BY ListedFacts DEF Carried, Holds, Moved
<1>2. ASSUME NEW e \in Listed(p)
      PROVE  \/ e.id >= m.next /\ \A k \in DOMAIN e.buffers : e.buffers[k].client = conn
             \/ \E d \in Listed(m) : OnlyOf(d, e, conn)
  <2>1. CASE e.id >= n.next /\ \A k \in DOMAIN e.buffers : e.buffers[k].client = conn
    <3>1. e.id \in Nat /\ m.next \in Nat /\ n.next \in Nat /\ m.next <= n.next
      BY <1>1, ListedFacts DEF Carried, Holds, Devices
    <3> QED
      BY <2>1, <3>1
  <2>2. ASSUME NEW d \in Listed(n), OnlyOf(d, e, conn)
        PROVE  \/ e.id >= m.next /\ \A k \in DOMAIN e.buffers : e.buffers[k].client = conn
               \/ \E f \in Listed(m) : OnlyOf(f, e, conn)
    <3>1. CASE Fresh(m, d)
      BY <2>2, <3>1 DEF Fresh, OnlyOf
    <3>2. CASE \E f \in Listed(m) : Same(f, d)
      BY <2>2, <3>2 DEF Same, OnlyOf
    <3> QED
      BY <3>1, <3>2 DEF Carried, Holds
  <2> QED
    BY <2>1, <2>2 DEF Moved
<1> QED
  BY <1>1, <1>2 DEF Moved

\* A change of the clock registers.
LEMMA WizardCarried ==
    ASSUME NEW m, DmOk(m), NEW key, NEW regs
    PROVE  Carried(m, [m EXCEPT !.wizard[key] = regs])
<1> DEFINE w == [m.wizard EXCEPT ![key] = regs]
           n == [m EXCEPT !.wizard = w]
<1> HIDE DEF w
<1>1. /\ n \in [present : SUBSET Boards, list : Seq(Devices), next : Nat, wizard : {n.wizard}]
      /\ n.list = m.list /\ n.next = m.next
  BY DEF DmOk
<1> HIDE DEF n
<1>2. Listed(n) = Listed(m)
  BY <1>1 DEF Listed
<1>3. DmOk(n)
  BY <1>1, <1>2 DEF DmOk
<1>4. Carried(m, n)
  BY <1>1, <1>2, <1>3, ListedFacts, SMTT(30) DEF Carried, Holds, Quiet, Same
<1> QED
  BY <1>4 DEF n, w

------------------------------------------------------------------------------
(* Struct client *)

\* The struct after a handler's answer.
WithAnswer(c, role, reply) ==
    [c EXCEPT !.req = NoRequest, !.in_fd = FALSE, !.role = role, !.reply = reply]

\* Its fields.
LEMMA AnsweredClient ==
    ASSUME NEW c, IsClient(c), NEW role, NEW reply, NEW e, e = WithAnswer(c, role, reply)
    PROVE  /\ IsClient(e) /\ e.conn = c.conn /\ e.uid = c.uid /\ e.pending = c.pending
           /\ e.req = NoRequest /\ e.role = role /\ e.reply = reply
<1>1. /\ e.conn = c.conn /\ e.uid = c.uid /\ e.pending = c.pending
      /\ e.req = NoRequest /\ e.role = role /\ e.reply = reply
  BY DEF IsClient, WithAnswer
<1>2. IsClient(e)
  BY Zenon DEF IsClient, WithAnswer
<1> QED
  BY <1>1, <1>2

\* The struct of a client that is answered later.
WithWait(c, role, kind, wdev) ==
    [c EXCEPT !.in_fd = FALSE, !.role = role, !.pending = kind, !.wdev = wdev]

\* Its fields.
LEMMA HeldClient ==
    ASSUME NEW c, IsClient(c), NEW role, NEW kind, NEW wdev, NEW e, e = WithWait(c, role, kind, wdev)
    PROVE  /\ IsClient(e) /\ e.conn = c.conn /\ e.uid = c.uid /\ e.pending = kind
           /\ e.req = c.req /\ e.role = role /\ e.reply = c.reply
<1>1. /\ e.conn = c.conn /\ e.uid = c.uid /\ e.pending = kind
      /\ e.req = c.req /\ e.role = role /\ e.reply = c.reply
  BY DEF IsClient, WithWait
<1>2. IsClient(e)
  BY Zenon DEF IsClient, WithWait
<1> QED
  BY <1>1, <1>2

\* The struct after the answer to a design write.
WithFinal(c, reply) ==
    [c EXCEPT !.pending = "none", !.wdev = 0, !.req = NoRequest, !.reply = reply]

\* Its fields.
LEMMA FinalClient ==
    ASSUME NEW c, IsClient(c), NEW reply, NEW e, e = WithFinal(c, reply)
    PROVE  /\ IsClient(e) /\ e.conn = c.conn /\ e.uid = c.uid /\ e.pending = "none"
           /\ e.req = NoRequest /\ e.role = c.role /\ e.reply = reply
<1>1. /\ e.conn = c.conn /\ e.uid = c.uid /\ e.pending = "none"
      /\ e.req = NoRequest /\ e.role = c.role /\ e.reply = reply
  BY DEF IsClient, WithFinal
<1>2. IsClient(e)
  BY Zenon DEF IsClient, WithFinal
<1> QED
  BY <1>1, <1>2, SMTT(30)

------------------------------------------------------------------------------
(* Handlers *)

\* The tail of client_handle_request.
LEMMA AnswerFacts ==
    ASSUME IsClient(Me), NEW ret, NEW value, NEW fd, NEW role, Answer(ret, value, fd, role),
           RoleKept(role),
           Req.op = "clock_op" /\ Req.cop = "set_round_down" /\ ret = "OK" => value <= Req.rate
    PROVE  AnswerStep
<1> DEFINE reply == [ret |-> ret, value |-> value, fd |-> fd]
           e == WithAnswer(Me, role, reply)
<1>1. Becomes(e) /\ AfterHandler(TRUE)
  BY Zenon DEF Answer, Becomes, Me, WithAnswer
<1>2. reply.ret = ret /\ reply.value = value
  OBVIOUS
<1> HIDE DEF reply
<1>3. /\ IsClient(e) /\ e.conn = Me.conn /\ e.uid = Me.uid /\ e.pending = Me.pending
      /\ e.req = NoRequest /\ e.role = role /\ e.reply = reply
  BY AnsweredClient
<1> HIDE DEF e
<1>4. Replied(e)
  BY <1>2, <1>3 DEF Replied
<1> QED
  BY <1>1, <1>4, Zenon DEF AnswerStep

\* Its early return.
LEMMA LaterFacts ==
    ASSUME IsClient(Me), NEW kind, NEW wdev, NEW role, AnswerLater(kind, wdev, role),
           RoleKept(role), Req.op # "clock_op"
    PROVE  LaterStep(kind)
<1> DEFINE e == WithWait(Me, role, kind, wdev)
<1>1. Becomes(e) /\ AfterHandler(FALSE)
  BY Zenon DEF AnswerLater, Becomes, Me, WithWait
<1>2. /\ IsClient(e) /\ e.conn = Me.conn /\ e.uid = Me.uid /\ e.pending = kind
      /\ e.req = Req /\ e.role = role /\ e.reply = Me.reply
  BY HeldClient DEF Req
<1> HIDE DEF e
<1>3. Held(e, kind)
  BY <1>2 DEF Held
<1> QED
  BY <1>1, <1>3, Zenon DEF LaterStep

\* A handler's answer without a value.
LEMMA ReturnFacts ==
    ASSUME Handling, NEW ret, Return(ret), Me.role # NoRole \/ config.loaded
    PROVE  AnswerStep
<1>1. Req.op = "clock_op" => 0 <= Req.rate
  BY HandlingFacts, RequestsAssumption, SMTT(30)
<1>2. RoleKept(MyRole)
  BY DEF RoleKept
<1>3. Answer(ret, 0, NoFd, MyRole) /\ IsClient(Me)
  BY HandlingFacts DEF Return
<1> QED
  BY <1>1, <1>2, <1>3, AnswerFacts, SMTT(30)

\* A handler that leaves the device list alone.
LEMMA UntouchedFacts ==
    ASSUME Handling
    PROVE  Moved(dm, dm, Me.conn)
BY HandlingFacts, CarriedSame, CarriedMoved, SMTT(30)

\* The operations on one device are denied for an index outside the list.
LEMMA AuthorizedFacts ==
    ASSUME DaemonInv, NEW op, Authorized(op)
    PROVE  /\ Handling /\ Req.op = op /\ (Me.role # NoRole \/ config.loaded)
           /\ op \in {"get_bar_fd", "qpair_add", "qpair_op", "qpair_get_fd", "buffer_open",
                      "buffer_close", "buffer_open_raw", "design_write", "cfgmem_program",
                      "cfgmem_program_start", "clock_op", "hotplug_op", "set_shell_state"}
                 => Req.dev \in DOMAIN dm.list /\ dm.list[Req.dev] \in Listed(dm)
<1>1. Handling /\ Req.op = op /\ (Me.role # NoRole \/ config.loaded) /\ Permitted(Req)
  BY DEF Authorized, Dispatching, Handling
<1>2. op \in {"get_bar_fd", "qpair_add", "qpair_op", "qpair_get_fd", "buffer_open",
              "buffer_close", "buffer_open_raw", "design_write", "cfgmem_program",
              "cfgmem_program_start", "clock_op", "hotplug_op", "set_shell_state"}
         => SubsystemOf(op) # "query"
  BY DEF SubsystemOf
<1>3. SubsystemOf(op) # "query" => Req.dev \in DOMAIN dm.list
  BY <1>1 DEF Permitted
<1> QED
  BY <1>1, <1>2, <1>3, HandlingFacts, SMTT(30)

\* The handlers that change nothing but the client.
LEMMA InspectKinds ==
    ASSUME DaemonInv,
           \/ GetNumDevices \/ GetDeviceByBdf \/ GetDeviceInfo \/ GetBarInfo \/ QdmaGetInfo
           \/ GetSensorInfo \/ GetBarFd \/ QpairCall("qpair_add") \/ QpairCall("qpair_op")
           \/ QpairGetFd \/ CfgmemProgramStatus \/ Deny \/ UnknownOpcode
    PROVE  PlainStep
<1>1. ASSUME Handling, Sync, dm' = dm, AnswerStep
      PROVE  PlainStep
  BY <1>1, UntouchedFacts, SMTT(30) DEF PlainStep, Handling, Sync, Stays
<1>2. ASSUME NEW op, Authorized(op), Sync, dm' = dm, NEW ret, Return(ret)
      PROVE  PlainStep
  BY <1>1, <1>2, AuthorizedFacts, ReturnFacts, SMTT(30)
<1>3. ASSUME NEW op, op # "clock_op", Authorized(op), Sync, dm' = dm,
             NEW ret, NEW value, NEW fd, Answer(ret, value, fd, MyRole)
      PROVE  PlainStep
  <2>1. Handling /\ Req.op # "clock_op" /\ RoleKept(MyRole) /\ IsClient(Me)
    BY <1>3, AuthorizedFacts, HandlingFacts, SMTT(30) DEF RoleKept
  <2>2. AnswerStep
    BY <1>3, <2>1, AnswerFacts, SMTT(30)
  <2> QED
    BY <1>1, <1>3, <2>1, <2>2, SMTT(30)
<1>4. ASSUME NEW op, op # "clock_op", Dispatching(op), Sync, dm' = dm,
             NEW ret, NEW value, NEW fd, Answer(ret, value, fd, Me.role)
      PROVE  PlainStep
  <2>0. Handling /\ Req.op = op
    BY <1>4 DEF Dispatching, Handling
  <2>1. Req.op # "clock_op" /\ RoleKept(Me.role) /\ IsClient(Me)
    BY <1>4, <2>0, HandlingFacts, SMTT(30) DEF RoleKept
  <2>2. AnswerStep
    BY <1>4, <2>1, AnswerFacts, SMTT(30)
  <2> QED
    BY <1>1, <1>4, <2>0, <2>2, SMTT(30)
<1>5. CASE GetNumDevices
  BY <1>3, <1>5, SMTT(30) DEF GetNumDevices
<1>6. CASE GetDeviceByBdf
  BY <1>2, <1>3, <1>6, SMTT(30) DEF GetDeviceByBdf
<1>7. CASE GetDeviceInfo
  BY <1>2, <1>7 DEF GetDeviceInfo, GetInfo
<1>8. CASE GetBarInfo
  BY <1>2, <1>8 DEF GetBarInfo, GetInfo
<1>9. CASE QdmaGetInfo
  BY <1>2, <1>9 DEF QdmaGetInfo, GetInfo
<1>10. CASE GetSensorInfo
  BY <1>2, <1>10, SMTT(30) DEF GetSensorInfo, GetInfo
<1>11. CASE GetBarFd
  BY <1>2, <1>3, <1>11, SMTT(30) DEF GetBarFd
<1>12. CASE QpairCall("qpair_add")
  BY <1>2, <1>12 DEF QpairCall
<1>13. CASE QpairCall("qpair_op")
  BY <1>2, <1>13, SMTT(30) DEF QpairCall
<1>14. CASE QpairGetFd
  BY <1>2, <1>3, <1>14, SMTT(30) DEF QpairGetFd
<1>15. CASE CfgmemProgramStatus
  BY <1>4, <1>15 DEF CfgmemProgramStatus
<1>16. CASE Deny
  BY <1>1, <1>16, ReturnFacts DEF Deny, Handling
<1>17. CASE UnknownOpcode
  BY <1>4, <1>17 DEF UnknownOpcode
<1> QED
  BY <1>5, <1>6, <1>7, <1>8, <1>9, <1>10, <1>11, <1>12, <1>13, <1>14, <1>15, <1>16, <1>17, SMTT(30)

\* A handler that answers after a change of the device list.
LEMMA ChangeKinds ==
    ASSUME DaemonInv, Handling, Sync, AnswerStep, Req.op # "cfgmem_status",
           Carried(dm, dm') \/ Touched(dm, dm', Me.conn) \/ Moved(dm, dm', Me.conn)
    PROVE  PlainStep
<1>1. Moved(dm, dm', Me.conn)
  BY HandlingFacts, CarriedMoved, TouchedMoved
<1> QED
  BY <1>1 DEF PlainStep, Handling, Sync, Stays

\* The handlers on buffers.
LEMMA BufferKinds ==
    ASSUME DaemonInv, BufferOpen \/ BufferOpenRaw \/ BufferClose
    PROVE  PlainStep
<1>1. CASE BufferOpen
  <2> DEFINE d == dm.list[Req.dev]
  <2>1. Authorized("buffer_open") /\ Sync
    BY <1>1 DEF BufferOpen, OpenBuffer
  <2>2. /\ Handling /\ Req.op = "buffer_open" /\ (Me.role # NoRole \/ config.loaded)
        /\ d \in Listed(dm)
    BY <2>1, AuthorizedFacts
  <2>3. RoleKept(MyRole) /\ IsClient(Me)
    BY <2>2, HandlingFacts DEF RoleKept
  <2>4. CASE dm' = dm /\ \E ret : Return(ret)
    <3>1. AnswerStep
      BY <2>2, <2>4, ReturnFacts, SMTT(30)
    <3>2. Moved(dm, dm', Me.conn)
      BY <2>2, <2>4, UntouchedFacts, SMTT(30)
    <3> QED
      BY <2>1, <2>2, <3>1, <3>2, ChangeKinds, SMTT(30)
  <2>5. ASSUME NEW o \in BufferOpenOutcomes(dm, d, Req, Me.conn), dm' = o.dm,
               IF o.ret # "OK" THEN Return(o.ret)
               ELSE Answer("OK", o.buf.addr, [kind |-> "buffer", dev |-> d.id], MyRole)
        PROVE  PlainStep
    <3>1. AnswerStep
      BY <2>2, <2>3, <2>5, ReturnFacts, AnswerFacts, SMTT(30)
    <3>2. Req.size \in Nat /\ Req.arg \in Nat
      BY <2>2, HandlingFacts, RequestsAssumption, SMTT(30)
    <3>3. Touched(dm, o.dm, Me.conn)
      BY <2>2, <3>2, HandlingFacts, BufferOpenFacts, SMTT(30)
    <3> QED
      BY <2>1, <2>2, <2>5, <3>1, <3>3, ChangeKinds, SMTT(30)
  <2> QED
    BY <1>1, <2>4, <2>5, Zenon DEF BufferOpen, OpenBuffer
<1>2. CASE BufferOpenRaw
  <2> DEFINE d == dm.list[Req.dev]
  <2>1. Authorized("buffer_open_raw") /\ Sync
    BY <1>2 DEF BufferOpenRaw, OpenBuffer
  <2>2. /\ Handling /\ Req.op = "buffer_open_raw" /\ (Me.role # NoRole \/ config.loaded)
        /\ d \in Listed(dm)
    BY <2>1, AuthorizedFacts
  <2>3. RoleKept(MyRole) /\ IsClient(Me)
    BY <2>2, HandlingFacts, SMTT(30) DEF RoleKept
  <2>4. CASE dm' = dm /\ \E ret : Return(ret)
    <3>1. AnswerStep
      BY <2>2, <2>4, ReturnFacts, SMTT(30)
    <3>2. Moved(dm, dm', Me.conn)
      BY <2>2, <2>4, UntouchedFacts, SMTT(30)
    <3> QED
      BY <2>1, <2>2, <3>1, <3>2, ChangeKinds, SMTT(30)
  <2>5. ASSUME NEW o \in BufferOpenRawOutcomes(dm, d, Req, Me.conn), dm' = o.dm,
               IF o.ret # "OK" THEN Return(o.ret)
               ELSE Answer("OK", o.buf.addr, [kind |-> "buffer", dev |-> d.id], MyRole)
        PROVE  PlainStep
    <3>1. AnswerStep
      BY <2>2, <2>3, <2>5, ReturnFacts, AnswerFacts, SMTT(30)
    <3>2. Req.size \in Nat /\ Req.addr \in Nat
      BY <2>2, HandlingFacts, RequestsAssumption, SMTT(30)
    <3>3. Touched(dm, o.dm, Me.conn)
      BY <2>2, <3>2, HandlingFacts, BufferOpenRawFacts, SMTT(30)
    <3> QED
      BY <2>1, <2>2, <2>5, <3>1, <3>3, ChangeKinds, SMTT(30)
  <2> QED
    BY <1>2, <2>4, <2>5, SMTT(30) DEF BufferOpenRaw, OpenBuffer
<1>3. CASE BufferClose
  <2> DEFINE d == dm.list[Req.dev]
             i == FindBuffer(d, Req, Me.conn)
  <2>1. Authorized("buffer_close") /\ Sync
    BY <1>3, Zenon DEF BufferClose
  <2>2. /\ Handling /\ Req.op = "buffer_close" /\ (Me.role # NoRole \/ config.loaded)
        /\ d \in Listed(dm)
    BY <2>1, AuthorizedFacts
  <2>3. ASSUME NEW ret, Return(ret), dm' = dm
        PROVE  PlainStep
    <3>1. AnswerStep
      BY <2>2, <2>3, ReturnFacts, SMTT(30)
    <3>2. Moved(dm, dm', Me.conn)
      BY <2>2, <2>3, UntouchedFacts, SMTT(30)
    <3> QED
      BY <2>1, <2>2, <3>1, <3>2, ChangeKinds, SMTT(30)
  <2>4. ASSUME i # 0, Return("OK"), dm' = WithDevice(dm, DropBuffer(d, i))
        PROVE  PlainStep
    <3>1. AnswerStep
      BY <2>2, <2>4, ReturnFacts, SMTT(30)
    <3>2. Touched(dm, dm', Me.conn)
      BY <2>2, <2>4, HandlingFacts, BufferCloseFacts, SMTT(30)
    <3> QED
      BY <2>1, <2>2, <3>1, <3>2, ChangeKinds, SMTT(30)
  <2> QED
    BY <1>3, <2>3, <2>4, Zenon DEF BufferClose
<1> QED
  BY <1>1, <1>2, <1>3, SMTT(30)

\* The struct with another shell, or with the writer taking it over.
LEMMA StructFacts ==
    ASSUME NEW d \in Devices, NEW shell \in Shells, NEW jtag \in BOOLEAN, NEW e,
           \/ e = [d EXCEPT !.shell = shell, !.jtag = jtag]
           \/ e = [d EXCEPT !.writing = TRUE, !.failed = FALSE]
    PROVE  e \in Devices /\ Same(d, e)
<1>1. CASE e = [d EXCEPT !.shell = shell, !.jtag = jtag]
  <2>1. e \in Devices
    BY <1>1, Zenon DEF Devices
  <2>2. Same(d, e)
    BY <1>1, SMTT(30) DEF Devices, Same
  <2> QED
    BY <2>1, <2>2
<1>2. CASE e = [d EXCEPT !.writing = TRUE, !.failed = FALSE]
  <2>1. e \in Devices
    BY <1>2, Zenon DEF Devices
  <2>2. Same(d, e)
    BY <1>2 DEF Devices, Same
  <2> QED
    BY <2>1, <2>2
<1> QED
  BY <1>1, <1>2, SMTT(30)

\* design_writer_submit_fd_async.
LEMMA SubmitFacts ==
    ASSUME NEW m, DmOk(m), MemoryOk(m), NEW d \in Listed(m), NEW conn
    PROVE  Moved(m, Submit(m, d), conn)
<1> DEFINE e == [d EXCEPT !.writing = TRUE, !.failed = FALSE]
<1>1. d \in Devices /\ Submit(m, d) = WithDevice(m, e)
  BY ListedFacts DEF Submit
<1>2. e \in Devices /\ Same(d, e)
  BY <1>1, StructFacts, Zenon DEF Shells
<1> HIDE DEF e
<1> QED
  BY <1>1, <1>2, WithMoved, SMTT(30)

\* clock_op and set_shell_state.
LEMMA ClockKinds ==
    ASSUME DaemonInv, ClockOp \/ SetShellState
    PROVE  PlainStep
<1>1. CASE ClockOp
  <2> DEFINE key == <<dm.list[Req.dev].bdf, Req.region>>
             down == Req.cop = "set_round_down"
  <2>1. Authorized("clock_op") /\ Sync
    BY <1>1, Zenon DEF ClockOp
  <2>2. Handling /\ Req.op = "clock_op" /\ (Me.role # NoRole \/ config.loaded)
    BY <2>1, AuthorizedFacts, SMTT(30)
  <2>3. RoleKept(MyRole) /\ IsClient(Me) /\ Req.rate \in Nat
    BY <2>2, HandlingFacts, RequestsAssumption, SMTT(30) DEF RoleKept
  <2>4. ASSUME NEW ret, Return(ret), dm' = dm
        PROVE  PlainStep
    <3>1. AnswerStep
      BY <2>2, <2>4, ReturnFacts, SMTT(30)
    <3>2. Moved(dm, dm', Me.conn)
      BY <2>2, <2>4, UntouchedFacts, SMTT(30)
    <3> QED
      BY <2>1, <2>2, <3>1, <3>2, ChangeKinds, SMTT(30)
  <2>5. ASSUME Req.cop = "get", Answer("OK", RateOf(dm.wizard[key]), NoFd, MyRole), dm' = dm
        PROVE  PlainStep
    <3>1. AnswerStep
      BY <2>3, <2>5, AnswerFacts, SMTT(30)
    <3>2. Moved(dm, dm', Me.conn)
      BY <2>2, <2>5, UntouchedFacts, SMTT(30)
    <3> QED
      BY <2>1, <2>2, <3>1, <3>2, ChangeKinds
  <2>6. ASSUME Req.rate # 0, NEW o \in SetRateOutcomes(dm.wizard[key], Req.rate, down),
               dm' = [dm EXCEPT !.wizard[key] = o.regs],
               IF o.ok THEN Answer("OK", RateOf(o.regs), NoFd, MyRole) ELSE Return("INTERNAL_ERROR")
        PROVE  PlainStep
    <3>1. ASSUME o.ok, Req.cop = "set_round_down" PROVE RateOf(o.regs) <= Req.rate
      <4>1. down = TRUE
        BY <3>1
      <4>2. o \in SetRateOutcomes(dm.wizard[key], Req.rate, TRUE)
        BY <2>6, <4>1, Zenon
      <4> QED
        BY <2>3, <2>6, <3>1, <4>2, RoundDownFacts, Zenon
    <3>2. AnswerStep
      BY <2>2, <2>3, <2>6, <3>1, AnswerFacts, ReturnFacts, SMTT(30)
    <3>3. Carried(dm, dm')
      BY <2>2, <2>6, HandlingFacts, WizardCarried, Zenon
    <3> QED
      BY <2>1, <2>2, <3>2, <3>3, ChangeKinds, SMTT(30)
  <2> QED
    BY <1>1, <2>4, <2>5, <2>6, Zenon DEF ClockOp
<1>2. CASE SetShellState
  <2> DEFINE d == dm.list[Req.dev]
             e == [d EXCEPT !.shell = Req.shell, !.jtag = Req.jtag]
  <2>1. Authorized("set_shell_state") /\ Sync
    BY <1>2 DEF SetShellState
  <2>2. /\ Handling /\ Req.op = "set_shell_state" /\ (Me.role # NoRole \/ config.loaded)
        /\ d \in Listed(dm)
    BY <2>1, AuthorizedFacts, SMTT(30)
  <2>3. ASSUME NEW ret, Return(ret), dm' = dm
        PROVE  PlainStep
    <3>1. AnswerStep
      BY <2>2, <2>3, ReturnFacts, SMTT(30)
    <3>2. Moved(dm, dm', Me.conn)
      BY <2>2, <2>3, UntouchedFacts, SMTT(30)
    <3> QED
      BY <2>1, <2>2, <3>1, <3>2, ChangeKinds, SMTT(30)
  <2>4. ASSUME Req.shell \in {"service", "compute"}, Return("OK"), dm' = WithDevice(dm, e)
        PROVE  PlainStep
    <3>1. AnswerStep
      BY <2>2, <2>4, ReturnFacts, SMTT(30)
    <3>2. Req.jtag \in BOOLEAN /\ Req.shell \in Shells /\ d \in Devices
      BY <2>2, <2>4, HandlingFacts, ListedFacts, RequestsAssumption, SMTT(30) DEF Shells
    <3>3. e \in Devices /\ Same(d, e)
      BY <3>2, StructFacts, Zenon
    <3> HIDE DEF e
    <3>4. Moved(dm, dm', Me.conn)
      BY <2>2, <2>4, <3>3, HandlingFacts, WithMoved, SMTT(30)
    <3> QED
      BY <2>1, <2>2, <3>1, <3>4, ChangeKinds
  <2> QED
    BY <1>2, <2>3, <2>4, SMTT(30) DEF SetShellState
<1> QED
  BY <1>1, <1>2

\* device_hotplug_op without the reset sequence.
LEMMA HotplugKinds ==
    ASSUME DaemonInv, HotplugRescan \/ HotplugOp
    PROVE  PlainStep
<1>1. CASE HotplugRescan
  <2>1. Handling /\ Req.op = "hotplug_op" /\ Sync
    BY <1>1 DEF HotplugRescan, Dispatching, Handling
  <2>2. PICK o \in RescanRequestOutcomes(dm) : dm' = o.dm /\ Answer(o.ret, 0, NoFd, Me.role)
    BY <1>1 DEF HotplugRescan
  <2>3. RoleKept(Me.role) /\ IsClient(Me)
    BY <2>1, HandlingFacts, SMTT(30) DEF RoleKept
  <2>4. AnswerStep
    BY <2>1, <2>2, <2>3, AnswerFacts, SMTT(30)
  <2>5. Carried(dm, dm')
    BY <2>1, <2>2, HandlingFacts, RescanRequestFacts, SMTT(30)
  <2> QED
    BY <2>1, <2>4, <2>5, ChangeKinds, SMTT(30)
<1>2. CASE HotplugOp
  <2> DEFINE d == dm.list[Req.dev]
  <2>1. Authorized("hotplug_op") /\ Sync
    BY <1>2, SMTT(30) DEF HotplugOp
  <2>2. /\ Handling /\ Req.op = "hotplug_op" /\ (Me.role # NoRole \/ config.loaded)
        /\ d \in Listed(dm)
    BY <2>1, AuthorizedFacts, SMTT(30)
  <2>3. ASSUME NEW ret, Return(ret), dm' = dm
        PROVE  PlainStep
    <3>1. AnswerStep
      BY <2>2, <2>3, ReturnFacts, SMTT(30)
    <3>2. Moved(dm, dm', Me.conn)
      BY <2>2, <2>3, UntouchedFacts, SMTT(30)
    <3> QED
      BY <2>1, <2>2, <3>1, <3>2, ChangeKinds, SMTT(30)
  <2>4. ASSUME NEW o, Return(o.ret), dm' = o.dm,
               \/ o \in HotplugAllOutcomes(dm, d, Req.hop)
               \/ o \in HotplugOneOutcomes(dm, d, Req.hop, Req.function)
        PROVE  PlainStep
    <3>1. AnswerStep
      BY <2>2, <2>4, ReturnFacts, SMTT(30)
    <3>2. Carried(dm, dm')
      BY <2>2, <2>4, HandlingFacts, HotplugAllFacts, HotplugOneFacts, Zenon
    <3> QED
      BY <2>1, <2>2, <3>1, <3>2, ChangeKinds, SMTT(30)
  <2> QED
    BY <1>2, <2>3, <2>4, SMTT(30) DEF HotplugOp
<1> QED
  BY <1>1, <1>2

\* design_write.
LEMMA WriteKinds ==
    ASSUME DaemonInv, DesignWrite
    PROVE  PlainStep
<1> DEFINE d == dm.list[Req.dev]
           Again(o) == {e \in FindByBdf(o.dm, d.bdf) : e.qdma}
<1>1. Authorized("design_write") /\ Sync
  BY Zenon DEF DesignWrite
<1>2. /\ Handling /\ Req.op = "design_write" /\ (Me.role # NoRole \/ config.loaded)
      /\ d \in Listed(dm)
  BY <1>1, AuthorizedFacts, SMTT(30)
<1>3. RoleKept(MyRole) /\ IsClient(Me) /\ DmOk(dm) /\ MemoryOk(dm)
  BY <1>2, HandlingFacts, SMTT(30) DEF RoleKept
<1>4. ASSUME NEW ret, Return(ret), dm' = dm
      PROVE  PlainStep
  <2>1. AnswerStep
    BY <1>2, <1>4, ReturnFacts, SMTT(30)
  <2>2. Moved(dm, dm', Me.conn)
    BY <1>2, <1>4, UntouchedFacts, SMTT(30)
  <2> QED
    BY <1>1, <1>2, <2>1, <2>2, ChangeKinds, SMTT(30)
<1>5. ASSUME NEW wdev, AnswerLater("write", wdev, MyRole), Moved(dm, dm', Me.conn)
      PROVE  PlainStep
  <2>1. LaterStep("write")
    BY <1>2, <1>3, <1>5, LaterFacts, SMTT(30)
  <2> QED
    BY <1>1, <1>2, <1>5, <2>1, SMTT(30) DEF PlainStep, Handling, Sync, Stays
<1>6. ASSUME dm' = Submit(dm, d), AnswerLater("write", d.id, MyRole)
      PROVE  PlainStep
  BY <1>2, <1>3, <1>5, <1>6, SubmitFacts, SMTT(30)
<1>7. ASSUME NEW o \in ResetOutcomes(dm, d, BootPartition(Req.shell)), Return(o.ret), dm' = o.dm
      PROVE  PlainStep
  <2>1. AnswerStep
    BY <1>2, <1>7, ReturnFacts, SMTT(30)
  <2>2. Carried(dm, dm')
    BY <1>2, <1>3, <1>7, ResetFacts, SMTT(30)
  <2> QED
    BY <1>1, <1>2, <2>1, <2>2, ChangeKinds, SMTT(30)
<1>8. ASSUME NEW o \in ResetOutcomes(dm, d, BootPartition(Req.shell)), Return("NOEXIST"), dm' = o.dm
      PROVE  PlainStep
  <2>1. AnswerStep
    BY <1>2, <1>8, ReturnFacts, SMTT(30)
  <2>2. Carried(dm, dm')
    BY <1>2, <1>3, <1>8, ResetFacts, SMTT(30)
  <2> QED
    BY <1>1, <1>2, <2>1, <2>2, ChangeKinds
<1>9. ASSUME NEW o \in ResetOutcomes(dm, d, BootPartition(Req.shell)), NEW e \in Again(o),
             dm' = Submit(o.dm, e), AnswerLater("write", e.id, MyRole)
      PROVE  PlainStep
  <2>1. Carried(dm, o.dm) /\ e \in Listed(o.dm)
    BY <1>2, <1>3, <1>9, ResetFacts, SMTT(30) DEF FindByBdf
  <2>2. DmOk(o.dm) /\ MemoryOk(o.dm)
    BY <1>3, <2>1, CarriedMemory, Zenon DEF Carried
  <2>3. Moved(o.dm, dm', Me.conn)
    BY <1>9, <2>1, <2>2, SubmitFacts, Zenon
  <2>4. Moved(dm, dm', Me.conn)
    BY <1>3, <2>1, <2>3, MovedAfter, SMTT(30)
  <2> QED
    BY <1>5, <1>9, <2>4, SMTT(30)
<1> HIDE DEF d
<1> QED
  BY <1>4, <1>6, <1>7, <1>8, <1>9, Zenon DEF DesignWrite, d

\* The handlers that may start a job.
LEMMA JobKinds ==
    ASSUME DaemonInv,
           \/ CfgmemProgram("cfgmem_program") \/ CfgmemProgram("cfgmem_program_start")
           \/ ResetSequence
    PROVE  PlainStep \/ JobStep
<1>1. /\ UNCHANGED <<up, config, dm, cleanups, next_conn, peer, sent>>
      /\ \E op \in {"cfgmem_program", "cfgmem_program_start", "hotplug_op"} : Authorized(op)
  BY SMTT(30) DEF CfgmemProgram, ResetSequence
<1>2. /\ Handling /\ Req.op \in {"cfgmem_program", "cfgmem_program_start", "hotplug_op"}
      /\ (Me.role # NoRole \/ config.loaded)
  BY <1>1, AuthorizedFacts, SMTT(30)
<1>3. RoleKept(MyRole) /\ IsClient(Me)
  BY <1>2, HandlingFacts, SMTT(30) DEF RoleKept
<1>4. ASSUME NEW ret, Return(ret), UNCHANGED <<async_op, flash>>
      PROVE  PlainStep
  <2>1. AnswerStep
    BY <1>2, <1>4, ReturnFacts, SMTT(30)
  <2>2. Moved(dm, dm', Me.conn)
    BY <1>1, <1>2, UntouchedFacts, SMTT(30)
  <2> QED
    BY <1>1, <1>2, <1>4, <2>1, <2>2, SMTT(30) DEF PlainStep, Handling, Stays
<1>5. ASSUME NEW kind, NEW d, NEW partition, flash' = Job(kind, d, partition)
      PROVE  IsFlash(flash') /\ flash'.owner = Me.conn
  <2>1. /\ flash'.step = "queued" /\ flash'.kind = kind /\ flash'.dev = d.id /\ flash'.bdf = d.bdf
        /\ flash'.partition = partition /\ flash'.owner = Me.conn /\ flash'.job = flash.job + 1
        /\ flash'.result = "INTERNAL_ERROR"
    BY <1>5, SMTT(30) DEF Job
  <2>2. IsFlash(Job(kind, d, partition))
    BY SMTT(30) DEF Job, IsFlash
  <2> QED
    BY <1>5, <2>1, <2>2, SMTT(30)
<1>6. ASSUME NEW kind, NEW d, NEW partition, flash' = Job(kind, d, partition), ~WorkerBusy,
             async_op' = TRUE,
             AnswerLater("device", 0, MyRole) \/ Answer("OK", flash'.job, NoFd, MyRole)
      PROVE  JobStep
  <2>1. AnswerStep \/ LaterStep("device")
    <3>1. CASE AnswerLater("device", 0, MyRole)
      BY <1>2, <1>3, <3>1, LaterFacts, SMTT(30)
    <3>2. CASE Answer("OK", flash'.job, NoFd, MyRole)
      BY <1>2, <1>3, <3>2, AnswerFacts, SMTT(30)
    <3> QED
      BY <1>6, <3>1, <3>2, SMTT(30)
  <2>2. IsFlash(flash') /\ flash'.owner = Me.conn
    BY <1>5, <1>6
  <2> QED
    BY <1>1, <1>2, <1>6, <2>1, <2>2, SMTT(30) DEF JobStep, Handling, Stays
<1>7. ASSUME NEW op \in {"cfgmem_program", "cfgmem_program_start"}, CfgmemProgram(op)
      PROVE  PlainStep \/ JobStep
  BY <1>4, <1>6, <1>7, Zenon DEF CfgmemProgram
<1>8. CASE ResetSequence
  BY <1>4, <1>6, <1>8, Zenon DEF ResetSequence
<1> QED
  BY <1>7, <1>8, SMTT(30)

\* Every request handler is one of three kinds of step.
LEMMA HandleKinds ==
    ASSUME DaemonInv, Handle
    PROVE  PlainStep \/ JobStep \/ RoleLookupAborts
BY InspectKinds, BufferKinds, ClockKinds, HotplugKinds, WriteKinds, JobKinds, SMTT(30) DEF Handle

------------------------------------------------------------------------------
(* Background threads *)

\* A step of the worker's program.
LEMMA FlashToFacts ==
    ASSUME IsFlash(flash), NEW step, NEW result, FlashTo(step, result)
    PROVE  IsFlash(flash') /\ flash'.owner = flash.owner /\ flash'.step = step
<1>1. flash' = [flash EXCEPT !.step = step, !.result = result]
  BY DEF FlashTo
<1>2. flash'.owner = flash.owner /\ flash'.step = step
  BY <1>1 DEF IsFlash
<1>3. IsFlash([flash EXCEPT !.step = step, !.result = result])
  BY Zenon DEF IsFlash
<1>4. IsFlash(flash')
  BY <1>1, <1>3
<1> QED
  BY <1>2, <1>4

\* Every step of the flash worker or of a design writer is such a step.
LEMMA ThreadKinds ==
    ASSUME DaemonInv, FlashStep \/ WriterStep
    PROVE  ThreadStep
<1>1. IsFlash(flash) /\ DmOk(dm)
  BY Zenon DEF DaemonInv, TypeInv, MemoryInv
<1>2. ASSUME flash.step # "idle", FlashOnly, NEW step, NEW result, FlashTo(step, result),
             Carried(dm, dm')
      PROVE  ThreadStep
  BY <1>1, <1>2, FlashToFacts, SMTT(30) DEF ThreadStep, FlashOnly
<1>3. dm' = dm => Carried(dm, dm')
  BY <1>1, CarriedSame
<1>4. CASE FlashTake
  BY <1>2, <1>3, <1>4, SMTT(30) DEF FlashTake
<1>5. CASE FlashDownload
  BY <1>2, <1>3, <1>5, SMTT(30) DEF FlashDownload
<1>6. CASE FlashRemoveDevice
  <2>1. Carried(dm, dm')
    BY <1>1, <1>6, RemoveFacts, SMTT(30) DEF FlashRemoveDevice
  <2> QED
    BY <1>2, <1>6, <2>1, SMTT(30) DEF FlashRemoveDevice
<1>7. CASE FlashAmi
  BY <1>2, <1>3, <1>7, SMTT(30) DEF FlashAmi
<1>8. CASE FlashBus
  <2>1. Carried(dm, dm')
    BY <1>1, <1>8, BusFacts, SMTT(30) DEF FlashBus
  <2> QED
    BY <1>2, <1>8, <2>1, SMTT(30) DEF FlashBus
<1>9. CASE FlashRediscover
  <2>1. Carried(dm, dm')
    BY <1>1, <1>9, RediscoverFacts, SMTT(30) DEF FlashRediscover
  <2> QED
    BY <1>2, <1>9, <2>1, SMTT(30) DEF FlashRediscover
<1>10. CASE FlashPublish
  BY <1>2, <1>3, <1>10, SMTT(30) DEF FlashPublish
<1>11. ASSUME NEW id, NEW ok \in BOOLEAN, WriterDone(id, ok)
       PROVE  ThreadStep
  <2> DEFINE d == Device(dm, id)
             bars == IF ok /\ d.bars = "fresh" THEN "stale" ELSE d.bars
             e == [d EXCEPT !.writing = FALSE, !.failed = ~ok, !.bars = bars]
  <2>1. d \in Listed(dm) /\ d \in Devices
    BY <1>1, <1>11, DeviceFacts, ListedFacts, SMTT(30) DEF WriterDone
  <2>2. dm' = WithDevice(dm, e)
    BY <1>11 DEF WriterDone
  <2> HIDE DEF d
  <2>3. bars \in {"fresh", "stale", "none"} /\ (~ok) \in BOOLEAN
    BY <2>1 DEF Devices
  <2> HIDE DEF bars
  <2>4. e \in Devices
    BY <2>1, <2>3, Zenon DEF Devices
  <2>5. Same(d, e) /\ e.writing = FALSE
    BY <2>1 DEF Devices, Same
  <2> HIDE DEF e
  <2>6. Carried(dm, dm')
    BY <1>1, <2>1, <2>2, <2>4, <2>5, WithCarried, SMTT(30)
  <2> QED
    BY <1>1, <1>11, <2>6, SMTT(30) DEF WriterDone, ThreadStep
<1> QED
  BY <1>4, <1>5, <1>6, <1>7, <1>8, <1>9, <1>10, <1>11, Zenon DEF FlashStep, WriterStep

\* Every step that finalizes design writes is such a step.
LEMMA FinalizeKinds ==
    ASSUME DaemonInv, FinalizeSkip \/ FinalizeWrite \/ FinalizeDangling
    PROVE  FinalizeStep
<1>1. loop.at = "finalize" /\ FinalizeOnly /\ DmOk(dm)
  BY DEF FinalizeSkip, FinalizeWrite, FinalizeDangling, DaemonInv, MemoryInv
<1>2. loop.i \in DOMAIN clients /\ IsClient(Me)
  BY <1>1, Zenon DEF DaemonInv, TypeInv, Me
<1>3. dm' = dm => Carried(dm, dm')
  BY <1>1, CarriedSame
<1>4. ASSUME NEW ret, Me.pending = "write", FinalAnswer(ret)
      PROVE  NextWrite /\ \E e : Becomes(e) /\ Finished(e)
  <2> DEFINE reply == [ret |-> ret, value |-> 0, fd |-> NoFd]
             e == WithFinal(Me, reply)
  <2>1. NextWrite /\ Becomes(e)
    BY <1>4, SMTT(30) DEF FinalAnswer, Becomes, WithFinal, Me
  <2> HIDE DEF reply
  <2>2. Finished(e)
    BY <1>2, <1>4, FinalClient, SMTT(30) DEF Finished
  <2> HIDE DEF e
  <2> QED
    BY <2>1, <2>2, SMTT(30)
<1>5. CASE FinalizeSkip
  BY <1>1, <1>3, <1>5, SMTT(30) DEF FinalizeSkip, FinalizeStep
<1>6. CASE FinalizeWrite
  <2> DEFINE d == Device(dm, Me.wdev)
  <2>1. d \in Listed(dm) /\ Me.pending = "write" /\ up' = up
    BY <1>6, DeviceFacts, Zenon DEF FinalizeWrite
  <2>2. \E ret : FinalAnswer(ret)
    BY <1>6, SMTT(30) DEF FinalizeWrite
  <2>3. dm' = dm \/ \E o \in RefreshOutcomes(dm, d) : dm' = o.dm
    BY <1>6, SMTT(30) DEF FinalizeWrite
  <2> HIDE DEF d
  <2>4. Carried(dm, dm')
    BY <1>1, <1>3, <2>1, <2>3, RefreshFacts, SMTT(30)
  <2> QED
    BY <1>1, <1>4, <2>1, <2>2, <2>4, SMTT(30) DEF FinalizeStep
<1>7. CASE FinalizeDangling
  <2>1. Me.pending = "write" /\ Carried(dm, dm')
    BY <1>3, <1>7, SMTT(30) DEF FinalizeDangling
  <2>2. CASE NextWrite /\ UNCHANGED <<up, clients>>
    BY <1>1, <2>1, <2>2, SMTT(30) DEF FinalizeStep
  <2>3. CASE \E ret \in {"OK", "INTERNAL_ERROR"} : FinalAnswer(ret) /\ UNCHANGED up
    BY <1>1, <1>4, <2>1, <2>3, SMTT(30) DEF FinalizeStep
  <2>4. CASE up' = FALSE /\ UNCHANGED <<clients, loop>>
    BY <1>1, <2>1, <2>4 DEF FinalizeStep
  <2> QED
    BY <1>7, <2>2, <2>3, <2>4, Zenon DEF FinalizeDangling
<1> QED
  BY <1>5, <1>6, <1>7

==============================================================================

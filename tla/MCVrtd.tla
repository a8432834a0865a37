------------------------------- MODULE MCVrtd -------------------------------
(* Small instances of Vrtd: the boards, users, configurations and requests. *)
EXTENDS Vrtd, TLC

MCUsers == {"alice"}
MCGroups == {"lab"}
MCGidsOf == [u \in MCUsers |-> MCGroups]
OneBoard == {"b0"}
TwoBoards == {"b0", "b1"}

(* Configurations: vrtd.conf includes a file that grants and one that binds. *)
MCMain == << <<"etc">>, "vrtd.conf" >>
Grants == << <<"etc", "d">>, "a.conf" >>

Flag(role, bdf, flag, value) ==
    [key |-> "policy", role |-> role, bdf |-> bdf, flag |-> flag, value |-> value]

Everything ==
    << Flag("admin", "any", "bar", "yes"), Flag("admin", "any", "qdma", "yes"),
       Flag("admin", "any", "buffer", "yes"), Flag("admin", "any", "design_write", "yes"),
       Flag("admin", "any", "cfgmem_program", "yes"), Flag("admin", "any", "clock", "yes"),
       Flag("admin", "any", "pcie_hotplug", "yes"),
       Flag("admin", "any", "raw_mem_access", "yes"),
       [key |-> "role", role |-> "admin", value |-> "yes"] >>

Includes(path) == [key |-> "include", path |-> path]
GlobsBelow == [key |-> "include-glob", relative |-> TRUE, dir |-> <<"d">>]

\* Everybody may do everything.
OpenHouse ==
    MCMain :> << Includes(MCMain), GlobsBelow, [key |-> "user", name |-> "*", role |-> "admin"] >>
      @@ Grants :> Everything

\* The group lab may inspect, and open buffers on one board only.
LabOnly ==
    MCMain :> << Includes(Grants), [key |-> "group", name |-> "lab", role |-> "guest"] >>
      @@ Grants :> << Flag("guest", "any", "buffer", "no"), Flag("guest", "b0", "buffer", "yes"),
                      [key |-> "role", role |-> "guest", value |-> "yes"] >>

\* A user the password database does not know.
Broken == MCMain :> << [key |-> "user", name |-> "carol", role |-> "admin"] >>

OneConfig == {OpenHouse}
AllConfigs == {OpenHouse, LabOnly, Broken}

(* Requests *)
R(op, dev) == [op |-> op, dev |-> dev, fd |-> FALSE]

DesignWriteOf(dev, shell) == [op |-> "design_write", dev |-> dev, fd |-> TRUE, shell |-> shell]
CfgmemOf(op, partition) ==
    [op |-> op, dev |-> 1, fd |-> TRUE, valid |-> TRUE, partition |-> partition]
StatusOf(job) == [op |-> "cfgmem_status", fd |-> FALSE, job |-> job]
Hotplug(hop, function) ==
    [op |-> "hotplug_op", dev |-> 1, fd |-> FALSE, hop |-> hop, function |-> function,
     shell |-> "compute"]
OpenOf(type, size) ==
    [op |-> "buffer_open", dev |-> 1, fd |-> FALSE, type |-> type, size |-> size, arg |-> 0,
     channel |-> "auto"]
RawOf(addr, size) ==
    [op |-> "buffer_open_raw", dev |-> 1, fd |-> FALSE, addr |-> addr, size |-> size,
     channel |-> "0"]
CloseOf(addr, size) ==
    [op |-> "buffer_close", dev |-> 1, fd |-> FALSE, addr |-> addr, size |-> size]
ClockOf(region, cop, rate) ==
    [op |-> "clock_op", dev |-> 1, fd |-> FALSE, region |-> region, cop |-> cop, rate |-> rate]
ShellOf(shell, jtag) ==
    [op |-> "set_shell_state", dev |-> 1, fd |-> FALSE, shell |-> shell, jtag |-> jtag]

\* What takes the device list away, and what waits for it.
AsyncRequests ==
    {DesignWriteOf(1, "compute"),
     CfgmemOf("cfgmem_program", 1), CfgmemOf("cfgmem_program_start", 0), StatusOf(1),
     Hotplug("reset", AllFunctions), OpenOf("DDR", 2), CloseOf(0, 2)}

\* A client that opens one buffer.
OpenRequests == {OpenOf("DDR", 2)}

\* Every other request, with its edges.
OpRequests ==
    {R("get_num_devices", 0), R("get_device_info", 1), R("get_bar_info", 1),
     R("qdma_get_info", 2), R("get_sensor_info", 1), R("get_bar_fd", 1), R("qpair_add", 1),
     R("qpair_op", 1), R("qpair_get_fd", 1),
     [op |-> "get_device_by_bdf", fd |-> FALSE, bdf |-> "b0"],
     [op |-> "unknown", fd |-> FALSE], [op |-> "unframed", fd |-> FALSE],
     OpenOf("DDR", 3), OpenOf("HBM", 2), OpenOf("HBM_VNOC", 1), RawOf(0, 2), CloseOf(0, 4),
     CloseOf(0, 2), CloseOf(100, 2),
     ClockOf("user", "set_round_down", 8), ClockOf("service", "set", 11),
     ClockOf("user", "get", 0), ShellOf("service", TRUE), ShellOf("compute", FALSE),
     DesignWriteOf(1, "compute"), Hotplug("rescan", AllFunctions), Hotplug("remove", AllFunctions),
     Hotplug("remove", 0), Hotplug("hotplug", AllFunctions), Hotplug("toggle_sbr", 0),
     Hotplug("hotplug", 2), [Hotplug("remove", AllFunctions) EXCEPT !.dev = 2]}

=============================================================================

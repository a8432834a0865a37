---------------------------- MODULE VrtdDevices ----------------------------
(***************************************************************************)
(* vrtd's device list and what changes it: discovery (device.c), PCIe      *)
(* hotplug (hotplug.c and the hotplug handler of serve.c), the AMI reset   *)
(* (reset.c), the refresh after a design write (serve.c) and the buffers   *)
(* of a device (buffer.c).                                                 *)
(*                                                                         *)
(* The state is one record dm:                                             *)
(*   present   the boards whose PF2 control node exists                    *)
(*   list      the struct device array, in order; epoch of a struct counts *)
(*             how often its BAR files were closed and opened again        *)
(*   next      the identity the next struct device gets: two structs of    *)
(*             one board differ in it, as their addresses do               *)
(*   wizard    the clocking wizard registers of every board and region     *)
(* Calls into the kernel and the AMI library can fail; the operators below *)
(* give the set of their outcomes, the failures limited to Faults.         *)
(***************************************************************************)
EXTENDS VrtdConfig, VrtdAlloc, VrtdClock

CONSTANTS
    Faults      \* the calls that may fail, a subset of FaultKinds

FaultKinds ==
    {"glob", "open", "qdma", "ami", "remove", "sbr", "rescan", "lost", "ctl",
     "bar", "transfer", "download", "qpair"}

ASSUME FaultsAssumption == Faults \subseteq FaultKinds

ASSUME BoardsAssumption == IsFiniteSet(Boards)

\* enum vrtd_shell_type.
Shells == {"unknown", "service", "compute"}

Regions == {"service", "user"}

\* The answer codes a failed hotplug ioctl maps to (hotplug_errno_to_vrtd_ret).
HotplugErrors == {"INVALID_ARGUMENT", "NOEXIST", "BUSY", "AUTH_ERROR", "INTERNAL_ERROR"}

----------------------------------------------------------------------------
(* struct device *)

\* device_open: fresh tracking structures, shell unknown; without a paired QDMA node
\* there is no queue access and no design writer.
Opened(id, bdf, qdma) ==
    [id |-> id, bdf |-> bdf, shell |-> "unknown", jtag |-> FALSE, qdma |-> qdma,
     writing |-> FALSE, failed |-> FALSE, ctl |-> TRUE, bars |-> "fresh", epoch |-> 0,
     buffers |-> << >>, map |-> EmptyMap]

Listed(dm) == {dm.list[i] : i \in DOMAIN dm.list}

\* The device struct with this identity is still in the list.
Lives(dm, id) == \E d \in Listed(dm) : d.id = id

Device(dm, id) == CHOOSE d \in Listed(dm) : d.id = id

\* The list with the struct of that identity replaced.
WithDevice(dm, new) ==
    [dm EXCEPT !.list = [i \in DOMAIN @ |-> IF @[i].id = new.id THEN new ELSE @[i]]]

\* The compaction of _rm_by_reference (array.h): the elements of S stay, in order.
Compact(s, S) ==
    LET to[n \in 0..Len(s)] ==
            IF n = 0 THEN << >>
            ELSE IF s[n] \in S THEN Append(to[n - 1], s[n]) ELSE to[n - 1]
    IN to[Len(s)]

\* device_ptr_array_rm_by_reference: cleanup_device frees the buffers, joins the
\* writer thread and closes every handle of the struct.
RemoveDevice(dm, id) == [dm EXCEPT !.list = Compact(@, {d \in Listed(dm) : d.id # id})]

\* device_ptr_array_find_by_bdf.
FindByBdf(dm, bdf) == {d \in Listed(dm) : d.bdf = bdf}

----------------------------------------------------------------------------
(* Discovery *)

\* devices_contains_path: the nodes no struct of the list was opened from.
Unopened(dm) == {b \in dm.present : FindByBdf(dm, b) = {}}

\* The list after the nodes of paths have been opened in order.
OpenAll(dm, paths, qdma) ==
    [dm EXCEPT !.list = @ \o [i \in 1..Len(paths) |->
                                 Opened(dm.next + i - 1, paths[i], qdma[i])],
               !.next = @ + Len(paths)]

\* devices_discover_and_open: the nodes in glob order; the first that cannot be
\* opened ends the scan with an error and the ones before it stay.
DiscoverOutcomes(dm) ==
    LET paths == SetToSeq(Unopened(dm))
        stops == {Len(paths)} \cup (IF "open" \in Faults THEN 0..Len(paths) ELSE {})
        pairings == [1..Len(paths) -> IF "qdma" \in Faults THEN BOOLEAN ELSE {TRUE}]
    IN {[ok |-> k = Len(paths), dm |-> OpenAll(dm, SubSeq(paths, 1, k), q)] :
            k \in stops, q \in pairings}
         \cup (IF "glob" \in Faults THEN {[ok |-> FALSE, dm |-> dm]} ELSE {})

\* slash_hotplug_rescan: every board that is still there gets its node back.
RescanOutcomes(dm) ==
    LET back == IF "lost" \in Faults THEN SUBSET (Boards \ dm.present) ELSE {Boards}
    IN {[dm EXCEPT !.present = @ \cup b] : b \in back}

----------------------------------------------------------------------------
(* Reset *)

\* shell_boot_partition and its inverse shell_from_boot_partition.
BootPartition(shell) == IF shell = "service" THEN 0 ELSE 1

ShellOfPartition(p) == IF p = 0 THEN "service" ELSE IF p = 1 THEN "compute" ELSE "unknown"

\* shell_reset_required, shell_switch_blocked_by_jtag.
ResetRequired(current, required) == current = "unknown" \/ current # required

BlockedByJtag(current, required, jtag) == jtag /\ ResetRequired(current, required)

\* Steps 3 to 6 of the reset: the AMI handle, boot partition and SBR gate.
AmiOutcomes == {"OK"} \cup (IF "ami" \in Faults THEN {"INTERNAL_ERROR"} ELSE {})

\* Steps 7 to 12: remove the PFs, toggle SBR, rescan until PF0 is back.
BusOutcomes(dm, bdf) ==
    LET gone == [dm EXCEPT !.present = @ \ {bdf}]
    IN {[ret |-> IF bdf \in after.present THEN "OK" ELSE "INTERNAL_ERROR", dm |-> after] :
            after \in RescanOutcomes(gone)}
         \cup (IF "remove" \in Faults
                 THEN {[ret |-> e, dm |-> dm] : e \in HotplugErrors \ {"NOEXIST"}} ELSE {})
         \cup (IF {"sbr", "rescan"} \cap Faults # {}
                 THEN {[ret |-> e, dm |-> gone] : e \in HotplugErrors} ELSE {})

\* Step 13: rediscovery, and the shell recorded for the board that was reset.
RediscoverOutcomes(dm, bdf, partition) ==
    {IF ~o.ok THEN [ret |-> "INTERNAL_ERROR", dm |-> o.dm]
     ELSE [ret |-> "OK",
           dm |-> [o.dm EXCEPT !.list =
                      [i \in DOMAIN @ |->
                          IF @[i].bdf = bdf THEN [@[i] EXCEPT !.shell = ShellOfPartition(partition)]
                                            ELSE @[i]]]] :
        o \in DiscoverOutcomes(dm)}

\* reset_with_ami as one call: the struct is removed before anything can fail.
ResetOutcomes(dm, d, partition) ==
    LET gone == RemoveDevice(dm, d.id)
        bus == UNION {IF r = "OK" THEN BusOutcomes(gone, d.bdf)
                                  ELSE {[ret |-> r, dm |-> gone]} : r \in AmiOutcomes}
    IN UNION {IF b.ret = "OK" THEN RediscoverOutcomes(b.dm, d.bdf, partition) ELSE {b} :
                  b \in bus}

----------------------------------------------------------------------------
(* Hotplug operations of the request handler *)

\* REMOVE or HOTPLUG of all three functions; a failure after the first function is
\* gone also drops the struct.
HotplugAllOutcomes(dm, d, op) ==
    LET gone == [RemoveDevice(dm, d.id) EXCEPT !.present = @ \ {d.bdf}]
        failures ==
            IF "remove" \notin Faults THEN {}
            ELSE {[ret |-> e, dm |-> m] : e \in HotplugErrors \ {"NOEXIST"},
                                          m \in {dm, RemoveDevice(dm, d.id)}}
    IN failures \cup
       IF op = "remove" THEN {[ret |-> "OK", dm |-> gone]}
       ELSE {[ret |-> "OK", dm |-> o.dm] :
                 o \in UNION {DiscoverOutcomes(m) : m \in RescanOutcomes(gone)}}
            \cup (IF "rescan" \in Faults
                    THEN {[ret |-> e, dm |-> gone] : e \in HotplugErrors} ELSE {})

\* Handles opened before the function went away keep referring to the old device.
Stale(dm, d) == WithDevice(dm, [d EXCEPT !.bars = IF @ = "none" THEN "none" ELSE "stale"])

\* REMOVE, TOGGLE_SBR and HOTPLUG of one function; function 2 carries the control node.
HotplugOneOutcomes(dm, d, op, function) ==
    LET gone == RemoveDevice(dm, d.id)
        ok == CASE op = "remove" ->
                     IF function = 2 THEN [gone EXCEPT !.present = @ \ {d.bdf}] ELSE gone
                [] op = "toggle_sbr" -> Stale(dm, d)
                [] OTHER -> IF function = 2 THEN Stale(dm, d) ELSE dm
    IN {[ret |-> "OK", dm |-> ok]}
         \cup (IF {"remove", "sbr"} \cap Faults # {}
                 THEN {[ret |-> e, dm |-> m] : e \in HotplugErrors,
                                               m \in IF op = "remove" THEN {dm} ELSE {dm, ok}}
                 ELSE {})

\* RESCAN: a failed discovery is only logged.
RescanRequestOutcomes(dm) ==
    {[ret |-> "OK", dm |-> o.dm] : o \in UNION {DiscoverOutcomes(m) : m \in RescanOutcomes(dm)}}
      \cup (IF "rescan" \in Faults THEN {[ret |-> e, dm |-> dm] : e \in HotplugErrors} ELSE {})

\* The BAR files and the control handle closed and opened again, as far as that works.
Reopened(dm, d, bars, ctl) ==
    WithDevice(dm, [d EXCEPT !.bars = bars, !.ctl = ctl, !.epoch = @ + 1])

\* device_refresh_pf2_after_design_write: remove and rescan PF2, then open the files
\* against the new function.
RefreshOutcomes(dm, d) ==
    LET gone == [dm EXCEPT !.present = @ \ {d.bdf}]
        failed(m) == [ret |-> "INTERNAL_ERROR", dm |-> Reopened(m, d, "none", FALSE)]
        back == RescanOutcomes(gone)
        bars == {"fresh"} \cup (IF "bar" \in Faults THEN {"none"} ELSE {})
    IN (UNION {{[ret |-> "OK", dm |-> Reopened(m, d, b, TRUE)] : b \in bars} :
                   m \in {x \in back : d.bdf \in x.present}})
         \cup {failed(m) : m \in {x \in back : d.bdf \notin x.present \/ "ctl" \in Faults}}
         \cup (IF "remove" \in Faults
                 THEN {[ret |-> e, dm |-> dm] : e \in HotplugErrors} ELSE {})
         \cup (IF "rescan" \in Faults
                 THEN {[ret |-> e, dm |-> Stale(gone, d)] : e \in HotplugErrors} ELSE {})

----------------------------------------------------------------------------
(* Buffers of a device *)

\* buffer_create and its transfer into the device's list; a queue pair that cannot be
\* added or started gives the reservation back.
BufferOpenOutcomes(dm, d, r, conn) ==
    LET a == Allocate(d.map, r.type, r.size, r.arg, conn)
        buf == BufferOf(r.type, conn, a, QpairCount(r.channel))
    IN IF a.result = "BAD_ARGUMENT" THEN {[ret |-> "INVALID_ARGUMENT", dm |-> dm, buf |-> "none"]}
       ELSE IF a.result = "NO_MEMORY" THEN {[ret |-> "BUSY", dm |-> dm, buf |-> "none"]}
       ELSE {[ret |-> "OK", buf |-> buf,
              dm |-> WithDevice(dm, [d EXCEPT !.map = a.map, !.buffers = Append(@, buf)])]}
            \cup (IF "qpair" \in Faults
                    THEN {[ret |-> "INTERNAL_ERROR", buf |-> "none",
                           dm |-> WithDevice(dm, [d EXCEPT !.map = CleanupBuffer(a.map, buf)])]}
                    ELSE {})

\* buffer_create_raw: the client's address, no reservation.
BufferOpenRawOutcomes(dm, d, r, conn) ==
    LET buf == RawBuffer(r.addr, r.size, conn, QpairCount(r.channel))
    IN {[ret |-> "OK", buf |-> buf, dm |-> WithDevice(dm, [d EXCEPT !.buffers = Append(@, buf)])]}
         \cup (IF "qpair" \in Faults
                 THEN {[ret |-> "INTERNAL_ERROR", buf |-> "none", dm |-> dm]} ELSE {})

\* Mutant: the search forgets to compare the connection.
FindBufferOfAnybody(d, r, conn) ==
    LET hits == {i \in DOMAIN d.buffers : d.buffers[i].addr = r.addr /\ d.buffers[i].size = r.size}
    IN IF hits = {} THEN 0 ELSE CHOOSE i \in hits : \A j \in hits : i <= j

\* The first buffer of the list that the BUFFER_CLOSE search accepts, 0 for none.
FindBuffer(d, r, conn) ==
    LET hits == {i \in DOMAIN d.buffers : /\ d.buffers[i].addr = r.addr
                                          /\ d.buffers[i].size = r.size
                                          /\ d.buffers[i].client = conn}
    IN IF hits = {} THEN 0 ELSE CHOOSE i \in hits : \A j \in hits : i <= j

\* buffer_ptr_array_rm_by_reference.
DropBuffer(d, i) ==
    [d EXCEPT !.map = CleanupBuffer(@, d.buffers[i]), !.buffers = RemoveAt(@, i)]

\* The buffers of a device that other connections own.
BuffersOfOthers(d, conn) == {d.buffers[k] : k \in {k \in DOMAIN d.buffers : d.buffers[k].client # conn}}

\* Mutant: a disconnect drops the buffers and keeps their subregions.
DropBuffersKeepMemory(d, conn) == [d EXCEPT !.buffers = Compact(@, BuffersOfOthers(d, conn))]

\* cleanup_buffers_for_conn_id on one device: one pass over its buffers.
DropBuffersOf(d, conn) ==
    LET map[n \in 0..Len(d.buffers)] ==
            IF n = 0 THEN d.map
            ELSE IF d.buffers[n].client = conn THEN CleanupBuffer(map[n - 1], d.buffers[n])
            ELSE map[n - 1]
    IN [d EXCEPT !.map = map[Len(d.buffers)], !.buffers = Compact(@, BuffersOfOthers(d, conn))]

\* cleanup_buffers_for_conn_id.
CleanupBuffersFor(dm, conn) ==
    [dm EXCEPT !.list = [i \in DOMAIN @ |-> DropBuffersOf(@[i], conn)]]

\* drain_deferred_buffer_cleanups, over the connections in the order they went.
DrainCleanups(dm, conns) ==
    LET after[n \in 0..Len(conns)] ==
            IF n = 0 THEN dm ELSE CleanupBuffersFor(after[n - 1], conns[n])
    IN after[Len(conns)]

=============================================================================

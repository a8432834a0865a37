------------------------- MODULE VrtdDeviceInvariant -------------------------
(***************************************************************************)
(* The well-formedness of the vrtd device list, the agreement of the       *)
(* buffers of every device with the map of its memory, and the ways one    *)
(* list can come out of another: memory carried over, buffers of some      *)
(* clients freed, buffers of one client opened or closed.                  *)
(***************************************************************************)
EXTENDS VrtdDevices

\* An allocation at slot first of a region, n subregions long.
Placed(type, addr, size, region, first, n) ==
    /\ type \in AllocTypes
    /\ region \in 0..(RegionCount(ClassOf(type)) - 1)
    /\ first \in Slots /\ n \in Nat \ {0} /\ first + n <= SubregionsPerRegion
    /\ addr = AddressOf(ClassOf(type), region, first)
    /\ size = n * SubregionSize

\* The buffers a device can hold: a reservation is whole subregions of one region.
Buffers ==
    {b \in [type : AllocTypes, client : Nat \ {0}, addr : Nat, size : Nat,
            valid : BOOLEAN, qpairs : Nat] :
        b.valid => \E region \in 0..(RegionCount(ClassOf(b.type)) - 1), first \in Slots,
                      n \in 1..SubregionsPerRegion :
                      Placed(b.type, b.addr, b.size, region, first, n)}

Devices ==
    [id : Nat, bdf : Boards, shell : Shells, jtag : BOOLEAN, qdma : BOOLEAN,
     writing : BOOLEAN, failed : BOOLEAN, ctl : BOOLEAN, bars : {"fresh", "stale", "none"},
     epoch : Nat, buffers : Seq(Buffers), map : [Subregions -> Nat]]

\* A device list as the daemon keeps it: identities below the next one, and one struct
\* for each.
DmOk(m) ==
    /\ m \in [present : SUBSET Boards, list : Seq(Devices), next : Nat, wizard : {m.wizard}]
    /\ \A d \in Listed(m) : d.id < m.next
    /\ \A d, e \in Listed(m) : d.id = e.id => d = e

\* The struct e is d as far as identity and memory go.
Same(d, e) == e.id = d.id /\ e.buffers = d.buffers /\ e.map = d.map

\* A struct that device_open made after m: no buffers, all memory free.
Fresh(m, e) == e.id >= m.next /\ e.buffers = << >> /\ e.map = EmptyMap

\* Every struct of n was in m with the same memory, or was opened since.
Holds(m, n) ==
    /\ m.next <= n.next
    /\ \A e \in Listed(n) : Fresh(m, e) \/ \E d \in Listed(m) : Same(d, e)

\* No design writer is busy.
Quiet(m) == \A d \in Listed(m) : ~d.writing

\* From m to n: memory is kept, and no writer starts.
Carried(m, n) == DmOk(n) /\ Holds(m, n) /\ (Quiet(m) => Quiet(n))

\* The map of every listed device agrees with its buffers.
MemoryOk(m) == \A d \in Listed(m) : Accounted(d.map, d.buffers)

\* The struct e holds what d holds, without the buffers of the connections in C.
Without(d, e, C) ==
    /\ e.id = d.id /\ e.writing = d.writing
    /\ \A k \in DOMAIN e.buffers :
          e.buffers[k].client \notin C /\ \E i \in DOMAIN d.buffers : d.buffers[i] = e.buffers[k]
    /\ \A i \in DOMAIN d.buffers :
          d.buffers[i].client \notin C => \E k \in DOMAIN e.buffers : e.buffers[k] = d.buffers[i]

\* The list n is m without the buffers of the connections in C.
Freed(m, n, C) ==
    /\ n.next = m.next
    /\ \A e \in Listed(n) : \E d \in Listed(m) : Without(d, e, C)

\* Only buffers of conn come or go between the structs d and e.
OnlyOf(d, e, conn) ==
    /\ e.id = d.id
    /\ \A k \in DOMAIN e.buffers :
          e.buffers[k].client = conn \/ \E i \in DOMAIN d.buffers : d.buffers[i] = e.buffers[k]
    /\ \A i \in DOMAIN d.buffers :
          d.buffers[i].client = conn \/ \E k \in DOMAIN e.buffers : e.buffers[k] = d.buffers[i]

\* From m to n: memory stays accounted, and only buffers of conn come or go.
Touched(m, n, conn) ==
    /\ DmOk(n) /\ MemoryOk(n) /\ n.next = m.next
    /\ \A e \in Listed(n) : \E d \in Listed(m) : OnlyOf(d, e, conn)

==============================================================================

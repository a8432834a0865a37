------------------------------ MODULE VrtdAlloc ------------------------------
(***************************************************************************)
(* The device memory allocator of vrtd (allocator.c) and the buffers built *)
(* on it (buffer.c).                                                       *)
(*                                                                         *)
(* Memory is two classes, DDR and HBM, of equal regions, each a row of     *)
(* subregions; a subregion holds the connection id of its owner, 0 when it *)
(* is free.  Addresses and sizes count bytes, with a subregion of          *)
(* SubregionSize bytes.  A buffer is the record struct buffer: "valid" is  *)
(* allocation_valid, FALSE for a raw buffer, whose address the client      *)
(* chose and which reserves nothing.                                       *)
(***************************************************************************)
EXTENDS Naturals, Sequences, FiniteSets

CONSTANTS
    DdrRegions,             \* DDR_REGIONS
    HbmRegions,             \* HBM_REGIONS
    SubregionsPerRegion,    \* SUBREGIONS_PER_REGION
    SubregionSize,          \* SUBREGION_SIZE
    DdrStart,               \* DDR_START_ADDRESS
    HbmStart                \* HBM_START_ADDRESS

ASSUME AllocAssumption ==
    /\ DdrRegions \in Nat /\ HbmRegions \in Nat
    /\ SubregionsPerRegion \in Nat \ {0} /\ SubregionSize \in Nat \ {0}
    /\ DdrStart \in Nat /\ HbmStart \in Nat

\* enum allocation_type.
AllocTypes == {"DDR", "HBM", "HBM_VNOC"}

\* The memory class an allocation type draws from.
ClassOf(type) == IF type = "DDR" THEN "DDR" ELSE "HBM"

RegionCount(class) == IF class = "DDR" THEN DdrRegions ELSE HbmRegions

Slots == 0..(SubregionsPerRegion - 1)

\* Every subregion of the device: class, region, subregion.
Subregions ==
    ({"DDR"} \X (0..(DdrRegions - 1)) \X Slots)
        \cup ({"HBM"} \X (0..(HbmRegions - 1)) \X Slots)

\* device_memory_map_create: all free.
EmptyMap == [s \in Subregions |-> 0]

\* The n subregions of a region from slot first on.
Extent(class, region, first, n) ==
    {s \in Subregions : /\ s[1] = class /\ s[2] = region
                        /\ s[3] >= first /\ s[3] < first + n}

RegionSize == SubregionsPerRegion * SubregionSize

Start(class) == IF class = "DDR" THEN DdrStart ELSE HbmStart

AddressOf(class, region, first) ==
    Start(class) + region * RegionSize + first * SubregionSize

\* Sizes round up to whole subregions.
SubregionsFor(size) == (size + SubregionSize - 1) \div SubregionSize

\* The regions an allocation may use: all of its class, or the one arg names.
CandidateRegions(type, arg) ==
    IF type = "HBM" THEN {arg} ELSE 0..(RegionCount(ClassOf(type)) - 1)

\* The free runs of n subregions in the candidate regions, by region and first slot.
FreeRuns(map, type, arg, n) ==
    {run \in CandidateRegions(type, arg) \X Slots :
        /\ run[2] + n <= SubregionsPerRegion
        /\ \A s \in Extent(ClassOf(type), run[1], run[2], n) : map[s] = 0}

\* The scan order: regions from 0 up, and subregions from 0 up within a region.
Before(r, s) == r[1] < s[1] \/ (r[1] = s[1] /\ r[2] <= s[2])

\* The first of the free runs.
FirstFit(runs) == CHOOSE r \in runs : \A s \in runs : Before(r, s)

\* device_memory_map_allocate's argument checks.
BadAllocation(type, size, arg, client) ==
    \/ size = 0
    \/ client = 0
    \/ type \notin AllocTypes
    \/ SubregionsFor(size) > SubregionsPerRegion
    \/ type = "HBM" /\ arg >= HbmRegions

\* device_memory_map_allocate, first fit.
Allocate(map, type, size, arg, client) ==
    LET n == SubregionsFor(size)
        runs == FreeRuns(map, type, arg, n)
    IN IF BadAllocation(type, size, arg, client) THEN [result |-> "BAD_ARGUMENT"]
       ELSE IF runs = {} THEN [result |-> "NO_MEMORY"]
       ELSE LET run == FirstFit(runs)
                extent == Extent(ClassOf(type), run[1], run[2], n)
            IN [result |-> "SUCCESS",
                map |-> [s \in Subregions |-> IF s \in extent THEN client ELSE map[s]],
                addr |-> AddressOf(ClassOf(type), run[1], run[2]),
                size |-> n * SubregionSize]

\* The subregions an address range covers, in one region of the class of type.
Covered(type, addr, size) ==
    LET offset == addr - Start(ClassOf(type))
    IN Extent(ClassOf(type), offset \div RegionSize,
              (offset % RegionSize) \div SubregionSize, SubregionsFor(size))

\* device_memory_map_free's argument checks.
BadFree(type, addr, size, client) ==
    \/ size = 0 \/ client = 0
    \/ type \notin AllocTypes
    \/ addr < Start(ClassOf(type))
    \/ addr >= Start(ClassOf(type)) + RegionCount(ClassOf(type)) * RegionSize
    \/ (addr - Start(ClassOf(type))) % SubregionSize # 0
    \/ ((addr - Start(ClassOf(type))) % RegionSize) \div SubregionSize
           + SubregionsFor(size) > SubregionsPerRegion

\* device_memory_map_free: verify every owner first, then clear.
Free(map, type, addr, size, client) ==
    IF \/ BadFree(type, addr, size, client)
       \/ \E s \in Covered(type, addr, size) : map[s] # client
    THEN map
    ELSE [s \in Subregions |-> IF s \in Covered(type, addr, size) THEN 0 ELSE map[s]]

----------------------------------------------------------------------------
(* Buffers *)

\* buffer_plan_qpair_channels: AUTO takes one queue pair on each channel.
QpairCount(mm_channel) == IF mm_channel = "auto" THEN 2 ELSE 1

\* The buffer buffer_init builds over a successful allocation.
BufferOf(type, client, a, qpairs) ==
    [type |-> type, client |-> client, addr |-> a.addr, size |-> a.size,
     valid |-> TRUE, qpairs |-> qpairs]

\* The buffer buffer_create_raw builds.
RawBuffer(addr, size, client, qpairs) ==
    [type |-> "DDR", client |-> client, addr |-> addr, size |-> size,
     valid |-> FALSE, qpairs |-> qpairs]

\* The map after cleanup_buffer; a buffer without a reservation frees nothing.
CleanupBuffer(map, buf) ==
    IF buf.valid THEN Free(map, buf.type, buf.addr, buf.size, buf.client) ELSE map

\* The subregions a buffer has reserved.
Reserved(buf) == IF buf.valid THEN Covered(buf.type, buf.addr, buf.size) ELSE {}

\* The map agrees with a list of buffers: each owned subregion is reserved by
\* exactly one of them, by its owner, and each reservation is in the map.
Accounted(map, buffers) ==
    /\ \A i \in DOMAIN buffers : \A s \in Reserved(buffers[i]) : map[s] = buffers[i].client
    /\ \A i, j \in DOMAIN buffers :
          i # j => Reserved(buffers[i]) \cap Reserved(buffers[j]) = {}
    /\ \A s \in Subregions :
          map[s] # 0 => \E i \in DOMAIN buffers : s \in Reserved(buffers[i])

=============================================================================

----------------------------- MODULE RamManager -----------------------------
(***************************************************************************)
(* How the firmware learns of its RAM.  MemoryPeim turns the memory map    *)
(* table of the platform into HOBs; later RamManagerDxe asks the vendor's  *)
(* RamManagerLib for the usable ranges, subtracts what the EFI memory map  *)
(* already holds and adds the rest as system memory.                       *)
(*                                                                         *)
(* Addresses count large pages and wrap around at Space, as UINT64 does.   *)
(* The DXE core (HOBs to memory map, AddMemorySpace), the secure monitor   *)
(* and the hypervisor (holes) are external.  MMU attributes are left out.  *)
(***************************************************************************)
EXTENDS Integers, Sequences, FiniteSets

CONSTANTS
    Space,        \* number of addresses: 2^64
    Base,         \* PcdSystemMemoryBase
    LowEnd,       \* BASE_4GB, the end of the low window
    CarveOut,     \* size of the DRAM2 carve-out above it
    Sizes,        \* MemorySize the boot loader may report
    Places,       \* addresses of regions
    Lengths,      \* lengths of regions and holes
    RegionMax,    \* number of regions in a platform's table, at most
    DynamicHoles, \* holes firmware may report: 4 in GetMemoryHoles
    Vendors,      \* which RamManagerLib: "Samsung", "MediaTek", "Qualcomm"
    Faults        \* what may fail

\* The carve-out is 30 GB, and every region of the platforms' tables ends far
\* below 2^64.
ASSUME RamAssumption ==
    /\ Space \in Nat /\ 0 < Base /\ Base < LowEnd /\ LowEnd + CarveOut < Space
    /\ Base \in Nat /\ LowEnd \in Nat /\ CarveOut \in Nat /\ Sizes \subseteq Nat
    /\ \A s \in Sizes : LowEnd + CarveOut + s < Space
    /\ 0 < CarveOut
    /\ Places \subseteq Nat /\ Lengths \subseteq Nat \ {0}
    /\ \A a \in Places, l \in Lengths : a + l < Space
    /\ RegionMax \in Nat /\ DynamicHoles \in Nat
    /\ Vendors \subseteq {"Samsung", "MediaTek", "Qualcomm"}
    /\ Faults \subseteq {"memory", "call"}

VARIABLES
    pc,           \* where the boot is
    Vendor,
    Split,        \* MemoryStart == BASE_2GB
    MemorySize,   \* what the RAM really measures
    Secure,       \* memory the secure world and the hypervisor own, by slot of HoleRange
    Table,        \* the platform's memory map table
    HoleRange,
    EfiMemoryMap,
    MemoryRange,  \* the usable ranges
    i, j,         \* indices of the loops of ManageRam and ParseMemoryRange
    CurrentRangeBase,
    gcd,          \* pages known to the DXE core
    pool,         \* pages added as system memory
    given,        \* history: pages passed to MapMemoryRegion
    hidden,       \* history: slots whose hole could not be learnt
    trouble       \* history: something failed on the way

tableVars == <<Vendor, Split, MemorySize, Secure, Table>>
loopVars  == <<i, j, CurrentRangeBase>>
coreVars  == <<gcd, pool>>
vars == <<pc, tableVars, HoleRange, EfiMemoryMap, MemoryRange, loopVars, coreVars, given, hidden, trouble>>

Can(f) == f \in Faults

\* Memory with AddMem or HobOnlyNoCacheSetting, devices with AddDev, and
\* regions without a HOB.
HobOptions == {"AddMem", "AddDev", "NoHob"}

Region(a, l)  == [Address |-> a, Length |-> l]
NoRegion == Region(0, 0)
End(r)   == (r.Address + r.Length) % Space
Pages(r) == {p \in 0 .. Space - 1 : r.Address <= p /\ p < r.Address + r.Length}
AllPages(s) == UNION {Pages(s[k]) : k \in DOMAIN s}

\* PerformQuickSort by base address.
Rank(s, x) == Cardinality({y \in DOMAIN s : \/ s[y].Address < s[x].Address
                                            \/ s[y].Address = s[x].Address /\ y <= x})
Unsorted(s) == s
Sorted(s) == [k \in DOMAIN s |-> s[CHOOSE x \in DOMAIN s : Rank(s, x) = k]]

Top == LowEnd + CarveOut

\* Tables of up to RegionMax regions, and holes below the carve-out, in any order.
Tables == UNION {[1 .. n -> [Address : Places, Length : Lengths, Hob : HobOptions]] :
                     n \in 0 .. RegionMax}
Holes == [Address : 1 .. LowEnd - 1, Length : Lengths]

Init ==
    /\ pc = "peim" /\ Vendor \in Vendors /\ MemorySize \in Sizes
    /\ Split \in (IF Vendor = "Samsung" THEN BOOLEAN ELSE {Vendor = "Qualcomm"})
    /\ Secure \in [1 .. DynamicHoles -> {NoRegion} \union Holes]
    /\ Vendor # "Samsung" => \A k \in 1 .. DynamicHoles : Secure[k] = NoRegion
    /\ Table \in Tables
    /\ HoleRange = <<>> /\ EfiMemoryMap = <<>> /\ MemoryRange = <<>>
    /\ i = 1 /\ j = 1 /\ CurrentRangeBase = 0
    /\ gcd = {} /\ pool = {} /\ given = {} /\ hidden = {} /\ trouble = FALSE

-----------------------------------------------------------------------------
(* MemoryPeim.                                                              *)

\* Neighbours in the sorted table, register regions apart.
Overlap(t) == \E k \in 1 .. Len(t) - 1 : t[k].Address >= Base /\ End(t[k]) > t[k + 1].Address

\* An invalid table stops the boot in CpuDeadLoop.
ValidateMemoryMap ==
    /\ pc = "peim"
    /\ Table' = Sorted(Table)
    /\ pc' = IF Overlap(Table') THEN "dead" ELSE "hobs"
    /\ UNCHANGED <<Vendor, Split, MemorySize, Secure, HoleRange, EfiMemoryMap, MemoryRange,
                   loopVars, coreVars, given, hidden, trouble>>

HasHob(r) == r.Hob # "NoHob"

\* AddHob for every region; what the DXE core knows after it.
AddHobs ==
    /\ pc = "hobs"
    /\ gcd' = UNION {Pages(Table[k]) : k \in {n \in DOMAIN Table : HasHob(Table[n])}}
    /\ pc' = "data"
    /\ UNCHANGED <<tableVars, HoleRange, EfiMemoryMap, MemoryRange, loopVars, pool, given, hidden, trouble>>

-----------------------------------------------------------------------------
(* RamManagerLib.                                                           *)

\* GetMemorySpace.  With RAM at 2 GB, everything beyond the low window lies
\* above the carve-out: BASE_32GB is the carve-out's end less the window.
MemoryEnd == IF Split THEN Top - (LowEnd - Base) + MemorySize ELSE Base + MemorySize

\* The holes whose getter may return an error: an unknown version, a call the
\* secure monitor or the hypervisor refuses, an output that is not aligned.
CallMayFail == {k \in 1 .. DynamicHoles : Secure[k] # NoRegion /\ Can("call")}

\* GetMemoryHoles of Samsung's constructor; the other two keep none.  An error
\* leaves the slot cleared.
GetMemoryData ==
    /\ pc = "data" /\ pc' = "map"
    /\ hidden' \in SUBSET CallMayFail
    /\ HoleRange' = IF Vendor # "Samsung" THEN <<>>
                    ELSE [k \in 1 .. DynamicHoles + 1 |->
                              IF k <= DynamicHoles
                              THEN IF k \in hidden' THEN NoRegion ELSE Secure[k]
                              ELSE IF Split THEN Region(LowEnd, CarveOut) ELSE NoRegion]
    /\ UNCHANGED <<tableVars, EfiMemoryMap, MemoryRange, loopVars, coreVars, given, trouble>>

\* The end of a hole, where the next range may start.
AtHole(h) == h.Address
AfterHole(h) == End(h)

\* CurrentMemoryStart of Samsung's GetUsableMemoryRanges after k holes: the end
\* of the last one there is.
HolesUpTo(k) == {n \in 1 .. k : HoleRange[n].Address # 0}
LastHole(k)  == CHOOSE n \in HolesUpTo(k) : \A m \in HolesUpTo(k) : m <= n
StartAfter(k) == IF HolesUpTo(k) = {} THEN Base ELSE AfterHole(HoleRange[LastHole(k)])

\* MemoryRangeLength is unsigned.
RangeLength(a, from) == (a - from) % Space

\* What lies before the k-th hole; a zero length leaves the entry cleared.
Before(k) ==
    LET from == StartAfter(k - 1)
        MemoryRangeLength == RangeLength(HoleRange[k].Address, from)
    IN IF HoleRange[k].Address = 0 \/ MemoryRangeLength = 0 THEN NoRegion
       ELSE Region(from, MemoryRangeLength)

Remaining ==
    LET from == StartAfter(Len(HoleRange))
    IN IF MemoryEnd > from THEN Region(from, MemoryEnd - from) ELSE NoRegion

SamsungRanges == Append([k \in 1 .. Len(HoleRange) |-> Before(k)], Remaining)

\* The sum of the ranks is the size.
MediaTekRanges == <<Region(Base, MemorySize)>>

\* The partitions the RAM Partition protocol lists, in its order.
Low == Region(Base, IF MemorySize < LowEnd - Base THEN MemorySize ELSE LowEnd - Base)
High == Region(Top, MemorySize - Low.Length)
QualcommRanges == IF High.Length = 0 THEN <<Low>> ELSE <<High, Low>>

GetUsableMemoryRanges ==
    CASE Vendor = "Samsung"  -> SamsungRanges
      [] Vendor = "MediaTek" -> MediaTekRanges
      [] Vendor = "Qualcomm" -> QualcommRanges

-----------------------------------------------------------------------------
(* RamManagerDxe.                                                           *)

\* The core lists memory and reserved regions, in some order.
Listed(r) == r.Hob = "AddMem"
GetEfiMemoryMap ==
    LET listed == {k \in DOMAIN Table : Listed(Table[k])}
        orders == {q \in [1 .. Cardinality(listed) -> listed] :
                      \A a, b \in DOMAIN q : q[a] = q[b] => a = b}
    IN {[k \in DOMAIN q |-> Region(Table[q[k]].Address, Table[q[k]].Length)] : q \in orders}

\* ManageRam up to its loop.
ManageRam ==
    /\ pc = "map"
    /\ \/ /\ \E m \in GetEfiMemoryMap : EfiMemoryMap' = Sorted(m)
          /\ MemoryRange' = Sorted(GetUsableMemoryRanges)
          /\ pc' = "range" /\ UNCHANGED trouble
       \/ /\ Can("memory")
          /\ pc' = "done" /\ trouble' = TRUE /\ UNCHANGED <<EfiMemoryMap, MemoryRange>>
    /\ UNCHANGED <<tableVars, HoleRange, loopVars, coreVars, given, hidden>>

\* The next range, or the end.
StartRange ==
    /\ pc = "range"
    /\ IF i > Len(MemoryRange) THEN pc' = "done" /\ UNCHANGED loopVars
       ELSE pc' = "region" /\ j' = 1 /\ CurrentRangeBase' = MemoryRange[i].Address /\ UNCHANGED i
    /\ UNCHANGED <<tableVars, HoleRange, EfiMemoryMap, MemoryRange, coreVars, given, hidden, trouble>>

\* MapMemoryRegion of HandleRamRange.  AddMemorySpace refuses a range that is
\* not all new; a failure to set the attributes leaves the memory added.
MapMemoryRegion(r) ==
    /\ given' = given \union Pages(r)
    /\ IF Pages(r) \intersect gcd # {}
       THEN UNCHANGED coreVars /\ trouble' = TRUE
       ELSE gcd' = gcd \union Pages(r) /\ pool' = pool \union Pages(r) /\ UNCHANGED trouble

RangeEnd == End(MemoryRange[i])

\* One region of the loop of ParseMemoryRange.
Beyond(r) == r.Address >= RangeEnd
Behind(r) == End(r) <= CurrentRangeBase
Further(r) == IF End(r) > CurrentRangeBase THEN End(r) ELSE CurrentRangeBase

ParseRegion ==
    /\ pc = "region" /\ j <= Len(EfiMemoryMap)
    /\ LET r == EfiMemoryMap[j]
       IN \/ Beyond(r) /\ pc' = "rest" /\ UNCHANGED <<loopVars, coreVars, given, trouble>>
          \/ /\ ~Beyond(r) /\ Behind(r)
             /\ j' = j + 1 /\ UNCHANGED <<pc, i, CurrentRangeBase, coreVars, given, trouble>>
          \/ /\ ~Beyond(r) /\ ~Behind(r)
             /\ IF r.Address > CurrentRangeBase
                THEN MapMemoryRegion(Region(CurrentRangeBase, r.Address - CurrentRangeBase))
                ELSE UNCHANGED <<coreVars, given, trouble>>
             /\ CurrentRangeBase' = Further(r)
             /\ j' = j + 1 /\ UNCHANGED <<pc, i>>
    /\ UNCHANGED <<tableVars, HoleRange, EfiMemoryMap, MemoryRange, hidden>>

NoMoreRegions ==
    /\ pc = "region" /\ j > Len(EfiMemoryMap) /\ pc' = "rest"
    /\ UNCHANGED <<tableVars, HoleRange, EfiMemoryMap, MemoryRange, loopVars, coreVars, given, hidden, trouble>>

\* After the loop: what is left of the range.
RestNever == FALSE
RestLeft == CurrentRangeBase < RangeEnd

ParseRest ==
    /\ pc = "rest"
    /\ IF RestLeft
       THEN MapMemoryRegion(Region(CurrentRangeBase, RangeEnd - CurrentRangeBase))
       ELSE UNCHANGED <<coreVars, given, trouble>>
    /\ i' = i + 1 /\ pc' = "range" /\ UNCHANGED <<j, CurrentRangeBase>>
    /\ UNCHANGED <<tableVars, HoleRange, EfiMemoryMap, MemoryRange, hidden>>

Next ==
    \/ ValidateMemoryMap \/ AddHobs \/ GetMemoryData \/ ManageRam
    \/ StartRange \/ ParseRegion \/ NoMoreRegions \/ ParseRest

Spec == Init /\ [][Next]_vars

-----------------------------------------------------------------------------
(* Properties.                                                              *)

\* The state is well-formed and no loop leaves its array.
TypeOK ==
    /\ pc \in {"peim", "dead", "hobs", "data", "map", "range", "region", "rest", "done"}
    /\ i \in 1 .. Len(MemoryRange) + 1 /\ j \in 1 .. Len(EfiMemoryMap) + 1
    /\ CurrentRangeBase \in 0 .. Space - 1
    /\ \A k \in DOMAIN MemoryRange :
           MemoryRange[k].Address \in 0 .. Space - 1 /\ MemoryRange[k].Length \in 0 .. Space - 1
    /\ gcd \subseteq 0 .. Space - 1 /\ pool \subseteq gcd /\ pool \subseteq given

\* ParseMemoryRange hands no page to MapMemoryRegion that the EFI memory map
\* already has, whatever the holes: also when a range has wrapped around.
GivenIsNew == given \intersect AllPages(EfiMemoryMap) = {}

\* The RAM: one block, or two around the carve-out.
Ram == IF Split THEN Pages(Low) \union Pages(High) ELSE Pages(Region(Base, MemorySize))

\* What Samsung's GetUsableMemoryRanges takes for granted: holes that are known,
\* ascending, disjoint and inside the RAM, which fills the low window.
HolesInOrder ==
    /\ hidden = {} /\ AllPages(Secure) \subseteq Ram
    /\ Split => MemorySize >= LowEnd - Base
    /\ \A a, b \in 1 .. DynamicHoles :
          (a < b /\ Secure[a] # NoRegion /\ Secure[b] # NoRegion)
              => Secure[a].Address + Secure[a].Length <= Secure[b].Address

\* Only RAM is added, and none that the secure world, the hypervisor or the
\* carve-out own, if the holes are known and reported in order.
GivenIsUsable == HolesInOrder => given \subseteq Ram \ AllPages(Secure)

\* When ManageRam is done, all RAM that is no hole is known to the core: no
\* page falls between two regions, two ranges or a region and a range's end.
NoRamLost == (pc = "done" /\ ~trouble /\ HolesInOrder) => Ram \ AllPages(Secure) \subseteq gcd
=============================================================================

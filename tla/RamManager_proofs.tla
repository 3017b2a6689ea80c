-------------------------- MODULE RamManager_proofs --------------------------
(***************************************************************************)
(* TLAPS proofs about RamManager for every memory map table, every choice  *)
(* of holes, every size of the RAM and every width of the address space.   *)
(***************************************************************************)
EXTENDS RamManager, FiniteSetTheorems, SequenceTheorems, WellFoundedInduction, TLAPS

Addresses == 0 .. Space - 1
Regions   == [Address : Addresses, Length : Addresses]
Rows      == [Address : Places, Length : Lengths, Hob : HobOptions]

\* A region that does not wrap around.
Straight(r) == r.Address + r.Length < Space

\* Up to ManageRam nothing is listed, ranged or added.
Booting == pc \in {"peim", "dead", "hobs", "data", "map"}

HobPages == UNION {Pages(Table[k]) : k \in {n \in DOMAIN Table : HasHob(Table[n])}}

PlatformInv ==
    /\ Vendor \in {"Samsung", "MediaTek", "Qualcomm"} /\ Split \in BOOLEAN /\ MemorySize \in Sizes
    /\ Vendor = "MediaTek" => ~Split
    /\ Vendor = "Qualcomm" => Split
    /\ Secure \in [1 .. DynamicHoles -> {NoRegion} \union Holes]
    /\ Vendor # "Samsung" => \A k \in 1 .. DynamicHoles : Secure[k] = NoRegion
    /\ \E n \in Nat : Table \in [1 .. n -> Rows]

\* The holes GetMemoryData leaves.
HoleInv ==
    /\ hidden \subseteq 1 .. DynamicHoles
    /\ pc \in {"peim", "dead", "hobs", "data"} => hidden = {} /\ HoleRange = <<>>
    /\ pc \notin {"peim", "dead", "hobs", "data"} =>
           HoleRange = IF Vendor # "Samsung" THEN <<>>
                       ELSE [k \in 1 .. DynamicHoles + 1 |->
                              IF k <= DynamicHoles
                              THEN IF k \in hidden THEN NoRegion ELSE Secure[k]
                              ELSE IF Split THEN Region(LowEnd, CarveOut) ELSE NoRegion]

\* The EFI memory map is sorted and none of its regions wraps around.
MapInv ==
    /\ EfiMemoryMap \in Seq(Regions) /\ MemoryRange \in Seq(Regions)
    /\ \A k \in 1 .. Len(EfiMemoryMap) : Straight(EfiMemoryMap[k])
    /\ \A a, b \in 1 .. Len(EfiMemoryMap) :
          a <= b => EfiMemoryMap[a].Address <= EfiMemoryMap[b].Address

\* Where the loops are.
LoopInv ==
    /\ pc \in {"peim", "dead", "hobs", "data", "map", "range", "region", "rest", "done"}
    /\ i \in 1 .. Len(MemoryRange) + 1 /\ j \in 1 .. Len(EfiMemoryMap) + 1
    /\ CurrentRangeBase \in Addresses
    /\ Booting => given = {} /\ EfiMemoryMap = <<>> /\ MemoryRange = <<>>
    /\ pc \in {"range", "region", "rest"} => MemoryRange # <<>>
    /\ pc = "done" /\ ~trouble => MemoryRange # <<>> /\ i > Len(MemoryRange)
    /\ pc \in {"region", "rest"} =>
          /\ i <= Len(MemoryRange)
          /\ MemoryRange[i].Address <= CurrentRangeBase
          /\ \A k \in 1 .. j - 1 : End(EfiMemoryMap[k]) <= CurrentRangeBase
    /\ pc = "rest" => \A k \in j .. Len(EfiMemoryMap) : Beyond(EfiMemoryMap[k])

\* What the core knows.
CoreInv ==
    /\ trouble \in BOOLEAN
    /\ gcd \subseteq Addresses /\ pool \subseteq gcd /\ pool \subseteq given
    /\ pc \in {"data", "map"} => HobPages \subseteq gcd
    /\ AllPages(EfiMemoryMap) \subseteq gcd
    /\ ~trouble => given \subseteq gcd

\* Usable memory, and what GetUsableMemoryRanges makes of it.
Usable == Ram \ AllPages(Secure)
RangesInv ==
    MemoryRange # <<>> /\ HolesInOrder =>
        /\ \A k \in 1 .. Len(MemoryRange) :
              Straight(MemoryRange[k]) /\ Pages(MemoryRange[k]) \subseteq Usable
        /\ Usable \subseteq AllPages(MemoryRange)

\* The pages ParseMemoryRange has passed are known or have been handed over.
PassedInv ==
    /\ \A k \in 1 .. i - 1 :
          Straight(MemoryRange[k]) =>
              Pages(MemoryRange[k]) \subseteq given \union AllPages(EfiMemoryMap)
    /\ pc \in {"region", "rest"} =>
          \A p \in Pages(MemoryRange[i]) :
              p < CurrentRangeBase => p \in given \union AllPages(EfiMemoryMap)

IInv ==
    /\ PlatformInv /\ HoleInv /\ MapInv /\ LoopInv /\ CoreInv
    /\ GivenIsNew /\ RangesInv /\ PassedInv /\ GivenIsUsable

-----------------------------------------------------------------------------
(* Sets of numbers.                                                         *)

\* A set of natural numbers has a least element.
LEMMA LeastNat ==
    ASSUME NEW S \in SUBSET Nat, S # {}
    PROVE  \E x \in S : \A y \in S : x <= y
<1>1. PICK x \in S : \A y \in S : ~(<<y, x>> \in OpToRel(<, Nat))
  BY NatLessThanWellFounded, WFMin
<1>2. \A y \in S : ~(y < x)
  BY <1>1 DEF OpToRel
<1> QED BY <1>2

\* A bounded set of natural numbers has a greatest element.
LEMMA GreatestNat ==
    ASSUME NEW k \in Nat, NEW S \in SUBSET (1 .. k), S # {}
    PROVE  \E x \in S : \A y \in S : y <= x
<1> DEFINE T == {n \in Nat : \E x \in S : n = k - x}
<1>1. T # {}
  <2>1. PICK x \in S : TRUE
    OBVIOUS
  <2>2. k - x \in T
    OBVIOUS
  <2> QED BY <2>2
<1>2. PICK n \in T : \A m \in T : n <= m
  BY <1>1, LeastNat
<1>3. PICK x \in S : n = k - x
  BY <1>2
<1>4. \A y \in S : k - y \in T
  OBVIOUS
<1> QED BY <1>2, <1>3, <1>4

-----------------------------------------------------------------------------
(* PerformQuickSort.                                                        *)

\* The elements that do not come after x.
UpTo(s, x) == {y \in DOMAIN s : \/ s[y].Address < s[x].Address
                                \/ s[y].Address = s[x].Address /\ y <= x}

\* Ranks are a permutation of the indices.
LEMMA RankFacts ==
    ASSUME NEW n \in Nat, NEW s, DOMAIN s = 1 .. n, \A k \in 1 .. n : s[k].Address \in Int
    PROVE  /\ \A x \in 1 .. n : Rank(s, x) \in 1 .. n
           /\ \A x, y \in 1 .. n : Rank(s, x) = Rank(s, y) => x = y
           /\ \A x, y \in 1 .. n : Rank(s, x) < Rank(s, y) => s[x].Address <= s[y].Address
           /\ \A r \in 1 .. n : \E x \in 1 .. n : Rank(s, x) = r
<1>1. IsFiniteSet(1 .. n) /\ Cardinality(1 .. n) = n
  BY FS_Interval
<1>2. ASSUME NEW x \in 1 .. n
      PROVE  /\ IsFiniteSet(UpTo(s, x)) /\ Rank(s, x) = Cardinality(UpTo(s, x))
             /\ Rank(s, x) \in 1 .. n
  <2>1. UpTo(s, x) \in SUBSET (1 .. n) /\ x \in UpTo(s, x)
    BY DEF UpTo
  <2>2. IsFiniteSet(UpTo(s, x)) /\ Cardinality(UpTo(s, x)) <= n
    BY <1>1, <2>1, FS_Subset
  <2>3. Cardinality(UpTo(s, x)) \in Nat /\ Cardinality(UpTo(s, x)) # 0
    BY <2>1, <2>2, FS_CardinalityType, FS_EmptySet
  <2>4. Rank(s, x) = Cardinality(UpTo(s, x))
    BY DEF Rank, UpTo
  <2> QED BY <2>2, <2>3, <2>4
<1>3. ASSUME NEW x \in 1 .. n, NEW y \in 1 .. n,
             s[x].Address < s[y].Address \/ (s[x].Address = s[y].Address /\ x < y)
      PROVE  Rank(s, x) < Rank(s, y)
  <2>1. UpTo(s, x) \in SUBSET UpTo(s, y)
    BY <1>3 DEF UpTo
  <2>2. y \in UpTo(s, y) /\ y \notin UpTo(s, x)
    BY <1>3 DEF UpTo
  <2>3. /\ Cardinality(UpTo(s, x)) <= Cardinality(UpTo(s, y))
        /\ Cardinality(UpTo(s, y)) # Cardinality(UpTo(s, x))
    BY <1>2, <2>1, <2>2, FS_Subset
  <2> QED BY <1>2, <2>3
<1>4. \A x, y \in 1 .. n : Rank(s, x) = Rank(s, y) => x = y
  <2> SUFFICES ASSUME NEW x \in 1 .. n, NEW y \in 1 .. n, x # y
               PROVE  Rank(s, x) # Rank(s, y)
    OBVIOUS
  <2>1. Rank(s, x) < Rank(s, y) \/ Rank(s, y) < Rank(s, x)
    BY <1>3
  <2> QED BY <1>2, <2>1
<1>5. \A x, y \in 1 .. n : Rank(s, x) < Rank(s, y) => s[x].Address <= s[y].Address
  <2> SUFFICES ASSUME NEW x \in 1 .. n, NEW y \in 1 .. n, s[y].Address < s[x].Address
               PROVE  ~(Rank(s, x) < Rank(s, y))
    OBVIOUS
  <2>1. Rank(s, y) < Rank(s, x)
    BY <1>3
  <2> QED BY <1>2, <2>1
<1>6. \A r \in 1 .. n : \E x \in 1 .. n : Rank(s, x) = r
  <2> DEFINE f == [x \in 1 .. n |-> Rank(s, x)]
  <2>1. f \in Injection(1 .. n, 1 .. n)
    BY <1>2, <1>4 DEF Injection, IsInjective
  <2>2. f \in Surjection(1 .. n, 1 .. n)
    BY <1>1, <2>1, FS_Injection
  <2>3. \A r \in 1 .. n : \E x \in 1 .. n : f[x] = r
    BY <2>2 DEF Surjection
  <2> QED BY <2>3
<1> QED BY <1>2, <1>4, <1>5, <1>6

\* The elements of S have an address.
Placed(S) == \A r \in S : r.Address \in Int

\* t has the elements of s, and only those; t is in order.
SameElements(t, s, n) ==
    /\ \A k \in 1 .. n : \E x \in 1 .. n : t[k] = s[x]
    /\ \A x \in 1 .. n : \E k \in 1 .. n : t[k] = s[x]
Ascending(t, n) == \A a, b \in 1 .. n : a <= b => t[a].Address <= t[b].Address

\* Sorting by address permutes the elements and puts them in order.
LEMMA SortedFacts ==
    ASSUME NEW S, Placed(S), NEW n \in Nat, NEW s \in [1 .. n -> S]
    PROVE  /\ Sorted(s) \in [1 .. n -> S]
           /\ SameElements(Sorted(s), s, n)
           /\ Ascending(Sorted(s), n)
<1> DEFINE At(k) == CHOOSE x \in 1 .. n : Rank(s, x) = k
<1>0. DOMAIN s = 1 .. n /\ \A k \in 1 .. n : s[k].Address \in Int
  BY DEF Placed
<1>1. \A k \in 1 .. n : At(k) \in 1 .. n /\ Rank(s, At(k)) = k
  BY <1>0, RankFacts
<1>2. Sorted(s) = [k \in 1 .. n |-> s[At(k)]]
  BY <1>0 DEF Sorted
<1> HIDE DEF At
<1>3. Sorted(s) \in [1 .. n -> S] /\ \A k \in 1 .. n : Sorted(s)[k] = s[At(k)]
  BY <1>1, <1>2
<1>4. \A x \in 1 .. n : Rank(s, x) \in 1 .. n /\ At(Rank(s, x)) = x
  <2> SUFFICES ASSUME NEW x \in 1 .. n
               PROVE  Rank(s, x) \in 1 .. n /\ At(Rank(s, x)) = x
    OBVIOUS
  <2>1. Rank(s, x) \in 1 .. n
    BY <1>0, RankFacts
  <2>2. At(Rank(s, x)) \in 1 .. n /\ Rank(s, At(Rank(s, x))) = Rank(s, x)
    BY <1>1, <2>1
  <2> QED BY <1>0, <2>1, <2>2, RankFacts
<1>5. ASSUME NEW a \in 1 .. n, NEW b \in 1 .. n, a <= b
      PROVE  s[At(a)].Address <= s[At(b)].Address
  <2>1. CASE a = b
    BY <1>0, <1>1, <2>1
  <2>2. CASE a # b
    <3>1. Rank(s, At(a)) < Rank(s, At(b))
      BY <1>1, <1>5, <2>2
    <3> QED BY <1>0, <1>1, <3>1, RankFacts
  <2> QED BY <2>1, <2>2
<1>6. SameElements(Sorted(s), s, n)
  BY <1>1, <1>3, <1>4 DEF SameElements
<1> QED BY <1>3, <1>5, <1>6 DEF Ascending

-----------------------------------------------------------------------------
(* GetUsableMemoryRanges.                                                   *)

\* The numbers of the constants.
LEMMA Constants ==
    /\ Space \in Nat /\ Base \in Nat /\ LowEnd \in Nat /\ CarveOut \in Nat /\ Top \in Nat
    /\ 0 < Base /\ Base < LowEnd /\ LowEnd < Top /\ Top < Space /\ Top = LowEnd + CarveOut
    /\ DynamicHoles \in Nat
    /\ \A l \in Lengths : l \in Nat /\ 0 < l
    /\ \A a \in Places : a \in Nat
    /\ \A a \in Places, l \in Lengths : a + l < Space
<1>1. \A l \in Lengths : l \in Nat \ {0}
  BY RamAssumption
<1>2. \A l \in Lengths : l \in Nat /\ 0 < l
  BY <1>1
<1> QED BY <1>2, RamAssumption DEF Top

\* A function on 1 .. n is a sequence of length n.
LEMMA FunctionIsSeq ==
    ASSUME NEW S, NEW n \in Nat, NEW f \in [1 .. n -> S]
    PROVE  f \in Seq(S) /\ Len(f) = n /\ DOMAIN f = 1 .. n
BY SeqDef

\* The end of the RAM, and that it lies inside the address space.
LEMMA MemoryEndFacts ==
    ASSUME PlatformInv
    PROVE  /\ MemorySize \in Nat /\ MemoryEnd \in Int /\ MemoryEnd < Space
           /\ ~Split => MemoryEnd = Base + MemorySize
           /\ Split => MemoryEnd = Top - (LowEnd - Base) + MemorySize
           /\ Base + MemorySize < Space
<1>1. MemorySize \in Nat /\ LowEnd + CarveOut + MemorySize < Space
  BY RamAssumption DEF PlatformInv
<1> QED BY <1>1, Constants DEF MemoryEnd

\* The RAM as numbers.
LEMMA RamPages ==
    ASSUME PlatformInv, Split => MemorySize >= LowEnd - Base
    PROVE  \A p : p \in Ram <=> /\ p \in Nat /\ Base <= p /\ p < MemoryEnd
                                /\ Split => ~(LowEnd <= p /\ p < Top)
<1>1. CASE ~Split
  BY <1>1, Constants, MemoryEndFacts DEF Ram, Pages, Region
<1>2. CASE Split
  <2>1. Low.Address = Base /\ Low.Length = LowEnd - Base
    BY <1>2, Constants, MemoryEndFacts DEF Low, Region
  <2>2. High.Address = Top /\ High.Length = MemorySize - (LowEnd - Base)
    BY <2>1 DEF High, Region
  <2> QED BY <1>2, <2>1, <2>2, Constants, MemoryEndFacts DEF Ram, Pages
<1> QED BY <1>1, <1>2 DEF PlatformInv

\* Holes in order, below hi and above lo.
Orderly(H, N, lo, hi) ==
    /\ \A k \in 1 .. N :
          \/ H[k].Address = 0 /\ H[k].Length = 0
          \/ /\ H[k].Address \in Nat /\ H[k].Length \in Nat
             /\ lo <= H[k].Address /\ 0 < H[k].Length /\ H[k].Address + H[k].Length <= hi
    /\ \A a, b \in 1 .. N :
          a < b /\ H[a].Address # 0 /\ H[b].Address # 0
              => H[a].Address + H[a].Length <= H[b].Address

\* The holes of the secure world lie in the RAM and below the carve-out.
LEMMA SecureFacts ==
    ASSUME PlatformInv, HolesInOrder
    PROVE  /\ Orderly(Secure, DynamicHoles, Base, MemoryEnd)
           /\ Split => \A k \in 1 .. DynamicHoles : Secure[k].Address + Secure[k].Length <= LowEnd
<1>1. ASSUME NEW k \in 1 .. DynamicHoles
      PROVE  \/ Secure[k] = NoRegion /\ Secure[k].Address = 0 /\ Secure[k].Length = 0
             \/ /\ Secure[k] # NoRegion
                /\ Secure[k].Address \in Nat /\ Secure[k].Length \in Nat
                /\ 0 < Secure[k].Address /\ Secure[k].Address < LowEnd /\ 0 < Secure[k].Length
  <2>1. CASE Secure[k] = NoRegion
    BY <2>1 DEF NoRegion, Region
  <2>2. CASE Secure[k] # NoRegion
    <3>1. Secure[k] \in Holes
      BY <2>2 DEF PlatformInv
    <3>2. Secure[k].Address \in 1 .. LowEnd - 1 /\ Secure[k].Length \in Lengths
      BY <3>1 DEF Holes
    <3>3. Secure[k].Length \in Nat /\ 0 < Secure[k].Length
      BY <3>2, Constants
    <3>4. Secure[k].Address \in Nat /\ 0 < Secure[k].Address /\ Secure[k].Address < LowEnd
      BY <3>2, Constants
    <3> QED BY <2>2, <3>3, <3>4
  <2> QED BY <2>1, <2>2
<1>2. ASSUME NEW k \in 1 .. DynamicHoles, Secure[k] # NoRegion
      PROVE  /\ Base <= Secure[k].Address
             /\ Secure[k].Address + Secure[k].Length <= MemoryEnd
             /\ Split => Secure[k].Address + Secure[k].Length <= LowEnd
  <2> DEFINE a == Secure[k].Address
             l == Secure[k].Length
  <2>1. a \in Nat /\ l \in Nat /\ a < LowEnd /\ 0 < l
    BY <1>1, <1>2
  <2>2. \A p \in 0 .. Space - 1 : a <= p /\ p < a + l => p \in Ram
    <3>1. k \in DOMAIN Secure
      BY DEF PlatformInv
    <3>2. Pages(Secure[k]) \subseteq Ram
      BY <3>1 DEF HolesInOrder, AllPages
    <3> QED BY <3>2 DEF Pages
  <2> HIDE DEF a, l
  <2>3. \A p \in 0 .. Space - 1 :
            a <= p /\ p < a + l => Base <= p /\ p < MemoryEnd /\ (Split => ~(LowEnd <= p /\ p < Top))
    BY <2>2, RamPages DEF HolesInOrder
  <2>4. MemoryEnd \in Int /\ MemoryEnd < Space
    BY MemoryEndFacts
  <2>5. a + l <= MemoryEnd
    <3> SUFFICES ASSUME MemoryEnd < a + l PROVE FALSE
      BY <2>1, <2>4
    <3>1. CASE MemoryEnd <= a
      BY <2>1, <2>3, <2>4, <3>1, Constants
    <3>2. CASE a < MemoryEnd
      BY <2>1, <2>3, <2>4, <3>2, Constants
    <3> QED BY <2>1, <2>4, <3>1, <3>2
  <2>6. Split => a + l <= LowEnd
    BY <2>1, <2>3, Constants
  <2>7. Base <= a
    <3>1. a \in 0 .. Space - 1 /\ a <= a /\ a < a + l
      BY <2>1, Constants
    <3> QED BY <2>3, <3>1
  <2> QED BY <2>5, <2>6, <2>7 DEF a, l
<1>3. ASSUME NEW a \in 1 .. DynamicHoles, NEW b \in 1 .. DynamicHoles, a < b,
             Secure[a].Address # 0, Secure[b].Address # 0
      PROVE  Secure[a].Address + Secure[a].Length <= Secure[b].Address
  <2>1. Secure[a] # NoRegion /\ Secure[b] # NoRegion
    BY <1>3 DEF NoRegion, Region
  <2> QED BY <1>3, <2>1 DEF HolesInOrder
<1> QED BY <1>1, <1>2, <1>3, Constants DEF Orderly

\* Samsung's holes are in order, and the usable memory is what lies between
\* the two ends of the RAM and in no hole: the carve-out is the last hole.
LEMMA HoleFacts ==
    ASSUME PlatformInv, HoleInv, HolesInOrder, pc \notin {"peim", "dead", "hobs", "data"},
           Vendor = "Samsung"
    PROVE  /\ Orderly(HoleRange, DynamicHoles + 1, Base, MemoryEnd)
           /\ Len(HoleRange) = DynamicHoles + 1
           /\ \A p : p \in Usable <=>
                  /\ p \in Nat /\ Base <= p /\ p < MemoryEnd
                  /\ \A k \in 1 .. DynamicHoles + 1 :
                        ~(HoleRange[k].Address <= p /\ p < HoleRange[k].Address + HoleRange[k].Length)
<1> DEFINE N == DynamicHoles + 1
           last == IF Split THEN Region(LowEnd, CarveOut) ELSE NoRegion
<1>1. HoleRange = [k \in 1 .. N |-> IF k <= DynamicHoles THEN Secure[k] ELSE last]
  <2>1. hidden = {}
    BY DEF HolesInOrder
  <2> QED BY <2>1 DEF HoleInv
<1>2. Len(HoleRange) = N
  <2> DEFINE S == {Secure[k] : k \in 1 .. DynamicHoles} \union {last}
  <2>1. N \in Nat /\ HoleRange \in [1 .. N -> S]
    BY <1>1, Constants
  <2> HIDE DEF N, S
  <2> QED BY <2>1, FunctionIsSeq
<1>3. /\ N \in 1 .. N /\ HoleRange[N] = last
      /\ \A k \in 1 .. DynamicHoles : k \in 1 .. N /\ HoleRange[k] = Secure[k]
      /\ \A k \in 1 .. N : k \in 1 .. DynamicHoles \/ k = N
  BY <1>1, Constants
<1>4. /\ Split => last.Address = LowEnd /\ last.Length = CarveOut
      /\ ~Split => last.Address = 0 /\ last.Length = 0
  BY DEF NoRegion, Region
<1>5. Split => Top <= MemoryEnd
  BY Constants, MemoryEndFacts DEF HolesInOrder
<1>6. /\ Orderly(Secure, DynamicHoles, Base, MemoryEnd)
      /\ Split => \A k \in 1 .. DynamicHoles : Secure[k].Address + Secure[k].Length <= LowEnd
  BY SecureFacts
<1> HIDE DEF N, last
<1>7. ASSUME NEW k \in 1 .. N
      PROVE  \/ HoleRange[k].Address = 0 /\ HoleRange[k].Length = 0
             \/ /\ HoleRange[k].Address \in Nat /\ HoleRange[k].Length \in Nat
                /\ Base <= HoleRange[k].Address /\ 0 < HoleRange[k].Length
                /\ HoleRange[k].Address + HoleRange[k].Length <= MemoryEnd
  <2>1. CASE k \in 1 .. DynamicHoles
    BY <1>3, <1>6, <2>1 DEF Orderly
  <2>2. CASE k = N
    BY <1>3, <1>4, <1>5, <2>2, Constants
  <2> QED BY <1>3, <2>1, <2>2
<1>8. ASSUME NEW a \in 1 .. N, NEW b \in 1 .. N, a < b,
             HoleRange[a].Address # 0, HoleRange[b].Address # 0
      PROVE  HoleRange[a].Address + HoleRange[a].Length <= HoleRange[b].Address
  <2>1. a \in 1 .. DynamicHoles
    BY <1>8, Constants DEF N
  <2>2. CASE b \in 1 .. DynamicHoles
    BY <1>3, <1>6, <1>8, <2>1, <2>2 DEF Orderly
  <2>3. CASE b = N
    BY <1>3, <1>4, <1>6, <1>8, <2>1, <2>3
  <2> QED BY <1>3, <2>2, <2>3
<1>9. ASSUME NEW p
      PROVE  p \in AllPages(Secure) <=>
                 \E k \in 1 .. DynamicHoles : /\ p \in 0 .. Space - 1 /\ Secure[k].Address <= p
                                              /\ p < Secure[k].Address + Secure[k].Length
  <2>1. DOMAIN Secure = 1 .. DynamicHoles
    BY DEF PlatformInv
  <2> QED BY <2>1 DEF AllPages, Pages
<1>10. ASSUME NEW p
       PROVE  p \in Usable <=>
                  /\ p \in Nat /\ Base <= p /\ p < MemoryEnd
                  /\ \A k \in 1 .. N :
                        ~(HoleRange[k].Address <= p /\ p < HoleRange[k].Address + HoleRange[k].Length)
  <2>1. p \in Ram <=> /\ p \in Nat /\ Base <= p /\ p < MemoryEnd
                      /\ Split => ~(LowEnd <= p /\ p < Top)
    BY RamPages DEF HolesInOrder
  <2>2. p \in Ram => p \in 0 .. Space - 1
    BY <2>1, MemoryEndFacts, Constants
  <2>3. p \in Nat => ((LowEnd <= p /\ p < Top) <=> (LowEnd <= p /\ p < LowEnd + CarveOut))
    BY Constants
  <2>4. p \in Nat => ((Split => ~(LowEnd <= p /\ p < Top)) <=>
                        ~(HoleRange[N].Address <= p /\ p < HoleRange[N].Address + HoleRange[N].Length))
    BY <1>3, <1>4, <2>3 DEF PlatformInv
  <2>5. (\A k \in 1 .. N : ~(HoleRange[k].Address <= p /\ p < HoleRange[k].Address + HoleRange[k].Length))
        <=> /\ ~(HoleRange[N].Address <= p /\ p < HoleRange[N].Address + HoleRange[N].Length)
            /\ \A k \in 1 .. DynamicHoles :
                  ~(Secure[k].Address <= p /\ p < Secure[k].Address + Secure[k].Length)
    BY <1>3
  <2> QED BY <1>9, <2>1, <2>2, <2>4, <2>5 DEF Usable
<1> QED BY <1>2, <1>7, <1>8, <1>10 DEF Orderly, N

\* CurrentMemoryStart after k holes in order lies between the holes passed and
\* the holes to come.
LEMMA StartFacts ==
    ASSUME NEW N \in Nat, Orderly(HoleRange, N, Base, MemoryEnd), NEW k \in 0 .. N,
           MemoryEnd \in Int, MemoryEnd < Space
    PROVE  /\ StartAfter(k) \in Nat /\ Base <= StartAfter(k) /\ StartAfter(k) < Space
           /\ StartAfter(k) = Base \/
                  \E n \in 1 .. k : /\ HoleRange[n].Address # 0
                                    /\ StartAfter(k) = HoleRange[n].Address + HoleRange[n].Length
           /\ \A n \in 1 .. k : HoleRange[n].Address # 0 =>
                  HoleRange[n].Address + HoleRange[n].Length <= StartAfter(k)
           /\ \A n \in k + 1 .. N : HoleRange[n].Address # 0 => StartAfter(k) <= HoleRange[n].Address
<1>1. \A n \in 1 .. N : HoleRange[n].Address # 0 =>
          /\ HoleRange[n].Address \in Nat /\ HoleRange[n].Length \in Nat
          /\ Base <= HoleRange[n].Address /\ HoleRange[n].Address + HoleRange[n].Length < Space
          /\ 0 < HoleRange[n].Length
  BY Constants DEF Orderly
<1>2. CASE HolesUpTo(k) = {}
  BY <1>1, <1>2, Constants DEF HolesUpTo, StartAfter
<1>3. CASE HolesUpTo(k) # {}
  <2> DEFINE z == LastHole(k)
  <2>1. HolesUpTo(k) \in SUBSET (1 .. k)
    BY DEF HolesUpTo
  <2>2. z \in HolesUpTo(k) /\ \A n \in HolesUpTo(k) : n <= z
    <3>1. k \in Nat
      OBVIOUS
    <3>2. \E n \in HolesUpTo(k) : \A m \in HolesUpTo(k) : m <= n
      BY <1>3, <2>1, <3>1, GreatestNat
    <3> QED BY <3>2 DEF LastHole
  <2> HIDE DEF z
  <2>3. z \in 1 .. k /\ z \in 1 .. N /\ HoleRange[z].Address # 0
    BY <2>2 DEF HolesUpTo
  <2>4. StartAfter(k) = HoleRange[z].Address + HoleRange[z].Length
    <3>1. StartAfter(k) = End(HoleRange[z])
      BY <1>3 DEF StartAfter, AfterHole, z
    <3>2. (HoleRange[z].Address + HoleRange[z].Length) \in 0 .. Space - 1
      BY <1>1, <2>3, Constants
    <3> QED BY <3>1, <3>2, Constants DEF End
  <2>5. \A n \in 1 .. k : HoleRange[n].Address # 0 => n = z \/ n < z
    BY <2>2, <2>3 DEF HolesUpTo
  <2>6. \A n \in 1 .. k : HoleRange[n].Address # 0 =>
            HoleRange[n].Address + HoleRange[n].Length <= StartAfter(k)
    <3> SUFFICES ASSUME NEW n \in 1 .. k, HoleRange[n].Address # 0, n # z
                 PROVE  HoleRange[n].Address + HoleRange[n].Length <= StartAfter(k)
      BY <1>1, <2>3, <2>4
    <3>1. n \in 1 .. N /\ n < z
      BY <2>5
    <3>2. HoleRange[n].Address + HoleRange[n].Length <= HoleRange[z].Address
      BY <2>3, <3>1 DEF Orderly
    <3> QED BY <1>1, <2>3, <2>4, <3>1, <3>2
  <2>7. \A n \in k + 1 .. N : HoleRange[n].Address # 0 => StartAfter(k) <= HoleRange[n].Address
    <3> SUFFICES ASSUME NEW n \in k + 1 .. N, HoleRange[n].Address # 0
                 PROVE  StartAfter(k) <= HoleRange[n].Address
      OBVIOUS
    <3>1. n \in 1 .. N /\ z < n
      BY <2>3
    <3> QED BY <2>3, <2>4, <3>1 DEF Orderly
  <2> QED BY <1>1, <2>3, <2>4, <2>6, <2>7, Constants
<1> QED BY <1>2, <1>3

\* Arithmetic of UINT64 stays inside the address space.
LEMMA Modulo ==
    /\ \A x \in Int : x % Space \in Addresses
    /\ \A x \in Addresses : x % Space = x
BY Constants DEF Addresses

\* NoRegion is the cleared entry, and no page lies in it.
LEMMA NoRegionFacts ==
    /\ NoRegion \in Regions /\ NoRegion.Address = 0 /\ NoRegion.Length = 0
    /\ Straight(NoRegion) /\ Pages(NoRegion) = {}
<1>1. NoRegion = [Address |-> 0, Length |-> 0]
  BY DEF NoRegion, Region
<1>2. 0 \in Addresses
  BY Constants DEF Addresses
<1>3. NoRegion \in Regions /\ NoRegion.Address = 0 /\ NoRegion.Length = 0
  BY <1>1, <1>2 DEF Regions
<1>4. Pages(NoRegion) = {}
  BY <1>3 DEF Pages
<1> QED BY <1>3, <1>4, Constants DEF Straight

\* Whatever the holes are, Samsung's ranges are regions.
LEMMA SamsungType ==
    ASSUME PlatformInv, HoleInv, pc \notin {"peim", "dead", "hobs", "data"}, Vendor = "Samsung"
    PROVE  /\ Len(HoleRange) = DynamicHoles + 1
           /\ SamsungRanges \in [1 .. DynamicHoles + 2 -> Regions]
           /\ \A k \in 1 .. DynamicHoles + 1 : SamsungRanges[k] = Before(k)
           /\ SamsungRanges[DynamicHoles + 2] = Remaining
<1> DEFINE N == DynamicHoles + 1
           H == [Address : Nat, Length : Nat]
<1>0. N \in Nat
  BY Constants
<1>1. HoleRange \in [1 .. N -> H] /\ Len(HoleRange) = N
  <2>1. NoRegion \in H /\ Region(LowEnd, CarveOut) \in H
    BY Constants DEF NoRegion, Region
  <2>2. \A k \in 1 .. DynamicHoles : Secure[k] \in H
    <3> SUFFICES ASSUME NEW k \in 1 .. DynamicHoles, Secure[k] # NoRegion PROVE Secure[k] \in H
      BY <2>1
    <3>1. Secure[k] \in Holes
      BY DEF PlatformInv
    <3>2. \A a \in Base .. LowEnd - 1 : a \in Nat
      BY Constants
    <3>3. \A l \in Lengths : l \in Nat
      BY Constants
    <3> QED BY <3>1, <3>2, <3>3 DEF Holes
  <2>3. HoleRange \in [1 .. N -> H]
    <3> HIDE DEF H
    <3>1. HoleRange = [k \in 1 .. DynamicHoles + 1 |->
                              IF k <= DynamicHoles
                              THEN IF k \in hidden THEN NoRegion ELSE Secure[k]
                              ELSE IF Split THEN Region(LowEnd, CarveOut) ELSE NoRegion]
      BY DEF HoleInv
    <3>2. \A k \in 1 .. N : k <= DynamicHoles => k \in 1 .. DynamicHoles
      BY Constants
    <3> QED BY <2>1, <2>2, <3>1, <3>2
  <2> HIDE DEF N, H
  <2> QED BY <1>0, <2>3, FunctionIsSeq
<1>2. ASSUME NEW k \in 0 .. N PROVE StartAfter(k) \in Addresses
  <2>1. CASE HolesUpTo(k) = {}
    BY <2>1, Constants DEF StartAfter, Addresses
  <2>2. CASE HolesUpTo(k) # {}
    <3>1. HolesUpTo(k) \in SUBSET (1 .. k) /\ k \in Nat
      BY Constants DEF HolesUpTo
    <3>2. \E n \in HolesUpTo(k) : \A m \in HolesUpTo(k) : m <= n
      BY <2>2, <3>1, GreatestNat
    <3>3. LastHole(k) \in HolesUpTo(k)
      BY <3>2 DEF LastHole
    <3>4. LastHole(k) \in 1 .. N
      BY <3>1, <3>3, <1>0
    <3>5. HoleRange[LastHole(k)].Address + HoleRange[LastHole(k)].Length \in Int
      BY <1>1, <3>4
    <3> QED BY <2>2, <3>5, Modulo DEF StartAfter, AfterHole, End
  <2> QED BY <2>1, <2>2
<1>3. ASSUME NEW k \in 1 .. N PROVE Before(k) \in Regions
  <2>1. k - 1 \in 0 .. N /\ HoleRange[k].Address \in Nat
    BY <1>1, Constants
  <2>2. StartAfter(k - 1) \in Addresses
    BY <1>2, <2>1
  <2>3. RangeLength(HoleRange[k].Address, StartAfter(k - 1)) \in Addresses
    <3>1. HoleRange[k].Address - StartAfter(k - 1) \in Int
      BY <2>1, <2>2 DEF Addresses
    <3> QED BY <3>1, Modulo DEF RangeLength
  <2> QED BY <2>2, <2>3, NoRegionFacts DEF Before, Regions, Region
<1>4. Remaining \in Regions
  <2>1. StartAfter(N) \in Addresses
    BY <1>0, <1>2
  <2>2. MemoryEnd \in Int /\ MemoryEnd < Space
    BY MemoryEndFacts
  <2>3. CASE MemoryEnd > StartAfter(N)
    <3>1. MemoryEnd - StartAfter(N) \in Addresses
      BY <2>1, <2>2, <2>3, Constants DEF Addresses
    <3> QED BY <1>1, <2>1, <2>3, <3>1 DEF Remaining, Regions, Region
  <2>4. CASE ~(MemoryEnd > StartAfter(N))
    BY <1>1, <2>4, NoRegionFacts DEF Remaining
  <2> QED BY <2>3, <2>4
<1> DEFINE b == [k \in 1 .. N |-> Before(k)]
<1>5. b \in Seq(Regions) /\ Len(b) = N
  <2>1. b \in [1 .. N -> Regions]
    BY <1>3
  <2> HIDE DEF N, b
  <2> QED BY <1>0, <2>1, FunctionIsSeq
<1>6. SamsungRanges = Append(b, Remaining)
  BY <1>1 DEF SamsungRanges
<1>7. \A k \in 1 .. N : b[k] = Before(k)
  OBVIOUS
<1> HIDE DEF b
<1>8. /\ SamsungRanges \in Seq(Regions) /\ Len(SamsungRanges) = N + 1
      /\ \A k \in 1 .. N : SamsungRanges[k] = b[k]
      /\ SamsungRanges[N + 1] = Remaining
  BY <1>4, <1>5, <1>6, AppendProperties
<1>9. SamsungRanges \in [1 .. N + 1 -> Regions]
  BY <1>8, LenProperties
<1>10. N + 1 = DynamicHoles + 2
  BY Constants
<1> QED BY <1>1, <1>7, <1>8, <1>9, <1>10

\* A list of n ranges is exactly the usable memory.
Exact(s, n) ==
    /\ \A k \in 1 .. n : Straight(s[k]) /\ Pages(s[k]) \subseteq Usable
    /\ \A p \in Usable : \E k \in 1 .. n : p \in Pages(s[k])

\* With holes in order, what Samsung's loop leaves between them is exactly the
\* usable memory.
LEMMA SamsungExact ==
    ASSUME PlatformInv, HoleInv, HolesInOrder, pc \notin {"peim", "dead", "hobs", "data"},
           Vendor = "Samsung"
    PROVE  Exact(SamsungRanges, DynamicHoles + 2)
<1> DEFINE N == DynamicHoles + 1
<1>1. /\ Len(HoleRange) = N /\ N \in Nat
      /\ \A k \in 1 .. N : SamsungRanges[k] = Before(k)
      /\ SamsungRanges[N + 1] = Remaining
      /\ N + 1 = DynamicHoles + 2
  BY SamsungType, Constants
<1>2. Orderly(HoleRange, N, Base, MemoryEnd)
  BY HoleFacts
<1>3. \A p : p \in Usable <=>
         /\ p \in Nat /\ Base <= p /\ p < MemoryEnd
         /\ \A k \in 1 .. N :
               ~(HoleRange[k].Address <= p /\ p < HoleRange[k].Address + HoleRange[k].Length)
  BY HoleFacts
<1>4. MemoryEnd \in Int /\ MemoryEnd < Space
  BY MemoryEndFacts
<1> HIDE DEF N
<1>5. \A n \in 1 .. N :
          \/ HoleRange[n].Address = 0 /\ HoleRange[n].Length = 0
          \/ /\ HoleRange[n].Address # 0
             /\ HoleRange[n].Address \in Nat /\ HoleRange[n].Length \in Nat
             /\ Base <= HoleRange[n].Address /\ 0 < HoleRange[n].Length
             /\ HoleRange[n].Address + HoleRange[n].Length <= MemoryEnd
  BY <1>2, Constants DEF Orderly
<1>6. ASSUME NEW k \in 1 .. N, HoleRange[k].Address # 0
      PROVE  \/ Before(k) = NoRegion /\ StartAfter(k - 1) = HoleRange[k].Address
             \/ /\ StartAfter(k - 1) < HoleRange[k].Address
                /\ Before(k).Address = StartAfter(k - 1)
                /\ Before(k).Length = HoleRange[k].Address - StartAfter(k - 1)
  <2>1. k - 1 \in 0 .. N /\ k \in (k - 1) + 1 .. N
    BY <1>1
  <2>2. StartAfter(k - 1) \in Nat /\ StartAfter(k - 1) <= HoleRange[k].Address
    BY <1>1, <1>2, <1>4, <1>6, <2>1, StartFacts
  <2>3. HoleRange[k].Address - StartAfter(k - 1) \in Addresses
    <3>1. HoleRange[k].Address \in Nat /\ HoleRange[k].Address < Space
      BY <1>4, <1>5, <1>6, Constants
    <3> QED BY <2>2, <3>1, Constants DEF Addresses
  <2>4. RangeLength(HoleRange[k].Address, StartAfter(k - 1)) = HoleRange[k].Address - StartAfter(k - 1)
    BY <2>3, Modulo DEF RangeLength
  <2>5. HoleRange[k].Address \in Nat
    BY <1>5, <1>6
  <2>6. CASE StartAfter(k - 1) = HoleRange[k].Address
    BY <1>6, <2>2, <2>4, <2>5, <2>6 DEF Before
  <2>7. CASE StartAfter(k - 1) # HoleRange[k].Address
    BY <1>6, <2>2, <2>4, <2>5, <2>7 DEF Before, Region
  <2> QED BY <2>6, <2>7
<1>7. \A k \in 1 .. N : HoleRange[k].Address = 0 => Before(k) = NoRegion
  BY DEF Before
<1>8. ASSUME NEW k \in 1 .. N
      PROVE  Straight(Before(k)) /\ Pages(Before(k)) \subseteq Usable
  <2>1. CASE Before(k) = NoRegion
    BY <2>1, NoRegionFacts
  <2>2. CASE Before(k) # NoRegion
    <3>1. /\ HoleRange[k].Address # 0 /\ StartAfter(k - 1) < HoleRange[k].Address
          /\ Before(k).Address = StartAfter(k - 1)
          /\ Before(k).Length = HoleRange[k].Address - StartAfter(k - 1)
      BY <1>6, <1>7, <2>2
    <3>2. k - 1 \in 0 .. N
      BY <1>1
    <3>3. /\ StartAfter(k - 1) \in Nat /\ Base <= StartAfter(k - 1)
          /\ \A n \in 1 .. k - 1 : HoleRange[n].Address # 0 =>
                 HoleRange[n].Address + HoleRange[n].Length <= StartAfter(k - 1)
      BY <1>1, <1>2, <1>4, <3>2, StartFacts
    <3>4. HoleRange[k].Address \in Nat /\ HoleRange[k].Address < MemoryEnd
      BY <1>4, <1>5, <3>1
    <3>5. Before(k).Address + Before(k).Length = HoleRange[k].Address
      BY <3>1, <3>3, <3>4
    <3>6. ASSUME NEW p \in Nat, StartAfter(k - 1) <= p, p < HoleRange[k].Address
          PROVE  p \in Usable
      <4>1. ASSUME NEW n \in 1 .. N, HoleRange[n].Address # 0
            PROVE  ~(HoleRange[n].Address <= p /\ p < HoleRange[n].Address + HoleRange[n].Length)
        <5>1. CASE n \in 1 .. k - 1
          BY <1>5, <3>3, <3>6, <4>1, <5>1
        <5>2. CASE n = k
          BY <3>4, <3>6, <5>2
        <5>3. CASE k < n
          <6>1. HoleRange[k].Address + HoleRange[k].Length <= HoleRange[n].Address
            BY <1>2, <3>1, <4>1, <5>3 DEF Orderly
          <6> QED BY <1>5, <3>1, <3>6, <4>1, <6>1
        <5> QED BY <1>1, <5>1, <5>2, <5>3
      <4>2. \A n \in 1 .. N : HoleRange[n].Address = 0 => HoleRange[n].Length = 0
        BY <1>5
      <4>3. Base <= p /\ p < MemoryEnd
        BY <1>4, <3>3, <3>4, <3>6, Constants
      <4> QED BY <1>3, <4>1, <4>2, <4>3
    <3>7. Pages(Before(k)) \subseteq Usable
      BY <3>1, <3>5, <3>6 DEF Pages
    <3> QED BY <1>4, <3>4, <3>5, <3>7, Constants DEF Straight
  <2> QED BY <2>1, <2>2
<1>9. /\ StartAfter(N) \in Nat /\ Base <= StartAfter(N)
      /\ StartAfter(N) = Base \/
             \E n \in 1 .. N : /\ HoleRange[n].Address # 0
                               /\ StartAfter(N) = HoleRange[n].Address + HoleRange[n].Length
      /\ \A n \in 1 .. N : HoleRange[n].Address # 0 =>
             HoleRange[n].Address + HoleRange[n].Length <= StartAfter(N)
  <2>1. N \in 0 .. N
    BY <1>1
  <2> QED BY <1>1, <1>2, <1>4, <2>1, StartFacts
<1>10. \/ MemoryEnd <= StartAfter(N) /\ Remaining = NoRegion
       \/ /\ StartAfter(N) < MemoryEnd /\ Remaining.Address = StartAfter(N)
          /\ Remaining.Address + Remaining.Length = MemoryEnd
  BY <1>1, <1>4, <1>9 DEF Remaining, Region
<1>11. Straight(Remaining) /\ Pages(Remaining) \subseteq Usable
  <2>1. CASE Remaining = NoRegion
    BY <2>1, NoRegionFacts
  <2>2. CASE Remaining # NoRegion
    <3>1. ASSUME NEW p \in Nat, StartAfter(N) <= p, p < MemoryEnd PROVE p \in Usable
      BY <1>3, <1>4, <1>5, <1>9, <3>1, Constants
    <3> QED BY <1>4, <1>10, <2>2, <3>1, Constants DEF Pages, Straight
  <2> QED BY <2>1, <2>2
<1>12. ASSUME NEW p \in Usable PROVE \E k \in 1 .. N + 1 : p \in Pages(SamsungRanges[k])
  <2> DEFINE K == {k \in 1 .. N : HoleRange[k].Address # 0 /\ p < HoleRange[k].Address}
  <2>1. /\ p \in Nat /\ Base <= p /\ p < MemoryEnd /\ p \in 0 .. Space - 1
        /\ \A k \in 1 .. N :
               ~(HoleRange[k].Address <= p /\ p < HoleRange[k].Address + HoleRange[k].Length)
    BY <1>3, <1>4, Constants
  <2>2. CASE K = {}
    <3>1. \A n \in 1 .. N : HoleRange[n].Address # 0 =>
              HoleRange[n].Address + HoleRange[n].Length <= p
      BY <1>5, <2>1, <2>2
    <3>2. StartAfter(N) <= p
      BY <1>9, <2>1, <3>1
    <3>3. p \in Pages(Remaining)
      BY <1>4, <1>9, <1>10, <2>1, <3>2 DEF Pages
    <3>4. N + 1 \in 1 .. N + 1
      BY <1>1
    <3> QED BY <1>1, <3>3, <3>4
  <2>3. CASE K # {}
    <3>1. K \in SUBSET Nat
      BY <1>1
    <3>2. PICK k \in K : \A n \in K : k <= n
      BY <2>3, <3>1, LeastNat
    <3>3. k \in 1 .. N /\ HoleRange[k].Address # 0 /\ p < HoleRange[k].Address
      BY <3>2
    <3>4. \A n \in 1 .. k - 1 : HoleRange[n].Address # 0 =>
              HoleRange[n].Address + HoleRange[n].Length <= p
      <4> SUFFICES ASSUME NEW n \in 1 .. k - 1, HoleRange[n].Address # 0
                   PROVE  HoleRange[n].Address + HoleRange[n].Length <= p
        OBVIOUS
      <4>1. n \in 1 .. N /\ n \notin K
        BY <1>1, <3>2, <3>3
      <4> QED BY <1>5, <2>1, <4>1
    <3>5. k - 1 \in 0 .. N
      BY <1>1, <3>3
    <3>6. /\ StartAfter(k - 1) \in Nat
          /\ StartAfter(k - 1) = Base \/
                 \E n \in 1 .. k - 1 : /\ HoleRange[n].Address # 0
                                       /\ StartAfter(k - 1) = HoleRange[n].Address + HoleRange[n].Length
      BY <1>1, <1>2, <1>4, <3>5, StartFacts
    <3>7. StartAfter(k - 1) <= p
      BY <2>1, <3>4, <3>6
    <3>8. HoleRange[k].Address \in Nat
      BY <1>5, <3>3
    <3>9. p \in Pages(Before(k))
      <4>1. StartAfter(k - 1) # HoleRange[k].Address
        BY <2>1, <3>3, <3>6, <3>7, <3>8
      <4>2. Before(k).Address = StartAfter(k - 1)
            /\ Before(k).Length = HoleRange[k].Address - StartAfter(k - 1)
        BY <1>6, <3>3, <4>1
      <4> QED BY <2>1, <3>3, <3>6, <3>7, <3>8, <4>2 DEF Pages
    <3>10. k \in 1 .. N + 1
      BY <1>1, <3>3
    <3> QED BY <1>1, <3>3, <3>9, <3>10
  <2> QED BY <2>2, <2>3
<1>13. ASSUME NEW k \in 1 .. N + 1
       PROVE  Straight(SamsungRanges[k]) /\ Pages(SamsungRanges[k]) \subseteq Usable
  <2>1. k \in 1 .. N \/ k = N + 1
    BY <1>1
  <2> QED BY <1>1, <1>8, <1>11, <2>1
<1> QED BY <1>1, <1>12, <1>13 DEF Exact

\* The partitions of Qualcomm and the single block of MediaTek are the RAM.
LEMMA PlainExact ==
    ASSUME PlatformInv, Vendor # "Samsung"
    PROVE  \E n \in Nat \ {0} : /\ GetUsableMemoryRanges \in [1 .. n -> Regions]
                                /\ HolesInOrder => Exact(GetUsableMemoryRanges, n)
<1>1. Usable = Ram
  <2>1. AllPages(Secure) = {}
    BY NoRegionFacts DEF PlatformInv, AllPages
  <2> QED BY <2>1 DEF Usable
<1>2. MemorySize \in Nat /\ Base + MemorySize < Space /\ Top + MemorySize < Space
  BY RamAssumption, MemoryEndFacts DEF Top, PlatformInv
<1>3. CASE Vendor = "MediaTek"
  <2> DEFINE r == Region(Base, MemorySize)
  <2>1. r.Address = Base /\ r.Length = MemorySize /\ r \in Regions
    BY <1>2, Constants DEF Region, Regions, Addresses
  <2>2. GetUsableMemoryRanges = <<r>> /\ Ram = Pages(r)
    BY <1>3 DEF GetUsableMemoryRanges, MediaTekRanges, PlatformInv, Ram
  <2> HIDE DEF r
  <2>3. <<r>> \in [1 .. 1 -> Regions] /\ <<r>>[1] = r
    BY <2>1
  <2>4. Exact(<<r>>, 1)
    BY <1>1, <1>2, <2>1, <2>2, <2>3 DEF Exact, Straight
  <2> QED BY <2>2, <2>3, <2>4
<1>4. CASE Vendor = "Qualcomm"
  <2>1. /\ Low.Address = Base /\ Low.Length \in Nat
        /\ Low.Length = IF MemorySize < LowEnd - Base THEN MemorySize ELSE LowEnd - Base
    BY <1>2, Constants DEF Low, Region
  <2>2. High.Address = Top /\ High.Length = MemorySize - Low.Length
    BY DEF High, Region
  <2>3. Low.Length <= MemorySize /\ High.Length \in Nat /\ High.Length <= MemorySize
    BY <1>2, <2>1, <2>2, Constants
  <2>4. Low \in Regions /\ High \in Regions
    <3>1. Low = [Address |-> Low.Address, Length |-> Low.Length]
      BY DEF Low, Region
    <3>2. High = [Address |-> High.Address, Length |-> High.Length]
      BY DEF High, Region
    <3>3. {Low.Address, Low.Length, High.Address, High.Length} \subseteq Addresses
      BY <1>2, <2>1, <2>2, <2>3, Constants DEF Addresses
    <3> QED BY <3>1, <3>2, <3>3 DEF Regions
  <2>5. Straight(Low) /\ Straight(High)
    BY <1>2, <2>1, <2>2, <2>3, Constants DEF Straight
  <2>6. Ram = Pages(Low) \union Pages(High)
    BY <1>4 DEF Ram, PlatformInv
  <2>7. CASE High.Length = 0
    <3>1. GetUsableMemoryRanges = <<Low>>
      BY <1>4, <2>7 DEF GetUsableMemoryRanges, QualcommRanges
    <3>2. Pages(High) = {}
      BY <2>2, <2>7, Constants DEF Pages
    <3>3. <<Low>> \in [1 .. 1 -> Regions] /\ <<Low>>[1] = Low
      BY <2>4
    <3>4. Exact(<<Low>>, 1)
      BY <1>1, <2>5, <2>6, <3>2, <3>3 DEF Exact
    <3> QED BY <3>1, <3>3, <3>4
  <2>8. CASE High.Length # 0
    <3>1. GetUsableMemoryRanges = <<High, Low>>
      BY <1>4, <2>8 DEF GetUsableMemoryRanges, QualcommRanges
    <3>2. /\ <<High, Low>> \in [1 .. 2 -> Regions]
          /\ <<High, Low>>[1] = High /\ <<High, Low>>[2] = Low
      BY <2>4
    <3>3. \A k \in 1 .. 2 : k = 1 \/ k = 2
      OBVIOUS
    <3>4. Exact(<<High, Low>>, 2)
      <4>1. \A k \in 1 .. 2 : Straight(<<High, Low>>[k]) /\ Pages(<<High, Low>>[k]) \subseteq Usable
        BY <1>1, <2>5, <2>6, <3>2, <3>3
      <4>2. \A p \in Usable : p \in Pages(<<High, Low>>[1]) \/ p \in Pages(<<High, Low>>[2])
        BY <1>1, <2>6, <3>2
      <4> QED BY <4>1, <4>2 DEF Exact
    <3> QED BY <3>1, <3>2, <3>4
  <2> QED BY <2>7, <2>8
<1> QED BY <1>3, <1>4 DEF PlatformInv

\* Every vendor's ranges are regions and, with holes in order, exactly the
\* usable memory.
LEMMA RangesExact ==
    ASSUME PlatformInv, HoleInv, pc \notin {"peim", "dead", "hobs", "data"}
    PROVE  \E n \in Nat \ {0} : /\ GetUsableMemoryRanges \in [1 .. n -> Regions]
                                /\ HolesInOrder => Exact(GetUsableMemoryRanges, n)
<1>1. CASE Vendor = "Samsung"
  <2>1. GetUsableMemoryRanges = SamsungRanges
    BY <1>1 DEF GetUsableMemoryRanges
  <2>2. DynamicHoles + 2 \in Nat \ {0}
    BY Constants
  <2> QED BY <1>1, <2>1, <2>2, SamsungType, SamsungExact
<1> QED BY <1>1, PlainExact

-----------------------------------------------------------------------------
(* The steps up to ManageRam.                                               *)

\* The rows of a table are regions that do not wrap around.
LEMMA RowFacts ==
    \A r \in Rows : /\ r.Address \in Addresses /\ r.Length \in Addresses
                    /\ r.Address \in Int /\ Straight(r)
<1> SUFFICES ASSUME NEW r \in Rows
             PROVE  /\ r.Address \in Addresses /\ r.Length \in Addresses
                    /\ r.Address \in Int /\ Straight(r)
  OBVIOUS
<1>1. r.Address \in Places /\ r.Length \in Lengths
  BY DEF Rows
<1>2. /\ r.Address \in Nat /\ r.Length \in Nat /\ r.Address + r.Length < Space
  BY <1>1, Constants
<1> QED BY <1>2, Constants DEF Straight, Addresses

\* Pages are addresses, and a list without entries has none.
LEMMA PagesFacts ==
    /\ \A r : Pages(r) \subseteq Addresses
    /\ AllPages(<<>>) = {}
BY DEF Pages, Addresses, AllPages

\* The parts of the invariant that are about what ManageRam builds hold as
\* long as it has built nothing.
LEMMA NothingYet ==
    ASSUME EfiMemoryMap = <<>>, MemoryRange = <<>>, given = {}
    PROVE  MapInv /\ GivenIsNew /\ RangesInv /\ GivenIsUsable
<1>1. MapInv
  BY EmptySeq DEF MapInv
<1> QED BY <1>1 DEF GivenIsNew, RangesInv, GivenIsUsable

\* The initial state.
LEMMA InitInv == Init => IInv
<1> SUFFICES ASSUME Init PROVE IInv
  OBVIOUS
<1>1. PlatformInv
  <2>1. Vendor \in {"Samsung", "MediaTek", "Qualcomm"} /\ MemorySize \in Sizes
    BY RamAssumption DEF Init
  <2>2. Split \in BOOLEAN /\ (Vendor = "MediaTek" => ~Split) /\ (Vendor = "Qualcomm" => Split)
    <3>1. CASE Vendor = "Samsung"
      BY <3>1 DEF Init
    <3>2. CASE Vendor # "Samsung"
      <4>1. Split = (Vendor = "Qualcomm")
        BY <3>2 DEF Init
      <4> QED BY <4>1
    <3> QED BY <3>1, <3>2
  <2>3. \E n \in Nat : Table \in [1 .. n -> Rows]
    BY RamAssumption DEF Init, Tables, Rows
  <2> QED BY <2>1, <2>2, <2>3 DEF Init, PlatformInv
<1>2. /\ EfiMemoryMap = <<>> /\ MemoryRange = <<>> /\ given = {} /\ i = 1 /\ j = 1
      /\ pc = "peim" /\ hidden = {} /\ HoleRange = <<>> /\ CurrentRangeBase = 0
      /\ gcd = {} /\ pool = {} /\ trouble = FALSE
  BY DEF Init
<1>3. HoleInv
  BY <1>2 DEF HoleInv
<1>4. LoopInv
  BY <1>2, Constants DEF LoopInv, Booting, Addresses
<1>5. CoreInv
  BY <1>2, PagesFacts DEF CoreInv
<1>6. PassedInv
  BY <1>2 DEF PassedInv
<1> QED BY <1>1, <1>2, <1>3, <1>4, <1>5, <1>6, NothingYet DEF IInv

\* ValidateMemoryMap sorts the table and goes on or stops.
LEMMA ValidateKeeps == ASSUME IInv, ValidateMemoryMap PROVE IInv'
<1>1. /\ pc = "peim" /\ pc' \in {"dead", "hobs"} /\ Table' = Sorted(Table)
      /\ UNCHANGED <<Vendor, Split, MemorySize, Secure, HoleRange, EfiMemoryMap, MemoryRange,
                     i, j, CurrentRangeBase, gcd, pool, given, hidden, trouble>>
  BY DEF ValidateMemoryMap, loopVars, coreVars
<1>2. PlatformInv'
  <2>1. \E n \in Nat : Table' \in [1 .. n -> Rows]
    <3>1. Placed(Rows)
      BY RowFacts DEF Placed
    <3> QED BY <1>1, <3>1, SortedFacts DEF IInv, PlatformInv
  <2> QED BY <1>1, <2>1 DEF IInv, PlatformInv
<1>3. HoleInv' /\ MapInv'
  BY <1>1 DEF IInv, HoleInv, MapInv
<1>4. LoopInv' /\ CoreInv'
  BY <1>1 DEF IInv, LoopInv, CoreInv, Booting, AllPages, Pages
<1>5. GivenIsNew' /\ RangesInv' /\ PassedInv' /\ GivenIsUsable'
  BY <1>1 DEF IInv, LoopInv, Booting, GivenIsNew, RangesInv, PassedInv, GivenIsUsable
<1> QED BY <1>2, <1>3, <1>4, <1>5 DEF IInv

\* AddHobs tells the core of the table.
LEMMA AddHobsKeeps == ASSUME IInv, AddHobs PROVE IInv'
<1>1. /\ pc = "hobs" /\ pc' = "data" /\ gcd' = HobPages
      /\ UNCHANGED <<Vendor, Split, MemorySize, Secure, Table, HoleRange, EfiMemoryMap,
                     MemoryRange, i, j, CurrentRangeBase, pool, given, hidden, trouble>>
  BY DEF AddHobs, loopVars, tableVars, HobPages
<1>2. given = {} /\ EfiMemoryMap = <<>> /\ MemoryRange = <<>> /\ pool = {}
  BY <1>1 DEF IInv, LoopInv, Booting, CoreInv
<1>3. PlatformInv' /\ HoleInv' /\ MapInv'
  BY <1>1 DEF IInv, PlatformInv, HoleInv, MapInv
<1>4. LoopInv'
  BY <1>1 DEF IInv, LoopInv, Booting
<1>5. CoreInv'
  <2>1. HobPages' = HobPages /\ HobPages \subseteq Addresses
    BY <1>1, PagesFacts DEF HobPages
  <2>2. AllPages(EfiMemoryMap)' = {}
    BY <1>1, <1>2, PagesFacts
  <2> QED BY <1>1, <1>2, <2>1, <2>2 DEF IInv, CoreInv
<1>6. GivenIsNew' /\ RangesInv' /\ PassedInv' /\ GivenIsUsable'
  BY <1>1, <1>2 DEF IInv, LoopInv, GivenIsNew, RangesInv, PassedInv, GivenIsUsable
<1> QED BY <1>3, <1>4, <1>5, <1>6 DEF IInv

\* GetMemoryData learns the holes it can.
LEMMA GetMemoryDataKeeps == ASSUME IInv, GetMemoryData PROVE IInv'
<1>1. /\ pc = "data" /\ pc' = "map" /\ hidden' \in SUBSET CallMayFail
      /\ UNCHANGED <<Vendor, Split, MemorySize, Secure, Table, EfiMemoryMap, MemoryRange,
                     i, j, CurrentRangeBase, gcd, pool, given, trouble>>
  BY DEF GetMemoryData, loopVars, tableVars, coreVars
<1>2. given = {} /\ EfiMemoryMap = <<>> /\ MemoryRange = <<>>
  BY <1>1 DEF IInv, LoopInv, Booting
<1>3. PlatformInv' /\ MapInv'
  BY <1>1 DEF IInv, PlatformInv, MapInv
<1>4. HoleInv'
  BY <1>1 DEF GetMemoryData, tableVars, HoleInv, CallMayFail
<1>5. LoopInv'
  BY <1>1 DEF IInv, LoopInv, Booting
<1>6. CoreInv'
  BY <1>1 DEF IInv, CoreInv, HobPages, AllPages, Pages
<1>7. GivenIsNew' /\ RangesInv' /\ PassedInv' /\ GivenIsUsable'
  BY <1>1, <1>2 DEF IInv, LoopInv, GivenIsNew, RangesInv, PassedInv, GivenIsUsable
<1> QED BY <1>3, <1>4, <1>5, <1>6, <1>7 DEF IInv

\* What GetEfiMemoryMap may return: regions of the table that have a HOB.
LEMMA EfiMapFacts ==
    ASSUME PlatformInv, NEW m \in GetEfiMemoryMap
    PROVE  \E n \in Nat : /\ m \in [1 .. n -> {r \in Regions : Straight(r)}]
                          /\ \A k \in 1 .. n : Pages(m[k]) \subseteq HobPages
<1> DEFINE listed == {k \in DOMAIN Table : Listed(Table[k])}
           n == Cardinality(listed)
<1>1. PICK t \in Nat : Table \in [1 .. t -> Rows]
  BY DEF PlatformInv
<1>2. n \in Nat
  <2>1. listed \in SUBSET (1 .. t)
    BY <1>1
  <2>2. IsFiniteSet(1 .. t)
    BY FS_Interval
  <2> HIDE DEF listed
  <2>3. IsFiniteSet(listed)
    BY <2>1, <2>2, FS_Subset
  <2> QED BY <2>3, FS_CardinalityType
<1>3. PICK q \in [1 .. n -> listed] :
         m = [k \in 1 .. n |-> Region(Table[q[k]].Address, Table[q[k]].Length)]
  BY DEF GetEfiMemoryMap
<1> HIDE DEF n
<1>4. ASSUME NEW k \in 1 .. n
      PROVE  m[k] \in Regions /\ Straight(m[k]) /\ Pages(m[k]) \subseteq HobPages
  <2> DEFINE r == Table[q[k]]
  <2>1. q[k] \in DOMAIN Table /\ r \in Rows /\ HasHob(r)
    BY <1>1, <1>3 DEF Listed, HasHob
  <2>2. r.Address \in Addresses /\ r.Length \in Addresses /\ Straight(r)
    BY <2>1, RowFacts
  <2>3. Pages(r) \subseteq HobPages
    BY <2>1 DEF HobPages
  <2>4. m[k] = [Address |-> r.Address, Length |-> r.Length]
    BY <1>3 DEF Region
  <2> HIDE DEF r
  <2>5. m[k] \in Regions /\ m[k].Address = r.Address /\ m[k].Length = r.Length
    BY <2>2, <2>4 DEF Regions
  <2> QED BY <2>2, <2>3, <2>5 DEF Straight, Pages
<1>5. m \in [1 .. n -> {r \in Regions : Straight(r)}]
  BY <1>3, <1>4
<1> QED BY <1>2, <1>4, <1>5

\* Addresses are integers.
LEMMA RegionInt == Placed(Regions)
BY DEF Placed, Regions, Addresses

\* ManageRam collects the memory map and the ranges, or gives up.
LEMMA ManageRamKeeps == ASSUME IInv, ManageRam PROVE IInv'
<1>1. /\ pc = "map" /\ UNCHANGED <<Vendor, Split, MemorySize, Secure, Table, HoleRange,
                                   i, j, CurrentRangeBase, gcd, pool, given, hidden>>
  BY DEF ManageRam, loopVars, tableVars, coreVars
<1>2. given = {} /\ EfiMemoryMap = <<>> /\ MemoryRange = <<>> /\ HobPages \subseteq gcd /\ pool = {}
  BY <1>1 DEF IInv, LoopInv, Booting, CoreInv
<1>3. Len(<<>>) = 0 /\ i = 1 /\ j = 1
  BY <1>1, <1>2 DEF IInv, LoopInv
<1>4. CASE pc' = "done" /\ trouble' = TRUE /\ UNCHANGED <<EfiMemoryMap, MemoryRange>>
  <2>1. PlatformInv' /\ HoleInv' /\ MapInv'
    BY <1>1, <1>4 DEF IInv, PlatformInv, HoleInv, MapInv
  <2>2. LoopInv'
    BY <1>1, <1>2, <1>4 DEF IInv, LoopInv, Booting
  <2>3. CoreInv'
    BY <1>1, <1>2, <1>4 DEF IInv, CoreInv, AllPages, Pages
  <2>4. GivenIsNew' /\ RangesInv' /\ PassedInv' /\ GivenIsUsable'
    BY <1>1, <1>2, <1>3, <1>4 DEF IInv, GivenIsNew, RangesInv, PassedInv, GivenIsUsable
  <2> QED BY <2>1, <2>2, <2>3, <2>4 DEF IInv
<1>5. CASE /\ \E m \in GetEfiMemoryMap : EfiMemoryMap' = Sorted(m)
           /\ MemoryRange' = Sorted(GetUsableMemoryRanges)
           /\ pc' = "range" /\ UNCHANGED trouble
  <2>1. PICK m \in GetEfiMemoryMap : EfiMemoryMap' = Sorted(m)
    BY <1>5
  <2>2. PICK n \in Nat : /\ m \in [1 .. n -> {r \in Regions : Straight(r)}]
                         /\ \A k \in 1 .. n : Pages(m[k]) \subseteq HobPages
    BY EfiMapFacts DEF IInv
  <2> DEFINE e == EfiMemoryMap'
             g == MemoryRange'
             S == {r \in Regions : Straight(r)}
  <2>3. /\ e \in [1 .. n -> S]
        /\ \A k \in 1 .. n : \E x \in 1 .. n : e[k] = m[x]
        /\ \A a, b \in 1 .. n : a <= b => e[a].Address <= e[b].Address
    <3>1. Placed(S)
      BY RegionInt DEF Placed
    <3> HIDE DEF S
    <3>2. m \in [1 .. n -> S]
      BY <2>2 DEF S
    <3>3. /\ Sorted(m) \in [1 .. n -> S]
          /\ SameElements(Sorted(m), m, n) /\ Ascending(Sorted(m), n)
      BY <3>1, <3>2, SortedFacts
    <3> QED BY <2>1, <3>3 DEF SameElements, Ascending
  <2>4. e \in Seq(Regions) /\ Len(e) = n /\ \A k \in 1 .. n : Straight(e[k])
    <3>1. e \in [1 .. n -> Regions] /\ \A k \in 1 .. n : Straight(e[k])
      BY <2>3
    <3> HIDE DEF e
    <3> QED BY <3>1, FunctionIsSeq
  <2>5. AllPages(e) \subseteq HobPages
    <3>1. DOMAIN e = 1 .. n /\ \A k \in 1 .. n : Pages(e[k]) \subseteq HobPages
      BY <2>2, <2>3
    <3> HIDE DEF e
    <3> QED BY <3>1 DEF AllPages
  <2>6. PICK l \in Nat \ {0} : /\ GetUsableMemoryRanges \in [1 .. l -> Regions]
                               /\ HolesInOrder => Exact(GetUsableMemoryRanges, l)
    BY <1>1, RangesExact DEF IInv
  <2>7. /\ g \in [1 .. l -> Regions]
        /\ \A k \in 1 .. l : \E x \in 1 .. l : g[k] = GetUsableMemoryRanges[x]
        /\ \A x \in 1 .. l : \E k \in 1 .. l : g[k] = GetUsableMemoryRanges[x]
    <3>1. g = Sorted(GetUsableMemoryRanges) /\ l \in Nat
      BY <1>5
    <3> DEFINE u == GetUsableMemoryRanges
    <3>2. u \in [1 .. l -> Regions]
      BY <2>6
    <3> HIDE DEF u
    <3>3. Sorted(u) \in [1 .. l -> Regions] /\ SameElements(Sorted(u), u, l)
      BY <3>1, <3>2, SortedFacts, RegionInt
    <3> QED BY <3>1, <3>3 DEF u, SameElements
  <2> HIDE DEF e, g
  <2>8. g \in Seq(Regions) /\ Len(g) = l /\ DOMAIN g = 1 .. l /\ g # <<>>
    BY <2>7, FunctionIsSeq, EmptySeq
  <2>9. HolesInOrder => /\ \A k \in 1 .. l : Straight(g[k]) /\ Pages(g[k]) \subseteq Usable
                        /\ Usable \subseteq AllPages(g)
    BY <2>6, <2>7, <2>8 DEF Exact, AllPages
  <2>10. PlatformInv' /\ HoleInv'
    BY <1>1, <1>5 DEF IInv, PlatformInv, HoleInv
  <2>11. MapInv'
    BY <2>3, <2>4, <2>8 DEF MapInv, e, g
  <2>12. LoopInv'
    <3>1. /\ i' = 1 /\ j' = 1 /\ CurrentRangeBase' \in Addresses /\ pc' = "range"
          /\ Len(MemoryRange') \in Nat /\ Len(EfiMemoryMap') \in Nat /\ MemoryRange' # <<>>
      BY <1>1, <1>3, <1>5, <2>4, <2>8 DEF e, g, IInv, LoopInv
    <3> QED BY <3>1 DEF LoopInv, Booting
  <2>13. CoreInv'
    <3>1. AllPages(EfiMemoryMap)' = AllPages(e)
      BY DEF AllPages, Pages, e
    <3> QED BY <1>1, <1>2, <1>5, <2>5, <3>1 DEF IInv, CoreInv
  <2>14. RangesInv'
    <3>1. HolesInOrder' = HolesInOrder /\ Usable' = Usable
      BY <1>1 DEF HolesInOrder, Usable, Ram, Low, High, AllPages, Pages
    <3>2. AllPages(MemoryRange)' = AllPages(g) /\ MemoryRange' = g
      BY DEF AllPages, Pages, g
    <3> QED BY <2>8, <2>9, <3>1, <3>2 DEF RangesInv, Straight, Pages
  <2>15. GivenIsNew' /\ PassedInv' /\ GivenIsUsable'
    BY <1>1, <1>2, <1>3, <1>5 DEF GivenIsNew, PassedInv, GivenIsUsable
  <2> QED BY <2>10, <2>11, <2>12, <2>13, <2>14, <2>15 DEF IInv
<1> QED BY <1>4, <1>5 DEF ManageRam

-----------------------------------------------------------------------------
(* The loops of ManageRam and ParseMemoryRange.                             *)

Looping == pc \in {"range", "region", "rest"}

LoopFrame ==
    /\ Looping /\ pc' \in {"range", "region", "rest", "done"}
    /\ UNCHANGED <<Vendor, Split, MemorySize, Secure, Table, HoleRange, EfiMemoryMap,
                   MemoryRange, hidden>>

\* What the loops leave alone.
LEMMA LoopFrameKeeps ==
    ASSUME IInv, LoopFrame
    PROVE  /\ PlatformInv' /\ HoleInv' /\ MapInv' /\ RangesInv'
           /\ HolesInOrder' = HolesInOrder /\ Usable' = Usable
           /\ AllPages(EfiMemoryMap)' = AllPages(EfiMemoryMap)
<1> USE DEF LoopFrame, Looping
<1>1. PlatformInv'
  BY DEF IInv, PlatformInv
<1>2. HoleInv'
  BY DEF IInv, HoleInv
<1>3. MapInv'
  BY DEF IInv, MapInv
<1>4. /\ HolesInOrder' = HolesInOrder /\ Usable' = Usable
      /\ AllPages(EfiMemoryMap)' = AllPages(EfiMemoryMap)
      /\ AllPages(MemoryRange)' = AllPages(MemoryRange)
  BY DEF HolesInOrder, Usable, Ram, Low, High, AllPages, Pages
<1>5. RangesInv'
  BY <1>4 DEF IInv, RangesInv, Straight, Pages
<1> QED BY <1>1, <1>2, <1>3, <1>4, <1>5

\* A step that hands over the pages G, or none.
HandsOver(G) ==
    /\ given' = given \union G
    /\ \/ UNCHANGED coreVars /\ trouble' = TRUE
       \/ UNCHANGED coreVars /\ UNCHANGED trouble /\ G = {}
       \/ gcd' = gcd \union G /\ pool' = pool \union G /\ UNCHANGED trouble

\* MapMemoryRegion hands over the pages of its region.
LEMMA MapHandsOver == \A r : MapMemoryRegion(r) => HandsOver(Pages(r))
BY DEF MapMemoryRegion, HandsOver

\* Pages that are new and lie in the range at hand may be handed over.
LEMMA HandOverKeeps ==
    ASSUME IInv, LoopFrame, NEW G \in SUBSET Addresses, HandsOver(G),
           G \intersect AllPages(EfiMemoryMap) = {},
           HolesInOrder => G \subseteq Usable
    PROVE  CoreInv' /\ GivenIsNew' /\ GivenIsUsable'
<1>1. AllPages(EfiMemoryMap)' = AllPages(EfiMemoryMap) /\ HolesInOrder' = HolesInOrder
      /\ Usable' = Usable
  BY LoopFrameKeeps
<1>2. CoreInv'
  BY <1>1 DEF IInv, CoreInv, HandsOver, coreVars, LoopFrame
<1>3. GivenIsNew'
  BY <1>1 DEF IInv, GivenIsNew, HandsOver
<1>4. GivenIsUsable'
  BY <1>1 DEF IInv, GivenIsUsable, HandsOver, Usable
<1> QED BY <1>2, <1>3, <1>4

\* The numbers of the loop.
LEMMA LoopTypes ==
    ASSUME IInv
    PROVE  /\ i \in Nat /\ j \in Nat /\ CurrentRangeBase \in Nat /\ CurrentRangeBase < Space
           /\ Len(MemoryRange) \in Nat /\ Len(EfiMemoryMap) \in Nat
           /\ DOMAIN EfiMemoryMap = 1 .. Len(EfiMemoryMap)
           /\ DOMAIN MemoryRange = 1 .. Len(MemoryRange)
           /\ \A k \in 1 .. Len(EfiMemoryMap) :
                 /\ EfiMemoryMap[k].Address \in Nat /\ EfiMemoryMap[k].Length \in Nat
                 /\ End(EfiMemoryMap[k]) = EfiMemoryMap[k].Address + EfiMemoryMap[k].Length
                 /\ End(EfiMemoryMap[k]) \in Nat /\ End(EfiMemoryMap[k]) < Space
           /\ \A k \in 1 .. Len(MemoryRange) :
                 /\ MemoryRange[k].Address \in Nat /\ MemoryRange[k].Length \in Nat
                 /\ MemoryRange[k].Address < Space
                 /\ End(MemoryRange[k]) \in Nat /\ End(MemoryRange[k]) < Space
                 /\ Straight(MemoryRange[k]) =>
                       End(MemoryRange[k]) = MemoryRange[k].Address + MemoryRange[k].Length
<1>1. /\ EfiMemoryMap \in Seq(Regions) /\ MemoryRange \in Seq(Regions)
      /\ \A k \in 1 .. Len(EfiMemoryMap) : Straight(EfiMemoryMap[k])
  BY DEF IInv, MapInv
<1>2. /\ Len(MemoryRange) \in Nat /\ Len(EfiMemoryMap) \in Nat
      /\ DOMAIN EfiMemoryMap = 1 .. Len(EfiMemoryMap)
      /\ DOMAIN MemoryRange = 1 .. Len(MemoryRange)
      /\ \A k \in 1 .. Len(EfiMemoryMap) : EfiMemoryMap[k] \in Regions
      /\ \A k \in 1 .. Len(MemoryRange) : MemoryRange[k] \in Regions
  BY <1>1, LenProperties, ElementOfSeq
<1>3. i \in Nat /\ j \in Nat /\ CurrentRangeBase \in Nat /\ CurrentRangeBase < Space
  BY <1>2, Constants DEF IInv, LoopInv, Addresses
<1>4. \A r \in Regions : /\ r.Address \in Nat /\ r.Length \in Nat /\ r.Address < Space
                         /\ r.Address + r.Length \in Nat
  BY Constants DEF Regions, Addresses
<1>5. \A r \in Regions : /\ End(r) \in Nat /\ End(r) < Space
                         /\ Straight(r) => End(r) = r.Address + r.Length
  <2> SUFFICES ASSUME NEW r \in Regions
               PROVE  /\ End(r) \in Nat /\ End(r) < Space
                      /\ Straight(r) => End(r) = r.Address + r.Length
    OBVIOUS
  <2>1. r.Address + r.Length \in Nat
    BY <1>4
  <2>2. End(r) \in Addresses
    BY <2>1, Modulo DEF End
  <2>3. Straight(r) => r.Address + r.Length \in Addresses
    BY <2>1, Constants DEF Straight, Addresses
  <2> QED BY <2>2, <2>3, Modulo, Constants DEF End, Addresses
<1> QED BY <1>1, <1>2, <1>3, <1>4, <1>5

\* A page of the memory map lies in one of its regions.
LEMMA MapPages ==
    ASSUME IInv, NEW p
    PROVE  p \in AllPages(EfiMemoryMap) <=>
              \E k \in 1 .. Len(EfiMemoryMap) :
                 p \in Addresses /\ EfiMemoryMap[k].Address <= p /\ p < End(EfiMemoryMap[k])
<1>1. p \in AllPages(EfiMemoryMap) <=>
         \E k \in 1 .. Len(EfiMemoryMap) : p \in Pages(EfiMemoryMap[k])
  BY LoopTypes DEF AllPages
<1>2. \A k \in 1 .. Len(EfiMemoryMap) :
         End(EfiMemoryMap[k]) = EfiMemoryMap[k].Address + EfiMemoryMap[k].Length
  BY LoopTypes
<1>3. \A k \in 1 .. Len(EfiMemoryMap) : p \in Pages(EfiMemoryMap[k]) <=>
         p \in Addresses /\ EfiMemoryMap[k].Address <= p /\ p < End(EfiMemoryMap[k])
  BY <1>2 DEF Pages, Addresses
<1> QED BY <1>1, <1>3

\* The pages from a to b.
LEMMA RegionPages ==
    ASSUME NEW a \in Nat, NEW b \in Nat, a <= b, b < Space
    PROVE  /\ Pages(Region(a, b - a)) \subseteq Addresses
           /\ \A p : p \in Pages(Region(a, b - a)) <=> p \in Addresses /\ a <= p /\ p < b
<1>1. Region(a, b - a).Address = a /\ a + Region(a, b - a).Length = b
  BY DEF Region
<1> QED BY <1>1 DEF Pages, Addresses

\* A piece of the range at hand is usable memory.
LEMMA PieceUsable ==
    ASSUME IInv, pc \in {"region", "rest"}, NEW b \in Nat, CurrentRangeBase <= b, b <= RangeEnd
    PROVE  /\ b < Space
           /\ HolesInOrder => Pages(Region(CurrentRangeBase, b - CurrentRangeBase)) \subseteq Usable
<1>1. /\ i \in 1 .. Len(MemoryRange) /\ MemoryRange[i].Address <= CurrentRangeBase
      /\ MemoryRange # <<>> /\ RangeEnd \in Nat /\ RangeEnd < Space
      /\ MemoryRange[i].Address \in Nat /\ CurrentRangeBase \in Nat
  <2>1. i \in 1 .. Len(MemoryRange) /\ MemoryRange[i].Address <= CurrentRangeBase
    BY LoopTypes DEF IInv, LoopInv
  <2>2. MemoryRange # <<>>
    BY DEF IInv, LoopInv
  <2> QED BY <2>1, <2>2, LoopTypes DEF RangeEnd
<1>2. b < Space
  BY <1>1, Constants
<1>3. ASSUME HolesInOrder
      PROVE  Pages(Region(CurrentRangeBase, b - CurrentRangeBase)) \subseteq Usable
  <2>1. Straight(MemoryRange[i]) /\ Pages(MemoryRange[i]) \subseteq Usable
    BY <1>1, <1>3 DEF IInv, RangesInv
  <2>2. RangeEnd = MemoryRange[i].Address + MemoryRange[i].Length
    BY <1>1, <2>1, LoopTypes DEF RangeEnd
  <2>3. ASSUME NEW p \in Addresses, CurrentRangeBase <= p, p < b
        PROVE  p \in Pages(MemoryRange[i])
    <3>1. p \in Nat
      BY DEF Addresses
    <3>2. MemoryRange[i].Address <= p /\ p < RangeEnd
      BY <1>1, <2>3, <3>1
    <3> QED BY <2>2, <3>2 DEF Pages, Addresses
  <2> QED BY <1>1, <1>2, <2>1, <2>3, RegionPages
<1> QED BY <1>2, <1>3

\* The next range starts, or the loop ends.
LEMMA StartRangeKeeps == ASSUME IInv, StartRange PROVE IInv'
<1>1. /\ LoopFrame /\ pc = "range" /\ UNCHANGED <<gcd, pool, given, trouble, i>>
      /\ IF i > Len(MemoryRange) THEN pc' = "done" /\ UNCHANGED <<j, CurrentRangeBase>>
         ELSE pc' = "region" /\ j' = 1 /\ CurrentRangeBase' = MemoryRange[i].Address
  BY DEF StartRange, LoopFrame, Looping, tableVars, coreVars, loopVars
<1>2. PlatformInv' /\ HoleInv' /\ MapInv' /\ RangesInv'
      /\ AllPages(EfiMemoryMap)' = AllPages(EfiMemoryMap)
  BY <1>1, LoopFrameKeeps
<1>3. CoreInv' /\ GivenIsNew' /\ GivenIsUsable'
  <2>1. HandsOver({})
    BY <1>1 DEF HandsOver, coreVars
  <2> QED BY <1>1, <2>1, HandOverKeeps
<1>4. LoopInv'
  <2>1. CASE i > Len(MemoryRange)
    BY <1>1, <2>1 DEF IInv, LoopInv, LoopFrame, Booting
  <2>2. CASE ~(i > Len(MemoryRange))
    <3>1. i \in 1 .. Len(MemoryRange) /\ MemoryRange[i].Address \in Addresses
          /\ MemoryRange # <<>>
      BY <1>1, <2>2, LoopTypes, Constants DEF IInv, LoopInv, Addresses
    <3>2. j' = 1 /\ pc' = "region" /\ CurrentRangeBase' = MemoryRange[i].Address
      BY <1>1, <2>2
    <3>3. i' = i /\ MemoryRange' = MemoryRange /\ EfiMemoryMap' = EfiMemoryMap
      BY <1>1 DEF LoopFrame
    <3>4. MemoryRange'[i'].Address <= CurrentRangeBase'
      BY <3>1, <3>2, <3>3, LoopTypes
    <3> QED BY <3>1, <3>2, <3>3, <3>4, LoopTypes DEF LoopInv, Booting
  <2> QED BY <2>1, <2>2
<1>5. PassedInv'
  <2>1. \A k \in 1 .. i' - 1 : Straight(MemoryRange'[k]) =>
            Pages(MemoryRange'[k]) \subseteq given' \union AllPages(EfiMemoryMap)'
    BY <1>1, <1>2 DEF IInv, PassedInv, LoopFrame
  <2>2. ASSUME pc' \in {"region", "rest"}, NEW p \in Pages(MemoryRange'[i'])
        PROVE  ~(p < CurrentRangeBase')
    <3>1. CurrentRangeBase' = MemoryRange[i].Address /\ i \in 1 .. Len(MemoryRange)
          /\ p \in Pages(MemoryRange[i])
      BY <1>1, <2>2, LoopTypes DEF LoopFrame, IInv, LoopInv
    <3> QED BY <3>1, LoopTypes DEF Pages
  <2> QED BY <2>1, <2>2 DEF PassedInv, Straight, Pages
<1> QED BY <1>2, <1>3, <1>4, <1>5 DEF IInv

\* The loop over the regions ends for want of regions.
LEMMA NoMoreKeeps == ASSUME IInv, NoMoreRegions PROVE IInv'
<1>1. /\ LoopFrame /\ pc = "region" /\ pc' = "rest" /\ j > Len(EfiMemoryMap)
      /\ UNCHANGED <<gcd, pool, given, trouble, i, j, CurrentRangeBase>>
  BY DEF NoMoreRegions, LoopFrame, Looping, tableVars, coreVars, loopVars
<1>2. PlatformInv' /\ HoleInv' /\ MapInv' /\ RangesInv'
      /\ AllPages(EfiMemoryMap)' = AllPages(EfiMemoryMap)
  BY <1>1, LoopFrameKeeps
<1>3. CoreInv' /\ GivenIsNew' /\ GivenIsUsable'
  <2>1. HandsOver({})
    BY <1>1 DEF HandsOver, coreVars
  <2> QED BY <1>1, <2>1, HandOverKeeps
<1>4. LoopInv'
  <2>1. \A k \in j .. Len(EfiMemoryMap) : FALSE
    BY <1>1, LoopTypes
  <2> QED BY <1>1, <2>1 DEF IInv, LoopInv, LoopFrame, Booting, End
<1>5. PassedInv'
  BY <1>1, <1>2 DEF IInv, PassedInv, LoopFrame, Straight, Pages
<1> QED BY <1>2, <1>3, <1>4, <1>5 DEF IInv

\* A region at or past the end of the range ends the loop: those after it lie
\* past the end as well.
LEMMA BeyondKeeps ==
    ASSUME IInv, LoopFrame, pc = "region", pc' = "rest", j <= Len(EfiMemoryMap),
           Beyond(EfiMemoryMap[j]), UNCHANGED <<gcd, pool, given, trouble, i, j, CurrentRangeBase>>
    PROVE  IInv'
<1>1. PlatformInv' /\ HoleInv' /\ MapInv' /\ RangesInv'
      /\ AllPages(EfiMemoryMap)' = AllPages(EfiMemoryMap)
  BY LoopFrameKeeps
<1>2. CoreInv' /\ GivenIsNew' /\ GivenIsUsable'
  <2>1. HandsOver({})
    BY DEF HandsOver, coreVars
  <2> QED BY <2>1, HandOverKeeps
<1>3. \A k \in j .. Len(EfiMemoryMap) : Beyond(EfiMemoryMap[k])
  <2> SUFFICES ASSUME NEW k \in j .. Len(EfiMemoryMap)
               PROVE  EfiMemoryMap[k].Address >= RangeEnd
    BY DEF Beyond
  <2>1. j \in 1 .. Len(EfiMemoryMap) /\ k \in 1 .. Len(EfiMemoryMap) /\ j <= k
    BY LoopTypes DEF IInv, LoopInv
  <2>2. EfiMemoryMap[j].Address <= EfiMemoryMap[k].Address
    BY <2>1 DEF IInv, MapInv
  <2>3. i \in 1 .. Len(MemoryRange)
    BY LoopTypes DEF IInv, LoopInv
  <2> QED BY <2>1, <2>2, <2>3, LoopTypes DEF Beyond, RangeEnd
<1>4. LoopInv'
  <2>1. \A k \in j .. Len(EfiMemoryMap) : Beyond(EfiMemoryMap[k])'
    BY <1>3 DEF Beyond, RangeEnd, LoopFrame, End
  <2> QED BY <2>1 DEF IInv, LoopInv, LoopFrame, Booting, End
<1>5. PassedInv'
  BY <1>1 DEF IInv, PassedInv, LoopFrame, Straight, Pages
<1> QED BY <1>1, <1>2, <1>4, <1>5 DEF IInv

\* The regions from j on start at or after the address of region j, and those
\* before it end at or before CurrentRangeBase.
LEMMA Between ==
    ASSUME IInv, pc \in {"region", "rest"}, NEW b \in Nat, b < Space,
           CurrentRangeBase <= b,
           \A k \in j .. Len(EfiMemoryMap) : b <= EfiMemoryMap[k].Address
    PROVE  Pages(Region(CurrentRangeBase, b - CurrentRangeBase))
               \intersect AllPages(EfiMemoryMap) = {}
<1> SUFFICES ASSUME NEW p \in Pages(Region(CurrentRangeBase, b - CurrentRangeBase)),
                    p \in AllPages(EfiMemoryMap)
             PROVE  FALSE
  OBVIOUS
<1>1. CurrentRangeBase \in Nat
  BY LoopTypes
<1>2. p \in Addresses /\ CurrentRangeBase <= p /\ p < b
  BY <1>1, RegionPages
<1>3. PICK k \in 1 .. Len(EfiMemoryMap) : EfiMemoryMap[k].Address <= p /\ p < End(EfiMemoryMap[k])
  BY MapPages
<1>4. EfiMemoryMap[k].Address \in Nat /\ End(EfiMemoryMap[k]) \in Nat /\ p \in Nat
      /\ j \in Nat /\ k \in Nat /\ Len(EfiMemoryMap) \in Nat
  BY <1>2, LoopTypes DEF Addresses
<1>5. CASE k < j
  <2>1. k \in 1 .. j - 1
    BY <1>4, <1>5
  <2>2. End(EfiMemoryMap[k]) <= CurrentRangeBase
    BY <2>1 DEF IInv, LoopInv
  <2> QED BY <1>1, <1>2, <1>3, <1>4, <2>2
<1>6. CASE ~(k < j)
  <2>1. k \in j .. Len(EfiMemoryMap)
    BY <1>4, <1>6
  <2>2. b <= EfiMemoryMap[k].Address
    BY <2>1
  <2> QED BY <1>2, <1>3, <1>4, <2>2
<1> QED BY <1>5, <1>6

\* The loop passes region j: what lies before it is handed over, and the
\* range goes on where the region ends.
LEMMA PassKeeps ==
    ASSUME IInv, LoopFrame, pc = "region", pc' = "region", j <= Len(EfiMemoryMap),
           NEW G \in SUBSET Addresses, HandsOver(G),
           G \intersect AllPages(EfiMemoryMap) = {}, HolesInOrder => G \subseteq Usable,
           \A p \in Addresses :
               CurrentRangeBase <= p /\ p < EfiMemoryMap[j].Address => p \in G,
           CurrentRangeBase' = Further(EfiMemoryMap[j]), j' = j + 1, i' = i
    PROVE  IInv'
<1>1. PlatformInv' /\ HoleInv' /\ MapInv' /\ RangesInv'
      /\ AllPages(EfiMemoryMap)' = AllPages(EfiMemoryMap)
  BY LoopFrameKeeps
<1>2. CoreInv' /\ GivenIsNew' /\ GivenIsUsable'
  BY HandOverKeeps
<1>3. /\ j \in 1 .. Len(EfiMemoryMap) /\ i \in 1 .. Len(MemoryRange)
      /\ MemoryRange[i].Address <= CurrentRangeBase /\ MemoryRange # <<>>
      /\ \A k \in 1 .. j - 1 : End(EfiMemoryMap[k]) <= CurrentRangeBase
  BY LoopTypes DEF IInv, LoopInv
<1>4. /\ End(EfiMemoryMap[j]) \in Nat /\ End(EfiMemoryMap[j]) < Space
      /\ CurrentRangeBase \in Nat /\ CurrentRangeBase < Space
      /\ MemoryRange[i].Address \in Nat
      /\ \A k \in 1 .. j - 1 : End(EfiMemoryMap[k]) \in Nat
  BY <1>3, LoopTypes
<1>5. /\ CurrentRangeBase' \in Nat /\ CurrentRangeBase' < Space
      /\ CurrentRangeBase <= CurrentRangeBase' /\ End(EfiMemoryMap[j]) <= CurrentRangeBase'
      /\ CurrentRangeBase' \in {CurrentRangeBase, End(EfiMemoryMap[j])}
  BY <1>4 DEF Further
<1>6. LoopInv'
  <2>1. \A k \in 1 .. j' - 1 : End(EfiMemoryMap[k]) <= CurrentRangeBase'
    <3> SUFFICES ASSUME NEW k \in 1 .. j' - 1
                 PROVE  End(EfiMemoryMap[k]) <= CurrentRangeBase'
      OBVIOUS
    <3>1. CASE k = j
      BY <1>5, <3>1
    <3>2. CASE k # j
      <4>1. k \in 1 .. j - 1
        BY <1>3, <3>2, LoopTypes
      <4>2. End(EfiMemoryMap[k]) <= CurrentRangeBase /\ End(EfiMemoryMap[k]) \in Nat
        BY <1>3, <1>4, <4>1
      <4> QED BY <1>4, <1>5, <4>2
    <3> QED BY <3>1, <3>2
  <2>2. MemoryRange[i].Address <= CurrentRangeBase'
    BY <1>3, <1>4, <1>5
  <2>3. CurrentRangeBase' \in Addresses /\ j' \in 1 .. Len(EfiMemoryMap) + 1
    BY <1>3, <1>5, LoopTypes, Constants DEF Addresses
  <2>4. /\ EfiMemoryMap' = EfiMemoryMap /\ MemoryRange' = MemoryRange
        /\ \A k : End(EfiMemoryMap[k])' = End(EfiMemoryMap[k])
    BY DEF LoopFrame, End
  <2>5. i' \in 1 .. Len(MemoryRange') + 1 /\ i' <= Len(MemoryRange')
    BY <1>3, <2>4, LoopTypes
  <2> QED BY <1>3, <2>1, <2>2, <2>3, <2>4, <2>5 DEF LoopInv, Booting
<1>7. PassedInv'
  <2>1. given \subseteq given' /\ G \subseteq given'
    BY DEF HandsOver
  <2>2. \A k \in 1 .. i' - 1 : Straight(MemoryRange'[k]) =>
            Pages(MemoryRange'[k]) \subseteq given' \union AllPages(EfiMemoryMap)'
    BY <1>1, <2>1 DEF IInv, PassedInv, LoopFrame
  <2>3. ASSUME NEW p \in Pages(MemoryRange[i]), p < CurrentRangeBase'
        PROVE  p \in given' \union AllPages(EfiMemoryMap)
    <3>1. p \in Addresses /\ p \in Nat
      BY DEF Pages, Addresses
    <3>2. CASE p < CurrentRangeBase
      BY <2>1, <3>2 DEF IInv, PassedInv
    <3>3. CASE ~(p < CurrentRangeBase)
      <4>1. CurrentRangeBase <= p /\ p < End(EfiMemoryMap[j])
        BY <1>4, <1>5, <2>3, <3>1, <3>3
      <4>2. CASE p < EfiMemoryMap[j].Address
        BY <2>1, <3>1, <4>1, <4>2
      <4>3. CASE ~(p < EfiMemoryMap[j].Address)
        <5>1. EfiMemoryMap[j].Address <= p
          BY <1>3, <3>1, <4>3, LoopTypes
        <5> QED BY <1>3, <3>1, <4>1, <5>1, MapPages
      <4> QED BY <4>2, <4>3
    <3> QED BY <3>2, <3>3
  <2> QED BY <1>1, <2>2, <2>3 DEF PassedInv, Straight, Pages, LoopFrame
<1> QED BY <1>1, <1>2, <1>6, <1>7 DEF IInv

\* One region of the loop.
LEMMA ParseRegionKeeps == ASSUME IInv, ParseRegion PROVE IInv'
<1> DEFINE r == EfiMemoryMap[j]
<1>1. /\ pc = "region" /\ j <= Len(EfiMemoryMap)
      /\ UNCHANGED <<Vendor, Split, MemorySize, Secure, Table, HoleRange, EfiMemoryMap,
                     MemoryRange, hidden>>
  BY DEF ParseRegion, tableVars
<1>2. /\ j \in 1 .. Len(EfiMemoryMap) /\ i \in 1 .. Len(MemoryRange)
      /\ \A k \in j .. Len(EfiMemoryMap) : r.Address <= EfiMemoryMap[k].Address
  <2>1. j \in 1 .. Len(EfiMemoryMap) /\ i \in 1 .. Len(MemoryRange)
    BY <1>1, LoopTypes DEF IInv, LoopInv
  <2>2. \A k \in j .. Len(EfiMemoryMap) : k \in 1 .. Len(EfiMemoryMap) /\ j <= k
    BY <2>1
  <2> QED BY <2>1, <2>2 DEF IInv, MapInv
<1>3. /\ r.Address \in Nat /\ r.Length \in Nat /\ End(r) \in Nat /\ End(r) < Space
      /\ End(r) = r.Address + r.Length
      /\ CurrentRangeBase \in Nat /\ CurrentRangeBase < Space /\ RangeEnd \in Nat
  BY <1>2, LoopTypes DEF RangeEnd
<1>4. CASE Beyond(r) /\ pc' = "rest" /\ UNCHANGED <<loopVars, coreVars, given, trouble>>
  <2>1. LoopFrame /\ UNCHANGED <<gcd, pool, given, trouble, i, j, CurrentRangeBase>>
    BY <1>1, <1>4 DEF LoopFrame, Looping, loopVars, coreVars
  <2> QED BY <1>1, <1>4, <2>1, BeyondKeeps
<1>5. CASE /\ ~Beyond(r) /\ Behind(r)
           /\ j' = j + 1 /\ UNCHANGED <<pc, i, CurrentRangeBase, coreVars, given, trouble>>
  <2>1. LoopFrame /\ HandsOver({}) /\ pc' = "region"
    BY <1>1, <1>5 DEF LoopFrame, Looping, HandsOver
  <2>2. CurrentRangeBase' = Further(r)
    BY <1>3, <1>5 DEF Further, Behind
  <2>3. \A p \in Addresses : ~(CurrentRangeBase <= p /\ p < r.Address)
    BY <1>3, <1>5 DEF Behind, Addresses
  <2> QED BY <1>1, <1>5, <2>1, <2>2, <2>3, PassKeeps
<1>6. CASE /\ ~Beyond(r) /\ ~Behind(r)
           /\ IF r.Address > CurrentRangeBase
              THEN MapMemoryRegion(Region(CurrentRangeBase, r.Address - CurrentRangeBase))
              ELSE UNCHANGED <<coreVars, given, trouble>>
           /\ CurrentRangeBase' = Further(r)
           /\ j' = j + 1 /\ UNCHANGED <<pc, i>>
  <2>1. LoopFrame /\ pc' = "region" /\ CurrentRangeBase' = Further(r) /\ j' = j + 1 /\ i' = i
    BY <1>1, <1>6 DEF LoopFrame, Looping
  <2>2. CASE r.Address > CurrentRangeBase
    <3> DEFINE G == Pages(Region(CurrentRangeBase, r.Address - CurrentRangeBase))
    <3>1. HandsOver(G)
      BY <1>6, <2>2, MapHandsOver
    <3>2. CurrentRangeBase <= r.Address /\ r.Address <= RangeEnd /\ r.Address < Space
      BY <1>3, <1>6, <2>2, Constants DEF Beyond
    <3>3. G \in SUBSET Addresses
          /\ \A p \in Addresses : CurrentRangeBase <= p /\ p < r.Address => p \in G
      BY <1>3, <3>2, RegionPages
    <3>4. HolesInOrder => G \subseteq Usable
      BY <1>1, <1>3, <3>2, PieceUsable
    <3>5. G \intersect AllPages(EfiMemoryMap) = {}
      BY <1>1, <1>2, <1>3, <3>2, Between
    <3> HIDE DEF G
    <3> QED BY <1>1, <2>1, <3>1, <3>3, <3>4, <3>5, PassKeeps
  <2>3. CASE ~(r.Address > CurrentRangeBase)
    <3>1. HandsOver({})
      BY <1>6, <2>3 DEF HandsOver
    <3>2. \A p \in Addresses : ~(CurrentRangeBase <= p /\ p < r.Address)
      BY <1>3, <2>3 DEF Addresses
    <3> QED BY <1>1, <2>1, <3>1, <3>2, PassKeeps
  <2> QED BY <2>2, <2>3
<1> QED BY <1>4, <1>5, <1>6 DEF ParseRegion

\* The rest of the range is handed over; with it the range has been passed.
LEMMA ParseRestKeeps == ASSUME IInv, ParseRest PROVE IInv'
<1>1. /\ pc = "rest" /\ pc' = "range" /\ i' = i + 1 /\ LoopFrame
      /\ UNCHANGED <<j, CurrentRangeBase>>
      /\ IF RestLeft
         THEN MapMemoryRegion(Region(CurrentRangeBase, RangeEnd - CurrentRangeBase))
         ELSE UNCHANGED <<coreVars, given, trouble>>
  BY DEF ParseRest, LoopFrame, Looping, tableVars
<1>2. PlatformInv' /\ HoleInv' /\ MapInv' /\ RangesInv'
      /\ AllPages(EfiMemoryMap)' = AllPages(EfiMemoryMap)
  BY <1>1, LoopFrameKeeps
<1>3. /\ i \in 1 .. Len(MemoryRange) /\ MemoryRange # <<>>
      /\ CurrentRangeBase \in Nat /\ RangeEnd \in Nat /\ RangeEnd < Space
  <2>1. i \in 1 .. Len(MemoryRange) /\ MemoryRange # <<>>
    BY <1>1, LoopTypes DEF IInv, LoopInv
  <2> QED BY <2>1, LoopTypes DEF RangeEnd
<1>4. \E G \in SUBSET Addresses :
         /\ HandsOver(G) /\ G \intersect AllPages(EfiMemoryMap) = {}
         /\ HolesInOrder => G \subseteq Usable
         /\ \A p \in Addresses : CurrentRangeBase <= p /\ p < RangeEnd => p \in G
  <2>1. CASE RestLeft
    <3> DEFINE G == Pages(Region(CurrentRangeBase, RangeEnd - CurrentRangeBase))
    <3>1. HandsOver(G)
      BY <1>1, <2>1, MapHandsOver
    <3>2. CurrentRangeBase <= RangeEnd
      BY <1>3, <2>1 DEF RestLeft
    <3>3. G \in SUBSET Addresses
          /\ \A p \in Addresses : CurrentRangeBase <= p /\ p < RangeEnd => p \in G
      BY <1>3, <3>2, RegionPages
    <3>4. HolesInOrder => G \subseteq Usable
      BY <1>1, <1>3, <3>2, PieceUsable
    <3>5. \A k \in j .. Len(EfiMemoryMap) : RangeEnd <= EfiMemoryMap[k].Address
      <4> SUFFICES ASSUME NEW k \in j .. Len(EfiMemoryMap)
                   PROVE  RangeEnd <= EfiMemoryMap[k].Address
        OBVIOUS
      <4>1. Beyond(EfiMemoryMap[k])
        BY <1>1 DEF IInv, LoopInv
      <4>2. k \in 1 .. Len(EfiMemoryMap)
        BY LoopTypes DEF IInv, LoopInv
      <4> QED BY <1>3, <4>1, <4>2, LoopTypes DEF Beyond
    <3>6. G \intersect AllPages(EfiMemoryMap) = {}
      BY <1>1, <1>3, <3>2, <3>5, Between
    <3> HIDE DEF G
    <3> QED BY <3>1, <3>3, <3>4, <3>6
  <2>2. CASE ~RestLeft
    <3>1. HandsOver({})
      BY <1>1, <2>2 DEF HandsOver
    <3>2. \A p \in Addresses : ~(CurrentRangeBase <= p /\ p < RangeEnd)
      BY <1>3, <2>2 DEF RestLeft, Addresses
    <3> QED BY <3>1, <3>2
  <2> QED BY <2>1, <2>2
<1>5. PICK G \in SUBSET Addresses :
         /\ HandsOver(G) /\ G \intersect AllPages(EfiMemoryMap) = {}
         /\ HolesInOrder => G \subseteq Usable
         /\ \A p \in Addresses : CurrentRangeBase <= p /\ p < RangeEnd => p \in G
  BY <1>4
<1>6. CoreInv' /\ GivenIsNew' /\ GivenIsUsable'
  BY <1>1, <1>5, HandOverKeeps
<1>7. LoopInv'
  <2>1. i' \in 1 .. Len(MemoryRange') + 1
    BY <1>1, <1>3, LoopTypes DEF LoopFrame
  <2> QED BY <1>1, <1>3, <2>1 DEF IInv, LoopInv, LoopFrame, Booting
<1>8. PassedInv'
  <2>1. given \subseteq given' /\ G \subseteq given'
    BY <1>5 DEF HandsOver
  <2>2. ASSUME NEW k \in 1 .. i, Straight(MemoryRange[k])
        PROVE  Pages(MemoryRange[k]) \subseteq given' \union AllPages(EfiMemoryMap)
    <3>1. CASE k = i
      <4> SUFFICES ASSUME NEW p \in Pages(MemoryRange[i])
                   PROVE  p \in given' \union AllPages(EfiMemoryMap)
        BY <3>1
      <4>1. RangeEnd = MemoryRange[i].Address + MemoryRange[i].Length
        BY <1>3, <2>2, <3>1, LoopTypes DEF RangeEnd
      <4>2. p \in Addresses /\ p \in Nat /\ p < RangeEnd
        BY <4>1 DEF Pages, Addresses
      <4>3. CASE p < CurrentRangeBase
        BY <1>1, <2>1, <4>3 DEF IInv, PassedInv
      <4>4. CASE ~(p < CurrentRangeBase)
        BY <1>3, <1>5, <2>1, <4>2, <4>4
      <4> QED BY <4>3, <4>4
    <3>2. CASE k # i
      <4>1. k \in 1 .. i - 1
        BY <1>3, <3>2
      <4> QED BY <2>1, <2>2, <4>1 DEF IInv, PassedInv
    <3> QED BY <3>1, <3>2
  <2>3. i' - 1 = i
    BY <1>1, <1>3
  <2> QED BY <1>1, <1>2, <2>2, <2>3 DEF PassedInv, Straight, Pages, LoopFrame
<1> QED BY <1>2, <1>6, <1>7, <1>8 DEF IInv

-----------------------------------------------------------------------------
(* The theorems.                                                            *)

\* Every step keeps the inductive invariant.
LEMMA NextInv == ASSUME IInv, [Next]_vars PROVE IInv'
<1>1. CASE UNCHANGED vars
  <2>1. UNCHANGED <<pc, Vendor, Split, MemorySize, Secure, Table, HoleRange, EfiMemoryMap,
                    MemoryRange, i, j, CurrentRangeBase, gcd, pool, given, hidden, trouble>>
    BY <1>1 DEF vars, tableVars, loopVars, coreVars
  <2>2. PlatformInv' /\ HoleInv' /\ MapInv'
    BY <2>1 DEF IInv, PlatformInv, HoleInv, MapInv
  <2>3. LoopInv'
    BY <2>1 DEF IInv, LoopInv, Booting, Beyond, RangeEnd, End
  <2>4. /\ HolesInOrder' = HolesInOrder /\ Usable' = Usable
        /\ AllPages(EfiMemoryMap)' = AllPages(EfiMemoryMap)
        /\ AllPages(MemoryRange)' = AllPages(MemoryRange)
        /\ HobPages' = HobPages
    BY <2>1 DEF HolesInOrder, Usable, Ram, Low, High, AllPages, Pages, HobPages
  <2>5. CoreInv' /\ GivenIsNew'
    BY <2>1, <2>4 DEF IInv, CoreInv, GivenIsNew
  <2>6. RangesInv' /\ PassedInv'
    BY <2>1, <2>4 DEF IInv, RangesInv, PassedInv, Straight, Pages
  <2>7. GivenIsUsable'
    BY <2>1, <2>4 DEF IInv, GivenIsUsable, Usable
  <2> QED BY <2>2, <2>3, <2>5, <2>6, <2>7 DEF IInv
<1>2. CASE Next
  BY <1>2, ValidateKeeps, AddHobsKeeps, GetMemoryDataKeeps, ManageRamKeeps, StartRangeKeeps,
     ParseRegionKeeps, NoMoreKeeps, ParseRestKeeps DEF Next
<1> QED BY <1>1, <1>2

\* The inductive invariant holds of every boot.
LEMMA Invariance == Spec => []IInv
BY InitInv, NextInv, PTL DEF Spec

\* The state is well-formed: the loops of ManageRam and ParseMemoryRange stay
\* inside their arrays, and what was added is known to the core.
THEOREM TypeCorrect == Spec => []TypeOK
<1>1. IInv => TypeOK
  <2> SUFFICES ASSUME IInv PROVE TypeOK
    OBVIOUS
  <2>1. \A k \in DOMAIN MemoryRange :
           MemoryRange[k].Address \in Addresses /\ MemoryRange[k].Length \in Addresses
    <3>1. MemoryRange \in Seq(Regions)
      BY DEF IInv, MapInv
    <3>2. \A k \in DOMAIN MemoryRange : MemoryRange[k] \in Regions
      BY <3>1, LenProperties, ElementOfSeq
    <3> QED BY <3>2 DEF Regions
  <2> QED BY <2>1 DEF TypeOK, IInv, LoopInv, CoreInv, Addresses
<1> QED BY <1>1, Invariance, PTL

\* ParseMemoryRange never hands MapMemoryRegion a page that the EFI memory map
\* has, whatever the table and the holes, and also for a range that wraps.
THEOREM GivenAreNew == Spec => []GivenIsNew
<1>1. IInv => GivenIsNew
  BY DEF IInv
<1> QED BY <1>1, Invariance, PTL

\* Only RAM that no hole covers is added, for each of the three libraries.
THEOREM GivenAreUsable == Spec => []GivenIsUsable
<1>1. IInv => GivenIsUsable
  BY DEF IInv
<1> QED BY <1>1, Invariance, PTL

\* No usable page is lost: when ManageRam ends without trouble the core knows
\* all RAM that no hole covers.
THEOREM AllRamKnown == Spec => []NoRamLost
<1>1. IInv => NoRamLost
  <2> SUFFICES ASSUME IInv, pc = "done", ~trouble, HolesInOrder, NEW p \in Usable
               PROVE  p \in gcd
    BY DEF NoRamLost, Usable
  <2>1. MemoryRange # <<>> /\ i > Len(MemoryRange)
    BY DEF IInv, LoopInv
  <2>2. PICK k \in 1 .. Len(MemoryRange) : p \in Pages(MemoryRange[k])
    BY <2>1, LoopTypes DEF IInv, RangesInv, AllPages
  <2>3. Straight(MemoryRange[k]) /\ k \in 1 .. i - 1
    BY <2>1, LoopTypes DEF IInv, RangesInv
  <2>4. p \in given \union AllPages(EfiMemoryMap)
    BY <2>2, <2>3 DEF IInv, PassedInv
  <2> QED BY <2>4 DEF IInv, CoreInv
<1> QED BY <1>1, Invariance, PTL

=============================================================================

---------------------------- MODULE Driver_proofs ----------------------------
(***************************************************************************)
(* What holds of the operators of MemoryTypes and HostTables for any MTRRs *)
(* and any tables, and of the steps of HostMemory.  The driver with its    *)
(* memory is Startup as far as starting goes, and so has what is proved of *)
(* that; and its memory stays what it was set up to be, whatever the guest *)
(* does to its own.  Last, what the MSR bitmap traps, and the types of all *)
(* the variables.                                                          *)
(***************************************************************************)
EXTENDS Driver, Startup_proofs, TLAPS, SequenceTheorems, WellFoundedInduction

(* A nonempty set of numbers has a least one. *)
LEMMA LeastExists ==
  ASSUME NEW S \in SUBSET Nat, S # {}
  PROVE  \E m \in S : \A n \in S : m <= n
<1> DEFINE R == OpToRel(<, Nat)
<1>1. IsWellFoundedOn(R, Nat)
  BY NatLessThanWellFounded
<1> HIDE DEF R
<1>2. PICK m \in S : \A n \in S : << n, m >> \notin R
  BY <1>1, WFMin
<1>3. \A n \in S : ~(n < m)
  BY <1>2 DEF R, OpToRel
<1>4. \A n \in S : m <= n
  <2> SUFFICES ASSUME NEW n \in S PROVE m <= n
    OBVIOUS
  <2>1. m \in Nat /\ n \in Nat
    BY <1>2
  <2> QED BY <1>3, <2>1
<1> QED BY <1>2, <1>4

-----------------------------------------------------------------------------
(* Memory types. *)
LEMMA LeastIs ==
  ASSUME NEW S \in SUBSET MtrrTypes, S # {}
  PROVE  Least(S) \in S /\ Least(S) # Invalid /\ \A t \in S : Least(S) <= t
<1>1. S \in SUBSET Nat
  BY DEF MtrrTypes
<1>2. \E t \in S : \A u \in S : t <= u
  BY <1>1, LeastExists
<1>3. Least(S) \in S /\ \A t \in S : Least(S) <= t
  BY <1>2 DEF Least
<1> QED BY <1>3 DEF MtrrTypes, Invalid

LEMMA PageTypeIs ==
  ASSUME NEW V, NEW m \in Mtrrs(V), NEW p PROVE PageType(m, p) \in MtrrTypes
<1> DEFINE here == {m.var[i].type : i \in {j \in DOMAIN m.var : Covers(m.var[j], p)}}
<1>1. m.default \in MtrrTypes /\ m.var \in Ranges(V)
  BY DEF Mtrrs
<1>2. here \in SUBSET MtrrTypes
  BY <1>1 DEF Ranges
<1> HIDE DEF here
<1>3. PageType(m, p) = IF ~m.enabled \/ p < m.fixed THEN UC
                       ELSE IF Least(here) = Invalid THEN m.default ELSE Least(here)
  BY DEF PageType, here
<1>4. here # {} => Least(here) \in MtrrTypes
  BY <1>2, LeastIs
<1>5. here = {} => Least(here) = Invalid
  BY DEF Least
<1>6. UC \in MtrrTypes
  BY DEF UC, MtrrTypes
<1> QED BY <1>1, <1>3, <1>4, <1>5, <1>6

(* Whatever MTRRs cover the pages of a range, none of them is cached more  *)
(* strongly with the type of the range than with its own.                  *)
THEOREM RangeTypeSafe ==
  ASSUME NEW V, NEW m \in Mtrrs(V), NEW first \in Nat, NEW count \in Nat \ {0}
  PROVE  /\ RangeType(m, first, count) \in MtrrTypes
         /\ \A p \in first .. first + count - 1 :
              RangeType(m, first, count) <= PageType(m, p)
<1> DEFINE all == {PageType(m, p) : p \in first .. first + count - 1}
<1>1. all \in SUBSET MtrrTypes
  BY PageTypeIs
<1>2. first \in first .. first + count - 1
  OBVIOUS
<1>3. all # {}
  BY <1>2
<1>4. \A p \in first .. first + count - 1 : PageType(m, p) \in all
  OBVIOUS
<1> HIDE DEF all
<1>5. Least(all) \in all /\ Least(all) # Invalid /\ \A t \in all : Least(all) <= t
  BY <1>1, <1>3, LeastIs
<1>6. RangeType(m, first, count) = Least(all)
  BY <1>5 DEF RangeType, all
<1> QED BY <1>1, <1>4, <1>5, <1>6

LEMMA InRegion ==
  ASSUME NEW p \in Nat
  PROVE  /\ Region(p) \in Nat
         /\ p \in Region(p) .. Region(p) + RegionSize - 1
<1>1. RegionSize \in Nat /\ RegionSize > 0
  BY HostMemoryAssumption
<1> DEFINE q == p \div RegionSize
<1>2. q \in Nat /\ q * RegionSize <= p /\ p < q * RegionSize + RegionSize
  BY <1>1
<1>3. q * RegionSize \in Nat
  BY <1>1, <1>2
<1> QED BY <1>1, <1>2, <1>3 DEF Region

-----------------------------------------------------------------------------
(* Numbers. *)
LEMMA Times ==
  /\ \A a, b \in Nat : a * b \in Nat
  /\ \A a, b, c \in Nat : a <= b => a * c <= b * c
<1>1. \A a, b \in Nat : a * b \in Nat
  OBVIOUS
<1>2. ASSUME NEW a \in Nat, NEW b \in Nat, NEW c \in Nat, a <= b
      PROVE  a * c <= b * c
  <2>1. PICK d \in Nat : b = a + d
    BY <1>2
  <2>2. b * c = a * c + d * c
    BY <2>1
  <2> QED BY <1>1, <2>2
<1> QED BY <1>1, <1>2

LEMMA DivMod ==
  ASSUME NEW n \in Nat, n > 0, NEW q \in Nat, NEW r \in 0 .. n - 1
  PROVE  (q * n + r) \div n = q /\ (q * n + r) % n = r
OBVIOUS

LEMMA Parts ==
  ASSUME NEW n \in Nat, n > 0, NEW p \in Nat
  PROVE  p \div n \in Nat /\ p % n \in 0 .. n - 1 /\ p = (p \div n) * n + (p % n)
OBVIOUS

LEMMA Digits ==
  ASSUME NEW n \in Nat, n > 0, NEW a \in Nat, NEW b \in Nat, a < b, NEW r \in 0 .. n - 1
  PROVE  a * n + r \in 0 .. b * n - 1
<1>1. PICK d \in Nat : b = a + 1 + d
  <2>1. b - a - 1 \in Nat /\ b = a + 1 + (b - a - 1)
    OBVIOUS
  <2> QED BY <2>1
<1>2. b * n = a * n + n + d * n
  BY <1>1
<1>3. d * n \in Nat /\ a * n \in Nat
  BY Times
<1> QED BY <1>2, <1>3

LEMMA Fanouts ==
  /\ Fanout \in Nat /\ Fanout > 1 /\ Half \in Nat /\ Half > 0 /\ Half < Fanout
  /\ MapTables \in Nat /\ MapTables > 0 /\ MapTables <= Fanout
BY HostTablesAssumption

LEMMA Spans ==
  /\ Span(1) = Fanout * Fanout * Fanout /\ Span(2) = Fanout * Fanout
  /\ Span(3) = Fanout /\ Span(4) = 1
  /\ Span(1) \in Nat /\ Span(2) \in Nat
<1>1. /\ Span(1) = Fanout * Fanout * Fanout /\ Span(2) = Fanout * Fanout
      /\ Span(3) = Fanout /\ Span(4) = 1
  BY DEF Span
<1> QED BY <1>1, Fanouts, Times

-----------------------------------------------------------------------------
(* The loop over a range that starts above its length does nothing. *)
THEOREM RangeLoopIdle ==
  ASSUME NEW s, NEW old, NEW new, NEW vadd \in Nat, NEW size \in Nat, size <= vadd
  PROVE  RebuildRange(s, old, new, vadd, size) = s
<1>1. RangePages(vadd, size) = [k \in 1 .. 0 |-> vadd + k - 1]
  BY DEF RangePages
<1>2. RangePages(vadd, size) = << >>
  BY <1>1
<1> DEFINE Step(g) ==
      [z \in SUBSET {} |->
         IF z = {} THEN s
         ELSE LET x == Max(z) IN RebuildPage(g[z \ {x}], old, new, << >>[x])]
<1>3. \E g : g = Step(g)
  <2>1. [z \in SUBSET {} |-> s] = Step([z \in SUBSET {} |-> s])
    OBVIOUS
  <2> QED BY <2>1
<1>4. \A g : g = Step(g) => g[{}] = s
  OBVIOUS
<1>5. DOMAIN << >> = {}
  OBVIOUS
<1> QED BY <1>2, <1>3, <1>4, <1>5 DEF RebuildRange, FoldLeft, MapThenFoldSet

LEMMA FirstFreeIs ==
  ASSUME NEW m, NEW root, FreeSlots(m, root) # {}
  PROVE  FirstFree(m, root) \in Half .. Fanout - 1 /\ m[root][FirstFree(m, root)] = Null
<1>1. FreeSlots(m, root) \in SUBSET Nat
  BY Fanouts DEF FreeSlots
<1>2. \E z \in FreeSlots(m, root) : \A y \in FreeSlots(m, root) : z <= y
  BY <1>1, LeastExists
<1>3. FirstFree(m, root) \in FreeSlots(m, root)
  BY <1>2 DEF FirstFree
<1> QED BY <1>3 DEF FreeSlots

(* The driver's image and its pool lie above their sizes, as all addresses *)
(* of the kernel do: nothing is rebuilt.                                   *)
LEMMA BuiltIs == Built = Tables
<1>1. CASE ~Tables.ok
  BY <1>1 DEF Built
<1>2. CASE Tables.ok
  <2>1. FreeSlots(TakeKernelHalf(mem, System, Pool), Pool) # {}
    BY <1>2 DEF Tables
  <2>2. MapSlot \in Half .. Fanout - 1
    BY <2>1, FirstFreeIs DEF MapSlot
  <2>3. /\ Half * Span(1) \in Nat /\ MapSlot * Span(1) \in Nat
        /\ Half * Span(1) <= MapSlot * Span(1)
    BY <2>2, Fanouts, Spans, Times
  <2>4. MapVa(MapSlot, 0) \in Nat /\ PoolSize \in Nat /\ PoolSize <= MapVa(MapSlot, 0)
    BY <2>3, HostMemoryAssumption DEF MapVa
  <2>5. DriverVa \in Nat /\ DriverSize \in Nat /\ DriverSize <= DriverVa
    BY <2>3, HostMemoryAssumption, Spans, Fanouts, Times DEF KernelPages
  <2>6. RebuildRange(Tables, System, Pool, DriverVa, DriverSize) = Tables
    BY <2>5, RangeLoopIdle
  <2>7. RebuildRange(Tables, System, Pool, MapVa(MapSlot, 0), PoolSize) = Tables
    BY <2>4, RangeLoopIdle
  <2> QED BY <1>2, <2>6, <2>7 DEF Built
<1>3. Tables.ok \in BOOLEAN
  BY DEF Tables
<1> QED BY <1>1, <1>2

-----------------------------------------------------------------------------
(* The slots of an address that is put together from four. *)
LEMMA SlotsOf ==
  ASSUME NEW m \in Index, NEW i \in Index, NEW j \in Index, NEW k \in Index
  PROVE  LET va == m * Span(1) + ((i * Fanout + j) * Fanout + k)
         IN  Slot(va, 1) = m /\ Slot(va, 2) = i /\ Slot(va, 3) = j /\ Slot(va, 4) = k
<1> DEFINE F == Fanout
           low2 == i * F + j
           low3 == low2 * F + k
           va == m * Span(1) + low3
<1>1. F \in Nat /\ F > 0 /\ m \in Nat /\ i \in Nat /\ j \in 0 .. F - 1 /\ k \in 0 .. F - 1
      /\ i < F /\ m < F
  BY Fanouts DEF Index
<1>2. low2 \in 0 .. F * F - 1
  BY <1>1, Digits
<1>3. low3 \in 0 .. (F * F) * F - 1
  BY <1>1, <1>2, Digits, Times
<1>4. Span(1) = (F * F) * F /\ Span(1) \in Nat /\ Span(1) > 0
      /\ Span(2) = F * F /\ Span(2) \in Nat /\ Span(2) > 0
  BY <1>1, <1>2, <1>3, Spans
<1>5. va = (m * F + i) * (F * F) + (j * F + k)
  BY <1>1, Spans
<1>6. va = ((m * F + i) * F + j) * F + k
  BY <1>1, Spans
<1> HIDE DEF F, low2, low3, va
<1>7. Slot(va, 1) = m
  <2>1. va \div Span(1) = m
    <3>1. va = m * Span(1) + low3 /\ low3 \in 0 .. Span(1) - 1
      BY <1>3, <1>4 DEF va
    <3> QED BY <1>1, <1>4, <3>1, DivMod
  <2> QED BY <1>1, <2>1 DEF Slot, F
<1>8. Slot(va, 2) = i
  <2>1. j * F + k \in 0 .. Span(2) - 1
    BY <1>1, <1>4, Digits
  <2>2. m * F + i \in Nat
    BY <1>1, Times
  <2>3. va \div Span(2) = m * F + i
    BY <1>4, <1>5, <2>1, <2>2, DivMod
  <2>4. (m * F + i) % F = i
    BY <1>1, DivMod
  <2> QED BY <2>3, <2>4 DEF Slot, F
<1>9. Slot(va, 3) = j /\ Slot(va, 4) = k
  <2>1. m * F + i \in Nat
    BY <1>1, Times
  <2>2. (m * F + i) * F + j \in Nat
    BY <1>1, <2>1, Times
  <2>3. va \div F = (m * F + i) * F + j /\ va % F = k
    BY <1>1, <1>6, <2>2, DivMod
  <2>4. ((m * F + i) * F + j) % F = j
    BY <1>1, <2>1, DivMod
  <2>5. va \in Nat /\ va \div 1 = va
    BY <1>1, <1>6, <2>2, Times
  <2> QED BY <2>3, <2>4, <2>5, Spans DEF Slot, F
<1> QED BY <1>7, <1>8, <1>9 DEF va, low3, low2, F

(* A frame the map reaches, as the three slots it has below the map's own. *)
LEMMA FrameParts ==
  ASSUME NEW f \in Mapped
  PROVE  \E i \in 0 .. MapTables - 1, j \in Index, k \in Index :
           f = (i * Fanout + j) * Fanout + k
<1>1. f \in Nat /\ f < MapTables * Span(2) /\ Fanout \in Nat /\ Fanout > 0
  BY Fanouts, HostTablesAssumption DEF Mapped
<1> DEFINE q == f \div Fanout
           k == f % Fanout
           i == q \div Fanout
           j == q % Fanout
<1>2. q \in Nat /\ k \in Index /\ f = q * Fanout + k
  BY <1>1, Parts DEF Index
<1>3. i \in Nat /\ j \in Index /\ q = i * Fanout + j
  BY <1>1, <1>2, Parts DEF Index
<1>4. i < MapTables
  <2> SUFFICES ASSUME MapTables <= i PROVE FALSE
    BY <1>3, Fanouts
  <2>1. MapTables * Span(2) <= i * Span(2)
    BY <1>3, Fanouts, Spans, Times
  <2> HIDE DEF i, j, q, k
  <2>2. f = i * Span(2) + j * Fanout + k
    BY <1>1, <1>2, <1>3, Spans DEF Index
  <2>3. i * Span(2) \in Nat /\ j * Fanout \in Nat /\ k \in Nat
    BY <1>1, <1>2, <1>3, Spans, Times DEF Index
  <2> QED BY <1>1, <2>1, <2>2, <2>3, Spans, Fanouts, Times
<1>5. i \in 0 .. MapTables - 1 /\ f = (i * Fanout + j) * Fanout + k
  BY <1>2, <1>3, <1>4, Fanouts
<1> QED BY <1>2, <1>3, <1>5

-----------------------------------------------------------------------------
MemType == mem \in [Pages -> [Index -> Entry]]

(* What ALhvMMgetHostCr3 leaves in memory. *)
LEMMA TablesAre ==
  ASSUME MemType
  PROVE  /\ Tables.mem \in [Pages -> [Index -> Entry]]
         /\ \A f \in GuestFrames : Tables.mem[f] = mem[f]
         /\ Tables.ok =>
              /\ MapSlot \in Half .. Fanout - 1 /\ mem[System][MapSlot] = Null
              /\ Tables.mem[Pool][MapSlot] = Leads(Pool + 1)
              /\ \A i \in Half .. Fanout - 1 :
                   i # MapSlot => Tables.mem[Pool][i] = mem[System][i]
              /\ \A i \in 0 .. MapTables - 1 :
                   /\ Tables.mem[Pool + 1][i] = Leads(Pool + 2 + i)
                   /\ \A j \in Index : Tables.mem[Pool + 2 + i][j] = Large(i * Fanout + j)
<1> DEFINE copied == TakeKernelHalf(mem, System, Pool)
           all == MapAll(copied, Pool, Pool + 1)
<1>1. /\ Pool \in Nat /\ Pages = 0 .. Frames - 1 /\ Frames \in Nat
      /\ Pool \in Pages /\ Pool + 1 \in Pages
      /\ \A i \in 0 .. MapTables - 1 : Pool + 2 + i \in Pages
      /\ System \in GuestFrames /\ GuestFrames \subseteq Pages
      /\ \A f \in GuestFrames : f \in Nat /\ f < Pool
  BY HostMemoryAssumption, Fanouts, HostTablesAssumption DEF Pages
<1>2. Null \in Entry /\ \A f \in Nat : Leads(f) \in Entry /\ Large(f) \in Entry
  BY DEF Null, Leads, Large, Entry
<1>3. copied \in [Pages -> [Index -> Entry]]
  BY <1>1, <1>2 DEF MemType, TakeKernelHalf
<1>4. /\ \A f \in Pages : f # Pool => copied[f] = mem[f]
      /\ \A i \in Half .. Fanout - 1 : copied[Pool][i] = mem[System][i]
  BY <1>1, Fanouts DEF MemType, TakeKernelHalf, Index
<1> HIDE DEF copied
<1>5. CASE FreeSlots(copied, Pool) = {}
  <2>1. Tables.mem = copied /\ ~Tables.ok
    BY <1>5 DEF Tables, copied
  <2> QED BY <1>1, <1>3, <1>4, <2>1
<1>6. CASE FreeSlots(copied, Pool) # {}
  <2>1. Tables.mem = all
    BY <1>6 DEF Tables, copied
  <2>2. /\ MapSlot = FirstFree(copied, Pool) /\ MapSlot \in Half .. Fanout - 1
        /\ copied[Pool][MapSlot] = Null
    BY <1>6, FirstFreeIs DEF MapSlot, copied
  <2>3. MapSlot \in Index
    BY <2>2, Fanouts DEF Index
  <2>4. DOMAIN all = Pages
    BY <1>3 DEF MapAll
  <2>5. all[Pool] = [copied[Pool] EXCEPT ![MapSlot] = Leads(Pool + 1)]
    BY <1>1, <1>3, <2>2 DEF MapAll
  <2>6. all[Pool + 1] = [i \in Index |-> IF i < MapTables THEN Leads(Pool + 1 + 1 + i) ELSE Null]
    BY <1>1, <1>3 DEF MapAll
  <2>7. ASSUME NEW f \in Pages, f \in Pool + 2 .. Pool + 1 + MapTables
        PROVE  all[f] = [j \in Index |-> Large((f - (Pool + 1) - 1) * Fanout + j)]
    BY <1>1, <1>3, <2>7, Fanouts DEF MapAll
  <2>8. ASSUME NEW f \in Pages, f < Pool \/ f > Pool + 1 + MapTables
        PROVE  all[f] = copied[f]
    BY <1>1, <1>3, <2>8, Fanouts DEF MapAll, Pages
  <2> HIDE DEF all
  <2>9. all \in [Pages -> [Index -> Entry]]
    <3> SUFFICES ASSUME NEW f \in Pages PROVE all[f] \in [Index -> Entry]
      <4>1. all = [f \in Pages |-> all[f]]
        BY <2>4 DEF all, MapAll
      <4> QED BY <4>1
    <3>0. f \in Nat /\ Pool + 1 \in Nat /\ Leads(Pool + 1) \in Entry
      BY <1>1, <1>2
    <3>1. CASE f = Pool
      BY <1>1, <1>3, <2>3, <2>5, <3>0, <3>1
    <3>2. CASE f = Pool + 1
      <4>1. \A i \in Index : Leads(Pool + 1 + 1 + i) \in Entry
        BY <1>1, <1>2, Fanouts DEF Index
      <4> QED BY <1>2, <2>6, <3>2, <4>1
    <3>3. CASE f \in Pool + 2 .. Pool + 1 + MapTables
      <4>1. f - (Pool + 1) - 1 \in Nat
        BY <1>1, <3>0, <3>3, Fanouts
      <4>2. (f - (Pool + 1) - 1) * Fanout \in Nat
        BY <4>1, Fanouts, Times
      <4>3. \A j \in Index : Large((f - (Pool + 1) - 1) * Fanout + j) \in Entry
        BY <1>2, <4>2, Fanouts DEF Index
      <4> QED BY <2>7, <3>3, <4>3
    <3>4. CASE f < Pool \/ f > Pool + 1 + MapTables
      BY <1>3, <2>8, <3>4
    <3>5. \/ f = Pool \/ f = Pool + 1 \/ f \in Pool + 2 .. Pool + 1 + MapTables
          \/ f < Pool \/ f > Pool + 1 + MapTables
      BY <1>1, <3>0, Fanouts
    <3> QED BY <3>1, <3>2, <3>3, <3>4, <3>5
  <2>10. \A f \in GuestFrames : all[f] = mem[f]
    BY <1>1, <1>4, <2>8
  <2>11. /\ all[Pool][MapSlot] = Leads(Pool + 1)
         /\ \A i \in Half .. Fanout - 1 : i # MapSlot => all[Pool][i] = mem[System][i]
    BY <1>1, <1>3, <1>4, <2>3, <2>5, Fanouts DEF Index
  <2>12. ASSUME NEW i \in 0 .. MapTables - 1
         PROVE  /\ all[Pool + 1][i] = Leads(Pool + 2 + i)
                /\ \A j \in Index : all[Pool + 2 + i][j] = Large(i * Fanout + j)
    <3>1. i \in Index /\ i < MapTables /\ Pool + 1 + 1 + i = Pool + 2 + i
      BY <1>1, Fanouts DEF Index
    <3>2. Pool + 2 + i \in Pages /\ Pool + 2 + i \in Pool + 2 .. Pool + 1 + MapTables
          /\ Pool + 2 + i - (Pool + 1) - 1 = i
      BY <1>1, Fanouts
    <3>3. all[Pool + 1][i] = Leads(Pool + 2 + i)
      BY <2>6, <3>1
    <3>4. \A f \in Pages : f = Pool + 2 + i =>
            all[f] = [j \in Index |-> Large((f - (Pool + 1) - 1) * Fanout + j)]
      BY <2>7, <3>2
    <3>5. \A f \in Pages : f = Pool + 2 + i =>
            \A j \in Index : all[f][j] = Large(i * Fanout + j)
      <4> SUFFICES ASSUME NEW f \in Pages, f = Pool + 2 + i, NEW j \in Index
                   PROVE  all[f][j] = Large(i * Fanout + j)
        OBVIOUS
      <4> DEFINE x == f - (Pool + 1) - 1
      <4>1. x = i
        BY <1>1, <3>1
      <4>2. all[f] = [l \in Index |-> Large(x * Fanout + l)]
        BY <3>4
      <4> HIDE DEF x
      <4>3. all[f][j] = Large(x * Fanout + j)
        BY <4>2
      <4> QED BY <4>1, <4>3
    <3>6. \A j \in Index : all[Pool + 2 + i][j] = Large(i * Fanout + j)
      BY <3>2, <3>5
    <3> QED BY <3>3, <3>6
  <2>13. mem[System][MapSlot] = Null
    BY <1>4, <2>2
  <2> QED BY <2>1, <2>2, <2>9, <2>10, <2>11, <2>12, <2>13
<1> QED BY <1>5, <1>6

-----------------------------------------------------------------------------
(* The host's PML4 has in the slots it took over what the system's has, and *)
(* its own map of memory stays as it was built.                            *)
TakenKept ==
  host # NoFrame =>
    /\ host = Pool
    /\ \A i \in taken : /\ i \in Half .. Fanout - 1
                        /\ mem[Pool][i] = mem[System][i] /\ mem[System][i].present

MapKept ==
  host # NoFrame =>
    /\ host = Pool /\ map \in Half .. Fanout - 1
    /\ mem[Pool][map] = Leads(Pool + 1)
    /\ \A i \in 0 .. MapTables - 1 :
         /\ mem[Pool + 1][i] = Leads(Pool + 2 + i)
         /\ \A j \in Index : mem[Pool + 2 + i][j] = Large(i * Fanout + j)

TypesKept ==
  /\ mtrr \in MtrrChoices /\ mtrrs \in MtrrChoices
  /\ eptType \in [Pages -> MtrrTypes] /\ changes \in Nat
  /\ EptTypesSafe

HostInv == MemType /\ TakenKept /\ MapKept /\ TypesKept

LEMMA MapReaches == MapKept => PhysReachable
<1> SUFFICES ASSUME MapKept, host # NoFrame, NEW f \in Mapped
             PROVE  GetPA(mem, host, MapVa(map, f)) = f
  BY DEF PhysReachable
<1>1. PICK i \in 0 .. MapTables - 1, j \in Index, k \in Index :
        f = (i * Fanout + j) * Fanout + k
  BY FrameParts
<1> DEFINE va == map * Span(1) + ((i * Fanout + j) * Fanout + k)
<1>2. MapVa(map, f) = va
  BY <1>1 DEF MapVa
<1>3. i \in Index /\ map \in Index
  BY Fanouts DEF MapKept, Index
<1>4. Slot(va, 1) = map /\ Slot(va, 2) = i /\ Slot(va, 3) = j /\ Slot(va, 4) = k
  BY <1>3, SlotsOf
<1> HIDE DEF va
<1>5. Pml4e(mem, host, va) = Leads(Pool + 1)
  BY <1>4 DEF Pml4e, MapKept
<1>6. Pdpte(mem, host, va) = Leads(Pool + 2 + i)
  BY <1>4, <1>5 DEF Pdpte, Below, Leads, MapKept
<1>7. Pde(mem, host, va) = Large(i * Fanout + j)
  <2>1. /\ Leads(Pool + 2 + i).present /\ Leads(Pool + 2 + i).to = Pool + 2 + i
    BY DEF Leads
  <2>2. mem[Pool + 2 + i][j] = Large(i * Fanout + j)
    BY DEF MapKept
  <2> QED BY <1>4, <1>6, <2>1, <2>2 DEF Pde, Below
<1>8. /\ Large(i * Fanout + j).present /\ Large(i * Fanout + j).large
      /\ Large(i * Fanout + j).to = i * Fanout + j
  BY DEF Large
<1>9. GetPA(mem, host, va) = (i * Fanout + j) * Fanout + k
  BY <1>4, <1>7, <1>8 DEF GetPA
<1> QED BY <1>1, <1>2, <1>9

LEMMA TakenFollows == TakenKept => HostFollowsGuest
<1> SUFFICES ASSUME TakenKept, host # NoFrame, NEW va \in KernelPages, Slot(va, 1) \in taken
             PROVE  GetPA(mem, host, va) = GetPA(mem, System, va)
  BY DEF HostFollowsGuest
<1>1. Pml4e(mem, host, va) = Pml4e(mem, System, va)
  BY DEF TakenKept, Pml4e
<1>2. Pdpte(mem, host, va) = Pdpte(mem, System, va)
  BY <1>1 DEF Pdpte
<1>3. Pde(mem, host, va) = Pde(mem, System, va)
  BY <1>2 DEF Pde
<1>4. Pte(mem, host, va) = Pte(mem, System, va)
  BY <1>3 DEF Pte
<1> QED BY <1>3, <1>4 DEF GetPA

-----------------------------------------------------------------------------
(* The steps. *)
LEMMA HostInitInv == HostInit => HostInv
<1> SUFFICES ASSUME HostInit PROVE HostInv
  OBVIOUS
<1> USE DEF HostInit
<1>1. MemType
  BY HostMemoryAssumption DEF MemType
<1>2. TakenKept /\ MapKept
  BY DEF TakenKept, MapKept
<1>3. TypesKept
  <2>1. UC \in MtrrTypes
    BY DEF UC, MtrrTypes
  <2> QED BY <2>1 DEF TypesKept, EptTypesSafe
<1> QED BY <1>1, <1>2, <1>3 DEF HostInv

LEMMA BuildHostInv ==
  ASSUME HostInv, host = NoFrame, BuildHost
  PROVE  HostInv' /\ \A f \in GuestFrames : mem'[f] = mem[f]
<1>1. MemType
  BY DEF HostInv
<1>2. mem' = Tables.mem
  BY BuiltIs DEF BuildHost
<1>3. System \in GuestFrames /\ mem'[System] = mem[System]
  BY <1>1, <1>2, TablesAre, HostMemoryAssumption
<1>4. MemType'
  BY <1>1, <1>2, TablesAre DEF MemType
<1>5. TypesKept'
  BY DEF HostInv, TypesKept, EptTypesSafe, BuildHost, typeVars
<1>6. CASE Tables.ok
  <2>1. /\ host' = Pool /\ map' = MapSlot
        /\ taken' = {s \in Half .. Fanout - 1 : mem[System][s].present}
    BY <1>6, BuiltIs DEF BuildHost
  <2>2. MapKept'
    BY <1>1, <1>2, <1>6, <2>1, TablesAre DEF MapKept
  <2>3. TakenKept'
    <3>1. ~Null.present
      BY DEF Null
    <3>2. mem[System][MapSlot] = Null
      BY <1>1, <1>6, TablesAre
    <3>3. \A i \in taken' : i \in Half .. Fanout - 1 /\ i # MapSlot /\ mem[System][i].present
      BY <2>1, <3>1, <3>2
    <3>4. \A i \in taken' : mem'[Pool][i] = mem[System][i]
      BY <1>1, <1>2, <1>6, <3>3, TablesAre
    <3> QED BY <1>3, <2>1, <3>3, <3>4 DEF TakenKept
  <2> QED BY <1>1, <1>2, <1>4, <1>5, <2>2, <2>3, TablesAre DEF HostInv
<1>7. CASE ~Tables.ok
  <2>1. host' = NoFrame
    BY <1>7, BuiltIs DEF BuildHost
  <2> QED BY <1>1, <1>2, <1>4, <1>5, <2>1, TablesAre DEF HostInv, MapKept, TakenKept
<1>8. Tables.ok \in BOOLEAN
  BY DEF Tables
<1> QED BY <1>6, <1>7, <1>8

(* Steps that leave the tables alone keep what is said of them. *)
LEMMA TablesFrame ==
  ASSUME HostInv, UNCHANGED tableVars PROVE MemType' /\ TakenKept' /\ MapKept'
BY DEF HostInv, MemType, TakenKept, MapKept, tableVars

LEMMA BuildBitmapInv ==
  ASSUME HostInv, BuildBitmap PROVE HostInv' /\ mem' = mem
BY TablesFrame DEF BuildBitmap, HostInv, TypesKept, EptTypesSafe, tableVars

LEMMA TypesAre ==
  ASSUME NEW m \in MtrrChoices, NEW p \in Pages
  PROVE  /\ PageType(m, p) \in MtrrTypes
         /\ RangeType(m, Region(p), RegionSize) \in MtrrTypes
         /\ RangeType(m, Region(p), RegionSize) <= PageType(m, p)
<1>1. m \in Mtrrs(Vars) /\ RegionSize \in Nat \ {0} /\ p \in Nat
  BY HostMemoryAssumption, HostTablesAssumption DEF Pages
<1>2. Region(p) \in Nat /\ p \in Region(p) .. Region(p) + RegionSize - 1
  BY <1>1, InRegion
<1> QED BY <1>1, <1>2, PageTypeIs, RangeTypeSafe

LEMMA BuildEptInv ==
  ASSUME HostInv, BuildEpt PROVE HostInv' /\ mem' = mem
<1>1. mtrr \in MtrrChoices /\ mtrrs' = mtrr /\ mtrr' = mtrr /\ changes' = changes
      /\ changes \in Nat
  BY DEF BuildEpt, HostInv, TypesKept
<1>2. \A p \in Pages : /\ eptType'[p] \in MtrrTypes
                       /\ eptType'[p] <= PageType(mtrr, p)
  <2> SUFFICES ASSUME NEW p \in Pages
               PROVE  eptType'[p] \in MtrrTypes /\ eptType'[p] <= PageType(mtrr, p)
    OBVIOUS
  <2>1. eptType'[p] = IF Region(p) = 0 THEN PageType(mtrr, p)
                      ELSE RangeType(mtrr, Region(p), RegionSize)
    BY DEF BuildEpt
  <2>2. PageType(mtrr, p) \in Int
    BY <1>1, TypesAre DEF MtrrTypes
  <2> QED BY <1>1, <2>1, <2>2, TypesAre
<1>3. eptType' \in [Pages -> MtrrTypes]
  <2>1. eptType' = [p \in Pages |-> eptType'[p]]
    BY DEF BuildEpt
  <2> QED BY <1>2, <2>1
<1>4. TypesKept'
  BY <1>1, <1>2, <1>3 DEF TypesKept, EptTypesSafe
<1> QED BY <1>4, TablesFrame DEF HostInv, BuildEpt, tableVars

LEMMA SplitInv ==
  ASSUME HostInv, NEW p \in Pages, Split(p) PROVE HostInv' /\ mem' = mem
<1>1. /\ mtrrs \in MtrrChoices /\ mtrrs' = mtrrs /\ mtrr' = mtrr /\ changes' = changes
      /\ changes \in Nat /\ eptType \in [Pages -> MtrrTypes] /\ eptMade' = eptMade
      /\ mtrr \in MtrrChoices /\ EptTypesSafe
  BY DEF Split, HostInv, TypesKept
<1>2. \A q \in Pages : /\ eptType'[q] \in MtrrTypes
                       /\ eptMade => eptType'[q] <= PageType(mtrrs, q)
  <2> SUFFICES ASSUME NEW q \in Pages
               PROVE  /\ eptType'[q] \in MtrrTypes
                      /\ eptMade => eptType'[q] <= PageType(mtrrs, q)
    OBVIOUS
  <2>1. eptType'[q] = IF Region(q) = Region(p) THEN PageType(mtrrs, q) ELSE eptType[q]
    BY DEF Split
  <2>2. PageType(mtrrs, q) \in Int
    BY <1>1, TypesAre DEF MtrrTypes
  <2> QED BY <1>1, <2>1, <2>2, TypesAre DEF EptTypesSafe
<1>3. eptType' \in [Pages -> MtrrTypes]
  <2>1. eptType' = [q \in Pages |-> eptType'[q]]
    BY DEF Split
  <2> QED BY <1>2, <2>1
<1>4. TypesKept'
  BY <1>1, <1>2, <1>3 DEF TypesKept, EptTypesSafe
<1> QED BY <1>4, TablesFrame DEF HostInv, Split, tableVars

LEMMA GuestMapsInv ==
  ASSUME HostInv, GuestMaps PROVE HostInv' /\ changes' # changes
<1>1. PICK f \in GuestFrames, g \in GuestFrames, i \in Index :
        /\ f = System => mem[f][i] = Null
        /\ mem' = [mem EXCEPT ![f][i] = Leads(g)]
  BY DEF GuestMaps
<1>2. /\ f \in Pages /\ f < Pool /\ f \in Nat /\ Pool \in Nat /\ g \in Nat
      /\ System \in Pages /\ MemType
  BY HostMemoryAssumption, HostTablesAssumption DEF Pages, HostInv
<1>3. host' = host /\ map' = map /\ taken' = taken
      /\ changes' = changes + 1 /\ changes \in Nat
  BY DEF GuestMaps, Change, HostInv, TypesKept
<1>4. MemType'
  <2>1. Leads(g) \in Entry
    BY <1>2 DEF Leads, Entry
  <2> QED BY <1>1, <1>2, <2>1 DEF MemType
<1>5. \A h \in Pages : h >= Pool => mem'[h] = mem[h]
  BY <1>1, <1>2 DEF MemType
<1>6. ASSUME NEW s \in Index, mem[System][s].present
      PROVE  mem'[System][s] = mem[System][s]
  BY <1>1, <1>2, <1>6 DEF MemType, Null
<1>7. /\ Pool \in Pages /\ Pool + 1 \in Pages
      /\ \A k \in 0 .. MapTables - 1 : Pool + 2 + k \in Pages
      /\ \A s \in Half .. Fanout - 1 : s \in Index
  BY HostMemoryAssumption, Fanouts, HostTablesAssumption DEF Pages, Index
<1>8. mem'[Pool] = mem[Pool] /\ mem'[Pool + 1] = mem[Pool + 1]
      /\ \A k \in 0 .. MapTables - 1 : mem'[Pool + 2 + k] = mem[Pool + 2 + k]
  BY <1>2, <1>5, <1>7
<1>9. TakenKept'
  BY <1>3, <1>6, <1>7, <1>8 DEF HostInv, TakenKept
<1>10. MapKept'
  BY <1>3, <1>8 DEF HostInv, MapKept
<1>11. TypesKept'
  BY <1>3 DEF HostInv, TypesKept, EptTypesSafe, GuestMaps, typeVars
<1> QED BY <1>3, <1>4, <1>9, <1>10, <1>11 DEF HostInv

LEMMA MtrrWriteInv ==
  ASSUME HostInv, NEW msr, NEW c, NEW l, WriteMtrr(msr, l) \/ HandleMtrrWrite(msr, c)
  PROVE  HostInv' /\ mem' = mem
<1>1. /\ UNCHANGED << tableVars, mtrrs, eptMade, eptType >> /\ changes' = changes + 1
      /\ mtrr' \in MtrrAfter(msr)
  BY DEF WriteMtrr, HandleMtrrWrite, Change
<1>2. mtrr' \in MtrrChoices
  BY <1>1 DEF MtrrAfter
<1>3. TypesKept'
  BY <1>1, <1>2 DEF HostInv, TypesKept, EptTypesSafe
<1> QED BY <1>1, <1>3, TablesFrame DEF HostInv, tableVars

-----------------------------------------------------------------------------
(* The driver as Startup. *)
LEMMA DriverStep == [Next]_vars => [StartNext]_startVars
<1> SUFFICES ASSUME Next \/ UNCHANGED vars PROVE StartNext \/ UNCHANGED startVars
  OBVIOUS
<1>1. CASE BuildStep
  BY <1>1 DEF BuildStep, StartNext, BootStep, InitSteps
<1>2. CASE OtherBootStep
  BY <1>2 DEF OtherBootStep, OtherSteps, StartNext, BootStep
<1>3. CASE CoreStepOfDriver
  BY <1>3 DEF CoreStepOfDriver, StartNext, CoreNext
<1>4. CASE AskStep
  BY <1>4 DEF AskStep, StartNext
<1>5. CASE SplitStep \/ GuestStep
  BY <1>5 DEF SplitStep, GuestStep
<1>6. CASE UNCHANGED vars
  BY <1>6 DEF vars
<1> QED BY <1>1, <1>2, <1>3, <1>4, <1>5, <1>6 DEF Next

(* Whatever its memory holds and the guest does to it, the driver starts,  *)
(* fails and answers ALhvIsHost as Startup does.                           *)
THEOREM DriverImplementsStartup == Spec => StartSpec
<1>1. Init => StartInit
  BY DEF Init
<1>2. [Next]_vars => [StartNext]_startVars
  BY DriverStep
<1> QED BY <1>1, <1>2, PTL DEF Spec, StartSpec

(* So what Startup promises of starting, failing and answering holds of the *)
(* driver, and its start-up variables keep their types.                    *)
THEOREM DriverStarts ==
  Spec => [](StartTypeOK /\ StartedMeansAll /\ FailureConfined /\ HostKnown
             /\ HostAnswerNeedsMove)
BY DriverImplementsStartup, StartTypeCorrect, StartReturnsTrueForAll,
   StartFailureConfined, StartHostKnown, StartHostAnswer, PTL

-----------------------------------------------------------------------------
(* The host's tables are built once, before anything uses them. *)
Earlier  == {"start", "map", "pool", "cores", "system_cr3", "host_cr3"}
EarlyInv == boot \in Earlier => host = NoFrame

DriverInv == EarlyInv /\ HostInv

LEMMA AfterEarly ==
  ASSUME NEW s \in InitSteps, After[s] \in Earlier
  PROVE  s \in Earlier /\ s # "host_cr3"
BY InitStepsAre DEF InitSteps, Earlier

LEMMA BuildStepInv ==
  ASSUME DriverInv, BuildStep
  PROVE  DriverInv' /\ \A f \in GuestFrames : mem'[f] = mem[f]
<1> USE DEF DriverInv
<1>1. CASE BuildHost /\ (InitOk("host_cr3") \/ InitFails("host_cr3"))
  <2>1. boot = "host_cr3" /\ boot' \in {"host_idt", "returned"}
    BY <1>1, InitStepsAre DEF InitOk, InitFails, At, Returns
  <2>2. host = NoFrame
    BY <2>1 DEF EarlyInv, Earlier
  <2>3. EarlyInv'
    BY <2>1 DEF EarlyInv, Earlier
  <2> QED BY <1>1, <2>2, <2>3, BuildHostInv
<1>2. CASE BuildBitmap /\ InitOk("msr_bitmap")
  <2>1. boot' = "ept"
    BY <1>2, InitStepsAre DEF InitOk
  <2> QED BY <1>2, <2>1, BuildBitmapInv DEF EarlyInv, Earlier
<1>3. CASE BuildEpt /\ InitOk("ept")
  <2>1. boot' = "exits"
    BY <1>3, InitStepsAre DEF InitOk
  <2> QED BY <1>3, <2>1, BuildEptInv DEF EarlyInv, Earlier
<1> QED BY <1>1, <1>2, <1>3 DEF BuildStep

LEMMA HostFrame ==
  ASSUME HostInv, UNCHANGED hostVars PROVE HostInv' /\ mem' = mem
BY DEF hostVars, tableVars, typeVars, HostInv, MemType, TakenKept, MapKept, TypesKept,
       EptTypesSafe

LEMMA OtherBootStepInv ==
  ASSUME DriverInv, OtherBootStep PROVE DriverInv' /\ mem' = mem
<1>1. HostInv' /\ mem' = mem /\ host' = host
  BY HostFrame DEF DriverInv, OtherBootStep, hostVars, tableVars
<1>2. boot' \in Earlier => boot \in Earlier
  <2>1. ASSUME NEW s \in OtherSteps, InitOk(s), boot' \in Earlier PROVE boot \in Earlier
    BY <2>1, AfterEarly DEF InitOk, At, OtherSteps
  <2> QED BY <2>1
          DEF OtherBootStep, StartHv, NumberRefused, MapApicId, MapDone, InitFails,
              Publish, Finish, PinCore, SvmCore, CoreFails, Supported, Context, Alloc,
              VmxOn, LoadVmcs, Launch, CoreDone, MainEnds, CoreStep, At, Returns, Earlier
<1> QED BY <1>1, <1>2 DEF DriverInv, EarlyInv

LEMMA DriverStepInv ==
  ASSUME DriverInv, [Next]_vars
  PROVE  /\ DriverInv'
         /\ changes' = changes => \A f \in GuestFrames : mem'[f] = mem[f]
<1>1. CASE BuildStep
  BY <1>1, BuildStepInv
<1>2. CASE OtherBootStep
  BY <1>2, OtherBootStepInv
<1>3. CASE CoreStepOfDriver \/ AskStep
  <2>1. boot' = boot /\ UNCHANGED hostVars
    BY <1>3 DEF CoreStepOfDriver, Exit, EnterHost, LeaveHost, AskStep, AskNext,
                MoveThread, AskIndex, AskRoot
  <2> QED BY <2>1, HostFrame DEF DriverInv, EarlyInv, hostVars, tableVars
<1>4. CASE SplitStep
  <2>1. PICK p \in Pages : Split(p)
    BY <1>4 DEF SplitStep
  <2>2. boot' = boot /\ host' = host
    BY <1>4, <2>1 DEF SplitStep, startVars, Split, tableVars
  <2> QED BY <2>1, <2>2, SplitInv DEF DriverInv, EarlyInv
<1>5. CASE GuestStep
  <2>1. boot' = boot
    BY <1>5 DEF GuestStep, startVars
  <2>2. CASE GuestMaps
    BY <2>1, <2>2, GuestMapsInv DEF DriverInv, EarlyInv, GuestMaps
  <2>3. ASSUME NEW msr, NEW c, NEW l, WriteMtrr(msr, l) \/ HandleMtrrWrite(msr, c)
        PROVE  DriverInv' /\ mem' = mem
    <3>1. host' = host
      BY <2>3 DEF WriteMtrr, HandleMtrrWrite, tableVars
    <3> QED BY <2>1, <2>3, <3>1, MtrrWriteInv DEF DriverInv, EarlyInv
  <2> QED BY <1>5, <2>2, <2>3 DEF GuestStep
<1>6. CASE UNCHANGED vars
  <2>1. boot' = boot /\ UNCHANGED hostVars
    BY <1>6 DEF vars, startVars
  <2> QED BY <2>1, HostFrame DEF DriverInv, EarlyInv, hostVars, tableVars
<1> QED BY <1>1, <1>2, <1>3, <1>4, <1>5, <1>6 DEF Next

LEMMA DriverAlways == Spec => []DriverInv
<1>1. Init => DriverInv
  BY HostInitInv DEF Init, DriverInv, EarlyInv, HostInit
<1>2. DriverInv /\ [Next]_vars => DriverInv'
  BY DriverStepInv
<1> QED BY <1>1, <1>2, PTL DEF Spec

(* Physical memory stays reachable at its place in the host's map, for any *)
(* size of tables and memory, whatever the guest stores into its own.      *)
THEOREM DriverReachesMemory == Spec => []PhysReachable
<1>1. DriverInv => PhysReachable
  BY MapReaches DEF DriverInv, HostInv
<1> QED BY <1>1, DriverAlways, PTL

(* The slots the host took over lead where the guest's lead, now and after *)
(* every change the guest makes.                                           *)
THEOREM DriverFollowsGuest == Spec => []HostFollowsGuest
<1>1. DriverInv => HostFollowsGuest
  BY TakenFollows DEF DriverInv, HostInv
<1> QED BY <1>1, DriverAlways, PTL

(* No page is cached under the EPT more strongly than the MTRRs had it     *)
(* when they were read, for any MTRRs and any size of region.              *)
THEOREM DriverEptTypesSafe == Spec => []EptTypesSafe
<1>1. DriverInv => EptTypesSafe
  BY DEF DriverInv, HostInv, TypesKept
<1> QED BY <1>1, DriverAlways, PTL

(* Setting up the host stores into none of the guest's tables, wherever    *)
(* the driver is loaded: its address exceeds its size.                     *)
THEOREM DriverSparesGuest == Spec => GuestTablesUntouched
<1>1. DriverInv /\ [Next]_vars =>
        [changes' = changes => \A f \in GuestFrames : mem'[f] = mem[f]]_hostVars
  BY DriverStepInv
<1> QED BY <1>1, DriverAlways, PTL DEF Spec, GuestTablesUntouched

-----------------------------------------------------------------------------
(* What the bitmap traps: of the MSRs s[i] enabled with i in I, those that *)
(* no later one of the same byte undid.                                    *)
LastOfByte(s, I) ==
  {s[i] : i \in {j \in I : \A k \in I : k > j => s[k] \div 8 # s[j] \div 8}}

LEMMA GreatestIs ==
  ASSUME NEW n \in Nat, NEW I, I \subseteq 1 .. n, I # {}
  PROVE  Max(I) \in I /\ \A i \in I : Max(I) >= i
<1> DEFINE Above == {n - i : i \in I}
<1>1. Above \in SUBSET Nat /\ Above # {}
  <2>1. \A i \in I : n - i \in Nat
    OBVIOUS
  <2> QED BY <2>1
<1>2. PICK a \in Above : \A b \in Above : a <= b
  BY <1>1, LeastExists
<1>3. PICK m \in I : a = n - m
  BY <1>2
<1>4. \A i \in I : m >= i
  <2> SUFFICES ASSUME NEW i \in I PROVE m >= i
    OBVIOUS
  <2>1. n - m <= n - i
    BY <1>2, <1>3
  <2> QED BY <2>1
<1> QED BY <1>4 DEF Max

LEMMA UpTo ==
  ASSUME NEW n \in Nat, NEW k \in 1 .. n
  PROVE  /\ 1 .. k \in SUBSET (1 .. n) /\ 1 .. k # {}
         /\ (1 .. k) \ {k} = 1 .. (k - 1)
<1>1. \A i \in 1 .. k : i \in 1 .. n
  OBVIOUS
<1>2. k \in 1 .. k
  OBVIOUS
<1>3. \A i : i \in (1 .. k) \ {k} <=> i \in 1 .. (k - 1)
  OBVIOUS
<1>4. (1 .. k) \ {k} = 1 .. (k - 1)
  BY <1>3
<1> QED BY <1>1, <1>2, <1>4

LEMMA EnablingNext ==
  ASSUME NEW n \in Nat, NEW s, \A i \in 1 .. n : s[i] \in Nat,
         NEW I, I \subseteq 1 .. n, NEW x \in I, \A i \in I : x >= i
  PROVE  LastOfByte(s, I) = EnableWriteExit(LastOfByte(s, I \ {x}), s[x])
<1>1. ASSUME NEW b \in LastOfByte(s, I)
      PROVE  b \in EnableWriteExit(LastOfByte(s, I \ {x}), s[x])
  <2>1. PICK i \in I : b = s[i] /\ \A k \in I : k > i => s[k] \div 8 # s[i] \div 8
    BY <1>1 DEF LastOfByte
  <2>2. CASE i = x
    BY <2>1, <2>2 DEF EnableWriteExit
  <2>3. CASE i # x
    <3>1. x > i /\ i \in I \ {x}
      BY <2>3
    <3>2. s[i] \div 8 # s[x] \div 8
      BY <2>1, <3>1
    <3>3. b \in LastOfByte(s, I \ {x})
      BY <2>1, <3>1 DEF LastOfByte
    <3> QED BY <2>1, <3>2, <3>3 DEF EnableWriteExit
  <2> QED BY <2>2, <2>3
<1>2. ASSUME NEW b \in EnableWriteExit(LastOfByte(s, I \ {x}), s[x])
      PROVE  b \in LastOfByte(s, I)
  <2>1. CASE b = s[x]
    <3>1. \A k \in I : ~(k > x)
      OBVIOUS
    <3> QED BY <2>1, <3>1 DEF LastOfByte
  <2>2. CASE b # s[x]
    <3>1. b \in LastOfByte(s, I \ {x}) /\ b \div 8 # s[x] \div 8
      BY <1>2, <2>2 DEF EnableWriteExit
    <3>2. PICK i \in I \ {x} : /\ b = s[i]
                               /\ \A k \in I \ {x} : k > i => s[k] \div 8 # s[i] \div 8
      BY <3>1 DEF LastOfByte
    <3>3. \A k \in I : k > i => s[k] \div 8 # s[i] \div 8
      BY <3>1, <3>2
    <3> QED BY <3>2, <3>3 DEF LastOfByte
  <2> QED BY <2>1, <2>2
<1> QED BY <1>1, <1>2

(* enable_exit_for_msr_write assigns the byte: after any list of MSRs was  *)
(* enabled, of each byte of the bitmap only the bit set last is set        *)
(* (vmx.inl:290).                                                          *)
THEOREM OnlyLastOfByteTrapped ==
  ASSUME NEW n \in Nat, NEW s, DOMAIN s = 1 .. n, \A i \in 1 .. n : s[i] \in Nat
  PROVE  FoldLeft(EnableWriteExit, {}, s) = LastOfByte(s, 1 .. n)
<1> DEFINE F(f) == [I \in SUBSET (1 .. n) |->
                      IF I = {} THEN {}
                      ELSE LET x == Max(I) IN EnableWriteExit(f[I \ {x}], s[x])]
<1> DEFINE g == [I \in SUBSET (1 .. n) |-> LastOfByte(s, I)]
<1>1. g = F(g)
  <2>1. ASSUME NEW I \in SUBSET (1 .. n) PROVE g[I] = F(g)[I]
    <3>1. CASE I = {}
      BY <3>1 DEF LastOfByte
    <3>2. CASE I # {}
      <4>1. PICK x : x = Max(I)
        OBVIOUS
      <4>2. x \in I /\ \A i \in I : x >= i
        BY <3>2, <4>1, GreatestIs
      <4>3. g[I] = EnableWriteExit(LastOfByte(s, I \ {x}), s[x])
        BY <4>2, EnablingNext
      <4>4. I \ {x} \in SUBSET (1 .. n)
        OBVIOUS
      <4>5. F(g)[I] = EnableWriteExit(g[I \ {x}], s[x])
        BY <3>2, <4>1
      <4> QED BY <4>3, <4>4, <4>5
    <3> QED BY <3>1, <3>2
  <2> QED BY <2>1
<1> DEFINE h == CHOOSE f : f = F(f)
<1>2. FoldLeft(EnableWriteExit, {}, s) = h[1 .. n]
  BY DEF FoldLeft, MapThenFoldSet
<1>3. h = F(h)
  <2> HIDE DEF g, F
  <2> QED BY <1>1
<1> HIDE DEF h
<1>4. h[{}] = {}
  BY <1>3
<1>5. \A k \in 1 .. n : h[1 .. k] = EnableWriteExit(h[1 .. (k - 1)], s[k])
  <2> SUFFICES ASSUME NEW k \in 1 .. n
               PROVE  h[1 .. k] = EnableWriteExit(h[1 .. (k - 1)], s[k])
    OBVIOUS
  <2>1. 1 .. k \in SUBSET (1 .. n) /\ 1 .. k # {} /\ (1 .. k) \ {k} = 1 .. (k - 1)
    BY UpTo
  <2>2. Max(1 .. k) = k
    <3>1. Max(1 .. k) \in 1 .. k /\ \A i \in 1 .. k : Max(1 .. k) >= i
      BY <2>1, GreatestIs
    <3>2. k \in 1 .. k
      OBVIOUS
    <3> QED BY <3>1, <3>2
  <2>3. h[1 .. k] = EnableWriteExit(h[(1 .. k) \ {k}], s[k])
    BY <1>3, <2>1, <2>2
  <2> QED BY <2>1, <2>3
<1>6. \A k \in 0 .. n : h[1 .. k] = LastOfByte(s, 1 .. k)
  <2> DEFINE Bad == {k \in 0 .. n : h[1 .. k] # LastOfByte(s, 1 .. k)}
  <2> SUFFICES ASSUME Bad # {} PROVE FALSE
    OBVIOUS
  <2>1. Bad \in SUBSET Nat
    OBVIOUS
  <2>2. PICK k \in Bad : \A j \in Bad : k <= j
    BY <2>1, LeastExists
  <2>3. CASE k = 0
    <3>1. 1 .. 0 = {}
      OBVIOUS
    <3>2. LastOfByte(s, {}) = {}
      BY DEF LastOfByte
    <3> QED BY <1>4, <2>2, <2>3, <3>1, <3>2
  <2>4. CASE k # 0
    <3>1. k \in 1 .. n /\ k - 1 \in 0 .. n /\ k - 1 < k
      BY <2>4
    <3>2. h[1 .. (k - 1)] = LastOfByte(s, 1 .. (k - 1))
      BY <2>2, <3>1
    <3>3. PICK I : I = 1 .. k
      OBVIOUS
    <3>4. I \subseteq 1 .. n /\ k \in I /\ \A i \in I : k >= i
      BY <3>1, <3>3
    <3>5. LastOfByte(s, I) = EnableWriteExit(LastOfByte(s, I \ {k}), s[k])
      BY <3>4, EnablingNext
    <3>6. I \ {k} = 1 .. (k - 1)
      BY <3>1, <3>3, UpTo
    <3> QED BY <1>5, <2>2, <3>1, <3>2, <3>3, <3>5, <3>6
  <2> QED BY <2>3, <2>4
<1> QED BY <1>2, <1>6

(* What concatenating sequences of numbers makes. *)
LEMMA Cat ==
  ASSUME NEW s \in Seq(Nat), NEW t \in Seq(Nat)
  PROVE  /\ s \o t \in Seq(Nat) /\ Len(s \o t) = Len(s) + Len(t)
         /\ \A i \in 1 .. Len(s) + Len(t) :
              (s \o t)[i] = IF i <= Len(s) THEN s[i] ELSE t[i - Len(s)]
BY ConcatProperties

(* The MSRs enable_mtrr_exiting goes through, in order. *)
LEMMA EnabledIs ==
  /\ Enabled(VarCount) \in Seq(Nat)
  /\ DOMAIN Enabled(VarCount) = 1 .. 12 + 2 * VarCount
  /\ \A k \in 1 .. 2 * VarCount :
       Enabled(VarCount)[12 + k] = IF k % 2 = 1 THEN PhysBase((k - 1) \div 2)
                                   ELSE PhysMask((k - 1) \div 2)
<1> DEFINE front == << DefType >> \o FixedMsrs
<1> DEFINE back  == [k \in 1 .. 2 * VarCount |->
                       IF k % 2 = 1 THEN PhysBase((k - 1) \div 2) ELSE PhysMask((k - 1) \div 2)]
<1>1. VarCount \in Nat /\ 2 * VarCount \in Nat
  BY HostMemoryAssumption
<1>2. front \in Seq(Nat) /\ Len(front) = 12
  <2>1. << DefType >> \in Seq(Nat) /\ Len(<< DefType >>) = 1
    BY DEF DefType
  <2>2. FixedMsrs \in Seq(Nat) /\ Len(FixedMsrs) = 11
    BY DEF FixedMsrs
  <2>3. PICK s \in Seq(Nat), t \in Seq(Nat) :
          s = << DefType >> /\ t = FixedMsrs /\ Len(s) = 1 /\ Len(t) = 11
    BY <2>1, <2>2
  <2>4. s \o t \in Seq(Nat) /\ Len(s \o t) = Len(s) + Len(t)
    BY Cat
  <2> QED BY <2>3, <2>4
<1>3. back \in Seq(Nat) /\ Len(back) = 2 * VarCount
  <2>1. \A k \in 1 .. 2 * VarCount :
          (IF k % 2 = 1 THEN PhysBase((k - 1) \div 2) ELSE PhysMask((k - 1) \div 2)) \in Nat
    <3> SUFFICES ASSUME NEW k \in 1 .. 2 * VarCount
                 PROVE  PhysBase((k - 1) \div 2) \in Nat /\ PhysMask((k - 1) \div 2) \in Nat
      OBVIOUS
    <3>1. (k - 1) \div 2 \in Nat
      BY <1>1
    <3> QED BY <3>1 DEF PhysBase, PhysMask
  <2>2. back \in [1 .. 2 * VarCount -> Nat]
    BY <2>1
  <2> QED BY <1>1, <2>2
<1> HIDE DEF front, back
<1>4. /\ front \o back \in Seq(Nat)
      /\ Len(front \o back) = 12 + 2 * VarCount
      /\ \A i \in 1 .. 12 + 2 * VarCount :
           (front \o back)[i] = IF i <= 12 THEN front[i] ELSE back[i - 12]
  <2>1. PICK s \in Seq(Nat), t \in Seq(Nat) :
          s = front /\ t = back /\ Len(s) = 12 /\ Len(t) = 2 * VarCount
    BY <1>2, <1>3
  <2>2. /\ s \o t \in Seq(Nat) /\ Len(s \o t) = Len(s) + Len(t)
        /\ \A i \in 1 .. Len(s) + Len(t) :
             (s \o t)[i] = IF i <= Len(s) THEN s[i] ELSE t[i - Len(s)]
    BY Cat
  <2> QED BY <2>1, <2>2
<1>5. Enabled(VarCount) = front \o back
  BY DEF Enabled, front, back
<1>6. DOMAIN (front \o back) = 1 .. 12 + 2 * VarCount
  BY <1>1, <1>4
<1>7. ASSUME NEW k \in 1 .. 2 * VarCount
      PROVE  (front \o back)[12 + k] = IF k % 2 = 1 THEN PhysBase((k - 1) \div 2)
                                       ELSE PhysMask((k - 1) \div 2)
  <2>1. 12 + k \in 1 .. 12 + 2 * VarCount /\ ~(12 + k <= 12) /\ (12 + k) - 12 = k
    BY <1>1
  <2>2. (front \o back)[12 + k] = back[k]
    BY <1>4, <2>1
  <2> QED BY <2>2 DEF back
<1> QED BY <1>4, <1>5, <1>6, <1>7

LEMMA BitmapIs ==
  ASSUME BuildBitmap
  PROVE  trapped' = LastOfByte(Enabled(VarCount), 1 .. 12 + 2 * VarCount)
<1>1. PICK n \in Nat : n = 12 + 2 * VarCount
  BY HostMemoryAssumption
<1>2. PICK s \in Seq(Nat) : s = Enabled(VarCount)
  BY EnabledIs
<1>3. DOMAIN s = 1 .. n /\ \A i \in 1 .. n : s[i] \in Nat
  BY <1>1, <1>2, EnabledIs
<1>4. FoldLeft(EnableWriteExit, {}, s) = LastOfByte(s, 1 .. n)
  BY <1>3, OnlyLastOfByteTrapped
<1> QED BY <1>1, <1>2, <1>4 DEF BuildBitmap

(* The mask of a variable range is enabled after its base, in one byte.    *)
LEMMA BaseUndone ==
  ASSUME NEW i \in Vars
  PROVE  PhysBase(i) \notin LastOfByte(Enabled(VarCount), 1 .. 12 + 2 * VarCount)
<1>1. PICK v \in Nat : v = VarCount
  BY HostMemoryAssumption
<1>2. PICK s : s = Enabled(VarCount)
  OBVIOUS
<1>3. i \in Nat /\ i < v
  BY <1>1 DEF Vars
<1>4. \A k \in 1 .. 2 * v : s[12 + k] = IF k % 2 = 1 THEN 512 + 2 * ((k - 1) \div 2)
                                        ELSE 513 + 2 * ((k - 1) \div 2)
  BY <1>1, <1>2, EnabledIs DEF PhysBase, PhysMask
<1>5. s[14 + 2 * i] = 513 + 2 * i
  <2>1. 2 * i + 2 \in 1 .. 2 * v /\ (2 * i + 2) % 2 # 1 /\ ((2 * i + 2) - 1) \div 2 = i
        /\ 12 + (2 * i + 2) = 14 + 2 * i
    BY <1>3
  <2> QED BY <1>4, <2>1
<1> SUFFICES ASSUME NEW j \in 1 .. 12 + 2 * v, s[j] = 512 + 2 * i,
                    \A k \in 1 .. 12 + 2 * v : k > j => s[k] \div 8 # s[j] \div 8
             PROVE  FALSE
  BY <1>1, <1>2 DEF LastOfByte, PhysBase
<1>6. 14 + 2 * i \in 1 .. 12 + 2 * v
  BY <1>3
<1>7. (513 + 2 * i) \div 8 = (512 + 2 * i) \div 8
  BY <1>3
<1>8. ~(14 + 2 * i > j)
  BY <1>5, <1>6, <1>7
<1>9. j # 14 + 2 * i
  BY <1>3, <1>5
<1>10. PICK k \in 1 .. 2 * v : j = 12 + k /\ k > 2 * i + 2
  <2>1. j - 12 \in 1 .. 2 * v /\ j = 12 + (j - 12) /\ j - 12 > 2 * i + 2
    BY <1>3, <1>8, <1>9
  <2> QED BY <2>1
<1>11. (k - 1) \div 2 \in Nat /\ (k - 1) \div 2 > i
  BY <1>3, <1>10
<1>12. s[j] > 512 + 2 * i
  BY <1>3, <1>4, <1>10, <1>11
<1> QED BY <1>3, <1>12

(* The bitmap is cleared, or as enable_mtrr_exiting left it: it is built once. *)
Bitmap == trapped \in {{}, LastOfByte(Enabled(VarCount), 1 .. 12 + 2 * VarCount)}

LEMMA BitmapStep == Bitmap /\ [Next]_vars => Bitmap'
<1> SUFFICES ASSUME Bitmap, [Next]_vars PROVE Bitmap'
  OBVIOUS
<1>1. CASE BuildBitmap
  BY <1>1, BitmapIs DEF Bitmap
<1>2. CASE trapped' = trapped
  BY <1>2 DEF Bitmap
<1>3. BuildBitmap \/ trapped' = trapped
  BY DEF Next, BuildStep, OtherBootStep, CoreStepOfDriver, AskStep, SplitStep, GuestStep,
         BuildHost, BuildEpt, Split, GuestMaps, WriteMtrr, HandleMtrrWrite,
         vars, hostVars, typeVars
<1> QED BY <1>1, <1>2, <1>3

(* However many variable ranges the machine has, no write of the base of   *)
(* one ever exits: the mask is enabled right after it, in the same byte of *)
(* the bitmap (vmx.inl:290).                                               *)
THEOREM BasesNeverTrapped == Spec => [](\A i \in Vars : PhysBase(i) \notin trapped)
<1>1. Init => Bitmap
  BY DEF Init, HostInit, Bitmap
<1>2. Bitmap => \A i \in Vars : PhysBase(i) \notin trapped
  BY BaseUndone DEF Bitmap
<1> QED BY <1>1, <1>2, BitmapStep, PTL DEF Spec

-----------------------------------------------------------------------------
(* The types of the variables. *)
LEMMA LastAreEnabled ==
  LastOfByte(Enabled(VarCount), 1 .. 12 + 2 * VarCount) \subseteq MtrrMsrs
BY EnabledIs DEF LastOfByte, MtrrMsrs, ToSet

LEMMA ChangeTyped ==
  ASSUME changes \in 0 .. MaxChanges, Change PROVE changes' \in 0 .. MaxChanges
BY HostMemoryAssumption DEF Change

LEMMA HostInitTyped == HostInit => HostTypeOK
<1> SUFFICES ASSUME HostInit PROVE HostTypeOK
  OBVIOUS
<1>1. HostInv
  BY HostInitInv
<1>2. 0 \in 0 .. MaxChanges
  BY HostMemoryAssumption
<1> QED BY <1>1, <1>2 DEF HostInit, HostTypeOK, HostInv, MemType, TypesKept

(* HostTypeOK without what HostInv says of memory and memory types. *)
RestTyped ==
  /\ host \in {NoFrame, Pool} /\ map \in {NoFrame} \cup (Half .. Fanout - 1)
  /\ taken \subseteq Half .. Fanout - 1
  /\ eptMade \in BOOLEAN /\ trapped \subseteq MtrrMsrs /\ missed \in BOOLEAN
  /\ killed \subseteq Nat /\ changes \in 0 .. MaxChanges

LEMMA RestSuffices ==
  /\ HostTypeOK => RestTyped
  /\ HostInv /\ RestTyped => HostTypeOK
BY DEF HostTypeOK, HostInv, MemType, TypesKept, RestTyped

LEMMA BuildHostTyped == ASSUME HostInv, RestTyped, BuildHost PROVE RestTyped'
<1>1. UNCHANGED << eptMade, trapped, missed, killed, changes >>
  BY DEF BuildHost, typeVars
<1>2. CASE Built.ok
  <2>1. host' = Pool /\ map' = MapSlot
        /\ taken' = {s \in Half .. Fanout - 1 : mem[System][s].present}
    BY <1>2 DEF BuildHost
  <2>2. MapSlot \in Half .. Fanout - 1
    BY <1>2, BuiltIs, TablesAre DEF HostInv
  <2> QED BY <1>1, <2>1, <2>2 DEF RestTyped
<1>3. CASE ~Built.ok
  BY <1>1, <1>3 DEF RestTyped, BuildHost
<1> QED BY <1>2, <1>3

LEMMA GuestStepTyped == ASSUME RestTyped, GuestStep PROVE RestTyped'
<1>1. CASE GuestMaps
  BY <1>1, ChangeTyped DEF RestTyped, GuestMaps, typeVars
<1>2. ASSUME NEW msr, NEW c \in Cores, WriteMtrr(msr, Launched(c)) PROVE RestTyped'
  <2>1. missed' \in BOOLEAN /\ changes' \in 0 .. MaxChanges
    BY <1>2, ChangeTyped DEF WriteMtrr, RestTyped, Launched
  <2> QED BY <1>2, <2>1 DEF WriteMtrr, RestTyped, tableVars
<1>3. ASSUME NEW msr, NEW c \in Cores, HandleMtrrWrite(msr, c) PROVE RestTyped'
  <2>1. killed' \subseteq Nat /\ changes' \in 0 .. MaxChanges
    BY <1>3, ChangeTyped, CoresAreNat DEF HandleMtrrWrite, RestTyped
  <2> QED BY <1>3, <2>1 DEF HandleMtrrWrite, RestTyped, tableVars
<1> QED BY <1>1, <1>2, <1>3 DEF GuestStep

LEMMA DriverTypes == HostInv /\ RestTyped /\ [Next]_vars => RestTyped'
<1> SUFFICES ASSUME HostInv, RestTyped, [Next]_vars PROVE RestTyped'
  OBVIOUS
<1>1. CASE BuildHost
  BY <1>1, BuildHostTyped
<1>2. CASE BuildBitmap
  BY <1>2, BitmapIs, LastAreEnabled DEF RestTyped, BuildBitmap, tableVars
<1>3. CASE BuildEpt
  BY <1>3 DEF RestTyped, BuildEpt, tableVars
<1>4. CASE \E p \in Pages : Split(p)
  BY <1>4 DEF RestTyped, Split, tableVars
<1>5. CASE GuestStep
  BY <1>5, GuestStepTyped
<1>6. CASE UNCHANGED hostVars
  BY <1>6 DEF RestTyped, hostVars, tableVars, typeVars
<1> QED BY <1>1, <1>2, <1>3, <1>4, <1>5, <1>6
        DEF Next, BuildStep, OtherBootStep, CoreStepOfDriver, AskStep, SplitStep, vars

(* The variables of the driver and its memory hold what the program's can: *)
(* the host's PML4 is the pool's first frame, the map lies in its kernel   *)
(* half, and the bitmap has none but MTRRs, for any number of cores, slots *)
(* and ranges.                                                             *)
THEOREM DriverTyped == Spec => []TypeOK
<1>1. Init => RestTyped
  BY HostInitTyped, RestSuffices DEF Init
<1>2. DriverInv /\ RestTyped /\ [Next]_vars => RestTyped'
  BY DriverTypes DEF DriverInv
<1>3. DriverInv /\ RestTyped => HostTypeOK
  BY RestSuffices DEF DriverInv
<1>4. StartTypeOK /\ HostTypeOK => TypeOK
  BY DEF TypeOK
<1>5. Spec => []StartTypeOK
  BY DriverStarts, PTL
<1> QED BY <1>1, <1>2, <1>3, <1>4, <1>5, DriverAlways, PTL DEF Spec
=============================================================================

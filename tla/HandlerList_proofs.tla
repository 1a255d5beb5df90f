------------------------- MODULE HandlerList_proofs -------------------------
(***************************************************************************)
(* The list of handlers for any number of slots, cores and handlers, when  *)
(* no handler is added at the end once one was removed.                    *)
(***************************************************************************)
EXTENDS HandlerList, TLAPS, WellFoundedInduction, FiniteSetTheorems

(* A nonempty set of numbers has a least one. *)
LEMMA LeastIn ==
  ASSUME NEW S \in SUBSET Nat, S # {}
  PROVE  \E m \in S : \A n \in S : m <= n
<1> DEFINE R == OpToRel(<, Nat)
<1>1. IsWellFoundedOn(R, Nat)
  BY NatLessThanWellFounded
<1> HIDE DEF R
<1>2. PICK m \in S : \A n \in S : << n, m >> \notin R
  BY <1>1, WFMin
<1>3. \A n \in S : ~(n < m)
  BY <1>2 DEF R, OpToRel
<1>4. \A n \in S : m <= n
  <2> SUFFICES ASSUME NEW n \in S PROVE m <= n
    OBVIOUS
  <2>1. m \in Nat /\ n \in Nat
    BY <1>2
  <2> QED BY <1>3, <2>1
<1> QED BY <1>2, <1>4

(* What Chain is made by: f is the chain for as far as it goes.            *)
Chained(n, f) ==
  /\ f = [k \in 0 .. n |-> f[k]]
  /\ f[0] = {start} \ {-1}
  /\ \A k \in 1 .. n : f[k] = f[k - 1] \cup ({link[m] : m \in f[k - 1]} \ {-1})

LEMMA ChainedExists == \A n \in Nat : \E f : Chained(n, f)
<1> DEFINE Bad == {n \in Nat : ~\E f : Chained(n, f)}
<1> SUFFICES ASSUME Bad # {} PROVE FALSE
  OBVIOUS
<1>1. PICK n \in Bad : \A m \in Bad : n <= m
  BY LeastIn
<1>2. n \in Nat
  OBVIOUS
<1>3. n # 0
  <2> DEFINE f == [k \in 0 .. 0 |-> {start} \ {-1}]
  <2>1. Chained(0, f)
    BY DEF Chained
  <2> QED BY <2>1
<1>4. n - 1 \in Nat /\ n - 1 \notin Bad
  BY <1>1, <1>2, <1>3
<1>5. PICK f : Chained(n - 1, f)
  BY <1>4
<1> DEFINE g == [k \in 0 .. n |-> IF k < n THEN f[k]
                   ELSE f[n - 1] \cup ({link[m] : m \in f[n - 1]} \ {-1})]
<1>6. g = [k \in 0 .. n |-> g[k]] /\ g[0] = {start} \ {-1}
  BY <1>2, <1>3, <1>5 DEF Chained
<1>7. \A k \in 1 .. n : g[k] = g[k - 1] \cup ({link[m] : m \in g[k - 1]} \ {-1})
  <2> SUFFICES ASSUME NEW k \in 1 .. n
               PROVE  g[k] = g[k - 1] \cup ({link[m] : m \in g[k - 1]} \ {-1})
    OBVIOUS
  <2>1. g[k - 1] = f[k - 1]
    BY <1>2
  <2>2. CASE k < n
    <3>1. g[k] = f[k] /\ k \in 1 .. n - 1
      BY <1>2, <2>2
    <3> QED BY <2>1, <3>1, <1>5 DEF Chained
  <2>3. CASE k = n
    <3>1. g[k] = f[n - 1] \cup ({link[m] : m \in f[n - 1]} \ {-1})
      BY <1>2, <2>3
    <3>2. g[k - 1] = f[n - 1]
      BY <2>1, <2>3
    <3> HIDE DEF g
    <3> QED BY <3>1, <3>2
  <2>4. k < n \/ k = n
    BY <1>2
  <2> QED BY <2>2, <2>3, <2>4
<1>8. Chained(n, g)
  BY <1>6, <1>7 DEF Chained
<1> QED BY <1>1, <1>8

LEMMA ChainIs == Chained(Limit, Chain)
<1> DEFINE F(f) == [k \in 0 .. Limit |->
      IF k = 0 THEN {start} \ {-1}
      ELSE f[k - 1] \cup ({link[n] : n \in f[k - 1]} \ {-1})]
<1>1. PICK f : Chained(Limit, f)
  BY ChainedExists, ListAssumption
<1>2. \A k \in 0 .. Limit : f[k] = F(f)[k]
  <2> SUFFICES ASSUME NEW k \in 0 .. Limit PROVE f[k] = F(f)[k]
    OBVIOUS
  <2>1. k = 0 \/ k \in 1 .. Limit
    BY ListAssumption
  <2> QED BY <1>1, <2>1 DEF Chained
<1>3. f = F(f)
  BY <1>1, <1>2 DEF Chained
<1>4. Chain = CHOOSE g : g = F(g)
  BY DEF Chain
<1>5. Chain = F(Chain)
  BY <1>3, <1>4
<1>6. Chain[0] = {start} \ {-1}
  BY <1>5, ListAssumption
<1>7. \A k \in 1 .. Limit : Chain[k] = Chain[k - 1] \cup ({link[n] : n \in Chain[k - 1]} \ {-1})
  BY <1>5, ListAssumption
<1>8. Chain = [k \in 0 .. Limit |-> Chain[k]]
  BY <1>5
<1> QED BY <1>6, <1>7, <1>8 DEF Chained

LEMMA ChainInSlots ==
  ASSUME start \in Links, link \in [Slots -> Links]
  PROVE  \A k \in 0 .. Limit : Chain[k] \in SUBSET Slots
<1> DEFINE Bad == {k \in 0 .. Limit : Chain[k] \notin SUBSET Slots}
<1> SUFFICES ASSUME Bad # {} PROVE FALSE
  OBVIOUS
<1>1. Limit \in Nat /\ Bad \in SUBSET Nat
  BY ListAssumption
<1>2. PICK k \in Bad : \A j \in Bad : k <= j
  BY <1>1, LeastIn
<1>3. CASE k = 0
  BY <1>3, ChainIs DEF Chained, Links
<1>4. CASE k # 0
  <2>1. k \in 1 .. Limit /\ k - 1 \in 0 .. Limit /\ k - 1 < k
    BY <1>1, <1>4
  <2>2. Chain[k - 1] \in SUBSET Slots
    BY <1>1, <1>2, <2>1
  <2>3. Chain[k] = Chain[k - 1] \cup ({link[m] : m \in Chain[k - 1]} \ {-1})
    BY <2>1, ChainIs DEF Chained
  <2>4. \A m \in Chain[k - 1] : link[m] \in Slots \cup {-1}
    BY <2>2 DEF Links
  <2> QED BY <2>2, <2>3, <2>4
<1> QED BY <1>3, <1>4

(* The chain stays within any set that holds the start and every link. *)
LEMMA ChainWithin ==
  ASSUME NEW C, start \in C \cup {-1}, \A m \in C : link[m] \in C \cup {-1}
  PROVE  \A k \in 0 .. Limit : Chain[k] \subseteq C
<1> DEFINE Bad == {k \in 0 .. Limit : ~(Chain[k] \subseteq C)}
<1> SUFFICES ASSUME Bad # {} PROVE FALSE
  OBVIOUS
<1>1. Limit \in Nat /\ Bad \in SUBSET Nat
  BY ListAssumption
<1>2. PICK k \in Bad : \A j \in Bad : k <= j
  BY <1>1, LeastIn
<1>3. CASE k = 0
  BY <1>3, ChainIs DEF Chained
<1>4. CASE k # 0
  <2>1. k \in 1 .. Limit /\ k - 1 \in 0 .. Limit /\ k - 1 < k
    BY <1>1, <1>4
  <2>2. Chain[k - 1] \subseteq C
    BY <1>1, <1>2, <2>1
  <2>3. Chain[k] = Chain[k - 1] \cup ({link[m] : m \in Chain[k - 1]} \ {-1})
    BY <2>1, ChainIs DEF Chained
  <2> QED BY <2>2, <2>3
<1> QED BY <1>3, <1>4

(* A step of the chain that adds nothing is its last that could; and each  *)
(* other adds a slot.                                                      *)
Closed(C) == \A m \in C : link[m] \in C \cup {-1}

LEMMA ChainGrows ==
  ASSUME start \in Links, link \in [Slots -> Links]
  PROVE  \A k \in 0 .. Limit : Closed(Chain[k]) \/ Cardinality(Chain[k]) >= k
<1> DEFINE Bad == {k \in 0 .. Limit : ~(Closed(Chain[k]) \/ Cardinality(Chain[k]) >= k)}
<1> SUFFICES ASSUME Bad # {} PROVE FALSE
  OBVIOUS
<1>1. Limit \in Nat /\ Bad \in SUBSET Nat
  BY ListAssumption
<1>2. PICK k \in Bad : \A j \in Bad : k <= j
  BY <1>1, LeastIn
<1>3. \A j \in 0 .. Limit : IsFiniteSet(Chain[j]) /\ Cardinality(Chain[j]) \in Nat
  <2> SUFFICES ASSUME NEW j \in 0 .. Limit
               PROVE  IsFiniteSet(Chain[j]) /\ Cardinality(Chain[j]) \in Nat
    OBVIOUS
  <2>1. IsFiniteSet(0 .. Limit - 1)
    BY <1>1, FS_Interval
  <2>2. Chain[j] \in SUBSET (0 .. Limit - 1)
    BY ChainInSlots DEF Slots
  <2>3. IsFiniteSet(Chain[j])
    BY <2>1, <2>2, FS_Subset
  <2> QED BY <2>3, FS_CardinalityType
<1>4. k # 0
  BY <1>1, <1>3
<1>5. k \in 1 .. Limit /\ k - 1 \in 0 .. Limit /\ k - 1 < k
  BY <1>1, <1>4
<1>6. Closed(Chain[k - 1]) \/ Cardinality(Chain[k - 1]) >= k - 1
  BY <1>1, <1>2, <1>5
<1>7. Chain[k] = Chain[k - 1] \cup ({link[m] : m \in Chain[k - 1]} \ {-1})
  BY <1>5, ChainIs DEF Chained
<1>8. CASE Closed(Chain[k - 1])
  <2>1. Chain[k] = Chain[k - 1]
    BY <1>7, <1>8 DEF Closed
  <2> QED BY <1>2, <1>8, <2>1
<1>9. CASE ~Closed(Chain[k - 1])
  <2>1. PICK m \in Chain[k - 1] : link[m] \notin Chain[k - 1] \cup {-1}
    BY <1>9 DEF Closed
  <2>2. link[m] \in Chain[k]
    BY <1>7, <2>1
  <2> DEFINE more == Chain[k - 1] \cup {link[m]}
  <2>3. more \in SUBSET Chain[k]
    BY <1>7, <2>2
  <2>4. IsFiniteSet(more) /\ Cardinality(more) = Cardinality(Chain[k - 1]) + 1
    <3>1. IsFiniteSet(Chain[k - 1]) /\ link[m] \notin Chain[k - 1]
      BY <1>3, <1>5, <2>1
    <3> QED BY <3>1, FS_AddElement
  <2>5. Cardinality(more) <= Cardinality(Chain[k])
    BY <1>3, <1>5, <2>3, FS_Subset
  <2> HIDE DEF more
  <2>6. Cardinality(Chain[k - 1]) \in Nat /\ Cardinality(Chain[k]) \in Nat
    BY <1>3, <1>5
  <2>7. Cardinality(Chain[k]) >= k
    BY <1>6, <1>9, <2>4, <2>5, <2>6, <1>5, <1>1
  <2> QED BY <1>2, <2>7
<1> QED BY <1>8, <1>9

(* So the chain as long as there are slots is all that can be reached.     *)
LEMMA ListedClosed ==
  ASSUME start \in Links, link \in [Slots -> Links]
  PROVE  /\ Listed \subseteq Slots
         /\ start \in Listed \cup {-1}
         /\ \A m \in Listed : link[m] \in Listed \cup {-1}
<1>1. Limit \in Nat /\ Limit \in 0 .. Limit /\ 0 \in 0 .. Limit
  BY ListAssumption
<1>2. Listed \in SUBSET Slots
  BY <1>1, ChainInSlots DEF Listed
<1>3. Closed(Listed)
  <2>1. CASE Cardinality(Listed) >= Limit
    <3>1. IsFiniteSet(0 .. Limit - 1) /\ Cardinality(0 .. Limit - 1) = Limit
      <4>1. IsFiniteSet(0 .. Limit - 1) /\ Cardinality(0 .. Limit - 1) =
              IF 0 > Limit - 1 THEN 0 ELSE (Limit - 1) - 0 + 1
        BY <1>1, FS_Interval
      <4> QED BY <4>1, <1>1, ListAssumption
    <3>2. IsFiniteSet(Slots) /\ Cardinality(Slots) = Limit
      BY <3>1 DEF Slots
    <3>3. IsFiniteSet(Listed) /\ Cardinality(Listed) <= Limit
      BY <1>2, <3>2, FS_Subset
    <3>4. Cardinality(Listed) \in Nat
      BY <3>3, FS_CardinalityType
    <3>5. Cardinality(Slots) = Cardinality(Listed)
      BY <3>2, <3>3, <3>4, <2>1, <1>1
    <3>6. Slots = Listed
      BY <1>2, <3>2, <3>5, FS_Subset
    <3> QED BY <3>6 DEF Closed, Links
  <2> QED BY <1>1, <2>1, ChainGrows DEF Listed
<1>4. start \in Listed \cup {-1}
  <2> DEFINE Bad == {k \in 0 .. Limit : start \notin Chain[k] \cup {-1}}
  <2>1. Bad = {}
    <3> SUFFICES ASSUME Bad # {} PROVE FALSE
      OBVIOUS
    <3>1. PICK k \in Bad : \A j \in Bad : k <= j
      <4>1. Bad \in SUBSET Nat
        OBVIOUS
      <4> QED BY <4>1, LeastIn
    <3>2. k # 0
      BY ChainIs DEF Chained
    <3>3. k \in 1 .. Limit /\ k - 1 \in 0 .. Limit /\ k - 1 < k
      BY <1>1, <3>2
    <3>4. start \in Chain[k - 1] \cup {-1}
      BY <3>1, <3>3
    <3> QED BY <3>3, <3>4, ChainIs DEF Chained
  <2> QED BY <1>1, <2>1 DEF Listed
<1> QED BY <1>2, <1>3, <1>4 DEF Closed

-----------------------------------------------------------------------------
(***************************************************************************)
(* The inductive invariant.  The slots on the list stand in an order, the  *)
(* positions pos; a link leads to the next one.  A slot that was taken off *)
(* keeps a position too: from it, links lead to every slot of the list     *)
(* that stands there or later, which is why a walker that is on it when it *)
(* is removed, or used again, misses nothing that stays.                   *)
(***************************************************************************)
OnList == {n \in Slots : IF n = op.slot /\ op.pc # "idle" THEN op.pc = "unlink"
                         ELSE handlers[n] # Null}

Ahead(pos, n, m) == link[n] # -1 /\ pos[m] >= pos[link[n]]

Threaded(pos) ==
  /\ pos \in [Slots -> Int]
  /\ \A m, n \in OnList : pos[m] = pos[n] => m = n
  /\ start = -1 => OnList = {}
  /\ start # -1 => start \in OnList /\ \A m \in OnList : pos[m] >= pos[start]
  /\ \A n \in OnList : link[n] # -1 => link[n] \in OnList /\ pos[link[n]] > pos[n]
  /\ \A n, m \in OnList : pos[m] > pos[n] => Ahead(pos, n, m)
  /\ \A n \in Slots \ OnList, m \in OnList : pos[m] >= pos[n] => Ahead(pos, n, m)

(* Each slot but the first has one before it, and there is a last one.     *)
Ended ==
  /\ \A n \in OnList : n = start \/ \E m \in OnList : link[m] = n
  /\ OnList # {} => \E n \in OnList : link[n] = -1

(* The call under way and the slots; what add_handler returned for.        *)
Book ==
  /\ op.pc \in {"linkFront", "startFront", "linkEnd"} => handlers[op.slot] # Null
  /\ op.pc = "unlink" => handlers[op.slot] = Null /\ removed
  /\ op.pc = "startFront" => link[op.slot] = start
  /\ op.pc = "linkEnd" => ~removed
  /\ \A h \in Handlers : h \in added <=> \E n \in OnList : handlers[n] = h

(* Until a handler is removed, what is not on the list leads nowhere and   *)
(* nobody is there.                                                        *)
Fresh ==
  ~removed =>
    /\ \A n \in Slots \ OnList : link[n] = -1 \/ (n = op.slot /\ op.pc = "startFront")
    /\ \A c \in Cores : pc[c] \in {"call", "advance"} => at[c] \in OnList \cup {-1}

(* A handler the pass owes a call is still ahead of the walker.            *)
Owed(pos, c) ==
  \A h \in due[c] \ called[c] :
    \E s \in OnList :
      /\ handlers[s] = h
      /\ pc[c] = "call" => at[c] # -1 /\ pos[s] >= pos[at[c]]
      /\ pc[c] = "advance" => at[c] # -1 /\ Ahead(pos, at[c], s)

Walk(c) ==
  /\ pc[c] = "advance" => at[c] # -1
  /\ pc[c] \in {"call", "advance"} /\ taker[c] # Null /\ pass[c] >= since[c]
       => taker[c] \notin called[c]
  /\ pc[c] = "killed" => taker[c] \notin due[c]

ListInv ==
  /\ TypeOK /\ Book /\ Fresh /\ Ended
  /\ \A c \in Cores : Walk(c)
  /\ \E pos \in [Slots -> Int] :
       Threaded(pos) /\ \A c \in Cores : pc[c] \in {"call", "advance"} => Owed(pos, c)

(* The chain runs through exactly the slots that are on the list.          *)
LEMMA ListedIsOnList ==
  ASSUME TypeOK, NEW pos, Threaded(pos), Ended
  PROVE  Listed = OnList
<1>1. start \in OnList \cup {-1} /\ \A m \in OnList : link[m] \in OnList \cup {-1}
  BY DEF Threaded
<1>2. Limit \in 0 .. Limit
  BY ListAssumption
<1>3. Listed \subseteq OnList
  BY <1>1, <1>2, ChainWithin DEF Listed
<1>4. start \in Listed \cup {-1} /\ \A m \in Listed : link[m] \in Listed \cup {-1}
  BY ListedClosed DEF TypeOK
<1> DEFINE Missed == {i \in Nat : \E n \in OnList \ Listed : i = pos[n] - pos[start]}
<1>5. ASSUME NEW n \in OnList \ Listed PROVE FALSE
  <2>1. start # -1 /\ start \in OnList /\ start \in Listed
    BY <1>4, <1>5 DEF Threaded
  <2>2. \A m \in OnList : pos[m] \in Int
    BY DEF Threaded, OnList
  <2>3. \A m \in OnList : pos[m] - pos[start] \in Nat
    BY <2>1, <2>2 DEF Threaded
  <2>4. Missed \in SUBSET Nat /\ Missed # {}
    BY <2>3, <1>5
  <2>5. PICK i \in Missed : \A j \in Missed : i <= j
    BY <2>4, LeastIn
  <2>6. PICK x \in OnList \ Listed : i = pos[x] - pos[start]
    OBVIOUS
  <2>7. PICK m \in OnList : link[m] = x
    BY <2>1, <2>6 DEF Ended
  <2>8. pos[x] > pos[m]
    <3>1. link[m] # -1
      BY <2>6, <2>7 DEF OnList, Slots
    <3> QED BY <2>7, <3>1 DEF Threaded
  <2>9. m \notin Listed
    BY <1>4, <2>6, <2>7 DEF OnList, Slots
  <2>10. pos[m] - pos[start] \in Missed
    BY <2>3, <2>7, <2>9
  <2>11. i <= pos[m] - pos[start]
    BY <2>5, <2>10
  <2> HIDE DEF Missed
  <2> QED BY <2>11, <2>8, <2>6, <2>2, <2>1, <2>7
<1> QED BY <1>3, <1>5

(* Finitely many positions have one before and one after them all.         *)
Between(lo, hi, pos, k) == \A n \in 0 .. k - 1 : lo < pos[n] /\ pos[n] < hi

LEMMA Bounds ==
  ASSUME NEW pos \in [Slots -> Int]
  PROVE  \E lo, hi \in Int : \A n \in Slots : lo < pos[n] /\ pos[n] < hi
<1> DEFINE Bounded(k) == \E lo, hi \in Int : Between(lo, hi, pos, k)
           Bad == {k \in 0 .. Limit : ~Bounded(k)}
<1>1. Limit \in Nat
  BY ListAssumption
<1>2. Bounded(0)
  BY DEF Between
<1>3. ASSUME NEW k \in 1 .. Limit, Bounded(k - 1) PROVE Bounded(k)
  <2>1. PICK lo, hi \in Int : Between(lo, hi, pos, k - 1)
    BY <1>3
  <2>2. PICK q \in Int : q = pos[k - 1]
    BY <1>1 DEF Slots
  <2>3. \E a \in Int : a <= lo /\ a < q
    <3>1. CASE lo < q
      BY <3>1
    <3>2. CASE ~(lo < q)
      <4>1. q - 1 \in Int /\ q - 1 <= lo /\ q - 1 < q
        BY <3>2
      <4> QED BY <4>1
    <3> QED BY <3>1, <3>2
  <2>4. \E b \in Int : hi <= b /\ q < b
    <3>1. CASE q < hi
      BY <3>1
    <3>2. CASE ~(q < hi)
      <4>1. q + 1 \in Int /\ hi <= q + 1 /\ q < q + 1
        BY <3>2
      <4> QED BY <4>1
    <3> QED BY <3>1, <3>2
  <2>5. PICK a \in Int, b \in Int : a <= lo /\ a < q /\ hi <= b /\ q < b
    BY <2>3, <2>4
  <2>6. \A n \in 0 .. k - 1 : a < pos[n] /\ pos[n] < b
    <3> SUFFICES ASSUME NEW n \in 0 .. k - 1 PROVE a < pos[n] /\ pos[n] < b
      OBVIOUS
    <3>1. n \in Slots /\ (n = k - 1 \/ n \in 0 .. (k - 1) - 1)
      BY <1>1 DEF Slots
    <3>2. PICK r \in Int : r = pos[n]
      BY <3>1
    <3>3. CASE n = k - 1
      BY <3>3, <2>2, <2>5
    <3>4. CASE n \in 0 .. (k - 1) - 1
      <4>1. lo < r /\ r < hi
        BY <2>1, <3>2, <3>4 DEF Between
      <4> QED BY <4>1, <3>2, <2>5
    <3> QED BY <3>1, <3>3, <3>4
  <2>7. Between(a, b, pos, k)
    BY <2>6 DEF Between
  <2> QED BY <2>7
<1> HIDE DEF Bounded
<1>4. Bad = {}
  <2> SUFFICES ASSUME Bad # {} PROVE FALSE
    OBVIOUS
  <2>1. PICK k \in Bad : \A j \in Bad : k <= j
    <3>1. Bad \in SUBSET Nat
      OBVIOUS
    <3> QED BY <3>1, LeastIn
  <2>2. k \in 1 .. Limit /\ k - 1 \in 0 .. Limit /\ k - 1 < k
    BY <1>1, <1>2
  <2>3. Bounded(k - 1)
    BY <2>1, <2>2
  <2> QED BY <2>2, <2>3, <1>3
<1>5. Bounded(Limit)
  BY <1>1, <1>4
<1> QED BY <1>5 DEF Slots, Bounded, Between

-----------------------------------------------------------------------------
(* The steps. *)
LEMMA FirstIs ==
  ASSUME NEW S \in SUBSET Slots, S # {}
  PROVE  First(S) \in S /\ \A m \in S : First(S) <= m
<1>1. S \in SUBSET Nat
  BY ListAssumption DEF Slots
<1>2. \E n \in S : \A m \in S : n <= m
  BY <1>1, LeastIn
<1> QED BY <1>2 DEF First

LEMMA LastIs ==
  ASSUME NEW S \in SUBSET Slots, S # {}
  PROVE  Last(S) \in S
<1>1. Limit \in Nat
  BY ListAssumption
<1> DEFINE Down == {i \in Nat : \E n \in S : i = Limit - n}
<1>2. \A n \in S : n \in Nat /\ Limit - n \in Nat
  BY <1>1 DEF Slots
<1>3. Down # {}
  BY <1>2
<1>4. PICK i \in Down : \A j \in Down : i <= j
  BY <1>3, LeastIn
<1>5. PICK n \in S : i = Limit - n
  OBVIOUS
<1>6. \A m \in S : n >= m
  <2> SUFFICES ASSUME NEW m \in S PROVE n >= m
    OBVIOUS
  <2>1. Limit - m \in Down
    BY <1>2
  <2>2. i <= Limit - m
    BY <1>4, <2>1
  <2> HIDE DEF Down
  <2> QED BY <2>2, <1>5, <1>2, <1>1
<1> QED BY <1>6 DEF Last

(* A slot that is claimed was free, and is not on the list yet.            *)
LEMMA ClaimKeeps ==
  ASSUME ListInv, NEW slot \in Slots, handlers[slot] = Null,
         NEW next \in {"linkFront", "linkEnd"}, ClaimSlot(next, slot),
         next = "linkEnd" => ~removed
  PROVE  ListInv'
<1>1. PICK h \in Handlers : handlers' = [handlers EXCEPT ![slot] = h]
  BY DEF ClaimSlot
<1>2. /\ op.pc = "idle" /\ ops < MaxOps /\ ops' = ops + 1
      /\ op' = [pc |-> next, slot |-> slot]
      /\ UNCHANGED << link, start, removed, added, pc, at, pass, taker, since, due, called >>
  BY DEF ClaimSlot, Start, walks
<1>3. TypeOK'
  BY <1>1, <1>2, ListAssumption DEF ListInv, TypeOK
<1>4. OnList' = OnList /\ slot \notin OnList
  BY <1>1, <1>2 DEF OnList, ListInv, TypeOK
<1>5. \A n \in OnList : handlers'[n] = handlers[n]
  BY <1>1, <1>4 DEF OnList, ListInv, TypeOK
<1>6. Book'
  <2>1. h # Null
    BY <1>1, ListAssumption
  <2>3. handlers'[op'.slot] # Null
    BY <1>1, <1>2, <2>1 DEF ListInv, TypeOK
  <2>4. op'.pc \in {"linkFront", "linkEnd"} /\ (op'.pc = "linkEnd" => ~removed')
    BY <1>2
  <2>5. \A g \in Handlers : g \in added' <=> \E n \in OnList' : handlers'[n] = g
    BY <1>2, <1>4, <1>5 DEF ListInv, Book
  <2> QED BY <2>3, <2>4, <2>5 DEF Book
<1>7. Fresh'
  BY <1>2, <1>4 DEF ListInv, Fresh
<1>8. Ended'
  BY <1>2, <1>4 DEF ListInv, Ended
<1>9. \A c \in Cores : Walk(c)'
  BY <1>2 DEF ListInv, Walk
<1>10. PICK pos \in [Slots -> Int] :
         Threaded(pos) /\ \A c \in Cores : pc[c] \in {"call", "advance"} => Owed(pos, c)
  BY DEF ListInv
<1>11. Threaded(pos)'
  BY <1>2, <1>4, <1>10 DEF Threaded, Ahead
<1>12. ASSUME NEW c \in Cores, pc'[c] \in {"call", "advance"} PROVE Owed(pos, c)'
  BY <1>2, <1>4, <1>5, <1>10, <1>12 DEF Owed, Ahead
<1> QED BY <1>3, <1>6, <1>7, <1>8, <1>9, <1>10, <1>11, <1>12 DEF ListInv

LEMMA LinkFrontKeeps ==
  ASSUME ListInv, LinkFront
  PROVE  ListInv'
<1>0. PICK slot \in Slots : slot = op.slot
  BY DEF ListInv, TypeOK
<1>1. /\ op.pc = "linkFront" /\ slot = op.slot
      /\ link' = [link EXCEPT ![slot] = start]
      /\ op' = [pc |-> "startFront", slot |-> slot]
      /\ UNCHANGED << handlers, start, ops, removed, added >>
      /\ UNCHANGED << pc, at, pass, taker, since, due, called >>
  BY <1>0 DEF LinkFront, walks, ListInv, TypeOK
<1>2. TypeOK'
  BY <1>1 DEF ListInv, TypeOK
<1>3. OnList' = OnList /\ slot \notin OnList
  BY <1>1 DEF OnList
<1>4. \A n \in Slots : n # slot => link'[n] = link[n]
  BY <1>1 DEF ListInv, TypeOK
<1>5. link'[slot] = start
  BY <1>1 DEF ListInv, TypeOK
<1>6. Book'
  BY <1>1, <1>3, <1>5 DEF ListInv, Book
<1>7. Fresh'
  BY <1>1, <1>3, <1>4 DEF ListInv, Fresh
<1>8. \A n \in OnList : link'[n] = link[n]
  BY <1>3, <1>4 DEF OnList
<1>9. Ended'
  BY <1>1, <1>3, <1>8 DEF ListInv, Ended
<1>10. \A c \in Cores : Walk(c)'
  BY <1>1 DEF ListInv, Walk
<1>11. PICK pos \in [Slots -> Int] :
         Threaded(pos) /\ \A c \in Cores : pc[c] \in {"call", "advance"} => Owed(pos, c)
  BY DEF ListInv
<1>12. \A m \in OnList : Ahead(pos, slot, m)'
  BY <1>1, <1>5, <1>11 DEF Threaded, Ahead
<1>13. \A n \in Slots, m \in OnList : n # slot /\ Ahead(pos, n, m) => Ahead(pos, n, m)'
  BY <1>4 DEF Ahead
<1>14. Threaded(pos)'
  <2>1. \A n, m \in OnList : pos[m] > pos[n] => Ahead(pos, n, m)'
    BY <1>3, <1>11, <1>13 DEF Threaded, OnList
  <2>2. \A n \in Slots \ OnList, m \in OnList : pos[m] >= pos[n] => Ahead(pos, n, m)'
    BY <1>11, <1>12, <1>13 DEF Threaded
  <2>3. \A n \in OnList : link'[n] # -1 => link'[n] \in OnList /\ pos[link'[n]] > pos[n]
    BY <1>8, <1>11 DEF Threaded
  <2> QED BY <1>1, <1>3, <1>11, <2>1, <2>2, <2>3 DEF Threaded
<1>15. ASSUME NEW c \in Cores, pc'[c] \in {"call", "advance"} PROVE Owed(pos, c)'
  <2>1. Owed(pos, c) /\ at[c] \in Links
    BY <1>1, <1>11, <1>15 DEF ListInv, TypeOK
  <2>2. \A n \in Slots, s \in OnList : Ahead(pos, n, s) => Ahead(pos, n, s)'
    BY <1>12, <1>13
  <2>3. PICK a \in Links : a = at[c]
    BY <2>1
  <2>4. at'[c] = a /\ (a # -1 => a \in Slots)
    BY <1>1, <2>3 DEF Links
  <2> QED BY <1>1, <1>3, <2>1, <2>2, <2>3, <2>4 DEF Owed
<1> QED BY <1>2, <1>6, <1>7, <1>9, <1>10, <1>11, <1>14, <1>15 DEF ListInv

(* The new first slot stands before all there are.                         *)
LEMMA StartFrontKeeps ==
  ASSUME ListInv, StartFront
  PROVE  ListInv'
<1>0. PICK slot \in Slots : slot = op.slot
  BY DEF ListInv, TypeOK
<1>1. /\ op.pc = "startFront" /\ slot = op.slot
      /\ start' = slot /\ added' = added \cup {handlers[slot]}
      /\ op' = [pc |-> "idle", slot |-> 0]
      /\ UNCHANGED << handlers, link, ops, removed >>
      /\ UNCHANGED << pc, at, pass, taker, since, due, called >>
  BY <1>0 DEF StartFront, Finish, walks
<1>2. handlers[slot] \in Handlers /\ link[slot] = start
  BY <1>1 DEF ListInv, Book, TypeOK
<1>3. TypeOK'
  <2>1. 0 \in Slots
    BY ListAssumption DEF Slots
  <2> QED BY <1>1, <1>2, <2>1, <1>0 DEF ListInv, TypeOK, Links
<1>4. OnList' = OnList \cup {slot} /\ slot \notin OnList
  BY <1>1, <1>2, ListAssumption DEF OnList
<1>5. Book'
  <2>1. \A h \in Handlers : h \in added' <=> \E n \in OnList' : handlers'[n] = h
    BY <1>1, <1>2, <1>4 DEF ListInv, Book
  <2> QED BY <1>1, <2>1 DEF ListInv, Book
<1>6. Fresh'
  BY <1>1, <1>4 DEF ListInv, Fresh
<1>7. PICK pos \in [Slots -> Int] :
         Threaded(pos) /\ \A c \in Cores : pc[c] \in {"call", "advance"} => Owed(pos, c)
  BY DEF ListInv
<1>8. Ended'
  <2>1. \A n \in OnList' : n = start' \/ \E m \in OnList' : link'[m] = n
    BY <1>1, <1>2, <1>4 DEF ListInv, Ended
  <2>2. \E n \in OnList' : link'[n] = -1
    BY <1>1, <1>2, <1>4, <1>7 DEF ListInv, Ended, Threaded
  <2> QED BY <2>1, <2>2 DEF Ended
<1>9. \A c \in Cores : Walk(c)'
  BY <1>1 DEF ListInv, Walk
<1>10. PICK lo \in Int : \A n \in Slots : lo < pos[n]
  BY Bounds
<1>11. PICK q \in [Slots -> Int] : q = [pos EXCEPT ![slot] = lo]
  OBVIOUS
<1>12. q[slot] = lo /\ \A n \in Slots : n # slot => q[n] = pos[n] /\ q[n] > lo
  BY <1>10, <1>11
<1>13. OnList \subseteq Slots
  BY DEF OnList
<1>14. Threaded(q)'
  <2>1. \A m, n \in OnList' : q[m] = q[n] => m = n
    BY <1>4, <1>7, <1>12, <1>13 DEF Threaded
  <2>2. start' \in OnList' /\ \A m \in OnList' : q[m] >= q[start']
    BY <1>1, <1>4, <1>12, <1>13
  <2>3. \A n \in OnList' : link'[n] # -1 => link'[n] \in OnList' /\ q[link'[n]] > q[n]
    <3> SUFFICES ASSUME NEW n \in OnList', link'[n] # -1
                 PROVE  link'[n] \in OnList' /\ q[link'[n]] > q[n]
      OBVIOUS
    <3>1. CASE n = slot
      BY <3>1, <1>1, <1>2, <1>4, <1>7, <1>12, <1>13 DEF Threaded
    <3>2. CASE n # slot
      BY <3>2, <1>1, <1>4, <1>7, <1>12, <1>13 DEF Threaded
    <3> QED BY <3>1, <3>2
  <2>4. \A n, m \in OnList' : q[m] > q[n] => Ahead(q, n, m)'
    <3> SUFFICES ASSUME NEW n \in OnList', NEW m \in OnList', q[m] > q[n]
                 PROVE  Ahead(q, n, m)'
      OBVIOUS
    <3>1. m # slot
      BY <1>4, <1>12, <1>13
    <3>2. CASE n = slot
      <4>1. start # -1 /\ pos[m] >= pos[start] /\ start # slot /\ start \in Slots
        BY <1>4, <1>7, <1>13, <3>1 DEF Threaded
      <4> QED BY <3>1, <3>2, <4>1, <1>1, <1>2, <1>4, <1>12, <1>13 DEF Ahead
    <3>3. CASE n # slot
      <4>1. link[n] # -1 /\ link[n] \in OnList /\ pos[m] >= pos[link[n]]
        BY <3>1, <3>3, <1>4, <1>7, <1>12, <1>13 DEF Threaded, Ahead
      <4> QED BY <3>1, <4>1, <1>1, <1>4, <1>12, <1>13 DEF Ahead
    <3> QED BY <3>2, <3>3
  <2>5. \A n \in Slots \ OnList', m \in OnList' : q[m] >= q[n] => Ahead(q, n, m)'
    <3> SUFFICES ASSUME NEW n \in Slots \ OnList', NEW m \in OnList', q[m] >= q[n]
                 PROVE  Ahead(q, n, m)'
      OBVIOUS
    <3>1. n \in Slots \ OnList /\ n # slot /\ m # slot /\ m \in OnList
      <4>1. n # slot /\ n \in Slots \ OnList
        BY <1>4
      <4> QED BY <4>1, <1>4, <1>12
    <3>2. link[n] # -1 /\ pos[m] >= pos[link[n]] /\ link[n] \in Slots
      BY <3>1, <1>7, <1>12, <1>13 DEF Threaded, Ahead, ListInv, TypeOK, Links
    <3> QED BY <3>1, <3>2, <1>1, <1>12, <1>13 DEF Ahead
  <2> QED BY <1>1, <2>1, <2>2, <2>3, <2>4, <2>5, <1>0, <1>4 DEF Threaded, Slots
<1>15. ASSUME NEW c \in Cores, pc'[c] \in {"call", "advance"} PROVE Owed(q, c)'
  <2>1. Owed(pos, c)
    BY <1>1, <1>7, <1>15
  <2>2. \A n \in Slots : q[n] <= pos[n] /\ q[n] \in Int /\ pos[n] \in Int
    BY <1>10, <1>12
  <2>3. \A n \in Slots, s \in OnList : link[n] # -1 /\ Ahead(pos, n, s) => Ahead(q, n, s)'
    BY <1>1, <1>4, <1>12, <1>13, <2>2 DEF Ahead, ListInv, TypeOK, Links
  <2>4. PICK a \in Links : a = at[c]
    BY DEF ListInv, TypeOK
  <2>5. at'[c] = a /\ (a # -1 => a \in Slots)
    BY <1>1, <2>4 DEF Links
  <2>6. \A s \in OnList : q[s] = pos[s]
    BY <1>4, <1>12, <1>13
  <2> SUFFICES ASSUME NEW h \in due'[c] \ called'[c]
               PROVE  \E s \in OnList' :
                        /\ handlers'[s] = h
                        /\ pc'[c] = "call" => at'[c] # -1 /\ q[s] >= q[at'[c]]
                        /\ pc'[c] = "advance" => at'[c] # -1 /\ Ahead(q, at[c], s)'
    BY DEF Owed
  <2>7. PICK s \in OnList :
          /\ handlers[s] = h
          /\ pc[c] = "call" => at[c] # -1 /\ pos[s] >= pos[at[c]]
          /\ pc[c] = "advance" => at[c] # -1 /\ Ahead(pos, at[c], s)
    BY <1>1, <2>1 DEF Owed
  <2>8. pc[c] = "call" => a # -1 /\ q[s] >= q[a]
    BY <2>2, <2>4, <2>5, <2>6, <2>7, <1>13
  <2>9. pc[c] = "advance" => a # -1 /\ Ahead(q, a, s)'
    BY <2>3, <2>4, <2>5, <2>7 DEF Ahead
  <2> QED BY <1>1, <1>4, <2>4, <2>5, <2>7, <2>8, <2>9
<1> QED BY <1>3, <1>5, <1>6, <1>8, <1>9, <1>11, <1>14, <1>15 DEF ListInv

(* The new last slot stands after all there are, and what is not on the    *)
(* list, where nobody is, after that.                                      *)
LEMMA LinkEndKeeps ==
  ASSUME ListInv, LinkEnd
  PROVE  ListInv'
<1>0. PICK slot \in Slots : slot = op.slot
  BY DEF ListInv, TypeOK
<1>1. /\ op.pc = "linkEnd" /\ slot = op.slot
      /\ added' = added \cup {handlers[slot]}
      /\ op' = [pc |-> "idle", slot |-> 0]
      /\ UNCHANGED << handlers, ops, removed >>
      /\ UNCHANGED << pc, at, pass, taker, since, due, called >>
  BY <1>0 DEF LinkEnd, Finish, walks
<1>2. handlers[slot] \in Handlers /\ ~removed
  BY <1>1 DEF ListInv, Book, TypeOK
<1>3. OnList' = OnList \cup {slot} /\ slot \notin OnList
  BY <1>1, <1>2, ListAssumption DEF OnList
<1>4. link[slot] = -1
  BY <1>1, <1>2, <1>3 DEF ListInv, Fresh
<1>5. PICK pos \in [Slots -> Int] :
         Threaded(pos) /\ \A c \in Cores : pc[c] \in {"call", "advance"} => Owed(pos, c)
  BY DEF ListInv
<1>6. Listed = OnList
  BY <1>5, ListedIsOnList DEF ListInv
<1>7. \/ OnList = {} /\ start' = slot /\ UNCHANGED link
      \/ \E e \in OnList :
           /\ link[e] = -1
           /\ link' = [link EXCEPT ![e] = slot]
           /\ start' = start
  <2>1. \/ start = -1 /\ start' = slot /\ UNCHANGED link
        \/ \E e \in Listed :
             /\ link[e] = -1
             /\ link' = [link EXCEPT ![e] = slot]
             /\ UNCHANGED start
    BY <1>0 DEF LinkEnd
  <2>2. start = -1 => OnList = {}
    BY <1>5 DEF Threaded
  <2> QED BY <2>1, <2>2, <1>6
<1>8. OnList \subseteq Slots /\ \A n \in OnList : n # slot
  BY <1>3 DEF OnList
<1>9. TypeOK'
  <2>1. 0 \in Slots
    BY ListAssumption DEF Slots
  <2> QED BY <1>1, <1>2, <2>1, <1>0, <1>7, <1>8 DEF ListInv, TypeOK, Links
<1>10. Book'
  <2>1. \A h \in Handlers : h \in added' <=> \E n \in OnList' : handlers'[n] = h
    BY <1>1, <1>2, <1>3 DEF ListInv, Book
  <2> QED BY <1>1, <2>1 DEF ListInv, Book
<1>11. \A n \in Slots \ OnList : link'[n] = -1
  BY <1>1, <1>2, <1>4, <1>7 DEF ListInv, Fresh, TypeOK
<1>12. Fresh'
  BY <1>1, <1>2, <1>3, <1>11 DEF ListInv, Fresh
<1>13. \A c \in Cores : Walk(c)'
  BY <1>1 DEF ListInv, Walk
<1>14. Ended'
  <2>1. link'[slot] = -1
    BY <1>3, <1>11
  <2>2. CASE OnList = {} /\ start' = slot /\ UNCHANGED link
    BY <2>1, <2>2, <1>3 DEF Ended
  <2>3. ASSUME NEW e \in OnList, link[e] = -1, link' = [link EXCEPT ![e] = slot], start' = start
        PROVE  Ended'
    <3>1. link'[e] = slot /\ \A n \in OnList : n # e => link'[n] = link[n]
      BY <2>3, <1>8 DEF ListInv, TypeOK
    <3>2. \A n \in OnList : n # slot /\ n # -1 /\ (n = start \/ \E m \in OnList : link[m] = n)
      BY <1>8 DEF ListInv, Ended, Slots
    <3>3. \A n \in OnList : n = start' \/ \E m \in OnList : link'[m] = n
      BY <2>3, <3>1, <3>2
    <3> QED BY <2>1, <3>1, <3>3, <2>3, <1>3 DEF Ended
  <2> QED BY <1>7, <2>2, <2>3
<1>15. PICK lo \in Int, hi \in Int : \A n \in Slots : lo < pos[n] /\ pos[n] < hi
  BY Bounds
<1>16. PICK q \in [Slots -> Int] :
         q = [n \in Slots |-> IF n \in OnList THEN pos[n] ELSE IF n = slot THEN hi ELSE hi + 1]
  <2> DEFINE f == [n \in Slots |-> IF n \in OnList THEN pos[n]
                                   ELSE IF n = slot THEN hi ELSE hi + 1]
  <2>1. f \in [Slots -> Int]
    <3>1. hi + 1 \in Int
      OBVIOUS
    <3> QED BY <3>1
  <2> QED BY <2>1
<1>17. /\ q[slot] = hi
       /\ \A n \in OnList : q[n] = pos[n] /\ q[n] < hi
       /\ \A n \in Slots \ OnList' : q[n] > hi
  BY <1>3, <1>8, <1>15, <1>16
<1>18. Threaded(q)'
  <2>1. \A m, n \in OnList' : q[m] = q[n] => m = n
    BY <1>3, <1>5, <1>8, <1>17 DEF Threaded
  <2>2. start' \in OnList' /\ \A m \in OnList' : q[m] >= q[start']
    <3>1. CASE OnList = {} /\ start' = slot
      BY <3>1, <1>3, <1>17
    <3>2. CASE OnList # {} /\ start' = start
      BY <3>2, <1>3, <1>5, <1>8, <1>17 DEF Threaded
    <3> QED BY <3>1, <3>2, <1>7
  <2>3. \A n \in OnList' : link'[n] # -1 => link'[n] \in OnList' /\ q[link'[n]] > q[n]
    <3> SUFFICES ASSUME NEW n \in OnList', link'[n] # -1
                 PROVE  link'[n] \in OnList' /\ q[link'[n]] > q[n]
      OBVIOUS
    <3>1. n \in OnList
      BY <1>3, <1>11
    <3>2. link'[n] = slot \/ link'[n] = link[n]
      BY <3>1, <1>7, <1>8 DEF ListInv, TypeOK
    <3>3. CASE link'[n] = slot
      BY <3>1, <3>3, <1>3, <1>17
    <3>4. CASE link'[n] = link[n]
      BY <3>1, <3>4, <1>3, <1>5, <1>17 DEF Threaded
    <3> QED BY <3>2, <3>3, <3>4
  <2>4. \A n, m \in OnList' : q[m] > q[n] => Ahead(q, n, m)'
    <3> SUFFICES ASSUME NEW n \in OnList', NEW m \in OnList', q[m] > q[n]
                 PROVE  Ahead(q, n, m)'
      OBVIOUS
    <3>1. n \in OnList
      <4>1. m = slot \/ q[m] < hi
        BY <1>3, <1>17
      <4>2. q[m] \in Int /\ q[n] \in Int /\ hi \in Int
        BY <1>3, <1>8
      <4>3. n # slot
        BY <4>1, <4>2, <1>17
      <4> QED BY <4>3, <1>3
    <3>2. PICK e \in OnList : link[e] = -1 /\ link' = [link EXCEPT ![e] = slot]
      BY <1>7, <3>1
    <3>3. CASE n = e
      <4>1. m = slot
        <5> SUFFICES ASSUME m \in OnList PROVE FALSE
          BY <1>3
        <5>1. pos[m] > pos[n]
          BY <3>1, <1>17
        <5> QED BY <5>1, <3>1, <3>2, <3>3, <1>5 DEF Threaded, Ahead
      <4>2. link'[n] = slot /\ slot # -1
        BY <3>1, <3>2, <3>3, <1>8 DEF ListInv, TypeOK, Slots
      <4> QED BY <4>1, <4>2, <1>17 DEF Ahead
    <3>4. CASE n # e
      <4>1. link'[n] = link[n]
        BY <3>1, <3>2, <3>4, <1>8 DEF ListInv, TypeOK
      <4>2. CASE m = slot
        <5>1. link[n] # -1
          <6> SUFFICES ASSUME link[n] = -1 PROVE FALSE
            OBVIOUS
          <6>1. ~(pos[e] > pos[n]) /\ ~(pos[n] > pos[e])
            BY <3>1, <3>2, <1>5 DEF Threaded, Ahead
          <6>2. pos[e] \in Int /\ pos[n] \in Int
            BY <3>1, <3>2, <1>8
          <6>3. pos[e] = pos[n]
            BY <6>1, <6>2
          <6> QED BY <6>3, <3>1, <3>2, <3>4, <1>5 DEF Threaded
        <5>2. link[n] \in OnList
          BY <5>1, <3>1, <1>5 DEF Threaded
        <5>3. q[slot] >= q[link[n]]
          BY <5>2, <1>17, <1>8
        <5> QED BY <4>1, <4>2, <5>1, <5>3 DEF Ahead
      <4>3. CASE m \in OnList
        <5>1. link[n] # -1 /\ link[n] \in OnList /\ pos[m] >= pos[link[n]]
          BY <3>1, <4>3, <1>5, <1>17 DEF Threaded, Ahead
        <5> QED BY <5>1, <4>1, <4>3, <1>17 DEF Ahead
      <4> QED BY <4>2, <4>3, <1>3
    <3> QED BY <3>3, <3>4
  <2>5. \A n \in Slots \ OnList', m \in OnList' : ~(q[m] >= q[n])
    BY <1>3, <1>8, <1>17
  <2> QED BY <2>1, <2>2, <2>3, <2>4, <2>5, <1>0, <1>8, <1>3 DEF Threaded, Slots
<1>19. ASSUME NEW c \in Cores, pc'[c] \in {"call", "advance"} PROVE Owed(q, c)'
  <2>1. Owed(pos, c)
    BY <1>1, <1>5, <1>19
  <2>2. PICK a \in OnList \cup {-1} : a = at[c]
    BY <1>1, <1>2, <1>19 DEF ListInv, Fresh
  <2>3. \A s \in OnList : a # -1 /\ Ahead(pos, a, s) => Ahead(q, a, s)'
    <3> SUFFICES ASSUME NEW s \in OnList, a # -1, Ahead(pos, a, s)
                 PROVE  Ahead(q, a, s)'
      OBVIOUS
    <3>1. a \in OnList /\ link[a] # -1
      BY DEF Ahead
    <3>2. link'[a] = link[a] /\ link[a] \in OnList
      <4>1. link[a] \in OnList
        BY <3>1, <1>5 DEF Threaded
      <4> QED BY <4>1, <3>1, <1>7, <1>8 DEF ListInv, TypeOK
    <3> QED BY <3>1, <3>2, <1>17 DEF Ahead
  <2> SUFFICES ASSUME NEW h \in due'[c] \ called'[c]
               PROVE  \E s \in OnList' :
                        /\ handlers'[s] = h
                        /\ pc'[c] = "call" => at'[c] # -1 /\ q[s] >= q[at'[c]]
                        /\ pc'[c] = "advance" => at'[c] # -1 /\ Ahead(q, at[c], s)'
    BY DEF Owed
  <2>4. PICK s \in OnList :
          /\ handlers[s] = h
          /\ pc[c] = "call" => at[c] # -1 /\ pos[s] >= pos[at[c]]
          /\ pc[c] = "advance" => at[c] # -1 /\ Ahead(pos, at[c], s)
    BY <1>1, <2>1 DEF Owed
  <2>5. pc[c] = "call" => a # -1 /\ q[s] >= q[a]
    BY <2>2, <2>4, <1>17
  <2>6. pc[c] = "advance" => a # -1 /\ Ahead(q, a, s)'
    BY <2>2, <2>3, <2>4
  <2> QED BY <1>1, <1>3, <2>2, <2>4, <2>5, <2>6
<1> QED BY <1>9, <1>10, <1>12, <1>13, <1>14, <1>16, <1>18, <1>19 DEF ListInv

LEMMA SubHandlerKeeps ==
  ASSUME ListInv, SubHandler
  PROVE  ListInv'
<1>1. PICK h \in Present :
        /\ Start("unlink", First({n \in Slots : handlers[n] = h}))
        /\ handlers' = [handlers EXCEPT ![op'.slot] = Null]
        /\ removed' = TRUE
        /\ added' = Present'
        /\ due' = [c \in Cores |-> due[c] \ {h}]
        /\ UNCHANGED << link, start, pc, at, pass, taker, since, called >>
  BY DEF SubHandler
<1>2. PICK slot \in Slots : slot = First({n \in Slots : handlers[n] = h}) /\ handlers[slot] = h
  <2>1. {n \in Slots : handlers[n] = h} # {}
    BY DEF Present
  <2> QED BY <2>1, FirstIs
<1>3. h \in Handlers /\ h # Null
  BY <1>2 DEF ListInv, TypeOK, Present
<1>4. /\ op.pc = "idle" /\ ops < MaxOps /\ ops' = ops + 1
      /\ op' = [pc |-> "unlink", slot |-> slot]
      /\ handlers' = [handlers EXCEPT ![slot] = Null]
  BY <1>1, <1>2 DEF Start
<1>5. TypeOK'
  <2>1. handlers' \in [Slots -> Handlers \cup {Null}]
    BY <1>4, ListAssumption DEF ListInv, TypeOK
  <2>2. added' \in SUBSET Handlers
    BY <1>1, <2>1 DEF Present
  <2>3. due' \in [Cores -> SUBSET Handlers]
    BY <1>1 DEF ListInv, TypeOK
  <2>4. removed' \in BOOLEAN /\ ops' \in 0 .. MaxOps
    BY <1>1, <1>4, ListAssumption DEF ListInv, TypeOK
  <2>5. op' \in [pc : {"idle", "linkFront", "startFront", "linkEnd", "unlink"}, slot : Slots]
    BY <1>4
  <2> QED BY <1>1, <2>1, <2>2, <2>3, <2>4, <2>5 DEF ListInv, TypeOK
<1>6. OnList' = OnList
  BY <1>2, <1>3, <1>4 DEF OnList, ListInv, TypeOK
<1>7. handlers'[slot] = Null /\ \A n \in Slots : n # slot => handlers'[n] = handlers[n]
  BY <1>4 DEF ListInv, TypeOK
<1>8. \A n \in Slots : n \in OnList' \/ handlers'[n] = Null
  BY <1>4, <1>6, <1>7 DEF OnList
<1>9. Book'
  <2>1. ASSUME NEW g \in Handlers
        PROVE  g \in added' <=> \E n \in OnList' : handlers'[n] = g
    <3>1. g # Null /\ OnList' \subseteq Slots
      BY ListAssumption DEF OnList
    <3> QED BY <1>1, <1>8, <3>1 DEF Present
  <2> QED BY <1>1, <1>4, <1>7, <2>1 DEF Book
<1>10. Fresh'
  BY <1>1 DEF Fresh
<1>11. Ended'
  BY <1>1, <1>6 DEF ListInv, Ended
<1>12. \A c \in Cores : Walk(c)'
  BY <1>1 DEF ListInv, Walk
<1>13. PICK pos \in [Slots -> Int] :
         Threaded(pos) /\ \A c \in Cores : pc[c] \in {"call", "advance"} => Owed(pos, c)
  BY DEF ListInv
<1>14. Threaded(pos)'
  BY <1>1, <1>6, <1>13 DEF Threaded, Ahead
<1>15. ASSUME NEW c \in Cores, pc'[c] \in {"call", "advance"} PROVE Owed(pos, c)'
  <2>1. Owed(pos, c)
    BY <1>1, <1>13, <1>15
  <2>2. due'[c] = due[c] \ {h} /\ called'[c] = called[c]
    BY <1>1
  <2> QED BY <1>1, <1>6, <1>7, <1>2, <2>1, <2>2 DEF Owed, Ahead, OnList
<1> QED BY <1>5, <1>9, <1>10, <1>11, <1>12, <1>13, <1>14, <1>15 DEF ListInv

(* The removed slot's predecessor, or the start, takes over its link.      *)
LEMMA UnlinkKeeps ==
  ASSUME ListInv, Unlink
  PROVE  ListInv'
<1>0. PICK slot \in Slots : slot = op.slot
  BY DEF ListInv, TypeOK
<1>1. /\ op.pc = "unlink" /\ slot = op.slot
      /\ op' = [pc |-> "idle", slot |-> 0]
      /\ UNCHANGED << handlers, ops, removed, added >>
      /\ UNCHANGED << pc, at, pass, taker, since, due, called >>
  BY <1>0 DEF Unlink, Finish, walks
<1>2. handlers[slot] = Null /\ removed
  BY <1>1 DEF ListInv, Book
<1>3. slot \in OnList /\ OnList' = OnList \ {slot}
  BY <1>1, <1>2 DEF OnList
<1>4. PICK pos \in [Slots -> Int] :
         Threaded(pos) /\ \A c \in Cores : pc[c] \in {"call", "advance"} => Owed(pos, c)
  BY DEF ListInv
<1>5. Listed = OnList /\ OnList \subseteq Slots
  BY <1>4, ListedIsOnList DEF ListInv, OnList
<1>6. PICK z \in Links : z = link[slot]
  BY DEF ListInv, TypeOK
<1>7. \A m \in OnList \ {slot} : pos[m] >= pos[slot] => z # -1 /\ pos[m] >= pos[z]
  <2> SUFFICES ASSUME NEW m \in OnList \ {slot}, pos[m] >= pos[slot]
               PROVE  z # -1 /\ pos[m] >= pos[z]
    OBVIOUS
  <2>1. pos[m] \in Int /\ pos[slot] \in Int
    BY <1>5
  <2>2. pos[m] # pos[slot]
    BY <1>3, <1>4 DEF Threaded
  <2>3. pos[m] > pos[slot]
    BY <2>1, <2>2
  <2> QED BY <2>3, <1>3, <1>4, <1>6 DEF Threaded, Ahead
<1>8. z # -1 => z \in OnList \ {slot} /\ pos[z] > pos[slot]
  BY <1>3, <1>4, <1>5, <1>6 DEF Threaded
<1>9. \/ start = slot /\ start' = z /\ link' = link
      \/ \E p \in OnList \ {slot} :
           /\ link[p] = slot /\ start' = start /\ start # slot
           /\ link' = [link EXCEPT ![p] = z]
  <2> DEFINE before == {m \in Listed : link[m] = slot}
  <2>1. IF start = slot \/ before = {}
        THEN start' = z /\ link' = link
        ELSE link' = [link EXCEPT ![First(before)] = z] /\ start' = start
    BY <1>0, <1>6 DEF Unlink
  <2>2. CASE start = slot
    BY <2>1, <2>2
  <2>3. CASE start # slot
    <3>1. before # {}
      BY <2>3, <1>3, <1>5 DEF ListInv, Ended
    <3>2. PICK p \in before : p = First(before)
      <4>1. before \in SUBSET Slots
        BY <1>5
      <4> HIDE DEF before
      <4> QED BY <3>1, <4>1, FirstIs
    <3>3. link' = [link EXCEPT ![p] = z] /\ start' = start
      BY <2>1, <2>3, <3>1, <3>2
    <3>4. p \in OnList /\ link[p] = slot
      BY <3>2, <1>5
    <3>5. p # slot
      <4>1. slot # -1
        BY DEF Slots
      <4>2. pos[link[p]] > pos[p] /\ pos[p] \in Int
        BY <3>4, <4>1, <1>4, <1>5 DEF Threaded
      <4> QED BY <3>4, <4>2
    <3> QED BY <2>3, <3>3, <3>4, <3>5
  <2> QED BY <2>2, <2>3
<1>10. \A n \in Slots, m \in OnList' : Ahead(pos, n, m) => Ahead(pos, n, m)'
  <2> SUFFICES ASSUME NEW n \in Slots, NEW m \in OnList', Ahead(pos, n, m)
               PROVE  Ahead(pos, n, m)'
    OBVIOUS
  <2>1. CASE link'[n] = link[n]
    BY <2>1 DEF Ahead
  <2>2. CASE link'[n] # link[n]
    <3>1. link[n] = slot /\ link'[n] = z
      BY <2>2, <1>9 DEF ListInv, TypeOK
    <3> QED BY <3>1, <1>3, <1>7 DEF Ahead
  <2> QED BY <2>1, <2>2
<1>11. Threaded(pos)'
  <2>1. \A m, n \in OnList' : pos[m] = pos[n] => m = n
    BY <1>3, <1>4 DEF Threaded
  <2>2. /\ start' = -1 => OnList' = {}
        /\ start' # -1 => start' \in OnList' /\ \A m \in OnList' : pos[m] >= pos[start']
    <3>1. CASE start = slot /\ start' = z
      <4>1. \A m \in OnList : pos[m] >= pos[slot]
        BY <3>1, <1>3, <1>4 DEF Threaded
      <4> QED BY <3>1, <4>1, <1>3, <1>7, <1>8
    <3>2. CASE start' = start /\ start # slot
      BY <3>2, <1>3, <1>4 DEF Threaded
    <3> QED BY <3>1, <3>2, <1>9
  <2>3. \A n \in OnList' : link'[n] # -1 => link'[n] \in OnList' /\ pos[link'[n]] > pos[n]
    <3> SUFFICES ASSUME NEW n \in OnList', link'[n] # -1
                 PROVE  link'[n] \in OnList' /\ pos[link'[n]] > pos[n]
      OBVIOUS
    <3>1. n \in OnList /\ n # slot /\ pos[n] \in Int /\ pos[slot] \in Int
      BY <1>3, <1>5
    <3>2. link[n] # -1 => link[n] \in OnList /\ pos[link[n]] > pos[n]
      BY <3>1, <1>4 DEF Threaded
    <3>3. CASE start = slot /\ start' = z /\ link' = link
      <4>1. pos[n] >= pos[slot]
        BY <3>1, <3>3, <1>3, <1>4 DEF Threaded
      <4>2. link[n] # slot
        <5> SUFFICES ASSUME link[n] = slot PROVE FALSE
          OBVIOUS
        <5>1. pos[slot] > pos[n]
          BY <3>2 DEF Slots
        <5> QED BY <5>1, <4>1, <3>1
      <4> QED BY <3>2, <3>3, <4>2, <1>3
    <3>4. ASSUME NEW p \in OnList \ {slot}, link[p] = slot, link' = [link EXCEPT ![p] = z]
          PROVE  link'[n] \in OnList' /\ pos[link'[n]] > pos[n]
      <4>1. CASE n = p
        <5>1. link'[n] = z /\ z # -1
          BY <3>4, <4>1, <1>5 DEF ListInv, TypeOK
        <5>2. pos[slot] > pos[n]
          BY <3>2, <3>4, <4>1 DEF Slots
        <5>3. pos[z] > pos[slot] /\ pos[z] \in Int
          BY <5>1, <1>5, <1>8
        <5> QED BY <5>1, <5>2, <5>3, <3>1, <1>3, <1>8
      <4>2. CASE n # p
        <5>1. link'[n] = link[n] /\ link[n] # -1
          BY <3>1, <3>4, <4>2, <1>5 DEF ListInv, TypeOK
        <5>2. link[n] # slot
          <6> SUFFICES ASSUME link[n] = slot PROVE FALSE
            OBVIOUS
          <6>1. pos[slot] > pos[n] /\ pos[slot] > pos[p]
            BY <3>2, <3>4, <5>1, <1>4 DEF Threaded, Slots
          <6>2. ~(pos[n] > pos[p]) /\ ~(pos[p] > pos[n])
            <7>1. pos[n] > pos[p] => pos[n] >= pos[slot]
              BY <3>1, <3>4, <1>4 DEF Threaded, Ahead
            <7>2. pos[p] > pos[n] => pos[p] >= pos[slot]
              BY <3>1, <3>4, <1>4 DEF Threaded, Ahead
            <7>3. pos[p] \in Int
              BY <1>5
            <7> QED BY <6>1, <7>1, <7>2, <7>3, <3>1
          <6>3. pos[n] = pos[p]
            BY <6>2, <3>1, <1>5
          <6> QED BY <6>3, <4>2, <3>1, <1>4 DEF Threaded
        <5> QED BY <5>1, <5>2, <3>2, <1>3
      <4> QED BY <4>1, <4>2
    <3> QED BY <3>3, <3>4, <1>9
  <2>4. \A n, m \in OnList' : pos[m] > pos[n] => Ahead(pos, n, m)'
    BY <1>3, <1>4, <1>5, <1>10 DEF Threaded
  <2>5. \A n \in Slots \ OnList', m \in OnList' : pos[m] >= pos[n] => Ahead(pos, n, m)'
    <3> SUFFICES ASSUME NEW n \in Slots \ OnList', NEW m \in OnList', pos[m] >= pos[n]
                 PROVE  Ahead(pos, n, m)'
      OBVIOUS
    <3>1. Ahead(pos, n, m)
      <4>1. CASE n = slot
        BY <4>1, <1>3, <1>6, <1>7 DEF Ahead
      <4>2. CASE n # slot
        BY <4>2, <1>3, <1>4 DEF Threaded
      <4> QED BY <4>1, <4>2
    <3> QED BY <3>1, <1>10
  <2> QED BY <2>1, <2>2, <2>3, <2>4, <2>5 DEF Threaded
<1>12. Ended'
  <2>1. \A n \in OnList' : n \in OnList /\ n # slot /\ (n = start \/ \E m \in OnList : link[m] = n)
    BY <1>3 DEF ListInv, Ended
  <2>2. PICK e \in OnList : link[e] = -1
    BY <1>3 DEF ListInv, Ended
  <2>3. CASE start = slot /\ start' = z /\ link' = link
    <3>1. \A n \in OnList' : n = start' \/ \E m \in OnList' : link'[m] = n
      BY <2>1, <2>3, <1>3, <1>6
    <3>2. OnList' # {} => e # slot
      BY <2>2, <2>3, <1>6, <1>11 DEF Threaded
    <3> QED BY <3>1, <3>2, <2>2, <2>3, <1>3 DEF Ended
  <2>4. ASSUME NEW p \in OnList \ {slot}, link[p] = slot, start' = start,
               link' = [link EXCEPT ![p] = z]
        PROVE  Ended'
    <3>1. link'[p] = z /\ \A m \in Slots : m # p => link'[m] = link[m]
      BY <2>4, <1>5 DEF ListInv, TypeOK
    <3>2. \A n \in OnList' : n = start' \/ \E m \in OnList' : link'[m] = n
      <4> SUFFICES ASSUME NEW n \in OnList', n # start' PROVE \E m \in OnList' : link'[m] = n
        OBVIOUS
      <4>1. PICK m \in OnList : link[m] = n
        BY <2>1, <2>4
      <4>2. CASE m = slot
        BY <4>1, <4>2, <3>1, <2>4, <1>3, <1>6
      <4>3. CASE m # slot
        <5>1. m # p
          BY <2>1, <2>4, <4>1
        <5> QED BY <5>1, <4>1, <4>3, <3>1, <1>3, <1>5
      <4> QED BY <4>2, <4>3
    <3>3. \E n \in OnList' : link'[n] = -1
      <4>1. CASE e = slot
        BY <4>1, <2>2, <2>4, <3>1, <1>3, <1>6
      <4>2. CASE e # slot
        <5>1. e # p
          BY <2>2, <2>4 DEF Slots
        <5> QED BY <5>1, <4>2, <2>2, <3>1, <1>3, <1>5
      <4> QED BY <4>1, <4>2
    <3> QED BY <3>2, <3>3 DEF Ended
  <2> QED BY <2>3, <2>4, <1>9
<1>13. TypeOK'
  <2>1. 0 \in Slots
    BY ListAssumption DEF Slots
  <2>2. start' \in Links /\ link' \in [Slots -> Links]
    BY <1>9 DEF ListInv, TypeOK
  <2> QED BY <1>1, <2>1, <2>2 DEF ListInv, TypeOK
<1>14. Book'
  <2>1. \A h \in Handlers : h \in added' <=> \E n \in OnList' : handlers'[n] = h
    BY <1>1, <1>2, <1>3, ListAssumption DEF ListInv, Book
  <2> QED BY <1>1, <2>1 DEF ListInv, Book
<1>15. Fresh'
  BY <1>1, <1>2 DEF Fresh
<1>16. \A c \in Cores : Walk(c)'
  BY <1>1 DEF ListInv, Walk
<1>17. ASSUME NEW c \in Cores, pc'[c] \in {"call", "advance"} PROVE Owed(pos, c)'
  <2>1. Owed(pos, c)
    BY <1>1, <1>4, <1>17
  <2>2. PICK a \in Links : a = at[c]
    BY DEF ListInv, TypeOK
  <2>3. at'[c] = a /\ (a # -1 => a \in Slots)
    BY <1>1, <2>2 DEF Links
  <2>4. due'[c] = due[c] /\ called'[c] = called[c] /\ due[c] \subseteq Handlers
    BY <1>1 DEF ListInv, TypeOK
  <2> SUFFICES ASSUME NEW h \in due'[c] \ called'[c]
               PROVE  \E s \in OnList' :
                        /\ handlers'[s] = h
                        /\ pc'[c] = "call" => at'[c] # -1 /\ pos[s] >= pos[at'[c]]
                        /\ pc'[c] = "advance" => at'[c] # -1 /\ Ahead(pos, at[c], s)'
    BY DEF Owed
  <2>5. PICK s \in OnList :
          /\ handlers[s] = h
          /\ pc[c] = "call" => at[c] # -1 /\ pos[s] >= pos[at[c]]
          /\ pc[c] = "advance" => at[c] # -1 /\ Ahead(pos, at[c], s)
    BY <2>1, <2>4 DEF Owed
  <2>6. s \in OnList'
    BY <2>4, <2>5, <1>2, <1>3, ListAssumption
  <2>7. pc[c] = "advance" => a # -1 /\ Ahead(pos, a, s)'
    BY <2>2, <2>3, <2>5, <2>6, <1>10
  <2> QED BY <1>1, <2>2, <2>3, <2>5, <2>6, <2>7
<1> QED BY <1>4, <1>11, <1>12, <1>13, <1>14, <1>15, <1>16, <1>17 DEF ListInv

-----------------------------------------------------------------------------
(* The walkers' steps leave the list alone. *)
LEMMA WalkerKeeps ==
  ASSUME ListInv, UNCHANGED list, TypeOK', \A c \in Cores : Walk(c)',
         \A pos \in [Slots -> Int] :
           Threaded(pos) /\ (\A c \in Cores : pc[c] \in {"call", "advance"} => Owed(pos, c))
             => \A c \in Cores : pc'[c] \in {"call", "advance"} => Owed(pos, c)',
         ~removed => \A c \in Cores : pc'[c] \in {"call", "advance"} => at'[c] \in OnList \cup {-1}
  PROVE  ListInv'
<1>1. OnList' = OnList /\ Book' /\ Ended'
  BY DEF ListInv, list, OnList, Book, Ended
<1>2. Fresh'
  BY <1>1 DEF ListInv, list, Fresh
<1>3. PICK pos \in [Slots -> Int] :
         Threaded(pos) /\ \A c \in Cores : pc[c] \in {"call", "advance"} => Owed(pos, c)
  BY DEF ListInv
<1>4. Threaded(pos)'
  BY <1>1, <1>3 DEF Threaded, Ahead, list
<1> QED BY <1>1, <1>2, <1>3, <1>4 DEF ListInv

(* A pass starts with every handler that was added ahead of it.            *)
LEMMA BeginOwed ==
  ASSUME ListInv, UNCHANGED list, NEW pos, Threaded(pos), NEW c \in Cores,
         pc'[c] = "call", at'[c] = start, due'[c] = added, called'[c] = {}
  PROVE  Owed(pos, c)'
<1> SUFFICES ASSUME NEW h \in added
             PROVE  \E s \in OnList : handlers[s] = h /\ start # -1 /\ pos[s] >= pos[start]
  BY DEF Owed, list, OnList
<1>1. h \in Handlers
  BY DEF ListInv, TypeOK
<1>2. PICK s \in OnList : handlers[s] = h
  BY <1>1 DEF ListInv, Book
<1> QED BY <1>2 DEF Threaded

LEMMA OthersOwed ==
  ASSUME UNCHANGED list, NEW pos, NEW c, Owed(pos, c), pc'[c] = pc[c], at'[c] = at[c],
         due'[c] = due[c], called'[c] = called[c]
  PROVE  Owed(pos, c)'
BY DEF Owed, Ahead, OnList, list

LEMMA TakeExitKeeps ==
  ASSUME ListInv, NEW c \in Cores, TakeExit(c)
  PROVE  ListInv'
<1>1. /\ pc' = [pc EXCEPT ![c] = "call"]
      /\ pass' = [pass EXCEPT ![c] = 1]
      /\ at' = [at EXCEPT ![c] = start]
      /\ due' = [due EXCEPT ![c] = added]
      /\ called' = [called EXCEPT ![c] = {}]
      /\ UNCHANGED list
  BY DEF TakeExit, BeginPass
<1>2. PICK h \in Handlers \cup {Null}, k \in {1, 2} :
        taker' = [taker EXCEPT ![c] = h] /\ since' = [since EXCEPT ![c] = k]
  BY DEF TakeExit
<1>3. TypeOK'
  BY <1>1, <1>2 DEF ListInv, TypeOK, list
<1>4. /\ pc'[c] = "call" /\ at'[c] = start /\ due'[c] = added /\ called'[c] = {}
      /\ \A d \in Cores : d # c =>
           /\ pc'[d] = pc[d] /\ at'[d] = at[d] /\ pass'[d] = pass[d] /\ since'[d] = since[d]
           /\ taker'[d] = taker[d] /\ due'[d] = due[d] /\ called'[d] = called[d]
  BY <1>1, <1>2 DEF ListInv, TypeOK
<1>5. \A d \in Cores : Walk(d)'
  BY <1>4 DEF ListInv, Walk
<1>6. ~removed => \A d \in Cores : pc'[d] \in {"call", "advance"} => at'[d] \in OnList \cup {-1}
  BY <1>4 DEF ListInv, Fresh, Threaded
<1>7. ASSUME NEW pos \in [Slots -> Int], Threaded(pos),
             \A d \in Cores : pc[d] \in {"call", "advance"} => Owed(pos, d)
      PROVE  \A d \in Cores : pc'[d] \in {"call", "advance"} => Owed(pos, d)'
  <2> SUFFICES ASSUME NEW d \in Cores, pc'[d] \in {"call", "advance"} PROVE Owed(pos, d)'
    OBVIOUS
  <2>1. CASE d = c
    BY <2>1, <1>1, <1>4, <1>7, BeginOwed
  <2>2. CASE d # c
    <3>1. Owed(pos, d)
      BY <2>2, <1>4, <1>7
    <3> QED BY <2>2, <3>1, <1>1, <1>4, OthersOwed
  <2> QED BY <2>1, <2>2
<1> QED BY <1>1, <1>3, <1>5, <1>6, <1>7, WalkerKeeps

LEMMA SecondPassKeeps ==
  ASSUME ListInv, NEW c \in Cores, SecondPass(c)
  PROVE  ListInv'
<1>1. /\ pc' = [pc EXCEPT ![c] = "call"]
      /\ pass' = [pass EXCEPT ![c] = 2]
      /\ at' = [at EXCEPT ![c] = start]
      /\ due' = [due EXCEPT ![c] = added]
      /\ called' = [called EXCEPT ![c] = {}]
      /\ UNCHANGED << taker, since >> /\ UNCHANGED list
  BY DEF SecondPass, BeginPass
<1>2. TypeOK'
  BY <1>1 DEF ListInv, TypeOK, list
<1>3. /\ pc'[c] = "call" /\ at'[c] = start /\ due'[c] = added /\ called'[c] = {}
      /\ \A d \in Cores : d # c =>
           /\ pc'[d] = pc[d] /\ at'[d] = at[d] /\ pass'[d] = pass[d] /\ since'[d] = since[d]
           /\ taker'[d] = taker[d] /\ due'[d] = due[d] /\ called'[d] = called[d]
  BY <1>1 DEF ListInv, TypeOK
<1>4. \A d \in Cores : Walk(d)'
  BY <1>3 DEF ListInv, Walk
<1>5. ~removed => \A d \in Cores : pc'[d] \in {"call", "advance"} => at'[d] \in OnList \cup {-1}
  BY <1>3 DEF ListInv, Fresh, Threaded
<1>6. ASSUME NEW pos \in [Slots -> Int], Threaded(pos),
             \A d \in Cores : pc[d] \in {"call", "advance"} => Owed(pos, d)
      PROVE  \A d \in Cores : pc'[d] \in {"call", "advance"} => Owed(pos, d)'
  <2> SUFFICES ASSUME NEW d \in Cores, pc'[d] \in {"call", "advance"} PROVE Owed(pos, d)'
    OBVIOUS
  <2>1. CASE d = c
    BY <2>1, <1>1, <1>3, <1>6, BeginOwed
  <2>2. CASE d # c
    <3>1. Owed(pos, d)
      BY <2>2, <1>3, <1>6
    <3> QED BY <2>2, <3>1, <1>1, <1>3, OthersOwed
  <2> QED BY <2>1, <2>2
<1> QED BY <1>1, <1>2, <1>4, <1>5, <1>6, WalkerKeeps

(* Calling a handler that declines leaves the others to be called ahead of *)
(* the slot's link, whether the slot is still on the list or not.          *)
LEMMA CallHandlerKeeps ==
  ASSUME ListInv, NEW c \in Cores, CallHandler(c)
  PROVE  ListInv'
<1>0. PICK a \in Slots : a = at[c]
  BY DEF CallHandler, ListInv, TypeOK, Links
<1>1. /\ pc[c] = "call" /\ at[c] = a
      /\ called' = [called EXCEPT ![c] = @ \cup {handlers[a]}]
      /\ pc' = [pc EXCEPT ![c] = IF Takes(c, handlers[a]) THEN "idle" ELSE "advance"]
      /\ UNCHANGED << at, pass, taker, since, due >> /\ UNCHANGED list
  BY <1>0 DEF CallHandler
<1>2. TypeOK'
  BY <1>1 DEF ListInv, TypeOK, list
<1>3. /\ called'[c] = called[c] \cup {handlers[a]}
      /\ pc'[c] = IF Takes(c, handlers[a]) THEN "idle" ELSE "advance"
      /\ \A d \in Cores : d # c => pc'[d] = pc[d] /\ called'[d] = called[d]
  BY <1>1 DEF ListInv, TypeOK
<1>4. ASSUME NEW d \in Cores PROVE Walk(d)'
  <2>1. CASE d = c
    <3>1. Walk(d) /\ a # -1
      BY <1>0 DEF ListInv, Slots
    <3> QED BY <2>1, <3>1, <1>1, <1>3 DEF Walk, Takes
  <2>2. CASE d # c
    BY <2>2, <1>1, <1>3 DEF ListInv, Walk
  <2> QED BY <2>1, <2>2
<1>5. ~removed => \A d \in Cores : pc'[d] \in {"call", "advance"} => at'[d] \in OnList \cup {-1}
  BY <1>1, <1>3 DEF ListInv, Fresh
<1>6. ASSUME NEW pos \in [Slots -> Int], Threaded(pos),
             \A d \in Cores : pc[d] \in {"call", "advance"} => Owed(pos, d)
      PROVE  \A d \in Cores : pc'[d] \in {"call", "advance"} => Owed(pos, d)'
  <2> SUFFICES ASSUME NEW d \in Cores, pc'[d] \in {"call", "advance"} PROVE Owed(pos, d)'
    OBVIOUS
  <2>1. CASE d = c
    <3>1. Owed(pos, c) /\ pc'[c] = "advance" /\ a # -1
      BY <2>1, <1>1, <1>3, <1>6 DEF Slots
    <3>2. ASSUME NEW h \in due[c] \ called[c], h # handlers[a]
          PROVE  \E s \in OnList : handlers[s] = h /\ Ahead(pos, a, s)
      <4>1. PICK s \in OnList : handlers[s] = h /\ pos[s] >= pos[a]
        BY <3>1, <3>2, <1>1 DEF Owed
      <4>2. s # a /\ pos[s] \in Int /\ pos[a] \in Int
        BY <3>2, <4>1 DEF OnList
      <4>3. CASE a \in OnList
        <5>1. pos[s] # pos[a]
          BY <4>1, <4>2, <4>3, <1>6 DEF Threaded
        <5>2. pos[s] > pos[a]
          BY <4>1, <4>2, <5>1
        <5> QED BY <4>1, <4>3, <5>2, <1>6 DEF Threaded
      <4>4. CASE a \notin OnList
        BY <4>1, <4>4, <1>6 DEF Threaded
      <4> QED BY <4>3, <4>4
    <3> QED BY <2>1, <3>1, <3>2, <1>1, <1>3 DEF Owed, Ahead, OnList, list
  <2>2. CASE d # c
    <3>1. Owed(pos, d)
      BY <2>2, <1>3, <1>6
    <3> QED BY <2>2, <3>1, <1>1, <1>3, OthersOwed
  <2> QED BY <2>1, <2>2
<1> QED BY <1>1, <1>2, <1>4, <1>5, <1>6, WalkerKeeps

LEMMA AdvanceKeeps ==
  ASSUME ListInv, NEW c \in Cores, Advance(c)
  PROVE  ListInv'
<1>0. PICK a \in Slots : a = at[c]
  BY DEF Advance, ListInv, Walk, TypeOK, Links
<1>1. /\ pc[c] = "advance" /\ at[c] = a
      /\ pc' = [pc EXCEPT ![c] = "call"]
      /\ at' = [at EXCEPT ![c] = link[a]]
      /\ UNCHANGED << pass, taker, since, due, called >> /\ UNCHANGED list
  BY <1>0 DEF Advance
<1>2. TypeOK'
  BY <1>1 DEF ListInv, TypeOK, list
<1>3. /\ pc'[c] = "call" /\ at'[c] = link[a]
      /\ \A d \in Cores : d # c => pc'[d] = pc[d] /\ at'[d] = at[d]
  BY <1>1 DEF ListInv, TypeOK
<1>4. \A d \in Cores : Walk(d)'
  BY <1>1, <1>3 DEF ListInv, Walk
<1>5. ASSUME ~removed
      PROVE  \A d \in Cores : pc'[d] \in {"call", "advance"} => at'[d] \in OnList \cup {-1}
  <2>1. a \in OnList
    BY <1>0, <1>1, <1>5 DEF ListInv, Fresh, Slots
  <2>2. link[a] \in OnList \cup {-1}
    BY <2>1 DEF ListInv, Threaded
  <2> QED BY <2>2, <1>3, <1>5 DEF ListInv, Fresh
<1>6. ASSUME NEW pos \in [Slots -> Int], Threaded(pos),
             \A d \in Cores : pc[d] \in {"call", "advance"} => Owed(pos, d)
      PROVE  \A d \in Cores : pc'[d] \in {"call", "advance"} => Owed(pos, d)'
  <2> SUFFICES ASSUME NEW d \in Cores, pc'[d] \in {"call", "advance"} PROVE Owed(pos, d)'
    OBVIOUS
  <2>1. CASE d = c
    <3>1. Owed(pos, c)
      BY <1>1, <1>6
    <3>2. \A h \in due[c] \ called[c] : \E s \in OnList : handlers[s] = h /\ Ahead(pos, a, s)
      BY <3>1, <1>1 DEF Owed
    <3> QED BY <2>1, <3>2, <1>1, <1>3 DEF Owed, Ahead, OnList, list
  <2>2. CASE d # c
    <3>1. Owed(pos, d)
      BY <2>2, <1>3, <1>6
    <3> QED BY <2>2, <3>1, <1>1, <1>3, OthersOwed
  <2> QED BY <2>1, <2>2
<1> QED BY <1>1, <1>2, <1>4, <1>5, <1>6, WalkerKeeps

(* Past the end nothing is ahead: all that was due was called.             *)
LEMMA EndCalled == ListInv => PassCallsAll
<1> SUFFICES ASSUME ListInv, NEW c \in Cores, pc[c] = "call", at[c] = -1
             PROVE  due[c] \subseteq called[c]
  BY DEF PassCallsAll
<1>1. PICK pos : Owed(pos, c)
  BY DEF ListInv
<1> QED BY <1>1 DEF Owed

LEMMA KillKeeps ==
  ASSUME ListInv, NEW c \in Cores, Kill(c)
  PROVE  ListInv'
<1>1. /\ pc[c] = "call" /\ at[c] = -1 /\ pass[c] = 2
      /\ pc' = [pc EXCEPT ![c] = "killed"]
      /\ UNCHANGED << at, pass, taker, since, due, called >> /\ UNCHANGED list
  BY DEF Kill
<1>2. TypeOK'
  BY <1>1 DEF ListInv, TypeOK, list
<1>3. pc'[c] = "killed" /\ \A d \in Cores : d # c => pc'[d] = pc[d]
  BY <1>1 DEF ListInv, TypeOK
<1>4. taker[c] \notin due[c]
  <2>1. due[c] \subseteq called[c] /\ due[c] \subseteq Handlers
    BY <1>1, EndCalled DEF PassCallsAll, ListInv, TypeOK
  <2>2. since[c] \in {1, 2} /\ pass[c] >= since[c]
    BY <1>1 DEF ListInv, TypeOK
  <2>3. taker[c] # Null => taker[c] \notin called[c]
    BY <2>2, <1>1 DEF ListInv, Walk
  <2> QED BY <2>1, <2>3, ListAssumption
<1>5. \A d \in Cores : Walk(d)'
  BY <1>1, <1>3, <1>4 DEF ListInv, Walk
<1>6. ~removed => \A d \in Cores : pc'[d] \in {"call", "advance"} => at'[d] \in OnList \cup {-1}
  BY <1>1, <1>3 DEF ListInv, Fresh
<1>7. ASSUME NEW pos \in [Slots -> Int], Threaded(pos),
             \A d \in Cores : pc[d] \in {"call", "advance"} => Owed(pos, d)
      PROVE  \A d \in Cores : pc'[d] \in {"call", "advance"} => Owed(pos, d)'
  <2> SUFFICES ASSUME NEW d \in Cores, pc'[d] \in {"call", "advance"} PROVE Owed(pos, d)'
    OBVIOUS
  <2>1. d # c /\ Owed(pos, d)
    BY <1>3, <1>7
  <2> QED BY <2>1, <1>1, <1>3, OthersOwed
<1> QED BY <1>1, <1>2, <1>5, <1>6, <1>7, WalkerKeeps

-----------------------------------------------------------------------------
LEMMA ListInvInit == Init => ListInv
<1> SUFFICES ASSUME Init PROVE ListInv
  OBVIOUS
<1>1. TypeOK
  <2>1. 0 \in Slots
    BY ListAssumption DEF Slots
  <2>2. op \in [pc : {"idle", "linkFront", "startFront", "linkEnd", "unlink"}, slot : Slots]
    BY <2>1 DEF Init
  <2>3. ops \in 0 .. MaxOps
    BY ListAssumption DEF Init
  <2>4. handlers \in [Slots -> Handlers \cup {Null}] /\ link \in [Slots -> Links] /\ start \in Links
    BY DEF Init, Links
  <2>5. at \in [Cores -> Links]
    BY DEF Init, Links
  <2> QED BY <2>2, <2>3, <2>4, <2>5 DEF Init, TypeOK
<1>2. OnList = {}
  BY DEF Init, OnList
<1>3. Book /\ Fresh /\ Ended /\ \A c \in Cores : Walk(c)
  BY <1>2 DEF Init, Book, Fresh, Ended, Walk
<1> DEFINE pos == [n \in Slots |-> 0]
<1>4. pos \in [Slots -> Int] /\ Threaded(pos)
  <2>1. pos \in [Slots -> Int]
    OBVIOUS
  <2> HIDE DEF pos
  <2> QED BY <1>2, <2>1 DEF Init, Threaded
<1> HIDE DEF pos
<1>5. \A c \in Cores : pc[c] \notin {"call", "advance"}
  BY DEF Init
<1> QED BY <1>1, <1>3, <1>4, <1>5 DEF ListInv

LEMMA ListInvStep ==
  ASSUME ~EndAfterSub, ListInv, [Next]_vars
  PROVE  ListInv'
<1>1. CASE AddFront
  <2>1. Free \in SUBSET Slots /\ Free # {}
    BY <1>1 DEF AddFront, Free
  <2>2. First(Free) \in Slots /\ handlers[First(Free)] = Null
    BY <2>1, FirstIs DEF Free
  <2>3. ClaimSlot("linkFront", First(Free))
    BY <1>1 DEF AddFront
  <2> QED BY <2>2, <2>3, ClaimKeeps
<1>2. CASE AddEnd
  <2>1. Free \in SUBSET Slots /\ Free # {} /\ ~removed
    BY <1>2 DEF AddEnd, Free
  <2>2. Last(Free) \in Slots /\ handlers[Last(Free)] = Null
    BY <2>1, LastIs DEF Free
  <2>3. ClaimSlot("linkEnd", Last(Free))
    BY <1>2 DEF AddEnd
  <2> QED BY <2>1, <2>2, <2>3, ClaimKeeps
<1>3. CASE LinkFront
  BY <1>3, LinkFrontKeeps
<1>4. CASE StartFront
  BY <1>4, StartFrontKeeps
<1>5. CASE LinkEnd
  BY <1>5, LinkEndKeeps
<1>6. CASE SubHandler
  BY <1>6, SubHandlerKeeps
<1>7. CASE Unlink
  BY <1>7, UnlinkKeeps
<1>8. ASSUME NEW c \in Cores, TakeExit(c) \/ Dispatch(c) PROVE ListInv'
  BY <1>8, TakeExitKeeps, CallHandlerKeeps, AdvanceKeeps, SecondPassKeeps, KillKeeps DEF Dispatch
<1>9. CASE UNCHANGED vars
  <2>1. UNCHANGED list /\ UNCHANGED << pc, at, pass, taker, since, due, called >>
    BY <1>9 DEF vars, list, walks
  <2>2. TypeOK' /\ \A c \in Cores : Walk(c)'
    BY <2>1 DEF ListInv, TypeOK, Walk, list
  <2>3. ~removed => \A c \in Cores : pc'[c] \in {"call", "advance"} => at'[c] \in OnList \cup {-1}
    BY <2>1 DEF ListInv, Fresh
  <2>4. ASSUME NEW pos \in [Slots -> Int],
               \A c \in Cores : pc[c] \in {"call", "advance"} => Owed(pos, c)
        PROVE  \A c \in Cores : pc'[c] \in {"call", "advance"} => Owed(pos, c)'
    BY <2>1, <2>4, OthersOwed
  <2> QED BY <2>1, <2>2, <2>3, <2>4, WalkerKeeps
<1> QED BY <1>1, <1>2, <1>3, <1>4, <1>5, <1>6, <1>7, <1>8, <1>9 DEF Next, ListStep

LEMMA ListInvariant == ~EndAfterSub => (Spec => []ListInv)
<1> SUFFICES ASSUME ~EndAfterSub PROVE Spec => []ListInv
  OBVIOUS
<1>1. Init => ListInv
  BY ListInvInit
<1>2. ListInv /\ [Next]_vars => ListInv'
  BY ListInvStep
<1> QED BY <1>1, <1>2, PTL DEF Spec

(* However handlers are added and removed, at the end only before the      *)
(* first removal, the links lead to slots and between two calls of         *)
(* add_handler and sub_handler they run through exactly the slots in use,  *)
(* to an end, which get_link_end and the walkers need to stop.             *)
THEOREM ListStaysWhole == ~EndAfterSub => (Spec => []ListMatchesSlots)
<1> SUFFICES ASSUME ~EndAfterSub PROVE Spec => []ListMatchesSlots
  OBVIOUS
<1>1. ListInv => ListMatchesSlots
  <2> SUFFICES ASSUME ListInv, op.pc = "idle"
               PROVE  /\ Listed = {n \in Slots : handlers[n] # Null}
                      /\ Listed # {} => \E n \in Listed : link[n] = -1
    BY DEF ListMatchesSlots, ListInv
  <2>1. Listed = OnList
    BY ListedIsOnList DEF ListInv
  <2>2. OnList = {n \in Slots : handlers[n] # Null}
    BY DEF OnList
  <2> QED BY <2>1, <2>2 DEF ListInv, Ended
<1> QED BY <1>1, ListInvariant, PTL

(* A pass over the handlers that comes to its end has called every handler *)
(* that was on the list when it began and still is, whatever call_handlers *)
(* met on its way: slots removed under it, and used again.                 *)
THEOREM NoHandlerSkipped == ~EndAfterSub => (Spec => []PassCallsAll)
<1> SUFFICES ASSUME ~EndAfterSub PROVE Spec => []PassCallsAll
  OBVIOUS
<1> QED BY ListInvariant, EndCalled, PTL

(* So call_all stops the machine only for an exit that no handler which    *)
(* stayed on the list through the second pass would have taken.            *)
THEOREM StopsOnlyUnhandled == ~EndAfterSub => (Spec => []KilledOnlyUnhandled)
<1> SUFFICES ASSUME ~EndAfterSub PROVE Spec => []KilledOnlyUnhandled
  OBVIOUS
<1>1. ListInv => KilledOnlyUnhandled
  BY DEF ListInv, Walk, KilledOnlyUnhandled
<1> QED BY <1>1, ListInvariant, PTL
=============================================================================

--------------------------- MODULE HvPool_proofs ---------------------------
(***************************************************************************)
(* Proofs about HvPool for every number of cores, page and pool size and   *)
(* set of requests.                                                        *)
(*                                                                         *)
(* The two ends move before anybody looks whether they met, so a claim     *)
(* that has not been checked yet may well overlap one of the other kind.   *)
(* What holds of every claim, checked or not, is that it lies behind its   *)
(* own end; what the check adds is that it lies before the other end at    *)
(* one moment, and the ends only move towards each other.                  *)
(***************************************************************************)
EXTENDS HvPool, TLAPS

(* A block, granted or still to be checked, lies behind the end its claim  *)
(* moved.                                                                  *)
Behind(b) ==
  /\ b.kind = "big"   => b.lo <= b.hi /\ 0 <= b.lo /\ b.hi <= usable
  /\ b.kind = "small" => b.lo <= b.hi /\ bigMemEnd <= b.lo /\ b.hi <= PoolSize

ClaimsBehind ==
  /\ \A c \in Cores : pc[c] = "check" => Behind(claim[c])
  /\ \A g \in granted : Behind(g.block)

(* Blocks of one kind never overlap, checked or not. *)
SameKindApart ==
  /\ \A g, h \in granted :
       g # h /\ g.block.kind = h.block.kind => Disjoint(g.block, h.block)
  /\ \A c \in Cores, g \in granted :
       pc[c] = "check" /\ claim[c].kind = g.block.kind =>
         Disjoint(claim[c], g.block)
  /\ \A c, d \in Cores :
       c # d /\ pc[c] = "check" /\ pc[d] = "check" /\ claim[c].kind = claim[d].kind
         => Disjoint(claim[c], claim[d])

(* Granted blocks of different kinds do not overlap: both were checked. *)
GrantedBelow ==
  \A g, h \in granted :
    g.block.kind = "big" /\ h.block.kind = "small" => g.block.hi <= h.block.lo

(* Granted blocks lie in the pool on the side their claim did not bound. *)
GrantedInPool ==
  \A g \in granted : 0 <= g.block.lo /\ g.block.hi <= PoolSize

IInv ==
  /\ TypeOK
  /\ ClaimsBehind
  /\ SameKindApart
  /\ GrantedBelow
  /\ GrantedInPool
  /\ KilledOnlyWhenExhausted

(* Rounding up to whole pages keeps a size a size. *)
LEMMA AlignsPageNat == \A n \in Nat : AlignsPage(n) \in Nat
<1> TAKE n \in Nat
<1>1. n + PageSize - 1 \in Nat
  BY PoolAssumption
<1>2. (n + PageSize - 1) \div PageSize \in Nat
  BY <1>1, PoolAssumption
<1> QED
  BY <1>2, PoolAssumption DEF AlignsPage

(* Before the first request nothing is claimed or granted. *)
LEMMA InitInvariant == Init => IInv
<1> SUFFICES ASSUME Init PROVE IInv
  OBVIOUS
<1>1. TypeOK
  <2>1. claim \in [Cores -> Claims]
    BY DEF Init, Claims
  <2>2. usable \in Nat /\ bigMemEnd \in Int /\ bigMemEnd <= PoolSize
    BY PoolAssumption DEF Init
  <2> QED
    BY <2>1, <2>2 DEF Init, TypeOK
<1>2. ClaimsBehind /\ SameKindApart /\ GrantedBelow /\ GrantedInPool
  BY DEF Init, ClaimsBehind, SameKindApart, GrantedBelow, GrantedInPool
<1>3. KilledOnlyWhenExhausted
  BY DEF Init, KilledOnlyWhenExhausted
<1> QED
  BY <1>1, <1>2, <1>3 DEF IInv

(* Type correctness is preserved by every step. *)
LEMMA TypeStep == ASSUME TypeOK, [Next]_vars PROVE TypeOK'
<1> USE DEF TypeOK
<1>1. CASE InitPool
  BY <1>1 DEF InitPool
<1>2. ASSUME NEW c \in Cores, RefuseNoPool(c) PROVE TypeOK'
  BY <1>2 DEF RefuseNoPool, Start
<1>3. ASSUME NEW c \in Cores, TakeBig(c) PROVE TypeOK'
  <2>1. PICK n \in Requests :
          /\ usable' = usable + AlignsPage(n)
          /\ claim' = [claim EXCEPT ![c] =
                         [kind |-> "big", lo |-> usable, hi |-> usable']]
    BY <1>3 DEF TakeBig
  <2>2. usable' \in Nat
    BY <2>1, AlignsPageNat, PoolAssumption
  <2>3. [kind |-> "big", lo |-> usable, hi |-> usable'] \in Claims
    BY <2>2 DEF Claims
  <2> QED
    BY <1>3, <2>1, <2>2, <2>3 DEF TakeBig, Start
<1>4. ASSUME NEW c \in Cores, TakeSmall(c) PROVE TypeOK'
  <2>1. PICK n \in Requests :
          /\ bigMemEnd' = bigMemEnd - n
          /\ claim' = [claim EXCEPT ![c] =
                         [kind |-> "small", lo |-> bigMemEnd', hi |-> bigMemEnd]]
    BY <1>4 DEF TakeSmall
  <2>2. bigMemEnd' \in Int /\ bigMemEnd' <= PoolSize
    BY <2>1, PoolAssumption
  <2>3. [kind |-> "small", lo |-> bigMemEnd', hi |-> bigMemEnd] \in Claims
    BY <2>2 DEF Claims
  <2> QED
    BY <1>4, <2>1, <2>2, <2>3 DEF TakeSmall, Start
<1>5. ASSUME NEW c \in Cores, Return(c) PROVE TypeOK'
  <2>1. [by |-> c, nth |-> made[c], block |-> claim[c]] \in Grants
    BY DEF Grants
  <2> QED
    BY <1>5, <2>1 DEF Return
<1>6. ASSUME NEW c \in Cores, Kill(c) PROVE TypeOK'
  BY <1>6 DEF Kill
<1>7. CASE UNCHANGED vars
  BY <1>7 DEF vars
<1> QED
  BY <1>1, <1>2, <1>3, <1>4, <1>5, <1>6, <1>7 DEF Next

(* The invariant is kept by a big claim. *)
LEMMA TakeBigStep ==
  ASSUME IInv, TypeOK', NEW c \in Cores, TakeBig(c) PROVE IInv'
<1> USE DEF IInv, TypeOK
<1>1. PICK n \in Requests :
        /\ usable' = usable + AlignsPage(n)
        /\ claim' = [claim EXCEPT ![c] =
                       [kind |-> "big", lo |-> usable, hi |-> usable']]
  BY DEF TakeBig
<1>2. usable' >= usable
  BY <1>1, AlignsPageNat, PoolAssumption
<1>3. /\ pc' = [pc EXCEPT ![c] = "check"] /\ pc[c] = "idle"
      /\ UNCHANGED << bigMemEnd, granted >>
  BY DEF TakeBig, Start
<1>4. claim'[c] = [kind |-> "big", lo |-> usable, hi |-> usable']
  BY <1>1
<1>5. \A d \in Cores : d # c => claim'[d] = claim[d] /\ pc'[d] = pc[d]
  BY <1>1, <1>3
<1>6. ASSUME NEW b \in Claims, Behind(b) PROVE Behind(b)'
  BY <1>2, <1>3, <1>6 DEF Behind, Claims
<1>7. ASSUME NEW b \in Claims, Behind(b), b.kind = "big"
      PROVE  Disjoint(claim'[c], b)
  BY <1>4, <1>7 DEF Behind, Claims, Disjoint
<1>8. ClaimsBehind'
  <2>1. Behind(claim[c])'
    BY <1>2, <1>4 DEF Behind
  <2>2. \A d \in Cores : pc'[d] = "check" => Behind(claim[d])'
    BY <2>1, <1>5, <1>6 DEF ClaimsBehind, Behind
  <2>3. \A g \in granted : g.block \in Claims
    BY DEF Grants
  <2> QED
    BY <2>2, <2>3, <1>3, <1>6 DEF ClaimsBehind
<1>9. SameKindApart'
  <2>1. \A g \in granted : g.block \in Claims /\ Behind(g.block)
    BY DEF Grants, ClaimsBehind
  <2>2. \A d \in Cores : pc[d] = "check" => Behind(claim[d])
    BY DEF ClaimsBehind
  <2>3. \A g \in granted : claim'[c].kind = g.block.kind =>
          Disjoint(claim'[c], g.block)
    BY <2>1, <1>4, <1>7
  <2>4. \A d \in Cores : d # c /\ pc[d] = "check" /\ claim[d].kind = "big" =>
          Disjoint(claim'[c], claim[d]) /\ Disjoint(claim[d], claim'[c])
    BY <2>2, <1>7 DEF Disjoint
  <2> QED
    BY <2>3, <2>4, <1>3, <1>4, <1>5 DEF SameKindApart
<1>10. GrantedBelow' /\ GrantedInPool'
  BY <1>3 DEF GrantedBelow, GrantedInPool
<1>11. KilledOnlyWhenExhausted'
  BY <1>2, <1>3 DEF KilledOnlyWhenExhausted
<1> QED
  BY <1>8, <1>9, <1>10, <1>11

(* The invariant is kept by a small claim. *)
LEMMA TakeSmallStep ==
  ASSUME IInv, TypeOK', NEW c \in Cores, TakeSmall(c) PROVE IInv'
<1> USE DEF IInv, TypeOK
<1>1. PICK n \in Requests :
        /\ bigMemEnd' = bigMemEnd - n
        /\ claim' = [claim EXCEPT ![c] =
                       [kind |-> "small", lo |-> bigMemEnd', hi |-> bigMemEnd]]
  BY DEF TakeSmall
<1>2. bigMemEnd' <= bigMemEnd
  BY <1>1, PoolAssumption
<1>3. /\ pc' = [pc EXCEPT ![c] = "check"] /\ pc[c] = "idle"
      /\ UNCHANGED << usable, granted >>
  BY DEF TakeSmall, Start
<1>4. claim'[c] = [kind |-> "small", lo |-> bigMemEnd', hi |-> bigMemEnd]
  BY <1>1
<1>5. \A d \in Cores : d # c => claim'[d] = claim[d] /\ pc'[d] = pc[d]
  BY <1>1, <1>3
<1>6. ASSUME NEW b \in Claims, Behind(b) PROVE Behind(b)'
  BY <1>2, <1>3, <1>6 DEF Behind, Claims
<1>7. ASSUME NEW b \in Claims, Behind(b), b.kind = "small"
      PROVE  Disjoint(claim'[c], b)
  BY <1>4, <1>7 DEF Behind, Claims, Disjoint
<1>8. ClaimsBehind'
  <2>1. Behind(claim[c])'
    BY <1>2, <1>4, PoolAssumption DEF Behind
  <2>2. \A d \in Cores : pc'[d] = "check" => Behind(claim[d])'
    BY <2>1, <1>5, <1>6 DEF ClaimsBehind, Behind
  <2>3. \A g \in granted : g.block \in Claims
    BY DEF Grants
  <2> QED
    BY <2>2, <2>3, <1>3, <1>6 DEF ClaimsBehind
<1>9. SameKindApart'
  <2>1. \A g \in granted : g.block \in Claims /\ Behind(g.block)
    BY DEF Grants, ClaimsBehind
  <2>2. \A d \in Cores : pc[d] = "check" => Behind(claim[d])
    BY DEF ClaimsBehind
  <2>3. \A g \in granted : claim'[c].kind = g.block.kind =>
          Disjoint(claim'[c], g.block)
    BY <2>1, <1>4, <1>7
  <2>4. \A d \in Cores : d # c /\ pc[d] = "check" /\ claim[d].kind = "small" =>
          Disjoint(claim'[c], claim[d]) /\ Disjoint(claim[d], claim'[c])
    BY <2>2, <1>7 DEF Disjoint
  <2> QED
    BY <2>3, <2>4, <1>3, <1>4, <1>5 DEF SameKindApart
<1>10. GrantedBelow' /\ GrantedInPool'
  BY <1>3 DEF GrantedBelow, GrantedInPool
<1>11. KilledOnlyWhenExhausted'
  BY <1>2, <1>3 DEF KilledOnlyWhenExhausted
<1> QED
  BY <1>8, <1>9, <1>10, <1>11

(* The invariant is kept when a checked claim is returned. *)
LEMMA ReturnStep ==
  ASSUME IInv, TypeOK', NEW c \in Cores, Return(c) PROVE IInv'
<1> USE DEF IInv, TypeOK
<1> DEFINE new == [by |-> c, nth |-> made[c], block |-> claim[c]]
<1>1. /\ pc[c] = "check" /\ Fits(c)
      /\ granted' = granted \cup {new}
      /\ pc' = [pc EXCEPT ![c] = "idle"]
      /\ UNCHANGED << usable, bigMemEnd, claim >>
  BY DEF Return
<1>2. \A g \in granted : g.block \in Claims /\ Behind(g.block)
  BY DEF Grants, ClaimsBehind
<1>3. claim[c] \in Claims /\ Behind(claim[c]) /\ new.block = claim[c]
  BY <1>1 DEF ClaimsBehind
<1> HIDE DEF new
<1>4. \A b : Behind(b)' = Behind(b)
  BY <1>1 DEF Behind
<1>5. ClaimsBehind'
  BY <1>1, <1>3, <1>4 DEF ClaimsBehind, Behind
<1>6. SameKindApart'
  <2>1. \A g \in granted : g.block.kind = claim[c].kind =>
          Disjoint(new.block, g.block) /\ Disjoint(g.block, new.block)
    BY <1>1, <1>3 DEF SameKindApart, Disjoint
  <2>2. \A d \in Cores : d # c /\ pc[d] = "check" /\ claim[d].kind = claim[c].kind =>
          Disjoint(claim[d], new.block)
    BY <1>1, <1>3 DEF SameKindApart
  <2> QED
    BY <1>1, <1>3, <2>1, <2>2 DEF SameKindApart
<1>7. GrantedBelow'
  <2>1. CASE claim[c].kind = "big"
    <3>1. \A h \in granted : h.block.kind = "small" =>
            new.block.hi <= h.block.lo
      BY <1>1, <1>2, <1>3, <2>1 DEF Fits, Behind, Claims
    <3> QED
      BY <1>1, <1>3, <2>1, <3>1 DEF GrantedBelow
  <2>2. CASE claim[c].kind = "small"
    <3>1. \A g \in granted : g.block.kind = "big" =>
            g.block.hi <= new.block.lo
      BY <1>1, <1>2, <1>3, <2>2 DEF Fits, Behind, Claims
    <3> QED
      BY <1>1, <1>3, <2>2, <3>1 DEF GrantedBelow
  <2> QED
    BY <1>3, <2>1, <2>2 DEF Claims
<1>8. GrantedInPool'
  <2>1. 0 <= new.block.lo /\ new.block.hi <= PoolSize
    BY <1>1, <1>3, PoolAssumption DEF Fits, Behind, Claims
  <2> QED
    BY <1>1, <2>1 DEF GrantedInPool
<1>9. KilledOnlyWhenExhausted'
  BY <1>1 DEF KilledOnlyWhenExhausted
<1> QED
  BY <1>5, <1>6, <1>7, <1>8, <1>9

(* A core is killed only when the ends have crossed. *)
LEMMA KillStep ==
  ASSUME IInv, TypeOK', NEW c \in Cores, Kill(c) PROVE IInv'
<1> USE DEF IInv, TypeOK
<1>1. /\ pc[c] = "check" /\ ~Fits(c)
      /\ pc' = [pc EXCEPT ![c] = "killed"]
      /\ UNCHANGED << usable, bigMemEnd, claim, granted >>
  BY DEF Kill
<1>2. ClaimsBehind' /\ SameKindApart'
  BY <1>1 DEF ClaimsBehind, Behind, SameKindApart
<1>3. GrantedBelow' /\ GrantedInPool'
  BY <1>1 DEF GrantedBelow, GrantedInPool
<1>4. bigMemEnd < usable
  BY <1>1 DEF Fits, ClaimsBehind, Behind, Claims
<1> QED
  BY <1>1, <1>2, <1>3, <1>4 DEF KilledOnlyWhenExhausted

(* The invariant is inductive. *)
LEMMA Inductive == IInv /\ [Next]_vars => IInv'
<1> SUFFICES ASSUME IInv, [Next]_vars PROVE IInv'
  OBVIOUS
<1>1. TypeOK'
  BY TypeStep DEF IInv
<1>2. ASSUME UNCHANGED << usable, bigMemEnd, pc, claim, granted >> PROVE IInv'
  BY <1>1, <1>2 DEF IInv, ClaimsBehind, Behind, SameKindApart, GrantedBelow,
                    GrantedInPool, KilledOnlyWhenExhausted
<1>3. CASE InitPool
  BY <1>2, <1>3 DEF InitPool
<1>4. ASSUME NEW c \in Cores, RefuseNoPool(c) PROVE IInv'
  BY <1>2, <1>4 DEF RefuseNoPool
<1>5. CASE UNCHANGED vars
  BY <1>2, <1>5 DEF vars
<1> QED
  BY <1>1, <1>3, <1>4, <1>5, TakeBigStep, TakeSmallStep, ReturnStep, KillStep
     DEF Next

(* The variables keep their types, whatever the callers ask for. *)
THEOREM PoolTypeCorrect == Spec => []TypeOK
<1> QED
  BY InitInvariant, Inductive, PTL DEF Spec, IInv

(* ALhvMMallocateMemory never hands out overlapping memory, nor memory     *)
(* outside the pool, however its callers interleave.                       *)
THEOREM PoolGrantsDisjoint == Spec => []GrantsDisjoint
<1>1. IInv => GrantsDisjoint
  <2> SUFFICES ASSUME IInv, NEW g \in granted, NEW h \in granted, g # h
               PROVE  Disjoint(g.block, h.block)
    BY DEF IInv, GrantsDisjoint, GrantedInPool
  <2> USE DEF IInv
  <2>1. g.block \in Claims /\ h.block \in Claims
    BY DEF TypeOK, Grants
  <2>2. CASE g.block.kind = h.block.kind
    BY <2>2 DEF SameKindApart
  <2>3. CASE g.block.kind # h.block.kind
    BY <2>1, <2>3 DEF GrantedBelow, Disjoint, Claims
  <2> QED
    BY <2>2, <2>3
<1> QED
  BY <1>1, InitInvariant, Inductive, PTL DEF Spec

(* No core is stopped while all requests made so far fit the pool. *)
THEOREM PoolKillsOnlyWhenExhausted == Spec => []KilledOnlyWhenExhausted
<1> QED
  BY InitInvariant, Inductive, PTL DEF Spec, IInv

-----------------------------------------------------------------------------
(***************************************************************************)
(* Alignment.  It does not depend on the checks: the lower end only ever   *)
(* moves by whole pages, so every big claim starts on one.                 *)
(***************************************************************************)
Whole(n) == \E k \in Nat : n = k * PageSize

AllWhole ==
  /\ Whole(usable)
  /\ \A c \in Cores : pc[c] = "check" /\ claim[c].kind = "big" => Whole(claim[c].lo)
  /\ \A g \in granted : g.block.kind = "big" => Whole(g.block.lo)

(* A multiple of a positive number leaves nothing over. *)
LEMMA MultipleMod ==
  ASSUME NEW P \in Nat \ {0}, NEW k \in Nat PROVE (k * P) % P = 0
<1> DEFINE d == (k * P) \div P
           m == (k * P) % P
           x == k - d
<1>1. d \in Nat /\ m \in 0 .. P - 1 /\ k * P = P * d + m
  OBVIOUS
<1> HIDE DEF d, m
<1>2. P * x = m /\ x \in Int
  BY <1>1
<1> HIDE DEF x
<1>3. ~(x >= 1) /\ ~(x <= -1)
  <2>1. x >= 1 => P * x >= P
    BY <1>2
  <2>2. x <= -1 => P * x < 0
    BY <1>2
  <2> QED
    BY <1>1, <1>2, <2>1, <2>2
<1> QED
  BY <1>2, <1>3 DEF m

(* Whole pages and a big request's pages are whole pages. *)
LEMMA WholeGrows ==
  ASSUME NEW u \in Nat, Whole(u), NEW n \in Nat PROVE Whole(u + AlignsPage(n))
<1>1. PICK k \in Nat : u = k * PageSize
  BY DEF Whole
<1> DEFINE j == (n + PageSize - 1) \div PageSize
<1>2. j \in Nat
  BY PoolAssumption
<1> HIDE DEF j
<1>3. u + j * PageSize = (k + j) * PageSize
  BY <1>1, <1>2, PoolAssumption
<1> QED
  BY <1>2, <1>3 DEF Whole, AlignsPage, j

LEMMA WholeInit == Init => AllWhole
<1>1. 0 = 0 * PageSize
  BY PoolAssumption
<1> QED
  BY <1>1 DEF Init, AllWhole, Whole

LEMMA WholeStep == TypeOK /\ AllWhole /\ [Next]_vars => AllWhole'
<1> SUFFICES ASSUME TypeOK, AllWhole, [Next]_vars PROVE AllWhole'
  OBVIOUS
<1> USE DEF TypeOK
<1>1. ASSUME NEW c \in Cores, TakeBig(c) PROVE AllWhole'
  <2>1. PICK n \in Requests :
          /\ usable' = usable + AlignsPage(n)
          /\ claim' = [claim EXCEPT ![c] =
                         [kind |-> "big", lo |-> usable, hi |-> usable']]
    BY <1>1 DEF TakeBig
  <2>2. Whole(usable) /\ Whole(usable')
    BY <2>1, WholeGrows, PoolAssumption DEF AllWhole
  <2>3. /\ pc' = [pc EXCEPT ![c] = "check"] /\ UNCHANGED granted
    BY <1>1 DEF TakeBig
  <2>4. \A d \in Cores : pc'[d] = "check" /\ claim'[d].kind = "big" => Whole(claim'[d].lo)
    BY <2>1, <2>2, <2>3 DEF AllWhole
  <2>5. \A g \in granted' : g.block.kind = "big" => Whole(g.block.lo)
    BY <2>3 DEF AllWhole
  <2> QED
    BY <2>2, <2>4, <2>5 DEF AllWhole, Whole
<1>2. ASSUME NEW c \in Cores, TakeSmall(c) PROVE AllWhole'
  <2>1. /\ UNCHANGED << usable, granted >>
        /\ pc' = [pc EXCEPT ![c] = "check"]
        /\ claim'[c].kind = "small"
        /\ \A d \in Cores \ {c} : claim'[d] = claim[d]
    BY <1>2 DEF TakeSmall
  <2> QED
    BY <2>1 DEF AllWhole, Whole
<1>3. ASSUME NEW c \in Cores, Return(c) PROVE AllWhole'
  <2>1. /\ UNCHANGED << usable, claim >> /\ pc[c] = "check"
        /\ pc' = [pc EXCEPT ![c] = "idle"]
        /\ \A g \in granted' : g \in granted \/ g.block = claim[c]
    BY <1>3 DEF Return
  <2> QED
    BY <2>1 DEF AllWhole, Whole
<1>4. ASSUME NEW c \in Cores, Kill(c) PROVE AllWhole'
  BY <1>4 DEF Kill, AllWhole, Whole
<1>5. ASSUME UNCHANGED << usable, pc, claim, granted >> PROVE AllWhole'
  BY <1>5 DEF AllWhole, Whole
<1>6. CASE InitPool
  BY <1>5, <1>6 DEF InitPool
<1>7. ASSUME NEW c \in Cores, RefuseNoPool(c) PROVE AllWhole'
  BY <1>5, <1>7 DEF RefuseNoPool
<1>8. CASE UNCHANGED vars
  BY <1>5, <1>8 DEF vars
<1> QED
  BY <1>1, <1>2, <1>3, <1>4, <1>6, <1>7, <1>8 DEF Next

(* Every block of a page or more that ALhvMMallocateMemory returns starts  *)
(* on a page, whatever sizes were asked for before and by whom.            *)
THEOREM PoolPagesAligned == Spec => []PagesAligned
<1>1. AllWhole => PagesAligned
  BY MultipleMod, PoolAssumption DEF AllWhole, Whole, PagesAligned
<1> QED
  BY PoolTypeCorrect, WholeInit, WholeStep, <1>1, PTL DEF Spec
=============================================================================

--------------------------- MODULE EptTables_proofs ---------------------------
(***************************************************************************)
(* The EPT tables implement the views they promise, for tables of any      *)
(* size, any number of them and any number of calls of set_pte.            *)
(***************************************************************************)
EXTENDS EptTables, TLAPS

-----------------------------------------------------------------------------
(* Pages as three digits in base Fanout. *)
PageOf(a, b, c) == (a * Fanout + b) * Fanout + c

LEMMA Fanouts == Fanout \in Nat /\ Fanout > 0 /\ 0 \in Index
BY EptAssumption DEF Index

LEMMA Products == \A a, b \in Nat : a * b \in Nat
OBVIOUS

LEMMA DivMod ==
  ASSUME NEW n \in Nat, n > 0, NEW p \in Nat
  PROVE  p \div n \in Nat /\ p % n \in 0 .. n - 1 /\ p = (p \div n) * n + (p % n)
OBVIOUS

LEMMA DivBelow ==
  ASSUME NEW n \in Nat, n > 0, NEW p \in Nat, NEW m \in Nat, p < m * n
  PROVE  p \div n < m
<1>1. SUFFICES ASSUME m <= p \div n PROVE FALSE
  BY DivMod
<1>2. PICK d \in Nat : p \div n = m + d
  BY <1>1, DivMod
<1>3. (p \div n) * n = m * n + d * n /\ d * n \in Nat /\ m * n \in Nat
  BY <1>2
<1> QED BY <1>3, DivMod

LEMMA DivTwice ==
  ASSUME NEW n \in Nat, n > 0, NEW p \in Nat
  PROVE  (p \div n) \div n = p \div (n * n)
<1> DEFINE q == p \div n   r == p % n   a == q \div n   b == q % n
<1>1. q \in Nat /\ r \in 0 .. n - 1 /\ p = q * n + r
  BY DivMod
<1> HIDE DEF q, r
<1>2. a \in Nat /\ b \in 0 .. n - 1 /\ q = a * n + b
  BY <1>1, DivMod
<1> HIDE DEF a, b
<1>3. p = a * (n * n) + (b * n + r)
  BY <1>1, <1>2
<1>4. b * n + r \in 0 .. n * n - 1 /\ n * n \in Nat /\ n * n > 0
  <2>1. PICK d \in Nat : n = b + 1 + d
    <3>1. n - b - 1 \in Nat /\ n = b + 1 + (n - b - 1)
      BY <1>2
    <3> QED BY <3>1
  <2>2. n * n = b * n + n + d * n
    BY <2>1, <1>2
  <2>3. d * n \in Nat /\ b * n \in Nat
    BY <2>1, <1>2, Products
  <2> QED BY <2>2, <2>3, <1>1
<1>5. p \div (n * n) = a
  BY <1>2, <1>3, <1>4
<1> QED BY <1>5 DEF a, q

LEMMA Slots ==
  ASSUME NEW p \in Pages
  PROVE  /\ Slot(p, 2) \in Index /\ Slot(p, 3) \in Index /\ Slot(p, 4) \in Index
         /\ p = PageOf(Slot(p, 2), Slot(p, 3), Slot(p, 4))
         /\ p \in Nat
         /\ (p \div Fanout) * Fanout = PageOf(Slot(p, 2), Slot(p, 3), 0)
<1>1. p \in Nat /\ p < Fanout * (Fanout * Fanout) /\ Fanout * Fanout \in Nat
      /\ Fanout * Fanout > 0
  BY Fanouts, Products DEF Pages
<1> DEFINE q == p \div Fanout
<1>2. q \in Nat /\ p % Fanout \in 0 .. Fanout - 1 /\ p = q * Fanout + (p % Fanout)
  BY <1>1, Fanouts, DivMod
<1>3. q % Fanout \in 0 .. Fanout - 1 /\ q = (q \div Fanout) * Fanout + (q % Fanout)
  BY <1>2, Fanouts, DivMod
<1>4. q \div Fanout = p \div (Fanout * Fanout)
  BY <1>1, Fanouts, DivTwice
<1>5. p \div (Fanout * Fanout) \in 0 .. Fanout - 1
  <2>1. p \div (Fanout * Fanout) < Fanout
    BY <1>1, Fanouts, DivBelow
  <2>2. p \div (Fanout * Fanout) \in Nat
    BY <1>1, DivMod
  <2> QED BY <2>1, <2>2, Fanouts
<1>6. Slot(p, 2) = q \div Fanout /\ Slot(p, 3) = q % Fanout /\ Slot(p, 4) = p % Fanout
  BY <1>4 DEF Slot
<1> HIDE DEF q
<1>7. q = Slot(p, 2) * Fanout + Slot(p, 3)
  BY <1>3, <1>6
<1>8. p = PageOf(Slot(p, 2), Slot(p, 3), Slot(p, 4))
  BY <1>2, <1>6, <1>7 DEF PageOf
<1>9. q * Fanout = PageOf(Slot(p, 2), Slot(p, 3), 0)
  <2>1. q * Fanout \in Nat
    BY <1>2, Fanouts, Products
  <2> QED BY <1>7, <2>1 DEF PageOf
<1> QED BY <1>1, <1>2, <1>3, <1>4, <1>5, <1>6, <1>8, <1>9 DEF Index, q

LEMMA PageNumbers ==
  ASSUME NEW a \in Index, NEW b \in Index, NEW c \in Index
  PROVE  /\ PageOf(a, b, c) \in Nat
         /\ PageOf(a, b, 0) + c = PageOf(a, b, c)
         /\ PageOf(0, 0, c) = c
         /\ PageOf(a, b, 0) = (a * Fanout + b) * Fanout
<1>1. a \in Nat /\ b \in Nat /\ c \in Nat
  BY Fanouts DEF Index
<1>2. a * Fanout + b \in Nat
  BY <1>1, Fanouts, Products
<1>3. (a * Fanout + b) * Fanout \in Nat
  BY <1>2, Fanouts, Products
<1>4. (0 * Fanout + 0) * Fanout = 0
  BY Fanouts
<1> QED BY <1>1, <1>3, <1>4 DEF PageOf

-----------------------------------------------------------------------------
(***************************************************************************)
(* The shape of the tables: the level each is of, the view it belongs to,  *)
(* and the slots by which it is reached from the PML4.                     *)
(***************************************************************************)
Shape == [level : 2 .. 4, owner : Views, at2 : Index, at3 : Index]

(* Entry e of a table of shape s leads to a table of the level below, at   *)
(* the slots s2 and s3, of const_ept's or of the same view; to a table of  *)
(* the view's own it leads with all rights.                                *)
Child(sh, last, s, e, level, s2, s3) ==
  /\ e.to \in 1 .. last
  /\ sh[e.to].level = level /\ sh[e.to].at2 = s2
  /\ level = 4 => sh[e.to].at3 = s3
  /\ sh[e.to].owner \in {Const, s.owner}
  /\ sh[e.to].owner # Const => e.rights = RWX

(* What entry i of a table of shape s may be.  No entry of a view takes    *)
(* away reading or writing, and what a page maps to never changes.         *)
EntryOk(sh, last, s, e, i) ==
  /\ {"r", "w"} \subseteq e.rights
  /\ s.level = 2 => Child(sh, last, s, e, 3, i, 0)
  /\ s.level = 3 => IF e.large THEN e.to = PageOf(s.at2, i, 0)
                    ELSE Child(sh, last, s, e, 4, s.at2, i)
  /\ s.level = 4 => e.to = PageOf(s.at2, s.at3, i)

ConstShape(sh) ==
  /\ used >= FirstPt
  /\ \A t \in ConstTables :
       sh[t].owner = Const /\ \A i \in Index : table[t][i] = ConstEntry(t, i)
  /\ \A t \in 1 .. used : sh[t].owner = Const => t \in ConstTables
  /\ sh[1].level = 2
  /\ \A i \in Index : sh[2 + i].level = 3 /\ sh[2 + i].at2 = i
  /\ sh[FirstPt].level = 4 /\ sh[FirstPt].at2 = 0 /\ sh[FirstPt].at3 = 0

TablesShape(sh) ==
  \A t \in 1 .. used, i \in Index : EntryOk(sh, used, sh[t], table[t][i], i)

RootShape(sh) ==
  /\ root[Const] = [rights |-> RWX, to |-> 1, large |-> FALSE]
  /\ \A v \in Views : Made(v) =>
       /\ root[v].rights = RWX
       /\ root[v].to \in 1 .. used /\ sh[root[v].to].level = 2
       /\ sh[root[v].to].owner \in {Const, v}

(* A table made by the call under way, not linked yet. *)
NewOk(sh, n, level) ==
  /\ n \in FirstPt + 1 .. used
  /\ sh[n] = [level |-> level, owner |-> req.view,
              at2 |-> Slot(req.page, 2), at3 |-> Slot(req.page, 3)]

OwnPath(sh, v, p) ==
  /\ sh[Pml4e(v).to].owner = v /\ sh[Pdpte(v, p).to].owner = v
  /\ ~Pde(v, p).large => sh[Pde(v, p).to].owner = v

Linking(sh) ==
  LET n == fresh.entry.to
      e == EntryAt(req.view, req.page, fresh.level)
  IN /\ fresh.level \in 1 .. 3 /\ fresh.level = NeedRemap(req.view, req.page)
     /\ NewOk(sh, n, fresh.level + 1)
     /\ table[n] = WithRights(table[e.to], e.rights)
     /\ fresh.entry = [e EXCEPT !.to = n, !.rights = RWX]

LinkingPde(sh) ==
  LET n == fresh.entry.to
      e == Pde(req.view, req.page)
  IN /\ e.large /\ NewOk(sh, n, 4)
     /\ fresh.entry = [rights |-> RWX, to |-> n, large |-> FALSE]
     /\ table[n] = SmallPages(req.page, e.rights)

CallShape(sh) ==
  /\ pc # "idle" => /\ req.view \in {Vice, Target} /\ Made(req.view)
                    /\ req.pte.to = req.page /\ {"r", "w"} \subseteq req.pte.rights
  /\ pc = "link" => Linking(sh)
  /\ pc \in {"set", "linkPde"} => OwnPath(sh, req.view, req.page)
  /\ pc = "linkPde" => LinkingPde(sh)

Shaped(sh) ==
  /\ sh \in [Tables -> Shape]
  /\ TypeOK /\ ConstShape(sh) /\ TablesShape(sh) /\ RootShape(sh) /\ CallShape(sh)

IInv == \E sh \in [Tables -> Shape] : Shaped(sh)

-----------------------------------------------------------------------------
(* const_ept's tables. *)
LEMMA ConstTableIs ==
  /\ FirstPt \in Nat /\ FirstPt = Fanout + 2 /\ FirstPt \in Tables /\ 1 \in Tables
  /\ ConstTables = 1 .. FirstPt /\ ConstTables \subseteq Tables
  /\ \A i \in Index : 2 + i \in ConstTables /\ 2 + i # FirstPt
  /\ 1 \in ConstTables /\ FirstPt \in ConstTables /\ FirstPt # 1
  /\ \A t \in ConstTables : t = 1 \/ t = FirstPt \/ \E i \in Index : t = 2 + i
<1>1. /\ FirstPt \in Nat /\ FirstPt = Fanout + 2 /\ FirstPt \in Tables /\ 1 \in Tables
      /\ ConstTables = 1 .. FirstPt /\ ConstTables \subseteq Tables
      /\ 1 \in ConstTables /\ FirstPt \in ConstTables /\ FirstPt # 1
  BY EptAssumption DEF FirstPt, ConstTables, Tables
<1>2. \A i \in Index : 2 + i \in ConstTables /\ 2 + i # FirstPt
  BY EptAssumption DEF FirstPt, ConstTables, Index
<1>3. ASSUME NEW t \in ConstTables, t # 1, t # FirstPt
      PROVE  \E i \in Index : t = 2 + i
  <2>1. t - 2 \in Index /\ t = 2 + (t - 2)
    BY <1>3, EptAssumption DEF FirstPt, ConstTables, Index
  <2> QED BY <2>1
<1> QED BY <1>1, <1>2, <1>3

LEMMA ConstEntryIs ==
  /\ \A i \in Index : ConstEntry(1, i) = [rights |-> RWX, large |-> FALSE, to |-> 2 + i]
  /\ \A i \in Index : ConstEntry(FirstPt, i) = [rights |-> RWX, large |-> FALSE, to |-> i]
  /\ ConstEntry(2, 0) = [rights |-> RWX, large |-> FALSE, to |-> FirstPt]
  /\ \A i, j \in Index : << i, j >> # << 0, 0 >> =>
       ConstEntry(2 + i, j) = [rights |-> RWX, large |-> TRUE, to |-> PageOf(i, j, 0)]
<1> USE ConstTableIs, Fanouts
<1>1. ASSUME NEW i \in Index
      PROVE  ConstEntry(1, i) = [rights |-> RWX, large |-> FALSE, to |-> 2 + i]
  <2>1. 1 # FirstPt /\ << 1, i >> # << 2, 0 >> /\ (1 \in 2 .. Fanout + 1) = FALSE
    OBVIOUS
  <2> QED BY Zenon, <2>1 DEF ConstEntry
<1>2. ASSUME NEW i \in Index
      PROVE  ConstEntry(FirstPt, i) = [rights |-> RWX, large |-> FALSE, to |-> i]
  <2>1. 1 # FirstPt /\ << FirstPt, i >> # << 2, 0 >> /\ (FirstPt \in 2 .. Fanout + 1) = FALSE
    BY DEF FirstPt
  <2> QED BY Zenon, <2>1 DEF ConstEntry
<1>3. ConstEntry(2, 0) = [rights |-> RWX, large |-> FALSE, to |-> FirstPt]
  <2>1. 2 # 1 /\ 2 # FirstPt
    BY DEF FirstPt
  <2> QED BY Zenon, <2>1 DEF ConstEntry
<1>4. ASSUME NEW i \in Index, NEW j \in Index, << i, j >> # << 0, 0 >>
      PROVE  ConstEntry(2 + i, j) = [rights |-> RWX, large |-> TRUE, to |-> PageOf(i, j, 0)]
  <2>1. 2 + i # 1 /\ 2 + i # FirstPt /\ 2 + i \in 2 .. Fanout + 1 /\ (2 + i) - 2 = i
    BY DEF Index, FirstPt
  <2>2. << 2 + i, j >> # << 2, 0 >>
    BY <1>4 DEF Index
  <2>3. PageOf(i, j, 0) = (((2 + i) - 2) * Fanout + j) * Fanout
    BY <2>1, PageNumbers
  <2> QED BY <2>1, <2>2, <2>3 DEF ConstEntry
<1> QED BY <1>1, <1>2, <1>3, <1>4

LEMMA NeedRemapIs ==
  ASSUME NEW v, NEW p
  PROVE  /\ NeedRemap(v, p) \in 0 .. 3
         /\ NeedRemap(v, p) = 1 => Pml4e(v).to = Pml4e(Const).to
         /\ NeedRemap(v, p) = 2 => /\ Pml4e(v).to # Pml4e(Const).to
                                   /\ Pdpte(v, p).to = Pdpte(Const, p).to
         /\ NeedRemap(v, p) = 3 => /\ Pml4e(v).to # Pml4e(Const).to
                                   /\ Pdpte(v, p).to # Pdpte(Const, p).to
                                   /\ ~Pde(v, p).large /\ ~Pde(Const, p).large
                                   /\ Pde(v, p).to = Pde(Const, p).to
         /\ NeedRemap(v, p) = 0 => /\ Pml4e(v).to # Pml4e(Const).to
                                   /\ Pdpte(v, p).to # Pdpte(Const, p).to
                                   /\ ~Pde(v, p).large => Pde(Const, p).large
                                        \/ Pde(v, p).to # Pde(Const, p).to
<1> DEFINE A == Pml4e(v).to = Pml4e(Const).to
           B == Pdpte(v, p).to = Pdpte(Const, p).to
           C == /\ ~Pde(v, p).large /\ ~Pde(Const, p).large
                /\ Pde(v, p).to = Pde(Const, p).to
<1>1. CASE A
  <2>1. NeedRemap(v, p) = 1
    BY Zenon, <1>1 DEF NeedRemap
  <2> QED BY <1>1, <2>1
<1>2. CASE ~A /\ B
  <2>1. NeedRemap(v, p) = 2
    BY Zenon, <1>2 DEF NeedRemap
  <2> QED BY <1>2, <2>1
<1>3. CASE ~A /\ ~B
  <2>1. NeedRemap(v, p) = IF C THEN 3 ELSE 0
    BY Zenon, <1>3 DEF NeedRemap
  <2> QED BY <1>3, <2>1
<1> QED BY <1>1, <1>2, <1>3

(* A table of a shape that belongs to const_ept is the one of that shape.  *)
LEMMA ConstByShape ==
  ASSUME NEW sh, Shaped(sh), NEW t \in 1 .. used, sh[t].owner = Const
  PROVE  /\ t \in ConstTables
         /\ sh[t].level = 2 => t = 1
         /\ sh[t].level = 3 => t = 2 + sh[t].at2
         /\ sh[t].level = 4 => t = FirstPt /\ sh[t].at2 = 0 /\ sh[t].at3 = 0
<1>1. t \in ConstTables
  BY DEF Shaped, ConstShape
<1>2. /\ sh[1].level = 2 /\ sh[FirstPt].level = 4
      /\ sh[FirstPt].at2 = 0 /\ sh[FirstPt].at3 = 0
      /\ \A i \in Index : sh[2 + i].level = 3 /\ sh[2 + i].at2 = i
  BY DEF Shaped, ConstShape
<1>3. t = 1 \/ t = FirstPt \/ \E i \in Index : t = 2 + i
  BY <1>1, ConstTableIs
<1> QED BY <1>1, <1>2, <1>3

LEMMA Retarget ==
  ASSUME NEW e \in Entry, NEW n \in Nat, NEW r \in SUBSET RWX
  PROVE  /\ [e EXCEPT !.to = n] \in Entry
         /\ [e EXCEPT !.to = n].to = n /\ [e EXCEPT !.to = n].rights = e.rights
         /\ [e EXCEPT !.to = n, !.rights = r] \in Entry
         /\ [e EXCEPT !.to = n, !.rights = r].to = n
         /\ [e EXCEPT !.to = n, !.rights = r].rights = r
         /\ [e EXCEPT !.to = n, !.rights = r].large = e.large
BY DEF Entry

(* The tables a walk goes through, and the entries it reads.               *)
LEMMA Path ==
  ASSUME NEW sh, Shaped(sh), NEW v \in Views, Made(v), NEW p \in Pages
  PROVE  /\ Pml4e(v).rights = RWX
         /\ Pml4e(v).to \in 1 .. used /\ sh[Pml4e(v).to].level = 2
         /\ sh[Pml4e(v).to].owner \in {Const, v}
         /\ EntryOk(sh, used, sh[Pml4e(v).to], Pdpte(v, p), Slot(p, 2))
         /\ Pdpte(v, p).to \in 1 .. used /\ sh[Pdpte(v, p).to].level = 3
         /\ sh[Pdpte(v, p).to].at2 = Slot(p, 2)
         /\ sh[Pdpte(v, p).to].owner \in {Const, v}
         /\ EntryOk(sh, used, sh[Pdpte(v, p).to], Pde(v, p), Slot(p, 3))
         /\ Pde(v, p).large => Pde(v, p).to = PageOf(Slot(p, 2), Slot(p, 3), 0)
         /\ ~Pde(v, p).large =>
              /\ Pde(v, p).to \in 1 .. used /\ sh[Pde(v, p).to].level = 4
              /\ sh[Pde(v, p).to].at2 = Slot(p, 2)
              /\ sh[Pde(v, p).to].at3 = Slot(p, 3)
              /\ sh[Pde(v, p).to].owner \in {Const, v}
              /\ Pte(v, p) = table[Pde(v, p).to][Slot(p, 4)]
              /\ EntryOk(sh, used, sh[Pde(v, p).to], Pte(v, p), Slot(p, 4))
              /\ Pte(v, p).to = p
<1>1. Slot(p, 2) \in Index /\ Slot(p, 3) \in Index /\ Slot(p, 4) \in Index
      /\ p = PageOf(Slot(p, 2), Slot(p, 3), Slot(p, 4))
  BY Slots
<1>2. /\ Pml4e(v).rights = RWX
      /\ Pml4e(v).to \in 1 .. used /\ sh[Pml4e(v).to].level = 2
      /\ sh[Pml4e(v).to].owner \in {Const, v}
  BY DEF Shaped, RootShape, Pml4e
<1>3. \A t \in 1 .. used, i \in Index : EntryOk(sh, used, sh[t], table[t][i], i)
  BY DEF Shaped, TablesShape
<1>4. EntryOk(sh, used, sh[Pml4e(v).to], Pdpte(v, p), Slot(p, 2))
  BY <1>1, <1>2, <1>3 DEF Pdpte
<1>5. Child(sh, used, sh[Pml4e(v).to], Pdpte(v, p), 3, Slot(p, 2), 0)
  BY <1>2, <1>4 DEF EntryOk
<1>6. /\ Pdpte(v, p).to \in 1 .. used /\ sh[Pdpte(v, p).to].level = 3
      /\ sh[Pdpte(v, p).to].at2 = Slot(p, 2)
      /\ sh[Pdpte(v, p).to].owner \in {Const, v}
  BY <1>2, <1>5 DEF Child
<1>7. EntryOk(sh, used, sh[Pdpte(v, p).to], Pde(v, p), Slot(p, 3))
  BY <1>1, <1>3, <1>6 DEF Pde
<1>8. Pde(v, p).large => Pde(v, p).to = PageOf(Slot(p, 2), Slot(p, 3), 0)
  BY <1>6, <1>7 DEF EntryOk
<1>9. ASSUME ~Pde(v, p).large
      PROVE  /\ Pde(v, p).to \in 1 .. used /\ sh[Pde(v, p).to].level = 4
             /\ sh[Pde(v, p).to].at2 = Slot(p, 2)
             /\ sh[Pde(v, p).to].at3 = Slot(p, 3)
             /\ sh[Pde(v, p).to].owner \in {Const, v}
             /\ Pte(v, p) = table[Pde(v, p).to][Slot(p, 4)]
             /\ EntryOk(sh, used, sh[Pde(v, p).to], Pte(v, p), Slot(p, 4))
             /\ Pte(v, p).to = p
  <2>1. Child(sh, used, sh[Pdpte(v, p).to], Pde(v, p), 4, Slot(p, 2), Slot(p, 3))
    BY <1>6, <1>7, <1>9 DEF EntryOk
  <2>2. /\ Pde(v, p).to \in 1 .. used /\ sh[Pde(v, p).to].level = 4
        /\ sh[Pde(v, p).to].at2 = Slot(p, 2)
        /\ sh[Pde(v, p).to].at3 = Slot(p, 3)
        /\ sh[Pde(v, p).to].owner \in {Const, v}
    BY <1>6, <2>1 DEF Child
  <2>3. Pte(v, p) = table[Pde(v, p).to][Slot(p, 4)]
    BY <1>9 DEF Pte
  <2>4. EntryOk(sh, used, sh[Pde(v, p).to], Pte(v, p), Slot(p, 4))
    BY <1>1, <1>3, <2>2, <2>3
  <2>5. Pte(v, p).to = p
    BY <1>1, <2>2, <2>4 DEF EntryOk
  <2> QED BY <2>2, <2>3, <2>4, <2>5
<1> QED BY <1>2, <1>4, <1>6, <1>7, <1>8, <1>9

LEMMA ConstPath ==
  ASSUME NEW sh, Shaped(sh), NEW p \in Pages
  PROVE  /\ Pml4e(Const) = [rights |-> RWX, to |-> 1, large |-> FALSE]
         /\ Pdpte(Const, p).to = 2 + Slot(p, 2)
         /\ Slot(p, 2) = 0 /\ Slot(p, 3) = 0 =>
              ~Pde(Const, p).large /\ Pde(Const, p).to = FirstPt
         /\ \A t \in ConstTables, i \in Index :
              table[t][i] = ConstEntry(t, i) /\ table[t][i].rights = RWX
<1>1. Slot(p, 2) \in Index /\ Slot(p, 3) \in Index
  BY Slots
<1>2. /\ root[Const] = [rights |-> RWX, to |-> 1, large |-> FALSE]
      /\ \A t \in ConstTables, i \in Index : table[t][i] = ConstEntry(t, i)
  BY DEF Shaped, ConstShape, RootShape
<1>3. Pml4e(Const) = [rights |-> RWX, to |-> 1, large |-> FALSE]
  BY <1>2 DEF Pml4e
<1>4. Pdpte(Const, p).to = 2 + Slot(p, 2)
  BY <1>1, <1>2, <1>3, ConstTableIs, ConstEntryIs DEF Pdpte
<1>5. Slot(p, 2) = 0 /\ Slot(p, 3) = 0 =>
        ~Pde(Const, p).large /\ Pde(Const, p).to = FirstPt
  <2>1. Slot(p, 2) = 0 /\ Slot(p, 3) = 0 => Pde(Const, p) = table[2][0]
    BY <1>4 DEF Pde
  <2>2. 2 \in ConstTables /\ 0 \in Index
    BY ConstTableIs, Fanouts
  <2> QED BY <2>1, <2>2, <1>2, ConstEntryIs
<1>6. \A t \in ConstTables, i \in Index : ConstEntry(t, i).rights = RWX
  BY DEF ConstEntry
<1> QED BY <1>2, <1>3, <1>4, <1>5, <1>6

LEMMA EntryTypes ==
  ASSUME NEW sh, Shaped(sh), NEW v \in Views, Made(v), NEW p \in Pages
  PROVE  /\ Pml4e(v) \in Entry /\ Pdpte(v, p) \in Entry /\ Pde(v, p) \in Entry
         /\ Pte(v, p) \in Entry
<1>1. /\ table \in [Tables -> [Index -> Entry]] /\ root \in [Views -> Entry]
      /\ used \in Tables /\ 1 .. used \subseteq Tables
  BY EptAssumption DEF Shaped, TypeOK, Tables
<1>2. Slot(p, 2) \in Index /\ Slot(p, 3) \in Index /\ Slot(p, 4) \in Index
  BY Slots
<1>3. Null \in Entry
  BY DEF Null, Entry
<1>4. Pml4e(v) \in Entry /\ Pdpte(v, p) \in Entry /\ Pde(v, p) \in Entry
  BY ZenonT(60), <1>1, <1>2, Path DEF Pml4e, Pdpte, Pde
<1>5. CASE Pde(v, p).large
  BY <1>3, <1>4, <1>5 DEF Pte
<1>6. CASE ~Pde(v, p).large
  <2>1. Pde(v, p).to \in 1 .. used /\ Pte(v, p) = table[Pde(v, p).to][Slot(p, 4)]
    BY <1>6, Path
  <2> QED BY <2>1, <1>1, <1>2, <1>4
<1> QED BY <1>4, <1>5, <1>6

(* What a walk finds: always the page's own frame. *)
Allowed(v, p) ==
  IF Pde(v, p).large THEN Pdpte(v, p).rights \cap Pde(v, p).rights
  ELSE Pdpte(v, p).rights \cap Pde(v, p).rights \cap Pte(v, p).rights

LEMMA WalkIs ==
  ASSUME NEW sh, Shaped(sh), NEW v \in Views, Made(v), NEW p \in Pages
  PROVE  /\ Walk(v, p) = [frame |-> p, rights |-> Allowed(v, p)]
         /\ {"r", "w"} \subseteq Allowed(v, p)
<1>1. /\ Pml4e(v).rights = RWX
      /\ Pdpte(v, p).rights \subseteq RWX /\ Pde(v, p).rights \subseteq RWX
      /\ Pte(v, p).rights \subseteq RWX
  BY Path, EntryTypes DEF Entry
<1>2. /\ {"r", "w"} \subseteq Pdpte(v, p).rights /\ {"r", "w"} \subseteq Pde(v, p).rights
      /\ ~Pde(v, p).large => {"r", "w"} \subseteq Pte(v, p).rights
  BY Path DEF EntryOk
<1>3. {"r", "w"} \subseteq Allowed(v, p)
  BY <1>2 DEF Allowed
<1>4. CASE Pde(v, p).large
  <2>1. Pde(v, p).to + Slot(p, 4) = p
    BY <1>4, Path, Slots, PageNumbers
  <2>2. RWX \cap Pdpte(v, p).rights \cap Pde(v, p).rights
          = Pdpte(v, p).rights \cap Pde(v, p).rights
    BY <1>1
  <2> QED BY <1>1, <1>3, <1>4, <2>1, <2>2 DEF Walk, Allowed
<1>5. CASE ~Pde(v, p).large
  <2>1. Pte(v, p).to = p
    BY <1>5, Path
  <2>2. RWX \cap Pdpte(v, p).rights \cap Pde(v, p).rights
          = Pdpte(v, p).rights \cap Pde(v, p).rights
    BY <1>1
  <2> QED BY <1>1, <1>3, <1>5, <2>1, <2>2 DEF Walk, Allowed
<1> QED BY <1>3, <1>4, <1>5

-----------------------------------------------------------------------------
(* Making a table: those there stay as they are, and walks with them.      *)
LEMMA ShapeStays ==
  ASSUME NEW sh, Shaped(sh), NEW sh2, NEW last \in Nat, used <= last,
         \A t \in 1 .. used : sh2[t] = sh[t],
         NEW s, NEW e, NEW i, EntryOk(sh, used, s, e, i)
  PROVE  EntryOk(sh2, last, s, e, i)
<1>1. \A l, a, b : Child(sh, used, s, e, l, a, b) => Child(sh2, last, s, e, l, a, b)
  <2>1. used \in Nat
    BY DEF Shaped, TypeOK, Tables
  <2> QED BY <2>1 DEF Child
<1> QED BY <1>1 DEF EntryOk

LEMMA Grows ==
  ASSUME NEW sh, Shaped(sh), NEW contents \in [Index -> Entry], NewTable(contents),
         NEW x \in Shape, x.owner # Const,
         \A i \in Index : EntryOk(sh, used, x, contents[i], i)
  PROVE  /\ table' \in [Tables -> [Index -> Entry]]
         /\ used' = used + 1 /\ used' \in Tables /\ used' > FirstPt
         /\ \A t \in 1 .. used : table'[t] = table[t]
         /\ table'[used'] = contents
         /\ \E sh2 \in [Tables -> Shape] :
              /\ \A t \in 1 .. used : sh2[t] = sh[t]
              /\ sh2[used'] = x
              /\ ConstShape(sh2)' /\ TablesShape(sh2)'
<1> PICK sh2 : sh2 = [sh EXCEPT ![used + 1] = x]
  OBVIOUS
<1>1. /\ table \in [Tables -> [Index -> Entry]] /\ sh \in [Tables -> Shape]
      /\ used \in Tables /\ used >= FirstPt /\ used < MaxTables
  BY DEF Shaped, TypeOK, ConstShape, NewTable
<1>2. /\ used' = used + 1 /\ used' \in Tables /\ used' > FirstPt /\ used \in Nat
      /\ 1 .. used \subseteq Tables /\ used + 1 \notin 1 .. used
  BY <1>1, EptAssumption, ConstTableIs DEF Tables, NewTable
<1>3. table' = [table EXCEPT ![used + 1] = contents]
  BY DEF NewTable
<1>4. table' \in [Tables -> [Index -> Entry]] /\ sh2 \in [Tables -> Shape]
  BY <1>1, <1>2, <1>3
<1>5. /\ \A t \in 1 .. used : table'[t] = table[t] /\ sh2[t] = sh[t]
      /\ table'[used'] = contents /\ sh2[used'] = x
  BY <1>1, <1>2, <1>3
<1>6. ConstTables \subseteq 1 .. used /\ FirstPt \in 1 .. used /\ 1 \in 1 .. used
      /\ \A i \in Index : 2 + i \in 1 .. used
  <2>1. 1 .. FirstPt \subseteq 1 .. used
    BY <1>1, <1>2, ConstTableIs
  <2> QED BY <2>1, ConstTableIs
<1>7. ConstShape(sh2)'
  <2>1. /\ \A t \in ConstTables :
             sh[t].owner = Const /\ \A i \in Index : table[t][i] = ConstEntry(t, i)
        /\ \A t \in 1 .. used : sh[t].owner = Const => t \in ConstTables
        /\ sh[1].level = 2
        /\ \A i \in Index : sh[2 + i].level = 3 /\ sh[2 + i].at2 = i
        /\ sh[FirstPt].level = 4 /\ sh[FirstPt].at2 = 0 /\ sh[FirstPt].at3 = 0
    BY DEF Shaped, ConstShape
  <2>2. \A t \in 1 .. used' : t \in 1 .. used \/ t = used'
    BY <1>2
  <2>3. \A t \in 1 .. used' : sh2[t].owner = Const => t \in ConstTables
    BY <2>1, <2>2, <1>5
  <2>4. used' >= FirstPt
    BY <1>2, ConstTableIs
  <2>5. \A t \in ConstTables :
          sh2[t].owner = Const /\ \A i \in Index : table'[t][i] = ConstEntry(t, i)
    BY <2>1, <1>5, <1>6
  <2>6. /\ sh2[1].level = 2
        /\ \A i \in Index : sh2[2 + i].level = 3 /\ sh2[2 + i].at2 = i
        /\ sh2[FirstPt].level = 4 /\ sh2[FirstPt].at2 = 0 /\ sh2[FirstPt].at3 = 0
    BY <2>1, <1>5, <1>6
  <2> QED BY <2>3, <2>4, <2>5, <2>6 DEF ConstShape
<1>8. TablesShape(sh2)'
  <2>1. SUFFICES ASSUME NEW t \in 1 .. used', NEW i \in Index
                 PROVE  EntryOk(sh2, used', sh2[t], table'[t][i], i)
    BY DEF TablesShape
  <2>2. used' \in Nat /\ used <= used'
    BY <1>2
  <2>3. CASE t \in 1 .. used
    <3>1. EntryOk(sh, used, sh[t], table[t][i], i)
      BY <2>3 DEF Shaped, TablesShape
    <3>2. EntryOk(sh2, used', sh[t], table[t][i], i)
      BY ZenonT(60), <3>1, <2>2, <1>5, ShapeStays
    <3> QED BY <3>2, <2>3, <1>5
  <2>4. CASE t = used'
    <3>1. EntryOk(sh2, used', x, contents[i], i)
      BY ZenonT(60), <2>2, <1>5, ShapeStays
    <3> QED BY <3>1, <2>4, <1>5
  <2> QED BY <2>3, <2>4, <1>2
<1> QED BY <1>2, <1>4, <1>5, <1>7, <1>8

(* A walk depends on the entries it reads and on nothing else. *)
LEMMA SameReads ==
  ASSUME NEW v \in Views, NEW p \in Pages, root'[v] = root[v],
         Made(v) =>
           /\ table'[Pml4e(v).to][Slot(p, 2)] = table[Pml4e(v).to][Slot(p, 2)]
           /\ table'[Pdpte(v, p).to][Slot(p, 3)] = table[Pdpte(v, p).to][Slot(p, 3)]
           /\ ~Pde(v, p).large =>
                table'[Pde(v, p).to][Slot(p, 4)] = table[Pde(v, p).to][Slot(p, 4)]
  PROVE  Walk(v, p)' = Walk(v, p)
<1>1. CASE ~Made(v)
  BY <1>1 DEF Walk, Made
<1>2. CASE Made(v)
  <2>1. Pml4e(v)' = Pml4e(v) /\ Made(v)'
    BY <1>2 DEF Pml4e, Made
  <2>2. Pdpte(v, p)' = Pdpte(v, p)
    BY <1>2, <2>1 DEF Pdpte
  <2>3. Pde(v, p)' = Pde(v, p)
    BY <1>2, <2>2 DEF Pde
  <2>4. Pte(v, p)' = Pte(v, p)
    BY <1>2, <2>3 DEF Pte
  <2> QED BY <1>2, <2>1, <2>2, <2>3, <2>4 DEF Walk
<1> QED BY <1>1, <1>2

LEMMA SameTables ==
  ASSUME NEW sh, Shaped(sh), \A t \in 1 .. used : table'[t] = table[t],
         NEW v \in Views, root'[v] = root[v], NEW p \in Pages
  PROVE  Walk(v, p)' = Walk(v, p)
<1>1. ASSUME Made(v)
      PROVE  /\ Pml4e(v).to \in 1 .. used /\ Pdpte(v, p).to \in 1 .. used
             /\ ~Pde(v, p).large => Pde(v, p).to \in 1 .. used
  BY <1>1, Path
<1> QED BY <1>1, SameReads

(* A store into an entry of one view's own table is seen by the walks of   *)
(* that view that come through it, and by no other.                        *)
Through(s, j, v, p) ==
  /\ v = s.owner
  /\ s.level = 2 => Slot(p, 2) = j
  /\ s.level = 3 => Slot(p, 2) = s.at2 /\ Slot(p, 3) = j
  /\ s.level = 4 => Slot(p, 2) = s.at2 /\ Slot(p, 3) = s.at3 /\ Slot(p, 4) = j

LEMMA Stores ==
  ASSUME NEW sh, Shaped(sh), NEW t \in 1 .. used, sh[t].owner # Const,
         NEW j \in Index, NEW e \in Entry, table' = [table EXCEPT ![t][j] = e],
         UNCHANGED root, NEW v \in Views, NEW p \in Pages,
         ~Through(sh[t], j, v, p)
  PROVE  Walk(v, p)' = Walk(v, p)
<1>1. table \in [Tables -> [Index -> Entry]] /\ t \in Tables
  BY EptAssumption DEF Shaped, TypeOK, Tables
<1>2. \A u, i : u \in 1 .. used /\ i \in Index /\ (u # t \/ i # j) =>
        table'[u][i] = table[u][i]
  BY <1>1, EptAssumption DEF Shaped, TypeOK, Tables
<1>3. SUFFICES ASSUME Made(v)
      PROVE  /\ table'[Pml4e(v).to][Slot(p, 2)] = table[Pml4e(v).to][Slot(p, 2)]
             /\ table'[Pdpte(v, p).to][Slot(p, 3)] = table[Pdpte(v, p).to][Slot(p, 3)]
             /\ ~Pde(v, p).large =>
                  table'[Pde(v, p).to][Slot(p, 4)] = table[Pde(v, p).to][Slot(p, 4)]
  BY SameReads
<1>4. Slot(p, 2) \in Index /\ Slot(p, 3) \in Index /\ Slot(p, 4) \in Index
  BY Slots
<1>5. table'[Pml4e(v).to][Slot(p, 2)] = table[Pml4e(v).to][Slot(p, 2)]
  <2>1. /\ Pml4e(v).to \in 1 .. used /\ sh[Pml4e(v).to].level = 2
        /\ sh[Pml4e(v).to].owner \in {Const, v}
    BY <1>3, Path
  <2> QED BY <2>1, <1>2, <1>4 DEF Through
<1>6. table'[Pdpte(v, p).to][Slot(p, 3)] = table[Pdpte(v, p).to][Slot(p, 3)]
  <2>1. /\ Pdpte(v, p).to \in 1 .. used /\ sh[Pdpte(v, p).to].level = 3
        /\ sh[Pdpte(v, p).to].at2 = Slot(p, 2)
        /\ sh[Pdpte(v, p).to].owner \in {Const, v}
    BY <1>3, Path
  <2> QED BY <2>1, <1>2, <1>4 DEF Through
<1>7. ASSUME ~Pde(v, p).large
      PROVE  table'[Pde(v, p).to][Slot(p, 4)] = table[Pde(v, p).to][Slot(p, 4)]
  <2>1. /\ Pde(v, p).to \in 1 .. used /\ sh[Pde(v, p).to].level = 4
        /\ sh[Pde(v, p).to].at2 = Slot(p, 2) /\ sh[Pde(v, p).to].at3 = Slot(p, 3)
        /\ sh[Pde(v, p).to].owner \in {Const, v}
    BY <1>3, <1>7, Path
  <2> QED BY <2>1, <1>2, <1>4 DEF Through
<1> QED BY <1>5, <1>6, <1>7

(* Such a store keeps the shape, if the entry has it. *)
LEMMA StoreShape ==
  ASSUME NEW sh, Shaped(sh), NEW t \in 1 .. used, sh[t].owner # Const,
         NEW j \in Index, NEW e \in Entry, table' = [table EXCEPT ![t][j] = e],
         EntryOk(sh, used, sh[t], e, j), UNCHANGED used
  PROVE  /\ table' \in [Tables -> [Index -> Entry]]
         /\ \A u \in 1 .. used : u # t => table'[u] = table[u]
         /\ \A c \in ConstTables : table'[c] = table[c]
         /\ ConstShape(sh)' /\ TablesShape(sh)'
<1>1. table \in [Tables -> [Index -> Entry]] /\ t \in Tables /\ 1 .. used \subseteq Tables
  BY EptAssumption DEF Shaped, TypeOK, Tables
<1>2. /\ table' \in [Tables -> [Index -> Entry]]
      /\ \A u \in Tables : u # t => table'[u] = table[u]
      /\ \A i \in Index : i # j => table'[t][i] = table[t][i]
      /\ table'[t][j] = e
  BY <1>1
<1>3. t \notin ConstTables
  BY DEF Shaped, ConstShape
<1>4. \A c \in ConstTables : table'[c] = table[c]
  BY <1>2, <1>3, ConstTableIs
<1>5. ConstShape(sh)'
  BY <1>4 DEF Shaped, ConstShape
<1>6. TablesShape(sh)'
  <2>1. SUFFICES ASSUME NEW u \in 1 .. used, NEW i \in Index
                 PROVE  EntryOk(sh, used, sh[u], table'[u][i], i)
    BY DEF TablesShape
  <2>2. EntryOk(sh, used, sh[u], table[u][i], i)
    BY DEF Shaped, TablesShape
  <2>3. u \in Tables
    BY <1>1
  <2> QED BY <2>2, <2>3, <1>2
<1> QED BY <1>1, <1>2, <1>4, <1>5, <1>6

LEMMA EntryAtIs ==
  ASSUME NEW v, NEW p
  PROVE  /\ EntryAt(v, p, 1) = Pml4e(v) /\ EntryAt(v, p, 2) = Pdpte(v, p)
         /\ EntryAt(v, p, 3) = Pde(v, p)
<1>1. 1 # 2 /\ 1 # 3 /\ 2 # 3
  OBVIOUS
<1> QED BY Zenon, <1>1 DEF EntryAt

LEMMA StoreAtIs ==
  ASSUME NEW e
  PROVE  /\ StoreAt(1, e) => root' = [root EXCEPT ![req.view] = e] /\ UNCHANGED table
         /\ StoreAt(2, e) =>
              /\ table' = [table EXCEPT ![Pml4e(req.view).to][Slot(req.page, 2)] = e]
              /\ UNCHANGED root
         /\ StoreAt(3, e) =>
              /\ table' = [table EXCEPT ![Pdpte(req.view, req.page).to][Slot(req.page, 3)] = e]
              /\ UNCHANGED root
         /\ StoreAt(4, e) =>
              /\ table' = [table EXCEPT ![Pde(req.view, req.page).to][Slot(req.page, 4)] = e]
              /\ UNCHANGED root
<1>1. 1 # 2 /\ 1 # 3 /\ 1 # 4 /\ 2 # 3 /\ 2 # 4 /\ 3 # 4
  OBVIOUS
<1> QED BY Zenon, <1>1 DEF StoreAt

(* While the tables of a path stay as they are, so does what is read of it. *)
LEMMA SamePath ==
  ASSUME NEW sh, Shaped(sh), \A t \in 1 .. used : table'[t] = table[t],
         NEW v \in Views, Made(v), root'[v] = root[v], root'[Const] = root[Const],
         NEW p \in Pages
  PROVE  /\ Pml4e(v)' = Pml4e(v) /\ Pdpte(v, p)' = Pdpte(v, p)
         /\ Pde(v, p)' = Pde(v, p) /\ Pte(v, p)' = Pte(v, p)
         /\ NeedRemap(v, p)' = NeedRemap(v, p)
         /\ \A l \in 1 .. 3 : EntryAt(v, p, l)' = EntryAt(v, p, l)
<1>1. ASSUME NEW u \in {v, Const}
      PROVE  /\ Pml4e(u)' = Pml4e(u) /\ Pdpte(u, p)' = Pdpte(u, p)
             /\ Pde(u, p)' = Pde(u, p) /\ Pte(u, p)' = Pte(u, p)
  <2>1. Made(u) /\ u \in Views
    BY DEF Shaped, RootShape, Made, Null, Views, RWX
  <2>2. /\ Pml4e(u).to \in 1 .. used /\ Pdpte(u, p).to \in 1 .. used
        /\ ~Pde(u, p).large => Pde(u, p).to \in 1 .. used
    BY <2>1, Path
  <2>3. Pml4e(u)' = Pml4e(u)
    BY DEF Pml4e
  <2>4. Pdpte(u, p)' = Pdpte(u, p)
    BY <2>2, <2>3 DEF Pdpte
  <2>5. Pde(u, p)' = Pde(u, p)
    BY <2>2, <2>4 DEF Pde
  <2>6. Pte(u, p)' = Pte(u, p)
    BY <2>2, <2>5 DEF Pte
  <2> QED BY <2>3, <2>4, <2>5, <2>6
<1>2. NeedRemap(v, p)' = NeedRemap(v, p)
  BY Zenon, <1>1 DEF NeedRemap
<1>3. \A l \in 1 .. 3 : EntryAt(v, p, l)' = EntryAt(v, p, l)
  <2>1. EntryAt(v, p, 1)' = EntryAt(v, p, 1) /\ EntryAt(v, p, 2)' = EntryAt(v, p, 2)
        /\ EntryAt(v, p, 3)' = EntryAt(v, p, 3)
    BY Zenon, <1>1 DEF EntryAt
  <2> QED BY <2>1
<1> QED BY <1>1, <1>2, <1>3

LEMMA ConstWalk ==
  ASSUME NEW sh, Shaped(sh), NEW p \in Pages
  PROVE  Made(Const) /\ Walk(Const, p) = [frame |-> p, rights |-> RWX]
<1>1. Made(Const) /\ Const \in Views
  BY DEF Shaped, RootShape, Made, Null, Views, RWX
<1>2. Slot(p, 2) \in Index /\ Slot(p, 3) \in Index /\ Slot(p, 4) \in Index
  BY Slots
<1>3. /\ Pml4e(Const).to \in ConstTables /\ Pdpte(Const, p).to \in ConstTables
      /\ ~Pde(Const, p).large => Pde(Const, p).to \in ConstTables
  BY <1>1, Path, ConstByShape
<1>8. \A t \in ConstTables, i \in Index : table[t][i].rights = RWX
  BY ConstPath
<1>4. Pdpte(Const, p).rights = RWX
  BY <1>2, <1>3, <1>8 DEF Pdpte
<1>5. Pde(Const, p).rights = RWX
  BY <1>2, <1>3, <1>8 DEF Pde
<1>6. ~Pde(Const, p).large => Pte(Const, p).rights = RWX
  <2>1. ~Pde(Const, p).large =>
          Pte(Const, p) = table[Pde(Const, p).to][Slot(p, 4)]
    BY <1>1, Path
  <2> QED BY <2>1, <1>2, <1>3, <1>8
<1>7. Allowed(Const, p) = RWX
  BY <1>4, <1>5, <1>6 DEF Allowed
<1> QED BY <1>1, <1>7, WalkIs

-----------------------------------------------------------------------------
(* The views are made. *)
LEMMA ViceStep ==
  ASSUME NEW sh, Shaped(sh), MakeVice
  PROVE  /\ Shaped(sh)'
         /\ \A p \in Pages : Walk(Vice, p)' = [frame |-> p, rights |-> RWX]
         /\ \A v \in Views \ {Vice}, p \in Pages : Walk(v, p)' = Walk(v, p)
<1>1. /\ UNCHANGED << table, used, pc, req, fresh, calls >>
      /\ root' = [root EXCEPT ![Vice] = root[Const]] /\ root \in [Views -> Entry]
      /\ ~Made(Vice) /\ Const # Vice
  BY EptAssumption DEF MakeVice, Shaped, TypeOK
<1>2. /\ Vice \in Views /\ Const \in Views
      /\ root'[Vice] = root[Const] /\ \A v \in Views \ {Vice} : root'[v] = root[v]
      /\ root' \in [Views -> Entry]
  BY <1>1 DEF Views
<1>3. \A v \in Views \ {Vice}, p \in Pages : Walk(v, p)' = Walk(v, p)
  BY <1>1, <1>2, SameTables
<1>4. ASSUME NEW p \in Pages PROVE Walk(Vice, p)' = [frame |-> p, rights |-> RWX]
  <2>1. Pml4e(Vice)' = Pml4e(Const) /\ Made(Vice)' /\ Made(Const)
    BY <1>1, <1>2, ConstWalk DEF Pml4e, Made
  <2>2. Pdpte(Vice, p)' = Pdpte(Const, p)
    BY <1>1, <2>1 DEF Pdpte
  <2>3. Pde(Vice, p)' = Pde(Const, p)
    BY <1>1, <2>2 DEF Pde
  <2>4. Pte(Vice, p)' = Pte(Const, p)
    BY <1>1, <2>3 DEF Pte
  <2>5. Walk(Vice, p)' = Walk(Const, p)
    BY <2>1, <2>2, <2>3, <2>4 DEF Walk
  <2> QED BY <2>5, ConstWalk
<1>5. TypeOK' /\ ConstShape(sh)' /\ TablesShape(sh)'
  BY <1>1, <1>2 DEF Shaped, TypeOK, ConstShape, TablesShape
<1>6. RootShape(sh)'
  <2>1. /\ root[Const].rights = RWX /\ root[Const].to \in 1 .. used
        /\ sh[root[Const].to].level = 2 /\ sh[root[Const].to].owner = Const
    BY <1>2, ConstWalk DEF Shaped, RootShape, Made, Null, RWX
  <2>2. \A v \in Views \ {Vice} : Made(v) =>
       /\ root[v].rights = RWX
       /\ root[v].to \in 1 .. used /\ sh[root[v].to].level = 2
       /\ sh[root[v].to].owner \in {Const, v}
    BY DEF Shaped, RootShape
  <2> QED BY <1>1, <1>2, <2>1, <2>2 DEF Shaped, RootShape, Made
<1>7. CallShape(sh)'
  <2>1. CASE pc = "idle"
    BY <1>1, <2>1 DEF CallShape
  <2>2. CASE pc # "idle"
    <3> DEFINE v == req.view   p == req.page
    <3>1. /\ v \in Views \ {Vice} /\ Made(v) /\ p \in Pages /\ v \in {Vice, Target}
          /\ req.pte.to = req.page /\ {"r", "w"} \subseteq req.pte.rights
      BY <1>1, <2>2 DEF Shaped, CallShape, TypeOK, Views
    <3>2. /\ Pml4e(v)' = Pml4e(v) /\ Pdpte(v, p)' = Pdpte(v, p)
          /\ Pde(v, p)' = Pde(v, p)
          /\ NeedRemap(v, p)' = NeedRemap(v, p)
          /\ \A l \in 1 .. 3 : EntryAt(v, p, l)' = EntryAt(v, p, l)
      BY <1>1, <1>2, <3>1, SamePath
    <3>3. Made(v)'
      BY <1>1, <1>2, <3>1 DEF Made
    <3>4. pc = "link" => Linking(sh)'
      <4>1. pc = "link" => Linking(sh)
        BY DEF Shaped, CallShape
      <4> QED BY <4>1, <3>2, <1>1 DEF Linking, NewOk, WithRights
    <3>5. pc \in {"set", "linkPde"} => OwnPath(sh, req.view, req.page)'
      <4>1. pc \in {"set", "linkPde"} => OwnPath(sh, req.view, req.page)
        BY DEF Shaped, CallShape
      <4> QED BY <4>1, <3>2, <1>1 DEF OwnPath
    <3>6. pc = "linkPde" => LinkingPde(sh)'
      <4>1. pc = "linkPde" => LinkingPde(sh)
        BY DEF Shaped, CallShape
      <4> QED BY <4>1, <3>2, <1>1 DEF LinkingPde, NewOk, SmallPages
    <3> QED BY <1>1, <3>1, <3>3, <3>4, <3>5, <3>6 DEF CallShape
  <2> QED BY <2>1, <2>2
<1> QED BY <1>3, <1>4, <1>5, <1>6, <1>7 DEF Shaped

(* A copied table with its entries' rights replaced. *)
LEMMA CopiedEntry ==
  ASSUME NEW sh, Shaped(sh), NEW t \in 1 .. used, sh[t].owner = Const,
         NEW r \in SUBSET RWX, {"r", "w"} \subseteq r,
         NEW x \in Shape, x.level = sh[t].level,
         x.level \in {3, 4} => x.at2 = sh[t].at2,
         x.level = 4 => x.at3 = sh[t].at3
  PROVE  /\ WithRights(table[t], r) \in [Index -> Entry]
         /\ \A i \in Index :
              /\ WithRights(table[t], r)[i] = [table[t][i] EXCEPT !.rights = r]
              /\ EntryOk(sh, used, x, WithRights(table[t], r)[i], i)
<1>1. table[t] \in [Index -> Entry]
  BY EptAssumption DEF Shaped, TypeOK, Tables
<1>2. ASSUME NEW i \in Index
      PROVE  /\ WithRights(table[t], r)[i] = [table[t][i] EXCEPT !.rights = r]
             /\ [table[t][i] EXCEPT !.rights = r] \in Entry
             /\ [table[t][i] EXCEPT !.rights = r].to = table[t][i].to
             /\ [table[t][i] EXCEPT !.rights = r].large = table[t][i].large
             /\ [table[t][i] EXCEPT !.rights = r].rights = r
  BY <1>1 DEF WithRights, Entry
<1>3. WithRights(table[t], r) \in [Index -> Entry]
  BY <1>2 DEF WithRights
<1>4. ASSUME NEW i \in Index
      PROVE  EntryOk(sh, used, x, WithRights(table[t], r)[i], i)
  <2>1. EntryOk(sh, used, sh[t], table[t][i], i)
    BY DEF Shaped, TablesShape
  <2> DEFINE e == table[t][i]   f == WithRights(table[t], r)[i]
  <2>2. f.to = e.to /\ f.large = e.large /\ f.rights = r
    BY <1>2
  <2> HIDE DEF e, f
  <2>3. \A l, a, b : Child(sh, used, sh[t], e, l, a, b) => Child(sh, used, x, f, l, a, b)
    BY <2>2 DEF Child
  <2>4. EntryOk(sh, used, sh[t], e, i)
    BY <2>1 DEF e
  <2>5. EntryOk(sh, used, x, f, i)
    BY <2>2, <2>3, <2>4 DEF EntryOk
  <2> QED BY <2>5 DEF f
<1> QED BY <1>2, <1>3, <1>4

LEMMA TargetStep ==
  ASSUME NEW sh, Shaped(sh), MakeTarget
  PROVE  /\ IInv'
         /\ \A p \in Pages : Walk(Target, p)' = [frame |-> p, rights |-> {"r", "w"}]
         /\ \A v \in Views \ {Target}, p \in Pages : Walk(v, p)' = Walk(v, p)
         /\ \A t \in ConstTables : table'[t] = table[t]
<1> DEFINE x == [level |-> 2, owner |-> Target, at2 |-> 0, at3 |-> 0]
           new == WithRights(table[1], {"r", "w"})
<1>1. /\ UNCHANGED << pc, req, fresh, calls >> /\ pc = "idle" /\ ~Made(Target)
      /\ NewTable(WithRights(table[root[Const].to], {"r", "w"}))
      /\ root' = [root EXCEPT ![Target] = [root[Const] EXCEPT !.to = used']]
      /\ root \in [Views -> Entry]
  BY DEF MakeTarget, Shaped, TypeOK
<1>2. /\ root[Const] = [rights |-> RWX, to |-> 1, large |-> FALSE]
      /\ 1 \in 1 .. used /\ sh[1].level = 2 /\ sh[1].owner = Const /\ used \in Nat
  BY ConstTableIs DEF Shaped, RootShape, ConstShape, TypeOK, Tables
<1>3. x \in Shape /\ x.level = 2 /\ x.owner = Target /\ Target # Const
      /\ Target \in Views /\ Const \in Views
  BY Fanouts, EptAssumption DEF Shape, Views
<1> HIDE DEF x
<1>4. {"r", "w"} \in SUBSET RWX /\ {"r", "w"} \subseteq {"r", "w"}
  BY DEF RWX
<1>5. /\ new \in [Index -> Entry]
      /\ \A i \in Index : /\ new[i] = [table[1][i] EXCEPT !.rights = {"r", "w"}]
                          /\ EntryOk(sh, used, x, new[i], i)
  <2>1. x.level = sh[1].level /\ x.level \notin {3, 4} /\ x.level # 4
    BY <1>2, <1>3
  <2> QED BY <1>2, <1>3, <1>4, <2>1, CopiedEntry
<1>6. NewTable(new)
  BY <1>1, <1>2
<1> HIDE DEF new
<1>16. /\ table' \in [Tables -> [Index -> Entry]]
       /\ used' = used + 1 /\ used' \in Tables /\ used' > FirstPt
       /\ \A t \in 1 .. used : table'[t] = table[t]
       /\ table'[used'] = new
       /\ \E s \in [Tables -> Shape] :
            /\ \A t \in 1 .. used : s[t] = sh[t]
            /\ s[used'] = x
            /\ ConstShape(s)' /\ TablesShape(s)'
  <2>1. \A i \in Index : EntryOk(sh, used, x, new[i], i)
    BY <1>5
  <2>2. x.owner # Const /\ new \in [Index -> Entry]
    BY <1>3, <1>5
  <2> QED BY <1>3, <2>1, <2>2, <1>6, Grows
<1>17. PICK sh2 \in [Tables -> Shape] :
         /\ \A t \in 1 .. used : sh2[t] = sh[t]
         /\ sh2[used'] = x
         /\ ConstShape(sh2)' /\ TablesShape(sh2)'
  BY <1>16
<1>7. /\ table' \in [Tables -> [Index -> Entry]]
      /\ used' = used + 1 /\ used' \in Tables /\ used' > FirstPt
      /\ \A t \in 1 .. used : table'[t] = table[t] /\ sh2[t] = sh[t]
      /\ table'[used'] = new /\ sh2[used'] = x
      /\ ConstShape(sh2)' /\ TablesShape(sh2)'
  BY <1>16, <1>17
<1>8. /\ root'[Target].rights = RWX /\ root'[Target].to = used'
      /\ \A v \in Views \ {Target} : root'[v] = root[v]
      /\ root' \in [Views -> Entry]
  <2>1. /\ [root[Const] EXCEPT !.to = used'] \in Entry
        /\ [root[Const] EXCEPT !.to = used'].rights = RWX
        /\ [root[Const] EXCEPT !.to = used'].to = used'
    <3>1. root[Const] \in Entry /\ used' \in Nat /\ root[Const].rights = RWX
      <4>1. used' \in Nat
        BY <1>2, <1>7
      <4>2. root[Const] \in Entry
        BY <1>1, <1>3
      <4>3. root[Const].rights = RWX
        BY <1>2
      <4> QED BY <4>1, <4>2, <4>3
    <3> QED BY ZenonT(60), <3>1, Retarget
  <2> QED BY <2>1, <1>1, <1>3
<1>9. \A v \in Views \ {Target}, p \in Pages : Walk(v, p)' = Walk(v, p)
  BY <1>7, <1>8, SameTables
<1>10. ASSUME NEW p \in Pages
       PROVE  Walk(Target, p)' = [frame |-> p, rights |-> {"r", "w"}]
  <2>1. Slot(p, 2) \in Index /\ Slot(p, 3) \in Index /\ Slot(p, 4) \in Index
    BY Slots
  <2>2. Pml4e(Target)'.rights = RWX /\ Pml4e(Target)'.to = used'
    BY <1>8 DEF Pml4e
  <2>12. Pdpte(Target, p)' = new[Slot(p, 2)]
    BY <2>2, <1>7 DEF Pdpte
  <2>13. Pdpte(Const, p) = table[1][Slot(p, 2)]
    BY <1>2 DEF Pdpte, Pml4e
  <2>3. Pdpte(Target, p)' = [Pdpte(Const, p) EXCEPT !.rights = {"r", "w"}]
    BY <2>1, <2>12, <2>13, <1>5
  <2>4. /\ Pdpte(Const, p) \in Entry /\ Pde(Const, p) \in Entry
        /\ Pdpte(Const, p).to \in 1 .. used
        /\ ~Pde(Const, p).large => Pde(Const, p).to \in 1 .. used
    BY <1>3, ConstWalk, Path, EntryTypes
  <2>5. Pdpte(Target, p)'.to = Pdpte(Const, p).to /\ Pdpte(Target, p)'.rights = {"r", "w"}
    BY <2>3, <2>4 DEF Entry
  <2>6. Pde(Target, p)' = Pde(Const, p)
    BY <2>4, <2>5, <1>7 DEF Pde
  <2>7. Pte(Target, p)' = Pte(Const, p)
    BY <2>4, <2>6, <1>7 DEF Pte
  <2>8. Made(Target)' /\ Made(Const)
    BY <1>8, ConstWalk DEF Made, Null, RWX
  <2>9. Walk(Const, p) = [frame |-> p, rights |-> RWX] /\ Pml4e(Const).rights = RWX
    BY <1>3, ConstWalk, Path
  <2>10. CASE Pde(Const, p).large
    <3>1. /\ Pde(Const, p).to + Slot(p, 4) = p
          /\ RWX \cap Pdpte(Const, p).rights \cap Pde(Const, p).rights = RWX
      BY <2>8, <2>9, <2>10 DEF Walk
    <3>2. RWX \cap {"r", "w"} \cap Pde(Const, p).rights = {"r", "w"}
      BY <3>1 DEF RWX
    <3> QED BY <3>1, <3>2, <2>2, <2>5, <2>6, <2>8, <2>10 DEF Walk
  <2>11. CASE ~Pde(Const, p).large
    <3>1. /\ Pte(Const, p).to = p
          /\ RWX \cap Pdpte(Const, p).rights \cap Pde(Const, p).rights
               \cap Pte(Const, p).rights = RWX
      BY <2>8, <2>9, <2>11 DEF Walk
    <3>2. RWX \cap {"r", "w"} \cap Pde(Const, p).rights \cap Pte(Const, p).rights
            = {"r", "w"}
      BY <3>1 DEF RWX
    <3> QED BY <3>1, <3>2, <2>2, <2>5, <2>6, <2>7, <2>8, <2>11 DEF Walk
  <2> QED BY <2>10, <2>11
<1>11. RootShape(sh2)'
  <2>1. \A v \in Views : Made(v) =>
       /\ root[v].rights = RWX
       /\ root[v].to \in 1 .. used /\ sh[root[v].to].level = 2
       /\ sh[root[v].to].owner \in {Const, v}
    BY DEF Shaped, RootShape
  <2>2. used' \in 1 .. used' /\ \A t \in 1 .. used : t \in 1 .. used'
    BY <1>2, <1>7
  <2>3. ASSUME NEW v \in Views, Made(v)'
        PROVE  /\ root'[v].rights = RWX
               /\ root'[v].to \in 1 .. used' /\ sh2[root'[v].to].level = 2
               /\ sh2[root'[v].to].owner \in {Const, v}
    <3>1. CASE v = Target
      BY <3>1, <2>2, <1>3, <1>7, <1>8 DEF x
    <3>2. CASE v # Target
      BY <3>2, <2>1, <2>2, <2>3, <1>7, <1>8 DEF Made
    <3> QED BY <3>1, <3>2
  <2>4. root'[Const] = [rights |-> RWX, to |-> 1, large |-> FALSE]
    BY <1>2, <1>3, <1>8
  <2> QED BY <2>3, <2>4 DEF RootShape
<1>12. TypeOK'
  BY <1>1, <1>7, <1>8 DEF Shaped, TypeOK
<1>13. CallShape(sh2)'
  BY <1>1 DEF CallShape
<1>14. \A t \in ConstTables : table'[t] = table[t]
  <2>1. ConstTables \subseteq 1 .. used
    BY <1>2, ConstTableIs DEF Shaped, ConstShape
  <2> QED BY <2>1, <1>7
<1> QED BY <1>7, <1>9, <1>10, <1>11, <1>12, <1>13, <1>14 DEF IInv, Shaped

-----------------------------------------------------------------------------
(* A call of set_pte begins. *)
LEMMA CallStep ==
  ASSUME NEW sh, Shaped(sh), Call
  PROVE  /\ Shaped(sh)' /\ UNCHANGED << table, root, used >>
         /\ pc = "idle" /\ pc' = "remap"
         /\ req' \in [view : {Vice, Target}, page : Pages, pte : Entry]
         /\ Made(req'.view)
<1>1. /\ UNCHANGED << table, used, root, fresh >> /\ pc = "idle" /\ pc' = "remap"
      /\ calls' \in 0 .. MaxCalls
  BY EptAssumption DEF Call, Shaped, TypeOK
<1>2. PICK v \in {Target, Vice}, p \in Pages :
       /\ Made(v)
       /\ req' = [view |-> v, page |-> p, pte |->
                   [rights |-> IF v = Target THEN RWX ELSE {"r", "w"},
                    large |-> FALSE,
                    to |-> IF Pte(v, p) = Null THEN p ELSE Pte(v, p).to]]
  BY DEF Call
<1>3. v \in Views
  BY DEF Views
<1>4. (IF Pte(v, p) = Null THEN p ELSE Pte(v, p).to) = p
  <2>1. CASE Pde(v, p).large
    BY <2>1 DEF Pte
  <2>2. CASE ~Pde(v, p).large
    BY <2>2, <1>2, <1>3, Path
  <2> QED BY <2>1, <2>2
<1>5. /\ req' \in [view : {Vice, Target}, page : Pages, pte : Entry]
      /\ req'.view = v /\ req'.page = p /\ req'.pte.to = p
      /\ {"r", "w"} \subseteq req'.pte.rights
  BY <1>2, <1>4, Slots DEF Entry, RWX
<1>6. TypeOK'
  BY <1>1, <1>5 DEF Shaped, TypeOK, Views
<1>7. CallShape(sh)'
  BY <1>1, <1>2, <1>5 DEF CallShape, Made
<1>8. ConstShape(sh)' /\ TablesShape(sh)' /\ RootShape(sh)'
  BY <1>1 DEF Shaped, ConstShape, TablesShape, RootShape, Made
<1> QED BY <1>1, <1>2, <1>5, <1>6, <1>7, <1>8 DEF Shaped

-----------------------------------------------------------------------------
(* A level of the path is made the view's own. *)
LEMMA InCall ==
  ASSUME NEW sh, Shaped(sh), pc # "idle"
  PROVE  /\ req.view \in {Vice, Target} /\ req.view \in Views /\ req.view # Const
         /\ Made(req.view) /\ req.page \in Pages /\ req.pte \in Entry
         /\ req.pte.to = req.page /\ {"r", "w"} \subseteq req.pte.rights
         /\ Const \in Views /\ Made(Const)
<1>1. /\ req.view \in {Vice, Target} /\ Made(req.view)
      /\ req.pte.to = req.page /\ {"r", "w"} \subseteq req.pte.rights
  BY DEF Shaped, CallShape
<1>2. req \in [view : Views, page : Pages, pte : Entry]
  BY DEF Shaped, TypeOK
<1>3. Made(Const)
  BY DEF Shaped, RootShape, Made, Null, RWX
<1> QED BY <1>1, <1>2, <1>3, EptAssumption DEF Views

LEMMA CopySource ==
  ASSUME NEW sh, Shaped(sh), pc # "idle",
         NEW l, l = NeedRemap(req.view, req.page), l # 0,
         NEW e, e = EntryAt(req.view, req.page, l)
  PROVE  /\ l \in 1 .. 3 /\ e \in Entry /\ {"r", "w"} \subseteq e.rights
         /\ e.to \in 1 .. used /\ sh[e.to].owner = Const /\ sh[e.to].level = l + 1
         /\ l \in {2, 3} => sh[e.to].at2 = Slot(req.page, 2)
         /\ l = 3 => sh[e.to].at3 = Slot(req.page, 3) /\ ~e.large
<1> DEFINE v == req.view   p == req.page
<1>1. /\ v \in Views /\ Made(v) /\ p \in Pages /\ Const \in Views /\ Made(Const)
  BY InCall
<1>2. l \in 1 .. 3
  BY NeedRemapIs
<1> HIDE DEF v, p
<1>3. /\ Pml4e(v) \in Entry /\ Pdpte(v, p) \in Entry /\ Pde(v, p) \in Entry
  BY <1>1, EntryTypes
<1>4. CASE l = 1
  <2>1. e = Pml4e(v) /\ Pml4e(v).to = Pml4e(Const).to
    BY <1>4, EntryAtIs, NeedRemapIs DEF v, p
  <2>2. /\ Pml4e(v).rights = RWX
        /\ Pml4e(Const).to \in 1 .. used /\ sh[Pml4e(Const).to].level = 2
        /\ sh[Pml4e(Const).to].owner \in {Const, Const}
    BY <1>1, Path
  <2> QED BY <1>3, <1>4, <2>1, <2>2 DEF RWX
<1>5. CASE l = 2
  <2>1. e = Pdpte(v, p) /\ Pdpte(v, p).to = Pdpte(Const, p).to
    BY <1>5, EntryAtIs, NeedRemapIs DEF v, p
  <2>2. /\ {"r", "w"} \subseteq Pdpte(v, p).rights
        /\ Pdpte(Const, p).to \in 1 .. used /\ sh[Pdpte(Const, p).to].level = 3
        /\ sh[Pdpte(Const, p).to].owner \in {Const, Const}
        /\ sh[Pdpte(Const, p).to].at2 = Slot(p, 2)
    BY <1>1, Path DEF EntryOk
  <2> QED BY <1>3, <1>5, <2>1, <2>2 DEF p
<1>6. CASE l = 3
  <2>1. /\ e = Pde(v, p) /\ Pde(v, p).to = Pde(Const, p).to
        /\ ~Pde(v, p).large /\ ~Pde(Const, p).large
    BY <1>6, EntryAtIs, NeedRemapIs DEF v, p
  <2>2. /\ {"r", "w"} \subseteq Pde(v, p).rights
        /\ Pde(Const, p).to \in 1 .. used /\ sh[Pde(Const, p).to].level = 4
        /\ sh[Pde(Const, p).to].owner \in {Const, Const}
        /\ sh[Pde(Const, p).to].at2 = Slot(p, 2)
        /\ sh[Pde(Const, p).to].at3 = Slot(p, 3)
    BY <1>1, <2>1, Path DEF EntryOk
  <2> QED BY <1>3, <1>6, <2>1, <2>2 DEF p
<1> QED BY <1>2, <1>4, <1>5, <1>6

(* What is the same whenever a table is made in a call. *)
LEMMA CallGrows ==
  ASSUME NEW sh, Shaped(sh), pc # "idle", NEW contents \in [Index -> Entry],
         NewTable(contents), UNCHANGED << root, req, calls >>,
         NEW l \in 2 .. 4, NEW x,
         x = [level |-> l, owner |-> req.view,
              at2 |-> Slot(req.page, 2), at3 |-> Slot(req.page, 3)],
         \A i \in Index : EntryOk(sh, used, x, contents[i], i)
  PROVE  /\ table' \in [Tables -> [Index -> Entry]]
         /\ used' \in FirstPt + 1 .. used' /\ used' \in Tables /\ used' \in Nat
         /\ \A t \in 1 .. used : table'[t] = table[t]
         /\ table'[used'] = contents
         /\ \A t \in ConstTables : table'[t] = table[t]
         /\ \A v \in Views, p \in Pages : Walk(v, p)' = Walk(v, p)
         /\ \E sh2 \in [Tables -> Shape] :
              /\ \A t \in 1 .. used : sh2[t] = sh[t]
              /\ NewOk(sh2, used, l)'
              /\ ConstShape(sh2)' /\ TablesShape(sh2)' /\ RootShape(sh2)'
<1>1. /\ req.view \in Views /\ req.view # Const /\ req.page \in Pages
      /\ Slot(req.page, 2) \in Index /\ Slot(req.page, 3) \in Index
  BY InCall, Slots
<1>2. x \in Shape /\ x.owner # Const
  BY <1>1 DEF Shape
<1>3. /\ table' \in [Tables -> [Index -> Entry]]
      /\ used' = used + 1 /\ used' \in Tables /\ used' > FirstPt
      /\ \A t \in 1 .. used : table'[t] = table[t]
      /\ table'[used'] = contents
      /\ \E s \in [Tables -> Shape] :
           /\ \A t \in 1 .. used : s[t] = sh[t]
           /\ s[used'] = x
           /\ ConstShape(s)' /\ TablesShape(s)'
  BY <1>2, Grows
<1>4. PICK sh2 \in [Tables -> Shape] :
           /\ \A t \in 1 .. used : sh2[t] = sh[t]
           /\ sh2[used'] = x
           /\ ConstShape(sh2)' /\ TablesShape(sh2)'
  BY <1>3
<1>5. /\ used' \in FirstPt + 1 .. used' /\ used' \in Nat /\ used \in Nat
      /\ \A t \in 1 .. used : t \in 1 .. used'
  BY <1>3, EptAssumption, ConstTableIs DEF Shaped, TypeOK, Tables
<1>6. NewOk(sh2, used, l)'
  BY <1>4, <1>5 DEF NewOk
<1>7. RootShape(sh2)'
  BY <1>4, <1>5 DEF Shaped, RootShape, Made
<1>8. \A v \in Views, p \in Pages : Walk(v, p)' = Walk(v, p)
  BY <1>3, SameTables
<1>9. \A t \in ConstTables : table'[t] = table[t]
  <2>1. ConstTables \subseteq 1 .. used
    BY <1>5, ConstTableIs DEF Shaped, ConstShape
  <2> QED BY <2>1, <1>3
<1> QED BY <1>3, <1>4, <1>5, <1>6, <1>7, <1>8, <1>9

LEMMA CopyStep ==
  ASSUME NEW sh, Shaped(sh), Copy
  PROVE  /\ IInv' /\ pc # "idle" /\ pc' # "idle"
         /\ UNCHANGED << root, req >>
         /\ \A v \in Views, p \in Pages : Walk(v, p)' = Walk(v, p)
         /\ \A t \in ConstTables : table'[t] = table[t]
<1> DEFINE v == req.view   p == req.page
<1>1. PICK l : l = NeedRemap(v, p)
  OBVIOUS
<1>2. PICK e : e = EntryAt(v, p, l)
  OBVIOUS
<1>3. /\ pc = "remap" /\ l # 0
      /\ NewTable(WithRights(table[e.to], Same[e.rights]))
      /\ fresh' = [level |-> l,
                   entry |-> [e EXCEPT !.to = used', !.rights = Full[e.rights]]]
      /\ pc' = "link" /\ UNCHANGED << root, req, calls >>
  BY <1>1, <1>2 DEF Copy, CopyWith
<1>4. /\ l \in 1 .. 3 /\ e \in Entry /\ {"r", "w"} \subseteq e.rights
      /\ e.to \in 1 .. used /\ sh[e.to].owner = Const /\ sh[e.to].level = l + 1
      /\ l \in {2, 3} => sh[e.to].at2 = Slot(p, 2)
      /\ l = 3 => sh[e.to].at3 = Slot(p, 3) /\ ~e.large
  BY <1>1, <1>2, <1>3, CopySource
<1>5. /\ v \in Views /\ v # Const /\ Made(v) /\ p \in Pages
      /\ Slot(p, 2) \in Index /\ Slot(p, 3) \in Index
  BY <1>3, InCall, Slots
<1>6. e.rights \in SUBSET RWX /\ Same[e.rights] = e.rights /\ Full[e.rights] = RWX
  BY <1>4 DEF Same, Full, Entry
<1>7. PICK x : x = [level |-> l + 1, owner |-> v, at2 |-> Slot(p, 2), at3 |-> Slot(p, 3)]
  OBVIOUS
<1>8. /\ x \in Shape /\ x.level = sh[e.to].level /\ l + 1 \in 2 .. 4
      /\ x.level \in {3, 4} => x.at2 = sh[e.to].at2
      /\ x.level = 4 => x.at3 = sh[e.to].at3
  BY <1>4, <1>5, <1>7 DEF Shape
<1>9. PICK new : new = WithRights(table[e.to], e.rights)
  OBVIOUS
<1>10. /\ new \in [Index -> Entry]
       /\ \A i \in Index : EntryOk(sh, used, x, new[i], i)
  <2>1. PICK t : t = e.to
    OBVIOUS
  <2>2. PICK r : r = e.rights
    OBVIOUS
  <2>3. t \in 1 .. used /\ sh[t].owner = Const /\ r \in SUBSET RWX /\ {"r", "w"} \subseteq r
    BY <1>4, <1>6, <2>1, <2>2
  <2>4. /\ x \in Shape /\ x.level = sh[t].level
        /\ x.level \in {3, 4} => x.at2 = sh[t].at2
        /\ x.level = 4 => x.at3 = sh[t].at3
    BY <1>8, <2>1
  <2>5. /\ WithRights(table[t], r) \in [Index -> Entry]
        /\ \A i \in Index : EntryOk(sh, used, x, WithRights(table[t], r)[i], i)
    BY ZenonT(60), <2>3, <2>4, CopiedEntry
  <2> QED BY <2>1, <2>2, <2>5, <1>9
<1>11. NewTable(new)
  BY <1>3, <1>6, <1>9
<1>12. /\ table' \in [Tables -> [Index -> Entry]]
       /\ used' \in FirstPt + 1 .. used' /\ used' \in Tables /\ used' \in Nat
       /\ \A t \in 1 .. used : table'[t] = table[t]
       /\ table'[used'] = new
       /\ \A t \in ConstTables : table'[t] = table[t]
       /\ \A u \in Views, q \in Pages : Walk(u, q)' = Walk(u, q)
       /\ \E sh2 \in [Tables -> Shape] :
            /\ \A t \in 1 .. used : sh2[t] = sh[t]
            /\ NewOk(sh2, used, l + 1)'
            /\ ConstShape(sh2)' /\ TablesShape(sh2)' /\ RootShape(sh2)'
  BY <1>3, <1>7, <1>8, <1>10, <1>11, CallGrows
<1>13. PICK sh2 \in [Tables -> Shape] :
            /\ \A t \in 1 .. used : sh2[t] = sh[t]
            /\ NewOk(sh2, used, l + 1)'
            /\ ConstShape(sh2)' /\ TablesShape(sh2)' /\ RootShape(sh2)'
  BY <1>12
<1>14. /\ fresh'.level = l /\ fresh'.entry = [e EXCEPT !.to = used', !.rights = RWX]
       /\ fresh'.entry.to = used'
       /\ fresh' \in [level : 0 .. 3, entry : Entry]
  <2>1. PICK f : f = [e EXCEPT !.to = used', !.rights = RWX]
    OBVIOUS
  <2>2. e \in Entry /\ used' \in Nat
    BY <1>4, <1>12
  <2>3. f \in Entry /\ f.to = used'
    BY <2>1, <2>2 DEF Entry
  <2>4. fresh' = [level |-> l, entry |-> f]
    BY <1>3, <1>6, <2>1
  <2>5. l \in 0 .. 3
    BY <1>4
  <2> QED BY <2>1, <2>3, <2>4, <2>5
<1>15. TypeOK'
  BY <1>3, <1>12, <1>14 DEF Shaped, TypeOK
<1>16. Linking(sh2)'
  <2>1. /\ NeedRemap(v, p)' = l /\ EntryAt(v, p, l)' = e
    <3>1. /\ NeedRemap(v, p)' = NeedRemap(v, p)
          /\ \A k \in 1 .. 3 : EntryAt(v, p, k)' = EntryAt(v, p, k)
      BY <1>3, <1>5, <1>12, SamePath
    <3> QED BY <3>1, <1>1, <1>2, <1>4
  <2>2. EntryAt(req.view, req.page, fresh.level)' = e
    BY <2>1, <1>3, <1>14
  <2>3. NewOk(sh2, fresh.entry.to, fresh.level + 1)'
    BY <1>13, <1>14 DEF NewOk
  <2>4. table'[used'] = WithRights(table[e.to], e.rights) /\ table'[e.to] = table[e.to]
    BY <1>4, <1>9, <1>12
  <2>5. table'[used'] = WithRights(table'[e.to], e.rights)
    BY <2>4
  <2> QED BY ZenonT(60), <2>1, <2>2, <2>3, <2>5, <1>3, <1>4, <1>14 DEF Linking, WithRights
<1>17. CallShape(sh2)'
  <2>1. Made(v)'
    BY <1>3, <1>5 DEF Made
  <2>2. req.view \in {Vice, Target} /\ req.pte.to = req.page /\ {"r", "w"} \subseteq req.pte.rights
    BY <1>3, InCall
  <2> QED BY <2>1, <2>2, <1>3, <1>16 DEF CallShape, Made
<1> QED BY <1>3, <1>12, <1>13, <1>15, <1>17 DEF IInv, Shaped

LEMMA RemappedStep ==
  ASSUME NEW sh, Shaped(sh), Remapped
  PROVE  Shaped(sh)' /\ pc # "idle" /\ pc' # "idle" /\ UNCHANGED << table, used, root, req >>
<1> DEFINE v == req.view   p == req.page
<1>1. /\ pc = "remap" /\ NeedRemap(v, p) = 0 /\ pc' = "set"
      /\ UNCHANGED << table, used, root, req, fresh, calls >>
  BY DEF Remapped
<1>2. /\ v \in Views /\ v # Const /\ Made(v) /\ p \in Pages /\ v \in {Vice, Target}
      /\ Slot(p, 2) \in Index /\ Slot(p, 3) \in Index
  BY <1>1, InCall, Slots
<1>3. OwnPath(sh, v, p)
  <2> HIDE DEF v, p
  <2>1. /\ Pml4e(v).to # Pml4e(Const).to
        /\ Pdpte(v, p).to # Pdpte(Const, p).to
        /\ ~Pde(v, p).large => Pde(Const, p).large
             \/ Pde(v, p).to # Pde(Const, p).to
    BY <1>1, NeedRemapIs
  <2>2. /\ Pml4e(Const).to = 1 /\ Pdpte(Const, p).to = 2 + Slot(p, 2)
        /\ Slot(p, 2) = 0 /\ Slot(p, 3) = 0 =>
              ~Pde(Const, p).large /\ Pde(Const, p).to = FirstPt
    BY <1>2, ConstPath
  <2>3. sh[Pml4e(v).to].owner = v
    <3>1. /\ Pml4e(v).to \in 1 .. used /\ sh[Pml4e(v).to].level = 2
          /\ sh[Pml4e(v).to].owner \in {Const, v}
      BY <1>2, Path
    <3> QED BY <3>1, <2>1, <2>2, ConstByShape
  <2>4. sh[Pdpte(v, p).to].owner = v
    <3>1. /\ Pdpte(v, p).to \in 1 .. used /\ sh[Pdpte(v, p).to].level = 3
          /\ sh[Pdpte(v, p).to].at2 = Slot(p, 2)
          /\ sh[Pdpte(v, p).to].owner \in {Const, v}
      BY <1>2, Path
    <3> QED BY <3>1, <2>1, <2>2, ConstByShape
  <2>5. ASSUME ~Pde(v, p).large PROVE sh[Pde(v, p).to].owner = v
    <3>1. /\ Pde(v, p).to \in 1 .. used /\ sh[Pde(v, p).to].level = 4
          /\ sh[Pde(v, p).to].at2 = Slot(p, 2) /\ sh[Pde(v, p).to].at3 = Slot(p, 3)
          /\ sh[Pde(v, p).to].owner \in {Const, v}
      BY <1>2, <2>5, Path
    <3> QED BY <3>1, <2>1, <2>2, <2>5, ConstByShape
  <2> QED BY <2>3, <2>4, <2>5 DEF OwnPath
<1>4. TypeOK' /\ ConstShape(sh)' /\ TablesShape(sh)' /\ RootShape(sh)'
  BY <1>1 DEF Shaped, TypeOK, ConstShape, TablesShape, RootShape, Made
<1>5. CallShape(sh)'
  <2>1. OwnPath(sh, req.view, req.page)'
    <3>1. Pml4e(v)' = Pml4e(v) /\ Pdpte(v, p)' = Pdpte(v, p) /\ Pde(v, p)' = Pde(v, p)
      BY <1>1, <1>2, SamePath
    <3> QED BY <1>1, <1>3, <3>1 DEF OwnPath
  <2> QED BY <2>1, <1>1, <1>2, InCall DEF CallShape, Made
<1> QED BY <1>1, <1>4, <1>5 DEF Shaped

(* A large page is split. *)
LEMMA SplitStep ==
  ASSUME NEW sh, Shaped(sh), Split
  PROVE  /\ IInv' /\ pc # "idle" /\ pc' # "idle"
         /\ UNCHANGED << root, req >>
         /\ \A v \in Views, p \in Pages : Walk(v, p)' = Walk(v, p)
         /\ \A t \in ConstTables : table'[t] = table[t]
<1> DEFINE v == req.view   p == req.page
<1>1. PICK e : e = Pde(v, p)
  OBVIOUS
<1>2. PICK new : new = SmallPages(p, e.rights)
  OBVIOUS
<1>3. /\ pc = "set" /\ e.large /\ NewTable(new)
      /\ fresh' = [level |-> 3, entry |-> [rights |-> RWX, to |-> used', large |-> FALSE]]
      /\ pc' = "linkPde" /\ UNCHANGED << root, req, calls >>
  BY <1>1, <1>2 DEF Split, SplitWith
<1>4. /\ v \in Views /\ v # Const /\ Made(v) /\ p \in Pages
      /\ Slot(p, 2) \in Index /\ Slot(p, 3) \in Index
      /\ (p \div Fanout) * Fanout = PageOf(Slot(p, 2), Slot(p, 3), 0)
  BY <1>3, InCall, Slots
<1>5. e \in Entry /\ {"r", "w"} \subseteq e.rights
  BY <1>1, <1>4, EntryTypes, Path DEF EntryOk
<1>6. PICK x : x = [level |-> 4, owner |-> v, at2 |-> Slot(p, 2), at3 |-> Slot(p, 3)]
  OBVIOUS
<1>7. ASSUME NEW i \in Index
      PROVE  new[i] \in Entry /\ EntryOk(sh, used, x, new[i], i)
  <2>1. new[i] = [rights |-> e.rights, large |-> FALSE,
                  to |-> PageOf(Slot(p, 2), Slot(p, 3), i)]
    <3>1. new[i] = [rights |-> e.rights, large |-> FALSE,
                    to |-> (p \div Fanout) * Fanout + i]
      BY <1>2 DEF SmallPages
    <3>2. (p \div Fanout) * Fanout + i = PageOf(Slot(p, 2), Slot(p, 3), i)
      BY <1>4, PageNumbers
    <3> QED BY <3>1, <3>2
  <2>2. PageOf(Slot(p, 2), Slot(p, 3), i) \in Nat
    BY <1>4, PageNumbers
  <2> QED BY <2>1, <2>2, <1>5, <1>6 DEF EntryOk, Entry
<1>8. new \in [Index -> Entry]
  BY <1>2, <1>7 DEF SmallPages
<1>9. /\ table' \in [Tables -> [Index -> Entry]]
      /\ used' \in FirstPt + 1 .. used' /\ used' \in Tables /\ used' \in Nat
      /\ \A t \in 1 .. used : table'[t] = table[t]
      /\ table'[used'] = new
      /\ \A t \in ConstTables : table'[t] = table[t]
      /\ \A u \in Views, q \in Pages : Walk(u, q)' = Walk(u, q)
      /\ \E sh2 \in [Tables -> Shape] :
           /\ \A t \in 1 .. used : sh2[t] = sh[t]
           /\ NewOk(sh2, used, 4)'
           /\ ConstShape(sh2)' /\ TablesShape(sh2)' /\ RootShape(sh2)'
  BY <1>3, <1>6, <1>7, <1>8, CallGrows
<1>10. PICK sh2 \in [Tables -> Shape] :
           /\ \A t \in 1 .. used : sh2[t] = sh[t]
           /\ NewOk(sh2, used, 4)'
           /\ ConstShape(sh2)' /\ TablesShape(sh2)' /\ RootShape(sh2)'
  BY <1>9
<1>11. /\ fresh'.entry = [rights |-> RWX, to |-> used', large |-> FALSE]
       /\ fresh'.entry.to = used'
       /\ fresh' \in [level : 0 .. 3, entry : Entry]
  BY <1>3, <1>9 DEF Entry
<1>12. TypeOK'
  BY <1>3, <1>9, <1>11 DEF Shaped, TypeOK
<1>13. Pml4e(v)' = Pml4e(v) /\ Pdpte(v, p)' = Pdpte(v, p) /\ Pde(v, p)' = e
  BY <1>1, <1>3, <1>4, <1>9, SamePath
<1>14. LinkingPde(sh2)'
  <2>1. NewOk(sh2, fresh.entry.to, 4)'
    BY <1>10, <1>11 DEF NewOk
  <2> QED BY <2>1, <1>2, <1>3, <1>9, <1>11, <1>13 DEF LinkingPde, SmallPages
<1>15. OwnPath(sh2, req.view, req.page)'
  <2>1. OwnPath(sh, v, p)
    BY <1>3 DEF Shaped, CallShape
  <2>2. Pml4e(v).to \in 1 .. used /\ Pdpte(v, p).to \in 1 .. used
    BY <1>4, Path
  <2> QED BY <2>1, <2>2, <1>1, <1>3, <1>10, <1>13 DEF OwnPath
<1>16. CallShape(sh2)'
  BY <1>3, <1>14, <1>15, InCall DEF CallShape, Made
<1> QED BY <1>3, <1>9, <1>10, <1>12, <1>16 DEF IInv, Shaped

-----------------------------------------------------------------------------
(* The copy is linked. *)
LEMMA Linked ==
  ASSUME NEW sh, Shaped(sh), pc = "link",
         NEW l, l = fresh.level, NEW f, f = fresh.entry,
         NEW e, e = EntryAt(req.view, req.page, l)
  PROVE  /\ l \in 1 .. 3 /\ l = NeedRemap(req.view, req.page)
         /\ e \in Entry /\ {"r", "w"} \subseteq e.rights
         /\ e.to \in 1 .. used /\ sh[e.to].level = l + 1
         /\ l = 3 => ~e.large
         /\ f \in Entry /\ f.rights = RWX /\ f.large = e.large
         /\ f.to \in 1 .. used
         /\ sh[f.to] = [level |-> l + 1, owner |-> req.view,
                        at2 |-> Slot(req.page, 2), at3 |-> Slot(req.page, 3)]
         /\ \A i \in Index :
              /\ table[e.to][i] \in Entry /\ table[e.to][i].rights = RWX
              /\ table[f.to][i] \in Entry /\ table[f.to][i].rights = e.rights
              /\ table[f.to][i].to = table[e.to][i].to
              /\ table[f.to][i].large = table[e.to][i].large
<1>1. Linking(sh)
  BY DEF Shaped, CallShape
<1>2. /\ l \in 1 .. 3 /\ l = NeedRemap(req.view, req.page)
      /\ NewOk(sh, f.to, l + 1)
      /\ table[f.to] = WithRights(table[e.to], e.rights)
      /\ f = [e EXCEPT !.to = f.to, !.rights = RWX]
  BY <1>1 DEF Linking
<1>3. /\ e \in Entry /\ {"r", "w"} \subseteq e.rights
      /\ e.to \in 1 .. used /\ sh[e.to].owner = Const /\ sh[e.to].level = l + 1
      /\ l = 3 => ~e.large
  BY <1>2, CopySource
<1>4. /\ f \in Entry /\ fresh.entry.to \in Nat
  BY DEF Shaped, TypeOK, Entry
<1>5. f.rights = RWX /\ f.large = e.large
  BY <1>2, <1>3 DEF Entry
<1>6. /\ f.to \in 1 .. used
      /\ sh[f.to] = [level |-> l + 1, owner |-> req.view,
                     at2 |-> Slot(req.page, 2), at3 |-> Slot(req.page, 3)]
  BY <1>2, ConstTableIs DEF NewOk
<1>7. ASSUME NEW i \in Index
      PROVE  /\ table[e.to][i] \in Entry /\ table[e.to][i].rights = RWX
             /\ table[f.to][i] \in Entry /\ table[f.to][i].rights = e.rights
             /\ table[f.to][i].to = table[e.to][i].to
             /\ table[f.to][i].large = table[e.to][i].large
  <2>1. e.to \in ConstTables
    BY <1>3, ConstByShape
  <2>2. table[e.to][i].rights = RWX
    <3>1. PICK p \in Pages : p = req.page
      BY InCall
    <3> QED BY <2>1, <3>1, ConstPath
  <2>3. table[e.to][i] \in Entry
    BY <2>1, ConstTableIs DEF Shaped, TypeOK
  <2>4. table[f.to][i] = [table[e.to][i] EXCEPT !.rights = e.rights]
    BY <1>2 DEF WithRights
  <2>5. e.rights \in SUBSET RWX
    BY <1>3 DEF Entry
  <2>6. PICK c : c = table[e.to][i]
    OBVIOUS
  <2>7. /\ [c EXCEPT !.rights = e.rights] \in Entry
        /\ [c EXCEPT !.rights = e.rights].rights = e.rights
        /\ [c EXCEPT !.rights = e.rights].to = c.to
        /\ [c EXCEPT !.rights = e.rights].large = c.large
    BY <2>3, <2>5, <2>6 DEF Entry
  <2> QED BY <2>2, <2>3, <2>4, <2>6, <2>7
<1> QED BY <1>2, <1>3, <1>4, <1>5, <1>6, <1>7

LEMMA LinkPml4e ==
  ASSUME NEW sh, Shaped(sh), Link, fresh.level = 1
  PROVE  /\ UNCHANGED table /\ root'[Const] = root[Const]
         /\ root' \in [Views -> Entry] /\ RootShape(sh)'
         /\ ConstShape(sh)' /\ TablesShape(sh)'
         /\ \A w \in Views, q \in Pages : Walk(w, q)' = Walk(w, q)
<1>1. PICK v : v = req.view
  OBVIOUS
<1>2. PICK f : f = fresh.entry
  OBVIOUS
<1>3. PICK e : e = Pml4e(v)
  OBVIOUS
<1>4. /\ pc = "link" /\ UNCHANGED << table, used >> /\ root' = [root EXCEPT ![v] = f]
  BY <1>1, <1>2, StoreAtIs DEF Link
<1>5. /\ v \in Views /\ v # Const /\ Const \in Views /\ Made(v)
  BY <1>1, <1>4, InCall
<1>6. /\ f \in Entry /\ f.rights = RWX /\ f.to \in 1 .. used
      /\ sh[f.to] = [level |-> 2, owner |-> v,
                     at2 |-> Slot(req.page, 2), at3 |-> Slot(req.page, 3)]
      /\ \A i \in Index :
           /\ table[e.to][i] \in Entry /\ table[e.to][i].rights = RWX
           /\ table[f.to][i] \in Entry /\ table[f.to][i].rights = e.rights
           /\ table[f.to][i].to = table[e.to][i].to
           /\ table[f.to][i].large = table[e.to][i].large
  <2>1. e = EntryAt(req.view, req.page, 1)
    BY <1>1, <1>3, EntryAtIs
  <2>2. 1 + 1 = 2
    OBVIOUS
  <2> QED BY <2>1, <2>2, <1>1, <1>2, <1>4, Linked
<1>7. /\ root'[v] = f /\ \A w \in Views \ {v} : root'[w] = root[w]
      /\ root' \in [Views -> Entry]
  BY <1>4, <1>5, <1>6 DEF Shaped, TypeOK
<1>8. RootShape(sh)'
  <2>1. /\ root[Const] = [rights |-> RWX, to |-> 1, large |-> FALSE]
        /\ \A w \in Views : Made(w) =>
             /\ root[w].rights = RWX
             /\ root[w].to \in 1 .. used /\ sh[root[w].to].level = 2
             /\ sh[root[w].to].owner \in {Const, w}
    BY DEF Shaped, RootShape
  <2>2. sh[f.to].level = 2 /\ sh[f.to].owner = v
    BY <1>6
  <2>3. ASSUME NEW w \in Views, Made(w)'
        PROVE  /\ root'[w].rights = RWX
               /\ root'[w].to \in 1 .. used /\ sh[root'[w].to].level = 2
               /\ sh[root'[w].to].owner \in {Const, w}
    <3>1. CASE w = v
      BY <3>1, <2>2, <1>6, <1>7
    <3>2. CASE w # v
      BY <3>2, <2>1, <2>3, <1>7 DEF Made
    <3> QED BY <3>1, <3>2
  <2>4. root'[Const] = [rights |-> RWX, to |-> 1, large |-> FALSE]
    BY <2>1, <1>5, <1>7
  <2> QED BY <2>3, <2>4, <1>4 DEF RootShape
<1>9. ASSUME NEW q \in Pages PROVE Walk(v, q)' = Walk(v, q)
  <2>1. Slot(q, 2) \in Index
    BY Slots
  <2>2. e.rights = RWX
    BY <1>3, <1>5, Path
  <2>3. Pdpte(v, q)' = table[f.to][Slot(q, 2)] /\ Pdpte(v, q) = table[e.to][Slot(q, 2)]
    BY <1>3, <1>4, <1>7 DEF Pdpte, Pml4e
  <2>4. Pdpte(v, q)' = Pdpte(v, q)
    BY <2>1, <2>2, <2>3, <1>6 DEF Entry
  <2>5. Pde(v, q)' = Pde(v, q)
    BY <2>4, <1>4 DEF Pde
  <2>6. Pte(v, q)' = Pte(v, q)
    BY <2>5, <1>4 DEF Pte
  <2>7. Made(v)' /\ Pml4e(v)'.rights = Pml4e(v).rights
    BY <1>3, <1>6, <1>7, <2>2 DEF Made, Null, Pml4e, RWX
  <2> QED BY <2>4, <2>5, <2>6, <2>7, <1>5 DEF Walk
<1>10. \A w \in Views \ {v}, q \in Pages : Walk(w, q)' = Walk(w, q)
  BY <1>4, <1>7, SameTables
<1>11. ConstShape(sh)' /\ TablesShape(sh)'
  BY <1>4 DEF Shaped, ConstShape, TablesShape
<1> QED BY <1>4, <1>5, <1>7, <1>8, <1>9, <1>10, <1>11

LEMMA LinkPdpte ==
  ASSUME NEW sh, Shaped(sh), Link, fresh.level = 2
  PROVE  /\ UNCHANGED root /\ table' \in [Tables -> [Index -> Entry]]
         /\ \A t \in ConstTables : table'[t] = table[t]
         /\ ConstShape(sh)' /\ TablesShape(sh)'
         /\ \A w \in Views, q \in Pages : Walk(w, q)' = Walk(w, q)
<1>1. PICK v : v = req.view
  OBVIOUS
<1>2. PICK p : p = req.page
  OBVIOUS
<1>3. PICK f : f = fresh.entry
  OBVIOUS
<1>4. PICK e : e = Pdpte(v, p)
  OBVIOUS
<1>5. PICK t : t = Pml4e(v).to
  OBVIOUS
<1>6. /\ pc = "link" /\ UNCHANGED << root, used >>
      /\ table' = [table EXCEPT ![t][Slot(p, 2)] = f]
  BY <1>1, <1>2, <1>3, <1>5, StoreAtIs DEF Link
<1>7. /\ v \in Views /\ v # Const /\ Const \in Views /\ Made(v) /\ Made(Const)
      /\ p \in Pages
  BY <1>1, <1>2, <1>6, InCall
<1>8. /\ NeedRemap(v, p) = 2 /\ {"r", "w"} \subseteq e.rights
      /\ e \in Entry /\ e.to \in 1 .. used /\ sh[e.to].level = 3
      /\ f \in Entry /\ f.rights = RWX /\ f.large = e.large /\ f.to \in 1 .. used
      /\ sh[f.to] = [level |-> 3, owner |-> v, at2 |-> Slot(p, 2), at3 |-> Slot(p, 3)]
      /\ \A i \in Index :
           /\ table[e.to][i] \in Entry /\ table[e.to][i].rights = RWX
           /\ table[f.to][i] \in Entry /\ table[f.to][i].rights = e.rights
           /\ table[f.to][i].to = table[e.to][i].to
           /\ table[f.to][i].large = table[e.to][i].large
  <2>1. e = EntryAt(req.view, req.page, 2)
    BY <1>1, <1>2, <1>4, EntryAtIs
  <2>2. 2 + 1 = 3
    OBVIOUS
  <2> QED BY <2>1, <2>2, <1>1, <1>2, <1>3, <1>6, Linked
<1>9. /\ t \in 1 .. used /\ sh[t].level = 2 /\ sh[t].owner = v
  <2>1. t # 1
    BY <1>5, <1>7, <1>8, NeedRemapIs, ConstPath
  <2>2. /\ t \in 1 .. used /\ sh[t].level = 2 /\ sh[t].owner \in {Const, v}
    BY <1>5, <1>7, Path
  <2> QED BY <2>1, <2>2, ConstByShape
<1>10. Slot(p, 2) \in Index
  BY <1>7, Slots
<1>11. EntryOk(sh, used, sh[t], f, Slot(p, 2))
  <2>1. Child(sh, used, sh[t], f, 3, Slot(p, 2), 0)
    BY <1>8, <1>9 DEF Child
  <2> QED BY <2>1, <1>8, <1>9 DEF EntryOk, RWX
<1>12. /\ table' \in [Tables -> [Index -> Entry]]
       /\ \A u \in 1 .. used : u # t => table'[u] = table[u]
       /\ \A c \in ConstTables : table'[c] = table[c]
       /\ ConstShape(sh)' /\ TablesShape(sh)'
  BY <1>6, <1>7, <1>8, <1>9, <1>10, <1>11, StoreShape
<1>13. ASSUME NEW w \in Views, NEW q \in Pages, ~Through(sh[t], Slot(p, 2), w, q)
       PROVE  Walk(w, q)' = Walk(w, q)
  <2>1. f \in Entry /\ sh[t].owner # Const
    BY <1>7, <1>8, <1>9
  <2> QED BY <2>1, <1>6, <1>9, <1>10, <1>13, Stores
<1>14. ASSUME NEW w \in Views, NEW q \in Pages, Through(sh[t], Slot(p, 2), w, q)
       PROVE  Walk(w, q)' = Walk(w, q)
  <2>1. w = v /\ Slot(q, 2) = Slot(p, 2) /\ Slot(q, 3) \in Index
    BY <1>9, <1>14, Slots DEF Through
  <2>2. Pml4e(v)' = Pml4e(v) /\ Made(v)'
    BY <1>6, <1>7 DEF Pml4e, Made
  <2>3. Pdpte(v, q) = e
    BY <1>4, <2>1 DEF Pdpte
  <2>4. Pdpte(v, q)' = f
    <3>1. t \in Tables /\ table \in [Tables -> [Index -> Entry]]
      BY <1>9, EptAssumption DEF Shaped, TypeOK, Tables
    <3>2. table'[t][Slot(p, 2)] = f
      BY <3>1, <1>6, <1>10
    <3> QED BY <3>2, <2>1, <2>2, <1>5 DEF Pdpte
  <2>5. table'[f.to] = table[f.to]
    BY <1>8, <1>9, <1>12
  <2>6. Pde(v, q) = table[e.to][Slot(q, 3)] /\ Pde(v, q)' = table[f.to][Slot(q, 3)]
    BY <2>1, <2>3, <2>4, <2>5, <1>8 DEF Pde
  <2>7. /\ Pde(v, q).rights = RWX /\ Pde(v, q)'.rights = e.rights
        /\ Pde(v, q)'.large = Pde(v, q).large /\ Pde(v, q)'.to = Pde(v, q).to
    BY <2>1, <2>6, <1>8 DEF Entry
  <2>8. Pte(v, q)' = Pte(v, q)
    <3>1. ~Pde(v, q).large =>
            Pde(v, q).to \in 1 .. used /\ sh[Pde(v, q).to].level = 4
      BY <1>7, Path
    <3> QED BY <3>1, <2>7, <1>9, <1>12 DEF Pte
  <2>9. /\ Pml4e(v)'.rights \cap Pdpte(v, q)'.rights \cap Pde(v, q)'.rights
             = Pml4e(v).rights \cap Pdpte(v, q).rights \cap Pde(v, q).rights
    BY <2>2, <2>3, <2>4, <2>7, <1>8
  <2> QED BY <2>1, <2>2, <2>7, <2>8, <2>9, <1>7 DEF Walk
<1> QED BY <1>6, <1>12, <1>13, <1>14

(* A page table put below an entry of the view's own page directory.       *)
PutBelow(sh, v, p, f) ==
  LET e == Pde(v, p)
  IN /\ v \in Views \ {Const} /\ Made(v) /\ sh[Pdpte(v, p).to].owner = v
     /\ f \in Entry /\ f.rights = RWX /\ ~f.large /\ f.to \in 1 .. used
     /\ sh[f.to] = [level |-> 4, owner |-> v,
                    at2 |-> Slot(p, 2), at3 |-> Slot(p, 3)]
     /\ \A i \in Index : table[f.to][i].rights = e.rights
     /\ ~e.large => \A i \in Index : table[e.to][i].rights = RWX
     /\ table' = [table EXCEPT ![Pdpte(v, p).to][Slot(p, 3)] = f]
     /\ UNCHANGED << root, used >>

LEMMA StorePde ==
  ASSUME NEW sh, Shaped(sh), NEW v, NEW p \in Pages, NEW f, PutBelow(sh, v, p, f)
  PROVE  /\ table' \in [Tables -> [Index -> Entry]]
         /\ \A c \in ConstTables : table'[c] = table[c]
         /\ ConstShape(sh)' /\ TablesShape(sh)'
         /\ Pml4e(v)' = Pml4e(v) /\ Pdpte(v, p)' = Pdpte(v, p) /\ Pde(v, p)' = f
         /\ \A w \in Views, q \in Pages : Walk(w, q)' = Walk(w, q)
<1> PICK t : t = Pdpte(v, p).to
  OBVIOUS
<1> PICK e : e = Pde(v, p)
  OBVIOUS
<1>0. /\ v \in Views /\ v # Const /\ Made(v) /\ sh[t].owner = v
      /\ f \in Entry /\ f.rights = RWX /\ ~f.large /\ f.to \in 1 .. used
      /\ sh[f.to] = [level |-> 4, owner |-> v,
                     at2 |-> Slot(p, 2), at3 |-> Slot(p, 3)]
      /\ \A i \in Index : table[f.to][i].rights = e.rights
      /\ ~e.large => \A i \in Index : table[e.to][i].rights = RWX
      /\ table' = [table EXCEPT ![t][Slot(p, 3)] = f]
      /\ UNCHANGED << root, used >>
  BY DEF PutBelow
<1> USE <1>0
<1>1. /\ t \in 1 .. used /\ sh[t].level = 3 /\ sh[t].at2 = Slot(p, 2)
      /\ sh[t].owner # Const /\ t \in Tables
  <2>1. t \in 1 .. used /\ sh[t].level = 3 /\ sh[t].at2 = Slot(p, 2) /\ sh[t].owner # Const
    BY Path
  <2> QED BY <2>1, EptAssumption DEF Shaped, TypeOK, Tables
<1>2. Slot(p, 2) \in Index /\ Slot(p, 3) \in Index
  BY Slots
<1>3. EntryOk(sh, used, sh[t], f, Slot(p, 3))
  <2>1. Child(sh, used, sh[t], f, 4, sh[t].at2, Slot(p, 3))
    BY <1>1 DEF Child
  <2> QED BY <2>1, <1>1 DEF EntryOk, RWX
<1>4. /\ table' \in [Tables -> [Index -> Entry]]
      /\ \A u \in 1 .. used : u # t => table'[u] = table[u]
      /\ \A c \in ConstTables : table'[c] = table[c]
      /\ ConstShape(sh)' /\ TablesShape(sh)'
  BY <1>1, <1>2, <1>3, StoreShape
<1>5. table'[t][Slot(p, 3)] = f /\ table'[f.to] = table[f.to]
  <2>1. table \in [Tables -> [Index -> Entry]]
    BY DEF Shaped, TypeOK
  <2>2. f.to # t
    BY <1>1
  <2> QED BY <2>1, <2>2, <1>1, <1>2, <1>4
<1>6. ASSUME NEW w \in Views, NEW q \in Pages, ~Through(sh[t], Slot(p, 3), w, q)
      PROVE  Walk(w, q)' = Walk(w, q)
  BY <1>1, <1>2, <1>6, Stores
<1>7. ASSUME NEW q \in Pages, Slot(q, 2) = Slot(p, 2), Slot(q, 3) = Slot(p, 3)
      PROVE  /\ Pml4e(v)' = Pml4e(v) /\ Made(v)'
             /\ Pdpte(v, q)' = Pdpte(v, q) /\ Pdpte(v, q) = Pdpte(v, p)
             /\ Pde(v, q)' = f /\ Pde(v, q) = e
  <2>1. Pml4e(v)' = Pml4e(v) /\ Made(v)'
    BY DEF Pml4e, Made
  <2>2. Pml4e(v).to \in 1 .. used /\ sh[Pml4e(v).to].level = 2
    BY Path
  <2>3. Pdpte(v, q)' = Pdpte(v, q) /\ Pdpte(v, q) = Pdpte(v, p)
    <3>1. PICK m : m = Pml4e(v).to
      OBVIOUS
    <3>2. table'[m] = table[m]
      BY <3>1, <2>2, <1>1, <1>4
    <3>3. Pdpte(v, q) = table[m][Slot(q, 2)] /\ Pdpte(v, p) = table[m][Slot(p, 2)]
      BY <3>1 DEF Pdpte
    <3>4. Pdpte(v, q)' = table'[m][Slot(q, 2)]
      BY <3>1, <2>1 DEF Pdpte
    <3> QED BY <3>2, <3>3, <3>4, <1>7
  <2>4. Pde(v, q)' = f /\ Pde(v, q) = e
    BY <2>3, <1>5, <1>7 DEF Pde
  <2> QED BY <2>1, <2>3, <2>4
<1>8. ASSUME NEW w \in Views, NEW q \in Pages, Through(sh[t], Slot(p, 3), w, q)
      PROVE  Walk(w, q)' = Walk(w, q)
  <2>1. w = v /\ Slot(q, 2) = Slot(p, 2) /\ Slot(q, 3) = Slot(p, 3)
    BY <1>1, <1>8 DEF Through
  <2>2. Slot(q, 4) \in Index /\ q = PageOf(Slot(q, 2), Slot(q, 3), Slot(q, 4))
    BY Slots
  <2>3. /\ Pml4e(v)' = Pml4e(v) /\ Made(v)'
        /\ Pdpte(v, q)' = Pdpte(v, q) /\ Pdpte(v, q) = Pdpte(v, p)
        /\ Pde(v, q)' = f /\ Pde(v, q) = e
    BY <2>1, <1>7
  <2>4. Pte(v, q)' = table[f.to][Slot(q, 4)]
    BY <2>3, <1>5 DEF Pte
  <2>5. table[f.to][Slot(q, 4)].to = q
    <3>1. EntryOk(sh, used, sh[f.to], table[f.to][Slot(q, 4)], Slot(q, 4))
      BY <2>2 DEF Shaped, TablesShape
    <3> QED BY <3>1, <2>1, <2>2 DEF EntryOk
  <2>6. /\ Pml4e(v).rights = RWX
        /\ Pdpte(v, q).rights \subseteq RWX /\ e.rights \subseteq RWX
    BY <2>3, Path, EntryTypes DEF Entry
  <2>7. Walk(v, q)' = [frame |-> q, rights |-> Pdpte(v, q).rights \cap e.rights]
    <3>1. RWX \cap Pdpte(v, q).rights \cap RWX \cap e.rights
            = Pdpte(v, q).rights \cap e.rights
      BY <2>6
    <3>2. Walk(v, q)' = [frame |-> q,
                rights |-> RWX \cap Pdpte(v, q).rights \cap RWX \cap e.rights]
      BY <2>2, <2>3, <2>4, <2>5, <2>6 DEF Walk
    <3> QED BY <3>1, <3>2
  <2>8. Allowed(v, q) = Pdpte(v, q).rights \cap e.rights
    <3>1. CASE e.large
      BY <3>1, <2>3 DEF Allowed
    <3>2. CASE ~e.large
      <4>1. Pte(v, q) = table[e.to][Slot(q, 4)]
        BY <3>2, <2>3 DEF Pte
      <4>2. Pte(v, q).rights = RWX
        BY <4>1, <3>2, <2>2
      <4> QED BY <4>2, <3>2, <2>3, <2>6 DEF Allowed
    <3> QED BY <3>1, <3>2
  <2> QED BY <2>1, <2>7, <2>8, WalkIs
<1> QED BY <1>4, <1>6, <1>7, <1>8

LEMMA LinkPde3 ==
  ASSUME NEW sh, Shaped(sh), Link, fresh.level = 3
  PROVE  /\ UNCHANGED root /\ table' \in [Tables -> [Index -> Entry]]
         /\ \A t \in ConstTables : table'[t] = table[t]
         /\ ConstShape(sh)' /\ TablesShape(sh)'
         /\ \A w \in Views, q \in Pages : Walk(w, q)' = Walk(w, q)
<1>1. PICK v : v = req.view
  OBVIOUS
<1>2. PICK p : p = req.page
  OBVIOUS
<1>3. PICK f : f = fresh.entry
  OBVIOUS
<1>4. PICK e : e = Pde(v, p)
  OBVIOUS
<1>5. PICK t : t = Pdpte(v, p).to
  OBVIOUS
<1>6. /\ pc = "link" /\ UNCHANGED << root, used >>
      /\ table' = [table EXCEPT ![t][Slot(p, 3)] = f]
  BY <1>1, <1>2, <1>3, <1>5, StoreAtIs DEF Link
<1>7. /\ v \in Views /\ v # Const /\ Const \in Views /\ Made(v) /\ Made(Const)
      /\ p \in Pages
  BY <1>1, <1>2, <1>6, InCall
<1>8. /\ NeedRemap(v, p) = 3 /\ ~e.large
      /\ f \in Entry /\ f.rights = RWX /\ f.large = e.large /\ f.to \in 1 .. used
      /\ sh[f.to] = [level |-> 4, owner |-> v, at2 |-> Slot(p, 2), at3 |-> Slot(p, 3)]
      /\ \A i \in Index : /\ table[e.to][i].rights = RWX
                          /\ table[f.to][i].rights = e.rights
  <2>1. e = EntryAt(req.view, req.page, 3)
    BY <1>1, <1>2, <1>4, EntryAtIs
  <2>2. 3 + 1 = 4
    OBVIOUS
  <2> QED BY <2>1, <2>2, <1>1, <1>2, <1>3, <1>6, Linked
<1>9. sh[t].owner = v
  <2>1. t # 2 + Slot(p, 2)
    BY <1>5, <1>7, <1>8, NeedRemapIs, ConstPath
  <2>2. /\ t \in 1 .. used /\ sh[t].level = 3 /\ sh[t].owner \in {Const, v}
        /\ sh[t].at2 = Slot(p, 2)
    BY <1>5, <1>7, Path
  <2> QED BY <2>1, <2>2, ConstByShape
<1>10. v \in Views \ {Const} /\ ~f.large
  BY <1>7, <1>8
<1>11. \A i \in Index : table[f.to][i].rights = e.rights
  BY <1>8
<1>12. ~e.large => \A i \in Index : table[e.to][i].rights = RWX
  BY <1>8
<1>13. /\ f \in Entry /\ f.rights = RWX /\ f.to \in 1 .. used
       /\ sh[f.to] = [level |-> 4, owner |-> v, at2 |-> Slot(p, 2), at3 |-> Slot(p, 3)]
  BY <1>8
<1>14. PutBelow(sh, v, p, f)
  BY <1>4, <1>5, <1>6, <1>7, <1>9, <1>10, <1>11, <1>12, <1>13 DEF PutBelow
<1> QED BY <1>6, <1>7, <1>14, StorePde

LEMMA LinkStep ==
  ASSUME NEW sh, Shaped(sh), Link
  PROVE  /\ Shaped(sh)' /\ pc # "idle" /\ pc' # "idle" /\ UNCHANGED req
         /\ \A w \in Views, q \in Pages : Walk(w, q)' = Walk(w, q)
         /\ root'[Const] = root[Const] /\ \A t \in ConstTables : table'[t] = table[t]
<1>1. pc = "link" /\ pc' = "remap" /\ UNCHANGED << used, req, fresh, calls >>
  BY DEF Link
<1>2. fresh.level \in 1 .. 3
  BY <1>1, Linked
<1>3. /\ root' \in [Views -> Entry] /\ table' \in [Tables -> [Index -> Entry]]
      /\ RootShape(sh)' /\ ConstShape(sh)' /\ TablesShape(sh)' /\ Made(req.view)'
      /\ \A w \in Views, q \in Pages : Walk(w, q)' = Walk(w, q)
      /\ root'[Const] = root[Const] /\ \A t \in ConstTables : table'[t] = table[t]
  <2>1. Made(req.view)
    BY <1>1, InCall
  <2>2. CASE fresh.level = 1
    <3>1. /\ UNCHANGED table /\ root'[Const] = root[Const]
          /\ root' \in [Views -> Entry] /\ RootShape(sh)'
          /\ ConstShape(sh)' /\ TablesShape(sh)'
          /\ \A w \in Views, q \in Pages : Walk(w, q)' = Walk(w, q)
      BY <2>2, LinkPml4e
    <3>2. Made(req.view)'
      <4>1. PICK f : f = fresh.entry
        OBVIOUS
      <4>2. f.rights = RWX
        <5>1. PICK l : l = fresh.level
          OBVIOUS
        <5>2. PICK e : e = EntryAt(req.view, req.page, l)
          OBVIOUS
        <5> QED BY <4>1, <5>1, <5>2, <1>1, Linked
      <4>3. root' = [root EXCEPT ![req.view] = f] /\ req.view \in Views
        BY <4>1, <2>2, <1>1, StoreAtIs, InCall DEF Link
      <4>4. root'[req.view] = f
        BY <4>3 DEF Shaped, TypeOK
      <4> QED BY <4>2, <4>4, <1>1 DEF Made, Null, RWX
    <3> QED BY <3>1, <3>2 DEF Shaped, TypeOK
  <2>3. CASE fresh.level \in {2, 3}
    <3>1. /\ UNCHANGED root /\ table' \in [Tables -> [Index -> Entry]]
          /\ \A t \in ConstTables : table'[t] = table[t]
          /\ ConstShape(sh)' /\ TablesShape(sh)'
          /\ \A w \in Views, q \in Pages : Walk(w, q)' = Walk(w, q)
      BY <2>3, LinkPdpte, LinkPde3
    <3>2. RootShape(sh)' /\ Made(req.view)'
      BY <3>1, <2>1, <1>1 DEF Shaped, RootShape, Made
    <3> QED BY <3>1, <3>2 DEF Shaped, TypeOK
  <2> QED BY <2>2, <2>3, <1>2
<1>4. TypeOK'
  BY <1>1, <1>3 DEF Shaped, TypeOK
<1>5. CallShape(sh)'
  BY <1>1, <1>3, InCall DEF CallShape
<1> QED BY <1>1, <1>3, <1>4, <1>5 DEF Shaped

(* The small pages are linked in the large page's place. *)
LEMMA LinkPdeStep ==
  ASSUME NEW sh, Shaped(sh), LinkPde
  PROVE  /\ Shaped(sh)' /\ pc # "idle" /\ pc' # "idle" /\ UNCHANGED << root, req >>
         /\ \A w \in Views, q \in Pages : Walk(w, q)' = Walk(w, q)
         /\ \A t \in ConstTables : table'[t] = table[t]
<1>1. PICK v : v = req.view
  OBVIOUS
<1>2. PICK p : p = req.page
  OBVIOUS
<1>3. PICK f : f = fresh.entry
  OBVIOUS
<1>4. /\ pc = "linkPde" /\ pc' = "set" /\ UNCHANGED << root, used, req, fresh, calls >>
      /\ table' = [table EXCEPT ![Pdpte(v, p).to][Slot(p, 3)] = f]
  BY <1>1, <1>2, <1>3, StoreAtIs DEF LinkPde
<1>5. /\ v \in Views \ {Const} /\ Made(v) /\ p \in Pages
  BY <1>1, <1>2, <1>4, InCall
<1>6. OwnPath(sh, v, p) /\ LinkingPde(sh)
  BY <1>1, <1>2, <1>4 DEF Shaped, CallShape
<1>7. /\ Pde(v, p).large /\ f.rights = RWX /\ ~f.large
      /\ f.to \in 1 .. used
      /\ sh[f.to] = [level |-> 4, owner |-> v, at2 |-> Slot(p, 2), at3 |-> Slot(p, 3)]
      /\ table[f.to] = SmallPages(p, Pde(v, p).rights)
  BY <1>1, <1>2, <1>3, <1>6, ConstTableIs DEF LinkingPde, NewOk
<1>8. \A i \in Index : table[f.to][i].rights = Pde(v, p).rights
  BY <1>7 DEF SmallPages
<1>9. f \in Entry
  BY <1>3 DEF Shaped, TypeOK
<1>10. PutBelow(sh, v, p, f)
  BY <1>4, <1>5, <1>6, <1>7, <1>8, <1>9 DEF PutBelow, OwnPath
<1>11. /\ table' \in [Tables -> [Index -> Entry]]
       /\ \A c \in ConstTables : table'[c] = table[c]
       /\ ConstShape(sh)' /\ TablesShape(sh)'
       /\ Pml4e(v)' = Pml4e(v) /\ Pdpte(v, p)' = Pdpte(v, p) /\ Pde(v, p)' = f
       /\ \A w \in Views, q \in Pages : Walk(w, q)' = Walk(w, q)
  BY <1>5, <1>10, StorePde
<1>12. TypeOK' /\ RootShape(sh)'
  BY <1>4, <1>11 DEF Shaped, TypeOK, RootShape, Made
<1>13. OwnPath(sh, req.view, req.page)'
  BY <1>1, <1>2, <1>4, <1>6, <1>7, <1>11 DEF OwnPath
<1>14. CallShape(sh)'
  BY <1>4, <1>13, InCall DEF CallShape, Made
<1> QED BY <1>4, <1>11, <1>12, <1>14 DEF Shaped

(* The page's entry is stored: its rights are those asked for. *)
LEMMA StorePteStep ==
  ASSUME NEW sh, Shaped(sh), StorePte
  PROVE  /\ Shaped(sh)' /\ pc # "idle" /\ pc' = "idle" /\ UNCHANGED root
         /\ Walk(req.view, req.page)' = [frame |-> req.page, rights |-> req.pte.rights]
         /\ \A w \in Views, q \in Pages : << w, q >> # << req.view, req.page >> =>
              Walk(w, q)' = Walk(w, q)
         /\ \A t \in ConstTables : table'[t] = table[t]
<1>1. PICK v : v = req.view
  OBVIOUS
<1>2. PICK p : p = req.page
  OBVIOUS
<1>3. PICK f : f = req.pte
  OBVIOUS
<1>4. PICK t : t = Pde(v, p).to
  OBVIOUS
<1>5. /\ pc = "set" /\ pc' = "idle" /\ UNCHANGED << root, used, req, fresh, calls >>
      /\ ~Pde(v, p).large
      /\ table' = [table EXCEPT ![t][Slot(p, 4)] = f]
  BY <1>1, <1>2, <1>3, <1>4, StoreAtIs DEF StorePte
<1>6. /\ v \in Views /\ v # Const /\ Made(v) /\ p \in Pages /\ f \in Entry
      /\ f.to = p /\ {"r", "w"} \subseteq f.rights
  BY <1>1, <1>2, <1>3, <1>5, InCall
<1>7. /\ sh[Pml4e(v).to].owner = v /\ sh[Pdpte(v, p).to].owner = v /\ sh[t].owner = v
  BY <1>1, <1>2, <1>4, <1>5 DEF Shaped, CallShape, OwnPath
<1>8. /\ t \in 1 .. used /\ sh[t].level = 4
      /\ sh[t].at2 = Slot(p, 2) /\ sh[t].at3 = Slot(p, 3)
  BY <1>4, <1>5, <1>6, Path
<1>9. /\ Slot(p, 2) \in Index /\ Slot(p, 3) \in Index /\ Slot(p, 4) \in Index
      /\ p = PageOf(Slot(p, 2), Slot(p, 3), Slot(p, 4))
  BY <1>6, Slots
<1>10. EntryOk(sh, used, sh[t], f, Slot(p, 4))
  BY <1>6, <1>8, <1>9 DEF EntryOk
<1>11. sh[t].owner # Const
  BY <1>6, <1>7
<1>12. /\ table' \in [Tables -> [Index -> Entry]]
       /\ \A u \in 1 .. used : u # t => table'[u] = table[u]
       /\ \A c \in ConstTables : table'[c] = table[c]
       /\ ConstShape(sh)' /\ TablesShape(sh)'
  BY <1>5, <1>6, <1>8, <1>9, <1>10, <1>11, StoreShape
<1>13. ASSUME NEW w \in Views, NEW q \in Pages, << w, q >> # << v, p >>
       PROVE  Walk(w, q)' = Walk(w, q)
  <2>1. q = PageOf(Slot(q, 2), Slot(q, 3), Slot(q, 4))
    BY Slots
  <2>2. ~Through(sh[t], Slot(p, 4), w, q)
    BY <2>1, <1>7, <1>8, <1>9, <1>13 DEF Through
  <2>3. f \in Entry /\ Slot(p, 4) \in Index /\ t \in 1 .. used /\ UNCHANGED root
    BY <1>5, <1>6, <1>8, <1>9
  <2> QED BY <2>2, <2>3, <1>5, <1>11, Stores
<1>14. Walk(v, p)' = [frame |-> p, rights |-> f.rights]
  <2>1. Pml4e(v)' = Pml4e(v) /\ Made(v)' /\ Pml4e(v).rights = RWX
    BY <1>5, <1>6, Path DEF Pml4e, Made
  <2>2. /\ Pml4e(v).to \in 1 .. used /\ sh[Pml4e(v).to].level = 2
        /\ Pdpte(v, p).to \in 1 .. used /\ sh[Pdpte(v, p).to].level = 3
        /\ EntryOk(sh, used, sh[Pml4e(v).to], Pdpte(v, p), Slot(p, 2))
        /\ EntryOk(sh, used, sh[Pdpte(v, p).to], Pde(v, p), Slot(p, 3))
    BY <1>6, Path
  <2>3. Pdpte(v, p).rights = RWX
    <3>1. Child(sh, used, sh[Pml4e(v).to], Pdpte(v, p), 3, Slot(p, 2), 0)
      BY <2>2 DEF EntryOk
    <3> QED BY <3>1, <1>6, <1>7 DEF Child
  <2>4. Pde(v, p).rights = RWX
    <3>1. Child(sh, used, sh[Pdpte(v, p).to], Pde(v, p), 4,
                sh[Pdpte(v, p).to].at2, Slot(p, 3))
      BY <2>2, <1>5 DEF EntryOk
    <3> QED BY <3>1, <1>4, <1>6, <1>7 DEF Child
  <2>5. Pdpte(v, p)' = Pdpte(v, p)
    BY <2>1, <2>2, <1>8, <1>12 DEF Pdpte
  <2>6. Pde(v, p)' = Pde(v, p)
    BY <2>2, <2>5, <1>8, <1>12 DEF Pde
  <2>7. table'[t][Slot(p, 4)] = f
    <3>1. t \in Tables /\ table \in [Tables -> [Index -> Entry]]
      BY <1>8, EptAssumption DEF Shaped, TypeOK, Tables
    <3> QED BY <3>1, <1>5, <1>9
  <2>8. Pte(v, p)' = f
    BY <2>6, <2>7, <1>4, <1>5 DEF Pte
  <2>9. RWX \cap RWX \cap RWX \cap f.rights = f.rights
    BY <1>6 DEF Entry
  <2>10. Walk(v, p)' = [frame |-> f.to, rights |-> RWX \cap RWX \cap RWX \cap f.rights]
    BY <2>1, <2>3, <2>4, <2>5, <2>6, <2>8, <1>5 DEF Walk
  <2> QED BY <2>9, <2>10, <1>6
<1>15. TypeOK' /\ RootShape(sh)' /\ CallShape(sh)'
  BY <1>5, <1>12 DEF Shaped, TypeOK, RootShape, CallShape, Made
<1> QED BY <1>1, <1>2, <1>3, <1>5, <1>12, <1>13, <1>14, <1>15 DEF Shaped

-----------------------------------------------------------------------------
(* At the start only const_ept's tables are there. *)
LEMMA InitShaped == Init => IInv
<1> SUFFICES ASSUME Init PROVE IInv
  OBVIOUS
<1>1. PICK sh : sh = [t \in Tables |->
         [level |-> IF t = 1 THEN 2 ELSE IF t = FirstPt THEN 4 ELSE 3,
          owner |-> Const,
          at2 |-> IF t - 2 \in Index THEN t - 2 ELSE 0, at3 |-> 0]]
  OBVIOUS
<1>2. /\ table = [t \in Tables |-> [i \in Index |->
                IF t \in ConstTables THEN ConstEntry(t, i) ELSE Null]]
      /\ used = FirstPt
      /\ root = [v \in Views |-> IF v = Const
               THEN [rights |-> RWX, to |-> 1, large |-> FALSE] ELSE Null]
      /\ pc = "idle" /\ req = [view |-> Const, page |-> 0, pte |-> Null]
      /\ fresh = [level |-> 0, entry |-> Null] /\ calls = 0
  BY DEF Init, FirstPt
<1>3. sh \in [Tables -> Shape]
  <2>1. ASSUME NEW t \in Tables
        PROVE  [level |-> IF t = 1 THEN 2 ELSE IF t = FirstPt THEN 4 ELSE 3,
                owner |-> Const,
                at2 |-> IF t - 2 \in Index THEN t - 2 ELSE 0, at3 |-> 0] \in Shape
    BY Fanouts DEF Shape, Views
  <2> QED BY <1>1, <2>1
<1>4. /\ \A t \in Tables : sh[t].owner = Const
      /\ sh[1].level = 2
      /\ \A i \in Index : sh[2 + i].level = 3 /\ sh[2 + i].at2 = i
      /\ sh[FirstPt].level = 4 /\ sh[FirstPt].at2 = 0 /\ sh[FirstPt].at3 = 0
  <2>1. ASSUME NEW i \in Index
        PROVE  /\ 2 + i \in Tables /\ 2 + i # 1 /\ 2 + i # FirstPt
               /\ (2 + i) - 2 = i
    BY ConstTableIs DEF Index, Tables
  <2>2. FirstPt - 2 \notin Index
    BY Fanouts, ConstTableIs DEF Index
  <2> QED BY <1>1, <2>1, <2>2, ConstTableIs
<1>5. ASSUME NEW t \in ConstTables, NEW i \in Index
      PROVE  table[t][i] = ConstEntry(t, i) /\ ConstEntry(t, i) \in Entry
  <2>1. table[t][i] = ConstEntry(t, i)
    BY <1>2, ConstTableIs
  <2>2. ConstEntry(t, i) \in Entry
    <3>1. CASE t = 1
      <4>1. ConstEntry(t, i) = [rights |-> RWX, large |-> FALSE, to |-> 2 + i]
        BY <3>1, ConstEntryIs
      <4>2. 2 + i \in Nat
        BY DEF Index
      <4> QED BY <4>1, <4>2 DEF Entry
    <3>2. CASE t = FirstPt
      <4>1. ConstEntry(t, i) = [rights |-> RWX, large |-> FALSE, to |-> i]
        BY <3>2, ConstEntryIs
      <4>2. i \in Nat
        BY DEF Index
      <4> QED BY <4>1, <4>2 DEF Entry
    <3>3. ASSUME NEW j \in Index, t = 2 + j PROVE ConstEntry(t, i) \in Entry
      <4>1. PageOf(j, i, 0) \in Nat
        BY PageNumbers, Fanouts
      <4>2. CASE << j, i >> = << 0, 0 >>
        <5>1. ConstEntry(t, i) = [rights |-> RWX, large |-> FALSE, to |-> FirstPt]
          BY <4>2, <3>3, ConstEntryIs
        <5> QED BY <5>1, ConstTableIs DEF Entry
      <4>3. CASE << j, i >> # << 0, 0 >>
        <5>1. ConstEntry(t, i) = [rights |-> RWX, large |-> TRUE, to |-> PageOf(j, i, 0)]
          BY <4>3, <3>3, ConstEntryIs
        <5> QED BY <5>1, <4>1 DEF Entry
      <4> QED BY <4>2, <4>3
    <3> QED BY <3>1, <3>2, <3>3, ConstTableIs
  <2> QED BY <2>1, <2>2
<1>6. TypeOK
  <2>1. Null \in Entry
    BY DEF Null, Entry
  <2>2. table \in [Tables -> [Index -> Entry]]
    BY <1>2, <1>5, <2>1
  <2>3. [rights |-> RWX, to |-> 1, large |-> FALSE] \in Entry
    BY DEF Entry
  <2>4. root \in [Views -> Entry]
    BY <1>2, <2>1, <2>3
  <2>5. 0 \in Pages
    <3>1. Fanout * Fanout * Fanout \in Nat /\ Fanout * Fanout * Fanout > 0
      <4>1. Fanout * Fanout \in Nat /\ Fanout * Fanout > 0
        BY Fanouts
      <4> QED BY <4>1, Fanouts
    <3> QED BY <3>1 DEF Pages
  <2>6. req \in [view : Views, page : Pages, pte : Entry]
    BY <1>2, <2>1, <2>5 DEF Views
  <2>7. fresh \in [level : 0 .. 3, entry : Entry]
    BY <1>2, <2>1
  <2>8. used \in Tables /\ calls \in 0 .. MaxCalls
    BY <1>2, ConstTableIs, EptAssumption
  <2>9. pc \in {"idle", "remap", "link", "set", "linkPde"}
    BY <1>2
  <2> QED BY <2>2, <2>4, <2>6, <2>7, <2>8, <2>9 DEF TypeOK
<1>7. ConstShape(sh)
  <2>1. used >= FirstPt /\ \A t \in 1 .. used : t \in ConstTables
    BY <1>2, ConstTableIs
  <2>2. \A t \in ConstTables : sh[t].owner = Const
    BY <1>4, ConstTableIs
  <2>3. \A t \in ConstTables, i \in Index : table[t][i] = ConstEntry(t, i)
    BY <1>5
  <2> QED BY <2>1, <2>2, <2>3, <1>4 DEF ConstShape
<1>8. TablesShape(sh)
  <2>1. SUFFICES ASSUME NEW t \in ConstTables, NEW i \in Index
                 PROVE  EntryOk(sh, used, sh[t], ConstEntry(t, i), i)
    BY <1>2, <1>5, ConstTableIs DEF TablesShape
  <2>2. \A u \in ConstTables : u \in 1 .. used
    BY <1>2, ConstTableIs
  <2>3. CASE t = 1
    <3>1. /\ ConstEntry(t, i).to = 2 + i /\ ConstEntry(t, i).rights = RWX
          /\ sh[t].level = 2 /\ sh[t].owner = Const
      BY <2>3, <1>4, ConstEntryIs, ConstTableIs
    <3>2. Child(sh, used, sh[t], ConstEntry(t, i), 3, i, 0)
      BY <3>1, <2>2, <1>4, ConstTableIs DEF Child
    <3> QED BY <3>1, <3>2 DEF EntryOk, RWX
  <2>4. CASE t = FirstPt
    <3>1. /\ ConstEntry(t, i).to = i /\ ConstEntry(t, i).rights = RWX
          /\ sh[t].level = 4 /\ sh[t].at2 = 0 /\ sh[t].at3 = 0
      BY <2>4, <1>4, ConstEntryIs
    <3>2. PageOf(0, 0, i) = i
      BY PageNumbers, Fanouts
    <3> QED BY <3>1, <3>2 DEF EntryOk, RWX
  <2>5. ASSUME NEW j \in Index, t = 2 + j
        PROVE  EntryOk(sh, used, sh[t], ConstEntry(t, i), i)
    <3>1. sh[t].level = 3 /\ sh[t].at2 = j /\ sh[t].owner = Const
      BY <2>5, <1>4, ConstTableIs
    <3>2. CASE << j, i >> = << 0, 0 >>
      <4>1. /\ ConstEntry(t, i).to = FirstPt /\ ConstEntry(t, i).rights = RWX
            /\ ~ConstEntry(t, i).large /\ j = 0 /\ i = 0
        BY <3>2, <2>5, ConstEntryIs
      <4>2. Child(sh, used, sh[t], ConstEntry(t, i), 4, sh[t].at2, i)
        BY <4>1, <3>1, <2>2, <1>4, ConstTableIs DEF Child
      <4> QED BY <4>1, <4>2, <3>1 DEF EntryOk, RWX
    <3>3. CASE << j, i >> # << 0, 0 >>
      <4>1. /\ ConstEntry(t, i).to = PageOf(j, i, 0) /\ ConstEntry(t, i).rights = RWX
            /\ ConstEntry(t, i).large
        <5>1. ConstEntry(t, i) = [rights |-> RWX, large |-> TRUE, to |-> PageOf(j, i, 0)]
          BY <3>3, <2>5, ConstEntryIs
        <5> QED BY <5>1
      <4> QED BY <4>1, <3>1 DEF EntryOk, RWX
    <3> QED BY <3>2, <3>3
  <2> QED BY <2>3, <2>4, <2>5, ConstTableIs
<1>9. RootShape(sh)
  <2>1. /\ Const \in Views /\ root[Const] = [rights |-> RWX, to |-> 1, large |-> FALSE]
        /\ \A v \in Views : v # Const => ~Made(v)
    BY <1>2 DEF Views, Made
  <2>2. root[Const].rights = RWX /\ root[Const].to = 1
    BY <2>1
  <2>3. 1 \in 1 .. used /\ 1 \in Tables
    BY <1>2, ConstTableIs
  <2> QED BY <2>1, <2>2, <2>3, <1>4 DEF RootShape
<1>10. CallShape(sh)
  BY <1>2 DEF CallShape
<1> QED BY <1>3, <1>6, <1>7, <1>8, <1>9, <1>10 DEF IInv, Shaped

-----------------------------------------------------------------------------
(* What the views' abstraction shows. *)
Seen  == [v \in Views |-> [p \in Pages |-> Walk(v, p)]]
Asked == IF pc = "idle" THEN {} ELSE {<< req.view, req.page, req.pte.rights >>}

LEMMA FirstPage == 0 \in Pages
<1>1. Fanout * Fanout \in Nat /\ Fanout * Fanout > 0
  BY Fanouts
<1>2. Fanout * Fanout * Fanout \in Nat /\ Fanout * Fanout * Fanout > 0
  BY <1>1, Fanouts
<1> QED BY <1>2 DEF Pages

LEMMA Unmade ==
  ASSUME NEW v \in Views, ~Made(v), NEW p \in Pages
  PROVE  Walk(v, p) = [frame |-> p, rights |-> {}]
BY DEF Walk

(* Steps inside a call that the views do not show. *)
LEMMA Unseen ==
  ASSUME pc # "idle", pc' # "idle", UNCHANGED req,
         \A v \in Views, p \in Pages : Walk(v, p)' = Walk(v, p)
  PROVE  UNCHANGED Abstract!vars
<1>1. Seen' = Seen
  BY DEF Seen
<1>2. Asked' = Asked
  BY DEF Asked
<1> QED BY <1>1, <1>2 DEF Seen, Asked, Abstract!vars

LEMMA ViceCreates ==
  ASSUME NEW sh, Shaped(sh), MakeVice
  PROVE  Abstract!Next
<1>1. /\ \A p \in Pages : Walk(Vice, p)' = [frame |-> p, rights |-> RWX]
      /\ \A v \in Views \ {Vice}, p \in Pages : Walk(v, p)' = Walk(v, p)
  BY ViceStep
<1>2. /\ \A p \in Pages : Walk(Vice, p) = [frame |-> p, rights |-> {}]
      /\ UNCHANGED << pc, req >> /\ Vice \in Views \ {Const}
  BY Unmade, EptAssumption DEF MakeVice, Views
<1>3. ~Abstract!Created(Vice)
  BY <1>2 DEF Abstract!Created
<1>4. \A p \in Pages : Abstract!SetRights(Vice, p, RWX)
  BY <1>1, <1>2 DEF Abstract!SetRights
<1>5. \A u \in Views \ {Vice}, p \in Pages : Abstract!Untouched(u, p)
  BY <1>1 DEF Abstract!Untouched
<1>6. Asked' = Asked
  BY <1>2 DEF Asked
<1>7. Abstract!Create(Vice)
  BY <1>3, <1>4, <1>5, <1>6 DEF Abstract!Create, Asked
<1> QED BY <1>2, <1>7 DEF Abstract!Next

LEMMA TargetCreates ==
  ASSUME NEW sh, Shaped(sh), MakeTarget
  PROVE  Abstract!Next
<1>1. /\ \A p \in Pages : Walk(Target, p)' = [frame |-> p, rights |-> {"r", "w"}]
      /\ \A v \in Views \ {Target}, p \in Pages : Walk(v, p)' = Walk(v, p)
  BY TargetStep
<1>2. /\ \A p \in Pages : Walk(Target, p) = [frame |-> p, rights |-> {}]
      /\ UNCHANGED << pc, req >> /\ Target \in Views \ {Const}
  BY Unmade, EptAssumption DEF MakeTarget, Views
<1>3. ~Abstract!Created(Target)
  BY <1>2 DEF Abstract!Created
<1>4. \A p \in Pages : Abstract!SetRights(Target, p, {"r", "w"})
  BY <1>1, <1>2 DEF Abstract!SetRights
<1>5. \A u \in Views \ {Target}, p \in Pages : Abstract!Untouched(u, p)
  BY <1>1 DEF Abstract!Untouched
<1>6. Asked' = Asked
  BY <1>2 DEF Asked
<1>7. {"r", "w"} \in SUBSET RWX
  BY DEF RWX
<1>8. Abstract!Create(Target)
  BY <1>3, <1>4, <1>5, <1>6, <1>7 DEF Abstract!Create, Asked
<1> QED BY <1>2, <1>8 DEF Abstract!Next

LEMMA CallAsks ==
  ASSUME NEW sh, Shaped(sh), Call
  PROVE  Abstract!Next
<1>1. /\ UNCHANGED << table, root, used >> /\ pc = "idle" /\ pc' = "remap"
      /\ req' \in [view : {Vice, Target}, page : Pages, pte : Entry]
      /\ Made(req'.view)
  BY CallStep
<1>2. PICK v : v = req'.view
  OBVIOUS
<1>3. v \in Views \ {Const} /\ Made(v)
  BY <1>1, <1>2, EptAssumption DEF Views
<1>4. /\ Asked = {} /\ Asked' = {<< v, req'.page, req'.pte.rights >>}
      /\ req'.page \in Pages /\ req'.pte.rights \in SUBSET RWX
  BY <1>1, <1>2 DEF Asked, Entry
<1>5. Abstract!Created(v)
  <2>1. /\ Walk(v, 0) = [frame |-> 0, rights |-> Allowed(v, 0)]
        /\ {"r", "w"} \subseteq Allowed(v, 0)
    BY <1>3, FirstPage, WalkIs
  <2>2. Walk(v, 0).rights # {}
    BY <2>1
  <2> QED BY <2>2, <1>3, FirstPage DEF Abstract!Created
<1>6. \A w \in Views, p \in Pages : Walk(w, p)' = Walk(w, p)
  BY <1>1, SameTables
<1>7. \A u \in Views, p \in Pages : Abstract!Untouched(u, p)
  BY <1>6 DEF Abstract!Untouched
<1>8. Abstract!Ask(v)
  BY <1>4, <1>5, <1>7 DEF Abstract!Ask, Asked
<1> QED BY <1>3, <1>8 DEF Abstract!Next

LEMMA StoreGrants ==
  ASSUME NEW sh, Shaped(sh), StorePte
  PROVE  Abstract!Next
<1>1. PICK v : v = req.view
  OBVIOUS
<1>2. PICK p : p = req.page
  OBVIOUS
<1>3. PICK r : r = req.pte.rights
  OBVIOUS
<1>4. /\ pc # "idle" /\ pc' = "idle"
      /\ Walk(v, p)' = [frame |-> p, rights |-> r]
      /\ \A w \in Views, q \in Pages : << w, q >> # << v, p >> =>
           Walk(w, q)' = Walk(w, q)
  <2>1. UNCHANGED req
    BY DEF StorePte
  <2>2. /\ pc # "idle" /\ pc' = "idle"
        /\ Walk(req.view, req.page)' = [frame |-> req.page, rights |-> req.pte.rights]
        /\ \A w \in Views, q \in Pages : << w, q >> # << req.view, req.page >> =>
             Walk(w, q)' = Walk(w, q)
    BY StorePteStep
  <2>3. Walk(v, p)' = Walk(req.view, req.page)'
    BY <2>1, <1>1, <1>2
  <2> QED BY <2>2, <2>3, <1>1, <1>2, <1>3
<1>5. v \in Views /\ Made(v) /\ p \in Pages
  BY <1>1, <1>2, <1>4, InCall
<1>6. Walk(v, p) = [frame |-> p, rights |-> Allowed(v, p)]
  BY <1>5, WalkIs
<1>7. Asked = {<< v, p, r >>} /\ Asked' = {}
  BY <1>1, <1>2, <1>3, <1>4 DEF Asked
<1>8. Abstract!SetRights(v, p, r)
  BY <1>4, <1>5, <1>6 DEF Abstract!SetRights
<1>9. \A w \in Views, q \in Pages : << w, q >> # << v, p >> => Abstract!Untouched(w, q)
  BY <1>4 DEF Abstract!Untouched
<1>10. Abstract!Grant
  <2>1. PICK a : a = << v, p, r >>
    OBVIOUS
  <2>2. a \in Asked /\ a[1] = v /\ a[2] = p /\ a[3] = r
    BY <2>1, <1>7
  <2> QED BY <2>2, <1>7, <1>8, <1>9 DEF Abstract!Grant, Asked
<1> QED BY <1>10 DEF Abstract!Next

-----------------------------------------------------------------------------
LEMMA NextStep ==
  ASSUME IInv, [Next]_vars
  PROVE  /\ IInv'
         /\ root'[Const] = root[Const] /\ \A t \in ConstTables : table'[t] = table[t]
         /\ Abstract!Next \/ UNCHANGED Abstract!vars
<1>1. PICK sh : Shaped(sh)
  BY DEF IInv
<1>2. \A s : Shaped(s)' => IInv'
  BY DEF IInv, Shaped
<1>3. CASE MakeVice
  <2>1. Shaped(sh)' /\ Abstract!Next
    BY <1>1, <1>3, ViceStep, ViceCreates
  <2>2. root'[Const] = root[Const] /\ UNCHANGED table
    BY <1>1, <1>3, EptAssumption DEF MakeVice, Shaped, TypeOK
  <2> QED BY <2>1, <2>2, <1>2
<1>4. CASE MakeTarget
  <2>1. IInv' /\ Abstract!Next /\ \A t \in ConstTables : table'[t] = table[t]
    BY <1>1, <1>4, TargetStep, TargetCreates
  <2>2. root'[Const] = root[Const]
    BY <1>1, <1>4, EptAssumption DEF MakeTarget, Shaped, TypeOK
  <2> QED BY <2>1, <2>2
<1>5. CASE Call
  <2>1. Shaped(sh)' /\ Abstract!Next /\ UNCHANGED << table, root >>
    BY <1>1, <1>5, CallStep, CallAsks
  <2> QED BY <2>1, <1>2
<1>6. CASE Copy
  <2>1. /\ IInv' /\ pc # "idle" /\ pc' # "idle" /\ UNCHANGED << root, req >>
        /\ \A v \in Views, p \in Pages : Walk(v, p)' = Walk(v, p)
        /\ \A t \in ConstTables : table'[t] = table[t]
    BY <1>1, <1>6, CopyStep
  <2> QED BY <2>1, Unseen
<1>7. CASE Link
  <2>1. /\ Shaped(sh)' /\ pc # "idle" /\ pc' # "idle" /\ UNCHANGED req
        /\ \A v \in Views, p \in Pages : Walk(v, p)' = Walk(v, p)
        /\ root'[Const] = root[Const] /\ \A t \in ConstTables : table'[t] = table[t]
    BY <1>1, <1>7, LinkStep
  <2> QED BY <2>1, <1>2, Unseen
<1>8. CASE Remapped
  <2>1. /\ Shaped(sh)' /\ pc # "idle" /\ pc' # "idle"
        /\ UNCHANGED << table, used, root, req >>
    BY <1>1, <1>8, RemappedStep
  <2>2. \A v \in Views, p \in Pages : Walk(v, p)' = Walk(v, p)
    BY <2>1, <1>1, SameTables
  <2> QED BY <2>1, <2>2, <1>2, Unseen
<1>9. CASE Split
  <2>1. /\ IInv' /\ pc # "idle" /\ pc' # "idle" /\ UNCHANGED << root, req >>
        /\ \A v \in Views, p \in Pages : Walk(v, p)' = Walk(v, p)
        /\ \A t \in ConstTables : table'[t] = table[t]
    BY <1>1, <1>9, SplitStep
  <2> QED BY <2>1, Unseen
<1>10. CASE LinkPde
  <2>1. /\ Shaped(sh)' /\ pc # "idle" /\ pc' # "idle" /\ UNCHANGED << root, req >>
        /\ \A v \in Views, p \in Pages : Walk(v, p)' = Walk(v, p)
        /\ \A t \in ConstTables : table'[t] = table[t]
    BY <1>1, <1>10, LinkPdeStep
  <2> QED BY <2>1, <1>2, Unseen
<1>11. CASE StorePte
  <2>1. /\ Shaped(sh)' /\ UNCHANGED root
        /\ \A t \in ConstTables : table'[t] = table[t]
    BY <1>1, <1>11, StorePteStep
  <2>2. Abstract!Next
    BY <1>1, <1>11, StoreGrants
  <2> QED BY <2>1, <2>2, <1>2
<1>12. CASE UNCHANGED vars
  <2>1. UNCHANGED << table, used, root, pc, req, fresh, calls >>
    BY <1>12 DEF vars
  <2>2. Shaped(sh)'
    <3>1. TypeOK' /\ ConstShape(sh)' /\ TablesShape(sh)' /\ RootShape(sh)'
      BY <1>1, <2>1 DEF Shaped, TypeOK, ConstShape, TablesShape, RootShape, Made
    <3>2. CallShape(sh)'
      <4>1. PICK v : v = req.view
        OBVIOUS
      <4>2. PICK p : p = req.page
        OBVIOUS
      <4>3. CallShape(sh)
        BY <1>1 DEF Shaped
      <4>4. CASE pc = "idle"
        BY <4>4, <2>1 DEF CallShape
      <4>5. CASE pc # "idle"
        <5>1. v \in Views /\ Made(v) /\ p \in Pages
          BY <4>1, <4>2, <4>5, <1>1, InCall
        <5>2. /\ Pml4e(v)' = Pml4e(v) /\ Pdpte(v, p)' = Pdpte(v, p)
              /\ Pde(v, p)' = Pde(v, p) /\ NeedRemap(v, p)' = NeedRemap(v, p)
              /\ \A l \in 1 .. 3 : EntryAt(v, p, l)' = EntryAt(v, p, l)
          BY <5>1, <1>1, <2>1, SamePath
        <5>3. req.view = v /\ req'.view = v /\ req.page = p /\ req'.page = p
          BY <4>1, <4>2, <2>1
        <5>4. pc = "link" => Linking(sh)'
          <6>1. pc = "link" => Linking(sh)
            BY <4>3 DEF CallShape
          <6> QED BY <6>1, <5>2, <5>3, <2>1 DEF Linking, NewOk, WithRights
        <5>5. pc \in {"set", "linkPde"} => OwnPath(sh, req.view, req.page)'
          <6>1. pc \in {"set", "linkPde"} => OwnPath(sh, v, p)
            BY <4>3, <5>3 DEF CallShape
          <6> QED BY <6>1, <5>2, <5>3 DEF OwnPath
        <5>6. pc = "linkPde" => LinkingPde(sh)'
          <6>1. pc = "linkPde" => LinkingPde(sh)
            BY <4>3 DEF CallShape
          <6> QED BY <6>1, <5>2, <5>3, <2>1 DEF LinkingPde, NewOk, SmallPages
        <5> QED BY <4>3, <5>4, <5>5, <5>6, <2>1 DEF CallShape, Made
      <4> QED BY <4>4, <4>5
    <3> QED BY <3>1, <3>2, <1>1 DEF Shaped
  <2>3. \A v \in Views, p \in Pages : Walk(v, p)' = Walk(v, p)
    BY <2>1, <1>1, SameTables
  <2>4. Seen' = Seen /\ Asked' = Asked
    BY <2>1, <2>3 DEF Seen, Asked
  <2> QED BY <2>1, <2>2, <2>4, <1>2 DEF Seen, Asked, Abstract!vars
<1> QED BY <1>3, <1>4, <1>5, <1>6, <1>7, <1>8, <1>9, <1>10, <1>11, <1>12
  DEF Next, SetPteStep

LEMMA Invariance == Spec => []IInv
<1>1. Init => IInv
  BY InitShaped
<1>2. IInv /\ [Next]_vars => IInv'
  BY NextStep
<1> QED BY <1>1, <1>2, PTL DEF Spec

LEMMA InitViews ==
  ASSUME Init
  PROVE  Abstract!Init
<1>1. PICK sh : Shaped(sh)
  BY InitShaped DEF IInv
<1>2. /\ root = [v \in Views |-> IF v = Const
               THEN [rights |-> RWX, to |-> 1, large |-> FALSE] ELSE Null]
      /\ pc = "idle"
  BY DEF Init
<1>3. ASSUME NEW v \in Views, NEW p \in Pages
      PROVE  Walk(v, p) = [frame |-> p, rights |-> IF v = Const THEN RWX ELSE {}]
  <2>1. CASE v = Const
    BY <2>1, <1>1, ConstWalk
  <2>2. CASE v # Const
    <3>1. ~Made(v)
      BY <2>2, <1>2 DEF Made
    <3> QED BY <2>2, <3>1, Unmade
  <2> QED BY <2>1, <2>2
<1>4. Seen = [v \in Views |-> [p \in Pages |->
               [frame |-> p, rights |-> IF v = Const THEN RWX ELSE {}]]]
  BY <1>3 DEF Seen
<1>5. Asked = {}
  BY <1>2 DEF Asked
<1> QED BY <1>4, <1>5 DEF Abstract!Init, Seen, Asked

-----------------------------------------------------------------------------
(* The tables of the two views are apart: a table that is not const_ept's  *)
(* is reached by one view only, whatever set_pte did (need_remap).         *)
THEOREM EptOwnTables == Spec => []OwnTables
<1>1. ASSUME NEW sh, Shaped(sh) PROVE OwnTables
  <2>1. ASSUME NEW v \in Views, NEW t \in Reached(v)
        PROVE  t \in ConstTables \/ sh[t].owner = v
    <3>1. Made(v)
      BY <2>1 DEF Reached
    <3>2. \A p \in Pages :
            /\ Pml4e(v).to \in 1 .. used /\ sh[Pml4e(v).to].owner \in {Const, v}
            /\ Pdpte(v, p).to \in 1 .. used /\ sh[Pdpte(v, p).to].owner \in {Const, v}
            /\ ~Pde(v, p).large => /\ Pde(v, p).to \in 1 .. used
                                   /\ sh[Pde(v, p).to].owner \in {Const, v}
      BY <1>1, <3>1, Path
    <3>3. t \in 1 .. used /\ sh[t].owner \in {Const, v}
      BY <3>1, <3>2, <2>1, FirstPage DEF Reached
    <3> QED BY <3>3, <1>1, ConstByShape
  <2>2. \A t \in ConstTables : sh[t].owner = Const
    BY <1>1 DEF Shaped, ConstShape
  <2>3. Reached(Vice) \cap Reached(Target) \subseteq ConstTables
    BY <2>1, EptAssumption DEF Views
  <2>4. Reached(Const) \subseteq ConstTables
    <3>1. ASSUME NEW t \in Reached(Const) PROVE t \in ConstTables
      <4>1. /\ Made(Const) /\ Const \in Views
        BY <1>1, FirstPage, ConstWalk DEF Views
      <4>2. \A p \in Pages :
            /\ Pml4e(Const).to \in 1 .. used /\ sh[Pml4e(Const).to].owner \in {Const, Const}
            /\ Pdpte(Const, p).to \in 1 .. used
            /\ sh[Pdpte(Const, p).to].owner \in {Const, Const}
            /\ ~Pde(Const, p).large => /\ Pde(Const, p).to \in 1 .. used
                                       /\ sh[Pde(Const, p).to].owner \in {Const, Const}
        BY <1>1, <4>1, Path
      <4>3. t \in 1 .. used /\ sh[t].owner = Const
        BY <3>1, <4>1, <4>2, FirstPage DEF Reached
      <4> QED BY <4>3, <1>1, ConstByShape
    <3> QED BY <3>1
  <2> QED BY <2>3, <2>4, <1>1 DEF OwnTables, Shaped
<1>2. IInv => OwnTables
  BY <1>1 DEF IInv
<1> QED BY <1>2, Invariance, PTL

(* No step stores into a table of const_ept: set_pte first makes the tables *)
(* on the page's path the view's own (need_remap, ept.h:19).                *)
THEOREM EptConstFrozen == Spec => ConstFrozen
<1>1. IInv /\ [Next]_vars =>
        [root'[Const] = root[Const] /\ \A t \in ConstTables : table'[t] = table[t]]_vars
  BY NextStep
<1> QED BY <1>1, Invariance, PTL DEF Spec, ConstFrozen

(* The tables implement the views: a walk never shows the copying, the      *)
(* splitting or the pushing down of rights, and a call of set_pte gives     *)
(* the rights asked for to its page of its view and changes nothing else.   *)
THEOREM EptImplementsViews == Spec => ImplementsViews
<1>1. Init => Abstract!Init
  BY InitViews
<1>2. IInv /\ [Next]_vars => [Abstract!Next]_(Abstract!vars)
  BY NextStep
<1> QED BY <1>1, <1>2, Invariance, PTL DEF Spec, ImplementsViews, Abstract!ViewsSpec
=============================================================================

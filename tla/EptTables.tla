------------------------------ MODULE EptTables ------------------------------
(***************************************************************************)
(* EPT_CLS (ept.h, ept.cpp): the four-level page tables of the views the   *)
(* guest runs on.  All of them start from one constant table; a view owns  *)
(* its PML4 and copies a lower table only when it first has to change      *)
(* something below it, pushing the rights of the entry it copies through   *)
(* down into the copy.  The processors walk these tables while set_pte     *)
(* works on them, so every store into a table already linked is one action *)
(* here; tables under construction are filled in the action that allocates *)
(* them.  set_pte is called by one thread at a time: the image-load        *)
(* callback, which Windows serialises.                                     *)
(***************************************************************************)
EXTENDS Integers, FiniteSets

CONSTANTS
  Const,      (* const_ept, the table every view is cloned from *)
  Vice,       (* getViceEpt(): a clone of the PML4 only *)
  Target,     (* target_X_ept: readable and writable, not executable *)
  Fanout,     (* entries of a table; 512 in the code *)
  MaxTables,  (* bound on the tables below the PML4s *)
  MaxCalls    (* bound on the calls of set_pte *)

Views == {Const, Vice, Target}
RWX   == {"r", "w", "x"}
Index == 0 .. Fanout - 1
Pages == 0 .. Fanout * Fanout * Fanout - 1
Tables == 1 .. MaxTables

ASSUME EptAssumption ==
  /\ Fanout \in Nat \ {0}
  /\ MaxTables \in Nat /\ MaxTables >= Fanout + 2
  /\ MaxCalls \in Nat
  /\ Const # Vice /\ Const # Target /\ Vice # Target

Entry == [rights : SUBSET RWX, to : Nat, large : BOOLEAN]

VARIABLES
  table,   (* the entries of every table *)
  used,    (* how many tables are allocated *)
  root,    (* the PML4 entry of each view *)
  pc,      (* where the caller is in set_pte *)
  req,     (* its arguments: view, page and the PTE to store *)
  fresh,   (* the entry it is about to link, and at which level *)
  calls    (* calls made so far *)

vars == << table, used, root, pc, req, fresh, calls >>

Null == [rights |-> {}, to |-> 0, large |-> FALSE]

Slot(p, level) ==
  CASE level = 2 -> p \div (Fanout * Fanout)
    [] level = 3 -> (p \div Fanout) % Fanout
    [] level = 4 -> p % Fanout

(* A page's entry at levels 1 (PML4) to 4, Null below a large page.        *)
Pml4e(v)    == root[v]
Pdpte(v, p) == table[Pml4e(v).to][Slot(p, 2)]
Pde(v, p)   == table[Pdpte(v, p).to][Slot(p, 3)]
Pte(v, p)   == IF Pde(v, p).large THEN Null
               ELSE table[Pde(v, p).to][Slot(p, 4)]

(* ALvmxEPTnewTable: the first 2 MB in 4 KB pages, the rest in 2 MB pages. *)
ConstTables == 1 .. Fanout + 2
FirstPt     == Fanout + 2
ConstEntry(t, i) ==
  [rights |-> RWX,
   large |-> t \in 2 .. Fanout + 1 /\ << t, i >> # << 2, 0 >>,
   to |-> CASE t = 1 -> 2 + i
            [] t = FirstPt -> i
            [] << t, i >> = << 2, 0 >> -> FirstPt
            [] OTHER -> ((t - 2) * Fanout + i) * Fanout]

Init ==
  /\ table = [t \in Tables |-> [i \in Index |->
                IF t \in ConstTables THEN ConstEntry(t, i) ELSE Null]]
  /\ used = Fanout + 2
  /\ root = [v \in Views |-> IF v = Const
               THEN [rights |-> RWX, to |-> 1, large |-> FALSE] ELSE Null]
  /\ pc = "idle"
  /\ req = [view |-> Const, page |-> 0, pte |-> Null]
  /\ fresh = [level |-> 0, entry |-> Null]
  /\ calls = 0

Made(v) == root[v] # Null

-----------------------------------------------------------------------------
(* A new table: allocated, filled, not yet linked.                         *)
NewTable(contents) ==
  /\ used < MaxTables
  /\ used' = used + 1
  /\ table' = [table EXCEPT ![used + 1] = contents]

WithRights(contents, r) == [i \in Index |-> [contents[i] EXCEPT !.rights = r]]

(* Variant: the clone is made of the view made last. *)
MakeViceOfTarget ==
  /\ ~Made(Vice)
  /\ root' = [root EXCEPT ![Vice] = IF Made(Target) THEN root[Target]
                                    ELSE root[Const]]
  /\ UNCHANGED << table, used, pc, req, fresh, calls >>

(* EPT_CLS(0): the PML4 is copied.                                         *)
MakeVice ==
  /\ ~Made(Vice)
  /\ root' = [root EXCEPT ![Vice] = root[Const]]
  /\ UNCHANGED << table, used, pc, req, fresh, calls >>

(* EPT_CLS(1, 1, 0): the PDPT is copied too, and its rights reduced.       *)
MakeTarget ==
  /\ ~Made(Target) /\ pc = "idle"
  /\ NewTable(WithRights(table[root[Const].to], {"r", "w"}))
  /\ root' = [root EXCEPT ![Target] = [root[Const] EXCEPT !.to = used']]
  /\ UNCHANGED << pc, req, fresh, calls >>

-----------------------------------------------------------------------------
(* set_pte(GPA, r, w, x): the page's PTE, or a new one where it has none,  *)
(* with the rights asked for.                                              *)
Call ==
  /\ pc = "idle" /\ calls < MaxCalls
  /\ calls' = calls + 1
  /\ pc' = "remap"
  /\ \E v \in {Target, Vice}, p \in Pages :
       /\ Made(v)
       /\ req' = [view |-> v, page |-> p, pte |->
                   [rights |-> IF v = Target THEN RWX ELSE {"r", "w"},
                    large |-> FALSE,
                    to |-> IF Pte(v, p) = Null THEN p ELSE Pte(v, p).to]]
  /\ UNCHANGED << table, used, root, fresh >>

(* Variant: the last level is never found to be shared. *)
NeedRemapNotPt(v, p) ==
  IF Pml4e(v).to = Pml4e(Const).to THEN 1
  ELSE IF Pdpte(v, p).to = Pdpte(Const, p).to THEN 2 ELSE 0

(* The level whose entry of v still leads into a table of const_ept, 0 if  *)
(* every table on the path is v's own.                                     *)
NeedRemap(v, p) ==
  CASE Pml4e(v).to = Pml4e(Const).to -> 1
    [] Pml4e(v).to # Pml4e(Const).to /\ Pdpte(v, p).to = Pdpte(Const, p).to -> 2
    [] OTHER -> IF /\ ~Pde(v, p).large /\ ~Pde(Const, p).large
                   /\ Pde(v, p).to = Pde(Const, p).to
                THEN 3 ELSE 0

EntryAt(v, p, level) ==
  CASE level = 1 -> Pml4e(v) [] level = 2 -> Pdpte(v, p) [] level = 3 -> Pde(v, p)

(* The table at the level is copied, the entry's rights pushed down into   *)
(* the copy and the entry prepared that will lead to it.                   *)
CopyWith(pushed, left) ==
  LET level == NeedRemap(req.view, req.page)
      entry == EntryAt(req.view, req.page, level)
  IN /\ pc = "remap" /\ level # 0
     /\ NewTable(WithRights(table[entry.to], pushed[entry.rights]))
     /\ fresh' = [level |-> level,
                  entry |-> [entry EXCEPT !.to = used', !.rights = left[entry.rights]]]
     /\ pc' = "link"
     /\ UNCHANGED << root, req, calls >>

Same == [r \in SUBSET RWX |-> r]
Full == [r \in SUBSET RWX |-> RWX]

(* Variant: the rights of the copied entry are lost. *)
CopyForgetsRights == CopyWith(Full, Full)

Copy == CopyWith(Same, Full)

(* The entry is stored where the walk finds it, at the level given.        *)
StoreAt(level, e) ==
  LET v == req.view
      p == req.page
      in == CASE level = 2 -> Pml4e(v).to
              [] level = 3 -> Pdpte(v, p).to
              [] level = 4 -> Pde(v, p).to
  IN IF level = 1
     THEN root' = [root EXCEPT ![v] = e] /\ UNCHANGED table
     ELSE table' = [table EXCEPT ![in][Slot(p, level)] = e] /\ UNCHANGED root

Link ==
  /\ pc = "link"
  /\ StoreAt(fresh.level, fresh.entry)
  /\ pc' = "remap"
  /\ UNCHANGED << used, req, fresh, calls >>

Remapped ==
  /\ pc = "remap" /\ NeedRemap(req.view, req.page) = 0
  /\ pc' = "set"
  /\ UNCHANGED << table, used, root, req, fresh, calls >>

(* ALvmxEPTbuildPDE: 4 KB entries over a 2 MB page.                        *)
SmallPages(p, r) ==
  [i \in Index |-> [rights |-> r, large |-> FALSE,
                    to |-> (p \div Fanout) * Fanout + i]]

SplitWith(contents) ==
  LET pde == Pde(req.view, req.page) IN
  /\ pc = "set" /\ pde.large
  /\ NewTable(contents)
  /\ fresh' = [level |-> 3,
               entry |-> [rights |-> RWX, to |-> used', large |-> FALSE]]
  /\ pc' = "linkPde"
  /\ UNCHANGED << root, req, calls >>

(* ALvmxEPTsetPTE on a large page: the small pages inherit its rights.     *)
Split == SplitWith(SmallPages(req.page, Pde(req.view, req.page).rights))

(* Variant: the entry is still marked as a large page. *)
LinkPdeLarge ==
  /\ pc = "linkPde"
  /\ StoreAt(3, [fresh.entry EXCEPT !.large = TRUE])
  /\ pc' = "set"
  /\ UNCHANGED << used, req, fresh, calls >>

LinkPde ==
  /\ pc = "linkPde"
  /\ StoreAt(3, fresh.entry)
  /\ pc' = "set"
  /\ UNCHANGED << used, req, fresh, calls >>

StorePte ==
  /\ pc = "set" /\ ~Pde(req.view, req.page).large
  /\ StoreAt(4, req.pte)
  /\ pc' = "idle"
  /\ UNCHANGED << used, req, fresh, calls >>

-----------------------------------------------------------------------------
SetPteStep == Copy \/ Link \/ Remapped \/ Split \/ LinkPde \/ StorePte

Next == MakeVice \/ MakeTarget \/ Call \/ SetPteStep

Spec == Init /\ [][Next]_vars

(* A call of set_pte runs to its end. *)
FairSpec == Spec /\ WF_vars(SetPteStep)

-----------------------------------------------------------------------------
(* The variables hold what the program's variables can hold. *)
TypeOK ==
  /\ table \in [Tables -> [Index -> Entry]]
  /\ used \in Tables
  /\ root \in [Views -> Entry]
  /\ pc \in {"idle", "remap", "link", "set", "linkPde"}
  /\ req \in [view : Views, page : Pages, pte : Entry]
  /\ fresh \in [level : 0 .. 3, entry : Entry]
  /\ calls \in 0 .. MaxCalls

(* What a processor that walks v's tables finds for page p. *)
Walk(v, p) ==
  LET upper == Pml4e(v).rights \cap Pdpte(v, p).rights \cap Pde(v, p).rights
  IN IF ~Made(v) THEN [frame |-> p, rights |-> {}]
     ELSE IF Pde(v, p).large
     THEN [frame |-> Pde(v, p).to + Slot(p, 4), rights |-> upper]
     ELSE [frame |-> Pte(v, p).to, rights |-> upper \cap Pte(v, p).rights]

(* Copying, splitting and pushing rights down never show: at every moment  *)
(* a walk of any view finds what the calls of set_pte completed so far     *)
(* asked for, on that page of that view alone (set_pte; the guest runs on  *)
(* the tables while they are rebuilt).                                     *)
Abstract == INSTANCE EptViews
  WITH Rights <- RWX,
       seen <- [v \in Views |-> [p \in Pages |-> Walk(v, p)]],
       asked <- IF pc = "idle" THEN {}
                ELSE {<< req.view, req.page, req.pte.rights >>}
ImplementsViews == Abstract!ViewsSpec

(* No call of set_pte stores into a table of const_ept: need_remap is      *)
(* there so that it is not affected (ept.h:19).                            *)
ConstFrozen ==
  [][root'[Const] = root[Const] /\ \A t \in ConstTables : table'[t] = table[t]]_vars

(* The tables a view's walks go through. *)
Reached(v) ==
  IF ~Made(v) THEN {}
  ELSE {Pml4e(v).to} \cup {Pdpte(v, p).to : p \in Pages}
       \cup {Pde(v, p).to : p \in {q \in Pages : ~Pde(v, q).large}}

(* A table that is not one of const_ept's is reached by one view only, so  *)
(* that what one view changes in place is not seen through another         *)
(* (need_remap compares frame numbers with const_ept's).                   *)
OwnTables ==
  /\ TypeOK
  /\ Reached(Vice) \cap Reached(Target) \subseteq ConstTables
  /\ Reached(Const) \subseteq ConstTables

(* set_pte's recursion ends: each round makes one more level the view's    *)
(* own, and a split page is not large any more.                            *)
SetPteReturns == pc # "idle" ~> pc = "idle"
=============================================================================

------------------------------ MODULE EptViews ------------------------------
(***************************************************************************)
(* What the EPT tables promise (ept.h): every view maps each guest page to *)
(* a frame with some rights.  A view is created with the same rights on    *)
(* every page; after that the only thing that ever happens to it, as a     *)
(* processor walking its tables can see, is that a call of set_pte gives   *)
(* the one page of the one view it was called for the rights asked for, at *)
(* once and before it returns.                                             *)
(***************************************************************************)
CONSTANTS Views, Pages, Rights, Const

VARIABLES
  seen,    (* seen[v][p]: frame and rights, as a walk finds them *)
  asked    (* the call under way: {} or one << view, page, rights >> *)

vars == << seen, asked >>

Init ==
  /\ asked = {}
  /\ seen = [v \in Views |-> [p \in Pages |->
               [frame |-> p, rights |-> IF v = Const THEN Rights ELSE {}]]]

Created(v) == \E p \in Pages : seen[v][p].rights # {}

(* The frames never change, only the rights. *)
SetRights(v, p, r) == seen'[v][p] = [seen[v][p] EXCEPT !.rights = r]

Untouched(v, p) == seen'[v][p] = seen[v][p]

Create(v) ==
  /\ ~Created(v)
  /\ \E r \in SUBSET Rights : \A p \in Pages : SetRights(v, p, r)
  /\ \A u \in Views \ {v}, p \in Pages : Untouched(u, p)
  /\ asked' = asked

Ask(v) ==
  /\ asked = {} /\ Created(v)
  /\ \E p \in Pages, r \in SUBSET Rights : asked' = {<< v, p, r >>}
  /\ \A u \in Views, p \in Pages : Untouched(u, p)

Grant ==
  \E a \in asked :
    /\ SetRights(a[1], a[2], a[3])
    /\ \A u \in Views, p \in Pages :
         << u, p >> # << a[1], a[2] >> => Untouched(u, p)
    /\ asked' = {}

Next == Grant \/ \E v \in Views \ {Const} : Create(v) \/ Ask(v)

ViewsSpec == Init /\ [][Next]_vars
=============================================================================

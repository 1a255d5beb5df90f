--------------------------- MODULE Monitor_proofs ---------------------------
(***************************************************************************)
(* Proofs about Monitor for every number of cores and pages and any number *)
(* of marking calls.                                                       *)
(*                                                                         *)
(* A core may act on a translation it cached long ago, so what has to be   *)
(* known of the caches is one-sided: a cached refusal of the vice view is  *)
(* still right, because pages only ever stop executing there, and a cached *)
(* permission of the target view is still right, because pages only ever   *)
(* start executing there.  With the order of the two stores of set_pte     *)
(* this makes every violation one the handler takes.                       *)
(***************************************************************************)
EXTENDS Monitor, TLAPS

(* What a core has cached to its disadvantage on vice, and to its          *)
(* advantage on target, holds.                                             *)
CacheSound ==
  \A c \in Cores, p \in Pages :
    /\ tlb[c]["vice"][p] = "nx" => p \notin exec["vice"]
    /\ tlb[c]["target"][p] = "x" => p \in exec["target"]

(* Every page executes in one of the views. *)
SomeViewRuns == \A p \in Pages : p \in exec["vice"] \/ p \in exec["target"]

(* Where the marking thread stands in its range, and what it has done to  *)
(* the page it is at.                                                      *)
SetterInRange ==
  /\ setter.pc # "idle" => setter.at <= setter.last
  /\ setter.pc = "store2" => setter.at \in exec["target"]
  /\ setter.pc = "invept" => setter.at \notin exec["vice"]

(* The target view executes nothing but pages that were, or are being, set. *)
TargetRunsSet ==
  \A p \in exec["target"] :
    p \in Done \/ (setter.pc # "idle" /\ p = setter.at)

(* A core in the handler under the vice view was refused rightly. *)
RefusedRightly ==
  \A c \in Cores :
    /\ host[c] \in {"guest", "first"}
    /\ host[c] = "first" /\ ept[c] = "vice" => fetch[c] \notin exec["vice"]

(* A core that was told to forget a page does not learn it again. *)
ToldForgotten ==
  \A c \in Cores : \A p \in told[c] :
    p \notin exec["vice"] /\ tlb[c]["vice"][p] # "x"

IInv ==
  /\ TypeOK
  /\ CacheSound
  /\ SomeViewRuns
  /\ SetterInRange
  /\ TargetRunsSet
  /\ RefusedRightly
  /\ ReportsMatchView
  /\ ToldForgotten

(* What the views' names are. *)
LEMMA ViewNames == "vice" \in Views /\ "target" \in Views /\ "vice" # "target"
  BY DEF Views

LEMMA InitInvariant == Init => IInv
<1> SUFFICES ASSUME Init PROVE IInv
  OBVIOUS
<1> USE MonitorAssumption DEF Init, Views, Pages
<1>1. TypeOK
  BY DEF TypeOK
<1>2. CacheSound /\ SomeViewRuns /\ SetterInRange /\ TargetRunsSet
  BY DEF CacheSound, SomeViewRuns, SetterInRange, TargetRunsSet
<1>3. RefusedRightly /\ ReportsMatchView /\ ToldForgotten
  BY DEF RefusedRightly, ReportsMatchView, ToldForgotten
<1> QED
  BY <1>1, <1>2, <1>3 DEF IInv

(* Caching what a walk, or the cache itself, gives keeps the caches sound. *)
LEMMA CachingStep ==
  ASSUME IInv, NEW c \in Cores, NEW v \in Views, NEW p \in Pages,
         NEW e \in {"none", "x", "nx"}, e \in {"none", Used(c, v, p)},
         tlb' = [tlb EXCEPT ![c][v][p] = e],
         UNCHANGED caller
  PROVE  /\ tlb' \in [Cores -> [Views -> [Pages -> {"none", "x", "nx"}]]]
         /\ CacheSound' /\ ToldForgotten'
<1>1. tlb' \in [Cores -> [Views -> [Pages -> {"none", "x", "nx"}]]]
  BY DEF IInv, TypeOK
<1>2. ASSUME NEW d \in Cores, NEW u \in Views, NEW q \in Pages
      PROVE  tlb'[d][u][q] = IF d = c /\ u = v /\ q = p THEN e ELSE tlb[d][u][q]
  BY DEF IInv, TypeOK
<1>3. exec' = exec /\ told' = told
  BY DEF caller
<1>4. CacheSound'
  BY <1>2, <1>3, ViewNames DEF CacheSound, IInv, Used, Cached, Walked
<1>5. ToldForgotten'
  <2> SUFFICES ASSUME NEW d \in Cores, NEW q \in told[d]
               PROVE  q \notin exec["vice"] /\ tlb'[d]["vice"][q] # "x"
    BY <1>3 DEF ToldForgotten
  <2>1. q \in Pages
    BY DEF IInv, TypeOK
  <2>2. q \notin exec["vice"] /\ tlb[d]["vice"][q] # "x"
    BY DEF IInv, ToldForgotten
  <2> QED
    BY <1>2, <2>1, <2>2, ViewNames DEF Used, Cached, Walked
<1> QED
  BY <1>1, <1>4, <1>5

LEMMA RunStep == ASSUME IInv, NEW c \in Cores, Run(c) PROVE IInv'
<1> USE DEF IInv
<1>1. /\ ept[c] \in Views /\ fetch[c] \in Pages
      /\ host' = host /\ ept' = ept /\ entered' = entered /\ UNCHANGED caller
      /\ fetch' \in [Cores -> Pages]
      /\ \A d \in Cores : d # c => fetch'[d] = fetch[d]
  BY DEF Run, TypeOK
<1>2. "x" \in {"none", Used(c, ept[c], fetch[c])}
  BY DEF Run, CanRun
<1>3. /\ tlb' \in [Cores -> [Views -> [Pages -> {"none", "x", "nx"}]]]
      /\ CacheSound' /\ ToldForgotten'
  BY <1>1, <1>2, CachingStep DEF Run
<1>4. TypeOK'
  BY <1>1, <1>3 DEF TypeOK, caller
<1>5. SomeViewRuns' /\ SetterInRange' /\ TargetRunsSet' /\ ReportsMatchView'
  BY <1>1 DEF SomeViewRuns, SetterInRange, TargetRunsSet, ReportsMatchView,
              Done, caller
<1>6. RefusedRightly'
  BY <1>1 DEF RefusedRightly, Run, caller
<1> QED
  BY <1>3, <1>4, <1>5, <1>6

LEMMA LoadStep == ASSUME IInv, NEW c \in Cores, Load(c) PROVE IInv'
<1> USE DEF IInv
<1>1. /\ ept[c] \in Views /\ fetch' = fetch
      /\ host' = host /\ ept' = ept /\ entered' = entered /\ UNCHANGED caller
  BY DEF Load, TypeOK
<1>2. PICK p \in Pages : tlb' = [tlb EXCEPT ![c][ept[c]][p] = Used(c, ept[c], p)]
  BY DEF Load
<1>3. Used(c, ept[c], p) \in {"none", "x", "nx"}
  BY <1>1 DEF Used, Cached, Walked, TypeOK
<1>4. /\ tlb' \in [Cores -> [Views -> [Pages -> {"none", "x", "nx"}]]]
      /\ CacheSound' /\ ToldForgotten'
  BY <1>1, <1>2, <1>3, CachingStep
<1>5. TypeOK'
  BY <1>1, <1>4 DEF TypeOK, caller
<1>6. SomeViewRuns' /\ SetterInRange' /\ TargetRunsSet' /\ ReportsMatchView'
      /\ RefusedRightly'
  BY <1>1 DEF SomeViewRuns, SetterInRange, TargetRunsSet, ReportsMatchView,
              RefusedRightly, Done, caller
<1> QED
  BY <1>4, <1>5, <1>6

LEMMA EvictStep == ASSUME IInv, NEW c \in Cores, Evict(c) PROVE IInv'
<1> USE DEF IInv
<1>1. /\ fetch' = fetch /\ host' = host /\ ept' = ept /\ entered' = entered
      /\ UNCHANGED caller
  BY DEF Evict
<1>2. PICK v \in Views, p \in Pages : tlb' = [tlb EXCEPT ![c][v][p] = "none"]
  BY DEF Evict
<1>3. /\ tlb' \in [Cores -> [Views -> [Pages -> {"none", "x", "nx"}]]]
      /\ CacheSound' /\ ToldForgotten'
  BY <1>1, <1>2, CachingStep
<1>4. TypeOK'
  BY <1>1, <1>3 DEF TypeOK, caller
<1>5. SomeViewRuns' /\ SetterInRange' /\ TargetRunsSet' /\ ReportsMatchView'
      /\ RefusedRightly'
  BY <1>1 DEF SomeViewRuns, SetterInRange, TargetRunsSet, ReportsMatchView,
              RefusedRightly, Done, caller
<1> QED
  BY <1>3, <1>4, <1>5

(* The violation of a core on the vice view is raised for a page that does *)
(* not execute there: a fresh walk says so, or a cached refusal, which is  *)
(* sound.                                                                  *)
LEMMA ViolateStep == ASSUME IInv, NEW c \in Cores, Violate(c) PROVE IInv'
<1> USE DEF IInv
<1>1. /\ ept[c] \in Views /\ fetch[c] \in Pages
      /\ fetch' = fetch /\ ept' = ept /\ entered' = entered /\ UNCHANGED caller
      /\ host' = [host EXCEPT ![c] = "first"]
      /\ tlb' = [tlb EXCEPT ![c][ept[c]][fetch[c]] = "none"]
  BY DEF Violate, TypeOK
<1>2. /\ tlb' \in [Cores -> [Views -> [Pages -> {"none", "x", "nx"}]]]
      /\ CacheSound' /\ ToldForgotten'
  BY <1>1, CachingStep
<1>3. TypeOK'
  BY <1>1, <1>2 DEF TypeOK, caller
<1>4. SomeViewRuns' /\ SetterInRange' /\ TargetRunsSet' /\ ReportsMatchView'
  BY <1>1 DEF SomeViewRuns, SetterInRange, TargetRunsSet, ReportsMatchView,
              Done, caller
<1>5. ept[c] = "vice" => fetch[c] \notin exec["vice"]
  <2> SUFFICES ASSUME ept[c] = "vice" PROVE fetch[c] \notin exec["vice"]
    OBVIOUS
  <2>1. Used(c, "vice", fetch[c]) # "x"
    BY DEF Violate, CanRun
  <2>2. tlb[c]["vice"][fetch[c]] \in {"none", "x", "nx"}
    BY <1>1, ViewNames DEF TypeOK
  <2> QED
    BY <1>1, <2>1, <2>2 DEF Used, Cached, Walked, CacheSound
<1>6. RefusedRightly'
  <2> SUFFICES ASSUME NEW d \in Cores
               PROVE  /\ host'[d] \in {"guest", "first"}
                      /\ host'[d] = "first" /\ ept[d] = "vice"
                           => fetch[d] \notin exec["vice"]
    BY <1>1 DEF RefusedRightly, caller
  <2>1. host'[d] = IF d = c THEN "first" ELSE host[d]
    BY <1>1 DEF TypeOK
  <2> QED
    BY <1>5, <2>1 DEF RefusedRightly
<1> QED
  BY <1>2, <1>3, <1>4, <1>6

(* The handler takes the violation: the page does not execute on vice, so  *)
(* it does on target.                                                      *)
LEMMA EnterStep == ASSUME IInv, NEW c \in Cores, Enter(c) PROVE IInv'
<1> USE DEF IInv
<1>1. fetch[c] \in exec["target"]
  BY DEF Enter, InHost, RefusedRightly, SomeViewRuns, TypeOK
<1>2. /\ ept' = [ept EXCEPT ![c] = "target"]
      /\ entered' = [entered EXCEPT ![c] = @ + 1]
      /\ host' = [host EXCEPT ![c] = "guest"]
      /\ tlb' = tlb /\ fetch' = fetch /\ UNCHANGED caller
      /\ ept[c] = "vice"
  BY <1>1 DEF Enter, Switch
<1>3. /\ \A d \in Cores : ept'[d] = IF d = c THEN "target" ELSE ept[d]
      /\ \A d \in Cores : host'[d] = IF d = c THEN "guest" ELSE host[d]
      /\ \A d \in Cores : entered'[d] = IF d = c THEN 1 ELSE entered[d]
  <2>1. ept \in [Cores -> Views] /\ DOMAIN host = Cores /\ DOMAIN entered = Cores
    BY DEF TypeOK
  <2>2. entered[c] = 0
    BY <1>2 DEF ReportsMatchView
  <2> QED
    BY <1>2, <2>1, <2>2
<1>4. TypeOK'
  BY <1>2, <1>3, ViewNames DEF TypeOK, caller
<1>5. CacheSound' /\ SomeViewRuns' /\ SetterInRange' /\ TargetRunsSet'
      /\ ToldForgotten'
  BY <1>2 DEF CacheSound, SomeViewRuns, SetterInRange, TargetRunsSet,
              ToldForgotten, Done, caller
<1>6. RefusedRightly' /\ ReportsMatchView'
  BY <1>2, <1>3 DEF RefusedRightly, ReportsMatchView, caller
<1> QED
  BY <1>4, <1>5, <1>6

LEMMA ExitStep == ASSUME IInv, NEW c \in Cores, Exit(c) PROVE IInv'
<1> USE DEF IInv
<1>1. /\ ept' = [ept EXCEPT ![c] = "vice"]
      /\ entered' = [entered EXCEPT ![c] = @ + -1]
      /\ host' = [host EXCEPT ![c] = "guest"]
      /\ tlb' = tlb /\ fetch' = fetch /\ UNCHANGED caller
      /\ ept[c] = "target"
  BY DEF Exit, Switch
<1>2. /\ \A d \in Cores : ept'[d] = IF d = c THEN "vice" ELSE ept[d]
      /\ \A d \in Cores : host'[d] = IF d = c THEN "guest" ELSE host[d]
      /\ \A d \in Cores : entered'[d] = IF d = c THEN 0 ELSE entered[d]
  BY <1>1 DEF TypeOK, ReportsMatchView
<1>3. TypeOK'
  BY <1>1, <1>2, ViewNames DEF TypeOK, caller
<1>4. CacheSound' /\ SomeViewRuns' /\ SetterInRange' /\ TargetRunsSet'
      /\ ToldForgotten'
  BY <1>1 DEF CacheSound, SomeViewRuns, SetterInRange, TargetRunsSet,
              ToldForgotten, Done, caller
<1>5. RefusedRightly' /\ ReportsMatchView'
  BY <1>1, <1>2, ViewNames DEF RefusedRightly, ReportsMatchView, caller
<1> QED
  BY <1>3, <1>4, <1>5

LEMMA SetTargetStep == ASSUME IInv, SetTarget PROVE IInv'
<1> USE DEF IInv
<1>1. PICK first \in Pages, last \in Pages :
        /\ first <= last
        /\ setter' = [pc |-> "store1", at |-> first, last |-> last]
  BY DEF SetTarget
<1>2. exec' = exec /\ marked' = marked /\ told' = told /\ UNCHANGED cores
  BY DEF SetTarget
<1>3. sets' \in 0 .. MaxSets
  BY MonitorAssumption DEF SetTarget, TypeOK
<1>4. TypeOK'
  BY <1>1, <1>2, <1>3 DEF TypeOK, cores
<1>5. SetterInRange'
  BY <1>1 DEF SetterInRange
<1>6. TargetRunsSet'
  BY <1>2 DEF SetTarget, TargetRunsSet, Done
<1>7. CacheSound' /\ SomeViewRuns' /\ RefusedRightly' /\ ReportsMatchView'
      /\ ToldForgotten'
  BY <1>2 DEF CacheSound, SomeViewRuns, RefusedRightly, ReportsMatchView,
              ToldForgotten, cores
<1> QED
  BY <1>4, <1>5, <1>6, <1>7

LEMMA StoreStep == ASSUME IInv, Store PROVE IInv'
<1> USE DEF IInv
<1>1. /\ setter.pc \in {"store1", "store2"}
      /\ setter.at \in Pages /\ setter.last \in Pages /\ setter.at <= setter.last
      /\ sets' = sets /\ marked' = marked /\ told' = told
      /\ tlb' = tlb /\ ept' = ept /\ fetch' = fetch /\ host' = host
      /\ entered' = entered
  BY DEF Store, StoreOrder, TypeOK, SetterInRange, cores
<1>2. exec["vice"] \in SUBSET Pages /\ exec["target"] \in SUBSET Pages
  BY ViewNames DEF TypeOK
<1>3. CASE setter.pc = "store1"
  <2>1. /\ exec' = [exec EXCEPT !["target"] = @ \cup {setter.at}]
        /\ setter' = [setter EXCEPT !.pc = "store2"]
    BY <1>3 DEF Store, StoreOrder, SetPte
  <2>2. /\ exec'["target"] = exec["target"] \cup {setter.at}
        /\ exec'["vice"] = exec["vice"]
        /\ exec' \in [Views -> SUBSET Pages]
    BY <1>1, <1>2, <2>1, ViewNames DEF TypeOK
  <2>3. setter'.pc = "store2" /\ setter'.at = setter.at /\ setter'.last = setter.last
        /\ setter' \in [pc : {"idle", "store1", "store2", "invept"},
                        at : Pages, last : Pages]
    BY <2>1 DEF TypeOK
  <2>4. TypeOK'
    BY <1>1, <2>2, <2>3 DEF TypeOK
  <2>5. CacheSound' /\ SomeViewRuns' /\ RefusedRightly' /\ ReportsMatchView'
    BY <1>1, <2>2 DEF CacheSound, SomeViewRuns, RefusedRightly, ReportsMatchView
  <2>6. SetterInRange'
    BY <1>1, <2>2, <2>3 DEF SetterInRange
  <2>7. TargetRunsSet'
    BY <1>3, <2>2, <2>3 DEF TargetRunsSet, Done
  <2>8. ToldForgotten'
    BY <1>1, <2>2 DEF ToldForgotten
  <2> QED
    BY <2>4, <2>5, <2>6, <2>7, <2>8
<1>4. CASE setter.pc = "store2"
  <2>1. exec' = [exec EXCEPT !["vice"] = @ \ {setter.at}]
    BY <1>4 DEF Store, StoreOrder, SetPte
  <2>2. /\ exec'["vice"] = exec["vice"] \ {setter.at}
        /\ exec'["target"] = exec["target"]
        /\ exec' \in [Views -> SUBSET Pages]
    BY <1>1, <1>2, <2>1, ViewNames DEF TypeOK
  <2>3. /\ setter' \in [pc : {"idle", "store1", "store2", "invept"},
                        at : Pages, last : Pages]
        /\ setter'.pc \in {"store1", "invept"}
        /\ setter'.at <= setter'.last
        /\ setter'.pc = "invept" => setter'.at = setter.at
    <3>1. CASE setter.at < setter.last
      <4>1. setter' = [setter EXCEPT !.pc = "store1", !.at = @ + 1]
        <5>1. setter.pc # "store1" /\ setter.at # setter.last
          BY <1>1, <1>4, <3>1 DEF Pages
        <5> QED
          BY <1>4, <3>1, <5>1 DEF Store
      <4>2. setter.at + 1 \in Pages /\ setter.at + 1 <= setter.last
        BY <1>1, <3>1, MonitorAssumption DEF Pages
      <4> QED
        BY <4>1, <4>2 DEF TypeOK
    <3>2. CASE setter.at = setter.last
      <4>1. ~(setter.at < setter.last)
        BY <1>1, <3>2 DEF Pages
      <4>2. setter' = [setter EXCEPT !.pc = "invept"]
        BY <1>4, <3>2, <4>1 DEF Store
      <4> QED
        BY <1>1, <4>2 DEF TypeOK
    <3> QED
      BY <1>1, <3>1, <3>2 DEF Pages
  <2>4. TypeOK'
    BY <1>1, <2>2, <2>3 DEF TypeOK
  <2>5. CacheSound' /\ RefusedRightly' /\ ReportsMatchView'
    BY <1>1, <2>2 DEF CacheSound, RefusedRightly, ReportsMatchView
  <2>6. SomeViewRuns'
    BY <1>4, <2>2 DEF SomeViewRuns, SetterInRange
  <2>7. SetterInRange'
    BY <2>2, <2>3 DEF SetterInRange
  <2>8. TargetRunsSet'
    BY <1>1, <1>2, <2>2 DEF TargetRunsSet, Done
  <2>9. ToldForgotten'
    BY <1>1, <2>2 DEF ToldForgotten
  <2> QED
    BY <2>4, <2>5, <2>6, <2>7, <2>8, <2>9
<1> QED
  BY <1>1, <1>3, <1>4

LEMMA InveptStep == ASSUME IInv, NEW c \in Cores, Invept(c) PROVE IInv'
<1> USE DEF IInv
<1>1. /\ exec' = exec /\ sets' = sets /\ ept' = ept /\ fetch' = fetch
      /\ host' = host /\ entered' = entered
      /\ setter' = [pc |-> "idle", at |-> 0, last |-> 0]
      /\ marked' = Done
      /\ setter.pc = "invept"
  BY DEF Invept
<1>2. /\ tlb' \in [Cores -> [Views -> [Pages -> {"none", "x", "nx"}]]]
      /\ \A d \in Cores, v \in Views, p \in Pages :
           tlb'[d][v][p] = IF d = c THEN "none" ELSE tlb[d][v][p]
  BY DEF Invept, Forget, TypeOK
<1>3. /\ told' \in [Cores -> SUBSET Pages]
      /\ \A d \in Cores : told'[d] = IF d = c THEN Done ELSE told[d]
  BY DEF Invept, Done, TypeOK
<1>4. TypeOK'
  <2>1. setter' \in [pc : {"idle", "store1", "store2", "invept"},
                     at : Pages, last : Pages]
    BY <1>1, MonitorAssumption DEF Pages
  <2>2. marked' \in SUBSET Pages
    BY <1>1 DEF Done
  <2> QED
    BY <1>1, <1>2, <1>3, <2>1, <2>2 DEF TypeOK
<1>5. CacheSound'
  <2> SUFFICES ASSUME NEW d \in Cores, NEW p \in Pages
               PROVE  /\ tlb'[d]["vice"][p] = "nx" => p \notin exec["vice"]
                      /\ tlb'[d]["target"][p] = "x" => p \in exec["target"]
    BY <1>1 DEF CacheSound
  <2>1. /\ tlb'[d]["vice"][p] = IF d = c THEN "none" ELSE tlb[d]["vice"][p]
        /\ tlb'[d]["target"][p] = IF d = c THEN "none" ELSE tlb[d]["target"][p]
    BY <1>2, ViewNames
  <2> QED
    BY <2>1 DEF CacheSound
<1>6. SomeViewRuns' /\ SetterInRange' /\ RefusedRightly' /\ ReportsMatchView'
  BY <1>1 DEF SomeViewRuns, SetterInRange, RefusedRightly, ReportsMatchView
<1>7. TargetRunsSet'
  <2>1. exec["target"] \subseteq Pages
    BY ViewNames DEF TypeOK
  <2>2. \A p \in exec["target"] : p \in Done
    BY <1>1, <2>1 DEF TargetRunsSet, SetterInRange, Done
  <2> QED
    BY <1>1, <2>2 DEF TargetRunsSet, Done
<1>8. ToldForgotten'
  <2> SUFFICES ASSUME NEW d \in Cores, NEW p \in told'[d]
               PROVE  p \notin exec["vice"] /\ tlb'[d]["vice"][p] # "x"
    BY <1>1 DEF ToldForgotten
  <2>1. p \in Pages
    BY <1>3
  <2>2. tlb'[d]["vice"][p] = IF d = c THEN "none" ELSE tlb[d]["vice"][p]
    BY <1>2, <2>1, ViewNames
  <2>3. p \in IF d = c THEN Done ELSE told[d]
    BY <1>3
  <2> QED
    BY <2>2, <2>3 DEF ToldForgotten, Done
<1> QED
  BY <1>4, <1>5, <1>6, <1>7, <1>8

LEMMA StutterStep == ASSUME IInv, UNCHANGED vars PROVE IInv'
<1>1. UNCHANGED << exec, ept, tlb, fetch, host, entered, setter, sets, marked, told >>
  BY DEF vars
<1>2. TypeOK' /\ CacheSound' /\ SomeViewRuns' /\ SetterInRange'
  BY <1>1 DEF IInv, TypeOK, CacheSound, SomeViewRuns, SetterInRange
<1>3. TargetRunsSet' /\ RefusedRightly' /\ ReportsMatchView' /\ ToldForgotten'
  BY <1>1 DEF IInv, TargetRunsSet, RefusedRightly, ReportsMatchView,
              ToldForgotten, Done
<1> QED
  BY <1>2, <1>3 DEF IInv

LEMMA Inductive == IInv /\ [Next]_vars => IInv'
<1> SUFFICES ASSUME IInv, [Next]_vars PROVE IInv'
  OBVIOUS
<1>1. ASSUME NEW c \in Cores, Step(c) PROVE IInv'
  BY <1>1, RunStep, ViolateStep, EnterStep, ExitStep DEF Step, Handle
<1>2. ASSUME NEW c \in Cores, Load(c) \/ Evict(c) \/ Invept(c) PROVE IInv'
  BY <1>2, LoadStep, EvictStep, InveptStep
<1>3. ASSUME SetTarget \/ Store PROVE IInv'
  BY <1>3, SetTargetStep, StoreStep
<1>4. CASE UNCHANGED vars
  BY <1>4, StutterStep
<1> QED
  BY <1>1, <1>2, <1>3, <1>4 DEF Next

LEMMA AlwaysIInv == Spec => []IInv
  BY InitInvariant, Inductive, PTL DEF Spec

(* The monitor's variables keep their types, the count of reports among    *)
(* them: a core never reports two enters or two exits in a row.            *)
THEOREM MonitorTypeCorrect == Spec => []TypeOK
<1>1. IInv => TypeOK
  BY DEF IInv
<1> QED
  BY <1>1, AlwaysIInv, PTL

(* No violation raised while pages are being marked is left to the default *)
(* handler: vmx_monitor.cpp never stops the machine.                       *)
THEOREM MonitorNeverKills == Spec => []NeverKilled
<1>1. IInv => NeverKilled
  BY DEF IInv, RefusedRightly, NeverKilled
<1> QED
  BY <1>1, AlwaysIInv, PTL

(* Nothing but target pages executes on the target view. *)
THEOREM MonitorOnlyTargets == Spec => []OnlyTargetsUnderTarget
<1>1. IInv => OnlyTargetsUnderTarget
  <2> SUFFICES ASSUME IInv, NEW c \in Cores,
                      ept[c] = "target", Used(c, "target", fetch[c]) = "x"
               PROVE  fetch[c] \in Done \/ (setter.pc # "idle" /\ fetch[c] = setter.at)
    BY DEF OnlyTargetsUnderTarget, CanRun
  <2>1. fetch[c] \in exec["target"]
    BY DEF IInv, TypeOK, CacheSound, Used, Cached, Walked
  <2> QED
    BY <2>1 DEF IInv, TargetRunsSet
<1> QED
  BY <1>1, AlwaysIInv, PTL

(* A core's reports agree with the view it runs on. *)
THEOREM MonitorReports == Spec => []ReportsMatchView
<1>1. IInv => ReportsMatchView
  BY DEF IInv
<1> QED
  BY <1>1, AlwaysIInv, PTL

(* The core that was told to forget its translations does not execute the  *)
(* pages marked until then unmonitored.                                    *)
THEOREM MonitorCallersCore == Spec => []CallersCoreMonitored
<1>1. IInv => CallersCoreMonitored
  <2> SUFFICES ASSUME IInv, NEW c \in Cores, ept[c] = "vice",
                      Used(c, "vice", fetch[c]) = "x"
               PROVE  fetch[c] \notin told[c]
    BY DEF CallersCoreMonitored, CanRun
  <2> QED
    BY DEF IInv, ToldForgotten, Used, Cached, Walked
<1> QED
  BY <1>1, AlwaysIInv, PTL
=============================================================================

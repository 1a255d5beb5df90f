------------------------------- MODULE Monitor -------------------------------
(***************************************************************************)
(* The execution monitor (vmx_monitor.cpp).  The guest normally runs on    *)
(* the vice view, where target pages do not execute; the violation moves   *)
(* the core to the target view, where nothing but target pages executes,   *)
(* and leaving them raises the violation that moves it back.  A guest      *)
(* thread marks pages (ALvmxMNTsetTarget) while all cores run.  Each core  *)
(* caches translations: it may use an old one until it is told to forget   *)
(* them (INVEPT) or a violation drops it, and it may forget any of them on *)
(* its own.  A store of set_pte shows at once, for one page (EptViews).    *)
(***************************************************************************)
EXTENDS Integers

CONSTANTS
  Cores,    (* the virtual processors *)
  LastPage, (* guest pages are 0 .. LastPage *)
  MaxSets   (* bound on the calls of ALvmxMNTsetTarget *)

ASSUME MonitorAssumption == LastPage \in Nat /\ MaxSets \in Nat

Pages == 0 .. LastPage
Views == {"vice", "target"}

VARIABLES
  exec,     (* exec[v]: the pages view v lets execute *)
  ept,      (* the view in each core's VMCS *)
  tlb,      (* tlb[c][v][p]: what core c has cached: "none", "x" or "nx" *)
  fetch,    (* the page of each core's next instruction *)
  host,     (* "guest", or the pass of the violation's handlers, "killed" *)
  entered,  (* history: enter reports less exit reports of each core *)
  setter,   (* the thread in ALvmxMNTsetTarget: where, at and up to which page *)
  sets,     (* calls made so far *)
  marked,   (* history: pages whose call has returned *)
  told      (* history: pages marked before core c's last INVEPT *)

vars == << exec, ept, tlb, fetch, host, entered, setter, sets, marked, told >>
cores  == << ept, tlb, fetch, host, entered >>
caller == << exec, setter, sets, marked, told >>

(* ALvmxMNTinit is over: the target view exists and executes nothing       *)
(* (EPT_CLS(1, 1, 0)), the handlers are installed.                         *)
Init ==
  /\ exec = [v \in Views |-> IF v = "vice" THEN Pages ELSE {}]
  /\ ept = [c \in Cores |-> "vice"]
  /\ tlb = [c \in Cores |-> [v \in Views |-> [p \in Pages |-> "none"]]]
  /\ fetch = [c \in Cores |-> 0]
  /\ host = [c \in Cores |-> "guest"]
  /\ entered = [c \in Cores |-> 0]
  /\ setter = [pc |-> "idle", at |-> 0, last |-> 0]
  /\ sets = 0
  /\ marked = {}
  /\ told = [c \in Cores |-> {}]

-----------------------------------------------------------------------------
(***************************************************************************)
(* A core in the guest.                                                    *)
(***************************************************************************)
Cached(c, v, p) == tlb[c][v][p]
Walked(v, p)    == IF p \in exec[v] THEN "x" ELSE "nx"
Used(c, v, p)   == IF Cached(c, v, p) = "none" THEN Walked(v, p) ELSE Cached(c, v, p)

CanRun(c) == Used(c, ept[c], fetch[c]) = "x"

(* The next instruction executes; the one after it may be anywhere.        *)
Run(c) ==
  /\ host[c] = "guest" /\ CanRun(c)
  /\ tlb' = [tlb EXCEPT ![c][ept[c]][fetch[c]] = "x"]
  /\ \E p \in Pages : fetch' = [fetch EXCEPT ![c] = p]
  /\ UNCHANGED << ept, host, entered >> /\ UNCHANGED caller

(* A data access, allowed everywhere by both views, caches a translation.  *)
Load(c) ==
  /\ host[c] = "guest"
  /\ \E p \in Pages :
       tlb' = [tlb EXCEPT ![c][ept[c]][p] = Used(c, ept[c], p)]
  /\ UNCHANGED << ept, fetch, host, entered >> /\ UNCHANGED caller

Evict(c) ==
  /\ \E v \in Views, p \in Pages : tlb' = [tlb EXCEPT ![c][v][p] = "none"]
  /\ UNCHANGED << ept, fetch, host, entered >> /\ UNCHANGED caller

(* An EPT violation drops what was cached for the page, and exits.         *)
Violate(c) ==
  /\ host[c] = "guest" /\ ~CanRun(c)
  /\ tlb' = [tlb EXCEPT ![c][ept[c]][fetch[c]] = "none"]
  /\ host' = [host EXCEPT ![c] = "first"]
  /\ UNCHANGED << ept, fetch, entered >> /\ UNCHANGED caller

-----------------------------------------------------------------------------
(***************************************************************************)
(* The exit: monitor_ept_violation_handler, in up to two passes.           *)
(***************************************************************************)
InHost(c) == host[c] \in {"first", "second"}

(* The handler reports and changes the core's view: handled. *)
Switch(c, v, report) ==
  /\ ept' = [ept EXCEPT ![c] = v]
  /\ entered' = [entered EXCEPT ![c] = @ + report]
  /\ host' = [host EXCEPT ![c] = "guest"]

(* A page that does not execute in the target view either is not the       *)
(* monitor's.  Nobody else takes it, and the second pass stops the machine.*)
Decline(c) ==
  /\ host' = [host EXCEPT ![c] = IF @ = "first" THEN "second" ELSE "killed"]
  /\ UNCHANGED << ept, entered >>

(* Variant: the violation counts as handled, and the view stays. *)
EnterStays(c) ==
  /\ InHost(c) /\ ept[c] = "vice"
  /\ IF fetch[c] \in exec["target"] THEN Switch(c, "vice", 0) ELSE Decline(c)
  /\ UNCHANGED << tlb, fetch >> /\ UNCHANGED caller

Enter(c) ==
  /\ InHost(c) /\ ept[c] = "vice"
  /\ IF fetch[c] \in exec["target"] THEN Switch(c, "target", 1) ELSE Decline(c)
  /\ UNCHANGED << tlb, fetch >> /\ UNCHANGED caller

(* Variant: the exit is reported, the view is not changed. *)
ExitStays(c) ==
  /\ InHost(c) /\ ept[c] = "target"
  /\ Switch(c, "target", -1)
  /\ UNCHANGED << tlb, fetch >> /\ UNCHANGED caller

Exit(c) ==
  /\ InHost(c) /\ ept[c] = "target"
  /\ Switch(c, "vice", -1)
  /\ UNCHANGED << tlb, fetch >> /\ UNCHANGED caller

-----------------------------------------------------------------------------
(***************************************************************************)
(* ALvmxMNTsetTarget.                                                      *)
(***************************************************************************)
SetTarget ==
  /\ setter.pc = "idle" /\ sets < MaxSets
  /\ sets' = sets + 1
  /\ \E first, last \in Pages :
       /\ first <= last
       /\ setter' = [pc |-> "store1", at |-> first, last |-> last]
  /\ UNCHANGED << exec, marked, told >> /\ UNCHANGED cores

(* Variant: the page stops executing in the vice view first. *)
ViceFirst == [store1 |-> "vice", store2 |-> "target"]

(* The page is made executable in the target view before it stops          *)
(* executing in the vice view.                                             *)
StoreOrder == [store1 |-> "target", store2 |-> "vice"]

(* Variant: every page of the target view is made executable. *)
SetAllTarget(v, p) ==
  [exec EXCEPT ![v] = IF v = "target" THEN Pages ELSE @ \ {p}]

(* set_pte(pa, 1, 1, 1) on the target view, set_pte(pa, 1, 1, 0) on vice.  *)
SetPte(v, p) ==
  [exec EXCEPT ![v] = IF v = "target" THEN @ \cup {p} ELSE @ \ {p}]

(* The two stores for each page of the range in turn. *)
Store ==
  /\ setter.pc \in DOMAIN StoreOrder
  /\ exec' = SetPte(StoreOrder[setter.pc], setter.at)
  /\ setter' =
       CASE setter.pc = "store1" -> [setter EXCEPT !.pc = "store2"]
         [] setter.pc = "store2" /\ setter.at < setter.last ->
              [setter EXCEPT !.pc = "store1", !.at = @ + 1]
         [] setter.pc = "store2" /\ setter.at = setter.last ->
              [setter EXCEPT !.pc = "invept"]
  /\ UNCHANGED << sets, marked, told >> /\ UNCHANGED cores

Done == Pages \ exec["vice"]

(* Variant: only what is cached for the last page of the range is dropped. *)
ForgetLast(c) ==
  [v \in Views |-> [tlb[c][v] EXCEPT ![setter.last] = "none"]]

(* INVEPT of all contexts: every view's cached translations are dropped.   *)
Forget(c) == [v \in Views |-> [p \in Pages |-> "none"]]

(* monitor_invept_all: a VMCALL on the core the thread happens to run on.  *)
(* The thread's own code is no target: it runs on the vice view.           *)
Invept(c) ==
  /\ setter.pc = "invept" /\ host[c] = "guest" /\ ept[c] = "vice"
  /\ tlb' = [tlb EXCEPT ![c] = Forget(c)]
  /\ told' = [told EXCEPT ![c] = Done]
  /\ marked' = Done
  /\ setter' = [pc |-> "idle", at |-> 0, last |-> 0]
  /\ UNCHANGED << exec, sets, ept, fetch, host, entered >>

-----------------------------------------------------------------------------
Handle(c) == Enter(c) \/ Exit(c)
Step(c)   == Run(c) \/ Violate(c) \/ Handle(c)

Next ==
  \/ \E c \in Cores : Step(c) \/ Load(c) \/ Evict(c) \/ Invept(c)
  \/ SetTarget \/ Store

Spec == Init /\ [][Next]_vars

(* A core goes on: it executes, faults, and finishes its exits.            *)
FairSpec == Spec /\ \A c \in Cores : WF_vars(Step(c))

-----------------------------------------------------------------------------
(* The variables hold what the program's variables can hold. *)
TypeOK ==
  /\ exec \in [Views -> SUBSET Pages]
  /\ ept \in [Cores -> Views]
  /\ tlb \in [Cores -> [Views -> [Pages -> {"none", "x", "nx"}]]]
  /\ fetch \in [Cores -> Pages]
  /\ host \in [Cores -> {"guest", "first", "second", "killed"}]
  /\ entered \in [Cores -> {0, 1}]
  /\ setter \in [pc : {"idle", "store1", "store2", "invept"}, at : Pages, last : Pages]
  /\ sets \in 0 .. MaxSets
  /\ marked \in SUBSET Pages
  /\ told \in [Cores -> SUBSET Pages]

(* However marking and execution interleave, whatever a core has cached,   *)
(* no violation is left to the default handler, which stops the machine    *)
(* (ALvmxMNTsetTarget's order of stores; monitor_ept_violation_handler).   *)
NeverKilled == \A c \in Cores : host[c] # "killed"

(* On the target view a core executes nothing but pages that were being    *)
(* made targets: other code is always reported as an exit first.           *)
OnlyTargetsUnderTarget ==
  \A c \in Cores :
    host[c] = "guest" /\ ept[c] = "target" /\ CanRun(c) =>
      fetch[c] \in Done \/ (setter.pc # "idle" /\ fetch[c] = setter.at)

(* The reports a core sends pair up, and agree with the view it runs on.   *)
ReportsMatchView ==
  \A c \in Cores : entered[c] = IF ept[c] = "target" THEN 1 ELSE 0

(* The core on which a marking call returned does not execute the pages    *)
(* marked until then under the vice view, where nothing would be reported. *)
CallersCoreMonitored ==
  \A c \in Cores :
    host[c] = "guest" /\ ept[c] = "vice" /\ CanRun(c) => fetch[c] \notin told[c]

(* Every violation is resolved: the instruction that raised it gets to     *)
(* execute, in one of the two views, and the core does not bounce between  *)
(* them for ever.                                                          *)
ViolationResolved ==
  \A c \in Cores : host[c] # "guest" ~> (host[c] = "guest" /\ CanRun(c))

(* The comment on the store says the target does not execute in the vice   *)
(* table any more: once ALvmxMNTsetTarget has returned, no core does.      *)
EveryCoreMonitored ==
  \A c \in Cores :
    host[c] = "guest" /\ ept[c] = "vice" /\ CanRun(c) => fetch[c] \notin marked
=============================================================================

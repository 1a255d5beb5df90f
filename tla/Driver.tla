------------------------------- MODULE Driver -------------------------------
(***************************************************************************)
(* The driver as it starts, and as its guests then run: the steps of       *)
(* Startup, with what three of them do to the memory of HostMemory, and    *)
(* the guest's own changes in between.                                     *)
(***************************************************************************)
EXTENDS Startup, HostMemory

vars == << startVars, hostVars >>

Init == StartInit /\ HostInit

(* The steps of ALhvInitialization and ALvmxInit that leave something in   *)
(* memory.  Building the host's tables leaves it also where it fails.      *)
BuildStep ==
  \/ Built.ok /\ InitOk("host_cr3") /\ BuildHost
  \/ ~Built.ok /\ InitFails("host_cr3") /\ BuildHost
  \/ InitOk("msr_bitmap") /\ BuildBitmap
  \/ InitOk("ept") /\ BuildEpt

OtherSteps == InitSteps \ {"host_cr3", "msr_bitmap", "ept"}

OtherBootStep ==
  /\ \/ StartHv \/ NumberRefused \/ MapApicId \/ MapDone
     \/ \E s \in OtherSteps : InitOk(s)
     \/ \E s \in InitSteps : InitFails(s)
     \/ Publish \/ Finish \/ PinCore \/ SvmCore
     \/ CoreFails \/ Supported \/ Context \/ Alloc \/ VmxOn \/ LoadVmcs \/ Launch
     \/ CoreDone \/ MainEnds
  /\ UNCHANGED hostVars

(* A processor that ALhvKill stopped stays in its handler. *)
CoreStepOfDriver ==
  /\ \E c \in Cores \ killed : Exit(c) \/ EnterHost(c) \/ LeaveHost(c)
  /\ UNCHANGED hostVars

AskStep == AskNext /\ UNCHANGED hostVars

(* The image-load callback reaches set_pte with the EPT made. *)
SplitStep ==
  /\ notify /\ eptMade
  /\ \E p \in Pages : Split(p)
  /\ UNCHANGED startVars

GuestStep ==
  /\ \/ GuestMaps
     \/ \E msr \in MtrrMsrs, c \in Cores :
          \/ ~InHost(c) /\ WriteMtrr(msr, Launched(c))
          \/ vmx[c] = "host" /\ c \notin killed /\ HandleMtrrWrite(msr, c)
  /\ UNCHANGED startVars

Next == BuildStep \/ OtherBootStep \/ CoreStepOfDriver \/ AskStep \/ SplitStep \/ GuestStep

Spec == Init /\ [][Next]_vars

(* The variables of both hold what the program's variables can hold. *)
TypeOK == StartTypeOK /\ HostTypeOK
=============================================================================

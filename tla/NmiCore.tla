------------------------------- MODULE NmiCore -------------------------------
(***************************************************************************)
(* One virtual processor's NMIs and guarded accesses (vmx_exitHandler.cpp, *)
(* idt.cpp).  An NMI that hits the guest is queued and injected when the   *)
(* guest can take it; RDMSR, WRMSR and XSETBV exits are carried out by the *)
(* host between `monitor' = 1 and `monitor' = 0, where safe_handler turns  *)
(* any exception of the host into a note; and an NMI that hits the host    *)
(* arrives at that same handler.  Nothing here is shared between cores.    *)
(***************************************************************************)
EXTENDS Integers

CONSTANTS
  MaxNmis,     (* bound on the NMIs that arrive *)
  MaxAccesses  (* bound on the guarded accesses *)

ASSUME NmiAssumption == MaxNmis \in Nat /\ MaxAccesses \in Nat

VARIABLES
  mode,       (* where the core is: in the guest, or at a step of an exit *)
  queued,     (* queuedNmis *)
  window,     (* nmi_window_exiting *)
  blocked,    (* the guest is inside its NMI handler *)
  monitor,    (* info->monitor *)
  find,       (* info->find *)
  vector,     (* info->vector *)
  access,     (* the kind of the last guarded access *)
  cause,      (* history: the exception that hit it *)
  given,      (* history: the exception its exit gave the guest *)
  arrived,    (* history: NMIs so far *)
  delivered,  (* history: NMIs injected into the guest *)
  swallowed,  (* history: NMIs taken for an exception of an access *)
  accesses    (* guarded accesses so far *)

nmis  == << queued, window, blocked, delivered >>
notes == << monitor, find, vector, access, cause, given >>
vars  == << mode, nmis, notes, arrived, swallowed, accesses >>

Init ==
  /\ mode = "guest"
  /\ queued = 0 /\ window = FALSE /\ blocked = FALSE
  /\ monitor = FALSE /\ find = FALSE /\ vector = "none"
  /\ access = "none" /\ cause = "none" /\ given = "none"
  /\ arrived = 0 /\ delivered = 0 /\ swallowed = 0 /\ accesses = 0

Goto(from, to) == mode = from /\ mode' = to

-----------------------------------------------------------------------------
(***************************************************************************)
(* NMIs of the guest.                                                      *)
(***************************************************************************)
Arrive == arrived < MaxNmis /\ arrived' = arrived + 1

GuestNmi ==
  /\ Goto("guest", "nmi") /\ Arrive
  /\ UNCHANGED << nmis, notes, swallowed, accesses >>

(* Variant: one NMI is remembered, not their number. *)
QueueOne ==
  /\ Goto("nmi", "guest")
  /\ queued' = 1 /\ window' = TRUE
  /\ UNCHANGED << blocked, delivered, notes, arrived, swallowed, accesses >>

(* vmx_handler_exception_nmi. *)
Queue ==
  /\ Goto("nmi", "guest")
  /\ queued' = queued + 1 /\ window' = TRUE
  /\ UNCHANGED << blocked, delivered, notes, arrived, swallowed, accesses >>

(* The guest is able to take an NMI. *)
WindowExit ==
  /\ window /\ ~blocked
  /\ Goto("guest", "window")
  /\ UNCHANGED << nmis, notes, arrived, swallowed, accesses >>

(* Variant: the window is closed although more NMIs wait. *)
InjectCloses ==
  /\ Goto("window", "guest")
  /\ queued' = queued - 1 /\ window' = FALSE
  /\ delivered' = delivered + 1 /\ blocked' = TRUE
  /\ UNCHANGED << notes, arrived, swallowed, accesses >>

(* Variant: the test for an empty queue decrements it too. *)
InjectCountsTwice ==
  /\ Goto("window", "guest")
  /\ queued' = queued - 2
  /\ window' = (queued' # 0)
  /\ delivered' = delivered + 1 /\ blocked' = TRUE
  /\ UNCHANGED << notes, arrived, swallowed, accesses >>

(* vmx_handler_nmi_window: one NMI is injected; with none left the window  *)
(* is closed, and opened again should one have been queued meanwhile.      *)
Inject ==
  /\ Goto("window", "guest")
  /\ queued' = queued - 1
  /\ window' = (queued' # 0)
  /\ delivered' = delivered + 1 /\ blocked' = TRUE
  /\ UNCHANGED << notes, arrived, swallowed, accesses >>

Iret ==
  /\ mode = "guest" /\ blocked /\ blocked' = FALSE
  /\ UNCHANGED << mode, queued, window, delivered, notes, arrived, swallowed, accesses >>

-----------------------------------------------------------------------------
(***************************************************************************)
(* A guarded access: ALhvIDTsafeRdmsr, safeWrmsr, safeXsetbv.  An XSETBV   *)
(* refused before its access changes nothing here.                         *)
(***************************************************************************)
Accesses == {"rdmsr", "wrmsr", "xsetbv"}

AccessExit ==
  /\ accesses < MaxAccesses /\ accesses' = accesses + 1
  /\ Goto("guest", "access")
  /\ access' \in Accesses
  /\ UNCHANGED << monitor, find, vector, cause, given, nmis, arrived, swallowed >>

(* Variant: what an earlier access left in find is not cleared. *)
ArmKeepsFind ==
  /\ Goto("access", "armed")
  /\ monitor' = TRUE /\ cause' = "none"
  /\ UNCHANGED << find, vector, access, given, nmis, arrived, swallowed, accesses >>

Arm ==
  /\ Goto("access", "armed")
  /\ monitor' = TRUE /\ find' = FALSE /\ cause' = "none"
  /\ UNCHANGED << vector, access, given, nmis, arrived, swallowed, accesses >>

CallLeaf ==
  /\ Goto("armed", "leaf")
  /\ UNCHANGED << nmis, notes, arrived, swallowed, accesses >>

Succeed ==
  /\ Goto("leaf", "after")
  /\ UNCHANGED << nmis, notes, arrived, swallowed, accesses >>

Fault ==
  /\ Goto("leaf", "fault")
  /\ cause' = "gp"
  /\ UNCHANGED << monitor, find, vector, access, given, nmis, arrived, swallowed, accesses >>

(* safe_handler: noted, and the faulting leaf function returned from.      *)
Note(v) == find' = TRUE /\ vector' = v

NoteFault ==
  /\ Goto("fault", "after")
  /\ Note("gp")
  /\ UNCHANGED << monitor, access, cause, given, nmis, arrived, swallowed, accesses >>

Disarm ==
  /\ Goto("after", "decide")
  /\ monitor' = FALSE
  /\ UNCHANGED << find, vector, access, cause, given, nmis, arrived, swallowed, accesses >>

(* What the exit of an access injects for an exception noted: an XSETBV    *)
(* gets #GP whatever the note says.                                        *)
Injected == IF access = "xsetbv" THEN "gp" ELSE vector

(* With an exception noted one is injected, else the guest moves on; but a *)
(* write that went through to an MTRR, with caching on, stops the machine. *)
Decide ==
  /\ \/ find /\ given' = Injected /\ Goto("decide", "guest")
     \/ ~find /\ given' = "none" /\ Goto("decide", "guest")
     \/ ~find /\ given' = "none" /\ access = "wrmsr" /\ Goto("decide", "stopped")
  /\ UNCHANGED << monitor, find, vector, access, cause, nmis, arrived, swallowed, accesses >>

-----------------------------------------------------------------------------
(* An NMI that hits the host, outside an exit that was an NMI itself.      *)
(* Unguarded, it stops the machine.  In the leaf function it is noted as   *)
(* if it were the access's exception.  While guarded but outside the leaf  *)
(* function, safe_handler takes whatever is on top of the stack for the    *)
(* address to go on at.                                                    *)
InHost == mode \notin {"guest", "nmi", "killed", "wild", "stopped"}

HostNmi ==
  /\ InHost /\ Arrive
  /\ \/ /\ ~monitor
        /\ mode' = "killed"
        /\ UNCHANGED << notes, swallowed >>
     \/ /\ monitor /\ mode = "leaf"
        /\ mode' = "after"
        /\ Note("nmi") /\ cause' = "nmi"
        /\ swallowed' = swallowed + 1
        /\ UNCHANGED << monitor, access, given >>
     \/ /\ monitor /\ mode # "leaf"
        /\ mode' = "wild"
        /\ UNCHANGED << notes, swallowed >>
  /\ UNCHANGED << nmis, accesses >>

ExitStep == Queue \/ Inject \/ Arm \/ CallLeaf \/ Succeed \/ Fault \/ NoteFault
            \/ Disarm \/ Decide

Next == GuestNmi \/ WindowExit \/ Iret \/ AccessExit \/ ExitStep \/ HostNmi

Spec == Init /\ [][Next]_vars

(* Exits run to their end; the processor exits as soon as the window is    *)
(* open; the guest's NMI handler returns.                                  *)
FairSpec ==
  /\ Spec
  /\ WF_vars(ExitStep) /\ WF_vars(WindowExit) /\ WF_vars(Iret)

-----------------------------------------------------------------------------
HitByNmi == mode \in {"killed", "wild"}
Dead     == HitByNmi \/ mode = "stopped"

(* The variables hold what the program's variables can hold. *)
TypeOK ==
  /\ mode \in {"guest", "nmi", "window", "access", "armed", "leaf", "fault",
               "after", "decide", "killed", "wild", "stopped"}
  /\ queued \in 0 .. MaxNmis /\ window \in BOOLEAN /\ blocked \in BOOLEAN
  /\ monitor \in BOOLEAN /\ find \in BOOLEAN
  /\ {vector, cause, given} \subseteq {"none", "gp", "nmi"}
  /\ access \in Accesses \cup {"none"}
  /\ arrived \in 0 .. MaxNmis /\ delivered \in 0 .. MaxNmis
  /\ swallowed \in 0 .. MaxNmis /\ accesses \in 0 .. MaxAccesses

(* No NMI is dropped or injected twice: each one that arrived was injected,*)
(* is queued or on its way there, was taken for an access's exception, or  *)
(* stopped the machine (queuedNmis across the two exits and the IDT).      *)
NmisAccounted ==
  arrived = delivered + queued + swallowed
            + (IF mode = "nmi" \/ HitByNmi THEN 1 ELSE 0)

(* Back in the guest, the exception it was given for its last access is    *)
(* the one that hit this access, not one of an earlier access, and none    *)
(* when nothing did (info->find and info->vector are kept per core from    *)
(* one access to the next) - except that an XSETBV hit by an NMI of the    *)
(* host gets a #GP, which nothing raised: the comment at                   *)
(* vmx_exitHandler.cpp:217 doubts that anything but a #GP can be noted.    *)
ExceptionPassedOn ==
  mode = "guest" =>
    given = IF access = "xsetbv" /\ cause = "nmi" THEN "gp" ELSE cause

(* While an NMI waits the guest runs with the window open, so every queued *)
(* NMI gets out, and no exit finds the queue empty.                        *)
QueueDrains == queued > 0 ~> (queued = 0 \/ Dead)
=============================================================================

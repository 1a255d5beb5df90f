---------------------------- MODULE NmiCore_proofs ----------------------------
(***************************************************************************)
(* What NmiCore's runs check of the count of NMIs and of the exception     *)
(* notes, proved for any number of NMIs and accesses.                      *)
(***************************************************************************)
EXTENDS NmiCore, TLAPS

Modes == {"guest", "nmi", "window", "access", "armed", "leaf", "fault",
          "after", "decide", "killed", "wild", "stopped"}

(* The types without the bounds that follow from the accounts. *)
Types ==
  /\ mode \in Modes
  /\ queued \in Nat /\ delivered \in Nat /\ swallowed \in Nat
  /\ window \in BOOLEAN /\ blocked \in BOOLEAN
  /\ monitor \in BOOLEAN /\ find \in BOOLEAN
  /\ {vector, cause, given} \subseteq {"none", "gp", "nmi"}
  /\ access \in Accesses \cup {"none"}
  /\ arrived \in 0 .. MaxNmis /\ accesses \in 0 .. MaxAccesses

(* The window is open only with an NMI waiting, so an exit finds one. *)
WindowMeansQueued == (window \/ mode = "window") => queued > 0

(* From the clearing of the note on, note and cause say the same; between  *)
(* a fault and its note only the cause does.  Between accesses, what the   *)
(* guest was given goes with the cause of the last one.                    *)
NotesFollow ==
  /\ mode \in {"armed", "leaf"} => ~find /\ cause = "none"
  /\ mode = "fault" => ~find /\ cause = "gp"
  /\ mode \in {"after", "decide"} => /\ find <=> cause # "none"
                                     /\ find => vector = cause
  /\ mode \in {"guest", "nmi", "window"} =>
       given = IF access = "xsetbv" /\ cause = "nmi" THEN "gp" ELSE cause

IInv == Types /\ NmisAccounted /\ WindowMeansQueued /\ NotesFollow

USE NmiAssumption DEF NmiAssumption

LEMMA InitIInv == Init => IInv
  <1> SUFFICES ASSUME Init PROVE IInv
    OBVIOUS
  <1>1. Types
    <2>1. 0 \in 0 .. MaxNmis /\ 0 \in 0 .. MaxAccesses /\ 0 \in Nat
      OBVIOUS
    <2>2. window \in BOOLEAN /\ blocked \in BOOLEAN /\ monitor \in BOOLEAN /\ find \in BOOLEAN
      BY Zenon DEF Init
    <2> QED BY <2>1, <2>2 DEF Init, Types, Modes
  <1>2. NmisAccounted
    BY DEF Init, NmisAccounted, HitByNmi
  <1>3. WindowMeansQueued
    BY Zenon DEF Init, WindowMeansQueued
  <1>4. NotesFollow
    BY DEF Init, NotesFollow
  <1> QED BY <1>1, <1>2, <1>3, <1>4 DEF IInv

-----------------------------------------------------------------------------
(* Each NMI that arrives enters the account once and changes no note.      *)
LEMMA QueueStep ==
  ASSUME IInv, GuestNmi \/ Queue \/ WindowExit \/ Inject \/ Iret
  PROVE  IInv'
  <1>1. CASE GuestNmi
    BY <1>1 DEF GuestNmi, Goto, Arrive, nmis, notes, IInv, Types, Modes, NmisAccounted,
                WindowMeansQueued, NotesFollow, HitByNmi
  <1>2. CASE Queue
    BY <1>2 DEF Queue, Goto, notes, IInv, Types, Modes, NmisAccounted,
                WindowMeansQueued, NotesFollow, HitByNmi
  <1>3. CASE WindowExit
    BY <1>3 DEF WindowExit, Goto, nmis, notes, IInv, Types, Modes, NmisAccounted,
                WindowMeansQueued, NotesFollow, HitByNmi
  <1>4. CASE Inject
    <2>1. queued > 0
      BY <1>4 DEF Inject, Goto, IInv, WindowMeansQueued
    <2>2. Types' /\ NmisAccounted' /\ NotesFollow'
      BY <1>4, <2>1 DEF Inject, Goto, notes, IInv, Types, Modes, NmisAccounted,
                        NotesFollow, HitByNmi
    <2>3. queued' # 0 => queued' > 0
      BY <2>2 DEF Types
    <2>4. (window' = (queued' # 0)) /\ mode' = "guest"
      BY <1>4 DEF Inject, Goto
    <2>5. WindowMeansQueued'
      BY <2>3, <2>4, Zenon DEF WindowMeansQueued
    <2> QED BY <2>2, <2>5 DEF IInv
  <1>5. CASE Iret
    BY <1>5 DEF Iret, notes, IInv, Types, Modes, NmisAccounted,
                WindowMeansQueued, NotesFollow, HitByNmi
  <1> QED BY <1>1, <1>2, <1>3, <1>4, <1>5

(* A guarded access leaves the account alone.                              *)
LEMMA AccessStep ==
  ASSUME IInv,
         AccessExit \/ Arm \/ CallLeaf \/ Succeed \/ Fault \/ NoteFault \/ Disarm \/ Decide
  PROVE  IInv'
  <1>1. CASE AccessExit
    BY <1>1 DEF AccessExit, Accesses, Goto, nmis, IInv, Types, Modes, NmisAccounted,
                WindowMeansQueued, NotesFollow, HitByNmi
  <1>2. CASE Arm
    BY <1>2 DEF Arm, Goto, nmis, IInv, Types, Modes, NmisAccounted,
                WindowMeansQueued, NotesFollow, HitByNmi
  <1>3. CASE CallLeaf \/ Succeed \/ Fault
    BY <1>3 DEF CallLeaf, Succeed, Fault, Goto, nmis, notes, IInv, Types, Modes,
                NmisAccounted, WindowMeansQueued, NotesFollow, HitByNmi
  <1>4. CASE NoteFault
    BY <1>4 DEF NoteFault, Note, Goto, nmis, IInv, Types, Modes, NmisAccounted,
                WindowMeansQueued, NotesFollow, HitByNmi
  <1>5. CASE Disarm
    BY <1>5 DEF Disarm, Goto, nmis, IInv, Types, Modes, NmisAccounted,
                WindowMeansQueued, NotesFollow, HitByNmi
  <1>6. CASE Decide
    BY <1>6 DEF Decide, Injected, Goto, nmis, IInv, Types, Modes, NmisAccounted,
                WindowMeansQueued, NotesFollow, HitByNmi
  <1> QED BY <1>1, <1>2, <1>3, <1>4, <1>5, <1>6

(* An NMI of the host is accounted for by what it does to the machine or   *)
(* to the access under way, of which it then is the cause.                 *)
LEMMA HostNmiStep ==
  ASSUME IInv, HostNmi
  PROVE  IInv'
  <1>1. CASE mode' = "after"
    BY <1>1, HostNmi DEF HostNmi, InHost, Arrive, Note, nmis, IInv, Types, Modes,
                NmisAccounted, WindowMeansQueued, NotesFollow, HitByNmi
  <1>2. CASE mode' \in {"killed", "wild"}
    <2>1. UNCHANGED << notes, swallowed >>
      BY <1>2, HostNmi DEF HostNmi
    <2> QED
      BY <1>2, <2>1, HostNmi DEF HostNmi, InHost, Arrive, nmis, notes, IInv, Types, Modes,
                NmisAccounted, WindowMeansQueued, NotesFollow, HitByNmi
  <1> QED BY <1>1, <1>2, HostNmi DEF HostNmi

LEMMA NextIInv == IInv /\ [Next]_vars => IInv'
  <1> SUFFICES ASSUME IInv, [Next]_vars PROVE IInv'
    OBVIOUS
  <1>1. CASE Next
    BY <1>1, QueueStep, AccessStep, HostNmiStep DEF Next, ExitStep
  <1>2. CASE UNCHANGED vars
    BY <1>2 DEF vars, nmis, notes, IInv, Types, Modes, NmisAccounted,
                WindowMeansQueued, NotesFollow, HitByNmi
  <1> QED BY <1>1, <1>2

LEMMA SpecIInv == Spec => []IInv
  BY InitIInv, NextIInv, PTL DEF Spec

-----------------------------------------------------------------------------
(* The variables keep their types, and the queue never counts more NMIs    *)
(* than arrived (queuedNmis, vmx_exitHandler.cpp).                         *)
THEOREM NmiTypeCorrect == Spec => []TypeOK
  <1>1. IInv => TypeOK
    BY DEF IInv, Types, Modes, NmisAccounted, TypeOK
  <1> QED BY SpecIInv, <1>1, PTL

(* No NMI is dropped or injected twice, whatever it hits. *)
THEOREM NmiAccounts == Spec => []NmisAccounted
  <1>1. IInv => NmisAccounted
    BY DEF IInv
  <1> QED BY SpecIInv, <1>1, PTL

(* A guest's RDMSR or WRMSR that an exception hit is given that exception, *)
(* and none of an earlier access, over any sequence of accesses; an XSETBV *)
(* likewise, but for the #GP it is given for an NMI of the host (idt.cpp:  *)
(* info->find; vmx_exitHandler.cpp:215).                                   *)
THEOREM NmiExceptionPassedOn == Spec => []ExceptionPassedOn
  <1>1. IInv => ExceptionPassedOn
    BY DEF IInv, NotesFollow, ExceptionPassedOn
  <1> QED BY SpecIInv, <1>1, PTL
=============================================================================

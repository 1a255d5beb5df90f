----------------------------- MODULE HandlerList -----------------------------
(***************************************************************************)
(* HANDLER_CLS (handler_class.h) and the dispatch of VM exits over it      *)
(* (VMEXIT_HANDLERS_CLS, vmx_exitHandler.h): a small array of function     *)
(* pointers threaded by an array of links.  One thread at a time adds and  *)
(* removes handlers (ALvmxMNTinit, ALhvIdtAddHandler, ALhvIdtDelHandler),  *)
(* without a lock, while exits on the other cores walk the list.           *)
(***************************************************************************)
EXTENDS Integers, FiniteSets

CONSTANTS
  Cores,       (* the processors that take exits *)
  Handlers,    (* the functions that are added and removed *)
  Null,        (* _null_fun_v, which declines everything *)
  Limit,       (* HANDLER_LIMIT *)
  MaxOps,      (* bound on the calls of add_handler and sub_handler *)
  EndAfterSub  (* whether add_handler(.., 1) is called after a sub_handler *)

ASSUME ListAssumption ==
  /\ Limit \in Nat \ {0}
  /\ MaxOps \in Nat
  /\ EndAfterSub \in BOOLEAN
  /\ Null \notin Handlers

Slots == 0 .. Limit - 1
Links == Slots \cup {-1}

VARIABLES
  handlers,   (* the function in each slot *)
  link,       (* handler_link *)
  start,      (* handler_start *)
  op,         (* the call under way: where it is, and its slot *)
  ops,        (* calls made so far *)
  removed,    (* some handler was removed *)
  added,      (* history: handlers on the list by an add_handler that returned *)
  pc,         (* where each core is in call_all *)
  at,         (* the slot it looks at *)
  pass,       (* 1 or 2 *)
  taker,      (* the handler that takes the core's exit, Null if none *)
  since,      (* the first pass in which it takes it *)
  due,        (* history: handlers on the list all through this pass *)
  called      (* history: handlers called in this pass *)

list  == << handlers, link, start, op, ops, removed, added >>
walks == << pc, at, pass, taker, since, due, called >>
vars  == << list, walks >>

Init ==
  /\ handlers = [n \in Slots |-> Null]
  /\ link = [n \in Slots |-> -1]
  /\ start = -1
  /\ op = [pc |-> "idle", slot |-> 0]
  /\ ops = 0
  /\ removed = FALSE
  /\ added = {}
  /\ pc = [c \in Cores |-> "idle"]
  /\ at = [c \in Cores |-> -1]
  /\ pass = [c \in Cores |-> 1]
  /\ taker = [c \in Cores |-> Null]
  /\ since = [c \in Cores |-> 1]
  /\ due = [c \in Cores |-> {}]
  /\ called = [c \in Cores |-> {}]

-----------------------------------------------------------------------------
(***************************************************************************)
(* Adding and removing.  The compare-and-swaps race with nobody; the       *)
(* walkers see every store.                                                *)
(***************************************************************************)
Free == {n \in Slots : handlers[n] = Null}

First(S) == CHOOSE n \in S : \A m \in S : n <= m
Last(S)  == CHOOSE n \in S : \A m \in S : n >= m

Present == {handlers[n] : n \in Slots} \ {Null}

Start(next, slot) ==
  /\ op.pc = "idle" /\ ops < MaxOps
  /\ ops' = ops + 1
  /\ op' = [pc |-> next, slot |-> slot]

Finish == op' = [pc |-> "idle", slot |-> 0] /\ UNCHANGED << ops, removed >>

(* The slot's function becomes h, whether or not another slot has it; not  *)
(* linked yet.  A full list refuses.                                       *)
ClaimSlot(next, slot) ==
  \E h \in Handlers :
    /\ Start(next, slot)
    /\ handlers' = [handlers EXCEPT ![slot] = h]
    /\ UNCHANGED << link, start, removed, added >> /\ UNCHANGED walks

AddFront == Free # {} /\ ClaimSlot("linkFront", First(Free))

AddEnd ==
  /\ Free # {} /\ (removed => EndAfterSub)
  /\ ClaimSlot("linkEnd", Last(Free))

(* Variant: the new slot does not lead on to the others. *)
LinkForgotten ==
  /\ op.pc = "linkFront"
  /\ op' = [op EXCEPT !.pc = "startFront"]
  /\ UNCHANGED << handlers, link, start, ops, removed, added >> /\ UNCHANGED walks

(* Variant: handler_start is stored first, and so linked to itself. *)
LinkToItself ==
  /\ op.pc = "linkFront"
  /\ link' = [link EXCEPT ![op.slot] = op.slot]
  /\ op' = [op EXCEPT !.pc = "startFront"]
  /\ UNCHANGED << handlers, start, ops, removed, added >> /\ UNCHANGED walks

LinkFront ==
  /\ op.pc = "linkFront"
  /\ link' = [link EXCEPT ![op.slot] = start]
  /\ op' = [op EXCEPT !.pc = "startFront"]
  /\ UNCHANGED << handlers, start, ops, removed, added >> /\ UNCHANGED walks

StartFront ==
  /\ op.pc = "startFront"
  /\ start' = op.slot
  /\ added' = added \cup {handlers[op.slot]}
  /\ Finish
  /\ UNCHANGED << handlers, link >> /\ UNCHANGED walks

(* The slots on the list, in as many steps as there are slots. *)
Chain[k \in 0 .. Limit] ==
  IF k = 0 THEN {start} \ {-1}
  ELSE Chain[k - 1] \cup ({link[n] : n \in Chain[k - 1]} \ {-1})
Listed == Chain[Limit]

(* get_link_end, which has no answer on a list without an end; the slot's  *)
(* own link is left as it is.                                              *)
LinkEnd ==
  /\ op.pc = "linkEnd"
  /\ \/ start = -1 /\ start' = op.slot /\ UNCHANGED link
     \/ \E e \in Listed :
          /\ link[e] = -1
          /\ link' = [link EXCEPT ![e] = op.slot]
          /\ UNCHANGED start
  /\ added' = added \cup {handlers[op.slot]}
  /\ Finish
  /\ UNCHANGED handlers /\ UNCHANGED walks

(* The first slot that has h; another may keep it.                         *)
SubHandler ==
  \E h \in Present :
    /\ Start("unlink", First({n \in Slots : handlers[n] = h}))
    /\ handlers' = [handlers EXCEPT ![op'.slot] = Null]
    /\ removed' = TRUE
    /\ added' = Present'
    /\ due' = [c \in Cores |-> due[c] \ {h}]
    /\ UNCHANGED << link, start, pc, at, pass, taker, since, called >>

(* Variant: the predecessor is made the end of the list. *)
UnlinkCuts ==
  /\ op.pc = "unlink"
  /\ LET before == {m \in Listed : link[m] = op.slot} IN
     IF start = op.slot \/ before = {}
     THEN start' = link[op.slot] /\ UNCHANGED link
     ELSE link' = [link EXCEPT ![First(before)] = -1] /\ UNCHANGED start
  /\ Finish
  /\ UNCHANGED << handlers, added >> /\ UNCHANGED walks

(* sub_set_link, with find_link_last: the links lead around the slot, and  *)
(* the slot keeps its own.                                                 *)
Unlink ==
  /\ op.pc = "unlink"
  /\ LET before == {m \in Listed : link[m] = op.slot} IN
     IF start = op.slot \/ before = {}
     THEN start' = link[op.slot] /\ UNCHANGED link
     ELSE /\ link' = [link EXCEPT ![First(before)] = link[op.slot]]
          /\ UNCHANGED start
  /\ Finish
  /\ UNCHANGED << handlers, added >> /\ UNCHANGED walks

-----------------------------------------------------------------------------
(***************************************************************************)
(* call_all: two passes, then the machine is stopped.                      *)
(***************************************************************************)
BeginPass(c, k) ==
  /\ pc' = [pc EXCEPT ![c] = "call"]
  /\ pass' = [pass EXCEPT ![c] = k]
  /\ at' = [at EXCEPT ![c] = start]
  /\ due' = [due EXCEPT ![c] = added]
  /\ called' = [called EXCEPT ![c] = {}]

(* An exit that one handler takes, in both passes or in the second only,   *)
(* or that nobody takes.                                                   *)
TakeExit(c) ==
  /\ pc[c] = "idle"
  /\ \E h \in Handlers \cup {Null}, k \in {1, 2} :
       /\ taker' = [taker EXCEPT ![c] = h]
       /\ since' = [since EXCEPT ![c] = k]
  /\ BeginPass(c, 1)
  /\ UNCHANGED list

Takes(c, h) == h # Null /\ h = taker[c] /\ pass[c] >= since[c]

(* handlers[i](...) *)
CallHandler(c) ==
  /\ pc[c] = "call" /\ at[c] # -1
  /\ LET h == handlers[at[c]] IN
     /\ called' = [called EXCEPT ![c] = @ \cup {h}]
     /\ pc' = [pc EXCEPT ![c] = IF Takes(c, h) THEN "idle" ELSE "advance"]
  /\ UNCHANGED << at, pass, taker, since, due >> /\ UNCHANGED list

Advance(c) ==
  /\ pc[c] = "advance"
  /\ pc' = [pc EXCEPT ![c] = "call"]
  /\ at' = [at EXCEPT ![c] = link[@]]
  /\ UNCHANGED << pass, taker, since, due, called >> /\ UNCHANGED list

SecondPass(c) ==
  /\ pc[c] = "call" /\ at[c] = -1 /\ pass[c] = 1
  /\ BeginPass(c, 2)
  /\ UNCHANGED << taker, since >> /\ UNCHANGED list

(* Variant: the machine is stopped when the first pass ends. *)
KillAtOnce(c) ==
  /\ pc[c] = "call" /\ at[c] = -1
  /\ pc' = [pc EXCEPT ![c] = "killed"]
  /\ UNCHANGED << at, pass, taker, since, due, called >> /\ UNCHANGED list

Kill(c) ==
  /\ pc[c] = "call" /\ at[c] = -1 /\ pass[c] = 2
  /\ pc' = [pc EXCEPT ![c] = "killed"]
  /\ UNCHANGED << at, pass, taker, since, due, called >> /\ UNCHANGED list

-----------------------------------------------------------------------------
ListStep == AddFront \/ AddEnd \/ LinkFront \/ StartFront \/ LinkEnd
            \/ SubHandler \/ Unlink
Dispatch(c) == CallHandler(c) \/ Advance(c) \/ SecondPass(c) \/ Kill(c)

Next == ListStep \/ \E c \in Cores : TakeExit(c) \/ Dispatch(c)

Spec == Init /\ [][Next]_vars

(* An exit's dispatch runs on. *)
FairSpec == Spec /\ \A c \in Cores : WF_vars(Dispatch(c))

-----------------------------------------------------------------------------
(* The variables hold what the program's variables can hold. *)
TypeOK ==
  /\ handlers \in [Slots -> Handlers \cup {Null}]
  /\ link \in [Slots -> Links] /\ start \in Links
  /\ op \in [pc : {"idle", "linkFront", "startFront", "linkEnd", "unlink"},
             slot : Slots]
  /\ ops \in 0 .. MaxOps /\ removed \in BOOLEAN
  /\ added \in SUBSET Handlers
  /\ pc \in [Cores -> {"idle", "call", "advance", "killed"}]
  /\ at \in [Cores -> Links]
  /\ pass \in [Cores -> {1, 2}] /\ since \in [Cores -> {1, 2}]
  /\ taker \in [Cores -> Handlers \cup {Null}]
  /\ due \in [Cores -> SUBSET Handlers]
  /\ called \in [Cores -> SUBSET (Handlers \cup {Null})]

(* A pass that nobody stopped has called every handler that was on the     *)
(* list when it began and of which no copy was removed, whatever changed   *)
(* under it (call_handlers against add_set_link and sub_set_link).         *)
PassCallsAll ==
  \A c \in Cores : pc[c] = "call" /\ at[c] = -1 => due[c] \subseteq called[c]

(* The machine is stopped for an exit only when no handler that was there  *)
(* for it would have taken it (call_all: handled in two passes or else).   *)
KilledOnlyUnhandled == \A c \in Cores : pc[c] = "killed" => taker[c] \notin due[c]

(* Links lead to slots or nowhere, and between two calls they run through  *)
(* exactly the slots in use and come to an end (add_handler, sub_handler). *)
ListMatchesSlots ==
  /\ TypeOK
  /\ op.pc = "idle" =>
       /\ Listed = {n \in Slots : handlers[n] # Null}
       /\ Listed # {} => \E n \in Listed : link[n] = -1

(* Every exit's dispatch ends: handled, or the machine stops. *)
DispatchEnds == \A c \in Cores : pc[c] # "idle" ~> pc[c] \in {"idle", "killed"}
=============================================================================

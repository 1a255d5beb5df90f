------------------------------- MODULE HvPool -------------------------------
(***************************************************************************)
(* The hypervisor's memory pool (hvmem.cpp): one contiguous block handed   *)
(* out for ever.  Requests of a page or more grow up from the start in     *)
(* whole pages, smaller ones grow down from the end; each end is moved     *)
(* with one interlocked add, and only afterwards is the other end read to  *)
(* see whether the two have met.  Nothing is ever given back.              *)
(***************************************************************************)
EXTENDS Integers, FiniteSets

CONSTANTS
  Cores,       (* the processors that may call the allocator *)
  PageSize,    (* 0x1000 *)
  PoolSize,    (* g_hvMMpoolSize *)
  Requests,    (* sizes asked for *)
  MaxRequests  (* bound on the requests of one core *)

ASSUME PoolAssumption ==
  /\ PageSize \in Nat \ {0}
  /\ PoolSize \in Nat
  /\ Requests \subseteq Nat \ {0}
  /\ MaxRequests \in Nat

VARIABLES
  pool,        (* g_hvMMpool is set *)
  usable,      (* g_hvMMpoolUsable: first byte above the big blocks *)
  bigMemEnd,   (* g_hvMMpoolBigMemEnd: first byte of the small blocks *)
  pc,          (* where each core is in ALhvMMallocateMemory *)
  claim,       (* the bytes a core has moved an end over *)
  made,        (* requests each core has made *)
  granted      (* history: the blocks returned to callers *)

vars == << pool, usable, bigMemEnd, pc, claim, made, granted >>

Claims == [kind : {"big", "small"}, lo : Int, hi : Int]
Grants == [by : Cores, nth : Nat, block : Claims]

(* Variant: a size of a page or more is not rounded up. *)
KeepSize(n) == n

AlignsPage(n) == ((n + PageSize - 1) \div PageSize) * PageSize

Init ==
  /\ pool = FALSE
  /\ usable = 0
  /\ bigMemEnd = PoolSize
  /\ pc = [c \in Cores |-> "idle"]
  /\ claim = [c \in Cores |-> [kind |-> "big", lo |-> 0, hi |-> 0]]
  /\ made = [c \in Cores |-> 0]
  /\ granted = {}

(* ALhvMMinitPool got its contiguous memory.  When it did not, the pool    *)
(* stays unset.                                                            *)
InitPool ==
  /\ ~pool
  /\ pool' = TRUE
  /\ UNCHANGED << usable, bigMemEnd, pc, claim, made, granted >>

Start(c) ==
  /\ pc[c] = "idle"
  /\ made[c] < MaxRequests
  /\ made' = [made EXCEPT ![c] = @ + 1]

(* Before the pool exists a request is answered 0. *)
RefuseNoPool(c) ==
  /\ ~pool
  /\ Start(c)
  /\ UNCHANGED << pool, usable, bigMemEnd, pc, claim, granted >>

TakeBig(c) ==
  /\ pool
  /\ Start(c)
  /\ \E n \in Requests :
       /\ n >= PageSize
       /\ usable' = usable + AlignsPage(n)
       /\ claim' = [claim EXCEPT ![c] =
                      [kind |-> "big", lo |-> usable, hi |-> usable']]
  /\ pc' = [pc EXCEPT ![c] = "check"]
  /\ UNCHANGED << pool, bigMemEnd, granted >>

(* Variant: the size is added although it was meant to be taken off. *)
TakeSmallUpwards(c) ==
  /\ pool
  /\ Start(c)
  /\ \E n \in Requests :
       /\ n < PageSize
       /\ bigMemEnd' = bigMemEnd + n
       /\ claim' = [claim EXCEPT ![c] =
                      [kind |-> "small", lo |-> bigMemEnd', hi |-> bigMemEnd]]
  /\ pc' = [pc EXCEPT ![c] = "check"]
  /\ UNCHANGED << pool, usable, granted >>

TakeSmall(c) ==
  /\ pool
  /\ Start(c)
  /\ \E n \in Requests :
       /\ n < PageSize
       /\ bigMemEnd' = bigMemEnd - n
       /\ claim' = [claim EXCEPT ![c] =
                      [kind |-> "small", lo |-> bigMemEnd', hi |-> bigMemEnd]]
  /\ pc' = [pc EXCEPT ![c] = "check"]
  /\ UNCHANGED << pool, usable, granted >>

(* Variant: a big block's first byte is compared instead of its end. *)
FitsByStart(c) ==
  \/ claim[c].kind = "big" /\ claim[c].lo <= bigMemEnd
  \/ claim[c].kind = "small" /\ usable <= claim[c].lo

(* Variant: a block must leave a byte between the two ends. *)
FitsStrictly(c) ==
  \/ claim[c].kind = "big" /\ claim[c].hi < bigMemEnd
  \/ claim[c].kind = "small" /\ usable < claim[c].lo

(* The end the request did not move, as it is now. *)
Fits(c) ==
  \/ claim[c].kind = "big" /\ claim[c].hi <= bigMemEnd
  \/ claim[c].kind = "small" /\ usable <= claim[c].lo

Return(c) ==
  /\ pc[c] = "check"
  /\ Fits(c)
  /\ granted' = granted \cup {[by |-> c, nth |-> made[c], block |-> claim[c]]}
  /\ pc' = [pc EXCEPT ![c] = "idle"]
  /\ UNCHANGED << pool, usable, bigMemEnd, claim, made >>

(* ALhvKill: the core stops for good; the others may run on a while. *)
Kill(c) ==
  /\ pc[c] = "check"
  /\ ~Fits(c)
  /\ pc' = [pc EXCEPT ![c] = "killed"]
  /\ UNCHANGED << pool, usable, bigMemEnd, claim, made, granted >>

Next ==
  \/ InitPool
  \/ \E c \in Cores :
       RefuseNoPool(c) \/ TakeBig(c) \/ TakeSmall(c) \/ Return(c) \/ Kill(c)

Spec == Init /\ [][Next]_vars

-----------------------------------------------------------------------------
(* The variables hold what the program's variables can hold. *)
TypeOK ==
  /\ pool \in BOOLEAN
  /\ usable \in Nat
  /\ bigMemEnd \in Int /\ bigMemEnd <= PoolSize
  /\ pc \in [Cores -> {"idle", "check", "killed"}]
  /\ claim \in [Cores -> Claims]
  /\ made \in [Cores -> Nat]
  /\ granted \in SUBSET Grants

Disjoint(x, y) == x.hi <= y.lo \/ y.hi <= x.lo

(* Whatever requests race for the last bytes, no two callers of            *)
(* ALhvMMallocateMemory are handed overlapping memory, and none is handed  *)
(* memory outside the pool.                                                *)
GrantsDisjoint ==
  /\ \A g, h \in granted : g # h => Disjoint(g.block, h.block)
  /\ \A g \in granted : 0 <= g.block.lo /\ g.block.hi <= PoolSize

(* The pages the allocator returns start on a page: they become page       *)
(* tables, VMCS regions and bitmaps.                                       *)
PagesAligned ==
  \A g \in granted : g.block.kind = "big" => g.block.lo % PageSize = 0

(* A core is stopped for lack of memory only when the requests made so far *)
(* do not fit in the pool together.                                        *)
KilledOnlyWhenExhausted ==
  (\E c \in Cores : pc[c] = "killed") => bigMemEnd < usable
=============================================================================

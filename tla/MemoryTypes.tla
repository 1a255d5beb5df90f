----------------------------- MODULE MemoryTypes -----------------------------
(***************************************************************************)
(* The memory type of physical pages (hvmem.cpp 938-1030): what the MTRRs  *)
(* say, for one page and for a range that one EPT entry covers.  A         *)
(* variable range is a power of two of pages, aligned to itself, so that   *)
(* comparing under the mask is dividing by the size.                       *)
(***************************************************************************)
EXTENDS Integers, Sequences

UC == 0
WT == 4
WB == 6
MtrrTypes == {0, 1, 4, 5, 6}
Invalid   == 255              (* MEMORY_TYPE_INVALID *)

(* What the MTRRs hold. *)
Ranges(Vars) ==
  [Vars -> [valid : BOOLEAN, base : Nat, size : Nat \ {0}, type : MtrrTypes]]
Mtrrs(Vars) ==
  [enabled : BOOLEAN, default : MtrrTypes, fixed : Nat, var : Ranges(Vars)]

Covers(r, page) == r.valid /\ page \div r.size = r.base \div r.size

(* The least of a set of types, Invalid when it is empty. *)
Least(S) ==
  IF S = {} THEN Invalid ELSE CHOOSE t \in S : \A u \in S : t <= u

(* Variant: the default type is not used where no range covers the page. *)
PageTypeNoDefault(m, page) ==
  LET found == Least({m.var[i].type : i \in {j \in DOMAIN m.var : Covers(m.var[j], page)}})
  IN IF ~m.enabled \/ page < m.fixed THEN UC ELSE found

(* calc_mtrr_mem_type(mtrrs, pfn): pages below fixed are under the fixed-  *)
(* range MTRRs and taken for uncacheable.                                  *)
PageType(m, page) ==
  LET found == Least({m.var[i].type : i \in {j \in DOMAIN m.var : Covers(m.var[j], page)}})
  IN IF ~m.enabled \/ page < m.fixed THEN UC
     ELSE IF found = Invalid THEN m.default ELSE found

(* Variant: the first page of the range speaks for all. *)
RangeTypeOfFirst(m, first, count) == PageType(m, first)

(* calc_mtrr_mem_type(mtrrs, address, size), in pages. *)
RangeType(m, first, count) ==
  LET found == Least({PageType(m, p) : p \in first .. first + count - 1})
  IN IF found = Invalid THEN UC ELSE found

-----------------------------------------------------------------------------
(* enable_exit_for_msr_write: the byte is assigned, not combined with what *)
(* it holds.  A bitmap is the set of MSRs whose bit is set.                *)
EnableWriteExit(bitmap, msr) ==
  {b \in bitmap : b \div 8 # msr \div 8} \cup {msr}

(* enable_mtrr_exiting: the MSRs in the order they are enabled in.         *)
DefType == 767                (* IA32_MTRR_DEF_TYPE, 0x2FF *)
FixedMsrs == << 592, 600, 601, 616, 617, 618, 619, 620, 621, 622, 623 >>
PhysBase(i) == 512 + 2 * i    (* IA32_MTRR_PHYSBASE0 is 0x200 *)
PhysMask(i) == 513 + 2 * i
Enabled(count) ==
  << DefType >> \o FixedMsrs
    \o [k \in 1 .. 2 * count |-> IF k % 2 = 1 THEN PhysBase((k - 1) \div 2)
                                 ELSE PhysMask((k - 1) \div 2)]
=============================================================================

------------------------------ MODULE HostTables ------------------------------
(***************************************************************************)
(* The host's page tables (hvmem.cpp): its PML4 takes over the kernel half *)
(* of the system's, with one free slot used to map physical memory; below  *)
(* it the tables are the guest's own.  Physical memory is a function from  *)
(* frames to the tables they hold; page addresses are numbers, four        *)
(* indices in base Fanout.                                                 *)
(***************************************************************************)
EXTENDS Integers, SequencesExt

CONSTANTS
  Fanout,    (* entries of a table: 512 *)
  Half,      (* the first kernel slot of a PML4: 256 *)
  MapTables, (* tables of large pages the map is made of: 64 *)
  Frames     (* physical pages *)

ASSUME HostTablesAssumption ==
  /\ Fanout \in Nat \ {0} /\ Half \in 1 .. Fanout - 1
  /\ MapTables \in 1 .. Fanout /\ Frames \in Nat

Index == 0 .. Fanout - 1
Entry == [present : BOOLEAN, to : Nat, large : BOOLEAN]
Null  == [present |-> FALSE, to |-> 0, large |-> FALSE]
Leads(f) == [present |-> TRUE, to |-> f, large |-> FALSE]
Large(f) == [present |-> TRUE, to |-> f, large |-> TRUE]
Empty == [i \in Index |-> Null]

(* The pages under an entry of a level, and a page's slot at it. *)
Span(level) ==
  CASE level = 1 -> Fanout * Fanout * Fanout
    [] level = 2 -> Fanout * Fanout
    [] level = 3 -> Fanout
    [] level = 4 -> 1
Slot(va, level) == (va \div Span(level)) % Fanout
KernelPages == Half * Span(1) .. Fanout * Span(1) - 1

-----------------------------------------------------------------------------
(* The entries a walk from the PML4 in frame root finds for a page; below  *)
(* an entry that is not present there is none.                             *)
Pml4e(mem, root, va) == mem[root][Slot(va, 1)]
Below(mem, e, va, level) == IF e.present THEN mem[e.to][Slot(va, level)] ELSE Null
Pdpte(mem, root, va) == Below(mem, Pml4e(mem, root, va), va, 2)
Pde(mem, root, va)   == Below(mem, Pdpte(mem, root, va), va, 3)
Pte(mem, root, va)   == Below(mem, Pde(mem, root, va), va, 4)

NoPa == -1

(* ALhvMMgetPA(add, cr3). *)
GetPA(mem, root, va) ==
  LET pde == Pde(mem, root, va)
      pte == Pte(mem, root, va)
  IN IF ~pde.present THEN NoPa
     ELSE IF pde.large THEN pde.to * Fanout + Slot(va, 4)
     ELSE IF pte.present THEN pte.to ELSE NoPa

(* ALhvMMset*: the entry at a level is stored in the table the walk finds, *)
(* whoever else uses that table.                                           *)
SetEntry(mem, root, va, level, e) ==
  LET in == CASE level = 1 -> root
              [] level = 2 -> Pml4e(mem, root, va).to
              [] level = 3 -> Pdpte(mem, root, va).to
  IN [mem EXCEPT ![in][Slot(va, level)] = e]

-----------------------------------------------------------------------------
FreeSlots(mem, root) == {z \in Half .. Fanout - 1 : mem[root][z] = Null}
FirstFree(mem, root) ==
  CHOOSE z \in FreeSlots(mem, root) : \A s \in FreeSlots(mem, root) : z <= s

(* Variant: each table of the map starts where the first one does. *)
MapAllRepeats(mem, root, pool) ==
  [f \in DOMAIN mem |->
        CASE f = root -> [mem[root] EXCEPT ![FirstFree(mem, root)] = Leads(pool)]
          [] f = pool -> [i \in Index |-> IF i < MapTables THEN Leads(pool + 1 + i) ELSE Null]
          [] f \in pool + 1 .. pool + MapTables -> [j \in Index |-> Large(j)]
          [] OTHER -> mem[f]]

(* ALhvMMsetAllPA: the first free kernel slot gets a PDPT, allocated at    *)
(* frame pool, of MapTables tables that map memory in large pages.         *)
MapAll(mem, root, pool) ==
  [f \in DOMAIN mem |->
        CASE f = root -> [mem[root] EXCEPT ![FirstFree(mem, root)] = Leads(pool)]
          [] f = pool -> [i \in Index |-> IF i < MapTables THEN Leads(pool + 1 + i) ELSE Null]
          [] f \in pool + 1 .. pool + MapTables ->
               [j \in Index |-> Large((f - pool - 1) * Fanout + j)]
          [] OTHER -> mem[f]]

(* ALhvMMgetVA in the host. *)
MapVa(z, pa) == z * Span(1) + pa

(* The frames the map reaches. *)
Mapped == {f \in 0 .. Frames - 1 : f < MapTables * Span(2)}

(* Variant: the copy ends one entry early. *)
TakeButLast(mem, system, host) ==
  [mem EXCEPT ![host] = [i \in Index |-> IF i \in Half .. Fanout - 2 THEN mem[system][i] ELSE Null]]

(* ALhvMMprepare_fake_page_tables: the kernel half of the system's PML4.   *)
TakeKernelHalf(mem, system, host) ==
  [mem EXCEPT ![host] = [i \in Index |-> IF i < Half THEN Null ELSE mem[system][i]]]

-----------------------------------------------------------------------------
(* ALhvMMrebuildPath for one page: each level still shared with old is     *)
(* copied, first; then the copies are linked, lowest first, each through   *)
(* the path as it is at that moment.  An address not mapped ends the call. *)
RebuildPage(s, old, new, va) ==
  LET e1 == Pml4e(s.mem, new, va)   o1 == Pml4e(s.mem, old, va)
      e2 == Pdpte(s.mem, new, va)   o2 == Pdpte(s.mem, old, va)
      e3 == Pde(s.mem, new, va)     o3 == Pde(s.mem, old, va)
      copy3 == ~e3.large /\ e3.to = o3.to
      copies == << e1.to = o1.to, e2.to = o2.to, copy3 >>
      source == << e1.to, e2.to, o3.to >>
      frame(l) == s.pool + Cardinality({k \in 1 .. l - 1 : copies[k]})
      copied == [f \in DOMAIN s.mem |->
                   IF \E l \in 1 .. 3 : copies[l] /\ frame(l) = f
                   THEN s.mem[source[CHOOSE l \in 1 .. 3 : copies[l] /\ frame(l) = f]]
                   ELSE s.mem[f]]
      linked3 == IF copy3 THEN SetEntry(copied, new, va, 3, Leads(frame(3))) ELSE copied
      linked2 == IF copies[2] THEN SetEntry(linked3, new, va, 2, Leads(frame(2))) ELSE linked3
      linked1 == IF copies[1] THEN SetEntry(linked2, new, va, 1, Leads(frame(1))) ELSE linked2
      valid == e1.present /\ o1.present /\ e2.present /\ o2.present
               /\ e3.present /\ o3.present /\ (~e3.large => ~o3.large)
               /\ (copy3 => Pte(s.mem, old, va).present)
  IN IF ~s.ok \/ ~valid THEN [s EXCEPT !.ok = FALSE]
     ELSE [mem |-> linked1, pool |-> frame(4), ok |-> TRUE]

(* Variant: the loop runs to the end of the range. *)
RangeToEnd(vadd, size) == [k \in 1 .. size |-> vadd + k - 1]

(* The pages that loop of ALhvMMrebuildPath(.., vadd, size) goes over: it  *)
(* compares an address with the size of the range.                         *)
RangePages(vadd, size) ==
  [k \in 1 .. (IF vadd < size THEN size - vadd ELSE 0) |-> vadd + k - 1]

RebuildRange(s, old, new, vadd, size) ==
  FoldLeft(LAMBDA t, va : RebuildPage(t, old, new, va), s, RangePages(vadd, size))
=============================================================================

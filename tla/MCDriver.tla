------------------------------- MODULE MCDriver -------------------------------
(* Two processors with APIC ids 0 and 2; memory of 20 pages, all of it in the   *)
(* host's map; tables of four entries, the upper three slots of a PML4 being    *)
(* the kernel's.  Frames 0 to 3 hold the tables of the guest.                   *)
EXTENDS Driver

MCApicOf == [c \in Cores |-> 2 * c]

Table(entries) == [i \in Index |-> IF i \in DOMAIN entries THEN entries[i] ELSE Null]

GuestTables(pml4) ==
  [f \in Pages |-> CASE f = 0 -> Table(pml4)
                     [] f = 1 -> Table(0 :> Leads(2))
                     [] f = 2 -> Table(0 :> Leads(3) @@ 1 :> Large(1))
                     [] f = 3 -> Table(0 :> Leads(3) @@ 1 :> Leads(0))
                     [] OTHER -> Empty]

(* The kernel's slot and a self-map beyond the free one, or with no slot free. *)
MCGuestMems ==
  {GuestTables(1 :> Leads(1) @@ 3 :> Leads(0)),
   GuestTables(1 :> Leads(1) @@ 2 :> Leads(0) @@ 3 :> Leads(2))}

VarRange(base, size, type) == [valid |-> TRUE, base |-> base, size |-> size, type |-> type]
Off == [valid |-> FALSE, base |-> 0, size |-> 1, type |-> UC]
Mtrr(default, r0, r1) ==
  [enabled |-> TRUE, default |-> default, fixed |-> 1, var |-> (0 :> r0 @@ 1 :> r1)]

(* Ranges inside, across and over the regions that large entries cover. *)
MCMtrrs ==
  {Mtrr(WB, VarRange(6, 2, UC), Off), Mtrr(UC, VarRange(0, 8, WB), VarRange(5, 1, WT)),
   Mtrr(WB, VarRange(6, 2, UC), VarRange(5, 1, WT))}
=============================================================================

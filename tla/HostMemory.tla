------------------------------ MODULE HostMemory ------------------------------
(***************************************************************************)
(* The memory the driver sets up while it starts and relies on afterwards: *)
(* the host's page tables, the memory types it gives the EPT from the      *)
(* MTRRs as they were, and the MSR bitmap that is to tell it when a guest  *)
(* changes them.  The guest goes on changing its own tables and MTRRs.     *)
(***************************************************************************)
EXTENDS HostTables, MemoryTypes

CONSTANTS
  System,      (* frame of the system's PML4 *)
  GuestMems,   (* the contents of memory the driver may find *)
  GuestFrames, (* frames the guest uses *)
  Pool,        (* first frame of the hypervisor's pool *)
  DriverVa, DriverSize, PoolSize,
               (* what is to be mapped privately, in pages *)
  VarCount,    (* variable-range MTRRs *)
  MtrrChoices, (* what a guest sets its MTRRs to *)
  RegionSize,  (* pages under a large EPT entry *)
  MaxChanges   (* bound on the guest's changes to tables and MTRRs *)

Pages == 0 .. Frames - 1
Vars  == 0 .. VarCount - 1
NoFrame == -1

ASSUME HostMemoryAssumption ==
  /\ System \in GuestFrames /\ GuestFrames \subseteq Pages
  /\ Pool \in Pages /\ \A f \in GuestFrames : f < Pool
  /\ Pool + 2 + MapTables \in Pages   (* the pool holds what is always built *)
  /\ GuestMems \subseteq [Pages -> [Index -> Entry]]
  /\ DriverVa \in KernelPages
  /\ DriverSize \in 0 .. Half * Span(1) /\ PoolSize \in 0 .. Half * Span(1)
  /\ MtrrChoices \subseteq Mtrrs(Vars)
  /\ RegionSize \in Nat \ {0} /\ VarCount \in Nat /\ MaxChanges \in Nat

VARIABLES
  mem,      (* physical memory, as tables *)
  host,     (* frame of the host's PML4 *)
  map,      (* the slot of hvMMpMemBase *)
  taken,    (* history: the slots the host's PML4 was given *)
  mtrr,     (* the MTRRs *)
  mtrrs,    (* as ALhvMMgetMemoryType read them at its first call *)
  eptMade,  (* const_ept is made *)
  eptType,  (* the memory type of each page under the EPT *)
  trapped,  (* MSRs whose write exits *)
  missed,   (* history: a core's MTRR write did not exit *)
  killed,   (* the processors stopped by ALhvKill *)
  changes   (* what the guest changed so far *)

tableVars == << mem, host, map, taken >>
typeVars  == << mtrr, mtrrs, eptMade, eptType, trapped, missed, killed >>
hostVars  == << tableVars, typeVars, changes >>

HostInit ==
  /\ mem \in GuestMems /\ host = NoFrame /\ map = NoFrame /\ taken = {}
  /\ mtrr \in MtrrChoices /\ mtrrs = mtrr /\ eptMade = FALSE
  /\ eptType = [p \in Pages |-> UC]
  /\ trapped = {} /\ missed = FALSE /\ killed = {} /\ changes = 0

-----------------------------------------------------------------------------
(* The PML4 and the map of memory, unless no slot is free. *)
Tables ==
  LET copied == TakeKernelHalf(mem, System, Pool)
  IN IF FreeSlots(copied, Pool) = {}
     THEN [mem |-> copied, pool |-> Pool + 1, ok |-> FALSE]
     ELSE [mem |-> MapAll(copied, Pool, Pool + 1),
           pool |-> Pool + 2 + MapTables, ok |-> TRUE]

(* hvMMpMemBase, as the slot it is in. *)
MapSlot == FirstFree(TakeKernelHalf(mem, System, Pool), Pool)

(* ALhvMMgetHostCr3: then the driver's image is rebuilt, and a range as    *)
(* long as the pool, at the map's base.                                    *)
Built ==
  LET image == RebuildRange(Tables, System, Pool, DriverVa, DriverSize)
  IN IF ~Tables.ok THEN Tables
     ELSE RebuildRange(image, System, Pool, MapVa(MapSlot, 0), PoolSize)

BuildHost ==
  /\ mem' = Built.mem
  /\ IF Built.ok
     THEN /\ host' = Pool /\ map' = MapSlot
          /\ taken' = {s \in Half .. Fanout - 1 : mem[System][s].present}
     ELSE UNCHANGED << host, map, taken >>
  /\ UNCHANGED << typeVars, changes >>

(* enable_mtrr_exiting on a cleared bitmap. *)
BuildBitmap ==
  /\ trapped' = FoldLeft(EnableWriteExit, {}, Enabled(VarCount))
  /\ UNCHANGED << tableVars, mtrr, mtrrs, eptMade, eptType, missed, killed, changes >>

Region(p) == (p \div RegionSize) * RegionSize

(* ALvmxEPTnewTable: the first region in small pages, the rest in large    *)
(* ones.  The MTRRs are read at the first call, once.                      *)
BuildEpt ==
  /\ mtrrs' = mtrr /\ eptMade' = TRUE
  /\ eptType' = [p \in Pages |-> IF Region(p) = 0 THEN PageType(mtrr, p)
                                 ELSE RangeType(mtrr, Region(p), RegionSize)]
  /\ UNCHANGED << tableVars, mtrr, trapped, missed, killed, changes >>

(* ALvmxEPTbuildPDE, when set_pte first touches a region. *)
Split(p) ==
  /\ eptType' = [q \in Pages |-> IF Region(q) = Region(p) THEN PageType(mtrrs, q)
                                 ELSE eptType[q]]
  /\ UNCHANGED << tableVars, mtrr, mtrrs, eptMade, trapped, missed, killed, changes >>

-----------------------------------------------------------------------------
Change == changes < MaxChanges /\ changes' = changes + 1

(* The guest stores into one of its tables: an entry gone, or leading to   *)
(* a frame of its own.                                                     *)
GuestMaps ==
  /\ Change
  /\ \E f \in GuestFrames, g \in GuestFrames, i \in Index :
       /\ f = System => mem[f][i] = Null
       /\ mem[f] # Empty
       /\ mem' = [mem EXCEPT ![f][i] = Leads(g)]
  /\ UNCHANGED << host, map, taken, typeVars >>

MtrrMsrs == ToSet(Enabled(VarCount))

(* What a write of an MSR may turn the MTRRs into. *)
MtrrAfter(msr) ==
  {m \in MtrrChoices :
     \/ msr = DefType /\ m.var = mtrr.var
     \/ msr \in ToSet(FixedMsrs) /\ m = mtrr
     \/ \E i \in Vars : /\ msr \in {PhysBase(i), PhysMask(i)}
                        /\ m = [mtrr EXCEPT !.var[i] = m.var[i]]}

(* A write that does not exit: the core is not launched yet, or the bitmap *)
(* does not have it.                                                       *)
WriteMtrr(msr, launched) ==
  /\ Change
  /\ launched => msr \notin trapped
  /\ mtrr' \in MtrrAfter(msr)
  /\ missed' = (missed \/ launched)
  /\ UNCHANGED << tableVars, mtrrs, eptMade, eptType, trapped, killed >>

(* vmx_handler_msr_write: the write is made; with caching on the machine   *)
(* is stopped, else INVEPT is all.                                         *)
HandleMtrrWrite(msr, c) ==
  /\ Change /\ msr \in trapped
  /\ mtrr' \in MtrrAfter(msr)
  /\ killed' \in {killed, killed \cup {c}}
  /\ UNCHANGED << tableVars, mtrrs, eptMade, eptType, trapped, missed >>

-----------------------------------------------------------------------------
(* The variables hold what the program's variables can hold. *)
HostTypeOK ==
  /\ mem \in [Pages -> [Index -> Entry]]
  /\ host \in {NoFrame, Pool} /\ map \in {NoFrame} \cup (Half .. Fanout - 1)
  /\ taken \subseteq Half .. Fanout - 1
  /\ mtrr \in MtrrChoices /\ mtrrs \in MtrrChoices /\ eptMade \in BOOLEAN
  /\ eptType \in [Pages -> MtrrTypes]
  /\ trapped \subseteq MtrrMsrs /\ missed \in BOOLEAN
  /\ killed \subseteq Nat /\ changes \in 0 .. MaxChanges

(* Every frame the map reaches is found at its place in the map, whatever  *)
(* else the host's PML4 took over: all access to physical memory in the    *)
(* host goes through it (hvmem.cpp:219).                                   *)
PhysReachable ==
  host # NoFrame => \A f \in Mapped : GetPA(mem, host, MapVa(map, f)) = f

(* A kernel page that lay in a slot the host took over is at every moment  *)
(* where the guest's own tables have it: tables are shared, so what the    *)
(* guest changes the host sees.                                            *)
HostFollowsGuest ==
  host # NoFrame => \A va \in KernelPages :
    Slot(va, 1) \in taken => GetPA(mem, host, va) = GetPA(mem, System, va)

(* No page is cached under the EPT more strongly than the MTRRs had it     *)
(* when they were read, whichever of them cover the pages of a large entry *)
(* and whenever it is split.                                               *)
EptTypesSafe ==
  eptMade => \A p \in Pages : eptType[p] <= PageType(mtrrs, p)

(* Setting up the host never stores into a table of the guest, though the  *)
(* host's tables lead into them (only the guest's own stores change them).  *)
GuestTablesUntouched ==
  [][changes' = changes => \A f \in GuestFrames : mem'[f] = mem[f]]_hostVars

(* Every write of an MTRR by a guest comes to the handler, which must see  *)
(* to the EPT's memory types then.                                         *)
MtrrWritesExit == ~missed
=============================================================================

# LMalz: models and proofs

LMalz is a Windows kernel driver that puts the running system under a thin
Intel VT-x hypervisor, marks the pages of a chosen module as *targets*, and
reports every time execution enters or leaves them.  This directory models the
parts of the driver (`src/LMalz_Driver/src`, written below without that
prefix) whose correctness depends on interleaving, ordering or limits; TLC
checks them on small instances, TLAPS proves the main results for every value
of the constants.  `PROJECT.json` maps definitions to source lines.

## 1. The system

| part | code | state | operations |
|---|---|---|---|
| shared buffer | `Buffer.*`, `send.cpp`, `main.cpp` (`put_func`) | 2 MB of blocks, each `valid`, `prepare`, `Length`, `size` and data; `existing`; `g_pk_id` | `PrepareData`, `SendData`, `ReadData` |
| memory pool | `orhv/hvmem.cpp` 20-102 | two ends of a 10 MB block | `ALhvMMinitPool`, `ALhvMMallocateMemory` |
| EPT tables | `orhv/vmx/ept.*` | `const_ept`, the vice view, the target view | constructors, `set_pte` |
| execution monitor | `orhv/vmx/mods/vmx_monitor.*` | the view in each VMCS; each core's cached translations | violation handler, `ALvmxMNTsetTarget`, INVEPT by VMCALL |
| handler lists | `orhv/handler_class.h`, `orhv/vmx/vmx_exitHandler.h` | slots and links per exit reason and for the host IDT | `add_handler`, `sub_handler`, `call_handlers`, `call_all` |
| NMIs and guarded accesses | `orhv/vmx/vmx_exitHandler.cpp`, `orhv/idt.cpp`, `orhv/idt_.asm` | `queuedNmis`, NMI window, `OR_EXCEPTION_INFO` per core | NMI exits, RDMSR/WRMSR/XSETBV exits, `safe_handler` |
| start-up | `main.cpp`, `orhv/orhv.cpp`, `orhv/vmx/vmx.cpp`, `orhv/svm`, `vmxasm.asm` | the APIC map; a record (`ALvmxVCPU`) and a VMCS per core; `isRoot` | `ALhvStart`, `ALvmxInit`, `ALvmxStart`, `ALvmxCoreStart`, `ALvmxHostEnter`, `ALhvIsHost` |
| host page tables | rest of `orhv/hvmem.cpp` | the host's PML4, the map of physical memory | `ALhvMMgetHostCr3`, `ALhvMMrebuildPath`, `ALhvMMgetPA` |
| memory types | `hvmem.cpp` 938-1030, `orhv/vmx/ept.cpp`, MSR exits | the copy of the MTRRs, the EPT's types, the MSR bitmap | `ALhvMMgetMemoryType`, `enable_mtrr_exiting`, `vmx_handler_msr_write` |
| output, GDT, physical access, decoding | `errput.cpp`, `orhv/gdt.cpp`, `AccessPhysicalMemory`, `monitor_handlers.cpp` | none that others depend on | - |

How they meet: one thread starts everything.  It builds the host's tables, the
MSR bitmap and the EPT, then pins itself to each core in turn and launches it;
the cores launched first already exit and resume meanwhile.  The pool supplies
the pages of the tables.  An exit enters
`ALvmxExitHandler`, which walks the handler list of its reason.  For an EPT
violation the list holds the monitor's handler in front of the default one,
which stops the machine; the monitor reads the target view's tables, sends a
report through the shared buffer and changes the EPT pointer of its core.  A
system thread reads the buffer for ever.  The image-load callback marks
targets through `set_pte` while all cores run.  Exceptions and NMIs in host
mode arrive at the host IDT's own handler list.

What is hard about it: the buffer is lock-free and shared between exit
handlers on every core and the reader; processors walk the EPT tables while
they are rebuilt, and go on using what they cached of them; the handler lists
change while other cores walk them; NMIs arrive between any two host
instructions; start-up may fail at any step with some cores already launched;
guests go on changing page tables and MTRRs the host has copied; the pool and
the counters have limits.  `PROJECT.json` lists
each such hazard at its line, with the properties that would catch it.

## 2. Modules

| module | models | abstract specification |
|---|---|---|
| `ShaIO` (`MCShaIO`, `ShaIO_proofs`) | the shared buffer | `PacketChannel` |
| `HvPool` (`MCHvPool`, `HvPool_proofs`) | the memory pool | - |
| `EptTables` (`MCEptTables`, `EptTables_proofs`) | the EPT tables | `EptViews` |
| `Monitor` (`MCMonitor`, `Monitor_proofs`) | the execution monitor, on top of what `EptViews` promises | - |
| `HandlerList` (`MCHandlerList`, `HandlerList_proofs`) | one handler list and its dispatch | - |
| `NmiCore` (`MCNmiCore`, `NmiCore_proofs`) | one core's NMIs and guarded accesses | - |
| `Startup` (`Startup_proofs`) | start-up, exits as far as `isRoot` goes, `ALhvIsHost` | - |
| `MemoryTypes` | types of pages and ranges from the MTRRs; the MSR bitmap | - |
| `HostTables` | walks and stores of page tables, the copy, the map, the rebuilding | - |
| `HostMemory` | the state the last two act on, and what guests do to it | - |
| `Driver` (`MCDriver`, `Driver_proofs`: also the steps of `HostMemory`) | `Startup` and `HostMemory` composed | `Startup` |

Definitions commented `Variant:` are plausible mistakes.  No specification
uses them; each is there to show that a property notices it.

**ShaIO.**  Each read-modify-write and each store of `PrepareData`,
`SendData` and `ReadData` is one action; `pc` says which comes next, `at` is
the scan pointer `i`.  `mem[o]` is what the bytes at offset `o` say when read
as a header.  Filling a packet overwrites its region with `Images`, arbitrary
header-like contents, so that a thread at a stale offset reads data as a
header as the program would.  `status`, `start`, `got`, `len` are history.
Plain reads (of `size`) are made in the action that uses them.  The loads that
compute `i` for the next block are in `Skip` and `Advance`, apart from the
compare-and-swap before them.

**HvPool.**  The interlocked add and the later look at the other end are two
actions, `TakeBig`/`TakeSmall` and `Return`/`Kill`.  A core that is killed
stops; the others may run a while longer.

**EptTables.**  A four-level table with `Fanout` entries instead of 512.  A
table not linked yet is filled in the action that allocates it; each store into
a linked one is an action.  `Walk` is what the processor computes from the
tables.  Memory types are left out.  `req` is the call under way; there is one
caller, because Windows serialises image-load callbacks.

**Monitor.**  `exec[v]` is the set of pages that view `v` executes, changed in
one step by a call of `set_pte`: that is what `EptTables` is shown to
implement.  `tlb` is the permission a core has cached per view and page; a core
may drop any entry at any time, must drop the faulting one at a violation, and
drops all at INVEPT.  The handler checks the target view's *tables*, not what is
cached.

**HandlerList.**  Adding in front is three stores (slot, link, start), at the
end two, removing two.  A walk's read of the function and of the next link are
two actions.  Loops over slots that race with nobody are one step.  A function
may be added again while it is on the list; `added` holds it until a copy is
removed and none is left.

**NmiCore.**  `mode` is the place in the exit; an NMI may arrive in each.  The
leaf functions `ALhvIDT..._asm` are a mode of their own, because what
`safe_handler` does with an NMI depends on whether the top of the stack is
their return address.  `access` is the kind of access; `Decide` injects the
vector noted for RDMSR and WRMSR and #GP for XSETBV, and only WRMSR may stop the
machine for an MTRR.  `cause` and `given` record what hit the access and what
the guest was given for it.

**Startup.**  `boot` is where the loading thread is, one value per call that may
fail; a call is an `InitOk` or an `InitFails`, so every early return of
`ALhvInitialization`, `ALvmxInit`, `ALvmxStart` and `ALvmxCoreStart` is an
action.  The thread takes a step only while its core is not in the host.
`ALhvGetContext` returns twice, before the launch with `rax = 0` and in the
guest with 1, as the code uses it.  `record[c]` is the record that core `c`'s
VMCS has as host stack.  `ALhvIsHost` is two reads (`AskIndex`, `AskRoot`) of a
thread that may be moved between them; an exit handler's own question
(`IsHost`) cannot be interrupted so.  On a processor it does not know
`ALhvStart` reports an error and returns 1 (`orhv.cpp:165`): so does the model.

**HostTables, MemoryTypes.**  Operators only.  Memory is a function from frames
to tables with `Fanout` entries; a page address is four digits in that base.
`RebuildPage` copies what is still shared and then stores through the path as
it is at that moment, each store into whatever table the walk finds.
`RangePages` compares an address with a size as the code does.  A variable MTRR
range is `base` and `size`; the type is a number, smaller being weaker, and the
smallest wins.  `EnableWriteExit` assigns the bitmap's byte.

**HostMemory, Driver.**  Each of `BuildHost`, `BuildBitmap`, `BuildEpt` is one
call of start-up, made while nothing else uses what it builds; `Driver` joins it
to the step of `Startup` that makes the call and lets every other step of
`Startup` leave memory alone.  Guests store into their tables, write MTRRs with
an exit or without, and splits of large EPT pages come at any time after the
callback is registered.  Of the guest's tables anything may change but a
kernel entry of the system's PML4 that is present: Windows fills free ones and
never takes one back while it runs.  `ALhvKill` stops the core in its handler.

## 3. What is checked

| run | instance | shows |
|---|---|---|
| `sha_uniform` | 2 senders, 1 reader, 3 packets of one size, 8 units, fair | handlers see exactly sent packets, no lost wake-up, refinement of `PacketChannel`, every packet sent is handled |
| `sha_serial` | 2 senders, 1 reader, 4 packets of sizes 1 and 4, calls serialised, fair | the blocks tile the area after each store; nothing but a too small last block is lost; refinement; blocks of sent packets frozen; `PrepareData` returns |
| `pool` | 3 cores, 2 requests each, pool of 20, page of 4 | disjoint, aligned, no needless stop |
| `ept` | fanout 2 (8 pages), 16 tables, 3 calls, fair | refinement of `EptViews`, `const_ept` untouched, no sharing, `set_pte` returns |
| `monitor` | 2 cores, 2 pages, 2 calls, fair | no unhandled violation, sound reports, every violation resolved |
| `handlers` | 1 walker, 3 handlers in 3 slots, 5 calls, fair | no handler missed, links agree with slots, dispatch ends |
| `nmi` | 4 NMIs, 3 accesses, fair | NMIs accounted for, the exception given is the one that hit the access, queue drains |
| `start` | 2 cores, any maker, any step failing; 20 pages, tables of 4; 2 guest memories, 3 MTRR settings, 1 change by the guest | a failure is confined, the host knows itself, its tables reach memory, follow the guest's and never store into them, the EPT's types are safe |

Four runs show where the code does not do what its comments say:

| run | what happens |
|---|---|
| `sha_stale` | With sizes that differ, a sender joins a block under a reader's scan pointer; the scan reads packet data as a header and hands out something nobody sent.  The driver's packets do differ in size (enter 24 bytes, exit 32). |
| `sha_wrap` | `existing` is not the number of packets present but of those ever sent less the passes made, and a SHORT: after 32769 more sends than passes it is negative and the reader stops looking. |
| `monitor_stale` | INVEPT runs on one core: others go on executing a marked page, unreported, from their caches. |
| `start_msr` | The bitmap's byte is assigned, so of eight neighbouring MSRs only the one enabled last exits (`vmx.inl:290`): guests change most MTRRs unseen. |

The type invariants of `EptTables`, `HandlerList` and `ShaIO` are the first
conjunct of `OwnTables`, `ListMatchesSlots` and `NoLostWakeup`; that of
`Driver` joins those of its two parts.

Six smaller disagreements are in the models without a run of their own.
`PrepareData` leaves `prepare` set on a last block that is too small
(`Buffer.cpp:98`): that memory is lost, and `OnlyTailLeaks` shows that nothing
else is.  `ALhvIsHost` may tell a thread of the guest that it is the host if the
thread is moved between reading its APIC id and reading `isRoot`;
`HostAnswerNeedsMove` shows that this is the only way.  The loop that rebuilds
paths for a range never runs, the address being above the size
(`hvmem.cpp:486`), so nothing is mapped privately although the comment at
`hvmem.cpp:780` says so; were it to run, it would store its links into tables
still shared with the guest.  The two mistakes cancel, and
`GuestTablesUntouched` holds because of the first (the mutant of that property
mends the loop alone).  With caching off a guest's MTRR write leaves both the
EPT's types and the copy of the MTRRs as they were (`vmx_exitHandler.cpp:260`);
`EptTypesSafe` is therefore about the MTRRs as they were read.  The handler of
XSETBV injects #GP(0) for any exception noted (`vmx_exitHandler.cpp:215-220`),
with a comment that doubts that another could occur; an NMI that hits the host
in `ALhvIDTxsetbv_asm` is noted too (`idt.cpp:253`), and the guest gets a #GP
that nothing raised.  `ExceptionPassedOn` shows that this is the only case in
which the exception given is not the one that hit the access.  And the comment
at `vmx_exitHandler.cpp:60` speaks of a host NMI that was queued while the
window was being closed: no NMI of the host is ever queued.  It stops the
machine or is taken for the exception of a guarded access (`HostNmi`,
`NmisAccounted`), so the second test of `queuedNmis` never finds more than the
first.

**Why these bounds.** *Buffer:* two senders race for one block and its
neighbour; a third would only see what the second sees. Eight units hold two
blocks of three and a rest too small to use, so a scan passes a taken block,
fails at the end, and a block is used again; with sizes 1 and 4 both splitting
and joining happen, with and without a rest. In the passing runs no more
packets are sent than a SHORT counts to, so they say nothing of the wrap that
`sha_wrap` shows (its SHORT counts to 3, as many packets as its buffer holds).
*Pool:* six requests of 1, 3, 4 and 5 bytes cross the ends from either side
with a third core between. *EPT:* with two entries a table has a changed and an
unchanged neighbour at each level; three calls cover a first copy, a page in
the same small table, and one elsewhere, on both views. *Monitor:* a target and
a non-target page, a core that marks and one that does not know; the invariants
are proved for any number. *Handlers:* three slots allow the removal of the
first, middle and last and the reuse of a slot; walkers do not disturb each
other, so one suffices. *NMI:* queue lengths 0, 1 and more, NMIs of the guest
and of the host, and accesses of each kind one after the other in one run.
*Start-up:* with two cores a failure has a core before it and one after it, and
a thread has somewhere to be moved; APIC ids 0 and 2 differ from core numbers.
Tables of four entries have a kernel half of three slots: one taken, one free
and the self-map, or none free, which makes `ALhvMMsetAllPA` fail.  Two tables
of large pages show an index error in either; the map covers all 20 pages.  The
three MTRR settings have ranges inside, across and larger than the region of a
large entry, and the run starts from each.  One change by the guest suffices
for each invariant to see a stale copy; the proofs allow any number.

In `sha_serial` the callers wait for each other, so a second reader would add
nothing; `PrepareReturns` is there about the restarts of a call by itself, not
about others that split and free blocks meanwhile (with blocks of one size, as
in `sha_uniform`, nothing is joined and no call restarts).

Deadlock is checked in the runs of the buffer, whose reader never stops, and of
the monitor, whose cores always go on.  It is not in `pool`, `ept`, `handlers`,
`nmi` and `start`: once their requests or calls are used up, or the machine or
a core is stopped, the system may come to rest.

**Where the runs' conditions come from.**  `sha_uniform` uses one
size; then no block is ever joined and the defect of `sha_stale` cannot
happen.  `sha_serial` (`Serial = TRUE`) uses several sizes but lets only one
thread at a time be inside a call, as if callers took a lock; the code has
none.  Together they say that the stale scan pointer is what breaks the buffer, and
that its arithmetic and its claims are right.  The counterpart without either
condition is `sha_stale`.  `start` assumes that APIC ids differ in the byte CPUID
shows (`StartAssumption`); with more than 256 of them, as x2APIC allows, two
cores would share an entry of the map (`orhv.cpp:185`).  `handlers` sets `EndAfterSub = FALSE`: the driver
never adds at the end after a removal; with `TRUE` TLC finds a list that leads
back into itself (the slot keeps its old link, `handler_class.h:79`).

**Fairness.**  Weak fairness of a thread's steps inside a call: an exit
handler cannot be descheduled by the guest, `set_pte` has no waiting in it, and
`put_func` is `while (true)`.  No fairness is given to calls being made, NMIs
arriving, pages being marked, or a core dropping what it cached.  In `Monitor` a
core's own next step is fair (it executes, faults or finishes its exit); in
`NmiCore` the processor exits when the NMI window is open and the guest's NMI
handler returns.  `sha_uniform` has the one reader the driver starts: two pollers
can keep `existing` below zero for each other for ever.  `start` states no
fairness, its properties being safety.

## 4. What is proved

For every value of the constants, from the named assumptions only.

`HvPool_proofs`, from `PoolAssumption` (natural numbers, requests positive):
`TypeOK`, `GrantsDisjoint`, `PagesAligned`, `KilledOnlyWhenExhausted`.
Disjointness is not inductive: it is the pair of a claim made earlier and a
check made later.  The invariant adds that every claim and every grant lies
behind the end it moved (`ClaimsBehind`, `GrantedBelow`), that two claims or
grants from the same end are apart (`SameKindApart`), and that a grant reached
the other end when it was checked, ends only ever moving towards each other:
that separates a big from a small one.  For alignment it adds that the lower end
has always moved by whole pages (`AllWhole`).

`EptTables_proofs`, from `EptAssumption` (tables have at least one entry, the
three views are different): `OwnTables`, `ConstFrozen` and the refinement
`ImplementsViews`.  The invariant `IInv` is that the tables have a *shape*: each
table can be given a level, a view it belongs to and the slots that lead to it,
so that every entry agrees (`EntryOk`).  An entry leads to `const_ept`'s table
of the next slot or to one of its own view; where it leads to one of its own it
has all rights (what makes the rights of the last level the rights of a walk);
no entry takes reading or writing away; and what a page maps to is its own
number, written in base `Fanout` (`Slots`).  The shape is what `need_remap`
cannot see: it compares one address per level with `const_ept`'s and must
conclude that the whole path is the view's own (`RemappedStep`).  While a copy
waits to be linked, `Linking` says that it differs from the table it stands for
only in the rights pushed down, and that is why linking does not show.  A store
is seen by the walks that come through it and by no other (`Stores`).

`Monitor_proofs`, from `MonitorAssumption`: `TypeOK`, `NeverKilled`,
`OnlyTargetsUnderTarget`, `ReportsMatchView`, `CallersCoreMonitored`.  The
invariant's heart is `CacheSound`: of what a core may have cached, "does not
execute" on the vice view and "executes" on the target view are still true,
because marking only adds to the target view and only takes from the vice
view.  With `SomeViewRuns` (the order of the two stores: each page executes in
at least one view at every moment) a violation on the vice view therefore
always finds the page executable in the target view's tables.  `ToldForgotten`
carries the effect of INVEPT on the caller's core: nothing marked before it is
ever cached as executable there again.

`NmiCore_proofs`, from `NmiAssumption`: `TypeOK`, `NmisAccounted`,
`ExceptionPassedOn`.  The invariant adds `WindowMeansQueued` (the window is open
only with an NMI queued, so the exit it causes never counts below zero) and
`NotesFollow` (what each mode of an access implies for the note, and that
between accesses what the guest was given goes with what hit the last one).

`Startup_proofs`, from `StartAssumption`: `StartTypeOK`, `StartedMeansAll`,
`FailureConfined`, `HostKnown`, `HostAnswerNeedsMove`.  `StartInv` says for each
stretch of the loading thread what the cores before, at and after `index` are
doing (`BeforeInv`, `LoopInv`, `CoreInv`), that the APIC map is complete before
any core is launched, and that a launched core's record is its own
(`RecordInv`): two loops, each pinned on its own, agree on the numbering.

`Driver_proofs`, from `HostTablesAssumption` and `HostMemoryAssumption` (the
pool has room for what is always built; the driver's image and the pool are no
longer than the address of the first kernel page): `RangeTypeSafe` and
`RangeLoopIdle` about the operators, and that each step of `HostMemory` keeps
`HostInv`.  Its parts are `TakenKept` (the slots taken over still equal the
guest's: a PML4 entry the guest has never changes, all below it is shared),
`MapKept` (the map's tables lie in the pool, where no guest stores) and
`TypesKept`.  `Built = Tables` (`BuiltIs`) follows from the idle loop.

Then `DriverImplementsStartup` (every step of `Driver` is one of
`Startup` or a stutter), hence everything proved of `Startup` holds of the
driver (`DriverStarts`); `PhysReachable`, `HostFollowsGuest`, `EptTypesSafe` and
`GuestTablesUntouched` from `HostInv` and the fact that the host's tables are
not there before the step that builds them (`EarlyInv`).  The bitmap is a fold
over the MSRs enabled; `OnlyLastOfByteTrapped` says which bits it leaves, for any
list of MSRs: there is no least prefix of the list on which the fold and
`LastOfByte` differ.  From it `BasesNeverTrapped`: what `start_msr`
finds on one machine holds with any number of variable ranges, for the base of
each.  `DriverTyped` is `TypeOK` for both parts.

`HandlerList_proofs`, from `ListAssumption` and for `EndAfterSub = FALSE`, as
the driver uses the lists: `ListMatchesSlots`, `PassCallsAll`,
`KilledOnlyUnhandled`.  A walker may stand on a slot that was removed, even on
one in use again, so that "the rest of the list from here" is no longer a part
of the list.  `ListInv` therefore gives every slot a *position* (`Threaded`):
links lead to larger positions, and a removed slot keeps one from which its link
still reaches every listed slot behind it.  Adding in front takes a position
before all others, at the end one after them.  What a walker owes (`Owed`) is
then the handlers that stayed on the list, and each of them is at or ahead of its
position.  That the recursive `Chain` is the set of listed slots is shown by
least counterexample, and that it ends by counting positions.

`ShaIO_proofs`, from `ThreadsAssumption`, `SizesAssumption` and `Calm`: the
callers serialise their calls, or all packets have one size.  Without it
`sha_stale` is the counterexample; with it any number of threads, packets,
sizes and readers is allowed, and any packet contents.  `HandlerSeesPacket`,
`BlocksTile`, `OnlyTailLeaks`, `BlockFrozen`, the type invariant and the refinement
`ImplementsChannel`.  `ShaInv` says there is a set `B` of block offsets that tile
the area (`Tiled`); that each block has one user at most, the producer that
claimed it or joins it to its own, the packet in it, or the consumer about to
free it (`Alone`); that `prepare` and `valid` say so (`Marked`, `Valids`); that a
packet's data lies in a block and stays as it was left (`Granted`); and where
each thread may stand (`ProducerOK`, `ConsumerOK`): a scan pointer is always in
`B`.  A join takes an offset out of `B`: with one caller nobody stands on it
(`OneCaller`), with one size there is none, as every block but the last has that
size (`Even`).  `B` is what `Walk`, the scan as a recursive function, runs
through (by least counterexample).

`NoLostWakeup` follows from a stronger count (`WakeInv`): the packets *behind* every
pass under way, which no pass will meet, are no more than `existing` and the
increments owed to it.  A pass that starts has everything ahead of it; what falls
behind its pointer has been taken, and a packet sent behind it brings its own
increment.  `NoWakeupLostUnwrapped` states it for any number of packets in
behaviours where the SHORT does not wrap (`NoWrap`); `NoWakeupLost` shows that
it does not while no more packets are sent in all than it counts to
(`CounterSuffices`), because `existing` is never below what readers owe nor above
what was sent (`TokenInv`).  `sha_wrap` is the counterexample beyond.

Model-checked only: liveness (`EverySentIsDelivered`, `PrepareReturns`,
`SetPteReturns`, `ViolationResolved`, `DispatchEnds`, `QueueDrains`), which is
outside the prover's reach.

## 5. Not modelled

- The saving of registers and, of the VMCS, all values but the host's stack and
  the guest's `rax`.  With them the branch `exitVm` (`vmxasm.asm:194`), which a
  VMRESUME that fails falls into: it fails only for a VMCS the driver made
  invalid.
- Physical memory reached through Windows (`AccessPhysicalMemory`): sequential
  calls that leave no state, except a handle left open when mapping fails
  (`hvmem.cpp:724`).
- `ALhvMMrebuildAlllPath`, `accessMemoryFromPM` and the update argument of
  `ALhvMMgetMemoryType`: no caller.
- Pages of 1 GB, which `ALhvMMgetPA` does not look for (`hvmem.cpp:363`), and
  frames beyond the 64 GB the map spans: `PhysReachable` is about those within.
- The status of `PsCreateSystemThread`, which `main` ignores (`main.cpp:250`):
  without the reader nothing is read, and the driver goes on.
- What `main` does after `ALhvStart` returns 1 on an unknown processor: the
  monitor then asks for memory of a pool that was never made.
- Two callers in `set_pte` at once: Windows serialises image-load callbacks.
- The monitor's MTF handler and the decoding of instructions: nothing sets the
  monitor trap flag, and `ALmhdCallback` calls `mtf_handler` only with a null
  `vcpu` (`monitor_handlers.cpp:249`).
- `__invlpg(va)` in `ALvmxMNTsetTarget` (always the first address): it drops
  guest translations, which a core may drop at any time anyway.
- A report the buffer has no room for: the monitor ignores the result.
- Exits that only inject a fault or emulate CPUID; error texts and logging; the
  GDT; former source files.
- RawDiskIO, the user-mode test programs and the vendored libraries under
  `extern/`: no part of the driver.

## 6. Plan

Done, in this order: the buffer (the one channel everything reports through),
the pool, the tables, the monitor, the handler lists, NMIs; then start-up, the
host's page tables, memory types and their composition; proofs for the pool,
the EPT tables, the monitor, NMIs, start-up, the driver as a whole, the handler
lists and the buffer.  Next:

1. A composition of `Monitor` and `ShaIO`: whether reports of one core are read
   in the order they were sent.
2. The VMCS fields that decide which exits happen, and with them a VMRESUME that
   fails.
3. Weaker conditions than `Calm` under which the buffer is right.

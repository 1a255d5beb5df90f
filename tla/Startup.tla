------------------------------- MODULE Startup -------------------------------
(***************************************************************************)
(* Bringing the processors under the hypervisor, and telling host from     *)
(* guest afterwards (main.cpp, orhv.cpp, vmx.cpp, svm.cpp and their        *)
(* assembly).  One thread pins itself to each processor in turn; a core    *)
(* that gives up in the middle returns from where it is.  Once launched, a *)
(* core exits to the host and resumes at any time, and ALhvIsHost must     *)
(* tell the host from a thread of the guest: it looks the core's record up *)
(* by APIC id and reads its isRoot.                                        *)
(***************************************************************************)
EXTENDS Integers

CONSTANTS
  CoreCount,  (* ALhvGetCoreCount() *)
  MaxCores,   (* what a UINT8 of the APIC map is trusted with: 128 *)
  ApicOf,     (* the APIC id of each processor *)
  ApicSize,   (* CPUID shows a byte of it: 256 *)
  CpuTypes    (* the makers GetCPUtype may find *)

Cores   == 0 .. CoreCount - 1
NoCore  == -1
ApicIds == 0 .. ApicSize - 1

(* ALhvGetAPIC_id. *)
ApicId(c) == ApicOf[c] % ApicSize

ASSUME StartAssumption ==
  /\ CoreCount \in Nat \ {0} /\ MaxCores \in Nat /\ ApicSize \in Nat \ {0}
  /\ ApicOf \in [Cores -> Nat]
  /\ \A c, d \in Cores : ApicId(c) = ApicId(d) => c = d
  /\ CpuTypes \subseteq {"intel", "amd", "other"}

VARIABLES
  cpu,        (* gALhvData.cpu_type *)
  boot,       (* where the loading thread is *)
  index,      (* the i of its loops *)
  pin,        (* the processor it is pinned to *)
  rax,        (* what ALhvGetContext returns in it: 1 once in the guest *)
  success,
  result,     (* what ALhvStart returned *)
  notify,     (* the image-load callback is registered *)
  apicMap,    (* apid_to_coreIndex *)
  published,  (* gALvmxVCPU *)
  vmx,        (* what each processor is doing *)
  record,     (* the record each processor's VMCS has as host stack *)
  isRoot,     (* of each record *)
  ask         (* a thread of the guest inside ALhvIsHost; moved is history *)

bootVars == << cpu, index, pin, rax, success, result, notify >>
coreVars == << vmx, record, isRoot >>
startVars == << boot, bootVars, apicMap, published, coreVars, ask >>

VmxStates == {"off", "root", "guest", "entry", "host"}
InHost(c) == vmx[c] \in {"entry", "host"}
Launched(c) == vmx[c] \in {"guest", "entry", "host"}

StartInit ==
  /\ cpu \in CpuTypes /\ boot = "start"
  /\ index = 0 /\ pin = NoCore /\ rax = 0 /\ success = 0
  /\ result = "none" /\ notify = FALSE
  /\ apicMap = [a \in ApicIds |-> 0] /\ published = FALSE
  /\ vmx = [c \in Cores |-> "off"]
  /\ record = [c \in Cores |-> NoCore]
  /\ isRoot = [c \in Cores |-> 0]
  /\ ask = [pc |-> "idle", core |-> 0, idx |-> 0, host |-> FALSE, moved |-> FALSE]

-----------------------------------------------------------------------------
(***************************************************************************)
(* The loading thread.  It runs on the processor it is pinned to, while    *)
(* that is not in the host.                                                *)
(***************************************************************************)
At(here) == boot = here /\ (pin # NoCore => ~InHost(pin))

Returns(r) == boot' = "returned" /\ result' = r

(* A maker it does not know is reported, and still counts as started.      *)
StartHv ==
  /\ At("start")
  /\ IF cpu = "other" THEN Returns("true")
     ELSE IF CoreCount > MaxCores THEN Returns("false")
     ELSE boot' = "map" /\ UNCHANGED result
  /\ UNCHANGED << cpu, index, pin, rax, success, notify, apicMap, published,
                  coreVars, ask >>

(* The system may refuse to name a processor.                              *)
NumberRefused ==
  /\ At("map") /\ index < CoreCount
  /\ Returns("false")
  /\ UNCHANGED << cpu, index, pin, rax, success, notify, apicMap, published,
                  coreVars, ask >>

(* Variant: the APIC id is read on whichever processor the thread is. *)
MapUnpinned ==
  /\ At("map") /\ index < CoreCount
  /\ \E c \in Cores : apicMap' = [apicMap EXCEPT ![ApicId(c)] = index]
  /\ index' = index + 1
  /\ UNCHANGED << boot, cpu, pin, rax, success, result, notify, published,
                  coreVars, ask >>

(* Pinned to processor index, its APIC id read, and back.                  *)
MapApicId ==
  /\ At("map") /\ index < CoreCount
  /\ apicMap' = [apicMap EXCEPT ![ApicId(index)] = index]
  /\ index' = index + 1
  /\ UNCHANGED << boot, cpu, pin, rax, success, result, notify, published,
                  coreVars, ask >>

MapDone ==
  /\ At("map") /\ index = CoreCount
  /\ boot' = "pool"
  /\ UNCHANGED << bootVars, apicMap, published, coreVars, ask >>

InitSteps == {"pool", "cores", "system_cr3", "host_cr3", "host_idt", "host_gdt",
              "msr_bitmap", "ept", "exits"}

(* The rest of ALhvInitialization, then (Intel) ALvmxInit: any may fail.   *)
After ==
  [pool |-> "cores", cores |-> "system_cr3", system_cr3 |-> "host_cr3",
   host_cr3 |-> "host_idt", host_idt |-> "host_gdt",
   host_gdt |-> IF cpu = "intel" THEN "msr_bitmap" ELSE "loop",
   msr_bitmap |-> "ept", ept |-> "exits", exits |-> "publish"]

InitOk(s) ==
  /\ At(s) /\ boot' = After[s]
  /\ index' = 0
  /\ UNCHANGED << cpu, pin, rax, success, result, notify, apicMap, published,
                  coreVars, ask >>

InitFails(s) ==
  /\ At(s) /\ Returns("false")
  /\ UNCHANGED << cpu, index, pin, rax, success, notify, apicMap, published,
                  coreVars, ask >>

Publish ==
  /\ At("publish") /\ boot' = "loop" /\ published' = TRUE
  /\ UNCHANGED << bootVars, apicMap, coreVars, ask >>

(* Variant: the count of the cores that made it is not looked at. *)
FinishAny ==
  /\ At("loop")
  /\ Returns("true")
  /\ UNCHANGED << cpu, index, pin, rax, success, notify, apicMap, published,
                  coreVars, ask >>

(* The loop over the cores ends, or breaks off at a refused number.        *)
Finish ==
  /\ At("loop")
  /\ Returns(IF success = CoreCount THEN "true" ELSE "false")
  /\ UNCHANGED << cpu, index, pin, rax, success, notify, apicMap, published,
                  coreVars, ask >>

PinCore ==
  /\ At("loop") /\ index < CoreCount
  /\ pin' = index
  /\ boot' = IF cpu = "intel" THEN "support" ELSE "svm"
  /\ UNCHANGED << cpu, index, rax, success, result, notify, apicMap, published,
                  coreVars, ask >>

(* ALsvmCoreStart always fails; ALsvmStart goes on with the next core.     *)
SvmCore ==
  /\ At("svm") /\ boot' = "loop"
  /\ index' = index + 1 /\ pin' = NoCore
  /\ UNCHANGED << cpu, rax, success, result, notify, apicMap, published,
                  coreVars, ask >>

-----------------------------------------------------------------------------
(***************************************************************************)
(* ALvmxCoreStart.                                                         *)
(***************************************************************************)
CoreStep(from, to) ==
  At(from) /\ boot' = to /\ UNCHANGED << bootVars, apicMap, published, ask >>

(* Variant: the loop goes on with the next core. *)
CoreFailsGoesOn ==
  /\ \E s \in {"support", "alloc", "vmxon", "vmcs", "launch"} : At(s)
  /\ boot' = "loop" /\ index' = index + 1 /\ pin' = NoCore
  /\ UNCHANGED << cpu, rax, success, result, notify, apicMap, published,
                  coreVars, ask >>

(* A step that fails returns 0 and ALvmxStart with it: what the core has   *)
(* done so far stays, and the thread stays pinned.                         *)
CoreFails ==
  /\ \E s \in {"support", "alloc", "vmxon", "vmcs", "launch"} : At(s)
  /\ Returns("false")
  /\ UNCHANGED << cpu, index, pin, rax, success, notify, apicMap, published,
                  coreVars, ask >>

Supported == CoreStep("support", "context") /\ UNCHANGED coreVars

(* ALhvGetContext returns twice: the second time in the guest, with 1.     *)
Context ==
  /\ rax = 0
  /\ CoreStep("context", "alloc") /\ UNCHANGED coreVars

Alloc == CoreStep("alloc", "vmxon") /\ UNCHANGED coreVars

VmxOn ==
  /\ CoreStep("vmxon", "vmcs")
  /\ vmx' = [vmx EXCEPT ![pin] = "root"]
  /\ UNCHANGED << record, isRoot >>

(* VMCLEAR and VMPTRLD, then the fields: the host's stack is the record.   *)
LoadVmcs ==
  /\ CoreStep("vmcs", "launch")
  /\ record' = [record EXCEPT ![pin] = index]
  /\ UNCHANGED << vmx, isRoot >>

(* VMLAUNCH: the guest goes on where the context was taken, rax being 1.   *)
Launch ==
  /\ At("launch") /\ boot' = "context" /\ rax' = 1
  /\ vmx' = [vmx EXCEPT ![pin] = "guest"]
  /\ UNCHANGED << cpu, index, pin, success, result, notify, apicMap, published,
                  record, isRoot, ask >>

CoreDone ==
  /\ At("context") /\ rax = 1
  /\ boot' = "loop" /\ rax' = 0
  /\ success' = success + 1 /\ index' = index + 1 /\ pin' = NoCore
  /\ UNCHANGED << cpu, result, notify, apicMap, published, coreVars, ask >>

-----------------------------------------------------------------------------
(* The rest of main: ALmhdInit and ALvmxMNTinit may fail; that of the      *)
(* reader's thread goes unnoticed.                                         *)
MainEnds ==
  /\ At("returned") /\ boot' = "ended"
  /\ notify' \in IF result = "true" THEN BOOLEAN ELSE {FALSE}
  /\ UNCHANGED << cpu, index, pin, rax, success, result, apicMap, published,
                  coreVars, ask >>

BootStep ==
  \/ StartHv \/ NumberRefused \/ MapApicId \/ MapDone
  \/ \E s \in InitSteps : InitOk(s) \/ InitFails(s)
  \/ Publish \/ Finish \/ PinCore \/ SvmCore
  \/ CoreFails \/ Supported \/ Context \/ Alloc \/ VmxOn \/ LoadVmcs \/ Launch
  \/ CoreDone \/ MainEnds

-----------------------------------------------------------------------------
(***************************************************************************)
(* Exits.  ALvmxHostEnter marks the record it has as its stack, calls the  *)
(* handler, and unmarks it.                                                *)
(***************************************************************************)
Exit(c) ==
  /\ vmx[c] = "guest"
  /\ vmx' = [vmx EXCEPT ![c] = "entry"]
  /\ UNCHANGED << boot, bootVars, apicMap, published, record, isRoot, ask >>

EnterHost(c) ==
  /\ vmx[c] = "entry"
  /\ vmx' = [vmx EXCEPT ![c] = "host"]
  /\ isRoot' = [isRoot EXCEPT ![record[c]] = 1]
  /\ UNCHANGED << boot, bootVars, apicMap, published, record, ask >>

(* Variant: the record stays marked. *)
LeaveMarked(c) ==
  /\ vmx[c] = "host"
  /\ vmx' = [vmx EXCEPT ![c] = "guest"]
  /\ UNCHANGED << boot, bootVars, apicMap, published, record, isRoot, ask >>

LeaveHost(c) ==
  /\ vmx[c] = "host"
  /\ vmx' = [vmx EXCEPT ![c] = "guest"]
  /\ isRoot' = [isRoot EXCEPT ![record[c]] = @ - 1]
  /\ UNCHANGED << boot, bootVars, apicMap, published, record, ask >>

-----------------------------------------------------------------------------
(***************************************************************************)
(* ALhvIsHost, asked by a thread of the guest: the image-load callback     *)
(* does through ALhvMMgetPA.  No thread runs on a core that is in the host, *)
(* but one may be moved to another core between the two reads.             *)
(***************************************************************************)
Marked(i) == cpu = "intel" /\ published /\ isRoot[i] # 0

(* What an exit handler on core c is answered: it cannot be moved.         *)
IsHost(c) == Marked(apicMap[ApicId(c)])

MoveThread ==
  /\ \E c \in Cores \ {ask.core} :
       ask' = [ask EXCEPT !.core = c, !.moved = (ask.pc = "read"), !.host = FALSE]
  /\ UNCHANGED << boot, bootVars, apicMap, published, coreVars >>

AskIndex ==
  /\ notify /\ ask.pc = "idle" /\ ~InHost(ask.core)
  /\ ask' = [ask EXCEPT !.pc = "read", !.idx = apicMap[ApicId(ask.core)],
                          !.host = FALSE, !.moved = FALSE]
  /\ UNCHANGED << boot, bootVars, apicMap, published, coreVars >>

AskRoot ==
  /\ ask.pc = "read" /\ ~InHost(ask.core)
  /\ ask' = [ask EXCEPT !.pc = "idle", !.host = Marked(ask.idx)]
  /\ UNCHANGED << boot, bootVars, apicMap, published, coreVars >>

CoreNext == \E c \in Cores : Exit(c) \/ EnterHost(c) \/ LeaveHost(c)
AskNext  == MoveThread \/ AskIndex \/ AskRoot

StartNext == BootStep \/ CoreNext \/ AskNext

StartSpec == StartInit /\ [][StartNext]_startVars

-----------------------------------------------------------------------------
(* The variables hold what the program's variables can hold. *)
StartTypeOK ==
  /\ cpu \in CpuTypes
  /\ boot \in InitSteps \cup
       {"start", "map", "publish", "loop", "svm", "support", "context", "alloc",
        "vmxon", "vmcs", "launch", "returned", "ended"}
  /\ index \in 0 .. CoreCount /\ success \in 0 .. CoreCount
  /\ pin \in Cores \cup {NoCore} /\ rax \in {0, 1}
  /\ result \in {"none", "true", "false"} /\ notify \in BOOLEAN
  /\ apicMap \in [ApicIds -> Cores] /\ published \in BOOLEAN
  /\ vmx \in [Cores -> VmxStates]
  /\ record \in [Cores -> Cores \cup {NoCore}]
  /\ isRoot \in [Cores -> {0, 1}]
  /\ ask \in [pc : {"idle", "read"}, core : Cores, idx : Cores, host : BOOLEAN,
               moved : BOOLEAN]

(* On a processor it knows, ALhvStart returns 1 only when every core runs  *)
(* under the hypervisor, and only then are images watched.                 *)
StartedMeansAll ==
  (result = "true" \/ notify) /\ cpu # "other" => \A c \in Cores : Launched(c)

(* When ALhvStart returns 0 the cores before the one that failed run under *)
(* the hypervisor, those after it are untouched, and the one that failed   *)
(* is untouched or left in VMX operation with nothing launched; the thread *)
(* is then still pinned to that one, and to none if no core's start failed.*)
FailureConfined ==
  result = "false" =>
    \E k \in 0 .. CoreCount :
      /\ \A c \in Cores : (c < k => cpu = "amd" \/ Launched(c))
                          /\ (c > k => vmx[c] = "off")
      /\ k \in Cores => vmx[k] \in {"off", "root"}
      /\ pin \in {k, NoCore}
      /\ pin = NoCore => k = CoreCount \/ vmx[k] = "off"

(* An exit handler is told it is the host: the record found by the APIC id *)
(* of its core is the one that core's VMCS was given as its stack, and     *)
(* marked.                                                                 *)
HostKnown == \A c \in Cores : vmx[c] = "host" => IsHost(c)

(* A thread of the guest is told it is the host, and then uses addresses   *)
(* that only the host's page tables map, in no other case than when it was *)
(* moved between reading the APIC id and reading isRoot.                   *)
HostAnswerNeedsMove == ask.host => ask.moved
=============================================================================

--------------------------- MODULE Startup_proofs ---------------------------
(***************************************************************************)
(* Proofs about Startup, for any number of processors and any APIC ids     *)
(* that differ in the byte the driver reads.                               *)
(***************************************************************************)
EXTENDS Startup, TLAPS

CoreSteps == {"support", "context", "alloc", "vmxon", "vmcs", "launch"}
Before    == {"start", "map", "pool", "cores", "system_cr3", "host_cr3",
              "host_idt", "host_gdt", "msr_bitmap", "ept", "exits", "publish"}
Over      == {"returned", "ended"}

MappedUpTo(k) == \A c \in Cores : c < k => apicMap[ApicId(c)] = c
AllOff        == \A c \in Cores : vmx[c] = "off"

(* The cores before k are launched, with a record of their own, and those  *)
(* after it untouched.                                                     *)
Done(k) == \A c \in Cores : /\ c < k => Launched(c)
                            /\ c > k => vmx[c] = "off"

(* Where the loading thread stands, and what it has done by then. *)
BeforeInv ==
  boot \in Before =>
    /\ pin = NoCore /\ success = 0 /\ rax = 0 /\ result = "none" /\ AllOff
    /\ boot = "map" => MappedUpTo(index)
    /\ boot \in {"start", "publish"} => index = 0
    /\ boot \notin {"start", "map"} => MappedUpTo(CoreCount)
    /\ boot # "start" => cpu \in {"intel", "amd"}
    /\ boot \in {"msr_bitmap", "ept", "exits", "publish"} => cpu = "intel"

LoopInv ==
  boot \in {"loop", "svm"} =>
    /\ rax = 0 /\ result = "none" /\ MappedUpTo(CoreCount)
    /\ cpu \in {"intel", "amd"}
    /\ cpu = "amd" => success = 0 /\ AllOff
    /\ cpu = "intel" => /\ published /\ success = index /\ Done(index)
                        /\ index \in Cores => vmx[index] = "off"
    /\ boot = "loop" => pin = NoCore
    /\ boot = "svm" => cpu = "amd" /\ index \in Cores

CoreInv ==
  boot \in CoreSteps =>
    /\ cpu = "intel" /\ published /\ result = "none" /\ MappedUpTo(CoreCount)
    /\ pin = index /\ index \in Cores /\ success = index /\ Done(index)
    /\ boot \in {"support", "alloc", "vmxon"} => rax = 0 /\ vmx[index] = "off"
    /\ boot \in {"vmcs", "launch"} => rax = 0 /\ vmx[index] = "root"
    /\ boot = "launch" => record[index] = index
    /\ boot = "context" => IF rax = 0 THEN vmx[index] = "off" ELSE Launched(index)

OverInv ==
  /\ boot \in Over => result # "none"
  /\ result = "true" /\ cpu = "intel" => MappedUpTo(CoreCount)
  /\ notify => result = "true"

(* What the exits rely on, wherever the loading thread is. *)
RecordInv ==
  \A c \in Cores :
    /\ vmx[c] # "off" => cpu = "intel" /\ published /\ MappedUpTo(CoreCount)
    /\ Launched(c) => record[c] = c
    /\ isRoot[c] = IF vmx[c] = "host" THEN 1 ELSE 0

(* A thread that was not moved still holds the number of its own core. *)
AskInv ==
  /\ ask.pc = "read" /\ ~ask.moved /\ cpu = "intel" => ask.idx = ask.core
  /\ HostAnswerNeedsMove

StartInv ==
  /\ StartTypeOK /\ BeforeInv /\ LoopInv /\ CoreInv /\ OverInv
  /\ RecordInv /\ AskInv /\ StartedMeansAll /\ FailureConfined

-----------------------------------------------------------------------------
LEMMA CoresAreNat ==
  /\ CoreCount \in Nat /\ CoreCount > 0 /\ 0 \in Cores
  /\ Cores \subseteq Nat /\ NoCore \notin Cores
  /\ \A c \in Cores : c < CoreCount
BY StartAssumption DEF Cores, NoCore

LEMMA ApicIds_ == 
  /\ \A c \in Cores : ApicId(c) \in ApicIds
  /\ \A c, d \in Cores : ApicId(c) = ApicId(d) => c = d
<1>1. ASSUME NEW c \in Cores PROVE ApicId(c) \in ApicIds
  <2>1. ApicOf[c] \in Nat /\ ApicSize \in Nat /\ ApicSize > 0
    BY StartAssumption
  <2> QED BY <2>1 DEF ApicId, ApicIds
<1> QED BY <1>1, StartAssumption

LEMMA InitStepsAre ==
  /\ After["pool"] = "cores" /\ After["cores"] = "system_cr3"
  /\ After["system_cr3"] = "host_cr3" /\ After["host_cr3"] = "host_idt"
  /\ After["host_idt"] = "host_gdt"
  /\ After["host_gdt"] = IF cpu = "intel" THEN "msr_bitmap" ELSE "loop"
  /\ After["msr_bitmap"] = "ept" /\ After["ept"] = "exits"
  /\ After["exits"] = "publish"
BY DEF After

LEMMA StartInitInv == StartInit => StartInv
<1> SUFFICES ASSUME StartInit PROVE StartInv
  OBVIOUS
<1> USE DEF StartInit
<1>1. StartTypeOK
  <2>1. /\ cpu \in CpuTypes /\ boot = "start" /\ index \in 0 .. CoreCount
        /\ success \in 0 .. CoreCount /\ pin = NoCore /\ rax \in {0, 1}
        /\ result = "none"
    BY CoresAreNat
  <2>5. notify \in BOOLEAN /\ published \in BOOLEAN
    OBVIOUS
  <2>2. apicMap \in [ApicIds -> Cores]
    BY CoresAreNat
  <2>3. /\ vmx \in [Cores -> VmxStates] /\ record \in [Cores -> Cores \cup {NoCore}]
        /\ isRoot \in [Cores -> {0, 1}]
    BY DEF VmxStates
  <2>4. ask \in [pc : {"idle", "read"}, core : Cores, idx : Cores,
                 host : BOOLEAN, moved : BOOLEAN]
    BY CoresAreNat
  <2> QED BY <2>1, <2>2, <2>3, <2>4, <2>5 DEF StartTypeOK
<1>2. BeforeInv /\ LoopInv /\ CoreInv /\ OverInv /\ RecordInv
  BY CoresAreNat
  DEF BeforeInv, LoopInv, CoreInv, OverInv, RecordInv, Before, CoreSteps, Over,
      AllOff, Launched
<1>3. AskInv /\ StartedMeansAll /\ FailureConfined
  BY DEF AskInv, HostAnswerNeedsMove, StartedMeansAll, FailureConfined
<1> QED BY <1>1, <1>2, <1>3 DEF StartInv

-----------------------------------------------------------------------------
(* An exit, and the way back, move one launched core among three states. *)
LEMMA CoreMoves ==
  ASSUME StartInv, NEW c \in Cores, NEW v \in {"guest", "entry", "host"},
         Launched(c), vmx' = [vmx EXCEPT ![c] = v],
         isRoot' = [isRoot EXCEPT ![c] = IF v = "host" THEN 1 ELSE 0],
         UNCHANGED << boot, bootVars, apicMap, published, record, ask >>
  PROVE  StartInv'
<1> USE DEF StartInv, bootVars
<1>1. /\ cpu' = cpu /\ boot' = boot /\ index' = index /\ pin' = pin /\ rax' = rax
      /\ success' = success /\ result' = result /\ notify' = notify
      /\ apicMap' = apicMap /\ published' = published /\ record' = record /\ ask' = ask
  OBVIOUS
<1>2. vmx \in [Cores -> VmxStates] /\ isRoot \in [Cores -> {0, 1}]
  BY DEF StartTypeOK
<1>3. vmx' \in [Cores -> VmxStates] /\ isRoot' \in [Cores -> {0, 1}]
  BY <1>2 DEF VmxStates
<1>4. \A d \in Cores : /\ Launched(d)' <=> Launched(d)
                       /\ vmx[d] = "off" <=> vmx'[d] = "off"
                       /\ vmx[d] = "root" <=> vmx'[d] = "root"
  BY <1>2 DEF Launched
<1>5. StartTypeOK'
  BY <1>1, <1>3 DEF StartTypeOK
<1>6. BeforeInv'
  BY <1>1, <1>4 DEF BeforeInv, AllOff, MappedUpTo
<1>7. LoopInv'
  BY <1>1, <1>4 DEF LoopInv, AllOff, MappedUpTo, Done
<1>8. CoreInv'
  BY <1>1, <1>4 DEF CoreInv, MappedUpTo, Done
<1>9. OverInv'
  BY <1>1 DEF OverInv, MappedUpTo
<1>10. RecordInv'
  BY <1>1, <1>2, <1>4 DEF RecordInv, MappedUpTo
<1>11. AskInv'
  BY <1>1 DEF AskInv, HostAnswerNeedsMove
<1>12. StartedMeansAll'
  BY <1>1, <1>4 DEF StartedMeansAll
<1>13. FailureConfined'
  BY <1>1, <1>4 DEF FailureConfined
<1> QED BY <1>5, <1>6, <1>7, <1>8, <1>9, <1>10, <1>11, <1>12, <1>13

LEMMA CoreStepInv ==
  ASSUME StartInv, NEW c \in Cores, Exit(c) \/ EnterHost(c) \/ LeaveHost(c)
  PROVE  StartInv'
<1>1. isRoot \in [Cores -> {0, 1}]
  BY DEF StartInv, StartTypeOK
<1>2. /\ Launched(c) => record[c] = c
      /\ isRoot[c] = IF vmx[c] = "host" THEN 1 ELSE 0
  BY DEF StartInv, RecordInv
<1>3. CASE Exit(c)
  <2>1. Launched(c)
    BY <1>3 DEF Exit, Launched
  <2>2. isRoot' = [isRoot EXCEPT ![c] = IF "entry" = "host" THEN 1 ELSE 0]
    BY <1>1, <1>2, <1>3 DEF Exit
  <2> QED BY <1>3, <2>1, <2>2, CoreMoves DEF Exit
<1>4. CASE EnterHost(c)
  <2>1. Launched(c)
    BY <1>4 DEF EnterHost, Launched
  <2>2. isRoot' = [isRoot EXCEPT ![c] = IF "host" = "host" THEN 1 ELSE 0]
    BY <1>1, <1>2, <1>4, <2>1 DEF EnterHost
  <2> QED BY <1>4, <2>1, <2>2, CoreMoves DEF EnterHost
<1>5. CASE LeaveHost(c)
  <2>1. Launched(c)
    BY <1>5 DEF LeaveHost, Launched
  <2>2. isRoot' = [isRoot EXCEPT ![c] = IF "guest" = "host" THEN 1 ELSE 0]
    <3>1. vmx[c] = "host" /\ record[c] = c /\ isRoot[c] - 1 = 0
      BY <1>2, <1>5, <2>1 DEF LeaveHost
    <3> QED BY <1>1, <1>5, <3>1 DEF LeaveHost
  <2> QED BY <1>5, <2>1, <2>2, CoreMoves DEF LeaveHost
<1> QED BY <1>3, <1>4, <1>5

-----------------------------------------------------------------------------
(* ALhvIsHost. *)
LEMMA AskStepInv ==
  ASSUME StartInv, AskNext PROVE StartInv'
<1> USE DEF StartInv
<1>1. /\ UNCHANGED << boot, bootVars, apicMap, published, coreVars >>
      /\ ask' \in [pc : {"idle", "read"}, core : Cores, idx : Cores,
                   host : BOOLEAN, moved : BOOLEAN]
      /\ AskInv'
  <2>1. /\ ask \in [pc : {"idle", "read"}, core : Cores, idx : Cores,
                    host : BOOLEAN, moved : BOOLEAN]
        /\ apicMap \in [ApicIds -> Cores]
    BY DEF StartTypeOK
  <2>2. CASE MoveThread
    BY <2>1, <2>2 DEF MoveThread, AskInv, HostAnswerNeedsMove, bootVars
  <2>3. CASE AskIndex
    <3>1. cpu = "intel" => apicMap[ApicId(ask.core)] = ask.core
      BY <2>1, <2>3, CoresAreNat DEF AskIndex, OverInv, MappedUpTo
    <3>2. apicMap[ApicId(ask.core)] \in Cores
      BY <2>1, ApicIds_
    <3> QED BY <2>1, <2>3, <3>1, <3>2
            DEF AskIndex, AskInv, HostAnswerNeedsMove, bootVars
  <2>4. CASE AskRoot
    <3>1. Marked(ask.idx) \in BOOLEAN
      BY DEF Marked
    <3>2. Marked(ask.idx) => ask.moved
      <4>1. ~ask.moved /\ cpu = "intel" => ask.idx = ask.core
        BY <2>4 DEF AskRoot, AskInv
      <4>2. isRoot[ask.core] = 0
        BY <2>1, <2>4 DEF AskRoot, InHost, RecordInv
      <4> QED BY <4>1, <4>2 DEF Marked
    <3> QED BY <2>1, <2>4, <3>1, <3>2
            DEF AskRoot, AskInv, HostAnswerNeedsMove, bootVars
  <2> QED BY <2>2, <2>3, <2>4 DEF AskNext
<1>2. /\ cpu' = cpu /\ boot' = boot /\ index' = index /\ pin' = pin /\ rax' = rax
      /\ success' = success /\ result' = result /\ notify' = notify
      /\ apicMap' = apicMap /\ published' = published /\ vmx' = vmx
      /\ record' = record /\ isRoot' = isRoot
  BY <1>1 DEF bootVars, coreVars
<1>3. StartTypeOK'
  BY <1>1, <1>2 DEF StartTypeOK
<1>4. BeforeInv' /\ LoopInv' /\ CoreInv' /\ OverInv' /\ RecordInv'
  BY <1>2 DEF BeforeInv, LoopInv, CoreInv, OverInv, RecordInv, AllOff, MappedUpTo,
              Done, Launched
<1>5. StartedMeansAll' /\ FailureConfined'
  BY <1>2 DEF StartedMeansAll, FailureConfined, Launched
<1> QED BY <1>1, <1>3, <1>4, <1>5

-----------------------------------------------------------------------------
(* The loading thread's steps leave the records and the asking thread be. *)
LEMMA BootFrame ==
  ASSUME StartInv, UNCHANGED << cpu, apicMap, coreVars, ask >>, published => published'
  PROVE  RecordInv' /\ AskInv'
BY DEF StartInv, RecordInv, AskInv, HostAnswerNeedsMove, MappedUpTo, coreVars, Launched

(* A return of 0 from where the cores before k are launched, those after it *)
(* untouched.                                                               *)
LEMMA ReturnsFalse ==
  ASSUME StartInv, result = "none", Returns("false"),
         UNCHANGED << cpu, index, pin, rax, success, notify, apicMap, published,
                      coreVars, ask >>,
         NEW k \in 0 .. CoreCount,
         cpu = "amd" \/ \A c \in Cores : c < k => Launched(c),
         \A c \in Cores : c > k => vmx[c] = "off",
         k \in Cores => vmx[k] \in {"off", "root"},
         pin \in {k, NoCore},
         pin = NoCore => k = CoreCount \/ vmx[k] = "off"
  PROVE  StartInv'
<1> USE DEF Returns
<1>1. StartTypeOK'
  BY DEF StartInv, StartTypeOK, coreVars
<1>2. BeforeInv' /\ LoopInv' /\ CoreInv'
  BY DEF BeforeInv, LoopInv, CoreInv, Before, CoreSteps
<1>3. OverInv'
  BY DEF StartInv, OverInv
<1>4. RecordInv' /\ AskInv'
  BY BootFrame
<1>5. StartedMeansAll'
  BY DEF StartInv, OverInv, StartedMeansAll
<1>6. FailureConfined'
  BY DEF FailureConfined, Launched, coreVars
<1> QED BY <1>1, <1>2, <1>3, <1>4, <1>5, <1>6 DEF StartInv

(* The same from before the loop over the cores, where none is touched. *)
LEMMA ReturnsFalseEarly ==
  ASSUME StartInv, boot \in Before, Returns("false"),
         UNCHANGED << cpu, index, pin, rax, success, notify, apicMap, published,
                      coreVars, ask >>
  PROVE  StartInv'
<1>1. result = "none" /\ pin = NoCore /\ AllOff
  BY DEF StartInv, BeforeInv
<1>2. 0 \in 0 .. CoreCount /\ \A c \in Cores : ~(c < 0)
  BY CoresAreNat
<1>3. /\ cpu = "amd" \/ \A c \in Cores : c < 0 => Launched(c)
      /\ \A c \in Cores : c > 0 => vmx[c] = "off"
      /\ 0 \in Cores => vmx[0] \in {"off", "root"}
      /\ pin \in {0, NoCore}
      /\ pin = NoCore => 0 = CoreCount \/ vmx[0] = "off"
  BY <1>1, <1>2, CoresAreNat DEF AllOff
<1> QED BY <1>1, <1>2, <1>3, ReturnsFalse

-----------------------------------------------------------------------------
(* ALhvStart up to the loop over the cores. *)
LEMMA StartHvInv ==
  ASSUME StartInv, StartHv PROVE StartInv'
<1> USE DEF StartHv, At
<1>1. /\ boot = "start" /\ boot \in Before /\ boot \notin CoreSteps /\ cpu \in CpuTypes
      /\ cpu \in {"intel", "amd", "other"}
      /\ result = "none" /\ AllOff /\ pin = NoCore /\ success = 0 /\ rax = 0 /\ index = 0
      /\ notify => FALSE
  BY StartAssumption DEF StartInv, StartTypeOK, BeforeInv, OverInv, Before, CoreSteps
<1>2. RecordInv' /\ AskInv'
  BY BootFrame
<1>3. CASE cpu = "other"
  <2>1. boot' = "returned" /\ result' = "true"
    BY <1>3 DEF Returns
  <2>2. StartTypeOK'
    BY <2>1 DEF StartInv, StartTypeOK, coreVars
  <2>3. BeforeInv' /\ LoopInv' /\ CoreInv' /\ OverInv' /\ StartedMeansAll' /\ FailureConfined'
    BY <1>1, <1>3, <2>1
    DEF BeforeInv, LoopInv, CoreInv, OverInv, Before, CoreSteps, StartedMeansAll,
        FailureConfined
  <2> QED BY <1>2, <2>2, <2>3 DEF StartInv
<1>4. CASE cpu # "other" /\ CoreCount > MaxCores
  BY <1>1, <1>4, ReturnsFalseEarly
<1>5. CASE cpu # "other" /\ ~(CoreCount > MaxCores)
  <2>1. boot' = "map" /\ UNCHANGED result
    BY <1>5
  <2>2. StartTypeOK'
    BY <2>1 DEF StartInv, StartTypeOK, coreVars
  <2>3. BeforeInv'
    BY <1>1, <1>5, <2>1, CoresAreNat
    DEF BeforeInv, AllOff, MappedUpTo, coreVars
  <2>4. LoopInv' /\ CoreInv' /\ OverInv' /\ StartedMeansAll' /\ FailureConfined'
    BY <1>1, <2>1
    DEF LoopInv, CoreInv, OverInv, Over, CoreSteps, StartedMeansAll, FailureConfined
  <2> QED BY <1>2, <2>2, <2>3, <2>4 DEF StartInv
<1> QED BY <1>3, <1>4, <1>5

LEMMA MapInv ==
  ASSUME StartInv, NumberRefused \/ MapApicId \/ MapDone PROVE StartInv'
<1>1. /\ boot = "map" /\ boot \in Before
  BY DEF NumberRefused, MapApicId, MapDone, At, Before
<1>2. /\ cpu \in {"intel", "amd"} /\ pin = NoCore /\ success = 0 /\ rax = 0
      /\ result = "none" /\ AllOff /\ MappedUpTo(index) /\ ~notify
  BY <1>1 DEF StartInv, BeforeInv, OverInv
<1>3. CASE NumberRefused
  BY <1>1, <1>3, ReturnsFalseEarly DEF NumberRefused
<1>4. CASE MapApicId
  <2> USE DEF MapApicId
  <2>1. index \in Cores /\ index + 1 \in 0 .. CoreCount
    BY <1>4, CoresAreNat DEF StartInv, StartTypeOK, Cores
  <2>2. /\ apicMap' \in [ApicIds -> Cores]
        /\ apicMap'[ApicId(index)] = index
        /\ \A c \in Cores : c # index => apicMap'[ApicId(c)] = apicMap[ApicId(c)]
    BY <1>4, <2>1, ApicIds_ DEF StartInv, StartTypeOK
  <2>3. StartTypeOK'
    BY <1>4, <2>1, <2>2 DEF StartInv, StartTypeOK, coreVars
  <2>4. MappedUpTo(index)'
    <3> SUFFICES ASSUME NEW c \in Cores, c < index + 1 PROVE apicMap'[ApicId(c)] = c
      BY <1>4 DEF MappedUpTo
    <3>1. c = index \/ c < index
      BY <2>1, CoresAreNat
    <3> QED BY <1>2, <2>2, <3>1 DEF MappedUpTo
  <2>5. BeforeInv'
    BY <1>1, <1>2, <1>4, <2>4 DEF BeforeInv, AllOff, coreVars
  <2>6. LoopInv' /\ CoreInv' /\ OverInv' /\ StartedMeansAll' /\ FailureConfined'
    BY <1>1, <1>2, <1>4
    DEF LoopInv, CoreInv, OverInv, Over, CoreSteps, StartedMeansAll, FailureConfined
  <2>7. RecordInv' /\ AskInv'
    BY <1>2, <1>4
    DEF StartInv, RecordInv, AskInv, HostAnswerNeedsMove, AllOff, Launched, coreVars
  <2> QED BY <2>3, <2>5, <2>6, <2>7 DEF StartInv
<1>5. CASE MapDone
  <2>1. StartTypeOK'
    BY <1>5 DEF MapDone, StartInv, StartTypeOK, coreVars, bootVars, InitSteps
  <2>2. BeforeInv'
    BY <1>1, <1>2, <1>5
    DEF MapDone, BeforeInv, AllOff, MappedUpTo, coreVars, bootVars
  <2>3. LoopInv' /\ CoreInv' /\ OverInv' /\ StartedMeansAll' /\ FailureConfined'
    BY <1>1, <1>2, <1>5
    DEF MapDone, LoopInv, CoreInv, OverInv, Over, CoreSteps, StartedMeansAll,
        FailureConfined, bootVars
  <2>4. RecordInv' /\ AskInv'
    BY <1>5, BootFrame DEF MapDone, bootVars
  <2> QED BY <2>1, <2>2, <2>3, <2>4 DEF StartInv
<1> QED BY <1>3, <1>4, <1>5

LEMMA InitStepInv ==
  ASSUME StartInv, NEW s \in InitSteps, InitOk(s) \/ InitFails(s) PROVE StartInv'
<1>1. /\ boot = s /\ boot \in Before /\ boot \notin {"start", "map", "publish"}
  BY DEF InitOk, InitFails, At, Before, InitSteps
<1>2. /\ cpu \in {"intel", "amd"} /\ pin = NoCore /\ success = 0 /\ rax = 0
      /\ result = "none" /\ AllOff /\ MappedUpTo(CoreCount) /\ ~notify
      /\ boot \in {"msr_bitmap", "ept", "exits"} => cpu = "intel"
  BY <1>1 DEF StartInv, BeforeInv, OverInv
<1>3. CASE InitFails(s)
  BY <1>1, <1>3, ReturnsFalseEarly DEF InitFails
<1>4. CASE InitOk(s)
  <2>1. /\ boot' = After[s] /\ index' = 0 /\ cpu' = cpu /\ pin' = pin /\ rax' = rax
        /\ success' = success /\ result' = result /\ notify' = notify
        /\ apicMap' = apicMap /\ published' = published /\ vmx' = vmx
        /\ record' = record /\ isRoot' = isRoot /\ ask' = ask
    BY <1>4 DEF InitOk, coreVars
  <2>2. /\ boot' \in {"cores", "system_cr3", "host_cr3", "host_idt", "host_gdt",
                      "msr_bitmap", "ept", "exits", "publish", "loop"}
        /\ boot' \in {"msr_bitmap", "ept", "exits", "publish"} => cpu = "intel"
        /\ boot' = "loop" => cpu = "amd"
    BY <1>1, <1>2, <2>1, InitStepsAre DEF InitSteps
  <2>3. StartTypeOK'
    BY <2>1, <2>2, CoresAreNat DEF StartInv, StartTypeOK, InitSteps
  <2>4. BeforeInv'
    BY <1>2, <2>1, <2>2 DEF BeforeInv, AllOff, MappedUpTo
  <2>5. LoopInv'
    BY <1>2, <2>1, <2>2 DEF LoopInv, AllOff, MappedUpTo
  <2>6. CoreInv' /\ OverInv' /\ StartedMeansAll' /\ FailureConfined'
    BY <1>2, <2>1, <2>2
    DEF CoreInv, OverInv, Over, CoreSteps, StartedMeansAll, FailureConfined
  <2>7. RecordInv' /\ AskInv'
    BY <2>1, BootFrame DEF coreVars
  <2> QED BY <2>3, <2>4, <2>5, <2>6, <2>7 DEF StartInv
<1> QED BY <1>3, <1>4

LEMMA PublishInv ==
  ASSUME StartInv, Publish PROVE StartInv'
<1>1. /\ boot' = "loop" /\ published' = TRUE /\ index' = index /\ cpu' = cpu
      /\ pin' = pin /\ rax' = rax /\ success' = success /\ result' = result
      /\ notify' = notify /\ apicMap' = apicMap /\ vmx' = vmx /\ record' = record
      /\ isRoot' = isRoot /\ ask' = ask /\ boot = "publish"
  BY DEF Publish, At, bootVars, coreVars
<1>2. /\ cpu = "intel" /\ pin = NoCore /\ success = 0 /\ rax = 0 /\ index = 0
      /\ result = "none" /\ AllOff /\ MappedUpTo(CoreCount) /\ ~notify
  BY <1>1 DEF StartInv, BeforeInv, OverInv, Before
<1>3. StartTypeOK'
  BY <1>1 DEF StartInv, StartTypeOK
<1>4. LoopInv'
  BY <1>1, <1>2, CoresAreNat DEF LoopInv, MappedUpTo, Done, AllOff
<1>5. BeforeInv' /\ CoreInv' /\ OverInv' /\ StartedMeansAll' /\ FailureConfined'
  BY <1>1, <1>2
  DEF BeforeInv, Before, CoreInv, OverInv, Over, CoreSteps, StartedMeansAll, FailureConfined
<1>6. RecordInv' /\ AskInv'
  BY <1>1, BootFrame DEF coreVars
<1> QED BY <1>3, <1>4, <1>5, <1>6 DEF StartInv

-----------------------------------------------------------------------------
(* The loop over the cores. *)
LEMMA LoopFacts ==
  ASSUME StartInv, boot \in {"loop", "svm"}
  PROVE  /\ rax = 0 /\ result = "none" /\ MappedUpTo(CoreCount) /\ ~notify
         /\ cpu \in {"intel", "amd"} /\ index \in 0 .. CoreCount
         /\ cpu = "amd" => success = 0 /\ AllOff
         /\ cpu = "intel" => published /\ success = index /\ Done(index)
         /\ cpu = "intel" /\ index \in Cores => vmx[index] = "off"
         /\ boot = "loop" => pin = NoCore
BY DEF StartInv, StartTypeOK, LoopInv, OverInv

LEMMA FinishInv ==
  ASSUME StartInv, Finish PROVE StartInv'
<1> USE DEF Finish
<1>1. boot = "loop" /\ boot \notin CoreSteps
  BY DEF At, CoreSteps
<1>2. CASE success = CoreCount
  <2>1. cpu = "intel" /\ \A c \in Cores : Launched(c)
    BY <1>1, <1>2, LoopFacts, CoresAreNat DEF Done
  <2>2. boot' = "returned" /\ result' = "true"
    BY <1>2 DEF Returns
  <2>3. StartTypeOK'
    BY <2>2 DEF StartInv, StartTypeOK, coreVars
  <2>4. BeforeInv' /\ LoopInv' /\ CoreInv' /\ FailureConfined'
    BY <2>2 DEF BeforeInv, LoopInv, CoreInv, Before, CoreSteps, FailureConfined
  <2>5. OverInv' /\ StartedMeansAll'
    BY <1>1, <2>1, <2>2, LoopFacts
    DEF OverInv, Over, StartedMeansAll, MappedUpTo, Launched, coreVars
  <2>6. RecordInv' /\ AskInv'
    BY BootFrame
  <2> QED BY <2>3, <2>4, <2>5, <2>6 DEF StartInv
<1>3. CASE success # CoreCount
  <2>1. PICK k \in 0 .. CoreCount :
          /\ cpu = "amd" \/ \A c \in Cores : c < k => Launched(c)
          /\ \A c \in Cores : c > k => vmx[c] = "off"
          /\ k \in Cores => vmx[k] = "off"
          /\ k = CoreCount \/ vmx[k] = "off"
    <3>1. CASE cpu = "intel"
      <4>1. index \in 0 .. CoreCount /\ index # CoreCount
        BY <1>1, <1>3, <3>1, LoopFacts
      <4>2. index \in Cores
        BY <4>1, CoresAreNat DEF Cores
      <4> QED BY <1>1, <3>1, <4>1, <4>2, LoopFacts DEF Done
    <3>2. CASE cpu = "amd"
      <4>1. 0 \in 0 .. CoreCount
        BY CoresAreNat
      <4> QED BY <1>1, <3>2, <4>1, LoopFacts, CoresAreNat DEF AllOff
    <3> QED BY <1>1, <3>1, <3>2, LoopFacts
  <2>2. result = "none" /\ pin = NoCore
    BY <1>1, LoopFacts
  <2> QED BY <1>3, <2>1, <2>2, ReturnsFalse
<1> QED BY <1>2, <1>3

LEMMA PinCoreInv ==
  ASSUME StartInv, PinCore PROVE StartInv'
<1>1. /\ boot = "loop" /\ boot' = (IF cpu = "intel" THEN "support" ELSE "svm")
      /\ pin' = index /\ index' = index /\ cpu' = cpu /\ rax' = rax
      /\ success' = success /\ result' = result /\ notify' = notify
      /\ apicMap' = apicMap /\ published' = published /\ vmx' = vmx
      /\ record' = record /\ isRoot' = isRoot /\ ask' = ask
  BY DEF PinCore, At, coreVars
<1>2. index \in Cores
  BY CoresAreNat DEF PinCore, StartInv, StartTypeOK, Cores
<1>3. StartTypeOK'
  BY <1>1, <1>2 DEF StartInv, StartTypeOK
<1>4. BeforeInv' /\ OverInv' /\ StartedMeansAll' /\ FailureConfined'
  BY <1>1, LoopFacts
  DEF BeforeInv, Before, OverInv, Over, StartedMeansAll, FailureConfined
<1>5. LoopInv'
  BY <1>1, <1>2, LoopFacts DEF LoopInv, MappedUpTo, AllOff
<1>6. CoreInv'
  BY <1>1, <1>2, LoopFacts DEF CoreInv, CoreSteps, MappedUpTo, Done, Launched
<1>7. RecordInv' /\ AskInv'
  BY <1>1, BootFrame DEF coreVars
<1> QED BY <1>3, <1>4, <1>5, <1>6, <1>7 DEF StartInv

LEMMA SvmCoreInv ==
  ASSUME StartInv, SvmCore PROVE StartInv'
<1>1. /\ boot = "svm" /\ boot' = "loop" /\ index' = index + 1 /\ pin' = NoCore
      /\ cpu' = cpu /\ rax' = rax /\ success' = success /\ result' = result
      /\ notify' = notify /\ apicMap' = apicMap /\ published' = published /\ vmx' = vmx
      /\ record' = record /\ isRoot' = isRoot /\ ask' = ask
  BY DEF SvmCore, At, coreVars
<1>2. cpu = "amd" /\ index \in Cores
  BY <1>1 DEF StartInv, LoopInv
<1>3. index + 1 \in 0 .. CoreCount
  BY <1>2, CoresAreNat
<1>4. StartTypeOK'
  BY <1>1, <1>3 DEF StartInv, StartTypeOK
<1>5. BeforeInv' /\ CoreInv' /\ OverInv' /\ StartedMeansAll' /\ FailureConfined'
  BY <1>1, LoopFacts
  DEF BeforeInv, Before, CoreInv, CoreSteps, OverInv, Over, StartedMeansAll, FailureConfined
<1>6. LoopInv'
  BY <1>1, <1>2, LoopFacts DEF LoopInv, MappedUpTo, AllOff
<1>7. RecordInv' /\ AskInv'
  BY <1>1, BootFrame DEF coreVars
<1> QED BY <1>4, <1>5, <1>6, <1>7 DEF StartInv

-----------------------------------------------------------------------------
(* ALvmxCoreStart. *)
LEMMA CoreFacts ==
  ASSUME StartInv, boot \in CoreSteps
  PROVE  /\ cpu = "intel" /\ published /\ result = "none" /\ MappedUpTo(CoreCount)
         /\ pin = index /\ index \in Cores /\ success = index /\ Done(index) /\ ~notify
         /\ boot \in {"support", "alloc", "vmxon"} => rax = 0 /\ vmx[index] = "off"
         /\ boot \in {"vmcs", "launch"} => rax = 0 /\ vmx[index] = "root"
         /\ boot = "launch" => record[index] = index
         /\ boot = "context" => IF rax = 0 THEN vmx[index] = "off" ELSE Launched(index)
BY DEF StartInv, CoreInv, OverInv

LEMMA CoreFailsInv ==
  ASSUME StartInv, CoreFails PROVE StartInv'
<1>1. boot \in {"support", "alloc", "vmxon", "vmcs", "launch"} /\ boot \in CoreSteps
  BY DEF CoreFails, At, CoreSteps
<1>2. index \in 0 .. CoreCount
  BY DEF StartInv, StartTypeOK
<1> QED BY <1>1, <1>2, CoreFacts, CoresAreNat, ReturnsFalse DEF CoreFails, Done

(* A step of ALvmxCoreStart that changes no more than the core it runs on. *)
LEMMA CoreStepsOn ==
  ASSUME StartInv, boot \in CoreSteps, boot' \in CoreSteps, rax' \in {0, 1},
         UNCHANGED << cpu, index, pin, success, result, notify, apicMap, published, ask >>,
         NEW v \in VmxStates, v # "host", vmx[index] # "host",
         vmx' = [vmx EXCEPT ![index] = v],
         record' = record \/ record' = [record EXCEPT ![index] = index],
         isRoot' = isRoot,
         Launched(index)' => record'[index] = index,
         boot' \in {"support", "alloc", "vmxon"} => rax' = 0 /\ v = "off",
         boot' \in {"vmcs", "launch"} => rax' = 0 /\ v = "root",
         boot' = "launch" => record'[index] = index,
         boot' = "context" => IF rax' = 0 THEN v = "off" ELSE v = "guest"
  PROVE  StartInv'
<1>1. index \in Cores /\ Cores \subseteq Nat
  BY CoreFacts, CoresAreNat
<1>2. /\ vmx \in [Cores -> VmxStates] /\ record \in [Cores -> Cores \cup {NoCore}]
  BY DEF StartInv, StartTypeOK
<1>3. /\ vmx' \in [Cores -> VmxStates] /\ record' \in [Cores -> Cores \cup {NoCore}]
      /\ vmx'[index] = v
      /\ \A c \in Cores : c # index => vmx'[c] = vmx[c] /\ record'[c] = record[c]
  BY <1>1, <1>2
<1>4. StartTypeOK'
  BY <1>3 DEF StartInv, StartTypeOK, CoreSteps
<1>5. BeforeInv' /\ LoopInv' /\ OverInv' /\ StartedMeansAll' /\ FailureConfined'
  BY CoreFacts
  DEF BeforeInv, Before, LoopInv, CoreSteps, OverInv, Over, StartedMeansAll, FailureConfined
<1>6. CoreInv'
  <2>1. Done(index)'
    BY <1>1, <1>3, CoreFacts DEF Done, Launched
  <2>2. Launched(index)' <=> v \in {"guest", "entry", "host"}
    BY <1>3 DEF Launched
  <2> QED BY <1>3, <2>1, <2>2, CoreFacts DEF CoreInv, MappedUpTo
<1>7. RecordInv'
  <2> SUFFICES ASSUME NEW c \in Cores
               PROVE  /\ vmx'[c] # "off" => cpu = "intel" /\ published /\ MappedUpTo(CoreCount)
                      /\ Launched(c)' => record'[c] = c
                      /\ isRoot[c] = IF vmx'[c] = "host" THEN 1 ELSE 0
    BY DEF RecordInv, MappedUpTo
  <2>1. CASE c = index
    BY <1>3, <2>1, CoreFacts DEF StartInv, RecordInv
  <2>2. CASE c # index
    BY <1>3, <2>2, CoreFacts DEF StartInv, RecordInv, Launched
  <2> QED BY <2>1, <2>2
<1>8. AskInv'
  BY DEF StartInv, AskInv, HostAnswerNeedsMove
<1> QED BY <1>4, <1>5, <1>6, <1>7, <1>8 DEF StartInv

LEMMA CoreStartInv ==
  ASSUME StartInv,
         Supported \/ Context \/ Alloc \/ VmxOn \/ LoadVmcs \/ Launch
  PROVE  StartInv'
<1> USE DEF CoreStep, At
<1>1. boot \in CoreSteps
  BY DEF Supported, Context, Alloc, VmxOn, LoadVmcs, Launch, CoreSteps
<1>2. /\ vmx \in [Cores -> VmxStates] /\ record \in [Cores -> Cores \cup {NoCore}]
      /\ rax \in {0, 1}
  BY DEF StartInv, StartTypeOK
<1>3. index \in Cores /\ pin = index
  BY <1>1, CoreFacts
<1>4. vmx' = vmx => vmx' = [vmx EXCEPT ![index] = vmx[index]]
  BY <1>2, <1>3
<1>5. vmx[index] \in VmxStates /\ {"off", "root", "guest"} \subseteq VmxStates
  BY <1>2, <1>3 DEF VmxStates
<1>6. CASE Supported \/ Context \/ Alloc
  <2>1. /\ boot' \in CoreSteps /\ boot' \in {"context", "alloc", "vmxon"}
        /\ rax = 0 /\ vmx[index] = "off"
        /\ UNCHANGED << cpu, index, pin, success, result, notify, apicMap, published, ask >>
        /\ rax' = 0 /\ vmx' = vmx /\ record' = record /\ isRoot' = isRoot
    BY <1>1, <1>6, CoreFacts
    DEF Supported, Context, Alloc, CoreSteps, bootVars, coreVars
  <2>2. ~Launched(index)'
    BY <2>1 DEF Launched
  <2> QED BY <1>1, <1>4, <1>5, <2>1, <2>2, CoreStepsOn
<1>7. CASE VmxOn
  <2>1. /\ boot' \in CoreSteps /\ boot' = "vmcs" /\ rax = 0 /\ vmx[index] = "off"
        /\ UNCHANGED << cpu, index, pin, success, result, notify, apicMap, published, ask >>
        /\ rax' = 0 /\ vmx' = [vmx EXCEPT ![index] = "root"]
        /\ record' = record /\ isRoot' = isRoot
    BY <1>1, <1>3, <1>7, CoreFacts DEF VmxOn, CoreSteps, bootVars
  <2>2. ~Launched(index)'
    BY <1>2, <1>3, <2>1 DEF Launched
  <2> QED BY <1>1, <1>5, <2>1, <2>2, CoreStepsOn
<1>8. CASE LoadVmcs
  <2>1. /\ boot' \in CoreSteps /\ boot' = "launch" /\ rax = 0 /\ vmx[index] = "root"
        /\ UNCHANGED << cpu, index, pin, success, result, notify, apicMap, published, ask >>
        /\ rax' = 0 /\ vmx' = vmx
        /\ record' = [record EXCEPT ![index] = index] /\ isRoot' = isRoot
    BY <1>1, <1>3, <1>8, CoreFacts DEF LoadVmcs, CoreSteps, bootVars
  <2>2. record'[index] = index
    BY <1>2, <1>3, <2>1
  <2> QED BY <1>1, <1>4, <1>5, <2>1, <2>2, CoreStepsOn
<1>9. CASE Launch
  <2>1. /\ boot = "launch" /\ boot' \in CoreSteps /\ boot' = "context"
        /\ vmx[index] = "root" /\ record[index] = index
        /\ UNCHANGED << cpu, index, pin, success, result, notify, apicMap, published, ask >>
        /\ rax' = 1 /\ vmx' = [vmx EXCEPT ![index] = "guest"]
        /\ record' = record /\ isRoot' = isRoot
    BY <1>1, <1>3, <1>9, CoreFacts DEF Launch, CoreSteps
  <2>2. /\ "guest" \in VmxStates /\ rax' \in {0, 1}
        /\ vmx[index] # "host" /\ record'[index] = index
        /\ boot' \notin {"support", "alloc", "vmxon", "vmcs", "launch"} /\ rax' # 0
    BY <1>5, <2>1
  <2>3. UNCHANGED << cpu, index, pin, success, result, notify, apicMap, published, ask >>
    BY <2>1
  <2> HIDE DEF CoreStep, At
  <2> QED BY <1>1, <2>1, <2>2, <2>3, CoreStepsOn
<1> QED BY <1>6, <1>7, <1>8, <1>9

LEMMA CoreDoneInv ==
  ASSUME StartInv, CoreDone PROVE StartInv'
<1>1. /\ boot = "context" /\ boot' = "loop" /\ boot \in CoreSteps /\ rax = 1 /\ rax' = 0
      /\ success' = success + 1 /\ index' = index + 1 /\ pin' = NoCore
      /\ cpu' = cpu /\ result' = result /\ notify' = notify /\ apicMap' = apicMap
      /\ published' = published /\ vmx' = vmx /\ record' = record
      /\ isRoot' = isRoot /\ ask' = ask
  BY DEF CoreDone, At, coreVars, CoreSteps
<1>2. Launched(index) /\ index \in Cores
  BY <1>1, CoreFacts
<1>3. index + 1 \in 0 .. CoreCount /\ success + 1 \in 0 .. CoreCount
  BY <1>1, <1>2, CoreFacts, CoresAreNat
<1>4. StartTypeOK'
  BY <1>1, <1>3 DEF StartInv, StartTypeOK
<1>5. BeforeInv' /\ CoreInv' /\ OverInv' /\ StartedMeansAll' /\ FailureConfined'
  BY <1>1, CoreFacts
  DEF BeforeInv, Before, CoreInv, CoreSteps, OverInv, Over, StartedMeansAll, FailureConfined
<1>6. LoopInv'
  <2>1. \A c \in Cores : (c < index + 1 <=> c < index \/ c = index)
                         /\ (c >= index + 1 <=> c > index)
    BY <1>2, CoresAreNat
  <2>2. \A c \in Cores : (c < index + 1 => Launched(c)) /\ (c >= index + 1 => vmx[c] = "off")
    BY <1>1, <1>2, <2>1, CoreFacts DEF Done
  <2>3. Done(index)' /\ (index' \in Cores => vmx'[index'] = "off")
    BY <1>1, <1>2, <2>2, CoresAreNat DEF Done, Launched
  <2> QED BY <1>1, <2>3, CoreFacts DEF LoopInv, MappedUpTo
<1>7. RecordInv' /\ AskInv'
  BY <1>1, BootFrame DEF coreVars
<1> QED BY <1>4, <1>5, <1>6, <1>7 DEF StartInv

LEMMA MainEndsInv ==
  ASSUME StartInv, MainEnds PROVE StartInv'
<1>1. /\ boot = "returned" /\ boot' = "ended" /\ result # "none"
      /\ notify' \in BOOLEAN /\ (notify' => result = "true")
      /\ cpu' = cpu /\ index' = index /\ pin' = pin /\ rax' = rax /\ success' = success
      /\ result' = result /\ apicMap' = apicMap /\ published' = published /\ vmx' = vmx
      /\ record' = record /\ isRoot' = isRoot /\ ask' = ask
  BY DEF MainEnds, At, coreVars, StartInv, OverInv, Over
<1>2. StartTypeOK'
  BY <1>1 DEF StartInv, StartTypeOK
<1>3. BeforeInv' /\ LoopInv' /\ CoreInv'
  BY <1>1 DEF BeforeInv, Before, LoopInv, CoreInv, CoreSteps
<1>4. OverInv' /\ StartedMeansAll' /\ FailureConfined'
  BY <1>1
  DEF StartInv, OverInv, StartedMeansAll, FailureConfined, MappedUpTo, Launched
<1>5. RecordInv' /\ AskInv'
  BY <1>1, BootFrame DEF coreVars
<1> QED BY <1>2, <1>3, <1>4, <1>5 DEF StartInv

-----------------------------------------------------------------------------
LEMMA StartStepInv == StartInv /\ [StartNext]_startVars => StartInv'
<1> SUFFICES ASSUME StartInv, [StartNext]_startVars PROVE StartInv'
  OBVIOUS
<1>1. CASE BootStep
  BY <1>1, StartHvInv, MapInv, InitStepInv, PublishInv, FinishInv, PinCoreInv,
     SvmCoreInv, CoreFailsInv, CoreStartInv, CoreDoneInv, MainEndsInv DEF BootStep
<1>2. CASE CoreNext
  BY <1>2, CoreStepInv DEF CoreNext
<1>3. CASE AskNext
  BY <1>3, AskStepInv
<1>4. CASE UNCHANGED startVars
  BY <1>4
  DEF startVars, bootVars, coreVars, StartInv, StartTypeOK, BeforeInv, LoopInv, CoreInv,
      OverInv, RecordInv, AskInv, StartedMeansAll, FailureConfined, AllOff, MappedUpTo,
      Done, Launched, HostAnswerNeedsMove
<1> QED BY <1>1, <1>2, <1>3, <1>4 DEF StartNext

LEMMA StartAlways == StartSpec => []StartInv
<1>1. StartInit => StartInv
  BY StartInitInv
<1>2. StartInv /\ [StartNext]_startVars => StartInv'
  BY StartStepInv
<1> QED BY <1>1, <1>2, PTL DEF StartSpec

(* The variables keep their types, for any number of processors. *)
THEOREM StartTypeCorrect == StartSpec => []StartTypeOK
<1>1. StartInv => StartTypeOK
  BY DEF StartInv
<1> QED BY <1>1, StartAlways, PTL

(* ALhvStart returns 1 only with every core under the hypervisor.          *)
THEOREM StartReturnsTrueForAll == StartSpec => []StartedMeansAll
<1>1. StartInv => StartedMeansAll
  BY DEF StartInv
<1> QED BY <1>1, StartAlways, PTL

(* A start that fails leaves the cores in the one way FailureConfined says, *)
(* whichever step of whichever core failed.                                *)
THEOREM StartFailureConfined == StartSpec => []FailureConfined
<1>1. StartInv => FailureConfined
  BY DEF StartInv
<1> QED BY <1>1, StartAlways, PTL

(* The APIC map and the host stacks agree on every core, so an exit handler *)
(* finds its own record, marked.                                           *)
THEOREM StartHostKnown == StartSpec => []HostKnown
<1>1. StartInv => HostKnown
  <2> SUFFICES ASSUME StartInv, NEW c \in Cores, vmx[c] = "host" PROVE IsHost(c)
    BY DEF HostKnown
  <2>1. cpu = "intel" /\ published /\ isRoot[c] = 1 /\ apicMap[ApicId(c)] = c
    BY CoresAreNat DEF StartInv, RecordInv, MappedUpTo
  <2> QED BY <2>1 DEF IsHost, Marked
<1> QED BY <1>1, StartAlways, PTL

(* A guest thread that stays on its core is never answered it is the host. *)
THEOREM StartHostAnswer == StartSpec => []HostAnswerNeedsMove
<1>1. StartInv => HostAnswerNeedsMove
  BY DEF StartInv, AskInv
<1> QED BY <1>1, StartAlways, PTL
=============================================================================

------------------------------- MODULE ShaIO -------------------------------
(***************************************************************************)
(* OR_SHA_IO (Buffer.h, Buffer.cpp): the lock-free buffer through which    *)
(* the VM-exit handlers hand packets to the printing thread.  The data     *)
(* area is tiled by blocks, each a header followed by its data.  Producers *)
(* claim a free block with a compare-and-swap on `prepare', split it when  *)
(* it is too large, join it with its successor when it is too small, and   *)
(* publish with `valid'; a consumer walks the blocks and takes the valid   *)
(* ones.  Every access to a shared word is one action here.                *)
(*                                                                         *)
(* Offsets count units of the data area.  mem[o] is what the bytes at      *)
(* offset o say when they are read as a header, and pkt the packet that    *)
(* last wrote them as data (0: none), so that a thread that follows a      *)
(* stale offset into somebody's data reads that data as a header, as the   *)
(* program does.                                                           *)
(***************************************************************************)
EXTENDS Integers, FiniteSets

CONSTANTS
  Producers,   (* threads calling PrepareData / SendData *)
  Consumers,   (* threads calling ReadData in a loop *)
  Capacity,    (* units in the data area *)
  Hdr,         (* sizeof(OR_SHA_IO_DATA), in units *)
  Sizes,       (* packet lengths asked for *)
  Images,      (* what packet data may look like when read as a header *)
  MaxPackets,  (* bound on the packets the producers start *)
  ShortMax,    (* largest value of a SHORT; 2^15 - 1 in the code *)
  Serial       (* whether the callers serialise their calls *)

Packets == 1 .. MaxPackets
Word    == -(ShortMax + 1) .. ShortMax     \* a SHORT
Area    == 0 .. Capacity - 1
Threads == Producers \cup Consumers
Header  == [valid : Nat, prepare : Nat, length : Nat, size : Int,
            pkt : 0 .. MaxPackets]

ASSUME ThreadsAssumption == Producers \cap Consumers = {}
ASSUME SizesAssumption ==
  /\ Hdr \in Nat \ {0}
  /\ Capacity \in Nat /\ Capacity >= Hdr
  /\ Sizes \subseteq Nat \ {0}
  /\ MaxPackets \in Nat
  /\ ShortMax \in Nat \ {0}
  /\ Serial \in BOOLEAN
  /\ Images \subseteq [valid : Nat, prepare : Nat, length : Nat, size : Int]

VARIABLES
  mem,       (* the data area *)
  existing,  (* the SHORT of the buffer's head *)
  nextId,    (* g_pk_id: the id the next packet gets *)
  pc,        (* where each thread is in its call *)
  at,        (* the scan pointer i of each thread *)
  id,        (* the packet a producer is sending *)
  len,       (* history: the length each packet asked for *)
  status,    (* history: where each packet is in its life *)
  start,     (* history: the offset of the data granted to a packet *)
  got        (* history: the packet a consumer took, 0 if it took none *)

vars == << mem, existing, nextId, pc, at, id, len, status, start, got >>

ProducerSteps ==
  {"claim", "fit", "absorb", "grow", "restart", "unclaim", "skip",
   "splitLength", "splitValid", "splitPrepare", "splitSize", "shrink",
   "setLength", "fill", "publish", "count"}
ConsumerSteps == {"poll", "unpoll", "scan", "handle", "release", "advance"}

(***************************************************************************)
(* Memory.                                                                 *)
(***************************************************************************)
After(o) == o + Hdr + mem[o].size     \* i = data_p->data; i += data_p->size

Store(o, field, v) == mem' = [mem EXCEPT ![o][field] = v, ![o].pkt = 0]

(* 16-bit signed wrap-around of the Interlocked...16 operations. *)
Short(n) == IF n > ShortMax THEN n - 2 * (ShortMax + 1)
            ELSE IF n < -(ShortMax + 1) THEN n + 2 * (ShortMax + 1) ELSE n

(* Callers may serialise their calls: then at most one thread is inside    *)
(* PrepareData, SendData or a ReadData pass, though packets stay granted   *)
(* and unsent between the calls.                                           *)
InCall(t) == pc[t] \notin {"idle", "fill", "publish", "poll"}
MayCall   == Serial => \A t \in Threads : ~InCall(t)

Goto(t, from, to) == pc[t] = from /\ pc' = [pc EXCEPT ![t] = to]

(* The constructor leaves one free block over zeroed memory; attaching a   *)
(* second OR_SHA_IO to the same memory (put_func) changes nothing.         *)
Init ==
  /\ mem = [o \in Area |->
             [valid |-> 0, prepare |-> 0, length |-> 0, pkt |-> 0,
              size |-> IF o = 0 THEN Capacity - Hdr ELSE 0]]
  /\ existing = 0
  /\ nextId = 1
  /\ pc = [t \in Threads |-> IF t \in Producers THEN "idle" ELSE "poll"]
  /\ at = [t \in Threads |-> 0]
  /\ id = [t \in Producers |-> 0]
  /\ len = [p \in Packets |-> 0]
  /\ status = [p \in Packets |-> "none"]
  /\ start = [p \in Packets |-> 0]
  /\ got = [c \in Consumers |-> 0]

-----------------------------------------------------------------------------
(***************************************************************************)
(* PrepareData.                                                            *)
(***************************************************************************)
Second(t) == at[t] + Hdr + len[id[t]]     \* data_p_2 of a split
Next2(t)  == After(at[t])                 \* data_p_2 of a merge

ghosts == << len, status, start, got >>

(* A sender takes the next id before it asks for memory. *)
Call(t) ==
  /\ MayCall
  /\ nextId \in Packets
  /\ Goto(t, "idle", "claim")
  /\ nextId' = nextId + 1
  /\ id' = [id EXCEPT ![t] = nextId]
  /\ at' = [at EXCEPT ![t] = 0]
  /\ \E s \in Sizes : len' = [len EXCEPT ![nextId] = s]
  /\ UNCHANGED << mem, existing, status, start, got >>

(* The loop ends without a block: PrepareData returns 0. *)
GiveUp(t) ==
  /\ at[t] >= Capacity
  /\ Goto(t, "claim", "idle")
  /\ status' = [status EXCEPT ![id[t]] = "refused"]
  /\ UNCHANGED << mem, existing, nextId, at, id, len, start, got >>

(* Variant: a block is taken for free because it is not readable. *)
ClaimUnreadable(t) ==
  /\ at[t] < Capacity
  /\ \/ /\ mem[at[t]].valid = 0
        /\ Goto(t, "claim", "fit")
        /\ Store(at[t], "prepare", 1)
     \/ /\ mem[at[t]].valid # 0
        /\ Goto(t, "claim", "skip")
        /\ UNCHANGED mem
  /\ UNCHANGED << existing, nextId, at, id, ghosts >>

(* CAS(prepare, 0 -> 1) at the scan pointer. *)
Claim(t) ==
  /\ at[t] < Capacity
  /\ \/ /\ mem[at[t]].prepare = 0
        /\ Goto(t, "claim", "fit")
        /\ Store(at[t], "prepare", 1)
     \/ /\ mem[at[t]].prepare # 0
        /\ Goto(t, "claim", "skip")
        /\ UNCHANGED mem
  /\ UNCHANGED << existing, nextId, at, id, ghosts >>

(* The size of the claimed block decides: split it, use it as it is, join  *)
(* it with its successor, or, when it is the last block, go on scanning.   *)
Fit(t) ==
  LET size == mem[at[t]].size
      s == len[id[t]]
  IN /\ \/ Goto(t, "fit", "splitLength") /\ size >= s + Hdr
        \/ Goto(t, "fit", "setLength") /\ size \in s .. s + Hdr - 1
        \/ Goto(t, "fit", "absorb") /\ size < s /\ Next2(t) < Capacity
        \/ Goto(t, "fit", "skip") /\ size < s /\ Next2(t) >= Capacity
     /\ UNCHANGED << mem, existing, nextId, at, id, ghosts >>

SplitStore(t, from, field, v, to) ==
  /\ Goto(t, from, to)
  /\ Store(Second(t), field, v)
  /\ UNCHANGED << existing, nextId, at, id, ghosts >>

SplitLength(t)  == SplitStore(t, "splitLength", "length", 0, "splitValid")
SplitValid(t)   == SplitStore(t, "splitValid", "valid", 0, "splitPrepare")
SplitPrepare(t) == SplitStore(t, "splitPrepare", "prepare", 0, "splitSize")

(* Variant: the second header's own size is not taken off. *)
SplitSizeNoHeader(t) ==
  SplitStore(t, "splitSize", "size", mem[at[t]].size - len[id[t]], "shrink")

SplitSize(t) ==
  SplitStore(t, "splitSize", "size", mem[at[t]].size - len[id[t]] - Hdr, "shrink")

(* The new block becomes reachable. *)
Shrink(t) ==
  /\ Goto(t, "shrink", "setLength")
  /\ Store(at[t], "size", len[id[t]])
  /\ UNCHANGED << existing, nextId, at, id, ghosts >>

(* Length is set and the data pointer returned. *)
SetLength(t) ==
  /\ Goto(t, "setLength", "fill")
  /\ Store(at[t], "length", len[id[t]])
  /\ status' = [status EXCEPT ![id[t]] = "writing"]
  /\ start' = [start EXCEPT ![id[t]] = at[t] + Hdr]
  /\ UNCHANGED << existing, nextId, at, id, len, got >>

(* Variant: the successor is joined without asking whether it is free. *)
AbsorbAnyway(t) ==
  /\ Goto(t, "absorb", "grow")
  /\ Store(Next2(t), "prepare", 1)
  /\ UNCHANGED << existing, nextId, at, id, ghosts >>

(* Variant: one header too many is added. *)
GrowTooFar(t) ==
  /\ Goto(t, "grow", "restart")
  /\ Store(at[t], "size", mem[at[t]].size + mem[Next2(t)].size + Hdr + Hdr)
  /\ UNCHANGED << existing, nextId, at, id, ghosts >>

(* CAS(prepare, 0 -> 1) on the successor of a block that is too small. *)
Absorb(t) ==
  LET n == Next2(t) IN
  /\ \/ /\ Goto(t, "absorb", "grow")
        /\ mem[n].prepare = 0
        /\ Store(n, "prepare", 1)
     \/ /\ Goto(t, "absorb", "unclaim")
        /\ mem[n].prepare # 0
        /\ UNCHANGED mem
  /\ UNCHANGED << existing, nextId, at, id, ghosts >>

Grow(t) ==
  /\ Goto(t, "grow", "restart")
  /\ Store(at[t], "size", mem[at[t]].size + mem[Next2(t)].size + Hdr)
  /\ UNCHANGED << existing, nextId, at, id, ghosts >>

(* Free the joined block and start over: the recursive call. *)
Restart(t) ==
  /\ Goto(t, "restart", "claim")
  /\ Store(at[t], "prepare", 0)
  /\ at' = [at EXCEPT ![t] = 0]
  /\ UNCHANGED << existing, nextId, id, ghosts >>

(* Variant: the call starts over here as well. *)
UnclaimRestarts(t) ==
  /\ Goto(t, "unclaim", "claim")
  /\ Store(at[t], "prepare", 0)
  /\ at' = [at EXCEPT ![t] = 0]
  /\ UNCHANGED << existing, nextId, id, ghosts >>

(* Variant: the block stays marked. *)
UnclaimForgets(t) ==
  /\ Goto(t, "unclaim", "skip")
  /\ UNCHANGED << mem, existing, nextId, at, id, ghosts >>

(* The successor is in use: free the block and look further. *)
Unclaim(t) ==
  /\ Goto(t, "unclaim", "skip")
  /\ Store(at[t], "prepare", 0)
  /\ UNCHANGED << existing, nextId, at, id, ghosts >>

Skip(t) ==
  /\ Goto(t, "skip", "claim")
  /\ at' = [at EXCEPT ![t] = After(@)]
  /\ UNCHANGED << mem, existing, nextId, id, ghosts >>

-----------------------------------------------------------------------------
(***************************************************************************)
(* The sender fills its region and calls SendData.                         *)
(***************************************************************************)
Region(p) == start[p] .. start[p] + len[p] - 1

(* The header fields of ALsdSend_... and ALmemCopyData: the data may hold  *)
(* any bytes.                                                              *)
Fill(t) ==
  /\ Goto(t, "fill", "publish")
  /\ \E m \in Images :
       mem' = [o \in Area |->
                IF o \in Region(id[t])
                THEN [valid |-> m.valid, prepare |-> m.prepare,
                      length |-> m.length, size |-> m.size, pkt |-> id[t]]
                ELSE mem[o]]
  /\ UNCHANGED << existing, nextId, at, id, ghosts >>

Publish(t) ==
  /\ MayCall
  /\ Goto(t, "publish", "count")
  /\ Store(start[id[t]] - Hdr, "valid", 1)
  /\ status' = [status EXCEPT ![id[t]] = "sent"]
  /\ UNCHANGED << existing, nextId, at, id, len, start, got >>

Count(t) ==
  /\ Goto(t, "count", "idle")
  /\ existing' = Short(existing + 1)
  /\ UNCHANGED << mem, nextId, at, id, ghosts >>

(* Variant: a poll that finds nothing does not give its token back. *)
UnpollForgets(c) ==
  /\ Goto(c, "unpoll", "poll")
  /\ UNCHANGED << mem, existing, nextId, at, id, ghosts >>

-----------------------------------------------------------------------------
(***************************************************************************)
(* ReadData, called in a loop.                                             *)
(***************************************************************************)

(* Variant: the decremented counter must still be positive. *)
PollPositive(c) ==
  /\ MayCall
  /\ existing' = Short(existing - 1)
  /\ \/ Goto(c, "poll", "scan") /\ existing' > 0
     \/ Goto(c, "poll", "unpoll") /\ existing' <= 0
  /\ at' = [at EXCEPT ![c] = 0]
  /\ UNCHANGED << mem, nextId, id, ghosts >>

Poll(c) ==
  /\ MayCall
  /\ existing' = Short(existing - 1)
  /\ \/ Goto(c, "poll", "scan") /\ existing' >= 0
     \/ Goto(c, "poll", "unpoll") /\ existing' < 0
  /\ at' = [at EXCEPT ![c] = 0]
  /\ UNCHANGED << mem, nextId, id, ghosts >>

Unpoll(c) ==
  /\ Goto(c, "unpoll", "poll")
  /\ existing' = Short(existing + 1)
  /\ UNCHANGED << mem, nextId, at, id, ghosts >>

EndScan(c) ==
  /\ at[c] >= Capacity
  /\ Goto(c, "scan", "poll")
  /\ UNCHANGED << mem, existing, nextId, at, id, ghosts >>

(* Variant: the packet is read but stays marked valid. *)
TakeKeepsValid(c) ==
  LET o == at[c]
      here == {p \in Packets : status[p] = "sent" /\ start[p] = o + Hdr}
  IN /\ o < Capacity
     /\ mem[o].valid # 0
     /\ Goto(c, "scan", "handle")
     /\ status' = [p \in Packets |-> IF p \in here THEN "reading" ELSE status[p]]
     /\ got' = [got EXCEPT ![c] = IF here = {} THEN 0
                                  ELSE CHOOSE p \in here : TRUE]
     /\ UNCHANGED << mem, existing, nextId, at, id, len, start >>

(* CAS(valid, 1 -> 0) at the scan pointer; any non-zero old value counts.  *)
Take(c) ==
  LET o == at[c]
      here == {p \in Packets : status[p] = "sent" /\ start[p] = o + Hdr}
  IN /\ o < Capacity
     /\ mem[o].valid # 0
     /\ Goto(c, "scan", "handle")
     /\ Store(o, "valid", IF mem[o].valid = 1 THEN 0 ELSE mem[o].valid)
     /\ status' = [p \in Packets |-> IF p \in here THEN "reading" ELSE status[p]]
     /\ got' = [got EXCEPT ![c] = IF here = {} THEN 0
                                  ELSE CHOOSE p \in here : TRUE]
     /\ UNCHANGED << existing, nextId, at, id, len, start >>

Pass(c) ==
  /\ at[c] < Capacity
  /\ mem[at[c]].valid = 0
  /\ Goto(c, "scan", "advance")
  /\ UNCHANGED << mem, existing, nextId, at, id, ghosts >>

(* handler(data_p->data, data_p->Length), which prints the packet, returns.*)
Handle(c) ==
  /\ Goto(c, "handle", "release")
  /\ status' = [p \in Packets |-> IF p = got[c] THEN "delivered" ELSE status[p]]
  /\ got' = [got EXCEPT ![c] = 0]
  /\ UNCHANGED << mem, existing, nextId, at, id, len, start >>

Release(c) ==
  /\ Goto(c, "release", "advance")
  /\ Store(at[c], "prepare", 0)
  /\ UNCHANGED << existing, nextId, at, id, ghosts >>

Advance(c) ==
  /\ Goto(c, "advance", "scan")
  /\ at' = [at EXCEPT ![c] = After(@)]
  /\ UNCHANGED << mem, existing, nextId, id, ghosts >>

-----------------------------------------------------------------------------
PrepareStep(t) ==
  \/ GiveUp(t) \/ Claim(t) \/ Fit(t)
  \/ SplitLength(t) \/ SplitValid(t) \/ SplitPrepare(t) \/ SplitSize(t)
  \/ Shrink(t) \/ SetLength(t)
  \/ Absorb(t) \/ Grow(t) \/ Restart(t) \/ Unclaim(t) \/ Skip(t)

SendStep(t) == Fill(t) \/ Publish(t) \/ Count(t)

ReadStep(c) ==
  \/ Poll(c) \/ Unpoll(c) \/ EndScan(c)
  \/ Take(c) \/ Pass(c) \/ Handle(c) \/ Release(c) \/ Advance(c)

Next ==
  \/ \E t \in Producers : Call(t) \/ PrepareStep(t) \/ SendStep(t)
  \/ \E c \in Consumers : ReadStep(c)

Spec == Init /\ [][Next]_vars

(* A VM-exit handler runs to the end once it is entered, and put_func      *)
(* reads for ever; nothing obliges a guest to cause another exit.          *)
FairSpec ==
  /\ Spec
  /\ \A t \in Producers : WF_vars(PrepareStep(t) \/ SendStep(t))
  /\ \A c \in Consumers : WF_vars(ReadStep(c))

-----------------------------------------------------------------------------
(***************************************************************************)
(* Correctness.                                                            *)
(***************************************************************************)
(* The variables hold what the program's variables can hold. *)
TypeOK ==
  /\ mem \in [Area -> Header]
  /\ existing \in Word
  /\ nextId \in 1 .. MaxPackets + 1
  /\ pc \in [Threads -> {"idle"} \cup ProducerSteps \cup ConsumerSteps]
  /\ at \in [Threads -> Int]
  /\ id \in [Producers -> 0 .. MaxPackets]
  /\ len \in [Packets -> Sizes \cup {0}]
  /\ status \in [Packets -> {"none", "refused", "writing", "sent", "reading",
                              "delivered"}]
  /\ start \in [Packets -> Int]
  /\ got \in [Consumers -> 0 .. MaxPackets]

Held(p) == IF status[p] \in {"writing", "sent", "reading"} THEN Region(p) ELSE {}

(* The buffer implements its abstract specification: a packet is granted   *)
(* memory nobody else holds, sent, read once, and only then freed.         *)
Channel == INSTANCE PacketChannel
             WITH region <- [p \in Packets |-> Held(p)]
ImplementsChannel == Channel!ChannelSpec

(* What a handler is given is exactly one packet that was sent and not yet *)
(* read, with its own length and its bytes as its sender left them         *)
(* (ReadData's handler call).                                              *)
HandlerSeesPacket ==
  \A c \in Consumers : pc[c] = "handle" =>
    /\ got[c] # 0
    /\ mem[at[c]].length = len[got[c]]
    /\ \A o \in Region(got[c]) : mem[o].pkt = got[c]

(* The blocks tile the data area, from its start exactly to its end, after *)
(* every single store of PrepareData's split and merge: what every scan,   *)
(* which may read the sizes at any moment, relies on.                      *)
Walk[k \in 0 .. Capacity] ==
  IF k = 0 THEN 0
  ELSE IF Walk[k - 1] < Capacity THEN After(Walk[k - 1]) ELSE Walk[k - 1]

BlocksTile ==
  Walk[Capacity] = Capacity

Blocks == {Walk[k] : k \in 0 .. Capacity} \cap Area

(* No wake-up is lost: when no pass is under way, the packets waiting are  *)
(* covered by existing and the increments still owed to it, so the next    *)
(* poll finds it positive (ReadData's token, SendData's increment).        *)
Owed == Cardinality({t \in Producers : pc[t] = "count"})
        + Cardinality({c \in Consumers : pc[c] = "unpoll"})
NoLostWakeup ==
  /\ TypeOK
  /\ (\A c \in Consumers : pc[c] \in {"poll", "unpoll"}) =>
       Cardinality({p \in Packets : status[p] = "sent"}) <= existing + Owed

(* The block of a packet that was sent and not yet released is not split,  *)
(* joined or given another length under its reader.                        *)
BlockFrozen ==
  [][\A p \in Packets :
       status[p] \in {"sent", "reading"} /\ status'[p] = status[p] =>
         LET o == start[p] - Hdr IN
           mem'[o].size = mem[o].size /\ mem'[o].length = mem[o].length]_vars

(* Every packet whose SendData went through reaches the handler: existing, *)
(* the number of packets present (Buffer.h:43), makes the reader look.     *)
EverySentIsDelivered ==
  \A p \in Packets : status[p] = "sent" ~> status[p] = "delivered"

(* PrepareData returns, however many times it joins blocks and starts over.*)
PrepareReturns ==
  \A t \in Producers : pc[t] = "claim" ~> pc[t] \in {"idle", "fill"}

(* Memory is lost at the end of the area only: a block that carries the    *)
(* mark of a block being written, with no producer working on it and no    *)
(* packet in it that its reader has yet to release, is the last one        *)
(* (PrepareData leaves the mark on a last block that is too small).        *)
InUse(o) ==
  \/ \E t \in Producers : pc[t] \notin {"idle", "claim", "skip"} /\
        (at[t] = o \/ (pc[t] = "grow" /\ Next2(t) = o))
  \/ \E p \in Packets : Held(p) # {} /\ start[p] = o + Hdr
  \/ \E c \in Consumers : pc[c] = "release" /\ at[c] = o
OnlyTailLeaks ==
  \A o \in Blocks : mem[o].prepare # 0 => InUse(o) \/ After(o) = Capacity
=============================================================================

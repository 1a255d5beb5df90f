---------------------------- MODULE ShaIO_proofs ----------------------------
(***************************************************************************)
(* The shared packet buffer, for any number of threads and packets, any    *)
(* area and any packet contents, when the callers serialise their calls or *)
(* all packets have one size.                                              *)
(***************************************************************************)
EXTENDS ShaIO, TLAPS, WellFoundedInduction, FiniteSetTheorems

(* The buffer's users keep out of each other's way: one call at a time, or *)
(* no block is ever joined with its successor.                             *)
Calm == Serial \/ \A r, s \in Sizes : r = s

-----------------------------------------------------------------------------
(* The inductive invariant.  B is the set of the blocks' offsets.          *)
ClaimSteps == {"fit", "splitLength", "splitValid", "splitPrepare", "splitSize",
               "shrink", "setLength", "absorb", "grow", "restart", "unclaim"}
SplitSteps == {"splitLength", "splitValid", "splitPrepare", "splitSize", "shrink"}
JoinSteps  == {"absorb", "grow", "restart", "unclaim"}
HeldStages == {"writing", "sent", "reading"}

(* Who uses the block at o: the producer that claimed it or joins it to    *)
(* its own, the packet in it, the consumer that is about to free it.       *)
Works(t, o) == \/ pc[t] \in ClaimSteps /\ at[t] = o
               \/ pc[t] = "grow" /\ Next2(t) = o
Holds(p, o) == status[p] \in HeldStages /\ start[p] = o + Hdr
Frees(c, o) == pc[c] = "release" /\ at[c] = o
Used(o) == \/ \E t \in Producers : Works(t, o)
           \/ \E p \in Packets : Holds(p, o)
           \/ \E c \in Consumers : Frees(c, o)

(* No block has two users. *)
Alone ==
  \A o \in Area :
    /\ \A t, u \in Producers : Works(t, o) /\ Works(u, o) => t = u
    /\ \A p, q \in Packets : Holds(p, o) /\ Holds(q, o) => p = q
    /\ \A c, d \in Consumers : Frees(c, o) /\ Frees(d, o) => c = d
    /\ \A t \in Producers, p \in Packets : ~(Works(t, o) /\ Holds(p, o))
    /\ \A t \in Producers, c \in Consumers : ~(Works(t, o) /\ Frees(c, o))
    /\ \A p \in Packets, c \in Consumers : ~(Holds(p, o) /\ Frees(c, o))

OneCaller == Serial => \A t, u \in Threads : InCall(t) /\ InCall(u) => t = u

Distinct ==
  /\ \A p \in Packets : p >= nextId => status[p] = "none"
  /\ \A t, u \in Producers : id[t] = id[u] => t = u \/ id[t] = 0
  /\ \A c, d \in Consumers :
       pc[c] = "handle" /\ pc[d] = "handle" /\ got[c] = got[d] => c = d

(* The blocks tile the area. *)
Tiled(B) ==
  /\ 0 \in B
  /\ \A o \in B : mem[o].size >= 0 /\ After(o) \in B \cup {Capacity}
  /\ \A o, b \in B : o < b => After(o) <= b

(* Callers that interleave all ask for one size, so that each block but    *)
(* the last has it.                                                        *)
Even(B) == ~Serial => \A o \in B, s \in Sizes : mem[o].size = s \/ After(o) = Capacity

(* prepare is set in the blocks in use, and may stay set in the last one.  *)
Marked(B) ==
  \A o \in B :
    /\ mem[o].prepare = 0 => ~Used(o)
    /\ mem[o].prepare # 0 => Used(o) \/ After(o) = Capacity

(* valid is set in the blocks of the packets that were sent. *)
Valids(B) ==
  \A o \in B : mem[o].valid # 0 =>
    mem[o].valid = 1 /\ \E p \in Packets : status[p] = "sent" /\ start[p] = o + Hdr

(* What a packet was granted is a block's data, and stays as it was left.  *)
GrantedTo(p, B) ==
  /\ status[p] \in HeldStages =>
       /\ start[p] - Hdr \in B /\ len[p] \in Sizes
       /\ mem[start[p] - Hdr].size >= len[p]
       /\ mem[start[p] - Hdr].length = len[p]
  /\ status[p] = "sent" => mem[start[p] - Hdr].valid = 1
  /\ status[p] \in {"sent", "reading"} => \A x \in Region(p) : mem[x].pkt = p
Granted(B) == \A p \in Packets : GrantedTo(p, B)

(* Where a producer is, and what it has written so far. *)
ProducerOK(t, B) ==
  /\ id[t] < nextId
  /\ pc[t] # "idle" => id[t] # 0 /\ len[id[t]] \in Sizes
  /\ pc[t] \in ClaimSteps \cup {"claim", "skip"} => status[id[t]] = "none"
  /\ pc[t] \in {"fill", "publish"} => status[id[t]] = "writing"
  /\ pc[t] = "claim" => at[t] \in B \cup {Capacity}
  /\ pc[t] \in ClaimSteps \cup {"skip"} => at[t] \in B
  /\ pc[t] \in JoinSteps => Serial
  /\ pc[t] \in {"absorb", "grow"} => Next2(t) \in B
  /\ pc[t] \in SplitSteps => mem[at[t]].size >= len[id[t]] + Hdr
  /\ pc[t] = "setLength" => mem[at[t]].size >= len[id[t]]
  /\ pc[t] \in {"splitPrepare", "splitSize", "shrink"} => mem[Second(t)].valid = 0
  /\ pc[t] \in {"splitSize", "shrink"} => mem[Second(t)].prepare = 0
  /\ pc[t] = "shrink" => mem[Second(t)].size = mem[at[t]].size - len[id[t]] - Hdr
  /\ pc[t] = "publish" => \A x \in Region(id[t]) : mem[x].pkt = id[t]

(* Where a consumer is, and the packet it handles. *)
ConsumerOK(c, B) ==
  /\ pc[c] = "scan" => at[c] \in B \cup {Capacity}
  /\ pc[c] \in {"handle", "release", "advance"} => at[c] \in B
  /\ pc[c] = "handle" =>
       got[c] # 0 /\ status[got[c]] = "reading" /\ start[got[c]] = at[c] + Hdr

BlocksOK(B) == Tiled(B) /\ Even(B) /\ Alone /\ Marked(B) /\ Valids(B) /\ Granted(B)

Inv(B) ==
  /\ TypeOK /\ OneCaller /\ Distinct /\ BlocksOK(B)
  /\ \A t \in Producers : ProducerOK(t, B)
  /\ \A c \in Consumers : ConsumerOK(c, B)

ShaInv == \E B \in SUBSET Area : Inv(B)

-----------------------------------------------------------------------------
(* What one store does. *)
LEMMA StoreValid ==
  ASSUME mem \in [Area -> Header], NEW o \in Area, NEW v \in Nat, Store(o, "valid", v)
  PROVE  /\ mem' \in [Area -> Header]
         /\ \A x \in Area : x # o => mem'[x] = mem[x]
         /\ mem'[o].valid = v /\ mem'[o].prepare = mem[o].prepare
         /\ mem'[o].length = mem[o].length /\ mem'[o].size = mem[o].size
<1>1. 0 \in 0 .. MaxPackets
  BY SizesAssumption
<1> QED BY <1>1 DEF Store, Header

LEMMA StorePrepare ==
  ASSUME mem \in [Area -> Header], NEW o \in Area, NEW v \in Nat, Store(o, "prepare", v)
  PROVE  /\ mem' \in [Area -> Header]
         /\ \A x \in Area : x # o => mem'[x] = mem[x]
         /\ mem'[o].prepare = v /\ mem'[o].valid = mem[o].valid
         /\ mem'[o].length = mem[o].length /\ mem'[o].size = mem[o].size
<1>1. 0 \in 0 .. MaxPackets
  BY SizesAssumption
<1> QED BY <1>1 DEF Store, Header

LEMMA StoreLength ==
  ASSUME mem \in [Area -> Header], NEW o \in Area, NEW v \in Nat, Store(o, "length", v)
  PROVE  /\ mem' \in [Area -> Header]
         /\ \A x \in Area : x # o => mem'[x] = mem[x]
         /\ mem'[o].length = v /\ mem'[o].valid = mem[o].valid
         /\ mem'[o].prepare = mem[o].prepare /\ mem'[o].size = mem[o].size
<1>1. 0 \in 0 .. MaxPackets
  BY SizesAssumption
<1> QED BY <1>1 DEF Store, Header

LEMMA StoreSize ==
  ASSUME mem \in [Area -> Header], NEW o \in Area, NEW v \in Int, Store(o, "size", v)
  PROVE  /\ mem' \in [Area -> Header]
         /\ \A x \in Area : x # o => mem'[x] = mem[x]
         /\ mem'[o].size = v /\ mem'[o].valid = mem[o].valid
         /\ mem'[o].prepare = mem[o].prepare /\ mem'[o].length = mem[o].length
<1>1. 0 \in 0 .. MaxPackets
  BY SizesAssumption
<1> QED BY <1>1 DEF Store, Header

-----------------------------------------------------------------------------
(* Where blocks are. *)
LEMMA Consts ==
  /\ Hdr \in Nat /\ Hdr > 0 /\ Capacity \in Nat /\ Capacity >= Hdr /\ MaxPackets \in Nat
  /\ \A s \in Sizes : s \in Nat /\ s > 0
  /\ 0 \in Area /\ \A x \in Area : x \in Nat /\ x < Capacity
  /\ \A x \in Int : x \in Area <=> 0 <= x /\ x < Capacity
BY SizesAssumption DEF Area

LEMMA BlockIs ==
  ASSUME mem \in [Area -> Header], NEW B \in SUBSET Area, Tiled(B), NEW o \in B
  PROVE  /\ o \in Area /\ o \in Nat /\ mem[o].size \in Int /\ mem[o].size >= 0
         /\ After(o) \in Int /\ After(o) >= o + Hdr /\ After(o) <= Capacity
         /\ After(o) = o + Hdr + mem[o].size
<1>1. o \in Area /\ o \in Nat /\ mem[o].size \in Int
  BY Consts DEF Header
<1>2. mem[o].size >= 0
  BY DEF Tiled
<1>3. After(o) \in B \cup {Capacity} /\ After(o) = o + Hdr + mem[o].size
  BY DEF Tiled, After
<1>4. After(o) <= Capacity
  BY <1>3, Consts
<1> QED BY <1>1, <1>2, <1>3, <1>4, Consts

(* What is inside a block is in no other, and is no block's header.        *)
LEMMA Inside ==
  ASSUME mem \in [Area -> Header], NEW B \in SUBSET Area, Tiled(B), NEW o \in B,
         NEW x \in Int, o < x, x < After(o)
  PROVE  /\ x \notin B /\ x \in Area
         /\ \A b \in B : b < x /\ x < After(b) => b = o
<1>1. /\ o \in Nat /\ After(o) \in Int /\ After(o) <= Capacity
  BY BlockIs
<1>2. \A b \in B : b \in Nat /\ After(b) \in Int /\ (o < b => After(o) <= b) /\ (b < o => After(b) <= o)
  BY BlockIs DEF Tiled
<1>3. x \in Area
  BY <1>1, Consts
<1>4. x \notin B
  BY <1>1, <1>2
<1>5. \A b \in B : b < x /\ x < After(b) => b = o
  BY <1>1, <1>2
<1> QED BY <1>3, <1>4, <1>5

(* The data of a packet is inside its block. *)
LEMMA RegionInside ==
  ASSUME mem \in [Area -> Header], NEW B \in SUBSET Area, Tiled(B), NEW p \in Packets,
         start[p] - Hdr \in B, start[p] \in Int, len[p] \in Sizes,
         mem[start[p] - Hdr].size >= len[p], NEW x \in Region(p)
  PROVE  /\ x \in Int /\ start[p] - Hdr < x /\ x < After(start[p] - Hdr)
         /\ x \in Area /\ x \notin B
<1>1. PICK o \in B : o = start[p] - Hdr
  OBVIOUS
<1>2. PICK n \in Nat : n = len[p] /\ n > 0
  BY Consts
<1>3. x \in Int /\ start[p] <= x /\ x <= start[p] + n - 1
  BY <1>2 DEF Region
<1>4. o < x /\ x < After(o)
  BY <1>1, <1>2, <1>3, BlockIs, Consts
<1>5. x \in Area /\ x \notin B
  BY <1>3, <1>4, Inside
<1> QED BY <1>1, <1>3, <1>4, <1>5

-----------------------------------------------------------------------------
(* What a step leaves alone. *)
LEMMA Moved ==
  ASSUME TypeOK, NEW t \in Threads, NEW from,
         NEW to \in {"idle"} \cup ProducerSteps \cup ConsumerSteps, Goto(t, from, to)
  PROVE  /\ pc' \in [Threads -> {"idle"} \cup ProducerSteps \cup ConsumerSteps]
         /\ pc[t] = from /\ pc'[t] = to /\ \A u \in Threads : u # t => pc'[u] = pc[u]
BY DEF TypeOK, Goto

LEMMA OneCallerKeeps ==
  ASSUME OneCaller, NEW t \in Threads, \A u \in Threads : u # t => pc'[u] = pc[u],
         InCall(t) \/ MayCall \/ ~InCall(t)'
  PROVE  OneCaller'
BY DEF OneCaller, InCall, MayCall

(* A producer that does not move keeps what it has, if its block and the   *)
(* data it filled are left as they are.                                    *)
Untouched(u, B, C) ==
  /\ pc'[u] = pc[u] /\ at'[u] = at[u] /\ id'[u] = id[u]
  /\ pc[u] # "idle" => len'[id[u]] = len[id[u]]
  /\ pc[u] \in ClaimSteps \cup {"claim", "skip", "fill", "publish"} =>
       status'[id[u]] = status[id[u]] /\ start'[id[u]] = start[id[u]]
  /\ InCall(u) => B \subseteq C
  /\ pc[u] \in ClaimSteps => mem'[at[u]].size = mem[at[u]].size
  /\ pc[u] \in SplitSteps => mem'[Second(u)] = mem[Second(u)]
  /\ pc[u] = "publish" => \A x \in Region(id[u]) : mem'[x] = mem[x]

LEMMA ProducerKeeps ==
  ASSUME NEW u \in Producers, NEW B, NEW C, ProducerOK(u, B), Untouched(u, B, C),
         nextId \in Int, nextId' \in Int, nextId' >= nextId, id[u] \in Int
  PROVE  ProducerOK(u, C)'
<1>1. pc'[u] = pc[u] /\ at'[u] = at[u] /\ id'[u] = id[u]
  BY DEF Untouched
<1>2. id'[u] < nextId'
  BY <1>1 DEF ProducerOK
<1>3. CASE pc[u] = "idle"
  BY <1>1, <1>2, <1>3 DEF ProducerOK, ClaimSteps, JoinSteps, SplitSteps
<1>4. CASE pc[u] # "idle"
  <2>1. /\ len'[id[u]] = len[id[u]]
        /\ pc[u] \in ClaimSteps \cup {"claim", "skip", "fill", "publish"} =>
             status'[id[u]] = status[id[u]] /\ start'[id[u]] = start[id[u]]
    BY <1>4 DEF Untouched
  <2>2. /\ pc[u] = "publish" => Region(id[u])' = Region(id[u])
        /\ Second(u)' = Second(u)
    BY <1>1, <2>1 DEF Region, Second
  <2>3. /\ pc'[u] # "idle" => id'[u] # 0 /\ len'[id'[u]] \in Sizes
        /\ pc'[u] \in ClaimSteps \cup {"claim", "skip"} => status'[id'[u]] = "none"
        /\ pc'[u] \in {"fill", "publish"} => status'[id'[u]] = "writing"
    BY <1>1, <2>1 DEF ProducerOK
  <2>4. /\ pc'[u] = "claim" => at'[u] \in C \cup {Capacity}
        /\ pc'[u] \in ClaimSteps \cup {"skip"} => at'[u] \in C
        /\ pc'[u] \in JoinSteps => Serial
    BY <1>1 DEF ProducerOK, Untouched, InCall, ClaimSteps
  <2>5. pc[u] \in ClaimSteps => mem'[at[u]].size = mem[at[u]].size /\ Next2(u)' = Next2(u)
    BY <1>1 DEF Untouched, Next2, After
  <2>6. /\ pc'[u] \in {"absorb", "grow"} => Next2(u)' \in C
        /\ pc'[u] \in SplitSteps => mem'[at'[u]].size >= len'[id'[u]] + Hdr
        /\ pc'[u] = "setLength" => mem'[at'[u]].size >= len'[id'[u]]
    BY <1>1, <2>1, <2>5 DEF ProducerOK, Untouched, InCall, ClaimSteps, SplitSteps
  <2>7. pc[u] \in SplitSteps => mem'[Second(u)'] = mem[Second(u)] /\ mem'[at'[u]].size = mem[at[u]].size
    BY <1>1, <2>2, <2>5 DEF Untouched, SplitSteps, ClaimSteps
  <2>8. /\ pc'[u] \in {"splitPrepare", "splitSize", "shrink"} => mem'[Second(u)'].valid = 0
        /\ pc'[u] \in {"splitSize", "shrink"} => mem'[Second(u)'].prepare = 0
        /\ pc'[u] = "shrink" => mem'[Second(u)'].size = mem'[at'[u]].size - len'[id'[u]] - Hdr
    BY <1>1, <2>1, <2>7 DEF ProducerOK, SplitSteps
  <2>9. pc'[u] = "publish" => \A x \in Region(id[u])' : mem'[x].pkt = id'[u]
    BY <1>1, <2>2 DEF ProducerOK, Untouched
  <2> QED BY <1>1, <1>2, <2>3, <2>4, <2>6, <2>8, <2>9 DEF ProducerOK
<1> QED BY <1>3, <1>4

LEMMA ConsumerKeeps ==
  ASSUME NEW c \in Consumers, NEW B, NEW C, ConsumerOK(c, B),
         pc'[c] = pc[c], at'[c] = at[c], got'[c] = got[c],
         pc[c] = "handle" => status'[got[c]] = "reading" /\ start'[got[c]] = start[got[c]],
         InCall(c) => B \subseteq C
  PROVE  ConsumerOK(c, C)'
BY DEF ConsumerOK, InCall

(* Blocks stay as they are when no header, no packet and no use changes.   *)
SamePackets ==
  /\ start' = start
  /\ \A p \in Packets : status[p] \in HeldStages \/ status'[p] \in HeldStages
       => status'[p] = status[p] /\ len'[p] = len[p]

SameUses ==
  /\ \A t \in Producers, o \in Area : Works(t, o)' <=> Works(t, o)
  /\ \A c \in Consumers, o \in Area : Frees(c, o)' <=> Frees(c, o)

LEMMA TiledKeeps ==
  ASSUME NEW B, Tiled(B), \A o \in B : mem'[o].size = mem[o].size
  PROVE  Tiled(B)'
BY DEF Tiled, After

LEMMA EvenKeeps ==
  ASSUME NEW B, Even(B), \A o \in B : mem'[o].size = mem[o].size
  PROVE  Even(B)'
BY DEF Even, After

LEMMA AloneKeeps ==
  ASSUME Alone,
         \A t \in Producers, o \in Area : Works(t, o)' => Works(t, o),
         \A p \in Packets, o \in Area : Holds(p, o)' => Holds(p, o),
         \A c \in Consumers, o \in Area : Frees(c, o)' => Frees(c, o)
  PROVE  Alone'
<1> SUFFICES ASSUME NEW o \in Area
             PROVE  /\ \A t, u \in Producers : Works(t, o)' /\ Works(u, o)' => t = u
                    /\ \A p, q \in Packets : Holds(p, o)' /\ Holds(q, o)' => p = q
                    /\ \A c, d \in Consumers : Frees(c, o)' /\ Frees(d, o)' => c = d
                    /\ \A t \in Producers, p \in Packets : ~(Works(t, o)' /\ Holds(p, o)')
                    /\ \A t \in Producers, c \in Consumers : ~(Works(t, o)' /\ Frees(c, o)')
                    /\ \A p \in Packets, c \in Consumers : ~(Holds(p, o)' /\ Frees(c, o)')
  BY Zenon DEF Alone
<1> QED BY DEF Alone

LEMMA HoldsSame ==
  ASSUME SamePackets
  PROVE  \A p \in Packets, o \in Area : Holds(p, o)' <=> Holds(p, o)
BY DEF SamePackets, Holds

(* The packets stay what they are when their headers and data do.          *)
LEMMA PacketsKeep ==
  ASSUME NEW B, Granted(B), Valids(B), SamePackets,
         \A o \in B : /\ mem'[o].valid = mem[o].valid /\ mem'[o].size = mem[o].size
                     /\ mem'[o].length = mem[o].length,
         \A p \in Packets : status[p] \in {"sent", "reading"}
           => \A x \in Region(p) : mem'[x] = mem[x]
  PROVE  Granted(B)' /\ Valids(B)'
<1>1. \A p \in Packets : status[p] = "sent" => status'[p] = "sent" /\ start'[p] = start[p]
  BY DEF SamePackets, HeldStages
<1>2. Valids(B)'
  BY <1>1 DEF Valids
<1>3. Granted(B)'
  <2> SUFFICES ASSUME NEW p \in Packets, status'[p] \in HeldStages
               PROVE  /\ start'[p] - Hdr \in B /\ len'[p] \in Sizes
                      /\ mem'[start'[p] - Hdr].size >= len'[p]
                      /\ mem'[start'[p] - Hdr].length = len'[p]
                      /\ status'[p] = "sent" => mem'[start'[p] - Hdr].valid = 1
                      /\ status'[p] \in {"sent", "reading"} => \A x \in Region(p)' : mem'[x].pkt = p
    BY DEF Granted, GrantedTo, HeldStages
  <2>1. status'[p] = status[p] /\ len'[p] = len[p] /\ start'[p] = start[p]
    BY DEF SamePackets
  <2>2. Region(p)' = Region(p)
    BY <2>1 DEF Region
  <2>3. start[p] - Hdr \in B
    BY <2>1 DEF Granted, GrantedTo
  <2> QED BY <2>1, <2>2, <2>3 DEF Granted, GrantedTo
<1> QED BY <1>2, <1>3

LEMMA BlocksKeep ==
  ASSUME NEW B \in SUBSET Area, BlocksOK(B), SamePackets, SameUses,
         \A o \in B : mem'[o] = mem[o],
         \A p \in Packets : status[p] \in {"sent", "reading"}
           => \A x \in Region(p) : mem'[x] = mem[x]
  PROVE  BlocksOK(B)'
<1>1. Tiled(B)' /\ Even(B)'
  BY TiledKeeps, EvenKeeps DEF BlocksOK
<1>2. \A p \in Packets, o \in Area : Holds(p, o)' <=> Holds(p, o)
  BY HoldsSame
<1>3. Alone'
  BY <1>2, AloneKeeps DEF BlocksOK, SameUses
<1>4. \A o \in Area : Used(o)' <=> Used(o)
  BY <1>2 DEF Used, SameUses
<1>5. \A o \in B : After(o)' = After(o)
  BY DEF After
<1>6. Marked(B)'
  BY <1>4, <1>5 DEF BlocksOK, Marked
<1>7. Granted(B)' /\ Valids(B)'
  BY PacketsKeep DEF BlocksOK
<1> QED BY <1>1, <1>3, <1>6, <1>7 DEF BlocksOK

(* Only t moves. *)
OnlyMoves(t) ==
  /\ \A u \in Threads : u # t => pc'[u] = pc[u] /\ at'[u] = at[u]
  /\ \A u \in Producers : u # t => id'[u] = id[u]
  /\ \A c \in Consumers : c # t => got'[c] = got[c]

LEMMA WorksSame ==
  ASSUME NEW u, NEW o, pc'[u] = pc[u], at'[u] = at[u],
         pc[u] = "grow" => mem'[at[u]].size = mem[at[u]].size
  PROVE  Works(u, o)' <=> Works(u, o)
BY DEF Works, Next2, After

(* A producer's step that writes nothing and takes or gives no block.      *)
ProducerIdles(t, B) ==
  /\ OnlyMoves(t) /\ UNCHANGED << mem, start, got >>
  /\ InCall(t) \/ MayCall \/ ~InCall(t)'
  /\ nextId' \in Int /\ nextId' >= nextId
  /\ \A p \in Packets : p # id'[t] => status'[p] = status[p] /\ len'[p] = len[p]
  /\ SamePackets
  /\ \A o \in Area : Works(t, o)' <=> Works(t, o)

LEMMA ProducerIdling ==
  ASSUME NEW B \in SUBSET Area, Inv(B), NEW t \in Producers, ProducerIdles(t, B),
         TypeOK', ProducerOK(t, B)', Distinct'
  PROVE  Inv(B)'
<1>1. OneCaller'
  <2>1. t \in Threads /\ \A u \in Threads : u # t => pc'[u] = pc[u]
    BY DEF Threads, ProducerIdles, OnlyMoves
  <2>2. InCall(t) \/ MayCall \/ ~InCall(t)'
    BY DEF ProducerIdles
  <2> QED BY <2>1, <2>2, OneCallerKeeps DEF Inv
<1>2. SameUses
  <2>1. \A u \in Producers, o \in Area : u # t => (Works(u, o)' <=> Works(u, o))
    BY WorksSame DEF ProducerIdles, OnlyMoves, Threads
  <2>2. \A c \in Consumers, o \in Area : Frees(c, o)' <=> Frees(c, o)
    BY ThreadsAssumption DEF ProducerIdles, OnlyMoves, Frees, Threads
  <2> QED BY <2>1, <2>2 DEF SameUses, ProducerIdles
<1>3. BlocksOK(B)'
  <2>1. SamePackets /\ mem' = mem
    BY DEF ProducerIdles
  <2> QED BY <1>2, <2>1, BlocksKeep DEF Inv
<1>4. ASSUME NEW u \in Producers PROVE ProducerOK(u, B)'
  <2>1. CASE u = t
    BY <2>1
  <2>2. CASE u # t
    <3>1. pc'[u] = pc[u] /\ at'[u] = at[u] /\ id'[u] = id[u]
      BY <2>2 DEF ProducerIdles, OnlyMoves, Threads
    <3>2. ProducerOK(u, B) /\ nextId \in Int /\ nextId' \in Int /\ nextId' >= nextId /\ id[u] \in Int
      BY SizesAssumption DEF Inv, TypeOK, ProducerIdles
    <3>3. pc[u] # "idle" => id[u] # 0 /\ id[u] \in Packets /\ id[u] # id'[t]
      <4>1. id'[u] = id'[t] => id'[u] = 0
        BY <2>2 DEF Distinct
      <4>2. pc[u] # "idle" => id[u] # 0 /\ id[u] \in Packets
        BY SizesAssumption DEF Inv, TypeOK, ProducerOK, Packets
      <4> QED BY <3>1, <4>1, <4>2
    <3>4. Untouched(u, B, B)
      <4>1. pc[u] \in ClaimSteps \cup {"claim", "skip", "fill", "publish"} => pc[u] # "idle"
        BY DEF ClaimSteps
      <4> QED BY <3>1, <3>3, <4>1 DEF ProducerIdles, Untouched
    <3> QED BY <3>2, <3>4, ProducerKeeps
  <2> QED BY <2>1, <2>2
<1>5. ASSUME NEW c \in Consumers PROVE ConsumerOK(c, B)'
  <2>1. pc'[c] = pc[c] /\ at'[c] = at[c] /\ got'[c] = got[c]
    BY ThreadsAssumption DEF ProducerIdles, OnlyMoves, Threads
  <2>2. ConsumerOK(c, B)
    BY DEF Inv
  <2>3. pc[c] = "handle" => status'[got[c]] = "reading" /\ start'[got[c]] = start[got[c]]
    <3>1. pc[c] = "handle" => got[c] \in Packets /\ status[got[c]] = "reading"
      BY <2>2, SizesAssumption DEF Inv, TypeOK, ConsumerOK, Packets
    <3> QED BY <3>1 DEF ProducerIdles, SamePackets, HeldStages
  <2> QED BY <2>1, <2>2, <2>3, ConsumerKeeps
<1> QED BY <1>1, <1>3, <1>4, <1>5 DEF Inv

(* A consumer's step that writes nothing and takes or gives no block.      *)
ConsumerIdles(c) ==
  /\ OnlyMoves(c) /\ UNCHANGED << mem, start, got, status, len, nextId, id >>
  /\ InCall(c) \/ MayCall \/ ~InCall(c)'
  /\ pc[c] \notin {"handle", "release"} /\ pc'[c] \notin {"handle", "release"}

LEMMA ConsumerIdling ==
  ASSUME NEW B \in SUBSET Area, Inv(B), NEW c \in Consumers, ConsumerIdles(c),
         TypeOK', ConsumerOK(c, B)'
  PROVE  Inv(B)'
<1>0. \A d \in Consumers : d # c => pc'[d] = pc[d] /\ at'[d] = at[d]
  BY DEF ConsumerIdles, OnlyMoves, Threads
<1>1. OneCaller'
  <2>1. c \in Threads /\ \A u \in Threads : u # c => pc'[u] = pc[u]
    BY DEF Threads, ConsumerIdles, OnlyMoves
  <2>2. InCall(c) \/ MayCall \/ ~InCall(c)'
    BY DEF ConsumerIdles
  <2> QED BY <2>1, <2>2, OneCallerKeeps DEF Inv
<1>2. SameUses
  <2>1. \A u \in Producers : pc'[u] = pc[u] /\ at'[u] = at[u]
    BY ThreadsAssumption DEF ConsumerIdles, OnlyMoves, Threads
  <2>2. \A u \in Producers, o \in Area : Works(u, o)' <=> Works(u, o)
    BY <2>1, WorksSame DEF ConsumerIdles
  <2>3. \A d \in Consumers, o \in Area : Frees(d, o)' <=> Frees(d, o)
    BY <1>0 DEF ConsumerIdles, Frees
  <2> QED BY <2>2, <2>3 DEF SameUses
<1>3. BlocksOK(B)'
  <2>1. SamePackets /\ mem' = mem
    BY DEF ConsumerIdles, SamePackets
  <2> QED BY <1>2, <2>1, BlocksKeep DEF Inv
<1>4. Distinct'
  BY <1>0 DEF Inv, Distinct, ConsumerIdles
<1>5. ASSUME NEW u \in Producers PROVE ProducerOK(u, B)'
  <2>1. pc'[u] = pc[u] /\ at'[u] = at[u] /\ id'[u] = id[u]
    BY ThreadsAssumption DEF ConsumerIdles, OnlyMoves, Threads
  <2>2. ProducerOK(u, B) /\ nextId \in Int /\ nextId' \in Int /\ nextId' >= nextId /\ id[u] \in Int
    BY SizesAssumption DEF Inv, TypeOK, ConsumerIdles
  <2>3. Untouched(u, B, B)
    BY <2>1 DEF ConsumerIdles, Untouched
  <2> QED BY <2>2, <2>3, ProducerKeeps
<1>6. ASSUME NEW d \in Consumers PROVE ConsumerOK(d, B)'
  <2>1. CASE d = c
    BY <2>1
  <2>2. CASE d # c
    <3>1. ConsumerOK(d, B) /\ got' = got /\ status' = status /\ start' = start
      BY DEF Inv, ConsumerIdles
    <3>2. pc[d] = "handle" => status'[got[d]] = "reading" /\ start'[got[d]] = start[got[d]]
      BY <3>1 DEF ConsumerOK
    <3> QED BY <2>2, <3>1, <3>2, <1>0, ConsumerKeeps
  <2> QED BY <2>1, <2>2
<1> QED BY <1>1, <1>3, <1>4, <1>5, <1>6 DEF Inv

-----------------------------------------------------------------------------
(* Steps that write nothing. *)
LEMMA ShortIs ==
  ASSUME NEW n \in Word
  PROVE  Short(n + 1) \in Word /\ Short(n - 1) \in Word
BY SizesAssumption DEF Word, Short

LEMMA CallKeeps ==
  ASSUME NEW B \in SUBSET Area, Inv(B), NEW t \in Producers, Call(t)
  PROVE  Inv(B)'
<1>1. t \in Threads /\ "claim" \in {"idle"} \cup ProducerSteps \cup ConsumerSteps
  BY DEF Threads, ProducerSteps
<1>2. /\ pc' \in [Threads -> {"idle"} \cup ProducerSteps \cup ConsumerSteps]
      /\ pc[t] = "idle" /\ pc'[t] = "claim" /\ \A u \in Threads : u # t => pc'[u] = pc[u]
  BY <1>1, Moved DEF Call, Inv
<1>3. PICK s \in Sizes : len' = [len EXCEPT ![nextId] = s]
  BY DEF Call
<1>4. /\ nextId \in Packets /\ nextId' = nextId + 1 /\ MayCall
      /\ id' = [id EXCEPT ![t] = nextId] /\ at' = [at EXCEPT ![t] = 0]
      /\ UNCHANGED << mem, existing, status, start, got >>
  BY DEF Call
<1>5. nextId \in Int /\ nextId > 0 /\ nextId <= MaxPackets /\ MaxPackets \in Nat
  BY <1>4, SizesAssumption DEF Packets
<1>6. TypeOK'
  <2>1. id' \in [Producers -> 0 .. MaxPackets] /\ at' \in [Threads -> Int]
    BY <1>1, <1>4, <1>5 DEF Inv, TypeOK
  <2>2. len' \in [Packets -> Sizes \cup {0}]
    BY <1>3, <1>4 DEF Inv, TypeOK
  <2>3. nextId' \in 1 .. MaxPackets + 1
    BY <1>4, <1>5
  <2> QED BY <1>2, <1>4, <2>1, <2>2, <2>3 DEF Inv, TypeOK
<1>7. /\ id'[t] = nextId /\ at'[t] = 0
      /\ \A u \in Producers : u # t => id'[u] = id[u]
      /\ \A u \in Threads : u # t => at'[u] = at[u]
  BY <1>1, <1>4 DEF Inv, TypeOK
<1>8. len'[nextId] = s /\ \A p \in Packets : p # nextId => len'[p] = len[p]
  BY <1>3, <1>4 DEF Inv, TypeOK
<1>9. \A p \in Packets : p >= nextId => status[p] = "none"
  BY DEF Inv, Distinct
<1>10. ProducerOK(t, B)'
  <2>1. status'[id'[t]] = "none" /\ len'[id'[t]] \in Sizes /\ id'[t] < nextId' /\ id'[t] # 0
    BY <1>4, <1>5, <1>7, <1>8, <1>9
  <2>2. 0 \in B
    BY DEF Inv, BlocksOK, Tiled
  <2> QED BY <1>2, <1>7, <2>1, <2>2 DEF ProducerOK, ClaimSteps, SplitSteps, JoinSteps
<1>11. Distinct'
  <2>1. \A p \in Packets : p >= nextId' => status'[p] = "none"
    BY <1>4, <1>5, <1>9 DEF Packets
  <2>2. \A u \in Producers : id[u] < nextId
    BY DEF Inv, ProducerOK
  <2>3. \A u, v \in Producers : id'[u] = id'[v] => u = v \/ id'[u] = 0
    BY <1>5, <1>7, <2>2 DEF Inv, Distinct
  <2>4. \A c \in Consumers : pc'[c] = pc[c] /\ got'[c] = got[c]
    BY <1>2, <1>4, ThreadsAssumption DEF Threads
  <2> QED BY <2>1, <2>3, <2>4 DEF Inv, Distinct
<1>12. ProducerIdles(t, B)
  <2>1. SamePackets
    <3>1. status[nextId] = "none"
      BY <1>4, <1>5, <1>9
    <3> QED BY <1>4, <1>8, <3>1 DEF SamePackets, HeldStages
  <2>2. OnlyMoves(t)
    BY <1>2, <1>4, <1>7 DEF OnlyMoves
  <2>3. \A o \in Area : Works(t, o)' <=> Works(t, o)
    BY <1>2 DEF Works, ClaimSteps
  <2> QED BY <1>4, <1>5, <1>7, <1>8, <2>1, <2>2, <2>3 DEF ProducerIdles
<1> QED BY <1>6, <1>10, <1>11, <1>12, ProducerIdling

(* A producer's step to another place in its call that changes no packet.  *)
LEMMA ProducerTurns ==
  ASSUME NEW B \in SUBSET Area, Inv(B), NEW t \in Producers, NEW from, NEW to,
         Goto(t, from, to), to \in {"idle"} \cup ProducerSteps \cup ConsumerSteps,
         InCall(t), UNCHANGED << mem, nextId, id, ghosts >>,
         existing' \in Word, at' \in [Threads -> Int],
         \A u \in Threads : u # t => at'[u] = at[u],
         \A o \in Area : Works(t, o)' <=> Works(t, o),
         ProducerOK(t, B)'
  PROVE  Inv(B)'
<1>1. t \in Threads
  BY DEF Threads
<1>2. /\ pc' \in [Threads -> {"idle"} \cup ProducerSteps \cup ConsumerSteps]
      /\ pc[t] = from /\ pc'[t] = to /\ \A u \in Threads : u # t => pc'[u] = pc[u]
  BY <1>1, Moved DEF Inv
<1>3. UNCHANGED << mem, nextId, id, len, status, start, got >>
  BY DEF ghosts
<1>4. TypeOK'
  BY <1>2, <1>3 DEF Inv, TypeOK
<1>5. Distinct'
  <2>1. \A c \in Consumers : pc'[c] = pc[c]
    BY <1>2, ThreadsAssumption DEF Threads
  <2> QED BY <1>3, <2>1 DEF Inv, Distinct
<1>6. ProducerIdles(t, B)
  <2>1. OnlyMoves(t)
    BY <1>2, <1>3 DEF OnlyMoves
  <2>2. nextId \in Int
    BY SizesAssumption DEF Inv, TypeOK
  <2> QED BY <1>3, <2>1, <2>2 DEF ProducerIdles, SamePackets
<1> QED BY <1>4, <1>5, <1>6, ProducerIdling

LEMMA GiveUpKeeps ==
  ASSUME NEW B \in SUBSET Area, Inv(B), NEW t \in Producers, GiveUp(t)
  PROVE  Inv(B)'
<1>1. t \in Threads /\ "idle" \in {"idle"} \cup ProducerSteps \cup ConsumerSteps
  BY DEF Threads
<1>2. /\ pc' \in [Threads -> {"idle"} \cup ProducerSteps \cup ConsumerSteps]
      /\ pc[t] = "claim" /\ pc'[t] = "idle" /\ \A u \in Threads : u # t => pc'[u] = pc[u]
  BY <1>1, Moved DEF GiveUp, Inv
<1>3. PICK p \in Packets : p = id[t] /\ status[p] = "none"
  BY <1>2, SizesAssumption DEF Inv, TypeOK, ProducerOK, Packets
<1>4. /\ status' = [status EXCEPT ![p] = "refused"]
      /\ UNCHANGED << mem, existing, nextId, at, id, len, start, got >>
  BY <1>3 DEF GiveUp
<1>5. TypeOK'
  BY <1>2, <1>4 DEF Inv, TypeOK
<1>6. status'[p] = "refused" /\ \A q \in Packets : q # p => status'[q] = status[q]
  BY <1>4 DEF Inv, TypeOK
<1>7. p < nextId /\ nextId \in Int
  BY <1>3, SizesAssumption DEF Inv, TypeOK, ProducerOK
<1>8. Distinct'
  <2>1. \A q \in Packets : q >= nextId' => status'[q] = "none"
    BY <1>4, <1>6, <1>7 DEF Inv, Distinct, Packets
  <2>2. \A c \in Consumers : pc'[c] = pc[c]
    BY <1>2, ThreadsAssumption DEF Threads
  <2> QED BY <1>4, <2>1, <2>2 DEF Inv, Distinct
<1>9. ProducerOK(t, B)'
  BY <1>2, <1>4 DEF Inv, ProducerOK, ClaimSteps, SplitSteps, JoinSteps
<1>10. ProducerIdles(t, B)
  <2>1. OnlyMoves(t)
    BY <1>2, <1>4 DEF OnlyMoves
  <2>2. SamePackets
    BY <1>3, <1>4, <1>6 DEF SamePackets, HeldStages
  <2>3. \A o \in Area : Works(t, o)' <=> Works(t, o)
    BY <1>2 DEF Works, ClaimSteps
  <2>4. InCall(t)
    BY <1>2 DEF InCall
  <2> QED BY <1>3, <1>4, <1>6, <1>7, <2>1, <2>2, <2>3, <2>4 DEF ProducerIdles
<1> QED BY <1>5, <1>8, <1>9, <1>10, ProducerIdling

LEMMA SkipKeeps ==
  ASSUME NEW B \in SUBSET Area, Inv(B), NEW t \in Producers, Skip(t)
  PROVE  Inv(B)'
<1>1. /\ pc[t] = "skip" /\ at[t] \in B /\ t \in Threads
      /\ Goto(t, "skip", "claim") /\ UNCHANGED << mem, existing, nextId, id, ghosts >>
  BY DEF Skip, Inv, ProducerOK, Goto, Threads
<1>2. pc'[t] = "claim"
  BY <1>1 DEF Goto, Inv, TypeOK
<1>3. at' = [at EXCEPT ![t] = After(at[t])]
  BY DEF Skip
<1>4. After(at[t]) \in B \cup {Capacity} /\ After(at[t]) \in Int
  BY <1>1, BlockIs DEF Inv, BlocksOK, Tiled, TypeOK
<1>5. at' \in [Threads -> Int] /\ at'[t] = After(at[t]) /\ \A u \in Threads : u # t => at'[u] = at[u]
  BY <1>1, <1>3, <1>4 DEF Inv, TypeOK
<1>6. ProducerOK(t, B)'
  BY <1>1, <1>2, <1>4, <1>5 DEF Inv, ProducerOK, ClaimSteps, SplitSteps, JoinSteps, ghosts
<1>7. InCall(t) /\ \A o \in Area : Works(t, o)' <=> Works(t, o)
  BY <1>1, <1>2 DEF InCall, Works, ClaimSteps
<1>8. "claim" \in {"idle"} \cup ProducerSteps \cup ConsumerSteps /\ existing' \in Word
  BY <1>1 DEF ProducerSteps, Inv, TypeOK
<1> QED BY <1>1, <1>5, <1>6, <1>7, <1>8, ProducerTurns

LEMMA CountKeeps ==
  ASSUME NEW B \in SUBSET Area, Inv(B), NEW t \in Producers, Count(t)
  PROVE  Inv(B)'
<1>1. /\ pc[t] = "count" /\ t \in Threads /\ Goto(t, "count", "idle")
      /\ UNCHANGED << mem, nextId, id, ghosts >> /\ at' = at /\ existing' = Short(existing + 1)
  BY DEF Count, Goto, Threads
<1>2. pc'[t] = "idle"
  BY <1>1 DEF Goto, Inv, TypeOK
<1>3. existing' \in Word /\ at' \in [Threads -> Int] /\ \A u \in Threads : u # t => at'[u] = at[u]
  BY <1>1, ShortIs DEF Inv, TypeOK
<1>4. ProducerOK(t, B)'
  BY <1>1, <1>2 DEF Inv, ProducerOK, ClaimSteps, SplitSteps, JoinSteps
<1>5. InCall(t) /\ \A o \in Area : Works(t, o)' <=> Works(t, o)
  BY <1>1, <1>2 DEF InCall, Works, ClaimSteps
<1>6. "idle" \in {"idle"} \cup ProducerSteps \cup ConsumerSteps
  OBVIOUS
<1> QED BY <1>1, <1>3, <1>4, <1>5, <1>6, ProducerTurns

(* The claim that finds the block taken, and the join that does.           *)
LEMMA ClaimFails ==
  ASSUME NEW B \in SUBSET Area, Inv(B), NEW t \in Producers, at[t] < Capacity,
         Goto(t, "claim", "skip"), UNCHANGED << mem, existing, nextId, at, id, ghosts >>
  PROVE  Inv(B)'
<1>1. pc[t] = "claim" /\ t \in Threads /\ at[t] \in B
  BY Consts DEF Goto, Threads, Inv, ProducerOK
<1>2. pc'[t] = "skip"
  BY <1>1 DEF Goto, Inv, TypeOK
<1>3. existing' \in Word /\ at' \in [Threads -> Int] /\ \A u \in Threads : u # t => at'[u] = at[u]
  BY DEF Inv, TypeOK
<1>4. ProducerOK(t, B)'
  BY <1>1, <1>2 DEF Inv, ProducerOK, ClaimSteps, SplitSteps, JoinSteps, ghosts
<1>5. InCall(t) /\ \A o \in Area : Works(t, o)' <=> Works(t, o)
  BY <1>1, <1>2 DEF InCall, Works, ClaimSteps
<1>6. "skip" \in {"idle"} \cup ProducerSteps \cup ConsumerSteps
  BY DEF ProducerSteps
<1> QED BY <1>1, <1>3, <1>4, <1>5, <1>6, ProducerTurns

LEMMA AbsorbFails ==
  ASSUME NEW B \in SUBSET Area, Inv(B), NEW t \in Producers,
         Goto(t, "absorb", "unclaim"), UNCHANGED << mem, existing, nextId, at, id, ghosts >>
  PROVE  Inv(B)'
<1>1. pc[t] = "absorb" /\ t \in Threads /\ at[t] \in B
  BY DEF Goto, Threads, Inv, ProducerOK, ClaimSteps
<1>2. pc'[t] = "unclaim"
  BY <1>1 DEF Goto, Inv, TypeOK
<1>3. existing' \in Word /\ at' \in [Threads -> Int] /\ \A u \in Threads : u # t => at'[u] = at[u]
  BY DEF Inv, TypeOK
<1>4. ProducerOK(t, B)'
  BY <1>1, <1>2 DEF Inv, ProducerOK, ClaimSteps, SplitSteps, JoinSteps, ghosts
<1>5. InCall(t) /\ \A o \in Area : Works(t, o)' <=> Works(t, o)
  BY <1>1, <1>2 DEF InCall, Works, ClaimSteps
<1>6. "unclaim" \in {"idle"} \cup ProducerSteps \cup ConsumerSteps
  BY DEF ProducerSteps
<1> QED BY <1>1, <1>3, <1>4, <1>5, <1>6, ProducerTurns

LEMMA ConsumerTurns ==
  ASSUME NEW B \in SUBSET Area, Inv(B), NEW c \in Consumers, NEW from, NEW to,
         Goto(c, from, to), to \in {"idle"} \cup ProducerSteps \cup ConsumerSteps,
         InCall(c) \/ MayCall, UNCHANGED << mem, nextId, id, ghosts >>,
         existing' \in Word, at' \in [Threads -> Int],
         \A u \in Threads : u # c => at'[u] = at[u],
         from \notin {"handle", "release"}, to \notin {"handle", "release"},
         ConsumerOK(c, B)'
  PROVE  Inv(B)'
<1>1. c \in Threads
  BY DEF Threads
<1>2. /\ pc' \in [Threads -> {"idle"} \cup ProducerSteps \cup ConsumerSteps]
      /\ pc[c] = from /\ pc'[c] = to /\ \A u \in Threads : u # c => pc'[u] = pc[u]
  BY <1>1, Moved DEF Inv
<1>3. UNCHANGED << mem, nextId, id, len, status, start, got >>
  BY DEF ghosts
<1>4. TypeOK'
  BY <1>2, <1>3 DEF Inv, TypeOK
<1>5. ConsumerIdles(c)
  BY <1>2, <1>3 DEF ConsumerIdles, OnlyMoves
<1> QED BY <1>4, <1>5, ConsumerIdling

LEMMA PollKeeps ==
  ASSUME NEW B \in SUBSET Area, Inv(B), NEW c \in Consumers, Poll(c)
  PROVE  Inv(B)'
<1>1. PICK to \in {"scan", "unpoll"} : Goto(c, "poll", to)
  BY DEF Poll
<1>2. /\ pc[c] = "poll" /\ c \in Threads /\ MayCall /\ at' = [at EXCEPT ![c] = 0]
      /\ UNCHANGED << mem, nextId, id, ghosts >> /\ existing' = Short(existing - 1)
  BY <1>1 DEF Poll, Goto, Threads
<1>3. pc'[c] = to
  BY <1>1, <1>2 DEF Goto, Inv, TypeOK
<1>4. /\ existing' \in Word /\ at' \in [Threads -> Int] /\ at'[c] = 0
      /\ \A u \in Threads : u # c => at'[u] = at[u]
  BY <1>2, ShortIs DEF Inv, TypeOK
<1>5. ConsumerOK(c, B)'
  <2>1. 0 \in B
    BY DEF Inv, BlocksOK, Tiled
  <2> QED BY <1>3, <1>4, <2>1 DEF ConsumerOK
<1>6. to \in {"idle"} \cup ProducerSteps \cup ConsumerSteps /\ to \notin {"handle", "release"}
  BY DEF ConsumerSteps
<1> QED BY <1>1, <1>2, <1>4, <1>5, <1>6, ConsumerTurns

LEMMA UnpollKeeps ==
  ASSUME NEW B \in SUBSET Area, Inv(B), NEW c \in Consumers, Unpoll(c)
  PROVE  Inv(B)'
<1>1. /\ pc[c] = "unpoll" /\ c \in Threads /\ Goto(c, "unpoll", "poll") /\ at' = at
      /\ UNCHANGED << mem, nextId, id, ghosts >> /\ existing' = Short(existing + 1)
  BY DEF Unpoll, Goto, Threads
<1>2. pc'[c] = "poll" /\ InCall(c)
  BY <1>1 DEF Goto, Inv, TypeOK, InCall
<1>3. /\ existing' \in Word /\ at' \in [Threads -> Int]
      /\ \A u \in Threads : u # c => at'[u] = at[u]
  BY <1>1, ShortIs DEF Inv, TypeOK
<1>4. ConsumerOK(c, B)'
  BY <1>2 DEF ConsumerOK
<1>5. "poll" \in {"idle"} \cup ProducerSteps \cup ConsumerSteps
  BY DEF ConsumerSteps
<1> QED BY <1>1, <1>2, <1>3, <1>4, <1>5, ConsumerTurns

LEMMA EndScanKeeps ==
  ASSUME NEW B \in SUBSET Area, Inv(B), NEW c \in Consumers, EndScan(c)
  PROVE  Inv(B)'
<1>1. /\ pc[c] = "scan" /\ c \in Threads /\ Goto(c, "scan", "poll") /\ at' = at
      /\ UNCHANGED << mem, existing, nextId, id, ghosts >>
  BY DEF EndScan, Goto, Threads
<1>2. pc'[c] = "poll" /\ InCall(c)
  BY <1>1 DEF Goto, Inv, TypeOK, InCall
<1>3. /\ existing' \in Word /\ at' \in [Threads -> Int]
      /\ \A u \in Threads : u # c => at'[u] = at[u]
  BY <1>1 DEF Inv, TypeOK
<1>4. ConsumerOK(c, B)'
  BY <1>2 DEF ConsumerOK
<1>5. "poll" \in {"idle"} \cup ProducerSteps \cup ConsumerSteps
  BY DEF ConsumerSteps
<1> QED BY <1>1, <1>2, <1>3, <1>4, <1>5, ConsumerTurns

LEMMA PassKeeps ==
  ASSUME NEW B \in SUBSET Area, Inv(B), NEW c \in Consumers, Pass(c)
  PROVE  Inv(B)'
<1>1. /\ pc[c] = "scan" /\ c \in Threads /\ Goto(c, "scan", "advance") /\ at' = at
      /\ UNCHANGED << mem, existing, nextId, id, ghosts >> /\ at[c] < Capacity
  BY DEF Pass, Goto, Threads
<1>2. pc'[c] = "advance" /\ InCall(c)
  BY <1>1 DEF Goto, Inv, TypeOK, InCall
<1>3. /\ existing' \in Word /\ at' \in [Threads -> Int]
      /\ \A u \in Threads : u # c => at'[u] = at[u]
  BY <1>1 DEF Inv, TypeOK
<1>4. ConsumerOK(c, B)'
  <2>1. at[c] \in B
    BY <1>1, Consts DEF Inv, ConsumerOK
  <2> QED BY <1>1, <1>2, <2>1 DEF ConsumerOK
<1>5. "advance" \in {"idle"} \cup ProducerSteps \cup ConsumerSteps
  BY DEF ConsumerSteps
<1> QED BY <1>1, <1>2, <1>3, <1>4, <1>5, ConsumerTurns

LEMMA AdvanceKeeps ==
  ASSUME NEW B \in SUBSET Area, Inv(B), NEW c \in Consumers, Advance(c)
  PROVE  Inv(B)'
<1>1. /\ pc[c] = "advance" /\ c \in Threads /\ Goto(c, "advance", "scan")
      /\ UNCHANGED << mem, existing, nextId, id, ghosts >> /\ at[c] \in B
  BY DEF Advance, Goto, Threads, Inv, ConsumerOK
<1>2. pc'[c] = "scan" /\ InCall(c)
  BY <1>1 DEF Goto, Inv, TypeOK, InCall
<1>3. at' = [at EXCEPT ![c] = After(at[c])]
  BY DEF Advance
<1>4. After(at[c]) \in B \cup {Capacity} /\ After(at[c]) \in Int
  BY <1>1, BlockIs DEF Inv, BlocksOK, Tiled, TypeOK
<1>5. /\ existing' \in Word /\ at' \in [Threads -> Int] /\ at'[c] = After(at[c])
      /\ \A u \in Threads : u # c => at'[u] = at[u]
  BY <1>1, <1>3, <1>4 DEF Inv, TypeOK
<1>6. ConsumerOK(c, B)'
  BY <1>2, <1>4, <1>5 DEF ConsumerOK
<1>7. "scan" \in {"idle"} \cup ProducerSteps \cup ConsumerSteps
  BY DEF ConsumerSteps
<1> QED BY <1>1, <1>2, <1>5, <1>6, <1>7, ConsumerTurns

-----------------------------------------------------------------------------
(* Steps that write, or take or give a block. *)
LEMMA SecondInside ==
  ASSUME NEW B \in SUBSET Area, Inv(B), NEW u \in Producers, pc[u] \in SplitSteps
  PROVE  /\ Second(u) \in Int /\ at[u] \in B /\ at[u] < Second(u) /\ Second(u) < After(at[u])
         /\ Second(u) \in Area /\ Second(u) \notin B
         /\ Second(u) + Hdr <= After(at[u]) /\ len[id[u]] \in Nat
<1>1. PICK o \in B : o = at[u]
  BY DEF Inv, ProducerOK, ClaimSteps, SplitSteps
<1>2. PICK n \in Nat : n = len[id[u]] /\ n > 0
  BY Consts DEF Inv, ProducerOK, SplitSteps
<1>3. mem[o].size >= n + Hdr
  BY <1>1, <1>2 DEF Inv, ProducerOK
<1>4. mem \in [Area -> Header] /\ Tiled(B)
  BY DEF Inv, TypeOK, BlocksOK
<1>5. /\ o \in Nat /\ mem[o].size \in Int /\ After(o) = o + Hdr + mem[o].size
  BY <1>4, BlockIs
<1>6. PICK x \in Int : x = Second(u) /\ x = o + Hdr + n
  BY <1>1, <1>2, <1>5, Consts DEF Second
<1>7. o < x /\ x < After(o) /\ x + Hdr <= After(o)
  BY <1>3, <1>5, <1>6, <1>2, Consts
<1>8. x \notin B /\ x \in Area
  BY <1>4, <1>7, Inside
<1> QED BY <1>1, <1>2, <1>6, <1>7, <1>8

LEMMA GrantedInside ==
  ASSUME NEW B \in SUBSET Area, Inv(B), NEW p \in Packets, status[p] \in HeldStages,
         NEW x \in Region(p)
  PROVE  /\ start[p] - Hdr \in B /\ x \in Int /\ start[p] - Hdr < x
         /\ x < After(start[p] - Hdr) /\ x \in Area /\ x \notin B
<1>1. mem \in [Area -> Header] /\ Tiled(B) /\ start[p] \in Int
  BY DEF Inv, TypeOK, BlocksOK
<1>2. start[p] - Hdr \in B /\ len[p] \in Sizes /\ mem[start[p] - Hdr].size >= len[p]
  BY DEF Inv, BlocksOK, Granted, GrantedTo
<1> QED BY <1>1, <1>2, RegionInside

LEMMA PublishesWriting ==
  ASSUME NEW B \in SUBSET Area, Inv(B), NEW u \in Producers, pc[u] \in {"fill", "publish"}
  PROVE  id[u] \in Packets /\ status[id[u]] \in HeldStages
BY SizesAssumption DEF Inv, TypeOK, ProducerOK, HeldStages, Packets

(* What others have written inside their blocks stays.                     *)
MemKept(u) ==
  /\ pc[u] \in ClaimSteps => mem'[at[u]].size = mem[at[u]].size
  /\ pc[u] \in SplitSteps => mem'[Second(u)] = mem[Second(u)]
  /\ pc[u] = "publish" => \A x \in Region(id[u]) : mem'[x] = mem[x]

(* A store in a block's header that is not its size.                       *)
LEMMA HeaderKeeps ==
  ASSUME NEW B \in SUBSET Area, Inv(B), NEW o \in B,
         \A x \in Area : x # o => mem'[x] = mem[x], mem'[o].size = mem[o].size
  PROVE  /\ \A u \in Producers : MemKept(u)
         /\ \A p \in Packets : status[p] \in {"sent", "reading"}
              => \A x \in Region(p) : mem'[x] = mem[x]
<1>1. \A x \in Area : x \notin B => mem'[x] = mem[x]
  OBVIOUS
<1>2. \A x \in Area : mem'[x].size = mem[x].size
  OBVIOUS
<1>3. ASSUME NEW p \in Packets, status[p] \in HeldStages, NEW x \in Region(p)
      PROVE  mem'[x] = mem[x]
  BY <1>1, <1>3, GrantedInside
<1>4. ASSUME NEW u \in Producers PROVE MemKept(u)
  <2>1. pc[u] \in ClaimSteps => mem'[at[u]].size = mem[at[u]].size
    BY <1>2 DEF Inv, ProducerOK
  <2>2. pc[u] \in SplitSteps => mem'[Second(u)] = mem[Second(u)]
    BY <1>1, SecondInside
  <2>3. pc[u] = "publish" => \A x \in Region(id[u]) : mem'[x] = mem[x]
    BY <1>3, PublishesWriting
  <2> QED BY <2>1, <2>2, <2>3 DEF MemKept
<1> QED BY <1>3, <1>4 DEF HeldStages

(* A store inside the block of t leaves what others wrote inside theirs.   *)
LEMMA InsideKeeps ==
  ASSUME NEW B \in SUBSET Area, Inv(B), NEW t \in Producers, pc[t] \in ClaimSteps,
         NEW y \in Int, at[t] < y, y < After(at[t]),
         \A x \in Area : x # y => mem'[x] = mem[x]
  PROVE  /\ \A o \in B : mem'[o] = mem[o]
         /\ \A u \in Producers : u # t => MemKept(u)
         /\ \A p \in Packets : status[p] \in {"sent", "reading"}
              => \A x \in Region(p) : mem'[x] = mem[x]
<1>1. PICK o \in B : o = at[t]
  BY DEF Inv, ProducerOK
<1>2. mem \in [Area -> Header] /\ Tiled(B)
  BY DEF Inv, TypeOK, BlocksOK
<1>3. y \notin B /\ \A b \in B : b < y /\ y < After(b) => b = o
  BY <1>1, <1>2, Inside
<1>4. \A b \in B : mem'[b] = mem[b]
  BY <1>3
<1>5. Works(t, o) /\ o \in Area
  BY <1>1 DEF Works
<1>6. ASSUME NEW p \in Packets, status[p] \in HeldStages, NEW x \in Region(p)
      PROVE  mem'[x] = mem[x]
  <2>1. PICK b \in B : b = start[p] - Hdr /\ b < x /\ x < After(b) /\ x \in Area
    BY <1>6, GrantedInside
  <2>2. Holds(p, b)
    BY <2>1, <1>6, Consts DEF Holds, Inv, TypeOK
  <2>3. b # o
    BY <2>2, <1>5 DEF Inv, BlocksOK, Alone
  <2> QED BY <2>1, <2>3, <1>3
<1>7. ASSUME NEW u \in Producers, u # t PROVE MemKept(u)
  <2>1. pc[u] \in ClaimSteps => mem'[at[u]].size = mem[at[u]].size
    BY <1>4 DEF Inv, ProducerOK
  <2>2. ASSUME pc[u] \in SplitSteps PROVE mem'[Second(u)] = mem[Second(u)]
    <3>1. PICK b \in B : b = at[u] /\ b < Second(u) /\ Second(u) < After(b) /\ Second(u) \in Area
      BY <2>2, SecondInside
    <3>2. Works(u, b)
      BY <3>1, <2>2 DEF Works, SplitSteps, ClaimSteps
    <3>3. b # o
      BY <3>2, <1>5, <1>7 DEF Inv, BlocksOK, Alone
    <3> QED BY <3>1, <3>3, <1>3
  <2>3. pc[u] = "publish" => \A x \in Region(id[u]) : mem'[x] = mem[x]
    BY <1>6, PublishesWriting
  <2> QED BY <2>1, <2>2, <2>3 DEF MemKept
<1> QED BY <1>4, <1>6, <1>7 DEF HeldStages

(* A producer's step inside its call: the rest of the program keeps what   *)
(* it has.                                                                 *)
ProducerActs(t, B, C) ==
  /\ OnlyMoves(t) /\ UNCHANGED << got, nextId, len, id >>
  /\ InCall(t) \/ MayCall \/ ~InCall(t)'
  /\ status[id[t]] # "reading"
  /\ \A p \in Packets : p # id[t] => status'[p] = status[p] /\ start'[p] = start[p]
  /\ \A u \in Threads : u # t /\ InCall(u) => B \subseteq C
  /\ \A u \in Producers : u # t => MemKept(u)

LEMMA ProducerActing ==
  ASSUME NEW B \in SUBSET Area, Inv(B), NEW C, NEW t \in Producers, pc[t] # "idle",
         ProducerActs(t, B, C), TypeOK', ProducerOK(t, C)', BlocksOK(C)'
  PROVE  Inv(C)'
<1>0. t \in Threads /\ OnlyMoves(t) /\ UNCHANGED << got, nextId, len, id >>
  BY DEF Threads, ProducerActs
<1>1. OneCaller'
  <2>1. \A u \in Threads : u # t => pc'[u] = pc[u]
    BY <1>0 DEF OnlyMoves
  <2>2. InCall(t) \/ MayCall \/ ~InCall(t)'
    BY DEF ProducerActs
  <2> QED BY <1>0, <2>1, <2>2, OneCallerKeeps DEF Inv
<1>2. \A c \in Consumers : pc'[c] = pc[c] /\ at'[c] = at[c] /\ got'[c] = got[c] /\ c # t
  BY <1>0, ThreadsAssumption DEF OnlyMoves, Threads
<1>3. Distinct'
  <2>1. \A p \in Packets : p >= nextId => p # id[t]
    BY SizesAssumption DEF Inv, ProducerOK, TypeOK, Packets
  <2> QED BY <1>0, <1>2, <2>1 DEF Inv, Distinct, ProducerActs
<1>4. ASSUME NEW u \in Producers, u # t PROVE ProducerOK(u, C)'
  <2>1. pc'[u] = pc[u] /\ at'[u] = at[u] /\ id'[u] = id[u] /\ len' = len
    BY <1>0, <1>4 DEF OnlyMoves, Threads
  <2>2. ProducerOK(u, B) /\ nextId \in Int /\ nextId' \in Int /\ nextId' >= nextId /\ id[u] \in Int
    BY <1>0, SizesAssumption DEF Inv, TypeOK
  <2>3. pc[u] # "idle" => id[u] \in Packets /\ id[u] # id[t]
    <3>1. id[u] = id[t] => id[u] = 0
      BY <1>4 DEF Inv, Distinct
    <3> QED BY <3>1, SizesAssumption DEF Inv, TypeOK, ProducerOK, Packets
  <2>4. pc[u] \in ClaimSteps \cup {"claim", "skip", "fill", "publish"} =>
          status'[id[u]] = status[id[u]] /\ start'[id[u]] = start[id[u]]
    BY <2>3 DEF ProducerActs, ClaimSteps
  <2>5. MemKept(u) /\ (InCall(u) => B \subseteq C)
    BY <1>4 DEF ProducerActs, Threads
  <2>6. Untouched(u, B, C)
    BY <2>1, <2>4, <2>5 DEF MemKept, Untouched
  <2> QED BY <2>2, <2>6, ProducerKeeps
<1>5. ASSUME NEW c \in Consumers PROVE ConsumerOK(c, C)'
  <2>1. ConsumerOK(c, B)
    BY DEF Inv
  <2>2. pc[c] = "handle" => status'[got[c]] = "reading" /\ start'[got[c]] = start[got[c]]
    <3>1. pc[c] = "handle" => got[c] \in Packets /\ status[got[c]] = "reading"
      BY <2>1, SizesAssumption DEF Inv, TypeOK, ConsumerOK, Packets
    <3> QED BY <3>1 DEF ProducerActs
  <2>3. InCall(c) => B \subseteq C
    BY <1>2 DEF ProducerActs, Threads
  <2> QED BY <1>2, <2>1, <2>2, <2>3, ConsumerKeeps
<1> QED BY <1>1, <1>3, <1>4, <1>5 DEF Inv

(* What a step of PrepareData leaves alone, and where it comes from.       *)
LEMMA PrepareFrame ==
  ASSUME NEW B \in SUBSET Area, Inv(B), NEW t \in Producers, NEW from, NEW to,
         Goto(t, from, to), to \in ProducerSteps,
         from \in ClaimSteps \cup {"claim", "skip"},
         UNCHANGED << existing, nextId, id, ghosts >>,
         mem' \in [Area -> Header], at' \in [Threads -> Int],
         \A u \in Threads : u # t => at'[u] = at[u],
         \A u \in Producers : u # t => MemKept(u)
  PROVE  /\ pc[t] = from /\ pc'[t] = to
         /\ \A u \in Threads : u # t => pc'[u] = pc[u]
         /\ UNCHANGED << existing, nextId, id, len, status, start, got >>
         /\ TypeOK' /\ ProducerActs(t, B, B) /\ SamePackets
         /\ \A c \in Consumers : pc'[c] = pc[c] /\ at'[c] = at[c]
         /\ \A p \in Packets, o \in Area : Holds(p, o)' <=> Holds(p, o)
         /\ \A c \in Consumers, o \in Area : Frees(c, o)' <=> Frees(c, o)
<1>1. t \in Threads /\ to \in {"idle"} \cup ProducerSteps \cup ConsumerSteps
  BY DEF Threads
<1>2. /\ pc' \in [Threads -> {"idle"} \cup ProducerSteps \cup ConsumerSteps]
      /\ pc[t] = from /\ pc'[t] = to /\ \A u \in Threads : u # t => pc'[u] = pc[u]
  BY <1>1, Moved DEF Inv
<1>3. UNCHANGED << existing, nextId, id, len, status, start, got >>
  BY DEF ghosts
<1>4. TypeOK'
  BY <1>2, <1>3 DEF Inv, TypeOK
<1>5. \A c \in Consumers : pc'[c] = pc[c] /\ at'[c] = at[c]
  BY <1>2, ThreadsAssumption DEF Threads
<1>6. SamePackets /\ \A p \in Packets, o \in Area : Holds(p, o)' <=> Holds(p, o)
  BY <1>3, HoldsSame DEF SamePackets
<1>7. OnlyMoves(t)
  BY <1>2, <1>3 DEF OnlyMoves
<1>8. InCall(t) /\ status[id[t]] = "none"
  BY <1>2 DEF InCall, ClaimSteps, Inv, ProducerOK
<1>9. ProducerActs(t, B, B)
  BY <1>3, <1>7, <1>8 DEF ProducerActs
<1> QED BY <1>2, <1>3, <1>4, <1>5, <1>6, <1>9 DEF Frees

LEMMA FitKeeps ==
  ASSUME Calm, NEW B \in SUBSET Area, Inv(B), NEW t \in Producers, Fit(t)
  PROVE  Inv(B)'
<1>1. /\ pc[t] = "fit" /\ t \in Threads
      /\ UNCHANGED << mem, existing, nextId, at, id, ghosts >>
  BY DEF Fit, Goto, Threads
<1>2. PICK o \in B : o = at[t]
  BY <1>1 DEF Inv, ProducerOK, ClaimSteps
<1>3. PICK s \in Sizes : s = len[id[t]]
  BY <1>1 DEF Inv, ProducerOK
<1>4. s \in Nat /\ s > 0 /\ Tiled(B) /\ Even(B) /\ mem \in [Area -> Header]
  BY Consts DEF Inv, BlocksOK, TypeOK
<1>5. mem[o].size \in Int /\ Next2(t) \in B \cup {Capacity} /\ Next2(t) = After(o)
  BY <1>2, <1>4, BlockIs DEF Tiled, Next2
<1>6. /\ existing' \in Word /\ at' \in [Threads -> Int]
      /\ \A u \in Threads : u # t => at'[u] = at[u]
  BY <1>1 DEF Inv, TypeOK
<1>7. InCall(t)
  BY <1>1 DEF InCall
<1>8. ASSUME NEW to \in {"splitLength", "setLength", "absorb"}, Goto(t, "fit", to),
             to = "splitLength" => mem[o].size >= s + Hdr,
             to = "setLength" => mem[o].size >= s,
             to = "absorb" => mem[o].size < s /\ Next2(t) < Capacity
      PROVE  Inv(B)'
  <2>1. pc'[t] = to /\ pc[t] = "fit"
    BY <1>1, <1>8 DEF Goto, Inv, TypeOK
  <2>2. to = "absorb" => Serial /\ Next2(t) \in B
    <3> SUFFICES ASSUME to = "absorb" PROVE Serial /\ Next2(t) \in B
      OBVIOUS
    <3>1. mem[o].size # s /\ After(o) # Capacity /\ Next2(t) \in B
      BY <1>4, <1>5, <1>8, Consts
    <3> QED BY <3>1, <1>4 DEF Even
  <2>3. ProducerOK(t, B)'
    BY <1>1, <1>2, <1>3, <1>8, <2>1, <2>2 DEF Inv, ProducerOK, ClaimSteps, SplitSteps, JoinSteps, ghosts,
       Next2, After
  <2>4. \A x \in Area : Works(t, x)' <=> Works(t, x)
    BY <1>1, <2>1 DEF Works, ClaimSteps
  <2>5. to \in {"idle"} \cup ProducerSteps \cup ConsumerSteps
    BY DEF ProducerSteps
  <2> QED BY <1>1, <1>6, <1>7, <1>8, <2>3, <2>4, <2>5, ProducerTurns
<1>9. ASSUME Goto(t, "fit", "skip"), Next2(t) >= Capacity PROVE Inv(B)'
  <2>0. "skip" \in ProducerSteps /\ "fit" \in ClaimSteps \cup {"claim", "skip"}
    BY DEF ProducerSteps, ClaimSteps
  <2>1. \A u \in Producers : u # t => MemKept(u)
    BY <1>1 DEF MemKept
  <2>2. mem' \in [Area -> Header] /\ mem' = mem
    BY <1>1, <1>4
  <2>3. UNCHANGED << existing, nextId, id, ghosts >>
    BY <1>1
  <2>4. /\ pc[t] = "fit" /\ pc'[t] = "skip"
        /\ \A u \in Threads : u # t => pc'[u] = pc[u]
        /\ UNCHANGED << existing, nextId, id, len, status, start, got >>
        /\ TypeOK' /\ ProducerActs(t, B, B) /\ SamePackets
        /\ \A p \in Packets, x \in Area : Holds(p, x)' <=> Holds(p, x)
        /\ \A c \in Consumers, x \in Area : Frees(c, x)' <=> Frees(c, x)
    BY <1>6, <1>9, <2>0, <2>1, <2>2, <2>3, PrepareFrame
  <2>5. After(o) = Capacity
    BY <1>5, <1>9, <1>2, Consts
  <2>6. ProducerOK(t, B)'
    BY <1>1, <1>2, <2>4 DEF Inv, ProducerOK, ClaimSteps, SplitSteps, JoinSteps
  <2>7. \A u \in Producers, x \in Area : u # t => (Works(u, x)' <=> Works(u, x))
    BY <1>6, <2>2, <2>4, WorksSame DEF Threads
  <2>8. \A x \in Area : ~Works(t, x)' /\ (Works(t, x) => x = o)
    BY <1>1, <1>2, <2>4 DEF Works, ClaimSteps
  <2>9. Alone'
    BY <2>4, <2>7, <2>8, AloneKeeps DEF Inv, BlocksOK
  <2>10. Marked(B)'
    <3>1. \A x \in B : (Used(x)' => Used(x)) /\ (Used(x) => Used(x)' \/ x = o)
      BY <2>4, <2>7, <2>8 DEF Used
    <3>2. \A x \in B : After(x)' = After(x)
      BY <2>2 DEF After
    <3> QED BY <2>2, <2>5, <3>1, <3>2 DEF Inv, BlocksOK, Marked
  <2>11. Tiled(B)' /\ Even(B)'
    BY <1>4, <2>2, TiledKeeps, EvenKeeps
  <2>12. Granted(B)' /\ Valids(B)'
    BY <2>2, <2>4, PacketsKeep DEF Inv, BlocksOK
  <2>13. BlocksOK(B)'
    BY <2>9, <2>10, <2>11, <2>12 DEF BlocksOK
  <2> QED BY <1>1, <2>4, <2>6, <2>13, ProducerActing
<1>10. \/ Goto(t, "fit", "splitLength") /\ mem[o].size >= s + Hdr
       \/ Goto(t, "fit", "setLength") /\ mem[o].size \in s .. s + Hdr - 1
       \/ Goto(t, "fit", "absorb") /\ mem[o].size < s /\ Next2(t) < Capacity
       \/ Goto(t, "fit", "skip") /\ mem[o].size < s /\ Next2(t) >= Capacity
  BY <1>2, <1>3 DEF Fit
<1> QED BY <1>8, <1>9, <1>10

(* A block's mark changes with its use.                                    *)
LEMMA MarksKeep ==
  ASSUME NEW B \in SUBSET Area, Inv(B), SamePackets, NEW o \in B,
         \A x \in Area : x # o => mem'[x] = mem[x],
         mem'[o].valid = mem[o].valid, mem'[o].length = mem[o].length, mem'[o].size = mem[o].size,
         \A p \in Packets : status[p] \in {"sent", "reading"}
           => \A x \in Region(p) : mem'[x] = mem[x],
         Alone', \A x \in B : x # o => (Used(x)' <=> Used(x)),
         mem'[o].prepare = 0 => ~Used(o)', mem'[o].prepare # 0 => Used(o)'
  PROVE  BlocksOK(B)'
<1>1. \A x \in B : mem'[x].valid = mem[x].valid /\ mem'[x].length = mem[x].length
                   /\ mem'[x].size = mem[x].size
  OBVIOUS
<1>2. Tiled(B)' /\ Even(B)'
  BY <1>1, TiledKeeps, EvenKeeps DEF Inv, BlocksOK
<1>3. Granted(B)' /\ Valids(B)'
  <2>1. Granted(B) /\ Valids(B)
    BY DEF Inv, BlocksOK
  <2> QED BY <1>1, <2>1, PacketsKeep
<1>4. Marked(B)'
  <2>1. \A x \in B : After(x)' = After(x)
    BY <1>1 DEF After
  <2>2. \A x \in B : x # o => mem'[x].prepare = mem[x].prepare
    OBVIOUS
  <2>3. Marked(B)
    BY DEF Inv, BlocksOK
  <2> QED BY <2>1, <2>2, <2>3 DEF Marked
<1> QED BY <1>2, <1>3, <1>4 DEF BlocksOK

(* A producer takes a block nobody uses. *)
LEMMA AloneTakes ==
  ASSUME Alone, NEW t \in Producers, NEW b \in Area, ~Used(b),
         \A u \in Producers, o \in Area : Works(u, o)' => Works(u, o) \/ (u = t /\ o = b),
         \A p \in Packets, o \in Area : Holds(p, o)' => Holds(p, o),
         \A c \in Consumers, o \in Area : Frees(c, o)' => Frees(c, o)
  PROVE  Alone'
<1> SUFFICES ASSUME NEW o \in Area
             PROVE  /\ \A u, v \in Producers : Works(u, o)' /\ Works(v, o)' => u = v
                    /\ \A p, q \in Packets : Holds(p, o)' /\ Holds(q, o)' => p = q
                    /\ \A c, d \in Consumers : Frees(c, o)' /\ Frees(d, o)' => c = d
                    /\ \A u \in Producers, p \in Packets : ~(Works(u, o)' /\ Holds(p, o)')
                    /\ \A u \in Producers, c \in Consumers : ~(Works(u, o)' /\ Frees(c, o)')
                    /\ \A p \in Packets, c \in Consumers : ~(Holds(p, o)' /\ Frees(c, o)')
  BY Zenon DEF Alone
<1>1. CASE o = b
  <2>1. /\ \A u \in Producers : ~Works(u, o)
        /\ \A p \in Packets : ~Holds(p, o)
        /\ \A c \in Consumers : ~Frees(c, o)
    BY <1>1, Zenon DEF Used
  <2> QED BY <2>1
<1>2. CASE o # b
  BY <1>2 DEF Alone
<1> QED BY <1>1, <1>2

LEMMA ClaimSucceeds ==
  ASSUME NEW B \in SUBSET Area, Inv(B), NEW t \in Producers, at[t] < Capacity,
         mem[at[t]].prepare = 0, Goto(t, "claim", "fit"), Store(at[t], "prepare", 1),
         UNCHANGED << existing, nextId, at, id, ghosts >>
  PROVE  Inv(B)'
<1>1. pc[t] = "claim" /\ t \in Threads /\ at[t] \in B
  BY Consts DEF Goto, Threads, Inv, ProducerOK
<1>2. PICK o \in B : o = at[t]
  BY <1>1
<1>3. mem \in [Area -> Header] /\ Alone /\ ~Used(o)
  BY <1>2 DEF Inv, TypeOK, BlocksOK, Marked
<1>4. /\ mem' \in [Area -> Header] /\ \A x \in Area : x # o => mem'[x] = mem[x]
      /\ mem'[o].prepare = 1 /\ mem'[o].valid = mem[o].valid
      /\ mem'[o].length = mem[o].length /\ mem'[o].size = mem[o].size
  BY <1>2, <1>3, StorePrepare
<1>5. /\ \A u \in Producers : MemKept(u)
      /\ \A p \in Packets : status[p] \in {"sent", "reading"} => \A x \in Region(p) : mem'[x] = mem[x]
  BY <1>4, HeaderKeeps
<1>6. /\ pc[t] = "claim" /\ pc'[t] = "fit"
      /\ \A u \in Threads : u # t => pc'[u] = pc[u]
      /\ UNCHANGED << existing, nextId, id, len, status, start, got >>
      /\ TypeOK' /\ ProducerActs(t, B, B) /\ SamePackets
      /\ \A p \in Packets, x \in Area : Holds(p, x)' <=> Holds(p, x)
      /\ \A c \in Consumers, x \in Area : Frees(c, x)' <=> Frees(c, x)
  <2>1. "fit" \in ProducerSteps /\ "claim" \in ClaimSteps \cup {"claim", "skip"}
    BY DEF ProducerSteps
  <2>2. at' \in [Threads -> Int] /\ \A u \in Threads : u # t => at'[u] = at[u]
    BY DEF Inv, TypeOK
  <2>3. UNCHANGED << existing, nextId, id, ghosts >>
    OBVIOUS
  <2> QED BY <1>4, <1>5, <2>1, <2>2, <2>3, PrepareFrame
<1>7. \A u \in Producers, x \in Area : u # t => (Works(u, x)' <=> Works(u, x))
  BY <1>5, <1>6, WorksSame DEF Threads, MemKept, ClaimSteps
<1>8. \A x \in Area : Works(t, x)' <=> x = o
  BY <1>2, <1>6 DEF Works, ClaimSteps
<1>9. Alone'
  <2>1. \A u \in Producers, x \in Area : Works(u, x)' => Works(u, x) \/ (u = t /\ x = o)
    BY <1>7, <1>8
  <2> QED BY <1>3, <1>6, <2>1, AloneTakes
<1>10. \A x \in B : (x # o => (Used(x)' <=> Used(x))) /\ (x = o => Used(x)')
  <2>1. \A x \in Area : ~Works(t, x)
    BY <1>1 DEF Works, ClaimSteps
  <2> QED BY <1>6, <1>7, <1>8, <2>1 DEF Used
<1>11. BlocksOK(B)'
  BY <1>4, <1>5, <1>6, <1>9, <1>10, MarksKeep
<1>12. ProducerOK(t, B)'
  BY <1>2, <1>6 DEF Inv, ProducerOK, ClaimSteps, SplitSteps, JoinSteps
<1> QED BY <1>1, <1>6, <1>11, <1>12, ProducerActing

LEMMA AbsorbSucceeds ==
  ASSUME NEW B \in SUBSET Area, Inv(B), NEW t \in Producers,
         mem[Next2(t)].prepare = 0, Goto(t, "absorb", "grow"), Store(Next2(t), "prepare", 1),
         UNCHANGED << existing, nextId, at, id, ghosts >>
  PROVE  Inv(B)'
<1>1. pc[t] = "absorb" /\ t \in Threads /\ at[t] \in B /\ Next2(t) \in B
  BY DEF Goto, Threads, Inv, ProducerOK, ClaimSteps
<1>2. PICK o \in B : o = Next2(t)
  BY <1>1
<1>3. mem \in [Area -> Header] /\ Alone /\ ~Used(o)
  BY <1>2 DEF Inv, TypeOK, BlocksOK, Marked
<1>4. /\ mem' \in [Area -> Header] /\ \A x \in Area : x # o => mem'[x] = mem[x]
      /\ mem'[o].prepare = 1 /\ mem'[o].valid = mem[o].valid
      /\ mem'[o].length = mem[o].length /\ mem'[o].size = mem[o].size
  BY <1>2, <1>3, StorePrepare
<1>5. /\ \A u \in Producers : MemKept(u)
      /\ \A p \in Packets : status[p] \in {"sent", "reading"} => \A x \in Region(p) : mem'[x] = mem[x]
  BY <1>4, HeaderKeeps
<1>6. /\ pc[t] = "absorb" /\ pc'[t] = "grow"
      /\ \A u \in Threads : u # t => pc'[u] = pc[u]
      /\ UNCHANGED << existing, nextId, id, len, status, start, got >>
      /\ TypeOK' /\ ProducerActs(t, B, B) /\ SamePackets
      /\ \A p \in Packets, x \in Area : Holds(p, x)' <=> Holds(p, x)
      /\ \A c \in Consumers, x \in Area : Frees(c, x)' <=> Frees(c, x)
  <2>1. "grow" \in ProducerSteps /\ "absorb" \in ClaimSteps \cup {"claim", "skip"}
    BY DEF ProducerSteps, ClaimSteps
  <2>2. at' \in [Threads -> Int] /\ \A u \in Threads : u # t => at'[u] = at[u]
    BY DEF Inv, TypeOK
  <2>3. UNCHANGED << existing, nextId, id, ghosts >>
    OBVIOUS
  <2> QED BY <1>4, <1>5, <2>1, <2>2, <2>3, PrepareFrame
<1>7. \A u \in Producers, x \in Area : u # t => (Works(u, x)' <=> Works(u, x))
  BY <1>5, <1>6, WorksSame DEF Threads, MemKept, ClaimSteps
<1>8. Next2(t)' = o
  <2>1. mem'[at[t]].size = mem[at[t]].size
    BY <1>1, <1>4
  <2> QED BY <1>2, <2>1 DEF Next2, After
<1>9. /\ \A x \in Area : Works(t, x)' <=> x = o \/ x = at[t]
      /\ \A x \in Area : Works(t, x) <=> x = at[t]
  BY <1>6, <1>8 DEF Works, ClaimSteps
<1>10. Alone'
  <2>1. \A u \in Producers, x \in Area : Works(u, x)' => Works(u, x) \/ (u = t /\ x = o)
    BY <1>7, <1>9
  <2> QED BY <1>3, <1>6, <2>1, AloneTakes
<1>11. \A x \in B : (x # o => (Used(x)' <=> Used(x))) /\ (x = o => Used(x)')
  BY <1>6, <1>7, <1>9 DEF Used
<1>12. BlocksOK(B)'
  BY <1>4, <1>5, <1>6, <1>10, <1>11, MarksKeep
<1>13. ProducerOK(t, B)'
  BY <1>1, <1>2, <1>6, <1>8 DEF Inv, ProducerOK, ClaimSteps, SplitSteps, JoinSteps
<1> QED BY <1>1, <1>6, <1>12, <1>13, ProducerActing

(* A joined block, or one that could not be joined, is free again.         *)
LEMMA FreeKeeps ==
  ASSUME NEW B \in SUBSET Area, Inv(B), NEW t \in Producers, NEW from \in {"restart", "unclaim"},
         NEW to \in {"claim", "skip"}, Goto(t, from, to), Store(at[t], "prepare", 0),
         to = "claim" => at' = [at EXCEPT ![t] = 0], to = "skip" => at' = at,
         UNCHANGED << existing, nextId, id, ghosts >>
  PROVE  Inv(B)'
<1>1. pc[t] = from /\ t \in Threads /\ at[t] \in B
  BY DEF Goto, Threads, Inv, ProducerOK, ClaimSteps
<1>2. PICK o \in B : o = at[t]
  BY <1>1
<1>3. mem \in [Area -> Header] /\ Alone
  BY DEF Inv, TypeOK, BlocksOK
<1>4. /\ mem' \in [Area -> Header] /\ \A x \in Area : x # o => mem'[x] = mem[x]
      /\ mem'[o].prepare = 0 /\ mem'[o].valid = mem[o].valid
      /\ mem'[o].length = mem[o].length /\ mem'[o].size = mem[o].size
  BY <1>2, <1>3, StorePrepare
<1>5. /\ \A u \in Producers : MemKept(u)
      /\ \A p \in Packets : status[p] \in {"sent", "reading"} => \A x \in Region(p) : mem'[x] = mem[x]
  BY <1>4, HeaderKeeps
<1>6. at' \in [Threads -> Int] /\ \A u \in Threads : u # t => at'[u] = at[u]
  <2>1. at \in [Threads -> Int]
    BY DEF Inv, TypeOK
  <2>2. to = "claim" \/ to = "skip"
    OBVIOUS
  <2> QED BY <1>1, <2>1, <2>2
<1>7. /\ pc[t] = from /\ pc'[t] = to
      /\ \A u \in Threads : u # t => pc'[u] = pc[u]
      /\ UNCHANGED << existing, nextId, id, len, status, start, got >>
      /\ TypeOK' /\ ProducerActs(t, B, B) /\ SamePackets
      /\ \A p \in Packets, x \in Area : Holds(p, x)' <=> Holds(p, x)
      /\ \A c \in Consumers, x \in Area : Frees(c, x)' <=> Frees(c, x)
  <2>1. to \in ProducerSteps /\ from \in ClaimSteps \cup {"claim", "skip"}
    BY DEF ProducerSteps, ClaimSteps
  <2> QED BY <1>4, <1>5, <1>6, <2>1, PrepareFrame
<1>8. \A u \in Producers, x \in Area : u # t => (Works(u, x)' <=> Works(u, x))
  BY <1>5, <1>6, <1>7, WorksSame DEF Threads, MemKept, ClaimSteps
<1>9. \A x \in Area : ~Works(t, x)' /\ (Works(t, x) <=> x = o)
  BY <1>2, <1>7 DEF Works, ClaimSteps
<1>10. Alone'
  BY <1>3, <1>7, <1>8, <1>9, AloneKeeps
<1>11. \A x \in B : x # o => (Used(x)' <=> Used(x))
  BY <1>7, <1>8, <1>9 DEF Used
<1>12. ~Used(o)'
  <2>1. /\ \A u \in Producers : u # t => ~Works(u, o)
        /\ \A p \in Packets : ~Holds(p, o)
        /\ \A c \in Consumers : ~Frees(c, o)
    BY <1>3, <1>9 DEF Alone
  <2> QED BY <1>7, <1>8, <1>9, <2>1 DEF Used
<1>13. BlocksOK(B)'
  BY <1>4, <1>5, <1>7, <1>10, <1>11, <1>12, MarksKeep
<1>14. ProducerOK(t, B)'
  <2>1. at'[t] \in B
    <3>1. at \in [Threads -> Int] /\ 0 \in B
      BY DEF Inv, TypeOK, BlocksOK, Tiled
    <3> QED BY <1>1, <3>1
  <2> QED BY <1>7, <2>1 DEF Inv, ProducerOK, ClaimSteps, SplitSteps, JoinSteps
<1> QED BY <1>1, <1>7, <1>13, <1>14, ProducerActing

(* A store in the header beyond the split.                                 *)
LEMMA SplitKeeps ==
  ASSUME NEW B \in SUBSET Area, Inv(B), NEW t \in Producers,
         NEW from \in SplitSteps, NEW to \in SplitSteps, Goto(t, from, to),
         UNCHANGED << existing, nextId, at, id, ghosts >>,
         mem' \in [Area -> Header], \A x \in Area : x # Second(t) => mem'[x] = mem[x],
         to \in {"splitPrepare", "splitSize", "shrink"} => mem'[Second(t)].valid = 0,
         to \in {"splitSize", "shrink"} => mem'[Second(t)].prepare = 0,
         to = "shrink" => mem'[Second(t)].size = mem[at[t]].size - len[id[t]] - Hdr
  PROVE  Inv(B)'
<1>1. pc[t] = from /\ t \in Threads
  BY DEF Goto, Threads
<1>2. PICK y \in Int : /\ y = Second(t) /\ at[t] \in B /\ at[t] < y /\ y < After(at[t])
  BY <1>1, SecondInside
<1>3. pc[t] \in ClaimSteps
  BY <1>1 DEF ClaimSteps, SplitSteps
<1>4. /\ \A o \in B : mem'[o] = mem[o]
      /\ \A u \in Producers : u # t => MemKept(u)
      /\ \A p \in Packets : status[p] \in {"sent", "reading"}
           => \A x \in Region(p) : mem'[x] = mem[x]
  <2>1. \A x \in Area : x # y => mem'[x] = mem[x]
    BY <1>2
  <2> QED BY <1>2, <1>3, <2>1, InsideKeeps
<1>5. /\ pc[t] = from /\ pc'[t] = to
      /\ \A u \in Threads : u # t => pc'[u] = pc[u]
      /\ UNCHANGED << existing, nextId, id, len, status, start, got >>
      /\ TypeOK' /\ ProducerActs(t, B, B) /\ SamePackets
      /\ \A c \in Consumers, x \in Area : Frees(c, x)' <=> Frees(c, x)
  <2>1. to \in ProducerSteps /\ from \in ClaimSteps \cup {"claim", "skip"}
    BY DEF ProducerSteps, ClaimSteps, SplitSteps
  <2>2. at' \in [Threads -> Int] /\ \A u \in Threads : u # t => at'[u] = at[u]
    BY DEF Inv, TypeOK
  <2>3. UNCHANGED << existing, nextId, id, ghosts >>
    OBVIOUS
  <2> QED BY <1>4, <2>1, <2>2, <2>3, PrepareFrame
<1>6. \A u \in Producers, x \in Area : Works(u, x)' <=> Works(u, x)
  <2>1. \A u \in Producers, x \in Area : u # t => (Works(u, x)' <=> Works(u, x))
    BY <1>4, <1>5, WorksSame DEF Threads, MemKept, ClaimSteps
  <2>2. \A x \in Area : Works(t, x)' <=> Works(t, x)
    BY <1>5 DEF Works, ClaimSteps, SplitSteps
  <2> QED BY <2>1, <2>2
<1>7. BlocksOK(B)'
  BY <1>4, <1>5, <1>6, BlocksKeep DEF Inv, SameUses
<1>8. ProducerOK(t, B)'
  <2>1. Second(t)' = Second(t) /\ at'[t] = at[t] /\ id'[t] = id[t] /\ mem'[at'[t]] = mem[at[t]]
    BY <1>2, <1>4, <1>5 DEF Second
  <2> QED BY <1>2, <1>5, <2>1 DEF Inv, ProducerOK, ClaimSteps, SplitSteps, JoinSteps
<1> QED BY <1>1, <1>5, <1>7, <1>8, ProducerActing DEF SplitSteps

LEMMA SplitStoresKeep ==
  ASSUME NEW B \in SUBSET Area, Inv(B), NEW t \in Producers,
         SplitLength(t) \/ SplitValid(t) \/ SplitPrepare(t) \/ SplitSize(t)
  PROVE  Inv(B)'
<1>1. mem \in [Area -> Header] /\ 0 \in Nat
  BY DEF Inv, TypeOK
<1>2. ASSUME pc[t] \in SplitSteps PROVE Second(t) \in Area
  BY <1>2, SecondInside
<1>3. CASE SplitLength(t)
  <2>1. /\ Goto(t, "splitLength", "splitValid") /\ Store(Second(t), "length", 0)
        /\ UNCHANGED << existing, nextId, at, id, ghosts >> /\ pc[t] \in SplitSteps
    BY <1>3 DEF SplitLength, SplitStore, Goto, SplitSteps
  <2>2. mem' \in [Area -> Header] /\ \A x \in Area : x # Second(t) => mem'[x] = mem[x]
    BY <1>1, <1>2, <2>1, StoreLength
  <2>3. "splitLength" \in SplitSteps /\ "splitValid" \in SplitSteps
    BY DEF SplitSteps
  <2> QED BY <2>1, <2>2, <2>3, SplitKeeps
<1>4. CASE SplitValid(t)
  <2>1. /\ Goto(t, "splitValid", "splitPrepare") /\ Store(Second(t), "valid", 0)
        /\ UNCHANGED << existing, nextId, at, id, ghosts >> /\ pc[t] \in SplitSteps
    BY <1>4 DEF SplitValid, SplitStore, Goto, SplitSteps
  <2>2. /\ mem' \in [Area -> Header] /\ \A x \in Area : x # Second(t) => mem'[x] = mem[x]
        /\ mem'[Second(t)].valid = 0
    BY <1>1, <1>2, <2>1, StoreValid
  <2>3. "splitValid" \in SplitSteps /\ "splitPrepare" \in SplitSteps
    BY DEF SplitSteps
  <2> QED BY <2>1, <2>2, <2>3, SplitKeeps
<1>5. CASE SplitPrepare(t)
  <2>1. /\ Goto(t, "splitPrepare", "splitSize") /\ Store(Second(t), "prepare", 0)
        /\ UNCHANGED << existing, nextId, at, id, ghosts >> /\ pc[t] = "splitPrepare"
        /\ pc[t] \in SplitSteps
    BY <1>5 DEF SplitPrepare, SplitStore, Goto, SplitSteps
  <2>2. /\ mem' \in [Area -> Header] /\ \A x \in Area : x # Second(t) => mem'[x] = mem[x]
        /\ mem'[Second(t)].prepare = 0 /\ mem'[Second(t)].valid = mem[Second(t)].valid
    BY <1>1, <1>2, <2>1, StorePrepare
  <2>3. mem[Second(t)].valid = 0
    BY <2>1 DEF Inv, ProducerOK
  <2>4. "splitPrepare" \in SplitSteps /\ "splitSize" \in SplitSteps
    BY DEF SplitSteps
  <2> QED BY <2>1, <2>2, <2>3, <2>4, SplitKeeps
<1>6. CASE SplitSize(t)
  <2>1. /\ Goto(t, "splitSize", "shrink")
        /\ Store(Second(t), "size", mem[at[t]].size - len[id[t]] - Hdr)
        /\ UNCHANGED << existing, nextId, at, id, ghosts >> /\ pc[t] = "splitSize"
        /\ pc[t] \in SplitSteps
    BY <1>6 DEF SplitSize, SplitStore, Goto, SplitSteps
  <2>2. mem[at[t]].size - len[id[t]] - Hdr \in Int
    <3>1. at[t] \in Area /\ len[id[t]] \in Nat
      BY <2>1, SecondInside
    <3>2. mem[at[t]].size \in Int
      BY <1>1, <3>1 DEF Header
    <3> QED BY <3>1, <3>2, Consts
  <2>3. /\ mem' \in [Area -> Header] /\ \A x \in Area : x # Second(t) => mem'[x] = mem[x]
        /\ mem'[Second(t)].size = mem[at[t]].size - len[id[t]] - Hdr
        /\ mem'[Second(t)].valid = mem[Second(t)].valid
        /\ mem'[Second(t)].prepare = mem[Second(t)].prepare
    BY <1>1, <1>2, <2>1, <2>2, StoreSize
  <2>4. mem[Second(t)].valid = 0 /\ mem[Second(t)].prepare = 0
    BY <2>1 DEF Inv, ProducerOK
  <2>5. "splitSize" \in SplitSteps /\ "shrink" \in SplitSteps
    BY DEF SplitSteps
  <2> QED BY <2>1, <2>3, <2>4, <2>5, SplitKeeps
<1> QED BY <1>3, <1>4, <1>5, <1>6

(* A block passes to a packet, or to the consumer that will free it.       *)
LEMMA AlonePacket ==
  ASSUME Alone, NEW b \in Area, NEW p \in Packets,
         \A u \in Producers, o \in Area : Works(u, o)' => Works(u, o) /\ o # b,
         \A q \in Packets, o \in Area : Holds(q, o)' => IF o = b THEN q = p ELSE Holds(q, o),
         \A c \in Consumers, o \in Area : Frees(c, o)' => Frees(c, o) /\ o # b
  PROVE  Alone'
<1> SUFFICES ASSUME NEW o \in Area
             PROVE  /\ \A u, v \in Producers : Works(u, o)' /\ Works(v, o)' => u = v
                    /\ \A q, r \in Packets : Holds(q, o)' /\ Holds(r, o)' => q = r
                    /\ \A c, d \in Consumers : Frees(c, o)' /\ Frees(d, o)' => c = d
                    /\ \A u \in Producers, q \in Packets : ~(Works(u, o)' /\ Holds(q, o)')
                    /\ \A u \in Producers, c \in Consumers : ~(Works(u, o)' /\ Frees(c, o)')
                    /\ \A q \in Packets, c \in Consumers : ~(Holds(q, o)' /\ Frees(c, o)')
  BY Zenon DEF Alone
<1>1. CASE o = b
  BY <1>1
<1>2. CASE o # b
  BY <1>2 DEF Alone
<1> QED BY <1>1, <1>2

LEMMA AloneConsumer ==
  ASSUME Alone, NEW b \in Area, NEW c \in Consumers,
         \A u \in Producers, o \in Area : Works(u, o)' => Works(u, o) /\ o # b,
         \A q \in Packets, o \in Area : Holds(q, o)' => Holds(q, o) /\ o # b,
         \A d \in Consumers, o \in Area : Frees(d, o)' => IF o = b THEN d = c ELSE Frees(d, o)
  PROVE  Alone'
<1> SUFFICES ASSUME NEW o \in Area
             PROVE  /\ \A u, v \in Producers : Works(u, o)' /\ Works(v, o)' => u = v
                    /\ \A q, r \in Packets : Holds(q, o)' /\ Holds(r, o)' => q = r
                    /\ \A d, e \in Consumers : Frees(d, o)' /\ Frees(e, o)' => d = e
                    /\ \A u \in Producers, q \in Packets : ~(Works(u, o)' /\ Holds(q, o)')
                    /\ \A u \in Producers, d \in Consumers : ~(Works(u, o)' /\ Frees(d, o)')
                    /\ \A q \in Packets, d \in Consumers : ~(Holds(q, o)' /\ Frees(d, o)')
  BY Zenon DEF Alone
<1>1. CASE o = b
  BY <1>1
<1>2. CASE o # b
  BY <1>2 DEF Alone
<1> QED BY <1>1, <1>2

(* A packet keeps what it was granted. *)
LEMMA GrantedKeeps ==
  ASSUME NEW B, NEW p, GrantedTo(p, B),
         status'[p] = status[p], start'[p] = start[p], len'[p] = len[p],
         status[p] \in HeldStages =>
           /\ mem'[start[p] - Hdr].size = mem[start[p] - Hdr].size
           /\ mem'[start[p] - Hdr].length = mem[start[p] - Hdr].length,
         status[p] = "sent" => mem'[start[p] - Hdr].valid = mem[start[p] - Hdr].valid,
         status[p] \in {"sent", "reading"} => \A x \in Region(p) : mem'[x] = mem[x]
  PROVE  GrantedTo(p, B)'
<1>1. Region(p)' = Region(p)
  BY DEF Region
<1> QED BY <1>1 DEF GrantedTo, HeldStages

LEMMA SetLengthKeeps ==
  ASSUME NEW B \in SUBSET Area, Inv(B), NEW t \in Producers, SetLength(t)
  PROVE  Inv(B)'
<1>1. /\ pc[t] = "setLength" /\ t \in Threads /\ Goto(t, "setLength", "fill")
      /\ UNCHANGED << existing, nextId, at, id, len, got >> /\ at[t] \in B
  BY DEF SetLength, Goto, Threads, Inv, ProducerOK, ClaimSteps
<1>2. PICK o \in B : o = at[t] /\ o \in Nat
  BY <1>1, Consts
<1>3. PICK p \in Packets : p = id[t] /\ status[p] = "none" /\ len[p] \in Sizes /\ p < nextId
                           /\ mem[o].size >= len[p]
  BY <1>1, <1>2, SizesAssumption DEF Inv, TypeOK, ProducerOK, Packets, ClaimSteps
<1>4. /\ Store(o, "length", len[p]) /\ status' = [status EXCEPT ![p] = "writing"]
      /\ start' = [start EXCEPT ![p] = o + Hdr]
  BY <1>2, <1>3 DEF SetLength
<1>5. mem \in [Area -> Header] /\ Alone /\ Works(t, o)
  BY <1>1, <1>2 DEF Inv, TypeOK, BlocksOK, Works, ClaimSteps
<1>6. /\ mem' \in [Area -> Header] /\ \A x \in Area : x # o => mem'[x] = mem[x]
      /\ mem'[o].length = len[p] /\ mem'[o].valid = mem[o].valid
      /\ mem'[o].prepare = mem[o].prepare /\ mem'[o].size = mem[o].size
  BY <1>3, <1>4, <1>5, Consts, StoreLength
<1>7. /\ \A u \in Producers : MemKept(u)
      /\ \A q \in Packets : status[q] \in {"sent", "reading"} => \A x \in Region(q) : mem'[x] = mem[x]
  BY <1>6, HeaderKeeps
<1>8. /\ pc' \in [Threads -> {"idle"} \cup ProducerSteps \cup ConsumerSteps]
      /\ pc'[t] = "fill" /\ \A u \in Threads : u # t => pc'[u] = pc[u]
  <2>1. "fill" \in {"idle"} \cup ProducerSteps \cup ConsumerSteps
    BY DEF ProducerSteps
  <2> QED BY <1>1, <2>1, Moved DEF Inv
<1>9. o + Hdr \in Int
  BY <1>2, Consts
<1>10. TypeOK'
  BY <1>1, <1>4, <1>6, <1>8, <1>9 DEF Inv, TypeOK
<1>11. /\ status'[p] = "writing" /\ start'[p] = o + Hdr
       /\ \A q \in Packets : q # p => status'[q] = status[q] /\ start'[q] = start[q]
  BY <1>4 DEF Inv, TypeOK
<1>12. /\ \A u \in Producers, x \in Area : u # t => (Works(u, x)' <=> Works(u, x))
       /\ \A x \in Area : ~Works(t, x)' /\ (Works(t, x) <=> x = o)
       /\ \A q \in Packets, x \in Area : q # p => (Holds(q, x)' <=> Holds(q, x))
       /\ \A x \in Area : ~Holds(p, x) /\ (Holds(p, x)' <=> x = o)
       /\ \A c \in Consumers, x \in Area : Frees(c, x)' <=> Frees(c, x)
  <2>1. \A u \in Producers, x \in Area : u # t => (Works(u, x)' <=> Works(u, x))
    BY <1>1, <1>7, <1>8, WorksSame DEF Threads, MemKept, ClaimSteps
  <2>2. \A x \in Area : ~Works(t, x)' /\ (Works(t, x) <=> x = o)
    BY <1>1, <1>2, <1>8 DEF Works, ClaimSteps
  <2>3. \A q \in Packets, x \in Area : q # p => (Holds(q, x)' <=> Holds(q, x))
    BY <1>11 DEF Holds
  <2>4. \A x \in Area : ~Holds(p, x) /\ (Holds(p, x)' <=> x = o)
    BY <1>2, <1>3, <1>11, Consts DEF Holds, HeldStages
  <2>5. \A c \in Consumers, x \in Area : Frees(c, x)' <=> Frees(c, x)
    BY <1>1, <1>8, ThreadsAssumption DEF Frees, Threads
  <2> QED BY <2>1, <2>2, <2>3, <2>4, <2>5
<1>13. /\ \A u \in Producers : u # t => ~Works(u, o)
       /\ \A q \in Packets : ~Holds(q, o)
       /\ \A c \in Consumers : ~Frees(c, o)
  BY <1>5 DEF Alone
<1>14. Alone'
  <2>1. \A u \in Producers, x \in Area : Works(u, x)' => Works(u, x) /\ x # o
    BY <1>12, <1>13
  <2>2. \A q \in Packets, x \in Area : Holds(q, x)' => IF x = o THEN q = p ELSE Holds(q, x)
    BY <1>12, <1>13
  <2>3. \A c \in Consumers, x \in Area : Frees(c, x)' => Frees(c, x) /\ x # o
    BY <1>12, <1>13
  <2> QED BY <1>5, <2>1, <2>2, <2>3, AlonePacket
<1>15. Marked(B)'
  <2>1. \A x \in Area : Used(x)' <=> Used(x)
    BY <1>12 DEF Used
  <2>2. \A x \in B : mem'[x].prepare = mem[x].prepare /\ After(x)' = After(x)
    BY <1>6 DEF After
  <2> QED BY <2>1, <2>2 DEF Inv, BlocksOK, Marked
<1>16. Tiled(B)' /\ Even(B)'
  BY <1>6, TiledKeeps, EvenKeeps DEF Inv, BlocksOK
<1>17. Valids(B)'
  <2>1. \A x \in B : mem'[x].valid = mem[x].valid
    BY <1>6
  <2>2. \A q \in Packets : status[q] = "sent" => status'[q] = "sent" /\ start'[q] = start[q]
    BY <1>3, <1>11
  <2> QED BY <2>1, <2>2 DEF Inv, BlocksOK, Valids
<1>18. Granted(B)'
  <2>1. GrantedTo(p, B)'
    <3>1. start'[p] - Hdr = o
      BY <1>2, <1>11, Consts
    <3> QED BY <1>1, <1>3, <1>6, <1>11, <3>1 DEF GrantedTo
  <2>2. ASSUME NEW q \in Packets, q # p PROVE GrantedTo(q, B)'
    <3>1. GrantedTo(q, B)
      BY DEF Inv, BlocksOK, Granted
    <3>2. status[q] \in HeldStages => start[q] - Hdr \in B /\ start[q] - Hdr # o
      BY <1>2, <1>13, <3>1, Consts DEF GrantedTo, Holds, Inv, TypeOK
    <3>3. status[q] \in HeldStages => mem'[start[q] - Hdr] = mem[start[q] - Hdr]
      BY <1>6, <3>2
    <3>4. len'[q] = len[q] /\ status'[q] = status[q] /\ start'[q] = start[q]
      BY <1>1, <1>11, <2>2
    <3> QED BY <1>7, <3>1, <3>3, <3>4, GrantedKeeps DEF HeldStages
  <2> QED BY <2>1, <2>2 DEF Granted
<1>19. ProducerOK(t, B)'
  BY <1>1, <1>3, <1>8, <1>11 DEF Inv, ProducerOK, ClaimSteps, SplitSteps, JoinSteps
<1>20. ProducerActs(t, B, B)
  <2>1. OnlyMoves(t)
    BY <1>1, <1>8 DEF OnlyMoves
  <2>2. InCall(t)
    BY <1>1 DEF InCall
  <2>3. status[id[t]] # "reading"
    BY <1>3
  <2> QED BY <1>1, <1>3, <1>7, <1>11, <2>1, <2>2, <2>3 DEF ProducerActs
<1>21. BlocksOK(B)'
  BY <1>14, <1>15, <1>16, <1>17, <1>18 DEF BlocksOK
<1> QED BY <1>1, <1>10, <1>19, <1>20, <1>21, ProducerActing

(* Data written inside a block changes no header and no other's data.      *)
LEMMA WithinKeeps ==
  ASSUME NEW B \in SUBSET Area, Inv(B), NEW o \in B,
         \A x \in Area : ~(o < x /\ x < After(o)) => mem'[x] = mem[x]
  PROVE  /\ \A b \in B : mem'[b] = mem[b]
         /\ \A u \in Producers : pc[u] \in SplitSteps /\ at[u] # o => mem'[Second(u)] = mem[Second(u)]
         /\ \A p \in Packets : status[p] \in HeldStages /\ start[p] # o + Hdr
              => \A x \in Region(p) : mem'[x] = mem[x]
<1>1. mem \in [Area -> Header] /\ Tiled(B) /\ o \in Area /\ o \in Nat
  BY Consts DEF Inv, TypeOK, BlocksOK
<1>2. \A x \in Area : x \in Int
  BY Consts
<1>3. \A x \in Area : o < x /\ x < After(o)
        => x \notin B /\ \A b \in B : b < x /\ x < After(b) => b = o
  BY <1>1, <1>2, Inside
<1>4. \A b \in B : mem'[b] = mem[b]
  BY <1>3
<1>5. ASSUME NEW u \in Producers, pc[u] \in SplitSteps, at[u] # o
      PROVE  mem'[Second(u)] = mem[Second(u)]
  <2>1. PICK b \in B : b = at[u] /\ b < Second(u) /\ Second(u) < After(b) /\ Second(u) \in Area
    BY <1>5, SecondInside
  <2> QED BY <1>3, <1>5, <2>1
<1>6. ASSUME NEW p \in Packets, status[p] \in HeldStages, start[p] # o + Hdr, NEW x \in Region(p)
      PROVE  mem'[x] = mem[x]
  <2>1. PICK b \in B : b = start[p] - Hdr /\ b < x /\ x < After(b) /\ x \in Area
    BY <1>6, GrantedInside
  <2>2. b # o
    BY <1>1, <1>6, <2>1, Consts DEF Inv, TypeOK
  <2> QED BY <1>3, <2>1, <2>2
<1> QED BY <1>4, <1>5, <1>6

LEMMA FillKeeps ==
  ASSUME NEW B \in SUBSET Area, Inv(B), NEW t \in Producers, Fill(t)
  PROVE  Inv(B)'
<1>1. /\ pc[t] = "fill" /\ t \in Threads /\ Goto(t, "fill", "publish")
      /\ UNCHANGED << existing, nextId, at, id, len, status, start, got >>
  BY DEF Fill, Goto, Threads, ghosts
<1>2. PICK p \in Packets : p = id[t] /\ status[p] = "writing" /\ p < nextId
  BY <1>1, SizesAssumption DEF Inv, TypeOK, ProducerOK, Packets
<1>3. PICK m \in Images : mem' = [x \in Area |->
                IF x \in Region(p)
                THEN [valid |-> m.valid, prepare |-> m.prepare,
                      length |-> m.length, size |-> m.size, pkt |-> p]
                ELSE mem[x]]
  BY <1>2 DEF Fill
<1>4. mem \in [Area -> Header] /\ Alone /\ GrantedTo(p, B) /\ start[p] \in Int /\ p \in 0 .. MaxPackets
  BY SizesAssumption DEF Inv, TypeOK, BlocksOK, Granted, Packets
<1>5. PICK o \in B : o = start[p] - Hdr /\ start[p] = o + Hdr /\ Holds(p, o)
  BY <1>2, <1>4, Consts DEF GrantedTo, HeldStages, Holds
<1>6. \A x \in Region(p) : x \in Area /\ o < x /\ x < After(o)
  BY <1>2, <1>5, GrantedInside DEF HeldStages
<1>7. /\ \A x \in Area : ~(o < x /\ x < After(o)) => mem'[x] = mem[x]
      /\ \A x \in Region(p) : mem'[x].pkt = p
      /\ mem' \in [Area -> Header]
  <2>1. m \in [valid : Nat, prepare : Nat, length : Nat, size : Int]
    BY SizesAssumption
  <2>2. [valid |-> m.valid, prepare |-> m.prepare, length |-> m.length, size |-> m.size,
         pkt |-> p] \in Header
    BY <1>4, <2>1 DEF Header
  <2> QED BY <1>3, <1>4, <1>6, <2>2
<1>8. /\ \A b \in B : mem'[b] = mem[b]
      /\ \A u \in Producers : pc[u] \in SplitSteps /\ at[u] # o => mem'[Second(u)] = mem[Second(u)]
      /\ \A q \in Packets : status[q] \in HeldStages /\ start[q] # o + Hdr
           => \A x \in Region(q) : mem'[x] = mem[x]
  BY <1>7, WithinKeeps
<1>9. \A q \in Packets : q # p /\ status[q] \in HeldStages => start[q] # o + Hdr
  BY <1>4, <1>5 DEF Alone, Holds
<1>10. ASSUME NEW u \in Producers, u # t PROVE MemKept(u)
  <2>1. pc[u] \in ClaimSteps => at[u] \in B
    BY DEF Inv, ProducerOK
  <2>2. pc[u] \in SplitSteps => at[u] # o
    BY <1>4, <1>5 DEF Alone, Works, SplitSteps, ClaimSteps
  <2>3. pc[u] = "publish" => \A x \in Region(id[u]) : mem'[x] = mem[x]
    <3>1. pc[u] = "publish" => id[u] \in Packets /\ status[id[u]] \in HeldStages
      BY PublishesWriting
    <3>2. id[u] # p
      BY <1>2, <1>10 DEF Inv, Distinct, Packets
    <3> QED BY <1>8, <1>9, <3>1, <3>2
  <2> QED BY <1>8, <2>1, <2>2, <2>3 DEF MemKept
<1>11. /\ pc' \in [Threads -> {"idle"} \cup ProducerSteps \cup ConsumerSteps]
       /\ pc'[t] = "publish" /\ \A u \in Threads : u # t => pc'[u] = pc[u]
  <2>1. "publish" \in {"idle"} \cup ProducerSteps \cup ConsumerSteps
    BY DEF ProducerSteps
  <2> QED BY <1>1, <2>1, Moved DEF Inv
<1>12. TypeOK'
  BY <1>1, <1>7, <1>11 DEF Inv, TypeOK
<1>13. SameUses /\ SamePackets
  <2>1. \A u \in Producers, x \in Area : u # t => (Works(u, x)' <=> Works(u, x))
    BY <1>1, <1>10, <1>11, WorksSame DEF Threads, MemKept, ClaimSteps
  <2>2. \A x \in Area : Works(t, x)' <=> Works(t, x)
    BY <1>1, <1>11 DEF Works, ClaimSteps
  <2>3. \A c \in Consumers, x \in Area : Frees(c, x)' <=> Frees(c, x)
    BY <1>1, <1>11, ThreadsAssumption DEF Frees, Threads
  <2> QED BY <1>1, <2>1, <2>2, <2>3 DEF SameUses, SamePackets
<1>14. BlocksOK(B)'
  <2>1. \A q \in Packets : status[q] \in {"sent", "reading"} => \A x \in Region(q) : mem'[x] = mem[x]
    BY <1>2, <1>8, <1>9 DEF HeldStages
  <2> QED BY <1>8, <1>13, <2>1, BlocksKeep DEF Inv
<1>15. ProducerOK(t, B)'
  <2>1. Region(p)' = Region(p)
    BY <1>1 DEF Region
  <2> QED BY <1>1, <1>2, <1>7, <1>11, <2>1 DEF Inv, ProducerOK, ClaimSteps, SplitSteps, JoinSteps
<1>16. ProducerActs(t, B, B)
  <2>1. OnlyMoves(t)
    BY <1>1, <1>11 DEF OnlyMoves
  <2>2. ~InCall(t)'
    BY <1>11 DEF InCall
  <2> QED BY <1>1, <1>2, <1>10, <2>1, <2>2 DEF ProducerActs
<1> QED BY <1>1, <1>12, <1>14, <1>15, <1>16, ProducerActing

LEMMA PublishKeeps ==
  ASSUME NEW B \in SUBSET Area, Inv(B), NEW t \in Producers, Publish(t)
  PROVE  Inv(B)'
<1>1. /\ pc[t] = "publish" /\ t \in Threads /\ Goto(t, "publish", "count") /\ MayCall
      /\ UNCHANGED << existing, nextId, at, id, len, start, got >>
  BY DEF Publish, Goto, Threads
<1>0. \A x \in Region(id[t]) : mem[x].pkt = id[t]
  BY <1>1 DEF Inv, ProducerOK
<1>2. PICK p \in Packets : p = id[t] /\ status[p] = "writing" /\ p < nextId
  BY <1>1, SizesAssumption DEF Inv, TypeOK, ProducerOK, Packets
<1>3. mem \in [Area -> Header] /\ Alone /\ GrantedTo(p, B) /\ start[p] \in Int
  BY DEF Inv, TypeOK, BlocksOK, Granted
<1>4. PICK o \in B : o = start[p] - Hdr /\ start[p] = o + Hdr /\ Holds(p, o)
  BY <1>2, <1>3, Consts DEF GrantedTo, HeldStages, Holds
<1>5. Store(o, "valid", 1) /\ status' = [status EXCEPT ![p] = "sent"]
  BY <1>2, <1>4 DEF Publish
<1>6. /\ mem' \in [Area -> Header] /\ \A x \in Area : x # o => mem'[x] = mem[x]
      /\ mem'[o].valid = 1 /\ mem'[o].prepare = mem[o].prepare
      /\ mem'[o].length = mem[o].length /\ mem'[o].size = mem[o].size
  BY <1>3, <1>5, StoreValid
<1>7. /\ \A u \in Producers : MemKept(u)
      /\ \A q \in Packets : status[q] \in {"sent", "reading"} => \A x \in Region(q) : mem'[x] = mem[x]
  BY <1>6, HeaderKeeps
<1>8. /\ pc' \in [Threads -> {"idle"} \cup ProducerSteps \cup ConsumerSteps]
      /\ pc'[t] = "count" /\ \A u \in Threads : u # t => pc'[u] = pc[u]
  <2>1. "count" \in {"idle"} \cup ProducerSteps \cup ConsumerSteps
    BY DEF ProducerSteps
  <2> QED BY <1>1, <2>1, Moved DEF Inv
<1>9. TypeOK'
  BY <1>1, <1>5, <1>6, <1>8 DEF Inv, TypeOK
<1>10. status'[p] = "sent" /\ \A q \in Packets : q # p => status'[q] = status[q]
  BY <1>5 DEF Inv, TypeOK
<1>11. /\ \A u \in Producers, x \in Area : Works(u, x)' <=> Works(u, x)
       /\ \A q \in Packets, x \in Area : Holds(q, x)' <=> Holds(q, x)
       /\ \A c \in Consumers, x \in Area : Frees(c, x)' <=> Frees(c, x)
  <2>1. \A u \in Producers, x \in Area : u # t => (Works(u, x)' <=> Works(u, x))
    BY <1>1, <1>7, <1>8, WorksSame DEF Threads, MemKept, ClaimSteps
  <2>2. \A x \in Area : Works(t, x)' <=> Works(t, x)
    BY <1>1, <1>8 DEF Works, ClaimSteps
  <2>3. \A q \in Packets, x \in Area : Holds(q, x)' <=> Holds(q, x)
    BY <1>1, <1>2, <1>10 DEF Holds, HeldStages
  <2>4. \A c \in Consumers, x \in Area : Frees(c, x)' <=> Frees(c, x)
    BY <1>1, <1>8, ThreadsAssumption DEF Frees, Threads
  <2> QED BY <2>1, <2>2, <2>3, <2>4
<1>12. Alone'
  BY <1>3, <1>11, AloneKeeps
<1>13. Marked(B)'
  <2>1. \A x \in Area : Used(x)' <=> Used(x)
    BY <1>11 DEF Used
  <2>2. \A x \in B : mem'[x].prepare = mem[x].prepare /\ After(x)' = After(x)
    BY <1>6 DEF After
  <2> QED BY <2>1, <2>2 DEF Inv, BlocksOK, Marked
<1>14. Tiled(B)' /\ Even(B)'
  BY <1>6, TiledKeeps, EvenKeeps DEF Inv, BlocksOK
<1>15. Valids(B)'
  <2>1. \A x \in B : x # o => mem'[x].valid = mem[x].valid
    BY <1>6
  <2>2. \A q \in Packets : status[q] = "sent" => status'[q] = "sent" /\ start'[q] = start[q]
    BY <1>1, <1>2, <1>10
  <2>3. status'[p] = "sent" /\ start'[p] = o + Hdr
    BY <1>1, <1>4, <1>10
  <2> QED BY <1>6, <2>1, <2>2, <2>3 DEF Inv, BlocksOK, Valids
<1>16. Granted(B)'
  <2>1. GrantedTo(p, B)'
    <3>1. Region(p)' = Region(p) /\ start'[p] - Hdr = o /\ len'[p] = len[p]
      BY <1>1, <1>4 DEF Region
    <3>2. \A x \in Region(p) : mem'[x] = mem[x]
      BY <1>1, <1>2, <1>7 DEF MemKept
    <3>3. \A x \in Region(p) : mem[x].pkt = p
      BY <1>0, <1>2
    <3> QED BY <1>2, <1>3, <1>4, <1>6, <1>10, <3>1, <3>2, <3>3 DEF GrantedTo, HeldStages
  <2>2. ASSUME NEW q \in Packets, q # p PROVE GrantedTo(q, B)'
    <3>1. GrantedTo(q, B)
      BY DEF Inv, BlocksOK, Granted
    <3>2. status[q] \in HeldStages => start[q] - Hdr \in B /\ start[q] - Hdr # o
      BY <1>3, <1>4, <2>2, <3>1, Consts DEF GrantedTo, Holds, Alone, Inv, TypeOK
    <3>3. status[q] \in HeldStages => mem'[start[q] - Hdr] = mem[start[q] - Hdr]
      BY <1>6, <3>2
    <3>4. len'[q] = len[q] /\ status'[q] = status[q] /\ start'[q] = start[q]
      BY <1>1, <1>10, <2>2
    <3> QED BY <1>7, <3>1, <3>3, <3>4, GrantedKeeps DEF HeldStages
  <2> QED BY <2>1, <2>2 DEF Granted
<1>17. ProducerOK(t, B)'
  BY <1>1, <1>2, <1>8 DEF Inv, ProducerOK, ClaimSteps, SplitSteps, JoinSteps
<1>18. ProducerActs(t, B, B)
  <2>1. OnlyMoves(t)
    BY <1>1, <1>8 DEF OnlyMoves
  <2>2. status[id[t]] # "reading"
    BY <1>2
  <2> QED BY <1>1, <1>2, <1>7, <1>10, <2>1, <2>2 DEF ProducerActs
<1>19. BlocksOK(B)'
  BY <1>12, <1>13, <1>14, <1>15, <1>16 DEF BlocksOK
<1> QED BY <1>1, <1>9, <1>17, <1>18, <1>19, ProducerActing

(* A consumer's step inside its pass. *)
ConsumerActs(c) ==
  /\ OnlyMoves(c) /\ UNCHANGED << nextId, len, id, start >> /\ InCall(c)
  /\ \A u \in Producers : MemKept(u)
  /\ \A p \in Packets : status'[p] # status[p] => status[p] \in {"sent", "reading"}
  /\ \A d \in Consumers : d # c /\ pc[d] = "handle" => status'[got[d]] = "reading"

LEMMA ConsumerActing ==
  ASSUME NEW B \in SUBSET Area, Inv(B), NEW c \in Consumers, ConsumerActs(c),
         TypeOK', ConsumerOK(c, B)', BlocksOK(B)', Distinct'
  PROVE  Inv(B)'
<1>0. c \in Threads /\ OnlyMoves(c) /\ UNCHANGED << nextId, len, id, start >>
  BY DEF Threads, ConsumerActs
<1>1. OneCaller'
  <2>1. \A u \in Threads : u # c => pc'[u] = pc[u]
    BY <1>0 DEF OnlyMoves
  <2>2. InCall(c)
    BY DEF ConsumerActs
  <2> QED BY <1>0, <2>1, <2>2, OneCallerKeeps DEF Inv
<1>2. ASSUME NEW u \in Producers PROVE ProducerOK(u, B)'
  <2>1. pc'[u] = pc[u] /\ at'[u] = at[u] /\ id'[u] = id[u]
    BY <1>0, ThreadsAssumption DEF OnlyMoves, Threads
  <2>2. ProducerOK(u, B) /\ nextId \in Int /\ nextId' \in Int /\ nextId' >= nextId /\ id[u] \in Int
    BY <1>0, SizesAssumption DEF Inv, TypeOK
  <2>3. pc[u] # "idle" => id[u] \in Packets
    BY <2>2, SizesAssumption DEF Inv, TypeOK, ProducerOK, Packets
  <2>4. pc[u] \in ClaimSteps \cup {"claim", "skip", "fill", "publish"} =>
          pc[u] # "idle" /\ status[id[u]] \in {"none", "writing"}
    BY <2>2 DEF ProducerOK, ClaimSteps
  <2>5. pc[u] \in ClaimSteps \cup {"claim", "skip", "fill", "publish"} =>
          status'[id[u]] = status[id[u]]
    BY <2>3, <2>4 DEF ConsumerActs
  <2>6. Untouched(u, B, B)
    BY <1>0, <2>1, <2>5 DEF MemKept, Untouched, ConsumerActs
  <2> QED BY <2>2, <2>6, ProducerKeeps
<1>3. ASSUME NEW d \in Consumers, d # c PROVE ConsumerOK(d, B)'
  <2>1. ConsumerOK(d, B) /\ pc'[d] = pc[d] /\ at'[d] = at[d] /\ got'[d] = got[d] /\ start' = start
    BY <1>0, <1>3 DEF Inv, OnlyMoves, Threads
  <2>2. pc[d] = "handle" => status'[got[d]] = "reading" /\ start'[got[d]] = start[got[d]]
    BY <1>3, <2>1 DEF ConsumerActs
  <2> QED BY <2>1, <2>2, ConsumerKeeps
<1> QED BY <1>1, <1>2, <1>3 DEF Inv

(* A consumer's step does not change how producers use the blocks.         *)
LEMMA ReadUses ==
  ASSUME NEW c \in Consumers, OnlyMoves(c), \A u \in Producers : MemKept(u)
  PROVE  \A u \in Producers, x \in Area : Works(u, x)' <=> Works(u, x)
<1>1. \A u \in Producers : pc'[u] = pc[u] /\ at'[u] = at[u]
  BY ThreadsAssumption DEF OnlyMoves, Threads
<1> QED BY <1>1, WorksSame DEF MemKept, ClaimSteps

(* What Take takes is one packet. *)
LEMMA TakesOne ==
  ASSUME NEW B \in SUBSET Area, Inv(B), NEW c \in Consumers, Take(c)
  PROVE  \E p \in Packets :
           /\ mem[at[c]].valid = 1 /\ status[p] = "sent" /\ start[p] = at[c] + Hdr
           /\ status' = [status EXCEPT ![p] = "reading"] /\ got' = [got EXCEPT ![c] = p]
           /\ Store(at[c], "valid", 0)
<1>1. pc[c] = "scan" /\ mem[at[c]].valid # 0 /\ at[c] \in B
  BY Consts DEF Take, Goto, Inv, ConsumerOK
<1>2. PICK o \in B : o = at[c] /\ o \in Nat
  BY <1>1, Consts
<1>3. PICK p \in Packets : mem[o].valid = 1 /\ status[p] = "sent" /\ start[p] = o + Hdr
  BY <1>1, <1>2 DEF Inv, BlocksOK, Valids
<1>4. {q \in Packets : status[q] = "sent" /\ start[q] = at[c] + Hdr} = {p}
  <2>1. Alone
    BY DEF Inv, BlocksOK
  <2>2. \A q \in Packets : Holds(q, o) <=> q = p
    BY <1>3, <2>1 DEF Alone, Holds, HeldStages
  <2> QED BY <1>2, <1>3, <2>2 DEF Holds, HeldStages
<1>5. /\ status' = [q \in Packets |-> IF q \in {p} THEN "reading" ELSE status[q]]
      /\ got' = [got EXCEPT ![c] = IF {p} = {} THEN 0 ELSE CHOOSE q \in {p} : TRUE]
      /\ Store(o, "valid", 0)
  BY <1>2, <1>3, <1>4 DEF Take
<1>6. status' = [status EXCEPT ![p] = "reading"]
  BY <1>5 DEF Inv, TypeOK
<1> QED BY <1>2, <1>3, <1>5, <1>6

LEMMA TakeKeeps ==
  ASSUME NEW B \in SUBSET Area, Inv(B), NEW c \in Consumers, Take(c)
  PROVE  Inv(B)'
<1>1. /\ pc[c] = "scan" /\ c \in Threads /\ Goto(c, "scan", "handle") /\ mem[at[c]].valid # 0
      /\ UNCHANGED << existing, nextId, at, id, len, start >> /\ at[c] \in B
  BY Consts DEF Take, Goto, Threads, Inv, ConsumerOK
<1>2. PICK o \in B : o = at[c] /\ o \in Nat
  BY <1>1, Consts
<1>3. mem \in [Area -> Header] /\ Alone /\ start \in [Packets -> Int]
  BY DEF Inv, TypeOK, BlocksOK
<1>4. PICK p \in Packets :
        /\ mem[o].valid = 1 /\ status[p] = "sent" /\ start[p] = o + Hdr
        /\ status' = [status EXCEPT ![p] = "reading"] /\ got' = [got EXCEPT ![c] = p]
        /\ Store(o, "valid", 0)
  BY <1>2, TakesOne
<1>5. \A q \in Packets : Holds(q, o) <=> q = p
  BY <1>3, <1>4 DEF Alone, Holds, HeldStages
<1>8. /\ mem' \in [Area -> Header] /\ \A x \in Area : x # o => mem'[x] = mem[x]
      /\ mem'[o].valid = 0 /\ mem'[o].prepare = mem[o].prepare
      /\ mem'[o].length = mem[o].length /\ mem'[o].size = mem[o].size
  BY <1>3, <1>4, StoreValid
<1>9. /\ \A u \in Producers : MemKept(u)
      /\ \A q \in Packets : status[q] \in {"sent", "reading"} => \A x \in Region(q) : mem'[x] = mem[x]
  BY <1>8, HeaderKeeps
<1>10. /\ pc' \in [Threads -> {"idle"} \cup ProducerSteps \cup ConsumerSteps]
       /\ pc'[c] = "handle" /\ \A u \in Threads : u # c => pc'[u] = pc[u]
  <2>1. "handle" \in {"idle"} \cup ProducerSteps \cup ConsumerSteps
    BY DEF ConsumerSteps
  <2> QED BY <1>1, <2>1, Moved DEF Inv
<1>11. /\ status'[p] = "reading" /\ \A q \in Packets : q # p => status'[q] = status[q]
       /\ got'[c] = p /\ \A d \in Consumers : d # c => got'[d] = got[d]
       /\ got' \in [Consumers -> 0 .. MaxPackets]
  BY <1>4, SizesAssumption DEF Inv, TypeOK, Packets
<1>12. TypeOK'
  <2>1. status' \in [Packets -> {"none", "refused", "writing", "sent", "reading", "delivered"}]
    BY <1>4 DEF Inv, TypeOK
  <2> QED BY <1>1, <1>8, <1>10, <1>11, <2>1 DEF Inv, TypeOK
<1>13. OnlyMoves(c)
  BY <1>1, <1>10, <1>11 DEF OnlyMoves
<1>14. ASSUME NEW d \in Consumers, pc[d] = "handle"
       PROVE  got[d] \in Packets /\ status[got[d]] = "reading" /\ got[d] # p /\ d # c
  BY <1>1, <1>4, <1>14, SizesAssumption DEF Inv, TypeOK, ConsumerOK, Packets
<1>15. Distinct'
  <2>1. \A q \in Packets : q >= nextId' => status'[q] = "none"
    BY <1>1, <1>4, <1>11 DEF Inv, Distinct
  <2>2. \A d, e \in Consumers : pc'[d] = "handle" /\ pc'[e] = "handle" /\ got'[d] = got'[e] => d = e
    <3>1. \A d \in Consumers : d # c => pc'[d] = pc[d]
      BY <1>10 DEF Threads
    <3> QED BY <1>11, <1>14, <3>1 DEF Inv, Distinct
  <2> QED BY <1>1, <2>1, <2>2 DEF Inv, Distinct
<1>16. /\ \A u \in Producers, x \in Area : Works(u, x)' <=> Works(u, x)
       /\ \A q \in Packets, x \in Area : Holds(q, x)' <=> Holds(q, x)
       /\ \A d \in Consumers, x \in Area : Frees(d, x)' <=> Frees(d, x)
  <2>1. \A u \in Producers, x \in Area : Works(u, x)' <=> Works(u, x)
    BY <1>9, <1>13, ReadUses
  <2>2. \A q \in Packets, x \in Area : Holds(q, x)' <=> Holds(q, x)
    BY <1>1, <1>4, <1>11 DEF Holds, HeldStages
  <2>3. \A d \in Consumers, x \in Area : Frees(d, x)' <=> Frees(d, x)
    BY <1>1, <1>10 DEF Frees, Threads
  <2> QED BY <2>1, <2>2, <2>3
<1>17. Alone'
  BY <1>3, <1>16, AloneKeeps
<1>18. Marked(B)'
  <2>1. \A x \in Area : Used(x)' <=> Used(x)
    BY <1>16 DEF Used
  <2>2. \A x \in B : mem'[x].prepare = mem[x].prepare /\ After(x)' = After(x)
    BY <1>8 DEF After
  <2> QED BY <2>1, <2>2 DEF Inv, BlocksOK, Marked
<1>19. Tiled(B)' /\ Even(B)'
  BY <1>8, TiledKeeps, EvenKeeps DEF Inv, BlocksOK
<1>20. Valids(B)'
  <2> SUFFICES ASSUME NEW x \in B, mem'[x].valid # 0
               PROVE  mem'[x].valid = 1 /\ \E q \in Packets : status'[q] = "sent" /\ start'[q] = x + Hdr
    BY DEF Valids
  <2>1. x # o /\ mem'[x].valid = mem[x].valid /\ x \in Int
    BY <1>8, Consts
  <2>2. PICK q \in Packets : mem[x].valid = 1 /\ status[q] = "sent" /\ start[q] = x + Hdr
    BY <2>1 DEF Inv, BlocksOK, Valids
  <2>3. q # p
    BY <1>2, <1>4, <2>1, <2>2, Consts
  <2> QED BY <1>1, <1>11, <2>1, <2>2, <2>3
<1>21. Granted(B)'
  <2>1. GrantedTo(p, B)'
    <3>1. Region(p)' = Region(p) /\ start'[p] - Hdr = o /\ start[p] - Hdr = o /\ len'[p] = len[p]
      BY <1>1, <1>2, <1>4, Consts DEF Region
    <3>2. GrantedTo(p, B)
      BY DEF Inv, BlocksOK, Granted
    <3>3. \A x \in Region(p) : mem'[x] = mem[x]
      BY <1>4, <1>9
    <3> QED BY <1>4, <1>8, <1>11, <3>1, <3>2, <3>3 DEF GrantedTo, HeldStages
  <2>2. ASSUME NEW q \in Packets, q # p PROVE GrantedTo(q, B)'
    <3>1. GrantedTo(q, B)
      BY DEF Inv, BlocksOK, Granted
    <3>2. status[q] \in HeldStages => start[q] - Hdr \in B /\ start[q] - Hdr # o
      BY <1>2, <1>3, <1>5, <2>2, <3>1, Consts DEF GrantedTo, Holds
    <3>3. status[q] \in HeldStages => mem'[start[q] - Hdr] = mem[start[q] - Hdr]
      BY <1>8, <3>2
    <3>4. len'[q] = len[q] /\ status'[q] = status[q] /\ start'[q] = start[q]
      BY <1>1, <1>11, <2>2
    <3> QED BY <1>9, <3>1, <3>3, <3>4, GrantedKeeps DEF HeldStages
  <2> QED BY <2>1, <2>2 DEF Granted
<1>22. ConsumerOK(c, B)'
  <2>1. p # 0 /\ start'[p] = at'[c] + Hdr
    BY <1>1, <1>2, <1>4, SizesAssumption DEF Packets
  <2> QED BY <1>1, <1>10, <1>11, <2>1 DEF ConsumerOK
<1>23. ConsumerActs(c)
  <2>1. InCall(c)
    BY <1>1 DEF InCall
  <2>2. \A d \in Consumers : d # c /\ pc[d] = "handle" => status'[got[d]] = "reading"
    BY <1>11, <1>14
  <2>3. \A q \in Packets : status'[q] # status[q] => status[q] \in {"sent", "reading"}
    BY <1>4, <1>11
  <2> QED BY <1>1, <1>9, <1>13, <2>1, <2>2, <2>3 DEF ConsumerActs
<1>24. BlocksOK(B)'
  BY <1>17, <1>18, <1>19, <1>20, <1>21 DEF BlocksOK
<1> QED BY <1>12, <1>15, <1>22, <1>23, <1>24, ConsumerActing

LEMMA HandleKeeps ==
  ASSUME NEW B \in SUBSET Area, Inv(B), NEW c \in Consumers, Handle(c)
  PROVE  Inv(B)'
<1>1. /\ pc[c] = "handle" /\ c \in Threads /\ Goto(c, "handle", "release")
      /\ UNCHANGED << mem, existing, nextId, at, id, len, start >> /\ at[c] \in B
  BY DEF Handle, Goto, Threads, Inv, ConsumerOK
<1>2. PICK o \in B : o = at[c]
  BY <1>1
<1>3. PICK p \in Packets : p = got[c] /\ status[p] = "reading" /\ start[p] = o + Hdr
  <2>1. got[c] # 0 /\ status[got[c]] = "reading" /\ start[got[c]] = at[c] + Hdr
    BY <1>1 DEF Inv, ConsumerOK
  <2>2. got[c] \in Packets
    BY <2>1, SizesAssumption DEF Inv, TypeOK, Packets
  <2> QED BY <1>2, <2>1, <2>2
<1>4. Alone /\ Holds(p, o)
  BY <1>3 DEF Inv, BlocksOK, Holds, HeldStages
<1>5. /\ status' = [q \in Packets |-> IF q = p THEN "delivered" ELSE status[q]]
      /\ got' = [got EXCEPT ![c] = 0]
  BY <1>3 DEF Handle
<1>6. \A u \in Producers : MemKept(u)
  BY <1>1 DEF MemKept
<1>7. /\ pc' \in [Threads -> {"idle"} \cup ProducerSteps \cup ConsumerSteps]
      /\ pc'[c] = "release" /\ \A u \in Threads : u # c => pc'[u] = pc[u]
  <2>1. "release" \in {"idle"} \cup ProducerSteps \cup ConsumerSteps
    BY DEF ConsumerSteps
  <2> QED BY <1>1, <2>1, Moved DEF Inv
<1>8. /\ status'[p] = "delivered" /\ \A q \in Packets : q # p => status'[q] = status[q]
      /\ got' \in [Consumers -> 0 .. MaxPackets] /\ \A d \in Consumers : d # c => got'[d] = got[d]
  BY <1>5, SizesAssumption DEF Inv, TypeOK
<1>9. TypeOK'
  <2>1. status' \in [Packets -> {"none", "refused", "writing", "sent", "reading", "delivered"}]
    BY <1>5 DEF Inv, TypeOK
  <2> QED BY <1>1, <1>7, <1>8, <2>1 DEF Inv, TypeOK
<1>10. OnlyMoves(c)
  BY <1>1, <1>7, <1>8 DEF OnlyMoves
<1>11. ASSUME NEW d \in Consumers, d # c, pc[d] = "handle"
       PROVE  got[d] \in Packets /\ status[got[d]] = "reading" /\ got[d] # p
  <2>1. ConsumerOK(d, B)
    BY DEF Inv
  <2>2. got[d] \in Packets /\ status[got[d]] = "reading"
    BY <1>11, <2>1, SizesAssumption DEF Inv, TypeOK, ConsumerOK, Packets
  <2>3. got[d] # got[c]
    BY <1>1, <1>11 DEF Inv, Distinct
  <2> QED BY <1>3, <2>2, <2>3
<1>12. Distinct'
  <2>1. \A q \in Packets : q >= nextId' => status'[q] = "none"
    BY <1>1, <1>3, <1>8 DEF Inv, Distinct
  <2>2. \A d, e \in Consumers : pc'[d] = "handle" /\ pc'[e] = "handle" /\ got'[d] = got'[e] => d = e
    <3>1. \A d \in Consumers : pc'[d] = "handle" => pc[d] = "handle" /\ got'[d] = got[d]
      BY <1>7, <1>8 DEF Threads
    <3> QED BY <3>1 DEF Inv, Distinct
  <2> QED BY <1>1, <2>1, <2>2 DEF Inv, Distinct
<1>13. /\ \A u \in Producers, x \in Area : Works(u, x)' <=> Works(u, x)
       /\ \A q \in Packets, x \in Area : q # p => (Holds(q, x)' <=> Holds(q, x))
       /\ \A x \in Area : ~Holds(p, x)' /\ (Holds(p, x) <=> x = o)
       /\ \A d \in Consumers, x \in Area : d # c => (Frees(d, x)' <=> Frees(d, x))
       /\ \A x \in Area : ~Frees(c, x) /\ (Frees(c, x)' <=> x = o)
  <2>1. \A u \in Producers, x \in Area : Works(u, x)' <=> Works(u, x)
    BY <1>6, <1>10, ReadUses
  <2>2. \A q \in Packets, x \in Area : q # p => (Holds(q, x)' <=> Holds(q, x))
    BY <1>1, <1>8 DEF Holds
  <2>3. \A x \in Area : ~Holds(p, x)' /\ (Holds(p, x) <=> x = o)
    BY <1>3, <1>8, Consts DEF Holds, HeldStages
  <2>4. \A d \in Consumers, x \in Area : d # c => (Frees(d, x)' <=> Frees(d, x))
    BY <1>1, <1>7 DEF Frees, Threads
  <2>5. \A x \in Area : ~Frees(c, x) /\ (Frees(c, x)' <=> x = o)
    BY <1>1, <1>2, <1>7 DEF Frees
  <2> QED BY <2>1, <2>2, <2>3, <2>4, <2>5
<1>14. /\ \A u \in Producers : ~Works(u, o)
       /\ \A q \in Packets : q # p => ~Holds(q, o)
       /\ \A d \in Consumers : ~Frees(d, o)
  BY <1>4 DEF Alone
<1>15. Alone'
  <2>1. \A u \in Producers, x \in Area : Works(u, x)' => Works(u, x) /\ x # o
    BY <1>13, <1>14
  <2>2. \A q \in Packets, x \in Area : Holds(q, x)' => Holds(q, x) /\ x # o
    BY <1>13, <1>14
  <2>3. \A d \in Consumers, x \in Area : Frees(d, x)' => IF x = o THEN d = c ELSE Frees(d, x)
    BY <1>13, <1>14
  <2> QED BY <1>4, <2>1, <2>2, <2>3, AloneConsumer
<1>16. Marked(B)'
  <2>1. \A x \in Area : Used(x)' <=> Used(x)
    BY <1>13 DEF Used
  <2>2. mem' = mem /\ \A x \in B : After(x)' = After(x)
    BY <1>1 DEF After
  <2> QED BY <2>1, <2>2 DEF Inv, BlocksOK, Marked
<1>17. Tiled(B)' /\ Even(B)'
  BY <1>1, TiledKeeps, EvenKeeps DEF Inv, BlocksOK
<1>18. Valids(B)'
  <2>1. \A q \in Packets : status[q] = "sent" => status'[q] = "sent" /\ start'[q] = start[q]
    BY <1>1, <1>3, <1>8
  <2> QED BY <1>1, <2>1 DEF Inv, BlocksOK, Valids
<1>19. Granted(B)'
  <2>1. GrantedTo(p, B)'
    BY <1>8 DEF GrantedTo, HeldStages
  <2>2. ASSUME NEW q \in Packets, q # p PROVE GrantedTo(q, B)'
    <3>1. GrantedTo(q, B)
      BY DEF Inv, BlocksOK, Granted
    <3>2. len'[q] = len[q] /\ status'[q] = status[q] /\ start'[q] = start[q] /\ mem' = mem
      BY <1>1, <1>8, <2>2
    <3> QED BY <3>1, <3>2, GrantedKeeps
  <2> QED BY <2>1, <2>2 DEF Granted
<1>20. ConsumerOK(c, B)'
  BY <1>1, <1>7 DEF ConsumerOK
<1>21. ConsumerActs(c)
  <2>1. InCall(c)
    BY <1>1 DEF InCall
  <2>2. \A d \in Consumers : d # c /\ pc[d] = "handle" => status'[got[d]] = "reading"
    BY <1>8, <1>11
  <2>3. \A q \in Packets : status'[q] # status[q] => status[q] \in {"sent", "reading"}
    BY <1>3, <1>8
  <2> QED BY <1>1, <1>6, <1>10, <2>1, <2>2, <2>3 DEF ConsumerActs
<1>22. BlocksOK(B)'
  BY <1>15, <1>16, <1>17, <1>18, <1>19 DEF BlocksOK
<1> QED BY <1>9, <1>12, <1>20, <1>21, <1>22, ConsumerActing

LEMMA ReleaseKeeps ==
  ASSUME NEW B \in SUBSET Area, Inv(B), NEW c \in Consumers, Release(c)
  PROVE  Inv(B)'
<1>1. /\ pc[c] = "release" /\ c \in Threads /\ Goto(c, "release", "advance")
      /\ UNCHANGED << existing, nextId, at, id, len, status, start, got >> /\ at[c] \in B
  BY DEF Release, Goto, Threads, Inv, ConsumerOK, ghosts
<1>2. PICK o \in B : o = at[c]
  BY <1>1
<1>3. mem \in [Area -> Header] /\ Alone /\ Frees(c, o)
  BY <1>1, <1>2 DEF Inv, TypeOK, BlocksOK, Frees
<1>4. Store(o, "prepare", 0)
  BY <1>2 DEF Release
<1>5. /\ mem' \in [Area -> Header] /\ \A x \in Area : x # o => mem'[x] = mem[x]
      /\ mem'[o].prepare = 0 /\ mem'[o].valid = mem[o].valid
      /\ mem'[o].length = mem[o].length /\ mem'[o].size = mem[o].size
  BY <1>3, <1>4, StorePrepare
<1>6. /\ \A u \in Producers : MemKept(u)
      /\ \A q \in Packets : status[q] \in {"sent", "reading"} => \A x \in Region(q) : mem'[x] = mem[x]
  BY <1>5, HeaderKeeps
<1>7. /\ pc' \in [Threads -> {"idle"} \cup ProducerSteps \cup ConsumerSteps]
      /\ pc'[c] = "advance" /\ \A u \in Threads : u # c => pc'[u] = pc[u]
  <2>1. "advance" \in {"idle"} \cup ProducerSteps \cup ConsumerSteps
    BY DEF ConsumerSteps
  <2> QED BY <1>1, <2>1, Moved DEF Inv
<1>8. TypeOK'
  BY <1>1, <1>5, <1>7 DEF Inv, TypeOK
<1>9. OnlyMoves(c)
  BY <1>1, <1>7 DEF OnlyMoves
<1>10. Distinct'
  <2>1. \A d \in Consumers : pc'[d] = "handle" => pc[d] = "handle"
    BY <1>7 DEF Threads
  <2> QED BY <1>1, <2>1 DEF Inv, Distinct
<1>11. SamePackets
  BY <1>1 DEF SamePackets
<1>12. /\ \A u \in Producers, x \in Area : Works(u, x)' <=> Works(u, x)
       /\ \A q \in Packets, x \in Area : Holds(q, x)' <=> Holds(q, x)
       /\ \A d \in Consumers, x \in Area : d # c => (Frees(d, x)' <=> Frees(d, x))
       /\ \A x \in Area : ~Frees(c, x)' /\ (Frees(c, x) <=> x = o)
  <2>1. \A u \in Producers, x \in Area : Works(u, x)' <=> Works(u, x)
    BY <1>6, <1>9, ReadUses
  <2>2. \A q \in Packets, x \in Area : Holds(q, x)' <=> Holds(q, x)
    BY <1>11, HoldsSame
  <2>3. \A d \in Consumers, x \in Area : d # c => (Frees(d, x)' <=> Frees(d, x))
    BY <1>1, <1>7 DEF Frees, Threads
  <2>4. \A x \in Area : ~Frees(c, x)' /\ (Frees(c, x) <=> x = o)
    BY <1>1, <1>2, <1>7 DEF Frees
  <2> QED BY <2>1, <2>2, <2>3, <2>4
<1>13. Alone'
  <2>1. \A d \in Consumers, x \in Area : Frees(d, x)' => Frees(d, x)
    BY <1>12
  <2> QED BY <1>3, <1>12, <2>1, AloneKeeps
<1>14. \A x \in B : x # o => (Used(x)' <=> Used(x))
  <2>1. \A x \in B, d \in Consumers : x # o => (Frees(d, x)' <=> Frees(d, x))
    BY <1>12
  <2> QED BY <1>12, <2>1 DEF Used
<1>15. ~Used(o)'
  <2>1. /\ \A u \in Producers : ~Works(u, o)
        /\ \A q \in Packets : ~Holds(q, o)
        /\ \A d \in Consumers : d # c => ~Frees(d, o)
    BY <1>3 DEF Alone
  <2> QED BY <1>12, <2>1 DEF Used
<1>16. BlocksOK(B)'
  BY <1>5, <1>6, <1>11, <1>13, <1>14, <1>15, MarksKeep
<1>17. ConsumerOK(c, B)'
  BY <1>1, <1>7 DEF ConsumerOK
<1>18. ConsumerActs(c)
  <2>1. InCall(c)
    BY <1>1 DEF InCall
  <2>2. \A d \in Consumers : d # c /\ pc[d] = "handle" => status'[got[d]] = "reading"
    BY <1>1 DEF Inv, ConsumerOK
  <2> QED BY <1>1, <1>6, <1>9, <2>1, <2>2 DEF ConsumerActs
<1> QED BY <1>8, <1>10, <1>16, <1>17, <1>18, ConsumerActing

-----------------------------------------------------------------------------
(* Splitting and joining: the set of blocks changes.                       *)
LEMMA UsedIsBlock ==
  ASSUME NEW B \in SUBSET Area, Inv(B), NEW x \in Area, Used(x)
  PROVE  x \in B
<1>1. CASE \E t \in Producers : Works(t, x)
  BY <1>1 DEF Works, Inv, ProducerOK, ClaimSteps
<1>2. CASE \E p \in Packets : Holds(p, x)
  <2>1. PICK p \in Packets : Holds(p, x)
    BY <1>2
  <2>2. GrantedTo(p, B)
    BY DEF Inv, BlocksOK, Granted
  <2> QED BY <2>1, <2>2, Consts DEF GrantedTo, Holds
<1>3. CASE \E c \in Consumers : Frees(c, x)
  BY <1>3 DEF Frees, Inv, ConsumerOK
<1> QED BY <1>1, <1>2, <1>3 DEF Used

(* The size of a block is written by the producer that claimed it: nobody  *)
(* else relies on it.                                                      *)
LEMMA SizeKeeps ==
  ASSUME NEW B \in SUBSET Area, Inv(B), NEW t \in Producers, pc[t] \in ClaimSteps,
         NEW o \in B, o = at[t], \A x \in Area : x # o => mem'[x] = mem[x]
  PROVE  /\ \A u \in Producers : u # t => MemKept(u)
         /\ \A p \in Packets : status[p] \in HeldStages =>
              /\ start[p] - Hdr \in B /\ start[p] - Hdr # o
              /\ \A x \in Region(p) : mem'[x] = mem[x]
<1>1. Works(t, o) /\ Alone /\ \A x \in Area : x \notin B => mem'[x] = mem[x]
  BY DEF Works, Inv, BlocksOK
<1>2. ASSUME NEW p \in Packets, status[p] \in HeldStages
      PROVE  /\ start[p] - Hdr \in B /\ start[p] - Hdr # o
             /\ \A x \in Region(p) : mem'[x] = mem[x]
  <2>1. start[p] - Hdr \in B /\ start[p] \in Int
    BY <1>2 DEF Inv, TypeOK, BlocksOK, Granted, GrantedTo
  <2>2. start[p] - Hdr # o
    BY <1>1, <1>2, <2>1, Consts DEF Alone, Holds
  <2>3. \A x \in Region(p) : mem'[x] = mem[x]
    BY <1>1, <1>2, GrantedInside
  <2> QED BY <2>1, <2>2, <2>3
<1>3. ASSUME NEW u \in Producers, u # t PROVE MemKept(u)
  <2>1. pc[u] \in ClaimSteps => at[u] \in B /\ at[u] # o
    BY <1>1, <1>3 DEF Inv, ProducerOK, Alone, Works
  <2>2. pc[u] \in SplitSteps => mem'[Second(u)] = mem[Second(u)]
    BY <1>1, SecondInside
  <2>3. pc[u] = "publish" => \A x \in Region(id[u]) : mem'[x] = mem[x]
    BY <1>2, PublishesWriting
  <2> QED BY <2>1, <2>2, <2>3 DEF MemKept
<1> QED BY <1>2, <1>3

LEMMA ShrinkKeeps ==
  ASSUME Calm, NEW B \in SUBSET Area, Inv(B), NEW t \in Producers, Shrink(t)
  PROVE  ShaInv'
<1>1. /\ pc[t] = "shrink" /\ t \in Threads /\ Goto(t, "shrink", "setLength")
      /\ UNCHANGED << existing, nextId, at, id, ghosts >> /\ pc[t] \in ClaimSteps
      /\ pc[t] \in SplitSteps
  BY DEF Shrink, Goto, Threads, ClaimSteps, SplitSteps
<1>2. PICK o \in B : o = at[t] /\ o \in Nat
  BY <1>1, Consts DEF Inv, ProducerOK
<1>3. PICK n \in Sizes : n = len[id[t]] /\ n \in Nat /\ n > 0
  BY <1>1, Consts DEF Inv, ProducerOK
<1>4. PICK y \in Area : /\ y = Second(t) /\ o < y /\ y < After(o) /\ y \notin B
                        /\ y = o + Hdr + n /\ y \in Nat
  BY <1>1, <1>2, <1>3, SecondInside, Consts DEF Second
<1>5. mem \in [Area -> Header] /\ Alone /\ Tiled(B) /\ Even(B) /\ Works(t, o) /\ at \in [Threads -> Int]
  BY <1>1, <1>2 DEF Inv, TypeOK, BlocksOK, Works
<1>6. PICK S \in Int : S = mem[o].size /\ S >= n + Hdr /\ After(o) = o + Hdr + S
  BY <1>1, <1>2, <1>3, <1>5, BlockIs DEF Inv, ProducerOK
<1>7. mem[y].valid = 0 /\ mem[y].prepare = 0 /\ mem[y].size = S - n - Hdr
  BY <1>1, <1>2, <1>3, <1>4, <1>6 DEF Inv, ProducerOK
<1>8. /\ mem' \in [Area -> Header] /\ \A x \in Area : x # o => mem'[x] = mem[x]
      /\ mem'[o].size = n /\ mem'[o].valid = mem[o].valid
      /\ mem'[o].prepare = mem[o].prepare /\ mem'[o].length = mem[o].length
  <2>1. Store(o, "size", n) /\ n \in Int
    BY <1>2, <1>3 DEF Shrink
  <2> QED BY <1>5, <2>1, StoreSize
<1>9. /\ \A u \in Producers : u # t => MemKept(u)
      /\ \A p \in Packets : status[p] \in HeldStages =>
           /\ start[p] - Hdr \in B /\ start[p] - Hdr # o
           /\ \A x \in Region(p) : mem'[x] = mem[x]
  BY <1>1, <1>2, <1>8, SizeKeeps
<1>10. /\ pc[t] = "shrink" /\ pc'[t] = "setLength"
       /\ \A u \in Threads : u # t => pc'[u] = pc[u]
       /\ UNCHANGED << existing, nextId, id, len, status, start, got >>
       /\ TypeOK' /\ ProducerActs(t, B, B) /\ SamePackets
       /\ \A p \in Packets, x \in Area : Holds(p, x)' <=> Holds(p, x)
       /\ \A c \in Consumers, x \in Area : Frees(c, x)' <=> Frees(c, x)
  <2>1. "setLength" \in ProducerSteps /\ "shrink" \in ClaimSteps \cup {"claim", "skip"}
    BY DEF ProducerSteps, ClaimSteps
  <2>2. at' \in [Threads -> Int] /\ \A u \in Threads : u # t => at'[u] = at[u]
    BY <1>1, <1>5
  <2>3. UNCHANGED << existing, nextId, id, ghosts >>
    BY <1>1
  <2> QED BY <1>1, <1>8, <1>9, <2>1, <2>2, <2>3, PrepareFrame
<1>11. \A u \in Producers, x \in Area : Works(u, x)' <=> Works(u, x)
  <2>1. \A u \in Producers, x \in Area : u # t => (Works(u, x)' <=> Works(u, x))
    BY <1>1, <1>9, <1>10, WorksSame DEF Threads, MemKept, ClaimSteps
  <2>2. \A x \in Area : Works(t, x)' <=> Works(t, x)
    BY <1>1, <1>10 DEF Works, ClaimSteps
  <2> QED BY <2>1, <2>2
<1>12. \A x \in Area : Used(x)' <=> Used(x)
  BY <1>10, <1>11 DEF Used
<1>13. /\ \A x \in B : x # o => After(x)' = After(x)
       /\ After(o)' = y /\ After(y)' = After(o)
  <2>1. \A x \in B : x # o => After(x)' = After(x)
    BY <1>8 DEF After
  <2>2. After(o)' = o + Hdr + n
    BY <1>8 DEF After
  <2>3. After(y)' = y + Hdr + (S - n - Hdr)
    BY <1>4, <1>7, <1>8 DEF After
  <2>4. y + Hdr + (S - n - Hdr) = o + Hdr + S
    BY <1>4, <1>6, <1>3, Consts
  <2> QED BY <1>4, <1>6, <2>1, <2>2, <2>3, <2>4
<1> DEFINE C == B \cup {y}
<1>14. C \in SUBSET Area /\ B \subseteq C
  OBVIOUS
<1>15. \A x \in B : x \in Nat /\ After(x) \in Int /\ x < After(x) /\ After(x) \in B \cup {Capacity}
  BY <1>5, BlockIs, Consts DEF Tiled
<1>16. Tiled(C)'
  <2>1. 0 \in C
    BY <1>5 DEF Tiled
  <2>2. \A x \in C : mem'[x].size >= 0
    <3>1. mem'[o].size >= 0
      BY <1>3, <1>8
    <3>2. mem'[y].size >= 0
      BY <1>3, <1>4, <1>6, <1>7, <1>8, Consts
    <3>3. \A x \in B : x # o => mem'[x].size >= 0
      BY <1>5, <1>8 DEF Tiled
    <3> QED BY <3>1, <3>2, <3>3
  <2>3. \A x \in C : After(x)' \in C \cup {Capacity}
    BY <1>13, <1>15
  <2>4. \A x, b \in B : x < b => After(x) <= b
    BY <1>5 DEF Tiled
  <2>5. ASSUME NEW x \in C, NEW b \in C, x < b PROVE After(x)' <= b
    <3>1. CASE x = o
      <4>1. CASE b = y
        BY <1>4, <1>13, <3>1, <4>1
      <4>2. CASE b \in B
        BY <1>4, <1>13, <1>15, <2>4, <2>5, <3>1, <4>2
      <4> QED BY <4>1, <4>2
    <3>2. CASE x = y
      <4>1. b \in B /\ b > o
        BY <1>2, <1>4, <1>15, <2>5, <3>2
      <4> QED BY <1>13, <2>4, <3>2, <4>1
    <3>3. CASE x \in B /\ x # o
      <4>1. CASE b = y
        <5>1. x < o
          BY <1>2, <1>4, <1>15, <2>4, <2>5, <3>3, <4>1
        <5> QED BY <1>2, <1>4, <1>13, <1>15, <2>4, <3>3, <4>1, <5>1
      <4>2. CASE b \in B
        BY <1>13, <2>4, <2>5, <3>3, <4>2
      <4> QED BY <4>1, <4>2
    <3> QED BY <3>1, <3>2, <3>3
  <2> QED BY <2>1, <2>2, <2>3, <2>5 DEF Tiled
<1>17. Even(C)'
  <2> SUFFICES ASSUME ~Serial, NEW x \in C, NEW s \in Sizes
               PROVE  mem'[x].size = s \/ After(x)' = Capacity
    BY DEF Even
  <2>1. s = n
    BY DEF Calm
  <2>2. CASE x = o
    BY <1>8, <2>1, <2>2
  <2>3. CASE x = y
    <3>1. mem[o].size # s
      BY <1>3, <1>6, <2>1, Consts
    <3> QED BY <1>5, <1>13, <2>3, <3>1 DEF Even
  <2>4. CASE x \in B /\ x # o
    BY <1>5, <1>8, <1>13, <2>4 DEF Even
  <2> QED BY <2>2, <2>3, <2>4
<1>18. Alone'
  BY <1>5, <1>10, <1>11, AloneKeeps
<1>19. Marked(C)'
  <2>1. \A x \in C : mem'[x].prepare = mem[x].prepare
    BY <1>4, <1>8
  <2>2. ~Used(y)'
    BY <1>4, <1>12, UsedIsBlock
  <2>3. Used(o)
    BY <1>5 DEF Used
  <2>4. Marked(B)
    BY DEF Inv, BlocksOK
  <2>5. \A x \in B : /\ mem'[x].prepare = 0 => ~Used(x)'
                     /\ mem'[x].prepare # 0 => Used(x)' \/ After(x)' = Capacity
    BY <1>12, <1>13, <2>1, <2>3, <2>4 DEF Marked
  <2>6. mem'[y].prepare = 0
    BY <1>7, <2>1
  <2> QED BY <2>2, <2>5, <2>6 DEF Marked
<1>20. Valids(C)'
  <2>1. \A x \in B : mem'[x].valid = mem[x].valid
    BY <1>8
  <2>2. mem'[y].valid = 0
    BY <1>4, <1>7, <1>8
  <2>3. Valids(B)
    BY DEF Inv, BlocksOK
  <2> QED BY <1>10, <2>1, <2>2, <2>3 DEF Valids
<1>21. Granted(C)'
  <2> SUFFICES ASSUME NEW q \in Packets PROVE GrantedTo(q, C)'
    BY DEF Granted
  <2>1. GrantedTo(q, B)
    BY DEF Inv, BlocksOK, Granted
  <2>2. status[q] \in HeldStages => mem'[start[q] - Hdr] = mem[start[q] - Hdr]
    BY <1>8, <1>9
  <2>3. len'[q] = len[q] /\ status'[q] = status[q] /\ start'[q] = start[q]
    BY <1>10
  <2>4. GrantedTo(q, B)'
    BY <1>9, <2>1, <2>2, <2>3, GrantedKeeps DEF HeldStages
  <2> QED BY <2>4 DEF GrantedTo
<1>22. BlocksOK(C)'
  BY <1>16, <1>17, <1>18, <1>19, <1>20, <1>21 DEF BlocksOK
<1>23. ProducerOK(t, C)'
  <2>1. at'[t] = o /\ len'[id'[t]] = n /\ mem'[at'[t]].size >= len'[id'[t]]
    BY <1>1, <1>2, <1>3, <1>8, <1>10
  <2> QED BY <1>1, <1>10, <2>1 DEF Inv, ProducerOK, ClaimSteps, SplitSteps, JoinSteps
<1>24. ProducerActs(t, B, C)
  BY <1>10, <1>14 DEF ProducerActs
<1>25. Inv(C)'
  BY <1>1, <1>10, <1>22, <1>23, <1>24, ProducerActing
<1> QED BY <1>14, <1>25 DEF ShaInv

LEMMA GrowKeeps ==
  ASSUME NEW B \in SUBSET Area, Inv(B), NEW t \in Producers, Grow(t)
  PROVE  ShaInv'
<1>1. /\ pc[t] = "grow" /\ t \in Threads /\ Goto(t, "grow", "restart")
      /\ UNCHANGED << existing, nextId, at, id, ghosts >> /\ pc[t] \in ClaimSteps
      /\ Serial /\ at[t] \in B /\ Next2(t) \in B
  BY DEF Grow, Goto, Threads, ClaimSteps, JoinSteps, Inv, ProducerOK
<1>2. PICK o \in B : o = at[t] /\ o \in Nat
  BY <1>1, Consts
<1>3. PICK y \in B : y = Next2(t) /\ y = After(o) /\ y \in Nat
  BY <1>1, <1>2, Consts DEF Next2
<1>4. mem \in [Area -> Header] /\ Alone /\ Tiled(B) /\ Works(t, o) /\ Works(t, y) /\ at \in [Threads -> Int]
  BY <1>1, <1>2, <1>3 DEF Inv, TypeOK, BlocksOK, Works
<1>5. PICK S \in Int : S = mem[o].size /\ S >= 0 /\ After(o) = o + Hdr + S
  BY <1>4, BlockIs
<1>6. PICK Y \in Int : Y = mem[y].size /\ Y >= 0 /\ After(y) = y + Hdr + Y
  BY <1>4, BlockIs
<1>7. o < y /\ y < After(y) /\ After(y) \in Int
  BY <1>2, <1>3, <1>5, <1>6, Consts
<1>8. /\ mem' \in [Area -> Header] /\ \A x \in Area : x # o => mem'[x] = mem[x]
      /\ mem'[o].size = S + Y + Hdr /\ mem'[o].valid = mem[o].valid
      /\ mem'[o].prepare = mem[o].prepare /\ mem'[o].length = mem[o].length
  <2>1. Store(o, "size", S + Y + Hdr) /\ S + Y + Hdr \in Int
    BY <1>2, <1>3, <1>5, <1>6, Consts DEF Grow
  <2> QED BY <1>4, <2>1, StoreSize
<1>9. /\ \A u \in Producers : u # t => MemKept(u)
      /\ \A p \in Packets : status[p] \in HeldStages =>
           /\ start[p] - Hdr \in B /\ start[p] - Hdr # o
           /\ \A x \in Region(p) : mem'[x] = mem[x]
  BY <1>1, <1>2, <1>8, SizeKeeps
<1>10. /\ pc[t] = "grow" /\ pc'[t] = "restart"
       /\ \A u \in Threads : u # t => pc'[u] = pc[u]
       /\ UNCHANGED << existing, nextId, id, len, status, start, got >>
       /\ TypeOK' /\ ProducerActs(t, B, B) /\ SamePackets
       /\ \A p \in Packets, x \in Area : Holds(p, x)' <=> Holds(p, x)
       /\ \A c \in Consumers, x \in Area : Frees(c, x)' <=> Frees(c, x)
  <2>1. "restart" \in ProducerSteps /\ "grow" \in ClaimSteps \cup {"claim", "skip"}
    BY DEF ProducerSteps, ClaimSteps
  <2>2. at' \in [Threads -> Int] /\ \A u \in Threads : u # t => at'[u] = at[u]
    BY <1>1, <1>4
  <2>3. UNCHANGED << existing, nextId, id, ghosts >>
    BY <1>1
  <2> QED BY <1>1, <1>8, <1>9, <2>1, <2>2, <2>3, PrepareFrame
<1>11. /\ \A u \in Producers, x \in Area : u # t => (Works(u, x)' <=> Works(u, x))
       /\ \A x \in Area : (Works(t, x)' <=> x = o) /\ (Works(t, x) <=> x = o \/ x = y)
  <2>1. \A u \in Producers, x \in Area : u # t => (Works(u, x)' <=> Works(u, x))
    BY <1>1, <1>9, <1>10, WorksSame DEF Threads, MemKept, ClaimSteps
  <2>2. \A x \in Area : (Works(t, x)' <=> x = o) /\ (Works(t, x) <=> x = o \/ x = y)
    BY <1>1, <1>2, <1>3, <1>10 DEF Works, ClaimSteps
  <2> QED BY <2>1, <2>2
<1>12. \A x \in Area : (x # y => (Used(x)' <=> Used(x))) /\ (x = o => Used(x)')
  BY <1>10, <1>11 DEF Used
<1> DEFINE C == B \ {y}
<1>13. C \in SUBSET Area
  OBVIOUS
<1>14. /\ \A x \in C : x # o => After(x)' = After(x)
       /\ After(o)' = After(y)
  <2>1. \A x \in C : x # o => After(x)' = After(x)
    BY <1>8 DEF After
  <2>2. After(o)' = o + Hdr + (S + Y + Hdr)
    BY <1>8 DEF After
  <2>3. o + Hdr + (S + Y + Hdr) = y + Hdr + Y
    BY <1>3, <1>5, <1>2, Consts
  <2> QED BY <1>6, <2>1, <2>2, <2>3
<1>15. \A x \in B : x \in Nat /\ After(x) \in Int /\ x < After(x) /\ After(x) \in B \cup {Capacity}
  BY <1>4, BlockIs, Consts DEF Tiled
<1>16. \A x, b \in B : x < b => After(x) <= b
  BY <1>4 DEF Tiled
<1>17. Tiled(C)'
  <2>1. 0 \in C
    BY <1>2, <1>4, <1>7 DEF Tiled
  <2>2. \A x \in C : mem'[x].size >= 0
    <3>1. mem'[o].size >= 0
      BY <1>5, <1>6, <1>8, Consts
    <3>2. \A x \in B : x # o => mem'[x].size >= 0
      BY <1>4, <1>8 DEF Tiled
    <3> QED BY <3>1, <3>2
  <2>3. ASSUME NEW x \in C PROVE After(x)' \in C \cup {Capacity}
    <3>1. CASE x = o
      BY <1>7, <1>14, <1>15, <3>1
    <3>2. CASE x # o
      <4>1. x < o \/ o < x
        BY <1>2, <1>15, <3>2
      <4>2. After(x) # y
        BY <1>2, <1>3, <1>7, <1>15, <1>16, <4>1
      <4> QED BY <1>14, <1>15, <3>2, <4>2
    <3> QED BY <3>1, <3>2
  <2>4. ASSUME NEW x \in C, NEW b \in C, x < b PROVE After(x)' <= b
    <3>1. CASE x = o
      <4>1. y < b
        BY <1>3, <1>15, <1>16, <2>4, <3>1
      <4> QED BY <1>14, <1>16, <3>1, <4>1
    <3>2. CASE x # o
      BY <1>14, <1>16, <2>4, <3>2
    <3> QED BY <3>1, <3>2
  <2> QED BY <2>1, <2>2, <2>3, <2>4 DEF Tiled
<1>18. Even(C)'
  BY <1>1 DEF Even
<1>19. Alone'
  <2>1. \A u \in Producers, x \in Area : Works(u, x)' => Works(u, x)
    BY <1>11
  <2> QED BY <1>4, <1>10, <2>1, AloneKeeps
<1>20. Marked(C)'
  <2>1. \A x \in C : mem'[x].prepare = mem[x].prepare
    BY <1>8
  <2>2. Used(o)
    BY <1>4 DEF Used
  <2>3. Marked(B)
    BY DEF Inv, BlocksOK
  <2> QED BY <1>12, <1>14, <2>1, <2>2, <2>3 DEF Marked
<1>21. Valids(C)'
  <2>1. \A x \in C : mem'[x].valid = mem[x].valid
    BY <1>8
  <2>2. Valids(B)
    BY DEF Inv, BlocksOK
  <2> QED BY <1>10, <2>1, <2>2 DEF Valids
<1>22. Granted(C)'
  <2> SUFFICES ASSUME NEW q \in Packets PROVE GrantedTo(q, C)'
    BY DEF Granted
  <2>1. GrantedTo(q, B)
    BY DEF Inv, BlocksOK, Granted
  <2>2. status[q] \in HeldStages => mem'[start[q] - Hdr] = mem[start[q] - Hdr]
    BY <1>8, <1>9
  <2>3. len'[q] = len[q] /\ status'[q] = status[q] /\ start'[q] = start[q]
    BY <1>10
  <2>4. GrantedTo(q, B)'
    BY <1>9, <2>1, <2>2, <2>3, GrantedKeeps DEF HeldStages
  <2>5. status[q] \in HeldStages => start[q] - Hdr # y
    <3>1. start[q] \in Int
      BY DEF Inv, TypeOK
    <3> QED BY <1>3, <1>4, <3>1, Consts DEF Alone, Holds
  <2> QED BY <2>3, <2>4, <2>5 DEF GrantedTo
<1>23. BlocksOK(C)'
  BY <1>17, <1>18, <1>19, <1>20, <1>21, <1>22 DEF BlocksOK
<1>24. ProducerOK(t, C)'
  <2>1. at'[t] = o /\ o \in C
    BY <1>1, <1>2, <1>3, <1>7
  <2> QED BY <1>1, <1>10, <2>1 DEF Inv, ProducerOK, ClaimSteps, SplitSteps, JoinSteps
<1>25. ProducerActs(t, B, C)
  <2>1. \A u \in Threads : u # t => ~InCall(u)
    BY <1>1 DEF Inv, OneCaller, InCall, ClaimSteps
  <2> QED BY <1>10, <2>1 DEF ProducerActs
<1>26. Inv(C)'
  BY <1>1, <1>10, <1>23, <1>24, <1>25, ProducerActing
<1> QED BY <1>13, <1>26 DEF ShaInv

-----------------------------------------------------------------------------
(* The invariant holds of every state. *)
LEMMA InitInv == Init => ShaInv
<1> SUFFICES ASSUME Init PROVE ShaInv
  OBVIOUS
<1>0. 0 \in Area /\ Hdr \in Nat /\ Hdr > 0 /\ Capacity \in Nat /\ Capacity >= Hdr
  BY Consts
<1>1. /\ mem[0].size = Capacity - Hdr /\ mem[0].valid = 0 /\ mem[0].prepare = 0
      /\ mem \in [Area -> Header]
  <2>1. 0 \in 0 .. MaxPackets /\ Capacity - Hdr \in Int
    BY SizesAssumption
  <2> QED BY <1>0, <2>1 DEF Init, Header
<1>2. After(0) = Capacity
  BY <1>0, <1>1 DEF After
<1>3. /\ \A t \in Producers : pc[t] = "idle" /\ id[t] = 0
      /\ \A c \in Consumers : pc[c] = "poll"
      /\ \A p \in Packets : status[p] = "none"
      /\ nextId = 1
  BY ThreadsAssumption DEF Init, Threads
<1>4. TypeOK
  <2>1. /\ 0 \in Word /\ 0 \in 0 .. MaxPackets /\ 1 \in 1 .. MaxPackets + 1
        /\ "idle" \in {"idle"} \cup ProducerSteps \cup ConsumerSteps
        /\ "poll" \in {"idle"} \cup ProducerSteps \cup ConsumerSteps
    BY SizesAssumption DEF Word, ConsumerSteps
  <2> QED BY <1>1, <2>1 DEF Init, TypeOK
<1>5. OneCaller
  BY <1>3 DEF OneCaller, InCall, Threads
<1>6. Distinct
  BY <1>3 DEF Distinct
<1>7. \A o \in Area : ~Used(o)
  BY <1>3 DEF Used, Works, Holds, Frees, ClaimSteps, HeldStages
<1>8. Alone
  BY <1>3 DEF Alone, Works, Holds, Frees, ClaimSteps, HeldStages
<1>9. Tiled({0})
  BY <1>0, <1>1, <1>2 DEF Tiled
<1>10. Even({0}) /\ Marked({0}) /\ Valids({0})
  BY <1>0, <1>1, <1>2, <1>7 DEF Even, Marked, Valids
<1>11. Granted({0})
  BY <1>3 DEF Granted, GrantedTo, HeldStages
<1>12. \A t \in Producers : ProducerOK(t, {0})
  BY <1>3 DEF ProducerOK, ClaimSteps, SplitSteps, JoinSteps
<1>13. \A c \in Consumers : ConsumerOK(c, {0})
  BY <1>3 DEF ConsumerOK
<1>14. Inv({0})
  BY <1>4, <1>5, <1>6, <1>8, <1>9, <1>10, <1>11, <1>12, <1>13 DEF Inv, BlocksOK
<1> QED BY <1>0, <1>14 DEF ShaInv

LEMMA StutterKeeps ==
  ASSUME NEW B \in SUBSET Area, Inv(B), UNCHANGED vars
  PROVE  Inv(B)'
<1>1. UNCHANGED << mem, existing, nextId, pc, at, id, len, status, start, got >>
  BY DEF vars
<1>2. TypeOK' /\ OneCaller' /\ Distinct'
  BY <1>1 DEF Inv, TypeOK, OneCaller, Distinct, InCall
<1>3. SamePackets /\ SameUses
  BY <1>1 DEF SamePackets, SameUses, Works, Frees, Next2, After
<1>4. BlocksOK(B)'
  BY <1>1, <1>3, BlocksKeep DEF Inv
<1>5. \A u \in Producers : ProducerOK(u, B)'
  <2> SUFFICES ASSUME NEW u \in Producers PROVE ProducerOK(u, B)'
    OBVIOUS
  <2>1. ProducerOK(u, B) /\ nextId \in Int /\ nextId' \in Int /\ nextId' >= nextId /\ id[u] \in Int
    BY <1>1, SizesAssumption DEF Inv, TypeOK
  <2>2. Untouched(u, B, B)
    BY <1>1 DEF Untouched
  <2> QED BY <2>1, <2>2, ProducerKeeps
<1>6. \A c \in Consumers : ConsumerOK(c, B)'
  BY <1>1 DEF Inv, ConsumerOK
<1> QED BY <1>2, <1>4, <1>5, <1>6 DEF Inv

(* A step of PrepareData, of a sender, of a reader.                        *)
LEMMA PrepareKeeps ==
  ASSUME Calm, NEW B \in SUBSET Area, Inv(B), NEW t \in Producers, PrepareStep(t)
  PROVE  ShaInv'
<1>1. CASE GiveUp(t) \/ Fit(t) \/ Skip(t)
  BY <1>1, GiveUpKeeps, FitKeeps, SkipKeeps DEF ShaInv
<1>2. CASE Claim(t)
  <2>1. at[t] < Capacity /\ UNCHANGED << existing, nextId, at, id, ghosts >>
    BY <1>2 DEF Claim
  <2>2. CASE mem[at[t]].prepare = 0 /\ Goto(t, "claim", "fit") /\ Store(at[t], "prepare", 1)
    BY <2>1, <2>2, ClaimSucceeds DEF ShaInv
  <2>3. CASE Goto(t, "claim", "skip") /\ UNCHANGED mem
    <3>1. UNCHANGED << mem, existing, nextId, at, id, ghosts >>
      BY <2>1, <2>3
    <3> QED BY <2>1, <2>3, <3>1, ClaimFails DEF ShaInv
  <2> QED BY <1>2, <2>2, <2>3 DEF Claim
<1>3. CASE SplitLength(t) \/ SplitValid(t) \/ SplitPrepare(t) \/ SplitSize(t)
  BY <1>3, SplitStoresKeep DEF ShaInv
<1>4. CASE Shrink(t) \/ SetLength(t)
  BY <1>4, ShrinkKeeps, SetLengthKeeps DEF ShaInv
<1>5. CASE Absorb(t)
  <2>1. UNCHANGED << existing, nextId, at, id, ghosts >>
    BY <1>5 DEF Absorb
  <2>2. CASE Goto(t, "absorb", "grow") /\ mem[Next2(t)].prepare = 0 /\ Store(Next2(t), "prepare", 1)
    BY <2>1, <2>2, AbsorbSucceeds DEF ShaInv
  <2>3. CASE Goto(t, "absorb", "unclaim") /\ UNCHANGED mem
    <3>1. UNCHANGED << mem, existing, nextId, at, id, ghosts >>
      BY <2>1, <2>3
    <3> QED BY <2>1, <2>3, <3>1, AbsorbFails DEF ShaInv
  <2> QED BY <1>5, <2>2, <2>3 DEF Absorb
<1>6. CASE Grow(t)
  BY <1>6, GrowKeeps
<1>7. CASE Restart(t)
  <2>1. /\ Goto(t, "restart", "claim") /\ Store(at[t], "prepare", 0)
        /\ at' = [at EXCEPT ![t] = 0] /\ UNCHANGED << existing, nextId, id, ghosts >>
    BY <1>7 DEF Restart
  <2> QED BY <2>1, FreeKeeps DEF ShaInv
<1>8. CASE Unclaim(t)
  <2>1. /\ Goto(t, "unclaim", "skip") /\ Store(at[t], "prepare", 0)
        /\ at' = at /\ UNCHANGED << existing, nextId, id, ghosts >>
    BY <1>8 DEF Unclaim
  <2> QED BY <2>1, FreeKeeps DEF ShaInv
<1> QED BY <1>1, <1>2, <1>3, <1>4, <1>5, <1>6, <1>7, <1>8 DEF PrepareStep

LEMMA ReadKeeps ==
  ASSUME NEW B \in SUBSET Area, Inv(B), NEW c \in Consumers, ReadStep(c)
  PROVE  Inv(B)'
BY PollKeeps, UnpollKeeps, EndScanKeeps, TakeKeeps, PassKeeps, HandleKeeps, ReleaseKeeps,
   AdvanceKeeps DEF ReadStep

LEMMA StepInv == Calm /\ ShaInv /\ [Next]_vars => ShaInv'
<1> SUFFICES ASSUME Calm, ShaInv, [Next]_vars PROVE ShaInv'
  OBVIOUS
<1>1. PICK B \in SUBSET Area : Inv(B)
  BY DEF ShaInv
<1>2. CASE UNCHANGED vars
  BY <1>1, <1>2, StutterKeeps DEF ShaInv
<1>3. ASSUME NEW t \in Producers, Call(t) \/ PrepareStep(t) \/ SendStep(t) PROVE ShaInv'
  <2>1. CASE Call(t)
    BY <1>1, <2>1, CallKeeps DEF ShaInv
  <2>2. CASE PrepareStep(t)
    BY <1>1, <2>2, PrepareKeeps
  <2>3. CASE SendStep(t)
    BY <1>1, <2>3, FillKeeps, PublishKeeps, CountKeeps DEF ShaInv, SendStep
  <2> QED BY <1>3, <2>1, <2>2, <2>3
<1>4. ASSUME NEW c \in Consumers, ReadStep(c) PROVE ShaInv'
  BY <1>1, <1>4, ReadKeeps DEF ShaInv
<1> QED BY <1>2, <1>3, <1>4 DEF Next

LEMMA Invariance == Calm => (Spec => []ShaInv)
<1> SUFFICES ASSUME Calm PROVE Spec => []ShaInv
  OBVIOUS
<1>1. Init => ShaInv
  BY InitInv
<1>2. ShaInv /\ [Next]_vars => ShaInv'
  BY StepInv
<1> QED BY <1>1, <1>2, PTL DEF Spec

-----------------------------------------------------------------------------
(* What Walk computes. *)
(* A nonempty set of numbers has a least one. *)
LEMMA LeastIn ==
  ASSUME NEW S \in SUBSET Nat, S # {}
  PROVE  \E m \in S : \A n \in S : m <= n
<1> DEFINE R == OpToRel(<, Nat)
<1>1. IsWellFoundedOn(R, Nat)
  BY NatLessThanWellFounded
<1> HIDE DEF R
<1>2. PICK m \in S : \A n \in S : << n, m >> \notin R
  BY <1>1, WFMin
<1>3. \A n \in S : ~(n < m)
  BY <1>2 DEF R, OpToRel
<1>4. \A n \in S : m <= n
  <2> SUFFICES ASSUME NEW n \in S PROVE m <= n
    OBVIOUS
  <2>1. m \in Nat /\ n \in Nat
    BY <1>2
  <2> QED BY <1>3, <2>1
<1> QED BY <1>2, <1>4

(* f walks the blocks for as far as it goes. *)
Walked(n, f) ==
  /\ f = [k \in 0 .. n |-> f[k]]
  /\ f[0] = 0
  /\ \A k \in 1 .. n : f[k] = IF f[k - 1] < Capacity THEN After(f[k - 1]) ELSE f[k - 1]

LEMMA WalkedExists == \A n \in Nat : \E f : Walked(n, f)
<1> DEFINE Bad == {n \in Nat : ~\E f : Walked(n, f)}
<1> SUFFICES ASSUME Bad # {} PROVE FALSE
  OBVIOUS
<1>1. PICK n \in Bad : \A m \in Bad : n <= m
  BY LeastIn
<1>2. n \in Nat
  OBVIOUS
<1>3. n # 0
  <2> DEFINE f == [k \in 0 .. 0 |-> 0]
  <2>1. Walked(0, f)
    BY DEF Walked
  <2> QED BY <2>1
<1>4. n - 1 \in Nat /\ n - 1 \notin Bad
  BY <1>1, <1>2, <1>3
<1>5. PICK f : Walked(n - 1, f)
  BY <1>4
<1>6. PICK last : last = IF f[n - 1] < Capacity THEN After(f[n - 1]) ELSE f[n - 1]
  OBVIOUS
<1> DEFINE g == [k \in 0 .. n |-> IF k < n THEN f[k] ELSE last]
<1>7. g = [k \in 0 .. n |-> g[k]] /\ g[0] = 0
  BY <1>2, <1>3, <1>5 DEF Walked
<1>8. \A k \in 1 .. n : g[k] = IF g[k - 1] < Capacity THEN After(g[k - 1]) ELSE g[k - 1]
  <2> SUFFICES ASSUME NEW k \in 1 .. n
               PROVE  g[k] = IF g[k - 1] < Capacity THEN After(g[k - 1]) ELSE g[k - 1]
    OBVIOUS
  <2>1. g[k - 1] = f[k - 1]
    BY <1>2
  <2>2. CASE k < n
    <3>1. g[k] = f[k] /\ k \in 1 .. n - 1
      BY <1>2, <2>2
    <3>2. f[k] = IF f[k - 1] < Capacity THEN After(f[k - 1]) ELSE f[k - 1]
      BY <1>5, <3>1 DEF Walked
    <3> HIDE DEF g
    <3> QED BY <2>1, <3>1, <3>2
  <2>3. CASE k = n
    <3>1. g[k] = last
      BY <1>2, <2>3
    <3> HIDE DEF g
    <3> QED BY <1>6, <2>1, <2>3, <3>1
  <2>4. k < n \/ k = n
    BY <1>2
  <2> QED BY <2>2, <2>3, <2>4
<1>9. Walked(n, g)
  BY <1>7, <1>8 DEF Walked
<1> QED BY <1>1, <1>9

LEMMA WalkIs == Walked(Capacity, Walk)
<1> DEFINE F(f) == [k \in 0 .. Capacity |->
      IF k = 0 THEN 0
      ELSE IF f[k - 1] < Capacity THEN After(f[k - 1]) ELSE f[k - 1]]
<1>1. PICK f : Walked(Capacity, f)
  BY WalkedExists, SizesAssumption
<1>2. \A k \in 0 .. Capacity : f[k] = F(f)[k]
  <2> SUFFICES ASSUME NEW k \in 0 .. Capacity PROVE f[k] = F(f)[k]
    OBVIOUS
  <2>1. k = 0 \/ k \in 1 .. Capacity
    BY SizesAssumption
  <2> QED BY <1>1, <2>1 DEF Walked
<1>3. f = F(f)
  BY <1>1, <1>2 DEF Walked
<1>4. Walk = CHOOSE g : g = F(g)
  BY DEF Walk
<1>5. Walk = F(Walk)
  BY <1>3, <1>4
<1>6. Walk[0] = 0
  BY <1>5, SizesAssumption
<1>7. \A k \in 1 .. Capacity :
        Walk[k] = IF Walk[k - 1] < Capacity THEN After(Walk[k - 1]) ELSE Walk[k - 1]
  BY <1>5, SizesAssumption
<1>8. Walk = [k \in 0 .. Capacity |-> Walk[k]]
  BY <1>5
<1> QED BY <1>6, <1>7, <1>8 DEF Walked

(* The walk is at a block, and gets on, until it is at the end.            *)
LEMMA WalkGetsOn ==
  ASSUME NEW B \in SUBSET Area, mem \in [Area -> Header], Tiled(B)
  PROVE  \A k \in 0 .. Capacity :
           Walk[k] \in B \cup {Capacity} /\ (Walk[k] >= k \/ Walk[k] = Capacity)
<1> DEFINE Good(k) == Walk[k] \in B \cup {Capacity} /\ (Walk[k] >= k \/ Walk[k] = Capacity)
<1> DEFINE Bad == {k \in 0 .. Capacity : ~Good(k)}
<1> SUFFICES ASSUME Bad # {} PROVE FALSE
  OBVIOUS
<1>1. Capacity \in Nat /\ Bad \in SUBSET Nat
  BY SizesAssumption
<1>2. PICK k \in Bad : \A j \in Bad : k <= j
  BY <1>1, LeastIn
<1>3. CASE k = 0
  <2>1. Walk[0] = 0 /\ 0 \in B
    BY WalkIs DEF Walked, Tiled
  <2> QED BY <1>3, <2>1
<1>4. CASE k # 0
  <2>1. k \in 1 .. Capacity /\ k - 1 \in 0 .. Capacity /\ k - 1 < k /\ k \in Nat
    BY <1>1, <1>4
  <2>2. Good(k - 1)
    BY <1>1, <1>2, <2>1
  <2>3. Walk[k] = IF Walk[k - 1] < Capacity THEN After(Walk[k - 1]) ELSE Walk[k - 1]
    BY <2>1, WalkIs DEF Walked
  <2>4. CASE Walk[k - 1] = Capacity
    BY <1>1, <2>3, <2>4
  <2>5. CASE Walk[k - 1] # Capacity
    <3>1. PICK o \in B : o = Walk[k - 1]
      BY <2>2, <2>5
    <3>2. o \in Nat /\ o < Capacity /\ After(o) \in Int /\ After(o) >= o + Hdr /\ After(o) \in B \cup {Capacity}
      BY BlockIs, Consts DEF Tiled
    <3>3. Walk[k] = After(o)
      BY <2>3, <3>1, <3>2
    <3>4. o >= k - 1
      BY <2>2, <2>5, <3>1
    <3>5. After(o) >= k
      BY <2>1, <3>2, <3>4, Consts
    <3> QED BY <3>2, <3>3, <3>5
  <2> QED BY <2>4, <2>5
<1> QED BY <1>3, <1>4

-----------------------------------------------------------------------------
(* The variables keep their types: no scan leaves the area, no header is   *)
(* read from where none is, existing stays a SHORT (PrepareData, SendData  *)
(* and ReadData).                                                          *)
THEOREM BufferTyped == Calm => (Spec => []TypeOK)
<1> SUFFICES ASSUME Calm PROVE Spec => []TypeOK
  OBVIOUS
<1>1. ShaInv => TypeOK
  BY DEF ShaInv, Inv
<1> QED BY <1>1, Invariance, PTL

(* ReadData calls its handler with exactly one packet that was sent, that  *)
(* nobody read before, with its own length and the bytes its sender wrote. *)
THEOREM HandlerGetsPacket == Calm => (Spec => []HandlerSeesPacket)
<1> SUFFICES ASSUME Calm PROVE Spec => []HandlerSeesPacket
  OBVIOUS
<1>1. ShaInv => HandlerSeesPacket
  <2> SUFFICES ASSUME ShaInv, NEW c \in Consumers, pc[c] = "handle"
               PROVE  /\ got[c] # 0
                      /\ mem[at[c]].length = len[got[c]]
                      /\ \A o \in Region(got[c]) : mem[o].pkt = got[c]
    BY DEF HandlerSeesPacket
  <2>1. PICK B \in SUBSET Area : Inv(B)
    BY DEF ShaInv
  <2>2. at[c] \in B /\ got[c] # 0 /\ status[got[c]] = "reading" /\ start[got[c]] = at[c] + Hdr
    BY <2>1 DEF Inv, ConsumerOK
  <2>3. PICK p \in Packets : p = got[c]
    BY <2>1, <2>2, SizesAssumption DEF Inv, TypeOK, Packets
  <2>4. GrantedTo(p, B) /\ start[p] - Hdr = at[c]
    BY <2>1, <2>2, <2>3, Consts DEF Inv, BlocksOK, Granted
  <2> QED BY <2>2, <2>3, <2>4 DEF GrantedTo, HeldStages
<1> QED BY <1>1, Invariance, PTL

(* After every single store of a split or a join the sizes in the headers  *)
(* lead a scan from the start of the area exactly to its end.              *)
THEOREM ScansReachTheEnd == Calm => (Spec => []BlocksTile)
<1> SUFFICES ASSUME Calm PROVE Spec => []BlocksTile
  OBVIOUS
<1>1. ShaInv => BlocksTile
  <2> SUFFICES ASSUME ShaInv PROVE Walk[Capacity] = Capacity
    BY DEF BlocksTile
  <2>1. PICK B \in SUBSET Area : Inv(B)
    BY DEF ShaInv
  <2>2. \A k \in 0 .. Capacity :
          Walk[k] \in B \cup {Capacity} /\ (Walk[k] >= k \/ Walk[k] = Capacity)
    BY <2>1, WalkGetsOn DEF Inv, TypeOK, BlocksOK
  <2>3. Capacity \in Nat /\ Capacity \in 0 .. Capacity /\ \A x \in B : x \in Nat /\ x < Capacity
    BY Consts
  <2> QED BY <2>2, <2>3
<1> QED BY <1>1, Invariance, PTL

(* A block marked as being written is worked on by a producer, holds a     *)
(* packet, or is about to be freed by its reader; only a last block that   *)
(* was too small keeps the mark for ever.                                  *)
THEOREM NothingElseLeaks == Calm => (Spec => []OnlyTailLeaks)
<1> SUFFICES ASSUME Calm PROVE Spec => []OnlyTailLeaks
  OBVIOUS
<1>1. ShaInv => OnlyTailLeaks
  <2> SUFFICES ASSUME ShaInv, NEW o \in Blocks, mem[o].prepare # 0
               PROVE  InUse(o) \/ After(o) = Capacity
    BY DEF OnlyTailLeaks
  <2>1. PICK B \in SUBSET Area : Inv(B)
    BY DEF ShaInv
  <2>2. o \in B
    <3>1. \A k \in 0 .. Capacity : Walk[k] \in B \cup {Capacity}
      BY <2>1, WalkGetsOn DEF Inv, TypeOK, BlocksOK
    <3> QED BY <3>1, Consts DEF Blocks
  <2>3. SUFFICES ASSUME Used(o) PROVE InUse(o)
    BY <2>1, <2>2 DEF Inv, BlocksOK, Marked
  <2>4. CASE \E t \in Producers : Works(t, o)
    BY <2>4 DEF Works, InUse, ClaimSteps
  <2>5. CASE \E p \in Packets : Holds(p, o)
    <3>1. PICK p \in Packets : Holds(p, o)
      BY <2>5
    <3>2. GrantedTo(p, B) /\ start[p] \in Int
      BY <2>1 DEF Inv, TypeOK, BlocksOK, Granted
    <3>3. len[p] \in Nat /\ len[p] > 0
      BY <3>1, <3>2, Consts DEF GrantedTo, Holds
    <3>4. start[p] \in Region(p)
      BY <3>2, <3>3 DEF Region
    <3>5. Held(p) # {} /\ start[p] = o + Hdr
      BY <3>1, <3>4 DEF Held, Holds, HeldStages
    <3> QED BY <3>5 DEF InUse
  <2>6. CASE \E c \in Consumers : Frees(c, o)
    BY <2>6 DEF Frees, InUse
  <2> QED BY <2>3, <2>4, <2>5, <2>6 DEF Used
<1> QED BY <1>1, Invariance, PTL

-----------------------------------------------------------------------------
(* No step touches the size or the length of a block whose packet was sent *)
(* and is not released.                                                    *)
LEMMA StoreMark ==
  ASSUME mem \in [Area -> Header], NEW o, NEW field \in {"valid", "prepare"}, NEW v,
         Store(o, field, v), NEW b \in Area
  PROVE  mem'[b].size = mem[b].size /\ mem'[b].length = mem[b].length
<1>1. mem[b] \in Header
  OBVIOUS
<1>2. CASE field = "valid"
  BY <1>1, <1>2 DEF Store, Header
<1>3. CASE field = "prepare"
  BY <1>1, <1>3 DEF Store, Header
<1> QED BY <1>2, <1>3

LEMMA StoreElsewhere ==
  ASSUME mem \in [Area -> Header], NEW o, NEW field, NEW v,
         Store(o, field, v), NEW b \in Area, b # o
  PROVE  mem'[b] = mem[b]
BY DEF Store

LEMMA StepFreezes ==
  ASSUME NEW B \in SUBSET Area, Inv(B), [Next]_vars,
         NEW p \in Packets, status[p] \in {"sent", "reading"}, NEW b, b = start[p] - Hdr
  PROVE  mem'[b].size = mem[b].size /\ mem'[b].length = mem[b].length
<1>1. mem \in [Area -> Header] /\ Alone /\ start[p] \in Int /\ b \in B /\ b \in Area
  BY DEF Inv, TypeOK, BlocksOK, Granted, GrantedTo, HeldStages
<1>2. Holds(p, b)
  BY <1>1, Consts DEF Holds, HeldStages
<1>3. ASSUME NEW t \in Producers, PrepareStep(t)
      PROVE  mem'[b].size = mem[b].size /\ mem'[b].length = mem[b].length
  <2>1. pc[t] \in ClaimSteps => b # at[t]
    BY <1>1, <1>2 DEF Alone, Works
  <2>2. pc[t] \in SplitSteps => b # Second(t)
    BY <1>1, SecondInside
  <2>3. CASE GiveUp(t) \/ Fit(t) \/ Skip(t)
    BY <2>3 DEF GiveUp, Fit, Skip
  <2>4. CASE Claim(t) \/ Absorb(t) \/ Restart(t) \/ Unclaim(t)
    <3>1. \/ Store(at[t], "prepare", 1) \/ Store(Next2(t), "prepare", 1)
          \/ Store(at[t], "prepare", 0) \/ mem' = mem
      BY <2>4 DEF Claim, Absorb, Restart, Unclaim
    <3>2. "prepare" \in {"valid", "prepare"}
      OBVIOUS
    <3> QED BY <1>1, <3>1, <3>2, StoreMark
  <2>5. CASE SplitLength(t) \/ SplitValid(t) \/ SplitPrepare(t) \/ SplitSize(t)
    <3>1. pc[t] \in SplitSteps
      BY <2>5 DEF SplitLength, SplitValid, SplitPrepare, SplitSize, SplitStore, Goto, SplitSteps
    <3>2. \E field, v : Store(Second(t), field, v)
      BY <2>5 DEF SplitLength, SplitValid, SplitPrepare, SplitSize, SplitStore
    <3> QED BY <1>1, <2>2, <3>1, <3>2, StoreElsewhere
  <2>6. CASE Shrink(t) \/ SetLength(t) \/ Grow(t)
    <3>1. pc[t] \in ClaimSteps
      BY <2>6 DEF Shrink, SetLength, Grow, Goto, ClaimSteps
    <3>2. \E field, v : Store(at[t], field, v)
      BY <2>6 DEF Shrink, SetLength, Grow
    <3> QED BY <1>1, <2>1, <3>1, <3>2, StoreElsewhere
  <2> QED BY <1>3, <2>3, <2>4, <2>5, <2>6 DEF PrepareStep
<1>4. ASSUME NEW t \in Producers, SendStep(t)
      PROVE  mem'[b].size = mem[b].size /\ mem'[b].length = mem[b].length
  <2>1. CASE Fill(t)
    <3>1. id[t] \in Packets /\ status[id[t]] \in HeldStages
      BY <2>1, PublishesWriting DEF Fill, Goto
    <3>2. b \notin Region(id[t])
      BY <1>1, <3>1, GrantedInside
    <3> QED BY <1>1, <2>1, <3>2 DEF Fill
  <2>2. CASE Publish(t)
    BY <1>1, <2>2, StoreMark DEF Publish
  <2>3. CASE Count(t)
    BY <2>3 DEF Count
  <2> QED BY <1>4, <2>1, <2>2, <2>3 DEF SendStep
<1>5. ASSUME NEW c \in Consumers, ReadStep(c)
      PROVE  mem'[b].size = mem[b].size /\ mem'[b].length = mem[b].length
  <2>1. CASE Take(c)
    BY <1>1, <2>1, StoreMark DEF Take
  <2>2. CASE Release(c)
    BY <1>1, <2>2, StoreMark DEF Release
  <2>3. CASE Poll(c) \/ Unpoll(c) \/ EndScan(c) \/ Pass(c) \/ Handle(c) \/ Advance(c)
    BY <2>3 DEF Poll, Unpoll, EndScan, Pass, Handle, Advance
  <2> QED BY <1>5, <2>1, <2>2, <2>3 DEF ReadStep
<1>6. CASE UNCHANGED vars
  BY <1>6 DEF vars
<1>7. ASSUME NEW t \in Producers, Call(t)
      PROVE  mem'[b].size = mem[b].size /\ mem'[b].length = mem[b].length
  BY <1>7 DEF Call
<1> QED BY <1>3, <1>4, <1>5, <1>6, <1>7 DEF Next

(* The block of a packet that was sent is not split, joined or given       *)
(* another length until its reader is done with it.                        *)
THEOREM SentBlocksFrozen == Calm => (Spec => BlockFrozen)
<1> SUFFICES ASSUME Calm PROVE Spec => BlockFrozen
  OBVIOUS
<1> DEFINE Frozen == \A p \in Packets :
             status[p] \in {"sent", "reading"} /\ status'[p] = status[p] =>
               LET o == start[p] - Hdr IN
                 mem'[o].size = mem[o].size /\ mem'[o].length = mem[o].length
<1>1. ShaInv /\ [Next]_vars => [Frozen]_vars
  <2> SUFFICES ASSUME ShaInv, [Next]_vars, NEW p \in Packets, status[p] \in {"sent", "reading"}
               PROVE  /\ mem'[start[p] - Hdr].size = mem[start[p] - Hdr].size
                      /\ mem'[start[p] - Hdr].length = mem[start[p] - Hdr].length
    OBVIOUS
  <2>1. PICK B \in SUBSET Area : Inv(B)
    BY DEF ShaInv
  <2>2. PICK b : b = start[p] - Hdr
    OBVIOUS
  <2>3. mem'[b].size = mem[b].size /\ mem'[b].length = mem[b].length
    BY <2>1, <2>2, StepFreezes
  <2> QED BY <2>2, <2>3
<1> QED BY <1>1, Invariance, PTL DEF Spec, BlockFrozen

-----------------------------------------------------------------------------
(* The buffer implements the packet channel.                               *)
LEMMA ChannelStarts == Init => Channel!ChannelInit
<1> SUFFICES ASSUME Init PROVE Channel!ChannelInit
  OBVIOUS
<1>1. status = [p \in Packets |-> "none"]
  BY DEF Init
<1>2. \A p \in Packets : Held(p) = {}
  BY <1>1 DEF Held
<1> QED BY <1>1, <1>2 DEF Channel!ChannelInit

(* Packets nobody touches hold what they held.                             *)
LEMMA HeldSame ==
  ASSUME NEW p \in Packets, status'[p] = status[p],
         status[p] \in HeldStages => start'[p] = start[p] /\ len'[p] = len[p]
  PROVE  Held(p)' = Held(p)
<1>1. CASE status[p] \in HeldStages
  <2>1. Region(p)' = Region(p)
    BY <1>1 DEF Region
  <2> QED BY <2>1 DEF Held
<1>2. CASE status[p] \notin HeldStages
  BY <1>2 DEF Held, HeldStages
<1> QED BY <1>1, <1>2

LEMMA ChannelRests ==
  ASSUME status' = status, SamePackets
  PROVE  UNCHANGED Channel!chanVars
<1>1. \A p \in Packets : Held(p)' = Held(p)
  BY HeldSame DEF SamePackets
<1> QED BY <1>1 DEF Channel!chanVars

(* A packet goes on to another stage and holds R from then on.             *)
LEMMA ChannelMoves ==
  ASSUME NEW p \in Packets, NEW R, Held(p)' = R,
         \A q \in Packets : q # p => Held(q)' = Held(q)
  PROVE  [q \in Packets |-> Held(q)]' = [[q \in Packets |-> Held(q)] EXCEPT ![p] = R]
OBVIOUS

(* The region a packet is granted overlaps nobody's. *)
Room(t) == at[t] + Hdr .. at[t] + Hdr + len[id[t]] - 1

LEMMA GrantIsFree ==
  ASSUME NEW B \in SUBSET Area, Inv(B), NEW t \in Producers, pc[t] = "setLength",
         NEW R, R = Room(t)
  PROVE  R \in (SUBSET Area) \ {{}} /\ \A q \in Packets : R \cap Held(q) = {}
<1>1. PICK o \in B : o = at[t] /\ o \in Nat /\ o \in Area
  BY Consts DEF Inv, ProducerOK, ClaimSteps
<1>2. PICK n \in Nat : n = len[id[t]] /\ n > 0 /\ mem[o].size >= n
  BY <1>1, Consts DEF Inv, ProducerOK
<1>3. mem \in [Area -> Header] /\ Tiled(B) /\ Alone /\ start \in [Packets -> Int]
  BY DEF Inv, TypeOK, BlocksOK
<1>4. After(o) = o + Hdr + mem[o].size /\ mem[o].size \in Int /\ After(o) \in Int
  BY <1>3, BlockIs
<1>5. R = o + Hdr .. o + Hdr + n - 1
  BY <1>1, <1>2 DEF Room
<1>6. \A x \in R : x \in Int /\ o < x /\ x < After(o)
  <2> SUFFICES ASSUME NEW x \in R PROVE x \in Int /\ o < x /\ x < After(o)
    OBVIOUS
  <2>1. PICK S \in Int : S = mem[o].size /\ After(o) = o + Hdr + S /\ n <= S
    BY <1>2, <1>4
  <2>2. x \in Int /\ o + Hdr <= x /\ x <= o + Hdr + n - 1 /\ Hdr \in Int /\ Hdr > 0
    BY <1>1, <1>2, <1>5, Consts
  <2>3. PICK h \in Int : h = Hdr /\ o + h <= x /\ x <= o + h + n - 1 /\ h > 0 /\ After(o) = o + h + S
    BY <2>1, <2>2
  <2>4. o \in Int /\ n \in Int
    BY <1>1, <1>2
  <2>5. o < x /\ x < o + h + S
    BY <2>1, <2>2, <2>3, <2>4
  <2> QED BY <2>2, <2>3, <2>5
<1>7. \A x \in R : x \in Area /\ \A b \in B : b < x /\ x < After(b) => b = o
  BY <1>3, <1>6, Inside
<1>8. o + Hdr \in R
  BY <1>1, <1>2, <1>5, Consts
<1>9. ASSUME NEW q \in Packets, NEW x \in R, x \in Held(q) PROVE FALSE
  <2>1. status[q] \in HeldStages /\ x \in Region(q)
    BY <1>9 DEF Held, HeldStages
  <2>2. PICK b \in B : b = start[q] - Hdr /\ b < x /\ x < After(b)
    BY <2>1, GrantedInside
  <2>3. b = o
    BY <1>7, <2>2
  <2>4. Holds(q, o) /\ Works(t, o)
    BY <1>1, <1>3, <2>1, <2>2, <2>3, Consts DEF Holds, Works, ClaimSteps
  <2> QED BY <1>1, <1>3, <2>4 DEF Alone
<1> QED BY <1>7, <1>8, <1>9

LEMMA ChannelStep ==
  ASSUME NEW B \in SUBSET Area, Inv(B), [Next]_vars
  PROVE  [Channel!ChannelNext]_(Channel!chanVars)
<1>1. ASSUME status' = status, start' = start, len' = len
      PROVE  [Channel!ChannelNext]_(Channel!chanVars)
  BY <1>1, ChannelRests DEF SamePackets
<1>2. CASE UNCHANGED vars
  BY <1>1, <1>2 DEF vars
<1>3. status \in [Packets -> {"none", "refused", "writing", "sent", "reading", "delivered"}]
  BY DEF Inv, TypeOK
<1>4. ASSUME NEW t \in Producers, Call(t) PROVE [Channel!ChannelNext]_(Channel!chanVars)
  <2>1. /\ nextId \in Packets /\ UNCHANGED << status, start >>
        /\ \E s \in Sizes : len' = [len EXCEPT ![nextId] = s]
    BY <1>4 DEF Call
  <2>2. status[nextId] = "none"
    BY <2>1 DEF Inv, Distinct, Packets
  <2>3. \A p \in Packets : p # nextId => len'[p] = len[p]
    BY <2>1 DEF Inv, TypeOK
  <2>4. SamePackets
    BY <2>1, <2>2, <2>3 DEF SamePackets, HeldStages
  <2> QED BY <2>1, <2>4, ChannelRests
<1>5. ASSUME NEW t \in Producers, GiveUp(t) PROVE [Channel!ChannelNext]_(Channel!chanVars)
  <2>1. PICK p \in Packets : p = id[t] /\ status[p] = "none"
    BY <1>5, SizesAssumption DEF GiveUp, Goto, Inv, TypeOK, ProducerOK, Packets
  <2>2. status' = [status EXCEPT ![p] = "refused"] /\ start' = start /\ len' = len
    BY <1>5, <2>1 DEF GiveUp
  <2>3. \A q \in Packets : Held(q)' = Held(q)
    <3>1. Held(p)' = Held(p)
      BY <1>3, <2>1, <2>2 DEF Held
    <3>2. \A q \in Packets : q # p => Held(q)' = Held(q)
      BY <1>3, <2>2, HeldSame
    <3> QED BY <3>1, <3>2
  <2>4. Channel!Refuse(p)
    BY <2>1, <2>2, <2>3 DEF Channel!Refuse, Channel!Become
  <2> QED BY <2>4 DEF Channel!ChannelNext
<1>6. ASSUME NEW t \in Producers, SetLength(t) PROVE [Channel!ChannelNext]_(Channel!chanVars)
  <2>0. pc[t] = "setLength"
    BY <1>6 DEF SetLength, Goto
  <2>1. PICK p \in Packets : p = id[t] /\ status[p] = "none"
    BY <2>0, SizesAssumption DEF Inv, TypeOK, ProducerOK, Packets, ClaimSteps
  <2>2. /\ status' = [status EXCEPT ![p] = "writing"] /\ len' = len
        /\ start' = [start EXCEPT ![p] = at[t] + Hdr]
    BY <1>6, <2>1 DEF SetLength
  <2>3. PICK R : R = Room(t)
    OBVIOUS
  <2>4. R \in (SUBSET Area) \ {{}} /\ \A q \in Packets : R \cap Held(q) = {}
    BY <2>0, <2>3, GrantIsFree
  <2>5. Held(p)' = R
    <3>1. start'[p] = at[t] + Hdr /\ status'[p] = "writing"
      BY <1>3, <2>2 DEF Inv, TypeOK
    <3>2. Region(p)' = R
      BY <2>1, <2>2, <2>3, <3>1 DEF Region, Room
    <3> QED BY <3>1, <3>2 DEF Held
  <2>6. ASSUME NEW q \in Packets, q # p PROVE Held(q)' = Held(q)
    <3>1. status'[q] = status[q] /\ start'[q] = start[q] /\ len'[q] = len[q]
      BY <1>3, <2>2, <2>6 DEF Inv, TypeOK
    <3> QED BY <3>1, HeldSame
  <2>7. [q \in Packets |-> Held(q)]' = [[q \in Packets |-> Held(q)] EXCEPT ![p] = R]
    BY <2>5, <2>6, ChannelMoves
  <2>8. Channel!Grant(p)
    BY <2>1, <2>2, <2>4, <2>7 DEF Channel!Grant, Channel!Become
  <2> QED BY <2>8 DEF Channel!ChannelNext
<1>7. ASSUME NEW t \in Producers, Publish(t) PROVE [Channel!ChannelNext]_(Channel!chanVars)
  <2>1. PICK p \in Packets : p = id[t] /\ status[p] = "writing"
    BY <1>7, SizesAssumption DEF Publish, Goto, Inv, TypeOK, ProducerOK, Packets
  <2>2. status' = [status EXCEPT ![p] = "sent"] /\ start' = start /\ len' = len
    BY <1>7, <2>1 DEF Publish
  <2>3. \A q \in Packets : Held(q)' = Held(q)
    <3>1. Held(p)' = Held(p)
      BY <1>3, <2>1, <2>2 DEF Held, Region
    <3>2. \A q \in Packets : q # p => Held(q)' = Held(q)
      BY <1>3, <2>2, HeldSame
    <3> QED BY <3>1, <3>2
  <2>4. Channel!Send(p)
    BY <2>1, <2>2, <2>3 DEF Channel!Send, Channel!Become
  <2> QED BY <2>4 DEF Channel!ChannelNext
<1>8. ASSUME NEW c \in Consumers, Take(c) PROVE [Channel!ChannelNext]_(Channel!chanVars)
  <2>1. PICK p \in Packets : status[p] = "sent" /\ status' = [status EXCEPT ![p] = "reading"]
    BY <1>8, TakesOne
  <2>2. start' = start /\ len' = len
    BY <1>8 DEF Take
  <2>3. \A q \in Packets : Held(q)' = Held(q)
    <3>1. Held(p)' = Held(p)
      BY <1>3, <2>1, <2>2 DEF Held, Region
    <3>2. \A q \in Packets : q # p => Held(q)' = Held(q)
      BY <1>3, <2>1, <2>2, HeldSame
    <3> QED BY <3>1, <3>2
  <2>4. Channel!Take(p)
    BY <2>1, <2>3 DEF Channel!Take, Channel!Become
  <2> QED BY <2>4 DEF Channel!ChannelNext
<1>9. ASSUME NEW c \in Consumers, Handle(c) PROVE [Channel!ChannelNext]_(Channel!chanVars)
  <2>1. got[c] # 0 /\ status[got[c]] = "reading"
    BY <1>9 DEF Handle, Goto, Inv, ConsumerOK
  <2>2. PICK p \in Packets : p = got[c]
    BY <2>1, SizesAssumption DEF Inv, TypeOK, Packets
  <2>3. /\ status' = [q \in Packets |-> IF q = p THEN "delivered" ELSE status[q]]
        /\ start' = start /\ len' = len
    BY <1>9, <2>2 DEF Handle
  <2>4. Held(p)' = {}
    BY <2>3 DEF Held
  <2>5. \A q \in Packets : q # p => Held(q)' = Held(q)
    BY <2>3, HeldSame
  <2>6. [q \in Packets |-> Held(q)]' = [[q \in Packets |-> Held(q)] EXCEPT ![p] = {}]
    BY <2>4, <2>5, ChannelMoves
  <2>7. status' = [status EXCEPT ![p] = "delivered"]
    BY <1>3, <2>3
  <2>8. Channel!Deliver(p)
    BY <2>1, <2>2, <2>6, <2>7 DEF Channel!Deliver, Channel!Become
  <2> QED BY <2>8 DEF Channel!ChannelNext
<1>10. ASSUME NEW t \in Producers, PrepareStep(t) \/ SendStep(t)
       PROVE  GiveUp(t) \/ SetLength(t) \/ Publish(t) \/ (status' = status /\ start' = start /\ len' = len)
  BY <1>10 DEF PrepareStep, SendStep, Claim, Fit, SplitLength, SplitValid, SplitPrepare, SplitSize,
     SplitStore, Shrink, Absorb, Grow, Restart, Unclaim, Skip, Fill, Count, ghosts
<1>11. ASSUME NEW c \in Consumers, ReadStep(c)
       PROVE  Take(c) \/ Handle(c) \/ (status' = status /\ start' = start /\ len' = len)
  BY <1>11 DEF ReadStep, Poll, Unpoll, EndScan, Pass, Release, Advance, ghosts
<1> QED BY <1>1, <1>2, <1>4, <1>5, <1>6, <1>7, <1>8, <1>9, <1>10, <1>11 DEF Next

(* OR_SHA_IO keeps its promise: a packet is refused or granted memory that *)
(* nobody else holds, is sent, read once, and only then is its memory      *)
(* anybody else's.                                                         *)
THEOREM BufferIsChannel == Calm => (Spec => ImplementsChannel)
<1> SUFFICES ASSUME Calm PROVE Spec => ImplementsChannel
  OBVIOUS
<1>1. Init => Channel!ChannelInit
  BY ChannelStarts
<1>2. ShaInv /\ [Next]_vars => [Channel!ChannelNext]_(Channel!chanVars)
  BY ChannelStep DEF ShaInv
<1> QED BY <1>1, <1>2, Invariance, PTL DEF Spec, ImplementsChannel, Channel!ChannelSpec
-----------------------------------------------------------------------------
(* No wake-up is lost, as long as the counter does not wrap.               *)
Counting  == {t \in Producers : pc[t] = "count"}
Unpolling == {c \in Consumers : pc[c] = "unpoll"}

(* The block at o is behind consumer c: this pass does not look at it.     *)
Past(c, o) ==
  \/ pc[c] \in {"poll", "unpoll"}
  \/ pc[c] = "scan" /\ o < at[c]
  \/ pc[c] \in {"handle", "release", "advance"} /\ o <= at[c]

(* The packets no pass under way will find have a token each, given or owed.*)
Behind == {p \in Packets : status[p] = "sent" /\ \A c \in Consumers : Past(c, start[p] - Hdr)}
WakeInv == Cardinality(Behind) <= existing + Owed

(* The SHORT does not wrap. *)
NoWrap == existing' - existing \in {-1, 0, 1}

LEMMA FewThreads ==
  ASSUME IsFiniteSet(Threads), NEW S, S \subseteq Threads
  PROVE  IsFiniteSet(S) /\ Cardinality(S) \in Nat
BY FS_Subset, FS_CardinalityType

LEMMA FewPackets ==
  ASSUME NEW S, S \subseteq Packets
  PROVE  IsFiniteSet(S) /\ Cardinality(S) \in Nat /\ Cardinality(S) <= MaxPackets
<1>1. MaxPackets \in Nat
  BY SizesAssumption
<1>2. IsFiniteSet(Packets) /\ Cardinality(Packets) = MaxPackets
  BY <1>1, FS_Interval DEF Packets
<1> QED BY <1>2, FS_Subset, FS_CardinalityType

LEMMA OneMore ==
  ASSUME NEW S, IsFiniteSet(S), NEW x, NEW T, x \notin S, T = S \cup {x}
  PROVE  Cardinality(T) = Cardinality(S) + 1
BY FS_AddElement

LEMMA OneLess ==
  ASSUME NEW S, IsFiniteSet(S), NEW x, NEW T, x \in S, T = S \ {x}
  PROVE  Cardinality(T) = Cardinality(S) - 1
BY FS_RemoveElement

LEMMA FewOwed ==
  ASSUME IsFiniteSet(Threads)
  PROVE  /\ Counting \subseteq Threads /\ Unpolling \subseteq Threads
         /\ Counting' \subseteq Threads /\ Unpolling' \subseteq Threads
         /\ Behind \subseteq Packets /\ Behind' \subseteq Packets
         /\ Owed = Cardinality(Counting) + Cardinality(Unpolling)
         /\ Owed' = Cardinality(Counting') + Cardinality(Unpolling')
         /\ Cardinality(Counting) \in Nat /\ Cardinality(Counting') \in Nat
         /\ Cardinality(Unpolling) \in Nat /\ Cardinality(Unpolling') \in Nat
<1>1. /\ Counting \subseteq Threads /\ Unpolling \subseteq Threads
      /\ Counting' \subseteq Threads /\ Unpolling' \subseteq Threads
  BY DEF Counting, Unpolling, Threads
<1>2. Behind \subseteq Packets /\ Behind' \subseteq Packets
  BY DEF Behind
<1>3. /\ Owed = Cardinality(Counting) + Cardinality(Unpolling)
      /\ Owed' = Cardinality(Counting') + Cardinality(Unpolling')
  BY DEF Owed, Counting, Unpolling
<1> QED BY <1>1, <1>2, <1>3, FewThreads

(* One thread moves: who counts and who gives back after it.               *)
LEMMA CountingIs ==
  ASSUME NEW t \in Threads, \A u \in Threads : u # t => pc'[u] = pc[u]
  PROVE  /\ pc[t] # "count" /\ pc'[t] # "count" => Counting' = Counting
         /\ pc[t] # "count" /\ pc'[t] = "count" /\ t \in Producers
              => t \notin Counting /\ Counting' = Counting \cup {t}
         /\ pc[t] = "count" /\ pc'[t] # "count" /\ t \in Producers
              => t \in Counting /\ Counting' = Counting \ {t}
BY DEF Counting, Threads

LEMMA UnpollingIs ==
  ASSUME NEW t \in Threads, \A u \in Threads : u # t => pc'[u] = pc[u]
  PROVE  /\ pc[t] # "unpoll" /\ pc'[t] # "unpoll" => Unpolling' = Unpolling
         /\ pc[t] # "unpoll" /\ pc'[t] = "unpoll" /\ t \in Consumers
              => t \notin Unpolling /\ Unpolling' = Unpolling \cup {t}
         /\ pc[t] = "unpoll" /\ pc'[t] # "unpoll" /\ t \in Consumers
              => t \in Unpolling /\ Unpolling' = Unpolling \ {t}
BY DEF Unpolling, Threads

LEMMA WakeRests ==
  ASSUME IsFiniteSet(Threads), WakeInv, existing \in Int, existing' = existing,
         Counting' = Counting, Unpolling' = Unpolling, Behind' \subseteq Behind
  PROVE  WakeInv'
<1>1. Owed' = Owed
  BY FewOwed
<1>2. PICK S : S = Behind /\ S \subseteq Packets
  BY FewOwed
<1>3. PICK T : T = Behind' /\ T \subseteq S
  BY <1>2
<1>4. Cardinality(T) <= Cardinality(S) /\ Cardinality(S) \in Nat /\ Cardinality(T) \in Nat
  BY <1>2, <1>3, FewPackets, FS_Subset
<1>5. Owed \in Int
  BY FewOwed
<1> QED BY <1>1, <1>2, <1>3, <1>4, <1>5 DEF WakeInv

(* Who counts and who owes a token after the steps that change it.         *)
LEMMA PublishTurns ==
  ASSUME IsFiniteSet(Threads), NEW B, Inv(B), NEW t \in Producers, Publish(t)
  PROVE  /\ Cardinality(Counting') = Cardinality(Counting) + 1 /\ Unpolling' = Unpolling
         /\ existing' = existing /\ existing \in Word
         /\ \A c \in Consumers : pc'[c] = pc[c] /\ at'[c] = at[c]
         /\ \E p \in Packets : /\ status[p] = "writing" /\ start' = start
                               /\ status' = [status EXCEPT ![p] = "sent"]
<1>1. t \in Threads /\ "count" \in {"idle"} \cup ProducerSteps \cup ConsumerSteps
  BY DEF Threads, ProducerSteps
<1>2. pc[t] = "publish" /\ pc'[t] = "count" /\ \A u \in Threads : u # t => pc'[u] = pc[u]
  BY <1>1, Moved DEF Publish, Inv
<1>3. t \notin Counting /\ Counting' = Counting \cup {t} /\ Unpolling' = Unpolling
  BY <1>1, <1>2, CountingIs, UnpollingIs
<1>4. Cardinality(Counting') = Cardinality(Counting) + 1
  BY <1>3, FewOwed, FewThreads, OneMore
<1>5. PICK p \in Packets : p = id[t] /\ status[p] = "writing"
  BY <1>2, SizesAssumption DEF Inv, TypeOK, ProducerOK, Packets
<1>6. /\ status' = [status EXCEPT ![p] = "sent"]
      /\ UNCHANGED << existing, at, start >>
  BY <1>5 DEF Publish
<1>7. existing \in Word
  BY DEF Inv, TypeOK
<1> QED BY <1>2, <1>3, <1>4, <1>5, <1>6, <1>7, ThreadsAssumption DEF Threads

LEMMA CountTurns ==
  ASSUME IsFiniteSet(Threads), NEW B, Inv(B), NEW t \in Producers, Count(t)
  PROVE  /\ Cardinality(Counting') = Cardinality(Counting) - 1 /\ Unpolling' = Unpolling
         /\ existing' = Short(existing + 1) /\ existing \in Word
         /\ \A c \in Consumers : pc'[c] = pc[c] /\ at'[c] = at[c]
         /\ status' = status /\ start' = start
<1>1. t \in Threads /\ "idle" \in {"idle"} \cup ProducerSteps \cup ConsumerSteps
  BY DEF Threads
<1>2. pc[t] = "count" /\ pc'[t] = "idle" /\ \A u \in Threads : u # t => pc'[u] = pc[u]
  BY <1>1, Moved DEF Count, Inv
<1>3. t \in Counting /\ Counting' = Counting \ {t} /\ Unpolling' = Unpolling
  BY <1>1, <1>2, CountingIs, UnpollingIs
<1>4. Cardinality(Counting') = Cardinality(Counting) - 1
  BY <1>3, FewOwed, FewThreads, OneLess
<1>5. existing' = Short(existing + 1) /\ UNCHANGED << at, status, start >>
  BY DEF Count, ghosts
<1>6. existing \in Word
  BY DEF Inv, TypeOK
<1> QED BY <1>2, <1>3, <1>4, <1>5, <1>6, ThreadsAssumption DEF Threads

LEMMA UnpollTurns ==
  ASSUME IsFiniteSet(Threads), NEW B, Inv(B), NEW c \in Consumers, Unpoll(c)
  PROVE  /\ Cardinality(Unpolling') = Cardinality(Unpolling) - 1 /\ Counting' = Counting
         /\ existing' = Short(existing + 1) /\ existing \in Word
         /\ pc[c] = "unpoll" /\ pc'[c] = "poll"
         /\ \A d \in Consumers : d # c => pc'[d] = pc[d]
         /\ at' = at /\ status' = status /\ start' = start
<1>1. c \in Threads /\ "poll" \in {"idle"} \cup ProducerSteps \cup ConsumerSteps
  BY DEF Threads, ConsumerSteps
<1>2. pc[c] = "unpoll" /\ pc'[c] = "poll" /\ \A u \in Threads : u # c => pc'[u] = pc[u]
  BY <1>1, Moved DEF Unpoll, Inv
<1>3. c \in Unpolling /\ Unpolling' = Unpolling \ {c} /\ Counting' = Counting
  BY <1>1, <1>2, CountingIs, UnpollingIs
<1>4. Cardinality(Unpolling') = Cardinality(Unpolling) - 1
  BY <1>3, FewOwed, FewThreads, OneLess
<1>5. existing' = Short(existing + 1) /\ UNCHANGED << at, status, start >>
  BY DEF Unpoll, ghosts
<1>6. existing \in Word
  BY DEF Inv, TypeOK
<1> QED BY <1>2, <1>3, <1>4, <1>5, <1>6 DEF Threads

LEMMA PollTurns ==
  ASSUME IsFiniteSet(Threads), NEW B, Inv(B), NEW c \in Consumers, Poll(c)
  PROVE  /\ Counting' = Counting /\ c \notin Unpolling
         /\ existing' = Short(existing - 1) /\ existing \in Word
         /\ pc[c] = "poll" /\ pc'[c] \in {"scan", "unpoll"}
         /\ pc'[c] = "scan" => existing' >= 0 /\ Unpolling' = Unpolling
         /\ pc'[c] = "unpoll" => Cardinality(Unpolling') = Cardinality(Unpolling) + 1
         /\ \A d \in Consumers : d # c => pc'[d] = pc[d] /\ at'[d] = at[d]
         /\ at'[c] = 0 /\ status' = status /\ start' = start
<1>1. c \in Threads /\ {"scan", "unpoll"} \subseteq {"idle"} \cup ProducerSteps \cup ConsumerSteps
  BY DEF Threads, ConsumerSteps
<1>2. /\ existing' = Short(existing - 1) /\ at' = [at EXCEPT ![c] = 0]
      /\ UNCHANGED << status, start >>
      /\ \/ Goto(c, "poll", "scan") /\ existing' >= 0
         \/ Goto(c, "poll", "unpoll")
  BY DEF Poll, ghosts
<1>3. /\ pc[c] = "poll" /\ pc'[c] \in {"scan", "unpoll"}
      /\ pc'[c] = "scan" => existing' >= 0
      /\ \A u \in Threads : u # c => pc'[u] = pc[u]
  <2>1. CASE Goto(c, "poll", "scan") /\ existing' >= 0
    BY <1>1, <2>1, Moved DEF Inv
  <2>2. CASE Goto(c, "poll", "unpoll")
    BY <1>1, <2>2, Moved DEF Inv
  <2> QED BY <1>2, <2>1, <2>2
<1>4. Counting' = Counting /\ (pc'[c] = "scan" => Unpolling' = Unpolling)
  BY <1>1, <1>3, CountingIs, UnpollingIs
<1>5. c \notin Unpolling
  BY <1>3 DEF Unpolling
<1>6. ASSUME pc'[c] = "unpoll" PROVE Cardinality(Unpolling') = Cardinality(Unpolling) + 1
  <2>1. Unpolling' = Unpolling \cup {c}
    BY <1>1, <1>3, <1>6, UnpollingIs
  <2> QED BY <1>5, <2>1, FewOwed, FewThreads, OneMore
<1>7. at'[c] = 0 /\ \A u \in Threads : u # c => at'[u] = at[u]
  BY <1>1, <1>2 DEF Inv, TypeOK
<1>8. existing \in Word
  BY DEF Inv, TypeOK
<1> QED BY <1>2, <1>3, <1>4, <1>5, <1>6, <1>7, <1>8 DEF Threads

LEMMA Unwrapped ==
  ASSUME NoWrap, existing \in Word
  PROVE  /\ existing' = Short(existing + 1) => existing' = existing + 1
         /\ existing' = Short(existing - 1) => existing' = existing - 1
BY SizesAssumption DEF NoWrap, Short, Word

(* What the steps of a producer leave alone, but for its Publish and Count.*)
LEMMA QuietSteps ==
  ASSUME NEW B \in SUBSET Area, Inv(B), NEW t \in Producers,
         Call(t) \/ PrepareStep(t) \/ Fill(t)
  PROVE  /\ t \in Threads /\ \A u \in Threads : u # t => pc'[u] = pc[u] /\ at'[u] = at[u]
         /\ pc[t] \notin {"count", "unpoll"} /\ pc'[t] \notin {"count", "unpoll"}
         /\ existing' = existing
         /\ \A p \in Packets : status'[p] = "sent" => status[p] = "sent" /\ start'[p] = start[p]
<1>1. t \in Threads
  BY DEF Threads
<1>2. pc \in [Threads -> {"idle"} \cup ProducerSteps \cup ConsumerSteps] /\ at \in [Threads -> Int]
  BY DEF Inv, TypeOK
<1>3. /\ \A u \in Threads : u # t => pc'[u] = pc[u]
      /\ pc[t] \notin {"count", "unpoll"} /\ pc'[t] \notin {"count", "unpoll"}
  BY <1>1, <1>2 DEF Call, PrepareStep, GiveUp, Claim, Fit, SplitLength, SplitValid, SplitPrepare,
     SplitSize, SplitStore, Shrink, SetLength, Absorb, Grow, Restart, Unclaim, Skip, Fill, Goto
<1>4. /\ existing' = existing
      /\ \/ at' = at
         \/ \E n \in Int : at' = [at EXCEPT ![t] = n]
         \/ Skip(t)
  BY DEF Call, PrepareStep, GiveUp, Claim, Fit, SplitLength, SplitValid, SplitPrepare,
     SplitSize, SplitStore, Shrink, SetLength, Absorb, Grow, Restart, Unclaim, Skip, Fill
<1>5. \A u \in Threads : u # t => at'[u] = at[u]
  BY <1>2, <1>4 DEF Skip
<1>6. \/ status' = status /\ start' = start
      \/ GiveUp(t) \/ SetLength(t)
  BY DEF Call, PrepareStep, Claim, Fit, SplitLength, SplitValid, SplitPrepare,
     SplitSize, SplitStore, Shrink, Absorb, Grow, Restart, Unclaim, Skip, Fill, ghosts
<1>7. \A p \in Packets : status'[p] = "sent" => status[p] = "sent" /\ start'[p] = start[p]
  <2>1. status \in [Packets -> {"none", "refused", "writing", "sent", "reading", "delivered"}]
        /\ start \in [Packets -> Int]
    BY DEF Inv, TypeOK
  <2>2. CASE GiveUp(t)
    BY <2>1, <2>2 DEF GiveUp
  <2>3. CASE SetLength(t)
    BY <2>1, <2>3 DEF SetLength
  <2> QED BY <1>6, <2>2, <2>3
<1> QED BY <1>1, <1>3, <1>4, <1>5, <1>7

LEMMA WakeQuiet ==
  ASSUME IsFiniteSet(Threads), WakeInv, NEW B \in SUBSET Area, Inv(B), NEW t \in Producers,
         Call(t) \/ PrepareStep(t) \/ Fill(t)
  PROVE  WakeInv'
<1>1. /\ t \in Threads /\ \A u \in Threads : u # t => pc'[u] = pc[u] /\ at'[u] = at[u]
      /\ pc[t] \notin {"count", "unpoll"} /\ pc'[t] \notin {"count", "unpoll"}
      /\ existing' = existing
      /\ \A p \in Packets : status'[p] = "sent" => status[p] = "sent" /\ start'[p] = start[p]
  BY QuietSteps
<1>2. Counting' = Counting /\ Unpolling' = Unpolling
  BY <1>1, CountingIs, UnpollingIs
<1>3. \A c \in Consumers : pc'[c] = pc[c] /\ at'[c] = at[c]
  BY <1>1, ThreadsAssumption DEF Threads
<1>4. Behind' \subseteq Behind
  BY <1>1, <1>3 DEF Behind, Past
<1>5. existing \in Int
  BY DEF Inv, TypeOK, Word
<1> QED BY <1>1, <1>2, <1>4, <1>5, WakeRests

LEMMA WakePublish ==
  ASSUME IsFiniteSet(Threads), WakeInv, NEW B \in SUBSET Area, Inv(B), NEW t \in Producers,
         Publish(t)
  PROVE  WakeInv'
<1>1. /\ Cardinality(Counting') = Cardinality(Counting) + 1 /\ Unpolling' = Unpolling
      /\ existing' = existing /\ existing \in Word
      /\ \A c \in Consumers : pc'[c] = pc[c] /\ at'[c] = at[c]
  BY PublishTurns
<1>2. PICK p \in Packets : start' = start /\ status' = [status EXCEPT ![p] = "sent"]
  BY PublishTurns
<1>3. \A q \in Packets : q # p => status'[q] = status[q]
  BY <1>2 DEF Inv, TypeOK
<1>4. Behind' \subseteq Behind \cup {p}
  BY <1>1, <1>2, <1>3 DEF Behind, Past
<1>5. PICK S : S = Behind /\ S \subseteq Packets
  BY FewOwed
<1>6. PICK T : T = Behind' /\ T \subseteq S \cup {p}
  BY <1>4, <1>5
<1>7. Cardinality(T) <= Cardinality(S) + 1 /\ Cardinality(S) \in Nat /\ Cardinality(T) \in Nat
  <2>1. IsFiniteSet(S) /\ Cardinality(S) \in Nat
    BY <1>5, FewPackets
  <2>2. /\ IsFiniteSet(S \cup {p})
        /\ Cardinality(S \cup {p}) = IF p \in S THEN Cardinality(S) ELSE Cardinality(S) + 1
    BY <2>1, FS_AddElement
  <2>3. IsFiniteSet(T) /\ Cardinality(T) <= Cardinality(S \cup {p}) /\ Cardinality(T) \in Nat
    BY <1>6, <2>2, FS_Subset, FS_CardinalityType
  <2> QED BY <2>1, <2>2, <2>3
<1> QED BY <1>1, <1>5, <1>6, <1>7, FewOwed DEF WakeInv, Word

(* A sender counts, a reader gives its token back.                         *)
LEMMA WakeCount ==
  ASSUME IsFiniteSet(Threads), WakeInv, NEW B \in SUBSET Area, Inv(B), NoWrap,
         NEW t \in Producers, Count(t)
  PROVE  WakeInv'
<1>1. /\ Cardinality(Counting') = Cardinality(Counting) - 1 /\ Unpolling' = Unpolling
      /\ existing' = existing + 1 /\ existing \in Word
      /\ \A c \in Consumers : pc'[c] = pc[c] /\ at'[c] = at[c]
      /\ status' = status /\ start' = start
  BY CountTurns, Unwrapped
<1>2. Behind' = Behind
  BY <1>1 DEF Behind, Past
<1>3. Cardinality(Behind) \in Nat
  BY FewOwed, FewPackets
<1> QED BY <1>1, <1>2, <1>3, FewOwed DEF WakeInv, Word

LEMMA WakeUnpoll ==
  ASSUME IsFiniteSet(Threads), WakeInv, NEW B \in SUBSET Area, Inv(B), NoWrap,
         NEW c \in Consumers, Unpoll(c)
  PROVE  WakeInv'
<1>1. /\ Cardinality(Unpolling') = Cardinality(Unpolling) - 1 /\ Counting' = Counting
      /\ existing' = existing + 1 /\ existing \in Word
      /\ pc[c] = "unpoll" /\ pc'[c] = "poll"
      /\ \A d \in Consumers : d # c => pc'[d] = pc[d]
      /\ at' = at /\ status' = status /\ start' = start
  BY UnpollTurns, Unwrapped
<1>2. Behind' = Behind
  BY <1>1 DEF Behind, Past
<1>3. Cardinality(Behind) \in Nat
  BY FewOwed, FewPackets
<1> QED BY <1>1, <1>2, <1>3, FewOwed DEF WakeInv, Word

(* A poll that finds the counter positive starts a pass, which will find   *)
(* whatever is there; one that does not owes its token.                    *)
LEMMA WakePoll ==
  ASSUME IsFiniteSet(Threads), WakeInv, NEW B \in SUBSET Area, Inv(B), NoWrap,
         NEW c \in Consumers, Poll(c)
  PROVE  WakeInv'
<1>1. /\ Counting' = Counting
      /\ existing' = existing - 1 /\ existing \in Word
      /\ pc[c] = "poll" /\ pc'[c] \in {"scan", "unpoll"}
      /\ pc'[c] = "scan" => existing' >= 0
      /\ pc'[c] = "unpoll" => Cardinality(Unpolling') = Cardinality(Unpolling) + 1
      /\ \A d \in Consumers : d # c => pc'[d] = pc[d] /\ at'[d] = at[d]
      /\ at'[c] = 0 /\ status' = status /\ start' = start
  BY PollTurns, Unwrapped
<1>2. CASE pc'[c] = "scan"
  <2>1. Behind' = {}
    <3> SUFFICES ASSUME NEW p \in Packets, status[p] = "sent" PROVE ~Past(c, start[p] - Hdr)'
      BY <1>1 DEF Behind
    <3>1. PICK o \in B : o = start[p] - Hdr
      BY DEF Inv, BlocksOK, Granted, GrantedTo, HeldStages
    <3>2. (start[p] - Hdr)' = o /\ ~(o < 0)
      BY <1>1, <3>1, Consts
    <3> QED BY <1>1, <1>2, <3>2 DEF Past
  <2>2. Cardinality(Behind') = 0
    BY <2>1, FS_EmptySet
  <2> QED BY <1>1, <1>2, <2>2, FewOwed DEF WakeInv, Word
<1>3. CASE pc'[c] = "unpoll"
  <2>1. Behind' = Behind
    BY <1>1, <1>3 DEF Behind, Past
  <2>2. Cardinality(Behind) \in Nat
    BY FewOwed, FewPackets
  <2> QED BY <1>1, <1>3, <2>1, <2>2, FewOwed DEF WakeInv, Word
<1> QED BY <1>1, <1>2, <1>3

(* Inside a pass: what falls behind the scan pointer was taken or is not   *)
(* the offset of a block.                                                  *)
LEMMA PassSteps ==
  ASSUME NEW B \in SUBSET Area, Inv(B), NEW c \in Consumers,
         EndScan(c) \/ Take(c) \/ Pass(c) \/ Handle(c) \/ Release(c) \/ Advance(c)
  PROVE  /\ c \in Threads /\ \A u \in Threads : u # c => pc'[u] = pc[u] /\ at'[u] = at[u]
         /\ pc[c] \notin {"count", "unpoll"} /\ pc'[c] \notin {"count", "unpoll"}
         /\ existing' = existing /\ start' = start
         /\ \A p \in Packets : status'[p] = "sent" => status[p] = "sent"
<1>1. c \in Threads
  BY DEF Threads
<1>2. pc \in [Threads -> {"idle"} \cup ProducerSteps \cup ConsumerSteps] /\ at \in [Threads -> Int]
  BY DEF Inv, TypeOK
<1>3. /\ \A u \in Threads : u # c => pc'[u] = pc[u]
      /\ pc[c] \notin {"count", "unpoll"} /\ pc'[c] \notin {"count", "unpoll"}
  BY <1>1, <1>2 DEF EndScan, Take, Pass, Handle, Release, Advance, Goto
<1>4. /\ existing' = existing /\ start' = start
      /\ at' = at \/ Advance(c)
      /\ status' = status \/ Take(c) \/ Handle(c)
  BY DEF EndScan, Take, Pass, Handle, Release, Advance, ghosts
<1>5. \A u \in Threads : u # c => at'[u] = at[u]
  BY <1>2, <1>4 DEF Advance
<1>6. \A p \in Packets : status'[p] = "sent" => status[p] = "sent"
  BY <1>4 DEF Take, Handle
<1> QED BY <1>1, <1>3, <1>4, <1>5, <1>6

LEMMA PassPast ==
  ASSUME NEW B \in SUBSET Area, Inv(B), NEW c \in Consumers,
         EndScan(c) \/ Take(c) \/ Pass(c) \/ Handle(c) \/ Release(c) \/ Advance(c),
         NEW p \in Packets, status'[p] = "sent", Past(c, start[p] - Hdr)'
  PROVE  Past(c, start[p] - Hdr)
<1>1. /\ c \in Threads /\ status[p] = "sent" /\ start' = start
  BY PassSteps
<1>2. PICK o \in B : o = start[p] - Hdr /\ mem[o].valid = 1
  BY <1>1 DEF Inv, BlocksOK, Granted, GrantedTo, HeldStages
<1>3. o \in Nat /\ o < Capacity /\ Capacity \in Nat /\ at[c] \in Int /\ (start[p] - Hdr)' = o
  BY <1>1, <1>2, Consts DEF Inv, TypeOK
<1>4. pc \in [Threads -> {"idle"} \cup ProducerSteps \cup ConsumerSteps] /\ at \in [Threads -> Int]
  BY DEF Inv, TypeOK
<1> SUFFICES Past(c, o)
  BY <1>2
<1>5. Past(c, o)'
  BY <1>1, <1>2
<1>6. CASE EndScan(c)
  BY <1>3, <1>6 DEF EndScan, Goto, Past
<1>7. CASE Take(c)
  <2>1. pc[c] = "scan" /\ pc'[c] = "handle" /\ at' = at
    BY <1>1, <1>4, <1>7 DEF Take, Goto
  <2>2. PICK q \in Packets : start[q] = at[c] + Hdr /\ status' = [status EXCEPT ![q] = "reading"]
    BY <1>7, TakesOne
  <2>3. o # at[c]
    <3> SUFFICES ASSUME o = at[c] PROVE FALSE
      OBVIOUS
    <3>1. status' = [r \in Packets |-> IF r \in {x \in Packets : status[x] = "sent" /\ start[x] = at[c] + Hdr}
                                       THEN "reading" ELSE status[r]]
      BY <1>7 DEF Take
    <3>2. start[p] = at[c] + Hdr
      BY <1>2, Consts DEF Inv, TypeOK
    <3> QED BY <1>1, <3>1, <3>2
  <2> QED BY <1>3, <1>5, <2>1, <2>3 DEF Past
<1>8. CASE Pass(c)
  <2>1. pc[c] = "scan" /\ pc'[c] = "advance" /\ at' = at /\ mem[at[c]].valid = 0
    BY <1>1, <1>4, <1>8 DEF Pass, Goto
  <2>2. o # at[c]
    BY <1>2, <2>1
  <2> QED BY <1>3, <1>5, <2>1, <2>2 DEF Past
<1>9. CASE Handle(c) \/ Release(c)
  <2>1. pc[c] \in {"handle", "release"} /\ pc'[c] \in {"release", "advance"} /\ at' = at
    BY <1>1, <1>4, <1>9 DEF Handle, Release, Goto
  <2> QED BY <1>5, <2>1 DEF Past
<1>10. CASE Advance(c)
  <2>1. pc[c] = "advance" /\ pc'[c] = "scan" /\ at'[c] = After(at[c])
    BY <1>1, <1>4, <1>10 DEF Advance, Goto
  <2>2. PICK b \in B : b = at[c]
    BY <2>1 DEF Inv, ConsumerOK
  <2>3. b \in Nat /\ (b < o => After(b) <= o) /\ After(b) \in Int
    BY BlockIs DEF Inv, TypeOK, BlocksOK, Tiled
  <2>4. o < After(b)
    BY <1>5, <2>1, <2>2 DEF Past
  <2>5. o <= at[c]
    BY <1>3, <2>2, <2>3, <2>4
  <2> QED BY <2>1, <2>5 DEF Past
<1> QED BY <1>6, <1>7, <1>8, <1>9, <1>10

LEMMA WakePass ==
  ASSUME IsFiniteSet(Threads), WakeInv, NEW B \in SUBSET Area, Inv(B), NEW c \in Consumers,
         EndScan(c) \/ Take(c) \/ Pass(c) \/ Handle(c) \/ Release(c) \/ Advance(c)
  PROVE  WakeInv'
<1>1. /\ c \in Threads /\ \A u \in Threads : u # c => pc'[u] = pc[u] /\ at'[u] = at[u]
      /\ pc[c] \notin {"count", "unpoll"} /\ pc'[c] \notin {"count", "unpoll"}
      /\ existing' = existing /\ start' = start
      /\ \A p \in Packets : status'[p] = "sent" => status[p] = "sent"
  BY PassSteps
<1>2. Counting' = Counting /\ Unpolling' = Unpolling
  BY <1>1, CountingIs, UnpollingIs
<1>3. Behind' \subseteq Behind
  <2> SUFFICES ASSUME NEW p \in Packets, status'[p] = "sent",
                      \A d \in Consumers : Past(d, start[p] - Hdr)'
               PROVE  status[p] = "sent" /\ \A d \in Consumers : Past(d, start[p] - Hdr)
    BY DEF Behind
  <2>1. \A d \in Consumers : d # c => Past(d, start[p] - Hdr)
    BY <1>1 DEF Past, Threads
  <2>2. Past(c, start[p] - Hdr)
    BY PassPast
  <2> QED BY <1>1, <2>1, <2>2
<1>4. existing \in Int
  BY DEF Inv, TypeOK, Word
<1> QED BY <1>1, <1>2, <1>3, <1>4, WakeRests

LEMMA WakeStep ==
  ASSUME IsFiniteSet(Threads), ShaInv, WakeInv, [Next]_vars, NoWrap
  PROVE  WakeInv'
<1>1. PICK B \in SUBSET Area : Inv(B)
  BY DEF ShaInv
<1>2. CASE UNCHANGED vars
  <2>1. /\ existing' = existing /\ existing \in Int
        /\ Counting' = Counting /\ Unpolling' = Unpolling /\ Behind' = Behind
    BY <1>1, <1>2 DEF vars, Counting, Unpolling, Behind, Past, Inv, TypeOK, Word
  <2> QED BY <2>1, WakeRests
<1>3. ASSUME NEW t \in Producers, Call(t) \/ PrepareStep(t) \/ SendStep(t) PROVE WakeInv'
  <2>1. CASE Call(t) \/ PrepareStep(t) \/ Fill(t)
    BY <1>1, <2>1, WakeQuiet
  <2>2. CASE Publish(t)
    BY <1>1, <2>2, WakePublish
  <2>3. CASE Count(t)
    BY <1>1, <2>3, WakeCount
  <2> QED BY <1>3, <2>1, <2>2, <2>3 DEF SendStep
<1>4. ASSUME NEW c \in Consumers, ReadStep(c) PROVE WakeInv'
  BY <1>1, <1>4, WakePoll, WakeUnpoll, WakePass DEF ReadStep
<1> QED BY <1>2, <1>3, <1>4 DEF Next

-----------------------------------------------------------------------------
(* The counter itself: every token was put there by a sender and is taken  *)
(* at most once, so it stays between what readers owe and what was sent.   *)
EverStages == {"sent", "reading", "delivered"}
EverSent   == {p \in Packets : status[p] \in EverStages}
TokenInv ==
  /\ existing + Cardinality(Unpolling) >= 0
  /\ existing + Owed <= Cardinality(EverSent)

(* No more packets are sent than a SHORT counts to, and no more threads    *)
(* read than it can go below zero.                                         *)
CounterSuffices ==
  /\ IsFiniteSet(Threads)
  /\ MaxPackets <= ShortMax
  /\ Cardinality(Consumers) <= ShortMax + 1

LEMMA FewSent ==
  /\ EverSent \subseteq Packets /\ EverSent' \subseteq Packets
  /\ Cardinality(EverSent) \in Nat /\ Cardinality(EverSent) <= MaxPackets
  /\ Cardinality(EverSent') \in Nat /\ Cardinality(EverSent') <= MaxPackets
<1>1. EverSent \subseteq Packets /\ EverSent' \subseteq Packets
  BY DEF EverSent
<1> QED BY <1>1, FewPackets

LEMMA SentStays ==
  ASSUME NEW B \in SUBSET Area, Inv(B), [Next]_vars
  PROVE  Cardinality(EverSent) <= Cardinality(EverSent')
<1>1. status \in [Packets -> {"none", "refused", "writing", "sent", "reading", "delivered"}]
  BY DEF Inv, TypeOK
<1>2. \A p \in Packets : status[p] \in EverStages => status'[p] \in EverStages
  <2>1. CASE status' = status
    BY <2>1
  <2>2. ASSUME NEW t \in Producers, GiveUp(t) \/ SetLength(t) \/ Publish(t)
        PROVE  \A p \in Packets : status[p] \in EverStages => status'[p] \in EverStages
    <3>1. PICK p \in Packets : p = id[t] /\ status[p] \in {"none", "writing"}
      BY <2>2, SizesAssumption
         DEF GiveUp, SetLength, Publish, Goto, Inv, TypeOK, ProducerOK, Packets, ClaimSteps
    <3>2. \E s : status' = [status EXCEPT ![p] = s]
      BY <2>2, <3>1 DEF GiveUp, SetLength, Publish
    <3> QED BY <1>1, <3>1, <3>2 DEF EverStages
  <2>3. ASSUME NEW c \in Consumers, Take(c) \/ Handle(c)
        PROVE  \A p \in Packets : status[p] \in EverStages => status'[p] \in EverStages
    BY <1>1, <2>3 DEF Take, Handle, EverStages
  <2>4. ASSUME NEW t \in Producers, Call(t) \/ PrepareStep(t) \/ SendStep(t)
        PROVE  GiveUp(t) \/ SetLength(t) \/ Publish(t) \/ status' = status
    BY <2>4 DEF Call, PrepareStep, SendStep, Claim, Fit, SplitLength, SplitValid, SplitPrepare,
       SplitSize, SplitStore, Shrink, Absorb, Grow, Restart, Unclaim, Skip, Fill, Count, ghosts
  <2>5. ASSUME NEW c \in Consumers, ReadStep(c)
        PROVE  Take(c) \/ Handle(c) \/ status' = status
    BY <2>5 DEF ReadStep, Poll, Unpoll, EndScan, Pass, Release, Advance, ghosts
  <2> QED BY <2>1, <2>2, <2>3, <2>4, <2>5 DEF Next, vars
<1>3. PICK S : S = EverSent' /\ S \subseteq Packets
  BY FewSent
<1>4. PICK T : T = EverSent /\ T \subseteq S
  BY <1>2, <1>3 DEF EverSent
<1> QED BY <1>3, <1>4, FewPackets, FS_Subset

LEMMA TokenPublish ==
  ASSUME CounterSuffices, TokenInv, NEW B \in SUBSET Area, Inv(B), NEW t \in Producers, Publish(t)
  PROVE  NoWrap /\ TokenInv'
<1>0. IsFiniteSet(Threads)
  BY DEF CounterSuffices
<1>1. /\ Cardinality(Counting') = Cardinality(Counting) + 1 /\ Unpolling' = Unpolling
      /\ existing' = existing /\ existing \in Int
  BY <1>0, PublishTurns DEF Word
<1>2. PICK p \in Packets : status[p] = "writing" /\ status' = [status EXCEPT ![p] = "sent"]
  BY <1>0, PublishTurns
<1>3. p \notin EverSent /\ EverSent' = EverSent \cup {p}
  BY <1>2 DEF EverSent, EverStages, Inv, TypeOK
<1>4. Cardinality(EverSent') = Cardinality(EverSent) + 1
  BY <1>3, FewSent, FewPackets, OneMore
<1> QED BY <1>0, <1>1, <1>4, FewOwed, FewSent DEF TokenInv, NoWrap

LEMMA TokenCount ==
  ASSUME CounterSuffices, TokenInv, NEW B \in SUBSET Area, Inv(B), NEW t \in Producers, Count(t),
         Cardinality(EverSent) <= Cardinality(EverSent')
  PROVE  NoWrap /\ TokenInv'
<1>0. IsFiniteSet(Threads) /\ MaxPackets <= ShortMax /\ MaxPackets \in Nat /\ ShortMax \in Nat
  BY SizesAssumption DEF CounterSuffices
<1>1. /\ Cardinality(Counting') = Cardinality(Counting) - 1 /\ Unpolling' = Unpolling
      /\ existing' = Short(existing + 1) /\ existing \in Word
  BY <1>0, CountTurns
<1>2. existing + 1 <= ShortMax
  BY <1>0, <1>1, FewOwed, FewSent DEF TokenInv, Word
<1>3. existing' = existing + 1
  BY <1>0, <1>1, <1>2 DEF Short, Word
<1> QED BY <1>0, <1>1, <1>3, FewOwed, FewSent DEF TokenInv, NoWrap, Word

LEMMA TokenUnpoll ==
  ASSUME CounterSuffices, TokenInv, NEW B \in SUBSET Area, Inv(B), NEW c \in Consumers, Unpoll(c),
         Cardinality(EverSent) <= Cardinality(EverSent')
  PROVE  NoWrap /\ TokenInv'
<1>0. IsFiniteSet(Threads) /\ MaxPackets <= ShortMax /\ MaxPackets \in Nat /\ ShortMax \in Nat
  BY SizesAssumption DEF CounterSuffices
<1>1. /\ Cardinality(Unpolling') = Cardinality(Unpolling) - 1 /\ Counting' = Counting
      /\ existing' = Short(existing + 1) /\ existing \in Word
  BY <1>0, UnpollTurns
<1>2. existing + 1 <= ShortMax
  BY <1>0, <1>1, FewOwed, FewSent DEF TokenInv, Word
<1>3. existing' = existing + 1
  BY <1>0, <1>1, <1>2 DEF Short, Word
<1> QED BY <1>0, <1>1, <1>3, FewOwed, FewSent DEF TokenInv, NoWrap, Word

LEMMA TokenPoll ==
  ASSUME CounterSuffices, TokenInv, NEW B \in SUBSET Area, Inv(B), NEW c \in Consumers, Poll(c),
         Cardinality(EverSent) <= Cardinality(EverSent')
  PROVE  NoWrap /\ TokenInv'
<1>0. /\ IsFiniteSet(Threads) /\ ShortMax \in Nat
      /\ Cardinality(Consumers) <= ShortMax + 1 /\ Cardinality(Consumers) \in Nat
  BY SizesAssumption, FewThreads DEF CounterSuffices, Threads
<1>1. /\ Counting' = Counting /\ c \notin Unpolling
      /\ existing' = Short(existing - 1) /\ existing \in Word
      /\ pc'[c] \in {"scan", "unpoll"}
      /\ pc'[c] = "scan" => existing' >= 0 /\ Unpolling' = Unpolling
      /\ pc'[c] = "unpoll" => Cardinality(Unpolling') = Cardinality(Unpolling) + 1
  BY <1>0, PollTurns
<1>2. Cardinality(Unpolling) <= ShortMax
  <2>1. PICK U : U = Unpolling /\ U \subseteq Consumers /\ c \notin U
    BY <1>1 DEF Unpolling
  <2>2. IsFiniteSet(Consumers)
    BY <1>0, FewThreads DEF Threads
  <2>3. Cardinality(Consumers \ {c}) = Cardinality(Consumers) - 1 /\ IsFiniteSet(Consumers \ {c})
    BY <2>2, FS_RemoveElement
  <2>4. U \subseteq Consumers \ {c}
    BY <2>1
  <2>5. Cardinality(U) <= Cardinality(Consumers \ {c}) /\ Cardinality(U) \in Nat
    BY <2>3, <2>4, FS_Subset, FS_CardinalityType
  <2> QED BY <1>0, <2>1, <2>3, <2>5
<1>3. existing' = existing - 1
  BY <1>0, <1>1, <1>2, FewOwed DEF TokenInv, Short, Word
<1> QED BY <1>0, <1>1, <1>3, FewOwed, FewSent DEF TokenInv, NoWrap, Word

LEMMA TokenStep ==
  ASSUME CounterSuffices, ShaInv, TokenInv, [Next]_vars
  PROVE  NoWrap /\ TokenInv'
<1>0. IsFiniteSet(Threads)
  BY DEF CounterSuffices
<1>1. PICK B \in SUBSET Area : Inv(B)
  BY DEF ShaInv
<1>2. Cardinality(EverSent) <= Cardinality(EverSent')
  BY <1>1, SentStays
<1>3. existing \in Int
  BY <1>1 DEF Inv, TypeOK, Word
<1>4. ASSUME existing' = existing, Counting' = Counting, Unpolling' = Unpolling
      PROVE  NoWrap /\ TokenInv'
  BY <1>0, <1>2, <1>3, <1>4, FewOwed, FewSent DEF TokenInv, NoWrap
<1>5. CASE UNCHANGED vars
  BY <1>4, <1>5 DEF vars, Counting, Unpolling
<1>6. ASSUME NEW t \in Producers, Call(t) \/ PrepareStep(t) \/ SendStep(t)
      PROVE  NoWrap /\ TokenInv'
  <2>1. CASE Call(t) \/ PrepareStep(t) \/ Fill(t)
    <3>1. /\ t \in Threads /\ \A u \in Threads : u # t => pc'[u] = pc[u]
          /\ pc[t] \notin {"count", "unpoll"} /\ pc'[t] \notin {"count", "unpoll"}
          /\ existing' = existing
      BY <1>1, <2>1, QuietSteps
    <3> QED BY <1>4, <3>1, CountingIs, UnpollingIs
  <2>2. CASE Publish(t) \/ Count(t)
    BY <1>1, <1>2, <2>2, TokenPublish, TokenCount
  <2> QED BY <1>6, <2>1, <2>2 DEF SendStep
<1>7. ASSUME NEW c \in Consumers, ReadStep(c) PROVE NoWrap /\ TokenInv'
  <2>1. CASE EndScan(c) \/ Take(c) \/ Pass(c) \/ Handle(c) \/ Release(c) \/ Advance(c)
    <3>1. /\ c \in Threads /\ \A u \in Threads : u # c => pc'[u] = pc[u]
          /\ pc[c] \notin {"count", "unpoll"} /\ pc'[c] \notin {"count", "unpoll"}
          /\ existing' = existing
      BY <1>1, <2>1, PassSteps
    <3> QED BY <1>4, <3>1, CountingIs, UnpollingIs
  <2>2. CASE Poll(c) \/ Unpoll(c)
    BY <1>1, <1>2, <2>2, TokenPoll, TokenUnpoll
  <2> QED BY <1>7, <2>1, <2>2 DEF ReadStep
<1> QED BY <1>5, <1>6, <1>7 DEF Next

LEMMA WakeStarts == IsFiniteSet(Threads) /\ Init => WakeInv /\ TokenInv
<1> SUFFICES ASSUME IsFiniteSet(Threads), Init PROVE WakeInv /\ TokenInv
  OBVIOUS
<1>1. existing = 0
  BY DEF Init
<1>2. Behind = {}
  BY DEF Init, Behind
<1>3. Counting = {} /\ Unpolling = {}
  BY ThreadsAssumption DEF Init, Counting, Unpolling, Threads
<1>4. Cardinality(Behind) = 0 /\ Cardinality(Counting) = 0 /\ Cardinality(Unpolling) = 0
  BY <1>2, <1>3, FS_EmptySet
<1> QED BY <1>1, <1>4, FewOwed, FewSent DEF WakeInv, TokenInv

LEMMA WakeSuffices == ShaInv /\ WakeInv => NoLostWakeup
<1> SUFFICES ASSUME ShaInv, WakeInv PROVE NoLostWakeup
  OBVIOUS
<1>1. TypeOK
  BY DEF ShaInv, Inv
<1>2. ASSUME \A c \in Consumers : pc[c] \in {"poll", "unpoll"}
      PROVE  Behind = {p \in Packets : status[p] = "sent"}
  BY <1>2 DEF Behind, Past
<1> QED BY <1>1, <1>2 DEF NoLostWakeup, WakeInv

(* While the counter does not wrap, a packet that waits is never forgotten:*)
(* when no pass is under way, existing and what is still owed to it cover  *)
(* the packets waiting, however many were sent before.                     *)
THEOREM NoWakeupLostUnwrapped ==
  Calm /\ IsFiniteSet(Threads) => (Spec /\ [][NoWrap]_vars => []NoLostWakeup)
<1> SUFFICES ASSUME Calm, IsFiniteSet(Threads)
             PROVE  Spec /\ [][NoWrap]_vars => []NoLostWakeup
  OBVIOUS
<1>1. Init => WakeInv
  BY WakeStarts
<1>2. ShaInv /\ WakeInv /\ [Next]_vars /\ [NoWrap]_vars => WakeInv'
  <2> SUFFICES ASSUME ShaInv, WakeInv, [Next]_vars, [NoWrap]_vars PROVE WakeInv'
    OBVIOUS
  <2>1. CASE NoWrap
    BY <2>1, WakeStep
  <2>2. CASE UNCHANGED vars
    <3>1. NoWrap
      BY <2>2 DEF NoWrap, vars, ShaInv, Inv, TypeOK, Word
    <3> QED BY <3>1, WakeStep
  <2> QED BY <2>1, <2>2
<1>3. ShaInv /\ WakeInv => NoLostWakeup
  BY WakeSuffices
<1> QED BY <1>1, <1>2, <1>3, Invariance, PTL DEF Spec

(* And it does not wrap while no more packets are sent than it counts to:  *)
(* put_func finds existing positive whenever a packet waits.               *)
THEOREM NoWakeupLost == Calm /\ CounterSuffices => (Spec => []NoLostWakeup)
<1> SUFFICES ASSUME Calm, CounterSuffices PROVE Spec => []NoLostWakeup
  OBVIOUS
<1>1. Init => WakeInv /\ TokenInv
  BY WakeStarts DEF CounterSuffices
<1>2. ShaInv /\ WakeInv /\ TokenInv /\ [Next]_vars => WakeInv' /\ TokenInv'
  BY TokenStep, WakeStep DEF CounterSuffices
<1>3. ShaInv /\ WakeInv => NoLostWakeup
  BY WakeSuffices
<1> QED BY <1>1, <1>2, <1>3, Invariance, PTL DEF Spec
=============================================================================

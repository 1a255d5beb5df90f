--------------------------- MODULE PacketChannel ---------------------------
(***************************************************************************)
(* What the shared packet buffer OR_SHA_IO promises its users, with no     *)
(* word about headers, scans or compare-and-swap: a packet is either       *)
(* refused or granted a region of the data area that nobody else holds, is *)
(* sent once, is read once by one reader, and gives its region back.       *)
(***************************************************************************)
EXTENDS Integers, FiniteSets

CONSTANTS
  Packets,   (* packet ids *)
  Area       (* the units of the data area *)

VARIABLES
  status,    (* where a packet is in its life *)
  region     (* the units it holds *)

chanVars == << status, region >>

Stages == {"none", "refused", "writing", "sent", "reading", "delivered"}

ChannelInit ==
  /\ status = [p \in Packets |-> "none"]
  /\ region = [p \in Packets |-> {}]

Become(p, from, to) ==
  /\ status[p] = from
  /\ status' = [status EXCEPT ![p] = to]

(* A region may be granted only if it overlaps no region in use. *)
Grant(p) ==
  /\ Become(p, "none", "writing")
  /\ \E R \in (SUBSET Area) \ {{}} :
       /\ \A q \in Packets \ {p} : R \cap region[q] = {}
       /\ region' = [region EXCEPT ![p] = R]

Refuse(p) == Become(p, "none", "refused") /\ UNCHANGED region

Send(p) == Become(p, "writing", "sent") /\ UNCHANGED region

Take(p) == Become(p, "sent", "reading") /\ UNCHANGED region

Deliver(p) ==
  /\ Become(p, "reading", "delivered")
  /\ region' = [region EXCEPT ![p] = {}]

ChannelNext ==
  \E p \in Packets : Grant(p) \/ Refuse(p) \/ Send(p) \/ Take(p) \/ Deliver(p)

ChannelSpec == ChannelInit /\ [][ChannelNext]_chanVars
=============================================================================

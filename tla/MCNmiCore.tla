----------------------------- MODULE MCNmiCore -----------------------------
(* Four NMIs and three accesses: NMIs can wait while another arrives, and   *)
(* an access can find what an earlier one left, of either kind.            *)
EXTENDS NmiCore
=============================================================================

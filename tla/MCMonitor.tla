----------------------------- MODULE MCMonitor -----------------------------
(* Two cores and two pages: one can be a target while the other is not.    *)
EXTENDS Monitor
=============================================================================

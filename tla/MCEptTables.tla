---------------------------- MODULE MCEptTables ----------------------------
(* Tables of two entries, so that every level has a sibling that must stay *)
(* as it was; enough tables for every copy the bounded calls can make.     *)
EXTENDS EptTables
=============================================================================

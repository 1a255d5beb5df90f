------------------------------ MODULE MCShaIO ------------------------------
(***************************************************************************)
(* Small instances of ShaIO.                                               *)
(***************************************************************************)
EXTENDS ShaIO

(* Packet data that, read as a header, claims to be valid and free.        *)
MCImages == {[valid |-> 1, prepare |-> 0, length |-> 1, size |-> 0]}
=============================================================================

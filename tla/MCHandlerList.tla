--------------------------- MODULE MCHandlerList ---------------------------
(* Three slots and three handlers: a handler in the middle of the list can *)
(* be removed and its slot used again.  The walkers do not touch the list, *)
(* so that one of them sees everything that can happen to any.             *)
EXTENDS HandlerList
=============================================================================

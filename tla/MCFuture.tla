------------------------------ MODULE MCFuture ------------------------------
(* Futures with at most MaxStates shared states. *)
EXTENDS Future
=============================================================================

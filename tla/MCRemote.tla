------------------------------ MODULE MCRemote ------------------------------
(* Remote calls of a device with one announced host. *)
EXTENDS Remote
=============================================================================

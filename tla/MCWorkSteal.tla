----------------------------- MODULE MCWorkSteal -----------------------------
(* Small instances of WorkSteal for TLC. *)
EXTENDS WorkSteal, TLC
=============================================================================

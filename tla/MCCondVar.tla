------------------------------ MODULE MCCondVar ------------------------------
(* CondVar for TLC.                                                         *)
EXTENDS CondVar, TLC

(* Tasks with deadlines are interchangeable, and so are those without.      *)
TaskSymmetry == Permutations(Timed) \cup Permutations(Tasks \ Timed)

(* Nothing is promised once a timeout was leaked.                           *)
BeforeLeak == ~leaked
=============================================================================

------------------------------ MODULE MCEditLock ------------------------------
(* EditLock for TLC: two editors of one user and one of another *)
EXTENDS EditLock, TLC

CONSTANTS a1, a2, b, A, B, check

MCUserOf == [e \in {a1, a2} |-> A] @@ [e \in {b} |-> B]
================================================================================

----------------------------- MODULE MCRecollection -----------------------------
(* Small instances of Recollection for TLC. *)
EXTENDS Recollection

CONSTANTS i1, p1, c1, e1, v1, A, B

\* Every part belongs to the pull request.
MCItemOf == [e \in Entities |-> IF e = i1 THEN i1 ELSE p1]
=============================================================================

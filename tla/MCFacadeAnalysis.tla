---------------------------- MODULE MCFacadeAnalysis ----------------------------
(* Small instances of FacadeAnalysis for TLC. *)
EXTENDS FacadeAnalysis, TLC

CONSTANTS a, b, a1, a2, b1, k1, k2

MCCommitOf == a1 :> a @@ a2 :> a @@ b1 :> b
=============================================================================

---------------------------- MODULE MCRepoRegistry ----------------------------
(* A small instance of RepoRegistry for TLC. *)
EXTENDS RepoRegistry, TLC

CONSTANTS org, other, u1, u2, s1, g1, f1, c1

MCCreated == s1 :> u1
MCOrgOf == u1 :> org @@ u2 :> other
=============================================================================

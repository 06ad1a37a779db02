------------------------ MODULE MCContributorResolution ------------------------
(* A small instance of ContributorResolution for TLC. *)
EXTENDS ContributorResolution, TLC

CONSTANTS r1, r2, c1, c2, c3, e1, e2, n1, u1

\* c1 and c2 have the same email in two repositories; the author of c3 has the
\* same name and another email.
MCRepoOf == c1 :> r1 @@ c2 :> r2 @@ c3 :> r2
MCEmailOf == c1 :> e1 @@ c2 :> e1 @@ c3 :> e2
MCNameOf == c1 :> n1 @@ c2 :> n1 @@ c3 :> n1

\* u1 shows the other email, and the name, in the profile.
MCUserEmail == u1 :> e2
MCUserName == u1 :> n1
=============================================================================

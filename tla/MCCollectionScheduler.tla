------------------------ MODULE MCCollectionScheduler ------------------------
(* Instances of CollectionScheduler for TLC.                               *)
EXTENDS CollectionScheduler, TLC

CONSTANTS r1, r2, r3

Room1 == [h \in Hook |-> 1]

\* Less room for the core hook than repositories, and for the secondary hook
\* one place more than there are GitLab repositories.
ProgressRoom == [h \in Hook |-> IF h = Core THEN 1 ELSE 2]

\* GitLab repositories are weighed without their issues and come first.
GitlabFirst == [r \in Repo |-> IF r \in GitlabRepo THEN 0 ELSE 1]

EqualWeight == [r \in Repo |-> 0]

ApiHooks == {Core, Secondary}
CoreOnly == {Core}

AnyEvent     == AllEvents
NoEvent      == {}
PrelimEvents == {"task fails"}

Symmetric == Permutations(Repo) \cup Permutations(Run) \cup Permutations(Monitor)
=============================================================================

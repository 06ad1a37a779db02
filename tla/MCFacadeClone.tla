---------------------------- MODULE MCFacadeClone ----------------------------
(* Instances of FacadeClone for TLC.                                       *)
EXTENDS FacadeClone, TLC

CONSTANTS r1, r2

Room == [h \in Hook |-> 1]
EqualWeight == [r \in Repo |-> 0]
CoreAndFacade == {Core, Facade}

AnyCloneEvent == AllCloneEvents

SomeEvents == {"task fails", "repo gone", "retry", "run lost"}

Symmetric == Permutations(Repo) \cup Permutations(Run) \cup Permutations(Monitor)
             \cup Permutations(Cloner)
=============================================================================

-------------------------- MODULE MCKeyOrchestrator --------------------------
(* Instances of KeyOrchestrator for TLC.                                   *)
EXTENDS KeyOrchestrator, TLC

CONSTANTS rest, search, k1, k2, c1, c2

TwoKeys == << <<rest, k1>>, <<rest, k2>> >>
OnBoth  == << <<rest, k1>>, <<search, k1>>, <<rest, k2>> >>

RestOnly   == [c \in Client |-> rest]
RestSearch == [c \in Client |-> IF c = c2 THEN search ELSE rest]

\* Each client in a process of its own; c2 made in a function that is called
\* while c1 exists.
Apart  == [c \in Client |-> Null]
Nested == [c \in Client |-> IF c = c2 THEN c1 ELSE Null]

AnyKeyEvent == AllKeyEvents
EndEvents   == {"client ends", "worker killed"}

KeySymmetric == Permutations(Client)
=============================================================================

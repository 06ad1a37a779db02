------------------------------ MODULE CommitTable ------------------------------
(***************************************************************************)
(* What commit analysis promises of the table commits, whatever number of  *)
(* analyses of the repository overlap: a commit counts as analysed when    *)
(* all its rows are there and working_commits does not name it.  A commit  *)
(* becomes analysed as a whole, only when a listing of the history has it, *)
(* and it stops being analysed only when a listing does not have it, or    *)
(* when two analyses handle it at the same time.                           *)
(***************************************************************************)
CONSTANTS
  Commits,
  ListingMayFail   \* git log may run out of time and list nothing

VARIABLES
  head,       \* the commits that lead to HEAD of the clone
  listings,   \* the listings analyses under way go by
  disputed,   \* commits two analyses have handled at the same time
  analysed    \* the commits whose rows can be relied on

TableInit ==
  /\ head = {}
  /\ listings = {}
  /\ disputed = {}
  /\ analysed = {}

\* The clone is updated: history may grow, and be rewritten.
Update ==
  /\ head' \in SUBSET Commits
  /\ UNCHANGED <<listings, disputed, analysed>>

\* An analysis lists the history, or is done with its listing.
List ==
  /\ listings' \subseteq
       listings \cup {head} \cup (IF ListingMayFail THEN {{}} ELSE {})
  /\ UNCHANGED <<head, disputed, analysed>>

Record ==
  /\ analysed \subseteq analysed'
  /\ analysed' \ analysed \subseteq UNION listings
  /\ listings' \subseteq listings
  /\ UNCHANGED <<head, disputed>>

Prune ==
  /\ analysed' \subseteq analysed
  /\ \E listed \in listings : (analysed \ analysed') \cap listed = {}
  /\ listings' \subseteq listings
  /\ UNCHANGED <<head, disputed>>

Dispute ==
  /\ disputed \subseteq disputed'
  /\ analysed' = analysed \ disputed'
  /\ UNCHANGED <<head, listings>>

TableNext == List \/ Update \/ Record \/ Prune \/ Dispute

TableSpec == TableInit /\ [][TableNext]_<<head, listings, disputed, analysed>>
=============================================================================

------------------------------ MODULE Recollection ------------------------------
(***************************************************************************)
(* What repeated collections of one GitHub repository leave in the         *)
(* database.  Upstream, an item (an issue or a pull request) and its parts *)
(* (comments, events, reviews) change while Augur collects; a change of a  *)
(* part also moves the updated_at of its item.  A row is abstracted to the *)
(* time of the upstream change it shows.                                   *)
(*                                                                         *)
(* A core collection runs one task for the issues and one for the pull     *)
(* requests, then one for the comments and one for the events.  Each asks, *)
(* when it starts, for what changed since core_data_last_collected less    *)
(* two days (Window); the time is written there when the chain ends.       *)
(* A secondary collection reads the reviews, files and commits of the pull *)
(* requests whose STORED updated_at is not older than the day of the last  *)
(* secondary collection.  Both times are the machine's local time, written *)
(* without a zone and read back as UTC.                                    *)
(* Several core collections of a repository may be under way at once (see  *)
(* CollectionScheduler), for any time, and any collection may end in an    *)
(* error or be cut off by a stop of the backend at any point.              *)
(***************************************************************************)
EXTENDS Integers

CONSTANTS
  Issues,      \* issues of the repository
  Prs,         \* pull requests of the repository
  Comments,    \* comments on issues and pull requests (messages.py)
  Events,      \* events of issues and pull requests (events.py)
  Reviews,     \* reviews, files and commits of pull requests
  ItemOf,      \* the item an entity belongs to; an item belongs to itself
  Runs,        \* core collections that may be under way at once
  Window,      \* the margin of the core tasks: two days
  Day,         \* one day
  Ahead,       \* how far the machine's local time is ahead of UTC
  MaxTime      \* bound: the clock stops here

Items == Issues \cup Prs
Notes == Comments \cup Events
Entities == Items \cup Notes \cup Reviews

\* "Has not happened": a time before every other.  An entity that is not
\* published or not stored and a collection that never completed have it.
Never == -1

ASSUME EntitiesAssumption ==
  /\ Issues \cap Prs = {}
  /\ Items \cap Notes = {}
  /\ Items \cap Reviews = {}
  /\ Notes \cap Reviews = {}
  /\ Comments \cap Events = {}
  /\ ItemOf \in [Entities -> Items]
  /\ \A i \in Items : ItemOf[i] = i
  /\ \A e \in Reviews : ItemOf[e] \in Prs

ASSUME TimesAssumption ==
  /\ Window \in Nat
  /\ Day \in Nat \ {0}
  /\ MaxTime \in Nat

\* No place on earth is two days ahead of UTC; one behind it has Ahead < 0.
ASSUME ZoneAssumption == Ahead \in Int /\ Ahead <= Window

VARIABLES
  now,         \* the clock
  up,          \* up[e]: time of the last change of e upstream
  db,          \* db[e]: the version of e in the database
  last,        \* core_data_last_collected
  run,         \* the core collections
  lastSec,     \* secondary_data_last_collected
  sec,         \* the secondary collection
  passedOver,  \* history: what a collection gave up without failing
  outlasted    \* history: what changed during a collection longer than the
               \* margin, and too early for the next one to ask for it

vars == <<now, up, db, last, run, lastSec, sec, passedOver, outlasted>>
coreVars == <<last, run, passedOver, outlasted>>
secVars == <<lastSec, sec>>

Times == Nat \cup {Never}
Nothing == [e \in Entities |-> Never]

\* A core collection: unasked are the entities whose task has not started,
\* since the time the task of an entity asks from, todo what is still to be
\* read, got what is read and not yet stored, and bySince the parts read from
\* a listing by time and not item by item.  The history oldest is the start
\* of the oldest collection under way when this one began.
Run == [phase : {"idle", "items", "notes"},
        full : BOOLEAN,
        begun : Nat,
        oldest : Nat,
        unasked : SUBSET Entities,
        since : [Entities -> Int],
        todo : SUBSET Entities,
        bySince : SUBSET Notes,
        got : [Entities -> Times]]

NoRun == [phase |-> "idle", full |-> FALSE, begun |-> 0, oldest |-> 0,
          unasked |-> {}, since |-> Nothing, todo |-> {}, bySince |-> {},
          got |-> Nothing]

\* datetime.now(), read back as UTC.  The clock starts where it is a time.
LocalTime == now + Ahead
Start == IF Ahead < 0 THEN -Ahead ELSE 0

RecollectionTypeOK ==
  /\ now \in Nat /\ LocalTime \in Nat
  /\ up \in [Entities -> Times]
  /\ db \in [Entities -> Times]
  /\ last \in Times
  /\ run \in [Runs -> Run]
  /\ lastSec \in Times
  /\ sec \in [phase : {"idle", "reviews"}, todo : SUBSET Reviews]
  /\ passedOver \subseteq Entities
  /\ outlasted \subseteq Entities

Init ==
  /\ now = Start
  /\ up = Nothing
  /\ db = Nothing
  /\ last = Never
  /\ run = [r \in Runs |-> NoRun]
  /\ lastSec = Never
  /\ sec = [phase |-> "idle", todo |-> {}]
  /\ passedOver = {}
  /\ outlasted = {}

Active(r) == run[r].phase # "idle"
Stored(e) == db[e] # Never

-----------------------------------------------------------------------------
(* Time and GitHub. *)

Advance ==
  /\ now < MaxTime
  /\ now' = now + 1

Tick ==
  /\ Advance
  /\ UNCHANGED <<up, db, coreVars, secVars>>

\* A part needs its item, and an event never changes once it exists.
Change(e) ==
  /\ up[ItemOf[e]] # Never \/ e \in Items
  /\ e \in Events => up[e] = Never
  /\ Advance
  /\ up' = [up EXCEPT ![e] = now + 1, ![ItemOf[e]] = now + 1]
  /\ UNCHANGED <<db, coreVars, secVars>>

-----------------------------------------------------------------------------
(* The core collection. *)

\* The collection is queued; a new or a reset repository is collected in
\* full.
BeginCore(r, full) ==
  /\ ~Active(r)
  /\ full \/ last # Never
  /\ \E oldest \in {now} \cup {run[s].begun : s \in {s \in Runs : Active(s)}} :
       /\ \A s \in Runs : Active(s) => oldest <= run[s].begun
       /\ run' = [run EXCEPT ![r] =
            [NoRun EXCEPT !.phase = "items",
                          !.full = full,
                          !.begun = now,
                          !.oldest = oldest,
                          !.unasked = Items]]
  /\ UNCHANGED <<now, up, db, last, passedOver, outlasted, secVars>>

\* (mutant) from the last collection on, without a margin.
Since_NoMargin(r) == IF run[r].full THEN Never ELSE last

\* "Subtract 2 days to ensure all data is collected."
Since(r) == (IF run[r].full THEN Never ELSE last) - Window

\* The task for a kind starts: its queries will show the entities in todo.
Asking(r, kind, todo, bySince) ==
  [run EXCEPT ![r] =
     [run[r] EXCEPT !.unasked = run[r].unasked \ kind,
                    !.since = [e \in Entities |-> IF e \in kind THEN Since(r)
                                                ELSE run[r].since[e]],
                    !.todo = run[r].todo \cup todo,
                    !.bySince = bySince]]

\* collect_issues and collect_pull_requests list what changed since then.
AskItems(r, kind) ==
  /\ kind \in {Issues, Prs} /\ kind # {}
  /\ kind \subseteq run[r].unasked
  /\ run' = Asking(r, kind, {e \in kind : up[e] # Never /\ up[e] >= Since(r)}, {})
  /\ UNCHANGED <<now, up, db, last, passedOver, outlasted, secVars>>

\* collect_github_messages and collect_events read their parts either from
\* one listing by time (few issues; fewer than 300 pages of events), or item
\* by item for the stored items updated after that time.
AskNotes(r, kind, byTime) ==
  /\ kind \in {Comments, Events} /\ kind # {}
  /\ kind \subseteq run[r].unasked
  /\ run' = Asking(r, kind,
       {e \in kind :
          /\ up[e] # Never
          /\ IF byTime THEN up[e] >= Since(r)
             ELSE Stored(ItemOf[e]) /\ db[ItemOf[e]] > Since(r)},
       IF byTime THEN run[r].bySince \cup kind ELSE run[r].bySince)
  /\ UNCHANGED <<now, up, db, last, passedOver, outlasted, secVars>>

\* Run r has still to read todo and to store got.
Holding(r, todo, got) ==
  [run EXCEPT ![r] = [run[r] EXCEPT !.todo = todo, !.got = got]]

\* What appears in a listing while its pages are read may still be read:
\* issues and comments are not listed newest first, and the parts of one
\* item are read when its turn comes.
Late(r, e) ==
  /\ up[e] > run[r].begun
  /\ run[r].got[e] # up[e]
  /\ e \notin run[r].unasked
  /\ \/ run[r].phase = "items" /\ e \in Issues
     \/ run[r].phase = "notes" /\ e \in run[r].bySince \cap Comments
     \/ /\ run[r].phase = "notes"
        /\ e \in Notes \ run[r].bySince
        /\ db[ItemOf[e]] > run[r].since[e]

Fetch(r, e) ==
  /\ e \in run[r].todo \/ Late(r, e)
  /\ run' = Holding(r, run[r].todo \ {e}, [run[r].got EXCEPT ![e] = up[e]])
  /\ UNCHANGED <<now, up, db, last, passedOver, outlasted, secVars>>

\* Pull requests come newest update first: one that changes while the pages
\* are read moves to a page already read.
MovedAhead(r, e) ==
  /\ e \in run[r].todo \cap Prs
  /\ up[e] > run[r].begun
  /\ run' = Holding(r, run[r].todo \ {e}, run[r].got)
  /\ passedOver' = passedOver \cup {e}
  /\ UNCHANGED <<now, up, db, last, outlasted, secVars>>

\* process_issues, process_pull_requests, process_messages and
\* _process_events: one batch is stored.  A row is overwritten whatever it
\* holds; a part whose item is not stored is skipped.
Batch(r, kind) == {e \in kind : run[r].got[e] # Never}

Without(got, kind) == [e \in Entities |-> IF e \in kind THEN Never ELSE got[e]]

Store(r, kind) ==
  /\ Batch(r, kind) # {}
  /\ db' = [e \in Entities |->
       IF e \in Batch(r, kind) /\ (e \in Items \/ Stored(ItemOf[e]))
       THEN run[r].got[e] ELSE db[e]]
  /\ run' = Holding(r, run[r].todo, Without(run[r].got, kind))
  /\ UNCHANGED <<now, up, last, passedOver, outlasted, secVars>>

\* session.insert_data answers None after ten deadlocks; the pull request and
\* message tasks then go on with the next batch.
DropBatch(r, kind) ==
  /\ kind \in {Prs, Comments}
  /\ Batch(r, kind) # {}
  /\ run' = Holding(r, run[r].todo, Without(run[r].got, kind))
  /\ passedOver' = passedOver \cup Batch(r, kind)
  /\ UNCHANGED <<now, up, db, last, outlasted, secVars>>

\* Any failure of collect_issues is caught: the task answers -1 and the
\* chain goes on without the issues not stored yet.
IssuesGivenUp(r) ==
  LET left == (run[r].todo \cap Issues) \cup Batch(r, Issues) IN
  /\ run[r].phase = "items"
  /\ left # {}
  /\ run' = Holding(r, run[r].todo \ Issues, Without(run[r].got, Issues))
  /\ passedOver' = passedOver \cup left
  /\ UNCHANGED <<now, up, db, last, outlasted, secVars>>

NothingLeft(r) ==
  run[r].unasked = {} /\ run[r].todo = {} /\ run[r].got = Nothing

\* The tasks of the first group have ended, those of the second are queued.
BeginNotes(r) ==
  /\ run[r].phase = "items"
  /\ NothingLeft(r)
  /\ run' = [run EXCEPT ![r] = [run[r] EXCEPT !.phase = "notes", !.unasked = Notes]]
  /\ UNCHANGED <<now, up, db, last, passedOver, outlasted, secVars>>

\* core_task_success_util.
CompleteCore(r) ==
  /\ run[r].phase = "notes"
  /\ NothingLeft(r)
  /\ last' = LocalTime
  /\ run' = [run EXCEPT ![r] = NoRun]
  /\ outlasted' = outlasted \cup
       {e \in Items \cup Notes : run[r].oldest < up[e] /\ up[e] <= LocalTime - Window}
  /\ UNCHANGED <<now, up, db, passedOver, secVars>>

\* task_failed_util, or a stop of the backend: the time is not written.
FailCore(r) ==
  /\ Active(r)
  /\ run' = [run EXCEPT ![r] = NoRun]
  /\ UNCHANGED <<now, up, db, last, passedOver, outlasted, secVars>>

-----------------------------------------------------------------------------
(* The secondary collection. *)

Midnight(t) == t - (t % Day)

\* (mutant) every part of a pull request is selected.
BeginSecondary_AllParts(full) ==
  /\ sec.phase = "idle"
  /\ last # Never
  /\ full \/ lastSec # Never
  /\ sec' = [phase |-> "reviews",
             todo |-> {e \in Entities : /\ Stored(ItemOf[e])
                                        /\ full \/ db[ItemOf[e]] >= Midnight(lastSec)}]
  /\ UNCHANGED <<now, up, db, coreVars, lastSec>>

BeginSecondary(full) ==
  /\ sec.phase = "idle"
  /\ last # Never
  /\ full \/ lastSec # Never
  /\ sec' = [phase |-> "reviews",
             todo |-> {e \in Reviews : /\ Stored(ItemOf[e])
                                       /\ full \/ db[ItemOf[e]] >= Midnight(lastSec)}]
  /\ UNCHANGED <<now, up, db, coreVars, lastSec>>

\* The reviews of a pull request are read and stored.
CollectReviews(e) ==
  /\ e \in sec.todo
  /\ db' = [db EXCEPT ![e] = up[e]]
  /\ sec' = [sec EXCEPT !.todo = @ \ {e}]
  /\ UNCHANGED <<now, up, coreVars, lastSec>>

\* secondary_task_success_util.
CompleteSecondary ==
  /\ sec.phase = "reviews"
  /\ sec.todo = {}
  /\ lastSec' = LocalTime
  /\ sec' = [phase |-> "idle", todo |-> {}]
  /\ UNCHANGED <<now, up, db, coreVars>>

FailSecondary ==
  /\ sec.phase = "reviews"
  /\ sec' = [phase |-> "idle", todo |-> {}]
  /\ UNCHANGED <<now, up, db, coreVars, lastSec>>

-----------------------------------------------------------------------------
Kinds == {Issues, Prs, Comments, Events}

Core(r) ==
  \/ \E full \in BOOLEAN : BeginCore(r, full)
  \/ \E e \in Entities : Fetch(r, e) \/ MovedAhead(r, e)
  \/ \E kind \in Kinds : Store(r, kind) \/ DropBatch(r, kind)
  \/ IssuesGivenUp(r)
  \/ \E kind \in Kinds : AskItems(r, kind)
  \/ \E kind \in Kinds, byTime \in BOOLEAN : AskNotes(r, kind, byTime)
  \/ BeginNotes(r)
  \/ CompleteCore(r)
  \/ FailCore(r)

Secondary ==
  \/ \E full \in BOOLEAN : BeginSecondary(full)
  \/ \E e \in Reviews : CollectReviews(e)
  \/ CompleteSecondary
  \/ FailSecondary

Next ==
  \/ Tick
  \/ \E e \in Entities : Change(e)
  \/ \E r \in Runs : Core(r)
  \/ Secondary

Spec == Init /\ [][Next]_vars

-----------------------------------------------------------------------------
\* The database does not show the last upstream change of e.
Stale(e) == db[e] # up[e]

\* "Subtract 2 days to ensure all data is collected" (issues.py): whatever a
\* completed core collection left out of date is recent enough for the next
\* one to ask for it.  The only exceptions are what a collection was seen to
\* give up on, itself or with its item (a pull request that moved ahead of
\* the page being read, a batch dropped after ten deadlocks, the issues of a
\* task that failed and said so with -1 only), and what changed while a
\* collection, with those it overlapped, took longer than the margin.
LossesExplained ==
  \A e \in Items \cup Notes :
    Stale(e) => \/ up[e] > last - Window
                \/ e \in passedOver \cup outlasted
                \/ ItemOf[e] \in passedOver

\* A review, file list or commit list missing in the database belongs to a
\* pull request the next secondary collection selects, or that the next
\* core collection will store again.
ReviewsWithinReach ==
  \A e \in Reviews :
    Stale(e) /\ lastSec # Never =>
      \/ db[ItemOf[e]] >= Midnight(lastSec)
      \/ Stale(ItemOf[e])
=============================================================================

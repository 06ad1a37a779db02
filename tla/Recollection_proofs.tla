-------------------------- MODULE Recollection_proofs --------------------------
(***************************************************************************)
(* Type correctness of Recollection and the invariant that says what two   *)
(* days of margin guarantee, for any number of entities and of core        *)
(* collections under way at once.                                          *)
(***************************************************************************)
EXTENDS Recollection, TLAPS

-----------------------------------------------------------------------------
(* The inductive invariant. *)

\* The versions in the database and in the hands of a collection are not
\* newer than upstream, and an item is not older than its parts.
VersionsInv ==
  /\ \A e \in Entities : db[e] <= up[e] /\ up[e] <= now /\ up[e] <= up[ItemOf[e]]
  /\ \A r \in Runs, e \in Entities : run[r].got[e] <= up[e]
  /\ last <= LocalTime

\* A collection overlaps none that began before its oldest, and asked for the
\* items changed since the last completed one less the margin, or earlier.
RunsInv ==
  \A r \in Runs : Active(r) =>
    /\ run[r].begun <= now
    /\ run[r].oldest <= run[r].begun
    /\ \A s \in Runs : Active(s) => run[r].oldest <= run[s].begun
    /\ \A i \in Items : i \notin run[r].unasked => run[r].since[i] <= last - Window

\* Items are read in the first phase and parts in the second.
PhaseInv ==
  \A r \in Runs :
    /\ run[r].phase = "idle" =>
         run[r].unasked = {} /\ run[r].todo = {} /\ run[r].got = Nothing
    /\ run[r].phase = "items" =>
         /\ run[r].unasked \subseteq Items
         /\ run[r].todo \subseteq Items
         /\ \A e \in Entities \ Items : run[r].got[e] = Never
    /\ run[r].phase = "notes" =>
         /\ run[r].unasked \subseteq Notes
         /\ run[r].todo \subseteq Notes
         /\ \A e \in Entities \ Notes : run[r].got[e] = Never

\* What a collection read and did not store yet was current when it began or
\* later, also seen from the parts of an item.
ReadInv ==
  \A r \in Runs, e \in Entities : run[r].got[e] # Never =>
    /\ run[r].got[e] = up[e] \/ up[e] > run[r].begun
    /\ \A c \in Notes : ItemOf[c] = e /\ up[c] <= run[r].begun =>
         run[r].got[e] >= up[c]

\* What changes while a collection is under way is within the margin of the
\* last completed one, or seen to have been left behind by it.
OverlapInv ==
  \A r \in Runs, e \in Items \cup Notes :
    Active(r) /\ up[e] > run[r].begun =>
      up[e] > last - Window \/ e \in outlasted

Explained(e) == e \in passedOver \cup outlasted \/ ItemOf[e] \in passedOver

\* What an active collection still owes: every item that is out of date is
\* yet to be read or stored, or changed lately, or was passed over.
ItemsInv ==
  \A r \in Runs, e \in Items : Active(r) /\ Stale(e) =>
    \/ e \in run[r].unasked \cup run[r].todo
    \/ run[r].got[e] = up[e]
    \/ up[e] > run[r].oldest
    \/ Explained(e)

\* For a part the collection should read, the item is on its way into the
\* database in a version not older than the part.
ParentsInv ==
  \A r \in Runs, c \in Notes :
    Active(r) /\ up[c] > run[r].since[ItemOf[c]] /\ up[c] >= 0 /\ up[c] <= run[r].oldest =>
      \/ ItemOf[c] \in run[r].unasked \cup run[r].todo
      \/ run[r].got[ItemOf[c]] >= up[c]
      \/ db[ItemOf[c]] >= up[c]
      \/ Explained(c)

\* The same as ItemsInv for the parts, once the items are collected.
NotesInv ==
  \A r \in Runs, c \in Notes : run[r].phase = "notes" /\ Stale(c) =>
    \/ c \in run[r].unasked \cup run[r].todo
    \/ run[r].got[c] = up[c]
    \/ up[c] > run[r].oldest
    \/ Explained(c)

RecollectionInv ==
  /\ VersionsInv
  /\ RunsInv
  /\ PhaseInv
  /\ ReadInv
  /\ OverlapInv
  /\ ItemsInv
  /\ ParentsInv
  /\ NotesInv
  /\ LossesExplained

-----------------------------------------------------------------------------
(* Type correctness. *)

LEMMA ItemOfType ==
  ASSUME NEW e \in Entities
  PROVE  ItemOf[e] \in Items /\ ItemOf[e] \in Entities
BY EntitiesAssumption DEF Entities

\* The bounds on the times.
LEMMA TimesType ==
  /\ Window \in Nat /\ Day \in Nat \ {0} /\ Ahead \in Int /\ Ahead <= Window
  /\ Start \in Nat /\ Start + Ahead \in Nat
BY TimesAssumption, ZoneAssumption DEF Start

LEMMA NothingType == Nothing \in [Entities -> Times]
BY DEF Nothing, Times

LEMMA NoRunType == NoRun \in Run
<1>1. Nothing \in [Entities -> Int]
  BY DEF Nothing, Never
<1> QED BY <1>1, NothingType DEF NoRun, Run

\* What a step makes of the record of a run is a record of a run.
LEMMA RunHoldingType ==
  ASSUME NEW s \in Run, NEW todo \in SUBSET Entities,
         NEW got \in [Entities -> Times]
  PROVE  [s EXCEPT !.todo = todo, !.got = got] \in Run
BY DEF Run

LEMMA RunAskingType ==
  ASSUME NEW s \in Run, NEW unasked \in SUBSET Entities,
         NEW since \in [Entities -> Int], NEW todo \in SUBSET Entities,
         NEW bySince \in SUBSET Notes
  PROVE  [s EXCEPT !.unasked = unasked, !.since = since, !.todo = todo,
                   !.bySince = bySince] \in Run
BY DEF Run

\* The initial state has the types.
LEMMA TypeInit == Init => RecollectionTypeOK
BY NothingType, NoRunType, TimesType DEF Init, RecollectionTypeOK, Times, LocalTime

\* Every step keeps the types.
LEMMA TypeStep == RecollectionTypeOK /\ [Next]_vars => RecollectionTypeOK'
<1> SUFFICES ASSUME RecollectionTypeOK, [Next]_vars PROVE RecollectionTypeOK'
  OBVIOUS
<1> USE EntitiesAssumption, TimesAssumption, NoRunType, NothingType
<1>1. CASE Tick
  BY <1>1, TimesType DEF RecollectionTypeOK, Tick, Advance, LocalTime, coreVars, secVars
<1>2. ASSUME NEW e \in Entities, Change(e) PROVE RecollectionTypeOK'
  BY <1>2, ItemOfType, TimesType
  DEF RecollectionTypeOK, Change, Advance, LocalTime, coreVars, secVars, Times
<1>3. ASSUME NEW r \in Runs, NEW full \in BOOLEAN, BeginCore(r, full)
      PROVE RecollectionTypeOK'
  <2>1. PICK oldest \in {now} \cup {run[s].begun : s \in {s \in Runs : Active(s)}} :
          run' = [run EXCEPT ![r] = [NoRun EXCEPT !.phase = "items", !.full = full,
                    !.begun = now, !.oldest = oldest, !.unasked = Items]]
    BY <1>3 DEF BeginCore
  <2>2. oldest \in Nat
    BY <2>1 DEF RecollectionTypeOK, Run
  <2>3. [NoRun EXCEPT !.phase = "items", !.full = full, !.begun = now,
                      !.oldest = oldest, !.unasked = Items] \in Run
    BY <2>2 DEF Run, NoRun, RecollectionTypeOK, Entities
  <2> QED BY <1>3, <2>1, <2>3 DEF RecollectionTypeOK, BeginCore, LocalTime, secVars
<1>4. ASSUME NEW r \in Runs PROVE run[r] \in Run /\ run[r].got \in [Entities -> Times]
  BY DEF RecollectionTypeOK, Run
<1>5. ASSUME NEW r \in Runs, NEW todo \in SUBSET Entities,
             NEW got \in [Entities -> Times], run' = Holding(r, todo, got)
      PROVE  run' \in [Runs -> Run]
  <2>1. [run[r] EXCEPT !.todo = todo, !.got = got] \in Run
    BY <1>4, RunHoldingType
  <2> QED BY <1>5, <2>1 DEF RecollectionTypeOK, Holding
<1>6. ASSUME NEW r \in Runs, NEW kind PROVE Without(run[r].got, kind) \in [Entities -> Times]
  BY <1>4 DEF Without, Times
<1>7. ASSUME NEW r \in Runs, NEW e \in Entities, Fetch(r, e)
      PROVE RecollectionTypeOK'
  <2>1. [run[r].got EXCEPT ![e] = up[e]] \in [Entities -> Times]
    BY <1>4 DEF RecollectionTypeOK
  <2>2. run[r].todo \ {e} \in SUBSET Entities
    BY <1>4 DEF Run
  <2>3. run' \in [Runs -> Run]
    BY <1>5, <1>7, <2>1, <2>2 DEF Fetch
  <2> QED BY <1>7, <2>3 DEF RecollectionTypeOK, Fetch, LocalTime, secVars
<1>8. ASSUME NEW r \in Runs, NEW e \in Entities, MovedAhead(r, e)
      PROVE RecollectionTypeOK'
  <2>1. run[r].todo \ {e} \in SUBSET Entities
    BY <1>4 DEF Run
  <2>2. run' \in [Runs -> Run]
    BY <1>4, <1>5, <1>8, <2>1 DEF MovedAhead
  <2> QED BY <1>8, <2>2 DEF RecollectionTypeOK, MovedAhead, LocalTime, secVars
<1>9. ASSUME NEW r \in Runs, NEW kind \in Kinds, Store(r, kind) \/ DropBatch(r, kind)
      PROVE RecollectionTypeOK'
  <2>1. run[r].todo \in SUBSET Entities
    BY <1>4 DEF Run
  <2>2. run' \in [Runs -> Run]
    BY <1>5, <1>6, <1>9, <2>1 DEF Store, DropBatch
  <2>3. CASE Store(r, kind)
    <3>1. db' \in [Entities -> Times]
      BY <1>4, <2>3 DEF RecollectionTypeOK, Store
    <3> QED BY <2>2, <2>3, <3>1 DEF RecollectionTypeOK, Store, LocalTime, secVars
  <2>4. CASE DropBatch(r, kind)
    <3>1. passedOver' \subseteq Entities
      BY <2>4 DEF RecollectionTypeOK, DropBatch, Batch, Entities, Items, Notes
    <3> QED BY <2>2, <2>4, <3>1 DEF RecollectionTypeOK, DropBatch, LocalTime, secVars
  <2> QED BY <1>9, <2>3, <2>4
<1>10. ASSUME NEW r \in Runs, IssuesGivenUp(r) PROVE RecollectionTypeOK'
  <2>1. run[r].todo \ Issues \in SUBSET Entities
    BY <1>4 DEF Run
  <2>2. run' \in [Runs -> Run]
    BY <1>5, <1>6, <1>10, <2>1 DEF IssuesGivenUp
  <2>3. passedOver' \subseteq Entities
    BY <1>10 DEF RecollectionTypeOK, IssuesGivenUp, Batch, Entities, Items
  <2> QED BY <1>10, <2>2, <2>3 DEF RecollectionTypeOK, IssuesGivenUp, LocalTime, secVars
<1>15. ASSUME NEW r \in Runs, NEW kind, NEW todo \in SUBSET Entities,
              NEW bySince \in SUBSET Notes, run' = Asking(r, kind, todo, bySince)
       PROVE  run' \in [Runs -> Run]
  <2>1. Since(r) \in Int
    BY DEF Since, RecollectionTypeOK, Times, Never
  <2>2. run[r] \in Run
    BY <1>4
  <2> DEFINE unasked == run[r].unasked \ kind
             since == [e \in Entities |-> IF e \in kind THEN Since(r)
                                       ELSE run[r].since[e]]
             both == run[r].todo \cup todo
  <2>3. unasked \in SUBSET Entities /\ both \in SUBSET Entities
    BY <2>2 DEF Run
  <2>4. since \in [Entities -> Int]
    BY <2>1, <2>2 DEF Run
  <2>5. run' = [run EXCEPT ![r] = [run[r] EXCEPT !.unasked = unasked, !.since = since,
                                     !.todo = both, !.bySince = bySince]]
    BY <1>15 DEF Asking
  <2> HIDE DEF unasked, since, both
  <2>6. [run[r] EXCEPT !.unasked = unasked, !.since = since, !.todo = both,
                       !.bySince = bySince] \in Run
    BY <2>2, <2>3, <2>4, RunAskingType
  <2> QED BY <2>5, <2>6 DEF RecollectionTypeOK
<1>16. ASSUME NEW r \in Runs, NEW kind \in Kinds, AskItems(r, kind)
       PROVE  RecollectionTypeOK'
  <2> DEFINE todo == {e \in kind : up[e] # Never /\ up[e] >= Since(r)}
  <2>1. todo \in SUBSET Entities /\ {} \in SUBSET Notes
    BY <1>16 DEF AskItems, Entities, Items
  <2>2. run' = Asking(r, kind, todo, {})
    BY <1>16 DEF AskItems
  <2> HIDE DEF todo
  <2>3. run' \in [Runs -> Run]
    BY <1>15, <2>1, <2>2
  <2> QED BY <1>16, <2>3 DEF RecollectionTypeOK, AskItems, LocalTime, secVars
<1>17. ASSUME NEW r \in Runs, NEW kind \in Kinds, NEW byTime \in BOOLEAN,
              AskNotes(r, kind, byTime)
       PROVE  RecollectionTypeOK'
  <2> DEFINE todo == {e \in kind :
                       /\ up[e] # Never
                       /\ IF byTime THEN up[e] >= Since(r)
                          ELSE Stored(ItemOf[e]) /\ db[ItemOf[e]] > Since(r)}
             bySince == IF byTime THEN run[r].bySince \cup kind ELSE run[r].bySince
  <2>1. kind \subseteq Notes
    BY <1>17 DEF AskNotes, Notes
  <2>2. todo \in SUBSET Entities
    BY <2>1 DEF Entities
  <2>3. bySince \in SUBSET Notes
    BY <1>4, <2>1 DEF Run
  <2>4. run' = Asking(r, kind, todo, bySince)
    BY <1>17 DEF AskNotes
  <2> HIDE DEF todo, bySince
  <2>5. run' \in [Runs -> Run]
    BY <1>15, <2>2, <2>3, <2>4
  <2> QED BY <1>17, <2>5 DEF RecollectionTypeOK, AskNotes, LocalTime, secVars
<1>18. ASSUME NEW r \in Runs, BeginNotes(r) PROVE RecollectionTypeOK'
  <2>1. ASSUME NEW s \in Run
        PROVE  [s EXCEPT !.phase = "notes", !.unasked = Notes] \in Run
    <3>1. Notes \in SUBSET Entities
      BY DEF Entities
    <3> QED BY <2>1, <3>1 DEF Run
  <2>2. [run[r] EXCEPT !.phase = "notes", !.unasked = Notes] \in Run
    BY <1>4, <2>1
  <2> QED BY <1>18, <2>2 DEF RecollectionTypeOK, BeginNotes, LocalTime, secVars
<1>11. ASSUME NEW r \in Runs, CompleteCore(r) PROVE RecollectionTypeOK'
  <2>1. outlasted' \subseteq Entities
    BY <1>11 DEF RecollectionTypeOK, CompleteCore, Entities
  <2> QED BY <1>11, <2>1 DEF RecollectionTypeOK, CompleteCore, LocalTime, secVars, Times
<1>12. ASSUME NEW r \in Runs, FailCore(r) PROVE RecollectionTypeOK'
  BY <1>12 DEF RecollectionTypeOK, FailCore, LocalTime, secVars
<1>13. CASE Secondary
  <2>1. ASSUME NEW full \in BOOLEAN, BeginSecondary(full) PROVE RecollectionTypeOK'
    BY <2>1 DEF RecollectionTypeOK, BeginSecondary, LocalTime, coreVars
  <2>2. ASSUME NEW e \in Reviews, CollectReviews(e) PROVE RecollectionTypeOK'
    BY <2>2 DEF RecollectionTypeOK, CollectReviews, LocalTime, coreVars, Entities
  <2>3. CASE CompleteSecondary
    BY <2>3 DEF RecollectionTypeOK, CompleteSecondary, LocalTime, coreVars, Times
  <2>4. CASE FailSecondary
    BY <2>4 DEF RecollectionTypeOK, FailSecondary, LocalTime, coreVars
  <2> QED BY <1>13, <2>1, <2>2, <2>3, <2>4 DEF Secondary
<1>14. CASE UNCHANGED vars
  BY <1>14 DEF RecollectionTypeOK, vars, LocalTime, coreVars, secVars
<1> QED
  BY <1>1, <1>2, <1>3, <1>7, <1>8, <1>9, <1>10, <1>11, <1>12, <1>13, <1>14,
     <1>16, <1>17, <1>18
  DEF Next, Core

-----------------------------------------------------------------------------
(* The inductive invariant holds in every reachable state. *)

\* What the types say of every time.
LEMMA Numbers ==
  ASSUME RecollectionTypeOK
  PROVE  /\ now \in Nat /\ last \in Int /\ last >= -1 /\ LocalTime \in Int
         /\ LocalTime = now + Ahead
         /\ \A e \in Entities : /\ up[e] \in Int /\ up[e] >= -1
                               /\ db[e] \in Int /\ db[e] >= -1
         /\ \A r \in Runs : /\ run[r].begun \in Nat /\ run[r].oldest \in Nat
                           /\ \A e \in Entities : run[r].since[e] \in Int
                           /\ run[r].phase \in {"idle", "items", "notes"}
                           /\ run[r].todo \subseteq Entities
         /\ \A r \in Runs, e \in Entities :
              run[r].got[e] \in Int /\ run[r].got[e] >= -1
<1>1. \A t \in Times : t \in Int /\ t >= -1
  BY DEF Times, Never
<1>2. \A r \in Runs : run[r] \in Run
  BY DEF RecollectionTypeOK
<1>3. \A r \in Runs : run[r].got \in [Entities -> Times]
  BY <1>2 DEF Run
<1>4. \A r \in Runs, e \in Entities : run[r].got[e] \in Times
  BY <1>3
<1>5. \A e \in Entities : up[e] \in Times /\ db[e] \in Times
  BY DEF RecollectionTypeOK
<1>6. last \in Times /\ now \in Nat /\ LocalTime \in Nat /\ LocalTime = now + Ahead
  BY DEF RecollectionTypeOK, LocalTime
<1>7. \A r \in Runs : /\ run[r].begun \in Nat /\ run[r].oldest \in Nat
                     /\ \A e \in Entities : run[r].since[e] \in Int
                     /\ run[r].phase \in {"idle", "items", "notes"}
                     /\ run[r].todo \subseteq Entities
  BY <1>2 DEF Run
<1> QED BY <1>1, <1>4, <1>5, <1>6, <1>7

LEMMA ItemsAndNotes ==
  /\ Items \subseteq Entities /\ Notes \subseteq Entities /\ Items \cap Notes = {}
  /\ \A i \in Items : ItemOf[i] = i
  /\ \A e \in Entities : ItemOf[e] \in Items /\ ItemOf[e] \in Entities
BY EntitiesAssumption, ItemOfType DEF Entities

\* A step that only changes what run r holds changes nothing else of a run.
LEMMA HoldingFields ==
  ASSUME RecollectionTypeOK, NEW r \in Runs, NEW todo, NEW got,
         run' = Holding(r, todo, got)
  PROVE  \A s \in Runs :
           /\ run'[s].phase = run[s].phase /\ run'[s].begun = run[s].begun
           /\ run'[s].oldest = run[s].oldest /\ run'[s].unasked = run[s].unasked
           /\ run'[s].since = run[s].since
           /\ run'[s].todo = IF s = r THEN todo ELSE run[s].todo
           /\ run'[s].got = IF s = r THEN got ELSE run[s].got
<1>1. \A s \in Runs : run[s] \in Run
  BY DEF RecollectionTypeOK
<1>2. \A s \in Runs : run'[s] = IF s = r THEN [run[r] EXCEPT !.todo = todo, !.got = got]
                                        ELSE run[s]
  BY DEF Holding, RecollectionTypeOK
<1>3. ASSUME NEW s \in Run
      PROVE  LET h == [s EXCEPT !.todo = todo, !.got = got]
             IN  /\ h.phase = s.phase /\ h.begun = s.begun /\ h.since = s.since
                 /\ h.oldest = s.oldest /\ h.unasked = s.unasked
                 /\ h.todo = todo /\ h.got = got
  BY <1>3 DEF Run
<1>4. ASSUME NEW s \in Runs, s # r PROVE run'[s] = run[s]
  BY <1>2, <1>4
<1>5. LET h == [run[r] EXCEPT !.todo = todo, !.got = got]
      IN  /\ h.phase = run[r].phase /\ h.begun = run[r].begun /\ h.since = run[r].since
          /\ h.oldest = run[r].oldest /\ h.unasked = run[r].unasked
          /\ h.todo = todo /\ h.got = got
  BY <1>1, <1>3
<1>6. run'[r] = [run[r] EXCEPT !.todo = todo, !.got = got]
  BY <1>2
<1> QED BY <1>4, <1>5, <1>6

LEMMA InvInit == Init => RecollectionInv
<1> SUFFICES ASSUME Init PROVE RecollectionInv
  OBVIOUS
<1>1. \A e \in Entities : up[e] = Never /\ db[e] = Never
  BY DEF Init, Nothing
<1>2. \A r \in Runs : run[r] = NoRun
  BY DEF Init
<1>3. /\ NoRun.phase = "idle" /\ NoRun.unasked = {} /\ NoRun.todo = {}
      /\ NoRun.got = Nothing
  BY DEF NoRun
<1>4. \A e \in Entities : Nothing[e] = Never
  BY DEF Nothing
<1>5. now \in Nat /\ LocalTime \in Nat /\ \A e \in Entities : ~Stale(e)
  BY <1>1, TimesType DEF Init, Stale, LocalTime
<1>6. VersionsInv
  <2>1. last <= LocalTime
    BY <1>5 DEF Init, Never
  <2>2. \A e \in Entities : db[e] <= up[e] /\ up[e] <= now /\ up[e] <= up[ItemOf[e]]
    BY <1>1, <1>5, ItemsAndNotes DEF Never
  <2>3. \A r \in Runs, e \in Entities : run[r].got[e] <= up[e]
    BY <1>1, <1>2, <1>3, <1>4 DEF Never
  <2> QED BY <2>1, <2>2, <2>3 DEF VersionsInv
<1>9. \A r \in Runs : run[r].phase = "idle" /\ run[r].got = Nothing
  BY <1>2, <1>3
<1>8. RunsInv /\ PhaseInv /\ ReadInv /\ OverlapInv
  <2>1. RunsInv /\ OverlapInv
    BY <1>9 DEF RunsInv, OverlapInv, Active
  <2>2. PhaseInv
    BY <1>2, <1>3 DEF PhaseInv
  <2>3. ReadInv
    BY <1>4, <1>9 DEF ReadInv
  <2> QED BY <2>1, <2>2, <2>3
<1>7. ItemsInv /\ ParentsInv /\ NotesInv /\ LossesExplained
  BY <1>1, <1>2, <1>3, <1>5, <1>9, ItemsAndNotes
  DEF ItemsInv, ParentsInv, NotesInv, LossesExplained, Active
<1> QED BY <1>6, <1>7, <1>8 DEF RecollectionInv

\* The clock moves, with or without an upstream change: what changes now is
\* later than any start and than the margin of the last collection.
LEMMA InvChange ==
  ASSUME RecollectionTypeOK, RecollectionInv,
         Tick \/ \E e \in Entities : Change(e)
  PROVE  RecollectionInv'
<1> USE Numbers, ItemsAndNotes, TimesType
<1>1. /\ now' = now + 1
      /\ db' = db /\ last' = last /\ run' = run
      /\ passedOver' = passedOver /\ outlasted' = outlasted
  BY DEF Tick, Change, Advance, coreVars, secVars
<1>2. \A x \in Entities : up'[x] = up[x] \/ up'[x] = now + 1
  BY DEF Tick, Change, RecollectionTypeOK
<1>3. \A x \in Entities : up[x] <= now /\ up[x] <= up'[x]
  BY <1>2 DEF RecollectionInv, VersionsInv
<1>4. \A x \in Entities : up'[x] <= up'[ItemOf[x]]
  <2>1. CASE up' = up
    BY <2>1 DEF RecollectionInv, VersionsInv
  <2>2. ASSUME NEW e \in Entities,
               up' = [up EXCEPT ![e] = now + 1, ![ItemOf[e]] = now + 1]
        PROVE  \A x \in Entities : up'[x] <= up'[ItemOf[x]]
    <3>1. \A x \in Entities : up'[x] = IF x = e \/ x = ItemOf[e] THEN now + 1 ELSE up[x]
      BY <2>2 DEF RecollectionTypeOK
    <3>2. \A x \in Entities : x = e \/ x = ItemOf[e] => ItemOf[x] = ItemOf[e]
      OBVIOUS
    <3>3. \A x \in Entities : up[x] <= up[ItemOf[x]]
      BY DEF RecollectionInv, VersionsInv
    <3> QED BY <1>2, <1>3, <3>1, <3>2, <3>3
  <2> QED BY <2>1, <2>2 DEF Tick, Change
<1>5. VersionsInv'
  BY <1>1, <1>2, <1>3, <1>4 DEF RecollectionInv, VersionsInv, LocalTime
<1>6. RunsInv' /\ PhaseInv'
  BY <1>1 DEF RecollectionInv, RunsInv, PhaseInv, Active
<1>7. \A r \in Runs : Active(r) => run[r].begun <= now /\ run[r].oldest <= now
  BY DEF RecollectionInv, RunsInv
<1>8. ReadInv'
  <2>1. \A r \in Runs, x \in Entities : run[r].got[x] # Never => Active(r)
    BY DEF RecollectionInv, PhaseInv, Active, Nothing
  <2> QED BY <1>1, <1>2, <1>3, <1>7, <2>1 DEF RecollectionInv, ReadInv
<1>9. ItemsInv' /\ NotesInv'
  <2>1. \A r \in Runs : run[r].phase = "notes" => Active(r)
    BY DEF Active
  <2> QED
    BY <1>1, <1>2, <1>3, <1>7, <2>1
    DEF RecollectionInv, ItemsInv, NotesInv, Active, Stale, Explained
<1>10. ParentsInv'
  BY <1>1, <1>2, <1>3, <1>7 DEF RecollectionInv, ParentsInv, Active, Explained
<1>11. last - Window < now + 1
  BY DEF RecollectionInv, VersionsInv
<1>12. LossesExplained'
  BY <1>1, <1>2, <1>3, <1>11 DEF RecollectionInv, LossesExplained, Stale
<1>13. OverlapInv'
  BY <1>1, <1>2, <1>3, <1>11 DEF RecollectionInv, OverlapInv, Active
<1> QED BY <1>5, <1>6, <1>8, <1>9, <1>10, <1>12, <1>13 DEF RecollectionInv

\* A collection begins: every item is still to be asked for.
LEMMA InvBegin ==
  ASSUME RecollectionTypeOK, RecollectionInv, NEW r \in Runs, NEW full \in BOOLEAN,
         BeginCore(r, full)
  PROVE  RecollectionInv'
<1> USE Numbers, ItemsAndNotes, TimesType
<1>1. PICK oldest \in {now} \cup {run[s].begun : s \in {s \in Runs : Active(s)}} :
        /\ \A s \in Runs : Active(s) => oldest <= run[s].begun
        /\ run' = [run EXCEPT ![r] = [NoRun EXCEPT !.phase = "items", !.full = full,
                    !.begun = now, !.oldest = oldest, !.unasked = Items]]
  BY DEF BeginCore
<1>2. /\ now' = now /\ up' = up /\ db' = db /\ last' = last
      /\ passedOver' = passedOver /\ outlasted' = outlasted
      /\ LocalTime' = LocalTime
  BY DEF BeginCore, LocalTime
<1>3. /\ run'[r].phase = "items" /\ run'[r].begun = now /\ run'[r].oldest = oldest
      /\ run'[r].unasked = Items /\ run'[r].todo = {} /\ run'[r].got = Nothing
      /\ \A s \in Runs : s # r => run'[s] = run[s]
  BY <1>1 DEF RecollectionTypeOK, NoRun
<1>4. \A e \in Entities : Nothing[e] = -1
  BY DEF Nothing, Never
<1>5. VersionsInv'
  BY <1>2, <1>3, <1>4 DEF RecollectionInv, VersionsInv
<1>6. oldest \in Nat /\ oldest <= now
  BY <1>1 DEF RecollectionInv, RunsInv
<1>7. \A s \in Runs : Active(s) => run[s].oldest <= now
  BY DEF RecollectionInv, RunsInv
<1>8. \A s \in Runs : s # r => (Active(s)' <=> Active(s))
  BY <1>3 DEF Active
<1>9. RunsInv'
  <2> SUFFICES ASSUME NEW s \in Runs, Active(s)'
               PROVE  /\ run'[s].begun <= now
                      /\ run'[s].oldest <= run'[s].begun
                      /\ \A u \in Runs : Active(u)' => run'[s].oldest <= run'[u].begun
                      /\ \A i \in Items :
                           i \notin run'[s].unasked => run'[s].since[i] <= last - Window
    BY <1>2 DEF RunsInv
  <2>1. CASE s = r
    BY <1>1, <1>3, <1>6, <1>8, <2>1
  <2>2. CASE s # r
    BY <1>3, <1>7, <1>8, <2>2 DEF RecollectionInv, RunsInv
  <2> QED BY <2>1, <2>2
<1>10. PhaseInv'
  BY <1>2, <1>3, <1>4 DEF RecollectionInv, PhaseInv, Never
<1>11. ReadInv'
  BY <1>2, <1>3, <1>4 DEF RecollectionInv, ReadInv, Never
<1>12. OverlapInv'
  <2>1. \A e \in Items \cup Notes : up[e] <= now
    BY DEF RecollectionInv, VersionsInv
  <2> QED BY <1>2, <1>3, <1>8, <2>1 DEF RecollectionInv, OverlapInv
<1>13. ItemsInv'
  BY <1>2, <1>3, <1>8 DEF RecollectionInv, ItemsInv, Stale, Explained
<1>14. ParentsInv'
  <2> SUFFICES ASSUME NEW s \in Runs, NEW c \in Notes, Active(s)',
                      up[c] > run'[s].since[ItemOf[c]], up[c] >= 0,
                      up[c] <= run'[s].oldest
               PROVE  \/ ItemOf[c] \in run'[s].unasked \cup run'[s].todo
                      \/ run'[s].got[ItemOf[c]] >= up[c]
                      \/ db[ItemOf[c]] >= up[c] \/ Explained(c)
    BY <1>2 DEF ParentsInv, Explained
  <2>1. CASE s = r
    BY <1>3, <2>1
  <2>2. CASE s # r
    <3>1. Active(s) /\ run'[s] = run[s]
      BY <1>3, <1>8, <2>2
    <3> QED BY <3>1 DEF RecollectionInv, ParentsInv
  <2> QED BY <2>1, <2>2
<1>15. NotesInv'
  BY <1>2, <1>3 DEF RecollectionInv, NotesInv, Stale, Explained
<1>16. LossesExplained'
  BY <1>2 DEF RecollectionInv, LossesExplained, Stale
<1> QED BY <1>5, <1>9, <1>10, <1>11, <1>12, <1>13, <1>14, <1>15, <1>16
        DEF RecollectionInv

\* What a run holds when the task for a kind starts.
LEMMA AskingFields ==
  ASSUME RecollectionTypeOK, NEW r \in Runs, NEW kind, NEW todo, NEW bySince,
         run' = Asking(r, kind, todo, bySince)
  PROVE  /\ \A s \in Runs :
              /\ run'[s].phase = run[s].phase /\ run'[s].begun = run[s].begun
              /\ run'[s].oldest = run[s].oldest
              /\ run'[s].got = run[s].got
              /\ s # r => run'[s] = run[s]
         /\ run'[r].unasked = run[r].unasked \ kind
         /\ run'[r].todo = run[r].todo \cup todo
         /\ \A e \in Entities :
              run'[r].since[e] = IF e \in kind THEN Since(r) ELSE run[r].since[e]
<1> DEFINE since == [e \in Entities |-> IF e \in kind THEN Since(r) ELSE run[r].since[e]]
           rec == [run[r] EXCEPT !.unasked = run[r].unasked \ kind, !.since = since,
                                 !.todo = run[r].todo \cup todo, !.bySince = bySince]
<1>1. run[r] \in Run
  BY DEF RecollectionTypeOK
<1>2. run' = [run EXCEPT ![r] = rec]
  BY DEF Asking
<1>3. \A e \in Entities : since[e] = IF e \in kind THEN Since(r) ELSE run[r].since[e]
  OBVIOUS
<1> HIDE DEF since
<1>4. /\ rec.phase = run[r].phase /\ rec.begun = run[r].begun
      /\ rec.oldest = run[r].oldest /\ rec.got = run[r].got
      /\ rec.unasked = run[r].unasked \ kind /\ rec.todo = run[r].todo \cup todo
      /\ rec.since = since
  BY <1>1 DEF Run
<1> HIDE DEF rec
<1>5. run'[r] = rec /\ \A s \in Runs : s # r => run'[s] = run[s]
  BY <1>2 DEF RecollectionTypeOK
<1> QED BY <1>3, <1>4, <1>5

\* A collection asks for what is out of date: for each kind the time it asks
\* from is no later than the last completed collection less the margin.
LEMMA InvAsking ==
  ASSUME RecollectionTypeOK, RecollectionInv, NEW r \in Runs, NEW kind, NEW todo,
         NEW bySince, run' = Asking(r, kind, todo, bySince),
         UNCHANGED <<now, up, db, last, passedOver, outlasted>>,
         kind \subseteq run[r].unasked, todo \subseteq kind, kind # {},
         \A e \in kind \cap Items : up[e] # Never /\ up[e] >= Since(r) => e \in todo,
         \A e \in kind \cap Notes :
           up[e] # Never /\ up[e] > Since(r) /\ Stored(ItemOf[e]) /\ db[ItemOf[e]] > Since(r)
             => e \in todo
  PROVE  RecollectionInv'
<1> USE Numbers, ItemsAndNotes, TimesType
<1>1. /\ \A s \in Runs :
           /\ run'[s].phase = run[s].phase /\ run'[s].begun = run[s].begun
           /\ run'[s].oldest = run[s].oldest
           /\ run'[s].got = run[s].got
           /\ s # r => run'[s] = run[s]
      /\ run'[r].unasked = run[r].unasked \ kind
      /\ run'[r].todo = run[r].todo \cup todo
      /\ \A e \in Entities :
           run'[r].since[e] = IF e \in kind THEN Since(r) ELSE run[r].since[e]
  BY AskingFields
<1>2. Active(r)
  BY DEF RecollectionInv, PhaseInv, Active
<1>3. \A s \in Runs : Active(s)' <=> Active(s)
  BY <1>1 DEF Active
<1>4. Since(r) \in Int /\ Since(r) <= last - Window
  BY DEF Since, Never
<1>5. VersionsInv'
  BY <1>1 DEF RecollectionInv, VersionsInv, LocalTime
<1>6. RunsInv'
  <2>1. \A s \in Runs, i \in Items :
          Active(s) /\ i \notin run'[s].unasked => run'[s].since[i] <= last - Window
    <3> SUFFICES ASSUME NEW s \in Runs, NEW i \in Items, Active(s),
                        i \notin run'[s].unasked
                 PROVE  run'[s].since[i] <= last - Window
      OBVIOUS
    <3>1. CASE s = r
      BY <1>1, <1>4, <3>1 DEF RecollectionInv, RunsInv
    <3>2. CASE s # r
      BY <1>1, <3>2 DEF RecollectionInv, RunsInv
    <3> QED BY <3>1, <3>2
  <2> QED BY <1>1, <1>3, <2>1 DEF RecollectionInv, RunsInv
<1>7. PhaseInv'
  BY <1>1, <1>2 DEF RecollectionInv, PhaseInv, Active
<1>8. ReadInv' /\ OverlapInv' /\ LossesExplained'
  BY <1>1, <1>3 DEF RecollectionInv, ReadInv, OverlapInv, LossesExplained, Stale
<1>9. \A e \in Entities : Stale(e) => up[e] >= 0
  BY DEF RecollectionInv, VersionsInv, Stale
<1>10. \A e \in Items \cup Notes : Stale(e) => up[e] > Since(r) \/ Explained(e)
  BY <1>4 DEF RecollectionInv, LossesExplained, Explained
<1>11. ItemsInv'
  <2> SUFFICES ASSUME NEW s \in Runs, NEW e \in Items, Active(s), Stale(e)
               PROVE  \/ e \in run'[s].unasked \cup run'[s].todo
                      \/ run'[s].got[e] = up[e]
                      \/ up[e] > run'[s].oldest \/ Explained(e)
    BY <1>3 DEF ItemsInv, Stale, Explained
  <2>1. \/ e \in run[s].unasked \cup run[s].todo \/ run[s].got[e] = up[e]
        \/ up[e] > run[s].oldest \/ Explained(e)
    BY DEF RecollectionInv, ItemsInv
  <2>2. CASE s = r /\ e \in kind
    BY <1>1, <1>4, <1>9, <1>10, <2>2 DEF Never
  <2>3. CASE s # r \/ e \notin kind
    BY <1>1, <2>1, <2>3
  <2> QED BY <2>2, <2>3
<1>12. ParentsInv'
  <2> SUFFICES ASSUME NEW s \in Runs, NEW c \in Notes, Active(s),
                      up[c] > run'[s].since[ItemOf[c]], up[c] >= 0,
                      up[c] <= run[s].oldest
               PROVE  \/ ItemOf[c] \in run'[s].unasked \cup run'[s].todo
                      \/ run[s].got[ItemOf[c]] >= up[c]
                      \/ db[ItemOf[c]] >= up[c] \/ Explained(c)
    <3>1. \A s \in Runs : run'[s].got = run[s].got /\ run'[s].oldest = run[s].oldest
      BY <1>1
    <3>2. \A c \in Notes : Explained(c)' <=> Explained(c)
      BY DEF Explained
    <3> QED BY <1>3, <3>1, <3>2 DEF ParentsInv
  <2>1. up[c] <= up[ItemOf[c]]
    BY DEF RecollectionInv, VersionsInv
  <2>2. CASE s = r /\ ItemOf[c] \in kind
    BY <1>1, <1>4, <2>1, <2>2 DEF Never
  <2>3. CASE s # r
    BY <1>1, <2>3 DEF RecollectionInv, ParentsInv
  <2>4. CASE s = r /\ ItemOf[c] \notin kind
    <3>1. run'[r].since[ItemOf[c]] = run[r].since[ItemOf[c]]
      BY <1>1, <2>4
    <3>2. \/ ItemOf[c] \in run[r].unasked \cup run[r].todo
          \/ run[r].got[ItemOf[c]] >= up[c]
          \/ db[ItemOf[c]] >= up[c] \/ Explained(c)
      BY <2>4, <3>1 DEF RecollectionInv, ParentsInv
    <3> QED BY <1>1, <2>4, <3>2
  <2> QED BY <2>2, <2>3, <2>4
<1>13. NotesInv'
  <2> SUFFICES ASSUME NEW s \in Runs, NEW c \in Notes, run[s].phase = "notes", Stale(c)
               PROVE  \/ c \in run'[s].unasked \cup run'[s].todo
                      \/ run'[s].got[c] = up[c]
                      \/ up[c] > run'[s].oldest \/ Explained(c)
    BY <1>1 DEF NotesInv, Stale, Explained
  <2>1. \/ c \in run[s].unasked \cup run[s].todo \/ run[s].got[c] = up[c]
        \/ up[c] > run[s].oldest \/ Explained(c)
    BY DEF RecollectionInv, NotesInv
  <2>2. CASE s # r \/ c \notin kind
    BY <1>1, <2>1, <2>2
  <2>3. CASE s = r /\ c \in kind /\ up[c] <= run[r].oldest /\ ~Explained(c)
    <3>1. c \in Entities /\ ItemOf[c] \in Items
      OBVIOUS
    <3>2. run[r].unasked \subseteq Notes /\ run[r].todo \subseteq Notes
      BY <2>3 DEF RecollectionInv, PhaseInv
    <3>3. run[r].got[ItemOf[c]] = Never
      BY <2>3 DEF RecollectionInv, PhaseInv
    <3>4. run[r].since[ItemOf[c]] <= last - Window
      BY <1>2, <3>1, <3>2 DEF RecollectionInv, RunsInv
    <3>5. up[c] > last - Window /\ up[c] >= 0
      BY <1>9, <2>3, <3>1 DEF RecollectionInv, LossesExplained, Explained
    <3>6. db[ItemOf[c]] >= up[c]
      BY <1>2, <2>3, <3>1, <3>2, <3>3, <3>4, <3>5 DEF RecollectionInv, ParentsInv, Never
    <3> QED BY <1>1, <1>4, <2>3, <3>1, <3>5, <3>6 DEF Never, Stored
  <2>4. CASE s = r /\ (up[c] > run[r].oldest \/ Explained(c))
    BY <1>1, <2>4
  <2> QED BY <2>2, <2>3, <2>4
<1> QED BY <1>5, <1>6, <1>7, <1>8, <1>11, <1>12, <1>13 DEF RecollectionInv

LEMMA InvAsk ==
  ASSUME RecollectionTypeOK, RecollectionInv, NEW r \in Runs, NEW kind \in Kinds,
         AskItems(r, kind) \/ \E byTime \in BOOLEAN : AskNotes(r, kind, byTime)
  PROVE  RecollectionInv'
<1>1. CASE AskItems(r, kind)
  <2> DEFINE todo == {e \in kind : up[e] # Never /\ up[e] >= Since(r)}
  <2>1. kind \cap Notes = {}
    BY <1>1, ItemsAndNotes DEF AskItems, Items
  <2>2. run' = Asking(r, kind, todo, {})
    BY <1>1 DEF AskItems
  <2>3. todo \subseteq kind /\ \A e \in kind : up[e] # Never /\ up[e] >= Since(r) => e \in todo
    OBVIOUS
  <2>4. /\ UNCHANGED <<now, up, db, last, passedOver, outlasted>>
        /\ kind \subseteq run[r].unasked /\ kind # {}
    BY <1>1 DEF AskItems
  <2> HIDE DEF todo
  <2> QED BY <2>1, <2>2, <2>3, <2>4, InvAsking
<1>2. ASSUME NEW byTime \in BOOLEAN, AskNotes(r, kind, byTime)
      PROVE  RecollectionInv'
  <2> DEFINE todo == {e \in kind :
                       /\ up[e] # Never
                       /\ IF byTime THEN up[e] >= Since(r)
                          ELSE Stored(ItemOf[e]) /\ db[ItemOf[e]] > Since(r)}
             bySince == IF byTime THEN run[r].bySince \cup kind ELSE run[r].bySince
  <2>1. kind \subseteq Notes /\ kind \cap Items = {}
    BY <1>2, ItemsAndNotes DEF AskNotes, Notes
  <2>2. run' = Asking(r, kind, todo, bySince)
    BY <1>2 DEF AskNotes
  <2>3. Since(r) \in Int
    BY Numbers, TimesType DEF Since, Never
  <2>4. /\ todo \subseteq kind
        /\ \A e \in kind \cap Notes :
             up[e] # Never /\ up[e] > Since(r) /\ Stored(ItemOf[e]) /\ db[ItemOf[e]] > Since(r)
               => e \in todo
    <3>1. \A e \in kind : e \in Entities /\ up[e] \in Int
      BY <2>1, Numbers, ItemsAndNotes
    <3>2. \A e \in kind : up[e] > Since(r) => up[e] >= Since(r)
      BY <2>3, <3>1
    <3>3. CASE byTime
      BY <3>2, <3>3
    <3>4. CASE ~byTime
      BY <3>4
    <3> QED BY <3>3, <3>4
  <2>5. /\ UNCHANGED <<now, up, db, last, passedOver, outlasted>>
        /\ kind \subseteq run[r].unasked /\ kind # {}
    BY <1>2 DEF AskNotes
  <2> HIDE DEF todo, bySince
  <2> QED BY <2>1, <2>2, <2>4, <2>5, InvAsking
<1> QED BY <1>1, <1>2

\* One entity is read: it is current now.
LEMMA InvFetch ==
  ASSUME RecollectionTypeOK, RecollectionInv, NEW r \in Runs, NEW e \in Entities,
         Fetch(r, e)
  PROVE  RecollectionInv'
<1> DEFINE got == [run[r].got EXCEPT ![e] = up[e]]
<1> USE Numbers, ItemsAndNotes, TimesType
<1>1. /\ now' = now /\ up' = up /\ db' = db /\ last' = last
      /\ passedOver' = passedOver /\ outlasted' = outlasted
  BY DEF Fetch
<1>2. \A s \in Runs :
        /\ run'[s].phase = run[s].phase /\ run'[s].begun = run[s].begun
        /\ run'[s].oldest = run[s].oldest /\ run'[s].unasked = run[s].unasked
        /\ run'[s].since = run[s].since
        /\ run'[s].todo = IF s = r THEN run[r].todo \ {e} ELSE run[s].todo
        /\ run'[s].got = IF s = r THEN got ELSE run[s].got
  <2>1. run' = Holding(r, run[r].todo \ {e}, got)
    BY DEF Fetch
  <2>2. PICK t, g : t = run[r].todo \ {e} /\ g = got /\ run' = Holding(r, t, g)
    BY <2>1
  <2>3. run' = Holding(r, t, g)
    BY <2>2
  <2>4. \A s \in Runs :
        /\ run'[s].phase = run[s].phase /\ run'[s].begun = run[s].begun
        /\ run'[s].oldest = run[s].oldest /\ run'[s].unasked = run[s].unasked
        /\ run'[s].since = run[s].since
        /\ run'[s].todo = IF s = r THEN t ELSE run[s].todo
        /\ run'[s].got = IF s = r THEN g ELSE run[s].got
    BY <2>3, HoldingFields
  <2> HIDE DEF got
  <2> QED BY <2>2, <2>4
<1>3. \A x \in Entities : got[x] = IF x = e THEN up[x] ELSE run[r].got[x]
  <2>1. run[r].got \in [Entities -> Times]
    BY DEF RecollectionTypeOK, Run
  <2> QED BY <2>1
<1> HIDE DEF got
<1>4. \A s \in Runs, x \in Entities :
        run'[s].got[x] = IF s = r /\ x = e THEN up[x] ELSE run[s].got[x]
  BY <1>2, <1>3
<1>5. \A x \in Entities : up[x] <= up[ItemOf[x]]
  BY DEF RecollectionInv, VersionsInv
<1>6. VersionsInv' /\ RunsInv'
  BY <1>1, <1>2, <1>4 DEF RecollectionInv, VersionsInv, LocalTime, RunsInv, Active
<1>7. PhaseInv'
  <2>1. /\ run[r].phase = "items" => e \in Items
        /\ run[r].phase = "notes" => e \in Notes
        /\ run[r].phase # "idle"
    BY DEF Fetch, Late, RecollectionInv, PhaseInv, Items, Notes
  <2> QED BY <1>1, <1>2, <1>4, <2>1 DEF RecollectionInv, PhaseInv
<1>8. ReadInv'
  BY <1>1, <1>2, <1>4, <1>5 DEF RecollectionInv, ReadInv
<1>9. ItemsInv' /\ NotesInv'
  BY <1>1, <1>2, <1>4 DEF RecollectionInv, ItemsInv, NotesInv, Active, Stale, Explained
<1>10. ParentsInv'
  BY <1>1, <1>2, <1>4, <1>5 DEF RecollectionInv, ParentsInv, Active, Explained
<1>11. OverlapInv' /\ LossesExplained'
  BY <1>1, <1>2 DEF RecollectionInv, OverlapInv, LossesExplained, Active, Stale
<1> QED BY <1>6, <1>7, <1>8, <1>9, <1>10, <1>11 DEF RecollectionInv

\* What a collection gives up on is recorded as passed over.
LEMMA InvPassedOver ==
  ASSUME RecollectionTypeOK, RecollectionInv,
         UNCHANGED <<now, up, db, last, outlasted>>,
         passedOver \subseteq passedOver',
         \A s \in Runs :
           /\ run'[s].phase = run[s].phase /\ run'[s].begun = run[s].begun
           /\ run'[s].oldest = run[s].oldest /\ run'[s].unasked = run[s].unasked
           /\ run'[s].since = run[s].since
           /\ run'[s].todo \subseteq run[s].todo
           /\ \A x \in run[s].todo : x \in run'[s].todo \/ x \in passedOver'
           /\ run'[s].got = run[s].got \/ Active(s),
         \A s \in Runs, x \in Entities :
           \/ run'[s].got[x] = run[s].got[x]
           \/ run'[s].got[x] = Never /\ x \in passedOver'
  PROVE  RecollectionInv'
<1> USE Numbers, ItemsAndNotes, TimesType
<1>1. VersionsInv'
  BY DEF RecollectionInv, VersionsInv, LocalTime, Never
<1>2. RunsInv'
  BY DEF RecollectionInv, RunsInv, Active
<1>3. PhaseInv'
  BY DEF RecollectionInv, PhaseInv, Active
<1>4. ReadInv'
  BY DEF RecollectionInv, ReadInv
<1>5. ItemsInv' /\ NotesInv'
  BY DEF RecollectionInv, ItemsInv, NotesInv, Active, Stale, Explained
<1>6. ParentsInv'
  BY DEF RecollectionInv, ParentsInv, Active, Explained
<1>7. OverlapInv' /\ LossesExplained'
  BY DEF RecollectionInv, OverlapInv, LossesExplained, Active, Stale
<1> QED BY <1>1, <1>2, <1>3, <1>4, <1>5, <1>6, <1>7 DEF RecollectionInv

LEMMA InvMovedAhead ==
  ASSUME RecollectionTypeOK, RecollectionInv, NEW r \in Runs, NEW e \in Entities,
         MovedAhead(r, e)
  PROVE  RecollectionInv'
<1>1. PICK t, g : t = run[r].todo \ {e} /\ g = run[r].got /\ run' = Holding(r, t, g)
  BY DEF MovedAhead
<1>2. run' = Holding(r, t, g)
  BY <1>1
<1>3. \A s \in Runs :
        /\ run'[s].phase = run[s].phase /\ run'[s].begun = run[s].begun
        /\ run'[s].oldest = run[s].oldest /\ run'[s].unasked = run[s].unasked
        /\ run'[s].since = run[s].since
        /\ run'[s].todo = IF s = r THEN t ELSE run[s].todo
        /\ run'[s].got = IF s = r THEN g ELSE run[s].got
  BY <1>2, HoldingFields
<1>4. passedOver' = passedOver \cup {e} /\ UNCHANGED <<now, up, db, last, outlasted>>
  BY DEF MovedAhead
<1> QED BY <1>1, <1>3, <1>4, InvPassedOver

LEMMA InvDropBatch ==
  ASSUME RecollectionTypeOK, RecollectionInv, NEW r \in Runs, NEW kind \in Kinds,
         DropBatch(r, kind)
  PROVE  RecollectionInv'
<1>1. PICK t, g : /\ t = run[r].todo /\ g = Without(run[r].got, kind)
                  /\ run' = Holding(r, t, g)
  BY DEF DropBatch
<1>2. run' = Holding(r, t, g)
  BY <1>1
<1>3. \A s \in Runs :
        /\ run'[s].phase = run[s].phase /\ run'[s].begun = run[s].begun
        /\ run'[s].oldest = run[s].oldest /\ run'[s].unasked = run[s].unasked
        /\ run'[s].since = run[s].since
        /\ run'[s].todo = IF s = r THEN t ELSE run[s].todo
        /\ run'[s].got = IF s = r THEN g ELSE run[s].got
  BY <1>2, HoldingFields
<1>4. /\ passedOver' = passedOver \cup {e \in kind : run[r].got[e] # Never}
      /\ UNCHANGED <<now, up, db, last, outlasted>>
  BY DEF DropBatch, Batch
<1>5. \A x \in Entities : g[x] = IF x \in kind THEN Never ELSE run[r].got[x]
  BY <1>1 DEF Without
<1>6. Active(r)
  <2>1. PICK x \in kind : run[r].got[x] # Never
    BY DEF DropBatch, Batch
  <2>2. x \in Entities
    BY DEF Kinds, Entities, Items, Notes
  <2> QED BY <2>1, <2>2 DEF RecollectionInv, PhaseInv, Active, Nothing
<1> QED BY <1>1, <1>3, <1>4, <1>5, <1>6, InvPassedOver

LEMMA InvIssuesGivenUp ==
  ASSUME RecollectionTypeOK, RecollectionInv, NEW r \in Runs, IssuesGivenUp(r)
  PROVE  RecollectionInv'
<1>1. PICK t, g : /\ t = run[r].todo \ Issues /\ g = Without(run[r].got, Issues)
                  /\ run' = Holding(r, t, g)
  BY DEF IssuesGivenUp
<1>2. run' = Holding(r, t, g)
  BY <1>1
<1>3. \A s \in Runs :
        /\ run'[s].phase = run[s].phase /\ run'[s].begun = run[s].begun
        /\ run'[s].oldest = run[s].oldest /\ run'[s].unasked = run[s].unasked
        /\ run'[s].since = run[s].since
        /\ run'[s].todo = IF s = r THEN t ELSE run[s].todo
        /\ run'[s].got = IF s = r THEN g ELSE run[s].got
  BY <1>2, HoldingFields
<1>4. /\ passedOver' = passedOver \cup ((run[r].todo \cap Issues)
                                    \cup {e \in Issues : run[r].got[e] # Never})
      /\ UNCHANGED <<now, up, db, last, outlasted>>
  BY DEF IssuesGivenUp, Batch
<1>5. \A x \in Entities : g[x] = IF x \in Issues THEN Never ELSE run[r].got[x]
  BY <1>1 DEF Without
<1>6. Active(r)
  BY DEF IssuesGivenUp, Active
<1>7. \A x \in run[r].todo : x \in t \/ x \in passedOver'
  BY <1>1, <1>4
<1>8. \A x \in Entities : g[x] = run[r].got[x] \/ (g[x] = Never /\ x \in passedOver')
  BY <1>4, <1>5
<1> QED BY <1>1, <1>3, <1>4, <1>6, <1>7, <1>8, InvPassedOver

\* A batch is stored.  What is overwritten by an older version changed after
\* the collection that stores it began.
LEMMA InvStore ==
  ASSUME RecollectionTypeOK, RecollectionInv, NEW r \in Runs, NEW kind \in Kinds,
         Store(r, kind)
  PROVE  RecollectionInv'
<1> USE Numbers, ItemsAndNotes, TimesType
<1>1. PICK t, g : /\ t = run[r].todo /\ g = Without(run[r].got, kind)
                  /\ run' = Holding(r, t, g)
  BY DEF Store
<1>2. run' = Holding(r, t, g)
  BY <1>1
<1>3. \A s \in Runs :
        /\ run'[s].phase = run[s].phase /\ run'[s].begun = run[s].begun
        /\ run'[s].oldest = run[s].oldest /\ run'[s].unasked = run[s].unasked
        /\ run'[s].since = run[s].since
        /\ run'[s].todo = IF s = r THEN t ELSE run[s].todo
        /\ run'[s].got = IF s = r THEN g ELSE run[s].got
  BY <1>2, HoldingFields
<1>4. /\ now' = now /\ up' = up /\ last' = last
      /\ passedOver' = passedOver /\ outlasted' = outlasted
  BY DEF Store
<1>5. \A x \in Entities : g[x] = IF x \in kind THEN Never ELSE run[r].got[x]
  BY <1>1 DEF Without
<1>6. Active(r)
  <2>1. PICK x \in kind : run[r].got[x] # Never
    BY DEF Store, Batch
  <2>2. x \in Entities
    BY DEF Kinds, Entities, Items, Notes
  <2> QED BY <2>1, <2>2 DEF RecollectionInv, PhaseInv, Active, Nothing
<1>7. \A x \in Entities :
        \/ db'[x] = db[x] /\ (\A s \in Runs : run'[s].got[x] = run[s].got[x])
        \/ /\ run[r].got[x] # Never /\ db'[x] = run[r].got[x]
           /\ x \in Items \/ db[ItemOf[x]] # Never
        \/ /\ run[r].got[x] # Never /\ db'[x] = db[x]
           /\ x \notin Items /\ db[ItemOf[x]] = Never
        \/ run[r].got[x] = Never /\ db'[x] = db[x]
  BY <1>3, <1>5 DEF Store, Batch, Stored
<1>8. \A s \in Runs, x \in Entities :
        \/ run'[s].got[x] = run[s].got[x]
        \/ s = r /\ run'[s].got[x] = Never
  BY <1>3, <1>5
<1>9. \A s \in Runs : run'[s].todo = run[s].todo
  BY <1>1, <1>3
<1>10. VersionsInv'
  BY <1>4, <1>7, <1>8 DEF RecollectionInv, VersionsInv, LocalTime, Never
<1>11. RunsInv'
  BY <1>3, <1>4 DEF RecollectionInv, RunsInv, Active
<1>12. PhaseInv'
  <2>1. \A s \in Runs : s # r => run'[s].got = run[s].got
    BY <1>3
  <2> QED BY <1>3, <1>6, <1>8, <1>9, <2>1 DEF RecollectionInv, PhaseInv, Active
<1>13. ReadInv'
  BY <1>3, <1>4, <1>8 DEF RecollectionInv, ReadInv
<1>14. \A s \in Runs : Active(s) => run[s].oldest <= run[r].begun
  BY <1>6 DEF RecollectionInv, RunsInv
<1>15. \A x \in Entities : db'[x] # up[x] /\ db'[x] # db[x] => up[x] > run[r].begun
  BY <1>7 DEF RecollectionInv, ReadInv
<1>16. ItemsInv'
  BY <1>3, <1>4, <1>7, <1>8, <1>9, <1>14, <1>15
  DEF RecollectionInv, ItemsInv, ReadInv, Active, Stale, Explained
<1>17. ParentsInv'
  <2> SUFFICES ASSUME NEW s \in Runs, NEW c \in Notes, Active(s),
                      up[c] > run[s].since[ItemOf[c]], up[c] >= 0,
                      up[c] <= run[s].oldest
               PROVE  \/ ItemOf[c] \in run[s].unasked \cup run[s].todo
                      \/ run'[s].got[ItemOf[c]] >= up[c]
                      \/ db'[ItemOf[c]] >= up[c] \/ Explained(c)
    <3>1. \A s \in Runs : /\ Active(s)' <=> Active(s)
                          /\ run'[s].since = run[s].since
                          /\ run'[s].oldest = run[s].oldest
                          /\ run'[s].unasked \cup run'[s].todo
                               = run[s].unasked \cup run[s].todo
      BY <1>3, <1>9 DEF Active
    <3>2. \A c \in Notes : Explained(c)' <=> Explained(c)
      BY <1>4 DEF Explained
    <3> QED BY <1>4, <3>1, <3>2 DEF ParentsInv
  <2> DEFINE i == ItemOf[c]
  <2>1. i \in Items /\ i \in Entities
    OBVIOUS
  <2>2. \/ i \in run[s].unasked \cup run[s].todo \/ run[s].got[i] >= up[c]
        \/ db[i] >= up[c] \/ Explained(c)
    BY DEF RecollectionInv, ParentsInv
  <2>3. run[r].got[i] # Never => run[r].got[i] >= up[c]
    BY <1>14, <2>1 DEF RecollectionInv, ReadInv
  <2>4. \/ db'[i] = db[i] /\ run'[s].got[i] = run[s].got[i]
        \/ run[r].got[i] # Never /\ db'[i] = run[r].got[i]
        \/ run[r].got[i] = Never /\ db'[i] = db[i]
    BY <1>7, <2>1
  <2>5. run'[s].got[i] = run[s].got[i] \/ s = r
    BY <1>8, <2>1
  <2> QED BY <2>1, <2>2, <2>3, <2>4, <2>5 DEF Never
<1>18. NotesInv'
  <2> SUFFICES ASSUME NEW s \in Runs, NEW c \in Notes, run[s].phase = "notes",
                      db'[c] # up[c]
               PROVE  \/ c \in run[s].unasked \cup run[s].todo
                      \/ run'[s].got[c] = up[c]
                      \/ up[c] > run[s].oldest \/ Explained(c)
    BY <1>3, <1>4, <1>9 DEF NotesInv, Stale, Explained
  <2>1. Active(s) /\ c \in Entities
    BY DEF Active
  <2>2. CASE db'[c] # db[c]
    BY <1>14, <1>15, <2>1, <2>2
  <2>3. CASE db'[c] = db[c] /\ run'[s].got[c] = run[s].got[c]
    BY <2>3 DEF RecollectionInv, NotesInv, Stale
  <2>4. CASE /\ db'[c] = db[c] /\ s = r /\ run[r].got[c] # Never
             /\ db[ItemOf[c]] = Never
    <3>1. ItemOf[c] \notin run[r].unasked
      BY <2>4 DEF RecollectionInv, PhaseInv
    <3>4. \/ up[c] > run[r].since[ItemOf[c]]
          \/ Explained(c)
      BY <1>6, <2>4, <3>1 DEF RecollectionInv, LossesExplained, RunsInv, Stale, Explained
    <3>2. up[c] >= 0
      BY <2>1, <2>4 DEF RecollectionInv, VersionsInv
    <3>3. ItemOf[c] \notin run[r].todo /\ run[r].got[ItemOf[c]] = Never
      BY <2>1, <2>4 DEF RecollectionInv, PhaseInv
    <3> QED BY <1>6, <2>1, <2>4, <3>1, <3>2, <3>3, <3>4 DEF RecollectionInv, ParentsInv, Never
  <2>5. CASE db'[c] = db[c] /\ s = r /\ db'[c] = run[r].got[c]
    BY <2>5 DEF RecollectionInv, NotesInv, Stale
  <2> QED BY <1>7, <1>8, <2>1, <2>2, <2>3, <2>4, <2>5
<1>19. LossesExplained'
  BY <1>4, <1>6, <1>15 DEF RecollectionInv, LossesExplained, OverlapInv, Stale
<1>20. OverlapInv'
  BY <1>3, <1>4 DEF RecollectionInv, OverlapInv, Active
<1> QED BY <1>10, <1>11, <1>12, <1>13, <1>16, <1>17, <1>18, <1>19, <1>20
        DEF RecollectionInv

\* The second group of tasks is queued: by then every item is asked for, read
\* and stored.
LEMMA InvBeginNotes ==
  ASSUME RecollectionTypeOK, RecollectionInv, NEW r \in Runs, BeginNotes(r)
  PROVE  RecollectionInv'
<1> USE Numbers, ItemsAndNotes, TimesType
<1>1. /\ now' = now /\ up' = up /\ db' = db /\ last' = last
      /\ passedOver' = passedOver /\ outlasted' = outlasted
  BY DEF BeginNotes
<1>2. /\ run[r].phase = "items" /\ run[r].unasked = {} /\ run[r].todo = {}
      /\ run[r].got = Nothing
  BY DEF BeginNotes, NothingLeft
<1>3. /\ run'[r].phase = "notes" /\ run'[r].begun = run[r].begun
      /\ run'[r].oldest = run[r].oldest /\ run'[r].unasked = Notes
      /\ run'[r].since = run[r].since /\ run'[r].todo = run[r].todo
      /\ run'[r].got = run[r].got
      /\ \A s \in Runs : s # r => run'[s] = run[s]
  BY DEF BeginNotes, RecollectionTypeOK, Run
<1>4. \A x \in Entities : Nothing[x] = -1
  BY DEF Nothing, Never
<1>5. Active(r) /\ \A s \in Runs : Active(s)' <=> Active(s)
  BY <1>2, <1>3 DEF Active
<1>6. \A s \in Runs : /\ run'[s].begun = run[s].begun /\ run'[s].oldest = run[s].oldest
                      /\ run'[s].since = run[s].since /\ run'[s].got = run[s].got
  BY <1>3
<1>7. VersionsInv' /\ ReadInv' /\ OverlapInv' /\ LossesExplained'
  BY <1>1, <1>5, <1>6
  DEF RecollectionInv, VersionsInv, LocalTime, ReadInv, OverlapInv, LossesExplained, Stale
<1>8. \A s \in Runs, i \in Items : i \in run[s].unasked => i \in run'[s].unasked
  BY <1>2, <1>3
<1>9. \A s \in Runs, i \in Items :
        Active(s) /\ i \notin run'[s].unasked => run[s].since[i] <= last - Window
  BY <1>8 DEF RecollectionInv, RunsInv
<1>10. RunsInv'
  BY <1>1, <1>5, <1>6, <1>9 DEF RecollectionInv, RunsInv
<1>11. PhaseInv'
  BY <1>2, <1>3, <1>4 DEF RecollectionInv, PhaseInv, Never
<1>12. ItemsInv'
  BY <1>1, <1>2, <1>3, <1>5, <1>8
  DEF RecollectionInv, ItemsInv, Stale, Explained
<1>13. ParentsInv'
  BY <1>1, <1>2, <1>3, <1>5, <1>8 DEF RecollectionInv, ParentsInv, Explained
<1>14. NotesInv'
  BY <1>1, <1>3 DEF RecollectionInv, NotesInv, Stale, Explained
<1> QED BY <1>7, <1>10, <1>11, <1>12, <1>13, <1>14 DEF RecollectionInv

\* A collection ends.  Only a completed one moves the time, and what it
\* leaves out of date changed after the oldest it overlapped began.
LEMMA InvEnd ==
  ASSUME RecollectionTypeOK, RecollectionInv, NEW r \in Runs,
         CompleteCore(r) \/ FailCore(r)
  PROVE  RecollectionInv'
<1> USE Numbers, ItemsAndNotes, TimesType
<1>1. /\ now' = now /\ up' = up /\ db' = db /\ passedOver' = passedOver
      /\ outlasted \subseteq outlasted' /\ LocalTime' = LocalTime
  BY DEF CompleteCore, FailCore, LocalTime
<1>2. last' >= last /\ last' <= LocalTime /\ last' \in Int
  BY DEF CompleteCore, FailCore, RecollectionInv, VersionsInv
<1>3. /\ run'[r] = NoRun
      /\ \A s \in Runs : s # r => run'[s] = run[s]
  BY DEF CompleteCore, FailCore, RecollectionTypeOK
<1>4. /\ NoRun.phase = "idle" /\ NoRun.unasked = {} /\ NoRun.todo = {}
      /\ NoRun.got = Nothing
  BY DEF NoRun
<1>5. \A x \in Entities : Nothing[x] = -1
  BY DEF Nothing, Never
<1>6. VersionsInv'
  BY <1>1, <1>2, <1>3, <1>4, <1>5 DEF RecollectionInv, VersionsInv
<1>7. RunsInv' /\ PhaseInv'
  BY <1>1, <1>2, <1>3, <1>4 DEF RecollectionInv, RunsInv, PhaseInv, Active
<1>8. ReadInv'
  BY <1>1, <1>3, <1>4, <1>5 DEF RecollectionInv, ReadInv, Never
<1>9. ItemsInv' /\ NotesInv'
  BY <1>1, <1>3, <1>4
  DEF RecollectionInv, ItemsInv, NotesInv, Active, Stale, Explained
<1>10. ParentsInv'
  <2> SUFFICES ASSUME NEW s \in Runs, NEW c \in Notes, Active(s)',
                      up[c] > run'[s].since[ItemOf[c]], up[c] >= 0,
                      up[c] <= run'[s].oldest
               PROVE  \/ ItemOf[c] \in run'[s].unasked \cup run'[s].todo
                      \/ run'[s].got[ItemOf[c]] >= up[c]
                      \/ db[ItemOf[c]] >= up[c] \/ Explained(c)'
    BY <1>1 DEF ParentsInv
  <2>1. Active(s) /\ run'[s] = run[s]
    BY <1>3, <1>4 DEF Active
  <2>2. Explained(c) => Explained(c)'
    BY <1>1 DEF Explained
  <2> QED BY <2>1, <2>2 DEF RecollectionInv, ParentsInv
<1>11. LossesExplained' /\ OverlapInv'
  <2>1. CASE FailCore(r)
    <3>1. last' = last /\ outlasted' = outlasted
      BY <2>1 DEF FailCore
    <3> QED
      BY <1>1, <1>3, <1>4, <3>1
      DEF RecollectionInv, LossesExplained, OverlapInv, Active, Stale
  <2>2. CASE CompleteCore(r)
    <3>1. /\ Active(r) /\ run[r].phase = "notes"
          /\ run[r].unasked = {} /\ run[r].todo = {} /\ run[r].got = Nothing
          /\ last' = LocalTime
          /\ \A e \in Items \cup Notes :
               run[r].oldest < up[e] /\ up[e] <= last' - Window => e \in outlasted'
      BY <2>2 DEF CompleteCore, NothingLeft, Active
    <3>2. \A e \in Items \cup Notes : Stale(e) => up[e] >= 0
      BY DEF RecollectionInv, VersionsInv, Stale
    <3>3. \A e \in Items \cup Notes :
            Stale(e) => up[e] > run[r].oldest \/ Explained(e)
      BY <1>5, <3>1, <3>2 DEF RecollectionInv, ItemsInv, NotesInv
    <3>4. \A e \in Items \cup Notes :
            up[e] > run[r].oldest => up[e] > last' - Window \/ e \in outlasted'
      BY <1>2, <3>1
    <3>5. LossesExplained'
      BY <1>1, <3>3, <3>4 DEF LossesExplained, Stale, Explained
    <3>6. \A s \in Runs : Active(s) => run[r].oldest <= run[s].begun
      BY <3>1 DEF RecollectionInv, RunsInv
    <3>7. OverlapInv'
      <4> SUFFICES ASSUME NEW s \in Runs, NEW e \in Items \cup Notes, Active(s)',
                          up[e] > run'[s].begun
                   PROVE  up[e] > last' - Window \/ e \in outlasted'
        BY <1>1 DEF OverlapInv
      <4>1. s # r /\ Active(s) /\ run'[s].begun = run[s].begun
        BY <1>3, <1>4 DEF Active
      <4> QED BY <3>1, <3>4, <3>6, <4>1
    <3> QED BY <3>5, <3>7
  <2> QED BY <2>1, <2>2
<1> QED BY <1>6, <1>7, <1>8, <1>9, <1>10, <1>11 DEF RecollectionInv

\* The secondary collection only touches the rows of reviews.
LEMMA InvSecondary ==
  ASSUME RecollectionTypeOK, RecollectionInv, Secondary
  PROVE  RecollectionInv'
<1> USE Numbers, ItemsAndNotes, TimesType
<1>1. /\ now' = now /\ up' = up /\ last' = last /\ run' = run
      /\ passedOver' = passedOver /\ outlasted' = outlasted
  BY DEF Secondary, BeginSecondary, CollectReviews, CompleteSecondary,
         FailSecondary, coreVars
<1>2. \A x \in Entities : db'[x] = db[x] \/ (x \in Reviews /\ db'[x] = up[x])
  <2>1. ASSUME NEW e \in Reviews, CollectReviews(e)
        PROVE  \A x \in Entities : db'[x] = IF x = e THEN up[x] ELSE db[x]
    BY <2>1 DEF CollectReviews, RecollectionTypeOK, Entities
  <2>2. db' = db \/ \E e \in Reviews : CollectReviews(e)
    BY DEF Secondary, BeginSecondary, CompleteSecondary, FailSecondary
  <2>3. CASE db' = db
    BY <2>3
  <2>4. ASSUME NEW e \in Reviews, CollectReviews(e), NEW x \in Entities
        PROVE  db'[x] = db[x] \/ (x \in Reviews /\ db'[x] = up[x])
    <3>1. db'[x] = IF x = e THEN up[x] ELSE db[x]
      BY <2>1, <2>4
    <3> QED BY <3>1, <2>4
  <2> QED BY <2>2, <2>3, <2>4
<1>3. \A x \in Items \cup Notes : db'[x] = db[x]
  BY <1>2, EntitiesAssumption DEF Entities
<1>4. VersionsInv' /\ RunsInv' /\ PhaseInv' /\ ReadInv' /\ OverlapInv'
  BY <1>1, <1>2
  DEF RecollectionInv, VersionsInv, LocalTime, RunsInv, PhaseInv, ReadInv, OverlapInv,
      Active
<1>5. ItemsInv' /\ ParentsInv' /\ NotesInv' /\ LossesExplained'
  BY <1>1, <1>3
  DEF RecollectionInv, ItemsInv, ParentsInv, NotesInv, LossesExplained, Active,
      Stale, Explained
<1> QED BY <1>4, <1>5 DEF RecollectionInv

LEMMA InvStep ==
  RecollectionTypeOK /\ RecollectionInv /\ [Next]_vars => RecollectionInv'
<1> SUFFICES ASSUME RecollectionTypeOK, RecollectionInv, [Next]_vars
             PROVE  RecollectionInv'
  OBVIOUS
<1>1. CASE Tick \/ \E e \in Entities : Change(e)
  BY <1>1, InvChange
<1>2. ASSUME NEW r \in Runs, Core(r) PROVE RecollectionInv'
  BY <1>2, InvBegin, InvAsk, InvFetch, InvMovedAhead, InvStore, InvDropBatch,
     InvIssuesGivenUp, InvBeginNotes, InvEnd DEF Core
<1>3. CASE Secondary
  BY <1>3, InvSecondary
<1>4. CASE UNCHANGED vars
  BY <1>4
  DEF vars, coreVars, secVars, RecollectionInv, VersionsInv, LocalTime, RunsInv,
      PhaseInv, ReadInv, OverlapInv, ItemsInv, ParentsInv, NotesInv, LossesExplained, Active, Stale,
      Explained
<1> QED BY <1>1, <1>2, <1>3, <1>4 DEF Next

-----------------------------------------------------------------------------
(* The theorems. *)

\* Every reachable state has the types, whatever the number of entities and
\* of collections.
THEOREM RecollectionTypeCorrect == Spec => []RecollectionTypeOK
BY TypeInit, TypeStep, PTL DEF Spec

\* The margin of two days does what the code says of it, however long the
\* collections take and however they overlap: whatever a completed one left
\* out of date will be asked for by the next, except what a collection was
\* seen to pass over, and what changed during a collection longer than the
\* margin and too early for the next one.
THEOREM LossesAreExplained == Spec => []LossesExplained
<1>1. RecollectionInv => LossesExplained
  BY DEF RecollectionInv
<1> QED BY <1>1, RecollectionTypeCorrect, InvInit, InvStep, PTL DEF Spec
=============================================================================

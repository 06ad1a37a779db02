---------------------- MODULE CollectionScheduler_proofs ----------------------
(***************************************************************************)
(* Proofs about CollectionScheduler, for any number of repositories,       *)
(* monitors, runs and jobs and for every choice of events.                 *)
(*                                                                         *)
(* The CHECK that core is not Pending while secondary is Collecting does   *)
(* not follow from the rows alone: the monitor writes Collecting from what *)
(* it chose earlier.  The invariant Inv therefore also says of everything  *)
(* that is chosen, sent or running for the secondary hook that the core    *)
(* hook of its repository has been collected, and no write takes that back.*)
(***************************************************************************)
EXTENDS CollectionScheduler, FiniteSetTheorems, TLAPS

(***************************************************************************)
(* What the writes of CollectionState preserve.  SoundRow is the part of   *)
(* the inductive invariant that speaks of one row.                         *)
(***************************************************************************)

\* The CHECKs of one hook hold.
SoundCell(h, c) ==
    /\ c \in Cell
    /\ h # Ml => last_collected_check(h, c) /\ task_id_check(h, c)

\* The secondary hook has left Pending only after a core collection has come
\* to an end.
CoreFirst(core, secondary) == secondary.status # "Pending" => core.last # Never

SoundRow(w) ==
    /\ w \in Row
    /\ \A h \in Hook : SoundCell(h, w[h])
    /\ CoreFirst(w[Core], w[Secondary])

-----------------------------------------------------------------------------
SetCell(w, h, c) == [w EXCEPT ![h] = c]

\* A collected repository that says Failed Clone would be made Pending by
\* clean_collection_status, which a CHECK refuses.
CloneNotFailed(w) == w[Facade].status # "Failed Clone"

\* No write takes back that core has been collected, and none of the
\* scheduler's says that a clone has failed: only clone_repos clones.
Kept(w, v) ==
    /\ w[Core].last # Never => v[Core].last # Never
    /\ CloneNotFailed(w) => CloneNotFailed(v)

\* The hooks are four.
LEMMA HookNames ==
  /\ Core \in Hook /\ Secondary \in Hook /\ Facade \in Hook /\ Ml \in Hook
  /\ Core # Secondary /\ Core # Facade /\ Core # Ml
  /\ Secondary # Facade /\ Secondary # Ml /\ Facade # Ml
  BY DEF Hook, Core, Secondary, Facade, Ml

\* A sound row satisfies every CHECK of the table: a core hook that has been
\* collected is not Pending.
LEMMA SoundRowChecks ==
  ASSUME NEW w, SoundRow(w)
  PROVE  Checks(w)
<1>1. \A h \in Hook \ {Ml} : last_collected_check(h, w[h]) /\ task_id_check(h, w[h])
  BY DEF SoundRow, SoundCell
<1>2. core_secondary_dependency_check(w)
  <2>1. last_collected_check(Core, w[Core])
    BY <1>1, HookNames
  <2> QED
    BY <2>1 DEF SoundRow, CoreFirst, last_collected_check, core_secondary_dependency_check
<1> QED
  BY <1>1, <1>2 DEF Checks

\* A sound cell put into a sound row leaves a sound row, if the order of core
\* and secondary is kept.
LEMMA SetCellSound ==
  ASSUME NEW w, SoundRow(w), NEW h \in Hook, NEW c, SoundCell(h, c),
         h = Core => CoreFirst(c, w[Secondary]),
         h = Secondary => CoreFirst(w[Core], c)
  PROVE  SoundRow(SetCell(w, h, c))
<1> DEFINE v == SetCell(w, h, c)
<1>1. w \in [Hook -> Cell] /\ c \in Cell
  BY DEF SoundRow, SoundCell, Row
<1>2. v \in Row /\ \A g \in Hook : v[g] = IF g = h THEN c ELSE w[g]
  BY <1>1 DEF Row, SetCell
<1>3. \A g \in Hook : SoundCell(g, v[g])
  BY <1>2 DEF SoundRow
<1>4. CoreFirst(v[Core], v[Secondary])
  BY <1>2, HookNames DEF SoundRow
<1> QED
  BY <1>2, <1>3, <1>4 DEF SoundRow

\* A cell's status, task and last collection are of their types.
LEMMA SoundCellType ==
  ASSUME NEW w, SoundRow(w), NEW h \in Hook
  PROVE  /\ SoundCell(h, w[h])
         /\ w[h] = [status |-> w[h].status, task |-> w[h].task, last |-> w[h].last]
         /\ w[h].status \in Status /\ w[h].task \in Run \cup {Null}
         /\ w[h].last \in LastCollected
<1>1. w[h] \in Cell
  BY DEF SoundRow, Row
<1> QED
  BY <1>1 DEF SoundRow, Cell

-----------------------------------------------------------------------------
\* The row of a new repository is sound (create_collection_status_records).
LEMMA NewRowSound == SoundRow(NewRow)
<1>1. \A h \in Hook : SoundCell(h, NewCell)
  BY DEF SoundCell, NewCell, Cell, Status, LastCollected, Never, last_collected_check,
         task_id_check
<1>2. NewRow \in Row /\ \A h \in Hook : NewRow[h] = NewCell
  BY <1>1 DEF NewRow, Row, SoundCell
<1>3. CoreFirst(NewCell, NewCell)
  BY DEF CoreFirst, NewCell
<1> QED
  BY <1>1, <1>2, <1>3, HookNames DEF SoundRow

\* update_status_and_id leaves a sound row if core was collected before
\* secondary.
LEMMA MarkCollectingSound ==
  ASSUME NEW w, SoundRow(w), NEW h \in Hook, NEW run \in Run,
         h = Secondary => w[Core].last # Never
  PROVE  SoundRow(MarkCollecting(w, h, run))
<1> DEFINE c == [w[h] EXCEPT !.status = "Collecting", !.task = run]
<1>1. SoundCell(h, w[h]) /\ w[h] \in Cell
  BY SoundCellType DEF SoundCell
<1>2. c \in Cell /\ c.status = "Collecting" /\ c.task = run /\ c.last = w[h].last
  BY <1>1 DEF Cell, Status
<1>3. SoundCell(h, c)
  BY <1>1, <1>2, NullAssumption DEF NullAssumption, SoundCell, last_collected_check, task_id_check
<1>4. (h = Core => CoreFirst(c, w[Secondary])) /\ (h = Secondary => CoreFirst(w[Core], c))
  BY <1>2 DEF CoreFirst, SoundRow
<1>5. MarkCollecting(w, h, run) = SetCell(w, h, c)
  BY DEF MarkCollecting, SoundRow, Row, SetCell
<1> HIDE DEF c
<1> QED
  BY <1>3, <1>4, <1>5, SetCellSound

\* So do the success tasks.
LEMMA MarkSuccessSound ==
  ASSUME NEW w, SoundRow(w), NEW h \in Hook,
         h = Secondary => w[Core].last # Never
  PROVE  SoundRow(MarkSuccess(w, h))
<1> DEFINE c == [status |-> "Success", task |-> Null, last |-> Fresh]
<1>1. SoundCell(h, c)
  BY DEF SoundCell, Cell, Status, LastCollected, Never, Fresh, last_collected_check,
         task_id_check
<1>2. (h = Core => CoreFirst(c, w[Secondary])) /\ (h = Secondary => CoreFirst(w[Core], c))
  BY DEF CoreFirst, Never, Fresh
<1> QED
  BY <1>1, <1>2, SetCellSound DEF MarkSuccess, SetCell

\* augur_handle_task_failure needs nothing of the run that failed.
LEMMA HandleTaskFailureSound ==
  ASSUME NEW w, SoundRow(w), NEW h \in Hook
  PROVE  SoundRow(HandleTaskFailure(w, h))
<1> DEFINE c == [w[h] EXCEPT !.status = "Error", !.task = Null]
<1>1. SoundCell(h, w[h]) /\ w[h] \in Cell
  BY SoundCellType DEF SoundCell
<1>2. c \in Cell /\ c.status = "Error" /\ c.task = Null /\ c.last = w[h].last
  BY <1>1 DEF Cell, Status
<1>3. SoundCell(h, c)
  BY <1>1, <1>2 DEF SoundCell, last_collected_check, task_id_check
<1>4. CASE w[h].status \in {"Collecting", "Initializing"}
  <2>1. (h = Core => CoreFirst(c, w[Secondary])) /\ (h = Secondary => CoreFirst(w[Core], c))
    BY <1>2, <1>4 DEF CoreFirst, SoundRow
  <2>2. HandleTaskFailure(w, h) = SetCell(w, h, c)
    BY <1>4 DEF HandleTaskFailure, SoundRow, Row, SetCell
  <2> HIDE DEF c
  <2> QED
    BY <1>3, <2>1, <2>2, SetCellSound
<1>5. CASE w[h].status \notin {"Collecting", "Initializing"}
  BY <1>5 DEF HandleTaskFailure
<1> QED
  BY <1>4, <1>5

\* Giving a repository up leaves a sound row.
LEMMA MarkIgnoreSound == SoundRow(MarkIgnore)
<1> DEFINE c == [status |-> "Ignore", task |-> Null, last |-> Fresh]
<1>1. \A h \in Hook : SoundCell(h, c)
  BY DEF SoundCell, Cell, Status, LastCollected, Never, Fresh, last_collected_check,
         task_id_check
<1>2. MarkIgnore \in Row /\ \A h \in Hook : MarkIgnore[h] = c
  BY <1>1 DEF MarkIgnore, Row, SoundCell
<1>3. CoreFirst(c, c)
  BY DEF CoreFirst, Never, Fresh
<1> QED
  BY <1>1, <1>2, <1>3, HookNames DEF SoundRow

\* What retry_errored_repos makes of a cell: an Error cell holds no task, and
\* goes back to Success exactly if it has been collected.
LEMMA RetryCellSound ==
  ASSUME NEW h \in Hook, NEW c, SoundCell(h, c)
  PROVE  /\ SoundCell(h, RetryCell(c))
         /\ RetryCell(c).last = c.last
         /\ c.status = "Pending" => RetryCell(c).status = "Pending"
<1> DEFINE reset == IF c.last = Never THEN "Pending" ELSE "Success"
           d == [c EXCEPT !.status = reset]
<1>1. d \in Cell /\ d.status = reset /\ d.task = c.task /\ d.last = c.last
  BY DEF SoundCell, Cell, Status
<1>2. CASE c.status = "Error"
  <2>1. SoundCell(h, d)
    BY <1>1, <1>2 DEF SoundCell, last_collected_check, task_id_check
  <2>2. RetryCell(c) = d
    BY <1>2 DEF RetryCell
  <2> QED
    BY <1>1, <1>2, <2>1, <2>2
<1>3. CASE c.status # "Error"
  BY <1>3 DEF RetryCell
<1> QED
  BY <1>2, <1>3

\* What clean_collection_status makes of a cell.  It stays sound unless it said
\* Failed Clone.
LEMMA CleanCellSound ==
  ASSUME NEW h \in Hook, NEW c, SoundCell(h, c)
  PROVE  /\ CleanCell(h, c) \in Cell
         /\ CleanCell(h, c).last = c.last
         /\ c.status = "Pending" => CleanCell(h, c).status = "Pending"
         /\ c.status # "Failed Clone" =>
               SoundCell(h, CleanCell(h, c)) /\ CleanCell(h, c).status # "Failed Clone"
<1> DEFINE reset == IF c.last # Never THEN "Success"
                    ELSE IF h = Facade THEN "Update" ELSE "Pending"
           d == [c EXCEPT !.status = reset, !.task = Null]
           p == [c EXCEPT !.status = "Pending", !.task = Null]
<1>1. CASE h # Ml /\ c.status = "Collecting"
  <2>1. d \in Cell /\ d.status = reset /\ d.task = Null /\ d.last = c.last
    BY DEF SoundCell, Cell, Status
  <2>2. SoundCell(h, d)
    BY <1>1, <2>1 DEF SoundCell, last_collected_check, task_id_check
  <2>3. CleanCell(h, c) = d
    BY <1>1 DEF CleanCell
  <2> QED
    BY <1>1, <2>1, <2>2, <2>3
<1>2. CASE h = Facade /\ c.status \in {"Failed Clone", "Initializing"}
  <2>1. p \in Cell /\ p.status = "Pending" /\ p.task = Null /\ p.last = c.last
    BY DEF SoundCell, Cell, Status
  <2>2. c.status # "Failed Clone" => SoundCell(h, p)
    BY <1>2, <2>1, HookNames DEF SoundCell, last_collected_check, task_id_check
  <2>3. CleanCell(h, c) = p
    BY <1>2 DEF CleanCell
  <2> QED
    BY <1>2, <2>1, <2>2, <2>3
<1>3. CASE /\ ~ (h # Ml /\ c.status = "Collecting")
           /\ ~ (h = Facade /\ c.status \in {"Failed Clone", "Initializing"})
  <2>1. CleanCell(h, c) = c
    BY <1>3 DEF CleanCell
  <2> QED
    BY <2>1 DEF SoundCell
<1> QED
  BY <1>1, <1>2, <1>3

\* Rows that are changed cell by cell, each cell soundly and none of them taken
\* out of Pending or given another last collection.
LEMMA CellwiseSound ==
  ASSUME NEW w, SoundRow(w), NEW v, v = [h \in Hook |-> v[h]],
         \A h \in Hook : /\ SoundCell(h, v[h])
                         /\ v[h].last = w[h].last
                         /\ w[h].status = "Pending" => v[h].status = "Pending"
  PROVE  SoundRow(v)
<1>1. v \in Row
  BY DEF Row, SoundCell
<1>2. CoreFirst(v[Core], v[Secondary])
  BY HookNames DEF SoundRow, CoreFirst
<1> QED
  BY <1>1, <1>2 DEF SoundRow

\* After any number of its statements, retry_errored_repos leaves a sound row and
\* what has been collected.
LEMMA RetrySound ==
  ASSUME NEW w, SoundRow(w), NEW n \in Nat
  PROVE  SoundRow(RetryAfter(w, n)) /\ Kept(w, RetryAfter(w, n))
<1> DEFINE a == RetryAfter(w, n)
<1>1. \A h \in Hook : SoundCell(h, w[h])
  BY DEF SoundRow
<1>2. a = [h \in Hook |-> a[h]] /\ \A h \in Hook : a[h] = RetryCell(w[h]) \/ a[h] = w[h]
  BY DEF RetryAfter
<1> HIDE DEF a
<1>3. \A h \in Hook : /\ SoundCell(h, a[h])
                      /\ a[h].last = w[h].last
                      /\ w[h].status = "Pending" => a[h].status = "Pending"
  BY <1>1, <1>2, RetryCellSound
<1>4. SoundRow(a)
  BY <1>2, <1>3, CellwiseSound
<1>5. ASSUME w[Facade].status # "Failed Clone"
      PROVE  a[Facade].status # "Failed Clone"
  <2>1. RetryCell(w[Facade]).status # "Failed Clone"
    BY <1>1, <1>5, HookNames DEF RetryCell, SoundCell, Cell
  <2>2. a[Facade] = RetryCell(w[Facade]) \/ a[Facade] = w[Facade]
    BY <1>2, HookNames
  <2> QED
    BY <1>5, <2>1, <2>2
<1>6. Kept(w, a)
  BY <1>3, <1>5, HookNames DEF Kept, CloneNotFailed
<1> QED
  BY <1>4, <1>6 DEF a

\* So does clean_collection_status, unless a clone has failed.
LEMMA CleanSound ==
  ASSUME NEW w, SoundRow(w), CloneNotFailed(w), NEW n \in Nat
  PROVE  SoundRow(CleanAfter(w, n)) /\ Kept(w, CleanAfter(w, n))
<1> DEFINE a == CleanAfter(w, n)
<1>1. \A h \in Hook : SoundCell(h, w[h])
  BY DEF SoundRow
<1>2. a = [h \in Hook |-> a[h]] /\ \A h \in Hook : a[h] = CleanCell(h, w[h]) \/ a[h] = w[h]
  BY DEF CleanAfter
<1> HIDE DEF a
<1>3. \A h \in Hook : w[h].status = "Failed Clone" => a[h] = w[h]
  <2>1. ASSUME NEW h \in Hook, w[h].status = "Failed Clone"
        PROVE  CleanCell(h, w[h]) = w[h]
    BY <2>1 DEF CleanCell, CloneNotFailed
  <2> QED
    BY <1>2, <2>1
<1>4. ASSUME NEW h \in Hook
      PROVE  /\ SoundCell(h, a[h])
             /\ a[h].last = w[h].last
             /\ w[h].status = "Pending" => a[h].status = "Pending"
  <2>1. SoundCell(h, w[h]) /\ (a[h] = CleanCell(h, w[h]) \/ a[h] = w[h])
    BY <1>1, <1>2
  <2>2. CASE a[h] = w[h]
    BY <2>1, <2>2
  <2>3. CASE a[h] # w[h]
    BY <1>3, <2>1, <2>3, CleanCellSound
  <2> QED
    BY <2>2, <2>3
<1>5. SoundRow(a)
  BY <1>2, <1>4, CellwiseSound
<1>6. CloneNotFailed(a)
  BY <1>1, <1>2, CleanCellSound, HookNames DEF CloneNotFailed
<1>7. Kept(w, a)
  BY <1>4, <1>6, HookNames DEF Kept
<1> QED
  BY <1>5, <1>7 DEF a

\* Time passes: the interval since the last collection is over.
LEMMA ElapsedSound ==
  ASSUME NEW w, SoundRow(w), NEW h \in Hook, w[h].last = Fresh
  PROVE  SoundRow([w EXCEPT ![h].last = Due])
<1> DEFINE c == [w[h] EXCEPT !.last = Due]
<1>1. SoundCell(h, w[h]) /\ w[h] \in Cell
  BY SoundCellType DEF SoundCell
<1>2. c \in Cell /\ c.status = w[h].status /\ c.task = w[h].task /\ c.last = Due
  BY <1>1 DEF Cell, LastCollected
<1>3. SoundCell(h, c)
  BY <1>1, <1>2 DEF SoundCell, last_collected_check, task_id_check, Never, Fresh, Due
<1>4. (h = Core => CoreFirst(c, w[Secondary])) /\ (h = Secondary => CoreFirst(w[Core], c))
  BY <1>2 DEF CoreFirst, SoundRow, Never, Due
<1>5. [w EXCEPT ![h].last = Due] = SetCell(w, h, c)
  BY DEF SoundRow, Row, SetCell
<1> HIDE DEF c
<1>6. SoundRow(SetCell(w, h, c))
  BY <1>3, <1>4, SetCellSound
<1> QED
  BY <1>5, <1>6, Zenon

-----------------------------------------------------------------------------
\* update_status_and_id.
LEMMA CollectingCoreKept ==
  ASSUME NEW w \in Row, NEW h \in Hook, NEW run \in Run
  PROVE  Kept(w, MarkCollecting(w, h, run))
  BY HookNames DEF Kept, CloneNotFailed, MarkCollecting, Row, Cell

\* The success tasks.
LEMMA SuccessCoreKept ==
  ASSUME NEW w \in Row, NEW h \in Hook
  PROVE  Kept(w, MarkSuccess(w, h))
  BY HookNames DEF Kept, CloneNotFailed, MarkSuccess, Row, Cell, Never, Fresh

\* augur_handle_task_failure.
LEMMA FailureCoreKept ==
  ASSUME NEW w \in Row, NEW h \in Hook
  PROVE  Kept(w, HandleTaskFailure(w, h))
  BY HookNames DEF Kept, CloneNotFailed, HandleTaskFailure, Row, Cell

\* Giving a repository up.
LEMMA IgnoreCoreKept ==
  ASSUME NEW w
  PROVE  Kept(w, MarkIgnore)
  BY HookNames DEF Kept, CloneNotFailed, MarkIgnore, Never, Fresh

\* The passing of time.
LEMMA ElapsedCoreKept ==
  ASSUME NEW w \in Row, NEW h \in Hook
  PROVE  Kept(w, [w EXCEPT ![h].last = Due])
  BY HookNames DEF Kept, CloneNotFailed, Row, Cell, Never, Due

-----------------------------------------------------------------------------
(***************************************************************************)
(* The scheduler's invariant.  It holds of the scheduler whoever else      *)
(* writes the facade status; that clean_collection_status is not refused   *)
(* rests on NoneFailed as well.                                            *)
(***************************************************************************)

Collected(r) == row[r][Core].last # Never

RowsSound == \A r \in Repo : SoundRow(row[r])

NoneFailed == \A r \in Repo : CloneNotFailed(row[r])

PlansFollow == \A m \in Monitor : \A r \in plan[m][Secondary] : Collected(r)
SentFollow  == \A m \in Monitor :
                  sent[m] # Null /\ sent[m].hook = Secondary => Collected(sent[m].repo)
RunsFollow  == \A c \in Run :
                  runs[c] # Null /\ runs[c].hook = Secondary => Collected(runs[c].repo)

Inv ==
    /\ TypeOK
    /\ RowsSound
    /\ PlansFollow
    /\ SentFollow
    /\ RunsFollow

\* The step writes row r, or changes run c, and no other.
OneRow(r, w) == row' = [row EXCEPT ![r] = w]
OneRun(c, d) == runs' = [runs EXCEPT ![c] = d]

\* A step keeps the rows sound and what has been collected.
RowsKept ==
    /\ row' \in [Repo -> Row]
    /\ RowsSound'
    /\ \A r \in Repo : Collected(r) => Collected(r)'
    /\ NoneFailed => NoneFailed'

-----------------------------------------------------------------------------
\* A step that writes one row.
LEMMA OneRowWritten ==
  ASSUME Inv, NEW r \in Repo, NEW w, OneRow(r, w),
         SoundRow(w), Kept(row[r], w)
  PROVE  RowsKept
<1>1. row \in [Repo -> Row] /\ w \in Row
  BY DEF Inv, TypeOK, SoundRow
<1>2. row' \in [Repo -> Row] /\ \A q \in Repo : row'[q] = IF q = r THEN w ELSE row[q]
  BY <1>1 DEF OneRow
<1>3. RowsSound'
  BY <1>2 DEF Inv, RowsSound
<1>4. \A q \in Repo : Collected(q) => Collected(q)'
  BY <1>2 DEF Collected, Kept
<1>5. NoneFailed => NoneFailed'
  BY <1>2 DEF NoneFailed, Kept
<1> QED
  BY <1>2, <1>3, <1>4, <1>5 DEF RowsKept

\* A step that writes no row.
LEMMA NoRowWritten ==
  ASSUME Inv, row' = row
  PROVE  RowsKept
  BY DEF Inv, TypeOK, RowsKept, RowsSound, Collected, NoneFailed

\* What the monitors hold is left alone, or forgotten.
LEMMA MonitorsKept ==
  ASSUME Inv, RowsKept, UNCHANGED monitorVars
  PROVE  PlansFollow' /\ SentFollow'
<1>1. \A m \in Monitor : plan[m][Secondary] \subseteq Repo
  BY HookNames DEF Inv, TypeOK
<1>2. \A m \in Monitor : sent[m] # Null => sent[m].repo \in Repo
  BY DEF Inv, TypeOK, Sent
<1> QED
  BY <1>1, <1>2 DEF Inv, RowsKept, PlansFollow, SentFollow, monitorVars

\* The runs are left alone.
LEMMA RunsKept ==
  ASSUME Inv, RowsKept, UNCHANGED runs
  PROVE  RunsFollow'
<1>1. \A c \in Run : runs[c] # Null => runs[c].repo \in Repo
  BY DEF Inv, TypeOK, Chain
<1> QED
  BY <1>1 DEF Inv, RowsKept, RunsFollow

\* One run goes on or ends.
LEMMA OneRunChanged ==
  ASSUME Inv, RowsKept, NEW c \in Run, runs[c] # Null, NEW d \in Chain \cup {Null},
         OneRun(c, d),
         d # Null => d.repo = runs[c].repo /\ d.hook = runs[c].hook
  PROVE  runs' \in [Run -> Chain \cup {Null}] /\ RunsFollow'
<1>1. runs \in [Run -> Chain \cup {Null}]
  BY DEF Inv, TypeOK
<1>2. runs' \in [Run -> Chain \cup {Null}]
  BY <1>1 DEF OneRun
<1>3. \A b \in Run : runs[b] # Null => runs[b].repo \in Repo
  BY <1>1 DEF Chain
<1>4. RunsFollow'
  <2> SUFFICES ASSUME NEW b \in Run, runs'[b] # Null, runs'[b].hook = Secondary
               PROVE  row'[runs'[b].repo][Core].last # Never
    BY DEF RunsFollow, Collected
  <2>1. runs[b] # Null /\ runs[b].hook = Secondary /\ runs'[b].repo = runs[b].repo
    BY <1>1 DEF OneRun
  <2> QED
    BY <1>3, <2>1 DEF Inv, RunsFollow, RowsKept, Collected
<1> QED
  BY <1>2, <1>4

\* A worker or a script: the monitors are left alone.
LEMMA MonitorsAlone ==
  ASSUME Inv, RowsKept, UNCHANGED monitorVars,
         runs' \in [Run -> Chain \cup {Null}] /\ RunsFollow'
  PROVE  Inv' /\ RowsKept
<1>1. TypeOK'
  BY DEF Inv, TypeOK, RowsKept, monitorVars
<1> QED
  BY <1>1, MonitorsKept DEF Inv, RowsKept

\* A run reaches its next stage.
LEMMA StageChanged ==
  ASSUME TypeOK, NEW c \in Run, runs[c] # Null, NEW s \in Stage
  PROVE  LET d == [runs[c] EXCEPT !.stage = s]
         IN  d \in Chain /\ d.repo = runs[c].repo /\ d.hook = runs[c].hook
  BY DEF TypeOK, Chain

\* What AfterJob leaves of a run belongs to the same repository and hook.
LEMMA AfterJobChain ==
  ASSUME TypeOK, NEW c \in Run, runs[c] # Null, NEW n \in Int, n <= Jobs,
         NEW broken \in BOOLEAN
  PROVE  /\ AfterJob(c, n, broken) \in Chain \cup {Null}
         /\ AfterJob(c, n, broken) # Null =>
               /\ AfterJob(c, n, broken).repo = runs[c].repo
               /\ AfterJob(c, n, broken).hook = runs[c].hook
<1>1. runs[c] \in Chain /\ Jobs \in Nat
  BY ConstantsAssumption DEF ConstantsAssumption, TypeOK
<1>2. CASE n > 0
  <2> DEFINE d == [runs[c] EXCEPT !.left = n, !.broken = broken]
  <2>1. n \in 0 .. Jobs
    BY <1>1, <1>2
  <2>2. d \in Chain /\ d.repo = runs[c].repo /\ d.hook = runs[c].hook
    BY <1>1, <2>1 DEF Chain
  <2>3. AfterJob(c, n, broken) = d
    BY <1>2 DEF AfterJob
  <2> QED
    BY <2>2, <2>3
<1>3. CASE ~ (n > 0) /\ broken
  BY <1>3 DEF AfterJob
<1>4. CASE ~ (n > 0) /\ ~ broken
  <2> DEFINE d == [runs[c] EXCEPT !.left = 0, !.stage = "success"]
  <2>1. 0 \in 0 .. Jobs /\ "success" \in Stage
    BY <1>1 DEF Stage
  <2>2. d \in Chain /\ d.repo = runs[c].repo /\ d.hook = runs[c].hook
    BY <1>1, <2>1 DEF Chain
  <2>3. AfterJob(c, n, broken) = d
    BY <1>4 DEF AfterJob
  <2> QED
    BY <2>2, <2>3
<1> QED
  BY <1>2, <1>3, <1>4

\* The rest of a run whose job failed.
LEMMA JobStopsKept ==
  ASSUME Inv, RowsKept, NEW c \in Run, runs[c] # Null, JobStops(c)
  PROVE  runs' \in [Run -> Chain \cup {Null}] /\ RunsFollow'
<1>1. PICK n \in 0 .. runs[c].left - 1 : runs' = [runs EXCEPT ![c] = AfterJob(c, n, TRUE)]
  BY DEF JobStops
<1>2. n \in Int /\ n <= Jobs
  BY ConstantsAssumption DEF ConstantsAssumption, Inv, TypeOK, Chain
<1>3. OneRun(c, AfterJob(c, n, TRUE))
  BY <1>1 DEF OneRun
<1> QED
  BY <1>2, <1>3, AfterJobChain, OneRunChanged DEF Inv

\* A failing task of run c writes Error to the row of its repository, or not.
LEMMA FailureKept ==
  ASSUME Inv, NEW c \in Run, runs[c] # Null, NEW h \in Hook,
         row' = [row EXCEPT ![runs[c].repo] = HandleTaskFailure(@, h)]
  PROVE  RowsKept
<1> DEFINE r == runs[c].repo
<1>1. r \in Repo /\ SoundRow(row[r]) /\ row[r] \in Row
  BY DEF Inv, TypeOK, Chain, RowsSound, SoundRow
<1>2. OneRow(r, HandleTaskFailure(row[r], h))
  BY DEF OneRow
<1>3. SoundRow(HandleTaskFailure(row[r], h))
  BY <1>1, HandleTaskFailureSound
<1>4. Kept(row[r], HandleTaskFailure(row[r], h))
  BY <1>1, FailureCoreKept
<1> HIDE DEF r
<1> QED
  BY <1>1, <1>2, <1>3, <1>4, OneRowWritten

-----------------------------------------------------------------------------
\* The initial state.
LEMMA InvInit == Init => Inv /\ NoneFailed
<1> SUFFICES ASSUME Init PROVE Inv /\ NoneFailed
  OBVIOUS
<1>1. \A r \in Repo : row[r] = NewRow /\ NewRow \in Row
  BY NewRowSound DEF Init, SoundRow
<1>2. NoPlan \in [Hook -> SUBSET Repo] /\ NoPlan[Secondary] = {}
  BY HookNames DEF NoPlan
<1>3. TypeOK
  BY <1>1, <1>2 DEF Init, TypeOK
<1>4. RowsSound
  BY <1>1, NewRowSound DEF RowsSound
<1>5. PlansFollow /\ SentFollow /\ RunsFollow
  BY <1>2 DEF Init, PlansFollow, SentFollow, RunsFollow
<1>6. NoneFailed
  <2>1. NewRow[Facade].status = "Pending"
    BY HookNames DEF NewRow, NewCell
  <2> QED
    BY <1>1, <2>1 DEF NoneFailed, CloneNotFailed
<1> QED
  BY <1>3, <1>4, <1>5, <1>6 DEF Inv

\* The workers: what a run does keeps the invariant.
LEMMA InvRun ==
  ASSUME Inv, NEW c \in Run,
         \/ RunStep(c) \/ PrelimFails(c) \/ PrelimGone(c) \/ PrelimOnFailure(c)
         \/ JobFails(c) \/ JobFailsSilently(c) \/ LoseRun(c)
  PROVE  Inv' /\ RowsKept
<1>1. runs[c] # Null
  BY DEF RunStep, PrelimFinds, PrelimFails, PrelimGone, PrelimOnFailure, JobSucceeds,
         JobFails, JobFailsSilently, TaskSuccessUtil, LoseRun, AtStage
<1> DEFINE r == runs[c].repo
           h == runs[c].hook
           at(s) == [runs[c] EXCEPT !.stage = s]
<1>2. /\ runs[c] \in Chain /\ r \in Repo /\ h \in Hook
      /\ SoundRow(row[r]) /\ row[r] \in Row
  BY <1>1 DEF Inv, TypeOK, Chain, RowsSound, SoundRow
<1>3. ASSUME RowsKept, NEW s \in Stage, OneRun(c, at(s))
      PROVE  runs' \in [Run -> Chain \cup {Null}] /\ RunsFollow'
  BY <1>1, <1>3, StageChanged, OneRunChanged DEF Inv
<1>4. ASSUME RowsKept, OneRun(c, Null)
      PROVE  runs' \in [Run -> Chain \cup {Null}] /\ RunsFollow'
  BY <1>1, <1>4, OneRunChanged
<1>5. CASE PrelimFinds(c) \/ PrelimFails(c)
  <2>1. RowsKept
    BY <1>5, NoRowWritten DEF PrelimFinds, PrelimFails
  <2>2. PICK s \in {"jobs", "failing"} : OneRun(c, at(s))
    BY <1>5 DEF PrelimFinds, PrelimFails, OneRun
  <2> QED
    BY <1>3, <1>5, <2>1, <2>2, MonitorsAlone DEF PrelimFinds, PrelimFails, Stage
<1>6. CASE PrelimGone(c)
  <2>1. OneRow(r, MarkIgnore)
    BY <1>6 DEF PrelimGone, OneRow
  <2>2. RowsKept
    BY <1>2, <2>1, MarkIgnoreSound, IgnoreCoreKept, OneRowWritten
  <2>3. OneRun(c, at("failing"))
    BY <1>6 DEF PrelimGone, OneRun
  <2> QED
    BY <1>3, <1>6, <2>2, <2>3, MonitorsAlone DEF PrelimGone, Stage
<1>7. CASE PrelimOnFailure(c)
  <2>1. RowsKept
    BY <1>1, <1>2, <1>7, FailureKept DEF PrelimOnFailure
  <2> QED
    BY <1>4, <1>7, <2>1, MonitorsAlone DEF PrelimOnFailure, OneRun
<1>8. CASE JobSucceeds(c)
  <2> DEFINE n == runs[c].left - 1
  <2>1. RowsKept
    BY <1>8, NoRowWritten DEF JobSucceeds
  <2>2. n \in Int /\ n <= Jobs /\ runs[c].broken \in BOOLEAN
    BY <1>2, ConstantsAssumption DEF ConstantsAssumption, Chain
  <2>3. OneRun(c, AfterJob(c, n, runs[c].broken))
    BY <1>8 DEF JobSucceeds, OneRun
  <2> HIDE DEF n
  <2>4. runs' \in [Run -> Chain \cup {Null}] /\ RunsFollow'
    BY <1>1, <2>1, <2>2, <2>3, AfterJobChain, OneRunChanged DEF Inv
  <2> QED
    BY <1>8, <2>1, <2>4, MonitorsAlone DEF JobSucceeds
<1>9. CASE JobFails(c)
  <2>1. RowsKept
    BY <1>1, <1>2, <1>9, FailureKept DEF JobFails
  <2> QED
    BY <1>1, <1>9, <2>1, JobStopsKept, MonitorsAlone DEF JobFails
<1>10. CASE JobFailsSilently(c)
  <2>1. RowsKept
    BY <1>10, NoRowWritten DEF JobFailsSilently
  <2> QED
    BY <1>1, <1>10, <2>1, JobStopsKept, MonitorsAlone DEF JobFailsSilently
<1>11. CASE TaskSuccessUtil(c)
  <2>1. OneRow(r, MarkSuccess(row[r], h))
    BY <1>11 DEF TaskSuccessUtil, OneRow
  <2>2. h = Secondary => row[r][Core].last # Never
    BY <1>1 DEF Inv, RunsFollow, Collected
  <2>3. RowsKept
    BY <1>2, <2>1, <2>2, MarkSuccessSound, SuccessCoreKept, OneRowWritten
  <2>4. OneRun(c, at("weight")) \/ OneRun(c, Null)
    BY <1>11 DEF TaskSuccessUtil, OneRun
  <2>5. runs' \in [Run -> Chain \cup {Null}] /\ RunsFollow'
    BY <1>3, <1>4, <2>3, <2>4 DEF Stage
  <2> QED
    BY <1>11, <2>3, <2>5, MonitorsAlone DEF TaskSuccessUtil
<1>12. CASE LoseRun(c)
  <2>1. RowsKept
    BY <1>12, NoRowWritten DEF LoseRun
  <2> QED
    BY <1>4, <1>12, <2>1, MonitorsAlone DEF LoseRun, OneRun
<1> QED
  BY <1>5, <1>6, <1>7, <1>8, <1>9, <1>10, <1>11, <1>12 DEF RunStep

-----------------------------------------------------------------------------
\* A repository that is chosen is a new one or one to be collected again.
LEMMA ChosenCandidates ==
  ASSUME NEW h, NEW rs \in get_valid_repos(h), NEW r \in rs
  PROVE  r \in NewlyAdded(h) \/ r \in ForRecollection(h)
<1> DEFINE limit == MaxRepo[h] - get_active_repo_count(h)
<1>1. CASE limit <= 0
  BY <1>1 DEF get_valid_repos
<1>2. CASE ~ (limit <= 0)
  <2>1. PICK new \in get_newly_added_repos(limit, h) :
          \E old \in get_repos_for_recollection(limit - Cardinality(new), h) : rs = new \cup old
    BY <1>2 DEF get_valid_repos
  <2>2. PICK old \in get_repos_for_recollection(limit - Cardinality(new), h) : rs = new \cup old
    BY <2>1
  <2>3. new \subseteq NewlyAdded(h)
    BY DEF get_newly_added_repos, Lightest
  <2>4. old \subseteq ForRecollection(h)
    BY DEF get_repos_for_recollection
  <2> QED
    BY <2>2, <2>3, <2>4
<1> QED
  BY <1>1, <1>2

\* It is chosen for secondary only if core has been collected: the query asks
\* for core Success, which a CHECK ties to last_collected, and a repository
\* collected before had core collected before that.
LEMMA ChosenCollected ==
  ASSUME Inv, NEW h \in Hook, NEW rs \in get_valid_repos(h), NEW r \in rs
  PROVE  /\ r \in Repo
         /\ row[r][h].status # "Ignore"
         /\ h = Secondary => Collected(r)
<1>1. r \in Repo /\ row[r][h].status # "Ignore"
  BY ChosenCandidates DEF NewlyAdded, ForRecollection
<1>2. ASSUME h = Secondary PROVE Collected(r)
  <2>1. SoundRow(row[r])
    BY <1>1 DEF Inv, RowsSound
  <2>2. CASE r \in NewlyAdded(h)
    <3>1. row[r][Core].status = "Success"
      BY <1>2, <2>2 DEF NewlyAdded
    <3>2. SoundCell(Core, row[r][Core])
      BY <2>1, HookNames DEF SoundRow
    <3> QED
      BY <3>1, <3>2, HookNames DEF SoundCell, last_collected_check, Collected
  <2>3. CASE r \in ForRecollection(h)
    BY <1>2, <2>1, <2>3 DEF ForRecollection, SoundRow, CoreFirst, Collected
  <2> QED
    BY <2>2, <2>3, ChosenCandidates
<1> QED
  BY <1>1, <1>2

\* The monitors: each of their steps keeps the invariant.
LEMMA InvMonitor ==
  ASSUME Inv, NEW m \in Monitor, MonitorStep(m) \/ AbortMonitor(m)
  PROVE  Inv' /\ RowsKept
<1> USE HookNames
<1>1. CASE StartMonitor(m)
  <2>1. RowsKept /\ RunsFollow'
    BY <1>1, NoRowWritten, RunsKept DEF StartMonitor
  <2>2. TypeOK'
    BY <1>1, <2>1, ConstantsAssumption DEF ConstantsAssumption, StartMonitor, Inv, TypeOK, RowsKept
  <2>3. PlansFollow' /\ SentFollow'
    BY <1>1 DEF StartMonitor, Inv, PlansFollow, SentFollow, Collected
  <2> QED
    BY <2>1, <2>2, <2>3 DEF Inv, RowsKept
<1>2. ASSUME NEW h \in Hook, BuildRequest(m, h) PROVE Inv' /\ RowsKept
  <2>1. PICK rs \in get_valid_repos(h) : plan' = [plan EXCEPT ![m][h] = rs]
    BY <1>2 DEF BuildRequest
  <2>2. RowsKept /\ RunsFollow'
    BY <1>2, NoRowWritten, RunsKept DEF BuildRequest
  <2>3. rs \subseteq Repo /\ (h = Secondary => \A r \in rs : Collected(r))
    BY ChosenCollected
  <2>4. plan' \in [Monitor -> [Hook -> SUBSET Repo]]
    BY <2>1, <2>3 DEF Inv, TypeOK
  <2>5. TypeOK'
    BY <1>2, <2>2, <2>4 DEF BuildRequest, Inv, TypeOK, RowsKept
  <2>6. \A n \in Monitor : plan'[n][Secondary] =
          IF n = m /\ h = Secondary THEN rs ELSE plan[n][Secondary]
    BY <2>1 DEF Inv, TypeOK
  <2>7. PlansFollow' /\ SentFollow'
    BY <1>2, <2>3, <2>6 DEF BuildRequest, Inv, PlansFollow, SentFollow, Collected
  <2> QED
    BY <2>2, <2>5, <2>7 DEF Inv, RowsKept
<1>3. ASSUME NEW r \in Repo, NEW h \in Hook, NEW c \in Run, SendMessage(m, r, h, c) PROVE Inv' /\ RowsKept
  <2> DEFINE s == [repo |-> r, hook |-> h, run |-> c]
             d == [repo |-> r, hook |-> h, stage |-> IF HasPrelim(r, h) THEN "prelim" ELSE "jobs",
                   left |-> Jobs, broken |-> FALSE]
  <2>1. RowsKept
    BY <1>3, NoRowWritten DEF SendMessage
  <2>2. h = Secondary => Collected(r)
    BY <1>3 DEF SendMessage, Inv, PlansFollow
  <2>3. d \in Chain /\ s \in Sent /\ d.repo = r /\ d.hook = h /\ s.repo = r /\ s.hook = h
    BY ConstantsAssumption DEF ConstantsAssumption, Chain, Sent, Stage
  <2>4. runs' = [runs EXCEPT ![c] = d] /\ sent' = [sent EXCEPT ![m] = s]
    BY <1>3 DEF SendMessage
  <2> HIDE DEF d, s
  <2>5. s # Null
    BY <2>3, NoChainAssumption DEF NoChainAssumption
  <2>6. plan' \in [Monitor -> [Hook -> SUBSET Repo]]
        /\ \A n \in Monitor : plan'[n][Secondary] \subseteq plan[n][Secondary]
    BY <1>3 DEF SendMessage, Inv, TypeOK
  <2>7. TypeOK'
    <3>1. runs' \in [Run -> Chain \cup {Null}]
      BY <2>3, <2>4 DEF Inv, TypeOK
    <3>2. sent' \in [Monitor -> Sent \cup {Null}]
          /\ \A n \in Monitor : sent'[n] = IF n = m THEN s ELSE sent[n]
      BY <2>3, <2>4 DEF Inv, TypeOK
    <3>3. mpc' \in [Monitor -> {"idle", "read", "send", "mark"}]
          /\ \A n \in Monitor : mpc'[n] = IF n = m THEN "mark" ELSE mpc[n]
      BY <1>3 DEF SendMessage, Inv, TypeOK
    <3>4. row' \in [Repo -> Row] /\ UNCHANGED toRead
      BY <1>3, <2>1 DEF SendMessage, RowsKept
    <3> QED
      BY <2>5, <2>6, <3>1, <3>2, <3>3, <3>4 DEF Inv, TypeOK
  <2>8. PlansFollow'
    BY <1>3, <2>6 DEF SendMessage, Inv, PlansFollow, Collected
  <2>9. SentFollow'
    BY <1>3, <2>2, <2>3, <2>4 DEF SendMessage, Inv, TypeOK, SentFollow, Collected
  <2>10. RunsFollow'
    BY <1>3, <2>2, <2>3, <2>4 DEF SendMessage, Inv, TypeOK, RunsFollow, Collected
  <2> QED
    BY <2>1, <2>7, <2>8, <2>9, <2>10 DEF Inv, RowsKept
<1>4. ASSUME NEW r \in Repo, NEW h \in Hook, SkipMessage(m, r, h) PROVE Inv' /\ RowsKept
  <2>1. RowsKept /\ RunsFollow'
    BY <1>4, NoRowWritten, RunsKept DEF SkipMessage
  <2>2. plan' \in [Monitor -> [Hook -> SUBSET Repo]]
        /\ \A n \in Monitor : plan'[n][Secondary] \subseteq plan[n][Secondary]
    BY <1>4 DEF SkipMessage, Inv, TypeOK
  <2>3. TypeOK'
    BY <1>4, <2>1, <2>2 DEF SkipMessage, Inv, TypeOK, RowsKept
  <2>4. PlansFollow' /\ SentFollow'
    BY <1>4, <2>2 DEF SkipMessage, Inv, PlansFollow, SentFollow, Collected
  <2> QED
    BY <2>1, <2>3, <2>4 DEF Inv, RowsKept
<1>5. CASE update_status_and_id(m)
  <2> DEFINE s == sent[m]
             w == MarkCollecting(row[s.repo], s.hook, s.run)
  <2>1. s # Null /\ s \in Sent
    BY <1>5 DEF update_status_and_id, Inv, TypeOK
  <2>2. s.repo \in Repo /\ s.hook \in Hook /\ s.run \in Run
    BY <2>1 DEF Sent
  <2>3. SoundRow(row[s.repo]) /\ row[s.repo] \in Row
    BY <2>2 DEF Inv, RowsSound, SoundRow
  <2>4. s.hook = Secondary => row[s.repo][Core].last # Never
    BY <2>1 DEF Inv, SentFollow, Collected
  <2>5. OneRow(s.repo, w)
    BY <1>5 DEF update_status_and_id, OneRow
  <2>6. SoundRow(w) /\ Kept(row[s.repo], w)
    BY <2>2, <2>3, <2>4, MarkCollectingSound, CollectingCoreKept
  <2> HIDE DEF w
  <2>7. RowsKept
    BY <2>2, <2>5, <2>6, OneRowWritten
  <2>8. RunsFollow'
    BY <1>5, <2>7, RunsKept DEF update_status_and_id
  <2>9. TypeOK'
    <3>1. sent' \in [Monitor -> Sent \cup {Null}]
          /\ \A n \in Monitor : sent'[n] = IF n = m THEN Null ELSE sent[n]
      BY <1>5 DEF update_status_and_id, Inv, TypeOK
    <3>2. mpc' \in [Monitor -> {"idle", "read", "send", "mark"}]
          /\ \A n \in Monitor : mpc'[n] = IF n = m THEN "send" ELSE mpc[n]
      BY <1>5 DEF update_status_and_id, Inv, TypeOK
    <3> QED
      BY <1>5, <2>7, <3>1, <3>2 DEF update_status_and_id, Inv, TypeOK, RowsKept
  <2>10. PlansFollow'
    BY <1>5, <2>7 DEF update_status_and_id, Inv, TypeOK, PlansFollow, RowsKept
  <2>11. SentFollow'
    <3>1. \A n \in Monitor : sent'[n] # Null => sent'[n] = sent[n] /\ sent[n].repo \in Repo
      BY <1>5 DEF update_status_and_id, Inv, TypeOK, Sent
    <3> QED
      BY <2>7, <3>1 DEF Inv, SentFollow, RowsKept, Collected
  <2> QED
    BY <2>7, <2>8, <2>9, <2>10, <2>11 DEF Inv, RowsKept
<1>6. CASE FinishMonitor(m)
  <2>1. RowsKept /\ RunsFollow'
    BY <1>6, NoRowWritten, RunsKept DEF FinishMonitor
  <2>2. TypeOK'
    BY <1>6, <2>1 DEF FinishMonitor, Inv, TypeOK, RowsKept
  <2>3. PlansFollow' /\ SentFollow'
    BY <1>6 DEF FinishMonitor, Inv, PlansFollow, SentFollow, Collected
  <2> QED
    BY <2>1, <2>2, <2>3 DEF Inv, RowsKept
<1>7. CASE AbortMonitor(m)
  <2>1. RowsKept /\ RunsFollow'
    BY <1>7, NoRowWritten, RunsKept DEF AbortMonitor
  <2>2. NoPlan \in [Hook -> SUBSET Repo] /\ NoPlan[Secondary] = {}
    BY DEF NoPlan
  <2>3. TypeOK'
    BY <1>7, <2>1, <2>2 DEF AbortMonitor, Inv, TypeOK, RowsKept
  <2>4. PlansFollow' /\ SentFollow'
    BY <1>7, <2>2 DEF AbortMonitor, Inv, TypeOK, PlansFollow, SentFollow, Collected
  <2> QED
    BY <2>1, <2>3, <2>4 DEF Inv, RowsKept
<1> QED
  BY <1>1, <1>2, <1>3, <1>4, <1>5, <1>6, <1>7 DEF MonitorStep

-----------------------------------------------------------------------------
\* The retries and the passing of time.
LEMMA InvRetry ==
  ASSUME Inv, retry_errored_repos \/ \E r \in Repo, h \in Hook : IntervalElapses(r, h)
  PROVE  Inv' /\ RowsKept
<1>1. \A r \in Repo : SoundRow(row[r]) /\ row[r] \in Row
  BY DEF Inv, RowsSound, SoundRow
<1>2. RowsKept
  <2>1. CASE retry_errored_repos
    <3>1. \A r \in Repo : /\ row'[r] = RetryRow(row[r])
                          /\ SoundRow(row'[r]) /\ row'[r] \in Row /\ Kept(row[r], row'[r])
      BY <1>1, <2>1, RetrySound DEF retry_errored_repos, RetryRow, SoundRow
    <3>2. row' \in [Repo -> Row]
      BY <2>1, <3>1 DEF retry_errored_repos
    <3> QED
      BY <3>1, <3>2 DEF RowsKept, RowsSound, Kept, Collected, NoneFailed
  <2>2. ASSUME NEW r \in Repo, NEW h \in Hook, IntervalElapses(r, h) PROVE RowsKept
    <3> DEFINE w == [row[r] EXCEPT ![h].last = Due]
    <3>1. SoundRow(w) /\ Kept(row[r], w)
      BY <1>1, <2>2, ElapsedSound, ElapsedCoreKept DEF IntervalElapses
    <3>2. OneRow(r, w)
      BY <2>2 DEF IntervalElapses, OneRow
    <3> HIDE DEF w
    <3> QED
      BY <3>1, <3>2, OneRowWritten
  <2> QED
    BY <2>1, <2>2
<1>3. UNCHANGED <<runs, monitorVars>>
  BY DEF retry_errored_repos, IntervalElapses
<1>4. runs' \in [Run -> Chain \cup {Null}] /\ RunsFollow'
  BY <1>2, <1>3, RunsKept DEF Inv, TypeOK
<1> QED
  BY <1>2, <1>3, <1>4, MonitorsAlone

\* The clean-up, where nobody has failed to clone.
LEMMA InvClean ==
  ASSUME Inv, NoneFailed, clean_collection_status
  PROVE  Inv' /\ RowsKept
<1>1. \A r \in Repo : SoundRow(row[r]) /\ row[r] \in Row /\ CloneNotFailed(row[r])
  BY DEF Inv, RowsSound, SoundRow, NoneFailed
<1>2. \A r \in Repo : /\ row'[r] = CleanRow(row[r])
                      /\ SoundRow(row'[r]) /\ row'[r] \in Row /\ Kept(row[r], row'[r])
  BY <1>1, CleanSound DEF clean_collection_status, CleanRow, SoundRow
<1>3. row' \in [Repo -> Row]
  BY <1>2 DEF clean_collection_status
<1>4. RowsKept
  BY <1>2, <1>3 DEF RowsKept, RowsSound, Kept, Collected, NoneFailed
<1>5. UNCHANGED <<runs, monitorVars>>
  BY DEF clean_collection_status
<1>6. runs' \in [Run -> Chain \cup {Null}] /\ RunsFollow'
  BY <1>4, <1>5, RunsKept DEF Inv, TypeOK
<1> QED
  BY <1>4, <1>5, <1>6, MonitorsAlone

\* Every step but the clean-up keeps the invariant, whoever else writes rows.
LEMMA InvSchedulerStep ==
  ASSUME Inv, SchedulerStep
  PROVE  Inv' /\ RowsKept
BY InvMonitor, InvRun, InvRetry DEF SchedulerStep

\* Nothing but the variables of the scheduler matters.
LEMMA InvUnchanged ==
  ASSUME Inv, UNCHANGED vars
  PROVE  Inv' /\ (NoneFailed => NoneFailed')
BY DEF vars, Inv, TypeOK, RowsSound, PlansFollow, SentFollow, RunsFollow, Collected, NoneFailed

\* Every step keeps the invariant.
LEMMA InvStep == Inv /\ NoneFailed /\ [Next]_vars => Inv' /\ NoneFailed'
<1> SUFFICES ASSUME Inv, NoneFailed, [Next]_vars PROVE Inv' /\ NoneFailed'
  OBVIOUS
<1>1. CASE SchedulerStep
  BY <1>1, InvSchedulerStep DEF RowsKept
<1>2. CASE clean_collection_status
  BY <1>2, InvClean DEF RowsKept
<1>3. CASE UNCHANGED vars
  BY <1>3, InvUnchanged
<1> QED
  BY <1>1, <1>2, <1>3 DEF Next

LEMMA InvAlways == Spec => [](Inv /\ NoneFailed)
  BY InvInit, InvStep, PTL DEF Spec

-----------------------------------------------------------------------------
\* The variables keep their types, and a monitor marks exactly what it sent.
THEOREM TypeCorrect == Spec => []TypeOK
<1>1. Inv => TypeOK
  BY DEF Inv
<1> QED
  BY <1>1, InvAlways, PTL

\* No interleaving of monitors, workers and recovery scripts writes a row that
\* the CHECK constraints of collection_status refuse.
THEOREM ConstraintsNeverRefuse == Spec => []ConstraintsHold
<1>1. Inv => ConstraintsHold
  BY SoundRowChecks DEF Inv, RowsSound, ConstraintsHold
<1> QED
  BY <1>1, InvAlways, PTL

\* retry_errored_repos and clean_collection_status are never refused either,
\* after any of their statements: both can run at any moment.
THEOREM RecoveryNeverRefused == Spec => []RecoveryAccepted
<1>1. ASSUME Inv, NoneFailed, NEW r \in Repo, NEW n \in Nat
      PROVE  Checks(RetryAfter(row[r], n)) /\ Checks(CleanAfter(row[r], n))
  <2>1. SoundRow(row[r]) /\ CloneNotFailed(row[r])
    BY <1>1 DEF Inv, RowsSound, NoneFailed
  <2> QED
    BY <2>1, SoundRowChecks, RetrySound, CleanSound
<1>2. ASSUME NEW h \in Hook, NEW c
      PROVE  RetryStatement(h, c) \in Nat /\ CleanStatement(h, c) \in Nat
  BY DEF RetryStatement, CleanStatement, RetryOrder, CleanOrder
<1>3. Inv /\ NoneFailed => RecoveryAccepted
  BY <1>1, <1>2 DEF RecoveryAccepted
<1> QED
  BY <1>3, InvAlways, PTL

\* Secondary collection never comes before core collection.
THEOREM CoreAlwaysFirst == Spec => []CoreCollectedFirst
<1>1. Inv => CoreCollectedFirst
  <2> SUFFICES ASSUME Inv, NEW r \in Repo,
                      Underway(r, Secondary) \/ row[r][Secondary].status # "Pending"
               PROVE  Collected(r)
    BY DEF CoreCollectedFirst, Collected
  <2>1. CASE Underway(r, Secondary)
    BY <2>1 DEF Underway, HeldBy, RunOf, Inv, PlansFollow, SentFollow, RunsFollow
  <2>2. CASE row[r][Secondary].status # "Pending"
    BY <2>2 DEF Inv, RowsSound, SoundRow, CoreFirst, Collected
  <2> QED
    BY <2>1, <2>2
<1> QED
  BY <1>1, InvAlways, PTL

-----------------------------------------------------------------------------
\* A step starts no run, or chooses and sends nothing.
NoNewRun ==
    \A c \in Run : runs'[c] # Null =>
        runs[c] # Null /\ runs'[c].repo = runs[c].repo /\ runs'[c].hook = runs[c].hook
NothingChosen ==
    \A m \in Monitor :
        /\ \A h \in Hook : plan'[m][h] \subseteq plan[m][h]
        /\ sent'[m] # Null => sent'[m] = sent[m]

\* Then nothing new is underway.
LEMMA NotUnderwayKept ==
  ASSUME NoNewRun, NothingChosen, NEW r \in Repo, NEW h \in Hook, ~ Underway(r, h)
  PROVE  ~ Underway(r, h)'
  BY DEF NoNewRun, NothingChosen, Underway, HeldBy, RunOf

\* A worker, a failure or a lost run changes one run.
LEMMA RunStartsNone ==
  ASSUME TypeOK, NEW c \in Run,
         \/ RunStep(c) \/ PrelimFails(c) \/ PrelimGone(c) \/ PrelimOnFailure(c)
         \/ JobFails(c) \/ JobFailsSilently(c) \/ LoseRun(c)
  PROVE  /\ NoNewRun /\ NothingChosen /\ runs[c] # Null
         /\ UNCHANGED monitorVars /\ runs' \in [Run -> Chain \cup {Null}]
<1>1. runs[c] # Null /\ UNCHANGED monitorVars
  BY DEF RunStep, PrelimFinds, PrelimFails, PrelimGone, PrelimOnFailure, JobSucceeds,
         JobFails, JobFailsSilently, TaskSuccessUtil, LoseRun, AtStage
<1>2. NothingChosen
  BY <1>1 DEF monitorVars, NothingChosen
<1>3. ASSUME NEW d \in Chain \cup {Null}, OneRun(c, d),
             d # Null => d.repo = runs[c].repo /\ d.hook = runs[c].hook
      PROVE  NoNewRun /\ runs' \in [Run -> Chain \cup {Null}]
  BY <1>1, <1>3 DEF TypeOK, OneRun, NoNewRun
<1>4. CASE JobFails(c) \/ JobFailsSilently(c)
  <2>1. PICK n \in 0 .. runs[c].left - 1 : OneRun(c, AfterJob(c, n, TRUE))
    BY <1>4 DEF JobFails, JobFailsSilently, JobStops, OneRun
  <2>2. n \in Int /\ n <= Jobs
    BY <1>1, ConstantsAssumption DEF ConstantsAssumption, TypeOK, Chain
  <2> QED
    BY <1>1, <1>2, <1>3, <2>1, <2>2, AfterJobChain
<1>5. CASE JobSucceeds(c)
  <2> DEFINE n == runs[c].left - 1
  <2>1. n \in Int /\ n <= Jobs /\ runs[c].broken \in BOOLEAN
    BY <1>1, ConstantsAssumption DEF ConstantsAssumption, TypeOK, Chain
  <2>2. OneRun(c, AfterJob(c, n, runs[c].broken))
    BY <1>5 DEF JobSucceeds, OneRun
  <2> HIDE DEF n
  <2> QED
    BY <1>1, <1>2, <1>3, <2>1, <2>2, AfterJobChain
<1>6. CASE PrelimOnFailure(c) \/ LoseRun(c)
  <2>1. OneRun(c, Null)
    BY <1>6 DEF PrelimOnFailure, LoseRun, OneRun
  <2> QED
    BY <1>1, <1>2, <1>3, <2>1
<1>7. CASE PrelimFinds(c) \/ PrelimFails(c) \/ PrelimGone(c) \/ TaskSuccessUtil(c)
  <2>1. OneRun(c, Null) \/ \E s \in Stage : OneRun(c, [runs[c] EXCEPT !.stage = s])
    BY <1>7 DEF PrelimFinds, PrelimFails, PrelimGone, TaskSuccessUtil, OneRun, Stage
  <2> QED
    BY <1>1, <1>2, <1>3, <2>1, StageChanged
<1> QED
  BY <1>4, <1>5, <1>6, <1>7 DEF RunStep

\* It writes the hook of its own run only, unless it gives the repository up
\* or finds that there is no running collection to fail.
LEMMA RunWritesItsHook ==
  ASSUME Inv, NEW c \in Run,
         \/ RunStep(c) \/ PrelimFails(c) \/ PrelimGone(c) \/ PrelimOnFailure(c)
         \/ JobFails(c) \/ JobFailsSilently(c) \/ LoseRun(c),
         NEW r \in Repo, NEW h \in Hook,
         row[r][h].status = "Ignore", ~ RunOf(c, r, h)
  PROVE  row'[r][h].status = "Ignore"
<1> DEFINE q == runs[c].repo
           g == runs[c].hook
<1>1. runs[c] # Null
  BY RunStartsNone DEF Inv
<1>2. /\ q \in Repo /\ g \in Hook /\ q = r => g # h
      /\ row \in [Repo -> Row] /\ row[q] \in Row /\ row[q] \in [Hook -> Cell]
  BY <1>1 DEF Inv, TypeOK, Chain, RunOf, Row
<1>3. CASE UNCHANGED row
  BY <1>3
<1>4. CASE row' = [row EXCEPT ![q] = MarkIgnore]
  BY <1>2, <1>4 DEF MarkIgnore
<1>5. CASE row' = [row EXCEPT ![q] = MarkSuccess(@, g)]
  <2>1. q = r => MarkSuccess(row[q], g)[h] = row[r][h]
    BY <1>2 DEF MarkSuccess
  <2> QED
    BY <1>2, <1>5, <2>1
<1>6. ASSUME NEW k \in Hook, OneRow(q, HandleTaskFailure(row[q], k))
      PROVE  row'[r][h].status = "Ignore"
  <2>1. q = r => HandleTaskFailure(row[q], k)[h] = row[r][h]
    BY <1>2 DEF HandleTaskFailure
  <2> QED
    BY <1>2, <1>6, <2>1 DEF OneRow
<1>7. CASE \/ PrelimFinds(c) \/ PrelimFails(c) \/ JobSucceeds(c) \/ JobFailsSilently(c)
           \/ LoseRun(c)
  BY <1>3, <1>7
  DEF PrelimFinds, PrelimFails, JobSucceeds, JobFailsSilently, LoseRun
<1>8. CASE PrelimGone(c)
  BY <1>4, <1>8 DEF PrelimGone
<1>9. CASE TaskSuccessUtil(c)
  BY <1>5, <1>9 DEF TaskSuccessUtil
<1>10. CASE PrelimOnFailure(c) \/ JobFails(c)
  <2>1. OneRow(q, HandleTaskFailure(row[q], g))
    BY <1>10 DEF PrelimOnFailure, JobFails, OneRow
  <2>2. g \in Hook
    BY <1>1 DEF Inv, TypeOK, Chain
  <2> HIDE DEF q, g
  <2> QED
    BY <1>6, <2>1, <2>2
<1> QED
  BY <1>7, <1>8, <1>9, <1>10 DEF RunStep

\* A recovery script leaves a hook alone that is given up.
LEMMA RecoveryLeavesIgnore ==
  ASSUME NEW w \in Row, NEW h \in Hook, w[h].status = "Ignore"
  PROVE  RetryRow(w)[h].status = "Ignore" /\ CleanRow(w)[h].status = "Ignore"
<1>1. RetryCell(w[h]) = w[h] /\ CleanCell(h, w[h]) = w[h]
  BY DEF RetryCell, CleanCell
<1> QED
  BY <1>1 DEF RetryRow, RetryAfter, CleanRow, CleanAfter

\* Every step leaves a hook alone that is given up and not underway.
LEMMA IgnoreStep == Inv /\ [Next]_vars => IgnoreKept
<1> SUFFICES ASSUME Inv, [Next]_vars, NEW r \in Repo, NEW h \in Hook,
                    row[r][h].status = "Ignore", ~ Underway(r, h)
             PROVE  row'[r][h].status = "Ignore" /\ ~ Underway(r, h)'
  BY DEF IgnoreKept
<1> USE HookNames
<1>1. row \in [Repo -> Row] /\ row[r] \in Row
  BY DEF Inv, TypeOK
<1>2. CASE UNCHANGED vars
  BY <1>2 DEF vars, Underway, HeldBy, RunOf
<1>3. ASSUME NEW c \in Run,
             \/ RunStep(c) \/ PrelimFails(c) \/ PrelimGone(c) \/ PrelimOnFailure(c)
             \/ JobFails(c) \/ JobFailsSilently(c) \/ LoseRun(c)
      PROVE  row'[r][h].status = "Ignore" /\ ~ Underway(r, h)'
  <2>1. NoNewRun /\ NothingChosen
    BY <1>3, RunStartsNone DEF Inv
  <2>2. ~ RunOf(c, r, h)
    BY DEF Underway
  <2>3. row'[r][h].status = "Ignore"
    BY <1>3, <2>2, RunWritesItsHook
  <2> QED
    BY <2>1, <2>3, NotUnderwayKept
<1>4. CASE \/ retry_errored_repos \/ clean_collection_status
           \/ \E q \in Repo, g \in Hook : IntervalElapses(q, g)
  <2>1. NoNewRun /\ NothingChosen
    BY <1>4 DEF retry_errored_repos, clean_collection_status, IntervalElapses, monitorVars,
                NoNewRun, NothingChosen
  <2>2. row'[r][h].status = "Ignore"
    <3>1. CASE retry_errored_repos
      BY <1>1, <3>1, RecoveryLeavesIgnore DEF retry_errored_repos
    <3>2. CASE clean_collection_status
      BY <1>1, <3>2, RecoveryLeavesIgnore DEF clean_collection_status
    <3>3. ASSUME NEW q \in Repo, NEW g \in Hook, IntervalElapses(q, g)
          PROVE  row'[r][h].status = "Ignore"
      <4>1. row \in [Repo -> [Hook -> Cell]]
        BY <1>1 DEF Row
      <4>2. CASE q = r /\ g = h
        <5>1. row'[r][h] = [row[r][h] EXCEPT !.last = Due]
          BY <3>3, <4>1, <4>2 DEF IntervalElapses
        <5>2. row[r][h] \in Cell
          BY <4>1
        <5> QED
          BY <5>1, <5>2 DEF Cell
      <4>3. CASE ~ (q = r /\ g = h)
        <5>1. row'[r][h] = row[r][h]
          BY <3>3, <4>1, <4>3 DEF IntervalElapses
        <5> QED
          BY <5>1
      <4> QED
        BY <4>2, <4>3
    <3> QED
      BY <1>4, <3>1, <3>2, <3>3
  <2> QED
    BY <2>1, <2>2, NotUnderwayKept
<1>5. ASSUME NEW m \in Monitor,
             \/ StartMonitor(m) \/ FinishMonitor(m) \/ AbortMonitor(m)
             \/ \E q \in Repo, g \in Hook : SkipMessage(m, q, g)
      PROVE  row'[r][h].status = "Ignore" /\ ~ Underway(r, h)'
  <2>1. UNCHANGED row /\ NoNewRun
    BY <1>5 DEF StartMonitor, FinishMonitor, AbortMonitor, SkipMessage, NoNewRun
  <2>2. ASSUME StartMonitor(m) \/ FinishMonitor(m) PROVE NothingChosen
    BY <2>2 DEF StartMonitor, FinishMonitor, NothingChosen
  <2>3. ASSUME AbortMonitor(m) PROVE NothingChosen
    <3>1. \A n \in Monitor, k \in Hook : plan'[n][k] \subseteq plan[n][k]
      BY <2>3 DEF AbortMonitor, NoPlan, Inv, TypeOK
    <3>2. \A n \in Monitor : sent'[n] # Null => sent'[n] = sent[n]
      BY <2>3 DEF AbortMonitor, Inv, TypeOK
    <3> QED
      BY <3>1, <3>2 DEF NothingChosen
  <2>4. ASSUME NEW q \in Repo, NEW g \in Hook, SkipMessage(m, q, g) PROVE NothingChosen
    <3>1. \A n \in Monitor, k \in Hook : plan'[n][k] \subseteq plan[n][k]
      BY <2>4 DEF SkipMessage, Inv, TypeOK
    <3> QED
      BY <2>4, <3>1 DEF SkipMessage, NothingChosen
  <2>5. NothingChosen
    BY <1>5, <2>2, <2>3, <2>4
  <2> QED
    BY <2>1, <2>5, NotUnderwayKept
<1>6. ASSUME NEW m \in Monitor, NEW g \in Hook, BuildRequest(m, g)
      PROVE  row'[r][h].status = "Ignore" /\ ~ Underway(r, h)'
  <2>1. PICK rs \in get_valid_repos(g) : plan' = [plan EXCEPT ![m][g] = rs]
    BY <1>6 DEF BuildRequest
  <2>2. r \notin rs \/ g # h
    BY ChosenCollected
  <2>3. \A n \in Monitor : r \in plan'[n][h] => r \in plan[n][h]
    BY <2>1, <2>2 DEF Inv, TypeOK
  <2> QED
    BY <1>6, <2>3 DEF BuildRequest, Underway, HeldBy, RunOf
<1>7. ASSUME NEW m \in Monitor, NEW q \in Repo, NEW g \in Hook, NEW c \in Run,
             SendMessage(m, q, g, c)
      PROVE  row'[r][h].status = "Ignore" /\ ~ Underway(r, h)'
  <2>1. q # r \/ g # h
    BY <1>7 DEF SendMessage, Underway, HeldBy
  <2>2. \A n \in Monitor : ~ HeldBy(n, r, h)'
    <3>1. \A n \in Monitor : r \notin plan'[n][h]
      BY <1>7 DEF SendMessage, Underway, HeldBy, Inv, TypeOK
    <3>2. \A n \in Monitor : sent'[n] = IF n = m THEN [repo |-> q, hook |-> g, run |-> c]
                                        ELSE sent[n]
      BY <1>7 DEF SendMessage, Inv, TypeOK
    <3> QED
      BY <2>1, <3>1, <3>2 DEF Underway, HeldBy
  <2>3. \A b \in Run : ~ RunOf(b, r, h)'
    <3>1. \A b \in Run : b # c => runs'[b] = runs[b]
      BY <1>7 DEF SendMessage, Inv, TypeOK
    <3>2. runs'[c].repo = q /\ runs'[c].hook = g
      BY <1>7 DEF SendMessage, Inv, TypeOK
    <3> QED
      BY <2>1, <3>1, <3>2 DEF Underway, RunOf
  <2> QED
    BY <1>7, <2>2, <2>3 DEF SendMessage, Underway
<1>8. ASSUME NEW m \in Monitor, update_status_and_id(m)
      PROVE  row'[r][h].status = "Ignore" /\ ~ Underway(r, h)'
  <2> DEFINE s == sent[m]
  <2>1. s # Null /\ s \in Sent
    BY <1>8 DEF update_status_and_id, Inv, TypeOK
  <2>2. s.repo # r \/ s.hook # h
    BY <2>1 DEF Underway, HeldBy
  <2>3. row[s.repo] \in [Hook -> Cell] /\ s.repo \in Repo /\ s.hook \in Hook
    BY <2>1 DEF Sent, Inv, TypeOK, Row
  <2>4. s.repo = r => MarkCollecting(row[s.repo], s.hook, s.run)[h] = row[r][h]
    BY <2>2, <2>3 DEF MarkCollecting
  <2>5. row'[r][h].status = "Ignore"
    BY <1>1, <1>8, <2>3, <2>4 DEF update_status_and_id
  <2>6. NoNewRun /\ NothingChosen
    BY <1>8 DEF update_status_and_id, NoNewRun, NothingChosen, Inv, TypeOK
  <2> QED
    BY <2>5, <2>6, NotUnderwayKept
<1> QED
  BY <1>2, <1>3, <1>4, <1>5, <1>6, <1>7, <1>8 DEF Next, SchedulerStep, MonitorStep

\* A repository that answered 404 is not taken up again once nothing that was
\* chosen or sent before is left.
THEOREM IgnoreStaysStable == Spec => IgnoreIsStable
  BY InvAlways, IgnoreStep, PTL DEF Spec, IgnoreIsStable

-----------------------------------------------------------------------------
(***************************************************************************)
(* Proof that overlapping monitors fill at most the room each of them saw, *)
(* for finite sets of repositories and monitors of any size.               *)
(*                                                                         *)
(* A monitor counts the active repositories once and takes up to max_repo  *)
(* later on.  The invariant counts what is active together with what every *)
(* monitor holds.  When a monitor looks it holds nothing, and each of the  *)
(* others holds no more than max_repo: the sum stays in bounds whatever    *)
(* the others do before its rows are written.                              *)
(***************************************************************************)

\* What monitor m has chosen or sent for hook h, and what all monitors have.
Claims(m, h) == {r \in Repo : HeldBy(m, r, h)}
ClaimsOf(M, h) == {p \in M \X Repo : HeldBy(p[1], p[2], h)}

ClaimsFit(h) == \A m \in Monitor : Cardinality(Claims(m, h)) <= MaxRepo[h]

RoomFits(h) ==
    Cardinality(ActiveRepos(h)) + Cardinality(ClaimsOf(Monitor, h))
        <= MaxRepo[h] * Cardinality(Monitor)

\* A monitor holds nothing for a hook before it has read its candidates, and
\* does not send a repository that it has sent already.
HeldInTurn ==
    \A m \in Monitor :
        /\ mpc[m] = "idle" => \A h \in Hook : plan[m][h] = {}
        /\ mpc[m] = "read" => \A h \in toRead[m] : plan[m][h] = {}
        /\ sent[m] # Null => sent[m].repo \notin plan[m][sent[m].hook]

RoomInv ==
    /\ Inv
    /\ HeldInTurn
    /\ \A h \in Hook : ClaimsFit(h) /\ RoomFits(h)

-----------------------------------------------------------------------------
\* A finite set of pairs with at most k of them for each first component.
LEMMA FewForEach ==
  ASSUME NEW T, IsFiniteSet(T), NEW R, IsFiniteSet(R), NEW k \in Nat,
         NEW Z \in SUBSET (T \X R),
         \A t \in T : Cardinality({r \in R : <<t, r>> \in Z}) <= k
  PROVE  Cardinality(Z) <= Cardinality(T) * k
<1> DEFINE col(t) == {r \in R : <<t, r>> \in Z}
           f == [t \in T |-> CHOOSE g \in [col(t) -> 1 .. k] :
                                \A a, b \in col(t) : g[a] = g[b] => a = b]
           F == [z \in Z |-> <<z[1], f[z[1]][z[2]]>>]
<1>1. ASSUME NEW t \in T
      PROVE  \E g \in [col(t) -> 1 .. k] : \A a, b \in col(t) : g[a] = g[b] => a = b
  <2> DEFINE n == Cardinality(col(t))
  <2>1. IsFiniteSet(col(t))
    <3>1. col(t) \in SUBSET R
      OBVIOUS
    <3> QED
      BY <3>1, FS_Subset
  <2>2. n \in Nat /\ n <= k /\ ExistsBijection(1 .. n, col(t))
    BY <2>1, FS_CardinalityType
  <2> HIDE DEF n, col
  <2>3. PICK e \in [1 .. n -> col(t)] : \A c \in col(t) : \E i \in 1 .. n : e[i] = c
    BY <2>2 DEF ExistsBijection, Bijection, Injection, Surjection
  <2> DEFINE g == [c \in col(t) |-> CHOOSE i \in 1 .. n : e[i] = c]
  <2>4. \A c \in col(t) : g[c] \in 1 .. n /\ e[g[c]] = c
    BY <2>3
  <2>5. g \in [col(t) -> 1 .. k]
    BY <2>2, <2>4
  <2>6. \A a, b \in col(t) : g[a] = g[b] => a = b
    BY <2>4
  <2> HIDE DEF g
  <2> QED
    BY <2>5, <2>6
<1>2. \A t \in T : f[t] \in [col(t) -> 1 .. k]
                   /\ \A a, b \in col(t) : f[t][a] = f[t][b] => a = b
  BY <1>1
<1>3. \A z \in Z : z[1] \in T /\ z[2] \in col(z[1]) /\ z = <<z[1], z[2]>>
  OBVIOUS
<1> HIDE DEF f, col
<1>4. \A z \in Z : F[z] = <<z[1], f[z[1]][z[2]]>> /\ F[z] \in T \X (1 .. k)
  BY <1>2, <1>3
<1>5. F \in [Z -> T \X (1 .. k)]
  BY <1>4
<1>6. \A y, z \in Z : F[y] = F[z] => y = z
  <2> SUFFICES ASSUME NEW y \in Z, NEW z \in Z, F[y] = F[z] PROVE y = z
    OBVIOUS
  <2>1. y[1] = z[1] /\ f[y[1]][y[2]] = f[z[1]][z[2]]
    BY <1>4
  <2> QED
    BY <1>2, <1>3, <2>1
<1>7. F \in Injection(Z, T \X (1 .. k))
  <2> HIDE DEF F
  <2> QED
    BY <1>5, <1>6 DEF Injection, IsInjective
<1>8. IsFiniteSet(1 .. k) /\ Cardinality(1 .. k) = k
  BY FS_Interval
<1>9. IsFiniteSet(T \X (1 .. k)) /\ Cardinality(T \X (1 .. k)) = Cardinality(T) * k
  BY <1>8, FS_Product
<1> HIDE DEF F
<1> QED
  BY <1>7, <1>9, FS_Injection

-----------------------------------------------------------------------------
\* What is counted is finite.
LEMMA CountsFinite ==
  ASSUME NEW h, NEW M \in SUBSET Monitor
  PROVE  /\ IsFiniteSet(ActiveRepos(h)) /\ Cardinality(ActiveRepos(h)) \in Nat
         /\ IsFiniteSet(ClaimsOf(M, h)) /\ Cardinality(ClaimsOf(M, h)) \in Nat
         /\ IsFiniteSet(M) /\ Cardinality(M) \in Nat
         /\ \A m : IsFiniteSet(Claims(m, h)) /\ Cardinality(Claims(m, h)) \in Nat
<1>1. ActiveRepos(h) \in SUBSET Repo /\ \A m : Claims(m, h) \in SUBSET Repo
  BY DEF ActiveRepos, Claims
<1>2. IsFiniteSet(M)
  BY FiniteAssumption, FS_Subset DEF FiniteAssumption
<1>3. IsFiniteSet(M \X Repo)
  BY <1>2, FiniteAssumption, FS_Product DEF FiniteAssumption
<1>4. ClaimsOf(M, h) \in SUBSET (M \X Repo)
  BY DEF ClaimsOf
<1>5. IsFiniteSet(Repo)
  BY FiniteAssumption DEF FiniteAssumption
<1>6. IsFiniteSet(ActiveRepos(h)) /\ IsFiniteSet(ClaimsOf(M, h))
      /\ \A m : IsFiniteSet(Claims(m, h))
  BY <1>1, <1>3, <1>4, <1>5, FS_Subset
<1> QED
  BY <1>2, <1>6, FS_CardinalityType

\* The same in the next state.
LEMMA CountsFiniteNext ==
  ASSUME NEW h, NEW M \in SUBSET Monitor
  PROVE  /\ IsFiniteSet(ActiveRepos(h)') /\ Cardinality(ActiveRepos(h)') \in Nat
         /\ IsFiniteSet(ClaimsOf(M, h)') /\ Cardinality(ClaimsOf(M, h)') \in Nat
         /\ \A m : IsFiniteSet(Claims(m, h)') /\ Cardinality(Claims(m, h)') \in Nat
<1>1. ActiveRepos(h)' \in SUBSET Repo /\ \A m : Claims(m, h)' \in SUBSET Repo
  BY DEF ActiveRepos, Claims
<1>2. IsFiniteSet(M \X Repo) /\ IsFiniteSet(Repo)
  BY CountsFinite, FiniteAssumption, FS_Product DEF FiniteAssumption
<1>3. ClaimsOf(M, h)' \in SUBSET (M \X Repo)
  BY DEF ClaimsOf
<1>4. IsFiniteSet(ActiveRepos(h)') /\ IsFiniteSet(ClaimsOf(M, h)')
      /\ \A m : IsFiniteSet(Claims(m, h)')
  BY <1>1, <1>2, <1>3, FS_Subset
<1> QED
  BY <1>4, FS_CardinalityType

\* Each monitor but one holds no more than max_repo.
LEMMA OthersFit ==
  ASSUME NEW h \in Hook, ClaimsFit(h), NEW m \in Monitor
  PROVE  Cardinality(ClaimsOf(Monitor \ {m}, h)) + MaxRepo[h]
            <= MaxRepo[h] * Cardinality(Monitor)
<1> DEFINE others == Monitor \ {m}
           n == Cardinality(others)
           k == MaxRepo[h]
<1>1. k \in Nat /\ IsFiniteSet(Repo) /\ IsFiniteSet(Monitor)
  BY ConstantsAssumption, FiniteAssumption DEF ConstantsAssumption, FiniteAssumption
<1>2. IsFiniteSet(others) /\ n \in Nat /\ Cardinality(Monitor) = n + 1
  <2>1. IsFiniteSet(others) /\ n = Cardinality(Monitor) - 1
    BY <1>1, FS_RemoveElement
  <2>2. n \in Nat /\ Cardinality(Monitor) \in Nat
    BY <1>1, <2>1, FS_CardinalityType
  <2> QED
    BY <2>1, <2>2
<1>3. ClaimsOf(others, h) \in SUBSET (others \X Repo)
  BY DEF ClaimsOf
<1>4. ASSUME NEW o \in others
      PROVE  Cardinality({r \in Repo : <<o, r>> \in ClaimsOf(others, h)}) <= k
  <2>1. {r \in Repo : <<o, r>> \in ClaimsOf(others, h)} = Claims(o, h)
    BY DEF ClaimsOf, Claims
  <2> QED
    BY <2>1 DEF ClaimsFit
<1> HIDE DEF others, n, k
<1>5. Cardinality(ClaimsOf(others, h)) <= n * k
  BY <1>1, <1>2, <1>3, <1>4, FewForEach DEF n
<1>6. Cardinality(ClaimsOf(others, h)) \in Nat
  BY CountsFinite DEF others
<1>7. n * k + k = k * (n + 1) /\ n * k \in Nat
  BY <1>1, <1>2
<1>8. Cardinality(ClaimsOf(others, h)) + k <= k * (n + 1)
  BY <1>1, <1>5, <1>6, <1>7
<1> QED
  BY <1>2, <1>8 DEF others, k

\* A step that makes nothing active and chooses nothing for a hook.
LEMMA NothingTaken ==
  ASSUME NEW h \in Hook, ClaimsFit(h), RoomFits(h),
         ActiveRepos(h)' \subseteq ActiveRepos(h),
         \A m \in Monitor, r \in Repo : HeldBy(m, r, h)' => HeldBy(m, r, h)
  PROVE  ClaimsFit(h)' /\ RoomFits(h)'
<1>1. MaxRepo[h] * Cardinality(Monitor) \in Int /\ MaxRepo[h] \in Nat
  <2>1. MaxRepo[h] \in Nat /\ Cardinality(Monitor) \in Nat
    BY ConstantsAssumption, CountsFinite DEF ConstantsAssumption
  <2> QED
    BY <2>1
<1>2. Cardinality(ActiveRepos(h)') <= Cardinality(ActiveRepos(h))
  BY CountsFinite, FS_Subset
<1>3. Cardinality(ClaimsOf(Monitor, h)') <= Cardinality(ClaimsOf(Monitor, h))
  <2>1. ClaimsOf(Monitor, h)' \subseteq ClaimsOf(Monitor, h)
    BY DEF ClaimsOf
  <2> QED
    BY <2>1, CountsFinite, FS_Subset
<1>4. ASSUME NEW m \in Monitor
      PROVE  Cardinality(Claims(m, h)') <= Cardinality(Claims(m, h))
  <2>1. Claims(m, h)' \subseteq Claims(m, h)
    BY DEF Claims
  <2> QED
    BY <2>1, CountsFinite, FS_Subset
<1>5. ClaimsFit(h)'
  <2> SUFFICES ASSUME NEW m \in Monitor PROVE Cardinality(Claims(m, h)') <= MaxRepo[h]
    BY DEF ClaimsFit
  <2>1. Cardinality(Claims(m, h)') \in Nat /\ Cardinality(Claims(m, h)) \in Nat
    BY CountsFinite, CountsFiniteNext
  <2> QED
    BY <1>1, <1>4, <2>1 DEF ClaimsFit
<1>6. RoomFits(h)'
  BY <1>1, <1>2, <1>3, CountsFinite, CountsFiniteNext DEF RoomFits
<1> QED
  BY <1>5, <1>6

-----------------------------------------------------------------------------
\* Workers, failures and scripts make nothing active.
LEMMA RunActivatesNone ==
  ASSUME Inv, NEW c \in Run,
         \/ RunStep(c) \/ PrelimFails(c) \/ PrelimGone(c) \/ PrelimOnFailure(c)
         \/ JobFails(c) \/ JobFailsSilently(c) \/ LoseRun(c),
         NEW h \in Hook
  PROVE  ActiveRepos(h)' \subseteq ActiveRepos(h) /\ UNCHANGED monitorVars
<1> DEFINE q == runs[c].repo
           g == runs[c].hook
<1>1. runs[c] # Null /\ UNCHANGED monitorVars
  BY DEF RunStep, PrelimFinds, PrelimFails, PrelimGone, PrelimOnFailure, JobSucceeds,
         JobFails, JobFailsSilently, TaskSuccessUtil, LoseRun, AtStage
<1>2. q \in Repo /\ g \in Hook /\ row \in [Repo -> Row] /\ row \in [Repo -> [Hook -> Cell]]
  BY <1>1 DEF Inv, TypeOK, Chain, Row
<1>3. CASE UNCHANGED row
  BY <1>1, <1>3 DEF ActiveRepos
<1>4. ASSUME NEW w \in [Hook -> Cell], OneRow(q, w),
             w[h].status = "Collecting" => row[q][h].status = "Collecting"
      PROVE  ActiveRepos(h)' \subseteq ActiveRepos(h)
  BY <1>2, <1>4 DEF OneRow, ActiveRepos
<1>5. CASE PrelimGone(c)
  <2>1. OneRow(q, MarkIgnore) /\ MarkIgnore \in [Hook -> Cell]
        /\ MarkIgnore[h].status = "Ignore"
    BY <1>5 DEF PrelimGone, OneRow, MarkIgnore, Cell, Status, LastCollected, Fresh
  <2> QED
    BY <1>1, <1>4, <2>1
<1>6. CASE TaskSuccessUtil(c)
  <2> DEFINE w == MarkSuccess(row[q], g)
  <2>1. OneRow(q, w)
    BY <1>6 DEF TaskSuccessUtil, OneRow
  <2>2. w \in [Hook -> Cell]
        /\ (w[h].status = "Collecting" => row[q][h].status = "Collecting")
    BY <1>2 DEF MarkSuccess, Cell, Status, LastCollected, Fresh
  <2> HIDE DEF w
  <2> QED
    BY <1>1, <1>4, <2>1, <2>2
<1>7. CASE PrelimOnFailure(c) \/ JobFails(c)
  <2> DEFINE w == HandleTaskFailure(row[q], g)
  <2>1. OneRow(q, w)
    BY <1>7 DEF PrelimOnFailure, JobFails, OneRow
  <2>2. w \in [Hook -> Cell]
        /\ (w[h].status = "Collecting" => row[q][h].status = "Collecting")
    <3>1. CASE row[q][g].status \in {"Collecting", "Initializing"}
      <4> DEFINE d == [row[q][g] EXCEPT !.status = "Error", !.task = Null]
      <4>1. d \in Cell /\ d.status = "Error"
        <5>1. row[q][g] \in Cell
          BY <1>2
        <5> HIDE DEF q, g
        <5> QED
          BY <5>1 DEF Cell, Status
      <4>2. w = [row[q] EXCEPT ![g] = d]
        BY <1>2, <3>1 DEF HandleTaskFailure
      <4> HIDE DEF d, w
      <4> QED
        BY <1>2, <4>1, <4>2
    <3>2. CASE ~ (row[q][g].status \in {"Collecting", "Initializing"})
      BY <1>2, <3>2 DEF HandleTaskFailure
    <3> QED
      BY <3>1, <3>2
  <2> HIDE DEF w
  <2> QED
    BY <1>1, <1>4, <2>1, <2>2
<1> QED
  BY <1>1, <1>3, <1>5, <1>6, <1>7
  DEF RunStep, PrelimFinds, PrelimFails, JobSucceeds, JobFailsSilently, LoseRun

LEMMA RecoveryActivatesNone ==
  ASSUME Inv, NEW h \in Hook,
         \/ retry_errored_repos \/ clean_collection_status
         \/ \E q \in Repo, g \in Hook : IntervalElapses(q, g)
  PROVE  ActiveRepos(h)' \subseteq ActiveRepos(h) /\ UNCHANGED monitorVars
<1>1. UNCHANGED monitorVars
  BY DEF retry_errored_repos, clean_collection_status, IntervalElapses
<1>2. \A r \in Repo : row[r][h] \in Cell
  BY DEF Inv, TypeOK, Row
<1> SUFFICES ASSUME NEW r \in Repo, row'[r][h].status = "Collecting"
             PROVE  row[r][h].status = "Collecting"
  BY <1>1 DEF ActiveRepos
<1>3. CASE retry_errored_repos
  <2>1. row'[r][h] \in {row[r][h], RetryCell(row[r][h])}
    BY <1>3 DEF retry_errored_repos, RetryRow, RetryAfter
  <2> QED
    BY <1>2, <2>1 DEF RetryCell, Cell
<1>4. CASE clean_collection_status
  <2>1. row'[r][h] \in {row[r][h], CleanCell(h, row[r][h])}
    BY <1>4 DEF clean_collection_status, CleanRow, CleanAfter
  <2>2. CleanCell(h, row[r][h]).status = "Collecting" => row[r][h].status = "Collecting"
    <3>1. CASE row[r][h].status = "Collecting"
      BY <3>1
    <3>2. CASE row[r][h].status # "Collecting"
      BY <1>2, <3>2 DEF CleanCell, Cell
    <3> QED
      BY <3>1, <3>2
  <2> QED
    BY <2>1, <2>2
<1>5. ASSUME NEW q \in Repo, NEW g \in Hook, IntervalElapses(q, g)
      PROVE  row[r][h].status = "Collecting"
  <2>1. row \in [Repo -> [Hook -> Cell]]
    BY DEF Inv, TypeOK, Row
  <2>2. row'[r][h] \in {row[r][h], [row[r][h] EXCEPT !.last = Due]}
    BY <1>5, <2>1 DEF IntervalElapses
  <2> QED
    BY <1>2, <2>2 DEF Cell
<1> QED
  BY <1>3, <1>4, <1>5

\* A monitor takes no more than the room it sees.
LEMMA ChosenFit ==
  ASSUME Inv, NEW h \in Hook, NEW rs \in get_valid_repos(h)
  PROVE  /\ rs \subseteq Repo
         /\ Cardinality(rs) <= MaxRepo[h]
         /\ rs # {} => Cardinality(ActiveRepos(h)) + Cardinality(rs) <= MaxRepo[h]
<1> DEFINE k == MaxRepo[h]
           a == Cardinality(ActiveRepos(h))
           limit == k - a
<1>1. k \in Nat /\ a \in Nat /\ IsFiniteSet(Repo)
  BY ConstantsAssumption, FiniteAssumption, CountsFinite DEF ConstantsAssumption, FiniteAssumption
<1>2. rs \subseteq Repo
  BY ChosenCollected
<1>3. CASE limit <= 0
  <2>1. rs = {}
    BY <1>3 DEF get_valid_repos, get_active_repo_count
  <2> QED
    BY <1>1, <2>1, FS_EmptySet
<1>4. CASE ~ (limit <= 0)
  <2>1. PICK new \in get_newly_added_repos(limit, h) :
          \E old \in get_repos_for_recollection(limit - Cardinality(new), h) : rs = new \cup old
    BY <1>4 DEF get_valid_repos, get_active_repo_count
  <2>2. PICK old \in get_repos_for_recollection(limit - Cardinality(new), h) : rs = new \cup old
    BY <2>1
  <2>3. IsFiniteSet(new) /\ IsFiniteSet(old) /\ IsFiniteSet(NewlyAdded(h))
        /\ IsFiniteSet(ForRecollection(h))
    <3>1. new \in SUBSET Repo /\ old \in SUBSET Repo
      BY <1>2, <2>2
    <3>2. NewlyAdded(h) \in SUBSET Repo /\ ForRecollection(h) \in SUBSET Repo
      BY DEF NewlyAdded, ForRecollection
    <3> QED
      BY <1>1, <3>1, <3>2, FS_Subset
  <2>4. /\ Cardinality(new) \in Nat /\ Cardinality(old) \in Nat
        /\ Cardinality(NewlyAdded(h)) \in Nat /\ Cardinality(ForRecollection(h)) \in Nat
        /\ Cardinality(new \cap old) \in Nat
    BY <2>3, FS_CardinalityType, FS_Intersection
  <2>5. Cardinality(new) <= limit
    BY <1>1, <2>4 DEF get_newly_added_repos, Lightest
  <2>6. Cardinality(old) <= limit - Cardinality(new)
    BY <1>1, <2>4 DEF get_repos_for_recollection
  <2>7. Cardinality(rs) = Cardinality(new) + Cardinality(old) - Cardinality(new \cap old)
    BY <2>2, <2>3, FS_Union
  <2> HIDE DEF k, a
  <2>8. Cardinality(rs) <= limit
    BY <1>1, <2>4, <2>5, <2>6, <2>7
  <2>9. Cardinality(rs) \in Int
    BY <2>4, <2>7
  <2>10. Cardinality(rs) <= k /\ a + Cardinality(rs) <= k
    BY <1>1, <2>8, <2>9
  <2> QED
    BY <1>2, <2>10 DEF k, a
<1> QED
  BY <1>3, <1>4

-----------------------------------------------------------------------------
\* The steps of a monitor that choose nothing and write no row.
LEMMA MonitorTakesNothing ==
  ASSUME Inv, HeldInTurn, NEW m \in Monitor,
         \/ StartMonitor(m) \/ FinishMonitor(m) \/ AbortMonitor(m)
         \/ \E r \in Repo, g \in Hook : SkipMessage(m, r, g)
         \/ \E r \in Repo, g \in Hook, c \in Run : SendMessage(m, r, g, c)
  PROVE  /\ HeldInTurn'
         /\ UNCHANGED row
         /\ \A n \in Monitor, q \in Repo, h \in Hook : HeldBy(n, q, h)' => HeldBy(n, q, h)
<1>1. /\ mpc \in [Monitor -> {"idle", "read", "send", "mark"}]
      /\ plan \in [Monitor -> [Hook -> SUBSET Repo]]
      /\ toRead \in [Monitor -> SUBSET Hook]
      /\ sent \in [Monitor -> Sent \cup {Null}]
      /\ \A n \in Monitor : mpc[n] = "mark" <=> sent[n] # Null
  BY DEF Inv, TypeOK
<1>2. CASE StartMonitor(m)
  BY <1>1, <1>2, ConstantsAssumption
  DEF ConstantsAssumption, StartMonitor, HeldInTurn, HeldBy
<1>3. CASE FinishMonitor(m)
  BY <1>1, <1>3 DEF FinishMonitor, PlannedHooks, HeldInTurn, HeldBy
<1>4. CASE AbortMonitor(m)
  <2>1. \A n \in Monitor, h \in Hook : plan'[n][h] = IF n = m THEN {} ELSE plan[n][h]
    BY <1>1, <1>4 DEF AbortMonitor, NoPlan
  <2>2. \A n \in Monitor : sent[n] # Null => sent[n].hook \in Hook
    BY <1>1 DEF Sent
  <2>3. /\ \A n \in Monitor : sent'[n] = IF n = m THEN Null ELSE sent[n]
        /\ \A n \in Monitor : n # m => mpc'[n] = mpc[n] /\ toRead'[n] = toRead[n]
        /\ mpc'[m] = "idle" /\ row' = row
    BY <1>1, <1>4 DEF AbortMonitor
  <2>4. \A n \in Monitor : toRead[n] \subseteq Hook
    BY <1>1
  <2>5. HeldInTurn'
    BY <2>1, <2>2, <2>3, <2>4 DEF HeldInTurn
  <2>6. \A n \in Monitor, q \in Repo, h \in Hook : HeldBy(n, q, h)' => HeldBy(n, q, h)
    BY <2>1, <2>3 DEF HeldBy
  <2> QED
    BY <2>3, <2>5, <2>6
<1>5. ASSUME NEW r \in Repo, NEW g \in Hook, SkipMessage(m, r, g)
      PROVE  /\ HeldInTurn'
             /\ UNCHANGED row
             /\ \A n \in Monitor, q \in Repo, h \in Hook : HeldBy(n, q, h)' => HeldBy(n, q, h)
  <2>1. \A n \in Monitor, h \in Hook : plan'[n][h] \subseteq plan[n][h]
    BY <1>1, <1>5 DEF SkipMessage
  <2>2. \A n \in Monitor : sent[n] # Null => sent[n].hook \in Hook
    BY <1>1 DEF Sent
  <2> QED
    BY <1>1, <1>5, <2>1, <2>2 DEF SkipMessage, HeldInTurn, HeldBy
<1>6. ASSUME NEW r \in Repo, NEW g \in Hook, NEW c \in Run, SendMessage(m, r, g, c)
      PROVE  /\ HeldInTurn'
             /\ UNCHANGED row
             /\ \A n \in Monitor, q \in Repo, h \in Hook : HeldBy(n, q, h)' => HeldBy(n, q, h)
  <2> DEFINE s == [repo |-> r, hook |-> g, run |-> c]
  <2>1. /\ \A n \in Monitor, h \in Hook : plan'[n][h] \subseteq plan[n][h]
        /\ r \notin plan'[m][g] /\ r \in plan[m][g]
    BY <1>1, <1>6 DEF SendMessage
  <2>2. \A n \in Monitor : sent[n] # Null => sent[n].hook \in Hook
    BY <1>1 DEF Sent
  <2>3. \A n \in Monitor : sent'[n] = IF n = m THEN s ELSE sent[n]
    BY <1>1, <1>6 DEF SendMessage
  <2>4. \A n \in Monitor : mpc'[n] = IF n = m THEN "mark" ELSE mpc[n]
    BY <1>1, <1>6 DEF SendMessage
  <2>5. s.repo = r /\ s.hook = g
    OBVIOUS
  <2> HIDE DEF s
  <2>6. UNCHANGED <<row, toRead>>
    BY <1>6 DEF SendMessage
  <2>7. HeldInTurn'
    BY <1>1, <2>1, <2>2, <2>3, <2>4, <2>5, <2>6 DEF HeldInTurn
  <2>8. \A n \in Monitor, q \in Repo, h \in Hook : HeldBy(n, q, h)' => HeldBy(n, q, h)
    BY <2>1, <2>3, <2>5 DEF HeldBy
  <2> QED
    BY <2>6, <2>7, <2>8
<1> QED
  BY <1>2, <1>3, <1>4, <1>5, <1>6

\* A monitor reads the candidates of one hook.
LEMMA BuildFits ==
  ASSUME RoomInv, NEW m \in Monitor, NEW g \in Hook, BuildRequest(m, g)
  PROVE  HeldInTurn' /\ \A h \in Hook : ClaimsFit(h)' /\ RoomFits(h)'
<1>1. PICK rs \in get_valid_repos(g) : plan' = [plan EXCEPT ![m][g] = rs]
  BY DEF BuildRequest
<1>2. /\ mpc \in [Monitor -> {"idle", "read", "send", "mark"}]
      /\ plan \in [Monitor -> [Hook -> SUBSET Repo]]
      /\ toRead \in [Monitor -> SUBSET Hook]
      /\ sent \in [Monitor -> Sent \cup {Null}]
      /\ \A n \in Monitor : mpc[n] = "mark" <=> sent[n] # Null
  BY DEF RoomInv, Inv, TypeOK
<1>3. /\ mpc[m] = "read" /\ sent[m] = Null /\ g \in toRead[m] /\ plan[m][g] = {}
      /\ UNCHANGED <<row, sent>>
  BY <1>2 DEF BuildRequest, IsFirst, RoomInv, HeldInTurn
<1>4. \A n \in Monitor, h \in Hook :
        plan'[n][h] = IF n = m /\ h = g THEN rs ELSE plan[n][h]
  BY <1>1, <1>2
<1>5. HeldInTurn'
  <2>1. \A n \in Monitor : sent[n] # Null => sent[n].hook \in Hook /\ n # m
    BY <1>2, <1>3 DEF Sent
  <2>2. \A n \in Monitor : n # m => mpc'[n] = mpc[n] /\ toRead'[n] = toRead[n]
    BY <1>2 DEF BuildRequest
  <2>3. mpc'[m] \in {"read", "send"} /\ toRead'[m] = toRead[m] \ {g}
    BY <1>2 DEF BuildRequest
  <2>4. HeldInTurn
    BY DEF RoomInv
  <2>5. toRead'[m] \subseteq Hook
    BY <1>2, <2>3
  <2> QED
    BY <1>2, <1>3, <1>4, <2>1, <2>2, <2>3, <2>4, <2>5 DEF HeldInTurn
<1>6. \A n \in Monitor, q \in Repo, h \in Hook :
        HeldBy(n, q, h)' <=> HeldBy(n, q, h) \/ (n = m /\ h = g /\ q \in rs)
  BY <1>3, <1>4 DEF HeldBy
<1>7. ASSUME NEW h \in Hook, h # g PROVE ClaimsFit(h)' /\ RoomFits(h)'
  <2>1. ActiveRepos(h)' = ActiveRepos(h)
    BY <1>3 DEF ActiveRepos
  <2> QED
    BY <1>6, <1>7, <2>1, NothingTaken DEF RoomInv
<1>8. ClaimsFit(g)' /\ RoomFits(g)'
  <2> DEFINE k == MaxRepo[g]
             a == Cardinality(ActiveRepos(g))
             o == Cardinality(ClaimsOf(Monitor \ {m}, g))
             N == k * Cardinality(Monitor)
  <2>1. /\ rs \subseteq Repo /\ Cardinality(rs) <= k
        /\ rs # {} => a + Cardinality(rs) <= k
    BY <1>1, ChosenFit DEF RoomInv
  <2>2. ClaimsFit(g) /\ RoomFits(g)
    BY DEF RoomInv
  <2>3. k \in Nat /\ Cardinality(Monitor) \in Nat /\ N \in Nat /\ a \in Nat /\ o \in Nat
    <3>1. k \in Nat /\ Cardinality(Monitor) \in Nat /\ a \in Nat /\ o \in Nat
      BY ConstantsAssumption, CountsFinite DEF ConstantsAssumption
    <3> QED
      BY <3>1
  <2>4. o + k <= N
    BY <2>2, OthersFit
  <2>5. ActiveRepos(g)' = ActiveRepos(g)
    BY <1>3 DEF ActiveRepos
  <2>6. \A q \in Repo : ~ HeldBy(m, q, g)
    BY <1>3 DEF HeldBy
  <2>7. ClaimsFit(g)'
    <3>1. Claims(m, g)' = rs
      BY <1>6, <2>1, <2>6 DEF Claims
    <3>2. \A n \in Monitor : n # m => Claims(n, g)' = Claims(n, g)
      BY <1>6 DEF Claims
    <3> QED
      BY <2>1, <2>2, <3>1, <3>2 DEF ClaimsFit
  <2>8. CASE rs = {}
    BY <1>6, <2>2, <2>5, <2>8, NothingTaken
  <2>9. CASE rs # {}
    <3> DEFINE mine == {m} \X rs
    <3>1. ClaimsOf(Monitor, g)' = ClaimsOf(Monitor \ {m}, g) \cup mine
      BY <1>6, <2>1, <2>6 DEF ClaimsOf
    <3>2. IsFiniteSet(rs) /\ Cardinality(rs) \in Nat
      <4>1. IsFiniteSet(Repo) /\ rs \in SUBSET Repo
        BY <2>1, FiniteAssumption DEF FiniteAssumption
      <4> QED
        BY <4>1, FS_Subset, FS_CardinalityType
    <3>3. IsFiniteSet(mine) /\ Cardinality(mine) = Cardinality(rs)
      <4>1. IsFiniteSet({m}) /\ Cardinality({m}) = 1
        BY FS_Singleton
      <4>2. IsFiniteSet(mine) /\ Cardinality(mine) = 1 * Cardinality(rs)
        BY <3>2, <4>1, FS_Product
      <4> QED
        BY <3>2, <4>2
    <3> HIDE DEF mine
    <3>4. IsFiniteSet(ClaimsOf(Monitor \ {m}, g))
      BY CountsFinite
    <3>5. /\ Cardinality(ClaimsOf(Monitor, g)') =
               o + Cardinality(rs) - Cardinality(ClaimsOf(Monitor \ {m}, g) \cap mine)
          /\ Cardinality(ClaimsOf(Monitor \ {m}, g) \cap mine) \in Nat
      BY <3>1, <3>3, <3>4, FS_Union, FS_Intersection, FS_CardinalityType
    <3> HIDE DEF k, a, o, N
    <3>6. Cardinality(ClaimsOf(Monitor, g)') <= o + Cardinality(rs)
          /\ Cardinality(ClaimsOf(Monitor, g)') \in Int
      BY <2>3, <3>2, <3>5
    <3>7. a + Cardinality(ClaimsOf(Monitor, g)') <= N
      BY <2>1, <2>3, <2>4, <2>9, <3>2, <3>6
    <3> QED
      BY <2>5, <2>7, <3>7 DEF RoomFits, a, N, k
  <2> QED
    BY <2>8, <2>9
<1> QED
  BY <1>5, <1>7, <1>8

\* A monitor writes the row of what it sent: it holds one repository less, and
\* one more may be active.
LEMMA MarkFits ==
  ASSUME RoomInv, NEW m \in Monitor, update_status_and_id(m)
  PROVE  HeldInTurn' /\ \A h \in Hook : ClaimsFit(h)' /\ RoomFits(h)'
<1>1. /\ mpc \in [Monitor -> {"idle", "read", "send", "mark"}]
      /\ plan \in [Monitor -> [Hook -> SUBSET Repo]]
      /\ sent \in [Monitor -> Sent \cup {Null}]
      /\ row \in [Repo -> [Hook -> Cell]]
      /\ sent[m] # Null
  BY DEF RoomInv, Inv, TypeOK, Row, update_status_and_id
<1>0. PICK r \in Repo, g \in Hook : r = sent[m].repo /\ g = sent[m].hook
  BY <1>1 DEF Sent
<1>2. r \notin plan[m][g]
  BY <1>1, <1>0 DEF RoomInv, HeldInTurn
<1>3. /\ \A n \in Monitor : sent'[n] = IF n = m THEN Null ELSE sent[n]
      /\ \A n \in Monitor : n # m => mpc'[n] = mpc[n]
      /\ mpc'[m] = "send" /\ UNCHANGED <<toRead, plan>>
  BY <1>1 DEF update_status_and_id
<1>4. HeldInTurn'
  BY <1>3 DEF RoomInv, HeldInTurn
<1>5. \A n \in Monitor, q \in Repo, h \in Hook :
        HeldBy(n, q, h)' <=> HeldBy(n, q, h) /\ ~ (n = m /\ q = r /\ h = g)
  BY <1>0, <1>1, <1>2, <1>3 DEF HeldBy
<1>6. \A h \in Hook : ActiveRepos(h)' \subseteq
                        ActiveRepos(h) \cup IF h = g THEN {r} ELSE {}
  <2>1. row' = [row EXCEPT ![r] = MarkCollecting(row[r], g, sent[m].run)]
    BY <1>0 DEF update_status_and_id
  <2>2. \A h \in Hook : h # g => MarkCollecting(row[r], g, sent[m].run)[h] = row[r][h]
    BY <1>1, <1>2 DEF MarkCollecting
  <2> QED
    BY <1>1, <1>2, <2>1, <2>2 DEF ActiveRepos
<1>7. ASSUME NEW h \in Hook, h # g PROVE ClaimsFit(h)' /\ RoomFits(h)'
  BY <1>5, <1>6, <1>7, NothingTaken DEF RoomInv
<1>8. ClaimsFit(g)' /\ RoomFits(g)'
  <2> DEFINE N == MaxRepo[g] * Cardinality(Monitor)
  <2>1. ClaimsFit(g) /\ RoomFits(g)
    BY DEF RoomInv
  <2>2. MaxRepo[g] \in Nat /\ N \in Nat
    <3>1. MaxRepo[g] \in Nat /\ Cardinality(Monitor) \in Nat
      BY ConstantsAssumption, CountsFinite DEF ConstantsAssumption
    <3> QED
      BY <3>1
  <2>3. ClaimsFit(g)'
    <3> SUFFICES ASSUME NEW n \in Monitor PROVE Cardinality(Claims(n, g)') <= MaxRepo[g]
      BY DEF ClaimsFit
    <3>1. Claims(n, g)' \subseteq Claims(n, g)
      BY <1>5 DEF Claims
    <3>2. Cardinality(Claims(n, g)') <= Cardinality(Claims(n, g))
      BY <3>1, CountsFinite, FS_Subset
    <3>3. Cardinality(Claims(n, g)') \in Nat /\ Cardinality(Claims(n, g)) \in Nat
      BY CountsFinite, CountsFiniteNext
    <3> QED
      BY <2>1, <2>2, <3>2, <3>3 DEF ClaimsFit
  <2>4. /\ IsFiniteSet(ActiveRepos(g)) /\ Cardinality(ActiveRepos(g)) \in Nat
        /\ IsFiniteSet(ClaimsOf(Monitor, g)) /\ Cardinality(ClaimsOf(Monitor, g)) \in Nat
        /\ Cardinality(ActiveRepos(g)') \in Nat
    BY CountsFinite, CountsFiniteNext
  <2>5. Cardinality(ActiveRepos(g)') <= Cardinality(ActiveRepos(g)) + 1
    <3> DEFINE A == ActiveRepos(g) \cup {r}
    <3>1. /\ IsFiniteSet(A) /\ Cardinality(A) \in Nat
          /\ Cardinality(A) <= Cardinality(ActiveRepos(g)) + 1
      <4>1. IsFiniteSet(A)
            /\ Cardinality(A) = IF r \in ActiveRepos(g) THEN Cardinality(ActiveRepos(g))
                                ELSE Cardinality(ActiveRepos(g)) + 1
        BY <2>4, FS_AddElement
      <4> HIDE DEF A
      <4> QED
        BY <2>4, <4>1
    <3>2. ActiveRepos(g)' \in SUBSET A
      BY <1>6
    <3> HIDE DEF A
    <3>3. Cardinality(ActiveRepos(g)') <= Cardinality(A)
      BY <3>1, <3>2, FS_Subset
    <3> QED
      BY <2>4, <3>1, <3>3
  <2>6. Cardinality(ClaimsOf(Monitor, g)') = Cardinality(ClaimsOf(Monitor, g)) - 1
    <3>1. <<m, r>> \in ClaimsOf(Monitor, g)
      BY <1>0, <1>1 DEF ClaimsOf, HeldBy
    <3>2. ClaimsOf(Monitor, g)' = ClaimsOf(Monitor, g) \ {<<m, r>>}
      <4> SUFFICES ASSUME NEW p \in Monitor \X Repo
                   PROVE  HeldBy(p[1], p[2], g)' <=> HeldBy(p[1], p[2], g) /\ p # <<m, r>>
        BY DEF ClaimsOf
      <4>1. p[1] \in Monitor /\ p[2] \in Repo /\ p = <<p[1], p[2]>>
        OBVIOUS
      <4> QED
        BY <1>5, <4>1
    <3> QED
      BY <2>4, <3>1, <3>2, FS_RemoveElement
  <2>7. Cardinality(ActiveRepos(g)') + Cardinality(ClaimsOf(Monitor, g)') <= N
    BY <2>1, <2>2, <2>4, <2>5, <2>6 DEF RoomFits
  <2> QED
    BY <2>3, <2>7 DEF RoomFits
<1> QED
  BY <1>4, <1>7, <1>8

-----------------------------------------------------------------------------
LEMMA RoomInit == Init => RoomInv
<1> SUFFICES ASSUME Init PROVE RoomInv
  OBVIOUS
<1>1. HeldInTurn
  BY DEF Init, HeldInTurn, NoPlan
<1>2. ASSUME NEW h \in Hook PROVE ClaimsFit(h) /\ RoomFits(h)
  <2>1. ActiveRepos(h) = {}
    BY DEF Init, ActiveRepos, NewRow, NewCell
  <2>2. \A m \in Monitor, r \in Repo : ~ HeldBy(m, r, h)
    BY DEF Init, HeldBy, NoPlan
  <2>3. ClaimsOf(Monitor, h) = {} /\ \A m \in Monitor : Claims(m, h) = {}
    BY <2>2 DEF ClaimsOf, Claims
  <2>4. MaxRepo[h] \in Nat /\ Cardinality(Monitor) \in Nat
    BY ConstantsAssumption, CountsFinite DEF ConstantsAssumption
  <2>5. MaxRepo[h] * Cardinality(Monitor) \in Nat
    BY <2>4
  <2>6. Cardinality({}) = 0
    BY FS_EmptySet
  <2>7. ClaimsFit(h)
    BY <2>3, <2>4, <2>6 DEF ClaimsFit
  <2>8. RoomFits(h)
    BY <2>1, <2>3, <2>5, <2>6 DEF RoomFits
  <2> QED
    BY <2>7, <2>8
<1> QED
  BY <1>1, <1>2, InvInit DEF RoomInv

LEMMA RoomStep == NoneFailed /\ RoomInv /\ [Next]_vars => RoomInv'
<1> SUFFICES ASSUME NoneFailed, RoomInv, [Next]_vars PROVE RoomInv'
  OBVIOUS
<1>1. Inv /\ Inv'
  BY InvStep DEF RoomInv
<1>2. ASSUME UNCHANGED monitorVars, \A h \in Hook : ActiveRepos(h)' \subseteq ActiveRepos(h)
      PROVE  RoomInv'
  <2>1. HeldInTurn'
    BY <1>2 DEF monitorVars, RoomInv, HeldInTurn
  <2>2. \A m \in Monitor, r \in Repo, h \in Hook : HeldBy(m, r, h)' => HeldBy(m, r, h)
    BY <1>2 DEF monitorVars, HeldBy
  <2> QED
    BY <1>1, <1>2, <2>1, <2>2, NothingTaken DEF RoomInv
<1>3. CASE UNCHANGED vars
  BY <1>2, <1>3 DEF vars, monitorVars, ActiveRepos
<1>4. ASSUME NEW c \in Run,
             \/ RunStep(c) \/ PrelimFails(c) \/ PrelimGone(c) \/ PrelimOnFailure(c)
             \/ JobFails(c) \/ JobFailsSilently(c) \/ LoseRun(c)
      PROVE  RoomInv'
  <2>1. UNCHANGED monitorVars /\ \A h \in Hook : ActiveRepos(h)' \subseteq ActiveRepos(h)
    BY <1>1, <1>4, RunActivatesNone DEF Hook
  <2> QED
    BY <1>2, <2>1
<1>5. CASE \/ retry_errored_repos \/ clean_collection_status
           \/ \E r \in Repo, h \in Hook : IntervalElapses(r, h)
  <2>1. UNCHANGED monitorVars /\ \A h \in Hook : ActiveRepos(h)' \subseteq ActiveRepos(h)
    BY <1>1, <1>5, RecoveryActivatesNone DEF Hook
  <2> QED
    BY <1>2, <2>1
<1>6. ASSUME NEW m \in Monitor,
             \/ StartMonitor(m) \/ FinishMonitor(m) \/ AbortMonitor(m)
             \/ \E r \in Repo, g \in Hook : SkipMessage(m, r, g)
             \/ \E r \in Repo, g \in Hook, c \in Run : SendMessage(m, r, g, c)
      PROVE  RoomInv'
  <2>1. /\ HeldInTurn' /\ UNCHANGED row
        /\ \A n \in Monitor, q \in Repo, h \in Hook : HeldBy(n, q, h)' => HeldBy(n, q, h)
    BY <1>6, MonitorTakesNothing DEF RoomInv
  <2>2. \A h \in Hook : ActiveRepos(h)' = ActiveRepos(h)
    BY <2>1 DEF ActiveRepos
  <2> QED
    BY <1>1, <2>1, <2>2, NothingTaken DEF RoomInv
<1>7. ASSUME NEW m \in Monitor, NEW g \in Hook, BuildRequest(m, g) PROVE RoomInv'
  BY <1>1, <1>7, BuildFits DEF RoomInv
<1>8. ASSUME NEW m \in Monitor, update_status_and_id(m) PROVE RoomInv'
  BY <1>1, <1>8, MarkFits DEF RoomInv
<1> QED
  BY <1>3, <1>4, <1>5, <1>6, <1>7, <1>8 DEF Next, SchedulerStep, MonitorStep

\* Overlapping monitors fill at most the room that each of them saw.
THEOREM RoomNeverOverfilled == Spec => []ActiveBounded
<1>1. RoomInv => ActiveBounded
  <2> SUFFICES ASSUME RoomInv, NEW h \in Hook
               PROVE  Cardinality(ActiveRepos(h)) <= MaxRepo[h] * Cardinality(Monitor)
    BY DEF ActiveBounded
  <2>1. /\ Cardinality(ActiveRepos(h)) \in Nat /\ Cardinality(ClaimsOf(Monitor, h)) \in Nat
        /\ MaxRepo[h] \in Nat /\ Cardinality(Monitor) \in Nat
    BY ConstantsAssumption, CountsFinite DEF ConstantsAssumption
  <2>2. MaxRepo[h] * Cardinality(Monitor) \in Nat
    BY <2>1
  <2> QED
    BY <2>1, <2>2 DEF RoomInv, RoomFits
<1> QED
  BY <1>1, RoomInit, RoomStep, InvAlways, PTL DEF Spec
=============================================================================

--------------------------- MODULE FacadeClone_proofs ---------------------------
(***************************************************************************)
(* What clone_repos and the scheduler keep to together, for any number of  *)
(* repositories, cloners, monitors and runs: the state keeps its type, no  *)
(* commit analysis is chosen, sent or run for a repository that nobody has *)
(* made a directory for, unless it was given up while a cloner was at it,  *)
(* and no write breaks a CHECK constraint.                                 *)
(*                                                                         *)
(* A status of its own does not make the second inductive: a row that says *)
(* Error may become Success by retry_errored_repos, if it was collected    *)
(* before.  The invariant therefore speaks of every facade cell that one   *)
(* of the program's writes could make ready for analysis.                  *)
(***************************************************************************)
EXTENDS FacadeClone, CollectionScheduler_proofs

\* The facade cell is ready for analysis, or was analysed and not given up.
Analysable(c) ==
    \/ c.status \in {"Update", "Collecting", "Success"}
    \/ c.status # "Ignore" /\ c.last # Never

Made(r) == dir[r] # "absent" \/ r \in unmade
MadeNow(r) == dir'[r] # "absent" \/ r \in unmade'   \* r is what it was before the step

RowsCloned == \A r \in Repo : Analysable(row[r][Facade]) => Made(r)
UnderwayCloned == \A r \in Repo : Underway(r, Facade) => Made(r)
ClonersAtDirectory ==
    \A w \in Cloner : cpc[w] \in {"clone", "count"} => dir[cloning[w]] # "absent"

FacadeInv ==
    /\ FacadeTypeOK
    /\ RowsCloned
    /\ UnderwayCloned
    /\ ClonersAtDirectory

\* What a step of the scheduler may do about it.
RowsFollow ==
    \A r \in Repo :
        Analysable(row'[r][Facade]) => Analysable(row[r][Facade]) \/ Underway(r, Facade)
UnderwayFollow ==
    \A r \in Repo :
        Underway(r, Facade)' => Underway(r, Facade) \/ Analysable(row[r][Facade])

-----------------------------------------------------------------------------
(* The writes.                                                             *)

\* The write v of the row w makes no facade cell ready that was not.
Keeps(w, v) == v \in Row /\ (Analysable(v[Facade]) => Analysable(w[Facade]))

LEMMA CellWritten ==
  ASSUME NEW w \in Row, NEW h \in Hook, NEW c \in Cell
  PROVE  /\ [w EXCEPT ![h] = c] \in Row
         /\ \A g \in Hook : [w EXCEPT ![h] = c][g] = IF g = h THEN c ELSE w[g]
BY DEF Row

\* The cell h is written, and if it is the facade's it was ready before.
LEMMA CellKeeps ==
  ASSUME NEW w \in Row, NEW h \in Hook, NEW c \in Cell,
         h = Facade /\ Analysable(c) => Analysable(w[Facade])
  PROVE  Keeps(w, [w EXCEPT ![h] = c])
BY CellWritten, HookNames DEF Keeps

LEMMA FailureKeeps ==
  ASSUME NEW w \in Row, NEW h \in Hook
  PROVE  Keeps(w, HandleTaskFailure(w, h))
<1> DEFINE c == [w[h] EXCEPT !.status = "Error", !.task = Null]
<1>1. w[h] \in Cell
  BY DEF Row
<1>2. c \in Cell /\ c.status = "Error" /\ c.last = w[h].last
  BY <1>1 DEF Cell, Status
<1>3. CASE w[h].status \in {"Collecting", "Initializing"}
  <2>1. HandleTaskFailure(w, h) = [w EXCEPT ![h] = c]
    BY <1>3 DEF HandleTaskFailure, Row
  <2> HIDE DEF c
  <2>2. h = Facade /\ Analysable(c) => Analysable(w[Facade])
    BY <1>2, <1>3 DEF Analysable
  <2> QED BY <1>2, <2>1, <2>2, CellKeeps
<1>4. CASE ~ (w[h].status \in {"Collecting", "Initializing"})
  BY <1>4 DEF HandleTaskFailure, Keeps
<1> QED BY <1>3, <1>4

LEMMA IgnoreKeeps ==
  ASSUME NEW w \in Row
  PROVE  Keeps(w, MarkIgnore)
<1>1. MarkIgnore \in Row
  BY DEF MarkIgnore, Row, Cell, Status, LastCollected
<1>2. ~ Analysable(MarkIgnore[Facade])
  BY HookNames DEF MarkIgnore, Analysable
<1> QED BY <1>1, <1>2 DEF Keeps

LEMMA RetryKeeps ==
  ASSUME NEW w \in Row
  PROVE  Keeps(w, RetryRow(w))
<1>1. ASSUME NEW c \in Cell
      PROVE  RetryCell(c) \in Cell /\ (Analysable(RetryCell(c)) => Analysable(c))
  <2>1. CASE c.status = "Error"
    <3>1. /\ RetryCell(c) \in Cell /\ RetryCell(c).last = c.last
          /\ RetryCell(c).status = IF c.last = Never THEN "Pending" ELSE "Success"
      BY <2>1 DEF RetryCell, Cell, Status
    <3> QED BY <2>1, <3>1 DEF Analysable
  <2>2. CASE c.status # "Error"
    BY <2>2 DEF RetryCell
  <2> QED BY <2>1, <2>2
<1>2. \A h \in Hook : w[h] \in Cell
  BY DEF Row
<1>3. RetryRow(w) \in Row
  BY <1>1, <1>2 DEF RetryRow, RetryAfter, Row
<1>4. RetryRow(w)[Facade] = w[Facade] \/ RetryRow(w)[Facade] = RetryCell(w[Facade])
  BY HookNames DEF RetryRow, RetryAfter
<1> QED BY <1>1, <1>2, <1>3, <1>4, HookNames DEF Keeps

LEMMA CleanKeeps ==
  ASSUME NEW w \in Row
  PROVE  Keeps(w, CleanRow(w))
<1>1. ASSUME NEW h \in Hook, NEW c \in Cell
      PROVE  CleanCell(h, c) \in Cell /\ (Analysable(CleanCell(h, c)) => Analysable(c))
  <2>1. CASE h # Ml /\ c.status = "Collecting"
    <3>1. CleanCell(h, c) \in Cell
      BY <2>1 DEF CleanCell, Cell, Status
    <3> QED BY <2>1, <3>1 DEF Analysable
  <2>2. CASE h = Facade /\ c.status \in {"Failed Clone", "Initializing"}
    <3>1. CleanCell(h, c) = [c EXCEPT !.status = "Pending", !.task = Null]
      BY <2>2 DEF CleanCell
    <3>2. /\ CleanCell(h, c) \in Cell /\ CleanCell(h, c).last = c.last
          /\ CleanCell(h, c).status = "Pending"
      BY <3>1 DEF Cell, Status
    <3> QED BY <2>2, <3>2 DEF Analysable
  <2>3. CASE ~ (h # Ml /\ c.status = "Collecting")
             /\ ~ (h = Facade /\ c.status \in {"Failed Clone", "Initializing"})
    BY <2>3 DEF CleanCell
  <2> QED BY <2>1, <2>2, <2>3
<1>2. \A h \in Hook : w[h] \in Cell
  BY DEF Row
<1>3. CleanRow(w) \in Row
  BY <1>1, <1>2 DEF CleanRow, CleanAfter, Row
<1>4. CleanRow(w)[Facade] = w[Facade] \/ CleanRow(w)[Facade] = CleanCell(Facade, w[Facade])
  BY HookNames DEF CleanRow, CleanAfter
<1> QED BY <1>1, <1>2, <1>3, <1>4, HookNames DEF Keeps

LEMMA ElapsedKeeps ==
  ASSUME NEW w \in Row, NEW h \in Hook, w[h].status = "Success"
  PROVE  Keeps(w, [w EXCEPT ![h].last = Due])
<1> DEFINE c == [w[h] EXCEPT !.last = Due]
<1>1. w[h] \in Cell
  BY DEF Row
<1>2. c \in Cell /\ c.status = "Success"
  BY <1>1 DEF Cell, LastCollected
<1>3. [w EXCEPT ![h].last = Due] = [w EXCEPT ![h] = c]
  BY DEF Row
<1> HIDE DEF c
<1>4. h = Facade /\ Analysable(c) => Analysable(w[Facade])
  BY DEF Analysable
<1>5. Keeps(w, [w EXCEPT ![h] = c])
  BY <1>2, <1>4, CellKeeps
<1> QED BY <1>3, <1>5, Zenon

\* Only what is underway is marked.
LEMMA CollectingKeeps ==
  ASSUME NEW w \in Row, NEW h \in Hook, NEW run \in Run
  PROVE  /\ MarkCollecting(w, h, run) \in Row
         /\ h # Facade => Keeps(w, MarkCollecting(w, h, run))
<1> DEFINE c == [w[h] EXCEPT !.status = "Collecting", !.task = run]
<1>1. w[h] \in Cell
  BY DEF Row
<1>2. c \in Cell
  BY <1>1 DEF Cell, Status
<1>3. MarkCollecting(w, h, run) = [w EXCEPT ![h] = c]
  BY DEF MarkCollecting, Row
<1> HIDE DEF c
<1>4. [w EXCEPT ![h] = c] \in Row
  BY <1>2, CellWritten
<1>5. h # Facade => Keeps(w, [w EXCEPT ![h] = c])
  BY <1>2, CellKeeps
<1> QED BY <1>3, <1>4, <1>5

LEMMA SuccessKeeps ==
  ASSUME NEW w \in Row, NEW h \in Hook
  PROVE  /\ MarkSuccess(w, h) \in Row
         /\ h # Facade => Keeps(w, MarkSuccess(w, h))
<1> DEFINE d == [status |-> "Success", task |-> Null, last |-> Fresh]
<1>1. d \in Cell
  BY DEF Cell, Status, LastCollected
<1>2. MarkSuccess(w, h) = [w EXCEPT ![h] = d]
  BY DEF MarkSuccess
<1> HIDE DEF d
<1>3. [w EXCEPT ![h] = d] \in Row
  BY <1>1, CellWritten
<1>4. h # Facade => Keeps(w, [w EXCEPT ![h] = d])
  BY <1>1, CellKeeps
<1> QED BY <1>2, <1>3, <1>4

-----------------------------------------------------------------------------
(* The steps of the scheduler.                                             *)

LEMMA OneRowFollows ==
  ASSUME TypeOK, NEW r \in Repo, NEW v \in Row, OneRow(r, v),
         Keeps(row[r], v) \/ Underway(r, Facade)
  PROVE  row' \in [Repo -> Row] /\ RowsFollow
<1>1. row' \in [Repo -> Row] /\ \A q \in Repo : row'[q] = IF q = r THEN v ELSE row[q]
  BY DEF TypeOK, OneRow
<1> QED BY <1>1 DEF RowsFollow, Keeps

LEMMA NothingFollows ==
  ASSUME NoNewRun, NothingChosen
  PROVE  UnderwayFollow
BY NotUnderwayKept, HookNames DEF UnderwayFollow

\* The workers.
LEMMA RunFollows ==
  ASSUME TypeOK, NEW c \in Run,
         \/ RunStep(c) \/ PrelimFails(c) \/ PrelimGone(c) \/ PrelimOnFailure(c)
         \/ JobFails(c) \/ JobFailsSilently(c) \/ LoseRun(c) \/ UpdateCommitWeight(c)
  PROVE  TypeOK' /\ RowsFollow /\ UnderwayFollow
<1> DEFINE r == runs[c].repo
           h == runs[c].hook
<1>1. /\ NoNewRun /\ NothingChosen /\ runs[c] # Null
      /\ UNCHANGED monitorVars /\ runs' \in [Run -> Chain \cup {Null}]
  <2>1. CASE UpdateCommitWeight(c)
    <3>1. runs[c] # Null /\ runs' = [runs EXCEPT ![c] = Null] /\ UNCHANGED monitorVars
      BY <2>1 DEF UpdateCommitWeight, AtStage
    <3> QED BY <3>1 DEF TypeOK, monitorVars, NoNewRun, NothingChosen
  <2> QED BY <2>1, RunStartsNone
<1>2. r \in Repo /\ h \in Hook /\ row[r] \in Row
  BY <1>1 DEF TypeOK, Chain
<1>3. h = Facade => Underway(r, Facade)
  BY <1>1 DEF Underway, RunOf
<1>4. \/ row' = row
      \/ OneRow(r, MarkIgnore)
      \/ \E g \in {h, Facade} : OneRow(r, HandleTaskFailure(row[r], g))
      \/ OneRow(r, MarkSuccess(row[r], h))
  BY DEF RunStep, PrelimFinds, PrelimFails, PrelimGone, PrelimOnFailure, JobSucceeds,
         JobFails, JobFailsSilently, TaskSuccessUtil, LoseRun, UpdateCommitWeight, OneRow
<1> HIDE DEF r, h
<1>5. row' \in [Repo -> Row] /\ RowsFollow
  <2>1. CASE row' = row
    BY <2>1 DEF TypeOK, RowsFollow
  <2>2. CASE OneRow(r, MarkIgnore)
    <3>1. Keeps(row[r], MarkIgnore) /\ MarkIgnore \in Row
      BY <1>2, IgnoreKeeps DEF Keeps
    <3> QED BY <1>2, <2>2, <3>1, OneRowFollows
  <2>3. ASSUME NEW g \in {h, Facade}, OneRow(r, HandleTaskFailure(row[r], g))
        PROVE  row' \in [Repo -> Row] /\ RowsFollow
    <3>1. Keeps(row[r], HandleTaskFailure(row[r], g)) /\ HandleTaskFailure(row[r], g) \in Row
      BY <1>2, HookNames, FailureKeeps DEF Keeps
    <3> QED BY <1>2, <2>3, <3>1, OneRowFollows
  <2>4. CASE OneRow(r, MarkSuccess(row[r], h))
    <3>1. /\ MarkSuccess(row[r], h) \in Row
          /\ h # Facade => Keeps(row[r], MarkSuccess(row[r], h))
      BY <1>2, SuccessKeeps
    <3> QED BY <1>2, <1>3, <2>4, <3>1, OneRowFollows
  <2> QED BY <1>4, <2>1, <2>2, <2>3, <2>4
<1>6. TypeOK'
  BY <1>1, <1>5 DEF TypeOK, monitorVars
<1> QED BY <1>1, <1>5, <1>6, NothingFollows

\* The monitors.  What they choose for the facade hook is Update or Success.
LEMMA MonitorFollows ==
  ASSUME TypeOK, NEW m \in Monitor, MonitorStep(m) \/ AbortMonitor(m)
  PROVE  TypeOK' /\ RowsFollow /\ UnderwayFollow
<1> USE HookNames
<1>0. row' = row => row' \in [Repo -> Row] /\ RowsFollow
  BY DEF TypeOK, RowsFollow
<1>1. CASE StartMonitor(m)
  <2>1. TypeOK'
    BY <1>1, ConstantsAssumption DEF StartMonitor, TypeOK
  <2>2. NoNewRun /\ NothingChosen
    BY <1>1 DEF StartMonitor, NoNewRun, NothingChosen
  <2> QED BY <1>0, <1>1, <2>1, <2>2, NothingFollows DEF StartMonitor
<1>2. ASSUME NEW h \in Hook, BuildRequest(m, h)
      PROVE  TypeOK' /\ RowsFollow /\ UnderwayFollow
  <2>1. PICK rs : rs \in get_valid_repos(h) /\ plan' = [plan EXCEPT ![m][h] = rs]
    BY <1>2 DEF BuildRequest
  <2>2. \A r \in rs : r \in Repo /\ (h = Facade => Analysable(row[r][Facade]))
    BY <2>1, ChosenCandidates DEF NewlyAdded, ForRecollection, Analysable
  <2>3. plan' \in [Monitor -> [Hook -> SUBSET Repo]]
    BY <2>1, <2>2 DEF TypeOK
  <2>4. TypeOK'
    BY <1>2, <2>3 DEF BuildRequest, TypeOK
  <2>5. \A n \in Monitor : plan'[n][Facade] = IF n = m /\ h = Facade THEN rs ELSE plan[n][Facade]
    BY <2>1 DEF TypeOK
  <2>6. UNCHANGED <<row, runs, sent>>
    BY <1>2 DEF BuildRequest
  <2>7. UnderwayFollow
    BY <2>2, <2>5, <2>6 DEF UnderwayFollow, Underway, HeldBy, RunOf
  <2> QED BY <1>0, <2>4, <2>6, <2>7
<1>3. ASSUME NEW r \in Repo, NEW h \in Hook, NEW c \in Run, SendMessage(m, r, h, c)
      PROVE  TypeOK' /\ RowsFollow /\ UnderwayFollow
  <2> DEFINE s == [repo |-> r, hook |-> h, run |-> c]
             d == [repo |-> r, hook |-> h, stage |-> IF HasPrelim(r, h) THEN "prelim" ELSE "jobs",
                   left |-> Jobs, broken |-> FALSE]
  <2>1. d \in Chain /\ s \in Sent /\ d.repo = r /\ d.hook = h /\ s.repo = r /\ s.hook = h
    BY ConstantsAssumption DEF Chain, Sent, Stage
  <2>2. runs' = [runs EXCEPT ![c] = d] /\ sent' = [sent EXCEPT ![m] = s]
    BY <1>3 DEF SendMessage
  <2> HIDE DEF d, s
  <2>3. s # Null
    BY <2>1, NoChainAssumption
  <2>4. plan' \in [Monitor -> [Hook -> SUBSET Repo]]
        /\ \A n \in Monitor : plan'[n][Facade] \subseteq plan[n][Facade]
    BY <1>3 DEF SendMessage, TypeOK
  <2>5. runs' \in [Run -> Chain \cup {Null}]
        /\ \A b \in Run : runs'[b] = IF b = c THEN d ELSE runs[b]
    BY <2>1, <2>2 DEF TypeOK
  <2>6. sent' \in [Monitor -> Sent \cup {Null}]
        /\ \A n \in Monitor : sent'[n] = IF n = m THEN s ELSE sent[n]
    BY <2>1, <2>2 DEF TypeOK
  <2>7. mpc' \in [Monitor -> {"idle", "read", "send", "mark"}]
        /\ \A n \in Monitor : mpc'[n] = IF n = m THEN "mark" ELSE mpc[n]
    BY <1>3 DEF SendMessage, TypeOK
  <2>8. UNCHANGED <<row, toRead>> /\ r \in plan[m][h]
    BY <1>3 DEF SendMessage
  <2>9. TypeOK'
    BY <2>3, <2>4, <2>5, <2>6, <2>7, <2>8 DEF TypeOK
  <2>10. HeldBy(m, r, h)
    BY <2>8 DEF HeldBy
  <2>11. UnderwayFollow
    <3> SUFFICES ASSUME NEW q \in Repo, Underway(q, Facade)'
                 PROVE  Underway(q, Facade)
      BY DEF UnderwayFollow
    <3>1. CASE \E n \in Monitor : HeldBy(n, q, Facade)'
      <4>1. PICK n : n \in Monitor /\ HeldBy(n, q, Facade)'
        BY <3>1
      <4>2. HeldBy(n, q, Facade) \/ (q = r /\ h = Facade)
        BY <2>1, <2>4, <2>6, <4>1 DEF HeldBy
      <4> QED BY <2>10, <4>1, <4>2 DEF Underway
    <3>2. CASE \E b \in Run : RunOf(b, q, Facade)'
      <4>1. PICK b : b \in Run /\ RunOf(b, q, Facade)'
        BY <3>2
      <4>2. RunOf(b, q, Facade) \/ (q = r /\ h = Facade)
        BY <2>1, <2>5, <4>1 DEF RunOf
      <4> QED BY <2>10, <4>1, <4>2 DEF Underway
    <3> QED BY <3>1, <3>2 DEF Underway
  <2> QED BY <1>0, <2>8, <2>9, <2>11
<1>4. ASSUME NEW r \in Repo, NEW h \in Hook, SkipMessage(m, r, h)
      PROVE  TypeOK' /\ RowsFollow /\ UnderwayFollow
  <2>1. plan' \in [Monitor -> [Hook -> SUBSET Repo]]
        /\ \A n \in Monitor : \A g \in Hook : plan'[n][g] \subseteq plan[n][g]
    BY <1>4 DEF SkipMessage, TypeOK
  <2>2. UNCHANGED <<row, runs, mpc, toRead, sent>>
    BY <1>4 DEF SkipMessage
  <2>3. NoNewRun /\ NothingChosen
    BY <2>1, <2>2 DEF NoNewRun, NothingChosen
  <2>4. TypeOK'
    BY <2>1, <2>2 DEF TypeOK
  <2> QED BY <1>0, <2>2, <2>3, <2>4, NothingFollows
<1>5. CASE update_status_and_id(m)
  <2> DEFINE s == sent[m]
             v == MarkCollecting(row[s.repo], s.hook, s.run)
  <2>1. s # Null /\ s \in Sent
    BY <1>5 DEF update_status_and_id, TypeOK
  <2>2. s.repo \in Repo /\ s.hook \in Hook /\ s.run \in Run /\ row[s.repo] \in Row
    BY <2>1 DEF Sent, TypeOK
  <2>3. OneRow(s.repo, v)
    BY <1>5 DEF update_status_and_id, OneRow
  <2>4. v \in Row /\ (s.hook # Facade => Keeps(row[s.repo], v))
    BY <2>2, CollectingKeeps
  <2>5. s.hook = Facade => Underway(s.repo, Facade)
    BY <2>1 DEF Underway, HeldBy
  <2> HIDE DEF v
  <2>6. row' \in [Repo -> Row] /\ RowsFollow
    BY <2>2, <2>3, <2>4, <2>5, OneRowFollows
  <2>7. sent' \in [Monitor -> Sent \cup {Null}]
        /\ \A n \in Monitor : sent'[n] = IF n = m THEN Null ELSE sent[n]
    BY <1>5 DEF update_status_and_id, TypeOK
  <2>8. mpc' \in [Monitor -> {"idle", "read", "send", "mark"}]
        /\ \A n \in Monitor : mpc'[n] = IF n = m THEN "send" ELSE mpc[n]
    BY <1>5 DEF update_status_and_id, TypeOK
  <2>9. UNCHANGED <<runs, toRead, plan>>
    BY <1>5 DEF update_status_and_id
  <2>10. TypeOK'
    BY <2>6, <2>7, <2>8, <2>9 DEF TypeOK
  <2>11. NoNewRun /\ NothingChosen
    BY <2>7, <2>9 DEF NoNewRun, NothingChosen
  <2> QED BY <2>6, <2>10, <2>11, NothingFollows
<1>6. CASE FinishMonitor(m)
  <2>1. TypeOK'
    BY <1>6 DEF FinishMonitor, TypeOK
  <2>2. NoNewRun /\ NothingChosen
    BY <1>6 DEF FinishMonitor, NoNewRun, NothingChosen
  <2> QED BY <1>0, <1>6, <2>1, <2>2, NothingFollows DEF FinishMonitor
<1>7. CASE AbortMonitor(m)
  <2>1. NoPlan \in [Hook -> SUBSET Repo] /\ \A h \in Hook : NoPlan[h] = {}
    BY DEF NoPlan
  <2>2. TypeOK'
    BY <1>7, <2>1 DEF AbortMonitor, TypeOK
  <2>3. \A n \in Monitor : (\A h \in Hook : plan'[n][h] \subseteq plan[n][h])
                           /\ (sent'[n] # Null => sent'[n] = sent[n])
    BY <1>7, <2>1 DEF AbortMonitor, TypeOK
  <2>4. NoNewRun /\ NothingChosen
    BY <1>7, <2>3 DEF AbortMonitor, NoNewRun, NothingChosen
  <2> QED BY <1>0, <1>7, <2>2, <2>4, NothingFollows DEF AbortMonitor
<1> QED BY <1>1, <1>2, <1>3, <1>4, <1>5, <1>6, <1>7 DEF MonitorStep

\* The recovery script and the passing of time.
LEMMA RecoveryFollows ==
  ASSUME TypeOK, retry_errored_repos \/ \E r \in Repo, h \in Hook : IntervalElapses(r, h)
  PROVE  TypeOK' /\ RowsFollow /\ UnderwayFollow
<1>1. row' \in [Repo -> Row] /\ RowsFollow
  <2>1. CASE retry_errored_repos
    <3>1. \A r \in Repo : row'[r] = RetryRow(row[r]) /\ Keeps(row[r], RetryRow(row[r]))
      BY <2>1, RetryKeeps DEF retry_errored_repos, TypeOK
    <3>2. row' \in [Repo -> Row]
      BY <2>1, <3>1 DEF retry_errored_repos, Keeps
    <3> QED BY <3>1, <3>2 DEF RowsFollow, Keeps
  <2>2. ASSUME NEW r \in Repo, NEW h \in Hook, IntervalElapses(r, h)
        PROVE  row' \in [Repo -> Row] /\ RowsFollow
    <3> DEFINE v == [row[r] EXCEPT ![h].last = Due]
    <3>1. OneRow(r, v)
      BY <2>2 DEF IntervalElapses, OneRow
    <3>2. row[r] \in Row /\ row[r][h].status = "Success"
      BY <2>2 DEF IntervalElapses, TypeOK
    <3>3. Keeps(row[r], v)
      BY <3>2, ElapsedKeeps
    <3> HIDE DEF v
    <3> QED BY <3>1, <3>3, OneRowFollows DEF Keeps
  <2> QED BY <2>1, <2>2
<1>2. UNCHANGED <<runs, mpc, toRead, plan, sent>>
  BY DEF retry_errored_repos, IntervalElapses, monitorVars
<1>3. TypeOK'
  BY <1>1, <1>2 DEF TypeOK
<1>4. NoNewRun /\ NothingChosen
  BY <1>2 DEF NoNewRun, NothingChosen
<1> QED BY <1>1, <1>3, <1>4, NothingFollows

LEMMA SchedulerFollows ==
  ASSUME TypeOK, SchedulerStep
  PROVE  TypeOK' /\ RowsFollow /\ UnderwayFollow
BY MonitorFollows, RunFollows, RecoveryFollows DEF SchedulerStep

-----------------------------------------------------------------------------
(* The steps of the cloners.                                               *)

CloneTypeOK ==
    /\ queue \in 0 .. MaxMessages
    /\ cpc \in [Cloner -> {"idle", "next", "initialize", "mkdir", "clone", "count"}]
    /\ todo \in [Cloner -> SUBSET Repo]
    /\ cloning \in [Cloner -> Repo \cup {Null}]
    /\ \A w \in Cloner : cpc[w] \in {"initialize", "mkdir", "clone", "count"} <=> cloning[w] # Null

\* A directory may become another, and is never removed.
DirKept ==
    /\ \A r \in Repo : dir[r] # "absent" => dir'[r] # "absent"
    /\ unmade \subseteq unmade' /\ unmade' \subseteq Repo

\* No row is made ready for analysis without a directory.
RowsReady ==
    /\ row' \in [Repo -> Row]
    /\ \A r \in Repo :
          Analysable(row'[r][Facade]) => Analysable(row[r][Facade]) \/ MadeNow(r)

\* No cloner but w moves, and w is not left at a repository without directory.
OnlyCloner(w) ==
    \A v \in Cloner : cpc'[v] \in {"clone", "count"} =>
        \/ cpc[v] \in {"clone", "count"} /\ cloning'[v] = cloning[v]
        \/ v = w /\ cloning'[v] \in Repo /\ dir'[cloning'[v]] # "absent"

LEMMA CloneKeeps ==
  ASSUME FacadeInv, NEW w, RowsReady, OnlyCloner(w), DirKept, CloneTypeOK',
         dir' \in [Repo -> Dir], UNCHANGED <<runs, monitorVars>>
  PROVE  FacadeInv'
<1>1. FacadeTypeOK'
  BY DEF FacadeInv, FacadeTypeOK, TypeOK, monitorVars, CloneTypeOK, RowsReady, DirKept
<1>2. RowsCloned'
  BY DEF FacadeInv, RowsCloned, RowsReady, DirKept, Made, MadeNow
<1>3. UnderwayCloned'
  BY DEF FacadeInv, UnderwayCloned, Underway, HeldBy, RunOf, monitorVars, DirKept, Made
<1>4. ClonersAtDirectory'
  <2> SUFFICES ASSUME NEW v \in Cloner, cpc'[v] \in {"clone", "count"}
               PROVE  dir'[cloning'[v]] # "absent"
    BY DEF ClonersAtDirectory
  <2>1. CASE cpc[v] \in {"clone", "count"} /\ cloning'[v] = cloning[v]
    <3>1. cloning[v] \in Repo /\ dir[cloning[v]] # "absent"
      BY <2>1 DEF FacadeInv, FacadeTypeOK, ClonersAtDirectory
    <3> QED BY <2>1, <3>1 DEF DirKept
  <2> QED BY <2>1 DEF OnlyCloner
<1> QED BY <1>1, <1>2, <1>3, <1>4 DEF FacadeInv

\* Of a message that is sent only the bound is known.
LEMMA Sent1Bounded ==
  ASSUME NEW n \in 0 .. MaxMessages
  PROVE  Sent1(n) \in 0 .. MaxMessages
BY CloneAssumption DEF Sent1

LEMMA FacadeWritten ==
  ASSUME TypeOK, NEW r \in Repo, NEW status \in Status
  PROVE  /\ WithFacade(r, status) \in Row
         /\ WithFacade(r, status)[Facade].status = status
         /\ WithFacade(r, status)[Facade].last = row[r][Facade].last
<1> DEFINE c == [row[r][Facade] EXCEPT !.status = status]
<1>1. row[r] \in Row /\ Facade \in Hook /\ row[r][Facade] \in Cell
  BY HookNames DEF TypeOK, Row
<1>2. c \in Cell /\ c.status = status /\ c.last = row[r][Facade].last
  BY <1>1 DEF Cell
<1>3. WithFacade(r, status) = [row[r] EXCEPT ![Facade] = c]
  BY <1>1 DEF WithFacade, Row
<1> HIDE DEF c
<1> QED BY <1>1, <1>2, <1>3, CellWritten

\* The task ends for w and its message is put back.
LEMMA RetryEnds ==
  ASSUME FacadeTypeOK, NEW w \in Cloner, Retry(w)
  PROVE  CloneTypeOK' /\ OnlyCloner(w)
<1>1. queue' \in 0 .. MaxMessages
  BY Sent1Bounded DEF Retry, FacadeTypeOK
<1>2. /\ \A v \in Cloner : cpc'[v] = IF v = w THEN "idle" ELSE cpc[v]
      /\ \A v \in Cloner : cloning'[v] = IF v = w THEN Null ELSE cloning[v]
  BY DEF Retry, FacadeTypeOK
<1>3. /\ cpc' \in [Cloner -> {"idle", "next", "initialize", "mkdir", "clone", "count"}]
      /\ todo' \in [Cloner -> SUBSET Repo]
      /\ cloning' \in [Cloner -> Repo \cup {Null}]
  BY DEF Retry, FacadeTypeOK
<1>4. \A v \in Cloner : cpc'[v] \in {"initialize", "mkdir", "clone", "count"} <=> cloning'[v] # Null
  BY <1>2 DEF FacadeTypeOK
<1>5. CloneTypeOK'
  BY <1>1, <1>3, <1>4 DEF CloneTypeOK
<1> QED BY <1>2, <1>5 DEF OnlyCloner

LEMMA SameRowsReady ==
  ASSUME TypeOK, row' = row
  PROVE  RowsReady
BY DEF TypeOK, RowsReady

LEMMA ReadyRowWritten ==
  ASSUME TypeOK, NEW r \in Repo, NEW v \in Row, OneRow(r, v),
         Analysable(v[Facade]) => Analysable(row[r][Facade]) \/ MadeNow(r)
  PROVE  RowsReady
<1>1. row' \in [Repo -> Row] /\ \A q \in Repo : row'[q] = IF q = r THEN v ELSE row[q]
  BY DEF TypeOK, OneRow
<1> QED BY <1>1 DEF RowsReady

\* A repository is dealt with: there is a directory by then, or the row does
\* not become ready without one.
LEMMA EndRepoKeeps ==
  ASSUME FacadeInv, NEW w \in Cloner, NEW status \in Status, EndRepo(w, status),
         cloning[w] \in Repo,
         Analysable(WithFacade(cloning[w], status)[Facade]) =>
           Analysable(row[cloning[w]][Facade]) \/ MadeNow(cloning[w])
  PROVE  CloneTypeOK' /\ OnlyCloner(w) /\ RowsReady
<1> DEFINE v == WithFacade(cloning[w], status)
<1>0. FacadeTypeOK /\ TypeOK
  BY DEF FacadeInv, FacadeTypeOK
<1>1. CASE Checks(v)
  <2>1. queue' \in 0 .. MaxMessages
    BY <1>0, <1>1, Sent1Bounded DEF EndRepo, FacadeTypeOK
  <2>2. /\ cpc' = [cpc EXCEPT ![w] = "next"] /\ UNCHANGED todo
        /\ cloning' = [cloning EXCEPT ![w] = Null]
        /\ OneRow(cloning[w], v)
    BY <1>1 DEF EndRepo, OneRow
  <2>3. v \in Row
    BY <1>0, FacadeWritten
  <2>7. Analysable(v[Facade]) => Analysable(row[cloning[w]][Facade]) \/ MadeNow(cloning[w])
    OBVIOUS
  <2> HIDE DEF v
  <2>4. RowsReady
    BY <1>0, <2>2, <2>3, <2>7, ReadyRowWritten
  <2>5. /\ \A u \in Cloner : cpc'[u] = IF u = w THEN "next" ELSE cpc[u]
        /\ \A u \in Cloner : cloning'[u] = IF u = w THEN Null ELSE cloning[u]
        /\ cpc' \in [Cloner -> {"idle", "next", "initialize", "mkdir", "clone", "count"}]
        /\ todo' \in [Cloner -> SUBSET Repo]
        /\ cloning' \in [Cloner -> Repo \cup {Null}]
    BY <1>0, <2>2 DEF FacadeTypeOK
  <2>6. CloneTypeOK'
    BY <1>0, <2>1, <2>5 DEF CloneTypeOK, FacadeTypeOK
  <2> QED BY <2>4, <2>5, <2>6 DEF OnlyCloner
<1>2. CASE ~ Checks(v)
  <2>1. Retry(w) /\ row' = row
    BY <1>2, Zenon DEF EndRepo
  <2>2. CloneTypeOK' /\ OnlyCloner(w)
    BY <1>0, <2>1, RetryEnds
  <2>3. RowsReady
    BY <1>0, <2>1, SameRowsReady
  <2> QED BY <2>2, <2>3
<1> QED BY <1>1, <1>2

\* A cloner may stop at any point of its task.
LEMMA CloneStepKeeps ==
  ASSUME FacadeInv, NEW w \in Cloner, CloneStep(w) \/ KillCloner(w)
  PROVE  FacadeInv'
<1>0. /\ FacadeTypeOK /\ TypeOK
      /\ dir \in [Repo -> Dir] /\ queue \in 0 .. MaxMessages
      /\ cpc \in [Cloner -> {"idle", "next", "initialize", "mkdir", "clone", "count"}]
      /\ todo \in [Cloner -> SUBSET Repo]
      /\ cloning \in [Cloner -> Repo \cup {Null}]
      /\ \A v \in Cloner : cpc[v] \in {"initialize", "mkdir", "clone", "count"} <=> cloning[v] # Null
      /\ unmade \subseteq Repo
  BY DEF FacadeInv, FacadeTypeOK
<1>1. cpc[w] \in {"initialize", "mkdir", "clone", "count"} => cloning[w] \in Repo
  BY <1>0
<1>2. cpc[w] \in {"clone", "count"} => dir[cloning[w]] # "absent"
  BY DEF FacadeInv, ClonersAtDirectory
<1>3. UNCHANGED <<runs, monitorVars>>
  BY DEF CloneStep, ReadPending, SetInitializing, FindDirectory, MissDirectory, StartClone,
         InitializeFails, CloneSucceeds, CloneFails, CountCommits, EndTask, KillCloner,
         vars, monitorVars
<1>4. UNCHANGED <<dir, unmade>> => DirKept /\ dir' \in [Repo -> Dir]
  BY <1>0 DEF DirKept
<1>5. CASE ReadPending(w)
  <2>0. queue' \in 0 .. MaxMessages
    BY <1>0, <1>5, CloneAssumption DEF ReadPending
  <2>1. CloneTypeOK' /\ OnlyCloner(w)
    BY <1>0, <1>5, <2>0 DEF ReadPending, CloneTypeOK, OnlyCloner
  <2>2. RowsReady /\ UNCHANGED <<dir, unmade>>
    BY <1>0, <1>5, SameRowsReady DEF ReadPending, vars
  <2> QED BY <1>3, <1>4, <2>1, <2>2, CloneKeeps
<1>6. ASSUME NEW r \in Repo, SetInitializing(w, r)
      PROVE  FacadeInv'
  <2> DEFINE v == WithFacade(r, "Initializing")
  <2>1. v \in Row /\ v[Facade].status = "Initializing" /\ v[Facade].last = row[r][Facade].last
    BY <1>0, FacadeWritten DEF Status
  <2>2. Checks(v) => ~ Analysable(v[Facade])
    BY <2>1, HookNames DEF Checks, last_collected_check, Analysable
  <2>3. UNCHANGED <<dir, unmade>>
    BY <1>6 DEF SetInitializing
  <2>4. CASE Checks(v)
    <3>1. /\ OneRow(r, v)
          /\ cpc' = [cpc EXCEPT ![w] = "initialize"] /\ todo' = [todo EXCEPT ![w] = @ \ {r}]
          /\ cloning' = [cloning EXCEPT ![w] = r] /\ queue' = queue
      BY <1>6, <2>4 DEF SetInitializing, OneRow
    <3> HIDE DEF v
    <3>2. RowsReady
      BY <1>0, <2>1, <2>2, <2>4, <3>1, ReadyRowWritten
    <3>3. r # Null
      BY CloneAssumption
    <3>4. CloneTypeOK' /\ OnlyCloner(w)
      BY <1>0, <3>1, <3>3 DEF CloneTypeOK, OnlyCloner
    <3> QED BY <1>3, <1>4, <2>3, <3>2, <3>4, CloneKeeps
  <2>5. CASE ~ Checks(v)
    <3>1. Retry(w) /\ row' = row
      BY <1>6, <2>5 DEF SetInitializing
    <3>2. CloneTypeOK' /\ OnlyCloner(w)
      BY <1>0, <3>1, RetryEnds
    <3>3. RowsReady
      BY <1>0, <3>1, SameRowsReady
    <3> QED BY <1>3, <1>4, <2>3, <3>2, <3>3, CloneKeeps
  <2> QED BY <2>4, <2>5
<1>7. CASE FindDirectory(w)
  <2> DEFINE r == cloning[w]
             c == [row[r][Facade] EXCEPT !.status = "Update", !.task = Null]
             v == [row[r] EXCEPT ![Facade].status = "Update", ![Facade].task = Null]
  <2>1. r \in Repo /\ dir[r] # "absent" /\ UNCHANGED <<dir, unmade>>
    BY <1>1, <1>7 DEF FindDirectory
  <2>2. row[r] \in Row /\ Facade \in Hook /\ row[r][Facade] \in Cell
    BY <1>0, <2>1, HookNames DEF TypeOK, Row
  <2>3. c \in Cell
    BY <2>2 DEF Cell, Status
  <2>4. v = [row[r] EXCEPT ![Facade] = c]
    BY <2>2 DEF Row
  <2>5. v \in Row
    <3> HIDE DEF c, v
    <3> QED BY <2>2, <2>3, <2>4, CellWritten
  <2>6. CASE Checks(v)
    <3>1. OneRow(r, v) /\ cpc' = [cpc EXCEPT ![w] = "count"] /\ UNCHANGED <<queue, todo, cloning>>
      BY <1>7, <2>6 DEF FindDirectory, OneRow
    <3>2. cpc[w] = "initialize"
      BY <1>7 DEF FindDirectory
    <3> HIDE DEF v, r
    <3>3. RowsReady
      BY <1>0, <2>1, <2>5, <3>1, ReadyRowWritten DEF MadeNow
    <3>4. CloneTypeOK'
      BY <1>0, <3>1, <3>2 DEF CloneTypeOK
    <3>5. OnlyCloner(w)
      <4>1. cloning'[w] \in Repo /\ dir'[cloning'[w]] # "absent"
        BY <2>1, <3>1 DEF r
      <4>2. \A u \in Cloner : u # w => cpc'[u] = cpc[u] /\ cloning'[u] = cloning[u]
        BY <1>0, <3>1
      <4> QED BY <4>1, <4>2 DEF OnlyCloner
    <3> QED BY <1>3, <1>4, <2>1, <3>3, <3>4, <3>5, CloneKeeps
  <2>7. CASE ~ Checks(v)
    <3>1. Retry(w) /\ row' = row
      BY <1>7, <2>7 DEF FindDirectory
    <3>2. CloneTypeOK' /\ OnlyCloner(w)
      BY <1>0, <3>1, RetryEnds
    <3>3. RowsReady
      BY <1>0, <3>1, SameRowsReady
    <3> QED BY <1>3, <1>4, <2>1, <3>2, <3>3, CloneKeeps
  <2> QED BY <2>6, <2>7
<1>14. CASE MissDirectory(w)
  <2>1. /\ cpc[w] = "initialize" /\ cpc' = [cpc EXCEPT ![w] = "mkdir"]
        /\ UNCHANGED <<queue, todo, cloning, row, dir, unmade>>
    BY <1>14 DEF MissDirectory, vars
  <2>2. CloneTypeOK' /\ OnlyCloner(w)
    BY <1>0, <2>1 DEF CloneTypeOK, OnlyCloner
  <2>3. RowsReady
    BY <1>0, <2>1, SameRowsReady
  <2> QED BY <1>3, <1>4, <2>1, <2>2, <2>3, CloneKeeps
<1>8. CASE StartClone(w)
  <2>1. cloning[w] \in Repo /\ cpc[w] = "mkdir" /\ UNCHANGED unmade
    BY <1>1, <1>8 DEF StartClone
  <2>2. CASE HasGit(cloning[w])
    <3>1. EndRepo(w, "Failed Clone") /\ UNCHANGED dir
      BY <1>8, <2>2 DEF StartClone
    <3>2. MadeNow(cloning[w])
      BY <2>2, <3>1 DEF HasGit, MadeNow
    <3>3. CloneTypeOK' /\ OnlyCloner(w) /\ RowsReady
      BY <2>1, <3>1, <3>2, EndRepoKeeps DEF Status
    <3> QED BY <1>3, <1>4, <2>1, <3>1, <3>3, CloneKeeps
  <2>3. CASE ~HasGit(cloning[w])
    <3>1. /\ dir' = [dir EXCEPT ![cloning[w]] = "partial"]
          /\ cpc' = [cpc EXCEPT ![w] = "clone"] /\ UNCHANGED <<queue, todo, cloning, row>>
      BY <1>8, <2>3 DEF StartClone
    <3>2. dir' \in [Repo -> Dir] /\ DirKept /\ dir'[cloning[w]] = "partial"
      BY <1>0, <2>1, <3>1 DEF Dir, DirKept
    <3>3. CloneTypeOK'
      BY <1>0, <2>1, <3>1 DEF CloneTypeOK
    <3>4. OnlyCloner(w)
      <4>1. \A u \in Cloner : u # w => cpc'[u] = cpc[u] /\ cloning'[u] = cloning[u]
        BY <1>0, <3>1
      <4> QED BY <2>1, <3>1, <3>2, <4>1 DEF OnlyCloner
    <3> QED BY <1>0, <1>3, <3>1, <3>2, <3>3, <3>4, SameRowsReady, CloneKeeps
  <2> QED BY <2>2, <2>3
<1>15. CASE InitializeFails(w)
  <2> DEFINE r == cloning[w]
             v == WithFacade(r, "Error")
  <2>1. /\ r \in Repo /\ EndRepo(w, "Error")
        /\ dir' = dir \/ (dir[r] = "absent" /\ dir' = [dir EXCEPT ![r] = "empty"])
        /\ unmade' = IF dir'[r] = "absent" /\ row[r][Facade].last # Never
                     THEN unmade \cup {r} ELSE unmade
    BY <1>1, <1>15 DEF InitializeFails
  <2>2. dir' \in [Repo -> Dir] /\ DirKept
    BY <1>0, <2>1 DEF Dir, DirKept
  <2>3. v[Facade].status = "Error" /\ v[Facade].last = row[r][Facade].last
    BY <1>0, <2>1, FacadeWritten DEF Status
  <2>4. Analysable(v[Facade]) => MadeNow(r)
    BY <2>1, <2>3 DEF Analysable, MadeNow
  <2>5. CloneTypeOK' /\ OnlyCloner(w) /\ RowsReady
    BY <2>1, <2>4, EndRepoKeeps DEF Status
  <2> QED BY <1>3, <2>2, <2>5, CloneKeeps
<1>9. CASE CloneSucceeds(w)
  <2>1. /\ cloning[w] \in Repo /\ cpc[w] = "clone"
        /\ dir' = [dir EXCEPT ![cloning[w]] = "cloned"]
        /\ cpc' = [cpc EXCEPT ![w] = "count"]
        /\ UNCHANGED <<queue, todo, cloning, row, unmade>>
    BY <1>1, <1>9 DEF CloneSucceeds, vars
  <2>2. dir' \in [Repo -> Dir] /\ DirKept
    BY <1>0, <2>1 DEF Dir, DirKept
  <2>3. CloneTypeOK' /\ OnlyCloner(w)
    BY <1>0, <2>1 DEF CloneTypeOK, OnlyCloner
  <2> QED BY <1>0, <1>3, <2>1, <2>2, <2>3, SameRowsReady, CloneKeeps
<1>10. CASE CloneFails(w)
  <2>1. PICK left \in {"empty", "partial"} :
          /\ cloning[w] \in Repo /\ EndRepo(w, "Failed Clone")
          /\ dir' = [dir EXCEPT ![cloning[w]] = left] /\ UNCHANGED unmade
    BY <1>1, <1>10 DEF CloneFails
  <2>2. dir' \in [Repo -> Dir] /\ DirKept /\ MadeNow(cloning[w])
    BY <1>0, <2>1 DEF Dir, DirKept, MadeNow
  <2>3. CloneTypeOK' /\ OnlyCloner(w) /\ RowsReady
    BY <2>1, <2>2, EndRepoKeeps DEF Status
  <2> QED BY <1>3, <2>2, <2>3, CloneKeeps
<1>11. CASE CountCommits(w)
  <2>1. cloning[w] \in Repo /\ UNCHANGED <<dir, unmade>> /\ MadeNow(cloning[w])
    BY <1>1, <1>2, <1>11 DEF CountCommits, MadeNow
  <2>2. EndRepo(w, "Update") \/ EndRepo(w, "Error")
    BY <1>11 DEF CountCommits
  <2>3. CloneTypeOK' /\ OnlyCloner(w) /\ RowsReady
    BY <2>1, <2>2, EndRepoKeeps DEF Status
  <2> QED BY <1>3, <1>4, <2>1, <2>3, CloneKeeps
<1>12. CASE EndTask(w)
  <2>1. CloneTypeOK' /\ OnlyCloner(w)
    BY <1>0, <1>12 DEF EndTask, CloneTypeOK, OnlyCloner
  <2>2. RowsReady /\ UNCHANGED <<dir, unmade>>
    BY <1>0, <1>12, SameRowsReady DEF EndTask, vars
  <2> QED BY <1>3, <1>4, <2>1, <2>2, CloneKeeps
<1>13. CASE KillCloner(w)
  <2>1. CloneTypeOK' /\ OnlyCloner(w)
    BY <1>0, <1>13 DEF KillCloner, CloneTypeOK, OnlyCloner
  <2>2. RowsReady /\ UNCHANGED <<dir, unmade>>
    BY <1>0, <1>13, SameRowsReady DEF KillCloner, vars
  <2> QED BY <1>3, <1>4, <2>1, <2>2, CloneKeeps
<1> QED BY <1>5, <1>6, <1>7, <1>8, <1>9, <1>10, <1>11, <1>12, <1>13, <1>14, <1>15
        DEF CloneStep

-----------------------------------------------------------------------------
(* All steps.                                                              *)

LEMMA FacadeInitInv ==
  ASSUME FacadeInit
  PROVE  FacadeInv
<1>1. NewCell \in Cell /\ NewRow \in Row /\ NewRow[Facade] = NewCell /\ ~ Analysable(NewCell)
  BY HookNames DEF NewCell, NewRow, Cell, Status, LastCollected, Row, Analysable
<1>2. NoPlan \in [Hook -> SUBSET Repo] /\ NoPlan[Facade] = {}
  BY HookNames DEF NoPlan
<1>3. TypeOK
  BY <1>1, <1>2 DEF FacadeInit, Init, TypeOK
<1>4. FacadeTypeOK
  BY <1>3, CloneAssumption DEF FacadeInit, FacadeTypeOK, Dir
<1>5. RowsCloned
  BY <1>1 DEF FacadeInit, Init, RowsCloned
<1>6. UnderwayCloned
  BY <1>2 DEF FacadeInit, Init, UnderwayCloned, Underway, HeldBy, RunOf
<1>7. ClonersAtDirectory
  BY DEF FacadeInit, ClonersAtDirectory
<1> QED BY <1>4, <1>5, <1>6, <1>7 DEF FacadeInv

\* What the scheduler makes ready or takes up was ready or underway before.
LEMMA FollowedKeeps ==
  ASSUME FacadeInv, TypeOK', RowsFollow, UnderwayFollow, UNCHANGED cloneVars
  PROVE  FacadeInv'
<1>1. UNCHANGED <<dir, queue, cpc, todo, cloning, unmade>>
  BY DEF cloneVars
<1>2. FacadeTypeOK'
  BY <1>1 DEF FacadeInv, FacadeTypeOK
<1>3. RowsCloned'
  BY <1>1 DEF FacadeInv, RowsCloned, UnderwayCloned, RowsFollow, Made
<1>4. UnderwayCloned'
  BY <1>1 DEF FacadeInv, RowsCloned, UnderwayCloned, UnderwayFollow, Made
<1>5. ClonersAtDirectory'
  BY <1>1 DEF FacadeInv, ClonersAtDirectory
<1> QED BY <1>2, <1>3, <1>4, <1>5 DEF FacadeInv

LEMMA RestartKeeps ==
  ASSUME FacadeInv, Restart
  PROVE  FacadeInv'
<1>0. TypeOK /\ queue \in 0 .. MaxMessages
  BY DEF FacadeInv, FacadeTypeOK
<1>1. \A r \in Repo : row'[r] = CleanRow(row[r]) /\ Keeps(row[r], CleanRow(row[r]))
  BY <1>0, CleanKeeps DEF Restart, TypeOK
<1>2. row' \in [Repo -> Row]
  BY <1>1 DEF Restart, Keeps
<1>3. UNCHANGED <<runs, mpc, toRead, plan, sent, dir, cpc, todo, cloning, unmade>>
  BY DEF Restart, monitorVars
<1>4. queue' \in 0 .. MaxMessages
  BY <1>0, Sent1Bounded DEF Restart
<1>5. FacadeTypeOK'
  BY <1>2, <1>3, <1>4 DEF FacadeInv, FacadeTypeOK, TypeOK
<1>6. RowsCloned'
  BY <1>1, <1>3 DEF FacadeInv, RowsCloned, Keeps, Made
<1>7. UnderwayCloned'
  BY <1>3 DEF FacadeInv, UnderwayCloned, Underway, HeldBy, RunOf, Made
<1>8. ClonersAtDirectory'
  BY <1>3 DEF FacadeInv, ClonersAtDirectory
<1> QED BY <1>5, <1>6, <1>7, <1>8 DEF FacadeInv

LEMMA FacadeInvKept ==
  ASSUME FacadeInv, [FacadeNext]_facadeVars
  PROVE  FacadeInv'
<1>0. TypeOK
  BY DEF FacadeInv, FacadeTypeOK
<1>1. CASE SchedulerStep /\ UNCHANGED cloneVars
  BY <1>0, <1>1, SchedulerFollows, FollowedKeeps
<1>2. ASSUME NEW c \in Run, UpdateCommitWeight(c)
      PROVE  FacadeInv'
  <2>1. UNCHANGED cloneVars
    BY <1>2 DEF UpdateCommitWeight
  <2> QED BY <1>0, <1>2, <2>1, RunFollows, FollowedKeeps
<1>3. ASSUME NEW w \in Cloner, CloneStep(w) \/ KillCloner(w)
      PROVE  FacadeInv'
  BY <1>3, CloneStepKeeps
<1>4. CASE Restart
  BY <1>4, RestartKeeps
<1>5. CASE UNCHANGED facadeVars
  BY <1>5 DEF facadeVars, FacadeInv, FacadeTypeOK, TypeOK, RowsCloned, UnderwayCloned,
              ClonersAtDirectory, Underway, HeldBy, RunOf, Made
<1> QED BY <1>1, <1>2, <1>3, <1>4, <1>5 DEF FacadeNext

LEMMA FacadeInvariant == FacadeSpec => []FacadeInv
<1>1. FacadeInit => FacadeInv
  BY FacadeInitInv
<1>2. FacadeInv /\ [FacadeNext]_facadeVars => FacadeInv'
  BY FacadeInvKept
<1> QED BY <1>1, <1>2, PTL DEF FacadeSpec

\* The rows, the directories, the message queue and the cloners stay in their
\* types, and a cloner that is at a repository knows which (clone_repos).
THEOREM FacadeTypeCorrect == FacadeSpec => []FacadeTypeOK
<1>1. FacadeInv => FacadeTypeOK
  BY DEF FacadeInv
<1> QED BY <1>1, FacadeInvariant, PTL

\* No commit analysis is chosen, sent, run or recorded for a repository that
\* nobody has made a directory for, but for those that were given up while a
\* cloner was at them: through failures, retries, killed cloners,
\* restarts and cloners that work off the same list (clone_repos,
\* get_newly_added_repos).
THEOREM AnalysisAfterClone == FacadeSpec => []AnalysedAfterClone
<1>1. FacadeInv => AnalysedAfterClone
  BY DEF FacadeInv, RowsCloned, UnderwayCloned, Analysable, Made, AnalysedAfterClone
<1> QED BY <1>1, FacadeInvariant, PTL
-----------------------------------------------------------------------------
(***************************************************************************)
(* The CHECK constraints.  SoundRow asks nothing of a facade cell but its  *)
(* CHECKs, and the cloners and the restart write no row the CHECKs refuse, *)
(* so that the scheduler's own invariant survives them.                    *)
(***************************************************************************)

\* A facade cell the CHECKs accept leaves the row sound.
LEMMA FacadeCellSound ==
  ASSUME NEW w, SoundRow(w), NEW c \in Cell, Checks([w EXCEPT ![Facade] = c])
  PROVE  LET v == [w EXCEPT ![Facade] = c]
         IN  v \in Row /\ SoundRow(v) /\ v[Core] = w[Core]
<1> DEFINE v == [w EXCEPT ![Facade] = c]
<1>1. w \in Row
  BY DEF SoundRow
<1>2. v \in Row /\ \A g \in Hook : v[g] = IF g = Facade THEN c ELSE w[g]
  BY <1>1, HookNames, CellWritten
<1>3. Checks(v)
  OBVIOUS
<1> HIDE DEF v
<1>4. SoundCell(Facade, c)
  BY <1>2, <1>3, HookNames DEF Checks, SoundCell
<1>5. \A g \in Hook : SoundCell(g, v[g])
  BY <1>2, <1>4 DEF SoundRow
<1>6. v[Core] = w[Core] /\ v[Secondary] = w[Secondary]
  BY <1>2, HookNames
<1>7. SoundRow(v)
  BY <1>2, <1>5, <1>6 DEF SoundRow
<1> QED BY <1>2, <1>6, <1>7 DEF v

\* A clean-up the CHECKs accept does too.
LEMMA AcceptedCleanSound ==
  ASSUME NEW w, SoundRow(w), Checks(CleanRow(w))
  PROVE  /\ CleanRow(w) \in Row /\ SoundRow(CleanRow(w))
         /\ CleanRow(w)[Core].last = w[Core].last
<1> DEFINE v == CleanRow(w)
<1>1. \A h \in Hook : SoundCell(h, w[h])
  BY DEF SoundRow
<1>2. v = [h \in Hook |-> v[h]] /\ \A h \in Hook : v[h] = CleanCell(h, w[h]) \/ v[h] = w[h]
  BY DEF CleanRow, CleanAfter
<1>3. Checks(v)
  OBVIOUS
<1> HIDE DEF v
<1>4. ASSUME NEW h \in Hook
      PROVE  /\ v[h] \in Cell /\ v[h].last = w[h].last
             /\ w[h].status = "Pending" => v[h].status = "Pending"
  <2>1. SoundCell(h, w[h]) /\ w[h] \in Cell /\ (v[h] = CleanCell(h, w[h]) \/ v[h] = w[h])
    BY <1>1, <1>2 DEF SoundCell
  <2>2. /\ CleanCell(h, w[h]) \in Cell /\ CleanCell(h, w[h]).last = w[h].last
        /\ w[h].status = "Pending" => CleanCell(h, w[h]).status = "Pending"
    BY <2>1, CleanCellSound
  <2> QED BY <2>1, <2>2
<1>5. v \in Row
  BY <1>2, <1>4 DEF Row
<1>6. \A h \in Hook : SoundCell(h, v[h])
  BY <1>3, <1>4 DEF Checks, SoundCell
<1>7. CoreFirst(v[Core], v[Secondary])
  BY <1>4, HookNames DEF SoundRow, CoreFirst
<1>8. SoundRow(v)
  BY <1>5, <1>6, <1>7 DEF SoundRow
<1> QED BY <1>4, <1>5, <1>8, HookNames DEF v

\* Nobody but the writer of the rows moves.
LEMMA RowsWrittenInv ==
  ASSUME Inv, UNCHANGED <<runs, monitorVars>>, row' \in [Repo -> Row],
         \A r \in Repo : SoundRow(row'[r]) /\ (Collected(r) => Collected(r)')
  PROVE  Inv'
<1>1. UNCHANGED <<runs, mpc, toRead, plan, sent>>
  BY DEF monitorVars
<1>2. TypeOK'
  BY <1>1 DEF Inv, TypeOK
<1>3. RowsSound'
  BY DEF RowsSound
<1>4. \A m \in Monitor : plan[m][Secondary] \subseteq Repo
  BY HookNames DEF Inv, TypeOK
<1>5. \A m \in Monitor : sent[m] # Null => sent[m].repo \in Repo
  BY DEF Inv, TypeOK, Sent
<1>6. \A c \in Run : runs[c] # Null => runs[c].repo \in Repo
  BY DEF Inv, TypeOK, Chain
<1>7. PlansFollow'
  BY <1>1, <1>4 DEF Inv, PlansFollow
<1>8. SentFollow'
  BY <1>1, <1>5 DEF Inv, SentFollow
<1>9. RunsFollow'
  BY <1>1, <1>6 DEF Inv, RunsFollow
<1> QED BY <1>2, <1>3, <1>7, <1>8, <1>9 DEF Inv

\* A cloner writes at most one facade cell, and only if the CHECKs accept it.
LEMMA CloneStepInv ==
  ASSUME Inv, FacadeTypeOK, NEW w \in Cloner, CloneStep(w) \/ KillCloner(w)
  PROVE  Inv'
<1>1. UNCHANGED <<runs, monitorVars>>
  BY DEF CloneStep, ReadPending, SetInitializing, FindDirectory, MissDirectory, StartClone,
         InitializeFails, CloneSucceeds, CloneFails, CountCommits, EndTask, KillCloner,
         vars, monitorVars
<1>2. ASSUME NEW r \in Repo, NEW c \in Cell, Checks([row[r] EXCEPT ![Facade] = c]),
             OneRow(r, [row[r] EXCEPT ![Facade] = c])
      PROVE  Inv'
  <2> DEFINE v == [row[r] EXCEPT ![Facade] = c]
  <2>1. SoundRow(row[r]) /\ row \in [Repo -> Row]
    BY DEF Inv, RowsSound, TypeOK
  <2>2. v \in Row /\ SoundRow(v) /\ v[Core] = row[r][Core]
    BY <1>2, <2>1, FacadeCellSound
  <2>3. OneRow(r, v)
    BY <1>2
  <2> HIDE DEF v
  <2>4. row' \in [Repo -> Row] /\ \A q \in Repo : row'[q] = IF q = r THEN v ELSE row[q]
    BY <2>1, <2>2, <2>3 DEF OneRow
  <2>5. \A q \in Repo : SoundRow(row'[q]) /\ (Collected(q) => Collected(q)')
    BY <2>2, <2>4 DEF Inv, RowsSound, Collected
  <2> QED BY <1>1, <2>4, <2>5, RowsWrittenInv
<1>3. ASSUME row' = row
      PROVE  Inv'
  BY <1>1, <1>3, RowsWrittenInv DEF Inv, TypeOK, RowsSound, Collected
<1>4. ASSUME NEW r \in Repo, NEW status \in Status, Checks(WithFacade(r, status)),
             OneRow(r, WithFacade(r, status))
      PROVE  Inv'
  <2> DEFINE c == [row[r][Facade] EXCEPT !.status = status]
  <2>1. row[r] \in Row /\ row[r][Facade] \in Cell
    BY HookNames DEF Inv, TypeOK, Row
  <2>2. c \in Cell
    BY <2>1 DEF Cell
  <2>3. WithFacade(r, status) = [row[r] EXCEPT ![Facade] = c]
    BY <2>1, HookNames DEF WithFacade, Row
  <2> HIDE DEF c
  <2> QED BY <1>2, <1>4, <2>2, <2>3
<1>5. ASSUME NEW status \in Status, EndRepo(w, status), cloning[w] \in Repo
      PROVE  Inv'
  <2> DEFINE v == WithFacade(cloning[w], status)
  <2>1. CASE Checks(v)
    <3>1. OneRow(cloning[w], v)
      BY <1>5, <2>1 DEF EndRepo, OneRow
    <3> QED BY <1>4, <1>5, <2>1, <3>1
  <2>2. CASE ~ Checks(v)
    <3>1. row' = row
      BY <1>5, <2>2, Zenon DEF EndRepo
    <3> QED BY <1>3, <3>1
  <2> QED BY <2>1, <2>2
<1>6. cpc[w] \in {"initialize", "mkdir", "clone", "count"} => cloning[w] \in Repo
  BY DEF FacadeTypeOK
<1>7. CASE ReadPending(w) \/ MissDirectory(w) \/ CloneSucceeds(w) \/ EndTask(w) \/ KillCloner(w)
  <2>1. row' = row
    BY <1>7 DEF ReadPending, MissDirectory, CloneSucceeds, EndTask, KillCloner, vars
  <2> QED BY <1>3, <2>1
<1>8. ASSUME NEW r \in Repo, SetInitializing(w, r)
      PROVE  Inv'
  <2> DEFINE v == WithFacade(r, "Initializing")
  <2>1. CASE Checks(v)
    <3>1. OneRow(r, v)
      BY <1>8, <2>1 DEF SetInitializing, OneRow
    <3>2. "Initializing" \in Status
      BY DEF Status
    <3> QED BY <1>4, <2>1, <3>1, <3>2
  <2>2. CASE ~ Checks(v)
    <3>1. row' = row
      BY <1>8, <2>2 DEF SetInitializing
    <3> QED BY <1>3, <3>1
  <2> QED BY <2>1, <2>2
<1>9. CASE FindDirectory(w)
  <2> DEFINE r == cloning[w]
             c == [row[r][Facade] EXCEPT !.status = "Update", !.task = Null]
             v == [row[r] EXCEPT ![Facade].status = "Update", ![Facade].task = Null]
  <2>1. r \in Repo
    BY <1>6, <1>9 DEF FindDirectory
  <2>2. row[r] \in Row /\ Facade \in Hook /\ row[r][Facade] \in Cell
    BY <2>1, HookNames DEF Inv, TypeOK, Row
  <2>3. c \in Cell
    BY <2>2 DEF Cell, Status
  <2>4. v = [row[r] EXCEPT ![Facade] = c]
    BY <2>2 DEF Row
  <2>5. CASE Checks(v)
    <3>1. OneRow(r, v)
      BY <1>9, <2>5 DEF FindDirectory, OneRow
    <3> HIDE DEF v, c, r
    <3>2. Checks([row[r] EXCEPT ![Facade] = c]) /\ OneRow(r, [row[r] EXCEPT ![Facade] = c])
      BY <2>4, <2>5, <3>1
    <3> QED BY <1>2, <2>1, <2>3, <3>2
  <2>6. CASE ~ Checks(v)
    <3>1. row' = row
      BY <1>9, <2>6 DEF FindDirectory
    <3> QED BY <1>3, <3>1
  <2> QED BY <2>5, <2>6
<1>10. CASE CloneFails(w) \/ InitializeFails(w)
  <2>1. cloning[w] \in Repo /\ (EndRepo(w, "Failed Clone") \/ EndRepo(w, "Error"))
    BY <1>6, <1>10 DEF CloneFails, InitializeFails
  <2> QED BY <1>5, <2>1 DEF Status
<1>12. CASE StartClone(w)
  <2>1. cloning[w] \in Repo /\ (EndRepo(w, "Failed Clone") \/ row' = row)
    BY <1>6, <1>12 DEF StartClone
  <2> QED BY <1>3, <1>5, <2>1 DEF Status
<1>11. CASE CountCommits(w)
  <2>1. cloning[w] \in Repo /\ (EndRepo(w, "Update") \/ EndRepo(w, "Error"))
    BY <1>6, <1>11 DEF CountCommits
  <2> QED BY <1>5, <2>1 DEF Status
<1> QED BY <1>7, <1>8, <1>9, <1>10, <1>11, <1>12 DEF CloneStep

\* start cleans all rows in one transaction, or none.
LEMMA RestartInv ==
  ASSUME Inv, Restart
  PROVE  Inv'
<1>1. \A r \in Repo : /\ row'[r] = CleanRow(row[r]) /\ row'[r] \in Row /\ SoundRow(row'[r])
                      /\ row'[r][Core].last = row[r][Core].last
  BY AcceptedCleanSound DEF Restart, Inv, RowsSound
<1>2. row' \in [Repo -> Row]
  BY <1>1 DEF Restart
<1>3. UNCHANGED <<runs, monitorVars>>
  BY DEF Restart
<1> QED BY <1>1, <1>2, <1>3, RowsWrittenInv DEF Collected

\* The last task of a facade chain ends its run, and may fail.
LEMMA WeightInv ==
  ASSUME Inv, NEW c \in Run, UpdateCommitWeight(c)
  PROVE  Inv'
<1>1. runs[c] # Null /\ OneRun(c, Null) /\ UNCHANGED monitorVars
  BY DEF UpdateCommitWeight, AtStage, OneRun
<1>2. RowsKept
  BY <1>1, HookNames, NoRowWritten, FailureKept DEF UpdateCommitWeight
<1>3. runs' \in [Run -> Chain \cup {Null}] /\ RunsFollow'
  BY <1>1, <1>2, OneRunChanged
<1> QED BY <1>1, <1>2, <1>3, MonitorsAlone

LEMMA SchedulerInvKept ==
  ASSUME FacadeInv, Inv, [FacadeNext]_facadeVars
  PROVE  Inv'
<1>1. CASE SchedulerStep
  BY <1>1, InvSchedulerStep
<1>2. ASSUME NEW w \in Cloner, CloneStep(w) \/ KillCloner(w)
      PROVE  Inv'
  BY <1>2, CloneStepInv DEF FacadeInv
<1>3. CASE UNCHANGED facadeVars
  BY <1>3, InvUnchanged DEF facadeVars, vars
<1> QED BY <1>1, <1>2, <1>3, RestartInv, WeightInv DEF FacadeNext

\* The scheduler's writes, which nothing makes sure of beforehand, break no
\* CHECK constraint when cloners write facade statuses from lists they read
\* long ago, and restarts reset them.  A write of a cloner that a CHECK refuses
\* ends its task and is not committed.
THEOREM CloneConstraintsHold == FacadeSpec => []ConstraintsHold
<1>1. FacadeInit => Inv
  BY InvInit DEF FacadeInit
<1>2. FacadeInv /\ Inv /\ [FacadeNext]_facadeVars => Inv'
  BY SchedulerInvKept
<1>3. Inv => ConstraintsHold
  BY SoundRowChecks DEF Inv, RowsSound, ConstraintsHold
<1> QED BY <1>1, <1>2, <1>3, FacadeInvariant, PTL DEF FacadeSpec
=============================================================================

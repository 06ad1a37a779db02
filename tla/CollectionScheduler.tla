------------------------- MODULE CollectionScheduler -------------------------
(***************************************************************************)
(* The collection scheduler: the periodic augur_collection_monitor tasks   *)
(* that choose repositories and dispatch one celery chain per repository   *)
(* and hook, the workers that run the chains, the failure handlers and     *)
(* success tasks that write the outcome, and the two recovery scripts.     *)
(*                                                                         *)
(* The monitor, the workers and the recovery scripts are different         *)
(* processes that meet only in the collection_status table and in the      *)
(* broker.  A monitor reads each hook's candidates in a transaction of     *)
(* their own, sends a chain to the broker, and only then writes the row.   *)
(***************************************************************************)
EXTENDS CollectionState, Integers, FiniteSets

CONSTANTS
  Repo,        \* repositories; each has its row of collection_status
  GitlabRepo,  \* those hosted on GitLab, the others being on GitHub
  Enabled,     \* hooks whose phase is enabled in the Task_Routine section
  MaxRepo,     \* max_repo of the request of each hook
  Weight,      \* issue_pr_sum (for facade commit_sum) of each repository
  Monitor,     \* augur_collection_monitor tasks that may run at once
  Jobs,        \* bound: collection jobs in the body of a chain
  Event        \* events of the environment that may happen, from AllEvents

AllEvents == {"task fails", "task fails silently", "repo gone", "run lost",
              "monitor aborts", "retry", "clean", "interval elapses"}

ASSUME ConstantsAssumption ==
    /\ GitlabRepo \subseteq Repo
    /\ Enabled \subseteq Hook /\ Enabled # {}
    /\ MaxRepo \in [Hook -> Nat]
    /\ Weight \in [Repo -> Nat]
    /\ Jobs \in Nat \ {0}
    /\ Event \subseteq AllEvents

ASSUME FiniteAssumption == IsFiniteSet(Repo) /\ IsFiniteSet(Monitor)

\* A chain that is queued or running: the next part of it to run, the jobs of
\* its body that have not ended, and whether one of them has failed.
Stage == {"prelim", "failing", "jobs", "success", "weight"}
Chain == [repo : Repo, hook : Hook, stage : Stage, left : 0 .. Jobs, broken : BOOLEAN]

\* A chain handed to the broker whose row has not been written.
Sent == [repo : Repo, hook : Hook, run : Run]

ASSUME NoChainAssumption == Null \notin Chain /\ Null \notin Sent

VARIABLES
  row,     \* the rows of collection_status
  runs,    \* the live chain of each run identifier, Null if there is none
  mpc,     \* what each monitor does next
  toRead,  \* the hooks whose candidates a monitor has not read
  plan,    \* repo_list of each hook's request: read but not sent
  sent     \* what a monitor has sent and not marked, or Null

monitorVars == <<mpc, toRead, plan, sent>>
vars == <<row, runs, mpc, toRead, plan, sent>>

NoPlan == [h \in Hook |-> {}]

Init ==
    /\ row = [r \in Repo |-> NewRow]
    /\ runs = [c \in Run |-> Null]
    /\ mpc = [m \in Monitor |-> "idle"]
    /\ toRead = [m \in Monitor |-> {}]
    /\ plan = [m \in Monitor |-> NoPlan]
    /\ sent = [m \in Monitor |-> Null]

-----------------------------------------------------------------------------
(* Choosing repositories.                                                  *)

Rank == [h \in Hook |-> CASE h = Core -> 1 [] h = Secondary -> 2
                          [] h = Facade -> 3 [] OTHER -> 4]

\* h comes first among the hooks hs in the order the monitor handles them.
IsFirst(h, hs) == h \in hs /\ \A g \in hs : Rank[h] <= Rank[g]

ActiveRepos(h) == {r \in Repo : row[r][h].status = "Collecting"}

\* (mutant) a repository that has ended its collection still counts.
ActiveCount_AllStarted(h) == Cardinality({r \in Repo : row[r][h].status # "Pending"})

get_active_repo_count(h) == Cardinality(ActiveRepos(h))

\* The answers of "order by weight limit n" over the candidates rs.
Lightest(n, rs) ==
    {s \in SUBSET rs :
        /\ Cardinality(s) = IF n < Cardinality(rs) THEN n ELSE Cardinality(rs)
        /\ \A a \in s, b \in rs \ s : Weight[a] <= Weight[b]}

\* (mutant) the secondary query without its condition on core_status.
NewlyAdded_CoreUnchecked(h) ==
    {r \in Repo : row[r][h].status = IF h = Facade THEN "Update" ELSE "Pending"}

\* (mutant) the facade query asks for the status the other hooks start from.
NewlyAdded_NotCloned(h) ==
    {r \in Repo :
        /\ row[r][h].status = "Pending"
        /\ h = Secondary => row[r][Core].status = "Success"}

NewlyAdded(h) ==
    {r \in Repo :
        /\ row[r][h].status = IF h = Facade THEN "Update" ELSE "Pending"
        /\ h = Secondary => row[r][Core].status = "Success"}

get_newly_added_repos(n, h) == Lightest(n, NewlyAdded(h))

ForRecollection(h) ==
    {r \in Repo : row[r][h].status = "Success" /\ row[r][h].last = Due}

get_repos_for_recollection(n, h) ==
    {s \in SUBSET ForRecollection(h) :
        Cardinality(s) = IF n < Cardinality(ForRecollection(h))
                         THEN n ELSE Cardinality(ForRecollection(h))}

\* (mutant) the room is max_repo, whatever is already active.
ValidRepos_RoomNotReduced(h) ==
    UNION {{new \cup old : old \in get_repos_for_recollection(MaxRepo[h] - Cardinality(new), h)} :
              new \in get_newly_added_repos(MaxRepo[h], h)}

\* New repositories first, then old ones in the room that is left.
get_valid_repos(h) ==
    LET limit == MaxRepo[h] - get_active_repo_count(h)
    IN  IF limit <= 0 THEN {{}}
        ELSE UNION {{new \cup old : old \in get_repos_for_recollection(limit - Cardinality(new), h)} :
                       new \in get_newly_added_repos(limit, h)}

-----------------------------------------------------------------------------
(* The monitor task.                                                       *)

StartMonitor(m) ==
    /\ mpc[m] = "idle"
    /\ mpc' = [mpc EXCEPT ![m] = "read"]
    /\ toRead' = [toRead EXCEPT ![m] = Enabled]
    /\ UNCHANGED <<row, runs, plan, sent>>

\* build_<hook>_repo_collect_request: count the active repositories of the
\* hook and read its candidates.
BuildRequest(m, h) ==
    /\ mpc[m] = "read"
    /\ IsFirst(h, toRead[m])
    /\ \E rs \in get_valid_repos(h) : plan' = [plan EXCEPT ![m][h] = rs]
    /\ toRead' = [toRead EXCEPT ![m] = @ \ {h}]
    /\ mpc' = [mpc EXCEPT ![m] = IF toRead[m] = {h} THEN "send" ELSE "read"]
    /\ UNCHANGED <<row, runs, sent>>

PlannedHooks(m) == {h \in Hook : plan[m][h] # {}}

\* Only the core request has phases for GitLab.
HasPhases(r, h) == r \in GitlabRepo => h = Core

HasPrelim(r, h) == h \in {Core, Secondary} /\ r \notin GitlabRepo

\* Task ids are never used twice: a run is new when nothing remembers it.
IsNewRun(c) ==
    /\ runs[c] = Null
    /\ \A r \in Repo, h \in Hook : row[r][h].task # c
    /\ \A m \in Monitor : sent[m] # Null => sent[m].run # c

\* send_messages, one repository: the chain is in the broker, its row is not
\* written yet.
SendMessage(m, r, h, c) ==
    /\ mpc[m] = "send"
    /\ IsFirst(h, PlannedHooks(m))
    /\ r \in plan[m][h]
    /\ HasPhases(r, h)
    /\ IsNewRun(c)
    /\ runs' = [runs EXCEPT ![c] =
          [repo |-> r, hook |-> h, stage |-> IF HasPrelim(r, h) THEN "prelim" ELSE "jobs",
           left |-> Jobs, broken |-> FALSE]]
    /\ plan' = [plan EXCEPT ![m][h] = @ \ {r}]
    /\ sent' = [sent EXCEPT ![m] = [repo |-> r, hook |-> h, run |-> c]]
    /\ mpc' = [mpc EXCEPT ![m] = "mark"]
    /\ UNCHANGED <<row, toRead>>

SkipMessage(m, r, h) ==
    /\ mpc[m] = "send"
    /\ IsFirst(h, PlannedHooks(m))
    /\ r \in plan[m][h]
    /\ ~ HasPhases(r, h)
    /\ plan' = [plan EXCEPT ![m][h] = @ \ {r}]
    /\ UNCHANGED <<row, runs, mpc, toRead, sent>>

update_status_and_id(m) ==
    /\ mpc[m] = "mark"
    /\ LET s == sent[m]
       IN  row' = [row EXCEPT ![s.repo] = MarkCollecting(@, s.hook, s.run)]
    /\ sent' = [sent EXCEPT ![m] = Null]
    /\ mpc' = [mpc EXCEPT ![m] = "send"]
    /\ UNCHANGED <<runs, toRead, plan>>

FinishMonitor(m) ==
    /\ mpc[m] = "send"
    /\ PlannedHooks(m) = {}
    /\ mpc' = [mpc EXCEPT ![m] = "idle"]
    /\ UNCHANGED <<row, runs, toRead, plan, sent>>

\* The broker or the database raises, or the worker dies: what the monitor
\* had read and not written is forgotten.
AbortMonitor(m) ==
    /\ "monitor aborts" \in Event
    /\ mpc[m] # "idle"
    /\ mpc' = [mpc EXCEPT ![m] = "idle"]
    /\ toRead' = [toRead EXCEPT ![m] = {}]
    /\ plan' = [plan EXCEPT ![m] = NoPlan]
    /\ sent' = [sent EXCEPT ![m] = Null]
    /\ UNCHANGED <<row, runs>>

-----------------------------------------------------------------------------
(* The workers.  AtStage(c, s): run c is live and its next part is s.      *)

AtStage(c, s) == runs[c] # Null /\ runs[c].stage = s

\* detect_github_repo_move: the repository answers.  hit_api follows redirects,
\* so one that has moved answers too.
PrelimFinds(c) ==
    /\ AtStage(c, "prelim")
    /\ runs' = [runs EXCEPT ![c].stage = "jobs"]
    /\ UNCHANGED <<row, monitorVars>>

\* detect_github_repo_move: ten attempts without an answer.
PrelimFails(c) ==
    /\ "task fails" \in Event
    /\ AtStage(c, "prelim")
    /\ runs' = [runs EXCEPT ![c].stage = "failing"]
    /\ UNCHANGED <<row, monitorVars>>

\* detect_github_repo_move: 404.  The row is committed, then the task raises.
PrelimGone(c) ==
    /\ "repo gone" \in Event
    /\ AtStage(c, "prelim")
    /\ row' = [row EXCEPT ![runs[c].repo] = MarkIgnore]
    /\ runs' = [runs EXCEPT ![c].stage = "failing"]
    /\ UNCHANGED monitorVars

\* on_failure of the preliminary task; the rest of the chain never runs.
PrelimOnFailure(c) ==
    /\ AtStage(c, "failing")
    /\ row' = [row EXCEPT ![runs[c].repo] = HandleTaskFailure(@, runs[c].hook)]
    /\ runs' = [runs EXCEPT ![c] = Null]
    /\ UNCHANGED monitorVars

\* (mutant) the chain goes on one job too long.
AfterJob_OneTooMany(c, n, broken) ==
    [runs[c] EXCEPT !.left = n, !.broken = broken]

\* What is left of a chain when n of its jobs have not ended: the success
\* task runs once all have succeeded, and never after a failure.
AfterJob(c, n, broken) ==
    IF n > 0 THEN [runs[c] EXCEPT !.left = n, !.broken = broken]
    ELSE IF broken THEN Null
    ELSE [runs[c] EXCEPT !.left = 0, !.stage = "success"]

JobSucceeds(c) ==
    /\ AtStage(c, "jobs")
    /\ runs' = [runs EXCEPT ![c] = AfterJob(c, runs[c].left - 1, runs[c].broken)]
    /\ UNCHANGED <<row, monitorVars>>

\* Jobs chained behind the failed one never start; the others of the group
\* go on.  The ml jobs are one chain.
JobStops(c) ==
    \E n \in 0 .. runs[c].left - 1 :
        /\ runs[c].hook = Ml => n = 0
        /\ runs' = [runs EXCEPT ![c] = AfterJob(c, n, TRUE)]

\* A job raises and on_failure of its task class writes the row.
JobFails(c) ==
    /\ "task fails" \in Event
    /\ AtStage(c, "jobs")
    /\ row' = [row EXCEPT ![runs[c].repo] = HandleTaskFailure(@, runs[c].hook)]
    /\ JobStops(c)
    /\ UNCHANGED monitorVars

\* populate_repo_src_id_task, collect_github_repo_clones_data and
\* issue_pr_task_update_weight_util are plain tasks: no on_failure.
JobFailsSilently(c) ==
    /\ "task fails silently" \in Event
    /\ AtStage(c, "jobs")
    /\ runs[c].hook = Core
    /\ JobStops(c)
    /\ UNCHANGED <<row, monitorVars>>

\* <hook>_task_success_util.  The facade chain goes on to
\* git_update_commit_count_weight (module FacadeClone).
TaskSuccessUtil(c) ==
    /\ AtStage(c, "success")
    /\ row' = [row EXCEPT ![runs[c].repo] = MarkSuccess(@, runs[c].hook)]
    /\ runs' = [runs EXCEPT ![c] = IF runs[c].hook = Facade
                                   THEN [runs[c] EXCEPT !.stage = "weight"] ELSE Null]
    /\ UNCHANGED monitorVars

\* The worker is killed, the queue is purged, or the success task raises.
LoseRun(c) ==
    /\ "run lost" \in Event
    /\ runs[c] # Null
    /\ runs' = [runs EXCEPT ![c] = Null]
    /\ UNCHANGED <<row, monitorVars>>

-----------------------------------------------------------------------------
(* Recovery and time.                                                      *)

retry_errored_repos ==
    /\ "retry" \in Event
    /\ row' = [r \in Repo |-> RetryRow(row[r])]
    /\ UNCHANGED <<runs, monitorVars>>

\* Run by start after the workers are up, and by stop after they have been
\* signalled but not waited for: monitors and chains may be in the middle.
clean_collection_status ==
    /\ "clean" \in Event
    /\ row' = [r \in Repo |-> CleanRow(row[r])]
    /\ UNCHANGED <<runs, monitorVars>>

\* Only the rows of ended collections are asked how old they are, so a time
\* that passes earlier need not be told apart.
IntervalElapses(r, h) ==
    /\ "interval elapses" \in Event
    /\ row[r][h].status = "Success" /\ row[r][h].last = Fresh
    /\ row' = [row EXCEPT ![r][h].last = Due]
    /\ UNCHANGED <<runs, monitorVars>>

-----------------------------------------------------------------------------
MonitorStep(m) ==
    \/ StartMonitor(m)
    \/ \E h \in Hook : BuildRequest(m, h)
    \/ \E r \in Repo, h \in Hook, c \in Run : SendMessage(m, r, h, c)
    \/ \E r \in Repo, h \in Hook : SkipMessage(m, r, h)
    \/ update_status_and_id(m)
    \/ FinishMonitor(m)

\* The steps of a run that nothing goes wrong with.
RunStep(c) ==
    \/ PrelimFinds(c)
    \/ JobSucceeds(c)
    \/ TaskSuccessUtil(c)

\* Everything but clean_collection_status, for the modules that say more of
\* what a start of the program does.
SchedulerStep ==
    \/ \E m \in Monitor : MonitorStep(m) \/ AbortMonitor(m)
    \/ \E c \in Run :
          \/ RunStep(c)
          \/ PrelimFails(c)
          \/ PrelimGone(c)
          \/ PrelimOnFailure(c)
          \/ JobFails(c)
          \/ JobFailsSilently(c)
          \/ LoseRun(c)
    \/ retry_errored_repos
    \/ \E r \in Repo, h \in Hook : IntervalElapses(r, h)

Next == SchedulerStep \/ clean_collection_status

Spec == Init /\ [][Next]_vars

\* Celery keeps running monitors and delivering tasks to workers.
FairSpec ==
    /\ Spec
    /\ \A m \in Monitor : WF_vars(MonitorStep(m))
    /\ \A c \in Run : WF_vars(RunStep(c) \/ PrelimOnFailure(c))

-----------------------------------------------------------------------------
TypeOK ==
    /\ row \in [Repo -> Row]
    /\ runs \in [Run -> Chain \cup {Null}]
    /\ mpc \in [Monitor -> {"idle", "read", "send", "mark"}]
    /\ toRead \in [Monitor -> SUBSET Hook]
    /\ plan \in [Monitor -> [Hook -> SUBSET Repo]]
    /\ sent \in [Monitor -> Sent \cup {Null}]
    /\ \A m \in Monitor : mpc[m] = "mark" <=> sent[m] # Null

\* No write the program commits is one the CHECK constraints of the table
\* refuse, whatever the processes interleave: neither the monitor's, nor a
\* worker's, nor a recovery script's (collection_util.py, celery_app.py).
ConstraintsHold == \A r \in Repo : Checks(row[r])

\* retry_errored_repos and clean_collection_status are one transaction each
\* over all repositories, so a single row refused by a CHECK would undo the
\* recovery of all of them: no row is, after any of the statements about it.
RecoveryAccepted ==
    \A r \in Repo, h \in Hook :
        /\ Checks(RetryAfter(row[r], RetryStatement(h, row[r][h])))
        /\ Checks(CleanAfter(row[r], CleanStatement(h, row[r][h])))

HeldBy(m, r, h) ==
    \/ r \in plan[m][h]
    \/ sent[m] # Null /\ sent[m].repo = r /\ sent[m].hook = h

RunOf(c, r, h) == runs[c] # Null /\ runs[c].repo = r /\ runs[c].hook = h

\* The hook of the repository is chosen, sent, queued or running.
Underway(r, h) ==
    (\E m \in Monitor : HeldBy(m, r, h)) \/ (\E c \in Run : RunOf(c, r, h))

\* The secondary collection of a repository is not chosen, sent, run or
\* recorded before a core collection of it has come to an end, although the
\* core status is only looked at when the repository is chosen for the first
\* time (get_newly_added_repos) and may have changed any number of times since.
CoreCollectedFirst ==
    \A r \in Repo :
        Underway(r, Secondary) \/ row[r][Secondary].status # "Pending"
            => row[r][Core].last # Never

\* Overlapping monitors may each fill all the room they saw, and no more: a
\* hook never has more active repositories than max_repo for each monitor.
ActiveBounded ==
    \A h \in Hook : Cardinality(ActiveRepos(h)) <= MaxRepo[h] * Cardinality(Monitor)

\* A hook that is given up (404) stays so once nothing that was chosen or sent
\* before is left: no monitor, no recovery script and no failure takes it up.
IgnoreKept ==
    \A r \in Repo, h \in Hook :
        row[r][h].status = "Ignore" /\ ~ Underway(r, h)
            => row'[r][h].status = "Ignore" /\ ~ Underway(r, h)'

IgnoreIsStable == [][IgnoreKept]_vars

\* collection_state.py: "COLLECTING: The collection hook is running".  A run
\* that ends before its row is marked, or is lost, breaks it.
CollectingMeansRunning ==
    \A r \in Repo, h \in Hook :
        row[r][h].status = "Collecting" => \E c \in Run : RunOf(c, r, h)

\* When nothing fails, every GitHub repository gets its core and then its
\* secondary collection, although there is room for fewer than there are: runs
\* that end give their room back (the success tasks, get_active_repo_count).
\* The room is given back for good only if no run ends before the monitor has
\* marked its row, which is what the left side says.  GitLab repositories are
\* chosen for the secondary hook every time and never sent, so the room of the
\* hook has to be larger than their number.
EveryGithubRepoCollected ==
    []CollectingMeansRunning =>
        \A r \in Repo \ GitlabRepo : <>(row[r][Secondary].last # Never)

-----------------------------------------------------------------------------
(* What the documentation says and the program does not do.                *)

\* collection_state.py: "ERROR: The collection hook has crashed": no run of the
\* hook is on its way to success.
ErrorMeansCrashed ==
    \A r \in Repo, h \in Hook :
        row[r][h].status = "Error" => \A c \in Run : RunOf(c, r, h) => runs[c].broken
=============================================================================

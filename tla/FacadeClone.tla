------------------------------ MODULE FacadeClone ------------------------------
(***************************************************************************)
(* The facade hook: clone_repos, which takes the repositories whose        *)
(* facade_status is Pending, clones them one after the other and makes     *)
(* them Update, so that the scheduler can send their commit analysis.      *)
(*                                                                         *)
(* clone_repos is a celery task of the facade queue, which several worker  *)
(* processes serve.  Nothing but its own message keeps it going: start     *)
(* sends the first one, and each clone ends by sending another.            *)
(***************************************************************************)
EXTENDS CollectionScheduler

CONSTANTS
  Cloner,      \* facade worker processes that may run clone_repos
  MaxMessages, \* bound: clone_repos messages counted in the queue
  CloneEvent   \* events that may happen, from AllCloneEvents

AllCloneEvents == {"initialize fails", "clone fails", "commit count fails",
                   "cloner killed", "restart"}

ASSUME CloneAssumption ==
    MaxMessages \in Nat \ {0} /\ CloneEvent \subseteq AllCloneEvents /\ Null \notin Repo

VARIABLES
  dir,     \* the directory of each repository under repo_base_directory
  queue,   \* clone_repos messages waiting in the facade queue
  cpc,     \* what each cloner does next
  todo,    \* repo_git_identifiers: the Pending list, read once per task
  cloning, \* the repository a cloner is at, or Null
  unmade   \* history: repositories that were given up while a cloner was at
           \* them, and then became Error without a directory

cloneVars == <<dir, queue, cpc, todo, cloning, unmade>>
facadeVars == <<row, runs, mpc, toRead, plan, sent, dir, queue, cpc, todo, cloning, unmade>>

\* No directory; a directory without .git (git clone has not begun, or it
\* failed and git removed what it had made); .git is there and the clone has
\* not ended, or was cut off; cloned.
Dir == {"absent", "empty", "partial", "cloned"}

FacadeInit ==
    /\ Init
    /\ dir = [r \in Repo |-> "absent"]
    /\ queue = 1
    /\ cpc = [w \in Cloner |-> "idle"]
    /\ todo = [w \in Cloner |-> {}]
    /\ cloning = [w \in Cloner |-> Null]
    /\ unmade = {}

-----------------------------------------------------------------------------
Sent1(n) == IF n < MaxMessages THEN n + 1 ELSE n

\* The row as it would be with this facade_status.
WithFacade(r, status) == [row[r] EXCEPT ![Facade].status = status]

\* The task raises and autoretry puts its message back.
Retry(w) ==
    /\ cpc' = [cpc EXCEPT ![w] = "idle"]
    /\ todo' = [todo EXCEPT ![w] = {}]
    /\ cloning' = [cloning EXCEPT ![w] = Null]
    /\ queue' = Sent1(queue)

\* The repository is dealt with, in this way: clone_repos is sent again and
\* the loop goes on.  A row the CHECK constraints refuse is an exception
\* outside the try, or one whose handler needs the session it has broken.
EndRepo(w, status) ==
    LET r == cloning[w]
    IN  IF Checks(WithFacade(r, status))
        THEN /\ row' = [row EXCEPT ![r] = WithFacade(r, status)]
             /\ cpc' = [cpc EXCEPT ![w] = "next"]
             /\ cloning' = [cloning EXCEPT ![w] = Null]
             /\ queue' = Sent1(queue)
             /\ UNCHANGED todo
        ELSE Retry(w) /\ UNCHANGED row

ReadPending(w) ==
    /\ cpc[w] = "idle"
    /\ queue > 0
    /\ queue' = queue - 1
    /\ todo' = [todo EXCEPT ![w] = {r \in Repo : row[r][Facade].status = "Pending"}]
    /\ cpc' = [cpc EXCEPT ![w] = "next"]
    /\ UNCHANGED <<dir, cloning, unmade>>
    /\ UNCHANGED vars

\* The next repository of the list becomes Initializing, whatever has become
\* of it since the list was read.
SetInitializing(w, r) ==
    /\ cpc[w] = "next"
    /\ r \in todo[w]
    /\ IF Checks(WithFacade(r, "Initializing"))
       THEN /\ row' = [row EXCEPT ![r] = WithFacade(r, "Initializing")]
            /\ cpc' = [cpc EXCEPT ![w] = "initialize"]
            /\ todo' = [todo EXCEPT ![w] = @ \ {r}]
            /\ cloning' = [cloning EXCEPT ![w] = r]
            /\ UNCHANGED queue
       ELSE Retry(w) /\ UNCHANGED row
    /\ UNCHANGED <<dir, runs, monitorVars, unmade>>

\* git_repo_initialize: a directory that is there is taken for the clone.
FindDirectory(w) ==
    LET r == cloning[w]
        found == [row[r] EXCEPT ![Facade].status = "Update", ![Facade].task = Null]
    IN  /\ cpc[w] = "initialize"
        /\ dir[r] # "absent"
        /\ IF Checks(found)
           THEN /\ row' = [row EXCEPT ![r] = found]
                /\ cpc' = [cpc EXCEPT ![w] = "count"]
                /\ UNCHANGED <<queue, todo, cloning>>
           ELSE Retry(w) /\ UNCHANGED row
        /\ UNCHANGED <<dir, runs, monitorVars, unmade>>

\* There is no directory: it is made next.
MissDirectory(w) ==
    /\ cpc[w] = "initialize"
    /\ dir[cloning[w]] = "absent"
    /\ cpc' = [cpc EXCEPT ![w] = "mkdir"]
    /\ UNCHANGED <<dir, queue, todo, cloning, unmade>>
    /\ UNCHANGED vars

HasGit(r) == dir[r] \in {"partial", "cloned"}

\* mkdir, which accepts a directory made meanwhile, and the start of git
\* clone, which does not: beside another clone it exits at once.
StartClone(w) ==
    LET r == cloning[w]
    IN  /\ cpc[w] = "mkdir"
        /\ IF HasGit(r)
           THEN EndRepo(w, "Failed Clone") /\ UNCHANGED dir
           ELSE /\ dir' = [dir EXCEPT ![r] = "partial"]
                /\ cpc' = [cpc EXCEPT ![w] = "clone"]
                /\ UNCHANGED <<row, queue, todo, cloning>>
        /\ UNCHANGED <<runs, monitorVars, unmade>>

\* An exception before the clone: a failed mkdir is one, and any UPDATE
\* before or after it.  The row becomes Error, with a directory or without.
InitializeFails(w) ==
    LET r == cloning[w]
    IN  /\ "initialize fails" \in CloneEvent
        /\ cpc[w] \in {"initialize", "mkdir"}
        /\ \/ UNCHANGED dir
           \/ /\ cpc[w] = "mkdir" /\ dir[r] = "absent"
              /\ dir' = [dir EXCEPT ![r] = "empty"]
        /\ EndRepo(w, "Error")
        /\ unmade' = IF dir'[r] = "absent" /\ row[r][Facade].last # Never
                     THEN unmade \cup {r} ELSE unmade
        /\ UNCHANGED <<runs, monitorVars>>

CloneSucceeds(w) ==
    /\ cpc[w] = "clone"
    /\ dir' = [dir EXCEPT ![cloning[w]] = "cloned"]
    /\ cpc' = [cpc EXCEPT ![w] = "count"]
    /\ UNCHANGED <<queue, todo, cloning, unmade>>
    /\ UNCHANGED vars

\* GitCloneError: git removes what it made, unless it is killed after two
\* hours.
CloneFails(w) ==
    /\ "clone fails" \in CloneEvent
    /\ cpc[w] = "clone"
    /\ \E left \in {"empty", "partial"} : dir' = [dir EXCEPT ![cloning[w]] = left]
    /\ EndRepo(w, "Failed Clone")
    /\ UNCHANGED <<runs, monitorVars, unmade>>

\* get_repo_commit_count finds the .git directory; it may fail all the same.
CountCommits(w) ==
    /\ cpc[w] = "count"
    /\ \/ HasGit(cloning[w]) /\ EndRepo(w, "Update")
       \/ /\ HasGit(cloning[w]) => "commit count fails" \in CloneEvent
          /\ EndRepo(w, "Error")
    /\ UNCHANGED <<dir, runs, monitorVars, unmade>>

\* The list is worked off.  The message of this task has been consumed, and
\* only the body of the loop sends one.
EndTask(w) ==
    /\ cpc[w] = "next"
    /\ todo[w] = {}
    /\ cpc' = [cpc EXCEPT ![w] = "idle"]
    /\ UNCHANGED <<dir, queue, todo, cloning, unmade>>
    /\ UNCHANGED vars

\* (mutant) the repository the cloner was at is not forgotten.
KillCloner_KeepsRepo(w) ==
    /\ cpc[w] # "idle"
    /\ cpc' = [cpc EXCEPT ![w] = "idle"]
    /\ todo' = [todo EXCEPT ![w] = {}]
    /\ UNCHANGED <<dir, queue, cloning, unmade>>
    /\ UNCHANGED vars

\* The worker process dies: its message was acknowledged, its clone stays.
KillCloner(w) ==
    /\ "cloner killed" \in CloneEvent
    /\ cpc[w] # "idle"
    /\ cpc' = [cpc EXCEPT ![w] = "idle"]
    /\ todo' = [todo EXCEPT ![w] = {}]
    /\ cloning' = [cloning EXCEPT ![w] = Null]
    /\ UNCHANGED <<dir, queue, unmade>>
    /\ UNCHANGED vars

\* start: clean_collection_status, in one transaction, then clone_repos.  If
\* the transaction is refused, start ends with the exception.
Restart ==
    /\ "restart" \in CloneEvent
    /\ \A r \in Repo : Checks(CleanRow(row[r]))
    /\ row' = [r \in Repo |-> CleanRow(row[r])]
    /\ queue' = Sent1(queue)
    /\ UNCHANGED <<runs, monitorVars, dir, cpc, todo, cloning, unmade>>

\* git_update_commit_count_weight, the last task of a facade chain.
UpdateCommitWeight(c) ==
    /\ AtStage(c, "weight")
    /\ runs' = [runs EXCEPT ![c] = Null]
    /\ \/ UNCHANGED row
       \/ /\ "task fails" \in Event
          /\ row' = [row EXCEPT ![runs[c].repo] = HandleTaskFailure(@, Facade)]
    /\ UNCHANGED <<monitorVars, cloneVars>>

-----------------------------------------------------------------------------
CloneStep(w) ==
    \/ ReadPending(w)
    \/ \E r \in Repo : SetInitializing(w, r)
    \/ FindDirectory(w)
    \/ MissDirectory(w)
    \/ StartClone(w)
    \/ InitializeFails(w)
    \/ CloneSucceeds(w)
    \/ CloneFails(w)
    \/ CountCommits(w)
    \/ EndTask(w)

\* git_update_commit_count_weight is the second job of every facade chain and
\* raises where there is no .git directory.
JobsPossible ==
    \A c \in Run :
        runs[c] # Null /\ runs'[c] # Null =>
            (runs[c].hook = Facade /\ runs[c].stage = "jobs" /\ runs'[c].stage = "success"
                => HasGit(runs[c].repo))

FacadeNext ==
    \/ SchedulerStep /\ JobsPossible /\ UNCHANGED cloneVars
    \/ \E c \in Run : UpdateCommitWeight(c)
    \/ \E w \in Cloner : CloneStep(w) \/ KillCloner(w)
    \/ Restart

FacadeSpec == FacadeInit /\ [][FacadeNext]_facadeVars

-----------------------------------------------------------------------------
FacadeTypeOK ==
    /\ TypeOK
    /\ dir \in [Repo -> Dir]
    /\ queue \in 0 .. MaxMessages
    /\ cpc \in [Cloner -> {"idle", "next", "initialize", "mkdir", "clone", "count"}]
    /\ todo \in [Cloner -> SUBSET Repo]
    /\ cloning \in [Cloner -> Repo \cup {Null}]
    /\ \A w \in Cloner : cpc[w] \in {"initialize", "mkdir", "clone", "count"} <=> cloning[w] # Null
    /\ unmade \subseteq Repo

\* No commit analysis is chosen, sent or running, and none has ended, for a
\* repository that nobody has made a directory for: clone_repos is the only way
\* from Pending to Update, through crashes, restarts and overlapping cloners.
\* The one exception is a repository that was given up while a cloner was at
\* it: the give-up stamps the time of collection, the cloner's error makes the
\* row Error, and the retry of that makes it Success.
AnalysedAfterClone ==
    \A r \in Repo :
        Underway(r, Facade) \/ row[r][Facade].status \in {"Update", "Collecting", "Success"}
            => dir[r] # "absent" \/ r \in unmade

-----------------------------------------------------------------------------
(* What the comments say and the program does not do.                      *)

\* facade_tasks.py: "the only way it gets scheduled is by itself, so if it
\* stops running no more clones will happen till the instance is restarted".
CloneTaskStaysAlive == queue > 0 \/ \E w \in Cloner : cpc[w] # "idle"

\* collection_state.py: "UPDATE: Only for facade, indicates the repo has been
\* cloned".
UpdateMeansCloned == \A r \in Repo : row[r][Facade].status = "Update" => dir[r] = "cloned"

\* collection.py: clean_collection_status is there to "Make sure that database
\* reflects collection status when processes are killed/stopped".
CleanAlwaysPossible == \A r \in Repo : Checks(CleanRow(row[r]))
=============================================================================

# Augur: TLA+ specifications and proofs

Augur collects data about software repositories. A database row for each
repository records what has been collected and what is being collected; celery
tasks choose repositories, send chains of collection jobs to a broker and write
the outcome; a separate process hands out the API keys that the jobs use; the
facade workers clone the repositories and analyse their commits.

This directory holds TLA+ models of the parts whose correctness depends on the
order in which several processes act, TLC configurations that check them on
small instances, and TLAPS proofs for every size. The paths below are relative
to the root of the repository.

## 1. Inventory

### 1.1 Components

| component | code | state | operations | hard behaviour |
|---|---|---|---|---|
| collection status table | `augur/application/db/models/augur_operations.py:1119-1260`, `augur/tasks/util/collection_state.py` | for each repository and hook (core, secondary, facade, ml): status, task id, time of the last collection; CHECK constraints | insert, one write per monitor, worker or script | written by every other component; a refused write is an exception in whichever of them tried |
| collection scheduler | `augur/tasks/start_tasks.py`, `augur/tasks/util/collection_util.py`, `augur/tasks/init/celery_app.py`, `augur/application/db/lib.py` | the requests a monitor has built, the messages it has sent, celery's chains | `augur_collection_monitor`, `get_valid_repos`, `send_messages`, `update_status_and_id`, `on_failure`, the success tasks, `retry_errored_repos` | monitors overlap; candidates are read early and sent late; a chain is in the broker before its row is written; failures arrive late |
| repository existence check | `augur/tasks/github/detect_move/core.py` | none | `ping_github_for_repo_move` | writes the row of all hooks in the middle of a chain |
| backend start, stop and clean-up | `augur/application/cli/collection.py`, `backend.py` | processes, queues | `start`, `augur_stop`, `clean_collection_status` | one transaction over all rows while workers are still alive |
| facade cloning | `augur/tasks/git/facade_tasks.py:340-412`, `facade_worker/repofetch.py` | directories, facade columns, the facade queue | `clone_repos`, `git_repo_initialize`, `get_repo_commit_count` | the task reschedules itself; several workers; a killed clone leaves its directory |
| facade commit analysis | `augur/tasks/git/facade_tasks.py:79-339`, `facade_worker/analyzecommit.py` | `commits`, the journal `working_commits` | `trim_commits_*`, `analyze_commits_in_parallel`, `trim_commits` | a crash between the batches and the journal entries; a `git log` that runs out of time |
| facade contributor resolution | `augur/tasks/github/facade_github/tasks.py`, `core.py`, `augur/tasks/git/util/facade_worker/facade_worker/config.py:230-255` | `contributors`, `contributors_aliases`, `unresolved_commit_emails`, `cmt_ght_author_id` | `insert_facade_contributors`, `process_commit_metadata`, `link_commits_to_contributor` | chains of different repositories share emails; every step is a transaction of its own; a commit is looked at once |
| key orchestration | `keyman/Orchestrator.py`, `keyman/KeyClient.py`, `augur/tasks/github/util/github_data_access.py` | fresh, expired and invalid keys of each platform; one pub/sub channel in, one reply channel for each process | `PUBLISH`, `UNPUBLISH`, `NEW`, `EXPIRE`, `INVALIDATE`, `SHUTDOWN` | replies find their way by process id; messages to nobody are lost; clients block |
| collection tasks | `augur/tasks/github/issues.py`, `messages.py`, `events.py`, `pull_requests/tasks.py` | the collected items and their parts, the times of the last collections | core and secondary collection of a repository | items change while they are collected; a collection may fail half way and the next asks only for what is new |
| database insertion with retries | `augur/application/db/session.py`, `lib.py:258-420` | the rows of a table | `bulk_insert_dicts`, `insert_data`, `facade_bulk_insert_commits` | deadlocks, batches split in halves and tried again |
| user repositories and groups | `augur_operations.py:560-1010`, `augur/tasks/frontend.py`, `augur_data.py:1094-1182`, `augur/tasks/github/util/populate_repo_src_id.py` | `repo`, `repo_groups`, `user_groups`, `user_repos` | add and remove a repository, an organisation, a group; the daily statuses | look-up and insertion are separate transactions; repositories are renamed on GitHub; requests break off |
| Jumpstart process manager | `jumpstart/` | client threads, component flags | `start`, `stop`, `restart`, `shutdown` | threads and locks; a flag that a refresh loop keeps |
| sessions and applications | `augur/api/routes/user.py`, `augur_operations.py` | sessions, refresh tokens | log in, generate, refresh | look-up, deletion and creation are separate transactions |
| Redis lists and scalars, configuration | `augur/tasks/util/redis_*.py`, `augur/application/config.py` | Redis keys, `config` rows | Python list operations; get and set | none of note |
| other jobs | `augur/tasks/gitlab/`, `data_analysis/`, `git/dependency*` | the collected data | fetch, convert, insert | only succeeding or raising matters to the scheduler |
| metrics API, views, materialized views, CLI | `augur/api/`, `augur/application/cli/`, `augur/tasks/db/` | none of their own | queries | none |

### 1.2 How they interact

* The monitor, the workers, the failure handlers and the recovery scripts are
  different processes. They share the `collection_status` table and the broker,
  and nothing else: no lock, no lease, no version number.
* `clone_repos` moves the facade column from Pending to Update; only then does
  the monitor send a facade chain for the repository.
* Collection jobs are clients of the key orchestrator by Redis pub/sub. They
  write through the bulk insertion functions, and a core collection of the
  scheduler is a `Run` of the collection tasks.
* A facade chain of the scheduler is a chain of commit analysis, and its last task
  resolves the authors of the commits that the analysis stored.
* Requests of users insert the repositories; the daily task creates the rows of
  `collection_status` that make the scheduler see them; a core job writes
  `repo_src_id`, by which later requests recognise a repository.
* `start` sends the first monitor and the first `clone_repos`; celery beat sends
  monitors and `retry_errored_repos` later; `stop` signals the workers, does not
  wait for them, and runs `clean_collection_status`.

### 1.3 What makes each part correct

* Table: no process commits, or tries to commit, a row that a CHECK refuses;
  above all the constraint that ties two hooks together (secondary Collecting
  implies core not Pending), which no single statement establishes.
* Scheduler: secondary collection after core collection; bounded parallelism;
  a repository that was given up stays given up; every repository is collected.
* Recovery: the scripts always succeed, whatever the interrupted processes left.
* Cloning: nothing is analysed before it is cloned; the task stays scheduled.
* Keys: no reply is lost or taken by another; a key reported invalid is not
  handed to the same client again; a waiting client is answered.
* Commit analysis: whatever interrupted analyses leave, incomplete commits are
  known as such, no row is stored twice, and the table shows the history again.
* Contributor resolution: a commit whose author becomes known gets the author,
  whichever repository's chain finds out.
* Collection tasks: what a collection leaves out of date the next one asks for.
* Insertion: a normal end means that all rows are there; an error leaves a prefix.
* Registry: one row for each repository, every requested repository ends in the
  group of the user, and every repository gets a status and is collected.

PROJECT.json lists the hazards at the lines where they bite.

## 2. Plan

What exists, in the order of importance it was written in:

1. `CollectionState`: rows, constraints, every write. Pure operators.
2. `CollectionScheduler` extends it: monitors, chains, failures, recovery.
3. `FacadeClone` extends the scheduler with `clone_repos` and the directories.
4. `KeyPool` and `KeyOrchestrator`: the orchestrator, its channels, clients. They
   implement the abstract specification `KeyService`, which knows no messages.
5. `FacadeAnalysis`: the journal of working commits under crashes. It implements
   the abstract specification `CommitTable`, in which commits appear as a whole.
6. `Recollection`: what a core and a secondary chain of the scheduler collect,
   from one collection of a repository to the next.
7. `BulkInsert`: the three functions those chains and 5 write batches with.
8. `RepoRegistry`: where repositories and their statuses come from.
9. `ContributorResolution`: the authors of the commits that 5 stores.
10. The `*_proofs` modules: theorems for every value of the constants.

What is left, in order:

1. `RowWrites`: the read and the write of an ORM object as two steps, for the
   writes that `CollectionScheduler` takes as one.
2. `Jumpstart` and `SessionTokens`.

Runs stay small: one or two repositories for interleaving questions, three where
room is shared; two monitors wherever overlap matters. A module gets one passing
run for each question that needs an instance of its own, and a run that
exhibits a disagreement with the documentation only where one was met.

## 3. Modules and their correspondence to the code

### 3.1 `CollectionState`

A row is a function from hooks to cells `[status, task, last]`. The timestamp
`<hook>_data_last_collected` is kept as what the program asks of it: NULL
(`Never`), within the recollection interval (`Fresh`) or past it (`Due`).
`Checks` is the conjunction of the CHECK constraints; the ml columns have none
and `clean_collection_status` has no statement for them. The writes are operators
on rows: `MarkCollecting` (`update_status_and_id`), `MarkSuccess` (the success
tasks), `HandleTaskFailure` (`augur_handle_task_failure`), `MarkIgnore`
(the 404 branch of the existence check), `RetryRow` and `CleanRow`. The last two
are several UPDATE statements; `RetryAfter(w, n)` and `CleanAfter(w, n)` are the
row after the first `n` of them, because PostgreSQL evaluates CHECK constraints
after each statement.

### 3.2 `CollectionScheduler`

| variable | code |
|---|---|
| `row` | `augur_operations.collection_status` |
| `runs` | the celery chains that are queued or running, by task id |
| `mpc`, `toRead`, `plan`, `sent` | the local state of each running `augur_collection_monitor`: where it is, the requests it has still to build, the `repo_list` of each, the message whose row it has not written |

| action | code |
|---|---|
| `StartMonitor`, `BuildRequest`, `FinishMonitor`, `AbortMonitor` | `augur_collection_monitor`, `build_*_repo_collect_request`, `start_data_collection`, an exception or a killed worker |
| `SendMessage`, `SkipMessage`, `update_status_and_id` | one turn of the loop of `send_messages`: `apply_async` first, the row afterwards; GitLab repositories have no secondary, facade or ml phases and are skipped |
| `PrelimFinds`, `PrelimFails`, `PrelimGone`, `PrelimOnFailure` | the existence check at the head of GitHub's core and secondary chains; for 404 the row is committed first and the task raises afterwards, so `on_failure` is a step of its own |
| `JobSucceeds`, `JobFails`, `JobFailsSilently` | a job of the chain's group; jobs of classes without `on_failure` fail silently; the other members of a group go on after a failure, the success task does not run |
| `TaskSuccessUtil` | the success task (the facade chain has one more task behind it: `UpdateCommitWeight` of `FacadeClone`) |
| `LoseRun` | a killed worker, a purged queue, a success task that raises |
| `retry_errored_repos`, `clean_collection_status` | the recovery scripts, each one transaction |
| `IntervalElapses` | time; only asked of rows whose status is Success |

`get_valid_repos` is translated as the set of its possible answers: the query
orders by weight and limits, so repositories of equal weight are a choice.

What is abstracted: a row's read-modify-write is one step (the ORM emits only
the columns that changed, so this hides merges of two writes to different
columns: module `RowWrites` of the plan); the count and the two queries of one request are one step; all
repositories exist from the beginning; `full_collection` (the non-repository
tasks) and the updates of the weights are left out, the weights being constants;
a repository whose address is neither GitHub's nor GitLab's raises in the
monitor and is covered by `AbortMonitor`. `hit_api` follows redirects, so the
branch for a moved repository (`detect_move/core.py:63`) is not reached and a
moved repository is one that answers.

### 3.3 `FacadeClone`

Extends the scheduler: `SchedulerStep` is a step of `FacadeNext`, and
`clean_collection_status` is part of `Restart`. `dir` is the state of each
repository's directory, `queue` the number of `clone_repos` messages; `cpc`,
`todo` and `cloning` are the local state of the workers. Reading the Pending
list, setting Initializing, looking for the directory (`FindDirectory`,
`MissDirectory`), making it and starting git (`StartClone`: mkdir accepts a directory
that another cloner has made meanwhile, git does not accept its clone), its success or
failure and the commit count are actions of their own, because other workers, the
monitor and crashes come in between. An exception before the clone
(`InitializeFails`) makes the row Error, with a directory or without; a clone that
fails leaves an empty directory, or half a clone when git is killed after its two hours.
`unmade` is the history of the one way from there to an analysis (section 6). A write that a CHECK refuses raises
outside the `try` (or in a handler that needs the session it has broken): the
task ends and autoretry sends it again (`Retry`). The scheduler's facade chain
contains a job that raises where there is no `.git` directory (`JobsPossible`).
Not modelled: `git_repo_updates` in a facade chain, the names of directories.

### 3.4 `KeyPool`, `KeyOrchestrator` and `KeyService`

`KeyPool` has the methods of the orchestrator on the keys of one platform. `fresh`
is a list in the code, drawn from at random, so it is kept as the number of times
each key is in it; `expired` is the dictionary from keys to times, the times
counted as what is left of them, so that the clock needs no bound.

| variable of `KeyOrchestrator` | code |
|---|---|
| `up`, `inbox` | whether the orchestrator listens; the messages of its two channels, in the order of its one subscription |
| `known`, `pool` | `fresh_keys`, `expired_keys`, `invalid_keys` |
| `toPublish` | what `start` has still to publish |
| `pc`, `key`, `wake` | a `GithubDataAccess` and its `KeyClient`: between calls (`idle`), between a report and the request that follows it, in `_recv`, in `time.sleep` |
| `buffer` | the answers that have reached its subscription |
| `reported` | history: what it has reported by `invalidate` |
| `shared` | history: the clients that may be sent answers to another client of their process: another was made while they existed, or they were made while a request of the process was open |

Every branch of `run` that changes state is an action (`HandlePublish` to
`HandleNew`), and so is every message a client sends. An answer goes to the
channel named after the process id (`Pid`), that is, to every client object of the
process that exists at that moment. `Within` says which client object is
made in a function called while another one exists, as in
`process_commit_metadata`; such a client's caller waits for it (`Runs`), and it may be
made and end any number of times. A killed worker's process id is not used again. Left out: ACK and the listings, which change
nothing; a key of `None`, which a client reports as invalid without effect
before it asks again; the requests to GitHub themselves, whose outcomes are the
choice between `ReportExpired`, `ReportInvalid` and going on.

`KeyService` is what clients are promised, without messages and times: a key is
awaited, fresh, expired or gone and never comes back from gone (`Edges`); a client
that asks is given a key that is fresh at that moment and that it has not refused
(`Grant`), or told that there is none when no key is fresh or expired (`TellNone`), or
leaves. `Service` at the end of `KeyOrchestrator` is the mapping. A key is awaited
while its PUBLISH is to come or in the inbox. A client asks from its request until
an answer other than "wait" has reached its subscription, so the messages that make
it wait and the sleeping are stutters, and what it is given counts from the moment
the orchestrator answers. `KeyClient.py` promises nothing to two clients of one
process; a client leaves the service when it is `shared`, while the one made within it
is served like any other, and so is the next object of the process that gets its
answers alone.

### 3.5 `Recollection`

Upstream, an item (an issue or a pull request) and its parts change while Augur
collects. `up[e]` and `db[e]` are the time of the last change of an entity upstream
and of the version in the database. Comments and events are parts the core chain
reads; reviews stand for reviews, files and commits of a pull request, which the
secondary chain reads (the three tasks select their pull requests alike).

| variable | code |
|---|---|
| `last`, `lastSec` | `core_data_last_collected`, `secondary_data_last_collected` |
| `run` | the core chains of the repository under way: whether in full, the entities whose task has not started, the time each task asked from, what they have still to read, what they have read and not stored |
| `sec` | the secondary chain |
| `passedOver` | history: what a collection gave up on without failing |
| `outlasted` | history: what changed during a collection that, with those it overlapped, took longer than the margin |

| action | code |
|---|---|
| `BeginCore`, `BeginNotes` | `primary_repo_collect_phase`: the two groups of tasks are queued one after the other, in full for a new or reset repository |
| `AskItems`, `AskNotes` | a task starts and computes its own `Since`, two days before the last collection as it is then; each kind of part is read from one listing by time or item by item for the stored items updated since |
| `Fetch`, `MovedAhead` | one entry of a listing; pull requests are listed newest update first, so one that changes moves to a page already read |
| `Store`, `DropBatch` | `process_issues`, `process_pull_requests`, `process_messages`, `_process_events`: a batch is stored, parts without a stored item are skipped; `insert_data` answers None after ten deadlocks and the task goes on |
| `IssuesGivenUp` | `collect_issues` answers -1 for any exception and the chain goes on |
| `CompleteCore`, `FailCore` | `core_task_success_util` writes the time; an error or a stop does not |
| `BeginSecondary`, `CollectReviews`, `CompleteSecondary`, `FailSecondary` | the secondary tasks: pull requests whose stored `updated_at` is not before the day of the last secondary collection |

Collections take any time and overlap. The success tasks write `datetime.now()`, which
has no zone, and the collection tasks read it as UTC: `LocalTime` is the clock plus
`Ahead`, the zone of the machine. Deletions upstream, the contributors, labels and assignees of an item, and the
messages of commits are left out; an entity's row is reduced to the time of the
change it shows.

### 3.6 `CommitTable` and `FacadeAnalysis`

`CommitTable` says what the analysis promises: a set of commits whose rows can be
relied on, which grows by commits a listing of the history has, and shrinks only by
those a listing does not have or that two analyses dispute. `FacadeAnalysis` has a
record for each file of a commit, and any number of chains of the repository, because the
scheduler does start a second one (section 6).

| variable | code |
|---|---|
| `head` | the commits `git log` lists in the clone |
| `rows` | table `commits`: how often each record is in it |
| `journal` | table `working_commits` |
| `chain` | the facade chains: where they are, what `git log` answered them, their `queue`, what is left of it, the records not inserted yet, the commits being trimmed |
| `unjournaled` | history: commits whose journal entry the database refused |
| `contested` | history: commits that two chains were analysing or trimming at the same time |
| `overlaps` | how often a chain has begun beside another one |

| action | code |
|---|---|
| `Begin` | `git_repo_updates_facade_task`: history may have grown or been rewritten |
| `ReadJournal`, `JournalUnread` | `trim_commits_facade_task` and `get_working_commits_by_repo_id`, which answers a failing query with an empty list |
| `RemoveRows`, `Untrack` | the two transactions of `trim_commits` |
| `ListCommits`, `ListingFails` | `get_parent_commits_set`: the history, or no commit after a failure or ten minutes |
| `ListMissing` | `analyze_commits_in_parallel` up to its queue: listed commits without a row, by a query after the listing |
| `Collect`, `Skip` | `analyze_commit`; a refused journal entry is logged, a failing `git log` leaves the commit out |
| `Insert` | `facade_bulk_insert_commits`: one of the pieces it commits (see `BulkInsert`) |
| `Conclude`, `ClearJournal` | the rest of `analyze_commits_in_parallel` |
| `ListTrimmed` | `trim_commits_post_analysis_facade_task` |
| `Interrupt` | an exception, a killed worker, a stop |

Left out: commits without files
(which have no record), messages and the two tables of commit messages and
parents, the committer tables of the cache, the weights.

### 3.7 `RepoRegistry`

| variable | code |
|---|---|
| `at`, `home` | GitHub: what it answers for an address, and the address of each repository; a former address redirects |
| `repo`, `orgGroups`, `statuses` | tables `repo` (by `repo_git`, with repo group and `repo_src_id`), `repo_groups`, `collection_status` |
| `userGroup`, `members` | tables `user_groups` and `user_repos` |
| `task` | each request under way: what it has still to add, what GitHub said, the row at hand |
| `populated` | history: rows whose `repo_src_id` a core collection overwrote |

| action | code |
|---|---|
| `BeginForm`, `Ask`, `Pick`, `Regroup`, `Join`, `Insert`, `JoinNew`, `AddStatus` | `av_add_user_repo` and `add_github_orgs_and_repos`, `add_new_github_repos`, `add_existing_*`: for each chunk of addresses one query, then one transaction after the other for each |
| `BeginRepo`, `BeginOrg`, `End` | `UserRepo.add_github_repo`, `add_github_org_repos` |
| `FindGroup`, `CreateGroup` | `RepoGroup.get_by_name`, `create_repo_group`, and for a form `retrieve_owner_repos`, which may fail (`OwnerRepos`): the owner is then passed over |
| `AddGroup`, `RemoveRepo`, `BeginDelete`, `EndDelete` | `UserGroup.insert`, `UserRepo.delete`, `UserGroup.delete` |
| `CreateStatus` | `create_collection_status_records` |
| `PopulateSource` | `populate_repo_src_id_task`; the question to GitHub and the write are one step, and an answer without an id raises before the write |
| `Rename` | a repository is renamed, transferred, or takes over a former address |
| `Break` | an exception or a stop |

Not modelled: repositories on GitLab (the same steps without an identifier), the
command line, favourites, paging.

### 3.8 `BulkInsert`

One call of `bulk_insert_dicts`, `insert_data` or `facade_bulk_insert_commits`
(`function`), with the calls it makes of itself as a stack (`calls`). `bad` and
`zone` are the rows the database refuses always and those it refuses for their
time zone. `Split`, `SecondHalf` and `AfterHalves` are the three parts of the
handler that halves a batch: the facade function returns after the halves, the
other two go round their loop and execute the whole statement again. A deadlock
or another operational error may meet any statement. The removal of duplicate
and of null characters before, and what RETURNING gives back, are left out.

### 3.9 `ContributorResolution`

| variable | code |
|---|---|
| `age` | table `commits`, and whether `data_collection_date` of a commit is after `facade_data_last_collected` of its repository |
| `author` | `cmt_ght_author_id` |
| `contributors` | email (`cntrb_canonical`) and full name of each user in table `contributors` |
| `alias` | table `contributors_aliases`: the contributor of an email |
| `unresolved` | table `unresolved_commit_emails`: the name that goes with an email |
| `chain` | the facade chain of each repository: where it is, the commits it has still to look at, the one in hand and its author, the links it has still to write |
| `forgotten` | history: emails whose recent commits were pruned or whose link was given up |

| action | code |
|---|---|
| `Begin`, `StoreCommit`, `PruneCommit` | the analysis as far as it is seen here |
| `ReadCommits` | `insert_facade_contributors`: `new_contrib_sql` |
| `Skip`, `LookUp` | `process_commit_metadata`: an alias exists, or the name is among those given up |
| `FindByFullName`, `FindOnGithub`, `EmailUnknown`, `FindByName`, `NobodyFound` | its four ways to an author, in their order, and the row of `unresolved_commit_emails` in between |
| `UpsertContributor`, `InsertAlias`, `DeleteUnresolved` | its three writes, each a transaction |
| `ResolveEmails`, `Link`, `LinkGivesUp` | `resolve_email_to_cntrb_id_sql` and `link_commits_to_contributor`; `insert_or_update_data` logs that it did not get through and returns |
| `Complete`, `Fail` | `facade_task_success_util` writes the time of the collection; an error or a stop does not |
| `CollectUser` | `query_github_contributors` of a core collection |

What GitHub answers is a choice. A repository has one facade chain at a time. An email
that cannot be written into the DELETE (one with a quote) and a login that meets
another contributor's fail the chain, as `Fail` does anywhere. Left out: the branch for
a contributor that has vanished between two queries (nothing deletes one), the
variants for the committer, `facade_contributor_full_recollect`, contributors on
GitLab. Two writers of `facade_data_last_collected` are left out: `repo-reset`, and the
existence check of a core chain, which on a 404 makes commits old that nobody has
looked at, of a repository that is given up (`detect_move/core.py:110`).

## 4. What the runs check

The `MC*` modules only give the constants their values; `BulkInsert` has only
numbers and needs none.

| run | instance | properties | what it shows |
|---|---|---|---|
| `SchedulerOverlap` | 1 repository, core and secondary, 2 monitors, 2 runs, all events | `TypeOK`, `ConstraintsHold`, `RecoveryAccepted`, `CoreCollectedFirst`, `IgnoreIsStable` | no interleaving of overlapping monitors, failing chains, recovery scripts and time writes a refused row, makes a recovery transaction fail, starts secondary before core has been collected, or takes up a given-up repository once nobody holds it |
| `SchedulerProgress` | 3 repositories of which one on GitLab, room 1 for core and 2 for secondary | `ActiveBounded`, `EveryGithubRepoCollected` | a hook has no more active repositories than the monitors have room; rooms are given back and nobody starves, under fairness |
| `SchedulerCollecting` | 1 repository, 1 monitor | `CollectingMeansRunning` (violated) | a chain that fails before its row is written leaves the row Collecting |
| `FacadeClone` | 1 repository, core and facade, 2 cloners, 1 monitor, all clone events | `FacadeTypeOK`, `ConstraintsHold`, `AnalysedAfterClone` | cloning, analysis, crashes and restarts together keep the constraints, and nothing is analysed without a directory, but for what was given up while a cloner was at it |
| `KeyRequests` | 2 keys, 2 processes, all events | `KeyTypeOK`, `KeyInOneState`, `OneAnswerEach`, `InvalidNotHandedBack`, `ImplementsService` | crossing reports, waits, dropped requests, kills and a shutdown leave every key in one state and every answer with its request, and implement `KeyService` |
| `KeyProgress` | 2 keys, 2 platforms, 1 process with a client made within another | `OneAnswerEach`, `InvalidNotHandedBack`, `ImplementsService`, `RequestsAnswered` | a client that does not share its answers is served as if it were alone, whatever clients its process had before, and nobody waits for ever once keys stop being reported as expired |
| `Recollection` | 1 issue, 1 pull request with a comment and a review, 1 core chain | `RecollectionTypeOK`, `LossesExplained` | what a completed core collection leaves out of date the next one asks for, unless a collection was seen to give it up or took longer than the margin |
| `RecollectionReviews` | 1 pull request with a review | `ReviewsWithinReach` (violated) | a review can fall between two secondary collections |
| `FacadeAnalysis` | 2 commits with 3 records, batches of 2, 2 chains of which one may begin beside the other, all faults | `AnalysisTypeOK`, `PartialIsJournaled`, `NoRowTwice`, `TableSpec`, `Recovers` | interrupted and overlapping analyses leave incomplete commits in the journal and no row twice - but of commits two chains had in hand -, implement `CommitTable`, and repair what they left |
| `ContributorResolution` | 2 repositories, 3 commits, 2 emails of one person, all events | `ResolutionTypeOK`, `NoneLeftBehind`, `ResolvedBeforeRemoved`, `WaitingGetAuthor` | whichever chain finds out an author, a commit without one stays in somebody's reach and gets it once chains go undisturbed; an email is resolved before it is taken off the unresolved ones |
| `RepoRegistry` | 2 addresses, 1 repository that is renamed, 1 form, 1 REST call, 1 user group | `RegistryTypeOK`, `OneRowPerSource`, `HandledIsMember`, `EveryRowGetsStatus` | concurrent requests, deletions and breaks keep the foreign keys, store no repository twice, and lose nothing they report as done |
| `BulkInsert` | 6 rows, any of them refused, 3 tries | `BulkTypeOK`, `DoneMeansAllStored`, `RaisedKeepsPrefix`, `CallEnds` | halving and retrying end, and leave all rows or a prefix |

Each violated property states what a comment or a document of the repository
says; PROJECT.json quotes it. TLC's shortest trace explains a violated run.

### Bounds

* Repositories: rows of different repositories meet only in the room of a hook
  and in the transactions of the recovery scripts. Interleaving questions
  therefore need one repository; `SchedulerProgress` has more repositories than
  room.
* Monitors: two are the least that overlap. That one more changes nothing is what
  the proofs are for.
* Runs: identifiers of chains are recycled when nothing remembers them
  (`IsNewRun`), so their number bounds the chains alive at once, not the
  length of a behaviour. With two, an old chain and a new one of the same hook,
  or one of each hook, coexist.
* Jobs: one in every run; the scheduler's proofs hold for any number.
* `FacadeClone` has the core hook beside the facade hook, because it is a core chain's
  existence check that gives a repository up while a cloner is at it.
* `SchedulerProgress` has one monitor, so that `ActiveBounded` says there that the
  room of each hook is kept; that several monitors add up their rooms and no more is
  proved.
* `MaxMessages` (2) counts `clone_repos` messages; more are the same to the
  workers, of which there are two.
* `MaxWait` 1: a reported key is usable again at once or after one unit of time,
  and a client sleeps longer than that. `MaxInbox` (1) bounds the inbox where it could
  grow without end: a worker is killed when at most so many messages wait, a key
  unpublished when fewer do. What clients send is bounded by their waiting.
* Platforms do not interact but by `refresh_keys` and by clients of one process that take
  each other's answers: `KeyRequests`, where every client has a process of its own, has
  one platform, `KeyProgress` the two of facade workers. Its inner client is made and
  ends without bound, so the process also stands for a sequence of client objects.
* `MaxUnread` (0 and 1) bounds the requests of a process that are open, and the answers a
  client has not read, when a client begins a call. Clients in processes of their own have
  none then, so 0 cuts nothing off; the outer client of a nested pair collects the answers
  to the inner one, without end if it is not bounded.
* Every instance publishes each key once, and the platforms its clients ask for:
  "collection start" does not publish github_search (`collection.py:70-75`,
  unlike `backend.py:154`), and a client of it waits for ever. In `KeyRequests`
  a client may ask before its platform is known and is dropped as well.
* `Recollection`: the margin is two days, the machine one day ahead of UTC, and the clock
  stops at `MaxTime` 3, which has room for a full collection, a second one, a change
  between any two steps of them, and a collection longer than the margin. One core chain
  keeps it in reach; chains that overlap are covered by the proof. `RecollectionReviews` has four days.
* `FacadeAnalysis`: commits of one and of two records and batches of two make commits
  that are cut by a batch, whole batches and a remainder. After an update the
  history has both commits or one of them (`Histories`), so commits appear, disappear
  and return. A chain begins beside another one `MaxOverlaps` (1) times in a behaviour and
  without bound alone; `MaxRefused` (1) commits at a time have their entry refused.
* `RepoRegistry`: one repository and two addresses, one of which GitHub spells
  with capitals, make a renaming and its redirect; of two owners users ask for
  one. A repository does not return to an address it had. `MaxGroups` 2 stands
  for "two or more rows of one name". `ChunkSize` 2 stands for 100: a form has up to four
  pairs of an address and a group, so it asks once or twice. The ids of user groups are not used again,
  as a sequence of the database gives them out.
* `ContributorResolution`: two commits of one email in two repositories, and a third
  of the same person with another email, which is the one in the profile: an author
  can be found by name, by an email of another repository, or not at all, while the
  other chain is at any point.
* `BulkInsert`: six rows are halved three deep, unevenly; ten tries are three.
* No run has unbounded counters, and no `CONSTRAINT` cuts behaviours off.
* Deadlock is checked except where the model stops: the clock of `Recollection`
  at `MaxTime`, a call of `BulkInsert` at its end, and `RepoRegistry` when every
  group was deleted.

### Fairness

`FairSpec` assumes weak fairness of each monitor and of each chain: celery beat
keeps sending monitors, and workers keep taking messages from the queues.
Failures are not fair. `SchedulerProgress` has no failing events and its property
is conditional on every Collecting row having a live chain: a chain that ends
before its row is written loses its place for good (`SchedulerCollecting`),
and no fairness helps. It also shows a limit of the design: GitLab repositories
are chosen for the secondary hook on every round, skipped when sent
(`collection_util.py:526-527`) and keep their place at the head of the queue, so
the hook's room has to exceed their number.

`KeyFairSpec` assumes that the orchestrator goes on with its loop, that a client in
the middle of a call goes on (it blocks in nothing but `_recv` and `sleep`), and that
time passes. Publishing, failing and being killed are not fair.
`RequestsAnswered` is conditional on the orchestrator staying up and on keys not being
reported as expired for ever: if they are, a client may find them all expired
each time it wakes up.

`AnalysisFairSpec` assumes that some chain takes a step when one can, or is sent again; it
does not say which, and a fault counts as such a step, so nothing forces the work
through. `Recovers` is conditional on faults ceasing, and on the clone not being updated
by one chain while another is under way: chains that overlap for ever need not
analyse what is new.

`ResolutionFairSpec` assumes that the scheduler starts the chain of every repository
again and that a chain that is not disturbed goes on; pruned commits, links that are
given up and failures are not fair. `WaitingGetAuthor` is conditional on their
ceasing, and excepts the emails whose commits or links were lost (`forgotten`).

`RegistrySpec` relies on the daily task alone, which retries without end
(`start_tasks.py:367-388`), and on no request.

`BulkSpec` assumes that a call goes on. `CallEnds` is conditional on the database
refusing, from some time on, statements for the rows in them only: a statement that is
refused again and again for other reasons is cut in halves again and again, because
the two functions with a loop try the whole after its halves.

## 5. What is proved

From the named assumptions on the constants, for sets of any size:

| theorem | statement |
|---|---|
| `TypeCorrect` | `Spec => []TypeOK` |
| `ConstraintsNeverRefuse` | `Spec => []ConstraintsHold` |
| `RecoveryNeverRefused` | `Spec => []RecoveryAccepted` |
| `CoreAlwaysFirst` | `Spec => []CoreCollectedFirst` |
| `IgnoreStaysStable` | `Spec => IgnoreIsStable` |
| `RoomNeverOverfilled` | `Spec => []ActiveBounded` |
| `FacadeTypeCorrect` | `FacadeSpec => []FacadeTypeOK` |
| `AnalysisAfterClone` | `FacadeSpec => []AnalysedAfterClone` |
| `CloneConstraintsHold` | `FacadeSpec => []ConstraintsHold` |
| `KeyTypeCorrect` | `KeySpec => []KeyTypeOK` |
| `KeyInOneStateAlways` | `KeySpec => []KeyInOneState`, if keys are published once, and before the first client or to processes that use one platform |
| `OneAnswerAlways` | `KeySpec => []OneAnswerEach`, if keys are published once |
| `InvalidKeyNotHandedBack` | `KeySpec => []InvalidNotHandedBack`, likewise |
| `OrchestratorImplementsService` | `KeySpec => ImplementsService`, likewise |
| `RecollectionTypeCorrect` | `Spec => []RecollectionTypeOK` |
| `LossesAreExplained` | `Spec => []LossesExplained` |
| `AnalysisTypeCorrect` | `AnalysisSpec => []AnalysisTypeOK` |
| `JournalCoversPartial` | `AnalysisSpec => []PartialIsJournaled` |
| `RowsStoredOnce` | `AnalysisSpec => []NoRowTwice` |
| `AnalysisImplementsTable` | `AnalysisSpec => TableSpec` |
| `ResolutionTypeCorrect` | `ResolutionSpec => []ResolutionTypeOK` |
| `NobodyIsLeftBehind` | `ResolutionSpec => []NoneLeftBehind` |
| `RemovedWhenResolved` | `ResolutionSpec => ResolvedBeforeRemoved` |
| `RegistryTypeCorrect` | `RegistrySpec => []RegistryTypeOK` |
| `HandledAreMembers` | `RegistrySpec => []HandledIsMember` |
| `OneRowForEachSource` | `OneForm => (RegistrySpec => []OneRowPerSource)` |
| `BulkTypeCorrect` | `BulkSpec => []BulkTypeOK` |
| `DoneIsComplete` | `BulkSpec => []DoneMeansAllStored` |
| `RaisedLeavesPrefix` | `BulkSpec => []RaisedKeepsPrefix` |

### The scheduler

`CollectionScheduler_proofs` assumes `NullAssumption`, `ConstantsAssumption` and `NoChainAssumption`.
`ConstraintsHold` is not inductive. A monitor writes Collecting for the secondary
hook of a repository it chose some time ago, and the constraint between the two
hooks then needs the core hook not to be Pending; nothing in the row says so.
Nor does the row say it for the Success a secondary chain writes at its end, from
which a later recollection starts. The inductive invariant is

    Inv == TypeOK /\ RowsSound /\ PlansFollow /\ SentFollow /\ RunsFollow

`SoundRow` strengthens the constraints of a row (a cell that is Collecting has a
task, one that has been collected is never Pending, and a secondary hook that is
not Pending has a core hook that has been collected, with a time that is not
NULL). `PlansFollow`, `SentFollow` and `RunsFollow` say the same of what a
monitor has chosen, of what it has sent and not written, and of what is
running. No write makes the time of the core hook NULL again (`Kept`), so the
three survive any write: that is the argument why stale knowledge is harmless here.

The first part of the module shows each write of `CollectionState` to preserve
`SoundRow` and `Kept`, and each row that is sound to satisfy the constraints after
every statement of both scripts. One lemma follows for each group of actions
(`InvRun`, `InvMonitor`, `InvRetry`, `InvClean`, joined in `InvStep`). `Inv` holds
whoever else writes the facade status, which is what the proof about cloning needs.
That no statement of `clean_collection_status` is refused rests on one thing more, which
the scheduler alone keeps to and `clone_repos` does not: no clone has failed
(`NoneFailed`). `IgnoreStep` then proves the action property from `Inv`: every action
that writes a hook's cell belongs to a run or a monitor that holds the hook, or is
a script that has no statement for Ignore.

### The room of a hook

The last part of the module assumes in addition that repositories and monitors are
finitely many (`FiniteAssumption`). A monitor counts the active repositories once and writes
its rows much later, so the number of active ones is not what is kept. Kept is their
number together with what all monitors hold (chosen, or sent and not written):

    RoomInv == Inv /\ HeldInTurn /\ \A h \in Hook : ClaimsFit(h) /\ RoomFits(h)

`RoomFits` bounds the sum by `max_repo` for each monitor. A monitor that looks holds
nothing (`HeldInTurn`), each of the others holds at most `max_repo` (`ClaimsFit`), and
it takes what is left; marking a row moves a repository from one summand to the
other. `FewForEach` counts the pairs of a monitor and a repository.

### Cloning

`FacadeClone_proofs` assumes what the scheduler's proofs do and `CloneAssumption`. Once
a directory exists it never goes away, so the question is which rows may become
ready for analysis without one. The status alone does not tell: a row that says Error
becomes Success in `retry_errored_repos` if it was ever collected, and one that says
Collecting becomes Update in the clean-up. `Analysable` therefore counts every cell
that has a time of collection and is not given up:

    FacadeInv == FacadeTypeOK /\ RowsCloned /\ UnderwayCloned /\ ClonersAtDirectory

A repository counts as made when it has a directory or is `unmade`: an exception before
the clone writes Error without one, which only matters if the cell has a time of
collection, and that it can only have from a give-up.

Every write of the scheduler makes only cells ready that were, or that belong to a
repository underway for the hook (`Keeps`, `SchedulerFollows`); `clone_repos` writes
Update, Error and Failed Clone where it has a directory, and Initializing only where
the CHECK constraints guarantee that nothing was collected.

`CloneConstraintsHold` carries the scheduler's `Inv` over to the composition
(`SchedulerInvKept`). A cloner writes the facade cell alone, and a write that a CHECK
refuses is not committed (the code finds out by the exception, and so does the model);
likewise the clean-up of a restart. What is shown is that this leaves the scheduler's
own writes, which have no such guard, as sound as they were.

### The keys

`KeyOrchestrator_proofs` proves the types without further assumptions and the rest under
one: no key is published twice (`PublishedOnce`). It is needed, because `publish_key`
appends without looking. Clients may be made within others of their process; what is
promised to a client is promised while it is not `shared`. The invariant is

    KeyInv == KeyTypeInv /\ PublishOrder /\ HadInv /\ TreeInv /\ DeadInv
              /\ \A c \in Client : Sole(c) => AnswerOf(c) /\ ReportOf(c) /\ HandsOf(c)

`PublishOrder` and `HadInv`: a key whose PUBLISH is still to come is neither fresh nor
expired, and any other is one of these once at most. `TreeInv`: a client within which
another one exists is idle and shared, and it has only one such; so whoever is not
shared is alone with the answers of its process. `DeadInv`: an object that is gone leaves
nothing to the next one. `AnswerOf`: a request and its answer are never both there, nor
is either when the client does not wait; a client made while a request of its process is
open is shared, so it starts with none. `ReportOf`: a key a client has reported is barred
from it (`Barred`): the orchestrator has it neither fresh nor expired, or the INVALIDATE
is ahead of every request of the process in the inbox. The order of the one subscription
is what this rests on. `HandsOf`: what it holds is of its platform and was published, so
no PUBLISH comes after its INVALIDATE.

`KeyInOneState` speaks of keys and not of clients, and nothing is excepted from it: the
shared clients report keys too. One of them can hold a key that was an answer to
another platform's request, and then reports it under its own platform, where the key
is perhaps still to be published: it would become invalid, and fresh afterwards. So the
theorem needs either that the clients of a process use one platform (`OnePlatform`,
with `HandedInv`: whatever any client holds or reports was handed out on its platform),
or that all keys are published before the first client is made (`PublishedFirst`, with
`LateInv`: no INVALIDATE is ahead of a PUBLISH), as "collection start" does; "backend
start" starts the workers first (section 6).

The refinement of `KeyService` needs, besides `KeyInv`, that each step moves every key
along the edges of `KeyService` (`KeysGoOn`: a key that is gone and not to be published
stays gone, one that is still to be published is not yet expired). What an answer means
follows from `AnswerOf` and `ReportOf`: its client waits and has no other answer, and the
key is none that it has reported. A NEW that is answered with a key is `Grant`, with
`null` is `TellNone`, with a time to wait for is a stutter of the clients; requests,
reports and ends are `Ask`, `Refuse` and `Leave`, and so is the making of a client within
another, which takes the outer one from the service; every other step leaves the
clients alone and is `Moves`.

### The collections

`Recollection_proofs` assumes `EntitiesAssumption`, `TimesAssumption` and
`ZoneAssumption` (no machine is more than two days ahead of UTC; behind it, as far as one
likes). Nothing is assumed of the length of a collection or of how many overlap:
what changes during a collection that outlasts the margin is named by the history
`outlasted`, which `CompleteCore` writes. `LossesExplained` speaks of completed
collections; the invariant has to say what an active one still owes:

    RecollectionInv == VersionsInv /\ RunsInv /\ PhaseInv /\ ReadInv /\ OverlapInv
                       /\ ItemsInv /\ ParentsInv /\ NotesInv /\ LossesExplained

An item out of date is yet to be asked for, read or stored, or changed after the oldest
collection began that this one overlaps (one that began earlier can store an older
version over what this one stored), or is explained (`ItemsInv`); a part that should be
read has its item on the way in a version not older than the part (`ParentsInv`), which
is why reading parts item by item finds it; once the items are stored the same holds of
the parts (`NotesInv`). `RunsInv` ties the times the tasks ask from to the last completed
collection, which may be another one's that ended meanwhile. `OverlapInv`: what changes while a
collection is under way is within the margin of the last completed one or was named by
it, so that a chain cannot be left with what another one's completion put out of reach.

### The analysis

`FacadeAnalysis_proofs` assumes `RecordsAssumption` only: any number of chains, any faults.
The invariant is

    AnalysisInv == DisputeInv /\ NoRowTwice /\ PartialIsJournaled
                   /\ \A k \in Chains : TrimInv(k) /\ QueueInv(k) /\ BatchInv(k) /\ WholeInv(k)

`DisputeInv`: what two chains have in hand is contested. Of the other commits each chain is
sure: what it is about to trim before its analysis is in the journal, and what it
trims after it is not in its listing; what it has still to collect has no row;
what it has collected and not inserted has none either and is in the journal; and a
commit that was begun is whole if the batch is added to the table (`WholeInv`). A chain
reads the table some time after it has listed the history, and inserts and clears much
later; that this does no harm to the commits another chain is not handling is what the
proof shows, step by step of either. The refinement maps a step to `List`, `Update`,
`Record`, `Prune`, `Dispute` or a stutter: only `ClearJournal` makes commits appear.

### The contributors

`ContributorResolution_proofs` assumes `AuthorsAssumption`. `NoneLeftBehind` is not
inductive: a chain that completes makes its commits old, and nothing in the formula
says that it has linked their emails by then. The invariant says which repository
still owes an email:

    ResolutionInv == ResolutionTypeOK /\ QueueInv /\ OwedInv

A repository owes an email of which it has a recent commit, unless it has come to its
links and has none to write for that email (`Owes`). The commit in hand when an alias
is inserted is recent (`QueueInv`) and its chain has not come to its links, so the
debt begins there; `ResolveEmails` finds the alias, and `Link` pays for all
repositories at once.

`ResolvedBeforeRemoved` has an invariant of its own, `ResolvedInv`: a chain that is about
to remove an email from the unresolved ones works on one that is resolved
(`ResolvedInHand`). No transaction of another chain takes that back.

### The repositories

`RepoRegistry_proofs` assumes `RegistryAssumption`. Types, foreign keys and `HandledIsMember`
hold of any number of requests at once:

    RegistryInv == RegistryTypeOK /\ \A p \in Adders : TaskInv(p) /\ HandledInv(p)

`TaskInv` says what a request relies on at each stage: the row it is about to join was
found under the address or the source it asked for, or a core collection has
overwritten the source since. Rows are never removed and sources change by core
collections only (`Grows`), so what a request has learnt stays true while others act.

A row is looked for and inserted in different transactions. `OneRowPerSource` therefore needs

    SourceInv == OneRowPerSource /\ \A p \in Adders : InsertInv(p)

where `InsertInv` says that the source a form is about to insert is still `Unclaimed`:
calls insert rows without one (`PlainRows`). Another form would claim it, and with
two forms TLC finds the second row. `OneForm` is what the code does: forms are celery
tasks of the frontend queue, whose worker is started with `--concurrency=1`
(`backend.py:226`).

### The batches

`BulkInsert_proofs` assumes `SizeAssumption`. When the outermost call returns, nothing in
the state says which calls have stored its rows, so the invariant follows them:

    BulkInv == BulkTypeOK /\ Nested /\ Ended /\ StoredBefore /\ NoneFrom
               /\ StoredPrefix /\ DoneMeansAllStored

Each call on the stack has the half of the call below that the latter waits for
(`Nested`). The rows before the one the innermost call has come to (`Progress`) are
stored (`StoredBefore`), so nothing is stored beyond a gap (`StoredPrefix`). The facade's
function does not upsert; that it stores no row twice, which its type says, follows from
none after that point being stored (`NoneFrom`).
`insert_data` may lose a half without noticing and is excepted from these; it ends
without None only if its own statement with the whole batch went through.

### Only model-checked

`EveryGithubRepoCollected`, `RequestsAnswered`, `Recovers`, `WaitingGetAuthor`,
`EveryRowGetsStatus` and `CallEnds` are liveness and out of the prover's reach.
Every other property of a passing run is stated by a theorem of the table. The
theorems that need one form, or keys that are published once, say so; for the
cases they leave out, and for the histories that properties except (`passedOver`,
`outlasted`, `unjournaled`, `contested`, `shared`, `unmade`, `populated`, `forgotten`), section 6
or the module tells what the code does.

## 6. Known disagreements without a run

Where a formula is named in parentheses, it is in the modules, false, and checked by no
run.

* `collection_state.py:13` says that an ERROR hook "crashed". The handler of a
  failed task (`celery_app.py:99-102`) does not compare task ids, so a late
  failure of an old chain marks a healthy new one (`ErrorMeansCrashed`).
* `facade_tasks.py:341` means the clone task to keep running; it sends its
  successor inside the loop over the Pending repositories (387), so an empty list
  ends it (`CloneTaskStaysAlive`).
* `collection_state.py:16` says of UPDATE that the repository "has been cloned".
  `git_repo_initialize` (`repofetch.py:106-117`) takes any directory for a clone,
  also one that a killed clone left (`UpdateMeansCloned`).
* `clean_collection_status` resets facade rows that are Initializing without asking
  whether they were ever collected (`collection.py:309-311`). Two cloners with overlapping
  lists make a row for which the CHECK of
  `augur_operations.py:1164-1171` refuses that, and with it the transaction for
  all repositories (`CleanAlwaysPossible`).
* `generate_analysis_sequence` prunes commits "not in the list of parents"
  (`facade_tasks.py:427-429`). `get_parent_commits_set` answers no commits when `git
  log` takes longer than ten minutes (`utilitymethods.py:123`); then all commits
  are pruned and analysed again. `CommitTable` says so: commits disappear that a listing
  does not have, and with `listingTimesOut` there are empty listings.
* `augur_data.py:775` says that the canonical email of a contributor is also an alias.
  `process_commit_metadata` enters the email of the commit as alias, and the profile's
  as canonical; core collections enter no alias at all (`CanonicalIsAlias`).
* `facade_github/tasks.py:147` resolves "any unresolved emails if we get to this point".
  A chain that breaks off before, or another that had found nobody for the email and
  writes its row later, leaves an email both known and unresolved; from then
  on the email is skipped for its alias and the row stays (`KnownNotUnresolved`).
* Two facade chains of one repository (overlapping monitors start them, and so does a
  clean-up or a late failure beside a running chain) can have the same commits in hand.
  The one that begins removes rows the other is storing, both insert the same rows, and one
  clears journal entries of the other: of such a commit (`contested`) rows are stored twice,
  or some only, with no entry in the journal. All other commits are safe.
* A commit whose entry in `working_commits` the database refuses is analysed all the same
  (`analyzecommit.py:176`): if the analysis breaks off, nothing tells that its rows are
  not complete (`unjournaled`).
* `issues.py:46` says "Subtract 2 days to ensure all data is collected" (likewise
  `messages.py:36`, `events.py:36`, `pull_requests/tasks.py:41`). The two days are counted
  from the END of the last collection, whose time the success task writes. What changes in
  the first hours of a collection that takes more than two days (nothing bounds its
  length), after it was read there, is older than the next
  collection asks for (`outlasted`). With a machine ahead of UTC the margin is shorter
  by as much, because the local time is read back as UTC.
* A repository can be analysed without a directory. A core chain's existence check gives
  the repository up (a 404 stamps `facade_data_last_collected`, `detect_move/core.py:110`)
  while a cloner is between Initializing and the clone; an exception of the
  cloner (`repofetch.py:130-138`) then makes the row Error, and `retry_errored_repos` makes an
  Error with a time Success, from where the scheduler sends it to analysis (`unmade`).
* `KeyClient.py:12-14` says that a process may have one client at a time, and 120-122
  that an invalidated key cannot be used for any future request. Two clients
  do exist in one process (`facade_github/tasks.py:16` makes one,
  `contributor_interface.py:292,344,381` others within it), on one reply channel. The
  inner one requests and both get the answer; the inner one ends; the outer one reports
  its key as invalid, asks again, and reads the old answer, which may be the key it has
  just reported. All its answers are late by one from then on. The properties about
  clients except it from when the inner one exists (`shared`).
* With clients of two platforms in one process and "backend start", which publishes
  after it has started the workers, such a late answer can even make the outer client
  report a key for its own platform before it is published there; `publish_key` then
  makes it fresh although it is invalid (see the hypothesis of `KeyInOneStateAlways`).
* An address that is typed into the web form with a slash at its end is not added:
  `get_owner_repo` takes the part behind the slash for the name, GitHub knows no such
  repository, and the form passes over it without a message (`frontend.py:211,163`).
* `collection_state.py:19` says of IGNORE that "we will not try again". A
  monitor that chose the repository before the 404 sends it and writes Collecting
  over it; what does hold is `IgnoreIsStable`.
* Two monitors that chose the same Pending repository collect it twice, the
  second time right after the first, whatever the recollection interval.
* `repofetch.py:22-24` says that the program notices when it is running already;
  `clone_repos` sends its successor from inside its loop and several run at once.
* `KeyClient.py:91-93` says that of several EXPIRE messages the last takes
  precedence; `expire_key` ignores those for a key that is not fresh, so the
  first does.
* `KeyClient.py:64-66` says that a request blocks if no keys are available;
  `new_key` answers `null` if none is fresh or expired, and the client goes on
  without one.
* `celery_app.py:94-96` explains the handling of moved repositories by an
  exception that is never raised, redirects being followed.
* `frontend.py:305` notes that a repository is always updated "to an org repo group
  id". A form passes the frontend group as well, so asking for a repository
  by its address moves it out of the group of its organisation.
* Repo groups are stored in lower case and looked for as typed
  (`augur_operations.py:969-974`, `frontend.py:137-140`), so `/user/org/add` with
  capitals makes a second row of the name; from then on every form that names the
  organisation fails, and its other repositories with it. In the same request the
  sweep of the organisation's repositories (`augur_operations.py:992-999`) finds none.
* `insert_github_repo` says that it updates the repo group of a repository that
  exists (`augur_data.py:1127-1128`); the statement does nothing on a conflict.
* `populate_repo_src_id_task` writes an identifier without looking for another row
  that has it, and a call stores none: a repository that was renamed and added
  again by the REST interface ends with two rows (`OneRowPerSource` excepts those).
* An address that GitHub spells with capitals in its listing is looked up as
  spelled, and never found among the addresses stored in lower case; only the
  identifier saves such a repository from a second row.
* `lib.py:332`: the upsert keeps the old value of a column whose new value is
  NULL, so a value cleared upstream stays. `lib.py:547-555` executes an update
  without committing it.

## 7. What is not modelled

* Jumpstart, a development tool, and sessions: next in the plan.
* Redis wrappers and configuration: no state of their own that two processes
  contend for.
* Metrics, views, materialized views, the command line: queries and one-shot SQL.
* GitLab's collection tasks, the data analysis workers, dependency parsers,
  complexity tasks: data processing whose control is a job that succeeds or
  raises, which is how the scheduler's chains contain it.
* The cache rebuild of the facade: SQL over collected data.
* `repo-reset` (`collection.py:203-215`) executes its UPDATE on a connection that it
  does not commit.

Each is listed in PROJECT.json with its reason. Liveness under fairness is out of
the proof system's reach, and so is induction over the recursion of the bulk
functions, whose calls `BulkInsert` therefore keeps as a stack.

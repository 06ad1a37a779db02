----------------------------- MODULE FacadeAnalysis -----------------------------
(***************************************************************************)
(* The analysis of the commits of one repository: the tasks of a facade    *)
(* chain from the update of the clone to the trimming of commits out of    *)
(* range, the tables commits and working_commits they write, and what may  *)
(* go wrong in between: a chain that ends in an error or is killed at any  *)
(* point, a git log that runs out of its ten minutes, an entry of          *)
(* working_commits that cannot be written, a second chain of the           *)
(* repository that is started before the first has ended.                  *)
(*                                                                         *)
(* working_commits is a journal: a commit is entered before its rows are   *)
(* collected and leaves it when all rows of the analysis are stored, so    *)
(* that the next analysis can throw away what an interrupted one left.     *)
(***************************************************************************)
EXTENDS Integers, FiniteSets

CONSTANTS
  Commits,     \* commits the repository has or may get
  Records,     \* the rows analyze_commit makes of them, one per file
  CommitOf,    \* the commit of a record
  Histories,   \* what the history of the clone may be after an update
  Chains,      \* facade chains of the repository that may be under way
  BatchSize,   \* records collected before they are inserted: 1000
  MaxOverlaps, \* bound: how often a chain begins beside another one
  MaxRefused,  \* bound: commits at a time whose entry was refused
  Faults       \* what may go wrong, from AllFaults

AllFaults == {"interrupted",         \* a task raises, or the worker is killed
              "gitLogFails",         \* for one commit
              "listingTimesOut",     \* get_parent_commits_set
              "journalRefuses",      \* INSERT INTO working_commits
              "journalUnread"}       \* SELECT FROM working_commits

RecordsOf(c) == {r \in Records : CommitOf[r] = c}

ASSUME RecordsAssumption ==
  /\ CommitOf \in [Records -> Commits]
  /\ \A c \in Commits : IsFiniteSet(RecordsOf(c))
  /\ Histories \subseteq SUBSET Commits
  /\ BatchSize \in Nat \ {0}
  /\ MaxOverlaps \in Nat
  /\ MaxRefused \in Nat
  /\ Faults \subseteq AllFaults

VARIABLES
  head,         \* the commits git log lists in the clone
  rows,         \* rows[r]: how often record r is in table commits
  journal,      \* table working_commits
  chain,        \* the facade chains
  unjournaled,  \* history: commits whose last entry in the journal was refused,
                \* unless the analysis that made it was concluded
  contested,    \* history: commits two chains had in hand at the same time
  overlaps      \* how often a chain has begun beside another one

vars == <<head, rows, journal, chain, unjournaled, contested, overlaps>>
tables == <<rows, journal>>

\* A chain: listed is what git log answered, queue holds the commits this
\* analysis found missing, todo those of them it has not looked at, batch the
\* records collected and not inserted, doomed the commits being trimmed, and
\* post tells the trimming after the analysis from the one before.
Phase == {"idle", "begun", "trim", "untrack", "list", "missing", "analyse",
          "insert", "clear", "post", "range"}

ChainState == [phase : Phase, listed : SUBSET Commits, queue : SUBSET Commits,
               todo : SUBSET Commits, batch : SUBSET Records,
               doomed : SUBSET Commits, post : BOOLEAN]

NoChain == [phase |-> "idle", listed |-> {}, queue |-> {}, todo |-> {},
            batch |-> {}, doomed |-> {}, post |-> FALSE]

\* Types; and whoever goes on to the next commit has room in its batch.
AnalysisTypeOK ==
  /\ head \subseteq Commits
  /\ rows \in [Records -> Nat]
  /\ journal \subseteq Commits
  /\ chain \in [Chains -> ChainState]
  /\ \A k \in Chains :
       /\ IsFiniteSet(chain[k].batch)
       /\ chain[k].phase = "analyse" => Cardinality(chain[k].batch) < BatchSize
  /\ unjournaled \subseteq Commits
  /\ contested \subseteq Commits
  /\ overlaps \in 0..MaxOverlaps

AnalysisInit ==
  /\ head = {}
  /\ rows = [r \in Records |-> 0]
  /\ journal = {}
  /\ chain = [k \in Chains |-> NoChain]
  /\ unjournaled = {}
  /\ contested = {}
  /\ overlaps = 0

\* get_existing_commits_set: a commit with a row counts as there.
Existing == {CommitOf[r] : r \in {s \in Records : rows[s] > 0}}

Alone(k) == \A j \in Chains \ {k} : chain[j].phase = "idle"

\* The commits a chain analyses or trims, and those that another one does.
Handled(k) == chain[k].queue \cup chain[k].doomed

HandledBeside(k) == UNION {Handled(j) : j \in Chains \ {k}}

-----------------------------------------------------------------------------
(* The tasks of a chain. *)

\* git_repo_updates: history may have grown, or been rewritten by a push.
Begin(k) ==
  /\ chain[k].phase = "idle"
  /\ head' \in Histories
  /\ chain' = [chain EXCEPT ![k] = [NoChain EXCEPT !.phase = "begun"]]
  /\ UNCHANGED <<tables, unjournaled>>

\* trim_commits does nothing with an empty list.
Trim(k, commits, post, otherwise) ==
  [chain EXCEPT ![k] =
    [NoChain EXCEPT !.phase = IF commits = {} THEN otherwise ELSE "trim",
                    !.listed = chain[k].listed,
                    !.doomed = commits,
                    !.post = post]]

\* trim_commits_facade_task.
ReadJournal(k) ==
  /\ chain[k].phase = "begun"
  /\ chain' = Trim(k, journal, FALSE, "list")
  /\ UNCHANGED <<head, tables, unjournaled>>

\* get_working_commits_by_repo_id answers a query that fails with no commits.
JournalUnread(k) ==
  /\ "journalUnread" \in Faults
  /\ chain[k].phase = "begun"
  /\ chain' = Trim(k, {}, FALSE, "list")
  /\ UNCHANGED <<head, tables, unjournaled>>

\* trim_commits deletes the rows and then, in another transaction, the
\* entries of the journal.
RemoveRows(k) ==
  /\ chain[k].phase = "trim"
  /\ rows' = [r \in Records |->
                IF CommitOf[r] \in chain[k].doomed THEN 0 ELSE rows[r]]
  /\ chain' = [chain EXCEPT ![k] = [chain[k] EXCEPT !.phase = "untrack"]]
  /\ UNCHANGED <<head, journal, unjournaled>>

Untrack(k) ==
  /\ chain[k].phase = "untrack"
  /\ journal' = journal \ chain[k].doomed
  /\ chain' = [chain EXCEPT ![k] =
       [NoChain EXCEPT !.phase = IF chain[k].post THEN "idle" ELSE "list"]]
  /\ UNCHANGED <<head, rows, unjournaled>>

\* get_parent_commits_set: the commits that lead to HEAD now.
ListCommits(k) ==
  /\ chain[k].phase \in {"list", "post"}
  /\ chain' = [chain EXCEPT ![k] =
       [NoChain EXCEPT
          !.phase = IF chain[k].phase = "list" THEN "missing" ELSE "range",
          !.listed = head]]
  /\ UNCHANGED <<head, tables, unjournaled>>

\* A git log that takes ten minutes, or fails, lists no commit.
ListingFails(k) ==
  /\ "listingTimesOut" \in Faults
  /\ chain[k].phase \in {"list", "post"}
  /\ chain' = [chain EXCEPT ![k] =
       [NoChain EXCEPT
          !.phase = IF chain[k].phase = "list" THEN "missing" ELSE "range"]]
  /\ UNCHANGED <<head, tables, unjournaled>>

\* The commits listed that are not in the table: without any of them
\* analyze_commits_in_parallel returns.
Analyse(k, missing) ==
  [chain EXCEPT ![k] =
    [NoChain EXCEPT !.phase = IF missing = {} THEN "post" ELSE "analyse",
                    !.listed = chain[k].listed,
                    !.queue = missing,
                    !.todo = missing]]

\* (mutant) commits still in the journal are analysed once more.
ListMissing_Journaled(k) ==
  /\ chain[k].phase = "missing"
  /\ chain' = Analyse(k, chain[k].listed \ (Existing \ journal))
  /\ UNCHANGED <<head, tables, unjournaled>>

\* get_existing_commits_set, read after git log has answered.
ListMissing(k) ==
  /\ chain[k].phase = "missing"
  /\ chain' = Analyse(k, chain[k].listed \ Existing)
  /\ UNCHANGED <<head, tables, unjournaled>>

\* (mutant) one record more than a batch is meant to have.
Collect_OneMore(k, c) ==
  LET batch == chain[k].batch \cup RecordsOf(c) IN
  /\ chain[k].phase = "analyse"
  /\ c \in chain[k].todo
  /\ \/ /\ journal' = journal \cup {c}
        /\ unjournaled' = unjournaled \ {c}
     \/ /\ "journalRefuses" \in Faults
        /\ unjournaled' = unjournaled \cup {c}
        /\ Cardinality(unjournaled') <= MaxRefused
        /\ UNCHANGED journal
  /\ chain' = [chain EXCEPT ![k] =
       [chain[k] EXCEPT
          !.phase = IF Cardinality(batch) > BatchSize THEN "insert" ELSE "analyse",
          !.todo = chain[k].todo \ {c},
          !.batch = batch]]
  /\ UNCHANGED <<head, rows>>

\* analyze_commit and the batch it may complete: the commit is entered in
\* the journal - a refusal is only logged - and its records are collected.
Collect(k, c) ==
  LET batch == chain[k].batch \cup RecordsOf(c) IN
  /\ chain[k].phase = "analyse"
  /\ c \in chain[k].todo
  /\ \/ /\ journal' = journal \cup {c}
        /\ unjournaled' = unjournaled \ {c}
     \/ /\ "journalRefuses" \in Faults
        /\ unjournaled' = unjournaled \cup {c}
        /\ Cardinality(unjournaled') <= MaxRefused
        /\ UNCHANGED journal
  /\ chain' = [chain EXCEPT ![k] =
       [chain[k] EXCEPT
          !.phase = IF Cardinality(batch) >= BatchSize THEN "insert" ELSE "analyse",
          !.todo = chain[k].todo \ {c},
          !.batch = batch]]
  /\ UNCHANGED <<head, rows>>

\* A commit git log fails for is left out.
Skip(k, c) ==
  /\ "gitLogFails" \in Faults
  /\ chain[k].phase = "analyse"
  /\ c \in chain[k].todo
  /\ chain' = [chain EXCEPT ![k] =
       [chain[k] EXCEPT !.todo = chain[k].todo \ {c}]]
  /\ UNCHANGED <<head, tables, unjournaled>>

\* (mutant) only full batches are inserted.
Conclude_LastBatchDropped(k) ==
  /\ chain[k].phase = "analyse"
  /\ chain[k].todo = {}
  /\ chain' = [chain EXCEPT ![k] = [chain[k] EXCEPT !.phase = "clear"]]
  /\ UNCHANGED <<head, tables, unjournaled>>

\* The last records are inserted, and then the journal is cleared.
Conclude(k) ==
  /\ chain[k].phase = "analyse"
  /\ chain[k].todo = {}
  /\ chain' = [chain EXCEPT ![k] =
       [chain[k] EXCEPT
          !.phase = IF chain[k].batch = {} THEN "clear" ELSE "insert"]]
  /\ UNCHANGED <<head, tables, unjournaled>>

\* (mutant) a commit leaves the journal with its first rows.
Insert_Untracks(k, piece) ==
  /\ chain[k].phase = "insert"
  /\ piece \subseteq chain[k].batch
  /\ piece # {}
  /\ rows' = [r \in Records |-> IF r \in piece THEN rows[r] + 1 ELSE rows[r]]
  /\ journal' = journal \ {CommitOf[r] : r \in piece}
  /\ chain' = [chain EXCEPT ![k] =
       [chain[k] EXCEPT
          !.phase = IF piece = chain[k].batch THEN "analyse" ELSE "insert",
          !.batch = chain[k].batch \ piece]]
  /\ UNCHANGED <<head, unjournaled>>

\* facade_bulk_insert_commits: a batch that is refused is cut in two halves,
\* down to single records, and each piece is committed on its own.
Insert(k, piece) ==
  /\ chain[k].phase = "insert"
  /\ piece \subseteq chain[k].batch
  /\ piece # {}
  /\ rows' = [r \in Records |-> IF r \in piece THEN rows[r] + 1 ELSE rows[r]]
  /\ chain' = [chain EXCEPT ![k] =
       [chain[k] EXCEPT
          !.phase = IF piece = chain[k].batch THEN "analyse" ELSE "insert",
          !.batch = chain[k].batch \ piece]]
  /\ UNCHANGED <<head, journal, unjournaled>>

\* (mutant) the journal is emptied, whatever is in it.
ClearJournal_All(k) ==
  /\ chain[k].phase = "clear"
  /\ journal' = {}
  /\ unjournaled' = unjournaled \ chain[k].queue
  /\ chain' = [chain EXCEPT ![k] = [NoChain EXCEPT !.phase = "post"]]
  /\ UNCHANGED <<head, rows>>

\* remove_working_commits_by_repo_id_and_hashes.
ClearJournal(k) ==
  /\ chain[k].phase = "clear"
  /\ journal' = journal \ chain[k].queue
  /\ unjournaled' = unjournaled \ chain[k].queue
  /\ chain' = [chain EXCEPT ![k] = [NoChain EXCEPT !.phase = "post"]]
  /\ UNCHANGED <<head, rows>>

\* trim_commits_post_analysis_facade_task: commits that are out of range.
ListTrimmed(k) ==
  /\ chain[k].phase = "range"
  /\ chain' = Trim(k, Existing \ chain[k].listed, TRUE, "idle")
  /\ UNCHANGED <<head, tables, unjournaled>>

\* An error ends the chain, and so does a stop of the backend.
Interrupt(k) ==
  /\ "interrupted" \in Faults
  /\ chain[k].phase # "idle"
  /\ chain' = [chain EXCEPT ![k] = NoChain]
  /\ UNCHANGED <<head, tables, unjournaled>>

-----------------------------------------------------------------------------
\* What the tasks of a chain do when nothing goes wrong; a commit the journal
\* refused is not seen by the task.
Work(k) ==
  \/ Begin(k)
  \/ ReadJournal(k)
  \/ RemoveRows(k)
  \/ Untrack(k)
  \/ ListCommits(k)
  \/ ListMissing(k)
  \/ \E c \in Commits : Collect(k, c)
  \/ Conclude(k)
  \/ \E piece \in SUBSET chain[k].batch : Insert(k, piece)
  \/ ClearJournal(k)
  \/ ListTrimmed(k)

Fault(k) ==
  \/ JournalUnread(k)
  \/ ListingFails(k)
  \/ \E c \in Commits : Skip(k, c)
  \/ Interrupt(k)

\* A chain is sent for a repository that is not Collecting. It is beside
\* another one when the row was cleaned or given a status while that ran.
Step(k) ==
  /\ Work(k) \/ Fault(k)
  /\ contested' = contested \cup (Handled(k)' \cap HandledBeside(k))
  /\ overlaps' = IF chain[k].phase = "idle" /\ ~Alone(k)
                 THEN overlaps + 1 ELSE overlaps
  /\ overlaps' <= MaxOverlaps

AnalysisNext == \E k \in Chains : Step(k)

AnalysisSpec == AnalysisInit /\ [][AnalysisNext]_vars

\* Workers run the tasks of the chains there are, and the scheduler starts
\* another analysis when the last one is old enough or has failed.
AnalysisFairSpec == AnalysisSpec /\ WF_vars(AnalysisNext)

-----------------------------------------------------------------------------
Complete(c) == \A r \in RecordsOf(c) : rows[r] > 0
Partial(c) == c \in Existing /\ ~Complete(c)

\* "If the analysis is interrupted (possibly leading to partial data in the
\* database ...) we can recover" (generate_analysis_sequence): a commit with
\* some of its rows is in the journal, unless the journal refused it or two
\* chains had it in hand together.
PartialIsJournaled ==
  \A c \in Commits : Partial(c) => c \in journal \cup unjournaled \cup contested

\* Interrupted, repeated and concurrent analyses never store a row twice,
\* although the table has no constraint against it, except of a commit that
\* two chains had in hand together.
NoRowTwice == \A r \in Records : rows[r] <= 1 \/ CommitOf[r] \in contested

\* The rows that can be relied on implement CommitTable: whole commits
\* appear, and a commit disappears only when a listing a chain goes by does
\* not have it.
Analysed ==
  {c \in Commits : c \in Existing /\ Complete(c) /\ c \notin journal \cup contested}

\* A chain goes by its listing until it has looked for what to trim.
GoesByListing(k) ==
  \/ chain[k].phase \in {"missing", "analyse", "insert", "clear", "range"}
  \/ chain[k].phase = "trim" /\ chain[k].post

Table == INSTANCE CommitTable WITH
  analysed <- Analysed,
  disputed <- contested,
  listings <- {chain[k].listed : k \in {j \in Chains : GoesByListing(j)}},
  ListingMayFail <- "listingTimesOut" \in Faults
TableSpec == Table!TableSpec

\* Whatever interrupted analyses and failed listings left, once nothing more
\* goes wrong, and no chain updates the clone while another is under way, the
\* table shows the history of the clone again and again, except commits the
\* journal refused or two chains had in hand.
Quiet(k) ==
  (head' = head \/ Alone(k)) /\ Work(k)

Recovers ==
  (<>[][\E k \in Chains : Quiet(k)]_vars)
    => []<>(head \subseteq Analysed \cup unjournaled \cup contested)

=============================================================================

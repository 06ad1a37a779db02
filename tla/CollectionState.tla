--------------------------- MODULE CollectionState ---------------------------
(***************************************************************************)
(* A row of augur_operations.collection_status: for one repository, the    *)
(* status, the task id and the time of the last completed collection of    *)
(* each collection hook, the CHECK constraints the table declares, and the *)
(* writes the program makes to a row.                                      *)
(*                                                                         *)
(* A row is a function from hooks to cells.  The timestamp                 *)
(* <hook>_data_last_collected is kept as what the program asks of it:      *)
(* whether it is NULL and whether the recollection interval has passed.    *)
(***************************************************************************)
EXTENDS Naturals

CONSTANTS Run,      \* identifiers of dispatched celery chains
          Null      \* the NULL of a column, and no value at all

ASSUME NullAssumption == Null \notin Run

Core      == "core"
Secondary == "secondary"
Facade    == "facade"
Ml        == "ml"
Hook      == {Core, Secondary, Facade, Ml}

Status == {"Pending", "Success", "Error", "Collecting", "Initializing",
           "Update", "Failed Clone", "Standby", "Ignore"}

\* NULL; set within the recollection interval; set before it.
Never == "never"
Fresh == "fresh"
Due   == "due"
LastCollected == {Never, Fresh, Due}

Cell == [status : Status, task : Run \cup {Null}, last : LastCollected]
Row  == [Hook -> Cell]

NewCell == [status |-> "Pending", task |-> Null, last |-> Never]
NewRow  == [h \in Hook |-> NewCell]

-----------------------------------------------------------------------------
(* The CHECK constraints.  The ml columns have none.                       *)

last_collected_check(h, c) ==
    /\ ~ (c.last = Never /\ c.status = "Success")
    /\ ~ (c.last # Never /\ c.status = "Pending")
    /\ h = Facade => ~ (c.last # Never /\ c.status \in {"Initializing", "Update"})

task_id_check(h, c) ==
    /\ ~ (c.task # Null /\ c.status \in {"Pending", "Success", "Error"})
    /\ h = Facade => ~ (c.task # Null /\ c.status = "Failed Clone")
    /\ ~ (c.task = Null /\ c.status = "Collecting")

core_secondary_dependency_check(w) ==
    ~ (w[Core].status = "Pending" /\ w[Secondary].status = "Collecting")

Checks(w) ==
    /\ \A h \in Hook \ {Ml} : last_collected_check(h, w[h]) /\ task_id_check(h, w[h])
    /\ core_secondary_dependency_check(w)

-----------------------------------------------------------------------------
(* The writes.  Each is one committed change of a row.                     *)

MarkCollecting(w, h, run) ==
    [w EXCEPT ![h].status = "Collecting", ![h].task = run]

MarkSuccess(w, h) ==
    [w EXCEPT ![h] = [status |-> "Success", task |-> Null, last |-> Fresh]]

\* (mutant) the error is recorded and the task id kept.
TaskFailure_KeepsTask(w, h) ==
    IF w[h].status \in {"Collecting", "Initializing"}
    THEN [w EXCEPT ![h].status = "Error"]
    ELSE w

\* An error is recorded only on a hook that the row says is running.
HandleTaskFailure(w, h) ==
    IF w[h].status \in {"Collecting", "Initializing"}
    THEN [w EXCEPT ![h].status = "Error", ![h].task = Null]
    ELSE w

\* GitHub answered 404 for the repository: every hook is given up.
MarkIgnore ==
    [h \in Hook |-> [status |-> "Ignore", task |-> Null, last |-> Fresh]]

\* (mutant) repositories that were given up are retried as well.
RetryCell_IgnoredToo(c) ==
    IF c.status \in {"Error", "Ignore"}
    THEN [c EXCEPT !.status = IF c.last = Never THEN "Pending" ELSE "Success"]
    ELSE c

\* What retry_errored_repos makes of one hook: of its eight UPDATEs, two are
\* about the hook and at most one of them matches the cell.
RetryCell(c) ==
    IF c.status = "Error"
    THEN [c EXCEPT !.status = IF c.last = Never THEN "Pending" ELSE "Success"]
    ELSE c

\* (mutant) every interrupted collection starts over.
CleanCell_AlwaysPending(h, c) ==
    IF h # Ml /\ c.status = "Collecting"
    THEN [c EXCEPT !.status = "Pending", !.task = Null]
    ELSE c

\* What clean_collection_status makes of one hook; ml has no UPDATE.
CleanCell(h, c) ==
    CASE h # Ml /\ c.status = "Collecting" ->
           [c EXCEPT !.status = IF c.last # Never THEN "Success"
                                ELSE IF h = Facade THEN "Update" ELSE "Pending",
                     !.task = Null]
      [] h = Facade /\ c.status \in {"Failed Clone", "Initializing"} ->
           [c EXCEPT !.status = "Pending", !.task = Null]
      [] OTHER -> c

\* The number of the UPDATE that is about the hook.  retry_errored_repos does
\* the hooks that were never collected first, clean_collection_status does
\* one hook after the other.
RetryOrder == [h \in Hook |-> CASE h = Secondary -> 1 [] h = Core -> 2
                                [] h = Facade -> 3 [] OTHER -> 4]
RetryStatement(h, c) == RetryOrder[h] + IF c.last = Never THEN 0 ELSE 4
CleanOrder == [h \in Hook |-> CASE h = Core -> 1 [] h = Secondary -> 3
                                [] h = Facade -> 5 [] OTHER -> 8]
CleanStatement(h, c) ==
    CleanOrder[h] + IF h = Facade /\ c.status # "Collecting" THEN 2
                    ELSE IF c.last = Never THEN 0 ELSE 1

\* A row after the first n UPDATEs: the database evaluates the CHECKs after
\* each of them.
RetryAfter(w, n) ==
    [h \in Hook |-> IF RetryStatement(h, w[h]) <= n THEN RetryCell(w[h]) ELSE w[h]]
CleanAfter(w, n) ==
    [h \in Hook |-> IF CleanStatement(h, w[h]) <= n THEN CleanCell(h, w[h]) ELSE w[h]]

RetryRow(w) == RetryAfter(w, 8)
CleanRow(w) == CleanAfter(w, 7)
=============================================================================

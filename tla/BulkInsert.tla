-------------------------------- MODULE BulkInsert --------------------------------
(***************************************************************************)
(* One call of each of the three functions that write batches of rows:     *)
(* bulk_insert_dicts (db/lib.py), insert_data (db/session.py) and          *)
(* facade_bulk_insert_commits.  A statement that the database refuses is   *)
(* cut in two halves, each inserted by a call of the function itself.  A   *)
(* transaction the database chose as the victim of a deadlock is tried     *)
(* again.  Other sessions decide when that happens, so the outcome of a    *)
(* statement is open wherever its rows do not settle it.                   *)
(***************************************************************************)
EXTENDS Integers, Sequences

CONSTANTS
  N,           \* rows of the batch, in the order of the list
  MaxTries     \* attempts that may end in a deadlock: ten

ASSUME SizeAssumption == N \in Nat \ {0} /\ MaxTries \in Nat \ {0}

Rows == 1 .. N
Functions == {"lib", "session", "facade"}

VARIABLES
  function,    \* which of the three functions was called
  bad,         \* rows the database refuses
  zone,        \* rows it refuses for their time zone
  table,       \* table[r]: how many rows of the table stem from r
  calls,       \* the calls under way, the innermost one last
  result       \* how the outermost call ended

vars == <<function, bad, zone, table, calls, result>>
inputs == <<function, bad, zone>>

\* A call: its rows, how many deadlocks it met, and what it does next:
\* execute its statement, or deal with the second half after the first one.
Call == [from : Rows, to : Rows, tries : 0 .. MaxTries,
         next : {"execute", "second", "after"}]
NewCall(from, to) == [from |-> from, to |-> to, tries |-> 0, next |-> "execute"]

Current == calls[Len(calls)]
RowsOf(c) == c.from .. c.to
Outer == SubSeq(calls, 1, Len(calls) - 1)
Resume(c) == Outer \o <<c>>

\* No row is in the table twice; the table of commits has no constraint that
\* would refuse it.
BulkTypeOK ==
  /\ function \in Functions
  /\ bad \subseteq Rows /\ zone \subseteq Rows
  /\ table \in [Rows -> 0 .. 1]
  /\ calls \in Seq(Call)
  /\ result \in {"running", "done", "gaveUp", "raised"}

BulkInit ==
  /\ function \in Functions
  /\ bad \in SUBSET Rows
  /\ zone \in SUBSET (Rows \ bad)
  /\ function # "facade" => zone = {}
  /\ table = [r \in Rows |-> 0]
  /\ calls = <<NewCall(1, N)>>
  /\ result = "running"

Running(next) == result = "running" /\ Current.next = next

\* The innermost call ends, and the one that made it goes on.
Return(how) ==
  /\ calls' = Outer
  /\ result' = IF Len(calls) = 1 THEN how ELSE "running"

\* An exception ends all calls.
Raise ==
  /\ calls' = <<>>
  /\ result' = "raised"

\* A statement is a transaction: an upsert leaves one row whatever was there.
Written(rows) ==
  [r \in Rows |->
     IF r \notin rows THEN table[r]
     ELSE IF function = "facade" THEN table[r] + 1 ELSE 1]

Refused(rows) == rows \cap (bad \cup zone) # {}

Succeed ==
  /\ Running("execute")
  /\ ~Refused(RowsOf(Current))
  /\ table' = Written(RowsOf(Current))
  /\ Return("done")
  /\ UNCHANGED inputs

\* (mutant) the halves are inserted in the wrong order.
Halves_Swapped(c) ==
  LET middle == c.from + (c.to - c.from + 1) \div 2 IN
  <<NewCall(middle, c.to), NewCall(c.from, middle - 1)>>

\* data[:len(data)//2] and data[len(data)//2:].
Halves(c) ==
  LET middle == c.from + (c.to - c.from + 1) \div 2 IN
  <<NewCall(c.from, middle - 1), NewCall(middle, c.to)>>

\* A statement for several rows is refused, for its rows or for a reason of
\* the moment: the first half is next.
Split ==
  /\ Running("execute")
  /\ Current.from < Current.to
  /\ calls' = Resume([Current EXCEPT !.next = "second"]) \o <<Halves(Current)[1]>>
  /\ UNCHANGED <<inputs, table, result>>

SecondHalf ==
  /\ Running("second")
  /\ calls' = Resume([Current EXCEPT !.next = "after"]) \o <<Halves(Current)[2]>>
  /\ UNCHANGED <<inputs, table, result>>

\* (mutant) the halves are taken to be the whole.
AfterHalves_Return ==
  /\ Running("after")
  /\ Return("done")
  /\ UNCHANGED <<inputs, table>>

\* (mutant) the facade function goes round its loop as well.
AfterHalves_Again ==
  /\ Running("after")
  /\ calls' = Resume([Current EXCEPT !.next = "execute"])
  /\ UNCHANGED <<inputs, table, result>>

\* After the halves the facade function is done.  The other two go round
\* their loop and execute the statement for all the rows again.
AfterHalves ==
  /\ Running("after")
  /\ IF function = "facade"
     THEN Return("done")
     ELSE /\ calls' = Resume([Current EXCEPT !.next = "execute"])
          /\ UNCHANGED result
  /\ UNCHANGED <<inputs, table>>

\* (mutant) a row that is refused is left out.
RefuseRow_Skipped ==
  /\ Running("execute")
  /\ Current.from = Current.to
  /\ Return("done")
  /\ UNCHANGED <<inputs, table>>

\* A single row is refused: that is raised, except that the facade function
\* writes a commit with an unknown time zone again with UTC instead.
RefuseRow ==
  /\ Running("execute")
  /\ Current.from = Current.to
  /\ \/ /\ function = "facade"
        /\ Current.from \in zone
        /\ table' = Written(RowsOf(Current))
        /\ Return("done")
     \/ Raise /\ UNCHANGED table
  /\ UNCHANGED inputs

\* A deadlock: the statement is executed again, ten times at most.  Then
\* bulk_insert_dicts raises an exception and insert_data answers None.
Deadlock ==
  /\ Running("execute")
  /\ function # "facade"
  /\ IF Current.tries + 1 < MaxTries
     THEN calls' = Resume([Current EXCEPT !.tries = @ + 1]) /\ UNCHANGED result
     ELSE IF function = "lib" THEN Raise ELSE Return("gaveUp")
  /\ UNCHANGED <<inputs, table>>

\* Any other operational error is raised by both functions with a loop.
OtherError ==
  /\ Running("execute")
  /\ function # "facade"
  /\ Raise
  /\ UNCHANGED <<inputs, table>>

Statement == Succeed \/ Split \/ RefuseRow \/ Deadlock \/ OtherError
BulkNext == Statement \/ SecondHalf \/ AfterHalves

BulkSpec == BulkInit /\ [][BulkNext]_vars /\ WF_vars(BulkNext)

-----------------------------------------------------------------------------
\* When a function returns without an error and without None, every row is
\* in the table, although insert_data may have given up any of the halves.
DoneMeansAllStored ==
  result = "done" => \A r \in Rows : table[r] = 1

\* When an exception ends the two functions that never give up silently, the
\* rows before some row are stored and the others are not: callers may go on
\* from there.
RaisedKeepsPrefix ==
  result = "raised" /\ function # "session" =>
    \A q, r \in Rows : q < r /\ table[r] = 1 => table[q] = 1

\* What the rows give reason for.
Explained ==
  \/ Succeed
  \/ Split /\ Refused(RowsOf(Current))
  \/ RefuseRow
  \/ SecondHalf
  \/ AfterHalves

\* A call ends once the database refuses statements for their rows only.
CallEnds == (<>[][Explained]_vars) => <>(result # "running")
=============================================================================

--------------------------- MODULE BulkInsert_proofs ---------------------------
(***************************************************************************)
(* What a batch of any size leaves in the table, however often its         *)
(* statements are cut in halves, refused and tried again.                  *)
(*                                                                         *)
(* A row is stored because of a call that may long be over, and the calls  *)
(* that are under way remember only their own rows.  The invariant says    *)
(* how the calls lie in one another, and that all rows before the point    *)
(* the innermost one has come to are stored.                               *)
(***************************************************************************)
EXTENDS BulkInsert, SequenceTheorems, TLAPS

Stored(r) == table[r] = 1

\* The first row of a call's second half.
Middle(c) == c.from + (c.to - c.from + 1) \div 2

\* Call d is the half of call c that c waits for.
HalfOf(c, d) ==
  \/ c.next = "second" /\ d.from = c.from /\ d.to = Middle(c) - 1
  \/ c.next = "after" /\ d.from = Middle(c) /\ d.to = c.to

\* The outermost call has all the rows, each other one a half of them.
Nested ==
  /\ calls # <<>> => calls[1].from = 1 /\ calls[1].to = N
  /\ \A i \in 1 .. Len(calls) :
       calls[i].from <= calls[i].to
         /\ (calls[i].next # "execute" => calls[i].from < calls[i].to)
  /\ \A i \in 1 .. Len(calls) - 1 : HalfOf(calls[i], calls[i + 1])

Ended == result = "running" <=> calls # <<>>

\* The first row of a call that it has not seen to.
Progress(c) ==
  IF c.next = "execute" THEN c.from
  ELSE IF c.next = "second" THEN Middle(c) ELSE c.to + 1

StoredBefore ==
  function # "session" /\ calls # <<>> =>
    \A r \in Rows : r < Progress(Current) => Stored(r)

\* The table of commits would take a row twice.
NoneFrom ==
  function = "facade" /\ calls # <<>> =>
    \A r \in Rows : r >= Progress(Current) => table[r] = 0

StoredPrefix ==
  function # "session" => \A q, r \in Rows : q < r /\ Stored(r) => Stored(q)

BulkInv ==
  /\ BulkTypeOK
  /\ Nested
  /\ Ended
  /\ StoredBefore
  /\ NoneFrom
  /\ StoredPrefix
  /\ DoneMeansAllStored

-----------------------------------------------------------------------------
(* The stack of calls. *)

LEMMA MiddleBetween ==
  ASSUME SizeAssumption, NEW c \in Call, c.from < c.to
  PROVE  /\ Middle(c) \in Rows
         /\ Middle(c) - 1 \in Rows
         /\ c.from < Middle(c)
         /\ Middle(c) <= c.to
<1>1. c.from \in Int /\ c.to \in Int /\ 1 <= c.from /\ c.to <= N /\ N \in Int
  BY DEF Call, Rows, SizeAssumption
<1>2. ASSUME NEW k \in Nat, k >= 2
      PROVE  k \div 2 \in Int /\ 1 <= k \div 2 /\ k \div 2 < k
  BY <1>2, Z3
<1>3. c.to - c.from + 1 \in Nat /\ c.to - c.from + 1 >= 2
  BY <1>1
<1> DEFINE h == (c.to - c.from + 1) \div 2
<1>4. h \in Int /\ 1 <= h /\ h < c.to - c.from + 1 /\ Middle(c) = c.from + h
  BY <1>2, <1>3 DEF Middle
<1> HIDE DEF h
<1> QED
  BY <1>1, <1>4 DEF Rows

LEMMA HalvesAre ==
  ASSUME SizeAssumption, NEW c \in Call, c.from < c.to
  PROVE  /\ Halves(c)[1] = NewCall(c.from, Middle(c) - 1)
         /\ Halves(c)[2] = NewCall(Middle(c), c.to)
         /\ Halves(c)[1] \in Call
         /\ Halves(c)[2] \in Call
<1>1. /\ Halves(c)[1] = NewCall(c.from, Middle(c) - 1)
      /\ Halves(c)[2] = NewCall(Middle(c), c.to)
  BY DEF Halves, Middle
<1>2. c.from \in Rows /\ c.to \in Rows /\ 0 \in 0 .. MaxTries
  BY DEF Call, SizeAssumption
<1> QED
  BY <1>1, <1>2, MiddleBetween DEF NewCall, Call

LEMMA StackOuter ==
  ASSUME calls \in Seq(Call), calls # <<>>
  PROVE  /\ Len(calls) \in Nat \ {0}
         /\ Current \in Call
         /\ Outer \in Seq(Call)
         /\ Len(Outer) = Len(calls) - 1
         /\ \A i \in 1 .. Len(calls) - 1 : Outer[i] = calls[i]
         /\ Outer = <<>> <=> Len(calls) = 1
<1> DEFINE n == Len(calls)
<1>1. n \in Nat \ {0} /\ \A i \in 1 .. n : calls[i] \in Call
  OBVIOUS
<1>2. Outer = [i \in 1 .. n - 1 |-> calls[i]]
  BY <1>1 DEF Outer
<1>3. Current \in Call
  BY <1>1 DEF Current
<1> HIDE DEF n
<1>4. n - 1 \in Nat /\ \A i \in 1 .. n - 1 : calls[i] \in Call
  BY <1>1
<1>5. Outer \in Seq(Call) /\ Len(Outer) = n - 1
  BY <1>2, <1>4
<1>6. \A i \in 1 .. n - 1 : Outer[i] = calls[i]
  BY <1>2
<1>7. Outer = <<>> <=> n = 1
  BY <1>1, <1>5
<1> QED
  BY <1>1, <1>3, <1>5, <1>6, <1>7 DEF n

LEMMA StackResumed ==
  ASSUME calls \in Seq(Call), calls # <<>>, NEW c \in Call
  PROVE  /\ Resume(c) \in Seq(Call)
         /\ Len(Resume(c)) = Len(calls)
         /\ Resume(c)[Len(calls)] = c
         /\ \A i \in 1 .. Len(calls) - 1 : Resume(c)[i] = calls[i]
         /\ Resume(c) # <<>>
<1> HIDE DEF Outer
<1>1. /\ Len(calls) \in Nat \ {0}
      /\ Outer \in Seq(Call)
      /\ Len(Outer) = Len(calls) - 1
      /\ \A i \in 1 .. Len(calls) - 1 : Outer[i] = calls[i]
  BY StackOuter
<1> QED
  BY <1>1 DEF Resume

LEMMA StackPushed ==
  ASSUME calls \in Seq(Call), calls # <<>>, NEW c \in Call, NEW d \in Call,
         NEW s, s = Resume(c) \o <<d>>
  PROVE  /\ s \in Seq(Call)
         /\ Len(s) = Len(calls) + 1
         /\ s[Len(calls) + 1] = d
         /\ s[Len(calls)] = c
         /\ \A i \in 1 .. Len(calls) - 1 : s[i] = calls[i]
         /\ s # <<>>
<1> DEFINE t == Resume(c)
<1>1. /\ t \in Seq(Call)
      /\ Len(t) = Len(calls)
      /\ t[Len(calls)] = c
      /\ \A i \in 1 .. Len(calls) - 1 : t[i] = calls[i]
  BY StackResumed
<1>2. Len(calls) \in Nat \ {0}
  BY StackOuter
<1>3. s = Append(t, d)
  <2> HIDE DEF t
  <2>1. t \o <<d>> = Append(t, d)
    BY <1>1, AppendIsConcat
  <2> QED
    BY <2>1 DEF t
<1> HIDE DEF t
<1>4. /\ s \in Seq(Call)
      /\ s # <<>>
      /\ Len(s) = Len(t) + 1
      /\ \A i \in 1 .. Len(t) : s[i] = t[i]
      /\ s[Len(t) + 1] = d
  <2>1. t \in Seq(Call) /\ d \in Call
    BY <1>1
  <2>2. /\ Append(t, d) \in Seq(Call)
        /\ Append(t, d) # <<>>
        /\ Len(Append(t, d)) = Len(t) + 1
        /\ \A i \in 1 .. Len(t) : Append(t, d)[i] = t[i]
        /\ Append(t, d)[Len(t) + 1] = d
    BY <2>1, AppendProperties, Zenon
  <2> QED
    BY <1>3, <2>2, Zenon
<1> QED
  BY <1>1, <1>2, <1>4

-----------------------------------------------------------------------------
(* What the calls do to the invariant. *)

\* A call leaves the stack with one of its halves on top of it.
LEMMA PushKeeps ==
  ASSUME SizeAssumption, BulkInv, calls # <<>>,
         NEW c \in Call, NEW d \in Call,
         c.from = Current.from, c.to = Current.to, c.from < c.to,
         HalfOf(c, d), d.next = "execute", d.from <= d.to,
         d.from = Progress(Current),
         calls' = Resume(c) \o <<d>>,
         inputs' = inputs, table' = table, result' = result
  PROVE  BulkInv'
<1> DEFINE n == Len(calls)
<1>1. calls \in Seq(Call)
  BY DEF BulkInv, BulkTypeOK
<1>2. /\ n \in Nat \ {0}
      /\ Current = calls[n]
  BY <1>1, StackOuter DEF Current
<1>3. /\ calls' \in Seq(Call)
      /\ Len(calls') = n + 1
      /\ calls'[n + 1] = d
      /\ calls'[n] = c
      /\ \A i \in 1 .. n - 1 : calls'[i] = calls[i]
      /\ calls' # <<>>
  <2> DEFINE s == Resume(c) \o <<d>>
  <2>1. /\ s \in Seq(Call)
        /\ Len(s) = n + 1
        /\ s[n + 1] = d
        /\ s[n] = c
        /\ \A i \in 1 .. n - 1 : s[i] = calls[i]
        /\ s # <<>>
    BY <1>1, StackPushed, Zenon
  <2>2. calls' = s
    OBVIOUS
  <2> HIDE DEF s, n
  <2> QED
    BY <2>1, <2>2
<1>4. Current' = d
  BY <1>3 DEF Current
<1> HIDE DEF n
<1>5. BulkTypeOK'
  BY <1>3 DEF BulkInv, BulkTypeOK, inputs
<1>6. Nested'
  <2>1. calls'[1].from = 1 /\ calls'[1].to = N
    <3>1. calls[1].from = 1 /\ calls[1].to = N
      BY DEF BulkInv, Nested
    <3>2. CASE n = 1
      BY <1>2, <1>3, <3>1, <3>2
    <3>3. CASE n # 1
      BY <1>2, <1>3, <3>1, <3>3
    <3> QED
      BY <3>2, <3>3
  <2>2. ASSUME NEW i \in 1 .. n + 1
        PROVE  calls'[i].from <= calls'[i].to
                 /\ (calls'[i].next # "execute" => calls'[i].from < calls'[i].to)
    <3>1. CASE i \in 1 .. n - 1
      <4>1. i \in 1 .. n
        BY <1>2, <3>1
      <4> QED
        BY <1>3, <3>1, <4>1 DEF BulkInv, Nested, n
    <3>2. CASE i = n
      BY <1>3, <3>2 DEF Call, Rows
    <3>3. CASE i = n + 1
      BY <1>3, <3>3
    <3>4. i \in 1 .. n - 1 \/ i = n \/ i = n + 1
      BY <1>2
    <3> QED
      BY <3>1, <3>2, <3>3, <3>4
  <2>3. ASSUME NEW i \in 1 .. n
        PROVE  HalfOf(calls'[i], calls'[i + 1])
    <3>1. CASE i = n
      BY <1>2, <1>3, <3>1
    <3>2. CASE i = n - 1
      <4>1. HalfOf(calls[i], calls[n])
        BY <1>2, <3>2 DEF BulkInv, Nested, n
      <4>2. calls'[i] = calls[i] /\ calls'[i + 1] = c
        BY <1>2, <1>3, <3>2
      <4> QED
        BY <1>2, <4>1, <4>2 DEF HalfOf
    <3>3. CASE i < n - 1
      <4>1. HalfOf(calls[i], calls[i + 1])
        BY <1>2, <3>3 DEF BulkInv, Nested, n
      <4>2. calls'[i] = calls[i] /\ calls'[i + 1] = calls[i + 1]
        BY <1>2, <1>3, <3>3
      <4> QED
        BY <4>1, <4>2
    <3>4. i = n \/ i = n - 1 \/ i < n - 1
      BY <1>2
    <3> QED
      BY <3>1, <3>2, <3>3, <3>4
  <2>4. n + 1 - 1 = n
    BY <1>2
  <2> QED
    BY <1>2, <1>3, <2>1, <2>2, <2>3, <2>4 DEF Nested, HalfOf, Middle
<1>7. Progress(d) = Progress(Current)
  BY DEF Progress
<1>8. StoredBefore' /\ NoneFrom' /\ StoredPrefix'
  <2> HIDE DEF Current
  <2> QED
    BY <1>3, <1>4, <1>7 DEF BulkInv, StoredBefore, NoneFrom, StoredPrefix, Stored, Progress,
        inputs, Middle
<1>9. Ended' /\ DoneMeansAllStored'
  BY <1>3 DEF BulkInv, Ended, DoneMeansAllStored
<1> QED
  BY <1>5, <1>6, <1>8, <1>9 DEF BulkInv

\* A call goes back to its statement; the facade function never does.
LEMMA ResumeKeeps ==
  ASSUME SizeAssumption, BulkInv, calls # <<>>, function # "facade",
         NEW c \in Call,
         c.from = Current.from, c.to = Current.to, c.next = "execute",
         calls' = Resume(c),
         inputs' = inputs, table' = table, result' = result
  PROVE  BulkInv'
<1> DEFINE n == Len(calls)
<1>1. calls \in Seq(Call)
  BY DEF BulkInv, BulkTypeOK
<1>2. /\ n \in Nat \ {0}
      /\ Current = calls[n]
      /\ Current \in Call
  BY <1>1, StackOuter DEF Current
<1>3. /\ calls' \in Seq(Call)
      /\ Len(calls') = n
      /\ calls'[n] = c
      /\ \A i \in 1 .. n - 1 : calls'[i] = calls[i]
      /\ calls' # <<>>
  BY <1>1, StackResumed
<1>4. Current' = c
  BY <1>3 DEF Current
<1>5. Len(calls) = n
  OBVIOUS
<1> HIDE DEF n, Current
<1>6. BulkTypeOK'
  BY <1>3 DEF BulkInv, BulkTypeOK, inputs
<1>7. Nested'
  <2>1. calls'[1].from = 1 /\ calls'[1].to = N
    <3>1. calls[1].from = 1 /\ calls[1].to = N
      BY DEF BulkInv, Nested
    <3>2. CASE n = 1
      BY <1>2, <1>3, <3>1, <3>2
    <3>3. CASE n # 1
      BY <1>2, <1>3, <3>1, <3>3
    <3> QED
      BY <3>2, <3>3
  <2>2. ASSUME NEW i \in 1 .. n
        PROVE  calls'[i].from <= calls'[i].to
                 /\ (calls'[i].next # "execute" => calls'[i].from < calls'[i].to)
    <3>1. calls[i].from <= calls[i].to
            /\ (calls[i].next # "execute" => calls[i].from < calls[i].to)
      BY <1>5 DEF BulkInv, Nested
    <3>2. CASE i \in 1 .. n - 1
      BY <1>3, <3>1, <3>2
    <3>3. CASE i = n
      BY <1>2, <1>3, <3>1, <3>3
    <3> QED
      BY <1>2, <3>2, <3>3
  <2>3. ASSUME NEW i \in 1 .. n - 1
        PROVE  HalfOf(calls'[i], calls'[i + 1])
    <3>1. HalfOf(calls[i], calls[i + 1]) /\ calls'[i] = calls[i]
      BY <1>3, <1>5 DEF BulkInv, Nested
    <3>2. calls'[i + 1].from = calls[i + 1].from /\ calls'[i + 1].to = calls[i + 1].to
      <4>1. CASE i + 1 = n
        BY <1>2, <1>3, <4>1
      <4>2. CASE i + 1 # n
        BY <1>2, <1>3, <4>2
      <4> QED
        BY <4>1, <4>2
    <3> QED
      BY <3>1, <3>2 DEF HalfOf
  <2> QED
    BY <1>2, <1>3, <2>1, <2>2, <2>3 DEF Nested, HalfOf, Middle
<1>8. StoredBefore'
  <2>1. Progress(c) <= Progress(Current)
    <3>1. Current.from \in Int /\ Current.to \in Int /\ Current.from <= Current.to
      BY <1>2, <1>5 DEF BulkInv, Nested, Call, Rows
    <3>2. Current.next = "second" => Current.from < Middle(Current)
      BY <1>2, <1>5, MiddleBetween DEF BulkInv, Nested
    <3>3. Current.next = "second" => Middle(Current) \in Int
      <4>1. Middle(Current) = Current.from + (Current.to - Current.from + 1) \div 2
        BY DEF Middle
      <4> QED
        BY <3>1, <4>1
    <3> HIDE DEF Middle
    <3> QED
      BY <3>1, <3>2, <3>3 DEF Progress
  <2>2. Progress(Current) \in Int /\ Progress(c) \in Int
    <3>1. ASSUME NEW e \in Call PROVE Progress(e) \in Int
      <4>1. e.from \in Int /\ e.to \in Int
        BY DEF Call, Rows
      <4>2. Middle(e) \in Int
        BY <4>1 DEF Middle
      <4> QED
        BY <4>1, <4>2 DEF Progress
    <3> QED
      BY <1>2, <3>1
  <2>3. (Progress(Current))' = Progress(c)
    BY <1>4 DEF Progress, Middle
  <2>4. ASSUME function # "session", NEW r \in Rows, r < Progress(c)
        PROVE  Stored(r)
    <3>1. r < Progress(Current)
      BY <2>1, <2>2, <2>4 DEF Rows
    <3> QED
      BY <2>4, <3>1 DEF BulkInv, StoredBefore
  <2> QED
    BY <2>3, <2>4 DEF StoredBefore, Stored, inputs
<1>9. NoneFrom' /\ StoredPrefix' /\ Ended' /\ DoneMeansAllStored'
  BY <1>3 DEF BulkInv, NoneFrom, StoredPrefix, Stored, Ended, DoneMeansAllStored, inputs
<1> QED
  BY <1>6, <1>7, <1>8, <1>9 DEF BulkInv

-----------------------------------------------------------------------------
(* How a call ends. *)

\* A call whose rows are all stored, and no others after them, is over.
Settled(t, c) ==
  /\ t \in [Rows -> 0 .. 1]
  /\ function # "session" => \A r \in Rows : r <= c.to => t[r] = 1
  /\ function = "facade" => \A r \in Rows : r > c.to => t[r] = 0
  /\ function # "session" => \A q, r \in Rows : q < r /\ t[r] = 1 => t[q] = 1

LEMMA ReturnKeeps ==
  ASSUME SizeAssumption, BulkInv, calls # <<>>, result = "running",
         NEW how \in {"done", "gaveUp"}, Return(how),
         inputs' = inputs, Settled(table', Current),
         how = "done" /\ Len(calls) = 1 => \A r \in Rows : table'[r] = 1
  PROVE  BulkInv'
<1> DEFINE n == Len(calls)
<1>1. calls \in Seq(Call)
  BY DEF BulkInv, BulkTypeOK
<1>2. /\ n \in Nat \ {0}
      /\ Current = calls[n]
      /\ Current \in Call
  BY <1>1, StackOuter DEF Current
<1>3. /\ calls' \in Seq(Call)
      /\ Len(calls') = n - 1
      /\ \A i \in 1 .. n - 1 : calls'[i] = calls[i]
      /\ calls' = <<>> <=> n = 1
  BY <1>1, StackOuter DEF Return
<1>4. result' = IF n = 1 THEN how ELSE "running"
  BY DEF Return
<1>5. Current' = calls'[n - 1]
  BY <1>3 DEF Current
<1>6. Len(calls) = n
  OBVIOUS
<1> HIDE DEF n, Current
<1>7. BulkTypeOK'
  BY <1>3, <1>4 DEF BulkInv, BulkTypeOK, inputs, Settled
<1>8. Nested'
  <2>1. calls' # <<>> => calls'[1] = calls[1]
    BY <1>2, <1>3
  <2>2. calls[1].from = 1 /\ calls[1].to = N
    BY DEF BulkInv, Nested
  <2>3. ASSUME NEW i \in 1 .. n - 1
        PROVE  calls'[i].from <= calls'[i].to
                 /\ (calls'[i].next # "execute" => calls'[i].from < calls'[i].to)
    <3>1. i \in 1 .. n
      BY <1>2
    <3> QED
      BY <1>3, <1>6, <3>1 DEF BulkInv, Nested
  <2>4. ASSUME NEW i \in 1 .. n - 1 - 1
        PROVE  HalfOf(calls'[i], calls'[i + 1])
    <3>1. i \in 1 .. n - 1 /\ i + 1 \in 1 .. n - 1
      BY <1>2
    <3>2. HalfOf(calls[i], calls[i + 1])
      BY <1>6, <3>1 DEF BulkInv, Nested
    <3> QED
      BY <1>3, <3>1, <3>2
  <2> QED
    BY <1>3, <2>1, <2>2, <2>3, <2>4 DEF Nested, HalfOf, Middle
<1>9. Ended'
  BY <1>3, <1>4 DEF Ended
<1>10. ASSUME calls' # <<>>
       PROVE  (Progress(Current))' = Current.to + 1
  <2>1. n - 1 \in 1 .. n - 1 /\ n - 1 + 1 = n
    BY <1>2, <1>3, <1>10
  <2>2. HalfOf(calls[n - 1], calls[n])
    BY <1>6, <2>1 DEF BulkInv, Nested
  <2>3. calls'[n - 1] = calls[n - 1]
    BY <1>3, <2>1
  <2> DEFINE e == calls[n - 1]
  <2>4. e \in Call
    BY <1>1, <1>2, <1>6, <2>1
  <2>5. HalfOf(e, Current) /\ Current' = e
    BY <1>2, <1>5, <2>2, <2>3
  <2> HIDE DEF e
  <2>6. Middle(e) \in Int
    <3>1. e.from \in Int /\ e.to \in Int
      BY <2>4 DEF Call, Rows
    <3> QED
      BY <3>1 DEF Middle
  <2>7. Progress(e) = Current.to + 1
    <3>1. CASE e.next = "second" /\ Current.to = Middle(e) - 1
      BY <2>6, <3>1 DEF Progress
    <3>2. CASE e.next = "after" /\ Current.to = e.to
      BY <3>2 DEF Progress
    <3> QED
      BY <2>5, <3>1, <3>2 DEF HalfOf
  <2> QED
    BY <2>5, <2>7 DEF Progress, Middle
<1>11. Current.to \in Int
  BY <1>2 DEF Call, Rows
<1>12. \A r \in Rows : (r < Current.to + 1 <=> r <= Current.to)
                        /\ (r >= Current.to + 1 <=> r > Current.to)
  BY <1>11 DEF Rows
<1>13. function' = function
  BY DEF inputs
<1> HIDE DEF Progress
<1>14. StoredBefore'
  BY <1>10, <1>12, <1>13 DEF StoredBefore, Stored, Settled
<1>15. NoneFrom'
  BY <1>10, <1>12, <1>13 DEF NoneFrom, Settled
<1>16. StoredPrefix'
  BY <1>13 DEF StoredPrefix, Stored, Settled
<1>17. DoneMeansAllStored'
  BY <1>4, <1>6 DEF DoneMeansAllStored
<1> QED
  BY <1>7, <1>8, <1>9, <1>14, <1>15, <1>16, <1>17 DEF BulkInv

\* An exception leaves the table as it is.
LEMMA RaiseKeeps ==
  ASSUME BulkInv, Raise, inputs' = inputs, table' = table
  PROVE  BulkInv'
<1>1. calls' = <<>> /\ result' = "raised" /\ function' = function
  BY DEF Raise, inputs
<1>2. Len(calls') = 0 /\ calls' \in Seq(Call)
  BY <1>1
<1>3. BulkTypeOK'
  BY <1>1, <1>2 DEF BulkInv, BulkTypeOK, inputs
<1>4. Nested'
  <2>1. ~(\E i \in 1 .. 0 : TRUE) /\ ~(\E i \in 1 .. 0 - 1 : TRUE)
    OBVIOUS
  <2> QED
    BY <1>1, <1>2, <2>1 DEF Nested
<1>5. Ended' /\ StoredBefore' /\ NoneFrom' /\ DoneMeansAllStored'
  BY <1>1 DEF Ended, StoredBefore, NoneFrom, DoneMeansAllStored
<1>6. StoredPrefix'
  BY <1>1 DEF BulkInv, StoredPrefix, Stored
<1> QED
  BY <1>3, <1>4, <1>5, <1>6 DEF BulkInv

\* The statement of the innermost call.
LEMMA StatementStores ==
  ASSUME SizeAssumption, BulkInv, calls # <<>>, Current.next = "execute",
         table' = Written(RowsOf(Current))
  PROVE  /\ Settled(table', Current)
         /\ \A r \in RowsOf(Current) : table'[r] = 1
<1> DEFINE c == Current
<1>1. c \in Call
  BY StackOuter DEF BulkInv, BulkTypeOK
<1>2. /\ Progress(c) = c.from
      /\ c.next = "execute"
  BY DEF Progress
<1>3. /\ function # "session" => \A r \in Rows : r < c.from => Stored(r)
      /\ function = "facade" => \A r \in Rows : r >= c.from => table[r] = 0
  BY <1>2 DEF BulkInv, StoredBefore, NoneFrom
<1>4. table \in [Rows -> 0 .. 1]
  BY DEF BulkInv, BulkTypeOK
<1>5. StoredPrefix
  BY DEF BulkInv
<1> HIDE DEF c
<1>6. c.from \in Int /\ c.to \in Int /\ RowsOf(c) = c.from .. c.to /\ RowsOf(c) \subseteq Rows
  BY <1>1 DEF Call, Rows, RowsOf
<1>7. table' = [r \in Rows |->
                  IF r \notin RowsOf(c) THEN table[r]
                  ELSE IF function = "facade" THEN table[r] + 1 ELSE 1]
  BY DEF Written, c
<1>8. \A r \in RowsOf(c) : table'[r] = 1
  <2>1. ASSUME NEW r \in RowsOf(c)
        PROVE  r \in Rows /\ r >= c.from
    BY <1>6 DEF Rows
  <2> QED
    BY <1>3, <1>7, <2>1
<1>9. \A r \in Rows \ RowsOf(c) : table'[r] = table[r]
  BY <1>7
<1>10. table' \in [Rows -> 0 .. 1]
  <2>1. \A r \in Rows : table'[r] \in 0 .. 1
    BY <1>4, <1>8, <1>9
  <2> QED
    BY <1>7, <2>1
<1>11. ASSUME function # "session", NEW r \in Rows, r <= c.to
       PROVE  table'[r] = 1
  <2>1. CASE r \in RowsOf(c)
    BY <1>8, <2>1
  <2>2. CASE r \notin RowsOf(c)
    <3>1. r < c.from
      BY <1>6, <1>11, <2>2 DEF Rows
    <3> QED
      BY <1>3, <1>9, <1>11, <2>2, <3>1 DEF Stored
  <2> QED
    BY <2>1, <2>2
<1>12. ASSUME function = "facade", NEW r \in Rows, r > c.to
       PROVE  table'[r] = 0
  <2>1. r \notin RowsOf(c)
    BY <1>6, <1>12 DEF Rows
  <2>2. c.from <= c.to
    BY StackOuter DEF BulkInv, BulkTypeOK, Nested, Current, c
  <2>3. r >= c.from
    BY <1>6, <1>12, <2>2 DEF Rows
  <2> QED
    BY <1>3, <1>9, <1>12, <2>1, <2>3
<1>13. ASSUME function # "session", NEW q \in Rows, NEW r \in Rows, q < r, table'[r] = 1
       PROVE  table'[q] = 1
  <2>1. CASE q <= c.to
    BY <1>11, <1>13, <2>1
  <2>2. CASE ~(q <= c.to)
    <3>1. q \notin RowsOf(c) /\ r \notin RowsOf(c)
      BY <1>6, <1>13, <2>2 DEF Rows
    <3>2. table'[q] = table[q] /\ table'[r] = table[r]
      BY <1>9, <3>1
    <3> QED
      BY <1>5, <1>13, <3>2 DEF StoredPrefix, Stored
  <2> QED
    BY <2>1, <2>2
<1>14. Settled(table', c)
  BY <1>10, <1>11, <1>12, <1>13 DEF Settled
<1> QED
  BY <1>8, <1>14 DEF c

-----------------------------------------------------------------------------
(* The invariant, action by action. *)

\* What the invariant says of the innermost call.
LEMMA CurrentFacts ==
  ASSUME SizeAssumption, BulkInv, result = "running"
  PROVE  /\ calls # <<>>
         /\ Len(calls) \in Nat \ {0}
         /\ Current \in Call
         /\ Current.from <= Current.to
         /\ Current.next # "execute" => Current.from < Current.to
         /\ Len(calls) = 1 => Current.from = 1 /\ Current.to = N
<1>1. calls # <<>> /\ calls \in Seq(Call)
  BY DEF BulkInv, BulkTypeOK, Ended
<1>2. Len(calls) \in Nat \ {0} /\ Current \in Call /\ Len(calls) \in 1 .. Len(calls)
  BY <1>1, StackOuter
<1> QED
  BY <1>1, <1>2 DEF BulkInv, Nested, Current

LEMMA BulkInitInv == SizeAssumption /\ BulkInit => BulkInv
<1> SUFFICES ASSUME SizeAssumption, BulkInit PROVE BulkInv
  OBVIOUS
<1> DEFINE c == NewCall(1, N)
<1>1. c \in Call /\ c.from = 1 /\ c.to = N /\ c.next = "execute" /\ 1 <= N /\ N \in Nat
  BY DEF SizeAssumption, NewCall, Call, Rows
<1>2. calls = <<c>> /\ table = [r \in Rows |-> 0] /\ result = "running"
  BY DEF BulkInit
<1> HIDE DEF c
<1>3. Len(calls) = 1 /\ calls[1] = c /\ calls \in Seq(Call) /\ calls # <<>>
  BY <1>1, <1>2
<1>4. BulkTypeOK
  BY <1>2, <1>3 DEF BulkInit, BulkTypeOK
<1>5. Nested
  <2>1. \A i \in 1 .. 1 : i = 1
    OBVIOUS
  <2>2. ~(\E i \in 1 .. 1 - 1 : TRUE)
    OBVIOUS
  <2> QED
    BY <1>1, <1>3, <2>1, <2>2 DEF Nested
<1>6. Ended /\ DoneMeansAllStored /\ StoredPrefix
  BY <1>2, <1>3 DEF Ended, DoneMeansAllStored, StoredPrefix, Stored
<1>7. Current = c /\ Progress(c) = 1
  BY <1>1, <1>3 DEF Current, Progress
<1>8. StoredBefore /\ NoneFrom
  BY <1>2, <1>7 DEF StoredBefore, NoneFrom, Rows
<1> QED
  BY <1>4, <1>5, <1>6, <1>8 DEF BulkInv

\* The whole statement of the outermost call stores everything.
LEMMA StoredReturns ==
  ASSUME SizeAssumption, BulkInv, Running("execute"),
         table' = Written(RowsOf(Current)), Return("done"), inputs' = inputs
  PROVE  BulkInv'
<1>1. /\ result = "running" /\ Current.next = "execute"
      /\ calls # <<>>
      /\ Len(calls) = 1 => Current.from = 1 /\ Current.to = N
  BY CurrentFacts DEF Running
<1>2. Settled(table', Current) /\ \A r \in RowsOf(Current) : table'[r] = 1
  BY <1>1, StatementStores
<1>3. Len(calls) = 1 => \A r \in Rows : table'[r] = 1
  BY <1>1, <1>2 DEF RowsOf, Rows
<1> QED
  BY <1>1, <1>2, <1>3, ReturnKeeps

\* A statement that is refused is cut, and the first half is next.
LEMMA SplitKeeps ==
  ASSUME SizeAssumption, BulkInv, Split
  PROVE  BulkInv'
<1> DEFINE c == [Current EXCEPT !.next = "second"]
           d == Halves(Current)[1]
<1>1. /\ result = "running" /\ Current.next = "execute" /\ Current.from < Current.to
      /\ calls' = Resume(c) \o <<d>>
      /\ inputs' = inputs /\ table' = table /\ result' = result
  BY DEF Split, Running
<1>2. calls # <<>> /\ Current \in Call
  BY <1>1, CurrentFacts
<1>3. d = NewCall(Current.from, Middle(Current) - 1) /\ d \in Call
  BY <1>1, <1>2, HalvesAre
<1>4. Middle(Current) \in Rows /\ Current.from < Middle(Current)
  BY <1>1, <1>2, MiddleBetween
<1>5. c \in Call /\ c.from = Current.from /\ c.to = Current.to /\ c.next = "second"
  BY <1>2 DEF Call
<1>6. d.from = Current.from /\ d.to = Middle(Current) - 1 /\ d.next = "execute"
  BY <1>3 DEF NewCall
<1>7. Middle(c) = Middle(Current)
  BY <1>5 DEF Middle
<1>8. Current.from \in Rows
  BY <1>2 DEF Call
<1>9. d.from <= d.to
  BY <1>4, <1>6, <1>8 DEF Rows
<1>10. HalfOf(c, d)
  BY <1>5, <1>6, <1>7 DEF HalfOf
<1>11. d.from = Progress(Current)
  BY <1>1, <1>6 DEF Progress
<1>12. c.from < c.to
  BY <1>1, <1>5
<1> HIDE DEF c, d
<1> QED
  BY <1>1, <1>2, <1>3, <1>5, <1>6, <1>9, <1>10, <1>11, <1>12, PushKeeps

\* The second half follows the first one.
LEMMA SecondHalfKeeps ==
  ASSUME SizeAssumption, BulkInv, SecondHalf
  PROVE  BulkInv'
<1> DEFINE c == [Current EXCEPT !.next = "after"]
           d == Halves(Current)[2]
<1>1. /\ result = "running" /\ Current.next = "second"
      /\ calls' = Resume(c) \o <<d>>
      /\ inputs' = inputs /\ table' = table /\ result' = result
  BY DEF SecondHalf, Running
<1>2. calls # <<>> /\ Current \in Call /\ Current.from < Current.to
  BY <1>1, CurrentFacts
<1>3. d = NewCall(Middle(Current), Current.to) /\ d \in Call
  BY <1>2, HalvesAre
<1>4. Middle(Current) \in Rows /\ Middle(Current) <= Current.to
  BY <1>2, MiddleBetween
<1>5. c \in Call /\ c.from = Current.from /\ c.to = Current.to /\ c.next = "after"
  BY <1>2 DEF Call
<1>6. d.from = Middle(Current) /\ d.to = Current.to /\ d.next = "execute"
  BY <1>3 DEF NewCall
<1>7. Middle(c) = Middle(Current)
  BY <1>5 DEF Middle
<1>8. d.from <= d.to
  BY <1>4, <1>6
<1>9. HalfOf(c, d)
  BY <1>5, <1>6, <1>7 DEF HalfOf
<1>10. d.from = Progress(Current)
  BY <1>1, <1>6 DEF Progress
<1>11. c.from < c.to
  BY <1>2, <1>5
<1> HIDE DEF c, d
<1> QED
  BY <1>1, <1>2, <1>3, <1>5, <1>6, <1>8, <1>9, <1>10, <1>11, PushKeeps

\* After its halves the facade function has stored all its rows; the other
\* two execute their statement again.
LEMMA AfterHalvesKeeps ==
  ASSUME SizeAssumption, BulkInv, AfterHalves
  PROVE  BulkInv'
<1>1. /\ result = "running" /\ Current.next = "after"
      /\ inputs' = inputs /\ table' = table
  BY DEF AfterHalves, Running
<1>2. /\ calls # <<>> /\ Current \in Call
      /\ Len(calls) = 1 => Current.from = 1 /\ Current.to = N
  BY <1>1, CurrentFacts
<1>3. CASE function = "facade"
  <2>1. Progress(Current) = Current.to + 1 /\ Current.to \in Int /\ N \in Int
    BY <1>1, <1>2 DEF Progress, Call, Rows, SizeAssumption
  <2>2. /\ \A r \in Rows : r < Progress(Current) => table[r] = 1
        /\ \A r \in Rows : r >= Progress(Current) => table[r] = 0
    BY <1>2, <1>3 DEF BulkInv, StoredBefore, NoneFrom, Stored
  <2> HIDE DEF Progress
  <2>3. \A r \in Rows : r <= Current.to => table'[r] = 1
    BY <1>1, <2>1, <2>2 DEF Rows
  <2>4. \A r \in Rows : r > Current.to => table'[r] = 0
    BY <1>1, <2>1, <2>2 DEF Rows
  <2>5. Settled(table', Current)
    BY <1>1, <2>3, <2>4 DEF Settled, BulkInv, BulkTypeOK, StoredPrefix, Stored
  <2>6. Len(calls) = 1 => \A r \in Rows : table'[r] = 1
    BY <1>2, <2>3 DEF Rows
  <2>7. Return("done")
    BY <1>3 DEF AfterHalves
  <2> QED
    BY <1>1, <1>2, <2>5, <2>6, <2>7, ReturnKeeps
<1>4. CASE function # "facade"
  <2> DEFINE c == [Current EXCEPT !.next = "execute"]
  <2>1. calls' = Resume(c) /\ result' = result
    BY <1>4 DEF AfterHalves
  <2>2. c \in Call /\ c.from = Current.from /\ c.to = Current.to /\ c.next = "execute"
    BY <1>2 DEF Call
  <2> HIDE DEF c
  <2> QED
    BY <1>1, <1>2, <1>4, <2>1, <2>2, ResumeKeeps
<1> QED
  BY <1>3, <1>4

LEMMA RefuseRowKeeps ==
  ASSUME SizeAssumption, BulkInv, RefuseRow
  PROVE  BulkInv'
<1>1. Running("execute") /\ inputs' = inputs
  BY DEF RefuseRow
<1>2. CASE table' = Written(RowsOf(Current)) /\ Return("done")
  BY <1>1, <1>2, StoredReturns
<1>3. CASE Raise /\ table' = table
  BY <1>1, <1>3, RaiseKeeps
<1> QED
  BY <1>2, <1>3 DEF RefuseRow

\* Once it has given up, insert_data answers None: nothing is promised.
LEMMA DeadlockKeeps ==
  ASSUME SizeAssumption, BulkInv, Deadlock
  PROVE  BulkInv'
<1>1. /\ result = "running" /\ Current.next = "execute" /\ function # "facade"
      /\ inputs' = inputs /\ table' = table
  BY DEF Deadlock, Running
<1>2. calls # <<>> /\ Current \in Call
  BY <1>1, CurrentFacts
<1>3. CASE Current.tries + 1 < MaxTries
  <2> DEFINE c == [Current EXCEPT !.tries = Current.tries + 1]
  <2>1. calls' = Resume(c) /\ result' = result
    BY <1>3 DEF Deadlock
  <2>2. Current.tries + 1 \in 0 .. MaxTries
    BY <1>2, <1>3 DEF Call, SizeAssumption
  <2>3. c \in Call /\ c.from = Current.from /\ c.to = Current.to /\ c.next = "execute"
    BY <1>1, <1>2, <2>2 DEF Call
  <2> HIDE DEF c
  <2> QED
    BY <1>1, <1>2, <2>1, <2>3, ResumeKeeps
<1>4. CASE ~(Current.tries + 1 < MaxTries) /\ function = "lib"
  BY <1>1, <1>4, RaiseKeeps DEF Deadlock
<1>5. CASE ~(Current.tries + 1 < MaxTries) /\ function # "lib"
  <2>1. function = "session" /\ Return("gaveUp")
    BY <1>1, <1>5 DEF Deadlock, BulkInv, BulkTypeOK, Functions
  <2>2. Settled(table', Current)
    BY <1>1, <2>1 DEF Settled, BulkInv, BulkTypeOK
  <2> QED
    BY <1>1, <1>2, <2>1, <2>2, ReturnKeeps
<1> QED
  BY <1>3, <1>4, <1>5

\* What every step keeps.
LEMMA BulkInvStep == SizeAssumption /\ BulkInv /\ [BulkNext]_vars => BulkInv'
<1> SUFFICES ASSUME SizeAssumption, BulkInv, [BulkNext]_vars
             PROVE  BulkInv'
  OBVIOUS
<1>1. CASE Succeed
  BY <1>1, StoredReturns DEF Succeed
<1>2. CASE Split
  BY <1>2, SplitKeeps
<1>3. CASE RefuseRow
  BY <1>3, RefuseRowKeeps
<1>4. CASE Deadlock
  BY <1>4, DeadlockKeeps
<1>5. CASE OtherError
  BY <1>5, RaiseKeeps DEF OtherError
<1>6. CASE SecondHalf
  BY <1>6, SecondHalfKeeps
<1>7. CASE AfterHalves
  BY <1>7, AfterHalvesKeeps
<1>8. CASE UNCHANGED vars
  BY <1>8 DEF vars, inputs, BulkInv, BulkTypeOK, Nested, Ended, StoredBefore, NoneFrom,
       StoredPrefix, Stored, DoneMeansAllStored, Current, Progress, Middle, HalfOf
<1> QED
  BY <1>1, <1>2, <1>3, <1>4, <1>5, <1>6, <1>7, <1>8 DEF BulkNext, Statement

LEMMA BulkInvAlways == BulkSpec => []BulkInv
<1>1. BulkInit => BulkInv
  BY BulkInitInv, SizeAssumption
<1>2. BulkInv /\ [BulkNext]_vars => BulkInv'
  BY BulkInvStep, SizeAssumption
<1> QED
  BY <1>1, <1>2, PTL DEF BulkSpec

-----------------------------------------------------------------------------
\* The state of a batch keeps its type; in particular no row of it is in the
\* table of commits twice, which has no constraint that would refuse it.
THEOREM BulkTypeCorrect == BulkSpec => []BulkTypeOK
<1>1. BulkInv => BulkTypeOK
  BY DEF BulkInv
<1> QED
  BY <1>1, BulkInvAlways, PTL

\* Whichever halves a deadlock made insert_data give up, a function that
\* returns without an error has stored every row.
THEOREM DoneIsComplete == BulkSpec => []DoneMeansAllStored
<1>1. BulkInv => DoneMeansAllStored
  BY DEF BulkInv
<1> QED
  BY <1>1, BulkInvAlways, PTL

\* When bulk_insert_dicts or facade_bulk_insert_commits raises an exception,
\* wherever in the halves of halves that was, the stored rows are the first
\* ones of the list.
THEOREM RaisedLeavesPrefix == BulkSpec => []RaisedKeepsPrefix
<1>1. BulkInv => RaisedKeepsPrefix
  BY DEF BulkInv, StoredPrefix, Stored, RaisedKeepsPrefix
<1> QED
  BY <1>1, BulkInvAlways, PTL

=============================================================================

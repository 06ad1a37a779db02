------------------------- MODULE FacadeAnalysis_proofs -------------------------
(***************************************************************************)
(* Proofs about FacadeAnalysis, for any commits, records, batch size and   *)
(* faults, and any number of chains that overlap.  A commit that two       *)
(* chains have in hand at the same time is contested; what is proved of    *)
(* the others rests on DisputeInv: nobody but the chain that has such a    *)
(* commit in hand touches its rows and its entry in the journal.           *)
(***************************************************************************)
EXTENDS FacadeAnalysis, FiniteSetTheorems, TLAPS

LEMMA CommitOfType == \A r \in Records : CommitOf[r] \in Commits
BY RecordsAssumption

-----------------------------------------------------------------------------
(* Types. *)

LEMMA PhaseNames ==
  \A x \in {"idle", "begun", "trim", "untrack", "list", "missing", "analyse",
            "insert", "clear", "post", "range"} : x \in Phase
BY DEF Phase

LEMMA NoChainType == NoChain \in ChainState /\ NoChain.batch = {}
BY DEF NoChain, ChainState, Phase

\* A state of a chain that has just begun one of its tasks.
LEMMA FreshType ==
  ASSUME NEW p \in Phase, NEW L \in SUBSET Commits, NEW Q \in SUBSET Commits,
         NEW D \in SUBSET Commits, NEW b \in BOOLEAN
  PROVE  /\ [NoChain EXCEPT !.phase = p] \in ChainState
         /\ [NoChain EXCEPT !.phase = p, !.listed = L] \in ChainState
         /\ [NoChain EXCEPT !.phase = p, !.listed = L, !.queue = Q, !.todo = Q]
              \in ChainState
         /\ [NoChain EXCEPT !.phase = p, !.listed = L, !.doomed = D, !.post = b]
              \in ChainState
BY NoChainType DEF NoChain, ChainState

LEMMA ChangedType ==
  ASSUME NEW v \in ChainState, NEW p \in Phase, NEW T \in SUBSET Commits,
         NEW B \in SUBSET Records
  PROVE  /\ [v EXCEPT !.phase = p] \in ChainState
         /\ [v EXCEPT !.phase = p, !.todo = T, !.batch = B] \in ChainState
         /\ [v EXCEPT !.todo = T] \in ChainState
         /\ [v EXCEPT !.phase = p, !.batch = B] \in ChainState
BY DEF ChainState

\* A batch there is room in.
Roomy(v) ==
  /\ IsFiniteSet(v.batch)
  /\ v.phase = "analyse" => Cardinality(v.batch) < BatchSize

LEMMA EmptyRoomy == ASSUME NEW v, v.batch = {} PROVE Roomy(v)
<1>1. Cardinality({}) = 0 /\ IsFiniteSet({})
  BY FS_EmptySet
<1>2. 0 < BatchSize
  BY RecordsAssumption
<1> QED BY <1>1, <1>2 DEF Roomy

LEMMA TypeInit == AnalysisInit => AnalysisTypeOK
<1> SUFFICES ASSUME AnalysisInit PROVE AnalysisTypeOK
  OBVIOUS
<1>1. \A k \in Chains : chain[k] = NoChain
  BY DEF AnalysisInit
<1>2. \A k \in Chains : Roomy(chain[k])
  BY <1>1, NoChainType, EmptyRoomy
<1>3. 0 \in 0..MaxOverlaps
  BY RecordsAssumption
<1> QED
  BY <1>2, <1>3, NoChainType DEF AnalysisInit, AnalysisTypeOK, Roomy

LEMMA ExistingType == Existing \subseteq Commits
BY CommitOfType DEF Existing

\* What every step does besides its action.
Recorded(k) ==
  /\ contested' = contested \cup (Handled(k)' \cap HandledBeside(k))
  /\ overlaps' = IF chain[k].phase = "idle" /\ ~Alone(k)
                 THEN overlaps + 1 ELSE overlaps
  /\ overlaps' <= MaxOverlaps

\* A step that gives chain k a state of the type keeps the types.
LEMMA TypeKept ==
  ASSUME AnalysisTypeOK, NEW k \in Chains, Recorded(k),
         NEW v \in ChainState, Roomy(v), chain' = [chain EXCEPT ![k] = v],
         head' \subseteq Commits, rows' \in [Records -> Nat],
         journal' \subseteq Commits, unjournaled' \subseteq Commits
  PROVE  AnalysisTypeOK'
<1>1. chain' \in [Chains -> ChainState]
  BY DEF AnalysisTypeOK
<1>2. \A j \in Chains : Roomy(chain'[j])
  BY DEF AnalysisTypeOK, Roomy
<1>3. HandledBeside(k) \subseteq Commits
  BY DEF HandledBeside, Handled, AnalysisTypeOK, ChainState
<1>4. contested' \subseteq Commits
  BY <1>3 DEF Recorded, AnalysisTypeOK
<1>5. overlaps' \in 0..MaxOverlaps
  BY RecordsAssumption DEF Recorded, AnalysisTypeOK
<1> QED BY <1>1, <1>2, <1>4, <1>5 DEF AnalysisTypeOK, Roomy

LEMMA TrimType ==
  ASSUME AnalysisTypeOK, NEW k \in Chains, NEW S \in SUBSET Commits,
         NEW b \in BOOLEAN, NEW p \in Phase
  PROVE  \E v \in ChainState :
           v.batch = {} /\ Trim(k, S, b, p) = [chain EXCEPT ![k] = v]
<1> DEFINE q == IF S = {} THEN p ELSE "trim"
           v == [NoChain EXCEPT !.phase = q, !.listed = chain[k].listed,
                                !.doomed = S, !.post = b]
<1>1. q \in Phase /\ chain[k].listed \in SUBSET Commits
  BY PhaseNames DEF AnalysisTypeOK, ChainState
<1> HIDE DEF q
<1>2. v \in ChainState
  BY <1>1, FreshType
<1>3. v.batch = {}
  BY DEF NoChain
<1>4. Trim(k, S, b, p) = [chain EXCEPT ![k] = v]
  BY DEF Trim, q
<1> QED BY <1>2, <1>3, <1>4

LEMMA AnalyseType ==
  ASSUME AnalysisTypeOK, NEW k \in Chains, NEW M \in SUBSET Commits
  PROVE  \E v \in ChainState :
           v.batch = {} /\ Analyse(k, M) = [chain EXCEPT ![k] = v]
<1> DEFINE q == IF M = {} THEN "post" ELSE "analyse"
           v == [NoChain EXCEPT !.phase = q, !.listed = chain[k].listed,
                                !.queue = M, !.todo = M]
<1>1. q \in Phase /\ chain[k].listed \in SUBSET Commits
  BY PhaseNames DEF AnalysisTypeOK, ChainState
<1> HIDE DEF q
<1>2. v \in ChainState
  BY <1>1, FreshType
<1>3. v.batch = {}
  BY DEF NoChain
<1>4. Analyse(k, M) = [chain EXCEPT ![k] = v]
  BY DEF Analyse, q
<1> QED BY <1>2, <1>3, <1>4

LEMMA TypeStep ==
  ASSUME AnalysisTypeOK, [AnalysisNext]_vars
  PROVE  AnalysisTypeOK'
<1>1. ASSUME NEW k \in Chains, Step(k) PROVE AnalysisTypeOK'
  <2>r. Recorded(k)
    BY <1>1 DEF Step, Recorded
  <2>0. /\ chain \in [Chains -> ChainState] /\ chain[k] \in ChainState
        /\ head \subseteq Commits /\ rows \in [Records -> Nat]
        /\ journal \subseteq Commits /\ unjournaled \subseteq Commits
        /\ Roomy(chain[k])
    BY DEF AnalysisTypeOK, Roomy
  <2>f. /\ chain[k].todo \in SUBSET Commits /\ chain[k].listed \in SUBSET Commits
        /\ chain[k].batch \in SUBSET Records
    BY <2>0 DEF ChainState
  <2>1. CASE Begin(k)
    <3>1. [NoChain EXCEPT !.phase = "begun"] \in ChainState
      BY FreshType, PhaseNames
    <3>2. Roomy([NoChain EXCEPT !.phase = "begun"])
      BY EmptyRoomy DEF NoChain
    <3>3. head' \subseteq Commits
      BY <2>1, RecordsAssumption DEF Begin
    <3> QED BY <2>r, <2>0, <2>1, <3>1, <3>2, <3>3, TypeKept DEF Begin, tables
  <2>2. CASE ReadJournal(k) \/ JournalUnread(k) \/ ListTrimmed(k)
    <3>1. /\ journal \in SUBSET Commits /\ {} \in SUBSET Commits
          /\ Existing \ chain[k].listed \in SUBSET Commits
          /\ FALSE \in BOOLEAN /\ TRUE \in BOOLEAN
          /\ "list" \in Phase /\ "idle" \in Phase
      BY <2>0, ExistingType, PhaseNames
    <3>2. PICK v \in ChainState : v.batch = {} /\ chain' = [chain EXCEPT ![k] = v]
      <4>1. PICK S \in SUBSET Commits, b \in BOOLEAN, q \in Phase :
              chain' = Trim(k, S, b, q)
        <5>1. CASE ReadJournal(k)
          BY <3>1, <5>1 DEF ReadJournal
        <5>2. CASE JournalUnread(k)
          BY <3>1, <5>2 DEF JournalUnread
        <5>3. CASE ListTrimmed(k)
          BY <3>1, <5>3 DEF ListTrimmed
        <5> QED BY <2>2, <5>1, <5>2, <5>3
      <4> QED BY <4>1, TrimType
    <3>3. UNCHANGED <<head, tables, unjournaled>>
      BY <2>2 DEF ReadJournal, JournalUnread, ListTrimmed
    <3> QED BY <2>r, <2>0, <3>2, <3>3, EmptyRoomy, TypeKept DEF tables
  <2>3. CASE RemoveRows(k)
    <3>1. [chain[k] EXCEPT !.phase = "untrack"] \in ChainState
      BY <2>0, PhaseNames, ChangedType
    <3>2. Roomy([chain[k] EXCEPT !.phase = "untrack"])
      BY <2>0 DEF Roomy, ChainState
    <3>3. rows' \in [Records -> Nat]
      BY <2>0, <2>3 DEF RemoveRows
    <3> QED BY <2>r, <2>0, <2>3, <3>1, <3>2, <3>3, TypeKept DEF RemoveRows
  <2>4. CASE Untrack(k)
    <3> DEFINE p == IF chain[k].post THEN "idle" ELSE "list"
    <3>0. p \in Phase
      BY PhaseNames
    <3>c. chain' = [chain EXCEPT ![k] = [NoChain EXCEPT !.phase = p]]
      BY <2>4 DEF Untrack
    <3> HIDE DEF p
    <3>1. [NoChain EXCEPT !.phase = p] \in ChainState
      BY <3>0, FreshType
    <3>2. Roomy([NoChain EXCEPT !.phase = p])
      BY EmptyRoomy DEF NoChain
    <3>3. UNCHANGED <<head, rows, unjournaled>> /\ journal' \subseteq Commits
      BY <2>0, <2>4 DEF Untrack
    <3> QED BY <2>r, <2>0, <3>c, <3>1, <3>2, <3>3, TypeKept
  <2>5. CASE ListCommits(k)
    <3> DEFINE p == IF chain[k].phase = "list" THEN "missing" ELSE "range"
    <3>0. p \in Phase
      BY PhaseNames
    <3>c. chain' = [chain EXCEPT ![k] = [NoChain EXCEPT !.phase = p, !.listed = head]]
      BY <2>5 DEF ListCommits
    <3> HIDE DEF p
    <3>1. [NoChain EXCEPT !.phase = p, !.listed = head] \in ChainState
      BY <2>0, <3>0, FreshType
    <3>2. Roomy([NoChain EXCEPT !.phase = p, !.listed = head])
      BY EmptyRoomy DEF NoChain
    <3>3. UNCHANGED <<head, tables, unjournaled>>
      BY <2>5 DEF ListCommits
    <3> QED BY <2>r, <2>0, <3>c, <3>1, <3>2, <3>3, TypeKept DEF tables
  <2>6. CASE ListingFails(k)
    <3> DEFINE p == IF chain[k].phase = "list" THEN "missing" ELSE "range"
    <3>0. p \in Phase
      BY PhaseNames
    <3>c. chain' = [chain EXCEPT ![k] = [NoChain EXCEPT !.phase = p]]
      BY <2>6 DEF ListingFails
    <3> HIDE DEF p
    <3>1. [NoChain EXCEPT !.phase = p] \in ChainState
      BY <3>0, FreshType
    <3>2. Roomy([NoChain EXCEPT !.phase = p])
      BY EmptyRoomy DEF NoChain
    <3>3. UNCHANGED <<head, tables, unjournaled>>
      BY <2>6 DEF ListingFails
    <3> QED BY <2>r, <2>0, <3>c, <3>1, <3>2, <3>3, TypeKept DEF tables
  <2>7. CASE ListMissing(k)
    <3>1. chain[k].listed \ Existing \in SUBSET Commits
      BY <2>f
    <3>2. PICK v \in ChainState : v.batch = {} /\ chain' = [chain EXCEPT ![k] = v]
      BY <2>7, <3>1, AnalyseType DEF ListMissing
    <3>3. UNCHANGED <<head, tables, unjournaled>>
      BY <2>7 DEF ListMissing
    <3> QED BY <2>r, <2>0, <3>2, <3>3, EmptyRoomy, TypeKept DEF tables
  <2>8. ASSUME NEW c \in Commits, Collect(k, c) PROVE AnalysisTypeOK'
    <3> DEFINE batch == chain[k].batch \cup RecordsOf(c)
               p == IF Cardinality(batch) >= BatchSize THEN "insert" ELSE "analyse"
               T == chain[k].todo \ {c}
               v == [chain[k] EXCEPT !.phase = p, !.todo = T, !.batch = batch]
    <3>1. batch \in SUBSET Records /\ T \in SUBSET Commits /\ p \in Phase
      BY <2>f, PhaseNames DEF RecordsOf
    <3>2. IsFiniteSet(batch)
      BY <2>0, RecordsAssumption, FS_Union DEF Roomy
    <3>3. p = "analyse" => Cardinality(batch) < BatchSize
      BY <3>2, FS_CardinalityType, RecordsAssumption
    <3>4. chain' = [chain EXCEPT ![k] = v]
      BY <2>8 DEF Collect
    <3>5. UNCHANGED <<head, rows>> /\ journal' \subseteq Commits
          /\ unjournaled' \subseteq Commits
      BY <2>0, <2>8 DEF Collect
    <3> HIDE DEF batch, p, T
    <3>6. v \in ChainState
      BY <2>0, <3>1, ChangedType
    <3>7. v.phase = p /\ v.batch = batch
      BY <2>0 DEF ChainState
    <3> HIDE DEF v
    <3>8. Roomy(v)
      BY <3>2, <3>3, <3>7 DEF Roomy
    <3> QED BY <2>r, <2>0, <3>4, <3>5, <3>6, <3>8, TypeKept
  <2>9. ASSUME NEW c \in Commits, Skip(k, c) PROVE AnalysisTypeOK'
    <3> DEFINE v == [chain[k] EXCEPT !.todo = chain[k].todo \ {c}]
    <3>1. v \in ChainState /\ Roomy(v)
      BY <2>0, <2>f DEF ChainState, Roomy
    <3>2. chain' = [chain EXCEPT ![k] = v] /\ UNCHANGED <<head, tables, unjournaled>>
      BY <2>9 DEF Skip
    <3> HIDE DEF v
    <3> QED BY <2>r, <2>0, <3>1, <3>2, TypeKept DEF tables
  <2>10. CASE Conclude(k)
    <3> DEFINE v == [chain[k] EXCEPT
                       !.phase = IF chain[k].batch = {} THEN "clear" ELSE "insert"]
    <3>1. v \in ChainState
      BY <2>0, PhaseNames DEF ChainState
    <3>2. Roomy(v)
      BY <2>0 DEF ChainState, Roomy
    <3>3. chain' = [chain EXCEPT ![k] = v] /\ UNCHANGED <<head, tables, unjournaled>>
      BY <2>10 DEF Conclude
    <3> HIDE DEF v
    <3> QED BY <2>r, <2>0, <3>1, <3>2, <3>3, TypeKept DEF tables
  <2>11. ASSUME NEW piece \in SUBSET chain[k].batch, Insert(k, piece)
         PROVE  AnalysisTypeOK'
    <3> DEFINE B == chain[k].batch \ piece
               p == IF piece = chain[k].batch THEN "analyse" ELSE "insert"
               v == [chain[k] EXCEPT !.phase = p, !.batch = B]
    <3>1. B \in SUBSET Records /\ p \in Phase
      BY <2>f, PhaseNames
    <3>2. IsFiniteSet(B)
      BY <2>0, FS_Subset DEF Roomy
    <3>3. p = "analyse" => Cardinality(B) < BatchSize
      <4>1. p = "analyse" => B = {}
        OBVIOUS
      <4>2. Cardinality({}) < BatchSize
        BY FS_EmptySet, RecordsAssumption
      <4> HIDE DEF B, p
      <4> QED BY <4>1, <4>2
    <3>4. chain' = [chain EXCEPT ![k] = v]
      BY <2>11 DEF Insert
    <3>5. UNCHANGED <<head, journal, unjournaled>> /\ rows' \in [Records -> Nat]
      BY <2>0, <2>11 DEF Insert
    <3> HIDE DEF B, p
    <3>6. v \in ChainState /\ v.phase = p /\ v.batch = B
      BY <2>0, <3>1 DEF ChainState
    <3> HIDE DEF v
    <3>7. Roomy(v)
      BY <3>2, <3>3, <3>6 DEF Roomy
    <3> QED BY <2>r, <2>0, <3>4, <3>5, <3>6, <3>7, TypeKept
  <2>12. CASE ClearJournal(k)
    <3>1. [NoChain EXCEPT !.phase = "post"] \in ChainState
      BY FreshType, PhaseNames
    <3>2. Roomy([NoChain EXCEPT !.phase = "post"])
      BY EmptyRoomy DEF NoChain
    <3>3. UNCHANGED <<head, rows>> /\ journal' \subseteq Commits
          /\ unjournaled' \subseteq Commits
      BY <2>0, <2>12 DEF ClearJournal
    <3> QED BY <2>r, <2>0, <2>12, <3>1, <3>2, <3>3, TypeKept DEF ClearJournal
  <2>13. CASE Interrupt(k)
    BY <2>r, <2>0, <2>13, NoChainType, EmptyRoomy, TypeKept DEF Interrupt, tables
  <2> QED
    BY <1>1, <2>1, <2>2, <2>3, <2>4, <2>5, <2>6, <2>7, <2>8, <2>9, <2>10, <2>11,
       <2>12, <2>13 DEF Step, Work, Fault
<1>2. CASE UNCHANGED vars
  BY <1>2 DEF vars, AnalysisTypeOK
<1> QED BY <1>1, <1>2 DEF AnalysisNext

-----------------------------------------------------------------------------
(* What chains that overlap leave to each other.                           *)

Analysing(k) == chain[k].phase \in {"analyse", "insert", "clear"}

\* A commit two chains have in hand is contested.
DisputeInv ==
  \A j, k \in Chains : j # k => Handled(j) \cap Handled(k) \subseteq contested

\* What a chain that is trimming is about to delete.
TrimInv(k) ==
  /\ chain[k].phase = "trim" =>
       IF chain[k].post
       THEN chain[k].doomed \cap chain[k].listed = {}
       ELSE chain[k].doomed \subseteq journal \cup contested
  /\ chain[k].phase = "untrack" =>
       \A r \in Records : CommitOf[r] \in chain[k].doomed \ contested => rows[r] = 0

\* What a chain has found missing is listed, and not stored until the chain
\* stores it.
QueueInv(k) ==
  Analysing(k) =>
    /\ chain[k].todo \subseteq chain[k].queue
    /\ chain[k].queue \subseteq chain[k].listed
    /\ \A r \in Records : CommitOf[r] \in chain[k].todo \ contested => rows[r] = 0
    /\ chain[k].phase = "clear" => chain[k].todo = {} /\ chain[k].batch = {}

\* The records collected and not inserted belong to commits of the queue that
\* are in the journal.
BatchInv(k) ==
  Analysing(k) =>
    \A r \in chain[k].batch :
      /\ CommitOf[r] \in chain[k].queue \ chain[k].todo
      /\ CommitOf[r] \notin contested =>
           rows[r] = 0 /\ CommitOf[r] \in journal \cup unjournaled

\* A commit begun is whole if the batch is added to the table.
WholeInv(k) ==
  Analysing(k) =>
    \A r, s \in Records :
      /\ CommitOf[r] = CommitOf[s]
      /\ CommitOf[r] \in chain[k].queue \ contested
      /\ rows[r] > 0 \/ r \in chain[k].batch
      => rows[s] > 0 \/ s \in chain[k].batch

ChainInv(k) == TrimInv(k) /\ QueueInv(k) /\ BatchInv(k) /\ WholeInv(k)

AnalysisInv ==
  /\ DisputeInv
  /\ \A k \in Chains : ChainInv(k)
  /\ NoRowTwice
  /\ PartialIsJournaled

\* PartialIsJournaled in terms of the rows.
LEMMA PartialMeans ==
  PartialIsJournaled <=>
    \A r, s \in Records :
      CommitOf[r] = CommitOf[s] /\ rows[r] > 0 /\ ~(rows[s] > 0)
        => CommitOf[r] \in journal \cup unjournaled \cup contested
BY CommitOfType DEF PartialIsJournaled, Partial, Complete, Existing, RecordsOf

LEMMA PartialMeansNext ==
  PartialIsJournaled' <=>
    \A r, s \in Records :
      CommitOf[r] = CommitOf[s] /\ rows'[r] > 0 /\ ~(rows'[s] > 0)
        => CommitOf[r] \in journal' \cup unjournaled' \cup contested'
BY CommitOfType DEF PartialIsJournaled, Partial, Complete, Existing, RecordsOf

LEMMA InvInit == AnalysisInit => AnalysisInv
<1> SUFFICES ASSUME AnalysisInit PROVE AnalysisInv
  OBVIOUS
<1>1. \A k \in Chains : /\ chain[k].phase = "idle"
                        /\ Handled(k) = {}
  BY DEF AnalysisInit, NoChain, Handled
<1>2. \A r \in Records : rows[r] = 0
  BY DEF AnalysisInit
<1>3. \A r \in Records : ~(rows[r] > 0)
  BY <1>2
<1>4. PartialIsJournaled
  BY <1>3, PartialMeans
<1>5. \A k \in Chains : ~Analysing(k)
  BY <1>1 DEF Analysing
<1>6. \A k \in Chains : ChainInv(k)
  BY <1>1, <1>5 DEF ChainInv, TrimInv, QueueInv, BatchInv, WholeInv
<1>7. NoRowTwice
  BY <1>2 DEF NoRowTwice
<1>8. DisputeInv
  BY <1>1 DEF DisputeInv
<1> QED BY <1>4, <1>6, <1>7, <1>8 DEF AnalysisInv

\* The tables say the same as before of a commit.
Untouched(c) ==
  /\ c \in journal' <=> c \in journal
  /\ c \in unjournaled' <=> c \in unjournaled
  /\ \A r \in Records : CommitOf[r] = c => rows'[r] = rows[r]

\* Only chain k moves, and changes the tables for nothing but the commits it
\* has in hand.
OnlyOwn(k) ==
  /\ \A j \in Chains \ {k} : chain'[j] = chain[j]
  /\ \A c \in Commits \ (Handled(k) \cup contested') : Untouched(c)

LEMMA ContestedGrows ==
  ASSUME NEW k \in Chains, Recorded(k) PROVE contested \subseteq contested'
BY DEF Recorded

LEMMA DisputeKept ==
  ASSUME AnalysisInv, NEW k \in Chains, Recorded(k), OnlyOwn(k)
  PROVE  DisputeInv'
<1>1. \A j \in Chains \ {k} : Handled(j)' = Handled(j)
  BY DEF OnlyOwn, Handled
<1>2. \A j \in Chains \ {k} : Handled(k)' \cap Handled(j) \subseteq contested'
  BY DEF Recorded, HandledBeside
<1>3. \A i, j \in Chains : i # j => Handled(i) \cap Handled(j) \subseteq contested
  BY DEF AnalysisInv, DisputeInv
<1>4. ASSUME NEW i \in Chains, NEW j \in Chains, i # j
      PROVE  Handled(i)' \cap Handled(j)' \subseteq contested'
  <2>1. CASE i = k
    BY <1>1, <1>2, <1>4, <2>1
  <2>2. CASE j = k
    BY <1>1, <1>2, <1>4, <2>2
  <2>3. CASE i # k /\ j # k
    BY <1>1, <1>3, <1>4, <2>3, ContestedGrows
  <2> QED BY <2>1, <2>2, <2>3
<1> QED BY <1>4 DEF DisputeInv

\* The other chains find the commits they have in hand as they left them.
LEMMA OthersKept ==
  ASSUME AnalysisTypeOK, AnalysisInv, NEW k \in Chains, Recorded(k), OnlyOwn(k),
         NEW j \in Chains \ {k}
  PROVE  ChainInv(j)'
<1>1. chain'[j] = chain[j] /\ ChainInv(j)
  BY DEF OnlyOwn, AnalysisInv
<1>2. contested \subseteq contested'
  BY ContestedGrows
<1>3. \A c \in Handled(j) \ contested' : Untouched(c)
  <2>1. Handled(j) \subseteq Commits
    BY DEF Handled, AnalysisTypeOK, ChainState
  <2>2. Handled(j) \cap Handled(k) \subseteq contested'
    BY <1>2 DEF AnalysisInv, DisputeInv
  <2> QED BY <2>1, <2>2 DEF OnlyOwn
<1>4. chain[j].queue \subseteq Handled(j) /\ chain[j].doomed \subseteq Handled(j)
  BY DEF Handled
<1>5. TrimInv(j)'
  <2>1. CASE chain[j].phase = "trim"
    BY <1>1, <1>2, <1>3, <1>4, <2>1 DEF TrimInv, ChainInv, Untouched
  <2>2. CASE chain[j].phase = "untrack"
    BY <1>1, <1>2, <1>3, <1>4, <2>2 DEF TrimInv, ChainInv, Untouched
  <2> QED BY <1>1, <2>1, <2>2 DEF TrimInv
<1>6. CASE ~Analysing(j)
  BY <1>1, <1>5, <1>6 DEF ChainInv, QueueInv, BatchInv, WholeInv, Analysing
<1>7. CASE Analysing(j)
  <2>1. chain[j].todo \subseteq chain[j].queue
    BY <1>1, <1>7 DEF ChainInv, QueueInv
  <2>2. \A r \in Records : CommitOf[r] \in chain[j].queue \ contested' =>
          /\ rows'[r] = rows[r]
          /\ CommitOf[r] \in journal \cup unjournaled
               => CommitOf[r] \in journal' \cup unjournaled'
    BY <1>3, <1>4 DEF Untouched
  <2>3. QueueInv(j)'
    BY <1>1, <1>2, <1>7, <2>1, <2>2 DEF ChainInv, QueueInv, Analysing
  <2>4. BatchInv(j)'
    <3>1. chain[j].batch \subseteq Records
      BY DEF AnalysisTypeOK, ChainState
    <3>2. ASSUME NEW r \in chain[j].batch
          PROVE  /\ CommitOf[r] \in chain[j].queue \ chain[j].todo
                 /\ CommitOf[r] \notin contested' =>
                      rows'[r] = 0 /\ CommitOf[r] \in journal' \cup unjournaled'
      <4>1. /\ CommitOf[r] \in chain[j].queue \ chain[j].todo
            /\ CommitOf[r] \notin contested =>
                 rows[r] = 0 /\ CommitOf[r] \in journal \cup unjournaled
        BY <1>1, <1>7 DEF ChainInv, BatchInv
      <4> QED BY <1>2, <2>2, <3>1, <4>1
    <3> QED BY <1>1, <3>2 DEF BatchInv
  <2>5. WholeInv(j)'
    <3>1. ASSUME NEW r \in Records, NEW s \in Records, CommitOf[r] = CommitOf[s],
                 CommitOf[r] \in chain[j].queue \ contested',
                 rows'[r] > 0 \/ r \in chain[j].batch
          PROVE  rows'[s] > 0 \/ s \in chain[j].batch
      <4>1. rows'[r] = rows[r] /\ rows'[s] = rows[s]
        BY <2>2, <3>1
      <4>2. CommitOf[r] \in chain[j].queue \ contested
        BY <1>2, <3>1
      <4>3. rows[r] > 0 \/ r \in chain[j].batch
        BY <3>1, <4>1
      <4>4. rows[s] > 0 \/ s \in chain[j].batch
        BY <1>1, <1>7, <3>1, <4>2, <4>3 DEF ChainInv, WholeInv
      <4> QED BY <4>1, <4>4
    <3> QED BY <1>1, <3>1 DEF WholeInv
  <2> QED BY <1>5, <2>3, <2>4, <2>5 DEF ChainInv
<1> QED BY <1>6, <1>7

\* Of the commits it has in hand, chain k stores no row twice and leaves no
\* part outside the journal.
OwnRows(k) ==
  \A r, s \in Records :
    CommitOf[r] = CommitOf[s] /\ CommitOf[r] \in Handled(k) \ contested' =>
      /\ rows'[r] <= 1
      /\ rows'[r] > 0 /\ ~(rows'[s] > 0) => CommitOf[r] \in journal' \cup unjournaled'

LEMMA InvKept ==
  ASSUME AnalysisTypeOK, AnalysisInv, NEW k \in Chains, Recorded(k), OnlyOwn(k),
         OwnRows(k), ChainInv(k)'
  PROVE  AnalysisInv'
<1>1. DisputeInv'
  BY DisputeKept
<1>2. \A j \in Chains : ChainInv(j)'
  BY OthersKept
<1>3. contested \subseteq contested'
  BY ContestedGrows
<1>4. \A r \in Records : CommitOf[r] \notin Handled(k) \cup contested' =>
        Untouched(CommitOf[r])
  BY CommitOfType DEF OnlyOwn
<1>5. NoRowTwice'
  <2>1. ASSUME NEW r \in Records, CommitOf[r] \notin contested'
        PROVE  rows'[r] <= 1
    <3>1. CASE CommitOf[r] \in Handled(k)
      BY <2>1, <3>1 DEF OwnRows
    <3>2. CASE CommitOf[r] \notin Handled(k)
      BY <1>3, <1>4, <2>1, <3>2 DEF AnalysisInv, NoRowTwice, Untouched
    <3> QED BY <3>1, <3>2
  <2> QED BY <2>1 DEF NoRowTwice
<1>6. PartialIsJournaled'
  <2>1. ASSUME NEW r \in Records, NEW s \in Records, CommitOf[r] = CommitOf[s],
               rows'[r] > 0, ~(rows'[s] > 0), CommitOf[r] \notin contested'
        PROVE  CommitOf[r] \in journal' \cup unjournaled'
    <3>1. CASE CommitOf[r] \in Handled(k)
      BY <2>1, <3>1 DEF OwnRows
    <3>2. CASE CommitOf[r] \notin Handled(k)
      <4>1. Untouched(CommitOf[r])
        BY <1>4, <2>1, <3>2
      <4>2. rows[r] > 0 /\ ~(rows[s] > 0)
        BY <2>1, <4>1 DEF Untouched
      <4>3. CommitOf[r] \in journal \cup unjournaled
        BY <1>3, <2>1, <4>2, PartialMeans DEF AnalysisInv
      <4> QED BY <4>1, <4>3 DEF Untouched
    <3> QED BY <3>1, <3>2
  <2> QED BY <2>1, PartialMeansNext
<1> QED BY <1>1, <1>2, <1>5, <1>6 DEF AnalysisInv

-----------------------------------------------------------------------------
(* The steps.                                                              *)

\* A step that changes no table keeps the invariant when what chain k knows
\* of its commits stays true.
LEMMA QuietKept ==
  ASSUME AnalysisTypeOK, AnalysisInv, NEW k \in Chains, Recorded(k),
         \A j \in Chains \ {k} : chain'[j] = chain[j],
         UNCHANGED <<tables, unjournaled>>, ChainInv(k)'
  PROVE  AnalysisInv'
<1>1. OnlyOwn(k)
  BY DEF OnlyOwn, Untouched, tables
<1>2. OwnRows(k)
  BY ContestedGrows, PartialMeans
  DEF OwnRows, AnalysisInv, NoRowTwice, tables
<1> QED BY <1>1, <1>2, InvKept

LEMMA OutsideInv ==
  ASSUME NEW k \in Chains, ~Analysing(k)', TrimInv(k)'
  PROVE  ChainInv(k)'
BY DEF ChainInv, QueueInv, BatchInv, WholeInv

\* Trim leaves the chain idle, listing or trimming exactly those commits.
LEMMA TrimIs ==
  ASSUME AnalysisTypeOK, NEW k \in Chains, NEW S, NEW b, NEW p,
         chain' = Trim(k, S, b, p), p \in {"list", "idle"}
  PROVE  /\ chain'[k].phase \in {"trim", p}
         /\ chain'[k].listed = chain[k].listed
         /\ chain'[k].doomed = S
         /\ chain'[k].post = b
         /\ \A j \in Chains \ {k} : chain'[j] = chain[j]
BY DEF Trim, NoChain, AnalysisTypeOK

\* Begin, Interrupt and the listings.
LEMMA InvBegin ==
  ASSUME AnalysisTypeOK, AnalysisInv, NEW k \in Chains, Recorded(k),
         Begin(k) \/ Interrupt(k) \/ ListCommits(k) \/ ListingFails(k)
  PROVE  AnalysisInv'
<1>1. /\ UNCHANGED <<tables, unjournaled>>
      /\ chain'[k].phase \in {"begun", "idle", "missing", "range"}
      /\ \A j \in Chains \ {k} : chain'[j] = chain[j]
  <2>1. CASE Begin(k)
    BY <2>1 DEF Begin, NoChain, AnalysisTypeOK
  <2>2. CASE Interrupt(k)
    BY <2>2 DEF Interrupt, NoChain, AnalysisTypeOK
  <2>3. CASE ListCommits(k)
    BY <2>3 DEF ListCommits, NoChain, AnalysisTypeOK
  <2>4. CASE ListingFails(k)
    BY <2>4 DEF ListingFails, NoChain, AnalysisTypeOK
  <2> QED BY <2>1, <2>2, <2>3, <2>4
<1>2. ~Analysing(k)' /\ TrimInv(k)'
  BY <1>1 DEF Analysing, TrimInv
<1> QED BY <1>1, <1>2, OutsideInv, QuietKept

\* The choice of what to trim, from the journal or the listing.
LEMMA InvChoose ==
  ASSUME AnalysisTypeOK, AnalysisInv, NEW k \in Chains, Recorded(k),
         ReadJournal(k) \/ JournalUnread(k) \/ ListTrimmed(k)
  PROVE  AnalysisInv'
<1>1. UNCHANGED <<tables, unjournaled>>
  BY DEF ReadJournal, JournalUnread, ListTrimmed
<1>2. /\ chain'[k].phase \in {"trim", "list", "idle"}
      /\ \A j \in Chains \ {k} : chain'[j] = chain[j]
      /\ IF chain'[k].post THEN chain'[k].doomed \cap chain'[k].listed = {}
                           ELSE chain'[k].doomed \subseteq journal
  <2>1. CASE ReadJournal(k)
    <3>1. chain' = Trim(k, journal, FALSE, "list")
      BY <2>1 DEF ReadJournal
    <3>2. /\ chain'[k].phase \in {"trim", "list"}
          /\ chain'[k].listed = chain[k].listed
          /\ chain'[k].doomed = journal
          /\ chain'[k].post = FALSE
          /\ \A j \in Chains \ {k} : chain'[j] = chain[j]
      BY <3>1, TrimIs
    <3> QED BY <3>2
  <2>2. CASE JournalUnread(k)
    <3>1. chain' = Trim(k, {}, FALSE, "list")
      BY <2>2 DEF JournalUnread
    <3>2. /\ chain'[k].phase \in {"trim", "list"}
          /\ chain'[k].listed = chain[k].listed
          /\ chain'[k].doomed = {}
          /\ chain'[k].post = FALSE
          /\ \A j \in Chains \ {k} : chain'[j] = chain[j]
      BY <3>1, TrimIs
    <3> QED BY <3>2
  <2>3. CASE ListTrimmed(k)
    <3>1. chain' = Trim(k, Existing \ chain[k].listed, TRUE, "idle")
      BY <2>3 DEF ListTrimmed
    <3>2. /\ chain'[k].phase \in {"trim", "idle"}
          /\ chain'[k].listed = chain[k].listed
          /\ chain'[k].doomed = Existing \ chain[k].listed
          /\ chain'[k].post = TRUE
          /\ \A j \in Chains \ {k} : chain'[j] = chain[j]
      BY <3>1, TrimIs
    <3> QED BY <3>2
  <2> QED BY <2>1, <2>2, <2>3
<1>3. ~Analysing(k)' /\ TrimInv(k)'
  BY <1>1, <1>2 DEF Analysing, TrimInv, tables
<1> QED BY <1>1, <1>2, <1>3, OutsideInv, QuietKept

\* Whole commits lose their rows.
LEMMA InvRemove ==
  ASSUME AnalysisTypeOK, AnalysisInv, NEW k \in Chains, Recorded(k), RemoveRows(k)
  PROVE  AnalysisInv'
<1>1. /\ chain'[k].phase = "untrack" /\ chain'[k].doomed = chain[k].doomed
      /\ \A j \in Chains \ {k} : chain'[j] = chain[j]
  BY DEF RemoveRows, AnalysisTypeOK, ChainState
<1>2. /\ journal' = journal /\ unjournaled' = unjournaled
      /\ \A r \in Records :
           rows'[r] = IF CommitOf[r] \in chain[k].doomed THEN 0 ELSE rows[r]
  BY DEF RemoveRows
<1>3. chain[k].doomed \subseteq Handled(k)
  BY DEF Handled
<1>4. OnlyOwn(k)
  BY <1>1, <1>2, <1>3 DEF OnlyOwn, Untouched
<1>5. OwnRows(k)
  <2>1. ASSUME NEW r \in Records, NEW s \in Records, CommitOf[r] = CommitOf[s],
               CommitOf[r] \notin contested'
        PROVE  /\ rows'[r] <= 1
               /\ rows'[r] > 0 /\ ~(rows'[s] > 0)
                    => CommitOf[r] \in journal' \cup unjournaled'
    <3>1. CASE CommitOf[r] \in chain[k].doomed
      BY <1>2, <2>1, <3>1
    <3>2. CASE CommitOf[r] \notin chain[k].doomed
      BY <1>2, <2>1, <3>2, ContestedGrows, PartialMeans
      DEF AnalysisInv, NoRowTwice
    <3> QED BY <3>1, <3>2
  <2> QED BY <2>1 DEF OwnRows
<1>6. ~Analysing(k)' /\ TrimInv(k)'
  BY <1>1, <1>2 DEF Analysing, TrimInv
<1> QED BY <1>4, <1>5, <1>6, OutsideInv, InvKept

\* They are out of the table when they leave the journal.
LEMMA InvUntrack ==
  ASSUME AnalysisTypeOK, AnalysisInv, NEW k \in Chains, Recorded(k), Untrack(k)
  PROVE  AnalysisInv'
<1>1. /\ chain'[k].phase \in {"idle", "list"}
      /\ \A j \in Chains \ {k} : chain'[j] = chain[j]
  BY DEF Untrack, AnalysisTypeOK, NoChain
<1>2. /\ rows' = rows /\ unjournaled' = unjournaled
      /\ journal' = journal \ chain[k].doomed
  BY DEF Untrack
<1>3. chain[k].doomed \subseteq Handled(k)
  BY DEF Handled
<1>4. \A r \in Records : CommitOf[r] \in chain[k].doomed \ contested => rows[r] = 0
  BY DEF Untrack, AnalysisInv, ChainInv, TrimInv
<1>5. OnlyOwn(k)
  BY <1>1, <1>2, <1>3 DEF OnlyOwn, Untouched
<1>6. OwnRows(k)
  <2>1. ASSUME NEW r \in Records, NEW s \in Records, CommitOf[r] = CommitOf[s],
               CommitOf[r] \notin contested'
        PROVE  /\ rows'[r] <= 1
               /\ rows'[r] > 0 /\ ~(rows'[s] > 0)
                    => CommitOf[r] \in journal' \cup unjournaled'
    <3>1. CASE CommitOf[r] \in chain[k].doomed
      BY <1>2, <1>4, <2>1, <3>1, ContestedGrows
    <3>2. CASE CommitOf[r] \notin chain[k].doomed
      BY <1>2, <2>1, <3>2, ContestedGrows, PartialMeans
      DEF AnalysisInv, NoRowTwice
    <3> QED BY <3>1, <3>2
  <2> QED BY <2>1 DEF OwnRows
<1>7. ~Analysing(k)' /\ TrimInv(k)'
  BY <1>1 DEF Analysing, TrimInv
<1> QED BY <1>5, <1>6, <1>7, OutsideInv, InvKept

\* No commit of the queue has a row when the analysis begins.
LEMMA InvList ==
  ASSUME AnalysisTypeOK, AnalysisInv, NEW k \in Chains, Recorded(k), ListMissing(k)
  PROVE  AnalysisInv'
<1> DEFINE missing == chain[k].listed \ Existing
<1>1. /\ chain'[k].phase \in {"post", "analyse"}
      /\ chain'[k].listed = chain[k].listed
      /\ chain'[k].queue = missing
      /\ chain'[k].todo = missing
      /\ chain'[k].batch = {}
      /\ \A j \in Chains \ {k} : chain'[j] = chain[j]
  BY DEF ListMissing, Analyse, NoChain, AnalysisTypeOK
<1>2. UNCHANGED <<tables, unjournaled>>
  BY DEF ListMissing
<1>3. \A r \in Records : CommitOf[r] \notin Existing => rows[r] = 0
  BY DEF Existing, AnalysisTypeOK
<1>4. QueueInv(k)' /\ BatchInv(k)'
  BY <1>1, <1>2, <1>3 DEF QueueInv, BatchInv, tables
<1>5. WholeInv(k)'
  BY <1>1, <1>2, <1>3 DEF WholeInv, tables
<1>6. TrimInv(k)'
  BY <1>1 DEF TrimInv
<1> QED BY <1>1, <1>2, <1>4, <1>5, <1>6, QuietKept DEF ChainInv

LEMMA InvCollect ==
  ASSUME AnalysisTypeOK, AnalysisInv, NEW k \in Chains, Recorded(k),
         NEW c \in Commits, Collect(k, c)
  PROVE  AnalysisInv'
<1>1. /\ chain'[k].phase \in {"analyse", "insert"}
      /\ chain'[k].listed = chain[k].listed
      /\ chain'[k].queue = chain[k].queue
      /\ chain'[k].todo = chain[k].todo \ {c}
      /\ chain'[k].batch = chain[k].batch \cup RecordsOf(c)
      /\ \A j \in Chains \ {k} : chain'[j] = chain[j]
  BY DEF Collect, AnalysisTypeOK, ChainState
<1>2. /\ rows' = rows
      /\ journal \subseteq journal'
      /\ \A x \in Commits \ {c} : x \in journal' <=> x \in journal
      /\ \A x \in Commits \ {c} : x \in unjournaled' <=> x \in unjournaled
      /\ c \in journal' \cup unjournaled'
  BY DEF Collect
<1>3. Analysing(k) /\ c \in chain[k].todo
  BY DEF Collect, Analysing
<1>4. QueueInv(k) /\ BatchInv(k) /\ WholeInv(k) /\ c \in chain[k].queue
  BY <1>3 DEF AnalysisInv, ChainInv, QueueInv
<1>5. contested \subseteq contested'
  BY ContestedGrows
<1>6. \A r \in Records : r \in RecordsOf(c) <=> CommitOf[r] = c
  BY DEF RecordsOf
<1>7. RecordsOf(c) \subseteq Records /\ chain[k].batch \subseteq Records
  BY DEF RecordsOf, AnalysisTypeOK, ChainState
<1>8. OnlyOwn(k)
  BY <1>1, <1>2, <1>4 DEF OnlyOwn, Untouched, Handled
<1>9. OwnRows(k)
  <2>1. ASSUME NEW r \in Records, NEW s \in Records, CommitOf[r] = CommitOf[s],
               CommitOf[r] \notin contested'
        PROVE  /\ rows'[r] <= 1
               /\ rows'[r] > 0 /\ ~(rows'[s] > 0)
                    => CommitOf[r] \in journal' \cup unjournaled'
    BY <1>2, <1>5, <2>1, PartialMeans, CommitOfType DEF AnalysisInv, NoRowTwice
  <2> QED BY <2>1 DEF OwnRows
<1>10. QueueInv(k)'
  BY <1>1, <1>2, <1>3, <1>4, <1>5 DEF QueueInv
<1>11. BatchInv(k)'
  <2>1. ASSUME NEW r \in chain'[k].batch
        PROVE  /\ CommitOf[r] \in chain[k].queue \ (chain[k].todo \ {c})
               /\ CommitOf[r] \notin contested' =>
                    rows[r] = 0 /\ CommitOf[r] \in journal' \cup unjournaled'
    <3>1. CASE r \in chain[k].batch
      BY <1>2, <1>3, <1>4, <1>5, <1>7, <3>1, CommitOfType DEF BatchInv
    <3>2. CASE r \in RecordsOf(c)
      BY <1>2, <1>3, <1>4, <1>5, <1>6, <1>7, <3>2 DEF QueueInv
    <3> QED BY <1>1, <2>1, <3>1, <3>2
  <2> QED BY <1>1, <1>2, <2>1 DEF BatchInv
<1>12. WholeInv(k)'
  <2>1. ASSUME NEW r \in Records, NEW s \in Records, CommitOf[r] = CommitOf[s],
               CommitOf[r] \in chain[k].queue \ contested',
               rows[r] > 0 \/ r \in chain[k].batch \cup RecordsOf(c)
        PROVE  rows[s] > 0 \/ s \in chain[k].batch \cup RecordsOf(c)
    <3>1. CASE CommitOf[r] = c
      BY <1>6, <2>1, <3>1
    <3>2. CASE CommitOf[r] # c
      BY <1>3, <1>4, <1>5, <1>6, <2>1, <3>2 DEF WholeInv
    <3> QED BY <3>1, <3>2
  <2> QED BY <1>1, <1>2, <2>1 DEF WholeInv
<1>13. TrimInv(k)'
  BY <1>1 DEF TrimInv
<1> QED BY <1>8, <1>9, <1>10, <1>11, <1>12, <1>13, InvKept DEF ChainInv

LEMMA InvSkip ==
  ASSUME AnalysisTypeOK, AnalysisInv, NEW k \in Chains, Recorded(k),
         (\E c \in Commits : Skip(k, c)) \/ Conclude(k)
  PROVE  AnalysisInv'
<1>1. /\ chain'[k].phase \in {"analyse", "insert", "clear"}
      /\ chain'[k].listed = chain[k].listed
      /\ chain'[k].queue = chain[k].queue
      /\ chain'[k].todo \subseteq chain[k].todo
      /\ chain'[k].batch = chain[k].batch
      /\ chain'[k].phase = "clear" => chain'[k].todo = {} /\ chain[k].batch = {}
      /\ \A j \in Chains \ {k} : chain'[j] = chain[j]
  <2>1. ASSUME NEW c \in Commits, Skip(k, c)
        PROVE  /\ chain'[k] = [chain[k] EXCEPT !.todo = chain[k].todo \ {c}]
               /\ chain[k] \in ChainState
               /\ chain[k].phase = "analyse"
               /\ \A j \in Chains \ {k} : chain'[j] = chain[j]
    BY <2>1 DEF Skip, AnalysisTypeOK
  <2>3. CASE \E c \in Commits : Skip(k, c)
    BY <2>1, <2>3 DEF ChainState
  <2>2. CASE Conclude(k)
    BY <2>2 DEF Conclude, AnalysisTypeOK, ChainState
  <2> QED BY <2>2, <2>3
<1>2. UNCHANGED <<tables, unjournaled>>
  BY DEF Skip, Conclude
<1>3. Analysing(k) /\ ChainInv(k)
  BY DEF Skip, Conclude, Analysing, AnalysisInv
<1>4. contested \subseteq contested'
  BY ContestedGrows
<1>5. QueueInv(k)'
  BY <1>1, <1>2, <1>3, <1>4 DEF ChainInv, QueueInv, tables
<1>6. BatchInv(k)'
  BY <1>1, <1>2, <1>3, <1>4 DEF ChainInv, BatchInv, tables
<1>7. WholeInv(k)'
  BY <1>1, <1>2, <1>3, <1>4 DEF ChainInv, WholeInv, tables
<1>8. TrimInv(k)'
  BY <1>1 DEF TrimInv
<1> QED BY <1>1, <1>2, <1>5, <1>6, <1>7, <1>8, QuietKept DEF ChainInv

LEMMA InvInsert ==
  ASSUME AnalysisTypeOK, AnalysisInv, NEW k \in Chains, Recorded(k),
         NEW piece \in SUBSET chain[k].batch, Insert(k, piece)
  PROVE  AnalysisInv'
<1>1. /\ chain'[k].phase \in {"analyse", "insert"}
      /\ chain'[k].listed = chain[k].listed
      /\ chain'[k].queue = chain[k].queue
      /\ chain'[k].todo = chain[k].todo
      /\ chain'[k].batch = chain[k].batch \ piece
      /\ \A j \in Chains \ {k} : chain'[j] = chain[j]
  BY DEF Insert, AnalysisTypeOK, ChainState
<1>2. /\ journal' = journal /\ unjournaled' = unjournaled
      /\ \A r \in Records : rows'[r] = IF r \in piece THEN rows[r] + 1 ELSE rows[r]
  BY DEF Insert
<1>3. Analysing(k) /\ ChainInv(k)
  BY DEF Insert, Analysing, AnalysisInv
<1>4. contested \subseteq contested'
  BY ContestedGrows
<1>5. \A r \in chain[k].batch :
        /\ CommitOf[r] \in chain[k].queue \ chain[k].todo
        /\ CommitOf[r] \notin contested =>
             rows[r] = 0 /\ CommitOf[r] \in journal \cup unjournaled
  BY <1>3 DEF ChainInv, BatchInv
<1>6. \A r \in Records : rows[r] \in Nat /\ rows'[r] \in Nat
  BY <1>2 DEF AnalysisTypeOK
<1>7. chain[k].batch \subseteq Records
  BY DEF AnalysisTypeOK, ChainState
<1>8. OnlyOwn(k)
  <2>1. \A r \in Records : CommitOf[r] \notin Handled(k) => r \notin piece
    BY <1>5 DEF Handled
  <2> QED BY <1>1, <1>2, <2>1 DEF OnlyOwn, Untouched
<1>9. OwnRows(k)
  <2>1. ASSUME NEW r \in Records, NEW s \in Records, CommitOf[r] = CommitOf[s],
               CommitOf[r] \notin contested'
        PROVE  /\ rows'[r] <= 1
               /\ rows'[r] > 0 /\ ~(rows'[s] > 0)
                    => CommitOf[r] \in journal' \cup unjournaled'
    <3>1. CASE r \in piece
      BY <1>2, <1>4, <1>5, <2>1, <3>1
    <3>2. CASE r \notin piece
      <4>1. ~(rows'[s] > 0) => ~(rows[s] > 0)
        BY <1>2, <1>6
      <4> QED
        BY <1>2, <1>4, <2>1, <3>2, <4>1, PartialMeans DEF AnalysisInv, NoRowTwice
    <3> QED BY <3>1, <3>2
  <2> QED BY <2>1 DEF OwnRows
<1>10. QueueInv(k)'
  <2>1. \A r \in Records : CommitOf[r] \in chain[k].todo => r \notin piece
    BY <1>5
  <2> QED BY <1>1, <1>2, <1>3, <1>4, <2>1 DEF ChainInv, QueueInv
<1>11. BatchInv(k)'
  BY <1>1, <1>2, <1>4, <1>5, <1>7 DEF BatchInv
<1>12. WholeInv(k)'
  <2>1. ASSUME NEW r \in Records, NEW s \in Records, CommitOf[r] = CommitOf[s],
               CommitOf[r] \in chain[k].queue \ contested',
               rows'[r] > 0 \/ r \in chain'[k].batch
        PROVE  rows'[s] > 0 \/ s \in chain'[k].batch
    <3>1. rows[r] > 0 \/ r \in chain[k].batch
      BY <1>1, <1>2, <2>1
    <3>2. CommitOf[r] \in chain[k].queue \ contested
      BY <1>4, <2>1
    <3>3. rows[s] > 0 \/ s \in chain[k].batch
      BY <1>3, <2>1, <3>1, <3>2 DEF ChainInv, WholeInv
    <3>4. s \in piece => rows'[s] > 0
      BY <1>2, <1>6
    <3>5. rows[s] > 0 => rows'[s] > 0
      BY <1>2, <1>6
    <3> QED BY <1>1, <3>3, <3>4, <3>5
  <2> QED BY <1>1, <2>1 DEF WholeInv
<1>13. TrimInv(k)'
  BY <1>1 DEF TrimInv
<1> QED BY <1>8, <1>9, <1>10, <1>11, <1>12, <1>13, InvKept DEF ChainInv

\* When the journal is cleared every commit of the queue is whole or absent.
LEMMA InvClear ==
  ASSUME AnalysisTypeOK, AnalysisInv, NEW k \in Chains, Recorded(k), ClearJournal(k)
  PROVE  AnalysisInv'
<1>1. /\ chain'[k].phase = "post"
      /\ \A j \in Chains \ {k} : chain'[j] = chain[j]
  BY DEF ClearJournal, AnalysisTypeOK, NoChain
<1>2. /\ rows' = rows
      /\ journal' = journal \ chain[k].queue
      /\ unjournaled' = unjournaled \ chain[k].queue
  BY DEF ClearJournal
<1>3. Analysing(k) /\ ChainInv(k)
  BY DEF ClearJournal, Analysing, AnalysisInv
<1>4. chain[k].batch = {}
  BY <1>3 DEF ClearJournal, ChainInv, QueueInv
<1>5. contested \subseteq contested'
  BY ContestedGrows
<1>6. OnlyOwn(k)
  BY <1>1, <1>2 DEF OnlyOwn, Untouched, Handled
<1>7. OwnRows(k)
  <2>1. ASSUME NEW r \in Records, NEW s \in Records, CommitOf[r] = CommitOf[s],
               CommitOf[r] \notin contested'
        PROVE  /\ rows'[r] <= 1
               /\ rows'[r] > 0 /\ ~(rows'[s] > 0)
                    => CommitOf[r] \in journal' \cup unjournaled'
    <3>1. rows'[r] <= 1
      BY <1>2, <1>5, <2>1 DEF AnalysisInv, NoRowTwice
    <3>2. CASE CommitOf[r] \in chain[k].queue
      <4>1. rows[r] > 0 => rows[s] > 0
        BY <1>3, <1>4, <1>5, <2>1, <3>2 DEF ChainInv, WholeInv
      <4> QED BY <1>2, <3>1, <4>1
    <3>3. CASE CommitOf[r] \notin chain[k].queue
      BY <1>2, <1>5, <2>1, <3>1, <3>3, PartialMeans DEF AnalysisInv
    <3> QED BY <3>2, <3>3
  <2> QED BY <2>1 DEF OwnRows
<1>8. ~Analysing(k)' /\ TrimInv(k)'
  BY <1>1 DEF Analysing, TrimInv
<1> QED BY <1>6, <1>7, <1>8, OutsideInv, InvKept

LEMMA InvStep ==
  AnalysisTypeOK /\ AnalysisInv /\ [AnalysisNext]_vars => AnalysisInv'
<1> SUFFICES ASSUME AnalysisTypeOK, AnalysisInv, [AnalysisNext]_vars
             PROVE  AnalysisInv'
  OBVIOUS
<1>1. ASSUME NEW k \in Chains, Step(k) PROVE AnalysisInv'
  <2>1. Recorded(k)
    BY <1>1 DEF Step, Recorded
  <2> QED
    BY <1>1, <2>1, InvBegin, InvChoose, InvRemove, InvUntrack, InvList, InvCollect,
       InvSkip, InvInsert, InvClear
    DEF Step, Work, Fault
<1>2. CASE UNCHANGED vars
  <2>1. PartialIsJournaled'
    BY <1>2, PartialMeans, PartialMeansNext DEF vars, AnalysisInv
  <2>2. \A k \in Chains : ChainInv(k)'
    BY <1>2 DEF vars, AnalysisInv, ChainInv, TrimInv, QueueInv, BatchInv, WholeInv,
                Analysing
  <2>3. DisputeInv' /\ NoRowTwice'
    BY <1>2 DEF vars, AnalysisInv, DisputeInv, Handled, NoRowTwice
  <2> QED BY <2>1, <2>2, <2>3 DEF AnalysisInv
<1> QED BY <1>1, <1>2 DEF AnalysisNext

-----------------------------------------------------------------------------
(* The refinement.                                                         *)

LEMMA AnalysedMeans ==
  Analysed =
    {c \in Commits : /\ \E r \in Records : CommitOf[r] = c /\ rows[r] > 0
                     /\ \A r \in Records : CommitOf[r] = c => rows[r] > 0
                     /\ c \notin journal \cup contested}
BY DEF Analysed, Existing, Complete, RecordsOf

LEMMA AnalysedMeansNext ==
  Analysed' =
    {c \in Commits : /\ \E r \in Records : CommitOf[r] = c /\ rows'[r] > 0
                     /\ \A r \in Records : CommitOf[r] = c => rows'[r] > 0
                     /\ c \notin journal' \cup contested'}
BY DEF Analysed, Existing, Complete, RecordsOf

\* The listings that the chains go by.
InUse == {chain[k].listed : k \in {j \in Chains : GoesByListing(j)}}

LEMMA InUseHas ==
  ASSUME NEW k \in Chains, GoesByListing(k) PROVE chain[k].listed \in InUse
BY DEF InUse

\* A chain that has not listed anew adds no listing.
LEMMA InUseKept ==
  ASSUME NEW k \in Chains, \A j \in Chains \ {k} : chain'[j] = chain[j],
         GoesByListing(k)' => GoesByListing(k) /\ chain'[k].listed = chain[k].listed
  PROVE  InUse' \subseteq InUse
<1>1. ASSUME NEW j \in Chains, GoesByListing(j)' PROVE chain'[j].listed \in InUse
  <2>1. CASE j = k
    BY <1>1, <2>1, InUseHas
  <2>2. CASE j # k
    <3>1. GoesByListing(j) /\ chain'[j].listed = chain[j].listed
      BY <1>1, <2>2 DEF GoesByListing
    <3> QED BY <3>1, InUseHas
  <2> QED BY <2>1, <2>2
<1> QED BY <1>1 DEF InUse

TableVars == <<head, InUse, contested, Analysed>>

LEMMA TableInitial == AnalysisInit => Table!TableInit
<1> SUFFICES ASSUME AnalysisInit PROVE Table!TableInit
  OBVIOUS
<1>1. \A r \in Records : ~(rows[r] > 0)
  BY DEF AnalysisInit
<1>2. Analysed = {}
  BY <1>1, AnalysedMeans
<1>3. \A k \in Chains : ~GoesByListing(k)
  BY DEF AnalysisInit, NoChain, GoesByListing
<1>4. InUse = {}
  BY <1>3 DEF InUse
<1> QED BY <1>2, <1>4 DEF AnalysisInit, Table!TableInit, InUse

\* Chain k takes no commit in hand: nothing becomes contested.
LEMMA NothingContested ==
  ASSUME AnalysisInv, NEW k \in Chains, Recorded(k),
         Handled(k)' \subseteq Handled(k), \A j \in Chains \ {k} : chain'[j] = chain[j]
  PROVE  contested' = contested
<1>1. \A j \in Chains \ {k} : Handled(j) \cap Handled(k) \subseteq contested
  BY DEF AnalysisInv, DisputeInv
<1> QED BY <1>1 DEF Recorded, HandledBeside

\* A step that changes neither table.
LEMMA AnalysedKept ==
  ASSUME UNCHANGED tables, contested \subseteq contested'
  PROVE  Analysed' = Analysed \ contested'
BY AnalysedMeans, AnalysedMeansNext DEF tables

LEMMA AnalysedUncontested == Analysed \cap contested = {}
BY DEF Analysed

LEMMA TableStep ==
  ASSUME AnalysisTypeOK, AnalysisInv, [AnalysisNext]_vars
  PROVE  [Table!TableNext]_TableVars
<1>1. ASSUME NEW k \in Chains, Step(k)
      PROVE  [Table!TableNext]_TableVars
  <2>r. Recorded(k)
    BY <1>1 DEF Step, Recorded
  <2>c. contested \subseteq contested'
    BY <2>r, ContestedGrows
  <2>t. \A r \in Records : rows[r] \in Nat /\ rows'[r] \in Nat
    BY TypeStep DEF AnalysisTypeOK
  <2>i. ChainInv(k)
    BY DEF AnalysisInv
  \* The clone is updated by a chain that has nothing in hand.
  <2>1. CASE Begin(k)
    <3>1. /\ chain'[k] = [NoChain EXCEPT !.phase = "begun"]
          /\ \A j \in Chains \ {k} : chain'[j] = chain[j]
          /\ head' \in SUBSET Commits /\ UNCHANGED tables
          /\ chain[k].phase = "idle"
      BY <2>1, RecordsAssumption DEF Begin, AnalysisTypeOK
    <3>2. /\ Handled(k)' = {}
          /\ ~GoesByListing(k) /\ ~GoesByListing(k)'
      BY <3>1 DEF NoChain, Handled, GoesByListing
    <3>3. contested' = contested
      BY <2>r, <3>1, <3>2, NothingContested
    <3>4. InUse' = InUse
      <4>1. \A j \in Chains : /\ GoesByListing(j)' <=> GoesByListing(j)
                              /\ GoesByListing(j) => chain'[j].listed = chain[j].listed
        BY <3>1, <3>2 DEF GoesByListing
      <4> QED BY <4>1 DEF InUse
    <3>5. Analysed' = Analysed
      BY <3>1, <3>3, AnalysedKept, AnalysedUncontested
    <3> QED BY <3>1, <3>3, <3>4, <3>5 DEF TableVars, Table!TableNext, Table!Update, InUse
  \* A chain lists the history.
  <2>2. CASE ListCommits(k) \/ ListingFails(k)
    <3>1. /\ \A j \in Chains \ {k} : chain'[j] = chain[j]
          /\ Handled(k)' = {}
          /\ head' = head /\ UNCHANGED tables
          /\ chain'[k].listed \in
               {head} \cup (IF "listingTimesOut" \in Faults THEN {{}} ELSE {})
      <4>1. CASE ListCommits(k)
        BY <4>1 DEF ListCommits, NoChain, Handled, AnalysisTypeOK
      <4>2. CASE ListingFails(k)
        BY <4>2 DEF ListingFails, NoChain, Handled, AnalysisTypeOK
      <4> QED BY <2>2, <4>1, <4>2
    <3>2. contested' = contested
      BY <2>r, <3>1, NothingContested
    <3>3. InUse' \subseteq
            InUse \cup {head} \cup (IF "listingTimesOut" \in Faults THEN {{}} ELSE {})
      <4>1. ASSUME NEW j \in Chains, GoesByListing(j)', j # k
            PROVE  chain'[j].listed \in InUse
        <5>1. GoesByListing(j) /\ chain'[j].listed = chain[j].listed
          BY <3>1, <4>1 DEF GoesByListing
        <5> QED BY <5>1, InUseHas
      <4> QED BY <3>1, <4>1 DEF InUse
    <3>4. Analysed' = Analysed
      BY <3>1, <3>2, AnalysedKept, AnalysedUncontested
    <3> QED BY <3>1, <3>2, <3>3, <3>4 DEF TableVars, Table!TableNext, Table!List, InUse
  \* A chain takes commits in hand, or lets go of what it has.
  <2>3. CASE ReadJournal(k) \/ JournalUnread(k) \/ ListMissing(k) \/ ListTrimmed(k)
             \/ (\E c \in Commits : Skip(k, c)) \/ Conclude(k) \/ Interrupt(k)
    <3>1. /\ \A j \in Chains \ {k} : chain'[j] = chain[j]
          /\ head' = head /\ UNCHANGED tables
          /\ GoesByListing(k)' =>
               GoesByListing(k) /\ chain'[k].listed = chain[k].listed
          /\ \/ Handled(k)' \subseteq Handled(k)
             \/ GoesByListing(k)' <=> GoesByListing(k)
      <4>1. CASE ReadJournal(k)
        <5>1. chain' = Trim(k, journal, FALSE, "list")
          BY <4>1 DEF ReadJournal
        <5>2. /\ chain'[k].phase \in {"trim", "list"}
              /\ chain'[k].post = FALSE
              /\ \A j \in Chains \ {k} : chain'[j] = chain[j]
          BY <5>1, TrimIs
        <5> QED BY <4>1, <5>2 DEF ReadJournal, GoesByListing
      <4>2. CASE JournalUnread(k)
        <5>1. chain' = Trim(k, {}, FALSE, "list")
          BY <4>2 DEF JournalUnread
        <5>2. /\ chain'[k].phase \in {"trim", "list"}
              /\ chain'[k].post = FALSE
              /\ \A j \in Chains \ {k} : chain'[j] = chain[j]
          BY <5>1, TrimIs
        <5> QED BY <4>2, <5>2 DEF JournalUnread, GoesByListing
      <4>3. CASE ListMissing(k)
        <5>1. /\ chain'[k].phase \in {"post", "analyse"}
              /\ chain'[k].listed = chain[k].listed
              /\ chain'[k].queue = chain[k].listed \ Existing
              /\ chain'[k].doomed = {}
              /\ chain'[k].phase = "post" => chain'[k].queue = {}
              /\ \A j \in Chains \ {k} : chain'[j] = chain[j]
          BY <4>3 DEF ListMissing, Analyse, NoChain, AnalysisTypeOK
        <5> QED BY <4>3, <5>1 DEF ListMissing, GoesByListing, Handled
      <4>4. CASE ListTrimmed(k)
        <5>1. chain' = Trim(k, Existing \ chain[k].listed, TRUE, "idle")
          BY <4>4 DEF ListTrimmed
        <5>2. /\ chain'[k].phase \in {"trim", "idle"}
              /\ chain'[k].listed = chain[k].listed
              /\ chain'[k].post = TRUE
              /\ \A j \in Chains \ {k} : chain'[j] = chain[j]
          BY <5>1, TrimIs
        <5>3. chain'[k].phase = "idle" => Handled(k)' = {}
          BY <5>1 DEF Trim, NoChain, Handled, AnalysisTypeOK
        <5> QED BY <4>4, <5>2, <5>3 DEF ListTrimmed, GoesByListing
      <4>5. CASE \E c \in Commits : Skip(k, c)
        BY <4>5 DEF Skip, GoesByListing, Handled, AnalysisTypeOK, ChainState
      <4>6. CASE Conclude(k)
        BY <4>6 DEF Conclude, GoesByListing, Handled, AnalysisTypeOK, ChainState
      <4>7. CASE Interrupt(k)
        BY <4>7 DEF Interrupt, NoChain, GoesByListing, Handled, AnalysisTypeOK
      <4> QED BY <2>3, <4>1, <4>2, <4>3, <4>4, <4>5, <4>6, <4>7
    <3>2. InUse' \subseteq InUse
      BY <3>1, InUseKept
    <3>3. Analysed' = Analysed \ contested'
      BY <2>c, <3>1, AnalysedKept
    <3>4. CASE Handled(k)' \subseteq Handled(k)
      <4>1. contested' = contested
        BY <2>r, <3>1, <3>4, NothingContested
      <4>2. Analysed' = Analysed
        BY <3>3, <4>1, AnalysedUncontested
      <4> QED BY <3>1, <3>2, <4>1, <4>2 DEF TableVars, Table!TableNext, Table!List, InUse
    <3>5. CASE GoesByListing(k)' <=> GoesByListing(k)
      <4>1. InUse' = InUse
        <5>1. \A j \in Chains :
                /\ GoesByListing(j)' <=> GoesByListing(j)
                /\ GoesByListing(j) => chain'[j].listed = chain[j].listed
          BY <3>1, <3>5 DEF GoesByListing
        <5> QED BY <5>1 DEF InUse
      <4> QED BY <2>c, <3>1, <3>3, <4>1 DEF TableVars, Table!TableNext, Table!Dispute, InUse
    <3> QED BY <3>1, <3>4, <3>5
  \* Rows go before the journal does, or are those of commits not listed.
  <2>4. CASE RemoveRows(k)
    <3>1. /\ chain[k].phase = "trim" /\ head' = head /\ journal' = journal
          /\ \A r \in Records :
               rows'[r] = IF CommitOf[r] \in chain[k].doomed THEN 0 ELSE rows[r]
          /\ chain'[k].phase = "untrack"
          /\ chain'[k].queue = chain[k].queue /\ chain'[k].doomed = chain[k].doomed
          /\ \A j \in Chains \ {k} : chain'[j] = chain[j]
      BY <2>4 DEF RemoveRows, AnalysisTypeOK, ChainState
    <3>2. contested' = contested
      BY <2>r, <3>1, NothingContested DEF Handled
    <3>3. InUse' \subseteq InUse
      BY <3>1, InUseKept DEF GoesByListing
    <3>4. \A r \in Records : rows'[r] > 0 =>
             rows[r] > 0 /\ CommitOf[r] \notin chain[k].doomed
      BY <2>t, <3>1
    <3>5. \A r \in Records : CommitOf[r] \notin chain[k].doomed => rows'[r] = rows[r]
      BY <3>1
    <3>6. Analysed' = Analysed \ chain[k].doomed
      BY <3>1, <3>2, <3>4, <3>5, AnalysedMeans, AnalysedMeansNext
    <3>7. CASE chain[k].post
      <4>1. chain[k].listed \in InUse
        BY <3>1, <3>7, InUseHas DEF GoesByListing
      <4>2. chain[k].doomed \cap chain[k].listed = {}
        BY <2>i, <3>1, <3>7 DEF ChainInv, TrimInv
      <4>3. (Analysed \ Analysed') \cap chain[k].listed = {}
        BY <3>6, <4>2
      <4> QED BY <3>1, <3>2, <3>3, <3>6, <4>1, <4>3
              DEF TableVars, Table!TableNext, Table!Prune, InUse
    <3>8. CASE ~chain[k].post
      <4>1. chain[k].doomed \subseteq journal \cup contested
        BY <2>i, <3>1, <3>8 DEF ChainInv, TrimInv
      <4>2. Analysed' = Analysed
        BY <3>6, <4>1 DEF Analysed
      <4> QED BY <3>1, <3>2, <3>3, <4>2 DEF TableVars, Table!TableNext, Table!List, InUse
    <3> QED BY <3>7, <3>8
  <2>5. CASE Untrack(k)
    <3>1. /\ chain[k].phase = "untrack" /\ head' = head /\ rows' = rows
          /\ journal' = journal \ chain[k].doomed
          /\ chain'[k].phase \in {"idle", "list"}
          /\ chain'[k].queue = {} /\ chain'[k].doomed = {}
          /\ \A j \in Chains \ {k} : chain'[j] = chain[j]
      BY <2>5 DEF Untrack, NoChain, AnalysisTypeOK
    <3>2. contested' = contested
      BY <2>r, <3>1, NothingContested DEF Handled
    <3>3. InUse' \subseteq InUse
      BY <3>1, InUseKept DEF GoesByListing
    <3>4. \A r \in Records : CommitOf[r] \in chain[k].doomed \ contested => ~(rows[r] > 0)
      BY <2>i, <2>t, <3>1 DEF ChainInv, TrimInv
    <3>5. Analysed' = Analysed
      BY <3>1, <3>2, <3>4, AnalysedMeans, AnalysedMeansNext
    <3> QED BY <3>1, <3>2, <3>3, <3>5 DEF TableVars, Table!TableNext, Table!List, InUse
  <2>6. ASSUME NEW c \in Commits, Collect(k, c)
        PROVE  [Table!TableNext]_TableVars
    <3>1. /\ head' = head /\ rows' = rows
          /\ journal' = journal \/ journal' = journal \cup {c}
          /\ c \in chain[k].todo /\ Analysing(k)
          /\ chain[k].phase = "analyse" /\ chain'[k].phase \in {"analyse", "insert"}
          /\ chain'[k].listed = chain[k].listed
          /\ chain'[k].queue = chain[k].queue /\ chain'[k].doomed = chain[k].doomed
          /\ \A j \in Chains \ {k} : chain'[j] = chain[j]
      BY <2>6 DEF Collect, Analysing, AnalysisTypeOK, ChainState
    <3>2. contested' = contested
      BY <2>r, <3>1, NothingContested DEF Handled
    <3>3. InUse' \subseteq InUse
      BY <3>1, InUseKept DEF GoesByListing
    <3>4. c \notin contested => \A r \in Records : CommitOf[r] = c => ~(rows[r] > 0)
      BY <2>i, <2>t, <3>1 DEF ChainInv, QueueInv
    <3>5. Analysed' = Analysed
      BY <3>1, <3>2, <3>4, AnalysedMeans, AnalysedMeansNext
    <3> QED BY <3>1, <3>2, <3>3, <3>5 DEF TableVars, Table!TableNext, Table!List, InUse
  \* Only rows of commits of the queue are added, and they are listed.
  <2>7. ASSUME NEW piece \in SUBSET chain[k].batch, Insert(k, piece)
        PROVE  [Table!TableNext]_TableVars
    <3>1. /\ head' = head /\ journal' = journal
          /\ \A r \in Records :
               rows'[r] = IF r \in piece THEN rows[r] + 1 ELSE rows[r]
          /\ chain[k].phase = "insert" /\ chain'[k].phase \in {"analyse", "insert"}
          /\ chain'[k].listed = chain[k].listed
          /\ chain'[k].queue = chain[k].queue /\ chain'[k].doomed = chain[k].doomed
          /\ \A j \in Chains \ {k} : chain'[j] = chain[j]
      BY <2>7 DEF Insert, AnalysisTypeOK, ChainState
    <3>2. contested' = contested
      BY <2>r, <3>1, NothingContested DEF Handled
    <3>3. InUse' \subseteq InUse
      BY <3>1, InUseKept DEF GoesByListing
    <3>4. chain[k].listed \in InUse
      BY <3>1, InUseHas DEF GoesByListing
    <3>5. \A r \in piece : CommitOf[r] \in chain[k].listed
      <4>1. Analysing(k)
        BY <3>1 DEF Analysing
      <4> QED BY <2>i, <4>1 DEF ChainInv, QueueInv, BatchInv
    <3>6. \A r \in Records : rows[r] > 0 => rows'[r] > 0
      BY <2>t, <3>1
    <3>7. Analysed \subseteq Analysed'
      BY <3>1, <3>2, <3>6, AnalysedMeans, AnalysedMeansNext
    <3>8. ASSUME NEW c \in Analysed', c \notin Analysed PROVE c \in chain[k].listed
      <4>1. c \in Commits /\ c \notin journal \cup contested
        BY <3>1, <3>2, <3>8, AnalysedMeansNext
      <4>2. PICK r \in Records : CommitOf[r] = c /\ ~(rows[r] > 0)
        <5>1. PICK q \in Records : CommitOf[q] = c
          BY <3>8, AnalysedMeansNext
        <5>2. CASE \A r \in Records : CommitOf[r] = c => rows[r] > 0
          BY <3>8, <4>1, <5>1, <5>2, AnalysedMeans
        <5> QED BY <5>2
      <4>3. rows'[r] > 0
        BY <3>8, <4>2, AnalysedMeansNext
      <4>4. r \in piece
        BY <3>1, <4>2, <4>3
      <4> QED BY <3>5, <4>2, <4>4
    <3>9. Analysed' \ Analysed \subseteq UNION InUse
      BY <3>4, <3>8
    <3> QED BY <3>1, <3>2, <3>3, <3>7, <3>9
            DEF TableVars, Table!TableNext, Table!Record, InUse
  <2>8. CASE ClearJournal(k)
    <3>1. /\ head' = head /\ rows' = rows /\ journal' = journal \ chain[k].queue
          /\ chain[k].phase = "clear" /\ chain'[k].phase = "post"
          /\ chain'[k].queue = {} /\ chain'[k].doomed = {}
          /\ \A j \in Chains \ {k} : chain'[j] = chain[j]
      BY <2>8 DEF ClearJournal, NoChain, AnalysisTypeOK
    <3>2. contested' = contested
      BY <2>r, <3>1, NothingContested DEF Handled
    <3>3. InUse' \subseteq InUse
      BY <3>1, InUseKept DEF GoesByListing
    <3>4. chain[k].listed \in InUse
      BY <3>1, InUseHas DEF GoesByListing
    <3>5. chain[k].queue \subseteq chain[k].listed
      BY <2>i, <3>1 DEF Analysing, ChainInv, QueueInv
    <3>6. Analysed \subseteq Analysed'
      BY <3>1, <3>2, AnalysedMeans, AnalysedMeansNext
    <3>7. Analysed' \ Analysed \subseteq chain[k].queue
      BY <3>1, <3>2, AnalysedMeans, AnalysedMeansNext
    <3>8. Analysed' \ Analysed \subseteq UNION InUse
      BY <3>4, <3>5, <3>7
    <3> QED BY <3>1, <3>2, <3>3, <3>6, <3>8
            DEF TableVars, Table!TableNext, Table!Record, InUse
  <2> QED
    BY <1>1, <2>1, <2>2, <2>3, <2>4, <2>5, <2>6, <2>7, <2>8 DEF Step, Work, Fault
<1>2. CASE UNCHANGED vars
  <2>1. contested' = contested /\ head' = head /\ UNCHANGED tables /\ chain' = chain
    BY <1>2 DEF vars, tables
  <2>2. Analysed' = Analysed
    BY <2>1, AnalysedKept, AnalysedUncontested
  <2>3. InUse' = InUse
    BY <2>1 DEF InUse, GoesByListing
  <2> QED BY <2>1, <2>2, <2>3 DEF TableVars
<1> QED BY <1>1, <1>2 DEF AnalysisNext

-----------------------------------------------------------------------------
(* The theorems.                                                           *)

\* Every reachable state has the types, and no analysis goes on with a batch
\* that should have been inserted.
THEOREM AnalysisTypeCorrect == AnalysisSpec => []AnalysisTypeOK
BY TypeInit, TypeStep, PTL DEF AnalysisSpec

LEMMA AnalysisInvariant == AnalysisSpec => [](AnalysisTypeOK /\ AnalysisInv)
<1>1. AnalysisTypeOK /\ AnalysisInv /\ [AnalysisNext]_vars => AnalysisInv'
  BY InvStep
<1> QED BY <1>1, AnalysisTypeCorrect, InvInit, PTL DEF AnalysisSpec

\* However often analyses are interrupted, wherever, and whatever chains
\* overlap, a commit with some of its rows is in the journal, so that the
\* next analysis throws it away, unless its entry was refused or two chains
\* had it in hand at the same time.
THEOREM JournalCoversPartial == AnalysisSpec => []PartialIsJournaled
<1>1. AnalysisInv => PartialIsJournaled
  BY DEF AnalysisInv
<1> QED BY <1>1, AnalysisInvariant, PTL

\* However often analyses are interrupted and repeated, and whatever chains
\* overlap, no row is stored twice, except of a commit that two chains had in
\* hand at the same time.
THEOREM RowsStoredOnce == AnalysisSpec => []NoRowTwice
<1>1. AnalysisInv => NoRowTwice
  BY DEF AnalysisInv
<1> QED BY <1>1, AnalysisInvariant, PTL

\* Commit analysis implements CommitTable: commits are analysed as a whole
\* and leave the table only when the listing of a chain does not have them -
\* any listing may be empty when git log may fail - or when two chains have
\* them in hand at the same time.
THEOREM AnalysisImplementsTable == AnalysisSpec => TableSpec
<1>1. AnalysisTypeOK /\ AnalysisInv /\ [AnalysisNext]_vars
        => [Table!TableNext]_<<head, InUse, contested, Analysed>>
  BY TableStep DEF TableVars
<1> QED
  BY <1>1, AnalysisInvariant, TableInitial, PTL
  DEF AnalysisSpec, TableSpec, Table!TableSpec, InUse
=============================================================================

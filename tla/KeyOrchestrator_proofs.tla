------------------------- MODULE KeyOrchestrator_proofs -------------------------
(***************************************************************************)
(* What the key orchestrator and its clients keep to, for any keys,        *)
(* platforms, clients and processes: its state keeps its type, and if each *)
(* key is published once, every answer is taken for the request it         *)
(* answers, an invalid key is not handed back to the client that reported  *)
(* it, and the whole implements KeyService.  Clients may be made within    *)
(* others; what is promised to a client ends when it is shared, and begins *)
(* anew with the next object of its process.  That a key is in one state   *)
(* holds of shared clients too, if the clients of a process use one        *)
(* platform, or the keys are published before the first client is made.    *)
(***************************************************************************)
EXTENDS KeyOrchestrator, SequenceTheorems, WellFoundedInduction, FiniteSetTheorems, TLAPS

-----------------------------------------------------------------------------
(* Times. *)

LEMMA WaitFacts ==
  /\ MaxWait \in Nat
  /\ 0 \in Wait
  /\ Wait \subseteq Nat
  /\ \A t \in Wait : t \in Int /\ 0 <= t /\ t <= MaxWait /\ Less(t) \in Wait
BY MaxWaitAssumption DEF Wait, Less

LEMMA FirstExists ==
  ASSUME NEW T \in SUBSET Nat, T # {}
  PROVE  \E t \in T : \A s \in T : t <= s
<1> DEFINE R == OpToRel(<, Nat)
<1>1. IsWellFoundedOn(R, Nat)
  BY NatLessThanWellFounded
<1>2. PICK t : t \in T /\ \A s \in T : ~ (<<s, t>> \in R)
  <2> HIDE DEF R
  <2> QED BY <1>1, WFMin
<1>3. \A s, x \in Nat : s < x => <<s, x>> \in R
  BY DEF OpToRel
<1> HIDE DEF R
<1>4. ASSUME NEW s \in T PROVE t <= s
  <2>1. s \in Nat /\ t \in Nat
    BY <1>2
  <2>2. ~ (s < t)
    BY <1>2, <1>3, <2>1
  <2> QED BY <2>1, <2>2
<1> QED BY <1>2, <1>4

-----------------------------------------------------------------------------
(* What the operations on the keys of a platform do (module KeyPool). *)

\* A key that is not to be had; and one the platform knows nothing of.
Out(q, k) == q.fresh[k] = 0 /\ k \notin DOMAIN q.expired
Absent(q, k) == Out(q, k) /\ k \notin q.invalid

\* It is to be had once at most, whether it is invalid as well or not.
HadOnce(q, k) == q.fresh[k] \in {0, 1} /\ (q.fresh[k] = 1 => k \notin DOMAIN q.expired)

OnceIn(q, k) ==
  /\ q.fresh[k] \in {0, 1}
  /\ q.fresh[k] = 1 => k \notin DOMAIN q.expired /\ k \notin q.invalid
  /\ k \in DOMAIN q.expired => k \notin q.invalid

LEMMA PoolFields ==
  ASSUME NEW q \in Pool
  PROVE  /\ q.fresh \in [Key -> Nat]
         /\ DOMAIN q.expired \subseteq Key
         /\ q.expired \in [DOMAIN q.expired -> Wait]
         /\ q.invalid \subseteq Key
BY DEF Pool

LEMMA PoolRecord ==
  ASSUME NEW q \in Pool
  PROVE  /\ q = [fresh |-> q.fresh, expired |-> q.expired, invalid |-> q.invalid]
         /\ DOMAIN q = {"fresh", "expired", "invalid"}
BY DEF Pool

LEMMA PoolType ==
  ASSUME NEW q, q = [fresh |-> q.fresh, expired |-> q.expired, invalid |-> q.invalid],
         q.fresh \in [Key -> Nat],
         NEW S \in SUBSET Key, q.expired \in [S -> Wait],
         q.invalid \subseteq Key
  PROVE  q \in Pool
BY DEF Pool

LEMMA NewPoolFacts ==
  /\ NewPool \in Pool
  /\ \A k \in Key : Absent(NewPool, k) /\ HadOnce(NewPool, k) /\ OnceIn(NewPool, k)
<1>1. NewPool.fresh \in [Key -> Nat] /\ NewPool.expired \in [{} -> Wait] /\ NewPool.invalid = {}
  BY DEF NewPool
<1>2. NewPool \in Pool
  BY <1>1, PoolType DEF NewPool
<1> QED BY <1>1, <1>2 DEF Absent, Out, HadOnce, OnceIn, NewPool

LEMMA PublishFacts ==
  ASSUME NEW q \in Pool, NEW k \in Key
  PROVE  /\ publish_key(q, k) \in Pool
         /\ \A x \in Key \ {k} :
              /\ Out(q, x) => Out(publish_key(q, k), x)
              /\ Absent(q, x) => Absent(publish_key(q, k), x)
              /\ HadOnce(q, x) => HadOnce(publish_key(q, k), x)
              /\ OnceIn(q, x) => OnceIn(publish_key(q, k), x)
         /\ Out(q, k) => HadOnce(publish_key(q, k), k)
         /\ Absent(q, k) => OnceIn(publish_key(q, k), k)
<1> DEFINE p == publish_key(q, k)
<1>1. /\ p.fresh = [q.fresh EXCEPT ![k] = q.fresh[k] + 1]
      /\ p.expired = q.expired /\ p.invalid = q.invalid
      /\ p = [fresh |-> p.fresh, expired |-> p.expired, invalid |-> p.invalid]
  BY PoolFields DEF publish_key, Added, Pool
<1> HIDE DEF p
<1>2. p \in Pool
  BY <1>1, PoolFields, PoolType
<1> QED BY <1>1, <1>2, PoolFields DEF p, Out, Absent, HadOnce, OnceIn

LEMMA RemovedFacts ==
  ASSUME NEW q \in Pool, NEW k \in Key, IsFresh(q, k)
  PROVE  /\ Removed(q, k) \in Pool
         /\ Removed(q, k).fresh = [q.fresh EXCEPT ![k] = q.fresh[k] - 1]
         /\ Removed(q, k).expired = q.expired
         /\ Removed(q, k).invalid = q.invalid
<1> DEFINE p == Removed(q, k)
<1>1. /\ p.fresh = [q.fresh EXCEPT ![k] = q.fresh[k] - 1]
      /\ p.expired = q.expired /\ p.invalid = q.invalid
      /\ p = [fresh |-> p.fresh, expired |-> p.expired, invalid |-> p.invalid]
  BY PoolFields DEF Removed, Pool
<1> HIDE DEF p
<1>2. q.fresh[k] - 1 \in Nat
  BY PoolFields DEF IsFresh
<1>3. p \in Pool
  BY <1>1, <1>2, PoolFields, PoolType
<1> QED BY <1>1, <1>3 DEF p

\* What an operation that takes keys out, or moves them, does not do.
Takes(q, p) ==
  /\ p \in Pool
  /\ \A x \in Key :
       /\ Out(q, x) => Out(p, x)
       /\ HadOnce(q, x) => HadOnce(p, x)
       /\ OnceIn(q, x) => OnceIn(p, x)
       /\ Absent(q, x) => Absent(p, x)

LEMMA UnpublishFacts ==
  ASSUME NEW q \in Pool, NEW k \in Key
  PROVE  /\ Takes(q, unpublish_key(q, k))
         /\ unpublish_key(q, k).invalid = q.invalid
         /\ HadOnce(q, k) => Out(unpublish_key(q, k), k)
<1> DEFINE p == unpublish_key(q, k)
<1>1. CASE IsFresh(q, k)
  <2>1. p = Removed(q, k)
    BY <1>1 DEF unpublish_key
  <2> HIDE DEF p
  <2>2. /\ p \in Pool /\ p.expired = q.expired /\ p.invalid = q.invalid
        /\ p.fresh = [q.fresh EXCEPT ![k] = q.fresh[k] - 1]
    BY <1>1, <2>1, RemovedFacts
  <2>3. \A x \in Key : x # k => p.fresh[x] = q.fresh[x]
    BY <2>2, PoolFields
  <2>4. q.fresh[k] > 0 /\ p.fresh[k] = q.fresh[k] - 1 /\ q.fresh[k] \in Nat
    BY <1>1, <2>2, PoolFields DEF IsFresh
  <2> QED BY <2>2, <2>3, <2>4 DEF p, Takes, Out, Absent, HadOnce, OnceIn
<1>2. CASE ~ IsFresh(q, k) /\ IsExpired(q, k)
  <2> DEFINE S == DOMAIN q.expired \ {k}
  <2>1. /\ p.fresh = q.fresh /\ p.invalid = q.invalid
        /\ p.expired = [x \in S |-> q.expired[x]]
        /\ p = [fresh |-> p.fresh, expired |-> p.expired, invalid |-> p.invalid]
    BY <1>2 DEF unpublish_key, Popped, Pool
  <2> HIDE DEF p
  <2>2. p.expired \in [S -> Wait] /\ S \in SUBSET Key /\ DOMAIN p.expired = S
    BY <2>1, PoolFields
  <2>3. p \in Pool
    BY <2>1, <2>2, PoolFields, PoolType
  <2> QED BY <1>2, <2>1, <2>2, <2>3, PoolFields DEF p, Takes, Out, Absent, HadOnce, OnceIn, IsFresh
<1>3. CASE ~ IsFresh(q, k) /\ ~ IsExpired(q, k)
  <2>1. p = q
    BY <1>3 DEF unpublish_key
  <2> HIDE DEF p
  <2> QED BY <1>3, <2>1, PoolFields DEF p, Takes, Out, Absent, HadOnce, OnceIn, IsFresh, IsExpired
<1> QED BY <1>1, <1>2, <1>3

LEMMA ExpireFacts ==
  ASSUME NEW q \in Pool, NEW k \in Key, NEW t \in Wait
  PROVE  Takes(q, expire_key(q, k, t))
<1> DEFINE p == expire_key(q, k, t)
<1>1. CASE IsFresh(q, k)
  <2> DEFINE S == DOMAIN q.expired \cup {k}
  <2>1. /\ p.fresh = Removed(q, k).fresh /\ p.invalid = q.invalid
        /\ p.expired = [x \in S |-> IF x = k THEN t ELSE q.expired[x]]
        /\ p = [fresh |-> p.fresh, expired |-> p.expired, invalid |-> p.invalid]
    BY <1>1, RemovedFacts DEF expire_key, Pool
  <2> HIDE DEF p
  <2>2. p.expired \in [S -> Wait] /\ S \in SUBSET Key /\ DOMAIN p.expired = S
    BY <2>1, PoolFields
  <2>3. p.fresh \in [Key -> Nat]
    BY <1>1, <2>1, RemovedFacts, PoolFields
  <2>4. p \in Pool
    BY <2>1, <2>2, <2>3, PoolFields, PoolType
  <2>5. p.fresh = [q.fresh EXCEPT ![k] = q.fresh[k] - 1]
    BY <1>1, <2>1, RemovedFacts
  <2> HIDE DEF S
  <2>6. \A x \in Key : x # k => p.fresh[x] = q.fresh[x] /\ (x \in DOMAIN p.expired <=> x \in DOMAIN q.expired)
    BY <2>2, <2>5, PoolFields DEF S
  <2>7. q.fresh[k] > 0 /\ p.fresh[k] = q.fresh[k] - 1 /\ q.fresh[k] \in Nat
    BY <1>1, <2>5, PoolFields DEF IsFresh
  <2> QED BY <2>1, <2>4, <2>6, <2>7 DEF p, Takes, Out, Absent, HadOnce, OnceIn
<1>2. CASE ~ IsFresh(q, k)
  <2>1. p = q
    BY <1>2 DEF expire_key
  <2> QED BY <2>1 DEF Takes
<1> QED BY <1>1, <1>2

\* An invalid key is not absent any more, but out.
LEMMA InvalidateFacts ==
  ASSUME NEW q \in Pool, NEW k \in Key
  PROVE  /\ invalidate_key(q, k) \in Pool
         /\ \A x \in Key :
              /\ Out(q, x) => Out(invalidate_key(q, k), x)
              /\ HadOnce(q, x) => HadOnce(invalidate_key(q, k), x)
              /\ OnceIn(q, x) => OnceIn(invalidate_key(q, k), x)
              /\ Absent(q, x) /\ x # k => Absent(invalidate_key(q, k), x)
         /\ HadOnce(q, k) => Out(invalidate_key(q, k), k)
<1> DEFINE u == unpublish_key(q, k)
           p == invalidate_key(q, k)
<1>1. /\ Takes(q, u) /\ u \in Pool /\ u.invalid = q.invalid
      /\ HadOnce(q, k) => Out(u, k)
  BY UnpublishFacts DEF Takes
<1> HIDE DEF u
<1>2. p = [u EXCEPT !.invalid = u.invalid \cup {k}]
  BY DEF u, invalidate_key
<1> HIDE DEF p
<1>3. /\ p.fresh = u.fresh /\ p.expired = u.expired /\ p.invalid = u.invalid \cup {k}
      /\ p = [fresh |-> p.fresh, expired |-> p.expired, invalid |-> p.invalid]
  BY <1>1, <1>2, PoolRecord
<1>4. p \in Pool
  BY <1>1, <1>3, PoolFields, PoolType
<1> QED BY <1>1, <1>4, <1>3 DEF p, Takes, Out, Absent, HadOnce, OnceIn

LEMMA RefreshFacts ==
  ASSUME NEW q \in Pool
  PROVE  Takes(q, refresh_keys(q))
<1> DEFINE p == refresh_keys(q)
           S == DOMAIN q.expired \ Ripe(q)
<1> DEFINE f == [k \in Key |-> IF k \in Ripe(q) THEN q.fresh[k] + 1 ELSE q.fresh[k]]
           e == [k \in S |-> q.expired[k]]
<1>1. p = [q EXCEPT !.fresh = f, !.expired = e]
  BY DEF refresh_keys
<1> HIDE DEF p, f, e
<1>2. /\ p.fresh = f /\ p.expired = e /\ p.invalid = q.invalid
      /\ p = [fresh |-> p.fresh, expired |-> p.expired, invalid |-> p.invalid]
  BY <1>1, PoolRecord
<1>3. /\ p.fresh = [k \in Key |-> IF k \in Ripe(q) THEN q.fresh[k] + 1 ELSE q.fresh[k]]
      /\ p.expired = [k \in S |-> q.expired[k]] /\ p.invalid = q.invalid
      /\ p = [fresh |-> p.fresh, expired |-> p.expired, invalid |-> p.invalid]
  BY <1>2 DEF f, e
<1>4. p.expired \in [S -> Wait] /\ S \in SUBSET Key /\ DOMAIN p.expired = S
  BY <1>3, PoolFields
<1>5. p.fresh \in [Key -> Nat]
  BY <1>3, PoolFields
<1>6. p \in Pool
  BY <1>3, <1>4, <1>5, PoolFields, PoolType
<1>7. Ripe(q) \subseteq DOMAIN q.expired
  BY DEF Ripe
<1> QED BY <1>3, <1>4, <1>6, <1>7, PoolFields DEF p, Takes, Out, Absent, HadOnce, OnceIn

LEMMA AgedFacts ==
  ASSUME NEW q \in Pool
  PROVE  Takes(q, Aged(q))
<1> DEFINE p == Aged(q)
<1>1. /\ p.fresh = q.fresh /\ p.invalid = q.invalid
      /\ p.expired = [k \in DOMAIN q.expired |-> Less(q.expired[k])]
      /\ p = [fresh |-> p.fresh, expired |-> p.expired, invalid |-> p.invalid]
  BY DEF Aged, Pool
<1> HIDE DEF p
<1>2. p.expired \in [DOMAIN q.expired -> Wait] /\ DOMAIN p.expired = DOMAIN q.expired
  BY <1>1, PoolFields, WaitFacts
<1>3. p \in Pool
  BY <1>1, <1>2, PoolFields, PoolType
<1> QED BY <1>1, <1>2, <1>3 DEF p, Takes, Out, Absent, HadOnce, OnceIn

LEMMA TakesTwice ==
  ASSUME NEW q, NEW p, NEW s, Takes(q, p), Takes(p, s)
  PROVE  Takes(q, s)
BY DEF Takes

LEMMA NullIsNone == Null \notin Key /\ Null \notin Client
BY KeyAssumption

\* A key that is handed out is fresh; one is told that there is none only when
\* there is none; how long to wait is a time.
LEMMA AnswerFacts ==
  ASSUME NEW q \in Pool, NEW a \in Answers(q)
  PROVE  /\ a \in Answer
         /\ a.key # Null => a.key \in Key /\ IsFresh(q, a.key) /\ a.wait = 0
         /\ a.key = Null /\ a.wait = 0 => \A k \in Key : ~ IsFresh(q, k) /\ ~ IsExpired(q, k)
<1>1. CASE FreshKeys(q) # {}
  <2>1. PICK k \in FreshKeys(q) : a = [key |-> k, wait |-> 0]
    BY <1>1 DEF Answers
  <2> QED BY <2>1, MaxWaitAssumption, NullIsNone DEF Answer, FreshKeys, Grace
<1>2. CASE FreshKeys(q) = {} /\ DOMAIN q.expired # {}
  <2> DEFINE T == {q.expired[k] : k \in DOMAIN q.expired}
  <2>1. T # {} /\ T \in SUBSET Nat
    BY <1>2, PoolFields, WaitFacts
  <2>2. PICK t \in T : \A s \in T : t <= s
    BY <2>1, FirstExists
  <2>3. /\ t \in Wait
        /\ \E k \in DOMAIN q.expired : q.expired[k] = t
        /\ \A k \in DOMAIN q.expired : t <= q.expired[k]
    BY <2>2, PoolFields
  <2>4. FirstRipe(q) \in Wait
    BY <2>3 DEF FirstRipe
  <2>5. a = [key |-> Null, wait |-> FirstRipe(q) + Grace]
    BY <1>2 DEF Answers
  <2>6. FirstRipe(q) + Grace \in 0 .. MaxWait + Grace
    BY <2>4, MaxWaitAssumption DEF Wait, Grace
  <2>7. FirstRipe(q) + Grace # 0
    BY <2>4, MaxWaitAssumption DEF Wait, Grace
  <2> QED BY <2>5, <2>6, <2>7 DEF Answer
<1>3. CASE FreshKeys(q) = {} /\ DOMAIN q.expired = {}
  <2>1. a = [key |-> Null, wait |-> 0]
    BY <1>3 DEF Answers
  <2> QED BY <1>3, <2>1, MaxWaitAssumption DEF Answer, Grace, FreshKeys, IsExpired
<1> QED BY <1>1, <1>2, <1>3

-----------------------------------------------------------------------------
(* Sequences of messages and answers. *)

LEMMA TailFacts ==
  ASSUME NEW S, NEW s \in Seq(S), s # <<>>
  PROVE  /\ Tail(s) \in Seq(S)
         /\ Len(s) \in Nat \ {0} /\ Len(Tail(s)) = Len(s) - 1
         /\ Head(s) = s[1] /\ s[1] \in S
         /\ \A i \in 1 .. Len(Tail(s)) : i + 1 \in 1 .. Len(s) /\ Tail(s)[i] = s[i + 1]
         /\ \A i \in 1 .. Len(s) : i = 1 \/ (i - 1 \in 1 .. Len(Tail(s)) /\ Tail(s)[i - 1] = s[i])
<1>1. Len(s) \in Nat \ {0} /\ Tail(s) \in Seq(S) /\ Len(Tail(s)) = Len(s) - 1 /\ Head(s) = s[1]
  BY HeadTailProperties, LenProperties, EmptySeq
<1>2. \A i \in 1 .. Len(Tail(s)) : Tail(s)[i] = s[i + 1]
  BY HeadTailProperties
<1>3. s[1] \in S
  BY <1>1, ElementOfSeq
<1>4. \A i \in 1 .. Len(Tail(s)) : i + 1 \in 1 .. Len(s)
  BY <1>1
<1>5. ASSUME NEW i \in 1 .. Len(s), i # 1
      PROVE  i - 1 \in 1 .. Len(Tail(s)) /\ Tail(s)[i - 1] = s[i]
  <2>1. i - 1 \in 1 .. Len(Tail(s)) /\ (i - 1) + 1 = i
    BY <1>1, <1>5
  <2>2. Tail(s)[i - 1] = s[(i - 1) + 1]
    BY <1>2, <2>1
  <2> QED BY <2>1, <2>2
<1> QED BY <1>1, <1>2, <1>3, <1>4, <1>5

LEMMA AppendFacts ==
  ASSUME NEW S, NEW s \in Seq(S), NEW x \in S
  PROVE  /\ Append(s, x) \in Seq(S)
         /\ Len(s) \in Nat /\ Len(Append(s, x)) = Len(s) + 1
         /\ Append(s, x)[Len(s) + 1] = x
         /\ \A i \in 1 .. Len(s) : i \in 1 .. Len(Append(s, x)) /\ Append(s, x)[i] = s[i]
<1>1. /\ Append(s, x) \in Seq(S) /\ Len(s) \in Nat /\ Len(Append(s, x)) = Len(s) + 1
      /\ Append(s, x)[Len(s) + 1] = x
      /\ \A i \in 1 .. Len(s) : Append(s, x)[i] = s[i]
  BY AppendProperties, LenProperties
<1>2. \A i \in 1 .. Len(s) : i \in 1 .. Len(Append(s, x))
  BY <1>1
<1> QED BY <1>1, <1>2

-----------------------------------------------------------------------------
(* Type correctness. *)

\* Messages name what their handlers look up.
Proper(m) ==
  /\ m.type # "SHUTDOWN" => m.platform \in Platform
  /\ m.type \notin {"SHUTDOWN", "NEW"} => m.key \in Key

ProperMail == \A i \in 1 .. Len(inbox) : Proper(inbox[i])

KeyTypeInv == KeyTypeOK /\ ProperMail

LEMMA PidType == \A c \in Client : Pid(c) \in Client
BY KeyAssumption DEF Pid

LEMMA MsgFacts ==
  ASSUME NEW type \in {"PUBLISH", "UNPUBLISH", "SHUTDOWN", "NEW", "EXPIRE", "INVALIDATE"},
         NEW from \in Client \cup {Null}, NEW p \in Platform \cup {Null},
         NEW k \in Key \cup {Null}, NEW t \in Wait
  PROVE  /\ Msg(type, from, p, k, t) \in Message
         /\ Msg(type, from, p, k, t).type = type
         /\ Msg(type, from, p, k, t).from = from
         /\ Msg(type, from, p, k, t).platform = p
         /\ Msg(type, from, p, k, t).key = k
BY DEF Msg, Message

\* What Send does to the messages that wait.
LEMMA SentFacts ==
  ASSUME KeyTypeOK, NEW m \in Message, Send(m)
  PROVE  /\ inbox' \in Seq(Message) /\ Len(inbox) \in Nat
         /\ \A i \in 1 .. Len(inbox) : i \in 1 .. Len(inbox') /\ inbox'[i] = inbox[i]
         /\ \A i \in 1 .. Len(inbox') :
              i \in 1 .. Len(inbox) \/ (i = Len(inbox) + 1 /\ inbox'[i] = m)
         /\ up => Len(inbox) + 1 \in 1 .. Len(inbox') /\ inbox'[Len(inbox) + 1] = m
<1>1. inbox \in Seq(Message) /\ Len(inbox) \in Nat
  BY LenProperties DEF KeyTypeOK
<1>2. CASE up
  <2>1. inbox' = Append(inbox, m)
    BY <1>2 DEF Send
  <2>2. /\ inbox' \in Seq(Message) /\ Len(inbox') = Len(inbox) + 1
        /\ inbox'[Len(inbox) + 1] = m
        /\ \A i \in 1 .. Len(inbox) : i \in 1 .. Len(inbox') /\ inbox'[i] = inbox[i]
    BY <1>1, <2>1, AppendFacts
  <2>3. \A i \in 1 .. Len(inbox') : i \in 1 .. Len(inbox) \/ i = Len(inbox) + 1
    BY <1>1, <2>2
  <2>4. Len(inbox) + 1 \in 1 .. Len(inbox')
    BY <1>1, <2>2
  <2> QED BY <1>1, <2>2, <2>3, <2>4
<1>3. CASE ~ up
  <2>1. inbox' = inbox
    BY <1>3 DEF Send
  <2> QED BY <1>1, <1>3, <2>1
<1> QED BY <1>2, <1>3

LEMMA HandledFacts ==
  ASSUME KeyTypeOK, inbox # <<>>, inbox' = Tail(inbox)
  PROVE  /\ inbox' \in Seq(Message)
         /\ Head(inbox) = inbox[1] /\ 1 \in 1 .. Len(inbox) /\ inbox[1] \in Message
         /\ \A i \in 1 .. Len(inbox') : i + 1 \in 1 .. Len(inbox) /\ inbox'[i] = inbox[i + 1]
         /\ \A i \in 1 .. Len(inbox) : i = 1 \/ (i - 1 \in 1 .. Len(inbox') /\ inbox'[i - 1] = inbox[i])
<1>1. inbox \in Seq(Message)
  BY DEF KeyTypeOK
<1>2. Len(inbox) \in Nat \ {0}
  BY <1>1, TailFacts
<1>3. 1 \in 1 .. Len(inbox)
  BY <1>2
<1> QED BY <1>1, <1>3, TailFacts

\* The messages, after one more of them and after the first was taken out.
LEMMA SendType ==
  ASSUME KeyTypeInv, NEW m \in Message, Proper(m), Send(m)
  PROVE  inbox' \in Seq(Message) /\ ProperMail'
BY SentFacts DEF KeyTypeInv, ProperMail, Proper

LEMMA HandledType ==
  ASSUME KeyTypeInv, inbox # <<>>, inbox' = Tail(inbox)
  PROVE  inbox' \in Seq(Message) /\ ProperMail' /\ Head(inbox) \in Message /\ Proper(Head(inbox))
BY HandledFacts DEF KeyTypeInv, ProperMail, Proper

LEMMA RefreshedFacts ==
  ASSUME pool \in [Platform -> Pool]
  PROVE  /\ Refreshed \in [Platform -> Pool]
         /\ \A p \in Platform : Takes(pool[p], Refreshed[p])
<1>1. \A p \in Platform : Takes(pool[p], refresh_keys(pool[p]))
  BY RefreshFacts
<1> QED BY <1>1 DEF Refreshed, Takes

LEMMA KeyInitType == KeyInit => KeyTypeInv
<1> SUFFICES ASSUME KeyInit PROVE KeyTypeInv
  OBVIOUS
<1>1. inbox \in Seq(Message) /\ ProperMail
  BY EmptySeq DEF KeyInit, ProperMail
<1>2. pool \in [Platform -> Pool]
  BY NewPoolFacts DEF KeyInit
<1>3. buffer \in [Client -> Seq(Answer)]
  BY EmptySeq DEF KeyInit
<1>4. wake \in [Client -> 0 .. MaxWait + Grace]
  BY MaxWaitAssumption DEF KeyInit, Grace
<1>5. toPublish \in Seq(Platform \X Key)
  BY KeyAssumption DEF KeyInit
<1> QED BY <1>1, <1>2, <1>3, <1>4, <1>5 DEF KeyInit, KeyTypeInv, KeyTypeOK

LEMMA OrchestratorType ==
  ASSUME KeyTypeInv, HandleMessage
  PROVE  KeyTypeInv'
<1> DEFINE m == Head(inbox)
<1>0. KeyTypeOK /\ pool \in [Platform -> Pool] /\ buffer \in [Client -> Seq(Answer)]
  BY DEF KeyTypeInv, KeyTypeOK
<1>1. CASE HandleShutdown
  <2>1. inbox' \in Seq(Message) /\ ProperMail'
    BY <1>1, EmptySeq DEF HandleShutdown, ProperMail
  <2> QED BY <1>0, <1>1, <2>1 DEF HandleShutdown, KeyTypeInv, KeyTypeOK, keeperVars, clientVars
<1>2. CASE ~ HandleShutdown
  <2>1. inbox # <<>> /\ inbox' = Tail(inbox)
    BY <1>2 DEF HandleMessage, HandlePublish, HandleUnpublish, HandleExpire, HandleInvalidate,
                HandleNew, Receives
  <2>2. inbox' \in Seq(Message) /\ ProperMail' /\ m \in Message /\ Proper(m)
    BY <2>1, HandledType
  <2>3. m.time \in Wait
    BY <2>2 DEF Message
  <2> HIDE DEF m
  <2>4. CASE HandlePublish
    <3>1. m.platform \in Platform /\ m.key \in Key
      BY <2>2, <2>4 DEF HandlePublish, Receives, Proper, m
    <3>2. /\ known' = known \cup {m.platform}
          /\ pool' = [pool EXCEPT ![m.platform] = publish_key(pool[m.platform], m.key)]
          /\ UNCHANGED <<up, toPublish, clientVars>>
      BY <2>4 DEF HandlePublish, m
    <3>3. pool' \in [Platform -> Pool]
      BY <1>0, <3>1, <3>2, PublishFacts
    <3> QED BY <1>0, <2>2, <3>1, <3>2, <3>3 DEF KeyTypeInv, KeyTypeOK, clientVars
  <2>5. CASE HandleUnpublish
    <3>1. m.platform \in Platform /\ m.key \in Key
      BY <2>2, <2>5 DEF HandleUnpublish, Receives, Proper, m
    <3>2. /\ pool' = [pool EXCEPT ![m.platform] = unpublish_key(pool[m.platform], m.key)]
          /\ UNCHANGED <<up, known, toPublish, clientVars>>
      BY <2>5 DEF HandleUnpublish, m
    <3>3. pool' \in [Platform -> Pool]
      BY <1>0, <3>1, <3>2, UnpublishFacts DEF Takes
    <3> QED BY <1>0, <2>2, <3>2, <3>3 DEF KeyTypeInv, KeyTypeOK, clientVars
  <2>6. CASE HandleExpire
    <3>1. m.platform \in Platform /\ m.key \in Key
      BY <2>2, <2>6 DEF HandleExpire, Receives, Proper, m
    <3>2. /\ pool' = [Refreshed EXCEPT ![m.platform] = expire_key(Refreshed[m.platform], m.key, m.time)]
          /\ UNCHANGED <<up, known, toPublish, clientVars>>
      BY <2>6 DEF HandleExpire, m
    <3>3. pool' \in [Platform -> Pool]
      BY <1>0, <2>3, <3>1, <3>2, RefreshedFacts, ExpireFacts DEF Takes
    <3> QED BY <1>0, <2>2, <3>2, <3>3 DEF KeyTypeInv, KeyTypeOK, clientVars
  <2>7. CASE HandleInvalidate
    <3>1. m.platform \in Platform /\ m.key \in Key
      BY <2>2, <2>7 DEF HandleInvalidate, Receives, Proper, m
    <3>2. /\ pool' = IF m.platform \in known
                      THEN [Refreshed EXCEPT ![m.platform] = invalidate_key(Refreshed[m.platform], m.key)]
                      ELSE Refreshed
          /\ UNCHANGED <<up, known, toPublish, clientVars>>
      BY <2>7 DEF HandleInvalidate, m
    <3>3. pool' \in [Platform -> Pool]
      BY <1>0, <3>1, <3>2, RefreshedFacts, InvalidateFacts
    <3> QED BY <1>0, <2>2, <3>2, <3>3 DEF KeyTypeInv, KeyTypeOK, clientVars
  <2>8. CASE HandleNew
    <3>1. m.platform \in Platform
      BY <2>2, <2>8 DEF HandleNew, Receives, Proper, m
    <3>2. pool' = Refreshed /\ UNCHANGED <<up, known, toPublish, pc, key, wake, reported, shared>>
      BY <2>8 DEF HandleNew
    <3>3. \/ \E a \in Answers(Refreshed[m.platform]) : buffer' = Delivered(m.from, a)
          \/ buffer' = buffer
      BY <2>8 DEF HandleNew, m
    <3>4. \A a \in Answers(Refreshed[m.platform]) : Delivered(m.from, a) \in [Client -> Seq(Answer)]
      <4>1. \A a \in Answers(Refreshed[m.platform]) : a \in Answer
        BY <1>0, <3>1, RefreshedFacts, AnswerFacts
      <4>2. \A a \in Answer, c \in Client : Append(buffer[c], a) \in Seq(Answer)
        BY <1>0, AppendFacts
      <4> QED BY <1>0, <4>1, <4>2 DEF Delivered
    <3> QED BY <1>0, <2>2, <3>2, <3>3, <3>4, RefreshedFacts DEF KeyTypeInv, KeyTypeOK
  <2> QED BY <1>2, <2>4, <2>5, <2>6, <2>7, <2>8 DEF HandleMessage
<1> QED BY <1>1, <1>2

LEMMA OutsideType ==
  ASSUME KeyTypeInv, Publish \/ (\E p \in Platform, k \in Key : Unpublish(p, k)) \/ Shutdown
  PROVE  KeyTypeInv'
<1>0. KeyTypeOK /\ toPublish \in Seq(Platform \X Key)
  BY DEF KeyTypeInv, KeyTypeOK
<1>1. CASE Publish
  <2> DEFINE x == Head(toPublish)
             m == Msg("PUBLISH", Null, x[1], x[2], 0)
  <2>1. x \in Platform \X Key /\ toPublish' \in Seq(Platform \X Key)
    BY <1>0, <1>1, TailFacts DEF Publish
  <2>2. Send(m)
    BY <1>1 DEF Publish
  <2>3. x[1] \in Platform /\ x[2] \in Key
    BY <2>1
  <2> HIDE DEF x
  <2>4. m \in Message /\ Proper(m)
    BY <2>3, MsgFacts, WaitFacts DEF Proper
  <2> HIDE DEF m
  <2>5. inbox' \in Seq(Message) /\ ProperMail'
    BY <2>2, <2>4, SendType
  <2> QED BY <1>0, <1>1, <2>1, <2>5 DEF Publish, KeyTypeInv, KeyTypeOK, keeperVars, clientVars
<1>2. ASSUME NEW p \in Platform, NEW k \in Key, Unpublish(p, k)
      PROVE  KeyTypeInv'
  <2> DEFINE m == Msg("UNPUBLISH", Null, p, k, 0)
  <2>1. Send(m) /\ UNCHANGED <<up, keeperVars, toPublish, clientVars>>
    BY <1>2 DEF Unpublish
  <2>2. m \in Message /\ Proper(m)
    BY MsgFacts, WaitFacts DEF Proper
  <2> HIDE DEF m
  <2>3. inbox' \in Seq(Message) /\ ProperMail'
    BY <2>1, <2>2, SendType
  <2> QED BY <1>0, <2>1, <2>3 DEF KeyTypeInv, KeyTypeOK, keeperVars, clientVars
<1>3. CASE Shutdown
  <2> DEFINE m == Msg("SHUTDOWN", Null, Null, Null, 0)
  <2>1. Send(m) /\ UNCHANGED <<up, keeperVars, toPublish, clientVars>>
    BY <1>3 DEF Shutdown
  <2>2. m \in Message /\ m.type = "SHUTDOWN"
    BY WaitFacts DEF Msg, Message
  <2>4. Proper(m)
    BY <2>2 DEF Proper
  <2> HIDE DEF m
  <2>3. inbox' \in Seq(Message) /\ ProperMail'
    BY <2>1, <2>2, <2>4, SendType
  <2> QED BY <1>0, <2>1, <2>3 DEF KeyTypeInv, KeyTypeOK, keeperVars, clientVars
<1> QED BY <1>1, <1>2, <1>3

\* A client sends a message and changes only its own state.
LEMMA SendNewType ==
  ASSUME KeyTypeInv, NEW c \in Client, SendNew(c),
         UNCHANGED <<up, keeperVars, toPublish, key, buffer, wake, reported, shared>>
  PROVE  KeyTypeInv'
<1> DEFINE m == Msg("NEW", Pid(c), PlatformOf[c], Null, 0)
<1>1. Send(m) /\ pc' = [pc EXCEPT ![c] = "waiting"]
  BY DEF SendNew
<1>2. PlatformOf[c] \in Platform /\ Pid(c) \in Client
  BY KeyAssumption, PidType
<1>3. m \in Message /\ m.type = "NEW" /\ m.platform = PlatformOf[c]
  BY <1>2, WaitFacts, MsgFacts
<1>4. Proper(m)
  BY <1>2, <1>3 DEF Proper
<1> HIDE DEF m
<1>5. inbox' \in Seq(Message) /\ ProperMail'
  BY <1>1, <1>3, <1>4, SendType
<1> QED BY <1>1, <1>5 DEF KeyTypeInv, KeyTypeOK, keeperVars

LEMMA ReportType ==
  ASSUME KeyTypeInv, NEW c \in Client, ReportExpired(c) \/ ReportInvalid(c)
  PROVE  KeyTypeInv'
<1>1. key[c] \in Key /\ PlatformOf[c] \in Platform /\ Pid(c) \in Client
  BY KeyAssumption, PidType DEF KeyTypeInv, KeyTypeOK, ReportExpired, ReportInvalid
<1>2. PICK m : /\ m \in Message /\ Proper(m) /\ Send(m)
  <2>1. CASE ReportExpired(c)
    <3>1. PICK t : t \in Wait /\ Send(Msg("EXPIRE", Pid(c), PlatformOf[c], key[c], t))
      BY <2>1 DEF ReportExpired
    <3>2. Msg("EXPIRE", Pid(c), PlatformOf[c], key[c], t) \in Message
      BY <1>1, <3>1, MsgFacts
    <3>3. Proper(Msg("EXPIRE", Pid(c), PlatformOf[c], key[c], t))
      BY <1>1, <3>1, MsgFacts DEF Proper
    <3> QED BY <3>1, <3>2, <3>3
  <2>2. CASE ReportInvalid(c)
    <3>1. Send(Msg("INVALIDATE", Pid(c), PlatformOf[c], key[c], 0))
      BY <2>2 DEF ReportInvalid
    <3>2. Msg("INVALIDATE", Pid(c), PlatformOf[c], key[c], 0) \in Message
      BY <1>1, WaitFacts, MsgFacts
    <3>3. Proper(Msg("INVALIDATE", Pid(c), PlatformOf[c], key[c], 0))
      BY <1>1, WaitFacts, MsgFacts DEF Proper
    <3> QED BY <3>1, <3>2, <3>3
  <2> QED BY <2>1, <2>2
<1>3. inbox' \in Seq(Message) /\ ProperMail'
  BY <1>2, SendType
<1>4. /\ pc' = [pc EXCEPT ![c] = "reporting"]
      /\ UNCHANGED <<up, known, pool, toPublish, key, buffer, wake, shared>>
      /\ reported' = reported \/ reported' = [reported EXCEPT ![c] = reported[c] \cup {key[c]}]
  BY DEF keeperVars, ReportExpired, ReportInvalid
<1>5. reported' \in [Client -> SUBSET Key]
  <2>1. reported \in [Client -> SUBSET Key]
    BY DEF KeyTypeInv, KeyTypeOK
  <2>2. reported[c] \cup {key[c]} \in SUBSET Key
    BY <1>1, <2>1
  <2> QED BY <1>4, <2>1, <2>2
<1> QED BY <1>3, <1>4, <1>5 DEF KeyTypeInv, KeyTypeOK

\* What is discarded goes back to what it was at first.
LEMMA DiscardType ==
  ASSUME KeyTypeOK, NEW cs \in SUBSET Client, Discard(cs)
  PROVE  /\ pc' \in [Client -> {"none", "idle", "reporting", "waiting", "sleeping"}]
         /\ key' \in [Client -> Key \cup {Null}]
         /\ buffer' \in [Client -> Seq(Answer)]
         /\ wake' \in [Client -> 0 .. MaxWait + Grace]
         /\ reported' \in [Client -> SUBSET Key]
         /\ shared' \subseteq Client
<1>1. <<>> \in Seq(Answer) /\ 0 \in 0 .. MaxWait + Grace
  BY EmptySeq, MaxWaitAssumption DEF Grace
<1> QED BY <1>1 DEF KeyTypeOK, Discard

\* The messages of a killed worker stay, as from nobody.
Unsigned(c) == [i \in 1 .. Len(inbox) |-> [inbox[i] EXCEPT !.from = IF @ = c THEN Null ELSE @]]

LEMMA UnsignedFacts ==
  ASSUME KeyTypeOK, NEW c \in Client, inbox' = Unsigned(c)
  PROVE  /\ inbox' \in Seq(Message)
         /\ Len(inbox') = Len(inbox) /\ Len(inbox) \in Nat
         /\ \A i \in 1 .. Len(inbox) :
              /\ inbox'[i].type = inbox[i].type
              /\ inbox'[i].platform = inbox[i].platform
              /\ inbox'[i].key = inbox[i].key
              /\ inbox'[i].from = IF inbox[i].from = c THEN Null ELSE inbox[i].from
<1>1. inbox \in Seq(Message) /\ Len(inbox) \in Nat
  BY LenProperties DEF KeyTypeOK
<1>2. ASSUME NEW i \in 1 .. Len(inbox)
      PROVE  /\ inbox'[i] \in Message
             /\ inbox'[i].type = inbox[i].type
             /\ inbox'[i].platform = inbox[i].platform
             /\ inbox'[i].key = inbox[i].key
             /\ inbox'[i].from = IF inbox[i].from = c THEN Null ELSE inbox[i].from
  <2>1. inbox[i] \in Message
    BY <1>1, ElementOfSeq
  <2>2. inbox'[i] = [inbox[i] EXCEPT !.from = IF inbox[i].from = c THEN Null ELSE inbox[i].from]
    BY DEF Unsigned
  <2> QED BY <2>1, <2>2 DEF Message
<1>3. inbox' \in Seq(Message) /\ Len(inbox') = Len(inbox)
  <2>1. inbox' = [i \in 1 .. Len(inbox) |-> inbox'[i]]
    BY DEF Unsigned
  <2>2. inbox' \in [1 .. Len(inbox) -> Message]
    BY <1>2, <2>1
  <2> QED BY <1>1, <2>1, <2>2, SeqDef, LenProperties, SMTT(30)
<1> QED BY <1>1, <1>2, <1>3

\* Later: what waits is the same, and less is left of its time.
LEMMA LaterFacts ==
  ASSUME KeyTypeOK, Tick
  PROVE  /\ inbox' \in Seq(Message)
         /\ Len(inbox') = Len(inbox) /\ Len(inbox) \in Nat
         /\ \A i \in 1 .. Len(inbox) :
              /\ inbox'[i].type = inbox[i].type
              /\ inbox'[i].platform = inbox[i].platform
              /\ inbox'[i].key = inbox[i].key
              /\ inbox'[i].from = inbox[i].from
         /\ pool' \in [Platform -> Pool]
         /\ \A p \in Platform : Takes(pool[p], pool'[p])
<1>1. inbox \in Seq(Message) /\ Len(inbox) \in Nat
  BY LenProperties DEF KeyTypeOK
<1>0. inbox' = [i \in 1 .. Len(inbox) |-> [inbox[i] EXCEPT !.time = Less(inbox[i].time)]]
  BY DEF Tick
<1>2. ASSUME NEW i \in 1 .. Len(inbox)
      PROVE  /\ inbox'[i] \in Message
             /\ inbox'[i].type = inbox[i].type
             /\ inbox'[i].platform = inbox[i].platform
             /\ inbox'[i].key = inbox[i].key
             /\ inbox'[i].from = inbox[i].from
  <2>1. inbox[i] \in Message
    BY <1>1, ElementOfSeq
  <2>2. inbox'[i] = [inbox[i] EXCEPT !.time = Less(inbox[i].time)]
    BY <1>0
  <2>3. Less(inbox[i].time) \in Wait
    BY <2>1, WaitFacts DEF Message
  <2> QED BY <2>1, <2>2, <2>3 DEF Message
<1>3. inbox' \in Seq(Message) /\ Len(inbox') = Len(inbox)
  <2>1. inbox' = [i \in 1 .. Len(inbox) |-> inbox'[i]]
    BY <1>0
  <2>2. inbox' \in [1 .. Len(inbox) -> Message]
    BY <1>2, <2>1
  <2> QED BY <1>1, <2>1, <2>2, SeqDef, LenProperties, SMTT(30)
<1>4. \A p \in Platform : pool'[p] = Aged(pool[p]) /\ Takes(pool[p], Aged(pool[p]))
  BY AgedFacts DEF Tick, KeyTypeOK
<1>5. pool' \in [Platform -> Pool]
  BY <1>4 DEF Tick, Takes
<1> QED BY <1>1, <1>2, <1>3, <1>4, <1>5

LEMMA ClientType ==
  ASSUME KeyTypeInv, NEW c \in Client,
         CreateClient(c) \/ EndClient(c) \/ KillWorker(c) \/ Receive(c)
  PROVE  KeyTypeInv'
<1>1. CASE CreateClient(c)
  BY <1>1 DEF CreateClient, KeyTypeInv, KeyTypeOK, ProperMail, keeperVars
<1>2. CASE EndClient(c)
  <2>1. UNCHANGED <<up, inbox, known, pool, toPublish>> /\ ProperMail'
    BY <1>2 DEF EndClient, keeperVars, KeyTypeInv, ProperMail
  <2> QED BY <1>2, <2>1, DiscardType DEF EndClient, KeyTypeInv, KeyTypeOK
<1>3. CASE KillWorker(c)
  <2>1. /\ UNCHANGED <<up, known, pool, toPublish>> /\ inbox' = Unsigned(c)
        /\ Discard({d \in Client : Pid(d) = c})
    BY <1>3 DEF KillWorker, keeperVars, Unsigned
  <2>2. inbox' \in Seq(Message) /\ ProperMail'
    BY <2>1, UnsignedFacts DEF KeyTypeInv, ProperMail, Proper
  <2> QED BY <2>1, <2>2, DiscardType DEF KeyTypeInv, KeyTypeOK
<1>4. CASE Receive(c)
  <2> DEFINE a == Head(buffer[c])
  <2>1. buffer[c] \in Seq(Answer) /\ buffer[c] # <<>>
    BY <1>4 DEF Receive, KeyTypeInv, KeyTypeOK
  <2>2. a \in Answer /\ Tail(buffer[c]) \in Seq(Answer)
    BY <2>1, TailFacts
  <2>3. a.wait \in 0 .. MaxWait + Grace /\ a.key \in Key \cup {Null}
    BY <2>2 DEF Answer
  <2>4. /\ \/ pc' = [pc EXCEPT ![c] = "sleeping"] /\ wake' = [wake EXCEPT ![c] = a.wait] /\ key' = key
           \/ pc' = [pc EXCEPT ![c] = "idle"] /\ key' = [key EXCEPT ![c] = a.key] /\ wake' = wake
        /\ buffer' = [buffer EXCEPT ![c] = Tail(buffer[c])]
        /\ UNCHANGED <<up, inbox, known, pool, toPublish, reported, shared>>
    BY <1>4 DEF Receive, keeperVars
  <2> HIDE DEF a
  <2> QED BY <2>2, <2>3, <2>4 DEF KeyTypeInv, KeyTypeOK, ProperMail
<1> QED BY <1>1, <1>2, <1>3, <1>4

LEMMA TickType ==
  ASSUME KeyTypeInv, Tick
  PROVE  KeyTypeInv'
<1>1. inbox' \in Seq(Message) /\ ProperMail' /\ pool' \in [Platform -> Pool]
  BY LaterFacts DEF KeyTypeInv, ProperMail, Proper
<1>2. wake' \in [Client -> 0 .. MaxWait + Grace]
  BY MaxWaitAssumption DEF KeyTypeInv, KeyTypeOK, Tick, Less, Grace
<1> QED BY <1>1, <1>2 DEF KeyTypeInv, KeyTypeOK, Tick

LEMMA KeyNextType ==
  ASSUME KeyTypeInv, [KeyNext]_keyVars
  PROVE  KeyTypeInv'
<1>1. CASE UNCHANGED keyVars
  BY <1>1 DEF keyVars, KeyTypeInv, KeyTypeOK, ProperMail
<1>2. ASSUME NEW c \in Client, Request(c) \/ RequestNext(c) \/ WakeUp(c)
      PROVE  KeyTypeInv'
  BY <1>2, SendNewType DEF Request, RequestNext, WakeUp
<1> QED BY <1>1, <1>2, OutsideType, OrchestratorType, ClientType, ReportType, TickType
        DEF KeyNext, Proceed

\* The state keeps its type, and every message names what its handler looks up.
THEOREM KeyTypeCorrect == KeySpec => []KeyTypeOK
<1>1. KeyTypeInv => KeyTypeOK
  BY DEF KeyTypeInv
<1> QED BY KeyInitType, KeyNextType, <1>1, PTL DEF KeySpec

-----------------------------------------------------------------------------
(* The messages and the keys. *)

PublishedOnce == \A i, j \in 1 .. Len(Published) : Published[i] = Published[j] => i = j

\* No key is published twice.
PublishOrder ==
  /\ \A i, j \in 1 .. Len(toPublish) : toPublish[i] = toPublish[j] => i = j
  /\ \A i, j \in 1 .. Len(inbox) :
       /\ inbox[i].type = "PUBLISH" /\ inbox[j].type = "PUBLISH"
       /\ inbox[i].platform = inbox[j].platform /\ inbox[i].key = inbox[j].key
       => i = j
  /\ \A p \in Platform : \A k \in Key : ~ (Sent(p, k) /\ Left(p, k))

\* A key is not to be had before it is published, and then from one place.
HadInv ==
  \A p \in Platform : \A k \in Key :
    /\ Pending(p, k) => Out(pool[p], k)
    /\ HadOnce(pool[p], k)

\* Nor is it invalid before, or invalid and to be had: what holds if no key is
\* reported before it is published.
PoolInv ==
  \A p \in Platform : \A k \in Key :
    /\ Pending(p, k) => Absent(pool[p], k)
    /\ OnceIn(pool[p], k)

ReportedLate ==
  \A i \in 1 .. Len(inbox) :
    i = 1 /\ inbox[i].type = "INVALIDATE" => ~ Pending(inbox[i].platform, inbox[i].key)

\* What a step keeps, by what it does to the messages: d of them are taken out
\* at the front.

Alike(m, n) ==
  /\ n.type = m.type
  /\ n.platform = m.platform
  /\ n.key = m.key
  /\ n.from = m.from \/ n.from = Null

\* There is no message of these types that was not there.
NoneAdded(types, d) ==
  \A i \in 1 .. Len(inbox') :
    inbox'[i].type \in types => i + d \in 1 .. Len(inbox) /\ Alike(inbox[i + d], inbox'[i])

\* Nor is any gone but the first d.
NoneLost(d) ==
  \A i \in 1 .. Len(inbox) :
    i > d => i - d \in 1 .. Len(inbox') /\ Alike(inbox[i], inbox'[i - d])

NoMorePending == \A p \in Platform : \A k \in Key : Pending(p, k)' => Pending(p, k)

\* A key that is out does not come back unless it is yet to be published, and
\* a key that is yet to be published does not become expired.
KeysGoOn ==
  /\ NoMorePending
  /\ \A p \in Platform : \A k \in Key :
       /\ ~ Pending(p, k) /\ Out(pool[p], k) => Out(pool'[p], k)
       /\ Pending(p, k) => k \notin DOMAIN pool'[p].expired

LEMMA OrderKept ==
  ASSUME KeyTypeInv, PublishOrder, toPublish' = toPublish,
         NEW types, "PUBLISH" \in types, NEW d \in {0, 1}, NoneAdded(types, d)
  PROVE  PublishOrder' /\ NoMorePending
<1>1. ASSUME NEW i \in 1 .. Len(inbox'), inbox'[i].type = "PUBLISH"
      PROVE  /\ i + d \in 1 .. Len(inbox) /\ inbox[i + d].type = "PUBLISH"
             /\ inbox[i + d].platform = inbox'[i].platform /\ inbox[i + d].key = inbox'[i].key
  BY <1>1 DEF NoneAdded, Alike
<1>2. \A p \in Platform : \A k \in Key : Sent(p, k)' => Sent(p, k)
  <2> SUFFICES ASSUME NEW p \in Platform, NEW k \in Key, NEW i \in 1 .. Len(inbox'),
                      inbox'[i].type = "PUBLISH", inbox'[i].platform = p, inbox'[i].key = k
               PROVE  Sent(p, k)
    BY DEF Sent
  <2> QED BY <1>1 DEF Sent
<1>3. \A p \in Platform : \A k \in Key : Left(p, k)' <=> Left(p, k)
  BY DEF Left
<1>4. ASSUME NEW i \in 1 .. Len(inbox'), NEW j \in 1 .. Len(inbox'),
             inbox'[i].type = "PUBLISH", inbox'[j].type = "PUBLISH",
             inbox'[i].platform = inbox'[j].platform, inbox'[i].key = inbox'[j].key
      PROVE  i = j
  <2>1. i + d = j + d
    BY <1>1, <1>4 DEF PublishOrder
  <2> QED BY <2>1
<1>5. PublishOrder'
  BY <1>2, <1>3, <1>4 DEF PublishOrder
<1> QED BY <1>2, <1>3, <1>5 DEF NoMorePending, Pending

LEMMA PoolKept ==
  ASSUME PoolInv, NoMorePending,
         \A p \in Platform : \A k \in Key :
           /\ OnceIn(pool[p], k) => OnceIn(pool'[p], k)
           /\ Absent(pool[p], k) /\ Pending(p, k)' => Absent(pool'[p], k)
  PROVE  PoolInv'
BY DEF PoolInv, NoMorePending

\* A step that publishes nothing and brings no key back.
LEMMA KeysKept ==
  ASSUME KeyTypeInv, PublishOrder, HadInv, toPublish' = toPublish,
         NEW types, "PUBLISH" \in types, NEW d \in {0, 1}, NoneAdded(types, d),
         \A p \in Platform : \A k \in Key :
           /\ Out(pool[p], k) => Out(pool'[p], k)
           /\ HadOnce(pool[p], k) => HadOnce(pool'[p], k)
  PROVE  PublishOrder' /\ HadInv' /\ KeysGoOn
<1>1. PublishOrder' /\ NoMorePending
  BY OrderKept
<1>2. HadInv'
  BY <1>1 DEF HadInv, NoMorePending
<1>3. KeysGoOn
  BY <1>1 DEF HadInv, Out, KeysGoOn
<1> QED BY <1>1, <1>2, <1>3

-----------------------------------------------------------------------------
(* What the steps do to the messages. *)

LEMMA SentMail ==
  ASSUME KeyTypeInv, NEW m \in Message, Send(m), NEW types, m.type \notin types
  PROVE  NoneAdded(types, 0) /\ NoneLost(0)
<1>0. KeyTypeOK
  BY DEF KeyTypeInv
<1>1. ASSUME NEW i \in 1 .. Len(inbox'), inbox'[i].type \in types
      PROVE  i + 0 \in 1 .. Len(inbox) /\ Alike(inbox[i + 0], inbox'[i])
  BY <1>0, <1>1, SentFacts DEF Alike
<1>2. ASSUME NEW i \in 1 .. Len(inbox)
      PROVE  i - 0 \in 1 .. Len(inbox') /\ Alike(inbox[i], inbox'[i - 0])
  BY <1>0, SentFacts DEF Alike
<1> QED BY <1>1, <1>2 DEF NoneAdded, NoneLost

LEMMA HandledMail ==
  ASSUME KeyTypeInv, inbox # <<>>, inbox' = Tail(inbox), NEW types
  PROVE  NoneAdded(types, 1) /\ NoneLost(1)
<1>0. KeyTypeOK
  BY DEF KeyTypeInv
<1>1. ASSUME NEW i \in 1 .. Len(inbox')
      PROVE  i + 1 \in 1 .. Len(inbox) /\ Alike(inbox[i + 1], inbox'[i])
  BY <1>0, <1>1, HandledFacts DEF Alike
<1>2. ASSUME NEW i \in 1 .. Len(inbox), i > 1
      PROVE  i - 1 \in 1 .. Len(inbox') /\ Alike(inbox[i], inbox'[i - 1])
  BY <1>0, <1>2, HandledFacts DEF Alike
<1> QED BY <1>1, <1>2 DEF NoneAdded, NoneLost

LEMMA SameMail ==
  ASSUME KeyTypeInv, NEW types,
         inbox' = inbox \/ Tick \/ (\E c \in Client : inbox' = Unsigned(c))
  PROVE  NoneAdded(types, 0) /\ NoneLost(0)
<1>0. KeyTypeOK
  BY DEF KeyTypeInv
<1>1. Len(inbox') = Len(inbox) /\ Len(inbox) \in Nat
  BY <1>0, LaterFacts, UnsignedFacts, LenProperties DEF KeyTypeOK
<1>2. \A i \in 1 .. Len(inbox) : Alike(inbox[i], inbox'[i])
  <2>1. CASE inbox' = inbox
    BY <2>1 DEF Alike
  <2>2. CASE Tick
    BY <1>0, <2>2, LaterFacts DEF Alike
  <2>3. CASE \E c \in Client : inbox' = Unsigned(c)
    BY <1>0, <2>3, UnsignedFacts DEF Alike
  <2> QED BY <2>1, <2>2, <2>3
<1>3. \A i \in 1 .. Len(inbox) : i + 0 = i /\ i - 0 = i
  OBVIOUS
<1> QED BY <1>1, <1>2, <1>3 DEF NoneAdded, NoneLost

LEMMA NoMail ==
  ASSUME inbox' = <<>>, NEW types, NEW d
  PROVE  NoneAdded(types, d)
<1>1. \A i \in 1 .. Len(inbox') : FALSE
  BY EmptySeq
<1> QED BY <1>1 DEF NoneAdded

\* What is sent from outside, and by a client.
LEMMA OutsideSends ==
  /\ \A p \in Platform, k \in Key : Unpublish(p, k) =>
       \E m \in Message : m.type = "UNPUBLISH" /\ Send(m)
  /\ Shutdown => \E m \in Message : m.type = "SHUTDOWN" /\ Send(m)
<1>1. ASSUME NEW p \in Platform, NEW k \in Key, Unpublish(p, k)
      PROVE  \E m \in Message : m.type = "UNPUBLISH" /\ Send(m)
  <2>1. Msg("UNPUBLISH", Null, p, k, 0) \in Message /\ Msg("UNPUBLISH", Null, p, k, 0).type = "UNPUBLISH"
    BY MsgFacts, WaitFacts
  <2> QED BY <1>1, <2>1 DEF Unpublish
<1>2. ASSUME Shutdown PROVE \E m \in Message : m.type = "SHUTDOWN" /\ Send(m)
  <2>1. /\ Msg("SHUTDOWN", Null, Null, Null, 0) \in Message
        /\ Msg("SHUTDOWN", Null, Null, Null, 0).type = "SHUTDOWN"
    BY WaitFacts DEF Msg, Message
  <2> QED BY <1>2, <2>1 DEF Shutdown
<1> QED BY <1>1, <1>2

LEMMA ClientSends ==
  ASSUME KeyTypeInv, NEW c \in Client
  PROVE  /\ ReportExpired(c) => \E m \in Message : m.type = "EXPIRE" /\ Send(m)
         /\ ReportInvalid(c) => \E m \in Message :
              m.type = "INVALIDATE" /\ m.platform = PlatformOf[c] /\ m.key = key[c] /\ Send(m)
         /\ SendNew(c) => \E m \in Message :
              m.type = "NEW" /\ m.from = Pid(c) /\ m.platform = PlatformOf[c] /\ Send(m)
<1>0. PlatformOf[c] \in Platform /\ Pid(c) \in Client
  BY KeyAssumption, PidType
<1>1. ASSUME ReportExpired(c) PROVE \E m \in Message : m.type = "EXPIRE" /\ Send(m)
  <2>1. PICK t : t \in Wait /\ Send(Msg("EXPIRE", Pid(c), PlatformOf[c], key[c], t))
    BY <1>1 DEF ReportExpired
  <2>2. key[c] \in Key
    BY <1>1 DEF KeyTypeInv, KeyTypeOK, ReportExpired
  <2>3. /\ Msg("EXPIRE", Pid(c), PlatformOf[c], key[c], t) \in Message
        /\ Msg("EXPIRE", Pid(c), PlatformOf[c], key[c], t).type = "EXPIRE"
    BY <1>0, <2>1, <2>2, MsgFacts
  <2> QED BY <2>1, <2>3
<1>2. ASSUME ReportInvalid(c)
      PROVE  \E m \in Message :
               m.type = "INVALIDATE" /\ m.platform = PlatformOf[c] /\ m.key = key[c] /\ Send(m)
  <2> DEFINE m == Msg("INVALIDATE", Pid(c), PlatformOf[c], key[c], 0)
  <2>1. Send(m) /\ key[c] \in Key
    BY <1>2 DEF KeyTypeInv, KeyTypeOK, ReportInvalid
  <2>2. m \in Message /\ m.type = "INVALIDATE" /\ m.platform = PlatformOf[c] /\ m.key = key[c]
    BY <1>0, <2>1, MsgFacts, WaitFacts
  <2> HIDE DEF m
  <2> QED BY <2>1, <2>2
<1>3. ASSUME SendNew(c)
      PROVE  \E m \in Message :
               m.type = "NEW" /\ m.from = Pid(c) /\ m.platform = PlatformOf[c] /\ Send(m)
  <2> DEFINE m == Msg("NEW", Pid(c), PlatformOf[c], Null, 0)
  <2>1. Send(m)
    BY <1>3 DEF SendNew
  <2>2. m \in Message /\ m.type = "NEW" /\ m.from = Pid(c) /\ m.platform = PlatformOf[c]
    BY <1>0, MsgFacts, WaitFacts
  <2> HIDE DEF m
  <2> QED BY <2>1, <2>2
<1> QED BY <1>1, <1>2, <1>3

\* The steps that leave the keys as they are, and publish nothing.
Aside ==
  \/ \E p \in Platform, k \in Key : Unpublish(p, k)
  \/ Shutdown
  \/ \E c \in Client :
       \/ CreateClient(c) \/ EndClient(c) \/ KillWorker(c) \/ Receive(c)
       \/ Request(c) \/ RequestNext(c) \/ WakeUp(c)
       \/ ReportExpired(c) \/ ReportInvalid(c)

LEMMA AsideMail ==
  ASSUME KeyTypeInv, Aside
  PROVE  NoneAdded({"PUBLISH"}, 0) /\ NoneLost(0) /\ UNCHANGED <<up, known, pool, toPublish>>
<1>1. UNCHANGED <<up, known, pool, toPublish>>
  BY DEF Aside, Unpublish, Shutdown, CreateClient, EndClient, KillWorker, Receive, Request,
         RequestNext, WakeUp, ReportExpired, ReportInvalid, keeperVars
<1>2. ASSUME NEW m \in Message, m.type # "PUBLISH", Send(m)
      PROVE  NoneAdded({"PUBLISH"}, 0) /\ NoneLost(0)
  BY <1>2, SentMail
<1>3. CASE (\E p \in Platform, k \in Key : Unpublish(p, k)) \/ Shutdown
  <2>1. PICK m \in Message : m.type \in {"UNPUBLISH", "SHUTDOWN"} /\ Send(m)
    BY <1>3, OutsideSends
  <2>2. m.type # "PUBLISH"
    BY <2>1
  <2> QED BY <1>1, <1>2, <2>1, <2>2
<1>4. ASSUME NEW c \in Client,
             CreateClient(c) \/ EndClient(c) \/ KillWorker(c) \/ Receive(c)
      PROVE  NoneAdded({"PUBLISH"}, 0) /\ NoneLost(0)
  <2>1. inbox' = inbox \/ inbox' = Unsigned(c)
    BY <1>4 DEF CreateClient, EndClient, KillWorker, Receive, Unsigned
  <2> QED BY <2>1, SameMail
<1>5. ASSUME NEW c \in Client,
             Request(c) \/ RequestNext(c) \/ WakeUp(c) \/ ReportExpired(c) \/ ReportInvalid(c)
      PROVE  NoneAdded({"PUBLISH"}, 0) /\ NoneLost(0)
  <2>1. SendNew(c) \/ ReportExpired(c) \/ ReportInvalid(c)
    BY <1>5 DEF Request, RequestNext, WakeUp
  <2> QED BY <1>2, <2>1, ClientSends
<1> QED BY <1>1, <1>3, <1>4, <1>5 DEF Aside

-----------------------------------------------------------------------------
(* What the steps do to the keys. *)

LEMMA PublishKeys ==
  ASSUME KeyTypeInv, PublishOrder, Publish
  PROVE  PublishOrder' /\ NoMorePending
<1> DEFINE x == toPublish[1]
           m == Msg("PUBLISH", Null, x[1], x[2], 0)
<1>0. KeyTypeInv /\ KeyTypeOK /\ toPublish \in Seq(Platform \X Key) /\ toPublish # <<>>
  BY DEF KeyTypeInv, KeyTypeOK, Publish
<1>1. /\ toPublish' = Tail(toPublish)
      /\ UNCHANGED <<up, known, pool, pc, key, buffer, wake, reported>>
  BY DEF Publish, keeperVars, clientVars
<1>2. /\ x \in Platform \X Key /\ 1 \in 1 .. Len(toPublish)
      /\ \A i \in 1 .. Len(toPublish') : i + 1 \in 1 .. Len(toPublish) /\ toPublish'[i] = toPublish[i + 1]
  <2>1. Len(toPublish) \in Nat \ {0}
    BY <1>0, TailFacts
  <2>2. 1 \in 1 .. Len(toPublish)
    BY <2>1
  <2> QED BY <1>0, <1>1, <2>2, TailFacts
<1>3. Send(m)
  BY <1>0, TailFacts DEF Publish
<1>4. x[1] \in Platform /\ x[2] \in Key /\ x = <<x[1], x[2]>>
  BY <1>2
<1>5. Left(x[1], x[2])
  BY <1>2, <1>4 DEF Left
<1> HIDE DEF x
<1>6. m \in Message /\ m.type = "PUBLISH" /\ m.platform = x[1] /\ m.key = x[2]
  <2> DEFINE p == x[1]
             k == x[2]
  <2>1. p \in Platform /\ k \in Key
    BY <1>4
  <2> HIDE DEF p, k
  <2>2. LET y == Msg("PUBLISH", Null, p, k, 0)
        IN  y \in Message /\ y.type = "PUBLISH" /\ y.platform = p /\ y.key = k
    BY <2>1, MsgFacts, WaitFacts
  <2> QED BY <2>2 DEF p, k
<1> HIDE DEF m
<1>7. /\ Len(inbox) \in Nat
      /\ \A i \in 1 .. Len(inbox') : (i \in 1 .. Len(inbox) /\ inbox'[i] = inbox[i])
                                     \/ (i = Len(inbox) + 1 /\ inbox'[i] = m)
  BY <1>0, <1>3, <1>6, SentFacts
<1>8. ASSUME NEW p \in Platform, NEW k \in Key, Left(p, k)'
      PROVE  Left(p, k) /\ <<p, k>> # x
  <2>1. PICK i : i \in 1 .. Len(toPublish') /\ toPublish'[i] = <<p, k>>
    BY <1>8 DEF Left
  <2>2. i + 1 \in 1 .. Len(toPublish) /\ toPublish[i + 1] = <<p, k>>
    BY <1>2, <2>1
  <2>3. <<p, k>> # x
    <3>1. SUFFICES ASSUME toPublish[i + 1] = toPublish[1] PROVE FALSE
      BY <2>2 DEF x
    <3>2. i + 1 = 1
      BY <1>2, <2>2, <3>1 DEF PublishOrder
    <3> QED BY <2>1, <3>2
  <2> QED BY <2>2, <2>3 DEF Left
<1>9. ASSUME NEW p \in Platform, NEW k \in Key, Sent(p, k)'
      PROVE  Sent(p, k) \/ <<p, k>> = x
  <2>1. PICK i : /\ i \in 1 .. Len(inbox')
                 /\ inbox'[i].type = "PUBLISH" /\ inbox'[i].platform = p /\ inbox'[i].key = k
    BY <1>9 DEF Sent
  <2>2. CASE i \in 1 .. Len(inbox) /\ inbox'[i] = inbox[i]
    BY <2>1, <2>2 DEF Sent
  <2>3. CASE inbox'[i] = m
    BY <2>1, <2>3, <1>6, <1>4
  <2> QED BY <1>7, <2>1, <2>2, <2>3
<1>10. ~ Sent(x[1], x[2])
  BY <1>4, <1>5 DEF PublishOrder
<1>11. PublishOrder'
  <2>1. ASSUME NEW i \in 1 .. Len(toPublish'), NEW j \in 1 .. Len(toPublish'),
               toPublish'[i] = toPublish'[j]
        PROVE  i = j
    <3>1. i + 1 = j + 1
      BY <1>2, <2>1 DEF PublishOrder
    <3> QED BY <3>1
  <2>2. ASSUME NEW i \in 1 .. Len(inbox'), NEW j \in 1 .. Len(inbox'),
               inbox'[i].type = "PUBLISH", inbox'[j].type = "PUBLISH",
               inbox'[i].platform = inbox'[j].platform, inbox'[i].key = inbox'[j].key
        PROVE  i = j
    <3>1. CASE i \in 1 .. Len(inbox) /\ inbox'[i] = inbox[i] /\ j \in 1 .. Len(inbox) /\ inbox'[j] = inbox[j]
      BY <2>2, <3>1 DEF PublishOrder
    <3>2. CASE i \in 1 .. Len(inbox) /\ inbox'[i] = inbox[i] /\ inbox'[j] = m
      BY <2>2, <3>2, <1>6, <1>10 DEF Sent
    <3>3. CASE j \in 1 .. Len(inbox) /\ inbox'[j] = inbox[j] /\ inbox'[i] = m
      BY <2>2, <3>3, <1>6, <1>10 DEF Sent
    <3> QED BY <1>7, <3>1, <3>2, <3>3
  <2>3. \A p \in Platform : \A k \in Key : ~ (Sent(p, k)' /\ Left(p, k)')
    BY <1>8, <1>9 DEF PublishOrder
  <2> QED BY <2>1, <2>2, <2>3 DEF PublishOrder
<1>12. NoMorePending
  BY <1>4, <1>5, <1>8, <1>9 DEF NoMorePending, Pending
<1> QED BY <1>11, <1>12

LEMMA PublishMail ==
  ASSUME KeyTypeInv, Publish
  PROVE  NoneAdded({"NEW", "INVALIDATE"}, 0) /\ NoneLost(0)
<1> DEFINE x == Head(toPublish)
           m == Msg("PUBLISH", Null, x[1], x[2], 0)
<1>1. Send(m)
  BY DEF Publish
<1>2. x \in Platform \X Key
  BY TailFacts DEF KeyTypeInv, KeyTypeOK, Publish
<1>3. x[1] \in Platform /\ x[2] \in Key
  BY <1>2
<1> HIDE DEF x
<1>4. m \in Message /\ m.type = "PUBLISH"
  <2> DEFINE p == x[1]
             k == x[2]
  <2>1. p \in Platform /\ k \in Key
    BY <1>3
  <2> HIDE DEF p, k
  <2>2. LET y == Msg("PUBLISH", Null, p, k, 0) IN y \in Message /\ y.type = "PUBLISH"
    BY <2>1, MsgFacts, WaitFacts
  <2> QED BY <2>2 DEF p, k
<1> HIDE DEF m
<1> QED BY <1>1, <1>4, SentMail

LEMMA RemoveKeys ==
  ASSUME KeyTypeInv, KeyTypeInv', PublishOrder, HadInv,
         HandleUnpublish \/ HandleExpire \/ HandleInvalidate
  PROVE  /\ PublishOrder' /\ HadInv' /\ KeysGoOn
         /\ PoolInv /\ ReportedLate => PoolInv'
         /\ \A p \in Platform : \A x \in Key :
              (/\ HandleInvalidate /\ inbox[1].platform \in known
               /\ p = inbox[1].platform /\ x = inbox[1].key) => Out(pool'[p], x)
<1> DEFINE m == inbox[1]
<1>0. /\ KeyTypeInv /\ KeyTypeOK /\ inbox # <<>> /\ inbox' = Tail(inbox)
      /\ pool \in [Platform -> Pool] /\ pool' \in [Platform -> Pool]
      /\ UNCHANGED <<up, known, toPublish, pc, key, buffer, wake, reported>>
  BY DEF KeyTypeInv, KeyTypeOK, HandleUnpublish, HandleExpire, HandleInvalidate, Receives,
         clientVars
<1>1. Head(inbox) = m /\ m \in Message /\ m.time \in Wait /\ 1 \in 1 .. Len(inbox)
  BY <1>0, HandledFacts DEF Message
<1>2. m.platform \in Platform /\ m.key \in Key
  BY <1>0, <1>1 DEF KeyTypeInv, ProperMail, Proper, HandleUnpublish, HandleExpire, HandleInvalidate,
                    Receives
<1>3. NoneAdded({"PUBLISH", "NEW", "INVALIDATE"}, 1) /\ NoneLost(1)
  BY <1>0, HandledMail
<1>5. \A p \in Platform : Takes(pool[p], Refreshed[p]) /\ Refreshed[p] \in Pool
  BY <1>0, RefreshedFacts
<1>6. ASSUME NEW p \in Platform, NEW x \in Key
      PROVE  /\ Out(pool[p], x) => Out(pool'[p], x)
             /\ HadOnce(pool[p], x) => HadOnce(pool'[p], x)
             /\ OnceIn(pool[p], x) => OnceIn(pool'[p], x)
             /\ Absent(pool[p], x) /\ (HandleInvalidate => p # m.platform \/ x # m.key)
                  => Absent(pool'[p], x)
             /\ HandleInvalidate /\ m.platform \in known /\ p = m.platform /\ x = m.key => Out(pool'[p], x)
  <2>1. CASE HandleUnpublish
    <3>1. pool' = [pool EXCEPT ![m.platform] = unpublish_key(pool[m.platform], m.key)]
      BY <1>1, <2>1 DEF HandleUnpublish
    <3>2. Takes(pool[p], pool'[p])
      BY <1>0, <1>2, <3>1, UnpublishFacts DEF Takes
    <3>3. ~ HandleInvalidate
      BY <2>1 DEF HandleUnpublish, HandleInvalidate, Receives
    <3> QED BY <3>2, <3>3 DEF Takes
  <2>2. CASE HandleExpire
    <3>1. pool' = [Refreshed EXCEPT ![m.platform] = expire_key(Refreshed[m.platform], m.key, m.time)]
      BY <1>1, <2>2 DEF HandleExpire
    <3>2. Takes(pool[p], pool'[p])
      <4>1. CASE p = m.platform
        <5>1. pool'[p] = expire_key(Refreshed[p], m.key, m.time)
          BY <1>0, <3>1, <4>1, RefreshedFacts
        <5>2. Takes(Refreshed[p], pool'[p])
          BY <1>1, <1>2, <1>5, <5>1, ExpireFacts
        <5> QED BY <1>5, <5>2, TakesTwice
      <4>2. CASE p # m.platform
        <5>1. pool'[p] = Refreshed[p]
          BY <1>0, <3>1, <4>2, RefreshedFacts
        <5> QED BY <1>5, <5>1
      <4> QED BY <4>1, <4>2
    <3>3. ~ HandleInvalidate
      BY <2>2 DEF HandleExpire, HandleInvalidate, Receives
    <3> QED BY <3>2, <3>3 DEF Takes
  <2>3. CASE HandleInvalidate
    <3>1. pool' = IF m.platform \in known
                  THEN [Refreshed EXCEPT ![m.platform] = invalidate_key(Refreshed[m.platform], m.key)]
                  ELSE Refreshed
      BY <1>1, <2>3 DEF HandleInvalidate
    <3>2. CASE p = m.platform /\ m.platform \in known
      <4>1. pool'[p] = invalidate_key(Refreshed[p], m.key)
        BY <1>0, <3>1, <3>2, RefreshedFacts
      <4>2. /\ Out(Refreshed[p], x) => Out(pool'[p], x)
            /\ HadOnce(Refreshed[p], x) => HadOnce(pool'[p], x)
            /\ OnceIn(Refreshed[p], x) => OnceIn(pool'[p], x)
            /\ Absent(Refreshed[p], x) /\ x # m.key => Absent(pool'[p], x)
            /\ HadOnce(Refreshed[p], m.key) => Out(pool'[p], m.key)
        BY <1>2, <1>5, <4>1, InvalidateFacts
      <4>3. /\ Out(pool[p], x) => Out(Refreshed[p], x)
            /\ HadOnce(pool[p], x) => HadOnce(Refreshed[p], x)
            /\ OnceIn(pool[p], x) => OnceIn(Refreshed[p], x)
            /\ Absent(pool[p], x) => Absent(Refreshed[p], x)
        BY <1>5 DEF Takes
      <4>4. HadOnce(Refreshed[p], m.key)
        BY <1>2, <1>5 DEF Takes, HadInv
      <4> QED BY <2>3, <3>2, <4>2, <4>3, <4>4
    <3>3. CASE p # m.platform \/ m.platform \notin known
      <4>1. pool'[p] = Refreshed[p]
        BY <1>0, <3>1, <3>3, RefreshedFacts
      <4> QED BY <1>5, <3>3, <4>1 DEF Takes
    <3> QED BY <3>2, <3>3
  <2> QED BY <2>1, <2>2, <2>3
<1>7. PublishOrder' /\ HadInv' /\ KeysGoOn
  BY <1>0, <1>3, <1>6, KeysKept
<1>8. ASSUME PoolInv, ReportedLate PROVE PoolInv'
  <2>1. NoMorePending
    BY <1>7 DEF KeysGoOn
  <2>2. ASSUME HandleInvalidate PROVE ~ Pending(m.platform, m.key)
    <3>1. m.type = "INVALIDATE"
      BY <1>1, <2>2 DEF HandleInvalidate, Receives
    <3> QED BY <1>1, <1>8, <3>1 DEF ReportedLate
  <2>3. \A p \in Platform : \A x \in Key :
          Pending(p, x)' => (HandleInvalidate => p # m.platform \/ x # m.key)
    BY <1>2, <2>1, <2>2 DEF NoMorePending
  <2> QED BY <1>6, <1>8, <2>1, <2>3, PoolKept
<1> QED BY <1>6, <1>7, <1>8

LEMMA HandlePublishKeys ==
  ASSUME KeyTypeInv, PublishOrder, HadInv, HandlePublish
  PROVE  /\ PublishOrder' /\ HadInv' /\ KeysGoOn
         /\ PoolInv => PoolInv'
<1> DEFINE m == inbox[1]
<1>0. /\ KeyTypeInv /\ KeyTypeOK /\ inbox # <<>> /\ inbox' = Tail(inbox)
      /\ pool \in [Platform -> Pool]
      /\ UNCHANGED <<up, toPublish, pc, key, buffer, wake, reported>>
  BY DEF KeyTypeInv, KeyTypeOK, HandlePublish, Receives, clientVars
<1>1. /\ Head(inbox) = m /\ m \in Message /\ 1 \in 1 .. Len(inbox)
      /\ m.type = "PUBLISH"
  BY <1>0, HandledFacts DEF HandlePublish, Receives
<1>2. m.platform \in Platform /\ m.key \in Key
  BY <1>0, <1>1 DEF KeyTypeInv, ProperMail, Proper
<1>3. /\ pool' = [pool EXCEPT ![m.platform] = publish_key(pool[m.platform], m.key)]
      /\ known \subseteq known'
  BY <1>1 DEF HandlePublish
<1>4. NoneAdded({"PUBLISH", "NEW", "INVALIDATE"}, 1) /\ NoneLost(1)
  BY <1>0, HandledMail
<1>5. PublishOrder' /\ NoMorePending
  BY <1>0, <1>4, OrderKept
<1>6. Sent(m.platform, m.key)
  BY <1>1 DEF Sent
<1>7. ASSUME NEW p, p = m.platform, NEW k, k = m.key
      PROVE  ~ Pending(p, k)'
  <2>1. ~ Left(m.platform, m.key)
    BY <1>2, <1>6 DEF PublishOrder
  <2>2. ASSUME NEW i \in 1 .. Len(inbox'), inbox'[i].type = "PUBLISH",
               inbox'[i].platform = m.platform, inbox'[i].key = m.key
        PROVE  FALSE
    <3>1. i + 1 \in 1 .. Len(inbox) /\ inbox'[i] = inbox[i + 1]
      BY <1>0, HandledFacts
    <3>2. i + 1 = 1
      BY <1>1, <2>2, <3>1 DEF PublishOrder
    <3> QED BY <3>2
  <2>3. \A i \in 1 .. Len(toPublish') : toPublish'[i] # <<m.platform, m.key>>
    BY <1>0, <2>1 DEF Left
  <2> HIDE DEF m
  <2> QED BY <1>7, <2>2, <2>3 DEF Pending, Sent, Left
<1>8. ASSUME NEW p \in Platform, NEW x \in Key
      PROVE  /\ HadOnce(pool[p], x) => HadOnce(pool'[p], x)
             /\ Pending(p, x)' => p # m.platform \/ x # m.key
             /\ p # m.platform \/ x # m.key =>
                  /\ Out(pool[p], x) => Out(pool'[p], x)
                  /\ OnceIn(pool[p], x) => OnceIn(pool'[p], x)
                  /\ Absent(pool[p], x) => Absent(pool'[p], x)
             /\ ~ Pending(p, x) => p # m.platform \/ x # m.key
             /\ PoolInv /\ p = m.platform /\ x = m.key => OnceIn(pool'[p], x)
  <2>1. CASE p # m.platform
    <3>1. pool'[p] = pool[p]
      BY <1>0, <1>3, <2>1
    <3> QED BY <2>1, <3>1
  <2>2. CASE p = m.platform /\ x # m.key
    <3>1. pool'[p] = publish_key(pool[p], m.key) /\ pool[p] \in Pool
      BY <1>0, <1>3, <2>2
    <3> QED BY <1>2, <2>2, <3>1, PublishFacts
  <2>3. CASE p = m.platform /\ x = m.key
    <3>1. pool'[p] = publish_key(pool[p], m.key) /\ pool[p] \in Pool
      BY <1>0, <1>3, <2>3
    <3>2. Pending(p, x)
      BY <1>6, <2>3 DEF Pending
    <3>3. HadOnce(pool'[p], x)
      BY <1>2, <2>3, <3>1, <3>2, PublishFacts DEF HadInv
    <3>4. PoolInv => OnceIn(pool'[p], x)
      BY <1>2, <2>3, <3>1, <3>2, PublishFacts DEF PoolInv
    <3>5. ~ Pending(p, x)'
      BY <1>7, <2>3
    <3> QED BY <2>3, <3>2, <3>3, <3>4, <3>5
  <2> QED BY <2>1, <2>2, <2>3
<1>9. HadInv' /\ (PoolInv => PoolInv')
  <2>1. HadInv'
    BY <1>5, <1>8 DEF HadInv, NoMorePending
  <2>2. ASSUME PoolInv PROVE PoolInv'
    BY <1>5, <1>8, <2>2 DEF PoolInv, NoMorePending
  <2> QED BY <2>1, <2>2
<1>10. ASSUME NEW p \in Platform PROVE pool'[p].expired = pool[p].expired
  <2>1. CASE p # m.platform
    BY <1>0, <1>3, <2>1
  <2>2. CASE p = m.platform
    <3>1. pool'[p] = publish_key(pool[p], m.key) /\ pool[p] \in Pool
      BY <1>0, <1>3, <2>2
    <3> HIDE DEF m
    <3> QED BY <3>1 DEF publish_key, Added, Pool
  <2> QED BY <2>1, <2>2
<1>11. KeysGoOn
  BY <1>5, <1>8, <1>10 DEF KeysGoOn, HadInv, Out
<1> QED BY <1>5, <1>9, <1>11

\* Every step leaves the keys in order; and if none is reported before it is
\* published, a key is in one state.
LEMMA KeysStep ==
  ASSUME KeyTypeInv, KeyTypeInv', PublishOrder, HadInv, KeyNext
  PROVE  /\ PublishOrder' /\ HadInv' /\ KeysGoOn /\ known \subseteq known'
         /\ PoolInv /\ ReportedLate => PoolInv'
<1>0. pool \in [Platform -> Pool] /\ pool' \in [Platform -> Pool]
  BY DEF KeyTypeInv, KeyTypeOK
<1>1. known \subseteq known'
  BY AsideMail DEF KeyNext, Aside, Proceed, Publish, HandleMessage, HandlePublish, HandleUnpublish,
     HandleShutdown, HandleExpire, HandleInvalidate, HandleNew, Tick, keeperVars
\* A step that takes keys or leaves them.
<1>2. ASSUME toPublish' = toPublish, NEW d \in {0, 1}, NoneAdded({"PUBLISH"}, d),
             \A p \in Platform : Takes(pool[p], pool'[p]) \/ pool' = pool
      PROVE  /\ PublishOrder' /\ HadInv' /\ KeysGoOn
             /\ PoolInv => PoolInv'
  <2>1. PublishOrder' /\ HadInv' /\ KeysGoOn
    BY <1>2, KeysKept DEF Takes
  <2>2. PoolInv => PoolInv'
    BY <1>2, <2>1, PoolKept DEF KeysGoOn, Takes
  <2> QED BY <2>1, <2>2
<1>3. CASE Publish
  <2>1. pool' = pool /\ PublishOrder' /\ NoMorePending
    BY <1>3, PublishKeys DEF Publish, keeperVars
  <2>2. HadInv' /\ KeysGoOn /\ (PoolInv => PoolInv')
    BY <2>1 DEF HadInv, KeysGoOn, NoMorePending, PoolInv, Out
  <2> QED BY <1>1, <2>1, <2>2
<1>4. CASE HandlePublish
  BY <1>1, <1>4, HandlePublishKeys
<1>5. CASE HandleUnpublish \/ HandleExpire \/ HandleInvalidate
  BY <1>1, <1>5, RemoveKeys
<1>6. CASE HandleNew
  <2>1. inbox # <<>> /\ inbox' = Tail(inbox) /\ toPublish' = toPublish /\ pool' = Refreshed
    BY <1>6 DEF HandleNew, Receives
  <2> QED BY <1>0, <1>1, <1>2, <2>1, HandledMail, RefreshedFacts
<1>7. CASE HandleShutdown
  <2>1. inbox' = <<>> /\ toPublish' = toPublish /\ pool' = pool
    BY <1>7 DEF HandleShutdown, keeperVars
  <2>2. NoneAdded({"PUBLISH"}, 0)
    BY <2>1, NoMail
  <2> QED BY <1>1, <1>2, <2>1, <2>2
<1>8. CASE Tick
  <2>1. toPublish' = toPublish /\ KeyTypeOK
    BY <1>8 DEF Tick, KeyTypeInv
  <2>2. NoneAdded({"PUBLISH"}, 0) /\ \A p \in Platform : Takes(pool[p], pool'[p])
    BY <1>8, <2>1, SameMail, LaterFacts
  <2> QED BY <1>1, <1>2, <2>1, <2>2
<1>9. CASE Aside
  BY <1>1, <1>2, <1>9, AsideMail
<1> QED BY <1>3, <1>4, <1>5, <1>6, <1>7, <1>8, <1>9 DEF KeyNext, HandleMessage, Proceed, Aside

-----------------------------------------------------------------------------
(* The clients: which of them are within others, and what each has to do     *)
(* with the messages and the keys while no other one of its process can have *)
(* got, or caused, answers that are not its own.                             *)

\* The keys a client has been handed, and has perhaps not yet looked at.
Holds(c) ==
  {k \in Key : k \in reported[c] \/ k = key[c]
                 \/ \E j \in 1 .. Len(buffer[c]) : buffer[c][j].key = k}

Handed(p, k) == p \in known /\ ~ Pending(p, k)

HandsOf(c) == \A k \in Holds(c) : Handed(PlatformOf[c], k)

\* A request of c's process.
New(i, c) == inbox[i].type = "NEW" /\ inbox[i].from = Pid(c)

AnswerOf(c) ==
  /\ Len(buffer[c]) <= 1
  /\ buffer[c] # <<>> => pc[c] = "waiting"
  /\ \A i \in 1 .. Len(inbox) : New(i, c) =>
       pc[c] = "waiting" /\ buffer[c] = <<>> /\ inbox[i].platform = PlatformOf[c]
  /\ \A i, j \in 1 .. Len(inbox) : New(i, c) /\ New(j, c) => i = j

\* The orchestrator will not answer c with k: it has it no more, or is told so
\* before it gets to a request of c.
Told(c, k, i) ==
  /\ inbox[i].type = "INVALIDATE"
  /\ inbox[i].platform = PlatformOf[c]
  /\ inbox[i].key = k
  /\ \A j \in 1 .. Len(inbox) : New(j, c) => i < j
Barred(c, k) ==
  Out(pool[PlatformOf[c]], k) \/ \E i \in 1 .. Len(inbox) : Told(c, k, i)

ReportOf(c) ==
  /\ pc[c] = "idle" => key[c] \notin reported[c]
  /\ \A j \in 1 .. Len(buffer[c]) : buffer[c][j].key \notin reported[c]
  /\ up => \A k \in reported[c] : Barred(c, k)

ClientOf(c) == AnswerOf(c) /\ ReportOf(c) /\ HandsOf(c)

\* A client that gets its own answers and no others.
Sole(c) == pc[c] # "none" /\ c \notin shared

\* The client within which another one is made is idle, and shared from then on.
TreeInv ==
  \A c \in Client : pc[c] # "none" /\ Within[c] # Null =>
    /\ pc[Within[c]] = "idle"
    /\ Within[c] \in shared
    /\ \A d \in Client : pc[d] # "none" /\ Within[d] = Within[c] => d = c

DeadInv ==
  \A c \in Client : pc[c] = "none" =>
    c \notin shared /\ key[c] = Null /\ buffer[c] = <<>> /\ reported[c] = {}

KeyInv ==
  /\ KeyTypeInv
  /\ PublishOrder
  /\ HadInv
  /\ TreeInv
  /\ DeadInv
  /\ \A c \in Client : Sole(c) => ClientOf(c)

LEMMA WithinFacts ==
  /\ \A c \in Client : Within[c] # Null => Within[c] \in Client /\ Within[Within[c]] = Null
                                           /\ Within[c] # c
  /\ \A c \in Client : Pid(c) = IF Within[c] = Null THEN c ELSE Within[c]
BY KeyAssumption DEF Pid

\* Another client of its process is the one within which it was made.
LEMMA SoleFacts ==
  ASSUME TreeInv, NEW c \in Client, NEW d \in Client, c # d, Sole(c), pc[d] # "none", Pid(c) = Pid(d)
  PROVE  Within[c] = d /\ pc[d] = "idle" /\ d \in shared
<1>1. CASE Within[c] = Null
  <2>1. Pid(c) = c /\ Within[d] = c
    BY <1>1, WithinFacts
  <2>2. c \in shared
    BY <1>1, <2>1, NullIsNone DEF TreeInv
  <2> QED BY <2>2 DEF Sole
<1>2. CASE Within[c] # Null
  <2>1. Within[d] = Within[c] \/ d = Within[c]
    BY <1>2, WithinFacts
  <2> QED BY <1>2, <2>1 DEF TreeInv, Sole
<1> QED BY <1>1, <1>2

\* A client that is in the middle of a call, or begins one: none is within it.
Busy(c) == Request(c) \/ RequestNext(c) \/ WakeUp(c) \/ ReportExpired(c) \/ ReportInvalid(c) \/ Receive(c)

LEMMA BusyFacts ==
  ASSUME KeyTypeInv, NEW c \in Client, Busy(c)
  PROVE  /\ shared' = shared /\ pc[c] # "none" /\ pc'[c] # "none"
         /\ pc[c] = "idle" => Runs(c)
         /\ \A d \in Client \ {c} : /\ pc'[d] = pc[d] /\ key'[d] = key[d]
                                    /\ buffer'[d] = buffer[d] /\ reported'[d] = reported[d]
<1>1. CASE Receive(c)
  BY <1>1 DEF Receive, KeyTypeInv, KeyTypeOK
<1>2. CASE Request(c) \/ RequestNext(c) \/ WakeUp(c)
  BY <1>2 DEF Request, RequestNext, WakeUp, SendNew, Begins, KeyTypeInv, KeyTypeOK
<1>3. CASE ReportExpired(c) \/ ReportInvalid(c)
  BY <1>3 DEF ReportExpired, ReportInvalid, Begins, KeyTypeInv, KeyTypeOK
<1> QED BY <1>1, <1>2, <1>3 DEF Busy

\* Such a client has its process to itself as far as sole clients go.
LEMMA BusyAlone ==
  ASSUME KeyTypeInv, TreeInv, NEW c \in Client, Busy(c), NEW d \in Client, d # c, Sole(d)
  PROVE  Pid(d) # Pid(c)
<1> SUFFICES ASSUME Pid(d) = Pid(c) PROVE FALSE
  OBVIOUS
<1>1. Within[d] = c /\ pc[c] = "idle"
  BY BusyFacts, SoleFacts
<1> QED BY <1>1, BusyFacts DEF Runs, Sole

LEMMA DiscardFacts ==
  ASSUME NEW cs \in SUBSET Client, Discard(cs)
  PROVE  /\ shared' = shared \ cs
         /\ \A d \in Client \ cs : /\ pc'[d] = pc[d] /\ key'[d] = key[d]
                                   /\ buffer'[d] = buffer[d] /\ reported'[d] = reported[d]
         /\ \A d \in cs : /\ pc'[d] = "none" /\ key'[d] = Null
                          /\ buffer'[d] = <<>> /\ reported'[d] = {}
BY DEF Discard

\* The steps of the orchestrator, of time and of those outside.
NotOfClients ==
  \/ Publish \/ Shutdown \/ HandleMessage \/ Tick
  \/ \E p \in Platform, k \in Key : Unpublish(p, k)

LEMMA ApartFacts ==
  ASSUME NotOfClients
  PROVE  /\ UNCHANGED <<pc, key, reported, shared>>
         /\ HandleNew \/ UNCHANGED buffer
BY DEF NotOfClients, Publish, Shutdown, HandleMessage, Tick, Unpublish, HandlePublish, HandleUnpublish,
       HandleShutdown, HandleExpire, HandleInvalidate, HandleNew, clientVars

LEMMA TreeStep ==
  ASSUME KeyTypeInv, TreeInv, DeadInv, KeyNext
  PROVE  TreeInv' /\ DeadInv'
<1>1. CASE NotOfClients
  <2>1. TreeInv'
    BY <1>1, ApartFacts DEF TreeInv
  <2>2. HandleNew => \A c \in Client : pc[c] = "none" => buffer'[c] = buffer[c]
    BY DEF HandleNew, Delivered
  <2>3. DeadInv'
    BY <1>1, <2>2, ApartFacts DEF DeadInv
  <2> QED BY <2>1, <2>3
<1>2. ASSUME NEW c \in Client, Busy(c)
      PROVE  TreeInv' /\ DeadInv'
  <2>1. \A e \in Client : pc'[e] # "none" <=> pc[e] # "none"
    BY <1>2, BusyFacts
  <2>2. \A e \in Client : pc[e] # "none" /\ Within[e] # Null => Within[e] # c
    BY <1>2, BusyFacts DEF TreeInv, Runs
  <2>3. TreeInv'
    BY <1>2, <2>1, <2>2, BusyFacts, WithinFacts DEF TreeInv
  <2>4. DeadInv'
    BY <1>2, <2>1, BusyFacts DEF DeadInv
  <2> QED BY <2>3, <2>4
<1>3. ASSUME NEW c \in Client, CreateClient(c)
      PROVE  TreeInv' /\ DeadInv'
  <2>1. /\ pc[c] = "none" /\ pc'[c] = "idle" /\ \A d \in Client \ {c} : pc'[d] = pc[d]
        /\ UNCHANGED <<key, buffer, reported>>
        /\ shared \subseteq shared' /\ shared' \subseteq shared \cup {d \in Client : pc[d] # "none"} \cup {c}
        /\ \A d \in Client : Pid(d) = Pid(c) /\ pc[d] # "none" => d \in shared'
        /\ Within[c] # Null => pc[Within[c]] = "idle" /\ Runs(Within[c])
    BY <1>3 DEF CreateClient, KeyTypeInv, KeyTypeOK
  <2>2. ASSUME NEW e \in Client, pc'[e] # "none", Within[e] # Null
        PROVE  /\ pc'[Within[e]] = "idle" /\ Within[e] \in shared'
               /\ \A d \in Client : pc'[d] # "none" /\ Within[d] = Within[e] => d = e
    <3>1. CASE e = c
      BY <2>1, <2>2, <3>1, WithinFacts DEF Runs
    <3>2. CASE e # c
      BY <2>1, <2>2, <3>2, WithinFacts DEF Runs, TreeInv
    <3> QED BY <3>1, <3>2
  <2>3. TreeInv'
    BY <2>2 DEF TreeInv
  <2>4. DeadInv'
    BY <2>1 DEF DeadInv
  <2> QED BY <2>3, <2>4
<1>4. ASSUME NEW c \in Client, EndClient(c) \/ KillWorker(c)
      PROVE  TreeInv' /\ DeadInv'
  <2>1. PICK cs \in SUBSET Client :
          /\ Discard(cs)
          /\ \A e \in Client \ cs : pc[e] # "none" /\ Within[e] # Null => Within[e] \notin cs
    <3>1. CASE EndClient(c)
      <4>1. Discard({c}) /\ Runs(c)
        BY <3>1 DEF EndClient
      <4>2. \A e \in Client \ {c} : pc[e] # "none" /\ Within[e] # Null => Within[e] \notin {c}
        BY <4>1 DEF Runs
      <4> QED BY <4>1, <4>2
    <3>2. CASE KillWorker(c)
      <4> DEFINE cs == {d \in Client : Pid(d) = c}
      <4>1. Discard(cs)
        BY <3>2 DEF KillWorker
      <4>2. \A e \in Client \ cs : Within[e] # Null => Within[e] \notin cs
        BY WithinFacts
      <4> HIDE DEF cs
      <4>3. cs \in SUBSET Client
        BY DEF cs
      <4> QED BY <4>1, <4>2, <4>3
    <3> QED BY <1>4, <3>1, <3>2
  <2>2. TreeInv'
    BY <2>1, DiscardFacts, WithinFacts DEF TreeInv
  <2>3. DeadInv'
    BY <2>1, DiscardFacts DEF DeadInv
  <2> QED BY <2>2, <2>3
<1> QED BY <1>1, <1>2, <1>3, <1>4 DEF KeyNext, NotOfClients, Busy, Proceed

-----------------------------------------------------------------------------
(* What a client keeps while others act. *)

\* No request of c's process that was not there.
NoneAsked(c, d) ==
  \A i \in 1 .. Len(inbox') : New(i, c)' =>
    i + d \in 1 .. Len(inbox) /\ New(i + d, c) /\ inbox[i + d].platform = inbox'[i].platform

LEMMA OldRequests ==
  ASSUME NEW types, "NEW" \in types, NEW d \in {0, 1}, NoneAdded(types, d)
  PROVE  \A c \in Client : NoneAsked(c, d)
BY PidType, NullIsNone DEF NoneAdded, Alike, New, NoneAsked

LEMMA AnswerKept ==
  ASSUME NEW c \in Client, AnswerOf(c), NEW d \in {0, 1}, NoneAsked(c, d),
         buffer'[c] = buffer[c],
         pc'[c] = pc[c] \/ (pc[c] # "waiting" /\ pc'[c] # "waiting")
  PROVE  AnswerOf(c)'
<1>1. ASSUME NEW i \in 1 .. Len(inbox'), NEW j \in 1 .. Len(inbox'), New(i, c)', New(j, c)'
      PROVE  i = j
  <2>1. i + d = j + d
    BY <1>1 DEF AnswerOf, NoneAsked
  <2> QED BY <2>1
<1> QED BY <1>1 DEF AnswerOf, NoneAsked

\* A client whose requests are all gone.
LEMMA QuietAnswer ==
  ASSUME NEW c \in Client, \A i \in 1 .. Len(inbox') : ~ New(i, c)', buffer'[c] = <<>>
  PROVE  AnswerOf(c)'
BY EmptySeq DEF AnswerOf

LEMMA BarredKept ==
  ASSUME NEW c \in Client, NEW k \in Key, Barred(c, k),
         NEW d \in {0, 1}, NoneAsked(c, d), NoneLost(d),
         Out(pool[PlatformOf[c]], k) => Out(pool[PlatformOf[c]], k)',
         d = 1 /\ Told(c, k, 1) => Out(pool[PlatformOf[c]], k)'
  PROVE  Barred(c, k)'
<1>1. CASE Out(pool[PlatformOf[c]], k)
  BY <1>1 DEF Barred
<1>2. ASSUME NEW i \in 1 .. Len(inbox), Told(c, k, i)
      PROVE  Barred(c, k)'
  <2>1. CASE i > d
    <3>1. i - d \in 1 .. Len(inbox') /\ Alike(inbox[i], inbox'[i - d])
      BY <2>1 DEF NoneLost
    <3>2. ASSUME NEW j \in 1 .. Len(inbox'), New(j, c)'
          PROVE  i - d < j
      <4>1. i < j + d
        BY <1>2, <3>2 DEF Told, NoneAsked
      <4> QED BY <4>1
    <3>3. Told(c, k, i - d)'
      <4>1. Alike(inbox[i], inbox'[i - d])
        BY <3>1
      <4> QED BY <1>2, <4>1, <3>2 DEF Told, Alike
    <3> QED BY <3>1, <3>3 DEF Barred
  <2>2. CASE ~ (i > d)
    <3>1. i = 1 /\ d = 1
      BY <2>2
    <3> QED BY <1>2, <3>1 DEF Barred
  <2> QED BY <2>1, <2>2
<1> QED BY <1>1, <1>2 DEF Barred

\* The keys a client has reported stay barred.
LEMMA AllBarredKept ==
  ASSUME KeyTypeInv, KeysGoOn, NEW c \in Client, ClientOf(c), up,
         NEW d \in {0, 1}, NoneAsked(c, d), NoneLost(d),
         d = 1 => \A k \in reported[c] : Told(c, k, 1) => Out(pool[PlatformOf[c]], k)'
  PROVE  \A k \in reported[c] : Barred(c, k)'
<1> SUFFICES ASSUME NEW k \in reported[c] PROVE Barred(c, k)'
  OBVIOUS
<1>1. k \in Key /\ PlatformOf[c] \in Platform /\ Barred(c, k)
  BY KeyAssumption DEF KeyTypeInv, KeyTypeOK, ClientOf, ReportOf
<1>2. ~ Pending(PlatformOf[c], k)
  BY <1>1 DEF ClientOf, HandsOf, Holds, Handed
<1>3. Out(pool[PlatformOf[c]], k) => Out(pool[PlatformOf[c]], k)'
  BY <1>1, <1>2 DEF KeysGoOn, Out
<1> QED BY <1>1, <1>3, BarredKept

\* A key that was handed out stays one that may have been.
LEMMA HandsKept ==
  ASSUME KeysGoOn, known \subseteq known', NEW c \in Client,
         \A k \in Holds(c)' : Handed(PlatformOf[c], k)
  PROVE  HandsOf(c)'
<1> SUFFICES ASSUME NEW k \in Holds(c)' PROVE Handed(PlatformOf[c], k)'
  BY DEF HandsOf
<1>1. k \in Key /\ PlatformOf[c] \in Platform
  BY KeyAssumption DEF Holds
<1> QED BY <1>1 DEF Handed, KeysGoOn, NoMorePending

LEMMA ClientKept ==
  ASSUME KeyTypeInv, KeysGoOn, known \subseteq known', NEW c \in Client, ClientOf(c),
         NEW d \in {0, 1}, NoneAsked(c, d), up' => up /\ NoneLost(d),
         key'[c] = key[c], buffer'[c] = buffer[c], reported'[c] = reported[c],
         pc'[c] = pc[c] \/ (pc[c] = "idle" /\ pc'[c] = "reporting"),
         d = 1 => \A k \in reported[c] : Told(c, k, 1) => Out(pool[PlatformOf[c]], k)'
  PROVE  ClientOf(c)'
<1>1. AnswerOf(c)'
  BY AnswerKept DEF ClientOf
<1>2. ReportOf(c)'
  <2>1. up' => \A k \in reported'[c] : Barred(c, k)'
    BY AllBarredKept
  <2> QED BY <2>1 DEF ClientOf, ReportOf
<1>3. HandsOf(c)'
  <2>1. \A k \in Holds(c)' : k \in Holds(c)
    BY DEF Holds
  <2> QED BY <2>1, HandsKept DEF ClientOf, HandsOf
<1> QED BY <1>1, <1>2, <1>3 DEF ClientOf

\* The steps of others.
LEMMA ApartStep ==
  ASSUME KeyInv, KeyTypeInv', KeysGoOn, known \subseteq known', NotOfClients,
         NEW c \in Client, Sole(c), buffer'[c] = buffer[c]
  PROVE  ClientOf(c)'
<1>0. KeyTypeInv /\ KeyTypeOK /\ ClientOf(c)
  BY DEF KeyInv, KeyTypeInv
<1>1. pc' = pc /\ key' = key /\ reported' = reported
  BY ApartFacts
<1>2. ASSUME NEW d \in {0, 1}, NoneAdded({"NEW"}, d), up' => up /\ NoneLost(d),
             d = 1 => \A k \in reported[c] : Told(c, k, 1) => Out(pool[PlatformOf[c]], k)'
      PROVE  ClientOf(c)'
  <2>1. NoneAsked(c, d)
    BY <1>2, OldRequests
  <2> QED BY <1>0, <1>1, <1>2, <2>1, ClientKept
<1>3. CASE Publish
  <2>1. NoneAdded({"NEW", "INVALIDATE"}, 0) /\ NoneLost(0) /\ up' = up
    BY <1>0, <1>3, PublishMail DEF Publish
  <2>2. NoneAdded({"NEW"}, 0)
    BY <2>1 DEF NoneAdded
  <2> QED BY <1>2, <2>1, <2>2
<1>4. CASE Shutdown \/ \E p \in Platform, k \in Key : Unpublish(p, k)
  <2>1. PICK m \in Message : m.type # "NEW" /\ Send(m)
    BY <1>4, OutsideSends
  <2>2. up' = up
    BY <1>4 DEF Shutdown, Unpublish
  <2> QED BY <1>0, <1>2, <2>1, <2>2, SentMail
<1>5. CASE Tick
  BY <1>0, <1>2, <1>5, SameMail DEF Tick
<1>6. CASE HandleShutdown
  <2>1. NoneAdded({"NEW"}, 0) /\ ~ up'
    BY <1>6, NoMail DEF HandleShutdown
  <2> QED BY <1>2, <2>1
<1>7. CASE HandleMessage /\ ~ HandleShutdown
  <2>1. inbox # <<>> /\ inbox' = Tail(inbox) /\ up' = up /\ up
    BY <1>7 DEF HandleMessage, HandlePublish, HandleUnpublish, HandleExpire, HandleInvalidate,
                HandleNew, Receives
  <2>2. ASSUME NEW k \in reported[c], Told(c, k, 1)
        PROVE  Out(pool[PlatformOf[c]], k)'
    <3>1. Head(inbox) = inbox[1]
      BY <1>0, <2>1, HandledFacts
    <3>2. HandleInvalidate
      BY <1>7, <2>2, <3>1 DEF HandleMessage, HandlePublish, HandleUnpublish, HandleExpire, HandleNew,
                              Receives, Told
    <3>3. k \in Key /\ PlatformOf[c] \in Platform
      BY <1>0, KeyAssumption DEF KeyTypeOK
    <3>4. PlatformOf[c] \in known
      BY <1>0, <3>3 DEF ClientOf, HandsOf, Holds, Handed
    <3>5. inbox[1].platform = PlatformOf[c] /\ inbox[1].key = k
      BY <2>2 DEF Told
    <3> QED BY <3>2, <3>3, <3>4, <3>5, RemoveKeys DEF KeyInv, Out
  <2> QED BY <1>0, <1>2, <2>1, <2>2, HandledMail
<1> QED BY <1>3, <1>4, <1>5, <1>6, <1>7 DEF NotOfClients

LEMMA OtherBusyStep ==
  ASSUME KeyInv, KeyTypeInv', KeysGoOn, known \subseteq known',
         NEW e \in Client, Busy(e), NEW c \in Client, c # e, Sole(c)
  PROVE  ClientOf(c)'
<1>0. KeyTypeInv /\ KeyTypeOK /\ ClientOf(c) /\ Pid(c) # Pid(e)
  BY BusyAlone DEF KeyInv, KeyTypeInv
<1>1. pc'[c] = pc[c] /\ key'[c] = key[c] /\ buffer'[c] = buffer[c] /\ reported'[c] = reported[c]
  BY <1>0, BusyFacts
<1>2. up' = up
  BY DEF Busy, Request, RequestNext, WakeUp, ReportExpired, ReportInvalid, Receive
<1>3. ASSUME NoneAsked(c, 0), NoneLost(0) PROVE ClientOf(c)'
  BY <1>0, <1>1, <1>2, <1>3, ClientKept
<1>4. CASE Receive(e)
  BY <1>0, <1>3, <1>4, SameMail, OldRequests DEF Receive
<1>5. CASE ReportExpired(e) \/ ReportInvalid(e)
  <2>1. PICK m \in Message : m.type # "NEW" /\ Send(m)
    BY <1>0, <1>5, ClientSends
  <2>2. m.type \notin {"NEW"}
    BY <2>1
  <2>3. NoneAdded({"NEW"}, 0) /\ NoneLost(0)
    BY <1>0, <2>1, <2>2, SentMail
  <2> QED BY <1>3, <2>3, OldRequests
<1>6. CASE Request(e) \/ RequestNext(e) \/ WakeUp(e)
  <2>1. PICK m \in Message : m.type = "NEW" /\ m.from = Pid(e) /\ Send(m)
    BY <1>0, <1>6, ClientSends DEF Request, RequestNext, WakeUp
  <2>2. \A i \in 1 .. Len(inbox') : (i \in 1 .. Len(inbox) /\ inbox'[i] = inbox[i]) \/ inbox'[i] = m
    BY <1>0, <2>1, SentFacts
  <2>3. NoneAsked(c, 0)
    BY <1>0, <2>1, <2>2 DEF NoneAsked, New
  <2>4. NoneLost(0)
    <3>1. m.type \notin {}
      OBVIOUS
    <3> QED BY <1>0, <2>1, <3>1, SentMail
  <2> QED BY <1>3, <2>3, <2>4
<1> QED BY <1>4, <1>5, <1>6 DEF Busy

\* Clients come and go.
LEMMA ComeOrGoKept ==
  ASSUME KeyInv, KeyTypeInv', KeysGoOn, known \subseteq known', NEW e \in Client,
         CreateClient(e) \/ EndClient(e) \/ KillWorker(e),
         NEW c \in Client, Sole(c)', c # e \/ ~ CreateClient(e)
  PROVE  Sole(c) /\ ClientOf(c)'
<1>0. KeyTypeInv /\ KeyTypeOK /\ (Sole(c) => ClientOf(c)) /\ up' = up
  BY DEF KeyInv, KeyTypeInv, CreateClient, EndClient, KillWorker
<1>1. inbox' = inbox \/ inbox' = Unsigned(e)
  BY DEF CreateClient, EndClient, KillWorker, Unsigned
<1>2. NoneAsked(c, 0) /\ NoneLost(0)
  BY <1>0, <1>1, SameMail, OldRequests
<1>3. ASSUME pc'[c] = pc[c], key'[c] = key[c], buffer'[c] = buffer[c], reported'[c] = reported[c],
             c \in shared => c \in shared'
      PROVE  Sole(c) /\ ClientOf(c)'
  <2>1. Sole(c)
    BY <1>3 DEF Sole
  <2> QED BY <1>0, <1>2, <1>3, <2>1, ClientKept
<1>4. CASE CreateClient(e)
  BY <1>0, <1>3, <1>4 DEF CreateClient, KeyTypeOK
<1>5. ASSUME NEW cs \in SUBSET Client, Discard(cs)
      PROVE  Sole(c) /\ ClientOf(c)'
  <2>1. c \notin cs
    BY <1>5, DiscardFacts DEF Sole
  <2> QED BY <1>3, <1>5, <2>1, DiscardFacts
<1>6. CASE EndClient(e)
  BY <1>5, <1>6 DEF EndClient
<1>7. CASE KillWorker(e)
  BY <1>5, <1>7 DEF KillWorker
<1> QED BY <1>4, <1>6, <1>7

\* A report, a request and the reading of an answer, by the client itself.
LEMMA ReportInvalidStep ==
  ASSUME KeyInv, KeyTypeInv', KeysGoOn, known \subseteq known',
         NEW c \in Client, Sole(c), ReportInvalid(c)
  PROVE  ClientOf(c)'
<1>0. KeyTypeInv /\ KeyTypeOK /\ pc[c] = "idle" /\ ClientOf(c)
  BY DEF KeyInv, KeyTypeInv, ReportInvalid, Begins
<1>1. /\ pc' = [pc EXCEPT ![c] = "reporting"]
      /\ UNCHANGED <<up, known, pool, toPublish, key, buffer, wake>>
      /\ reported' = [reported EXCEPT ![c] = reported[c] \cup {key[c]}]
      /\ key[c] # Null
  BY DEF ReportInvalid, keeperVars
<1>2. PICK m \in Message : /\ m.type = "INVALIDATE" /\ m.platform = PlatformOf[c] /\ m.key = key[c]
                           /\ Send(m)
  BY <1>0, ClientSends
<1>3. m.type \notin {"NEW"}
  BY <1>2
<1>4. NoneAdded({"NEW"}, 0) /\ NoneLost(0)
  BY <1>0, <1>2, <1>3, SentMail
<1>5. NoneAsked(c, 0)
  BY <1>4, OldRequests
<1>6. pc'[c] = "reporting" /\ reported'[c] = reported[c] \cup {key[c]} /\ key[c] \in Key
  BY <1>0, <1>1 DEF KeyTypeOK
<1>7. AnswerOf(c)'
  BY <1>0, <1>1, <1>5, <1>6, AnswerKept DEF ClientOf
<1>8. buffer[c] = <<>> /\ \A i \in 1 .. Len(inbox) : ~ New(i, c)
  BY <1>0 DEF ClientOf, AnswerOf
<1>9. ReportOf(c)'
  <2>1. up => \A k \in reported[c] : Barred(c, k)'
    BY <1>0, <1>4, <1>5, AllBarredKept
  <2>2. ASSUME up, NEW k, k = key[c] PROVE Barred(c, k)'
    <3>2. PICK n : n \in 1 .. Len(inbox') /\ inbox'[n] = m
      BY <1>0, <1>2, <2>2, SentFacts
    <3>3. \A j \in 1 .. Len(inbox') : ~ New(j, c)'
      BY <1>5, <1>8 DEF NoneAsked
    <3>4. Told(c, k, n)'
      BY <1>2, <2>2, <3>2, <3>3 DEF Told
    <3> QED BY <3>2, <3>4 DEF Barred
  <2>3. \A j \in 1 .. Len(buffer'[c]) : FALSE
    BY <1>1, <1>8, EmptySeq
  <2>4. up' => \A k \in reported'[c] : Barred(c, k)'
    <3>1. SUFFICES ASSUME up', NEW k \in reported'[c] PROVE Barred(c, k)'
      OBVIOUS
    <3>2. CASE k = key[c]
      BY <1>1, <2>2, <3>1, <3>2
    <3> QED BY <1>1, <1>6, <2>1, <3>1, <3>2
  <2> QED BY <1>6, <2>3, <2>4 DEF ReportOf
<1>10. HandsOf(c)'
  <2>1. \A k \in Holds(c)' : k \in Holds(c)
    BY <1>1, <1>6 DEF Holds
  <2> QED BY <1>0, <2>1, HandsKept DEF ClientOf, HandsOf
<1> QED BY <1>7, <1>9, <1>10 DEF ClientOf

LEMMA SendNewStep ==
  ASSUME KeyInv, KeyTypeInv', KeysGoOn, known \subseteq known',
         NEW c \in Client, Sole(c), Request(c) \/ RequestNext(c) \/ WakeUp(c)
  PROVE  ClientOf(c)'
<1>0. KeyTypeInv /\ KeyTypeOK /\ ClientOf(c)
  BY DEF KeyInv, KeyTypeInv
<1>1. /\ pc[c] # "waiting" /\ pc' = [pc EXCEPT ![c] = "waiting"]
      /\ UNCHANGED <<up, known, pool, toPublish, key, buffer, reported>>
  BY DEF Request, RequestNext, WakeUp, Begins, SendNew, keeperVars
<1>2. PICK m \in Message : m.type = "NEW" /\ m.from = Pid(c) /\ m.platform = PlatformOf[c] /\ Send(m)
  BY <1>0, ClientSends DEF Request, RequestNext, WakeUp
<1>3. /\ Len(inbox) \in Nat
      /\ \A i \in 1 .. Len(inbox) : i \in 1 .. Len(inbox') /\ inbox'[i] = inbox[i]
      /\ \A i \in 1 .. Len(inbox') : i \in 1 .. Len(inbox) \/ (i = Len(inbox) + 1 /\ inbox'[i] = m)
  BY <1>0, <1>2, SentFacts
<1>4. buffer[c] = <<>> /\ \A i \in 1 .. Len(inbox) : ~ New(i, c)
  BY <1>0, <1>1 DEF ClientOf, AnswerOf
<1>5. \A i \in 1 .. Len(inbox') : New(i, c)' => i = Len(inbox) + 1 /\ inbox'[i] = m
  BY <1>3, <1>4 DEF New
<1>6. pc'[c] = "waiting" /\ buffer'[c] = <<>> /\ Len(buffer'[c]) = 0
  BY <1>0, <1>1, <1>4, EmptySeq DEF KeyTypeOK
<1>7. AnswerOf(c)'
  <2>1. \A i, j \in 1 .. Len(inbox') : New(i, c)' /\ New(j, c)' => i = j
    BY <1>5
  <2> QED BY <1>2, <1>5, <1>6, <2>1 DEF AnswerOf
<1>8. ReportOf(c)'
  <2>1. ASSUME up', NEW k \in reported[c]
        PROVE  Barred(c, k)'
    <3>1. Barred(c, k)
      BY <1>0, <1>1, <2>1 DEF ClientOf, ReportOf
    <3>2. ASSUME NEW i \in 1 .. Len(inbox), Told(c, k, i)
          PROVE  Barred(c, k)'
      <4>1. i \in 1 .. Len(inbox') /\ inbox'[i] = inbox[i]
        BY <1>3
      <4>2. ASSUME NEW j \in 1 .. Len(inbox'), New(j, c)' PROVE i < j
        <5>1. j = Len(inbox) + 1
          BY <1>5, <4>2
        <5> QED BY <1>3, <5>1
      <4>3. Told(c, k, i)'
        BY <3>2, <4>1, <4>2 DEF Told
      <4> QED BY <4>1, <4>3 DEF Barred
    <3> QED BY <1>1, <3>1, <3>2 DEF Barred, Out
  <2>2. \A j \in 1 .. Len(buffer'[c]) : FALSE
    BY <1>6
  <2> QED BY <1>1, <1>6, <2>1, <2>2 DEF ReportOf
<1>9. HandsOf(c)'
  <2>1. \A k \in Holds(c)' : k \in Holds(c)
    BY <1>1 DEF Holds
  <2> QED BY <1>0, <2>1, HandsKept DEF ClientOf, HandsOf
<1> QED BY <1>7, <1>8, <1>9 DEF ClientOf

LEMMA OnlyOne ==
  ASSUME NEW S, NEW s \in Seq(S), s # <<>>, Len(s) <= 1
  PROVE  Head(s) = s[1] /\ 1 \in 1 .. Len(s) /\ Tail(s) = <<>>
<1>1. /\ Len(s) \in Nat \ {0} /\ Head(s) = s[1]
      /\ Tail(s) \in Seq(S) /\ Len(Tail(s)) = Len(s) - 1
  BY TailFacts
<1>2. Len(s) = 1
  BY <1>1
<1>3. Len(Tail(s)) = 0
  BY <1>1, <1>2
<1>4. Tail(s) = <<>>
  BY <1>1, <1>3, EmptySeq
<1> QED BY <1>1, <1>2, <1>4

LEMMA ReceiveStep ==
  ASSUME KeyInv, KeyTypeInv', KeysGoOn, known \subseteq known',
         NEW c \in Client, Sole(c), Receive(c)
  PROVE  ClientOf(c)'
<1> DEFINE a == buffer[c][1]
<1>0. KeyTypeInv /\ KeyTypeOK /\ ClientOf(c)
  BY DEF KeyInv, KeyTypeInv
<1>1. buffer[c] \in Seq(Answer) /\ buffer[c] # <<>> /\ Len(buffer[c]) <= 1
  BY <1>0 DEF Receive, KeyTypeOK, ClientOf, AnswerOf
<1>2. Head(buffer[c]) = a /\ 1 \in 1 .. Len(buffer[c]) /\ Tail(buffer[c]) = <<>>
  BY <1>1, OnlyOne
<1>3. /\ UNCHANGED <<up, inbox, known, pool, reported>> /\ buffer'[c] = <<>>
      /\ \/ pc'[c] = "sleeping" /\ key'[c] = key[c]
         \/ pc'[c] = "idle" /\ key'[c] = a.key
  BY <1>0, <1>2 DEF Receive, KeyTypeOK, keeperVars
<1>4. a.key \notin reported[c]
  BY <1>0, <1>2 DEF ClientOf, ReportOf
<1>5. \A k \in Holds(c)' : k \in Holds(c)
  BY <1>2, <1>3, EmptySeq DEF Holds
<1> HIDE DEF a
<1>6. \A i \in 1 .. Len(inbox') : ~ New(i, c)'
  BY <1>0, <1>1, <1>3 DEF ClientOf, AnswerOf, New
<1>7. AnswerOf(c)'
  BY <1>3, <1>6, QuietAnswer
<1>8. NoneAsked(c, 0) /\ NoneLost(0)
  BY <1>0, <1>3, SameMail, OldRequests
<1>9. ReportOf(c)'
  <2>1. up => \A k \in reported[c] : Barred(c, k)'
    BY <1>0, <1>8, AllBarredKept
  <2>2. \A j \in 1 .. Len(buffer'[c]) : FALSE
    BY <1>3, EmptySeq
  <2> QED BY <1>3, <1>4, <2>1, <2>2 DEF ReportOf
<1>10. HandsOf(c)'
  BY <1>0, <1>5, HandsKept DEF ClientOf, HandsOf
<1> QED BY <1>7, <1>9, <1>10 DEF ClientOf

\* A new client of a process that has no request open.
LEMMA CreateStep ==
  ASSUME KeyInv, KeyTypeInv', NEW c \in Client, CreateClient(c), Sole(c)'
  PROVE  ClientOf(c)'
<1>0. KeyTypeOK /\ DeadInv
  BY DEF KeyInv, KeyTypeInv
<1>1. /\ pc[c] = "none" /\ pc'[c] = "idle"
      /\ UNCHANGED <<inbox, key, buffer, reported>>
      /\ ~ (Open(c) > 0)
  BY <1>0 DEF CreateClient, KeyTypeOK, Sole
<1>2. key'[c] = Null /\ buffer'[c] = <<>> /\ reported'[c] = {} /\ Len(buffer'[c]) = 0
  BY <1>0, <1>1, EmptySeq DEF DeadInv
<1>3. \A i \in 1 .. Len(inbox) : ~ New(i, c)
  <2> DEFINE S == {i \in 1 .. Len(inbox) : inbox[i].type = "NEW" /\ inbox[i].from = Pid(c)}
  <2>1. Len(inbox) \in Nat
    BY <1>0, LenProperties DEF KeyTypeOK
  <2>2. IsFiniteSet(S)
    <3>1. IsFiniteSet(1 .. Len(inbox))
      BY <2>1, FS_Interval
    <3> QED BY <3>1, FS_Subset
  <2>3. Cardinality(S) \in Nat /\ ~ (Cardinality(S) > 0)
    BY <1>1, <2>2, FS_CardinalityType DEF Open
  <2>4. S = {}
    BY <2>2, <2>3, FS_EmptySet
  <2> QED BY <2>4 DEF New
<1>4. AnswerOf(c)'
  BY <1>1, <1>2, <1>3, QuietAnswer DEF New
<1>5. ReportOf(c)'
  BY <1>2 DEF ReportOf
<1>6. HandsOf(c)'
  BY <1>2, EmptySeq, NullIsNone DEF HandsOf, Holds
<1> QED BY <1>4, <1>5, <1>6 DEF ClientOf

\* The answer goes to the client that has asked, and names no key that this
\* client has reported.
LEMMA AnswerGiven ==
  ASSUME KeyInv, HandleNew, NEW c \in Client, Sole(c), buffer'[c] # buffer[c]
  PROVE  /\ New(1, c) /\ pc[c] = "waiting" /\ buffer[c] = <<>>
         /\ \E a : /\ a \in Answers(pool'[PlatformOf[c]])
                  /\ PlatformOf[c] \in known
                  /\ buffer' = Delivered(Pid(c), a) /\ buffer'[c] = <<a>>
                  /\ \A k \in reported[c] : Out(pool'[PlatformOf[c]], k) /\ k # a.key
<1> DEFINE m == inbox[1]
<1>0. /\ KeyTypeInv /\ KeyTypeOK /\ inbox # <<>> /\ inbox' = Tail(inbox)
      /\ pool \in [Platform -> Pool] /\ pool' = Refreshed /\ up /\ ClientOf(c)
  BY DEF KeyInv, KeyTypeInv, KeyTypeOK, HandleNew, Receives
<1>1. Head(inbox) = m /\ m \in Message /\ 1 \in 1 .. Len(inbox) /\ m.type = "NEW"
  BY <1>0, HandledFacts DEF HandleNew, Receives
<1>2. m.platform \in Platform
  BY <1>0, <1>1 DEF KeyTypeInv, ProperMail, Proper
<1>3. \A p \in Platform : Takes(pool[p], pool'[p]) /\ pool'[p] \in Pool
  BY <1>0, RefreshedFacts
<1>4. PICK a : /\ a \in Answers(pool'[m.platform]) /\ buffer' = Delivered(m.from, a)
               /\ m.platform \in known
  BY <1>0, <1>1 DEF HandleNew
<1>5. m.from = Pid(c) /\ buffer'[c] = Append(buffer[c], a)
  BY <1>4 DEF Delivered
<1>7. New(1, c) /\ pc[c] = "waiting" /\ buffer[c] = <<>> /\ m.platform = PlatformOf[c]
  BY <1>0, <1>1, <1>5 DEF New, ClientOf, AnswerOf
<1>8. a.key # Null => a.key \in Key /\ IsFresh(pool'[PlatformOf[c]], a.key)
  BY <1>2, <1>3, <1>4, <1>7, AnswerFacts
<1>9. ASSUME NEW k \in reported[c] PROVE Out(pool'[PlatformOf[c]], k) /\ k # a.key
  <2>1. k \in Key /\ Barred(c, k)
    BY <1>0 DEF KeyTypeOK, ClientOf, ReportOf
  <2>2. \A i \in 1 .. Len(inbox) : ~ Told(c, k, i)
    BY <1>1, <1>7 DEF Told
  <2>3. Out(pool'[PlatformOf[c]], k)
    BY <1>2, <1>3, <1>7, <2>1, <2>2 DEF Barred, Takes
  <2> QED BY <1>8, <2>1, <2>3, NullIsNone DEF Out, IsFresh
<1>10. buffer'[c] = <<a>>
  BY <1>5, <1>7
<1> QED BY <1>4, <1>5, <1>7, <1>9, <1>10

\* What an answer names is not pending, so a client that has it has been
\* handed a key.
LEMMA AnswerStep ==
  ASSUME KeyInv, KeyTypeInv', KeysGoOn, known \subseteq known', HandleNew,
         NEW c \in Client, Sole(c), buffer'[c] # buffer[c]
  PROVE  ClientOf(c)'
<1>0. /\ KeyTypeInv /\ KeyTypeOK /\ inbox # <<>> /\ inbox' = Tail(inbox) /\ ClientOf(c) /\ HadInv
      /\ pool \in [Platform -> Pool] /\ pool' = Refreshed
      /\ UNCHANGED <<up, known, toPublish, pc, key, wake, reported>>
  BY DEF KeyInv, KeyTypeInv, KeyTypeOK, HandleNew, Receives
<1>1. New(1, c) /\ pc[c] = "waiting" /\ buffer[c] = <<>> /\ 1 \in 1 .. Len(inbox)
  BY <1>0, AnswerGiven, HandledFacts
<1>2. PICK a : /\ a \in Answers(pool'[PlatformOf[c]]) /\ PlatformOf[c] \in known
               /\ buffer'[c] = <<a>>
               /\ \A k \in reported[c] : Out(pool'[PlatformOf[c]], k) /\ k # a.key
  BY AnswerGiven
<1>3. PlatformOf[c] \in Platform
  BY KeyAssumption
<1>4. \A p \in Platform : Takes(pool[p], pool'[p]) /\ pool'[p] \in Pool
  BY <1>0, RefreshedFacts
<1>5. a.key # Null => a.key \in Key /\ IsFresh(pool'[PlatformOf[c]], a.key)
  BY <1>2, <1>3, <1>4, AnswerFacts
<1>6. Len(buffer'[c]) = 1 /\ \A j \in 1 .. Len(buffer'[c]) : buffer'[c][j] = a
  BY <1>2
<1>7. \A i \in 1 .. Len(inbox') : ~ New(i, c)'
  <2>1. SUFFICES ASSUME NEW i \in 1 .. Len(inbox'), New(i, c)' PROVE FALSE
    OBVIOUS
  <2>2. NoneAsked(c, 1)
    BY <1>0, HandledMail, OldRequests
  <2>3. i + 1 \in 1 .. Len(inbox) /\ New(i + 1, c)
    BY <2>1, <2>2 DEF NoneAsked
  <2>4. i + 1 = 1
    BY <1>0, <1>1, <2>3 DEF ClientOf, AnswerOf
  <2> QED BY <2>4
<1>8. AnswerOf(c)'
  BY <1>0, <1>1, <1>6, <1>7 DEF AnswerOf
<1>9. ReportOf(c)'
  <2>1. \A k \in reported'[c] : Barred(c, k)'
    BY <1>0, <1>2 DEF Barred
  <2> QED BY <1>0, <1>1, <1>2, <1>6, <2>1 DEF ReportOf
<1>10. HandsOf(c)'
  <2>1. ASSUME NEW k \in Holds(c)' PROVE Handed(PlatformOf[c], k)
    <3>1. k \in Key /\ (k \in Holds(c) \/ k = a.key)
      BY <1>0, <1>6, <2>1 DEF Holds
    <3>2. CASE k = a.key
      <4>1. ~ Out(pool'[PlatformOf[c]], k)
        BY <1>5, <3>1, <3>2, NullIsNone DEF Out, IsFresh
      <4>2. ~ Pending(PlatformOf[c], k)
        BY <1>0, <1>3, <1>4, <3>1, <4>1 DEF Takes, HadInv
      <4> QED BY <1>2, <4>2 DEF Handed
    <3> QED BY <1>0, <3>1, <3>2 DEF ClientOf, HandsOf
  <2> QED BY <2>1, HandsKept
<1> QED BY <1>8, <1>9, <1>10 DEF ClientOf

\* Every step leaves the sole clients with their own answers.
LEMMA ClientStep ==
  ASSUME KeyInv, KeyTypeInv', KeysGoOn, known \subseteq known', KeyNext,
         NEW c \in Client, Sole(c)'
  PROVE  ClientOf(c)'
<1>0. KeyTypeInv /\ KeyTypeOK /\ (Sole(c) => ClientOf(c))
  BY DEF KeyInv, KeyTypeInv
<1>1. CASE NotOfClients
  <2>1. Sole(c)
    BY <1>1, ApartFacts DEF Sole
  <2>2. CASE buffer'[c] = buffer[c]
    BY <1>1, <2>1, <2>2, ApartStep
  <2>3. CASE buffer'[c] # buffer[c]
    BY <1>1, <2>1, <2>3, ApartFacts, AnswerStep
  <2> QED BY <2>2, <2>3
<1>2. ASSUME NEW e \in Client, Busy(e) PROVE ClientOf(c)'
  <2>1. Sole(c)
    BY <1>0, <1>2, BusyFacts DEF Sole
  <2>2. CASE c # e
    BY <1>2, <2>1, <2>2, OtherBusyStep
  <2>3. CASE c = e
    <3>1. CASE ReportExpired(c)
      <4>1. PICK m \in Message : m.type = "EXPIRE" /\ Send(m)
        BY <1>0, <3>1, ClientSends
      <4>2. m.type \notin {"NEW"}
        BY <4>1
      <4>3. NoneAsked(c, 0) /\ NoneLost(0)
        BY <1>0, <4>1, <4>2, SentMail, OldRequests
      <4>4. /\ UNCHANGED <<up, key, buffer, reported>>
            /\ pc[c] = "idle" /\ pc'[c] = "reporting"
        BY <1>0, <3>1 DEF ReportExpired, Begins, KeyTypeOK
      <4> QED BY <1>0, <2>1, <4>3, <4>4, ClientKept
    <3> QED BY <1>2, <2>1, <2>3, <3>1, ReportInvalidStep, SendNewStep, ReceiveStep DEF Busy
  <2> QED BY <2>2, <2>3
<1>3. ASSUME NEW e \in Client, CreateClient(e) \/ EndClient(e) \/ KillWorker(e) PROVE ClientOf(c)'
  <2>1. CASE c = e /\ CreateClient(e)
    BY <2>1, CreateStep
  <2>2. CASE c # e \/ ~ CreateClient(e)
    BY <1>3, <2>2, ComeOrGoKept
  <2> QED BY <2>1, <2>2
<1> QED BY <1>1, <1>2, <1>3 DEF KeyNext, NotOfClients, Busy, Proceed

-----------------------------------------------------------------------------
LEMMA KeyInitInv ==
  ASSUME PublishedOnce, KeyInit
  PROVE  KeyInv /\ PoolInv
<1>1. KeyTypeInv
  BY KeyInitType
<1>2. PublishOrder
  BY EmptySeq DEF KeyInit, PublishOrder, Sent, PublishedOnce
<1>3. HadInv /\ PoolInv
  BY NewPoolFacts DEF KeyInit, HadInv, PoolInv, Absent
<1>4. \A c \in Client : buffer[c] = <<>> /\ pc[c] = "none" /\ key[c] = Null /\ reported[c] = {}
  BY DEF KeyInit
<1>5. TreeInv /\ DeadInv /\ \A c \in Client : ~ Sole(c)
  BY <1>4 DEF KeyInit, TreeInv, DeadInv, Sole
<1> QED BY <1>1, <1>2, <1>3, <1>5 DEF KeyInv

LEMMA KeyNextInv ==
  ASSUME KeyInv, [KeyNext]_keyVars
  PROVE  KeyInv'
<1>0. KeyTypeInv' /\ KeyTypeInv /\ PublishOrder /\ HadInv /\ TreeInv /\ DeadInv
  BY KeyNextType DEF KeyInv
<1>1. CASE UNCHANGED keyVars
  <2>1. PublishOrder' /\ HadInv' /\ TreeInv' /\ DeadInv'
    BY <1>0, <1>1 DEF keyVars, PublishOrder, HadInv, TreeInv, DeadInv, Sent, Left, Pending, Out, HadOnce
  <2>2. ASSUME NEW c \in Client, Sole(c)' PROVE ClientOf(c)'
    <3>1. ClientOf(c)
      BY <1>1, <2>2 DEF keyVars, KeyInv, Sole
    <3>2. AnswerOf(c)' /\ HandsOf(c)'
      BY <1>1, <3>1 DEF keyVars, ClientOf, AnswerOf, New, HandsOf, Holds, Handed, Pending, Sent, Left
    <3>3. ReportOf(c)'
      BY <1>1, <3>1 DEF keyVars, ClientOf, ReportOf, Barred, Told, New, Out
    <3> QED BY <3>2, <3>3 DEF ClientOf
  <2> QED BY <1>0, <2>1, <2>2 DEF KeyInv
<1>2. CASE KeyNext
  <2>1. PublishOrder' /\ HadInv' /\ KeysGoOn /\ known \subseteq known'
    BY <1>0, <1>2, KeysStep
  <2>2. TreeInv' /\ DeadInv'
    BY <1>0, <1>2, TreeStep
  <2>3. \A c \in Client : Sole(c)' => ClientOf(c)'
    BY <1>0, <1>2, <2>1, ClientStep
  <2> QED BY <1>0, <2>1, <2>2, <2>3 DEF KeyInv
<1> QED BY <1>1, <1>2

LEMMA KeyInvAlways ==
  ASSUME PublishedOnce
  PROVE  KeySpec => []KeyInv
<1>1. KeyInit => KeyInv
  BY KeyInitInv
<1>2. KeyInv /\ [KeyNext]_keyVars => KeyInv'
  BY KeyNextInv
<1> QED BY <1>1, <1>2, PTL DEF KeySpec

-----------------------------------------------------------------------------
(* A key in one state: no key is reported before it is published, either     *)
(* because the keys are published before the first client is made, or because *)
(* a client only gets keys of its own platform, also if they are meant for    *)
(* another client of its process.                                             *)

PublishedFirst == "early client" \notin KeyEvent
OnePlatform == \A c \in Client : Within[c] # Null => PlatformOf[c] = PlatformOf[Within[c]]

\* Whoever reports a key as invalid does so after all keys were published.
LateInv ==
  /\ (\E c \in Client : pc[c] # "none") => toPublish = <<>>
  /\ \A i \in 1 .. Len(inbox) : inbox[i].type = "INVALIDATE" =>
       /\ toPublish = <<>>
       /\ \A j \in 1 .. Len(inbox) : inbox[j].type = "PUBLISH" => j < i

\* Every key that is reported, or may be, is one that was handed out.
HandedInv ==
  /\ \A i \in 1 .. Len(inbox) :
       /\ inbox[i].type = "INVALIDATE" => Handed(inbox[i].platform, inbox[i].key)
       /\ \A c \in Client : New(i, c) => inbox[i].platform = PlatformOf[c]
  /\ \A c \in Client : HandsOf(c)

LEMMA LateFact == ASSUME LateInv PROVE ReportedLate
BY EmptySeq DEF LateInv, ReportedLate, Pending, Sent, Left

LEMMA HandedFact == ASSUME HandedInv PROVE ReportedLate
BY DEF HandedInv, ReportedLate, Handed

\* Who sends what.
LEMMA MailStep ==
  ASSUME KeyTypeInv, KeyNext
  PROVE  \/ \E d \in {0, 1} : NoneAdded({"PUBLISH", "NEW", "INVALIDATE"}, d) /\ toPublish' = toPublish
         \/ Publish
         \/ \E c \in Client : ReportInvalid(c) \/ Request(c) \/ RequestNext(c) \/ WakeUp(c)
<1>1. CASE HandleMessage /\ ~ HandleShutdown
  <2>1. inbox # <<>> /\ inbox' = Tail(inbox) /\ toPublish' = toPublish
    BY <1>1 DEF HandleMessage, HandlePublish, HandleUnpublish, HandleExpire, HandleInvalidate,
                HandleNew, Receives
  <2> QED BY <2>1, HandledMail
<1>2. CASE HandleShutdown
  BY <1>2, NoMail DEF HandleShutdown
<1>3. CASE Tick
  BY <1>3, SameMail DEF Tick
<1>4. ASSUME NEW m \in Message, m.type \in {"UNPUBLISH", "SHUTDOWN", "EXPIRE"}, Send(m)
      PROVE  NoneAdded({"PUBLISH", "NEW", "INVALIDATE"}, 0)
  <2>1. m.type \notin {"PUBLISH", "NEW", "INVALIDATE"}
    BY <1>4
  <2> QED BY <1>4, <2>1, SentMail
<1>5. CASE Shutdown \/ \E p \in Platform, k \in Key : Unpublish(p, k)
  <2>1. \E m \in Message : m.type \in {"UNPUBLISH", "SHUTDOWN", "EXPIRE"} /\ Send(m)
    BY <1>5, OutsideSends
  <2>2. toPublish' = toPublish
    BY <1>5 DEF Shutdown, Unpublish
  <2> QED BY <1>4, <2>1, <2>2
<1>6. ASSUME NEW c \in Client, ReportExpired(c)
      PROVE  NoneAdded({"PUBLISH", "NEW", "INVALIDATE"}, 0) /\ toPublish' = toPublish
  <2>1. \E m \in Message : m.type \in {"UNPUBLISH", "SHUTDOWN", "EXPIRE"} /\ Send(m)
    BY <1>6, ClientSends
  <2>2. toPublish' = toPublish
    BY <1>6 DEF ReportExpired
  <2> QED BY <1>4, <2>1, <2>2
<1>7. ASSUME NEW c \in Client, CreateClient(c) \/ EndClient(c) \/ KillWorker(c) \/ Receive(c)
      PROVE  NoneAdded({"PUBLISH", "NEW", "INVALIDATE"}, 0) /\ toPublish' = toPublish
  <2>1. inbox' = inbox \/ inbox' = Unsigned(c)
    BY <1>7 DEF CreateClient, EndClient, KillWorker, Receive, Unsigned
  <2>2. toPublish' = toPublish
    BY <1>7 DEF CreateClient, EndClient, KillWorker, Receive
  <2> QED BY <2>1, <2>2, SameMail
<1> QED BY <1>1, <1>2, <1>3, <1>5, <1>6, <1>7 DEF KeyNext, Proceed

LEMMA LateKept ==
  ASSUME LateInv, toPublish' = toPublish,
         NEW types, {"PUBLISH", "INVALIDATE"} \subseteq types,
         NEW d \in {0, 1}, NoneAdded(types, d),
         \A c \in Client : pc'[c] # "none" => pc[c] # "none" \/ toPublish = <<>>
  PROVE  LateInv'
<1>1. ASSUME NEW i \in 1 .. Len(inbox'), inbox'[i].type = "INVALIDATE"
      PROVE  /\ toPublish' = <<>>
             /\ \A j \in 1 .. Len(inbox') : inbox'[j].type = "PUBLISH" => j < i
  <2>1. i + d \in 1 .. Len(inbox) /\ inbox[i + d].type = "INVALIDATE"
    BY <1>1 DEF NoneAdded, Alike
  <2>2. ASSUME NEW j \in 1 .. Len(inbox'), inbox'[j].type = "PUBLISH"
        PROVE  j < i
    <3>1. j + d \in 1 .. Len(inbox) /\ inbox[j + d].type = "PUBLISH"
      BY <2>2 DEF NoneAdded, Alike
    <3>2. j + d < i + d
      BY <2>1, <3>1 DEF LateInv
    <3> QED BY <3>2
  <2> QED BY <2>1, <2>2 DEF LateInv
<1> QED BY <1>1 DEF LateInv

LEMMA LateStep ==
  ASSUME KeyTypeInv, PublishedFirst, LateInv, KeyNext
  PROVE  LateInv'
<1>0. KeyTypeOK
  BY DEF KeyTypeInv
<1>1. \A c \in Client : pc'[c] # "none" => pc[c] # "none" \/ toPublish = <<>>
  <2>1. CASE NotOfClients
    BY <2>1, ApartFacts
  <2>2. ASSUME NEW e \in Client, Busy(e)
        PROVE  \A c \in Client : pc'[c] # "none" => pc[c] # "none"
    BY <2>2, BusyFacts
  <2>3. ASSUME NEW e \in Client, CreateClient(e) PROVE toPublish = <<>>
    BY <2>3 DEF CreateClient, PublishedFirst
  <2>4. ASSUME NEW e \in Client, EndClient(e) \/ KillWorker(e)
        PROVE  \A c \in Client : pc'[c] # "none" => pc[c] # "none"
    BY <2>4 DEF EndClient, KillWorker, Discard
  <2> QED BY <2>1, <2>2, <2>3, <2>4 DEF KeyNext, NotOfClients, Busy, Proceed
<1>2. CASE \E d \in {0, 1} : NoneAdded({"PUBLISH", "NEW", "INVALIDATE"}, d) /\ toPublish' = toPublish
  BY <1>1, <1>2, LateKept
<1>3. CASE Publish
  <2>1. toPublish # <<>> /\ UNCHANGED pc
    BY <1>3 DEF Publish, clientVars
  <2>2. NoneAdded({"NEW", "INVALIDATE"}, 0)
    BY <1>3, PublishMail
  <2>3. \A i \in 1 .. Len(inbox') : inbox'[i].type # "INVALIDATE"
    BY <2>1, <2>2 DEF NoneAdded, Alike, LateInv
  <2> QED BY <2>1, <2>3 DEF LateInv
<1>4. ASSUME NEW c \in Client, Request(c) \/ RequestNext(c) \/ WakeUp(c)
      PROVE  LateInv'
  <2>1. PICK m \in Message : m.type = "NEW" /\ Send(m)
    BY <1>4, ClientSends DEF Request, RequestNext, WakeUp
  <2>2. m.type \notin {"PUBLISH", "INVALIDATE"}
    BY <2>1
  <2>3. NoneAdded({"PUBLISH", "INVALIDATE"}, 0)
    BY <2>1, <2>2, SentMail
  <2>4. toPublish' = toPublish
    BY <1>4 DEF Request, RequestNext, WakeUp
  <2> QED BY <1>1, <2>3, <2>4, LateKept
<1>5. ASSUME NEW c \in Client, ReportInvalid(c) PROVE LateInv'
  <2>1. PICK m \in Message : m.type = "INVALIDATE" /\ Send(m)
    BY <1>5, ClientSends
  <2>2. /\ toPublish = <<>> /\ toPublish' = toPublish
    BY <1>5 DEF LateInv, ReportInvalid, Begins
  <2>3. /\ Len(inbox) \in Nat
        /\ \A i \in 1 .. Len(inbox') : (i \in 1 .. Len(inbox) /\ inbox'[i] = inbox[i])
                                       \/ (i = Len(inbox) + 1 /\ inbox'[i] = m)
    BY <1>0, <2>1, SentFacts
  <2>4. ASSUME NEW i \in 1 .. Len(inbox'), inbox'[i].type = "INVALIDATE",
               NEW j \in 1 .. Len(inbox'), inbox'[j].type = "PUBLISH"
        PROVE  j < i
    <3>1. j \in 1 .. Len(inbox) /\ inbox'[j] = inbox[j]
      BY <2>1, <2>3, <2>4
    <3>2. CASE i \in 1 .. Len(inbox) /\ inbox'[i] = inbox[i]
      BY <2>4, <3>1, <3>2 DEF LateInv
    <3>3. CASE i = Len(inbox) + 1
      BY <2>3, <3>1, <3>3
    <3> QED BY <2>3, <3>2, <3>3
  <2> QED BY <2>2, <2>4 DEF LateInv
<1> QED BY <1>2, <1>3, <1>4, <1>5, MailStep

\* The keys clients hold: only a request or an answer to a client of the same
\* process brings others.
LEMMA HoldsStep ==
  ASSUME KeyTypeInv, KeyNext, NEW c \in Client, NEW k \in Holds(c)'
  PROVE  \/ k \in Holds(c)
         \/ /\ HandleNew /\ k \in Key /\ inbox[1].type = "NEW" /\ inbox[1].from = Pid(c)
            /\ inbox[1].platform \in known /\ inbox[1].platform \in Platform
            /\ IsFresh(pool'[inbox[1].platform], k)
<1>0. KeyTypeOK /\ k \in Key
  BY DEF KeyTypeInv, Holds
<1>1. ASSUME key'[c] = key[c], buffer'[c] = buffer[c], reported'[c] = reported[c]
      PROVE  k \in Holds(c)
  BY <1>1 DEF Holds
<1>2. CASE NotOfClients /\ buffer'[c] = buffer[c]
  BY <1>1, <1>2, ApartFacts
<1>3. CASE NotOfClients /\ buffer'[c] # buffer[c]
  <2> DEFINE m == inbox[1]
  <2>0. /\ HandleNew /\ UNCHANGED <<key, reported>> /\ pool \in [Platform -> Pool]
        /\ buffer[c] \in Seq(Answer) /\ inbox # <<>> /\ inbox' = Tail(inbox)
    BY <1>0, <1>3, ApartFacts DEF HandleNew, Receives, KeyTypeOK
  <2>1. Head(inbox) = m /\ 1 \in 1 .. Len(inbox) /\ m.type = "NEW"
    BY <1>0, <2>0, HandledFacts DEF HandleNew, Receives
  <2>2. m.platform \in Platform
    BY <2>1 DEF KeyTypeInv, ProperMail, Proper
  <2>3. PICK a : /\ a \in Answers(pool'[m.platform]) /\ buffer' = Delivered(m.from, a)
                 /\ m.platform \in known /\ pool' = Refreshed
    BY <1>3, <2>0, <2>1 DEF HandleNew
  <2>4. m.from = Pid(c) /\ buffer'[c] = Append(buffer[c], a)
    BY <1>3, <2>3 DEF Delivered
  <2>5. pool'[m.platform] \in Pool
    BY <2>0, <2>2, <2>3, RefreshedFacts
  <2>6. a \in Answer /\ (a.key # Null => IsFresh(pool'[m.platform], a.key))
    BY <2>3, <2>5, AnswerFacts
  <2> HIDE DEF m
  <2>7. k \in Holds(c) \/ k = a.key
    <3>1. CASE k \in reported'[c] \/ k = key'[c]
      BY <1>0, <2>0, <3>1 DEF Holds
    <3>2. ASSUME NEW j \in 1 .. Len(buffer'[c]), buffer'[c][j].key = k
          PROVE  k \in Holds(c) \/ k = a.key
      <4>1. /\ Len(buffer[c]) \in Nat /\ Len(Append(buffer[c], a)) = Len(buffer[c]) + 1
            /\ Append(buffer[c], a)[Len(buffer[c]) + 1] = a
            /\ \A i \in 1 .. Len(buffer[c]) : Append(buffer[c], a)[i] = buffer[c][i]
        BY <2>0, <2>6, AppendFacts
      <4>2. j \in 1 .. Len(buffer[c]) \/ j = Len(buffer[c]) + 1
        BY <2>4, <3>2, <4>1
      <4> QED BY <1>0, <2>4, <3>2, <4>1, <4>2 DEF Holds
    <3> QED BY <3>1, <3>2 DEF Holds
  <2> QED BY <1>0, <2>0, <2>1, <2>2, <2>3, <2>4, <2>6, <2>7, NullIsNone DEF m
<1>4. ASSUME NEW e \in Client, Busy(e), c # e PROVE k \in Holds(c)
  BY <1>1, <1>4, BusyFacts
<1>5. CASE Request(c) \/ RequestNext(c) \/ WakeUp(c) \/ ReportExpired(c)
  BY <1>1, <1>5 DEF Request, RequestNext, WakeUp, ReportExpired
<1>6. CASE ReportInvalid(c)
  BY <1>0, <1>6 DEF ReportInvalid, Holds, KeyTypeOK
<1>7. CASE Receive(c)
  <2>0. buffer[c] \in Seq(Answer) /\ buffer[c] # <<>> /\ buffer'[c] = Tail(buffer[c])
    BY <1>0, <1>7 DEF Receive, KeyTypeOK
  <2>1. /\ Head(buffer[c]) = buffer[c][1] /\ Len(buffer[c]) \in Nat \ {0}
        /\ \A i \in 1 .. Len(buffer'[c]) : i + 1 \in 1 .. Len(buffer[c]) /\ buffer'[c][i] = buffer[c][i + 1]
    BY <2>0, TailFacts
  <2>2. 1 \in 1 .. Len(buffer[c])
    BY <2>1
  <2>3. reported' = reported /\ (key'[c] = key[c] \/ key'[c] = buffer[c][1].key)
    BY <1>0, <1>7, <2>1 DEF Receive, KeyTypeOK
  <2> QED BY <2>1, <2>2, <2>3 DEF Holds
<1>8. ASSUME NEW e \in Client, CreateClient(e) PROVE k \in Holds(c)
  BY <1>1, <1>8 DEF CreateClient
<1>9. ASSUME NEW e \in Client, EndClient(e) \/ KillWorker(e) PROVE k \in Holds(c)
  <2>1. PICK cs \in SUBSET Client : Discard(cs)
    BY <1>9 DEF EndClient, KillWorker
  <2>2. c \in cs => key'[c] = Null /\ buffer'[c] = <<>> /\ reported'[c] = {}
    BY <2>1, DiscardFacts
  <2>3. c \notin cs
    BY <1>0, <2>2, EmptySeq, NullIsNone DEF Holds
  <2> QED BY <1>1, <2>1, <2>3, DiscardFacts
<1> QED BY <1>2, <1>3, <1>4, <1>5, <1>6, <1>7, <1>8, <1>9 DEF KeyNext, NotOfClients, Busy, Proceed

\* One process, one platform.
LEMMA SamePlatform ==
  ASSUME OnePlatform, NEW c \in Client, NEW d \in Client, Pid(c) = Pid(d)
  PROVE  PlatformOf[c] = PlatformOf[d]
BY NullIsNone DEF OnePlatform, Pid

LEMMA HandedStep ==
  ASSUME KeyTypeInv, KeyTypeInv', HadInv, KeysGoOn, known \subseteq known',
         OnePlatform, HandedInv, KeyNext
  PROVE  HandedInv'
<1>0. KeyTypeOK
  BY DEF KeyTypeInv
<1>1. \A p \in Platform : \A k \in Key : Handed(p, k) => Handed(p, k)'
  BY DEF Handed, KeysGoOn, NoMorePending
<1>2. ASSUME NEW c \in Client PROVE HandsOf(c)'
  <2>1. ASSUME NEW k \in Holds(c)' PROVE Handed(PlatformOf[c], k)
    <3>1. CASE k \in Holds(c)
      BY <3>1 DEF HandedInv, HandsOf
    <3>2. CASE k \notin Holds(c)
      <4>1. /\ HandleNew /\ k \in Key /\ inbox[1].type = "NEW" /\ inbox[1].from = Pid(c)
            /\ inbox[1].platform \in known /\ inbox[1].platform \in Platform
            /\ IsFresh(pool'[inbox[1].platform], k)
        BY <2>1, <3>2, HoldsStep
      <4>2. 1 \in 1 .. Len(inbox) /\ pool' = Refreshed /\ pool \in [Platform -> Pool]
        BY <1>0, <4>1, HandledFacts DEF HandleNew, Receives, KeyTypeOK
      <4>3. inbox[1].platform = PlatformOf[c]
        BY <4>1, <4>2 DEF HandedInv, New
      <4>4. ~ Out(pool'[PlatformOf[c]], k) /\ Takes(pool[PlatformOf[c]], pool'[PlatformOf[c]])
        BY <4>1, <4>2, <4>3, RefreshedFacts DEF Out, IsFresh
      <4> QED BY <4>1, <4>3, <4>4 DEF Takes, HadInv, Handed
    <3> QED BY <3>1, <3>2
  <2> QED BY <2>1, HandsKept
\* The messages.
<1>3. ASSUME NEW i \in 1 .. Len(inbox'),
             inbox'[i].type = "INVALIDATE" => Handed(inbox'[i].platform, inbox'[i].key)
      PROVE  inbox'[i].type = "INVALIDATE" => Handed(inbox[i].platform, inbox[i].key)'
  <2>1. inbox'[i].type = "INVALIDATE" => inbox'[i].platform \in Platform /\ inbox'[i].key \in Key
    BY DEF KeyTypeInv, ProperMail, Proper
  <2> QED BY <1>1, <1>3, <2>1 DEF Handed
<1>4. ASSUME NEW i \in 1 .. Len(inbox')
      PROVE  /\ inbox'[i].type = "INVALIDATE" => Handed(inbox'[i].platform, inbox'[i].key)
             /\ \A c \in Client : New(i, c)' => inbox'[i].platform = PlatformOf[c]
  <2>1. ASSUME NEW types, {"NEW", "INVALIDATE"} \subseteq types, NEW d \in {0, 1}, NoneAdded(types, d)
        PROVE  /\ inbox'[i].type = "INVALIDATE" => Handed(inbox'[i].platform, inbox'[i].key)
               /\ \A c \in Client : New(i, c)' => inbox'[i].platform = PlatformOf[c]
    <3>1. inbox'[i].type \in {"NEW", "INVALIDATE"} =>
            i + d \in 1 .. Len(inbox) /\ Alike(inbox[i + d], inbox'[i])
      BY <2>1 DEF NoneAdded
    <3> QED BY <3>1, PidType, NullIsNone DEF HandedInv, Alike, New
  <2>2. CASE Publish
    BY <2>1, <2>2, PublishMail
  <2>3. ASSUME NEW e \in Client, ReportInvalid(e) \/ Request(e) \/ RequestNext(e) \/ WakeUp(e)
        PROVE  /\ inbox'[i].type = "INVALIDATE" => Handed(inbox'[i].platform, inbox'[i].key)
               /\ \A c \in Client : New(i, c)' => inbox'[i].platform = PlatformOf[c]
    <3>1. PICK m \in Message :
            /\ Send(m)
            /\ \/ m.type = "NEW" /\ m.from = Pid(e) /\ m.platform = PlatformOf[e]
               \/ /\ m.type = "INVALIDATE" /\ m.platform = PlatformOf[e] /\ m.key = key[e]
                  /\ ReportInvalid(e)
      BY <2>3, ClientSends DEF Request, RequestNext, WakeUp
    <3>2. (i \in 1 .. Len(inbox) /\ inbox'[i] = inbox[i]) \/ inbox'[i] = m
      BY <1>0, <3>1, SentFacts
    <3>3. ReportInvalid(e) => Handed(PlatformOf[e], key[e])
      BY <1>0 DEF ReportInvalid, KeyTypeOK, HandedInv, HandsOf, Holds
    <3> QED BY <3>1, <3>2, <3>3, SamePlatform DEF HandedInv, New
  <2> QED BY <2>1, <2>2, <2>3, MailStep
<1>5. \A i \in 1 .. Len(inbox'), c \in Client : New(i, c)' => inbox'[i].platform = PlatformOf[c]
  BY <1>4
<1> QED BY <1>2, <1>3, <1>4, <1>5 DEF HandedInv

LEMMA AtMostOne ==
  ASSUME NEW S, \A x, y \in S : x = y
  PROVE  Cardinality(S) \in {0, 1} /\ (S = {} => Cardinality(S) = 0)
<1>1. CASE S = {}
  BY <1>1, FS_EmptySet
<1>2. ASSUME NEW x \in S PROVE Cardinality(S) = 1
  <2>1. S = {x}
    BY <1>2
  <2> QED BY <2>1, FS_Singleton
<1> QED BY <1>1, <1>2

StateInv == KeyTypeInv /\ PublishOrder /\ HadInv /\ PoolInv

LEMMA StateStep ==
  ASSUME StateInv, ReportedLate, [KeyNext]_keyVars
  PROVE  StateInv'
<1>0. KeyTypeInv'
  BY KeyNextType DEF StateInv
<1>1. CASE UNCHANGED keyVars
  BY <1>0, <1>1 DEF keyVars, StateInv, PublishOrder, HadInv, PoolInv, Sent, Left, Pending, Out, Absent,
                    HadOnce, OnceIn
<1> QED BY <1>0, <1>1, KeysStep DEF StateInv

\* A key published once is fresh, expired or invalid, and not two of them, for
\* any clients, also those of one process: if the keys are published before the
\* first client is made, or the clients of a process use one platform.
THEOREM KeyInOneStateAlways ==
  ASSUME PublishedOnce, OnePlatform \/ PublishedFirst
  PROVE  KeySpec => []KeyInOneState
<1>1. StateInv => KeyInOneState
  <2> SUFFICES ASSUME StateInv, NEW p \in Platform, NEW k \in Key
               PROVE  pool[p].fresh[k] + Cardinality(DOMAIN pool[p].expired \cap {k})
                        + Cardinality(pool[p].invalid \cap {k}) <= 1
    BY DEF KeyInOneState
  <2> DEFINE E == DOMAIN pool[p].expired \cap {k}
             I == pool[p].invalid \cap {k}
  <2>1. OnceIn(pool[p], k)
    BY DEF StateInv, PoolInv
  <2>2. /\ Cardinality(E) \in {0, 1} /\ (E = {} => Cardinality(E) = 0)
        /\ Cardinality(I) \in {0, 1} /\ (I = {} => Cardinality(I) = 0)
    BY AtMostOne
  <2>3. /\ pool[p].fresh[k] \in {0, 1}
        /\ pool[p].fresh[k] = 1 => E = {} /\ I = {}
        /\ E = {} \/ I = {}
    BY <2>1 DEF OnceIn
  <2> HIDE DEF E, I
  <2>4. pool[p].fresh[k] + Cardinality(E) + Cardinality(I) <= 1
    BY <2>2, <2>3
  <2> QED BY <2>4 DEF E, I
<1>2. KeyInit => StateInv /\ LateInv /\ HandedInv
  <2> SUFFICES ASSUME KeyInit PROVE StateInv /\ LateInv /\ HandedInv
    OBVIOUS
  <2>1. StateInv
    BY KeyInitInv DEF StateInv, KeyInv
  <2>2. LateInv
    BY EmptySeq DEF KeyInit, LateInv
  <2>3. \A c \in Client : \A k \in Holds(c) : FALSE
    BY EmptySeq, NullIsNone DEF KeyInit, Holds
  <2>4. HandedInv
    BY <2>3, EmptySeq DEF KeyInit, HandedInv, HandsOf
  <2> QED BY <2>1, <2>2, <2>4
<1>3. CASE PublishedFirst
  <2>1. StateInv /\ LateInv /\ [KeyNext]_keyVars => (StateInv /\ LateInv)'
    <3>1. ASSUME StateInv, LateInv, [KeyNext]_keyVars
          PROVE  (StateInv /\ LateInv)'
      <4>1. StateInv'
        BY <3>1, LateFact, StateStep
      <4>2. LateInv'
        BY <1>3, <3>1, LateStep DEF StateInv, keyVars, LateInv
      <4> QED BY <4>1, <4>2
    <3> QED BY <3>1
  <2> QED BY <1>1, <1>2, <2>1, PTL DEF KeySpec
<1>4. CASE OnePlatform
  <2>1. StateInv /\ HandedInv /\ [KeyNext]_keyVars => (StateInv /\ HandedInv)'
    <3>1. ASSUME StateInv, HandedInv, [KeyNext]_keyVars
          PROVE  (StateInv /\ HandedInv)'
      <4>1. StateInv'
        BY <3>1, HandedFact, StateStep
      <4>2. CASE KeyNext
        <5>1. KeysGoOn /\ known \subseteq known'
          BY <3>1, <4>1, <4>2, KeysStep DEF StateInv
        <5> QED BY <1>4, <3>1, <4>1, <4>2, <5>1, HandedStep DEF StateInv
      <4>3. CASE UNCHANGED keyVars
        <5>1. \A c \in Client : HandsOf(c)'
          BY <3>1, <4>3 DEF keyVars, HandedInv, HandsOf, Holds, Handed, Pending, Sent, Left
        <5>2. ASSUME NEW i \in 1 .. Len(inbox')
              PROVE  inbox'[i].type = "INVALIDATE" => Handed(inbox[i].platform, inbox[i].key)'
          BY <3>1, <4>3 DEF keyVars, HandedInv, Handed, Pending, Sent, Left
        <5>3. \A i \in 1 .. Len(inbox'), c \in Client : New(i, c)' => inbox'[i].platform = PlatformOf[c]
          BY <3>1, <4>3 DEF keyVars, HandedInv, New
        <5> QED BY <4>1, <5>1, <5>2, <5>3 DEF HandedInv
      <4> QED BY <3>1, <4>1, <4>2, <4>3
    <3> QED BY <3>1
  <2> QED BY <1>1, <1>2, <2>1, PTL DEF KeySpec
<1> QED BY <1>3, <1>4

-----------------------------------------------------------------------------
\* No answer is ever taken for that to another request, by a client that has
\* had none made within it.
THEOREM OneAnswerAlways ==
  ASSUME PublishedOnce
  PROVE  KeySpec => []OneAnswerEach
<1>1. KeyInv => OneAnswerEach
  <2> SUFFICES ASSUME KeyInv, NEW c \in Client \ shared, pc[c] # "none"
               PROVE  Open(c) + Len(buffer[c]) <= IF pc[c] = "waiting" THEN 1 ELSE 0
    BY DEF OneAnswerEach
  <2> DEFINE S == {i \in 1 .. Len(inbox) : inbox[i].type = "NEW" /\ inbox[i].from = Pid(c)}
  <2>1. AnswerOf(c) /\ buffer[c] \in Seq(Answer)
    BY DEF KeyInv, KeyTypeInv, KeyTypeOK, Sole, ClientOf
  <2>2. Cardinality(S) \in {0, 1} /\ (S = {} => Cardinality(S) = 0)
    <3>1. \A i, j \in S : i = j
      BY <2>1 DEF AnswerOf, New
    <3> QED BY <3>1, AtMostOne
  <2>3. S # {} => pc[c] = "waiting" /\ buffer[c] = <<>>
    BY <2>1 DEF AnswerOf, New
  <2>4. /\ Len(buffer[c]) \in Nat /\ Len(buffer[c]) <= 1
        /\ buffer[c] = <<>> => Len(buffer[c]) = 0
        /\ buffer[c] # <<>> => pc[c] = "waiting"
    BY <2>1, LenProperties, EmptySeq DEF AnswerOf
  <2>5. Open(c) = Cardinality(S)
    BY DEF Open
  <2> HIDE DEF S
  <2> QED BY <2>2, <2>3, <2>4, <2>5
<1> QED BY <1>1, KeyInvAlways, PTL

\* A client is not handed again a key it has reported as invalid, as long as no
\* client has been made within it.
THEOREM InvalidKeyNotHandedBack ==
  ASSUME PublishedOnce
  PROVE  KeySpec => []InvalidNotHandedBack
<1>1. KeyInv => InvalidNotHandedBack
  BY DEF KeyInv, ClientOf, ReportOf, Sole, InvalidNotHandedBack
<1> QED BY <1>1, KeyInvAlways, PTL

-----------------------------------------------------------------------------
(* The orchestrator implements KeyService. *)

LEMMA StandingType ==
  \A p \in Platform : \A k \in Key :
    Standing[p][k] = StandingOf(p, k) /\ StandingOf(p, k) \in Service!Standings
BY DEF Standing, StandingOf, Service!Standings

LEMMA KeysMove ==
  ASSUME KeyInv, KeysGoOn
  PROVE  Service!Moves
<1>1. Standing' \in [Platform -> [Key -> Service!Standings]]
  BY DEF Standing, StandingOf, Service!Standings
<1>2. ASSUME NEW p \in Platform, NEW k \in Key
      PROVE  Service!Goes(StandingOf(p, k), StandingOf(p, k)')
  <2>1. CASE Pending(p, k)
    <3>1. StandingOf(p, k) = "awaited"
      BY <2>1 DEF StandingOf
    <3>2. StandingOf(p, k)' \in {"awaited", "fresh", "gone"}
      BY <2>1 DEF StandingOf, KeysGoOn, IsExpired
    <3> QED BY <3>1, <3>2 DEF Service!Goes, Service!Edges
  <2>2. CASE ~ Pending(p, k)
    <3>1. ~ Pending(p, k)'
      BY <2>2 DEF KeysGoOn, NoMorePending
    <3>2. StandingOf(p, k)' \in {"fresh", "expired", "gone"}
      BY <3>1 DEF StandingOf
    <3>3. StandingOf(p, k) \in {"fresh", "expired", "gone"}
      BY <2>2 DEF StandingOf
    <3>4. CASE Out(pool[p], k)
      <4>1. Out(pool'[p], k)
        BY <2>2, <3>4 DEF KeysGoOn
      <4>2. StandingOf(p, k)' = "gone"
        BY <3>1, <4>1 DEF StandingOf, Out, IsFresh, IsExpired
      <4> QED BY <3>3, <4>2 DEF Service!Goes, Service!Edges
    <3>5. CASE ~ Out(pool[p], k)
      <4>1. StandingOf(p, k) \in {"fresh", "expired"}
        BY <2>2, <3>5 DEF StandingOf, Out, IsFresh, IsExpired, KeyInv, HadInv, HadOnce
      <4> QED BY <3>2, <4>1 DEF Service!Goes, Service!Edges
    <3> QED BY <3>4, <3>5
  <2> QED BY <2>1, <2>2
<1>3. \A p \in Platform, k \in Key :
        Standing[p][k] = StandingOf(p, k) /\ Standing'[p][k] = StandingOf(p, k)'
  BY DEF Standing
<1> QED BY <1>1, <1>2, <1>3 DEF Service!Moves

\* The keys stand as they did while no message about publishing comes or goes.
LEMMA SameStanding ==
  ASSUME KeyTypeInv, UNCHANGED <<pool, toPublish>>,
         NEW types, "PUBLISH" \in types, NoneAdded(types, 0), NoneLost(0)
  PROVE  Standing' = Standing
<1>0. inbox \in Seq(Message) /\ Len(inbox) \in Nat
  BY LenProperties DEF KeyTypeInv, KeyTypeOK
<1>1. ASSUME NEW p \in Platform, NEW k \in Key
      PROVE  Sent(p, k)' <=> Sent(p, k)
  <2>1. ASSUME NEW i \in 1 .. Len(inbox'),
               inbox'[i].type = "PUBLISH", inbox'[i].platform = p, inbox'[i].key = k
        PROVE  Sent(p, k)
    BY <2>1 DEF NoneAdded, Alike, Sent
  <2>2. ASSUME NEW i \in 1 .. Len(inbox),
               inbox[i].type = "PUBLISH", inbox[i].platform = p, inbox[i].key = k
        PROVE  Sent(p, k)'
    <3>1. i - 0 \in 1 .. Len(inbox') /\ Alike(inbox[i], inbox'[i - 0])
      BY <1>0 DEF NoneLost
    <3>2. \E j \in 1 .. Len(inbox') :
            inbox'[j].type = "PUBLISH" /\ inbox'[j].platform = p /\ inbox'[j].key = k
      BY <2>2, <3>1 DEF Alike
    <3> QED BY <3>2 DEF Sent
  <2> QED BY <2>1, <2>2 DEF Sent
<1>2. \A p \in Platform : \A k \in Key : Left(p, k)' <=> Left(p, k)
  BY DEF Left
<1>3. \A p \in Platform : \A k \in Key : StandingOf(p, k)' = StandingOf(p, k)
  BY <1>1, <1>2 DEF StandingOf, Pending
<1> QED BY <1>3 DEF Standing

\* What the service sees of a client, and a client it sees nothing of.
SameTo(d) ==
  /\ d \in Asking' <=> d \in Asking
  /\ GivenTo(d)' = GivenTo(d)
  /\ Refused'[d] = Refused[d]
Unseen(d) == d \notin Asking /\ GivenTo(d) = Null /\ Refused[d] = {}

LEMMA UnseenFacts ==
  ASSUME NEW d \in Client
  PROVE  /\ DeadInv /\ ~ Sole(d) => Unseen(d)
         /\ DeadInv' /\ ~ Sole(d)' => Unseen(d)'
<1>1. DeadInv /\ ~ Sole(d) => Unseen(d)
  BY DEF DeadInv, Sole, Unseen, Asking, Wants, GivenTo, Refused
<1>2. DeadInv' /\ ~ Sole(d)' => Unseen(d)'
  BY DEF DeadInv, Sole, Unseen, Asking, Wants, GivenTo, Refused
<1> QED BY <1>1, <1>2

LEMMA UnseenSame ==
  ASSUME NEW d \in Client, Unseen(d), Unseen(d)'
  PROVE  SameTo(d)
BY DEF Unseen, SameTo

LEMMA KeptSame ==
  ASSUME NEW d \in Client, d \in shared' <=> d \in shared,
         pc'[d] = pc[d] \/ (~ Wants(d) /\ ~ Wants(d)'),
         key'[d] = key[d], buffer'[d] = buffer[d], reported'[d] = reported[d]
  PROVE  SameTo(d)
BY DEF SameTo, Asking, Wants, Answered, GivenTo, Refused

LEMMA AllSame ==
  ASSUME \A d \in Client : SameTo(d)
  PROVE  UNCHANGED <<Asking, Given, Refused>>
<1>1. Asking \subseteq Client /\ Asking' \subseteq Client
  BY DEF Asking
<1>2. Given' = Given
  BY DEF SameTo, Given
<1>3. Refused = [d \in Client |-> Refused[d]] /\ Refused' = [d \in Client |-> Refused'[d]]
  BY DEF Refused
<1>4. Refused' = Refused
  <2>1. \A d \in Client : Refused'[d] = Refused[d]
    BY DEF SameTo
  <2> HIDE DEF Refused
  <2> QED BY <1>3, <2>1
<1> QED BY <1>1, <1>2, <1>4 DEF SameTo

LEMMA OthersSame ==
  ASSUME NEW c \in Client, \A d \in Client \ {c} : SameTo(d)
  PROVE  /\ Given' = [Given EXCEPT ![c] = GivenTo(c)']
         /\ Asking' = IF c \in Asking' THEN Asking \cup {c} ELSE Asking \ {c}
         /\ Refused' = [Refused EXCEPT ![c] = Refused'[c]]
<1>1. Asking \subseteq Client /\ Asking' \subseteq Client
  BY DEF Asking
<1>2. Given' = [Given EXCEPT ![c] = GivenTo(c)']
  BY DEF SameTo, Given
<1>3. Refused = [d \in Client |-> Refused[d]] /\ Refused' = [d \in Client |-> Refused'[d]]
  BY DEF Refused
<1>4. Refused' = [Refused EXCEPT ![c] = Refused'[c]]
  <2>1. \A d \in Client \ {c} : Refused'[d] = Refused[d]
    BY DEF SameTo
  <2> HIDE DEF Refused
  <2> QED BY <1>3, <2>1
<1> QED BY <1>1, <1>2, <1>4 DEF SameTo

LEMMA LeaveFacts ==
  ASSUME NEW c \in Client, \A d \in Client \ {c} : SameTo(d), Unseen(c)', Standing' = Standing
  PROVE  Service!Leave(c)
BY OthersSame DEF Unseen, Service!Leave

\* A step of a client leaves the keys as they stand.
LEMMA ClientStanding ==
  ASSUME KeyTypeInv, Aside
  PROVE  Standing' = Standing
BY AsideMail, SameStanding

\* A request, the first one or one after a wait.
LEMMA AskStep ==
  ASSUME KeyInv, NEW c \in Client, Sole(c), Request(c) \/ RequestNext(c) \/ WakeUp(c)
  PROVE  Service!ServiceNext \/ UNCHANGED <<Standing, Asking, Given, Refused>>
<1>0. KeyTypeInv /\ KeyTypeOK /\ AnswerOf(c) /\ Busy(c)
  BY DEF KeyInv, KeyTypeInv, ClientOf, Busy
<1>1. /\ pc[c] \in {"idle", "reporting", "sleeping"} /\ pc'[c] = "waiting"
      /\ UNCHANGED <<key, buffer, reported, shared>>
  BY <1>0 DEF Request, RequestNext, WakeUp, Begins, SendNew, KeyTypeOK
<1>2. Standing' = Standing
  BY <1>0, ClientStanding DEF Aside
<1>3. buffer[c] = <<>>
  BY <1>0, <1>1 DEF AnswerOf
<1>4. /\ c \in Asking' /\ GivenTo(c)' = Null /\ Refused'[c] = Refused[c]
      /\ ~ Answered(c) /\ c \notin shared
  BY <1>1, <1>3 DEF Sole, Asking, Wants, Answered, GivenTo, Refused
<1>5. \A d \in Client \ {c} : SameTo(d)
  BY <1>0, BusyFacts, KeptSame
<1>6. Asking' = Asking \cup {c} /\ Given' = [Given EXCEPT ![c] = Null] /\ Refused' = Refused
  <2>1. Refused = [d \in Client |-> Refused[d]]
    BY DEF Refused
  <2> HIDE DEF Refused
  <2> QED BY <1>4, <1>5, <2>1, OthersSame
<1>7. CASE pc[c] = "sleeping"
  <2>1. c \in Asking /\ Given[c] = Null /\ Given = [d \in Client |-> Given[d]]
    BY <1>4, <1>7 DEF Asking, Given, GivenTo, Wants
  <2> QED BY <1>2, <1>6, <2>1
<1>8. CASE pc[c] # "sleeping"
  <2>1. c \notin Asking
    BY <1>1, <1>8 DEF Asking, Wants
  <2>2. Service!Ask(c)
    BY <1>2, <1>6, <2>1 DEF Service!Ask
  <2> QED BY <2>2 DEF Service!ServiceNext
<1> QED BY <1>7, <1>8

LEMMA RefuseStep ==
  ASSUME KeyInv, NEW c \in Client, Sole(c), ReportInvalid(c)
  PROVE  Service!ServiceNext
<1>0. KeyTypeInv /\ KeyTypeOK /\ Busy(c) /\ c \notin shared
  BY DEF KeyInv, KeyTypeInv, Busy, Sole
<1>1. /\ pc[c] = "idle" /\ pc'[c] = "reporting" /\ key[c] # Null
      /\ UNCHANGED <<key, buffer, shared>> /\ reported'[c] = reported[c] \cup {key[c]}
  BY <1>0 DEF ReportInvalid, Begins, KeyTypeOK
<1>2. Standing' = Standing
  BY <1>0, ClientStanding DEF Aside
<1>3. \A d \in Client \ {c} : SameTo(d)
  BY <1>0, BusyFacts, KeptSame
<1>4. /\ c \notin Asking /\ c \notin Asking' /\ Given[c] = key[c] /\ GivenTo(c)' = Given[c]
      /\ Refused'[c] = Refused[c] \cup {Given[c]}
  BY <1>0, <1>1 DEF Asking, Wants, Given, GivenTo, Refused
<1>5. Given = [d \in Client |-> Given[d]]
  BY DEF Given
<1>6. /\ Asking' = Asking /\ Given' = Given
      /\ Refused' = [Refused EXCEPT ![c] = Refused[c] \cup {Given[c]}]
  <2> HIDE DEF Given, Refused
  <2> QED BY <1>3, <1>4, <1>5, OthersSame
<1>7. Service!Refuse(c)
  BY <1>1, <1>2, <1>4, <1>6 DEF Service!Refuse
<1> QED BY <1>7 DEF Service!ServiceNext

\* A client that comes: the one within which it is made leaves the service.
LEMMA ComeStep ==
  ASSUME KeyInv, KeyInv', NEW c \in Client, CreateClient(c)
  PROVE  Service!ServiceNext \/ UNCHANGED <<Standing, Asking, Given, Refused>>
<1>0. KeyTypeInv /\ KeyTypeOK /\ TreeInv /\ DeadInv /\ DeadInv'
  BY DEF KeyInv, KeyTypeInv
<1>1. /\ pc[c] = "none" /\ pc'[c] = "idle" /\ \A d \in Client \ {c} : pc'[d] = pc[d]
      /\ UNCHANGED <<key, buffer, reported>>
      /\ shared \subseteq shared'
      /\ shared' \subseteq shared \cup {d \in Client : Pid(d) = Pid(c) /\ pc[d] # "none"} \cup {c}
      /\ Within[c] # Null => pc[Within[c]] = "idle" /\ Runs(Within[c])
  BY <1>0 DEF CreateClient, KeyTypeOK
<1>2. Standing' = Standing
  BY <1>0, ClientStanding DEF Aside
<1>3. SameTo(c)
  <2>1. key'[c] = Null /\ reported'[c] = {} /\ Unseen(c)
    BY <1>0, <1>1, UnseenFacts DEF DeadInv, Sole
  <2>2. Unseen(c)'
    BY <1>1, <2>1 DEF Unseen, Asking, Wants, GivenTo, Refused
  <2> QED BY <2>1, <2>2, UnseenSame
<1>4. ASSUME NEW d \in Client \ {c}, d # Within[c] PROVE SameTo(d)
  <2>1. CASE d \in shared' /\ d \notin shared
    <3>1. Pid(d) = Pid(c) /\ pc[d] # "none"
      BY <1>1, <1>4, <2>1
    <3>2. CASE Within[c] = Null
      <4>1. Within[d] = c
        BY <1>4, <3>1, <3>2, WithinFacts
      <4> QED BY <1>0, <1>1, <3>1, <4>1, NullIsNone DEF TreeInv
    <3>3. CASE Within[c] # Null
      <4>1. Within[d] = Within[c]
        BY <1>4, <3>1, <3>3, WithinFacts
      <4> QED BY <1>1, <3>1, <3>3, <4>1 DEF Runs
    <3> QED BY <3>2, <3>3
  <2>2. CASE d \in shared' <=> d \in shared
    BY <1>1, <1>4, <2>2, KeptSame
  <2> QED BY <1>1, <2>1, <2>2
<1>5. CASE Within[c] # Null
  <2> DEFINE w == Within[c]
  <2>1. w \in Client /\ w # c /\ Pid(w) = Pid(c) /\ pc[w] # "none"
    BY <1>1, <1>5, WithinFacts
  <2>2. ~ Sole(w)'
    BY <2>1 DEF CreateClient, Sole
  <2> HIDE DEF w
  <2>3. Unseen(w)'
    BY <1>0, <2>1, <2>2, UnseenFacts
  <2>4. \A d \in Client \ {w} : SameTo(d)
    BY <1>3, <1>4 DEF w
  <2>5. Service!Leave(w)
    BY <1>2, <2>1, <2>3, <2>4, LeaveFacts
  <2> QED BY <2>1, <2>5 DEF Service!ServiceNext
<1>6. CASE Within[c] = Null
  <2>1. \A d \in Client : SameTo(d)
    BY <1>3, <1>4, <1>6, NullIsNone
  <2> QED BY <1>2, <2>1, AllSame
<1> QED BY <1>5, <1>6

\* Clients that go: one of them at most is one of the service's.
LEMMA GoStep ==
  ASSUME KeyInv, KeyInv', NEW e \in Client, EndClient(e) \/ KillWorker(e)
  PROVE  Service!ServiceNext
<1>0. KeyTypeInv /\ TreeInv /\ DeadInv /\ DeadInv'
  BY DEF KeyInv
<1>1. Standing' = Standing
  BY <1>0, ClientStanding DEF Aside
<1>2. PICK cs \in SUBSET Client : /\ Discard(cs) /\ cs # {}
                                  /\ \A c, d \in cs : Pid(c) = Pid(d)
  <2>1. CASE EndClient(e)
    <3>1. Discard({e})
      BY <2>1 DEF EndClient
    <3> QED BY <3>1
  <2>2. CASE KillWorker(e)
    <3>1. Discard({d \in Client : Pid(d) = e}) /\ Pid(e) = e
      BY <2>2 DEF KillWorker, Pid
    <3> QED BY <3>1
  <2> QED BY <2>1, <2>2
<1>3. PICK c \in cs : \A d \in cs \ {c} : ~ Sole(d)
  <2>1. \A c, d \in cs : Sole(c) /\ Sole(d) => c = d
    BY <1>0, <1>2, SoleFacts DEF Sole
  <2> QED BY <1>2, <2>1
<1>4. \A d \in cs : ~ Sole(d)'
  BY <1>2, DiscardFacts DEF Sole
<1>5. ASSUME NEW d \in Client, d # c PROVE SameTo(d)
  <2>1. CASE d \in cs
    BY <1>0, <1>3, <1>4, <1>5, <2>1, UnseenFacts, UnseenSame
  <2>2. CASE d \notin cs
    BY <1>2, <2>2, DiscardFacts, KeptSame
  <2> QED BY <2>1, <2>2
<1>6. Unseen(c)'
  BY <1>0, <1>4, UnseenFacts
<1>7. Service!Leave(c)
  BY <1>1, <1>5, <1>6, LeaveFacts
<1> QED BY <1>7 DEF Service!ServiceNext

\* A client reads its answer: the service has given it already.
LEMMA ReadStep ==
  ASSUME KeyInv, NEW c \in Client, Sole(c), Receive(c)
  PROVE  UNCHANGED <<Standing, Asking, Given, Refused>>
<1> DEFINE a == Head(buffer[c])
<1>0. KeyTypeInv /\ KeyTypeOK /\ AnswerOf(c) /\ Busy(c)
  BY DEF KeyInv, KeyTypeInv, ClientOf, Busy
<1>1. pc[c] = "waiting" /\ buffer[c] \in Seq(Answer) /\ buffer[c] # <<>> /\ Len(buffer[c]) <= 1
  BY <1>0 DEF Receive, KeyTypeOK, AnswerOf
<1>2. a.wait \in Nat
  <2>1. a \in Answer
    BY <1>1, TailFacts
  <2> HIDE DEF a
  <2>2. a.wait \in 0 .. MaxWait + Grace
    BY <2>1 DEF Answer
  <2> QED BY <2>2, MaxWaitAssumption DEF Grace
<1>3. Tail(buffer[c]) = <<>>
  BY <1>1, OnlyOne
<1>4. /\ UNCHANGED <<reported, shared>> /\ buffer'[c] = <<>>
      /\ \/ a.wait > 0 /\ pc'[c] = "sleeping"
         \/ ~ (a.wait > 0) /\ pc'[c] = "idle" /\ key'[c] = a.key
  BY <1>0, <1>3 DEF Receive, KeyTypeOK
<1>5. Answered(c) <=> ~ (a.wait > 0)
  BY <1>1, <1>2 DEF Answered
<1>6. ~ Answered(c)' /\ (Wants(c)' <=> a.wait > 0) /\ Wants(c)
  BY <1>1, <1>4 DEF Answered, Wants
<1>7. SameTo(c)
  BY <1>4, <1>5, <1>6 DEF SameTo, Asking, GivenTo, Refused
<1>8. \A d \in Client \ {c} : SameTo(d)
  BY <1>0, <1>4, BusyFacts, KeptSame
<1>9. Standing' = Standing
  BY <1>0, ClientStanding DEF Aside
<1> QED BY <1>7, <1>8, <1>9, AllSame

\* A step of a client that is none of the service's, or a report that a key has
\* expired.
LEMMA UnseenStep ==
  ASSUME KeyInv, KeyInv', NEW c \in Client, Busy(c), ~ Sole(c) \/ ReportExpired(c)
  PROVE  UNCHANGED <<Standing, Asking, Given, Refused>>
<1>0. KeyTypeInv /\ KeyTypeOK /\ DeadInv /\ DeadInv'
  BY DEF KeyInv, KeyTypeInv
<1>1. Standing' = Standing
  BY <1>0, ClientStanding DEF Aside, Busy
<1>2. \A d \in Client \ {c} : SameTo(d)
  BY <1>0, BusyFacts, KeptSame
<1>3. SameTo(c)
  <2>1. CASE ~ Sole(c)
    <3>1. ~ Sole(c)'
      BY <1>0, <2>1, BusyFacts DEF Sole
    <3> QED BY <1>0, <2>1, <3>1, UnseenFacts, UnseenSame
  <2>2. CASE ReportExpired(c)
    BY <1>0, <2>2, KeptSame DEF ReportExpired, Begins, KeyTypeOK, Wants
  <2> QED BY <2>1, <2>2
<1> QED BY <1>1, <1>2, <1>3, AllSame

\* An answer is a key, or that there is none, or how long to wait: then the
\* client goes on asking.  Whoever else gets it is none of the service's.
LEMMA GrantStep ==
  ASSUME KeyInv, KeyInv', KeysGoOn, HandleNew
  PROVE  Service!ServiceNext
<1>0. /\ KeyTypeInv /\ KeyTypeOK /\ TreeInv /\ DeadInv /\ DeadInv' /\ HadInv' /\ pool' \in [Platform -> Pool]
      /\ UNCHANGED <<up, known, toPublish, pc, key, wake, reported, shared>>
  BY DEF KeyInv, KeyTypeInv, KeyTypeOK, HandleNew
<1>1. Service!Moves
  BY KeysMove
<1>2. ASSUME NEW d \in Client, ~ Sole(d) \/ buffer'[d] = buffer[d] PROVE SameTo(d)
  <2>1. CASE ~ Sole(d)
    <3>1. ~ Sole(d)'
      BY <1>0, <2>1 DEF Sole
    <3> QED BY <1>0, <2>1, <3>1, UnseenFacts, UnseenSame
  <2>2. CASE buffer'[d] = buffer[d]
    BY <1>0, <2>2, KeptSame
  <2> QED BY <1>2, <2>1, <2>2
<1>3. CASE \A c \in Client : Sole(c) => buffer'[c] = buffer[c]
  <2>1. UNCHANGED <<Asking, Given, Refused>>
    BY <1>2, <1>3, AllSame
  <2> QED BY <1>1, <2>1 DEF Service!ServiceNext, Service!clients
<1>4. ASSUME NEW c \in Client, Sole(c), buffer'[c] # buffer[c]
      PROVE  Service!ServiceNext
  <2> DEFINE p == PlatformOf[c]
  <2>1. pc[c] = "waiting" /\ buffer[c] = <<>> /\ p \in Platform /\ c \notin shared
    BY <1>4, AnswerGiven, KeyAssumption DEF Sole
  <2>2. PICK a : /\ a \in Answers(pool'[p])
                 /\ buffer' = Delivered(Pid(c), a) /\ buffer'[c] = <<a>>
                 /\ \A k \in reported[c] : Out(pool'[p], k) /\ k # a.key
    BY <1>4, AnswerGiven
  <2>3. /\ a.key # Null => a.key \in Key /\ IsFresh(pool'[p], a.key) /\ a.wait = 0
        /\ a.key = Null /\ a.wait = 0 => \A k \in Key : ~ IsFresh(pool'[p], k) /\ ~ IsExpired(pool'[p], k)
    BY <1>0, <2>1, <2>2, AnswerFacts
  <2>4. ASSUME NEW d \in Client \ {c} PROVE SameTo(d)
    <3>1. CASE Pid(d) = Pid(c) /\ pc[d] # "none"
      BY <1>0, <1>2, <1>4, <3>1, SoleFacts DEF Sole
    <3>2. CASE ~ (Pid(d) = Pid(c) /\ pc[d] # "none")
      BY <1>2, <2>2, <3>2 DEF Delivered
    <3> QED BY <3>1, <3>2
  <2>5. Wants(c) /\ Wants(c)' /\ ~ Answered(c) /\ (Answered(c)' <=> a.wait = 0)
    BY <1>0, <2>1, <2>2 DEF Wants, Answered
  <2>6. /\ c \in Asking /\ GivenTo(c) = Null /\ GivenTo(c)' = IF a.wait = 0 THEN a.key ELSE Null
        /\ c \in Asking' <=> a.wait # 0
        /\ Refused'[c] = Refused[c] /\ Refused[c] = reported[c]
    BY <1>0, <2>1, <2>2, <2>5 DEF Asking, GivenTo, Answered, Refused
  <2>7. /\ Given' = [Given EXCEPT ![c] = GivenTo(c)']
        /\ Asking' = IF a.wait = 0 THEN Asking \ {c} ELSE Asking
        /\ Refused' = Refused
    <3>1. Refused = [d \in Client |-> Refused[d]]
      BY DEF Refused
    <3> HIDE DEF Refused
    <3> QED BY <2>4, <2>6, <3>1, OthersSame
  <2>8. Given = [Given EXCEPT ![c] = Null]
    BY <2>6 DEF Given
  <2>9. \A k \in Key : Standing'[p][k] = StandingOf(p, k)'
    BY <2>1 DEF Standing
  <2>10. CASE a.key # Null
    <3>1. ~ Pending(p, a.key)'
      BY <1>0, <2>1, <2>3, <2>10 DEF HadInv, Out, IsFresh
    <3>2. StandingOf(p, a.key)' = "fresh"
      BY <2>3, <2>10, <3>1 DEF StandingOf
    <3>3. a.key \notin Refused[c]
      BY <2>2, <2>6
    <3>4. Service!Grant(c, a.key)
      BY <1>1, <2>3, <2>6, <2>7, <2>9, <2>10, <3>2, <3>3 DEF Service!Grant
    <3> QED BY <2>3, <2>10, <3>4 DEF Service!ServiceNext
  <2>11. CASE a.key = Null /\ a.wait = 0
    <3>1. \A k \in Key : StandingOf(p, k)' \notin {"fresh", "expired"}
      BY <2>3, <2>11 DEF StandingOf
    <3>2. Service!TellNone(c)
      BY <1>1, <2>6, <2>7, <2>8, <2>9, <2>11, <3>1 DEF Service!TellNone
    <3> QED BY <3>2 DEF Service!ServiceNext
  <2>12. CASE a.wait # 0
    BY <1>1, <2>6, <2>7, <2>8, <2>12 DEF Service!ServiceNext, Service!clients
  <2> QED BY <2>10, <2>11, <2>12
<1> QED BY <1>3, <1>4

LEMMA ServiceInitial == KeyInit => Service!ServiceInit
<1> SUFFICES ASSUME KeyInit PROVE Service!ServiceInit
  OBVIOUS
<1>1. ASSUME NEW p \in Platform, NEW k \in Key
      PROVE  StandingOf(p, k) \in {"awaited", "gone"}
  <2>1. pool[p] = NewPool
    BY DEF KeyInit
  <2>2. Absent(pool[p], k)
    BY <2>1, NewPoolFacts
  <2>3. ~ IsFresh(pool[p], k) /\ ~ IsExpired(pool[p], k)
    BY <2>2 DEF Absent, Out, IsFresh, IsExpired
  <2> QED BY <2>3 DEF StandingOf
<1>2. Asking = {} /\ Given = [c \in Client |-> Null]
  BY DEF KeyInit, Asking, Given, GivenTo, Wants
<1> QED BY <1>1, <1>2 DEF KeyInit, Standing, Refused, Service!ServiceInit

\* Every step of the orchestrator and its clients is a step of the service or
\* none.
LEMMA ServiceStep ==
  ASSUME KeyInv, [KeyNext]_keyVars
  PROVE  [Service!ServiceNext]_<<Standing, Asking, Given, Refused>>
<1>0. KeyInv' /\ KeyTypeInv /\ KeyTypeInv' /\ PublishOrder /\ HadInv
  BY KeyNextInv DEF KeyInv
<1>1. CASE UNCHANGED keyVars
  <2>1. \A d \in Client : SameTo(d)
    BY <1>1, KeptSame DEF keyVars
  <2>2. Standing' = Standing
    BY <1>1 DEF keyVars, Standing, StandingOf, Pending, Sent, Left
  <2> QED BY <2>1, <2>2, AllSame
<1>2. CASE KeyNext
  <2>0. KeysGoOn
    BY <1>0, <1>2, KeysStep
  <2>1. CASE NotOfClients /\ ~ HandleNew
    <3>1. UNCHANGED <<pc, key, buffer, reported, shared>>
      BY <2>1, ApartFacts
    <3>2. UNCHANGED <<Asking, Given, Refused>>
      BY <3>1, KeptSame, AllSame
    <3> QED BY <2>0, <3>2, KeysMove DEF Service!ServiceNext, Service!clients
  <2>2. CASE HandleNew
    BY <1>0, <2>0, <2>2, GrantStep
  <2>3. ASSUME NEW c \in Client, Busy(c)
        PROVE  [Service!ServiceNext]_<<Standing, Asking, Given, Refused>>
    BY <1>0, <2>3, AskStep, RefuseStep, ReadStep, UnseenStep DEF Busy
  <2>4. ASSUME NEW c \in Client, CreateClient(c) \/ EndClient(c) \/ KillWorker(c)
        PROVE  [Service!ServiceNext]_<<Standing, Asking, Given, Refused>>
    BY <1>0, <2>4, ComeStep, GoStep
  <2> QED BY <1>2, <2>1, <2>2, <2>3, <2>4 DEF KeyNext, NotOfClients, Busy, Proceed, HandleMessage
<1> QED BY <1>1, <1>2

\* The orchestrator, its channels and its clients implement KeyService, for any
\* keys, platforms and clients, of one process or of several.
THEOREM OrchestratorImplementsService ==
  ASSUME PublishedOnce
  PROVE  KeySpec => ImplementsService
<1>1. KeyInv /\ [KeyNext]_keyVars => [Service!ServiceNext]_<<Standing, Asking, Given, Refused>>
  BY ServiceStep
<1> QED
  BY <1>1, KeyInvAlways, ServiceInitial, PTL
  DEF KeySpec, ImplementsService, Service!ServiceSpec
=============================================================================

------------------------------- MODULE KeyPool -------------------------------
(***************************************************************************)
(* The API keys of one platform as the key orchestrator keeps them, and    *)
(* what it does to them.  fresh is a list from which keys are drawn at     *)
(* random, so only how often a key is in it matters; expired is a          *)
(* dictionary from keys to the time that is left until they may be used    *)
(* again; invalid is a set that nothing reads but a listing.               *)
(***************************************************************************)
EXTENDS Integers

CONSTANTS Key,      \* API keys
          MaxWait   \* bound: time until an expired key may be used again

ASSUME MaxWaitAssumption == MaxWait \in Nat

Wait == 0 .. MaxWait
Pool == [fresh : [Key -> Nat], expired : UNION {[s -> Wait] : s \in SUBSET Key},
         invalid : SUBSET Key]

NewPool == [fresh |-> [k \in Key |-> 0], expired |-> [k \in {} |-> 0], invalid |-> {}]

IsFresh(q, k)   == q.fresh[k] > 0
IsExpired(q, k) == k \in DOMAIN q.expired

\* list.append, list.remove, dict.pop.
Added(q, k)   == [q EXCEPT !.fresh[k] = @ + 1]
Removed(q, k) == [q EXCEPT !.fresh[k] = @ - 1]
Popped(q, k)  == [q EXCEPT !.expired = [x \in DOMAIN q.expired \ {k} |-> q.expired[x]]]

publish_key(q, k) == Added(q, k)

unpublish_key(q, k) ==
    IF IsFresh(q, k) THEN Removed(q, k)
    ELSE IF IsExpired(q, k) THEN Popped(q, k) ELSE q

\* (mutant) the key is taken out without a look whether it is there.
expire_key_Unchecked(q, k, t) ==
    [Removed(q, k) EXCEPT !.expired =
        [x \in DOMAIN q.expired \cup {k} |-> IF x = k THEN t ELSE q.expired[x]]]

\* (mutant) a late report is recorded although the key is not fresh.
expire_key_Always(q, k, t) ==
    [q EXCEPT !.fresh[k] = IF @ > 0 THEN @ - 1 ELSE @,
              !.expired = [x \in DOMAIN q.expired \cup {k} |->
                              IF x = k THEN t ELSE q.expired[x]]]

expire_key(q, k, t) ==
    IF ~ IsFresh(q, k) THEN q
    ELSE [Removed(q, k) EXCEPT !.expired =
             [x \in DOMAIN q.expired \cup {k} |-> IF x = k THEN t ELSE q.expired[x]]]

\* (mutant) only a fresh key is taken out.
invalidate_key_FreshOnly(q, k) ==
    LET out == IF IsFresh(q, k) THEN Removed(q, k) ELSE q
    IN  [out EXCEPT !.invalid = @ \cup {k}]

invalidate_key(q, k) ==
    [unpublish_key(q, k) EXCEPT !.invalid = @ \cup {k}]

\* (mutant) the comparison of the times the other way round.
Ripe_Reversed(q) == {k \in DOMAIN q.expired : q.expired[k] > 0}

\* The keys whose time has come.
Ripe(q) == {k \in DOMAIN q.expired : q.expired[k] = 0}

refresh_keys(q) ==
    [q EXCEPT !.fresh = [k \in Key |-> IF k \in Ripe(q) THEN @[k] + 1 ELSE @[k]],
              !.expired = [k \in DOMAIN @ \ Ripe(q) |-> @[k]]]

\* The longest a client is told to wait is this much more than MaxWait.
Grace == 1

\* What new_key may answer: a fresh key; how long to wait for the first of the
\* expired ones; no key at all.
FreshKeys(q) == {k \in Key : IsFresh(q, k)}
FirstRipe(q) == CHOOSE t \in Wait : /\ \E k \in DOMAIN q.expired : q.expired[k] = t
                                    /\ \A k \in DOMAIN q.expired : t <= q.expired[k]

\* Time passes by one.
Less(t) == IF t = 0 THEN 0 ELSE t - 1
Aged(q) == [q EXCEPT !.expired = [k \in DOMAIN @ |-> Less(@[k])]]
=============================================================================

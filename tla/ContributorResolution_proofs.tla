---------------------- MODULE ContributorResolution_proofs ----------------------
(***************************************************************************)
(* Type correctness of ContributorResolution, and that no commit is left   *)
(* behind when its author becomes known, for any repositories, commits,    *)
(* emails and users and whatever goes wrong.                               *)
(***************************************************************************)
EXTENDS ContributorResolution, TLAPS

-----------------------------------------------------------------------------
(* The inductive invariant. *)

\* What a chain has to look at, and the commit in its hands, are recent: only
\* the chain itself makes them old, when it is done with them.
QueueInv ==
  \A r \in Repo :
    /\ chain[r].queue \subseteq Recent(r)
    /\ chain[r].commit # Null => chain[r].commit \in Recent(r)
    /\ chain[r].at \in {"idle", "analyse"} => chain[r].queue = {} /\ chain[r].commit = Null

\* A repository will link an email: it has a recent commit of it, and a chain
\* that has read what to link has not done this one yet.
Owes(r, e) ==
  \E d \in Recent(r) :
    /\ EmailOf[d] = e
    /\ At(r, "link") => \E u \in User : <<u, e>> \in chain[r].links

OwedInv ==
  \A c \in Commit : Waiting(c) =>
    \/ EmailOf[c] \in forgotten
    \/ \E r \in Repo : Owes(r, EmailOf[c])

ResolutionInv == ResolutionTypeOK /\ QueueInv /\ OwedInv

-----------------------------------------------------------------------------
(* Type correctness. *)

LEMMA NullIsNone ==
  /\ Null \notin Repo
  /\ Null \notin Commit
  /\ Null \notin Email
  /\ Null \notin Name
  /\ Null \notin User
BY AuthorsAssumption

LEMMA IdleType == Idle \in Chain
BY DEF Idle, Chain, Stage

\* What the steps make of the record of a chain is one again.
LEMMA AfterType ==
  ASSUME ResolutionTypeOK, NEW r \in Repo, NEW c \in Commit
  PROVE  /\ After(r, c) \in Chain
         /\ After(r, c).at = "lookup"
         /\ After(r, c).commit = Null
         /\ After(r, c).queue = chain[r].queue \ {c}
<1>1. chain[r] \in Chain
  BY DEF ResolutionTypeOK
<1> QED BY <1>1 DEF After, Chain, Stage

LEMMA ProfileType ==
  ASSUME NEW u \in User, NEW e \in Email \cup {Null}, NEW n \in Name \cup {Null}
  PROVE  [canonical |-> Coalesce(UserEmail[u], e), name |-> Coalesce(UserName[u], n)]
           \in Contributor
<1>1. Coalesce(UserEmail[u], e) \in Email \cup {Null}
  BY AuthorsAssumption DEF Coalesce
<1>2. Coalesce(UserName[u], n) \in Name \cup {Null}
  BY AuthorsAssumption DEF Coalesce
<1> QED BY <1>1, <1>2 DEF Contributor

\* A step that changes the record of one chain only.
LEMMA OneChainType ==
  ASSUME ResolutionTypeOK, NEW r \in Repo, NEW k \in Chain,
         chain' = [chain EXCEPT ![r] = k],
         k.at \in {"ask", "by name", "upsert", "alias", "resolved"} => k.commit # Null,
         k.at \in {"upsert", "alias", "resolved"} => k.user # Null
  PROVE  /\ chain' \in [Repo -> Chain]
         /\ \A q \in Repo :
              /\ chain'[q].at \in {"ask", "by name", "upsert", "alias", "resolved"}
                    => chain'[q].commit # Null
              /\ chain'[q].at \in {"upsert", "alias", "resolved"} => chain'[q].user # Null
<1>1. chain \in [Repo -> Chain]
  BY DEF ResolutionTypeOK
<1>2. \A q \in Repo : chain'[q] = IF q = r THEN k ELSE chain[q]
  BY <1>1
<1> QED BY <1>1, <1>2 DEF ResolutionTypeOK

LEMMA InitType == ResolutionInit => ResolutionTypeOK
<1> SUFFICES ASSUME ResolutionInit PROVE ResolutionTypeOK
  OBVIOUS
<1>1. Idle.at = "idle"
  BY DEF Idle
<1>2. chain \in [Repo -> Chain] /\ \A r \in Repo : chain[r] = Idle
  BY IdleType DEF ResolutionInit
<1>3. \A r \in Repo : chain[r].at \notin {"ask", "by name", "upsert", "alias", "resolved"}
  BY <1>1, <1>2
<1>4. age \in [Commit -> Age] /\ author \in [Commit -> User \cup {Null}]
  BY DEF ResolutionInit, Age
<1> QED BY <1>2, <1>3, <1>4 DEF ResolutionInit, ResolutionTypeOK

\* The stages of the analysis and of the link.
LEMMA OutsideType ==
  ASSUME ResolutionTypeOK, NEW r \in Repo,
         \/ Begin(r)
         \/ \E c \in Commit : StoreCommit(r, c)
         \/ \E c \in Commit : PruneCommit(r, c)
         \/ \E u \in User, e \in Email : Link(r, u, e)
         \/ \E u \in User, e \in Email : LinkGivesUp(r, u, e)
         \/ Complete(r)
         \/ Fail(r)
  PROVE  ResolutionTypeOK'
<1>1. CASE Begin(r)
  <2> DEFINE k == [chain[r] EXCEPT !.at = "analyse"]
  <2>1. k \in Chain /\ k.at = "analyse"
    BY DEF ResolutionTypeOK, Chain, Stage
  <2>2. chain' = [chain EXCEPT ![r] = k]
    BY <1>1 DEF Begin, ResolutionTypeOK
  <2>3. k.at \notin {"ask", "by name", "upsert", "alias", "resolved"}
    BY <2>1
  <2> HIDE DEF k
  <2> QED BY <1>1, <2>1, <2>2, <2>3, OneChainType DEF Begin, commits, tables, ResolutionTypeOK
<1>2. ASSUME NEW c \in Commit, StoreCommit(r, c)
      PROVE  ResolutionTypeOK'
  BY <1>2 DEF StoreCommit, tables, ResolutionTypeOK, Age
<1>3. ASSUME NEW c \in Commit, PruneCommit(r, c)
      PROVE  ResolutionTypeOK'
  <2>1. forgotten' \subseteq Email
    BY <1>3, AuthorsAssumption DEF PruneCommit, ResolutionTypeOK
  <2>2. age' \in [Commit -> Age] /\ author' \in [Commit -> User \cup {Null}]
    BY <1>3 DEF PruneCommit, ResolutionTypeOK, Age
  <2> QED BY <1>3, <2>1, <2>2 DEF PruneCommit, tables, ResolutionTypeOK
<1>4. ASSUME NEW u \in User, NEW e \in Email, Link(r, u, e) \/ LinkGivesUp(r, u, e)
      PROVE  ResolutionTypeOK'
  <2> DEFINE k == [chain[r] EXCEPT !.links = chain[r].links \ {<<u, e>>}]
  <2>1. k \in Chain /\ k.at = "link"
    BY <1>4 DEF Link, LinkGivesUp, At, ResolutionTypeOK, Chain
  <2>2. chain' = [chain EXCEPT ![r] = k]
    BY <1>4 DEF Link, LinkGivesUp, ResolutionTypeOK
  <2>3. k.at \notin {"ask", "by name", "upsert", "alias", "resolved"}
    BY <2>1
  <2> HIDE DEF k
  <2>4. author' \in [Commit -> User \cup {Null}]
    BY <1>4 DEF Link, LinkGivesUp, commits, ResolutionTypeOK
  <2>5. forgotten' \subseteq Email /\ age' = age /\ UNCHANGED tables
    BY <1>4 DEF Link, LinkGivesUp, commits, tables, ResolutionTypeOK
  <2> QED BY <2>1, <2>2, <2>3, <2>4, <2>5, OneChainType DEF tables, ResolutionTypeOK
<1>5. CASE Complete(r) \/ Fail(r)
  <2>1. chain' = [chain EXCEPT ![r] = Idle]
    BY <1>5 DEF Complete, Fail
  <2>2. age' \in [Commit -> Age]
    BY <1>5 DEF Complete, Fail, commits, ResolutionTypeOK, Age
  <2>3. Idle.at \notin {"ask", "by name", "upsert", "alias", "resolved"}
    BY DEF Idle
  <2>4. UNCHANGED <<author, tables, forgotten>>
    BY <1>5 DEF Complete, Fail, commits
  <2> QED BY <2>1, <2>2, <2>3, <2>4, IdleType, OneChainType DEF tables, ResolutionTypeOK
<1> QED BY <1>1, <1>2, <1>3, <1>4, <1>5

\* The stages of process_commit_metadata, and the readings around it.
LEMMA InsideType ==
  ASSUME ResolutionTypeOK, NEW r \in Repo,
         \/ ReadCommits(r)
         \/ \E c \in Commit : Skip(r, c) \/ LookUp(r, c)
         \/ \E u \in User : FindByFullName(r, u) \/ FindOnGithub(r, u) \/ FindByName(r, u)
         \/ EmailUnknown(r)
         \/ NobodyFound(r)
         \/ UpsertContributor(r)
         \/ InsertAlias(r)
         \/ DeleteUnresolved(r)
         \/ ResolveEmails(r)
  PROVE  ResolutionTypeOK'
<1> DEFINE x == chain[r]
<1>0. x \in Chain /\ chain \in [Repo -> Chain]
  BY DEF ResolutionTypeOK
<1>1. CASE ReadCommits(r)
  <2> DEFINE k == [x EXCEPT !.at = "lookup", !.queue = NewContribs(r)]
  <2>1. k \in Chain /\ k.at = "lookup"
    BY <1>0 DEF Chain, Stage, NewContribs, Recent
  <2>2. chain' = [chain EXCEPT ![r] = k]
    BY <1>0, <1>1 DEF ReadCommits
  <2>3. k.at \notin {"ask", "by name", "upsert", "alias", "resolved"}
    BY <2>1
  <2> HIDE DEF k
  <2> QED BY <1>1, <2>1, <2>2, <2>3, OneChainType DEF ReadCommits, commits, tables, ResolutionTypeOK
<1>2. ASSUME NEW c \in Commit, Skip(r, c)
      PROVE  ResolutionTypeOK'
  <2>1. chain' = [chain EXCEPT ![r] = After(r, c)]
    BY <1>2 DEF Skip
  <2>2. After(r, c).at \notin {"ask", "by name", "upsert", "alias", "resolved"}
    BY AfterType
  <2> QED BY <1>2, <2>1, <2>2, AfterType, OneChainType DEF Skip, commits, tables, ResolutionTypeOK
<1>3. ASSUME NEW c \in Commit, LookUp(r, c)
      PROVE  ResolutionTypeOK'
  <2> DEFINE k == [x EXCEPT !.at = "ask", !.commit = c]
  <2>1. k \in Chain /\ k.at = "ask" /\ k.commit # Null
    BY <1>0, NullIsNone DEF Chain, Stage
  <2>2. chain' = [chain EXCEPT ![r] = k]
    BY <1>0, <1>3 DEF LookUp
  <2> HIDE DEF k
  <2> QED BY <1>3, <2>1, <2>2, OneChainType DEF LookUp, commits, tables, ResolutionTypeOK
<1>4. ASSUME NEW u \in User, FindByFullName(r, u) \/ FindOnGithub(r, u) \/ FindByName(r, u)
      PROVE  ResolutionTypeOK'
  <2> DEFINE k == [x EXCEPT !.at = "upsert", !.user = u]
  <2>1. x.commit # Null
    BY <1>4 DEF FindByFullName, FindOnGithub, FindByName, NotByFullName, At, ResolutionTypeOK
  <2>2. k \in Chain /\ k.at = "upsert" /\ k.user # Null /\ k.commit # Null
    BY <1>0, <2>1, NullIsNone DEF Chain, Stage
  <2>3. chain' = [chain EXCEPT ![r] = k]
    BY <1>0, <1>4 DEF FindByFullName, FindOnGithub, FindByName
  <2>4. UNCHANGED <<commits, tables, forgotten>>
    BY <1>4 DEF FindByFullName, FindOnGithub, FindByName
  <2> HIDE DEF k
  <2> QED BY <2>2, <2>3, <2>4, OneChainType DEF commits, tables, ResolutionTypeOK
<1>5. CASE EmailUnknown(r)
  <2> DEFINE k == [x EXCEPT !.at = "by name"]
  <2>1. x.commit \in Commit
    BY <1>0, <1>5 DEF EmailUnknown, NotByFullName, At, ResolutionTypeOK, Chain
  <2>2. k \in Chain /\ k.at = "by name" /\ k.commit # Null
    BY <1>0, <2>1, NullIsNone DEF Chain, Stage
  <2>3. chain' = [chain EXCEPT ![r] = k]
    BY <1>0, <1>5 DEF EmailUnknown
  <2>4. unresolved' \in [Email -> Name \cup {Null}]
    BY <1>5, <2>1, AuthorsAssumption DEF EmailUnknown, ResolutionTypeOK
  <2>5. UNCHANGED <<commits, contributors, alias, forgotten>>
    BY <1>5 DEF EmailUnknown
  <2> HIDE DEF k, x
  <2> QED BY <2>2, <2>3, <2>4, <2>5, OneChainType DEF commits, ResolutionTypeOK
<1>6. CASE NobodyFound(r)
  <2>1. x.commit \in Commit
    BY <1>0, <1>6 DEF NobodyFound, At, ResolutionTypeOK, Chain
  <2>2. chain' = [chain EXCEPT ![r] = After(r, x.commit)]
    BY <1>6 DEF NobodyFound
  <2>3. After(r, x.commit).at \notin {"ask", "by name", "upsert", "alias", "resolved"}
    BY <2>1, AfterType
  <2>4. After(r, x.commit) \in Chain
    BY <2>1, AfterType
  <2>5. UNCHANGED <<commits, tables, forgotten>>
    BY <1>6 DEF NobodyFound
  <2> HIDE DEF x
  <2> QED BY <2>2, <2>3, <2>4, <2>5, OneChainType DEF commits, tables, ResolutionTypeOK
<1>7. CASE UpsertContributor(r)
  <2> DEFINE k == [x EXCEPT !.at = "alias"]
  <2>1. x.commit \in Commit /\ x.user \in User
    BY <1>0, <1>7 DEF UpsertContributor, At, ResolutionTypeOK, Chain
  <2>2. k \in Chain /\ k.at = "alias" /\ k.commit # Null /\ k.user # Null
    BY <1>0, <2>1, NullIsNone DEF Chain, Stage
  <2>3. chain' = [chain EXCEPT ![r] = k]
    BY <1>0, <1>7 DEF UpsertContributor
  <2> DEFINE p == [canonical |-> Coalesce(UserEmail[x.user], EmailOf[x.commit]),
                   name      |-> Coalesce(UserName[x.user], NameOf[x.commit])]
  <2>4. p \in Contributor
    BY <2>1, AuthorsAssumption, ProfileType
  <2>5. contributors' = [contributors EXCEPT ![x.user] = p]
    BY <1>7 DEF UpsertContributor
  <2>6. UNCHANGED <<commits, alias, unresolved, forgotten>>
    BY <1>7 DEF UpsertContributor
  <2> HIDE DEF k, x, p
  <2>7. contributors' \in [User -> Contributor \cup {Null}]
    BY <2>4, <2>5 DEF ResolutionTypeOK
  <2> QED BY <2>2, <2>3, <2>6, <2>7, OneChainType DEF commits, ResolutionTypeOK
<1>8. CASE InsertAlias(r)
  <2> DEFINE k == [x EXCEPT !.at = "resolved"]
  <2>1. x.commit \in Commit /\ x.user \in User
    BY <1>0, <1>8 DEF InsertAlias, At, ResolutionTypeOK, Chain
  <2>2. k \in Chain /\ k.at = "resolved" /\ k.commit # Null /\ k.user # Null
    BY <1>0, <2>1, NullIsNone DEF Chain, Stage
  <2>3. chain' = [chain EXCEPT ![r] = k]
    BY <1>0, <1>8 DEF InsertAlias
  <2>4. alias' = [alias EXCEPT ![EmailOf[x.commit]] = x.user]
    BY <1>8 DEF InsertAlias
  <2>5. UNCHANGED <<commits, contributors, unresolved, forgotten>>
    BY <1>8 DEF InsertAlias
  <2> HIDE DEF k, x
  <2>6. alias' \in [Email -> User \cup {Null}]
    BY <2>1, <2>4 DEF ResolutionTypeOK
  <2> QED BY <2>2, <2>3, <2>5, <2>6, OneChainType DEF commits, ResolutionTypeOK
<1>9. CASE DeleteUnresolved(r)
  <2>1. x.commit \in Commit
    BY <1>0, <1>9 DEF DeleteUnresolved, At, ResolutionTypeOK, Chain
  <2>2. chain' = [chain EXCEPT ![r] = After(r, x.commit)]
    BY <1>9 DEF DeleteUnresolved
  <2>3. After(r, x.commit).at \notin {"ask", "by name", "upsert", "alias", "resolved"}
    BY <2>1, AfterType
  <2>4. After(r, x.commit) \in Chain
    BY <2>1, AfterType
  <2>5. unresolved' \in [Email -> Name \cup {Null}]
    BY <1>9 DEF DeleteUnresolved, ResolutionTypeOK
  <2>6. UNCHANGED <<commits, contributors, alias, forgotten>>
    BY <1>9 DEF DeleteUnresolved
  <2> HIDE DEF x
  <2> QED BY <2>2, <2>3, <2>4, <2>5, <2>6, OneChainType DEF commits, ResolutionTypeOK
<1>10. CASE ResolveEmails(r)
  <2> DEFINE l == {p \in User \X RecentEmails(r) : IsCanonical(p[1], p[2]) \/ alias[p[2]] = p[1]}
             k == [x EXCEPT !.at = "link", !.links = l]
  <2>1. RecentEmails(r) \subseteq Email
    BY AuthorsAssumption DEF RecentEmails, Recent
  <2>2. l \in SUBSET (User \X Email)
    BY <2>1
  <2>3. chain' = [chain EXCEPT ![r] = k]
    BY <1>0, <1>10 DEF ResolveEmails
  <2> HIDE DEF l
  <2>4. k \in Chain /\ k.at = "link"
    BY <1>0, <2>2 DEF Chain, Stage
  <2>5. k.at \notin {"ask", "by name", "upsert", "alias", "resolved"}
    BY <2>4
  <2>6. UNCHANGED <<commits, tables, forgotten>>
    BY <1>10 DEF ResolveEmails
  <2> HIDE DEF k
  <2> QED BY <2>3, <2>4, <2>5, <2>6, OneChainType DEF commits, tables, ResolutionTypeOK
<1> HIDE DEF x
<1> QED BY <1>1, <1>2, <1>3, <1>4, <1>5, <1>6, <1>7, <1>8, <1>9, <1>10

LEMMA CollectType ==
  ASSUME ResolutionTypeOK, NEW u \in User, CollectUser(u)
  PROVE  ResolutionTypeOK'
<1> DEFINE e == IF contributors[u] = Null THEN Null ELSE contributors[u].canonical
           n == IF contributors[u] = Null THEN Null ELSE contributors[u].name
           p == [canonical |-> Coalesce(UserEmail[u], e), name |-> Coalesce(UserName[u], n)]
<1>1. e \in Email \cup {Null} /\ n \in Name \cup {Null}
  BY DEF ResolutionTypeOK, Contributor
<1>2. contributors' = [contributors EXCEPT ![u] = p]
  BY DEF CollectUser, ResolutionTypeOK
<1> HIDE DEF e, n
<1>3. p \in Contributor
  BY <1>1, ProfileType
<1> HIDE DEF p
<1>4. contributors' \in [User -> Contributor \cup {Null}]
  BY <1>2, <1>3 DEF ResolutionTypeOK
<1> QED BY <1>4 DEF CollectUser, commits, ResolutionTypeOK

\* A step is one of the chains', in one of the two lemmas, or the core's.
LEMMA NextType == ResolutionTypeOK /\ [ResolutionNext]_vars => ResolutionTypeOK'
<1> SUFFICES ASSUME ResolutionTypeOK, [ResolutionNext]_vars PROVE ResolutionTypeOK'
  OBVIOUS
<1>1. ASSUME NEW r \in Repo, Work(r) \/ Disturb(r) \/ \E c \in Commit : StoreCommit(r, c)
      PROVE  ResolutionTypeOK'
  BY <1>1, InsideType, OutsideType DEF Work, Disturb
<1>2. ASSUME NEW u \in User, CollectUser(u)
      PROVE  ResolutionTypeOK'
  BY <1>2, CollectType
<1>3. CASE UNCHANGED vars
  BY <1>3 DEF vars, ResolutionTypeOK
<1> QED BY <1>1, <1>2, <1>3 DEF ResolutionNext, Undisturbed

\* The tables and the chains keep their types, and a chain that resolves a
\* commit has it, and the user, at hand (ResolutionTypeOK).
THEOREM ResolutionTypeCorrect == ResolutionSpec => []ResolutionTypeOK
BY InitType, NextType, PTL DEF ResolutionSpec

-----------------------------------------------------------------------------
(* No commit is left behind. *)

\* What a chain holds is recent as long as the commits stay as they are.
LEMMA QueueKept ==
  ASSUME QueueInv, age' = age, NEW r \in Repo,
         \A q \in Repo : q # r => chain'[q] = chain[q],
         chain'[r].queue \subseteq Recent(r),
         chain'[r].commit # Null => chain'[r].commit \in Recent(r),
         chain'[r].at \in {"idle", "analyse"} => chain'[r].queue = {} /\ chain'[r].commit = Null
  PROVE  QueueInv'
<1>1. \A q \in Repo : Recent(q)' = Recent(q)
  BY DEF Recent
<1> QED BY <1>1 DEF QueueInv

\* A chain that is not linking owes what its recent commits call for: what
\* was owed stays owed when it gets there, and what becomes known to the
\* chain is owed by it.
LEMMA OwedKept ==
  ASSUME ResolutionTypeOK, OwedInv, NEW r \in Repo,
         UNCHANGED <<age, author, forgotten>>,
         \A q \in Repo : q # r => chain'[q] = chain[q],
         chain'[r].at # "link",
         \A e \in Email : alias'[e] # Null /\ alias[e] = Null =>
            \E d \in Recent(r) : EmailOf[d] = e
  PROVE  OwedInv'
<1> SUFFICES ASSUME NEW c \in Commit, Waiting(c)', EmailOf[c] \notin forgotten'
             PROVE  \E q \in Repo : Owes(q, EmailOf[c])'
  BY DEF OwedInv
<1>1. \A q \in Repo : Recent(q)' = Recent(q)
  BY DEF Recent
<1>2. EmailOf[c] \in Email
  BY AuthorsAssumption
<1>3. CASE alias[EmailOf[c]] = Null
  <2>1. PICK d \in Recent(r) : EmailOf[d] = EmailOf[c]
    BY <1>2, <1>3 DEF Waiting, Resolved
  <2>2. Owes(r, EmailOf[c])'
    BY <1>1, <2>1 DEF Owes, At
  <2> QED BY <2>2
<1>4. CASE alias[EmailOf[c]] # Null
  <2>1. Waiting(c)
    BY <1>4 DEF Waiting, Resolved
  <2>2. PICK q \in Repo : Owes(q, EmailOf[c])
    BY <2>1 DEF OwedInv
  <2>3. Owes(q, EmailOf[c])'
    BY <1>1, <2>2 DEF Owes, At
  <2> QED BY <2>3
<1> QED BY <1>3, <1>4

\* A chain between the analysis and the linking.
LEMMA InsideStep ==
  ASSUME ResolutionInv, NEW r \in Repo,
         \/ Begin(r)
         \/ ReadCommits(r)
         \/ \E c \in Commit : Skip(r, c) \/ LookUp(r, c)
         \/ \E u \in User : FindByFullName(r, u) \/ FindOnGithub(r, u) \/ FindByName(r, u)
         \/ EmailUnknown(r)
         \/ NobodyFound(r)
         \/ UpsertContributor(r)
         \/ InsertAlias(r)
         \/ DeleteUnresolved(r)
         \/ Fail(r)
  PROVE  QueueInv' /\ OwedInv'
<1>0. /\ ResolutionTypeOK /\ QueueInv /\ OwedInv
      /\ chain \in [Repo -> Chain] /\ chain[r] \in Chain
  BY DEF ResolutionInv, ResolutionTypeOK
<1>1. UNCHANGED <<age, author, forgotten>>
  BY DEF Begin, ReadCommits, Skip, LookUp, FindByFullName, FindOnGithub, FindByName,
         EmailUnknown, NobodyFound, UpsertContributor, InsertAlias, DeleteUnresolved, Fail, commits
<1>2. \A q \in Repo : q # r => chain'[q] = chain[q]
  BY <1>0 DEF Begin, ReadCommits, Skip, LookUp, FindByFullName, FindOnGithub, FindByName,
         EmailUnknown, NobodyFound, UpsertContributor, InsertAlias, DeleteUnresolved, Fail
<1> DEFINE Good(k) == /\ k.at # "link"
                      /\ k.queue \subseteq Recent(r)
                      /\ k.commit # Null => k.commit \in Recent(r)
                      /\ k.at \in {"idle", "analyse"} => k.queue = {} /\ k.commit = Null
<1>3. \A c \in Commit : Good(After(r, c))
  BY <1>0, AfterType DEF QueueInv
<1>4. Good(chain'[r])
  <2>1. CASE Begin(r)
    <3>1. chain'[r].at = "analyse" /\ chain'[r].queue = chain[r].queue /\ chain'[r].commit = chain[r].commit
      BY <1>0, <2>1 DEF Begin, Chain
    <3> QED BY <1>0, <2>1, <3>1 DEF QueueInv, Begin, At
  <2>2. CASE ReadCommits(r)
    <3>1. chain'[r].at = "lookup" /\ chain'[r].queue = NewContribs(r) /\ chain'[r].commit = chain[r].commit
      BY <1>0, <2>2 DEF ReadCommits, Chain
    <3> QED BY <1>0, <3>1 DEF QueueInv, NewContribs
  <2>3. ASSUME NEW c \in Commit, Skip(r, c) PROVE Good(chain'[r])
    BY <1>0, <1>3, <2>3 DEF Skip
  <2>4. ASSUME NEW c \in Commit, LookUp(r, c) PROVE Good(chain'[r])
    <3>1. chain'[r].at = "ask" /\ chain'[r].queue = chain[r].queue /\ chain'[r].commit = c
      BY <1>0, <2>4 DEF LookUp, Chain
    <3> QED BY <1>0, <2>4, <3>1 DEF QueueInv, LookUp
  <2>5. ASSUME NEW u \in User, FindByFullName(r, u) \/ FindOnGithub(r, u) \/ FindByName(r, u)
        PROVE  Good(chain'[r])
    <3>1. chain'[r].at = "upsert" /\ chain'[r].queue = chain[r].queue /\ chain'[r].commit = chain[r].commit
      BY <1>0, <2>5 DEF FindByFullName, FindOnGithub, FindByName, Chain
    <3> QED BY <1>0, <3>1 DEF QueueInv
  <2>6. CASE EmailUnknown(r) \/ UpsertContributor(r) \/ InsertAlias(r)
    <3>1. chain'[r].at \in {"by name", "alias", "resolved"} /\ chain'[r].queue = chain[r].queue
          /\ chain'[r].commit = chain[r].commit
      BY <1>0, <2>6 DEF EmailUnknown, UpsertContributor, InsertAlias, Chain
    <3> QED BY <1>0, <3>1 DEF QueueInv
  <2>7. CASE NobodyFound(r) \/ DeleteUnresolved(r)
    <3>1. chain[r].commit \in Commit
      BY <1>0, <2>7 DEF NobodyFound, DeleteUnresolved, At, ResolutionTypeOK, Chain
    <3>2. chain'[r] = After(r, chain[r].commit)
      BY <1>0, <2>7 DEF NobodyFound, DeleteUnresolved
    <3> QED BY <1>3, <3>1, <3>2
  <2>8. CASE Fail(r)
    <3>1. chain'[r] = Idle
      BY <1>0, <2>8 DEF Fail
    <3> QED BY <3>1 DEF Idle
  <2> QED BY <2>1, <2>2, <2>3, <2>4, <2>5, <2>6, <2>7, <2>8
<1>5. \A e \in Email : alias'[e] # Null /\ alias[e] = Null =>
         \E d \in Recent(r) : EmailOf[d] = e
  <2>1. CASE InsertAlias(r)
    <3>1. chain[r].commit \in Recent(r)
      BY <1>0, <2>1 DEF InsertAlias, At, ResolutionTypeOK, QueueInv
    <3>2. \A e \in Email : alias'[e] # alias[e] => e = EmailOf[chain[r].commit]
      BY <1>0, <2>1 DEF InsertAlias, ResolutionTypeOK
    <3> QED BY <3>1, <3>2
  <2>2. CASE ~ InsertAlias(r)
    <3>1. alias' = alias
      BY <2>2 DEF Begin, ReadCommits, Skip, LookUp, FindByFullName, FindOnGithub, FindByName,
         EmailUnknown, NobodyFound, UpsertContributor, DeleteUnresolved, Fail, tables
    <3> QED BY <3>1
  <2> QED BY <2>1, <2>2
<1>6. QueueInv'
  BY <1>0, <1>1, <1>2, <1>4, QueueKept
<1>7. OwedInv'
  BY <1>0, <1>1, <1>2, <1>4, <1>5, OwedKept
<1> QED BY <1>6, <1>7

\* A commit that is stored is owed by its repository at once; the email of
\* one that is pruned before it was linked is remembered.
LEMMA CommitsStep ==
  ASSUME ResolutionInv, NEW r \in Repo, NEW c \in Commit,
         StoreCommit(r, c) \/ PruneCommit(r, c)
  PROVE  QueueInv' /\ OwedInv'
<1>0. /\ age \in [Commit -> Age] /\ author \in [Commit -> User \cup {Null}]
      /\ QueueInv /\ OwedInv
  BY DEF ResolutionInv, ResolutionTypeOK
<1>1. /\ At(r, "analyse") /\ RepoOf[c] = r /\ chain' = chain /\ alias' = alias
      /\ \A d \in Commit : d # c => age'[d] = age[d] /\ author'[d] = author[d]
  BY <1>0 DEF StoreCommit, PruneCommit, tables
<1>2. \A q \in Repo : q # r => Recent(q)' = Recent(q)
  BY <1>1 DEF Recent
<1>3. QueueInv'
  BY <1>0, <1>1, <1>2 DEF QueueInv, At
<1>4. \A q \in Repo : \A d \in Recent(q) : d # c => d \in Recent(q)'
  BY <1>1 DEF Recent
<1>5. forgotten \subseteq forgotten'
  BY DEF StoreCommit, PruneCommit
<1>6. ASSUME NEW d \in Commit, Waiting(d)', EmailOf[d] \notin forgotten'
      PROVE  \E q \in Repo : Owes(q, EmailOf[d])'
  <2>1. CASE StoreCommit(r, c) /\ EmailOf[d] = EmailOf[c]
    <3>1. c \in Recent(r)'
      BY <1>0, <1>1, <2>1 DEF StoreCommit, Recent
    <3>2. ~ At(r, "link")'
      BY <1>1 DEF At
    <3> QED BY <2>1, <3>1, <3>2 DEF Owes
  <2>2. CASE ~ (StoreCommit(r, c) /\ EmailOf[d] = EmailOf[c])
    <3>1. d # c
      BY <1>0, <1>6, <2>2 DEF Waiting, PruneCommit
    <3>2. Waiting(d) /\ EmailOf[d] \notin forgotten
      BY <1>1, <1>5, <1>6, <3>1 DEF Waiting, Resolved
    <3>3. PICK q \in Repo : Owes(q, EmailOf[d])
      BY <1>0, <3>2 DEF OwedInv
    <3>4. PICK x : /\ x \in Recent(q) /\ EmailOf[x] = EmailOf[d]
                   /\ At(q, "link") => \E u \in User : <<u, EmailOf[d]>> \in chain[q].links
      BY <3>3 DEF Owes
    <3>5. x # c
      BY <1>0, <1>6, <2>2, <3>4 DEF Recent, StoreCommit, PruneCommit
    <3>6. Owes(q, EmailOf[d])'
      BY <1>1, <1>4, <3>4, <3>5 DEF Owes, At
    <3> QED BY <3>6
  <2> QED BY <2>1, <2>2
<1>7. OwedInv'
  BY <1>6 DEF OwedInv
<1> QED BY <1>3, <1>7

\* What is owed and known is among what the chain is going to link.
LEMMA ResolveStep ==
  ASSUME ResolutionInv, NEW r \in Repo, ResolveEmails(r)
  PROVE  QueueInv' /\ OwedInv'
<1>0. /\ chain \in [Repo -> Chain] /\ chain[r] \in Chain /\ QueueInv /\ OwedInv
      /\ alias \in [Email -> User \cup {Null}]
  BY DEF ResolutionInv, ResolutionTypeOK
<1>1. UNCHANGED <<age, author, alias, forgotten>>
  BY DEF ResolveEmails, commits, tables
<1>2. \A q \in Repo : q # r => chain'[q] = chain[q]
  BY <1>0 DEF ResolveEmails
<1>3. /\ chain'[r].at = "link" /\ chain'[r].queue = chain[r].queue
      /\ chain'[r].commit = chain[r].commit
  BY <1>0 DEF ResolveEmails, Chain
<1>4. \A e \in RecentEmails(r) : alias[e] \in User => <<alias[e], e>> \in chain'[r].links
  <2> DEFINE l == {p \in User \X RecentEmails(r) : IsCanonical(p[1], p[2]) \/ alias[p[2]] = p[1]}
  <2>1. chain'[r].links = l
    BY <1>0 DEF ResolveEmails, Chain
  <2>2. \A e \in RecentEmails(r) : alias[e] \in User => <<alias[e], e>> \in l
    OBVIOUS
  <2> QED BY <2>1, <2>2
<1>5. \A q \in Repo : Recent(q)' = Recent(q)
  BY <1>1 DEF Recent
<1>6. QueueInv'
  BY <1>0, <1>1, <1>2, <1>3, QueueKept DEF QueueInv
<1>7. ASSUME NEW c \in Commit, Waiting(c)', EmailOf[c] \notin forgotten'
      PROVE  \E q \in Repo : Owes(q, EmailOf[c])'
  <2>1. Waiting(c) /\ EmailOf[c] \notin forgotten
    BY <1>1, <1>7 DEF Waiting, Resolved
  <2>2. PICK q \in Repo : Owes(q, EmailOf[c])
    BY <1>0, <2>1 DEF OwedInv
  <2>3. PICK d : /\ d \in Recent(q) /\ EmailOf[d] = EmailOf[c]
                 /\ At(q, "link") => \E u \in User : <<u, EmailOf[c]>> \in chain[q].links
    BY <2>2 DEF Owes
  <2>4. CASE q = r
    <3>1. EmailOf[c] \in RecentEmails(r)
      BY <2>3, <2>4 DEF RecentEmails
    <3>2. alias[EmailOf[c]] \in User
      BY <1>0, <2>1, AuthorsAssumption DEF Waiting, Resolved
    <3>3. <<alias[EmailOf[c]], EmailOf[c]>> \in chain'[r].links
      BY <1>4, <3>1, <3>2
    <3>4. Owes(r, EmailOf[c])'
      BY <1>5, <2>3, <2>4, <3>2, <3>3 DEF Owes
    <3> QED BY <3>4
  <2>5. CASE q # r
    <3>1. Owes(q, EmailOf[c])'
      BY <1>2, <1>5, <2>3, <2>5 DEF Owes, At
    <3> QED BY <3>1
  <2> QED BY <2>4, <2>5
<1>8. OwedInv'
  BY <1>7 DEF OwedInv
<1> QED BY <1>6, <1>8

\* After a link nobody waits with this email, after one that was given up the
\* email is remembered; the chain owes the others as before.
LEMMA LinkStep ==
  ASSUME ResolutionInv, NEW r \in Repo, NEW u \in User, NEW e \in Email,
         Link(r, u, e) \/ LinkGivesUp(r, u, e)
  PROVE  QueueInv' /\ OwedInv'
<1>0. /\ chain \in [Repo -> Chain] /\ chain[r] \in Chain /\ QueueInv /\ OwedInv
      /\ author \in [Commit -> User \cup {Null}]
  BY DEF ResolutionInv, ResolutionTypeOK
<1>1. age' = age /\ alias' = alias
  BY DEF Link, LinkGivesUp, commits, tables
<1>2. \A q \in Repo : q # r => chain'[q] = chain[q]
  BY <1>0 DEF Link, LinkGivesUp
<1>3. /\ chain'[r].at = "link" /\ chain[r].at = "link"
      /\ chain'[r].queue = chain[r].queue /\ chain'[r].commit = chain[r].commit
      /\ chain'[r].links = chain[r].links \ {<<u, e>>}
  BY <1>0 DEF Link, LinkGivesUp, Chain, At
<1>4. \A q \in Repo : Recent(q)' = Recent(q)
  BY <1>1 DEF Recent
<1>5. QueueInv'
  BY <1>0, <1>1, <1>2, <1>3, QueueKept DEF QueueInv
<1>6. ASSUME NEW c \in Commit, Waiting(c)', EmailOf[c] \notin forgotten'
      PROVE  \E q \in Repo : Owes(q, EmailOf[c])'
  <2>1. EmailOf[c] # e
    <3>1. CASE Link(r, u, e)
      BY <1>1, <1>6, <3>1, NullIsNone DEF Link, Waiting, Unlinked
    <3>2. CASE LinkGivesUp(r, u, e)
      BY <1>6, <3>2 DEF LinkGivesUp
    <3> QED BY <3>1, <3>2
  <2>2. author'[c] = author[c]
    BY <2>1 DEF Link, LinkGivesUp, Unlinked, commits
  <2>3. Waiting(c) /\ EmailOf[c] \notin forgotten
    BY <1>1, <1>6, <2>1, <2>2 DEF Waiting, Resolved, Link, LinkGivesUp
  <2>4. PICK q \in Repo : Owes(q, EmailOf[c])
    BY <1>0, <2>3 DEF OwedInv
  <2>5. Owes(q, EmailOf[c])'
    BY <1>2, <1>3, <1>4, <2>1, <2>4 DEF Owes, At
  <2> QED BY <2>5
<1>7. OwedInv'
  BY <1>6 DEF OwedInv
<1> QED BY <1>5, <1>7

\* A chain that ends well owes nothing: others do.
LEMMA CompleteStep ==
  ASSUME ResolutionInv, NEW r \in Repo, Complete(r)
  PROVE  QueueInv' /\ OwedInv'
<1>0. /\ chain \in [Repo -> Chain] /\ age \in [Commit -> Age] /\ QueueInv /\ OwedInv
  BY DEF ResolutionInv, ResolutionTypeOK
<1>1. UNCHANGED <<author, alias, forgotten>>
  BY DEF Complete, tables
<1>2. /\ chain'[r] = Idle /\ \A q \in Repo : q # r => chain'[q] = chain[q]
      /\ chain[r].at = "link" /\ chain[r].links = {}
  BY <1>0 DEF Complete, At
<1>3. \A q \in Repo : q # r => Recent(q)' = Recent(q)
  BY DEF Complete, Recent
<1>4. QueueInv'
  <2>1. Idle.queue = {} /\ Idle.commit = Null
    BY DEF Idle
  <2> QED BY <1>0, <1>2, <1>3, <2>1 DEF QueueInv
<1>5. ASSUME NEW c \in Commit, Waiting(c)', EmailOf[c] \notin forgotten'
      PROVE  \E q \in Repo : Owes(q, EmailOf[c])'
  <2>1. age'[c] = IF c \in Recent(r) THEN "old" ELSE age[c]
    BY DEF Complete
  <2>2. Waiting(c) /\ EmailOf[c] \notin forgotten
    BY <1>1, <1>5, <2>1 DEF Waiting, Resolved, Recent
  <2>3. PICK q \in Repo : Owes(q, EmailOf[c])
    BY <1>0, <2>2 DEF OwedInv
  <2>4. q # r
    BY <1>2, <2>3 DEF Owes, At
  <2>5. Owes(q, EmailOf[c])'
    BY <1>2, <1>3, <2>3, <2>4 DEF Owes, At
  <2> QED BY <2>5
<1>6. OwedInv'
  BY <1>5 DEF OwedInv
<1> QED BY <1>4, <1>6

LEMMA InitInv == ResolutionInit => ResolutionInv
<1> SUFFICES ASSUME ResolutionInit PROVE ResolutionInv
  OBVIOUS
<1>1. \A r \in Repo : chain[r].queue = {} /\ chain[r].commit = Null
  BY DEF ResolutionInit, Idle
<1>2. \A c \in Commit : ~ Waiting(c)
  BY DEF ResolutionInit, Waiting
<1> QED BY <1>1, <1>2, InitType DEF ResolutionInv, QueueInv, OwedInv

\* Neither the core's collections nor a stuttering step are about it.
LEMMA NextInv == ResolutionInv /\ [ResolutionNext]_vars => ResolutionInv'
<1> SUFFICES ASSUME ResolutionInv, [ResolutionNext]_vars PROVE ResolutionInv'
  OBVIOUS
<1>1. ResolutionTypeOK'
  BY NextType DEF ResolutionInv
<1>2. ASSUME NEW r \in Repo, Work(r) PROVE QueueInv' /\ OwedInv'
  BY <1>2, InsideStep, ResolveStep, LinkStep, CompleteStep DEF Work
<1>3. ASSUME NEW r \in Repo, Disturb(r) \/ \E c \in Commit : StoreCommit(r, c)
      PROVE  QueueInv' /\ OwedInv'
  BY <1>3, InsideStep, CommitsStep, LinkStep DEF Disturb
<1>4. CASE (\E u \in User : CollectUser(u)) \/ UNCHANGED vars
  <2>1. UNCHANGED <<age, author, alias, chain, forgotten>>
    BY <1>4 DEF CollectUser, vars, commits
  <2>2. \A q \in Repo : Recent(q)' = Recent(q)
    BY <2>1 DEF Recent
  <2>3. QueueInv'
    BY <2>1, <2>2 DEF ResolutionInv, QueueInv
  <2>4. OwedInv'
    BY <2>1, <2>2 DEF ResolutionInv, OwedInv, Owes, Waiting, Resolved, At
  <2> QED BY <1>1, <2>3, <2>4 DEF ResolutionInv
<1> QED BY <1>1, <1>2, <1>3, <1>4 DEF ResolutionNext, Undisturbed, ResolutionInv

LEMMA InvImplies == ResolutionInv => NoneLeftBehind
BY DEF ResolutionInv, OwedInv, Owes, Recent, NoneLeftBehind

\* However chains overlap, break off and lose their UPDATEs, a stored commit
\* whose author is known and which has none is in the reach of some
\* repository's next chain, or its email is remembered as lost
\* (NoneLeftBehind).
THEOREM NobodyIsLeftBehind == ResolutionSpec => []NoneLeftBehind
BY InitInv, NextInv, InvImplies, PTL DEF ResolutionSpec

-----------------------------------------------------------------------------
(* The order of the two writes about an email. *)

\* A chain that is about to remove an email from the unresolved ones has
\* inserted its alias, and no step takes an alias back.
ResolvedInHand ==
  \A r \in Repo : At(r, "resolved") => Resolved(EmailOf[chain[r].commit])

ResolvedInv == ResolutionTypeOK /\ ResolvedInHand

\* Only InsertAlias brings a chain where it removes the email, and only it
\* writes an alias.
LEMMA OthersPassBy ==
  ASSUME ResolutionTypeOK, NEW r \in Repo,
         Work(r) \/ Disturb(r) \/ \E c \in Commit : StoreCommit(r, c), ~ InsertAlias(r)
  PROVE  /\ alias' = alias
         /\ \A q \in Repo : At(q, "resolved")' => chain'[q] = chain[q]
<1> DEFINE Passed == \A q \in Repo : chain'[q].at = "resolved" => chain'[q] = chain[q]
<1>1. chain \in [Repo -> Chain]
  BY DEF ResolutionTypeOK
<1>2. ASSUME NEW k, k.at # "resolved", chain' = [chain EXCEPT ![r] = k]
      PROVE  Passed
  BY <1>1, <1>2
<1>3. ASSUME NEW s, s # "resolved", chain' = [chain EXCEPT ![r].at = s]
      PROVE  Passed
  BY <1>1, <1>3 DEF Chain
<1>4. CASE Begin(r) \/ EmailUnknown(r) \/ UpsertContributor(r)
  <2>1. Passed
    BY <1>3, <1>4 DEF Begin, EmailUnknown, UpsertContributor
  <2> QED BY <1>4, <2>1 DEF Begin, EmailUnknown, UpsertContributor, tables, At
<1>5. ASSUME \/ ReadCommits(r) \/ ResolveEmails(r)
             \/ \E c \in Commit : LookUp(r, c)
             \/ \E u \in User : FindByFullName(r, u) \/ FindOnGithub(r, u) \/ FindByName(r, u)
      PROVE  Passed /\ alias' = alias
  <2>1. CASE ReadCommits(r)
    BY <1>1, <2>1 DEF ReadCommits, tables, Chain
  <2>2. CASE ResolveEmails(r)
    <3>1. PICK l : chain' = [chain EXCEPT ![r].at = "link", ![r].links = l]
      BY <2>2 DEF ResolveEmails
    <3>2. Passed
      BY <1>1, <3>1 DEF Chain
    <3> QED BY <2>2, <3>2 DEF ResolveEmails, tables
  <2>3. CASE \E c \in Commit : LookUp(r, c)
    BY <1>1, <2>3 DEF LookUp, tables, Chain
  <2>4. CASE \E u \in User : FindByFullName(r, u) \/ FindOnGithub(r, u) \/ FindByName(r, u)
    BY <1>1, <2>4 DEF FindByFullName, FindOnGithub, FindByName, tables, Chain
  <2> QED BY <1>5, <2>1, <2>2, <2>3, <2>4
<1>6. ASSUME \/ \E c \in Commit : Skip(r, c)
             \/ NobodyFound(r)
             \/ DeleteUnresolved(r)
             \/ Complete(r)
             \/ Fail(r)
      PROVE  Passed /\ alias' = alias
  <2>1. Idle.at # "resolved"
    BY DEF Idle
  <2>2. \A c \in Commit : After(r, c).at # "resolved"
    BY AfterType
  <2>3. At(r, "by name") \/ At(r, "upsert") \/ At(r, "resolved") => chain[r].commit \in Commit
    BY DEF At, ResolutionTypeOK, Chain
  <2>4. alias' = alias
    BY <1>6 DEF Skip, NobodyFound, DeleteUnresolved, Complete, Fail, tables
  <2> HIDE DEF Passed
  <2>5. CASE \E c \in Commit : Skip(r, c)
    BY <1>2, <2>2, <2>4, <2>5 DEF Skip
  <2>6. CASE NobodyFound(r) \/ DeleteUnresolved(r)
    BY <1>2, <2>2, <2>3, <2>4, <2>6 DEF NobodyFound, DeleteUnresolved
  <2>7. CASE Complete(r) \/ Fail(r)
    BY <1>2, <2>1, <2>4, <2>7 DEF Complete, Fail
  <2> QED BY <1>6, <2>5, <2>6, <2>7
<1>7. ASSUME NEW u \in User, NEW e \in Email, Link(r, u, e) \/ LinkGivesUp(r, u, e)
      PROVE  Passed /\ alias' = alias
  BY <1>1, <1>7 DEF Link, LinkGivesUp, tables, commits, At, Chain
<1>8. ASSUME NEW c \in Commit, StoreCommit(r, c) \/ PruneCommit(r, c)
      PROVE  Passed /\ alias' = alias
  BY <1>8 DEF StoreCommit, PruneCommit, tables
<1> HIDE DEF Passed
<1>9. Passed /\ alias' = alias
  BY <1>4, <1>5, <1>6, <1>7, <1>8 DEF Work, Disturb, At, Passed
<1> QED BY <1>9 DEF Passed, At

LEMMA ResolvedInvStep == ResolvedInv /\ [ResolutionNext]_vars => ResolvedInv'
<1> SUFFICES ASSUME ResolvedInv, [ResolutionNext]_vars PROVE ResolvedInHand'
  BY NextType DEF ResolvedInv
<1>0. ResolutionTypeOK /\ ResolvedInHand
  BY DEF ResolvedInv
<1>1. ASSUME NEW r \in Repo, InsertAlias(r)
      PROVE  ResolvedInHand'
  <2> DEFINE x == chain[r]
  <2>1. x.commit \in Commit /\ x.user \in User /\ x \in Chain /\ chain \in [Repo -> Chain]
    BY <1>0, <1>1 DEF InsertAlias, At, ResolutionTypeOK, Chain
  <2>2. EmailOf[x.commit] \in Email /\ x.user # Null
    BY <2>1, NullIsNone, AuthorsAssumption
  <2>3. alias' = [alias EXCEPT ![EmailOf[x.commit]] = x.user]
    BY <1>1 DEF InsertAlias
  <2>4. \A e \in Email : alias[e] # Null => alias'[e] # Null
    BY <1>0, <2>2, <2>3 DEF ResolutionTypeOK
  <2>5. alias'[EmailOf[x.commit]] # Null
    BY <1>0, <2>2, <2>3 DEF ResolutionTypeOK
  <2>6. chain'[r].commit = x.commit
    BY <1>1, <2>1 DEF InsertAlias, Chain
  <2>7. ASSUME NEW q \in Repo, q # r, chain'[q].at = "resolved"
        PROVE  alias'[EmailOf[chain'[q].commit]] # Null
    <3>1. chain'[q] = chain[q]
      BY <1>1, <2>1, <2>7 DEF InsertAlias
    <3>2. chain[q].commit \in Commit
      BY <1>0, <2>7, <3>1 DEF ResolutionTypeOK, Chain
    <3>3. EmailOf[chain[q].commit] \in Email
      BY <3>2, AuthorsAssumption
    <3> QED BY <1>0, <2>4, <2>7, <3>1, <3>3 DEF ResolvedInHand, At, Resolved
  <2> HIDE DEF x
  <2> QED BY <2>5, <2>6, <2>7 DEF ResolvedInHand, At, Resolved
<1>2. ASSUME NEW r \in Repo,
             Work(r) \/ Disturb(r) \/ \E c \in Commit : StoreCommit(r, c), ~ InsertAlias(r)
      PROVE  ResolvedInHand'
  <2>1. alias' = alias /\ \A q \in Repo : chain'[q].at = "resolved" => chain'[q] = chain[q]
    BY <1>0, <1>2, OthersPassBy DEF At
  <2> QED BY <1>0, <2>1 DEF ResolvedInHand, At, Resolved
<1>3. CASE (\E u \in User : CollectUser(u)) \/ UNCHANGED vars
  BY <1>0, <1>3 DEF CollectUser, vars, ResolvedInHand, At, Resolved
<1> QED BY <1>1, <1>2, <1>3 DEF ResolutionNext, Undisturbed

\* What DeleteUnresolved removes was resolved before, and nobody else removes.
LEMMA RemovedStep ==
  ASSUME ResolvedInv, [ResolutionNext]_vars,
         NEW e \in Email, unresolved[e] # Null, unresolved'[e] = Null
  PROVE  Resolved(e)
<1>0. ResolutionTypeOK /\ ResolvedInHand
  BY DEF ResolvedInv
<1>1. ASSUME NEW r \in Repo, DeleteUnresolved(r)
      PROVE  Resolved(e)
  <2>1. chain[r].commit \in Commit
    BY <1>0, <1>1 DEF DeleteUnresolved, At, ResolutionTypeOK, Chain
  <2>2. e = EmailOf[chain[r].commit]
    BY <1>0, <1>1 DEF DeleteUnresolved, ResolutionTypeOK
  <2> QED BY <1>0, <1>1, <2>2 DEF DeleteUnresolved, ResolvedInHand
<1>2. ASSUME NEW r \in Repo, EmailUnknown(r)
      PROVE  FALSE
  <2> DEFINE c == chain[r].commit
  <2>1. c \in Commit
    BY <1>0, <1>2 DEF EmailUnknown, NotByFullName, At, ResolutionTypeOK, Chain
  <2>2. NameOf[c] # Null
    BY <2>1, NullIsNone, AuthorsAssumption
  <2>3. unresolved' \in {unresolved, [unresolved EXCEPT ![EmailOf[c]] = NameOf[c]]}
    BY <1>2 DEF EmailUnknown
  <2> HIDE DEF c
  <2> QED BY <1>0, <2>2, <2>3 DEF ResolutionTypeOK
<1>3. ASSUME NEW r \in Repo, Work(r) \/ Disturb(r) \/ \E c \in Commit : StoreCommit(r, c),
             ~ DeleteUnresolved(r), ~ EmailUnknown(r)
      PROVE  unresolved' = unresolved
  <2>1. CASE Disturb(r)
    BY <2>1 DEF Disturb, PruneCommit, LinkGivesUp, Fail, tables
  <2>2. CASE Work(r)
    BY <1>3, <2>2 DEF Work, Begin, ReadCommits, Skip, LookUp, FindByFullName, FindOnGithub,
       FindByName, NobodyFound, UpsertContributor, InsertAlias, ResolveEmails, Link, Complete,
       tables
  <2>3. CASE \E c \in Commit : StoreCommit(r, c)
    BY <2>3 DEF StoreCommit, tables
  <2> QED BY <1>3, <2>1, <2>2, <2>3
<1>4. CASE (\E u \in User : CollectUser(u)) \/ UNCHANGED vars
  BY <1>4 DEF CollectUser, vars, tables
<1> QED BY <1>1, <1>2, <1>3, <1>4 DEF ResolutionNext, Undisturbed

\* Whoever overwrites an alias or breaks off in between, an email leaves the
\* unresolved ones only when its contributor is known
\* (ResolvedBeforeRemoved).
THEOREM RemovedWhenResolved == ResolutionSpec => ResolvedBeforeRemoved
<1>1. ResolutionInit => ResolvedInv
  <2>1. ResolutionInit => ResolvedInHand
    BY DEF ResolutionInit, ResolvedInHand, At, Idle
  <2> QED BY <2>1, InitType DEF ResolvedInv
<1>2. ResolvedInv /\ [ResolutionNext]_vars
        => [\A e \in Email : unresolved[e] # Null /\ unresolved'[e] = Null => Resolved(e)]_vars
  BY RemovedStep
<1> QED BY <1>1, <1>2, ResolvedInvStep, PTL DEF ResolutionSpec, ResolvedBeforeRemoved
=============================================================================

------------------------- MODULE ContributorResolution -------------------------
(***************************************************************************)
(* Who wrote a commit: insert_facade_contributors, the last task of a      *)
(* facade chain, looks up the author of each commit that is new to the     *)
(* tables, enters the author in contributors and the email in              *)
(* contributors_aliases, and links the commits that have such an email.    *)
(*                                                                         *)
(* The chains of different repositories share the three tables, in which   *)
(* every step is a transaction of its own, and meet in the commits too: an *)
(* email that one of them resolves is linked in all repositories, because  *)
(* the others do not look at commits they had when they were last          *)
(* collected.                                                              *)
(***************************************************************************)
EXTENDS FiniteSets

CONSTANTS
  Repo,
  Commit,     \* commits the repositories have or may get
  RepoOf,     \* the repository of a commit
  EmailOf,    \* cmt_author_raw_email
  NameOf,     \* cmt_author_name
  Email, Name,
  User,       \* GitHub users: cntrb_id is made of the user id
  UserEmail,  \* the email in a user's profile, or Null
  UserName,   \* the name in a user's profile, or Null
  Event,      \* what may go wrong or be done elsewhere, from AllEvents
  Null

AllEvents == {"chain fails",         \* an exception, a killed worker
              "commits pruned",      \* trim_commits
              "link gives up",       \* insert_or_update_data: ten deadlocks
              "user collected"}      \* query_github_contributors

ASSUME AuthorsAssumption ==
  /\ RepoOf \in [Commit -> Repo]
  /\ EmailOf \in [Commit -> Email]
  /\ NameOf \in [Commit -> Name]
  /\ UserEmail \in [User -> Email \cup {Null}]
  /\ UserName \in [User -> Name \cup {Null}]
  /\ Null \notin Repo \cup Commit \cup Email \cup Name \cup User
  /\ Event \subseteq AllEvents

\* A commit is not stored; or data_collection_date is after
\* facade_data_last_collected of its repository; or it is not.
Age == {"none", "recent", "old"}

\* Where a facade chain is; the commits it has still to look at, the one it
\* is looking at and its author; and the emails it has still to link.
Stage == {"idle", "analyse", "lookup", "ask", "by name", "upsert", "alias", "resolved", "link"}
Chain == [at : Stage, queue : SUBSET Commit, commit : Commit \cup {Null},
          user : User \cup {Null}, links : SUBSET (User \X Email)]
Idle == [at |-> "idle", queue |-> {}, commit |-> Null, user |-> Null, links |-> {}]

VARIABLES
  age,           \* table commits
  author,        \* cmt_ght_author_id
  contributors,  \* cntrb_canonical and cntrb_full_name of a user, or Null
  alias,         \* contributors_aliases: the contributor of an alias_email
  unresolved,    \* unresolved_commit_emails: the name of an email
  chain,         \* the facade chain of each repository
  forgotten      \* history: emails whose recent commits were pruned, or
                 \* whose link was given up, since they were last linked

vars == <<age, author, contributors, alias, unresolved, chain, forgotten>>
commits == <<age, author>>
tables == <<contributors, alias, unresolved>>

Contributor == [canonical : Email \cup {Null}, name : Name \cup {Null}]

ResolutionTypeOK ==
  /\ age \in [Commit -> Age]
  /\ author \in [Commit -> User \cup {Null}]
  /\ contributors \in [User -> Contributor \cup {Null}]
  /\ alias \in [Email -> User \cup {Null}]
  /\ unresolved \in [Email -> Name \cup {Null}]
  /\ chain \in [Repo -> Chain]
  /\ forgotten \subseteq Email
  /\ \A r \in Repo :
        /\ chain[r].at \in {"ask", "by name", "upsert", "alias", "resolved"}
              => chain[r].commit # Null
        /\ chain[r].at \in {"upsert", "alias", "resolved"} => chain[r].user # Null

ResolutionInit ==
  /\ age = [c \in Commit |-> "none"]
  /\ author = [c \in Commit |-> Null]
  /\ contributors = [u \in User |-> Null]
  /\ alias = [e \in Email |-> Null]
  /\ unresolved = [e \in Email |-> Null]
  /\ chain = [r \in Repo |-> Idle]
  /\ forgotten = {}

Recent(r) == {c \in Commit : RepoOf[c] = r /\ age[c] = "recent"}

IsCanonical(u, e) == contributors[u] # Null /\ contributors[u].canonical = e

-----------------------------------------------------------------------------
(* The analysis (module FacadeAnalysis), as far as it is seen here.        *)

At(r, s) == chain[r].at = s

Begin(r) ==
  /\ At(r, "idle")
  /\ chain' = [chain EXCEPT ![r].at = "analyse"]
  /\ UNCHANGED <<commits, tables, forgotten>>

StoreCommit(r, c) ==
  /\ At(r, "analyse")
  /\ RepoOf[c] = r /\ age[c] = "none"
  /\ age' = [age EXCEPT ![c] = "recent"]
  /\ UNCHANGED <<author, tables, chain, forgotten>>

PruneCommit(r, c) ==
  /\ "commits pruned" \in Event
  /\ At(r, "analyse")
  /\ RepoOf[c] = r /\ age[c] # "none"
  /\ age' = [age EXCEPT ![c] = "none"]
  /\ author' = [author EXCEPT ![c] = Null]
  /\ forgotten' = IF age[c] = "recent" THEN forgotten \cup {EmailOf[c]} ELSE forgotten
  /\ UNCHANGED <<tables, chain>>

-----------------------------------------------------------------------------
(* insert_facade_contributors: the commits to look at.                     *)

\* new_contrib_sql: recent commits whose email is not the canonical one of
\* a contributor, or no alias, and those whose email is unresolved.
NewContribs(r) ==
  {c \in Recent(r) :
      \/ \A u \in User : ~ IsCanonical(u, EmailOf[c])
      \/ alias[EmailOf[c]] = Null
      \/ unresolved[EmailOf[c]] # Null}

ReadCommits(r) ==
  /\ At(r, "analyse")
  /\ chain' = [chain EXCEPT ![r].at = "lookup", ![r].queue = NewContribs(r)]
  /\ UNCHANGED <<commits, tables, forgotten>>

-----------------------------------------------------------------------------
(* process_commit_metadata, one commit after the other.                    *)

Resolved(e) == alias[e] # Null
GivenUp(n) == \E e \in Email : unresolved[e] = n

\* The chain is done with a commit.
After(r, c) == [chain[r] EXCEPT !.at = "lookup", !.queue = @ \ {c},
                                !.commit = Null, !.user = Null]

Skip(r, c) ==
  /\ At(r, "lookup") /\ c \in chain[r].queue
  /\ Resolved(EmailOf[c]) \/ GivenUp(NameOf[c])
  /\ chain' = [chain EXCEPT ![r] = After(r, c)]
  /\ UNCHANGED <<commits, tables, forgotten>>

LookUp(r, c) ==
  /\ At(r, "lookup") /\ c \in chain[r].queue
  /\ ~ Resolved(EmailOf[c]) /\ ~ GivenUp(NameOf[c])
  /\ chain' = [chain EXCEPT ![r].at = "ask", ![r].commit = c]
  /\ UNCHANGED <<commits, tables, forgotten>>

Named(n) == {u \in User : contributors[u] # Null /\ contributors[u].name = n}

\* get_contributors_by_full_name: exactly one has the name.
FindByFullName(r, u) ==
  /\ At(r, "ask")
  /\ Named(NameOf[chain[r].commit]) = {u}
  /\ chain' = [chain EXCEPT ![r].at = "upsert", ![r].user = u]
  /\ UNCHANGED <<commits, tables, forgotten>>

NotByFullName(r) ==
  At(r, "ask") /\ Cardinality(Named(NameOf[chain[r].commit])) # 1

\* get_login_with_commit_hash or the search by email names a user.
FindOnGithub(r, u) ==
  /\ NotByFullName(r)
  /\ chain' = [chain EXCEPT ![r].at = "upsert", ![r].user = u]
  /\ UNCHANGED <<commits, tables, forgotten>>

\* The search by email finds nobody: the email is put down as unresolved
\* (a failure to do so is logged), and the name is searched for.
EmailUnknown(r) ==
  /\ NotByFullName(r)
  /\ unresolved' \in
       {unresolved, [unresolved EXCEPT ![EmailOf[chain[r].commit]] = NameOf[chain[r].commit]]}
  /\ chain' = [chain EXCEPT ![r].at = "by name"]
  /\ UNCHANGED <<commits, contributors, alias, forgotten>>

FindByName(r, u) ==
  /\ At(r, "by name")
  /\ chain' = [chain EXCEPT ![r].at = "upsert", ![r].user = u]
  /\ UNCHANGED <<commits, tables, forgotten>>

\* Nobody has the name either; or the login that was found is no user's.
NobodyFound(r) ==
  /\ At(r, "by name") \/ At(r, "upsert")
  /\ chain' = [chain EXCEPT ![r] = After(r, chain[r].commit)]
  /\ UNCHANGED <<commits, tables, forgotten>>

\* The upsert keeps what is stored where the new value is NULL.
Coalesce(x, y) == IF x # Null THEN x ELSE y

\* (mutant) the alias is left to a later collection.
UpsertContributor_NoAlias(r) ==
  /\ At(r, "upsert")
  /\ LET c == chain[r].commit
         u == chain[r].user
     IN  contributors' = [contributors EXCEPT ![u] =
            [canonical |-> Coalesce(UserEmail[u], EmailOf[c]),
             name      |-> Coalesce(UserName[u], NameOf[c])]]
  /\ chain' = [chain EXCEPT ![r].at = "resolved"]
  /\ UNCHANGED <<commits, alias, unresolved, forgotten>>

\* batch_insert_contributors: email and name of the commit where the profile
\* has none.
UpsertContributor(r) ==
  /\ At(r, "upsert")
  /\ LET c == chain[r].commit
         u == chain[r].user
     IN  contributors' = [contributors EXCEPT ![u] =
            [canonical |-> Coalesce(UserEmail[u], EmailOf[c]),
             name      |-> Coalesce(UserName[u], NameOf[c])]]
  /\ chain' = [chain EXCEPT ![r].at = "alias"]
  /\ UNCHANGED <<commits, alias, unresolved, forgotten>>

\* (mutant) the chain forgets which commit it has resolved.
InsertAlias_Forgets(r) ==
  /\ At(r, "alias")
  /\ alias' = [alias EXCEPT ![EmailOf[chain[r].commit]] = chain[r].user]
  /\ chain' = [chain EXCEPT ![r].at = "resolved", ![r].commit = Null]
  /\ UNCHANGED <<commits, contributors, unresolved, forgotten>>

\* insert_alias upserts by alias_email: the last one to resolve it wins.
InsertAlias(r) ==
  /\ At(r, "alias")
  /\ alias' = [alias EXCEPT ![EmailOf[chain[r].commit]] = chain[r].user]
  /\ chain' = [chain EXCEPT ![r].at = "resolved"]
  /\ UNCHANGED <<commits, contributors, unresolved, forgotten>>

DeleteUnresolved(r) ==
  /\ At(r, "resolved")
  /\ unresolved' = [unresolved EXCEPT ![EmailOf[chain[r].commit]] = Null]
  /\ chain' = [chain EXCEPT ![r] = After(r, chain[r].commit)]
  /\ UNCHANGED <<commits, contributors, alias, forgotten>>

-----------------------------------------------------------------------------
(* link_commits_to_contributor.                                            *)

RecentEmails(r) == {EmailOf[c] : c \in Recent(r)}

\* (mutant) the second half of the UNION is missing.
ResolveEmails_CanonicalOnly(r) ==
  /\ At(r, "lookup") /\ chain[r].queue = {}
  /\ chain' = [chain EXCEPT ![r].at = "link",
                 ![r].links = {p \in User \X RecentEmails(r) : IsCanonical(p[1], p[2])}]
  /\ UNCHANGED <<commits, tables, forgotten>>

\* resolve_email_to_cntrb_id_sql, when all commits have been looked at.
ResolveEmails(r) ==
  /\ At(r, "lookup") /\ chain[r].queue = {}
  /\ chain' = [chain EXCEPT ![r].at = "link",
                 ![r].links = {p \in User \X RecentEmails(r) :
                                 IsCanonical(p[1], p[2]) \/ alias[p[2]] = p[1]}]
  /\ UNCHANGED <<commits, tables, forgotten>>

Unlinked(e) == {c \in Commit : age[c] # "none" /\ EmailOf[c] = e /\ author[c] = Null}

\* (mutant) only the commits of the chain's own repository.
Link_OwnRepo(r, u, e) ==
  /\ At(r, "link") /\ <<u, e>> \in chain[r].links
  /\ author' = [c \in Commit |-> IF c \in Unlinked(e) /\ RepoOf[c] = r THEN u ELSE author[c]]
  /\ chain' = [chain EXCEPT ![r].links = @ \ {<<u, e>>}]
  /\ forgotten' = forgotten \ {e}
  /\ UNCHANGED <<age, tables>>

\* The UPDATE is about the commits of every repository.
Link(r, u, e) ==
  /\ At(r, "link") /\ <<u, e>> \in chain[r].links
  /\ author' = [c \in Commit |-> IF c \in Unlinked(e) THEN u ELSE author[c]]
  /\ chain' = [chain EXCEPT ![r].links = @ \ {<<u, e>>}]
  /\ forgotten' = forgotten \ {e}
  /\ UNCHANGED <<age, tables>>

\* insert_or_update_data only logs that it did not get through.
LinkGivesUp(r, u, e) ==
  /\ "link gives up" \in Event
  /\ At(r, "link") /\ <<u, e>> \in chain[r].links
  /\ chain' = [chain EXCEPT ![r].links = @ \ {<<u, e>>}]
  /\ forgotten' = forgotten \cup {e}
  /\ UNCHANGED <<commits, tables>>

\* facade_task_success_util sets facade_data_last_collected: what is stored
\* is not looked at again.
Complete(r) ==
  /\ At(r, "link") /\ chain[r].links = {}
  /\ age' = [c \in Commit |-> IF c \in Recent(r) THEN "old" ELSE age[c]]
  /\ chain' = [chain EXCEPT ![r] = Idle]
  /\ UNCHANGED <<author, tables, forgotten>>

\* The time stays what it was: the next chain looks at the same commits.
Fail(r) ==
  /\ "chain fails" \in Event
  /\ ~ At(r, "idle")
  /\ chain' = [chain EXCEPT ![r] = Idle]
  /\ UNCHANGED <<commits, tables, forgotten>>

\* A core collection meets the user.
CollectUser(u) ==
  /\ "user collected" \in Event
  /\ contributors' = [contributors EXCEPT ![u] =
        [canonical |-> Coalesce(UserEmail[u], IF @ = Null THEN Null ELSE @.canonical),
         name      |-> Coalesce(UserName[u], IF @ = Null THEN Null ELSE @.name)]]
  /\ UNCHANGED <<commits, alias, unresolved, chain, forgotten>>

-----------------------------------------------------------------------------
\* What a chain does to get on with the commits it has.
Work(r) ==
  \/ Begin(r)
  \/ ReadCommits(r)
  \/ \E c \in Commit : Skip(r, c) \/ LookUp(r, c)
  \/ \E u \in User : FindByFullName(r, u) \/ FindOnGithub(r, u) \/ FindByName(r, u)
  \/ EmailUnknown(r)
  \/ NobodyFound(r)
  \/ UpsertContributor(r)
  \/ InsertAlias(r)
  \/ DeleteUnresolved(r)
  \/ ResolveEmails(r)
  \/ \E u \in User, e \in Email : Link(r, u, e)
  \/ Complete(r)

\* What makes it look at commits again, or lose sight of them.
Disturb(r) ==
  \/ \E c \in Commit : PruneCommit(r, c)
  \/ \E u \in User, e \in Email : LinkGivesUp(r, u, e)
  \/ Fail(r)

Undisturbed ==
  \/ \E r \in Repo : Work(r) \/ \E c \in Commit : StoreCommit(r, c)
  \/ \E u \in User : CollectUser(u)

ResolutionNext == Undisturbed \/ \E r \in Repo : Disturb(r)

ResolutionSpec == ResolutionInit /\ [][ResolutionNext]_vars

\* The scheduler starts a chain of every repository again, and a chain that
\* is not disturbed goes on.
ResolutionFairSpec == ResolutionSpec /\ \A r \in Repo : WF_vars(Work(r))

-----------------------------------------------------------------------------
\* A commit that is stored without an author although its email is known.
Waiting(c) == age[c] # "none" /\ author[c] = Null /\ Resolved(EmailOf[c])

\* A commit its repository does not look at any more is not left behind when
\* its author becomes known to another one: as long as it is without author,
\* some repository has a recent commit of the same email, which its next
\* chain links at the latest.  Failures of chains at any point do not matter.
NoneLeftBehind ==
  \A c \in Commit : Waiting(c) =>
      \/ EmailOf[c] \in forgotten
      \/ \E d \in Commit : age[d] = "recent" /\ EmailOf[d] = EmailOf[c]

\* "Do this last to absolutely make sure that the email was resolved before we
\* remove it from the unresolved table" (process_commit_metadata).
ResolvedBeforeRemoved ==
  [][\A e \in Email : unresolved[e] # Null /\ unresolved'[e] = Null => Resolved(e)]_vars

\* Once chains are not disturbed any more, a commit whose email is known gets
\* its author.
WaitingGetAuthor ==
  <>[][Undisturbed]_vars =>
      \A c \in Commit : Waiting(c) ~> ~ Waiting(c) \/ EmailOf[c] \in forgotten

-----------------------------------------------------------------------------
(* What the documentation says and the program does not do.                *)

\* "The canonical_email is also added to the contributors_aliases table"
\* (contributors_aliases in augur_data.py).
CanonicalIsAlias ==
  \A u \in User, e \in Email : IsCanonical(u, e) => alias[e] # Null

\* "Resolve any unresolved emails if we get to this point": an email is not
\* both known and unresolved, unless a chain is between the two writes.
KnownNotUnresolved ==
  \A e \in Email : Resolved(e) /\ unresolved[e] # Null =>
      \E r \in Repo : At(r, "resolved") /\ EmailOf[chain[r].commit] = e
=============================================================================

------------------------------- MODULE RepoRegistry -------------------------------
(***************************************************************************)
(* Which repositories Augur knows, and who asked for them: the tables      *)
(* repo, repo_groups, user_groups, user_repos and collection_status, and   *)
(* the requests of users that fill them.                                   *)
(*                                                                         *)
(* The form of the web page hands its repositories and organisations to    *)
(* the frontend worker; the REST interface adds a repository or an         *)
(* organisation in the request itself.  Every statement on a table is a    *)
(* transaction of its own, so requests, deletions of groups, the daily     *)
(* task that creates missing statuses, core collections that write the     *)
(* repo_src_id and the renaming of repositories on GitHub interleave with  *)
(* them.  A request may break off at any point.                            *)
(***************************************************************************)
EXTENDS Integers, FiniteSets

CONSTANTS
  Urls,        \* addresses of repositories, as stored: in lower case
  Sources,     \* repositories on GitHub (their databaseId, repo_src_id)
  Created,     \* the address each of them was created under
  Owners,      \* owners of repositories on GitHub
  OrgOf,       \* the owner in an address
  Orgs,        \* the owners users ask for
  Capitals,    \* addresses GitHub spells with capitals in its listings
  UserGroups,  \* ids of the groups of users; an id is never used again
  Forms,       \* the frontend worker: it serves one form at a time
  Calls,       \* REST requests that may be under way at once
  Frontend,    \* the repo group of repositories that were added one by one
  NoSource,    \* GitHub knows no repository; repo_src_id is NULL
  NoRepo,      \* no row in table repo
  NoUrl,       \* no address
  ChunkSize,   \* addresses GitHub is asked for at once (100)
  MaxGroups    \* bound: rows of repo_groups with one name

Adders == Forms \cup Calls
OrgGroups == Orgs \X (1 .. MaxGroups)
RepoGroups == OrgGroups \cup {Frontend}
Row == [group : RepoGroups, src : Sources \cup {NoSource}]

ASSUME RegistryAssumption ==
  /\ Created \in [Sources -> Urls]
  /\ \A s, t \in Sources : Created[s] = Created[t] => s = t
  /\ OrgOf \in [Urls -> Owners]
  /\ Orgs \subseteq Owners
  /\ Capitals \subseteq Urls
  /\ UserGroups # {}
  /\ ChunkSize \in Nat \ {0}
  /\ MaxGroups \in Nat \ {0}
  /\ Forms \cap Calls = {}
  /\ Frontend \notin OrgGroups
  /\ NoSource \notin Sources
  /\ NoRepo \notin Row
  /\ NoUrl \notin Urls

VARIABLES
  at,          \* at[u]: the repository GitHub answers with for an address
  home,        \* home[s]: its present address; the older ones redirect
  repo,        \* table repo, by repo_git
  orgGroups,   \* orgGroups[o]: rows of repo_groups named after the owner
  userGroup,   \* table user_groups, and the ids yet and no longer in use
  members,     \* table user_repos
  statuses,    \* table collection_status
  task,        \* the requests under way
  populated    \* history: the rows a core collection gave another source

vars == <<at, home, repo, orgGroups, userGroup, members, statuses, task, populated>>
given == <<at, home, populated>>
rows == <<repo, orgGroups>>
users == <<userGroup, members>>

\* A request: later are the addresses a form has not asked GitHub for yet, todo
\* those of the chunk at hand, each with its repo group, src what GitHub said of
\* them, url/to the pair at hand and row the row found or made for it, handled
\* (history) the addresses that are done with, their rows and what GitHub had
\* said, unless the user took them out of the group since.  doomed belongs to
\* the deletion of a group: the members it read.
Task == [pc : {"idle", "pick", "regroup", "join", "insert", "joinNew",
               "status", "find", "create", "delete"},
         group : UserGroups,
         orgs : SUBSET Orgs,
         lower : BOOLEAN,
         later : SUBSET (Urls \X RepoGroups),
         todo : SUBSET (Urls \X RepoGroups),
         src : [Urls -> Sources \cup {NoSource}],
         url : Urls \cup {NoUrl},
         to : RepoGroups,
         row : Urls \cup {NoUrl},
         handled : SUBSET (Urls \X Urls \X (Sources \cup {NoSource})),
         doomed : SUBSET Urls]

\* The addresses that have a row.
Known == {u \in Urls : repo[u] # NoRepo}
MembersOf(g) == {u \in Urls : <<g, u>> \in members}

NoAnswer == [u \in Urls |-> NoSource]
NoTask == [pc |-> "idle", group |-> CHOOSE g \in UserGroups : TRUE,
           orgs |-> {}, lower |-> TRUE, later |-> {}, todo |-> {}, src |-> NoAnswer,
           url |-> NoUrl, to |-> Frontend, row |-> NoUrl,
           handled |-> {}, doomed |-> {}]

\* The foreign keys of user_repos and collection_status are part of it.
RegistryTypeOK ==
  /\ at \in [Urls -> Sources \cup {NoSource}]
  /\ home \in [Sources -> Urls]
  /\ repo \in [Urls -> Row \cup {NoRepo}]
  /\ orgGroups \in [Orgs -> 0 .. MaxGroups]
  /\ userGroup \in [UserGroups -> {"unused", "live", "deleted"}]
  /\ members \subseteq {g \in UserGroups : userGroup[g] = "live"} \X Known
  /\ statuses \subseteq Known
  /\ task \in [Adders -> Task]
  /\ populated \subseteq Known

RegistryInit ==
  /\ at = [u \in Urls |-> IF \E s \in Sources : Created[s] = u
                          THEN CHOOSE s \in Sources : Created[s] = u
                          ELSE NoSource]
  /\ home = Created
  /\ repo = [u \in Urls |-> NoRepo]
  /\ orgGroups = [o \in Orgs |-> 0]
  /\ userGroup = [g \in UserGroups |-> "unused"]
  /\ members = {}
  /\ statuses = {}
  /\ task = [p \in Adders |-> NoTask]
  /\ populated = {}

-----------------------------------------------------------------------------
(* GitHub and the users. *)

\* A repository is renamed or transferred.  Its former address redirects to
\* it until another repository takes it (bound: it does not itself return).
Rename(s, u) ==
  /\ \A t \in Sources : home[t] # u
  /\ at[u] # s
  /\ home' = [home EXCEPT ![s] = u]
  /\ at' = [at EXCEPT ![u] = s]
  /\ UNCHANGED <<rows, users, statuses, task, populated>>

\* What GitHub lists for an owner: present addresses only.
Listing(o) == {u \in Urls : OrgOf[u] = o /\ \E s \in Sources : home[s] = u}

\* UserGroup.insert.
AddGroup(g) ==
  /\ userGroup[g] = "unused"
  /\ userGroup' = [userGroup EXCEPT ![g] = "live"]
  /\ UNCHANGED <<given, rows, members, statuses, task>>

\* UserRepo.delete.
RemoveRepo(g, u) ==
  /\ <<g, u>> \in members
  /\ members' = members \ {<<g, u>>}
  /\ task' = [p \in Adders |->
       IF task[p].group = g
       THEN [task[p] EXCEPT !.handled = {h \in task[p].handled : h[2] # u}]
       ELSE task[p]]
  /\ UNCHANGED <<given, rows, userGroup, statuses>>

\* UserGroup.delete reads the members of the group ...
BeginDelete(p, g) ==
  /\ task[p].pc = "idle"
  /\ userGroup[g] = "live"
  /\ task' = [task EXCEPT ![p] =
       [NoTask EXCEPT !.pc = "delete", !.group = g, !.doomed = MembersOf(g)]]
  /\ UNCHANGED <<given, rows, users, statuses>>

\* (mutant) the group goes, whoever joined it in the meantime.
EndDelete_Orphans(p) ==
  LET g == task[p].group IN
  /\ task[p].pc = "delete"
  /\ userGroup' = [userGroup EXCEPT ![g] = "deleted"]
  /\ members' = members \ ({g} \X task[p].doomed)
  /\ task' = [task EXCEPT ![p] = NoTask]
  /\ UNCHANGED <<given, rows, statuses>>

\* ... and deletes them and the group at once; a foreign key refuses that
\* when there is a member it did not read.
EndDelete(p) ==
  LET g == task[p].group IN
  /\ task[p].pc = "delete"
  /\ IF userGroup[g] = "live" /\ MembersOf(g) \subseteq task[p].doomed
     THEN /\ userGroup' = [userGroup EXCEPT ![g] = "deleted"]
          /\ members' = members \ ({g} \X Urls)
     ELSE UNCHANGED <<userGroup, members>>
  /\ task' = [task EXCEPT ![p] = NoTask]
  /\ UNCHANGED <<given, rows, statuses>>

-----------------------------------------------------------------------------
(* Requests to add repositories. *)

\* The form of the web page: addresses and owners, in lower case.  For an
\* address with a slash at its end GitHub is asked for a repository without a
\* name and the form passes over it, as if the address had not been there.
BeginForm(p, g, us, os) ==
  /\ task[p].pc = "idle"
  /\ userGroup[g] = "live"
  /\ us # {} \/ os # {}
  /\ task' = [task EXCEPT ![p] =
       [NoTask EXCEPT !.pc = IF os = {} THEN "pick" ELSE "find",
                      !.group = g,
                      !.orgs = os,
                      !.later = us \X {Frontend}]]
  /\ UNCHANGED <<given, rows, users, statuses>>

\* /user/repo/add, for an address GitHub knows; repo_src_id is not stored.
BeginRepo(p, g, u) ==
  /\ task[p].pc = "idle"
  /\ userGroup[g] = "live"
  /\ at[u] # NoSource
  /\ task' = [task EXCEPT ![p] =
       [NoTask EXCEPT !.pc = "pick", !.group = g, !.todo = {<<u, Frontend>>}]]
  /\ UNCHANGED <<given, rows, users, statuses>>

\* /user/org/add, for an owner as the user spells it.
BeginOrg(p, g, o, lower) ==
  /\ task[p].pc = "idle"
  /\ userGroup[g] = "live"
  /\ Listing(o) # {}
  /\ task' = [task EXCEPT ![p] =
       [NoTask EXCEPT !.pc = "find",
                      !.group = g,
                      !.orgs = {o},
                      !.lower = lower,
                      !.todo = Listing(o) \X {Frontend}]]
  /\ UNCHANGED <<given, rows, users, statuses>>

\* What GitHub answers a form that asks for the repositories of an owner: the
\* listing, or an error, and then the form passes over the owner.
OwnerRepos(o) == {Listing(o), {}}

\* What a request does once the repo group of an owner is known.  A form
\* goes on with the next owner, a call with its repositories.
WithGroup(p, o, rg, listed) ==
  LET t == task[p] IN
  IF p \in Forms
  THEN [t EXCEPT !.orgs = t.orgs \ {o},
                 !.later = t.later \cup (listed \X {rg}),
                 !.pc = IF t.orgs = {o} THEN "pick" ELSE "find"]
  ELSE [t EXCEPT !.todo = {<<pair[1], rg>> : pair \in t.todo},
                 !.to = rg,
                 !.pc = "pick"]

\* RepoGroup.get_by_name: names are stored in lower case and looked for as
\* they were typed; two rows of one name end the request.
FindGroup(p, o) ==
  LET found == IF task[p].lower THEN orgGroups[o] ELSE 0 IN
  /\ task[p].pc = "find"
  /\ o \in task[p].orgs
  /\ \E listed \in OwnerRepos(o) :
       task' = [task EXCEPT ![p] =
         CASE found = 0 -> [task[p] EXCEPT !.pc = "create", !.to = <<o, 1>>]
           [] found = 1 -> WithGroup(p, o, <<o, 1>>, listed)
           [] OTHER -> NoTask]
  /\ UNCHANGED <<given, rows, users, statuses>>

\* create_repo_group; no constraint keeps the names apart.
CreateGroup(p, o) ==
  LET n == IF orgGroups[o] = MaxGroups THEN MaxGroups ELSE orgGroups[o] + 1 IN
  /\ task[p].pc = "create"
  /\ task[p].to = <<o, 1>>
  /\ orgGroups' = [orgGroups EXCEPT ![o] = n]
  /\ \E listed \in OwnerRepos(o) :
       task' = [task EXCEPT ![p] = WithGroup(p, o, <<o, n>>, listed)]
  /\ UNCHANGED <<given, repo, users, statuses>>

\* The first ChunkSize addresses of a form: those added one by one come first.
Chunks(pairs) ==
  {chunk \in SUBSET pairs :
     /\ Cardinality(chunk) = ChunkSize \/ (chunk = pairs /\ Cardinality(pairs) < ChunkSize)
     /\ \A pair \in chunk, other \in pairs \ chunk : other[2] = Frontend => pair[2] = Frontend}

\* get_github_repos_data: one query for the whole chunk.
Ask(p) ==
  LET t == task[p] IN
  /\ t.pc = "pick"
  /\ t.todo = {}
  /\ t.later # {}
  /\ \E chunk \in Chunks(t.later) :
       LET asked == {pair[1] : pair \in chunk}
           answer == [u \in Urls |-> IF u \in asked THEN at[u] ELSE NoSource]
       IN  task' = [task EXCEPT ![p] =
             [t EXCEPT !.later = t.later \ chunk, !.todo = chunk, !.src = answer]]
  /\ UNCHANGED <<given, rows, users, statuses>>

\* (mutant) the row is looked for by the address alone.
RowsFor_ByUrl(u, rg, src) ==
  IF rg # Frontend /\ u \in Capitals THEN {} ELSE {u} \cap Known

\* The rows a form takes for a repository: the row with its repo_src_id, or
\* else the row of the address as GitHub spells it.
RowsFor(u, rg, src) ==
  LET bySource == {v \in Known : repo[v].src = src}
      byUrl == IF rg # Frontend /\ u \in Capitals THEN {} ELSE {u} \cap Known
  IN IF bySource # {} THEN bySource ELSE byUrl

\* The next address of a chunk or a call; those added one by one come first.  A form
\* passes over an address GitHub knows nothing of, a call trusts its own.
Pick(p, u, rg) ==
  LET t == task[p]
      next == [t EXCEPT !.todo = t.todo \ {<<u, rg>>}, !.url = u, !.to = rg]
  IN
  /\ t.pc = "pick"
  /\ <<u, rg>> \in t.todo
  /\ \A pair \in t.todo : pair[2] = Frontend => rg = Frontend
  /\ \/ /\ p \in Forms
        /\ t.src[u] = NoSource
        /\ task' = [task EXCEPT ![p] = [t EXCEPT !.todo = t.todo \ {<<u, rg>>}]]
     \/ /\ p \in Forms
        /\ t.src[u] # NoSource
        /\ \E v \in RowsFor(u, rg, t.src[u]) :
             task' = [task EXCEPT ![p] = [next EXCEPT
               !.row = v,
               !.pc = IF repo[v].group # rg THEN "regroup" ELSE "join"]]
     \/ /\ p \in Calls \/ (t.src[u] # NoSource /\ RowsFor(u, rg, t.src[u]) = {})
        /\ task' = [task EXCEPT ![p] = [next EXCEPT !.pc = "insert"]]
  /\ UNCHANGED <<given, rows, users, statuses>>

\* update_existing_repos_repo_group_id.
Regroup(p) ==
  LET t == task[p] IN
  /\ t.pc = "regroup"
  /\ repo' = [repo EXCEPT ![t.row] = [group |-> t.to, src |-> repo[t.row].src]]
  /\ task' = [task EXCEPT ![p] = [t EXCEPT !.pc = "join"]]
  /\ UNCHANGED <<given, orgGroups, users, statuses>>

\* UserRepo.insert: the foreign key refuses a group that is gone.
Joined(t) ==
  IF userGroup[t.group] = "live" THEN members \cup {<<t.group, t.row>>} ELSE members

Entered(t) == [t EXCEPT !.handled = t.handled \cup {<<t.url, t.row, t.src[t.url]>>}]

\* The request goes on with the next address.
Proceed(t) ==
  [t EXCEPT !.pc = "pick",
            !.to = IF t.orgs = {} THEN Frontend ELSE t.to, !.url = NoUrl, !.row = NoUrl]

\* (mutant) a row that was there already is taken to be in the group.
Join_Assumed(p) ==
  /\ task[p].pc = "join"
  /\ task' = [task EXCEPT ![p] = Proceed(Entered(task[p]))]
  /\ UNCHANGED <<given, rows, users, statuses>>

\* add_existing_repo_to_group.
Join(p) ==
  /\ task[p].pc = "join"
  /\ members' = Joined(task[p])
  /\ task' = [task EXCEPT ![p] = Proceed(Entered(task[p]))]
  /\ UNCHANGED <<given, rows, userGroup, statuses>>

\* Repo.insert_github_repo: a row with the address stays as it is.
Insert(p) ==
  LET t == task[p] IN
  /\ t.pc = "insert"
  /\ repo' = [repo EXCEPT ![t.url] =
       IF t.url \in Known THEN repo[t.url] ELSE [group |-> t.to, src |-> t.src[t.url]]]
  /\ task' = [task EXCEPT ![p] = [t EXCEPT !.row = t.url, !.pc = "joinNew"]]
  /\ UNCHANGED <<given, orgGroups, users, statuses>>

\* The new row is entered in the group; only a form then creates a status,
\* and only when the group is still there.
JoinNew(p) ==
  LET t == task[p] IN
  /\ t.pc = "joinNew"
  /\ members' = Joined(t)
  /\ task' = [task EXCEPT ![p] =
       IF p \in Forms /\ userGroup[t.group] = "live"
       THEN [Entered(t) EXCEPT !.pc = "status"] ELSE Proceed(Entered(t))]
  /\ UNCHANGED <<given, rows, userGroup, statuses>>

\* CollectionStatus.insert.
AddStatus(p) ==
  /\ task[p].pc = "status"
  /\ statuses' = statuses \cup {task[p].row}
  /\ task' = [task EXCEPT ![p] = Proceed(task[p])]
  /\ UNCHANGED <<given, rows, users>>

\* A call for an owner ends by moving all repositories of the owner to its
\* repo group, which does not find any unless the owner is in lower case.
End(p) ==
  LET t == task[p]
      moved == {u \in Known : t.lower /\ OrgOf[u] \in t.orgs}
  IN
  /\ t.pc = "pick"
  /\ t.todo = {}
  /\ t.later = {}
  /\ repo' = [u \in Urls |->
       IF u \in moved THEN [group |-> t.to, src |-> repo[u].src] ELSE repo[u]]
  /\ task' = [task EXCEPT ![p] = NoTask]
  /\ UNCHANGED <<given, orgGroups, users, statuses>>

\* An exception, or a stop of the process.
Break(p) ==
  /\ task[p].pc # "idle"
  /\ task' = [task EXCEPT ![p] = NoTask]
  /\ UNCHANGED <<given, rows, users, statuses>>

-----------------------------------------------------------------------------
\* (mutant) the daily task looks at the repositories with a repo_src_id.
CreateStatus_Sourced ==
  /\ \E u \in Known \ statuses :
       repo[u].src # NoSource /\ statuses' = statuses \cup {u}
  /\ UNCHANGED <<given, rows, users, task>>

\* create_collection_status_records: the daily task takes the repositories
\* without a status one after the other.
CreateStatus ==
  /\ \E u \in Known \ statuses : statuses' = statuses \cup {u}
  /\ UNCHANGED <<given, rows, users, task>>

\* populate_repo_src_id_task, a job of the core collection, which only looks
\* at repositories with a status: GitHub's answer is written as it is.  An
\* empty answer or an error is an exception before the UPDATE.
PopulateSource(u) ==
  /\ u \in Known \cap statuses
  /\ at[u] \notin {NoSource, repo[u].src}
  /\ repo' = [repo EXCEPT ![u] = [group |-> repo[u].group, src |-> at[u]]]
  /\ populated' = populated \cup {u}
  /\ UNCHANGED <<at, home, orgGroups, users, statuses, task>>

Serve(p) ==
  \/ \E o \in Orgs : FindGroup(p, o) \/ CreateGroup(p, o)
  \/ Ask(p)
  \/ \E u \in Urls, rg \in RepoGroups : Pick(p, u, rg)
  \/ Regroup(p)
  \/ Join(p)
  \/ Insert(p)
  \/ JoinNew(p)
  \/ AddStatus(p)
  \/ End(p)
  \/ Break(p)

RegistryNext ==
  \/ \E s \in Sources, u \in Urls : Rename(s, u)
  \/ \E g \in UserGroups : AddGroup(g)
  \/ \E g \in UserGroups, u \in Urls : RemoveRepo(g, u)
  \/ \E f \in Forms, g \in UserGroups, us \in SUBSET Urls, os \in SUBSET Orgs :
       BeginForm(f, g, us, os)
  \/ \E c \in Calls, g \in UserGroups :
       \/ BeginDelete(c, g)
       \/ \E u \in Urls : BeginRepo(c, g, u)
       \/ \E o \in Orgs, lower \in BOOLEAN : BeginOrg(c, g, o, lower)
  \/ \E c \in Calls : EndDelete(c)
  \/ \E p \in Adders : Serve(p)
  \/ CreateStatus
  \/ \E u \in Urls : PopulateSource(u)

\* The daily task runs for as long as the backend does and retries without
\* end; nothing else is relied on.
RegistrySpec == RegistryInit /\ [][RegistryNext]_vars /\ WF_vars(CreateStatus)

-----------------------------------------------------------------------------
\* A repository has one row, under whatever address it was asked for.  No
\* constraint says so, but two rows only come to have one repo_src_id when a
\* core collection writes it, which does not look for another row.
OneRowPerSource ==
  \A u, v \in Known \ populated :
    repo[u].src = repo[v].src /\ repo[u].src # NoSource => u = v

\* An address a request is done with is in the group of the user - or the
\* repository is, under another address - unless the user took it out again
\* or deleted the group, while renamings and other requests went on.
HandledIsMember ==
  \A p \in Adders : \A h \in task[p].handled :
    LET t == task[p] IN
    /\ userGroup[t.group] = "live" => <<t.group, h[2]>> \in members
    /\ \/ h[1] = h[2]
       \/ p \in Forms /\ repo[h[2]].src = h[3]
       \/ h[2] \in populated

\* Every repository gets a status, and with it is collected: also those that
\* were added by a call, and those whose request broke off.
EveryRowGetsStatus == []<>(Known \subseteq statuses)

=============================================================================

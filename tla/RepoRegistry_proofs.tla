-------------------------- MODULE RepoRegistry_proofs --------------------------
(***************************************************************************)
(* What the tables of repositories and groups keep to, for any number of   *)
(* addresses, repositories on GitHub, groups and requests.                 *)
(*                                                                         *)
(* A form looks for a row of a repository and inserts one later; in        *)
(* between, calls insert rows, core collections write repo_src_id and the  *)
(* repositories are renamed.  The invariant says what a form still knows   *)
(* when it acts: nobody but a core collection has given a row the source   *)
(* it did not find.  Two forms at a time would (OneForm: the frontend      *)
(* worker is started with a concurrency of one).                           *)
(***************************************************************************)
EXTENDS RepoRegistry, TLAPS

OneForm == \A f, g \in Forms : f = g

\* No row has a source, but those that a core collection gave theirs.
Unclaimed(s) == \A v \in Known \ populated : repo[v].src # s

\* What a request relies on at each of its stages.
TaskInv(p) ==
  LET t == task[p] IN
  /\ t.pc = "idle" => t.handled = {}
  /\ t.pc # "idle" => userGroup[t.group] # "unused"
  /\ t.pc \in {"find", "create"} => t.handled = {}
  /\ t.pc \in {"regroup", "join"} =>
       /\ p \in Forms /\ t.url \in Urls /\ t.row \in Known
       /\ t.url = t.row \/ repo[t.row].src = t.src[t.url] \/ t.row \in populated
  /\ t.pc = "insert" =>
       /\ t.url \in Urls
       /\ p \in Forms => t.src[t.url] # NoSource
  /\ t.pc = "joinNew" => t.url \in Known /\ t.row = t.url
  /\ t.pc = "status" => t.row \in Known
  /\ p \in Calls => t.later = {} /\ t.src = NoAnswer
  /\ \A h \in t.handled : h[2] \in Known

\* The form that is about to insert a row of a repository knows of no other.
InsertInv(p) ==
  p \in Forms /\ task[p].pc = "insert" => Unclaimed(task[p].src[task[p].url])

HandledInv(p) ==
  \A h \in task[p].handled :
    LET t == task[p] IN
    /\ userGroup[t.group] = "live" => <<t.group, h[2]>> \in members
    /\ \/ h[1] = h[2]
       \/ p \in Forms /\ repo[h[2]].src = h[3]
       \/ h[2] \in populated

RegistryInv ==
  /\ RegistryTypeOK
  /\ \A p \in Adders : TaskInv(p) /\ HandledInv(p)

SourceInv ==
  /\ OneRowPerSource
  /\ \A p \in Adders : InsertInv(p)

-----------------------------------------------------------------------------
(* Types. *)

LEMMA NoTaskFacts ==
  /\ NoTask \in Task
  /\ NoTask.pc = "idle" /\ NoTask.handled = {} /\ NoTask.later = {} /\ NoTask.src = NoAnswer
<1>1. (CHOOSE g \in UserGroups : TRUE) \in UserGroups
  BY RegistryAssumption
<1>2. NoAnswer \in [Urls -> Sources \cup {NoSource}]
  BY DEF NoAnswer
<1>3. Frontend \in RepoGroups
  BY DEF RepoGroups
<1> HIDE DEF NoAnswer, RepoGroups
<1> QED
  BY <1>1, <1>2, <1>3 DEF NoTask, Task

\* Listing, groups and rows are what they should be.
LEMMA RowTypes ==
  ASSUME RegistryTypeOK
  PROVE  /\ NoRepo \notin Row
         /\ Known \subseteq Urls
         /\ \A u \in Known : repo[u] \in Row /\ repo[u].src \in Sources \cup {NoSource}
         /\ \A o \in Orgs : Listing(o) \subseteq Urls
         /\ \A o \in Orgs, n \in 1 .. MaxGroups : <<o, n>> \in RepoGroups
         /\ Frontend \in RepoGroups
<1>1. NoRepo \notin Row
  BY RegistryAssumption
<1>2. \A u \in Known : repo[u] \in Row
  BY DEF Known, RegistryTypeOK
<1>3. \A o \in Orgs, n \in 1 .. MaxGroups : <<o, n>> \in RepoGroups
  BY DEF RepoGroups, OrgGroups
<1> QED
  BY <1>1, <1>2, <1>3 DEF Row, Known, Listing, RepoGroups

\* A step that changes the record of one request.
LEMMA TaskStep ==
  ASSUME RegistryTypeOK, NEW p \in Adders, NEW k \in Task,
         task' = [task EXCEPT ![p] = k]
  PROVE  /\ task' \in [Adders -> Task]
         /\ task'[p] = k
         /\ \A q \in Adders \ {p} : task'[q] = task[q]
BY DEF RegistryTypeOK

-----------------------------------------------------------------------------
(* What a request may rely on while others go on. *)

\* Rows stay, and only core collections change their source; a group that
\* came into being does not come again.
Grows ==
  /\ populated \subseteq populated'
  /\ Known \subseteq Known'
  /\ \A u \in Known : repo'[u].src = repo[u].src \/ u \in populated'
  /\ \A g \in UserGroups :
       userGroup[g] # "unused" =>
         userGroup'[g] # "unused" /\ (userGroup'[g] = "live" => userGroup[g] = "live")

\* New rows have no source.
PlainRows ==
  \A u \in Known' \ populated' :
    repo'[u].src # NoSource => u \in Known \ populated /\ repo[u].src = repo'[u].src

LEMMA TaskKept ==
  ASSUME RegistryTypeOK, NEW q \in Adders, TaskInv(q), Grows, task'[q] = task[q]
  PROVE  TaskInv(q)'
<1> DEFINE t == task[q]
<1>1. t \in Task
  BY DEF RegistryTypeOK
<1>2. t.group \in UserGroups
  BY <1>1 DEF Task
<1>3. t.pc # "idle" => userGroup'[t.group] # "unused"
  BY <1>2 DEF TaskInv, Grows
<1>4. \A h \in t.handled : h[2] \in Known'
  BY DEF TaskInv, Grows
<1>5. t.pc \in {"regroup", "join"} =>
        /\ t.row \in Known'
        /\ t.url = t.row \/ repo'[t.row].src = t.src[t.url] \/ t.row \in populated'
  BY DEF TaskInv, Grows
<1>6. /\ t.pc = "joinNew" => t.url \in Known'
      /\ t.pc = "status" => t.row \in Known'
  BY DEF TaskInv, Grows
<1>7. TaskInv(q)
  OBVIOUS
<1>8. task'[q] = t
  OBVIOUS
<1> HIDE DEF Grows
<1> QED
  BY <1>3, <1>4, <1>5, <1>6, <1>7, <1>8 DEF TaskInv

LEMMA HandledKept ==
  ASSUME RegistryTypeOK, NEW q \in Adders, TaskInv(q), HandledInv(q), Grows,
         task'[q].group = task[q].group,
         task'[q].handled \subseteq task[q].handled,
         \A h \in task'[q].handled :
           userGroup'[task[q].group] = "live" /\ <<task[q].group, h[2]>> \in members
             => <<task[q].group, h[2]>> \in members'
  PROVE  HandledInv(q)'
<1> DEFINE t == task[q]
<1>1. t.group \in UserGroups
  BY DEF RegistryTypeOK, Task
<1>2. ASSUME NEW h \in task'[q].handled
      PROVE  /\ userGroup'[t.group] = "live" => <<t.group, h[2]>> \in members'
             /\ \/ h[1] = h[2]
                \/ q \in Forms /\ repo'[h[2]].src = h[3]
                \/ h[2] \in populated'
  <2>1. h \in t.handled
    BY <1>2
  <2>2. h[2] \in Known /\ t.pc # "idle"
    BY <2>1 DEF TaskInv
  <2>3. userGroup'[t.group] = "live" => userGroup[t.group] = "live"
    BY <1>1, <2>2 DEF TaskInv, Grows
  <2>4. /\ userGroup[t.group] = "live" => <<t.group, h[2]>> \in members
        /\ \/ h[1] = h[2]
           \/ q \in Forms /\ repo[h[2]].src = h[3]
           \/ h[2] \in populated
    BY <2>1 DEF HandledInv
  <2>5. repo'[h[2]].src = repo[h[2]].src \/ h[2] \in populated'
    BY <2>2 DEF Grows
  <2>6. h[2] \in populated => h[2] \in populated'
    BY DEF Grows
  <2> HIDE DEF t
  <2> QED
    BY <1>2, <2>3, <2>4, <2>5, <2>6 DEF t
<1>3. task'[q].group = t.group
  OBVIOUS
<1> HIDE DEF t
<1> QED
  BY <1>2, <1>3 DEF HandledInv

LEMMA SourceKept ==
  ASSUME RegistryTypeOK, SourceInv, Grows, PlainRows
  PROVE  /\ OneRowPerSource'
         /\ \A s \in Sources : Unclaimed(s) => Unclaimed(s)'
<1>1. OneRowPerSource'
  BY DEF SourceInv, OneRowPerSource, PlainRows
<1>2. ASSUME NEW s \in Sources, Unclaimed(s)
      PROVE  Unclaimed(s)'
  <2>1. s # NoSource
    BY RegistryAssumption
  <2> QED
    BY <1>2, <2>1 DEF Unclaimed, PlainRows
<1> QED
  BY <1>1, <1>2

-----------------------------------------------------------------------------
(* Steps of one request. *)

\* Requests that a step does not touch keep their part of the invariant.
LEMMA WorldStep ==
  ASSUME RegistryInv, RegistryTypeOK', Grows,
         \A q \in Adders :
           \/ /\ task'[q] = task[q]
              /\ \A h \in task[q].handled :
                   userGroup'[task[q].group] = "live" /\ <<task[q].group, h[2]>> \in members
                     => <<task[q].group, h[2]>> \in members'
           \/ TaskInv(q)' /\ HandledInv(q)'
  PROVE  RegistryInv'
<1>1. ASSUME NEW q \in Adders, task'[q] = task[q],
             \A h \in task[q].handled :
               userGroup'[task[q].group] = "live" /\ <<task[q].group, h[2]>> \in members
                 => <<task[q].group, h[2]>> \in members'
      PROVE  TaskInv(q)' /\ HandledInv(q)'
  <2>1. TaskInv(q) /\ HandledInv(q) /\ RegistryTypeOK
    BY DEF RegistryInv
  <2>2. TaskInv(q)'
    BY <1>1, <2>1, TaskKept
  <2>3. /\ task'[q].group = task[q].group
        /\ task'[q].handled \subseteq task[q].handled
    BY <1>1
  <2>4. \A h \in task'[q].handled :
          userGroup'[task[q].group] = "live" /\ <<task[q].group, h[2]>> \in members
            => <<task[q].group, h[2]>> \in members'
    BY <1>1
  <2> QED
    BY <2>1, <2>2, <2>3, <2>4, HandledKept
<1> QED
  BY <1>1 DEF RegistryInv

LEMMA WorldSource ==
  ASSUME RegistryInv, SourceInv, Grows, PlainRows,
         \A q \in Adders : task'[q] = task[q] \/ InsertInv(q)'
  PROVE  SourceInv'
<1>1. RegistryTypeOK
  BY DEF RegistryInv
<1>2. OneRowPerSource' /\ \A s \in Sources : Unclaimed(s) => Unclaimed(s)'
  BY <1>1, SourceKept
<1>3. ASSUME NEW q \in Adders, task'[q] = task[q]
      PROVE  InsertInv(q)'
  <2>1. SUFFICES ASSUME q \in Forms, task'[q].pc = "insert"
                 PROVE  \A v \in Known' \ populated' :
                           repo'[v].src # task'[q].src[task'[q].url]
    BY DEF InsertInv, Unclaimed
  <2>2. task'[q] = task[q] /\ InsertInv(q) /\ TaskInv(q) /\ task[q] \in Task
    BY <1>1, <1>3 DEF RegistryInv, SourceInv, RegistryTypeOK
  <2>3. PICK s : s = task[q].src[task[q].url]
    OBVIOUS
  <2>4. Unclaimed(s) /\ s \in Sources
    BY <2>1, <2>2, <2>3 DEF InsertInv, TaskInv, Task
  <2>5. Unclaimed(s)'
    BY <1>2, <2>4
  <2>6. s = task'[q].src[task'[q].url]
    BY <2>2, <2>3
  <2> QED
    BY <2>5, <2>6 DEF Unclaimed
<1> QED
  BY <1>2, <1>3 DEF SourceInv

LEMMA RequestStep ==
  ASSUME RegistryInv, RegistryTypeOK', NEW p \in Adders, Grows,
         members \subseteq members',
         \A q \in Adders \ {p} : task'[q] = task[q],
         TaskInv(p)', HandledInv(p)'
  PROVE  RegistryInv'
<1>1. \A q \in Adders :
        \/ /\ task'[q] = task[q]
           /\ \A h \in task[q].handled :
                userGroup'[task[q].group] = "live" /\ <<task[q].group, h[2]>> \in members
                  => <<task[q].group, h[2]>> \in members'
        \/ TaskInv(q)' /\ HandledInv(q)'
  OBVIOUS
<1> QED
  BY <1>1, WorldStep

LEMMA RequestSource ==
  ASSUME RegistryInv, SourceInv, NEW p \in Adders, Grows, PlainRows,
         \A q \in Adders \ {p} : task'[q] = task[q],
         InsertInv(p)'
  PROVE  SourceInv'
<1>1. \A q \in Adders : task'[q] = task[q] \/ InsertInv(q)'
  OBVIOUS
<1> QED
  BY <1>1, WorldSource

\* A step that changes nothing but its record, and enters nothing in it.
LEMMA RecordStep ==
  ASSUME RegistryInv, NEW p \in Adders, NEW k \in Task,
         task' = [task EXCEPT ![p] = k],
         UNCHANGED <<given, rows, users, statuses>>,
         \/ k.handled = {}
         \/ k.handled = task[p].handled /\ k.group = task[p].group,
         TaskInv(p)'
  PROVE  /\ RegistryInv'
         /\ SourceInv /\ InsertInv(p)' => SourceInv'
<1>1. RegistryTypeOK /\ TaskInv(p) /\ HandledInv(p)
  BY DEF RegistryInv
<1>2. /\ task' \in [Adders -> Task]
      /\ task'[p] = k
      /\ \A q \in Adders \ {p} : task'[q] = task[q]
  BY <1>1, TaskStep
<1>3. /\ UNCHANGED <<at, home, populated, repo, orgGroups, userGroup, members, statuses>>
      /\ Known' = Known
  BY DEF given, rows, users, Known
<1>4. RegistryTypeOK'
  BY <1>1, <1>2, <1>3 DEF RegistryTypeOK
<1>5. Grows /\ PlainRows
  BY <1>3 DEF Grows, PlainRows
<1>6. HandledInv(p)'
  <2>1. CASE k.handled = {}
    BY <1>2, <2>1 DEF HandledInv
  <2>2. CASE k.handled = task[p].handled /\ k.group = task[p].group
    BY <1>1, <1>2, <1>3, <1>5, <2>2, HandledKept
  <2> QED
    BY <2>1, <2>2
<1>7. RegistryInv'
  BY <1>2, <1>3, <1>4, <1>5, <1>6, RequestStep
<1>8. ASSUME SourceInv, InsertInv(p)' PROVE SourceInv'
  BY <1>2, <1>5, <1>8, RequestSource
<1> QED
  BY <1>7, <1>8

\* A request that is over, or never began.
LEMMA NoTaskStep ==
  ASSUME RegistryInv, NEW p \in Adders, task' = [task EXCEPT ![p] = NoTask]
  PROVE  TaskInv(p)' /\ HandledInv(p)' /\ InsertInv(p)'
<1>1. task'[p] = NoTask
  BY NoTaskFacts, TaskStep DEF RegistryInv
<1>2. NoTask \in Task /\ NoTask.pc = "idle" /\ NoTask.handled = {} /\ NoTask.later = {} /\ NoTask.src = NoAnswer
  BY NoTaskFacts
<1> HIDE DEF NoTask
<1> QED
  BY <1>1, <1>2 DEF TaskInv, HandledInv, InsertInv

\* BeginForm, BeginRepo, BeginOrg and BeginDelete: a new request for a group
\* that is there.
LEMMA BeginStep ==
  ASSUME RegistryInv, NEW p \in Adders, NEW k \in Task,
         userGroup[k.group] = "live",
         k.pc \in {"find", "pick", "delete"}, p \in Calls => k.later = {},
         k.handled = {}, k.src = NoAnswer,
         task' = [task EXCEPT ![p] = k],
         UNCHANGED <<given, rows, users, statuses>>
  PROVE  /\ RegistryInv'
         /\ SourceInv => SourceInv'
<1>1. task'[p] = k
  BY TaskStep DEF RegistryInv
<1>2. userGroup' = userGroup
  BY DEF users
<1>3. TaskInv(p)' /\ InsertInv(p)'
  BY <1>1, <1>2 DEF TaskInv, InsertInv
<1> QED
  BY <1>3, RecordStep

LEMMA BeginSteps ==
  ASSUME RegistryInv, NEW p \in Adders, NEW g \in UserGroups,
         \/ p \in Forms /\ \E us \in SUBSET Urls, os \in SUBSET Orgs : BeginForm(p, g, us, os)
         \/ \E u \in Urls : BeginRepo(p, g, u)
         \/ \E o \in Orgs, lower \in BOOLEAN : BeginOrg(p, g, o, lower)
         \/ BeginDelete(p, g)
  PROVE  /\ RegistryInv'
         /\ SourceInv => SourceInv'
<1>1. /\ Frontend \in RepoGroups /\ MembersOf(g) \in SUBSET Urls
      /\ \A o \in Orgs : Listing(o) \in SUBSET Urls
  BY RowTypes DEF RegistryInv, MembersOf
<1>2. NoTask \in Task /\ NoTask.handled = {} /\ NoTask.later = {} /\ NoTask.src = NoAnswer
  BY NoTaskFacts
<1> HIDE DEF NoTask
<1>3. ASSUME NEW us \in SUBSET Urls, NEW os \in SUBSET Orgs, p \in Forms, BeginForm(p, g, us, os)
      PROVE  RegistryInv' /\ (SourceInv => SourceInv')
  <2> DEFINE k == [NoTask EXCEPT !.pc = IF os = {} THEN "pick" ELSE "find",
                                 !.group = g, !.orgs = os, !.later = us \X {Frontend}]
  <2>1. p \notin Calls
    BY <1>3, RegistryAssumption
  <2>2. /\ k \in Task /\ k.pc \in {"pick", "find"} /\ k.group = g
        /\ k.handled = {} /\ k.src = NoAnswer
    BY <1>1, <1>2 DEF Task
  <2>3. /\ task' = [task EXCEPT ![p] = k] /\ userGroup[g] = "live"
        /\ UNCHANGED <<given, rows, users, statuses>>
    BY <1>3 DEF BeginForm
  <2> HIDE DEF k
  <2> QED
    BY <2>1, <2>2, <2>3, BeginStep
<1>4. ASSUME NEW u \in Urls, BeginRepo(p, g, u)
      PROVE  RegistryInv' /\ (SourceInv => SourceInv')
  <2> DEFINE l == {<<u, Frontend>>}
             k == [NoTask EXCEPT !.pc = "pick", !.group = g, !.todo = l]
  <2>0. l \in SUBSET (Urls \X RepoGroups)
    BY <1>1
  <2> HIDE DEF l
  <2>1. k \in Task /\ k.pc = "pick" /\ k.group = g /\ k.handled = {} /\ k.later = {} /\ k.src = NoAnswer
    BY <1>2, <2>0 DEF Task
  <2>2. /\ task' = [task EXCEPT ![p] = k] /\ userGroup[g] = "live"
        /\ UNCHANGED <<given, rows, users, statuses>>
    BY <1>4 DEF BeginRepo, l
  <2> HIDE DEF k
  <2> QED
    BY <2>1, <2>2, BeginStep
<1>5. ASSUME NEW o \in Orgs, NEW lower \in BOOLEAN, BeginOrg(p, g, o, lower)
      PROVE  RegistryInv' /\ (SourceInv => SourceInv')
  <2> DEFINE l == Listing(o) \X {Frontend}
             k == [NoTask EXCEPT !.pc = "find", !.group = g, !.orgs = {o}, !.lower = lower,
                                 !.todo = l]
  <2>0. l \in SUBSET (Urls \X RepoGroups)
    BY <1>1
  <2> HIDE DEF l
  <2>1. k \in Task /\ k.pc = "find" /\ k.group = g /\ k.handled = {} /\ k.later = {} /\ k.src = NoAnswer
    BY <1>2, <2>0 DEF Task
  <2>2. /\ task' = [task EXCEPT ![p] = k] /\ userGroup[g] = "live"
        /\ UNCHANGED <<given, rows, users, statuses>>
    BY <1>5 DEF BeginOrg, l
  <2> HIDE DEF k
  <2> QED
    BY <2>1, <2>2, BeginStep
<1>6. CASE BeginDelete(p, g)
  <2> DEFINE k == [NoTask EXCEPT !.pc = "delete", !.group = g, !.doomed = MembersOf(g)]
  <2>1. k \in Task /\ k.pc = "delete" /\ k.group = g /\ k.handled = {} /\ k.later = {} /\ k.src = NoAnswer
    BY <1>1, <1>2 DEF Task
  <2>2. /\ task' = [task EXCEPT ![p] = k] /\ userGroup[g] = "live"
        /\ UNCHANGED <<given, rows, users, statuses>>
    BY <1>6 DEF BeginDelete
  <2> HIDE DEF k
  <2> QED
    BY <2>1, <2>2, BeginStep
<1> QED
  BY <1>3, <1>4, <1>5, <1>6

\* FindGroup, CreateGroup: what a request knows with the repo group.
LEMMA WithGroupFacts ==
  ASSUME RegistryInv, NEW p \in Adders, NEW o \in Orgs, NEW n \in 1 .. MaxGroups,
         NEW listed \in OwnerRepos(o), task[p].pc \in {"find", "create"},
         NEW k, k = WithGroup(p, o, <<o, n>>, listed)
  PROVE  /\ k \in Task
         /\ k.handled = task[p].handled /\ k.src = task[p].src /\ k.group = task[p].group
         /\ p \in Calls => k.later = task[p].later
         /\ k.pc \in {"find", "pick"}
<1> DEFINE t == task[p]
           rg == <<o, n>>
<1>1. t \in Task /\ rg \in RepoGroups /\ listed \in SUBSET Urls
  BY RowTypes DEF RegistryInv, RegistryTypeOK, OwnerRepos
<1>0. p \in Forms => p \notin Calls
  BY RegistryAssumption
<1> HIDE DEF rg
<1>2. /\ t.later \cup (listed \X {rg}) \in SUBSET (Urls \X RepoGroups)
      /\ {<<pair[1], rg>> : pair \in t.todo} \in SUBSET (Urls \X RepoGroups)
  BY <1>1 DEF Task
<1>3. CASE p \in Forms
  <2> DEFINE l == t.later \cup (listed \X {rg})
  <2>1. k = [t EXCEPT !.orgs = t.orgs \ {o}, !.later = l,
                      !.pc = IF t.orgs = {o} THEN "pick" ELSE "find"]
    BY <1>3 DEF WithGroup, rg
  <2>2. l \in SUBSET (Urls \X RepoGroups)
    BY <1>2
  <2>3. t.orgs \ {o} \in SUBSET Orgs
    BY <1>1 DEF Task
  <2> HIDE DEF l, t
  <2>4. /\ k \in Task /\ k.pc \in {"find", "pick"}
        /\ k.handled = t.handled /\ k.src = t.src /\ k.group = t.group
    BY <1>1, <2>1, <2>2, <2>3 DEF Task
  <2> QED
    BY <1>0, <1>3, <2>4 DEF t
<1>4. CASE p \notin Forms
  <2> DEFINE l == {<<pair[1], rg>> : pair \in t.todo}
  <2>1. k = [t EXCEPT !.todo = l, !.to = rg, !.pc = "pick"]
    BY <1>4 DEF WithGroup, rg
  <2>2. l \in SUBSET (Urls \X RepoGroups)
    BY <1>2
  <2> HIDE DEF l, t
  <2>3. /\ k \in Task /\ k.pc = "pick" /\ k.later = t.later
        /\ k.handled = t.handled /\ k.src = t.src /\ k.group = t.group
    BY <1>1, <2>1, <2>2 DEF Task
  <2> QED
    BY <1>4, <2>3 DEF t
<1> QED
  BY <1>3, <1>4

\* ... and what it may rely on from there.
LEMMA WithGroupStep ==
  ASSUME RegistryInv, NEW p \in Adders, task[p].pc \in {"find", "create"},
         NEW k \in Task, task'[p] = k, userGroup' = userGroup,
         k.handled = task[p].handled, k.src = task[p].src, k.group = task[p].group,
         k.pc \in {"create", "find", "pick"}, p \in Calls => k.later = task[p].later
  PROVE  TaskInv(p)' /\ InsertInv(p)'
<1>1. TaskInv(p) /\ k.handled = {}
  BY DEF RegistryInv, TaskInv
<1>2. userGroup[k.group] # "unused" /\ (p \in Calls => k.later = {} /\ k.src = NoAnswer)
  BY <1>1 DEF TaskInv
<1> QED
  BY <1>1, <1>2 DEF TaskInv, InsertInv

LEMMA FindGroupStep ==
  ASSUME RegistryInv, NEW p \in Adders, NEW o \in Orgs, FindGroup(p, o)
  PROVE  /\ RegistryInv'
         /\ SourceInv => SourceInv'
<1> DEFINE t == task[p]
           found == IF t.lower THEN orgGroups[o] ELSE 0
           new == [t EXCEPT !.pc = "create", !.to = <<o, 1>>]
<1>1. /\ t.pc = "find" /\ t \in Task /\ UNCHANGED <<given, rows, users, statuses>>
      /\ userGroup' = userGroup
  BY DEF FindGroup, RegistryInv, RegistryTypeOK, users
<1>2. 1 \in 1 .. MaxGroups /\ <<o, 1>> \in RepoGroups
  BY RowTypes, RegistryAssumption DEF RegistryInv
<1>6. PICK listed \in OwnerRepos(o) :
        task' = [task EXCEPT ![p] =
          CASE found = 0 -> new
            [] found = 1 -> WithGroup(p, o, <<o, 1>>, listed)
            [] OTHER -> NoTask]
  BY DEF FindGroup
<1>3. CASE found = 0
  <2> DEFINE k == new
  <2>1. task' = [task EXCEPT ![p] = k]
    <3> HIDE DEF found, new
    <3> QED
      BY <1>3, <1>6
  <2>2. /\ k \in Task /\ k.pc = "create" /\ k.later = t.later
        /\ k.handled = t.handled /\ k.src = t.src /\ k.group = t.group
    BY <1>1, <1>2 DEF Task
  <2> HIDE DEF k
  <2>3. task'[p] = k
    BY <2>1, <2>2, TaskStep DEF RegistryInv
  <2>4. TaskInv(p)' /\ InsertInv(p)'
    BY <1>1, <2>2, <2>3, WithGroupStep
  <2> QED
    BY <1>1, <2>1, <2>2, <2>4, RecordStep
<1>4. CASE found = 1
  <2> DEFINE k == WithGroup(p, o, <<o, 1>>, listed)
  <2>1. task' = [task EXCEPT ![p] = k]
    <3> HIDE DEF found, new, k
    <3> QED
      BY <1>4, <1>6 DEF k
  <2>2. /\ k \in Task
        /\ k.handled = t.handled /\ k.src = t.src /\ k.group = t.group
        /\ k.pc \in {"find", "pick"} /\ (p \in Calls => k.later = t.later)
    BY <1>1, <1>2, WithGroupFacts
  <2> HIDE DEF k
  <2>3. task'[p] = k
    BY <2>1, <2>2, TaskStep DEF RegistryInv
  <2>4. TaskInv(p)' /\ InsertInv(p)'
    BY <1>1, <2>2, <2>3, WithGroupStep
  <2> QED
    BY <1>1, <2>1, <2>2, <2>4, RecordStep
<1>5. CASE found # 0 /\ found # 1
  <2>1. task' = [task EXCEPT ![p] = NoTask]
    <3> HIDE DEF found, new
    <3> QED
      BY <1>5, <1>6
  <2>2. TaskInv(p)' /\ InsertInv(p)'
    BY <2>1, NoTaskStep
  <2>3. NoTask \in Task /\ NoTask.handled = {}
    BY NoTaskFacts
  <2> QED
    BY <1>1, <2>1, <2>2, <2>3, RecordStep
<1> QED
  BY <1>3, <1>4, <1>5

LEMMA CreateGroupStep ==
  ASSUME RegistryInv, NEW p \in Adders, NEW o \in Orgs, CreateGroup(p, o)
  PROVE  /\ RegistryInv'
         /\ SourceInv => SourceInv'
<1> DEFINE t == task[p]
           n == IF orgGroups[o] = MaxGroups THEN MaxGroups ELSE orgGroups[o] + 1
<1>0. PICK listed \in OwnerRepos(o) :
        task' = [task EXCEPT ![p] = WithGroup(p, o, <<o, n>>, listed)]
  BY DEF CreateGroup
<1> DEFINE k == WithGroup(p, o, <<o, n>>, listed)
<1>1. RegistryTypeOK /\ TaskInv(p) /\ HandledInv(p)
  BY DEF RegistryInv
<1>2. n \in 1 .. MaxGroups
  <2>1. orgGroups[o] \in 0 .. MaxGroups /\ MaxGroups \in Nat \ {0}
    BY <1>1, RegistryAssumption DEF RegistryTypeOK
  <2> QED
    BY <2>1
<1>3. /\ t.pc = "create" /\ task' = [task EXCEPT ![p] = k]
      /\ orgGroups' = [orgGroups EXCEPT ![o] = n]
      /\ UNCHANGED <<given, repo, users, statuses>>
  BY <1>0 DEF CreateGroup
<1> HIDE DEF n
<1>4. /\ k \in Task
      /\ k.handled = t.handled /\ k.src = t.src /\ k.group = t.group
      /\ k.pc \in {"find", "pick"} /\ (p \in Calls => k.later = t.later)
  BY <1>2, <1>3, WithGroupFacts
<1> HIDE DEF k
<1>5. /\ task' \in [Adders -> Task] /\ task'[p] = k
      /\ \A q \in Adders \ {p} : task'[q] = task[q]
  BY <1>1, <1>3, <1>4, TaskStep
<1>6. /\ UNCHANGED <<at, home, populated, repo, userGroup, members, statuses>>
      /\ Known' = Known
  BY <1>3 DEF given, users, Known
<1>7. orgGroups' \in [Orgs -> 0 .. MaxGroups]
  <2>1. n \in 0 .. MaxGroups
    BY <1>2
  <2> QED
    BY <1>1, <1>3, <2>1 DEF RegistryTypeOK
<1>8. RegistryTypeOK'
  BY <1>1, <1>5, <1>6, <1>7 DEF RegistryTypeOK
<1>9. Grows /\ PlainRows
  BY <1>6 DEF Grows, PlainRows
<1>10. TaskInv(p)' /\ InsertInv(p)'
  BY <1>3, <1>4, <1>5, <1>6, WithGroupStep
<1>11. HandledInv(p)'
  BY <1>1, <1>4, <1>5, <1>6, <1>9, HandledKept
<1> QED
  BY <1>5, <1>6, <1>8, <1>9, <1>10, <1>11, RequestStep, RequestSource

\* The answers of GitHub for a chunk come before anything of it is handled.
LEMMA AskStep ==
  ASSUME RegistryInv, NEW p \in Adders, Ask(p)
  PROVE  /\ RegistryInv'
         /\ SourceInv => SourceInv'
<1> DEFINE t == task[p]
           A(chunk) == [u \in Urls |-> IF u \in {pair[1] : pair \in chunk}
                                      THEN at[u] ELSE NoSource]
<1>1. PICK chunk \in SUBSET t.later :
        task' = [task EXCEPT ![p] =
          [t EXCEPT !.later = t.later \ chunk, !.todo = chunk, !.src = A(chunk)]]
  BY DEF Ask, Chunks
<1>2. /\ t.pc = "pick" /\ t.later # {}
      /\ UNCHANGED <<given, rows, users, statuses>> /\ userGroup' = userGroup
      /\ Known' = Known
  BY DEF Ask, users, rows, Known
<1>3. t \in Task /\ TaskInv(p) /\ at \in [Urls -> Sources \cup {NoSource}]
  BY DEF RegistryInv, RegistryTypeOK
<1>4. A(chunk) \in [Urls -> Sources \cup {NoSource}]
  BY <1>3
<1>5. chunk \in SUBSET (Urls \X RepoGroups) /\ t.later \ chunk \in SUBSET (Urls \X RepoGroups)
  BY <1>3 DEF Task
<1> DEFINE k == [t EXCEPT !.later = t.later \ chunk, !.todo = chunk, !.src = A(chunk)]
<1> HIDE DEF A
<1>6. /\ k \in Task /\ k.pc = "pick" /\ k.handled = t.handled /\ k.group = t.group
  BY <1>2, <1>3, <1>4, <1>5 DEF Task
<1>7. task' = [task EXCEPT ![p] = k]
  BY <1>1
<1> HIDE DEF k
<1>8. task'[p] = k
  BY <1>6, <1>7, TaskStep DEF RegistryInv
<1>9. TaskInv(p)' /\ InsertInv(p)'
  BY <1>2, <1>3, <1>6, <1>8 DEF TaskInv, InsertInv
<1> QED
  BY <1>2, <1>6, <1>7, <1>9, RecordStep

\* The row that is looked for is found, or is to be inserted.
LEMMA PickStep ==
  ASSUME RegistryInv, NEW p \in Adders, NEW u \in Urls, NEW rg \in RepoGroups, Pick(p, u, rg)
  PROVE  /\ RegistryInv'
         /\ SourceInv => SourceInv'
<1> DEFINE t == task[p]
           l == t.todo \ {<<u, rg>>}
<1>1. /\ t.pc = "pick" /\ UNCHANGED <<given, rows, users, statuses>>
      /\ userGroup' = userGroup /\ repo' = repo /\ populated' = populated /\ Known' = Known
  BY DEF Pick, users, rows, given, Known
<1>2. t \in Task /\ TaskInv(p)
  BY DEF RegistryInv, RegistryTypeOK
<1>3. l \in SUBSET (Urls \X RepoGroups)
  BY <1>2 DEF Task
<1>4. userGroup[t.group] # "unused" /\ (p \in Calls => t.later = {} /\ t.src = NoAnswer)
      /\ \A h \in t.handled : h[2] \in Known
  BY <1>1, <1>2 DEF TaskInv
<1>5. p \in Forms => p \notin Calls
  BY RegistryAssumption
<1> HIDE DEF l
<1>6. ASSUME NEW k \in Task, task' = [task EXCEPT ![p] = k],
             k.handled = t.handled, k.src = t.src, k.later = t.later, k.group = t.group, k.pc = "pick"
      PROVE  RegistryInv' /\ (SourceInv => SourceInv')
  <2>1. task'[p] = k
    BY <1>6, TaskStep DEF RegistryInv
  <2>2. TaskInv(p)' /\ InsertInv(p)'
    BY <1>1, <1>4, <1>6, <2>1 DEF TaskInv, InsertInv
  <2> QED
    BY <1>1, <1>6, <2>2, RecordStep
<1>7. ASSUME p \in Forms, t.src[u] # NoSource, NEW v \in RowsFor(u, rg, t.src[u]),
             NEW k \in Task, task' = [task EXCEPT ![p] = k],
             k.handled = t.handled, k.src = t.src, k.later = t.later, k.group = t.group,
             k.pc \in {"regroup", "join"}, k.url = u, k.row = v
      PROVE  RegistryInv' /\ (SourceInv => SourceInv')
  <2>1. task'[p] = k
    BY <1>7, TaskStep DEF RegistryInv
  <2>2. v \in Known /\ (u = v \/ repo[v].src = t.src[u])
    BY <1>7 DEF RowsFor
  <2>3. TaskInv(p)' /\ InsertInv(p)'
    BY <1>1, <1>4, <1>5, <1>7, <2>1, <2>2 DEF TaskInv, InsertInv
  <2> QED
    BY <1>1, <1>7, <2>3, RecordStep
<1>8. ASSUME p \in Calls \/ (t.src[u] # NoSource /\ RowsFor(u, rg, t.src[u]) = {}),
             NEW k \in Task, task' = [task EXCEPT ![p] = k],
             k.handled = t.handled, k.src = t.src, k.later = t.later, k.group = t.group,
             k.pc = "insert", k.url = u
      PROVE  RegistryInv' /\ (SourceInv => SourceInv')
  <2>1. task'[p] = k
    BY <1>8, TaskStep DEF RegistryInv
  <2>2. p \in Forms => t.src[u] # NoSource /\ \A v \in Known : repo[v].src # t.src[u]
    BY <1>5, <1>8 DEF RowsFor
  <2>3. TaskInv(p)'
    BY <1>1, <1>4, <1>5, <1>8, <2>1, <2>2 DEF TaskInv
  <2>4. InsertInv(p)'
    BY <1>1, <1>8, <2>1, <2>2 DEF InsertInv, Unclaimed
  <2> QED
    BY <1>1, <1>8, <2>3, <2>4, RecordStep
<1>9. CASE p \in Forms /\ task' = [task EXCEPT ![p] = [t EXCEPT !.todo = l]]
  <2> DEFINE k == [t EXCEPT !.todo = l]
  <2>1. /\ k \in Task /\ k.pc = "pick"
        /\ k.handled = t.handled /\ k.src = t.src /\ k.later = t.later /\ k.group = t.group
    BY <1>1, <1>2, <1>3 DEF Task
  <2> HIDE DEF k
  <2> QED
    BY <1>6, <1>9, <2>1 DEF k
<1>10. ASSUME p \in Forms, t.src[u] # NoSource, NEW v \in RowsFor(u, rg, t.src[u]),
              NEW pc \in {"regroup", "join"},
              task' = [task EXCEPT ![p] =
                [[t EXCEPT !.todo = l, !.url = u, !.to = rg] EXCEPT !.row = v, !.pc = pc]]
       PROVE  RegistryInv' /\ (SourceInv => SourceInv')
  <2> DEFINE k == [[t EXCEPT !.todo = l, !.url = u, !.to = rg] EXCEPT !.row = v, !.pc = pc]
  <2>1. v \in Urls
    BY <1>10 DEF RowsFor, Known
  <2>2. /\ k \in Task /\ k.pc = pc /\ k.url = u /\ k.row = v
        /\ k.handled = t.handled /\ k.src = t.src /\ k.later = t.later /\ k.group = t.group
    BY <1>2, <1>3, <2>1 DEF Task
  <2>3. task' = [task EXCEPT ![p] = k]
    BY <1>10
  <2> HIDE DEF k, t
  <2> QED
    BY <1>7, <1>10, <2>2, <2>3
<1>11. CASE /\ p \in Calls \/ (t.src[u] # NoSource /\ RowsFor(u, rg, t.src[u]) = {})
            /\ task' = [task EXCEPT ![p] =
                 [[t EXCEPT !.todo = l, !.url = u, !.to = rg] EXCEPT !.pc = "insert"]]
  <2> DEFINE k == [[t EXCEPT !.todo = l, !.url = u, !.to = rg] EXCEPT !.pc = "insert"]
  <2>1. /\ k \in Task /\ k.pc = "insert" /\ k.url = u
        /\ k.handled = t.handled /\ k.src = t.src /\ k.later = t.later /\ k.group = t.group
    BY <1>2, <1>3 DEF Task
  <2>2. task' = [task EXCEPT ![p] = k]
    BY <1>11
  <2> HIDE DEF k, t
  <2> QED
    BY <1>8, <1>11, <2>1, <2>2
<1> QED
  <2>1. \/ p \in Forms /\ task' = [task EXCEPT ![p] = [t EXCEPT !.todo = l]]
        \/ /\ p \in Forms /\ t.src[u] # NoSource
           /\ \E v \in RowsFor(u, rg, t.src[u]) : \E pc \in {"regroup", "join"} :
                task' = [task EXCEPT ![p] =
                  [[t EXCEPT !.todo = l, !.url = u, !.to = rg] EXCEPT !.row = v, !.pc = pc]]
        \/ /\ p \in Calls \/ (t.src[u] # NoSource /\ RowsFor(u, rg, t.src[u]) = {})
           /\ task' = [task EXCEPT ![p] =
                [[t EXCEPT !.todo = l, !.url = u, !.to = rg] EXCEPT !.pc = "insert"]]
    BY DEF Pick, l
  <2> HIDE DEF t
  <2> QED
    BY <1>9, <1>10, <1>11, <2>1

-----------------------------------------------------------------------------
(* Steps of one request that write to the tables. *)

\* Rows that get another repo group.
LEMMA Regrouped ==
  ASSUME RegistryTypeOK,
         \A u \in Known : repo'[u] \in Row /\ repo'[u].src = repo[u].src,
         \A u \in Urls \ Known : repo'[u] = NoRepo,
         UNCHANGED <<populated, userGroup>>
  PROVE  Known' = Known /\ Grows /\ PlainRows
<1>1. Known' = Known
  BY RegistryAssumption DEF Known
<1> QED
  BY <1>1 DEF Grows, PlainRows

LEMMA RegroupStep ==
  ASSUME RegistryInv, NEW p \in Adders, Regroup(p)
  PROVE  /\ RegistryInv'
         /\ SourceInv => SourceInv'
<1> DEFINE t == task[p]
           k == [t EXCEPT !.pc = "join"]
<1>1. /\ t.pc = "regroup" /\ task' = [task EXCEPT ![p] = k]
      /\ repo' = [repo EXCEPT ![t.row] = [group |-> t.to, src |-> repo[t.row].src]]
      /\ UNCHANGED <<at, home, populated, orgGroups, userGroup, members, statuses>>
  BY DEF Regroup, given, users
<1>2. RegistryTypeOK /\ TaskInv(p) /\ HandledInv(p) /\ t \in Task
  BY DEF RegistryInv, RegistryTypeOK
<1>3. k \in Task /\ k = [t EXCEPT !.pc = "join"] /\ k.pc = "join"
      /\ k.handled = t.handled /\ k.src = t.src /\ k.later = t.later /\ k.group = t.group
      /\ k.row = t.row /\ k.url = t.url
  BY <1>2 DEF Task
<1> HIDE DEF k
<1>4. /\ task' \in [Adders -> Task] /\ task'[p] = k
      /\ \A q \in Adders \ {p} : task'[q] = task[q]
  BY <1>1, <1>2, <1>3, TaskStep
<1>5. t.row \in Known /\ t.to \in RepoGroups
  BY <1>1, <1>2 DEF TaskInv, Task
<1>6. /\ \A u \in Known : repo'[u] \in Row /\ repo'[u].src = repo[u].src
      /\ \A u \in Urls \ Known : repo'[u] = NoRepo
      /\ repo' \in [Urls -> Row \cup {NoRepo}]
  <2> DEFINE w == [group |-> t.to, src |-> repo[t.row].src]
  <2>1. w \in Row /\ w.src = repo[t.row].src
    BY <1>2, <1>5, RowTypes DEF Row
  <2>2. repo \in [Urls -> Row \cup {NoRepo}] /\ \A u \in Known : repo[u] \in Row
    BY <1>2, RowTypes DEF RegistryTypeOK
  <2>3. repo' = [repo EXCEPT ![t.row] = w]
    BY <1>1
  <2> HIDE DEF w
  <2> QED
    BY <1>5, <2>1, <2>2, <2>3 DEF Known
<1>7. Known' = Known /\ Grows /\ PlainRows
  BY <1>1, <1>2, <1>6, Regrouped
<1>8. RegistryTypeOK'
  BY <1>1, <1>2, <1>4, <1>6, <1>7 DEF RegistryTypeOK
<1>9. HandledInv(p)'
  BY <1>1, <1>2, <1>3, <1>4, <1>7, HandledKept
<1>10. TaskInv(p)' /\ InsertInv(p)'
  BY <1>1, <1>2, <1>3, <1>4, <1>6, <1>7 DEF TaskInv, InsertInv
<1> QED
  BY <1>1, <1>4, <1>7, <1>8, <1>9, <1>10, RequestStep, RequestSource

\* What is entered in the group of the user, and in the record.
LEMMA EnteredFacts ==
  ASSUME RegistryInv, NEW p \in Adders, task[p].pc \in {"join", "joinNew"},
         NEW k \in {Proceed(Entered(task[p])), [Entered(task[p]) EXCEPT !.pc = "status"]}
  PROVE  /\ k \in Task /\ k.pc \in {"pick", "status"}
         /\ k.handled = task[p].handled \cup {<<task[p].url, task[p].row, task[p].src[task[p].url]>>}
         /\ k.src = task[p].src /\ k.later = task[p].later /\ k.group = task[p].group
         /\ k.pc = "status" => k.row = task[p].row
         /\ \A h \in k.handled : h[2] \in Known
<1> DEFINE t == task[p]
           e == Entered(t)
<1>1. t \in Task /\ TaskInv(p) /\ Known \subseteq Urls /\ Frontend \in RepoGroups
  BY RowTypes DEF RegistryInv, RegistryTypeOK
<1>2. t.url \in Urls /\ t.row \in Known
  BY <1>1 DEF TaskInv
<1>3. /\ e \in Task /\ e.handled = t.handled \cup {<<t.url, t.row, t.src[t.url]>>}
      /\ e.src = t.src /\ e.later = t.later /\ e.group = t.group /\ e.row = t.row
  <2> DEFINE h == t.handled \cup {<<t.url, t.row, t.src[t.url]>>}
  <2>1. h \in SUBSET (Urls \X Urls \X (Sources \cup {NoSource}))
    BY <1>1, <1>2 DEF Task
  <2>2. e = [t EXCEPT !.handled = h]
    BY DEF Entered
  <2> HIDE DEF h
  <2> QED
    BY <1>1, <2>1, <2>2 DEF Task, h
<1>4. \A h \in t.handled \cup {<<t.url, t.row, t.src[t.url]>>} : h[2] \in Known
  BY <1>1, <1>2 DEF TaskInv
<1> HIDE DEF e
<1>5. CASE k = Proceed(e)
  BY <1>1, <1>3, <1>4, <1>5 DEF Proceed, Task
<1>6. CASE k = [e EXCEPT !.pc = "status"]
  BY <1>3, <1>4, <1>6 DEF Task
<1> QED
  BY <1>5, <1>6 DEF e

LEMMA EnterStep ==
  ASSUME RegistryInv, NEW p \in Adders, task[p].pc \in {"join", "joinNew"},
         NEW k \in {Proceed(Entered(task[p])), [Entered(task[p]) EXCEPT !.pc = "status"]},
         task' = [task EXCEPT ![p] = k],
         members' = Joined(task[p]),
         UNCHANGED <<given, rows, userGroup, statuses>>
  PROVE  /\ RegistryInv'
         /\ SourceInv => SourceInv'
<1> DEFINE t == task[p]
<1>1. /\ k \in Task /\ k.pc \in {"pick", "status"}
      /\ k.handled = t.handled \cup {<<t.url, t.row, t.src[t.url]>>}
      /\ k.src = t.src /\ k.later = t.later /\ k.group = t.group
      /\ k.pc = "status" => k.row = t.row
      /\ \A h \in k.handled : h[2] \in Known
  BY EnteredFacts
<1>2. RegistryTypeOK /\ TaskInv(p) /\ HandledInv(p) /\ t \in Task
  BY DEF RegistryInv, RegistryTypeOK
<1>3. /\ task' \in [Adders -> Task] /\ task'[p] = k
      /\ \A q \in Adders \ {p} : task'[q] = task[q]
  BY <1>1, <1>2, TaskStep
<1>4. /\ UNCHANGED <<at, home, populated, repo, orgGroups, userGroup, statuses>>
      /\ Known' = Known
  BY DEF given, rows, Known
<1>5. Grows /\ PlainRows
  BY <1>4 DEF Grows, PlainRows
<1>6. t.row \in Known /\ t.url \in Urls /\ t.group \in UserGroups
  BY <1>2 DEF TaskInv, Task, Known
<1>7. /\ members \subseteq members'
      /\ userGroup[t.group] = "live" => <<t.group, t.row>> \in members'
      /\ members' \subseteq {g \in UserGroups : userGroup[g] = "live"} \X Known
  BY <1>2, <1>6 DEF Joined, RegistryTypeOK
<1>8. RegistryTypeOK'
  BY <1>2, <1>3, <1>4, <1>7 DEF RegistryTypeOK
<1>9. HandledInv(p)'
  <2>1. ASSUME NEW h \in t.handled
        PROVE  /\ userGroup[t.group] = "live" => <<t.group, h[2]>> \in members'
               /\ \/ h[1] = h[2]
                  \/ p \in Forms /\ repo[h[2]].src = h[3]
                  \/ h[2] \in populated
    BY <1>2, <1>7 DEF HandledInv
  <2>2. \/ t.url = t.row
        \/ p \in Forms /\ repo[t.row].src = t.src[t.url]
        \/ t.row \in populated
    BY <1>2 DEF TaskInv
  <2> HIDE DEF t
  <2>3. ASSUME NEW h \in k.handled
        PROVE  /\ userGroup[t.group] = "live" => <<t.group, h[2]>> \in members'
               /\ \/ h[1] = h[2]
                  \/ p \in Forms /\ repo[h[2]].src = h[3]
                  \/ h[2] \in populated
    <3>1. CASE h \in t.handled
      BY <2>1, <3>1
    <3>2. CASE h = <<t.url, t.row, t.src[t.url]>>
      <4>1. h[1] = t.url /\ h[2] = t.row /\ h[3] = t.src[t.url]
        BY <3>2
      <4> QED
        BY <1>7, <2>2, <4>1
    <3> QED
      BY <1>1, <3>1, <3>2
  <2> QED
    BY <1>1, <1>3, <1>4, <2>3 DEF HandledInv
<1>10. TaskInv(p)' /\ InsertInv(p)'
  <2>1. userGroup[t.group] # "unused" /\ (p \in Calls => t.later = {} /\ t.src = NoAnswer)
    BY <1>2 DEF TaskInv
  <2> QED
    BY <1>1, <1>3, <1>4, <1>6, <2>1 DEF TaskInv, InsertInv
<1> QED
  BY <1>3, <1>5, <1>7, <1>8, <1>9, <1>10, RequestStep, RequestSource

LEMMA JoinSteps ==
  ASSUME RegistryInv, NEW p \in Adders, Join(p) \/ JoinNew(p)
  PROVE  /\ RegistryInv'
         /\ SourceInv => SourceInv'
<1> DEFINE k == Proceed(Entered(task[p]))
           l == [Entered(task[p]) EXCEPT !.pc = "status"]
<1>1. /\ task[p].pc \in {"join", "joinNew"} /\ members' = Joined(task[p])
      /\ UNCHANGED <<given, rows, userGroup, statuses>>
      /\ task' = [task EXCEPT ![p] = k] \/ task' = [task EXCEPT ![p] = l]
  BY DEF Join, JoinNew
<1> HIDE DEF k, l
<1>2. CASE task' = [task EXCEPT ![p] = k]
  BY <1>1, <1>2, EnterStep DEF k
<1>3. CASE task' = [task EXCEPT ![p] = l]
  BY <1>1, <1>3, EnterStep DEF l
<1> QED
  BY <1>1, <1>2, <1>3

LEMMA AddStatusStep ==
  ASSUME RegistryInv, NEW p \in Adders, AddStatus(p)
  PROVE  /\ RegistryInv'
         /\ SourceInv => SourceInv'
<1> DEFINE t == task[p]
           k == Proceed(t)
<1>1. /\ t.pc = "status" /\ task' = [task EXCEPT ![p] = k]
      /\ statuses' = statuses \cup {t.row}
      /\ UNCHANGED <<at, home, populated, repo, orgGroups, userGroup, members>>
      /\ Known' = Known
  BY DEF AddStatus, given, rows, users, Known
<1>2. RegistryTypeOK /\ TaskInv(p) /\ HandledInv(p) /\ t \in Task /\ Frontend \in RepoGroups
  BY RowTypes DEF RegistryInv, RegistryTypeOK
<1>3. /\ k \in Task /\ k.pc = "pick"
      /\ k.handled = t.handled /\ k.src = t.src /\ k.later = t.later /\ k.group = t.group
  BY <1>2 DEF Proceed, Task
<1> HIDE DEF k
<1>4. /\ task' \in [Adders -> Task] /\ task'[p] = k
      /\ \A q \in Adders \ {p} : task'[q] = task[q]
  BY <1>1, <1>2, <1>3, TaskStep
<1>5. Grows /\ PlainRows
  BY <1>1 DEF Grows, PlainRows
<1>6. t.row \in Known
  BY <1>1, <1>2 DEF TaskInv
<1>7. RegistryTypeOK'
  BY <1>1, <1>2, <1>4, <1>6 DEF RegistryTypeOK
<1>8. HandledInv(p)'
  BY <1>1, <1>2, <1>3, <1>4, <1>5, HandledKept
<1>9. TaskInv(p)' /\ InsertInv(p)'
  BY <1>1, <1>2, <1>3, <1>4 DEF TaskInv, InsertInv
<1> QED
  BY <1>1, <1>4, <1>5, <1>7, <1>8, <1>9, RequestStep, RequestSource

\* End moves rows to another group, Break does not.
LEMMA OverStep ==
  ASSUME RegistryInv, NEW p \in Adders, End(p) \/ Break(p)
  PROVE  /\ RegistryInv'
         /\ SourceInv => SourceInv'
<1> DEFINE t == task[p]
<1>1. /\ task' = [task EXCEPT ![p] = NoTask]
      /\ UNCHANGED <<at, home, populated, orgGroups, userGroup, members, statuses>>
  BY DEF End, Break, given, rows, users
<1>2. RegistryTypeOK /\ t \in Task
  BY DEF RegistryInv, RegistryTypeOK
<1>3. TaskInv(p)' /\ HandledInv(p)' /\ InsertInv(p)'
  BY <1>1, NoTaskStep
<1>4. /\ task' \in [Adders -> Task]
      /\ \A q \in Adders \ {p} : task'[q] = task[q]
  BY <1>1, <1>2, NoTaskFacts, TaskStep
<1>5. /\ \A u \in Known : repo'[u] \in Row /\ repo'[u].src = repo[u].src
      /\ \A u \in Urls \ Known : repo'[u] = NoRepo
      /\ repo' \in [Urls -> Row \cup {NoRepo}]
  <2>1. repo \in [Urls -> Row \cup {NoRepo}] /\ \A u \in Known : repo[u] \in Row
    BY <1>2, RowTypes DEF RegistryTypeOK
  <2>2. CASE Break(p)
    BY <2>1, <2>2 DEF Break, rows, Known
  <2>3. CASE End(p)
    <3> DEFINE moved == {u \in Known : t.lower /\ OrgOf[u] \in t.orgs}
               w(u) == [group |-> t.to, src |-> repo[u].src]
    <3>1. repo' = [u \in Urls |-> IF u \in moved THEN w(u) ELSE repo[u]]
      BY <2>3 DEF End
    <3>2. \A u \in moved : u \in Known
      OBVIOUS
    <3>3. ASSUME NEW u \in Known PROVE w(u) \in Row /\ w(u).src = repo[u].src
      BY <1>2, RowTypes DEF Row, Task
    <3> HIDE DEF moved, w
    <3> QED
      BY <2>1, <3>1, <3>2, <3>3 DEF Known
  <2> QED
    BY <2>2, <2>3
<1>6. Known' = Known /\ Grows /\ PlainRows
  BY <1>1, <1>2, <1>5, Regrouped
<1>7. RegistryTypeOK'
  BY <1>1, <1>2, <1>4, <1>5, <1>6 DEF RegistryTypeOK
<1> QED
  BY <1>1, <1>3, <1>4, <1>6, <1>7, RequestStep, RequestSource

\* A new row has the source GitHub told a form, and none if a call made it.
LEMMA InsertFacts ==
  ASSUME RegistryInv, NEW p \in Adders, Insert(p)
  PROVE  /\ task[p].url \in Urls
         /\ Known' = Known \cup {task[p].url}
         /\ \A u \in Known : repo'[u] = repo[u]
         /\ task[p].url \notin Known => repo'[task[p].url].src = task[p].src[task[p].url]
         /\ RegistryInv'
         /\ task'[p].pc = "joinNew"
         /\ \A q \in Adders \ {p} : task'[q] = task[q]
         /\ Grows
<1> DEFINE t == task[p]
           w == IF t.url \in Known THEN repo[t.url]
                ELSE [group |-> t.to, src |-> t.src[t.url]]
           k == [t EXCEPT !.row = t.url, !.pc = "joinNew"]
<1>1. /\ t.pc = "insert" /\ task' = [task EXCEPT ![p] = k]
      /\ repo' = [repo EXCEPT ![t.url] = w]
      /\ UNCHANGED <<at, home, populated, orgGroups, userGroup, members, statuses>>
  BY DEF Insert, given, users
<1>2. RegistryTypeOK /\ TaskInv(p) /\ HandledInv(p) /\ t \in Task
  BY DEF RegistryInv, RegistryTypeOK
<1>3. t.url \in Urls
  BY <1>1, <1>2 DEF TaskInv
<1>4. /\ k \in Task /\ k.pc = "joinNew" /\ k.url = t.url /\ k.row = t.url
      /\ k.handled = t.handled /\ k.src = t.src /\ k.later = t.later /\ k.group = t.group
  BY <1>2, <1>3 DEF Task
<1> HIDE DEF k
<1>5. /\ task' \in [Adders -> Task] /\ task'[p] = k
      /\ \A q \in Adders \ {p} : task'[q] = task[q]
  BY <1>1, <1>2, <1>4, TaskStep
<1>6. w \in Row /\ (t.url \in Known => w = repo[t.url])
      /\ (t.url \notin Known => w.src = t.src[t.url])
  <2>1. t.to \in RepoGroups /\ t.src[t.url] \in Sources \cup {NoSource}
    BY <1>2, <1>3 DEF Task
  <2> QED
    BY <1>2, <2>1, RowTypes DEF Row
<1>7. repo \in [Urls -> Row \cup {NoRepo}] /\ NoRepo \notin Row
  BY <1>2, RowTypes DEF RegistryTypeOK
<1> HIDE DEF w
<1>8. /\ Known' = Known \cup {t.url}
      /\ \A u \in Known : repo'[u] = repo[u]
      /\ repo'[t.url] = w
      /\ repo' \in [Urls -> Row \cup {NoRepo}]
  <2>1. \A u \in Urls : repo'[u] = IF u = t.url THEN w ELSE repo[u]
    BY <1>1, <1>3, <1>7
  <2> HIDE DEF t
  <2> QED
    BY <1>1, <1>3, <1>6, <1>7, <2>1 DEF Known
<1>9. Grows
  BY <1>1, <1>8 DEF Grows
<1>10. RegistryTypeOK'
  BY <1>1, <1>2, <1>5, <1>8 DEF RegistryTypeOK
<1>11. HandledInv(p)'
  BY <1>1, <1>2, <1>4, <1>5, <1>9, HandledKept
<1>12. TaskInv(p)'
  BY <1>1, <1>2, <1>4, <1>5, <1>8 DEF TaskInv
<1>13. RegistryInv'
  BY <1>1, <1>5, <1>9, <1>10, <1>11, <1>12, RequestStep
<1> QED
  BY <1>3, <1>4, <1>5, <1>6, <1>8, <1>9, <1>13

\* Nobody else has inserted a row with the source a form did not find.
LEMMA InsertStep ==
  ASSUME RegistryInv, NEW p \in Adders, Insert(p)
  PROVE  /\ RegistryInv'
         /\ OneForm /\ SourceInv => SourceInv'
<1> DEFINE url == task[p].url
           s == task[p].src[url]
<1>1. /\ url \in Urls
      /\ Known' = Known \cup {url}
      /\ \A u \in Known : repo'[u] = repo[u]
      /\ url \notin Known => repo'[url].src = s
      /\ RegistryInv'
      /\ task'[p].pc = "joinNew"
      /\ \A q \in Adders \ {p} : task'[q] = task[q]
      /\ Grows
      /\ populated' = populated /\ task[p].pc = "insert"
  BY InsertFacts DEF Insert, given
<1>2. InsertInv(p)'
  BY <1>1 DEF InsertInv
<1>3. ASSUME OneForm, SourceInv
      PROVE  SourceInv'
  <2>1. CASE url \in Known \/ s = NoSource
    <3>1. PlainRows
      BY <1>1, <2>1 DEF PlainRows
    <3> QED
      BY <1>1, <1>2, <1>3, <3>1, RequestSource
  <2>2. CASE url \notin Known /\ s # NoSource
    <3>1. p \in Forms
      <4>1. TaskInv(p)
        BY DEF RegistryInv
      <4>2. p \in Calls => s = NoSource
        BY <1>1, <4>1 DEF TaskInv, NoAnswer
      <4> QED
        BY <2>2, <4>2 DEF Adders
    <3>2. Unclaimed(s)
      BY <1>1, <1>3, <3>1 DEF SourceInv, InsertInv
    <3>3. OneRowPerSource'
      <4>1. OneRowPerSource
        BY <1>3 DEF SourceInv
      <4> HIDE DEF s, url
      <4> QED
        BY <1>1, <2>2, <3>2, <4>1 DEF OneRowPerSource, Unclaimed
    <3>4. ASSUME NEW q \in Adders PROVE InsertInv(q)'
      <4>1. q \in Forms => q = p
        BY <1>3, <3>1 DEF OneForm
      <4> QED
        BY <1>2, <4>1 DEF InsertInv
    <3> QED
      BY <3>3, <3>4 DEF SourceInv
  <2> QED
    BY <2>1, <2>2
<1> QED
  BY <1>1, <1>3

-----------------------------------------------------------------------------
(* Renamings, users, the daily task and core collections. *)

LEMMA RenameStep ==
  ASSUME RegistryInv, NEW s \in Sources, NEW u \in Urls, Rename(s, u)
  PROVE  /\ RegistryInv'
         /\ SourceInv => SourceInv'
<1>1. /\ home' = [home EXCEPT ![s] = u] /\ at' = [at EXCEPT ![u] = s]
      /\ UNCHANGED <<repo, orgGroups, userGroup, members, statuses, task, populated>>
      /\ Known' = Known
  BY DEF Rename, rows, users, Known
<1>2. RegistryTypeOK'
  BY <1>1 DEF RegistryInv, RegistryTypeOK
<1>3. Grows /\ PlainRows
  BY <1>1 DEF Grows, PlainRows
<1> QED
  BY <1>1, <1>2, <1>3, WorldStep, WorldSource

LEMMA AddGroupStep ==
  ASSUME RegistryInv, NEW g \in UserGroups, AddGroup(g)
  PROVE  /\ RegistryInv'
         /\ SourceInv => SourceInv'
<1>1. /\ userGroup[g] = "unused" /\ userGroup' = [userGroup EXCEPT ![g] = "live"]
      /\ UNCHANGED <<at, home, repo, orgGroups, members, statuses, task, populated>>
      /\ Known' = Known
  BY DEF AddGroup, given, rows, Known
<1>2. userGroup \in [UserGroups -> {"unused", "live", "deleted"}]
  BY DEF RegistryInv, RegistryTypeOK
<1>3. \A f \in UserGroups : userGroup[f] # "unused" => userGroup'[f] = userGroup[f]
  BY <1>1, <1>2
<1>4. {f \in UserGroups : userGroup[f] = "live"} \subseteq {f \in UserGroups : userGroup'[f] = "live"}
  BY <1>3
<1>5. RegistryTypeOK'
  <2>1. members' \subseteq {f \in UserGroups : userGroup'[f] = "live"} \X Known'
    BY <1>1, <1>4 DEF RegistryInv, RegistryTypeOK
  <2>2. userGroup' \in [UserGroups -> {"unused", "live", "deleted"}]
    BY <1>1, <1>2
  <2> QED
    BY <1>1, <2>1, <2>2 DEF RegistryInv, RegistryTypeOK
<1>6. Grows /\ PlainRows
  BY <1>1, <1>3 DEF Grows, PlainRows
<1> QED
  BY <1>1, <1>5, <1>6, WorldStep, WorldSource

\* What the user takes out is no longer counted as handled.
LEMMA RemoveRepoStep ==
  ASSUME RegistryInv, NEW g \in UserGroups, NEW u \in Urls, RemoveRepo(g, u)
  PROVE  /\ RegistryInv'
         /\ SourceInv => SourceInv'
<1> DEFINE H(q) == {h \in task[q].handled : h[2] # u}
<1>1. /\ members' = members \ {<<g, u>>}
      /\ task' = [q \in Adders |-> IF task[q].group = g
                                   THEN [task[q] EXCEPT !.handled = H(q)] ELSE task[q]]
      /\ UNCHANGED <<at, home, repo, orgGroups, userGroup, statuses, populated>>
      /\ Known' = Known
  BY DEF RemoveRepo, given, rows, Known
<1>2. RegistryTypeOK
  BY DEF RegistryInv
<1>3. Grows /\ PlainRows
  BY <1>1 DEF Grows, PlainRows
<1>4. ASSUME NEW q \in Adders
      PROVE  /\ task'[q] \in Task
             /\ task'[q].pc = task[q].pc /\ task'[q].group = task[q].group
             /\ task'[q].src = task[q].src /\ task'[q].url = task[q].url
             /\ task'[q].row = task[q].row /\ task'[q].later = task[q].later
             /\ task'[q].handled \subseteq task[q].handled
             /\ task[q].group = g => \A h \in task'[q].handled : h[2] # u
  <2>1. task[q] \in Task /\ H(q) \in SUBSET (Urls \X Urls \X (Sources \cup {NoSource})) /\ H(q) \subseteq task[q].handled
    BY <1>2 DEF RegistryTypeOK, Task
  <2>2. \A h \in H(q) : h[2] # u
    OBVIOUS
  <2> HIDE DEF H
  <2> QED
    BY <1>1, <2>1, <2>2 DEF Task
<1>5. RegistryTypeOK'
  <2>1. task' \in [Adders -> Task]
    BY <1>1, <1>4
  <2> QED
    BY <1>1, <1>2, <2>1 DEF RegistryTypeOK
<1>6. ASSUME NEW q \in Adders
      PROVE  TaskInv(q)' /\ HandledInv(q)' /\ (InsertInv(q) => InsertInv(q)')
  <2>1. TaskInv(q) /\ HandledInv(q)
    BY DEF RegistryInv
  <2>2. TaskInv(q)'
    <3>1. task[q].handled = {} => task'[q].handled = {}
      BY <1>4
    <3>2. \A h \in task'[q].handled : h[2] \in Known
      BY <1>4, <2>1 DEF TaskInv
    <3> QED
      BY <1>1, <1>4, <2>1, <3>1, <3>2 DEF TaskInv
  <2>3. \A h \in task'[q].handled :
          <<task[q].group, h[2]>> \in members => <<task[q].group, h[2]>> \in members'
    BY <1>1, <1>4
  <2>4. HandledInv(q)'
    BY <1>2, <1>3, <1>4, <2>1, <2>3, HandledKept
  <2>5. InsertInv(q) => InsertInv(q)'
    BY <1>1, <1>4 DEF InsertInv, Unclaimed
  <2> QED
    BY <2>2, <2>4, <2>5
<1>7. RegistryInv'
  BY <1>3, <1>5, <1>6, WorldStep
<1>8. SourceInv => SourceInv'
  BY <1>3, <1>6, WorldSource DEF SourceInv
<1> QED
  BY <1>7, <1>8

\* A group that goes takes its members with it.
LEMMA EndDeleteStep ==
  ASSUME RegistryInv, NEW p \in Adders, EndDelete(p)
  PROVE  /\ RegistryInv'
         /\ SourceInv => SourceInv'
<1> DEFINE g == task[p].group
<1>1. /\ task' = [task EXCEPT ![p] = NoTask]
      /\ UNCHANGED <<at, home, repo, orgGroups, statuses, populated>>
      /\ Known' = Known
      /\ \/ /\ userGroup[g] = "live"
            /\ userGroup' = [userGroup EXCEPT ![g] = "deleted"]
            /\ members' = members \ ({g} \X Urls)
         \/ userGroup' = userGroup /\ members' = members
  BY DEF EndDelete, given, rows, Known
<1>2. RegistryTypeOK /\ g \in UserGroups
  BY DEF RegistryInv, RegistryTypeOK, Task
<1>3. userGroup \in [UserGroups -> {"unused", "live", "deleted"}]
      /\ members \subseteq {f \in UserGroups : userGroup[f] = "live"} \X Known
      /\ Known \subseteq Urls
  BY <1>2 DEF RegistryTypeOK, Known
<1> HIDE DEF g
<1>4. /\ userGroup' \in [UserGroups -> {"unused", "live", "deleted"}]
      /\ \A f \in UserGroups : f # g => userGroup'[f] = userGroup[f]
      /\ (userGroup' = userGroup /\ members' = members) \/ userGroup'[g] = "deleted"
  BY <1>1, <1>2, <1>3
<1>5. members' \subseteq {f \in UserGroups : userGroup'[f] = "live"} \X Known
  <2>1. CASE userGroup' = userGroup /\ members' = members
    BY <1>3, <2>1
  <2>2. CASE members' = members \ ({g} \X Urls)
    <3>1. ASSUME NEW m \in members'
          PROVE  m \in {f \in UserGroups : userGroup'[f] = "live"} \X Known
      <4>1. m \in members /\ m \notin {g} \X Urls
        BY <2>2, <3>1
      <4>2. PICK f \in UserGroups, u \in Known : m = <<f, u>> /\ userGroup[f] = "live"
        BY <1>3, <4>1
      <4>3. f # g
        BY <1>3, <4>1, <4>2
      <4> QED
        BY <1>4, <4>2, <4>3
    <3> QED
      BY <3>1
  <2> QED
    BY <1>1, <2>1, <2>2
<1>6. /\ task' \in [Adders -> Task]
      /\ \A q \in Adders \ {p} : task'[q] = task[q]
  BY <1>1, <1>2, NoTaskFacts, TaskStep
<1>7. RegistryTypeOK'
  BY <1>1, <1>2, <1>4, <1>5, <1>6 DEF RegistryTypeOK
<1>8. Grows /\ PlainRows
  <2>1. \A f \in UserGroups : userGroup[f] # "unused" =>
          userGroup'[f] # "unused" /\ (userGroup'[f] = "live" => userGroup[f] = "live")
    BY <1>4
  <2> QED
    BY <1>1, <2>1 DEF Grows, PlainRows
<1>9. TaskInv(p)' /\ HandledInv(p)' /\ InsertInv(p)'
  BY <1>1, NoTaskStep
<1>10. ASSUME NEW q \in Adders, q # p, NEW h \in task[q].handled,
              userGroup'[task[q].group] = "live", <<task[q].group, h[2]>> \in members
       PROVE  <<task[q].group, h[2]>> \in members'
  <2>1. task[q].group \in UserGroups
    BY <1>2 DEF RegistryTypeOK, Task
  <2>2. task[q].group # g \/ members' = members
    BY <1>4, <1>10
  <2> QED
    BY <1>1, <1>10, <2>1, <2>2
<1>11. RegistryInv'
  BY <1>6, <1>7, <1>8, <1>9, <1>10, WorldStep
<1>12. SourceInv => SourceInv'
  BY <1>6, <1>8, <1>9, RequestSource
<1> QED
  BY <1>11, <1>12

LEMMA CreateStatusStep ==
  ASSUME RegistryInv, CreateStatus
  PROVE  /\ RegistryInv'
         /\ SourceInv => SourceInv'
<1>1. /\ statuses' \subseteq statuses \cup Known
      /\ UNCHANGED <<at, home, repo, orgGroups, userGroup, members, task, populated>>
      /\ Known' = Known
  BY DEF CreateStatus, given, rows, users, Known
<1>2. RegistryTypeOK'
  BY <1>1 DEF RegistryInv, RegistryTypeOK
<1>3. Grows /\ PlainRows
  BY <1>1 DEF Grows, PlainRows
<1> QED
  BY <1>1, <1>2, <1>3, WorldStep, WorldSource

\* A source that a core collection writes is remembered as such.
LEMMA PopulateStep ==
  ASSUME RegistryInv, NEW u \in Urls, PopulateSource(u)
  PROVE  /\ RegistryInv'
         /\ SourceInv => SourceInv'
<1> DEFINE w == [group |-> repo[u].group, src |-> at[u]]
<1>1. /\ u \in Known
      /\ repo' = [repo EXCEPT ![u] = w]
      /\ populated' = populated \cup {u}
      /\ UNCHANGED <<at, home, orgGroups, userGroup, members, statuses, task>>
  BY DEF PopulateSource, users
<1>2. RegistryTypeOK
  BY DEF RegistryInv
<1>3. w \in Row
  BY <1>1, <1>2, RowTypes DEF RegistryTypeOK, Row
<1> HIDE DEF w
<1>4. repo \in [Urls -> Row \cup {NoRepo}] /\ NoRepo \notin Row
  BY <1>2, RowTypes DEF RegistryTypeOK
<1>5. /\ Known' = Known /\ \A v \in Urls : v # u => repo'[v] = repo[v]
      /\ repo' \in [Urls -> Row \cup {NoRepo}]
  BY <1>1, <1>3, <1>4 DEF Known
<1>6. RegistryTypeOK'
  BY <1>1, <1>2, <1>5 DEF RegistryTypeOK
<1>7. Grows /\ PlainRows
  BY <1>1, <1>5 DEF Grows, PlainRows, Known
<1> QED
  BY <1>1, <1>6, <1>7, WorldStep, WorldSource

-----------------------------------------------------------------------------
(* The invariants. *)

LEMMA RegistryInitInv == RegistryInit => RegistryInv /\ SourceInv
<1> SUFFICES ASSUME RegistryInit PROVE RegistryInv /\ SourceInv
  OBVIOUS
<1>1. NoTask \in Task /\ NoTask.pc = "idle" /\ NoTask.handled = {} /\ NoTask.later = {} /\ NoTask.src = NoAnswer
  BY NoTaskFacts
<1> HIDE DEF NoTask
<1>2. Known = {}
  BY DEF RegistryInit, Known
<1>3. \A p \in Adders : task[p] = NoTask
  BY DEF RegistryInit
<1>4. RegistryTypeOK
  <2>1. at \in [Urls -> Sources \cup {NoSource}]
    <3>1. \A u \in Urls : (\E s \in Sources : Created[s] = u)
              => (CHOOSE s \in Sources : Created[s] = u) \in Sources
      OBVIOUS
    <3> QED
      BY <3>1 DEF RegistryInit
  <2>2. orgGroups \in [Orgs -> 0 .. MaxGroups]
    BY RegistryAssumption DEF RegistryInit
  <2> QED
    BY <1>1, <1>2, <2>1, <2>2, RegistryAssumption DEF RegistryInit, RegistryTypeOK
<1>5. \A p \in Adders : TaskInv(p) /\ HandledInv(p) /\ InsertInv(p)
  BY <1>1, <1>3 DEF TaskInv, HandledInv, InsertInv
<1> QED
  BY <1>2, <1>4, <1>5 DEF RegistryInv, SourceInv, OneRowPerSource

LEMMA RegistryStep ==
  ASSUME RegistryInv, [RegistryNext]_vars
  PROVE  /\ RegistryInv'
         /\ OneForm /\ SourceInv => SourceInv'
<1>1. ASSUME NEW p \in Adders, Serve(p)
      PROVE  RegistryInv' /\ (OneForm /\ SourceInv => SourceInv')
  <2>1. CASE \E o \in Orgs : FindGroup(p, o) \/ CreateGroup(p, o)
    BY <2>1, FindGroupStep, CreateGroupStep
  <2>2. CASE \E u \in Urls, rg \in RepoGroups : Pick(p, u, rg)
    BY <2>2, PickStep
  <2>3. CASE Ask(p) \/ Regroup(p) \/ AddStatus(p)
    BY <2>3, AskStep, RegroupStep, AddStatusStep
  <2>4. CASE Join(p) \/ JoinNew(p)
    BY <2>4, JoinSteps
  <2>5. CASE Insert(p)
    BY <2>5, InsertStep
  <2>6. CASE End(p) \/ Break(p)
    BY <2>6, OverStep
  <2> QED
    BY <1>1, <2>1, <2>2, <2>3, <2>4, <2>5, <2>6 DEF Serve
<1>2. ASSUME NEW f \in Forms, NEW g \in UserGroups,
             \E us \in SUBSET Urls, os \in SUBSET Orgs : BeginForm(f, g, us, os)
      PROVE  RegistryInv' /\ (OneForm /\ SourceInv => SourceInv')
  <2>1. f \in Adders
    BY DEF Adders
  <2> QED
    BY <1>2, <2>1, BeginSteps
<1>3. ASSUME NEW c \in Calls, NEW g \in UserGroups,
             \/ BeginDelete(c, g)
             \/ \E u \in Urls : BeginRepo(c, g, u)
             \/ \E o \in Orgs, lower \in BOOLEAN : BeginOrg(c, g, o, lower)
      PROVE  RegistryInv' /\ (OneForm /\ SourceInv => SourceInv')
  <2>1. c \in Adders
    BY DEF Adders
  <2> QED
    BY <1>3, <2>1, BeginSteps
<1>4. ASSUME NEW c \in Calls, EndDelete(c)
      PROVE  RegistryInv' /\ (OneForm /\ SourceInv => SourceInv')
  <2>1. c \in Adders
    BY DEF Adders
  <2> QED
    BY <1>4, <2>1, EndDeleteStep
<1>5. CASE (\E s \in Sources, u \in Urls : Rename(s, u)) \/ (\E g \in UserGroups : AddGroup(g))
  BY <1>5, RenameStep, AddGroupStep
<1>6. CASE \E g \in UserGroups, u \in Urls : RemoveRepo(g, u)
  BY <1>6, RemoveRepoStep
<1>7. CASE CreateStatus \/ \E u \in Urls : PopulateSource(u)
  BY <1>7, CreateStatusStep, PopulateStep
<1>8. CASE UNCHANGED vars
  <2>1. UNCHANGED <<at, home, repo, orgGroups, userGroup, members, statuses, task, populated>>
        /\ Known' = Known
    BY <1>8 DEF vars, Known
  <2>2. RegistryTypeOK'
    BY <2>1 DEF RegistryInv, RegistryTypeOK
  <2>3. Grows /\ PlainRows
    BY <2>1 DEF Grows, PlainRows
  <2> QED
    BY <2>1, <2>2, <2>3, WorldStep, WorldSource
<1> QED
  BY <1>1, <1>2, <1>3, <1>4, <1>5, <1>6, <1>7, <1>8 DEF RegistryNext

LEMMA HandledFollows == RegistryInv => HandledIsMember
BY DEF RegistryInv, HandledInv, HandledIsMember

-----------------------------------------------------------------------------
\* Tables and requests keep their types; members and statuses refer to rows
\* and groups that are there.
THEOREM RegistryTypeCorrect == RegistrySpec => []RegistryTypeOK
<1>1. RegistryInit => RegistryInv
  BY RegistryInitInv
<1>2. RegistryInv /\ [RegistryNext]_vars => RegistryInv'
  BY RegistryStep
<1>3. RegistryInv => RegistryTypeOK
  BY DEF RegistryInv
<1> QED
  BY <1>1, <1>2, <1>3, PTL DEF RegistrySpec

\* What a request is done with is in the user's group, under the address that
\* was asked for or another one of the same repository, whatever renamings,
\* deletions and other requests went on - several forms included.
THEOREM HandledAreMembers == RegistrySpec => []HandledIsMember
<1>1. RegistryInit => RegistryInv
  BY RegistryInitInv
<1>2. RegistryInv /\ [RegistryNext]_vars => RegistryInv'
  BY RegistryStep
<1> QED
  BY <1>1, <1>2, HandledFollows, PTL DEF RegistrySpec

\* Unless a core collection writes it, no two rows get one repo_src_id: the
\* only one who inserts rows with a source is the one form that has looked
\* for it.
THEOREM OneRowForEachSource == OneForm => (RegistrySpec => []OneRowPerSource)
<1> SUFFICES ASSUME OneForm PROVE RegistrySpec => []OneRowPerSource
  OBVIOUS
<1>1. RegistryInit => RegistryInv /\ SourceInv
  BY RegistryInitInv
<1>2. RegistryInv /\ SourceInv /\ [RegistryNext]_vars => (RegistryInv /\ SourceInv)'
  BY RegistryStep
<1>3. RegistryInv /\ SourceInv => OneRowPerSource
  BY DEF SourceInv
<1> QED
  BY <1>1, <1>2, <1>3, PTL DEF RegistrySpec

=============================================================================

--------------------------- MODULE KeyOrchestrator ---------------------------
(***************************************************************************)
(* The key orchestrator (keyman) and the clients that collection jobs use  *)
(* it by.                                                                  *)
(*                                                                         *)
(* Everything goes over Redis pub/sub.  The orchestrator subscribes to two *)
(* channels and handles one message after the other.  It answers on a      *)
(* channel that is named after the process id of the requester: every      *)
(* client object of that process which is subscribed then gets the answer, *)
(* and if there is none it is lost.  Nothing is stored: a message sent     *)
(* when the orchestrator is not running is lost as well.                   *)
(***************************************************************************)
EXTENDS KeyPool, Sequences, FiniteSets

CONSTANTS
  Platform,   \* names of platforms, e.g. github_rest
  Published,  \* the (platform, key) pairs that start publishes, in its order
  Client,     \* client objects: a GithubDataAccess and its KeyClient
  Within,     \* the client in whose caller a client is made, in the same
              \* process; Null for the first client of a process
  PlatformOf, \* the platform whose keys a client asks for
  MaxInbox,   \* bound: messages that wait when a worker is killed, and fewer
              \* when a key is unpublished
  MaxUnread,  \* bound: requests of a process that are open, and answers one of
              \* its clients has not read, when a client begins a call
  KeyEvent,   \* events that may happen, from AllKeyEvents
  Null

AllKeyEvents == {"early client", "unpublish", "shutdown", "worker killed", "client ends"}

ASSUME KeyAssumption ==
    /\ Published \in Seq(Platform \X Key)
    /\ Within \in [Client -> Client \cup {Null}]
    /\ \A c \in Client : Within[c] # Null => Within[Within[c]] = Null
    /\ PlatformOf \in [Client -> Platform]
    /\ MaxInbox \in Nat
    /\ MaxUnread \in Nat
    /\ KeyEvent \subseteq AllKeyEvents
    /\ Null \notin Key \cup Client

VARIABLES
  up,         \* whether the orchestrator is listening
  inbox,      \* messages sent to it and not handled, of both channels
  known,      \* the platforms that have been published
  pool,       \* the keys of each platform
  toPublish,  \* what start has not yet published
  pc,         \* where each client object is; "none" if there is none
  key,        \* the key it uses, Null if it has none
  buffer,     \* the answers its subscription has received and it has not read
  wake,       \* how long it sleeps
  reported,   \* (history) the keys it has reported invalid
  shared      \* (history) the clients that may be sent answers to another client
              \* of their process: one was made while they existed, or they
              \* were made while a request of the process was open

keeperVars == <<known, pool>>
clientVars == <<pc, key, buffer, wake, reported, shared>>
keyVars == <<up, inbox, known, pool, toPublish, pc, key, buffer, wake, reported, shared>>

Message == [type : {"PUBLISH", "UNPUBLISH", "SHUTDOWN", "NEW", "EXPIRE", "INVALIDATE"},
            from : Client \cup {Null}, platform : Platform \cup {Null},
            key : Key \cup {Null}, time : Wait]
Answer == [key : Key \cup {Null}, wait : 0 .. MaxWait + Grace]

\* The first client of the process, which stands for its process id.
Pid(c) == IF Within[c] = Null THEN c ELSE Within[c]

KeyInit ==
    /\ up = TRUE
    /\ inbox = <<>>
    /\ known = {}
    /\ pool = [p \in Platform |-> NewPool]
    /\ toPublish = Published
    /\ pc = [c \in Client |-> "none"]
    /\ key = [c \in Client |-> Null]
    /\ buffer = [c \in Client |-> <<>>]
    /\ wake = [c \in Client |-> 0]
    /\ reported = [c \in Client |-> {}]
    /\ shared = {}

-----------------------------------------------------------------------------
(* Sending.                                                                *)

Send(msg) == inbox' = IF up THEN Append(inbox, msg) ELSE inbox

Msg(type, from, p, k, t) ==
    [type |-> type, from |-> from, platform |-> p, key |-> k, time |-> t]

\* start: the keys one after the other.
Publish ==
    /\ toPublish # <<>>
    /\ Send(Msg("PUBLISH", Null, Head(toPublish)[1], Head(toPublish)[2], 0))
    /\ toPublish' = Tail(toPublish)
    /\ UNCHANGED <<up, keeperVars, clientVars>>

Unpublish(p, k) ==
    /\ "unpublish" \in KeyEvent
    /\ Len(inbox) < MaxInbox
    /\ Send(Msg("UNPUBLISH", Null, p, k, 0))
    /\ UNCHANGED <<up, keeperVars, toPublish, clientVars>>

Shutdown ==
    /\ "shutdown" \in KeyEvent
    /\ up
    /\ \A i \in 1 .. Len(inbox) : inbox[i].type # "SHUTDOWN"
    /\ Send(Msg("SHUTDOWN", Null, Null, Null, 0))
    /\ UNCHANGED <<up, keeperVars, toPublish, clientVars>>

-----------------------------------------------------------------------------
(* The orchestrator.                                                       *)

Receives(type) == up /\ inbox # <<>> /\ Head(inbox).type = type

HandlePublish ==
    /\ Receives("PUBLISH")
    /\ LET m == Head(inbox)
       IN  /\ known' = known \cup {m.platform}
           /\ pool' = [pool EXCEPT ![m.platform] = publish_key(@, m.key)]
    /\ inbox' = Tail(inbox)
    /\ UNCHANGED <<up, toPublish, clientVars>>

HandleUnpublish ==
    /\ Receives("UNPUBLISH")
    /\ LET m == Head(inbox)
       IN  pool' = [pool EXCEPT ![m.platform] = unpublish_key(@, m.key)]
    /\ inbox' = Tail(inbox)
    /\ UNCHANGED <<up, known, toPublish, clientVars>>

\* run returns; the subscription is closed.
HandleShutdown ==
    /\ Receives("SHUTDOWN")
    /\ up' = FALSE
    /\ inbox' = <<>>
    /\ UNCHANGED <<keeperVars, toPublish, clientVars>>

\* Every message of the request channel begins with refresh_keys, on all
\* platforms.
Refreshed == [p \in Platform |-> refresh_keys(pool[p])]

HandleExpire ==
    /\ Receives("EXPIRE")
    /\ LET m == Head(inbox)
       IN  pool' = [Refreshed EXCEPT ![m.platform] = expire_key(@, m.key, m.time)]
    /\ inbox' = Tail(inbox)
    /\ UNCHANGED <<up, known, toPublish, clientVars>>

HandleInvalidate ==
    /\ Receives("INVALIDATE")
    /\ LET m == Head(inbox)
       IN  pool' = IF m.platform \in known
                   THEN [Refreshed EXCEPT ![m.platform] = invalidate_key(@, m.key)]
                   ELSE Refreshed
    /\ inbox' = Tail(inbox)
    /\ UNCHANGED <<up, known, toPublish, clientVars>>

\* (mutant) no wait for the expired keys.
Answers_NoWait(q) ==
    IF FreshKeys(q) # {} THEN {[key |-> k, wait |-> 0] : k \in FreshKeys(q)}
    ELSE {[key |-> Null, wait |-> 0]}

\* new_key.
Answers(q) ==
    IF FreshKeys(q) # {} THEN {[key |-> k, wait |-> 0] : k \in FreshKeys(q)}
    ELSE IF DOMAIN q.expired # {} THEN {[key |-> Null, wait |-> FirstRipe(q) + Grace]}
    ELSE {[key |-> Null, wait |-> 0]}

\* (mutant) the answer goes to every process.
Delivered_ToAll(from, answer) ==
    [c \in Client |-> IF pc[c] # "none" THEN Append(buffer[c], answer) ELSE buffer[c]]

\* Delivered to every client object of the process that is subscribed.
Delivered(from, answer) ==
    [c \in Client |-> IF Pid(c) = from /\ pc[c] # "none"
                      THEN Append(buffer[c], answer) ELSE buffer[c]]

\* A request for a platform nobody has published is an exception that run
\* logs; the requester is not told.
HandleNew ==
    /\ Receives("NEW")
    /\ pool' = Refreshed
    /\ LET m == Head(inbox)
       IN  IF m.platform \in known
           THEN \E a \in Answers(Refreshed[m.platform]) : buffer' = Delivered(m.from, a)
           ELSE UNCHANGED buffer
    /\ inbox' = Tail(inbox)
    /\ UNCHANGED <<up, known, toPublish, pc, key, wake, reported, shared>>

-----------------------------------------------------------------------------
(* The clients.                                                            *)

\* The requests of c's process that have not been answered.
Open(c) ==
    Cardinality({i \in 1 .. Len(inbox) : inbox[i].type = "NEW" /\ inbox[i].from = Pid(c)})

\* A caller waits for what it calls: a client does nothing while there is one
\* made within it.
Runs(c) == \A d \in Client : Within[d] = c => pc[d] = "none"

\* "collection start" publishes the keys before it starts the workers,
\* "backend start" afterwards.
CreateClient(c) ==
    /\ pc[c] = "none"
    /\ toPublish = <<>> \/ "early client" \in KeyEvent
    /\ Within[c] # Null => pc[Within[c]] = "idle" /\ Runs(Within[c])
    /\ pc' = [pc EXCEPT ![c] = "idle"]
    /\ shared' = shared \cup {d \in Client : Pid(d) = Pid(c) /\ pc[d] # "none"}
                        \cup {d \in {c} : Open(c) > 0}
    /\ UNCHANGED <<up, inbox, keeperVars, toPublish, key, buffer, wake, reported>>

\* (mutant) the subscription outlives the object: the next object of the
\* process finds what this one has not read.
Discard_KeepsBuffer(cs) ==
    /\ pc' = [c \in Client |-> IF c \in cs THEN "none" ELSE pc[c]]
    /\ key' = [c \in Client |-> IF c \in cs THEN Null ELSE key[c]]
    /\ wake' = [c \in Client |-> IF c \in cs THEN 0 ELSE wake[c]]
    /\ reported' = [c \in Client |-> IF c \in cs THEN {} ELSE reported[c]]
    /\ shared' = shared \ cs
    /\ UNCHANGED buffer

\* The objects cs are gone, and with them their subscriptions.
Discard(cs) ==
    /\ pc' = [c \in Client |-> IF c \in cs THEN "none" ELSE pc[c]]
    /\ key' = [c \in Client |-> IF c \in cs THEN Null ELSE key[c]]
    /\ buffer' = [c \in Client |-> IF c \in cs THEN <<>> ELSE buffer[c]]
    /\ wake' = [c \in Client |-> IF c \in cs THEN 0 ELSE wake[c]]
    /\ reported' = [c \in Client |-> IF c \in cs THEN {} ELSE reported[c]]
    /\ shared' = shared \ cs

\* The job or the function that made the object returns or raises.
EndClient(c) ==
    /\ "client ends" \in KeyEvent
    /\ pc[c] = "idle"
    /\ Runs(c)
    /\ Discard({c})
    /\ UNCHANGED <<up, inbox, keeperVars, toPublish>>

\* The worker process dies; the next one has another process id, so an answer
\* to what it had sent goes to nobody.
KillWorker(c) ==
    /\ "worker killed" \in KeyEvent
    /\ Within[c] = Null
    /\ pc[c] # "none"
    /\ Len(inbox) <= MaxInbox
    /\ Discard({d \in Client : Pid(d) = c})
    /\ inbox' = [i \in 1 .. Len(inbox) |->
                    [inbox[i] EXCEPT !.from = IF @ = c THEN Null ELSE @]]
    /\ UNCHANGED <<up, keeperVars, toPublish>>

\* KeyClient.request: send NEW and wait for the next answer.
SendNew(c) ==
    /\ Send(Msg("NEW", Pid(c), PlatformOf[c], Null, 0))
    /\ pc' = [pc EXCEPT ![c] = "waiting"]

\* It may begin a call of KeyClient.
Begins(c) ==
    /\ pc[c] = "idle"
    /\ Runs(c)
    /\ Open(c) <= MaxUnread
    /\ \A d \in Client : Pid(d) = Pid(c) => Len(buffer[d]) <= MaxUnread

\* make_request, with no key.
Request(c) ==
    /\ Begins(c)
    /\ key[c] = Null
    /\ SendNew(c)
    /\ UNCHANGED <<up, keeperVars, toPublish, key, buffer, wake, reported, shared>>

\* make_request answers 403 or 429, or says that the limit is near:
\* KeyClient.expire.
ReportExpired(c) ==
    /\ Begins(c)
    /\ key[c] # Null
    /\ \E t \in Wait : Send(Msg("EXPIRE", Pid(c), PlatformOf[c], key[c], t))
    /\ pc' = [pc EXCEPT ![c] = "reporting"]
    /\ UNCHANGED <<up, keeperVars, toPublish, key, buffer, wake, reported, shared>>

\* make_request answers 401: KeyClient.invalidate.  Reporting that there is no
\* key (the header "token None" is refused too) comes to a new request.
ReportInvalid(c) ==
    /\ Begins(c)
    /\ key[c] # Null
    /\ Send(Msg("INVALIDATE", Pid(c), PlatformOf[c], key[c], 0))
    /\ pc' = [pc EXCEPT ![c] = "reporting"]
    /\ reported' = [reported EXCEPT ![c] = @ \cup {key[c]}]
    /\ UNCHANGED <<up, keeperVars, toPublish, key, buffer, wake, shared>>

RequestNext(c) ==
    /\ pc[c] = "reporting"
    /\ SendNew(c)
    /\ UNCHANGED <<up, keeperVars, toPublish, key, buffer, wake, reported, shared>>

\* The next answer, whichever request it is the answer to.
Receive(c) ==
    /\ pc[c] = "waiting"
    /\ buffer[c] # <<>>
    /\ LET a == Head(buffer[c])
       IN  IF a.wait > 0
           THEN /\ pc' = [pc EXCEPT ![c] = "sleeping"]
                /\ wake' = [wake EXCEPT ![c] = a.wait]
                /\ UNCHANGED key
           ELSE /\ pc' = [pc EXCEPT ![c] = "idle"]
                /\ key' = [key EXCEPT ![c] = a.key]
                /\ UNCHANGED wake
    /\ buffer' = [buffer EXCEPT ![c] = Tail(@)]
    /\ UNCHANGED <<up, inbox, keeperVars, toPublish, reported, shared>>

WakeUp(c) ==
    /\ pc[c] = "sleeping"
    /\ wake[c] = 0
    /\ SendNew(c)
    /\ UNCHANGED <<up, keeperVars, toPublish, key, buffer, wake, reported, shared>>

\* Times are kept as what is left of them.
Tick ==
    /\ \/ \E c \in Client : wake[c] > 0
       \/ \E i \in 1 .. Len(inbox) : inbox[i].time > 0
       \/ \E p \in Platform : \E k \in DOMAIN pool[p].expired : pool[p].expired[k] > 0
    /\ wake' = [c \in Client |-> Less(wake[c])]
    /\ inbox' = [i \in 1 .. Len(inbox) |-> [inbox[i] EXCEPT !.time = Less(@)]]
    /\ pool' = [p \in Platform |-> Aged(pool[p])]
    /\ UNCHANGED <<up, known, toPublish, pc, key, buffer, reported, shared>>

-----------------------------------------------------------------------------
HandleMessage ==
    \/ HandlePublish
    \/ HandleUnpublish
    \/ HandleShutdown
    \/ HandleExpire
    \/ HandleInvalidate
    \/ HandleNew

Proceed(c) == RequestNext(c) \/ Receive(c) \/ WakeUp(c)

KeyNext ==
    \/ Publish
    \/ \E p \in Platform, k \in Key : Unpublish(p, k)
    \/ Shutdown
    \/ HandleMessage
    \/ \E c \in Client :
          \/ CreateClient(c)
          \/ EndClient(c)
          \/ KillWorker(c)
          \/ Request(c)
          \/ ReportExpired(c)
          \/ ReportInvalid(c)
          \/ Proceed(c)
    \/ Tick

KeySpec == KeyInit /\ [][KeyNext]_keyVars

\* The orchestrator handles what it has received, a client that is in the
\* middle of a call goes on, and time passes.
KeyFairSpec ==
    /\ KeySpec
    /\ WF_keyVars(HandleMessage)
    /\ \A c \in Client : WF_keyVars(Proceed(c))
    /\ WF_keyVars(Tick)

-----------------------------------------------------------------------------
(* What all this comes to (module KeyService).                             *)

\* A key that is not yet published: in a message, or in what start has left.
Sent(p, k) ==
    \E i \in 1 .. Len(inbox) :
        inbox[i].type = "PUBLISH" /\ inbox[i].platform = p /\ inbox[i].key = k
Left(p, k) == \E i \in 1 .. Len(toPublish) : toPublish[i] = <<p, k>>
Pending(p, k) == Sent(p, k) \/ Left(p, k)

StandingOf(p, k) ==
    IF Pending(p, k) THEN "awaited"
    ELSE IF IsFresh(pool[p], k) THEN "fresh"
    ELSE IF IsExpired(pool[p], k) THEN "expired" ELSE "gone"
Standing == [p \in Platform |-> [k \in Key |-> StandingOf(p, k)]]

\* A client that is told to wait goes on asking; an answer counts as given
\* before the client has read it.  Clients that share their answers are none of
\* the service's.
Wants(c) == pc[c] \in {"waiting", "sleeping"}
Answered(c) == buffer[c] # <<>> /\ Head(buffer[c]).wait = 0
Asking == {c \in Client \ shared : Wants(c) /\ ~ Answered(c)}
GivenTo(c) ==
    IF c \in shared THEN Null
    ELSE IF ~ Wants(c) THEN key[c] ELSE IF Answered(c) THEN Head(buffer[c]).key ELSE Null
Given == [c \in Client |-> GivenTo(c)]
Refused == [c \in Client |-> IF c \in shared THEN {} ELSE reported[c]]

Service == INSTANCE KeyService WITH
    standing <- Standing, asking <- Asking, given <- Given, refused <- Refused

\* The orchestrator, its channels and its clients implement KeyService: a key
\* is handed out only while it is fresh, to the one client that has asked, and
\* not to one that has reported it; "no key" is only said when the platform has
\* neither a fresh nor an expired one; no late report, refresh or message that
\* crosses another brings back a key that is invalid or unpublished
\* (Orchestrator.py, KeyClient.py).  This is not promised to a client from when
\* it is shared: KeyClient.py says that only one may exist in a process.
ImplementsService == Service!ServiceSpec

-----------------------------------------------------------------------------
KeyTypeOK ==
    /\ up \in BOOLEAN
    /\ inbox \in Seq(Message)
    /\ known \subseteq Platform
    /\ pool \in [Platform -> Pool]
    /\ toPublish \in Seq(Platform \X Key)
    /\ pc \in [Client -> {"none", "idle", "reporting", "waiting", "sleeping"}]
    /\ key \in [Client -> Key \cup {Null}]
    /\ buffer \in [Client -> Seq(Answer)]
    /\ wake \in [Client -> 0 .. MaxWait + Grace]
    /\ reported \in [Client -> SUBSET Key]
    /\ shared \subseteq Client

\* A key that was published once is fresh, expired or invalid, and not two of
\* them, however the reports of several clients about it are ordered: a late
\* EXPIRE does not bring an invalid key back, and refresh_keys does not double
\* one (Orchestrator.py).
KeyInOneState ==
    \A p \in Platform, k \in Key :
        pool[p].fresh[k] + Cardinality(DOMAIN pool[p].expired \cap {k})
            + Cardinality(pool[p].invalid \cap {k}) <= 1

\* A client that waits has at most one request on its way or one answer to
\* read, and a client that does not wait has neither: no answer is ever taken
\* for that to another request, through waits, reports, killed workers, requests
\* that are dropped, and other clients that were in its process before, as long
\* as none is made within it (KeyClient.request, KeyClient._recv).
OneAnswerEach ==
    \A c \in Client \ shared :
        pc[c] # "none" =>
            Open(c) + Len(buffer[c]) <= IF pc[c] = "waiting" THEN 1 ELSE 0

\* KeyClient.py: a key reported by invalidate "cannot be used to service any
\* future requests": the client that reported it is not handed it again, unless
\* the answer was to a client that was made within it.
InvalidNotHandedBack ==
    \A c \in Client \ shared : pc[c] = "idle" => key[c] \notin reported[c]

\* A client that has asked for a key is answered, after however many waits,
\* if the orchestrator stays up and the keys stop being reported as expired
\* (KeyClient.request).  It must not have asked before its platform was known.
RequestsAnswered ==
    []up /\ <>[][\A c \in Client : ~ ReportExpired(c)]_keyVars =>
        \A c \in Client : pc[c] = "waiting" ~> pc[c] \in {"idle", "none"}
=============================================================================

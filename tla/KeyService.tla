------------------------------ MODULE KeyService ------------------------------
(***************************************************************************)
(* What the key orchestrator promises its clients, without messages and    *)
(* times.  A key goes from awaited to fresh, between fresh and expired, and *)
(* once it is gone it does not come back.  A client is given at most one   *)
(* key for what it asks, one that is fresh at that moment and that it has  *)
(* not refused; it is told that there is none only when no key is fresh or *)
(* expired.  It may be left without an answer.                             *)
(***************************************************************************)
CONSTANTS Key, Platform, Client,
  PlatformOf, \* the platform whose keys a client asks for
  Null

VARIABLES
  standing,   \* of each key of each platform
  asking,     \* the clients that want a key
  given,      \* the key each client has, Null if none
  refused     \* the keys each client has reported as invalid

Standings == {"awaited", "fresh", "expired", "gone"}

\* (from, to).
Edges == {<<"awaited", "fresh">>, <<"awaited", "gone">>, <<"fresh", "expired">>,
          <<"fresh", "gone">>, <<"expired", "fresh">>, <<"expired", "gone">>}

clients == <<asking, given, refused>>

ServiceInit ==
  /\ standing \in [Platform -> [Key -> {"awaited", "gone"}]]
  /\ asking = {}
  /\ given = [c \in Client |-> Null]
  /\ refused = [c \in Client |-> {}]

Goes(from, to) == from = to \/ <<from, to>> \in Edges

\* Keys are published, reported, taken back, and refreshed.
Moves ==
  /\ standing' \in [Platform -> [Key -> Standings]]
  /\ \A p \in Platform, k \in Key : Goes(standing[p][k], standing'[p][k])

Ask(c) ==
  /\ c \notin asking
  /\ asking' = asking \cup {c}
  /\ given' = [given EXCEPT ![c] = Null]
  /\ UNCHANGED <<standing, refused>>

\* Keys whose time has come are refreshed with the answer.
Grant(c, k) ==
  /\ c \in asking
  /\ Moves
  /\ standing'[PlatformOf[c]][k] = "fresh"
  /\ k \notin refused[c]
  /\ asking' = asking \ {c}
  /\ given' = [given EXCEPT ![c] = k]
  /\ UNCHANGED refused

TellNone(c) ==
  /\ c \in asking
  /\ Moves
  /\ \A k \in Key : standing'[PlatformOf[c]][k] \notin {"fresh", "expired"}
  /\ asking' = asking \ {c}
  /\ UNCHANGED <<given, refused>>

Refuse(c) ==
  /\ c \notin asking
  /\ given[c] # Null
  /\ refused' = [refused EXCEPT ![c] = @ \cup {given[c]}]
  /\ UNCHANGED <<standing, asking, given>>

\* The client, or its process, ends.
Leave(c) ==
  /\ asking' = asking \ {c}
  /\ given' = [given EXCEPT ![c] = Null]
  /\ refused' = [refused EXCEPT ![c] = {}]
  /\ UNCHANGED standing

ServiceNext ==
  \/ UNCHANGED clients /\ Moves
  \/ \E c \in Client :
        \/ Ask(c)
        \/ \E k \in Key : Grant(c, k)
        \/ TellNone(c)
        \/ Refuse(c)
        \/ Leave(c)

ServiceSpec == ServiceInit /\ [][ServiceNext]_<<standing, asking, given, refused>>
=============================================================================

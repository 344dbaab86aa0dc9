------------------------------ MODULE PlayEdge ------------------------------
(***************************************************************************)
(* The play side of an edge: the first player of a stream makes the edge   *)
(* pull it from an origin, the last one to leave makes it disconnect       *)
(* (SrsPlayEdge, SrsEdgeIngester and the calls of SrsSource between them). *)
(*                                                                         *)
(* Every ingester coroutine has a number; trd is the one the SrsEdgeIngester*)
(* object points to.  Where the code frees an object that another coroutine *)
(* still uses, the model goes on as if the memory were not reused, so only  *)
(* the first step of such a behaviour is meant.                            *)
(***************************************************************************)
EXTENDS Integers, FiniteSets

CONSTANTS
    Clients,
    MaxStarts       \* bound: ingester coroutines

ASSUME PlayEdgeAssumption == MaxStarts \in Nat

Gens == 1 .. MaxStarts

VARIABLES
    state,       \* SrsEdgeState of the play edge
    pc,          \* where each client is; "leaked" is a consumer without client
    joins,       \* the ingester whose end a client waits for
    trd,         \* the current ingester coroutine, 0 before the first
    ing,         \* what each ingester coroutine does
    disposed,    \* stop() was called on it
    sdk,         \* the ingester that opened the upstream, 0 when it is closed
    can_publish, \* _can_publish of the source
    is_active,   \* is_active of the hub
    apart,       \* history: no client came while the last one was leaving
    accepted     \* history: the source never refused the edge

source == <<can_publish, is_active, apart, accepted>>
vars == <<state, pc, joins, trd, ing, disposed, sdk, source>>

Leaving == {"joining", "unpublishing"}
Running == {"top", "connect", "ingest", "sleep"}

Init ==
    /\ state = "Init"
    /\ pc = [c \in Clients |-> "out"]
    /\ joins = [c \in Clients |-> 0]
    /\ trd = 0
    /\ ing = [g \in Gens |-> "new"]
    /\ disposed = [g \in Gens |-> FALSE]
    /\ sdk = 0
    /\ can_publish = TRUE
    /\ is_active = FALSE
    /\ apart = TRUE /\ accepted = TRUE

(* The consumers of the source, those of failed calls included.              *)
Consumers == {c \in Clients : pc[c] \in {"playing", "restarting", "leaked"}}
NobodyLeaves == \A c \in Clients : pc[c] \notin Leaving
-----------------------------------------------------------------------------
(* create_consumer when the edge is not idle: nothing to start.              *)
Join(c) ==
    /\ pc[c] = "out"
    /\ state # "Init"
    /\ apart' = (apart /\ NobodyLeaves)
    /\ pc' = [pc EXCEPT ![c] = "playing"]
    /\ UNCHANGED <<state, joins, trd, ing, disposed, sdk, can_publish, is_active, accepted>>

Comes(c) ==
    /\ pc[c] = "out"
    /\ state = "Init"
    /\ trd < MaxStarts

(* The state is Play before the source is told, and stays Play when the       *)
(* source fails; the consumer is in the source already and nobody frees it.   *)
JoinFails(c) ==
    /\ Comes(c)
    /\ accepted' = FALSE
    /\ state' = "Play"
    /\ can_publish' = FALSE
    /\ is_active' \in {is_active, TRUE}
    /\ pc' = [pc EXCEPT ![c] = "leaked"]
    /\ UNCHANGED <<joins, trd, ing, disposed, sdk, apart>>

(* A new coroutine replaces the old one.                                      *)
NewIngester(c) ==
    /\ trd' = trd + 1
    /\ ing' = [ing EXCEPT ![trd + 1] = "top"]
    /\ pc' = [pc EXCEPT ![c] = "playing"]
    /\ UNCHANGED <<joins, disposed, sdk>>

(* The old coroutine was stopped before, or is stopped when it is freed.      *)
MustStopOld == trd # 0 /\ ~disposed[trd]

(* on_client_play by the first client.                                       *)
JoinFirst(c) ==
    /\ Comes(c)
    /\ state' = "Play"
    /\ can_publish' = FALSE
    /\ is_active' = TRUE
    /\ apart' = (apart /\ NobodyLeaves)
    /\ UNCHANGED accepted
    /\ IF MustStopOld
       THEN /\ disposed' = [disposed EXCEPT ![trd] = TRUE]
            /\ joins' = [joins EXCEPT ![c] = trd]
            /\ pc' = [pc EXCEPT ![c] = "restarting"]
            /\ UNCHANGED <<trd, ing, sdk>>
       ELSE NewIngester(c)

Restarted(c) ==
    /\ pc[c] = "restarting"
    /\ ing[joins[c]] = "ended"
    /\ trd < MaxStarts
    /\ NewIngester(c)
    /\ UNCHANGED <<state, source>>

(* A client of many leaves, or one whose edge is idle.                        *)
Leave(c) ==
    /\ pc[c] = "playing"
    /\ Consumers # {c} \/ state = "Init"
    /\ pc' = [pc EXCEPT ![c] = "out"]
    /\ UNCHANGED <<state, joins, trd, ing, disposed, sdk, source>>

(* The last consumer is destroyed: on_all_client_stop.                        *)
IsLast(c) == pc[c] = "playing" /\ Consumers = {c} /\ state # "Init"

LeaveLast(c) ==
    /\ IsLast(c)
    /\ ~disposed[trd]
    /\ disposed' = [disposed EXCEPT ![trd] = TRUE]
    /\ joins' = [joins EXCEPT ![c] = trd]
    /\ pc' = [pc EXCEPT ![c] = "joining"]
    /\ UNCHANGED <<state, trd, ing, sdk, source>>

(* SrsEdgeIngester::stop after the join: close the upstream, unpublish.       *)
CloseUpstream(c) ==
    /\ sdk' = 0
    /\ IF can_publish
       THEN /\ state' = "Init"
            /\ pc' = [pc EXCEPT ![c] = "out"]
            /\ UNCHANGED is_active
       ELSE /\ is_active' = FALSE
            /\ pc' = [pc EXCEPT ![c] = "unpublishing"]
            /\ UNCHANGED state
    /\ UNCHANGED <<joins, trd, ing, disposed, can_publish, apart, accepted>>

(* stop() of a coroutine that another client already stops does not wait.     *)
LeaveAgain(c) ==
    /\ IsLast(c)
    /\ disposed[trd]
    /\ CloseUpstream(c)

(* Mutant: the upstream is closed without waiting for the coroutine. *)
NoJoin(c) == pc[c] = "joining"

JoinReturns(c) == pc[c] = "joining" /\ ing[joins[c]] = "ended"

Stopped(c) ==
    /\ JoinReturns(c)
    /\ CloseUpstream(c)

(* Mutant: the edge stays in its state when all clients are gone. *)
KeepState == UNCHANGED state

BackToInit == state' = "Init"

(* on_unpublish has stopped the services of the hub.                          *)
Unpublished(c) ==
    /\ pc[c] = "unpublishing"
    /\ can_publish' = TRUE
    /\ BackToInit
    /\ pc' = [pc EXCEPT ![c] = "out"]
    /\ UNCHANGED <<joins, trd, ing, disposed, sdk, is_active, apart, accepted>>
-----------------------------------------------------------------------------
(* The cycle of ingester g.                                                  *)
Goes(g, from, to) ==
    /\ ing[g] = from
    /\ ing' = [ing EXCEPT ![g] = to]
    /\ UNCHANGED <<pc, joins, trd, disposed, source>>

(* pull() at the top of the loops; a new upstream is connected.               *)
CycleEnds(g) ==
    /\ disposed[g]
    /\ Goes(g, "top", "ended")
    /\ UNCHANGED <<state, sdk>>

Connect(g) ==
    /\ ~disposed[g]
    /\ Goes(g, "top", "connect")
    /\ sdk' = g
    /\ UNCHANGED state

(* The origin is removed from the configuration.                              *)
NoOrigin(g) ==
    /\ ~disposed[g]
    /\ Goes(g, "top", "sleep")
    /\ sdk' = 0
    /\ UNCHANGED state

ConnectFails(g) ==
    /\ Goes(g, "connect", "sleep")
    /\ UNCHANGED <<state, sdk>>

(* on_ingest_play asserts that the state is Play unless it is connected; an   *)
(* ingester that is made runnable before it is interrupted gets here too.     *)
IngestPlayOK == state \in {"Play", "IngestConnected"}

Connected(g) ==
    /\ Goes(g, "connect", IF IngestPlayOK THEN "ingest" ELSE "aborted")
    /\ state' = IF IngestPlayOK THEN "IngestConnected" ELSE state
    /\ UNCHANGED sdk

(* A message is delivered to the source and asks for no redirect; it changes  *)
(* nothing here.  A redirect connects again at once, any error after a pause. *)
Redirected(g) ==
    /\ ~disposed[g]
    /\ Goes(g, "ingest", "connect")
    /\ sdk' = g
    /\ UNCHANGED state

IngestFails(g) ==
    /\ Goes(g, "ingest", "sleep")
    /\ UNCHANGED <<state, sdk>>

(* Mutant: an error of the origin ends the ingester. *)
NoRetry(g) ==
    /\ Goes(g, "sleep", "ended")
    /\ UNCHANGED <<state, sdk>>

Wakes(g) ==
    /\ Goes(g, "sleep", "top")
    /\ UNCHANGED <<state, sdk>>

Ingester(g) ==
    \/ CycleEnds(g) \/ Connect(g) \/ NoOrigin(g) \/ ConnectFails(g)
    \/ Connected(g) \/ Redirected(g) \/ IngestFails(g) \/ Wakes(g)

ClientStops(c) == Stopped(c) \/ Unpublished(c) \/ Restarted(c)

Next ==
    \/ \E c \in Clients :
          \/ Join(c) \/ JoinFails(c) \/ JoinFirst(c)
          \/ Leave(c) \/ LeaveLast(c) \/ LeaveAgain(c)
          \/ ClientStops(c)
    \/ \E g \in Gens : Ingester(g)

(* Every blocking call of the ingester has a timeout (connect and receive     *)
(* SRS_EDGE_INGESTER_TIMEOUT, the pause SRS_EDGE_INGESTER_CIMS), and a         *)
(* stopped one is interrupted, so its receive ends although the origin sends. *)
Fairness ==
    /\ \A g \in Gens :
          /\ WF_vars(CycleEnds(g))
          /\ WF_vars(Connect(g) \/ NoOrigin(g))
          /\ WF_vars(ConnectFails(g) \/ Connected(g))
          /\ WF_vars(disposed[g] /\ IngestFails(g))
          /\ WF_vars(Wakes(g))
    /\ \A c \in Clients : WF_vars(ClientStops(c))

Spec == Init /\ [][Next]_vars
FairSpec == Spec /\ Fairness
-----------------------------------------------------------------------------
TypeOK ==
    /\ state \in {"Init", "Play", "IngestConnected"}
    /\ pc \in [Clients -> {"out", "playing", "restarting", "leaked"} \cup Leaving]
    /\ joins \in [Clients -> 0 .. MaxStarts]
    /\ trd \in 0 .. MaxStarts
    /\ ing \in [Gens -> {"new", "ended", "aborted"} \cup Running]
    /\ \A g \in Gens : (ing[g] = "new" <=> g > trd) /\ (disposed[g] => g <= trd)
    /\ disposed \in [Gens -> BOOLEAN]
    /\ sdk \in 0 .. MaxStarts
    /\ can_publish \in BOOLEAN
    /\ is_active \in BOOLEAN
    /\ apart \in BOOLEAN /\ accepted \in BOOLEAN

(* The calls of clients did not overlap, and none of them failed.              *)
Calm == apart /\ accepted

(* srs_app_edge.cpp:717 srs_assert(state == SrsEdgeStatePlay): no ingester     *)
(* connects for an edge that is back in its initial state.                    *)
IngestPlayAsserted == Calm => \A g \in Gens : ing[g] # "aborted"

(* One ingester at a time runs, the one the edge can stop, and nobody closes   *)
(* the upstream it is using.                                                  *)
OneIngester ==
    Calm => \A g \in Gens :
        /\ ing[g] \in Running => g = trd
        /\ ing[g] \in {"connect", "ingest"} => sdk = g

(* A message of the origin reaches a source that is published.                 *)
IngestsIntoPublished ==
    Calm => \A g \in Gens : ing[g] = "ingest" => is_active /\ ~can_publish

(* The three together: however players come and go and the origin fails, an    *)
(* ingester never works against the state of the edge, of another ingester or  *)
(* of the source.                                                             *)
IngesterIsSound == IngestPlayAsserted /\ OneIngester /\ IngestsIntoPublished

(* srs_app_source.cpp:2557 "notice edge to start for the first client": while  *)
(* someone plays, an ingester runs that is not being stopped.                 *)
PlayersAreFed ==
    accepted /\ Consumers # {} /\ NobodyLeaves /\ (\A c \in Clients : pc[c] # "restarting") =>
        trd # 0 /\ ing[trd] \in Running /\ ~disposed[trd]

(* When calls do not overlap, that holds.                                      *)
PlayersAreFedWhenCalm == Calm => PlayersAreFed

(* As long as a player stays, the edge connects or connects again: no error of *)
(* the origin is final.                                                       *)
PlayersGetIngest ==
    \A c \in Clients :
        Calm /\ pc[c] = "playing" ~> pc[c] # "playing" \/ ~Calm
            \/ (trd # 0 /\ ing[trd] \in {"top", "connect", "ingest"})

(* Whoever leaves gets out: the ingester it waits for ends, wherever it is,    *)
(* and whatever other clients do meanwhile.                                   *)
LeaversGetOut ==
    \A c \in Clients :
        pc[c] \in Leaving ~>
            pc[c] \notin Leaving \/ \E g \in Gens : ing[g] = "aborted"

(* srs_app_edge.hpp:193 "When all client stopped play, disconnect to origin".  *)
IdleWhenNobodyPlays ==
    Calm /\ (\A c \in Clients : pc[c] = "out") => state = "Init" /\ sdk = 0 /\ can_publish

(* Both: whether the edge pulls the stream follows whether someone plays it.   *)
EdgeFollowsPlayers == PlayersAreFedWhenCalm /\ IdleWhenNobodyPlays

(* No error of the origin stops the edge, and none keeps a player from leaving. *)
EdgeGoesOn == PlayersGetIngest /\ LeaversGetOut
=============================================================================

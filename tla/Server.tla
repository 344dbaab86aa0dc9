------------------------------- MODULE Server -------------------------------
(***************************************************************************)
(* The server around the streams: a listener accepts clients, up to a limit, *)
(* and each is served by a connection with a coroutine of its own; a         *)
(* connection that ends hands itself to the coroutine manager, which frees   *)
(* it (SrsTcpListener, SrsServer, SrsCoroutineManager).  A connection makes   *)
(* the source of its stream when there is none (SrsSourceManager).  The main  *)
(* coroutine looks at the signals once a second: it reloads the configuration, *)
(* which calls one subscriber after the other (SrsConfig), or quits, fast or  *)
(* after the connections have gone.                                        *)
(***************************************************************************)
EXTENDS Integers, Sequences, FiniteSets, SequencesExt

CONSTANTS
    Clients,
    MaxConnections,   \* max_connections of the configuration
    MaxFds,           \* descriptors the system gives the process for clients
    MaxReloads,       \* bound: reloads
    MaxOrphans        \* bound: sources whose initialization failed

ASSUME ServerAssumption ==
    /\ MaxConnections \in Nat /\ MaxFds \in Nat /\ MaxConnections <= MaxFds
    /\ MaxReloads \in Nat /\ MaxOrphans \in Nat

VARIABLES
    client,       \* what the server has of each client, see Stages
    listener,     \* "up", "dead" (its coroutine ended) or "closed"
    manager,      \* the coroutine manager: "waiting" or "woken"
    subscribes,   \* handlers that are told of a reload, in their order
    pool,         \* the source that was put into the pool (of one stream)
    orphans,      \* sources before it, which were neither pooled nor freed
    signals,      \* of {"reload", "fast_quit", "gracefully_quit"}
    main,         \* where the main coroutine is
    reload,       \* the notification of the subscribers that is under way
    reloads,      \* reloads so far
    unheard,      \* history: subscribers that stayed and were not told once
    churned,      \* history: someone came or left while a handler blocked
    ub            \* undefined behaviour met, or a failed assertion

connVars == <<client, manager, subscribes, pool, orphans>>
reloadVars == <<reload, reloads, unheard, churned>>
vars == <<connVars, listener, signals, main, reloadVars, ub>>

(* "away"; in conns: "starting" (start() failed and nobody removes it),       *)
(* "served" or "creating" (makes a source and holds the lock of the source       *)
(* manager); "over", handed to the manager; "refused", for the limit.          *)
InConns == {"starting", "served", "creating"}
conns == {c \in Clients : client[c] \in InConns}
fds == {c \in Clients : client[c] # "away"}

(* Who subscribes: each RTMP connection and the hub of each source, by the      *)
(* number of sources made before it.                                         *)
Handler(kind, c) == [kind |-> kind, of |-> c]
Alive(s) == IF s.kind = "conn" THEN client[s.of] \in InConns \union {"over"} ELSE TRUE

NoReload == [i |-> 0, told |-> <<>>, stayed |-> {}, dangling |-> FALSE]

Init ==
    /\ client = [c \in Clients |-> "away"]
    /\ listener = "up" /\ manager = "waiting"
    /\ subscribes = <<>>
    /\ pool = {} /\ orphans = 0
    /\ signals = {} /\ main = "running"
    /\ reload = NoReload /\ reloads = 0
    /\ unheard = {} /\ churned = FALSE
    /\ ub = "none"

Running == ub = "none" /\ main # "exited"
-----------------------------------------------------------------------------
(* SrsConfig::subscribe and unsubscribe.  An append may move the vector        *)
(* (realloc), and a notification that is under way then holds an iterator into   *)
(* freed memory; after a removal its iterator is the same place in the vector.  *)
Iterating == reload.i > 0

Subscribed(s, realloc) ==
    /\ subscribes' = Append(subscribes, s)
    /\ reload' = [reload EXCEPT !.dangling = @ \/ (Iterating /\ realloc)]
    /\ churned' = (churned \/ Iterating)

(* Mutant: the destructor of a connection does not unsubscribe. *)
NotUnsubscribed(S) == UNCHANGED <<subscribes, reload, churned>>

(* The members of s that are not in S, in their order.                         *)
Without(s, S) ==
    LET left == {j \in 1 .. Len(s) : s[j] \notin S}
        Place(j) == Cardinality({i \in left : i <= j})
    IN  [k \in 1 .. Cardinality(left) |-> s[CHOOSE j \in left : Place(j) = k]]

Unsubscribed(S) ==
    /\ subscribes' = Without(subscribes, S)
    /\ reload' = [reload EXCEPT !.stayed = @ \ S]
    /\ churned' = (churned \/ (Iterating /\ S # {}))
-----------------------------------------------------------------------------
Exceeds == Cardinality(conns) >= MaxConnections

(* The one that comes next: clients are told apart by nothing but their name.   *)
Newcomer == CHOOSE c \in Clients : client[c] = "away"

(* accept_client.  A client over the limit is dropped without being closed; a   *)
(* connection that cannot start stays in conns (bound: one of them).           *)
Accept(starts, realloc) ==
    /\ Running
    /\ listener = "up"
    /\ fds # Clients /\ Cardinality(fds) < MaxFds
    /\ starts \/ \A c \in Clients : client[c] # "starting"
    /\ IF Exceeds
       THEN /\ client' = [client EXCEPT ![Newcomer] = "refused"]
            /\ UNCHANGED <<subscribes, reload, churned>>
       ELSE /\ client' = [client EXCEPT ![Newcomer] = IF starts THEN "served" ELSE "starting"]
            /\ Subscribed(Handler("conn", Newcomer), realloc)
    /\ UNCHANGED <<listener, manager, pool, orphans, signals, main, reloads, unheard, ub>>

(* accept() fails for want of a descriptor: the listener's coroutine ends.     *)
AcceptFails ==
    /\ Running
    /\ listener = "up"
    /\ Cardinality(fds) = MaxFds
    /\ listener' = "dead"
    /\ UNCHANGED <<connVars, signals, main, reloadVars, ub>>

LockIsFree == \A c \in Clients : client[c] # "creating"

(* fetch_or_create, when the source of the stream is not in the pool: it is made, *)
(* and its hub subscribes, while the lock is held.                            *)
Fetch(c, realloc) ==
    /\ Running
    /\ client[c] = "served"
    /\ LockIsFree
    /\ pool = {}
    /\ orphans < MaxOrphans
    /\ client' = [client EXCEPT ![c] = "creating"]
    /\ Subscribed(Handler("hub", orphans), realloc)
    /\ UNCHANGED <<listener, manager, pool, orphans, signals, main, reloads, unheard, ub>>

Created(c) ==
    /\ Running
    /\ client[c] = "creating"
    /\ pool' = pool \union {orphans}
    /\ ub' = IF pool = {} THEN ub ELSE "two sources"
    /\ client' = [client EXCEPT ![c] = "served"]
    /\ UNCHANGED <<manager, subscribes, orphans, listener, signals, main, reloadVars>>

(* Mutant: remove() does not signal. *)
NoSignal == UNCHANGED manager

Signalled == manager' = "woken"

(* The connection's cycle ends: SrsServer::remove, SrsCoroutineManager::remove. *)
ConnEnds(c) ==
    /\ Running
    /\ client[c] = "served"
    /\ client' = [client EXCEPT ![c] = "over"]
    /\ Signalled
    /\ UNCHANGED <<subscribes, pool, orphans, listener, signals, main, reloadVars, ub>>

(* initialize() fails: the source stays subscribed, nobody holds it, and the      *)
(* error ends the connection.                                                *)
CreateFails(c) ==
    /\ Running
    /\ client[c] = "creating"
    /\ client' = [client EXCEPT ![c] = "over"]
    /\ orphans' = orphans + 1
    /\ Signalled
    /\ UNCHANGED <<subscribes, pool, listener, signals, main, reloadVars, ub>>

(* cond_wait returned: clear() frees what was removed, and the sockets with it. *)
ManagerClears ==
    /\ Running
    /\ manager = "woken"
    /\ manager' = "waiting"
    /\ LET over == {c \in Clients : client[c] = "over"}
       IN  /\ client' = [c \in Clients |-> IF c \in over THEN "away" ELSE client[c]]
           /\ Unsubscribed({Handler("conn", c) : c \in over})
    /\ UNCHANGED <<listener, pool, orphans, signals, main, reloads, unheard, ub>>
-----------------------------------------------------------------------------
(* sig_catcher, the pipe, on_signal: a quit is taken once.                     *)
Signal(s) ==
    /\ Running
    /\ s \notin signals
    /\ s = "reload" => reloads < MaxReloads
    /\ signals' = signals \union {s}
    /\ UNCHANGED <<connVars, listener, main, reloadVars, ub>>

Quits == {"fast_quit", "gracefully_quit"}

(* The configuration does not parse, or is refused, or the reload of listen     *)
(* starts the coroutine manager again: do_cycle ends with the error and the      *)
(* server exits as it is.                                                    *)
ReloadFails ==
    /\ Running
    /\ main = "running" /\ ~Iterating
    /\ "reload" \in signals /\ signals \intersect Quits = {}
    /\ signals' = signals \ {"reload"}
    /\ main' = "exited"
    /\ UNCHANGED <<connVars, listener, reloadVars, ub>>

(* The places whose handler may block: a source that is published waits there     *)
(* for the coroutines of its services.                                       *)
Blocking == {j \in 1 .. Len(subscribes) : subscribes[j].kind = "hub" /\ subscribes[j].of \in pool}

(* All have been called: whoever stayed should have been told once.            *)
CallRest(from, told, stayed) ==
    LET called == SubSeq(subscribes, from + 1, Len(subscribes))
        all == told \o called
        Times(s) == Cardinality({j \in 1 .. Len(all) : all[j] = s})
    IN  /\ ub' = IF \E j \in 1 .. Len(called) : ~Alive(called[j]) THEN "freed handler" ELSE ub
        /\ unheard' = unheard \union {s \in stayed : Times(s) # 1}
        /\ reload' = NoReload

ReloadBegins(blocks) ==
    /\ Running
    /\ main = "running" /\ ~Iterating
    /\ "reload" \in signals /\ signals \intersect Quits = {}
    /\ signals' = signals \ {"reload"}
    /\ reloads' = reloads + 1
    /\ IF blocks /\ Blocking # {}
       THEN LET k == CHOOSE j \in Blocking : TRUE
                called == SubSeq(subscribes, 1, k)
            IN  /\ ub' = IF \E j \in 1 .. k : ~Alive(called[j]) THEN "freed handler" ELSE ub
                /\ reload' = [i |-> k, told |-> called, stayed |-> ToSet(subscribes), dangling |-> FALSE]
                /\ UNCHANGED unheard
       ELSE CallRest(0, <<>>, ToSet(subscribes))
    /\ UNCHANGED <<connVars, listener, main, churned>>

(* The handler that blocked returns, and the loop goes on behind its iterator,   *)
(* which may be beyond the end by now.                                        *)
ReloadGoesOn ==
    /\ Running
    /\ Iterating
    /\ IF reload.dangling \/ reload.i > Len(subscribes)
       THEN ub' = "iterator" /\ UNCHANGED <<reload, unheard>>
       ELSE CallRest(reload.i, reload.told, reload.stayed)
    /\ UNCHANGED <<connVars, listener, signals, main, reloads, churned>>

HandlerFails ==
    /\ Running
    /\ Iterating
    /\ main' = "exited" /\ reload' = NoReload
    /\ UNCHANGED <<connVars, listener, signals, reloads, unheard, churned, ub>>
-----------------------------------------------------------------------------
(* The main coroutine leaves its loop.                                       *)
Goes(from, to) == Running /\ main = from /\ ~Iterating /\ main' = to

QuitBegins ==
    /\ signals \intersect Quits # {}
    /\ Goes("running", IF "fast_quit" \in signals THEN "disposing" ELSE "start_wait")
    /\ listener' = IF "fast_quit" \in signals THEN "closed" ELSE listener
    /\ UNCHANGED <<connVars, signals, reloadVars, ub>>

(* dispose: ingesters get 100 ms, the sources are disposed, and a graceful quit  *)
(* that was asked for as well follows.                                       *)
Disposed ==
    /\ Goes("disposing", IF "gracefully_quit" \in signals THEN "start_wait" ELSE "exited")
    /\ UNCHANGED <<connVars, listener, signals, reloadVars, ub>>

(* gracefully_dispose: a pause, then the listeners close and the ingesters stop. *)
StopsListening ==
    /\ Goes("start_wait", "waiting")
    /\ listener' = "closed"
    /\ UNCHANGED <<connVars, signals, reloadVars, ub>>

(* Mutant: the server does not wait for its connections. *)
NoWait == TRUE

(* Mutant: while it waits it does not look at a fast quit. *)
OnlyWhenEmpty == conns = {}

NobodyLeft == conns = {} \/ "fast_quit" \in signals

GracefullyDisposed ==
    /\ NobodyLeft
    /\ Goes("waiting", "exited")
    /\ UNCHANGED <<connVars, listener, signals, reloadVars, ub>>
-----------------------------------------------------------------------------
Quitting == QuitBegins \/ Disposed \/ StopsListening \/ GracefullyDisposed

Next ==
    \/ \E c \in Clients :
          \/ \E b \in BOOLEAN : Fetch(c, b)
          \/ Created(c) \/ CreateFails(c) \/ ConnEnds(c)
    \/ \E starts, realloc \in BOOLEAN : Accept(starts, realloc)
    \/ AcceptFails \/ ManagerClears
    \/ \E s \in {"reload"} \union Quits : Signal(s)
    \/ \E b \in BOOLEAN : ReloadBegins(b)
    \/ ReloadFails \/ ReloadGoesOn \/ HandlerFails
    \/ Quitting

Spec == Init /\ [][Next]_vars

(* Timers of the main coroutine fire, forwarders and processes that a handler    *)
(* waits for end, and a manager that was woken runs.  No client has to leave.    *)
FairSpec ==
    /\ Spec
    /\ WF_vars(ManagerClears)
    /\ WF_vars(ReloadGoesOn)
    /\ WF_vars(Quitting)
-----------------------------------------------------------------------------
(* What a reload may count on: every handler that was subscribed when a          *)
(* notification began and still is when it ends was told once, none was freed     *)
(* when it was called and the iterator stayed inside the vector, unless a         *)
(* connection came or left, or a source was made, while a handler blocked.  And   *)
(* whichever connections ask for a stream at once, it has one source.           *)
ReloadReachesAll ==
    /\ unheard # {} \/ ub # "none" => churned
    /\ ub \in {"none", "iterator"}

(* No more than max_connections are served, and an open socket that is not       *)
(* served is about to be closed, because the wakeup of the manager is never lost:  *)
(* except that of a client over the limit, which is dropped and never closed.    *)
SocketsAccounted ==
    /\ Cardinality(conns) <= MaxConnections
    /\ \A c \in fds \ conns : manager = "woken" \/ client[c] = "refused"

(* A graceful quit loses nobody: the server leaves while connections are served   *)
(* only if it is told to quit fast or a reload failed.  Nobody is accepted once it  *)
(* waits for the last ones.                                                   *)
QuitLosesNobody ==
    [][/\ main = "waiting" /\ main' = "exited" => conns = {} \/ "fast_quit" \in signals
       /\ main = "waiting" => conns' \subseteq conns]_vars

(* The server quits: fast at any time, also from the middle of a reload or of a    *)
(* graceful quit, and gracefully when its last connection has left.             *)
ServerQuits ==
    /\ "fast_quit" \in signals ~> main = "exited" \/ ub # "none"
    /\ "gracefully_quit" \in signals /\ conns = {} ~> main = "exited" \/ conns # {} \/ ub # "none"
=============================================================================

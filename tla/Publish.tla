------------------------------ MODULE Publish ------------------------------
(***************************************************************************)
(* Publishing a stream to an origin: the connections that want to publish  *)
(* it (SrsRtmpConn::publishing), the receive coroutine of each             *)
(* (SrsPublishRecvThread), and the part of SrsSource and SrsOriginHub that *)
(* decides who publishes.                                                  *)
(*                                                                         *)
(* Coroutines are cooperative.  A step is what one of them does between    *)
(* two blocking calls: the HTTP hooks, the receive coroutine's reads, the  *)
(* connection's wait for the receive coroutine, its join, and the joins    *)
(* that SrsOriginHub::on_unpublish does when it stops its services.        *)
(***************************************************************************)
CONSTANTS Conns, NoConn

ASSUME NoConnAssumption == NoConn \notin Conns

VARIABLES
    can_publish,   \* SrsSource::_can_publish
    source_id,     \* SrsSource::_source_id, NoConn for -1
    is_active,     \* SrsOriginHub::is_active
    heard,         \* history: whose message the hub was given last
    pc,            \* where each connection is
    recv,          \* its receive coroutine
    recv_error,    \* SrsPublishRecvThread::recv_error is set
    fresh,         \* rtrd->nb_msgs() > nb_msgs: messages since the last wakeup
    kicked         \* trd->pull() of the connection fails

vars == <<can_publish, source_id, is_active, heard, pc, recv, recv_error,
          fresh, kicked>>
source == <<can_publish, source_id, is_active, heard>>

(* idle: not publishing; asking: in the on_publish hook; waiting: in         *)
(* rtrd->wait(); joining: in rtrd.stop(); closing: in hub->on_unpublish();   *)
(* telling: in the on_unpublish hook.                                        *)
PCs == {"idle", "asking", "waiting", "joining", "closing", "telling"}
Holding == {"waiting", "joining", "closing"}

Init ==
    /\ can_publish = TRUE
    /\ source_id = NoConn
    /\ is_active = FALSE
    /\ heard = NoConn
    /\ pc = [c \in Conns |-> "idle"]
    /\ recv = [c \in Conns |-> "none"]
    /\ recv_error = [c \in Conns |-> FALSE]
    /\ fresh = [c \in Conns |-> FALSE]
    /\ kicked = [c \in Conns |-> FALSE]

Goto(c, l) == pc' = [pc EXCEPT ![c] = l]
-----------------------------------------------------------------------------
(* A client has asked to publish and passed the checks that come before.     *)
Ask(c) ==
    /\ pc[c] = "idle"
    /\ Goto(c, "asking")
    /\ kicked' = [kicked EXCEPT ![c] = FALSE]
    /\ UNCHANGED <<source, recv, recv_error, fresh>>

(* The on_publish hook refuses the client: nothing was acquired.             *)
HookRefuses(c) ==
    /\ pc[c] = "asking"
    /\ Goto(c, "idle")
    /\ UNCHANGED <<source, recv, recv_error, fresh, kicked>>

(* acquire_publish finds the stream busy: it is not released.                *)
Busy(c) ==
    /\ pc[c] = "asking"
    /\ ~can_publish
    /\ Goto(c, "telling")
    /\ UNCHANGED <<source, recv, recv_error, fresh, kicked>>

(* Mutant: the stream is taken without looking whether it is. *)
Uncontested == TRUE

CanPublish == can_publish

Take(c) ==
    /\ pc[c] = "asking"
    /\ CanPublish
    /\ can_publish' = FALSE
    /\ source_id' = c
    /\ heard' = NoConn

(* SrsSource::on_publish succeeds: the services are up, and the receive      *)
(* coroutine, with its counters, is new.                                     *)
Acquire(c) ==
    /\ Take(c)
    /\ is_active' = TRUE
    /\ Goto(c, "waiting")
    /\ recv' = [recv EXCEPT ![c] = "reading"]
    /\ recv_error' = [recv_error EXCEPT ![c] = FALSE]
    /\ fresh' = [fresh EXCEPT ![c] = FALSE]
    /\ UNCHANGED kicked

(* A service of the hub fails to start, or the receive coroutine cannot be    *)
(* created.  The state has changed and there is nothing to join:              *)
(* release_publish follows at once.                                           *)
AcquireFails(c) ==
    /\ Take(c)
    /\ is_active' = FALSE
    /\ Goto(c, "closing")
    /\ UNCHANGED <<recv, recv_error, fresh, kicked>>
-----------------------------------------------------------------------------
(* The receive coroutine reads a message and hands it to the source.  When   *)
(* stop() has interrupted it, it may still deliver what it was reading.      *)
Deliver(c) ==
    /\ recv[c] \in {"reading", "stopping"}
    /\ heard' = c
    /\ recv' = [recv EXCEPT ![c] = IF recv[c] = "stopping" THEN "ended" ELSE "reading"]
    /\ fresh' = [fresh EXCEPT ![c] = TRUE]
    /\ UNCHANGED <<can_publish, source_id, is_active, pc, recv_error, kicked>>

(* The read fails, the source refuses the message, or the client unpublishes *)
(* (ERROR_CONTROL_REPUBLISH, after the answer was sent): the error is kept   *)
(* for the connection, which is signalled.                                   *)
RecvEnds(c) ==
    /\ recv[c] \in {"reading", "stopping"}
    /\ recv' = [recv EXCEPT ![c] = "ended"]
    /\ recv_error' = [recv_error EXCEPT ![c] = TRUE]
    /\ fresh' \in {fresh, [fresh EXCEPT ![c] = TRUE]}
    /\ UNCHANGED <<source, pc, kicked>>

(* SrsConnection::expire, from the HTTP API.  A kick that finds the           *)
(* connection in a join ends the process: see Coroutine.                      *)
Kick(c) ==
    /\ pc[c] \in {"asking", "waiting", "telling"}
    /\ ~kicked[c]
    /\ kicked' = [kicked EXCEPT ![c] = TRUE]
    /\ UNCHANGED <<source, pc, recv, recv_error, fresh>>
-----------------------------------------------------------------------------
(* The connection wakes, signalled or not: the wait also times out.          *)
LeavesOnError(c) == kicked[c] \/ recv_error[c]   \* mutant: no timeout

Leaves(c) == kicked[c] \/ recv_error[c] \/ ~fresh[c]

WakeAndWait(c) ==
    /\ pc[c] = "waiting"
    /\ ~Leaves(c)
    /\ fresh' = [fresh EXCEPT ![c] = FALSE]
    /\ UNCHANGED <<source, pc, recv, recv_error, kicked>>

(* Mutant: the receive coroutine is left running. *)
NoStop(c) == recv

(* rtrd.stop() interrupts the receive coroutine ...                          *)
StopRecv(c) ==
    [recv EXCEPT ![c] = IF recv[c] = "reading" THEN "stopping" ELSE recv[c]]

WakeAndLeave(c) ==
    /\ pc[c] = "waiting"
    /\ Leaves(c)
    /\ Goto(c, "joining")
    /\ recv' = StopRecv(c)
    /\ UNCHANGED <<source, recv_error, fresh, kicked>>

(* Mutant: the stream is given back before the services are stopped. *)
ReleaseGivesBack(c) ==
    /\ pc[c] = "joining"
    /\ recv[c] = "ended"
    /\ can_publish' = TRUE
    /\ source_id' = NoConn
    /\ is_active' = FALSE
    /\ recv' = [recv EXCEPT ![c] = "none"]
    /\ Goto(c, "closing")
    /\ UNCHANGED <<heard, recv_error, fresh, kicked>>

(* ... and waits for its end.  release_publish enters hub->on_unpublish,     *)
(* which first marks the hub inactive and then stops its services.           *)
Release(c) ==
    /\ pc[c] = "joining"
    /\ recv[c] = "ended"
    /\ is_active' = FALSE
    /\ recv' = [recv EXCEPT ![c] = "none"]
    /\ Goto(c, "closing")
    /\ UNCHANGED <<can_publish, source_id, heard, recv_error, fresh, kicked>>

GiveBack ==
    /\ can_publish' = TRUE
    /\ source_id' = NoConn

(* The services are down: the stream can be published again.                 *)
Released(c) ==
    /\ pc[c] = "closing"
    /\ GiveBack
    /\ Goto(c, "telling")
    /\ UNCHANGED <<is_active, heard, recv, recv_error, fresh, kicked>>

(* The on_unpublish hook returns.  The connection ends, or serves its next   *)
(* request: after an unpublish it is kept for the client to republish.       *)
Told(c) ==
    /\ pc[c] = "telling"
    /\ Goto(c, "idle")
    /\ UNCHANGED <<source, recv, recv_error, fresh, kicked>>

Serve(c) ==
    \/ HookRefuses(c) \/ Busy(c) \/ Acquire(c) \/ AcquireFails(c)
    \/ WakeAndWait(c) \/ WakeAndLeave(c) \/ Release(c) \/ Released(c) \/ Told(c)

Next == \E c \in Conns : Ask(c) \/ Serve(c) \/ Deliver(c) \/ RecvEnds(c) \/ Kick(c)

(* Hooks and joins return, waits time out, and an interrupted coroutine      *)
(* runs.  No client is obliged to send anything, or to come at all.          *)
Fairness ==
    \A c \in Conns :
        /\ WF_vars(Serve(c))
        /\ WF_vars(recv[c] = "stopping" /\ (Deliver(c) \/ RecvEnds(c)))

Spec == Init /\ [][Next]_vars /\ Fairness
-----------------------------------------------------------------------------
TypeOK ==
    /\ can_publish \in BOOLEAN
    /\ source_id \in Conns \cup {NoConn}
    /\ is_active \in BOOLEAN
    /\ heard \in Conns \cup {NoConn}
    /\ pc \in [Conns -> PCs]
    /\ recv \in [Conns -> {"none", "reading", "stopping", "ended"}]
    /\ recv_error \in [Conns -> BOOLEAN]
    /\ fresh \in [Conns -> BOOLEAN]
    /\ kicked \in [Conns -> BOOLEAN]

(* The decision to take the stream and the taking are not separated by any    *)
(* blocking call, so two connections never hold it, and the flag says so.     *)
OnePublisher ==
    /\ \A c, d \in Conns : pc[c] \in Holding /\ pc[d] \in Holding => c = d
    /\ can_publish <=> \A c \in Conns : pc[c] \notin Holding

(* No message reaches the hub's services before they are up or after they     *)
(* were told to stop, and none of another connection than the publisher.      *)
MessagesInSession ==
    \A c \in Conns : recv[c] \in {"reading", "stopping"} => is_active /\ source_id = c

(* Seen from outside: one session at a time, its messages inside it.          *)
Session == INSTANCE PublishSession WITH owner <- source_id, live <- is_active

SessionSpec == Session!Spec

(* A publisher keeps sending or loses the stream (publish_1stpkt_timeout,     *)
(* publish_normal_timeout), however it stopped.                               *)
SilentPublisherLeaves == \A c \in Conns : []<>(fresh[c] \/ source_id # c)

(* Once a publisher has left its loop the stream becomes free again.          *)
StreamIsFreed == \A c \in Conns : pc[c] = "joining" ~> source_id # c
=============================================================================

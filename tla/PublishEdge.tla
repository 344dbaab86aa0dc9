----------------------------- MODULE PublishEdge -----------------------------
(***************************************************************************)
(* The publish side of an edge: what a client publishes is queued by its    *)
(* receiving coroutine and sent to an origin by a forwarder (SrsPublishEdge *)
(* and SrsEdgeForwarder, with SrsRtmpConn::publishing and                   *)
(* SrsPublishRecvThread on an edge).                                        *)
(*                                                                         *)
(* Coroutines run until they block: every action is what one of them does   *)
(* from the end of one blocking call to the beginning of the next.          *)
(***************************************************************************)
EXTENDS Integers, Sequences

CONSTANTS
    Clients,
    MaxSend,     \* SYS_MAX_EDGE_SEND_MSGS
    MaxMsgs      \* bound: messages of a publish that are forwarded

ASSUME PublishEdgeAssumption == MaxSend \in Nat \ {0} /\ MaxMsgs \in Nat

VARIABLES
    state,           \* SrsEdgeState of the publish edge
    pc,              \* where the connection of each client is
    recv,            \* its receiving coroutine
    recv_error,      \* and the error that one reported
    fresh,           \* messages came since the connection looked last
    send_error_code, \* an error code is set
    sdk,             \* the upstream; "left" is one whose publish failed
    fwd,             \* where the forwarder coroutine is
    stopped,         \* stop() interrupted it
    queue,           \* messages for the origin
    batch,           \* those being sent
    origin,          \* history: what the origin got in this publish
    sent,            \* history: number of messages forwarded in this publish
    lost             \* history: the queue overflowed

connection == <<pc, recv, recv_error, fresh>>
forwarder == <<send_error_code, sdk, fwd, stopped>>
messages == <<queue, batch, origin, sent, lost>>
vars == <<state, connection, forwarder, messages>>

Publishing == {"publishing", "joining", "releasing"}
Kinds == {"frame", "vsh", "ash"}

Init ==
    /\ state = "Init"
    /\ pc = [c \in Clients |-> "out"]
    /\ recv = [c \in Clients |-> "ended"]
    /\ recv_error = [c \in Clients |-> FALSE]
    /\ fresh = [c \in Clients |-> FALSE]
    /\ send_error_code = FALSE
    /\ sdk = "none"
    /\ fwd = "ended" /\ stopped = FALSE
    /\ queue = <<>> /\ batch = <<>>
    /\ origin = <<>> /\ sent = 0 /\ lost = FALSE
-----------------------------------------------------------------------------
(* Mutant: the state changes when the forwarder has started. *)
LateState == state

(* on_client_publish changes the state before anything blocks.               *)
Entered == "Publish"

(* acquire_publish: a busy stream is refused, and nothing is released; else   *)
(* the forwarder begins to connect.                                          *)
Acquire(c) ==
    /\ pc[c] = "out"
    /\ state = "Init"
    /\ state' = Entered
    /\ pc' = [pc EXCEPT ![c] = "starting"]
    /\ send_error_code' = FALSE
    /\ sdk' = "connecting"
    /\ UNCHANGED <<recv, recv_error, fresh, fwd, stopped, messages>>

(* The origin refused, or the connection was interrupted: the state is Init    *)
(* again when the connection releases the publish, so nothing is stopped.     *)
StartFails(c) ==
    /\ pc[c] = "starting"
    /\ state' = "Init"
    /\ pc' = [pc EXCEPT ![c] = "out"]
    /\ sdk' \in {"none", "left"}
    /\ UNCHANGED <<recv, recv_error, fresh, send_error_code, fwd, stopped, messages>>

(* Both coroutines are created: the forwarder, and the receiver of the client.*)
Started(c) ==
    /\ pc[c] = "starting"
    /\ state' = "Publish"
    /\ pc' = [pc EXCEPT ![c] = "publishing"]
    /\ recv' = [recv EXCEPT ![c] = "receiving"]
    /\ recv_error' = [recv_error EXCEPT ![c] = FALSE]
    /\ fresh' = [fresh EXCEPT ![c] = FALSE]
    /\ sdk' = "publishing"
    /\ fwd' = "new" /\ stopped' = FALSE
    /\ origin' = <<>> /\ sent' = 0 /\ lost' = FALSE
    /\ UNCHANGED <<send_error_code, queue, batch>>
-----------------------------------------------------------------------------
(* The receiving coroutine: consume, handle_publish_message and proxy.        *)
Last(q, kind) ==
    LET last == {i \in 1 .. Len(q) :
                    q[i].kind = kind /\ \A j \in i + 1 .. Len(q) : q[j].kind # kind}
    IN  IF last = {} THEN <<>> ELSE <<q[CHOOSE i \in last : TRUE]>>

(* SrsMessageQueue::shrink, as in Player.                                     *)
Shrunk(q) == Last(q, "vsh") \o Last(q, "ash")

Got(c) ==
    /\ recv[c] = "receiving"
    /\ fresh' = [fresh EXCEPT ![c] = TRUE]

Accepts == ~send_error_code

(* A message for the origin is queued; the queue may overflow, which depends  *)
(* on the times the client gives to its messages.                             *)
Proxy(c, kind) ==
    LET m == [by |-> c, n |-> sent + 1, kind |-> kind]
    IN  /\ Got(c)
        /\ ~send_error_code
        /\ sent < MaxMsgs
        /\ sent' = sent + 1
        /\ \/ queue' = Append(queue, m) /\ UNCHANGED lost
           \/ sent > 0 /\ queue' = Shrunk(Append(queue, m)) /\ lost' = TRUE
        /\ UNCHANGED <<state, pc, recv, recv_error, forwarder, batch, origin>>

(* A message that concerns the connection to the edge only, or an empty one.  *)
ProxyIgnored(c) ==
    /\ Got(c)
    /\ Accepts
    /\ UNCHANGED <<state, pc, recv, recv_error, forwarder, messages>>

RecvEnds(c) ==
    /\ recv[c] = "receiving"
    /\ recv' = [recv EXCEPT ![c] = "ended"]
    /\ recv_error' = [recv_error EXCEPT ![c] = TRUE]

(* proxy refuses a message once the upstream failed: consume returns an error.*)
ProxyFails(c) ==
    /\ send_error_code
    /\ RecvEnds(c)
    /\ fresh' = [fresh EXCEPT ![c] = TRUE]
    /\ UNCHANGED <<state, pc, forwarder, messages>>

(* The client unpublished or went away, or stop() interrupted the receive.    *)
ReceiveFails(c) ==
    /\ RecvEnds(c)
    /\ UNCHANGED <<state, pc, fresh, forwarder, messages>>
-----------------------------------------------------------------------------
(* The connection: do_publishing looks when it is signalled or timed out.     *)
Quit(c) ==
    /\ pc[c] = "publishing"
    /\ pc' = [pc EXCEPT ![c] = "joining"]
    /\ UNCHANGED <<state, recv, recv_error, fresh, forwarder, messages>>

Over(c) == recv_error[c] \/ ~fresh[c]

Leave(c) == Over(c) /\ Quit(c)

Stay(c) ==
    /\ pc[c] = "publishing"
    /\ ~Over(c)
    /\ fresh' = [fresh EXCEPT ![c] = FALSE]
    /\ UNCHANGED <<state, pc, recv, recv_error, forwarder, messages>>

(* The receiver is joined; release_publish stops the forwarder.               *)
Release(c) ==
    /\ pc[c] = "joining"
    /\ recv[c] = "ended"
    /\ pc' = [pc EXCEPT ![c] = "releasing"]
    /\ stopped' = TRUE
    /\ UNCHANGED <<state, recv, recv_error, fresh, send_error_code, sdk, fwd, messages>>

JoinReturns == fwd = "ended"

(* Mutant: the queue is left for the next publish. *)
KeepQueue == queue

ClearQueue == <<>>

(* SrsEdgeForwarder::stop after the join, and on_proxy_unpublish.             *)
Released(c) ==
    /\ pc[c] = "releasing"
    /\ JoinReturns
    /\ queue' = ClearQueue
    /\ sdk' = "none"
    /\ state' = "Init"
    /\ pc' = [pc EXCEPT ![c] = "out"]
    /\ UNCHANGED <<recv, recv_error, fresh, send_error_code, fwd, stopped,
                   batch, origin, sent, lost>>
-----------------------------------------------------------------------------
(* The forwarder coroutine: do_cycle.                                         *)

(* Mutant: a forwarder that lost its upstream sleeps before it looks. *)
SleepsFirst(error) == IF error THEN "sleep" ELSE IF stopped THEN "ended" ELSE "recv"

(* pull() is first in the loop, then the error of the upstream.               *)
Again(error) == IF stopped THEN "ended" ELSE IF error THEN "sleep" ELSE "recv"

ForwarderOnly == UNCHANGED <<state, connection, sdk, stopped>>

ForwarderRuns ==
    /\ fwd \in {"new", "sleep"}
    /\ fwd' = Again(send_error_code)
    /\ ForwarderOnly
    /\ UNCHANGED <<send_error_code, messages>>

UpstreamFails ==
    /\ fwd = "recv"
    /\ send_error_code' = TRUE
    /\ fwd' = Again(TRUE)
    /\ ForwarderOnly
    /\ UNCHANGED messages

(* Mutant: the last message is left in the queue. *)
CountAllButOne(q) ==
    IF MaxSend < Len(q) THEN MaxSend ELSE IF q = <<>> THEN 0 ELSE Len(q) - 1

Count(q) == IF MaxSend < Len(q) THEN MaxSend ELSE Len(q)

(* A message of the origin, which is dropped, or a timeout.                   *)
Forward ==
    /\ fwd = "recv"
    /\ LET count == Count(queue)
       IN  IF count = 0
           THEN fwd' = Again(FALSE) /\ UNCHANGED <<queue, batch>>
           ELSE /\ fwd' = "send"
                /\ batch' = SubSeq(queue, 1, count)
                /\ queue' = SubSeq(queue, count + 1, Len(queue))
    /\ ForwarderOnly
    /\ UNCHANGED <<send_error_code, origin, sent, lost>>

Sent ==
    /\ fwd = "send"
    /\ origin' = origin \o batch
    /\ batch' = <<>>
    /\ fwd' = Again(FALSE)
    /\ ForwarderOnly
    /\ UNCHANGED <<send_error_code, queue, sent, lost>>

(* The coroutine ends, and nobody is told.                                    *)
SendFails ==
    /\ fwd = "send"
    /\ batch' = <<>>
    /\ fwd' = "ended"
    /\ ForwarderOnly
    /\ UNCHANGED <<send_error_code, queue, origin, sent, lost>>

Forwarder == ForwarderRuns \/ UpstreamFails \/ Forward \/ Sent \/ SendFails

Connection(c) ==
    StartFails(c) \/ Started(c) \/ Leave(c) \/ Stay(c) \/ Release(c) \/ Released(c)

Next ==
    \/ \E c \in Clients :
        \/ Acquire(c) \/ Connection(c) \/ Quit(c)
        \/ \E kind \in Kinds : Proxy(c, kind)
        \/ ProxyIgnored(c) \/ ProxyFails(c) \/ ReceiveFails(c)
    \/ Forwarder

(* Connects, receives and sends of the upstream, and the waits of the         *)
(* connection, have timeouts; a receiver that is being stopped is interrupted.*)
(* The upstream need not fail.                                                *)
Fairness ==
    /\ WF_vars(ForwarderRuns \/ Forward \/ Sent \/ SendFails)
    /\ \A c \in Clients :
        /\ WF_vars(Connection(c))
        /\ WF_vars(pc[c] = "joining" /\ ReceiveFails(c))

Spec == Init /\ [][Next]_vars
FairSpec == Spec /\ Fairness
-----------------------------------------------------------------------------
Messages == [by : Clients, n : 1 .. MaxMsgs, kind : Kinds]

TypeOK ==
    /\ state \in {"Init", "Publish"}
    /\ pc \in [Clients -> {"out", "starting"} \cup Publishing]
    /\ recv \in [Clients -> {"receiving", "ended"}]
    /\ recv_error \in [Clients -> BOOLEAN]
    /\ fresh \in [Clients -> BOOLEAN]
    /\ send_error_code \in BOOLEAN
    /\ sdk \in {"none", "left", "connecting", "publishing"}
    /\ fwd \in {"new", "recv", "send", "sleep", "ended"}
    /\ stopped \in BOOLEAN
    /\ queue \in Seq(Messages) /\ batch \in Seq(Messages) /\ origin \in Seq(Messages)
    /\ sent \in 0 .. MaxMsgs
    /\ lost \in BOOLEAN

(* issues/180, "avoid multiple publish the same stream on the same edge": of   *)
(* all connections one at most is past acquire_publish, also while the origin *)
(* is being connected and while the forwarder is being stopped.               *)
OnePublisher ==
    /\ \A c, d \in Clients : pc[c] # "out" /\ pc[d] # "out" => c = d
    /\ state = "Publish" <=> \E c \in Clients : pc[c] # "out"

(* The forwarder and the receiver that fills its queue use an upstream that    *)
(* is open and stays so until both ended.                                     *)
UpstreamIsThere ==
    /\ fwd # "ended" => sdk = "publishing"
    /\ \A c \in Clients :
         recv[c] = "receiving" => sdk = "publishing" /\ pc[c] \in Publishing
    /\ sdk = "publishing" <=> \E c \in Clients : pc[c] \in Publishing

(* Both: the upstream, the forwarder and the stream belong to one client.      *)
OneOwner == OnePublisher /\ UpstreamIsThere

(* What the origin got, is being sent and is queued, in the order of sending.  *)
Stream == origin \o batch \o queue

(* The origin is given the publish of the one client whose connection it is:   *)
(* nothing of another client or an earlier publish, frames in order and once,  *)
(* and everything unless the queue overflowed or the upstream failed.          *)
OriginGetsPublish ==
    \A c \in Clients : pc[c] \in Publishing =>
        /\ \A i \in 1 .. Len(Stream) : Stream[i].by = c /\ Stream[i].n <= sent
        /\ \A i, j \in 1 .. Len(Stream) :
             i < j /\ Stream[i].kind = "frame" /\ Stream[j].kind = "frame" =>
                Stream[i].n < Stream[j].n
        /\ ~lost /\ fwd # "ended" =>
             Len(Stream) = sent /\ \A i \in 1 .. Len(Stream) : Stream[i].n = i

(* A client whose upstream failed does not go on publishing, whatever it sends. *)
FailureEndsPublish ==
    \A c \in Clients : (send_error_code /\ pc[c] = "publishing") ~> pc[c] # "publishing"

(* Queued messages go out although the origin says nothing, as long as there    *)
(* is a forwarder.                                                             *)
QueueIsSent == queue # <<>> ~> queue = <<>> \/ fwd \in {"sleep", "ended"}

(* Whoever leaves gets out, wherever the forwarder blocks, and the stream can    *)
(* be published again.                                                         *)
ReleaseEnds == \A c \in Clients : pc[c] \in {"joining", "releasing"} ~> pc[c] = "out"

(* Both: no publisher is kept by an upstream that failed or by one that blocks. *)
PublishersGetOut == FailureEndsPublish /\ ReleaseEnds
=============================================================================

------------------------------- MODULE Player -------------------------------
(***************************************************************************)
(* An RTMP player: the source enqueues messages to its consumer, one       *)
(* coroutine sends them, another receives the control messages of the      *)
(* client (SrsConsumer with SrsMessageQueue, SrsRtmpConn::do_playing,      *)
(* SrsRecvThread with SrsQueueRecvThread).                                 *)
(*                                                                         *)
(* Coroutines run until they block: while the sending one is at "top" or   *)
(* "control" no other one does anything.                                   *)
(***************************************************************************)
EXTENDS Integers, Sequences

CONSTANTS
    MinMsgs,     \* values of mw_min_msgs: 0 for realtime, SRS_PERF_MW_MIN_MSGS
    MwDuration,  \* mw_sleep
    MaxQueue,    \* max_queue_size
    DumpSizes,   \* messages fetched at once: 1 with send_min_interval
    Times,       \* timestamps messages come with, in any order
    MaxMsgs      \* bound: messages of the source

ASSUME PlayerAssumption ==
    /\ MinMsgs \subseteq Nat
    /\ MwDuration \in Nat
    /\ MaxQueue \in Nat
    /\ DumpSizes \subseteq Nat \ {0}
    /\ Times \subseteq Int \ {-1}    \* microseconds, from milliseconds
    /\ MaxMsgs \in Nat

VARIABLES
    queue, av_start_time, av_end_time,   \* SrsMessageQueue
    mw_waiting, mw_min_msgs, paused,     \* SrsConsumer
    pc,          \* where the sending coroutine is
    expired,     \* expire() interrupted it
    control,     \* messages of the client not processed yet
    recv_error,  \* the receiving coroutine reported an error
    recv,        \* where the receiving coroutine is
    pause,       \* the value paused gets when the client was told
    n, last_vsh, \* number of the last message, and of the last video header
    given,       \* the last message and the last video header the client was sent
    ordered      \* whether times went up since the queue was empty or shrunk

messages == <<queue, av_start_time, av_end_time, n, last_vsh, given, ordered>>
receiver == <<control, recv_error, recv>>
vars == <<queue, av_start_time, av_end_time, mw_waiting, mw_min_msgs, paused,
          pc, expired, control, recv_error, recv, pause, n, last_vsh, given, ordered>>

Kinds == {"frame", "vsh", "ash", "meta"}
Controls == {"close", "pause", "unpause", "call", "other"}

(* The sending coroutine runs at the top of its loop, where pull() is first,   *)
(* and at "control", after it processed a control message; elsewhere it blocks. *)
Blocked == pc \notin {"top", "control"}
Playing == {"top", "control", "replying", "waiting", "signalled", "sleeping", "sending"}

Init ==
    /\ queue = <<>> /\ av_start_time = -1 /\ av_end_time = -1
    /\ mw_waiting = FALSE /\ mw_min_msgs = 0 /\ paused = FALSE
    /\ pc = "top" /\ expired = FALSE
    /\ control = <<>> /\ recv_error = FALSE /\ recv = "receiving"
    /\ pause = FALSE
    /\ n = 0 /\ last_vsh = 0
    /\ given = [n |-> 0, vsh |-> 0]
    /\ ordered = TRUE

IsAv(m) == m.kind # "meta"
duration == av_end_time - av_start_time
-----------------------------------------------------------------------------
(* The last header of a kind that the queue holds, if any.                   *)
IsLast(q, kind, i) == q[i].kind = kind /\ \A j \in i + 1 .. Len(q) : q[j].kind # kind

(* Mutant: the first header of a kind is kept. *)
KeptFirst(q, kind, time) ==
    LET first == {i \in 1 .. Len(q) :
                    q[i].kind = kind /\ \A j \in 1 .. i - 1 : q[j].kind # kind}
    IN  IF first = {} THEN <<>>
        ELSE <<[q[CHOOSE i \in first : TRUE] EXCEPT !.ts = time]>>

Kept(q, kind, time) ==
    LET last == {i \in 1 .. Len(q) : IsLast(q, kind, i)}
    IN  IF last = {} THEN <<>>
        ELSE <<[q[CHOOSE i \in last : TRUE] EXCEPT !.ts = time]>>

(* shrink: nothing but the last headers stays, with the time of the newest.   *)
Shrunk(q, time) == Kept(q, "vsh", time) \o Kept(q, "ash", time)

(* Mutant: a full queue is not noticed. *)
NeverOverflows(start, end) == FALSE

Overflows(start, end) == end - start > MaxQueue

(* Audio and video after all that is queued, and after the start of the queue.  *)
InOrder(m) ==
    IsAv(m) => /\ av_start_time = -1 \/ av_start_time <= m.ts
               /\ \A i \in 1 .. Len(queue) : queue[i].ts <= m.ts

(* SrsMessageQueue::enqueue.                                                 *)
EnqueueMsg(m) ==
    LET start == IF IsAv(m) /\ av_start_time = -1 THEN m.ts ELSE av_start_time
        end   == IF IsAv(m) THEN m.ts ELSE av_end_time
    IN  /\ av_end_time' = end
        /\ IF Overflows(start, end)
           THEN /\ queue' = Shrunk(Append(queue, m), end) /\ av_start_time' = end
                /\ ordered' = TRUE
           ELSE /\ queue' = Append(queue, m) /\ av_start_time' = start
                /\ ordered' = (ordered /\ InOrder(m))

(* srs_cond_signal of mw_wait, which reaches the player if it waits.          *)
Signal ==
    /\ mw_waiting' = FALSE
    /\ pc' = IF pc = "waiting" THEN "signalled" ELSE pc

Wakeup == IF mw_waiting THEN Signal ELSE UNCHANGED <<mw_waiting, pc>>

(* Mutant: the player is woken for one message more than it asked for. *)
EnoughLate(len, dur, min) == len > min + 1 /\ dur > MwDuration

Enough(len, dur, min) == len > min /\ dur > MwDuration

(* SrsConsumer::enqueue, with any time: the jitter takes one back by up to     *)
(* 250 ms, and in the modes zero and off, and with atc, it orders none.       *)
Enqueue(kind, ts, atc) ==
    /\ Blocked /\ pc # "gone"
    /\ n < MaxMsgs
    /\ n' = n + 1
    /\ EnqueueMsg([kind |-> kind, ts |-> ts, n |-> n + 1,
                   vsh |-> IF kind = "vsh" THEN n + 1 ELSE last_vsh])
    /\ last_vsh' = IF kind = "vsh" THEN n + 1 ELSE last_vsh
    /\ LET dur == av_end_time' - av_start_time'
       IN  IF \/ atc /\ dur < 0
              \/ Enough(Len(queue'), dur, mw_min_msgs)
           THEN Wakeup
           ELSE UNCHANGED <<mw_waiting, pc>>
    /\ UNCHANGED <<mw_min_msgs, paused, expired, receiver, pause, given>>
-----------------------------------------------------------------------------
(* The sending coroutine: do_playing.                                        *)
Quit ==
    /\ pc' = "stopping"
    /\ UNCHANGED <<messages, mw_waiting, mw_min_msgs, paused, expired, receiver, pause>>

Expired == pc = "top" /\ expired /\ Quit

Pulled == pc = "control" \/ (pc = "top" /\ ~expired)

(* process_play_control_msg: a close ends playing, a call and a pause are     *)
(* answered.  The send may block, and fails at once when it would and an       *)
(* interrupt is pending.                                                     *)
Answer == IF expired THEN {"control", "stopping"} ELSE {"control", "replying"}

ProcessControl ==
    /\ Pulled
    /\ control # <<>>
    /\ control' = Tail(control)
    /\ LET c == Head(control)
       IN  /\ pc' \in CASE c = "close" -> {"stopping"}
                        [] c = "other" -> {"control"}
                        [] OTHER -> Answer
           /\ pause' = CASE c = "pause" -> TRUE [] c = "unpause" -> FALSE [] OTHER -> paused
    /\ paused' = IF pc' = "control" THEN pause' ELSE paused
    /\ UNCHANGED <<messages, mw_waiting, mw_min_msgs, expired, recv_error, recv>>

Replied ==
    /\ pc = "replying"
    /\ pc' = "control"
    /\ paused' = pause
    /\ UNCHANGED <<messages, mw_waiting, mw_min_msgs, expired, receiver, pause>>

(* A send that blocks fails when the connection breaks or is interrupted.     *)
SendFails == pc \in {"replying", "sending"} /\ Quit

QuitForError ==
    /\ Pulled
    /\ control = <<>>
    /\ recv_error
    /\ Quit

(* SrsMessageQueue::dump_packets.                                            *)
DumpPackets(max) ==
    LET count == IF max < Len(queue) THEN max ELSE Len(queue)
        Last(S) == CHOOSE i \in S : \A j \in S : j <= i
        vshs  == {i \in 1 .. count : queue[i].kind = "vsh"}
    IN  /\ queue' = SubSeq(queue, count + 1, Len(queue))
        /\ av_start_time' = IF count = 0 THEN av_start_time ELSE queue[count].ts
        /\ given' = [n   |-> IF count = 0 THEN given.n ELSE queue[count].n,
                     vsh |-> IF vshs = {} THEN given.vsh ELSE queue[Last(vshs)].n]
        /\ ordered' = (ordered \/ count = Len(queue))
        /\ UNCHANGED <<av_end_time, n, last_vsh>>

(* SrsConsumer::dump_packets and what do_playing does with the count.         *)
Deliver ==
    IF paused \/ queue = <<>>
    THEN pc' = "top" /\ UNCHANGED messages
    ELSE pc' = "sending" /\ \E max \in DumpSizes : DumpPackets(max)

(* SrsConsumer::wait: the player blocks, unless enough messages are there.    *)
Wait(min) ==
    /\ Pulled
    /\ control = <<>> /\ ~recv_error
    /\ mw_min_msgs' = IF paused THEN mw_min_msgs ELSE min
    /\ IF paused
       THEN pc' = "sleeping" /\ UNCHANGED <<messages, mw_waiting>>
       ELSE IF Enough(Len(queue), duration, min)
            THEN Deliver /\ UNCHANGED mw_waiting
            ELSE pc' = "waiting" /\ mw_waiting' = TRUE /\ UNCHANGED messages
    /\ UNCHANGED <<paused, expired, receiver, pause>>

(* Mutant: an interrupt does not end the wait. *)
WokenBySignal == pc = "signalled"

(* An interrupted wait returns with mw_waiting still set.                     *)
Woken == pc = "signalled" \/ (pc = "waiting" /\ expired)

WaitReturns ==
    /\ Woken
    /\ Deliver
    /\ UNCHANGED <<mw_waiting, mw_min_msgs, paused, expired, receiver, pause>>

SleepReturns ==
    /\ pc = "sleeping"
    /\ pc' = "top"
    /\ UNCHANGED <<messages, mw_waiting, mw_min_msgs, paused, expired, receiver, pause>>

Sent ==
    /\ pc = "sending"
    /\ pc' = "top"
    /\ UNCHANGED <<messages, mw_waiting, mw_min_msgs, paused, expired, receiver, pause>>

(* playing() after do_playing: the receiver is stopped and joined, and the    *)
(* consumer destroyed.                                                       *)
Leave ==
    /\ pc = "stopping"
    /\ recv = "ended"
    /\ pc' = "gone"
    /\ UNCHANGED <<messages, mw_waiting, mw_min_msgs, paused, expired, receiver, pause>>

(* expire() of the HTTP API; one that comes when the player already joins its *)
(* receiver is the subject of Coroutine.                                     *)
Expire ==
    /\ Blocked /\ pc \in Playing
    /\ ~expired
    /\ expired' = TRUE
    /\ UNCHANGED <<messages, mw_waiting, mw_min_msgs, paused, pc, receiver, pause>>
-----------------------------------------------------------------------------
(* The receiving coroutine: SrsRecvThread::do_cycle.                         *)
ReceiverOnly == UNCHANGED <<messages, mw_min_msgs, paused, expired, pause>>

(* A message is queued, and the next one is not received before it is taken.  *)
Receive(c) ==
    /\ recv = "receiving"
    /\ Blocked
    /\ control' = Append(control, c)
    /\ Wakeup
    /\ recv' = "sleeping"
    /\ UNCHANGED recv_error
    /\ ReceiverOnly

NotInterrupted == control = <<>>

RecvWakes ==
    /\ recv = "sleeping"
    /\ Blocked /\ pc # "stopping"
    /\ NotInterrupted
    /\ recv' = "receiving"
    /\ UNCHANGED <<pc, mw_waiting, control, recv_error>>
    /\ ReceiverOnly

(* The client is gone, or stop() interrupts the receive.                     *)
ReceiveFails ==
    /\ recv = "receiving"
    /\ Blocked
    /\ recv_error' = TRUE
    /\ Wakeup
    /\ recv' = "ended"
    /\ UNCHANGED control
    /\ ReceiverOnly

SleepStopped ==
    /\ recv = "sleeping"
    /\ pc = "stopping"
    /\ recv' = "ended"
    /\ UNCHANGED <<pc, mw_waiting, control, recv_error>>
    /\ ReceiverOnly

Sender ==
    \/ Expired \/ ProcessControl \/ Replied \/ SendFails \/ QuitForError
    \/ \E min \in MinMsgs : Wait(min)
    \/ WaitReturns \/ SleepReturns \/ Sent \/ Leave

Next ==
    \/ \E kind \in Kinds, ts \in Times, atc \in BOOLEAN : Enqueue(kind, ts, atc)
    \/ Sender \/ Expire
    \/ \E c \in Controls : Receive(c)
    \/ RecvWakes \/ ReceiveFails \/ SleepStopped

(* Sends and pauses have timeouts, a runnable coroutine runs, and a coroutine *)
(* that is being stopped is interrupted.                                     *)
Fairness ==
    /\ WF_vars(Sender)
    /\ WF_vars(pc = "stopping" /\ (ReceiveFails \/ SleepStopped))
    /\ WF_vars(RecvWakes)

Spec == Init /\ [][Next]_vars
FairSpec == Spec /\ Fairness
-----------------------------------------------------------------------------
Messages == [kind : Kinds, ts : Times \cup {-1}, n : 1 .. MaxMsgs, vsh : 0 .. MaxMsgs]

TypeOK ==
    /\ queue \in Seq(Messages)
    /\ {av_start_time, av_end_time} \subseteq Times \cup {-1}
    /\ mw_waiting \in BOOLEAN
    /\ mw_min_msgs \in MinMsgs \cup {0}
    /\ paused \in BOOLEAN /\ pause \in BOOLEAN
    /\ pc \in Playing \cup {"stopping", "gone"}
    /\ expired \in BOOLEAN
    /\ control \in Seq(Controls)
    /\ recv_error \in BOOLEAN
    /\ recv \in {"receiving", "sleeping", "ended"}
    /\ n \in 0 .. MaxMsgs /\ last_vsh \in 0 .. n
    /\ given \in [n : 0 .. MaxMsgs, vsh : 0 .. MaxMsgs]
    /\ ordered \in BOOLEAN

(* No wakeup is lost: a player that waits has not got what it waits for.      *)
WaitsForMore ==
    pc = "waiting" => mw_waiting /\ ~(Len(queue) > mw_min_msgs /\ duration > MwDuration)

(* A player never waits for the stream with a control message or the end of   *)
(* its connection unseen, whatever it did when they arrived.                 *)
ControlIsHeard == pc = "waiting" => control = <<>> /\ ~recv_error

(* srs_app_recv_thread.cpp:223 "we only recv one message and then process it": *)
(* a message that ends the connection is not followed by others.             *)
OneControlAtATime == Len(control) <= 1 /\ (recv = "receiving" => control = <<>>)

(* The three together: whatever wakes a player or should, is heard by it.     *)
Heard == WaitsForMore /\ ControlIsHeard /\ OneControlAtATime

(* The audio and video a slow player is behind spans queue_length at most, as   *)
(* long as the times went up since the queue was last empty or shrunk: where   *)
(* one goes back, the two ends that enqueue() compares are not the extremes.   *)
QueueIsBounded ==
    ordered => \A i, j \in 1 .. Len(queue) :
        IsAv(queue[i]) /\ IsAv(queue[j]) => queue[j].ts - queue[i].ts <= MaxQueue

(* However the queue was shrunk and dumped, the last video header before a    *)
(* frame, for the player, is the last one before it in the stream; and no      *)
(* frame comes twice or out of order.                                         *)
HeaderBefore(i) ==
    LET h == {j \in 1 .. i - 1 : queue[j].kind = "vsh"}
    IN  IF h = {} THEN given.vsh
        ELSE queue[CHOOSE j \in h : \A k \in h : k <= j].n

FramesMatchHeader ==
    \A i \in 1 .. Len(queue) : queue[i].kind = "frame" =>
        /\ HeaderBefore(i) = queue[i].vsh
        /\ given.n < queue[i].n
        /\ \A j \in 1 .. i - 1 : queue[j].n < queue[i].n

(* What the client asks for is processed, and a connection that is over, or   *)
(* expired, ends: no wait and no pause holds it back.                         *)
ControlIsProcessed == control # <<>> ~> control = <<>> \/ pc = "gone"

EndsWhenOver == (expired \/ recv_error) ~> pc = "gone"

PlayerAnswers == ControlIsProcessed /\ EndsWhenOver
=============================================================================

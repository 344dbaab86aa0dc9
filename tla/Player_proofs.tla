--------------------------- MODULE Player_proofs ---------------------------
(***************************************************************************)
(* No wakeup of a player is lost, no control message waits unseen, the     *)
(* queue of a player is bounded in time, a frame it is given comes after   *)
(* the header it belongs to, and a player that is to leave comes ever      *)
(* nearer to that.                                                         *)
(***************************************************************************)
EXTENDS Player, TLAPS, WellFoundedInduction

(* No message in the queue has the time that says none came, and as long as    *)
(* times go up, audio and video come after whatever is queued before them      *)
(* and after av_start_time.                                                   *)
QueueInv ==
    /\ \A i \in 1 .. Len(queue) :
          queue[i].ts # -1 /\ (IsAv(queue[i]) => av_end_time # -1)
    /\ ordered => \A j \in 1 .. Len(queue) : IsAv(queue[j]) =>
          /\ av_start_time # -1
          /\ av_start_time <= queue[j].ts
          /\ \A i \in 1 .. j : queue[i].ts <= queue[j].ts

(* A set of naturals has a least element, and a set of indexes a last one.    *)
LEMMA NaturalsHaveMin ==
    ASSUME NEW T, T \subseteq Nat, T # {}
    PROVE  \E x \in T : \A y \in T : ~(y < x)
<1> DEFINE R == OpToRel(<, Nat)
<1>1. IsWellFoundedOn(R, Nat)
  BY NatLessThanWellFounded
<1>2. \A x, y \in Nat : x < y => <<x, y>> \in R
  BY DEF OpToRel
<1> HIDE DEF R
<1>3. \E x \in T : \A y \in T : ~(<<y, x>> \in R)
  BY <1>1, WFMin
<1> QED BY <1>2, <1>3

LEMMA IndexesHaveMax ==
    ASSUME NEW k \in Nat, NEW S, S \subseteq 1 .. k, S # {}
    PROVE  \E i \in S : \A j \in S : j <= i
<1> DEFINE T == {k - i : i \in S}
<1>1. T \subseteq Nat
  <2>1. \A i \in S : k - i \in Nat
    OBVIOUS
  <2> QED BY <2>1
<1>2. T # {}
  OBVIOUS
<1>3. PICK x \in T : \A y \in T : ~(y < x)
  BY <1>1, <1>2, NaturalsHaveMin
<1>4. PICK i \in S : x = k - i
  BY <1>3
<1>5. \A j \in S : ~(k - j < k - i)
  BY <1>3, <1>4
<1> QED BY <1>4, <1>5

LEMMA TimesAreInts == \A t \in Times \cup {-1} : t \in Int
<1>1. \A t \in Times : t \in Int
  BY PlayerAssumption
<1>2. -1 \in Int
  OBVIOUS
<1> QED BY <1>1, <1>2

(* The header that shrink() keeps is one of the queue, with the given time.   *)
LEMMA KeptIsHeader ==
    ASSUME NEW q \in Seq(Messages), NEW kind \in {"vsh", "ash"},
           NEW time \in Times \cup {-1}
    PROVE  /\ Kept(q, kind, time) \in Seq(Messages)
           /\ Len(Kept(q, kind, time)) <= 1
           /\ \A i \in 1 .. Len(Kept(q, kind, time)) :
                 Kept(q, kind, time)[i].ts = time
<1> DEFINE last == {i \in 1 .. Len(q) : IsLast(q, kind, i)}
           c == CHOOSE i \in last : TRUE
           kept == [q[c] EXCEPT !.ts = time]
<1>1. CASE last = {}
  <2>1. Kept(q, kind, time) = <<>>
    BY <1>1 DEF Kept
  <2> QED BY <2>1
<1>2. CASE last # {}
  <2>1. c \in last
    BY <1>2
  <2>2. c \in 1 .. Len(q) /\ q[c].kind = kind
    BY <2>1 DEF IsLast
  <2>3. q[c] \in Messages
    BY <2>2
  <2>4. kept \in Messages /\ kept.kind = kind /\ kept.ts = time
    BY <2>2, <2>3 DEF Messages
  <2>5. Kept(q, kind, time) = <<kept>>
    BY <1>2 DEF Kept
  <2> HIDE DEF kept
  <2> QED BY <2>4, <2>5
<1> QED BY <1>1, <1>2

LEMMA KeptHasKind ==
    ASSUME NEW q \in Seq(Messages), NEW kind \in {"vsh", "ash"},
           NEW time \in Times \cup {-1}
    PROVE  \A i \in 1 .. Len(Kept(q, kind, time)) :
              Kept(q, kind, time)[i].kind = kind
<1> DEFINE last == {i \in 1 .. Len(q) : IsLast(q, kind, i)}
           c == CHOOSE i \in last : TRUE
           kept == [q[c] EXCEPT !.ts = time]
<1>1. CASE last = {}
  BY <1>1 DEF Kept
<1>2. CASE last # {}
  <2>1. c \in 1 .. Len(q) /\ q[c].kind = kind
    BY <1>2 DEF IsLast
  <2>2. q[c] \in Messages
    BY <2>1
  <2>3. kept.kind = kind
    BY <2>1, <2>2 DEF Messages
  <2>4. Kept(q, kind, time) = <<kept>>
    BY <1>2 DEF Kept
  <2> HIDE DEF kept
  <2> QED BY <2>3, <2>4
<1> QED BY <1>1, <1>2

(* A shrunk queue holds headers only, all of the given time.                  *)
LEMMA ShrunkIsHeaders ==
    ASSUME NEW q \in Seq(Messages), NEW time \in Times \cup {-1}
    PROVE  /\ Shrunk(q, time) \in Seq(Messages)
           /\ \A i \in 1 .. Len(Shrunk(q, time)) : Shrunk(q, time)[i].ts = time
<1> DEFINE v == Kept(q, "vsh", time)
           a == Kept(q, "ash", time)
<1>1. "vsh" \in {"vsh", "ash"} /\ "ash" \in {"vsh", "ash"}
  OBVIOUS
<1>2. Shrunk(q, time) = v \o a
  BY DEF Shrunk
<1>3. v \in Seq(Messages)
  BY <1>1, KeptIsHeader
<1>4. a \in Seq(Messages)
  BY <1>1, KeptIsHeader
<1>5. \A i \in 1 .. Len(v) : v[i].ts = time
  BY <1>1, KeptIsHeader
<1>6. \A i \in 1 .. Len(a) : a[i].ts = time
  BY <1>1, KeptIsHeader
<1> HIDE DEF v, a
<1>7. v \o a \in Seq(Messages) /\ Len(v \o a) = Len(v) + Len(a)
  BY <1>3, <1>4
<1>8. \A i \in 1 .. Len(v \o a) :
         (v \o a)[i] = IF i <= Len(v) THEN v[i] ELSE a[i - Len(v)]
  BY <1>3, <1>4
<1>9. ASSUME NEW i \in 1 .. Len(v \o a) PROVE (v \o a)[i].ts = time
  <2>1. CASE i <= Len(v)
    BY <1>3, <1>5, <1>8, <2>1
  <2>2. CASE i > Len(v)
    <3>1. i - Len(v) \in 1 .. Len(a)
      BY <1>3, <1>4, <1>7, <2>2
    <3> QED BY <1>3, <1>6, <1>8, <2>2, <3>1
  <2> QED BY <1>3, <2>1, <2>2
<1> QED BY <1>2, <1>7, <1>9

LEMMA ShrunkIsAv ==
    ASSUME NEW q \in Seq(Messages), NEW time \in Times \cup {-1}
    PROVE  \A i \in 1 .. Len(Shrunk(q, time)) : IsAv(Shrunk(q, time)[i])
<1> DEFINE v == Kept(q, "vsh", time)
           a == Kept(q, "ash", time)
<1>1. "vsh" \in {"vsh", "ash"} /\ "ash" \in {"vsh", "ash"}
  OBVIOUS
<1>2. v \in Seq(Messages) /\ a \in Seq(Messages)
  BY <1>1, KeptIsHeader
<1>3. \A i \in 1 .. Len(v) : v[i].kind = "vsh"
  BY <1>1, KeptHasKind
<1>4. \A i \in 1 .. Len(a) : a[i].kind = "ash"
  BY <1>1, KeptHasKind
<1>5. Shrunk(q, time) = v \o a
  BY DEF Shrunk
<1> HIDE DEF v, a
<1>6. ASSUME NEW i \in 1 .. Len(v \o a) PROVE (v \o a)[i].kind # "meta"
  <2>1. CASE i <= Len(v)
    BY <1>2, <1>3, <2>1
  <2>2. CASE i > Len(v)
    <3>1. i - Len(v) \in 1 .. Len(a) /\ (v \o a)[i] = a[i - Len(v)]
      BY <1>2, <2>2
    <3> QED BY <1>4, <3>1
  <2> QED BY <1>2, <2>1, <2>2
<1> QED BY <1>5, <1>6 DEF IsAv

LEMMA ShrunkNeedsAv ==
    ASSUME NEW q \in Seq(Messages), NEW time \in Times \cup {-1}, Len(Shrunk(q, time)) # 0
    PROVE  \E i \in 1 .. Len(q) : IsAv(q[i])
<1> DEFINE Last(kind) == {i \in 1 .. Len(q) : IsLast(q, kind, i)}
<1>1. ASSUME NEW kind \in {"vsh", "ash"}, Last(kind) = {} PROVE Kept(q, kind, time) = <<>>
  BY <1>1 DEF Kept
<1>2. Last("vsh") # {} \/ Last("ash") # {}
  <2>1. SUFFICES ASSUME Last("vsh") = {}, Last("ash") = {} PROVE FALSE
    OBVIOUS
  <2>2. Shrunk(q, time) = <<>> \o <<>>
    BY <1>1, <2>1 DEF Shrunk
  <2>3. Len(<<>> \o <<>>) = 0
    OBVIOUS
  <2> QED BY <2>2, <2>3
<1> QED BY <1>2 DEF IsLast, IsAv

(* enqueue() keeps the queue a queue of messages with times in range.         *)
LEMMA EnqueueType ==
    ASSUME TypeOK, NEW m \in Messages, EnqueueMsg(m)
    PROVE  /\ queue' \in Seq(Messages)
           /\ av_start_time' \in Times \cup {-1}
           /\ av_end_time' \in Times \cup {-1}
           /\ ordered' \in BOOLEAN
<1> DEFINE start == IF IsAv(m) /\ av_start_time = -1 THEN m.ts ELSE av_start_time
           end   == IF IsAv(m) THEN m.ts ELSE av_end_time
           q     == Append(queue, m)
<1>1. start \in Times \cup {-1} /\ end \in Times \cup {-1}
  BY DEF TypeOK, Messages
<1>2. q \in Seq(Messages)
  BY DEF TypeOK
<1>3. /\ av_end_time' = end
      /\ IF Overflows(start, end)
         THEN queue' = Shrunk(q, end) /\ av_start_time' = end /\ ordered' = TRUE
         ELSE queue' = q /\ av_start_time' = start /\ ordered' = (ordered /\ InOrder(m))
  BY DEF EnqueueMsg
<1> HIDE DEF start, end, q
<1>4. CASE Overflows(start, end)
  BY <1>1, <1>2, <1>3, <1>4, ShrunkIsHeaders
<1>5. CASE ~Overflows(start, end)
  BY <1>1, <1>2, <1>3, <1>5
<1> QED BY <1>4, <1>5

(* What dump_packets() leaves, and what it gives.                             *)
LEMMA DumpType ==
    ASSUME TypeOK, NEW max \in DumpSizes, DumpPackets(max)
    PROVE  /\ queue' \in Seq(Messages)
           /\ av_start_time' \in Times \cup {-1}
           /\ given' \in [n : 0 .. MaxMsgs, vsh : 0 .. MaxMsgs]
           /\ ordered' \in BOOLEAN
<1> DEFINE count == IF max < Len(queue) THEN max ELSE Len(queue)
           Last(S) == CHOOSE i \in S : \A j \in S : j <= i
           vshs  == {i \in 1 .. count : queue[i].kind = "vsh"}
<1>1. count \in 0 .. Len(queue) /\ queue \in Seq(Messages)
  BY PlayerAssumption DEF TypeOK
<1>2. \A i \in 1 .. count : queue[i] \in Messages
  BY <1>1
<1>3. /\ queue' = SubSeq(queue, count + 1, Len(queue))
      /\ av_start_time' = IF count = 0 THEN av_start_time ELSE queue[count].ts
      /\ given' = [n   |-> IF count = 0 THEN given.n ELSE queue[count].n,
                   vsh |-> IF vshs = {} THEN given.vsh ELSE queue[Last(vshs)].n]
      /\ ordered' = (ordered \/ count = Len(queue))
  BY DEF DumpPackets
<1>4. ASSUME NEW S \in SUBSET (1 .. count), S # {} PROVE Last(S) \in S
  <2>1. count \in Nat /\ S \subseteq 1 .. count
    BY <1>1
  <2>2. \E i \in S : \A j \in S : j <= i
    BY <1>4, <2>1, IndexesHaveMax
  <2> QED BY <2>2
<1>6. vshs # {} => Last(vshs) \in vshs
  BY <1>4
<1> HIDE DEF count, Last, vshs
<1>7. vshs \subseteq 1 .. count
  BY DEF vshs
<1>8. queue' \in Seq(Messages)
  BY <1>1, <1>3
<1>9. \A i \in 1 .. count :
         queue[i].ts \in Times \cup {-1} /\ queue[i].n \in 0 .. MaxMsgs
  BY <1>2, PlayerAssumption DEF Messages
<1>10. given.n \in 0 .. MaxMsgs /\ given.vsh \in 0 .. MaxMsgs
  BY DEF TypeOK
<1>11. av_start_time' \in Times \cup {-1}
  <2>1. count # 0 => count \in 1 .. count
    BY <1>1
  <2> QED BY <1>3, <1>9, <2>1 DEF TypeOK
<1>12. (IF count = 0 THEN given.n ELSE queue[count].n) \in 0 .. MaxMsgs
  <2>1. count # 0 => count \in 1 .. count
    BY <1>1
  <2> QED BY <1>9, <1>10, <2>1
<1>14. (IF vshs = {} THEN given.vsh ELSE queue[Last(vshs)].n) \in 0 .. MaxMsgs
  BY <1>6, <1>7, <1>9, <1>10
<1> QED BY <1>3, <1>8, <1>11, <1>12, <1>14 DEF TypeOK
-----------------------------------------------------------------------------
(* Type correctness                                                          *)
LEMMA DeliverType ==
    ASSUME TypeOK, Deliver
    PROVE  /\ queue' \in Seq(Messages)
           /\ av_start_time' \in Times \cup {-1}
           /\ given' \in [n : 0 .. MaxMsgs, vsh : 0 .. MaxMsgs]
           /\ ordered' \in BOOLEAN
           /\ UNCHANGED <<av_end_time, n, last_vsh>>
           /\ pc' \in {"top", "sending"}
<1>1. CASE paused \/ queue = <<>>
  BY <1>1 DEF Deliver, messages, TypeOK
<1>2. CASE ~(paused \/ queue = <<>>)
  <2>1. PICK max \in DumpSizes : DumpPackets(max)
    BY <1>2 DEF Deliver
  <2>2. pc' = "sending" /\ UNCHANGED <<av_end_time, n, last_vsh>>
    BY <1>2, <2>1 DEF Deliver, DumpPackets
  <2> QED BY <2>1, <2>2, DumpType
<1> QED BY <1>1, <1>2

LEMMA TypeInit == Init => TypeOK
<1>1. 0 \in 0 .. MaxMsgs
  BY PlayerAssumption
<1>2. SUFFICES ASSUME Init PROVE TypeOK
  OBVIOUS
<1>3. given \in [n : 0 .. MaxMsgs, vsh : 0 .. MaxMsgs]
  BY <1>1, <1>2 DEF Init
<1>4. n \in 0 .. MaxMsgs /\ last_vsh \in 0 .. n
  BY <1>1, <1>2 DEF Init
<1>5. queue \in Seq(Messages) /\ control \in Seq(Controls)
  BY <1>2 DEF Init
<1> QED BY <1>1, <1>2, <1>3, <1>4, <1>5 DEF Init, TypeOK, Playing

LEMMA TypeNext == TypeOK /\ [Next]_vars => TypeOK'
<1> SUFFICES ASSUME TypeOK, [Next]_vars PROVE TypeOK'
  OBVIOUS
<1> USE DEF TypeOK, Playing
<1>1. ASSUME NEW kind \in Kinds, NEW ts \in Times, NEW atc \in BOOLEAN,
             Enqueue(kind, ts, atc)
      PROVE  TypeOK'
  <2> DEFINE m == [kind |-> kind, ts |-> ts, n |-> n + 1,
                   vsh |-> IF kind = "vsh" THEN n + 1 ELSE last_vsh]
  <2>1. n \in Nat /\ last_vsh \in Nat /\ last_vsh <= n /\ n < MaxMsgs /\ n' = n + 1
    BY <1>1, PlayerAssumption DEF Enqueue
  <2>2. ts \in Times
    OBVIOUS
  <2>3. m \in Messages
    BY <2>1, <2>2, PlayerAssumption DEF Messages
  <2>4. EnqueueMsg(m)
    BY <1>1 DEF Enqueue
  <2>5. /\ queue' \in Seq(Messages)
        /\ av_start_time' \in Times \cup {-1}
        /\ av_end_time' \in Times \cup {-1}
        /\ ordered' \in BOOLEAN
    BY <2>3, <2>4, EnqueueType
  <2>6. n' \in 0 .. MaxMsgs /\ last_vsh' \in 0 .. n'
    BY <1>1, <2>1, PlayerAssumption DEF Enqueue
  <2>7. mw_waiting' \in BOOLEAN /\ pc' \in Playing \cup {"stopping", "gone"}
    BY <1>1 DEF Enqueue, Wakeup, Signal
  <2>8. UNCHANGED <<mw_min_msgs, paused, expired, control, recv_error, recv,
                  pause, given>>
    BY <1>1 DEF Enqueue, receiver
  <2> QED BY <2>5, <2>6, <2>7, <2>8
<1>2. CASE Expired
  BY <1>2 DEF Expired, Quit, messages, receiver
<1>3. CASE ProcessControl
  <2>1. control' \in Seq(Controls)
    BY <1>3 DEF ProcessControl
  <2>2. pc' \in Playing \cup {"stopping", "gone"}
    <3>1. pc' \in {"stopping"} \cup {"control"} \cup Answer
      BY <1>3 DEF ProcessControl
    <3> QED BY <3>1 DEF Answer
  <2>3. pause' \in BOOLEAN
    BY <1>3 DEF ProcessControl
  <2>4. paused' \in BOOLEAN
    BY <1>3, <2>3 DEF ProcessControl
  <2>5. UNCHANGED <<messages, mw_waiting, mw_min_msgs, expired, recv_error,
                  recv>>
    BY <1>3 DEF ProcessControl
  <2> QED BY <2>1, <2>2, <2>3, <2>4, <2>5 DEF messages
<1>4. CASE Replied
  BY <1>4 DEF Replied, messages, receiver
<1>5. CASE SendFails
  BY <1>5 DEF SendFails, Quit, messages, receiver
<1>6. CASE QuitForError
  BY <1>6 DEF QuitForError, Quit, messages, receiver
<1>7. ASSUME NEW min \in MinMsgs, Wait(min) PROVE TypeOK'
  <2>1. /\ mw_min_msgs' \in MinMsgs \cup {0} /\ mw_waiting' \in BOOLEAN
        /\ UNCHANGED <<paused, expired, control, recv_error, recv, pause>>
    BY <1>7 DEF Wait, receiver
  <2>2. CASE Deliver
    BY <2>1, <2>2, DeliverType
  <2>3. CASE ~Deliver
    <3>1. pc' \in {"sleeping", "waiting"} /\ UNCHANGED messages
      BY <1>7, <2>3 DEF Wait
    <3> QED BY <2>1, <3>1 DEF messages
  <2> QED BY <2>2, <2>3
<1>8. CASE WaitReturns
  <2>1. /\ Deliver
        /\ UNCHANGED <<mw_waiting, mw_min_msgs, paused, expired, control, recv_error, recv, pause>>
    BY <1>8 DEF WaitReturns, receiver
  <2> QED BY <2>1, DeliverType
<1>9. CASE SleepReturns
  BY <1>9 DEF SleepReturns, messages, receiver
<1>10. CASE Sent
  BY <1>10 DEF Sent, messages, receiver
<1>11. CASE Leave
  BY <1>11 DEF Leave, messages, receiver
<1>12. CASE Expire
  BY <1>12 DEF Expire, Blocked, messages, receiver
<1>13. ASSUME NEW c \in Controls, Receive(c) PROVE TypeOK'
  <2>1. control' \in Seq(Controls)
    BY <1>13 DEF Receive
  <2>2. mw_waiting' \in BOOLEAN /\ pc' \in Playing \cup {"stopping", "gone"}
    BY <1>13 DEF Receive, Wakeup, Signal
  <2>3. recv' = "sleeping" /\ UNCHANGED recv_error /\ ReceiverOnly
    BY <1>13 DEF Receive
  <2> QED BY <2>1, <2>2, <2>3 DEF ReceiverOnly, messages
<1>14. CASE RecvWakes
  BY <1>14 DEF RecvWakes, NotInterrupted, ReceiverOnly, Blocked, messages,
     receiver
<1>15. CASE ReceiveFails
  BY <1>15 DEF ReceiveFails, Wakeup, Signal, ReceiverOnly, Blocked, messages,
     receiver
<1>16. CASE SleepStopped
  BY <1>16 DEF SleepStopped, ReceiverOnly, messages, receiver
<1>17. CASE UNCHANGED vars
  BY <1>17 DEF vars
<1> QED BY <1>1, <1>2, <1>3, <1>4, <1>5, <1>6, <1>7, <1>8, <1>9, <1>10, <1>11,
       <1>12, <1>13, <1>14, <1>15, <1>16, <1>17 DEF Next, Sender

(* In every reachable state the variables have their types.                   *)
THEOREM PlayerTypes == Spec => []TypeOK
<1> QED BY TypeInit, TypeNext, PTL DEF Spec
-----------------------------------------------------------------------------
LEMMA HeardInit == Init => Heard
BY DEF Init, Heard, WaitsForMore, ControlIsHeard, OneControlAtATime

LEMMA HeardNext == TypeOK /\ Heard /\ [Next]_vars => Heard'
<1> SUFFICES ASSUME TypeOK, Heard, [Next]_vars PROVE Heard'
  OBVIOUS
<1> USE DEF Heard, WaitsForMore, ControlIsHeard, OneControlAtATime, duration
<1>1. ASSUME NEW kind \in Kinds, NEW ts \in Times, NEW atc \in BOOLEAN,
             Enqueue(kind, ts, atc)
      PROVE  Heard'
  <2>1. UNCHANGED <<mw_min_msgs, control, recv_error, recv>>
    BY <1>1 DEF Enqueue, receiver
  <2>2. CASE pc = "waiting"
    <3>1. CASE Enough(Len(queue'), av_end_time' - av_start_time', mw_min_msgs)
      BY <1>1, <2>1, <2>2, <3>1 DEF Enqueue, Wakeup, Signal
    <3>2. CASE ~Enough(Len(queue'), av_end_time' - av_start_time', mw_min_msgs)
      BY <1>1, <2>1, <2>2, <3>2 DEF Enqueue, Enough, Wakeup, Signal
    <3> QED BY <3>1, <3>2
  <2>3. CASE pc # "waiting"
    BY <1>1, <2>1, <2>3 DEF Enqueue, Wakeup, Signal
  <2> QED BY <2>2, <2>3
<1>2. CASE Expired
  BY <1>2 DEF Expired, Quit, messages, receiver
<1>3. CASE ProcessControl
  <2>1. pc' # "waiting"
    <3>1. pc' \in {"stopping"} \cup {"control"} \cup Answer
      BY <1>3 DEF ProcessControl
    <3> QED BY <3>1 DEF Answer
  <2>2. control' = Tail(control) /\ control # <<>> /\ UNCHANGED recv
    BY <1>3 DEF ProcessControl
  <2>3. control \in Seq(Controls)
    BY DEF TypeOK
  <2>4. Len(control) <= 1
    OBVIOUS
  <2> HIDE DEF OneControlAtATime
  <2>5. Len(Tail(control)) <= 1 /\ Tail(control) = <<>>
    BY <2>2, <2>3, <2>4
  <2> QED BY <2>1, <2>2, <2>5 DEF OneControlAtATime
<1>4. CASE Replied
  BY <1>4 DEF Replied, messages, receiver
<1>5. CASE SendFails
  BY <1>5 DEF SendFails, Quit, messages, receiver
<1>6. CASE QuitForError
  BY <1>6 DEF QuitForError, Quit, messages, receiver
<1>7. ASSUME NEW min \in MinMsgs, Wait(min) PROVE Heard'
  <2>1. UNCHANGED <<control, recv_error, recv>> /\ control = <<>> /\ ~recv_error
    BY <1>7 DEF Wait, receiver
  <2>2. CASE pc' = "waiting"
    <3>1. ~Enough(Len(queue), duration, min) /\ mw_min_msgs' = min
      BY <1>7, <2>2 DEF Wait, Deliver
    <3>2. mw_waiting' = TRUE /\ UNCHANGED messages
      BY <1>7, <2>2 DEF Wait, Deliver
    <3> QED BY <2>1, <3>1, <3>2 DEF Enough, messages
  <2>3. CASE pc' # "waiting"
    BY <2>1, <2>3
  <2> QED BY <2>2, <2>3
<1>8. CASE WaitReturns
  BY <1>8 DEF WaitReturns, Deliver, receiver
<1>9. CASE SleepReturns
  BY <1>9 DEF SleepReturns, messages, receiver
<1>10. CASE Sent
  BY <1>10 DEF Sent, messages, receiver
<1>11. CASE Leave
  BY <1>11 DEF Leave, messages, receiver
<1>12. CASE Expire
  BY <1>12 DEF Expire, Blocked, messages, receiver
<1>13. ASSUME NEW c \in Controls, Receive(c) PROVE Heard'
  <2>1. control' = <<c>> /\ recv' = "sleeping"
    BY <1>13 DEF Receive
  <2>2. pc' # "waiting"
    BY <1>13 DEF Receive, Wakeup, Signal
  <2> QED BY <2>1, <2>2
<1>14. CASE RecvWakes
  BY <1>14 DEF RecvWakes, NotInterrupted, ReceiverOnly, Blocked, messages,
     receiver
<1>15. CASE ReceiveFails
  <2>1. UNCHANGED control /\ recv' = "ended"
    BY <1>15 DEF ReceiveFails
  <2>2. pc' # "waiting"
    BY <1>15 DEF ReceiveFails, Wakeup, Signal
  <2> QED BY <2>1, <2>2
<1>16. CASE SleepStopped
  BY <1>16 DEF SleepStopped, ReceiverOnly, messages, receiver
<1>17. CASE UNCHANGED vars
  BY <1>17 DEF vars
<1> QED BY <1>1, <1>2, <1>3, <1>4, <1>5, <1>6, <1>7, <1>8, <1>9, <1>10, <1>11,
       <1>12, <1>13, <1>14, <1>15, <1>16, <1>17 DEF Next, Sender

(* Whenever the source enqueues and whatever the player is doing, no wakeup    *)
(* is lost, no control message and no end of the connection goes unseen, and   *)
(* one control message is received at a time.                                 *)
THEOREM PlayerHears == Spec => []Heard
<1> QED BY PlayerTypes, HeardInit, HeardNext, PTL DEF Spec
-----------------------------------------------------------------------------
(* A queue that is shrunk is in order, whatever came before.                  *)
LEMMA ShrinkBounded ==
    ASSUME NEW q \in Seq(Messages), NEW end \in Times \cup {-1},
           \A i \in 1 .. Len(q) : IsAv(q[i]) => end # -1,
           queue' = Shrunk(q, end), av_start_time' = end, av_end_time' = end
    PROVE  QueueInv' /\ QueueIsBounded'
<1>1. \A i \in 1 .. Len(queue') : queue'[i].ts = end
  BY ShrunkIsHeaders
<1>2. \A i \in 1 .. Len(queue') : IsAv(queue'[i])
  BY ShrunkIsAv
<1>3. Len(queue') # 0 => end # -1
  BY ShrunkNeedsAv, ShrunkIsHeaders
<1>4. end \in Int
  BY TimesAreInts
<1>5. queue' \in Seq(Messages)
  BY ShrunkIsHeaders
<1>6. \A i \in 1 .. Len(queue') : end # -1
  BY <1>3, <1>5
<1>7. QueueInv'
  <2>1. \A i \in 1 .. Len(queue') :
           queue'[i].ts # -1 /\ av_end_time' # -1 /\ av_start_time' # -1
           /\ av_start_time' <= queue'[i].ts
    BY <1>1, <1>4, <1>6
  <2>2. \A j \in 1 .. Len(queue') : \A i \in 1 .. j : queue'[i].ts <= queue'[j].ts
    BY <1>1, <1>4, <1>5
  <2> QED BY <2>1, <2>2 DEF QueueInv
<1>8. QueueIsBounded'
  BY <1>1, <1>4, PlayerAssumption DEF QueueIsBounded
<1> QED BY <1>7, <1>8

LEMMA SpanBounded ==
    ASSUME NEW i, NEW j, NEW start \in Int, NEW end \in Int, NEW max \in Nat,
           i \in Int, j = end, start <= i, ~(end - start > max)
    PROVE  j - i <= max
OBVIOUS

LEMMA NoSpan ==
    ASSUME NEW i \in Int, NEW j \in Int, NEW max \in Nat, j <= i
    PROVE  j - i <= max
OBVIOUS

(* A message is added at the end.                                             *)
LEMMA AppendBounded ==
    ASSUME TypeOK, QueueInv, QueueIsBounded, NEW m \in Messages, m.ts # -1,
           NEW start, NEW end,
           start = IF IsAv(m) /\ av_start_time = -1 THEN m.ts ELSE av_start_time,
           end = IF IsAv(m) THEN m.ts ELSE av_end_time,
           queue' = Append(queue, m), av_start_time' = start, av_end_time' = end,
           ordered' = (ordered /\ InOrder(m)), ~(end - start > MaxQueue)
    PROVE  QueueInv' /\ QueueIsBounded'
<1> DEFINE L == Len(queue)
<1>1. queue \in Seq(Messages) /\ L \in Nat
  BY DEF TypeOK
<1>2. queue' \in Seq(Messages) /\ Len(queue') = L + 1 /\ queue'[L + 1] = m
      /\ \A i \in 1 .. L : queue'[i] = queue[i]
  BY <1>1
<1>3. \A i \in 1 .. L : queue[i].ts \in Int
  <2>1. \A i \in 1 .. L : queue[i] \in Messages
    BY <1>1
  <2>2. \A x \in Messages : x.ts \in Int
    BY TimesAreInts DEF Messages
  <2> QED BY <2>1, <2>2
<1>4. m.ts \in Int /\ av_start_time \in Int /\ av_end_time \in Int /\ MaxQueue \in Nat
      /\ start \in Int /\ end \in Int
  <2>1. m.ts \in Times \cup {-1}
    BY DEF Messages
  <2>2. {av_start_time, av_end_time} \subseteq Times \cup {-1}
    BY DEF TypeOK
  <2>3. m.ts \in Int /\ av_start_time \in Int /\ av_end_time \in Int
    BY <2>1, <2>2, TimesAreInts
  <2> QED BY <2>3, PlayerAssumption
<1> HIDE DEF L
<1>5. \A i \in 1 .. L + 1 :
         queue'[i].ts # -1 /\ (IsAv(queue'[i]) => av_end_time' # -1)
  <2> SUFFICES ASSUME NEW i \in 1 .. L + 1
               PROVE  queue'[i].ts # -1 /\ (IsAv(queue'[i]) => av_end_time' # -1)
    OBVIOUS
  <2>1. CASE i \in 1 .. L
    <3>1. queue[i].ts # -1 /\ (IsAv(queue[i]) => av_end_time # -1)
      BY <2>1 DEF QueueInv, L
    <3> QED BY <1>2, <2>1, <3>1
  <2>2. CASE i = L + 1
    BY <1>2, <2>2
  <2> QED BY <1>1, <2>1, <2>2 DEF L
<1>6. ASSUME ordered', NEW j \in 1 .. L + 1, IsAv(queue'[j])
      PROVE  /\ start # -1 /\ start <= queue'[j].ts
             /\ \A i \in 1 .. j : queue'[i].ts <= queue'[j].ts
  <2>1. ordered /\ InOrder(m)
    BY <1>6
  <2>2. CASE j \in 1 .. L
    <3>1. IsAv(queue[j])
      BY <1>2, <1>6, <2>2
    <3>2. /\ av_start_time # -1 /\ av_start_time <= queue[j].ts
          /\ \A i \in 1 .. j : queue[i].ts <= queue[j].ts
      BY <2>1, <2>2, <3>1 DEF QueueInv, L
    <3>3. start = av_start_time
      BY <3>2
    <3>4. \A i \in 1 .. j : i \in 1 .. L
      BY <1>1, <2>2 DEF L
    <3> QED BY <1>2, <2>2, <3>2, <3>3, <3>4
  <2>3. CASE j = L + 1
    <3>1. IsAv(m)
      BY <1>2, <1>6, <2>3
    <3>2. start # -1 /\ start <= m.ts
      BY <1>4, <2>1, <3>1 DEF InOrder
    <3>3. \A i \in 1 .. L : queue'[i].ts <= m.ts
      BY <1>2, <2>1, <3>1 DEF InOrder, L
    <3>4. \A i \in 1 .. j : i \in 1 .. L \/ i = L + 1
      BY <1>1, <2>3 DEF L
    <3> QED BY <1>2, <1>4, <2>3, <3>2, <3>3, <3>4
  <2> QED BY <1>1, <2>2, <2>3 DEF L
<1>7. ASSUME ordered', NEW i \in 1 .. L + 1, NEW j \in 1 .. L + 1,
             IsAv(queue'[i]), IsAv(queue'[j])
      PROVE  queue'[j].ts - queue'[i].ts <= MaxQueue
  <2>1. CASE i \in 1 .. L /\ j \in 1 .. L
    BY <1>2, <1>7, <2>1 DEF QueueIsBounded, L
  <2>2. CASE j = L + 1
    <3>1. queue'[j].ts = end
      BY <1>2, <1>7, <2>2
    <3>2. start <= queue'[i].ts
      BY <1>6, <1>7
    <3>3. queue'[i].ts \in Int
      BY <1>1, <1>2, <1>3, <1>4 DEF L
    <3> QED BY <1>4, <3>1, <3>2, <3>3, SpanBounded
  <2>3. CASE i = L + 1 /\ j \in 1 .. L
    <3>1. queue'[j].ts <= queue'[i].ts
      BY <1>1, <1>6, <1>7, <2>3 DEF L
    <3>2. queue'[i].ts \in Int /\ queue'[j].ts \in Int
      BY <1>2, <1>3, <1>4, <2>3
    <3> QED BY <1>4, <3>1, <3>2, NoSpan
  <2> QED BY <1>1, <2>1, <2>2, <2>3 DEF L
<1>8. QueueInv'
  BY <1>2, <1>5, <1>6 DEF QueueInv, IsAv
<1>9. QueueIsBounded'
  BY <1>2, <1>7 DEF QueueIsBounded, IsAv
<1> QED BY <1>8, <1>9

LEMMA EnqueueBounded ==
    ASSUME TypeOK, QueueInv, QueueIsBounded, NEW m \in Messages, m.ts # -1, EnqueueMsg(m)
    PROVE  QueueInv' /\ QueueIsBounded'
<1> DEFINE start == IF IsAv(m) /\ av_start_time = -1 THEN m.ts ELSE av_start_time
           end   == IF IsAv(m) THEN m.ts ELSE av_end_time
           q     == Append(queue, m)
<1>1. /\ av_end_time' = end
      /\ IF end - start > MaxQueue
         THEN queue' = Shrunk(q, end) /\ av_start_time' = end /\ ordered' = TRUE
         ELSE queue' = q /\ av_start_time' = start /\ ordered' = (ordered /\ InOrder(m))
  BY DEF EnqueueMsg, Overflows
<1>2. CASE end - start > MaxQueue
  <2>1. end \in Times \cup {-1} /\ q \in Seq(Messages)
    BY DEF TypeOK, Messages
  <2>2. \A i \in 1 .. Len(q) : IsAv(q[i]) => end # -1
    <3>1. queue \in Seq(Messages)
      BY DEF TypeOK
    <3>2. \A i \in 1 .. Len(q) : (i \in 1 .. Len(queue) /\ q[i] = queue[i]) \/ q[i] = m
      BY <3>1
    <3> HIDE DEF q
    <3> QED BY <3>2 DEF QueueInv
  <2>3. queue' = Shrunk(q, end) /\ av_start_time' = end /\ av_end_time' = end
    BY <1>1, <1>2
  <2> HIDE DEF end, q
  <2> QED BY <2>1, <2>2, <2>3, ShrinkBounded
<1>3. CASE ~(end - start > MaxQueue)
  <2>1. /\ queue' = Append(queue, m) /\ av_start_time' = start /\ av_end_time' = end
        /\ ordered' = (ordered /\ InOrder(m))
    BY <1>1, <1>3
  <2>2. /\ start = IF IsAv(m) /\ av_start_time = -1 THEN m.ts ELSE av_start_time
        /\ end = IF IsAv(m) THEN m.ts ELSE av_end_time
    OBVIOUS
  <2> HIDE DEF start, end, q
  <2> QED BY <1>3, <2>1, <2>2, AppendBounded
<1> QED BY <1>2, <1>3

(* The messages that are left are the last ones, and come after the one that   *)
(* is the new start, metadata or not.                                         *)
LEMMA DumpBounded ==
    ASSUME TypeOK, QueueInv, QueueIsBounded, NEW max \in DumpSizes, DumpPackets(max)
    PROVE  QueueInv' /\ QueueIsBounded'
<1> DEFINE count == IF max < Len(queue) THEN max ELSE Len(queue)
           L == Len(queue)
<1>1. queue \in Seq(Messages) /\ count \in 0 .. L /\ L \in Nat
  BY PlayerAssumption DEF TypeOK
<1>2. queue' = SubSeq(queue, count + 1, L)
      /\ av_start_time' = (IF count = 0 THEN av_start_time ELSE queue[count].ts)
      /\ av_end_time' = av_end_time /\ ordered' = (ordered \/ count = L)
  BY DEF DumpPackets
<1> HIDE DEF count
<1>3. Len(queue') = L - count /\ \A i \in 1 .. Len(queue') : queue'[i] = queue[i + count]
  BY <1>1, <1>2
<1>4. \A i \in 1 .. Len(queue') : i + count \in 1 .. L
  BY <1>1, <1>3
<1> DEFINE L2 == Len(queue')
<1>5. L2 = L - count
  BY <1>3
<1> HIDE DEF L, L2
<1>6. \A i \in 1 .. L2 : queue'[i].ts # -1 /\ (IsAv(queue'[i]) => av_end_time' # -1)
  <2> SUFFICES ASSUME NEW i \in 1 .. L2
               PROVE  queue'[i].ts # -1 /\ (IsAv(queue'[i]) => av_end_time' # -1)
    OBVIOUS
  <2>1. i + count \in 1 .. L /\ queue'[i] = queue[i + count]
    BY <1>3, <1>4 DEF L2
  <2>2. queue[i + count].ts # -1 /\ (IsAv(queue[i + count]) => av_end_time # -1)
    BY <2>1 DEF QueueInv, L
  <2> QED BY <1>2, <2>1, <2>2
<1>7. ASSUME ordered', NEW j \in 1 .. L2, IsAv(queue'[j])
      PROVE  /\ av_start_time' # -1 /\ av_start_time' <= queue'[j].ts
             /\ \A i \in 1 .. j : queue'[i].ts <= queue'[j].ts
  <2>1. /\ j + count \in 1 .. L /\ queue'[j] = queue[j + count] /\ IsAv(queue[j + count])
    BY <1>3, <1>4, <1>7 DEF L2
  <2>2. ordered
    <3>1. L2 # 0 /\ L2 = L - count
      BY <1>5, <1>7
    <3>2. count # L
      BY <1>1, <3>1
    <3> QED BY <1>2, <1>7, <3>2
  <2>3. /\ av_start_time # -1 /\ av_start_time <= queue[j + count].ts
        /\ \A i \in 1 .. j + count : queue[i].ts <= queue[j + count].ts
    BY <2>1, <2>2 DEF QueueInv, L
  <2>4. ASSUME count = 0
        PROVE  av_start_time' # -1 /\ av_start_time' <= queue'[j].ts
    BY <1>2, <2>1, <2>3, <2>4
  <2>5. ASSUME count # 0
        PROVE  av_start_time' # -1 /\ av_start_time' <= queue'[j].ts
    <3>1. count \in 1 .. L /\ count \in 1 .. j + count
      BY <1>1, <2>5
    <3>2. queue[count].ts # -1
      BY <3>1 DEF QueueInv, L
    <3> QED BY <1>2, <2>1, <2>3, <2>5, <3>1, <3>2
  <2>6. \A i \in 1 .. j : i \in 1 .. L2 /\ i + count \in 1 .. j + count
    BY <1>1, <1>5
  <2> QED BY <1>3, <2>1, <2>3, <2>4, <2>5, <2>6 DEF L2
<1>8. ASSUME ordered', NEW i \in 1 .. L2, NEW j \in 1 .. L2, IsAv(queue'[i]), IsAv(queue'[j])
      PROVE  queue'[j].ts - queue'[i].ts <= MaxQueue
  <2>1. /\ i + count \in 1 .. L /\ queue'[i] = queue[i + count]
        /\ j + count \in 1 .. L /\ queue'[j] = queue[j + count]
    BY <1>3, <1>4 DEF L2
  <2>2. ordered
    <3>1. L2 # 0 /\ L2 = L - count
      BY <1>5, <1>8
    <3>2. count # L
      BY <1>1, <3>1
    <3> QED BY <1>2, <1>8, <3>2
  <2> QED BY <1>8, <2>1, <2>2 DEF QueueIsBounded, L
<1>9. QueueInv'
  BY <1>6, <1>7 DEF QueueInv, IsAv, L2
<1>10. QueueIsBounded'
  BY <1>8 DEF QueueIsBounded, IsAv, L2
<1> QED BY <1>9, <1>10

LEMMA DeliverBounded ==
    ASSUME TypeOK, QueueInv, QueueIsBounded, Deliver
    PROVE  QueueInv' /\ QueueIsBounded'
<1>1. CASE paused \/ queue = <<>>
  BY <1>1 DEF Deliver, messages, QueueInv, QueueIsBounded
<1>2. CASE ~(paused \/ queue = <<>>)
  BY <1>2, DumpBounded DEF Deliver
<1> QED BY <1>1, <1>2

LEMMA BoundedInit == Init => QueueInv /\ QueueIsBounded
BY PlayerAssumption DEF Init, QueueInv, QueueIsBounded

LEMMA BoundedNext ==
    TypeOK /\ QueueInv /\ QueueIsBounded /\ [Next]_vars => QueueInv' /\ QueueIsBounded'
<1> SUFFICES ASSUME TypeOK, QueueInv, QueueIsBounded, [Next]_vars
             PROVE  QueueInv' /\ QueueIsBounded'
  OBVIOUS
<1>1. ASSUME NEW kind \in Kinds, NEW ts \in Times, NEW atc \in BOOLEAN,
             Enqueue(kind, ts, atc)
      PROVE  QueueInv' /\ QueueIsBounded'
  <2> DEFINE m == [kind |-> kind, ts |-> ts, n |-> n + 1,
                   vsh |-> IF kind = "vsh" THEN n + 1 ELSE last_vsh]
  <2>1. n \in Nat /\ last_vsh \in Nat /\ last_vsh <= n /\ n < MaxMsgs
    BY <1>1, PlayerAssumption DEF Enqueue, TypeOK
  <2>2. ts \in Times
    OBVIOUS
  <2>3. m \in Messages
    BY <2>1, <2>2, PlayerAssumption DEF Messages
  <2>4. EnqueueMsg(m)
    BY <1>1 DEF Enqueue
  <2>5. m.ts # -1
    BY <2>2, PlayerAssumption
  <2> HIDE DEF m
  <2> QED BY <2>3, <2>4, <2>5, EnqueueBounded
<1>2. CASE Deliver
  BY <1>2, DeliverBounded
<1>3. CASE UNCHANGED messages
  BY <1>3 DEF messages, QueueInv, QueueIsBounded
<1>4. CASE Sender \/ Expire
  <2>1. Deliver \/ UNCHANGED messages
    BY <1>4 DEF Sender, Expired, Quit, ProcessControl, Replied, SendFails,
       QuitForError,
        Wait, WaitReturns, SleepReturns, Sent, Leave, Expire
  <2> QED BY <1>2, <1>3, <2>1
<1>5. CASE (\E c \in Controls : Receive(c)) \/ RecvWakes \/ ReceiveFails \/ SleepStopped
  BY <1>3, <1>5 DEF Receive, RecvWakes, ReceiveFails, SleepStopped, ReceiverOnly
<1>6. CASE UNCHANGED vars
  BY <1>3, <1>6 DEF vars, messages
<1> QED BY <1>1, <1>4, <1>5, <1>6 DEF Next

(* However slow the player, the audio and video it is behind spans            *)
(* max_queue_size at most, as long as the times went up since its queue was     *)
(* last empty or shrunk; and whatever the times were, a shrink ends the excess. *)
THEOREM PlayerQueueIsBounded == Spec => []QueueIsBounded
<1> QED BY PlayerTypes, BoundedInit, BoundedNext, PTL DEF Spec
-----------------------------------------------------------------------------
(* h is the header that a player has before message i of q, when it has first *)
(* before all of q.                                                          *)
HeaderIs(q, first, i, h) ==
    \/ h = first /\ \A j \in 1 .. i - 1 : q[j].kind # "vsh"
    \/ \E j \in 1 .. i - 1 :
          /\ q[j].kind = "vsh" /\ q[j].n = h
          /\ \A k \in j + 1 .. i - 1 : q[k].kind # "vsh"

(* The end of the queue has the last header of the stream, every frame has    *)
(* its own, and messages are numbered in the order they came.                 *)
FrameInv ==
    /\ HeaderIs(queue, given.vsh, Len(queue) + 1, last_vsh)
    /\ \A i \in 1 .. Len(queue) : queue[i].kind = "frame" =>
          /\ HeaderIs(queue, given.vsh, i, queue[i].vsh)
          /\ given.n < queue[i].n
          /\ \A j \in 1 .. i - 1 : queue[j].n < queue[i].n
    /\ given.n <= n
    /\ \A i \in 1 .. Len(queue) : queue[i].n <= n

LEMMA HeaderIsUnique ==
    ASSUME NEW q, NEW first, NEW i \in Nat, NEW h, NEW g,
           HeaderIs(q, first, i, h), HeaderIs(q, first, i, g)
    PROVE  h = g
<1>1. CASE \A j \in 1 .. i - 1 : q[j].kind # "vsh"
  BY <1>1 DEF HeaderIs
<1>2. CASE ~ \A j \in 1 .. i - 1 : q[j].kind # "vsh"
  <2>1. PICK j \in 1 .. i - 1 :
           /\ q[j].kind = "vsh" /\ q[j].n = h
           /\ \A k \in j + 1 .. i - 1 : q[k].kind # "vsh"
    BY <1>2 DEF HeaderIs
  <2>2. PICK l \in 1 .. i - 1 :
           /\ q[l].kind = "vsh" /\ q[l].n = g
           /\ \A k \in l + 1 .. i - 1 : q[k].kind # "vsh"
    BY <1>2 DEF HeaderIs
  <2>3. j = l
    BY <2>1, <2>2
  <2> QED BY <2>1, <2>2, <2>3
<1> QED BY <1>1, <1>2

(* What HeaderBefore computes with a CHOOSE.                                  *)
LEMMA HeaderBeforeIs ==
    ASSUME NEW i \in 1 .. Len(queue), queue \in Seq(Messages)
    PROVE  HeaderIs(queue, given.vsh, i, HeaderBefore(i))
<1> DEFINE h == {j \in 1 .. i - 1 : queue[j].kind = "vsh"}
           c == CHOOSE j \in h : \A k \in h : k <= j
<1>1. CASE h = {}
  BY <1>1 DEF HeaderBefore, HeaderIs
<1>2. CASE h # {}
  <2>1. \E j \in h : \A k \in h : k <= j
    <3>1. i - 1 \in Nat /\ h \subseteq 1 .. i - 1
      OBVIOUS
    <3> HIDE DEF h
    <3> QED BY <1>2, <3>1, IndexesHaveMax
  <2>2. c \in h /\ \A k \in h : k <= c
    BY <2>1
  <2>3. HeaderBefore(i) = queue[c].n
    BY <1>2 DEF HeaderBefore
  <2> HIDE DEF c
  <2>4. \A k \in c + 1 .. i - 1 : queue[k].kind # "vsh"
    BY <2>2
  <2> QED BY <2>2, <2>3, <2>4 DEF HeaderIs
<1> QED BY <1>1, <1>2

LEMMA FrameInvMatches == TypeOK /\ FrameInv => FramesMatchHeader
<1> SUFFICES ASSUME TypeOK, FrameInv, NEW i \in 1 .. Len(queue), queue[i].kind = "frame"
             PROVE  /\ HeaderBefore(i) = queue[i].vsh
                    /\ given.n < queue[i].n
                    /\ \A j \in 1 .. i - 1 : queue[j].n < queue[i].n
  BY DEF FramesMatchHeader
<1>1. queue \in Seq(Messages) /\ i \in Nat
  BY DEF TypeOK
<1>2. HeaderIs(queue, given.vsh, i, HeaderBefore(i))
  BY <1>1, HeaderBeforeIs
<1>3. HeaderIs(queue, given.vsh, i, queue[i].vsh)
  BY DEF FrameInv
<1>4. HeaderBefore(i) = queue[i].vsh
  BY <1>1, <1>2, <1>3, HeaderIsUnique
<1> QED BY <1>4 DEF FrameInv

(* What a shrunk queue holds: the last headers of the two kinds.              *)
LEMMA KeptIsLast ==
    ASSUME NEW q \in Seq(Messages), NEW kind \in {"vsh", "ash"},
           NEW time \in Times \cup {-1}
    PROVE  \/ /\ Kept(q, kind, time) = <<>>
              /\ \A i \in 1 .. Len(q) : q[i].kind # kind
           \/ \E i \in 1 .. Len(q), m \in Messages :
                 /\ Kept(q, kind, time) = <<m>>
                 /\ m.kind = kind /\ m.n = q[i].n
                 /\ IsLast(q, kind, i)
<1> DEFINE last == {i \in 1 .. Len(q) : IsLast(q, kind, i)}
           c == CHOOSE i \in last : TRUE
           kept == [q[c] EXCEPT !.ts = time]
           these == {i \in 1 .. Len(q) : q[i].kind = kind}
<1>1. CASE last = {}
  <2>1. these = {}
    <3>1. SUFFICES ASSUME these # {} PROVE FALSE
      OBVIOUS
    <3>2. Len(q) \in Nat /\ these \subseteq 1 .. Len(q)
      OBVIOUS
    <3>3. PICK i \in these : \A j \in these : j <= i
      <4> HIDE DEF these
      <4> QED BY <3>1, <3>2, IndexesHaveMax
    <3>4. \A j \in i + 1 .. Len(q) : q[j].kind # kind
      BY <3>3
    <3>5. i \in last
      BY <3>4 DEF IsLast
    <3> QED BY <1>1, <3>5
  <2> QED BY <1>1, <2>1 DEF Kept
<1>2. CASE last # {}
  <2>1. c \in 1 .. Len(q) /\ IsLast(q, kind, c)
    BY <1>2
  <2>2. q[c] \in Messages /\ q[c].kind = kind
    BY <2>1 DEF IsLast
  <2>3. kept \in Messages /\ kept.kind = kind /\ kept.n = q[c].n
    BY <2>2 DEF Messages
  <2>4. Kept(q, kind, time) = <<kept>>
    BY <1>2 DEF Kept
  <2> HIDE DEF kept, c
  <2> QED BY <2>1, <2>3, <2>4
<1> QED BY <1>1, <1>2

(* A queue that is shrunk has the same last header.                           *)
LEMMA ShrunkHeader ==
    ASSUME NEW q \in Seq(Messages), NEW time \in Times \cup {-1}, NEW first, NEW h,
           HeaderIs(q, first, Len(q) + 1, h)
    PROVE  HeaderIs(Shrunk(q, time), first, Len(Shrunk(q, time)) + 1, h)
<1> DEFINE v == Kept(q, "vsh", time)
           a == Kept(q, "ash", time)
           s == v \o a
<1>1. Shrunk(q, time) = s
  BY DEF Shrunk
<1>2. v \in Seq(Messages) /\ a \in Seq(Messages) /\ Len(v) <= 1
  BY KeptIsHeader
<1>3. \A i \in 1 .. Len(a) : a[i].kind = "ash"
  BY KeptHasKind
<1>4. \/ v = <<>> /\ \A i \in 1 .. Len(q) : q[i].kind # "vsh"
      \/ \E i \in 1 .. Len(q), m \in Messages :
            v = <<m>> /\ m.kind = "vsh" /\ m.n = q[i].n /\ IsLast(q, "vsh", i)
  BY KeptIsLast
<1> HIDE DEF v, a
<1>5. s \in Seq(Messages) /\ Len(s) = Len(v) + Len(a)
  BY <1>2
<1>6. \A i \in 1 .. Len(s) : s[i] = IF i <= Len(v) THEN v[i] ELSE a[i - Len(v)]
  BY <1>2
<1>7. \A i \in 1 .. Len(s) : i > Len(v) => s[i].kind # "vsh"
  <2> SUFFICES ASSUME NEW i \in 1 .. Len(s), i > Len(v) PROVE s[i].kind # "vsh"
    OBVIOUS
  <2>1. i - Len(v) \in 1 .. Len(a) /\ s[i] = a[i - Len(v)]
    BY <1>2, <1>5, <1>6
  <2> QED BY <1>3, <2>1
<1>8. CASE v = <<>> /\ \A i \in 1 .. Len(q) : q[i].kind # "vsh"
  <2>1. h = first
    BY <1>8 DEF HeaderIs
  <2>2. \A i \in 1 .. Len(s) : s[i].kind # "vsh"
    BY <1>5, <1>7, <1>8
  <2> HIDE DEF s
  <2> QED BY <1>1, <1>5, <2>1, <2>2 DEF HeaderIs
<1>9. ASSUME NEW i \in 1 .. Len(q), NEW m \in Messages,
             v = <<m>>, m.kind = "vsh", m.n = q[i].n, IsLast(q, "vsh", i)
      PROVE  HeaderIs(s, first, Len(s) + 1, h)
  <2>1. HeaderIs(q, first, Len(q) + 1, q[i].n)
    BY <1>9 DEF HeaderIs, IsLast
  <2>2. h = q[i].n
    BY <2>1, HeaderIsUnique
  <2>3. Len(v) = 1 /\ v[1] = m /\ 1 \in 1 .. Len(s)
    BY <1>2, <1>5, <1>9
  <2>4. s[1] = m
    BY <1>6, <2>3
  <2> HIDE DEF s
  <2>5. \A k \in 2 .. Len(s) : s[k].kind # "vsh"
    BY <1>5, <1>7, <2>3
  <2> QED BY <1>5, <1>9, <2>2, <2>3, <2>4, <2>5 DEF HeaderIs
<1> QED BY <1>1, <1>4, <1>8, <1>9

(* A shrunk queue holds no frame, and no message that was not queued.         *)
LEMMA ShrunkMessages ==
    ASSUME NEW q \in Seq(Messages), NEW time \in Times \cup {-1}
    PROVE  \A i \in 1 .. Len(Shrunk(q, time)) :
              /\ Shrunk(q, time)[i].kind # "frame"
              /\ \E j \in 1 .. Len(q) : Shrunk(q, time)[i].n = q[j].n
<1> DEFINE v == Kept(q, "vsh", time)
           a == Kept(q, "ash", time)
           Queued(m) == m.kind # "frame" /\ \E j \in 1 .. Len(q) : m.n = q[j].n
<1>1. v \in Seq(Messages) /\ a \in Seq(Messages)
  BY KeptIsHeader
<1>2. \A i \in 1 .. Len(v) : Queued(v[i])
  BY KeptIsLast
<1>3. \A i \in 1 .. Len(a) : Queued(a[i])
  BY KeptIsLast
<1>4. Shrunk(q, time) = v \o a
  BY DEF Shrunk
<1> HIDE DEF v, a, Queued
<1>5. ASSUME NEW i \in 1 .. Len(v \o a) PROVE Queued((v \o a)[i])
  <2>1. CASE i <= Len(v)
    BY <1>1, <1>2, <2>1
  <2>2. CASE i > Len(v)
    <3>1. i - Len(v) \in 1 .. Len(a) /\ (v \o a)[i] = a[i - Len(v)]
      BY <1>1, <2>2
    <3> QED BY <1>3, <3>1
  <2> QED BY <1>1, <2>1, <2>2
<1> QED BY <1>4, <1>5 DEF Queued

(* A message is the newest one, and has the header that is last with it.      *)
LEMMA EnqueueFrames ==
    ASSUME TypeOK, FrameInv, NEW m \in Messages, EnqueueMsg(m),
           m.n = n + 1, n' = n + 1, given' = given, m.vsh = last_vsh',
           last_vsh' = IF m.kind = "vsh" THEN n + 1 ELSE last_vsh
    PROVE  FrameInv'
<1> DEFINE start == IF IsAv(m) /\ av_start_time = -1 THEN m.ts ELSE av_start_time
           end   == IF IsAv(m) THEN m.ts ELSE av_end_time
           q     == Append(queue, m)
           L     == Len(queue)
           first == given.vsh
<1>1. start \in Times \cup {-1} /\ end \in Times \cup {-1}
  BY DEF TypeOK, Messages
<1>2. /\ n \in Nat /\ L \in Nat /\ queue \in Seq(Messages) /\ given.n \in Nat
      /\ \A i \in 1 .. L : queue[i].n \in Nat /\ queue[i].n <= n
  <2>1. \A x \in Messages : x.n \in Nat
    BY PlayerAssumption DEF Messages
  <2>2. queue \in Seq(Messages)
    BY DEF TypeOK
  <2> QED BY <2>1, <2>2, PlayerAssumption DEF TypeOK, FrameInv
<1>3. q \in Seq(Messages) /\ Len(q) = L + 1 /\ q[L + 1] = m
      /\ \A i \in 1 .. L : q[i] = queue[i]
  BY <1>2
<1>4. IF Overflows(start, end) THEN queue' = Shrunk(q, end) ELSE queue' = q
  BY DEF EnqueueMsg
<1>5. \A i \in 1 .. L + 1 : \A h : HeaderIs(queue, first, i, h) => HeaderIs(q, first, i, h)
  <2> HIDE DEF q
  <2> SUFFICES ASSUME NEW i \in 1 .. L + 1, NEW h, HeaderIs(queue, first, i, h)
               PROVE  HeaderIs(q, first, i, h)
    OBVIOUS
  <2>1. \A j \in 1 .. i - 1 : q[j] = queue[j]
    BY <1>2, <1>3
  <2>2. CASE h = first /\ \A j \in 1 .. i - 1 : queue[j].kind # "vsh"
    BY <2>1, <2>2 DEF HeaderIs
  <2>3. ASSUME NEW j \in 1 .. i - 1, queue[j].kind = "vsh", queue[j].n = h,
               \A k \in j + 1 .. i - 1 : queue[k].kind # "vsh"
        PROVE  HeaderIs(q, first, i, h)
    <3>1. \A k \in j + 1 .. i - 1 : q[k] = queue[k]
      BY <1>2, <2>1
    <3> QED BY <2>1, <2>3, <3>1 DEF HeaderIs
  <2>4. \/ h = first /\ \A j \in 1 .. i - 1 : queue[j].kind # "vsh"
        \/ \E j \in 1 .. i - 1 :
              /\ queue[j].kind = "vsh" /\ queue[j].n = h
              /\ \A k \in j + 1 .. i - 1 : queue[k].kind # "vsh"
    BY DEF HeaderIs
  <2> QED BY <2>2, <2>3, <2>4
<1>6. HeaderIs(q, first, L + 1, last_vsh)
  <2>1. HeaderIs(queue, first, L + 1, last_vsh) /\ L + 1 \in 1 .. L + 1
    BY <1>2 DEF FrameInv
  <2> QED BY <1>5, <2>1
<1> HIDE DEF start, end, q
<1>7. HeaderIs(q, first, L + 2, last_vsh')
  <2>1. CASE m.kind = "vsh"
    <3>1. L + 1 \in 1 .. L + 1 /\ L + 2 - 1 = L + 1
      BY <1>2
    <3> QED BY <1>2, <1>3, <2>1, <3>1 DEF HeaderIs
  <2>2. CASE m.kind # "vsh"
    <3>1. last_vsh' = last_vsh
      BY <2>2
    <3>2. CASE last_vsh = first /\ \A j \in 1 .. L + 1 - 1 : q[j].kind # "vsh"
      BY <1>2, <1>3, <2>2, <3>1, <3>2 DEF HeaderIs
    <3>3. ASSUME NEW j \in 1 .. L + 1 - 1, q[j].kind = "vsh", q[j].n = last_vsh,
                 \A k \in j + 1 .. L + 1 - 1 : q[k].kind # "vsh"
          PROVE  HeaderIs(q, first, L + 2, last_vsh')
      <4>1. \A k \in j + 1 .. L + 2 - 1 : q[k].kind # "vsh"
        <5> SUFFICES ASSUME NEW k \in j + 1 .. L + 2 - 1 PROVE q[k].kind # "vsh"
          OBVIOUS
        <5>1. k \in j + 1 .. L + 1 - 1 \/ k = L + 1
          <6>1. L \in Nat
            BY <1>2
          <6> HIDE DEF L
          <6> QED BY <6>1
        <5> QED BY <1>3, <2>2, <3>3, <5>1
      <4> QED BY <1>2, <3>1, <3>3, <4>1 DEF HeaderIs
    <3> QED BY <1>6, <3>2, <3>3 DEF HeaderIs
  <2> QED BY <2>1, <2>2
<1>8. CASE Overflows(start, end)
  <2>1. end \in Times \cup {-1}
    BY <1>1
  <2> DEFINE s == Shrunk(q, end)
  <2>2. queue' = s
    BY <1>4, <1>8
  <2>3. HeaderIs(s, first, Len(s) + 1, last_vsh')
    <3>1. HeaderIs(q, first, Len(q) + 1, last_vsh')
      BY <1>2, <1>3, <1>7
    <3> DEFINE h == last_vsh'
    <3> HIDE DEF h, first
    <3> QED BY <1>3, <2>1, <3>1, ShrunkHeader DEF h
  <2>4. \A i \in 1 .. Len(s) :
           s[i].kind # "frame" /\ \E j \in 1 .. Len(q) : s[i].n = q[j].n
    BY <1>3, <2>1, ShrunkMessages
  <2>5. \A j \in 1 .. Len(q) : q[j].n <= n'
    BY <1>2, <1>3
  <2> HIDE DEF s
  <2> QED BY <1>2, <2>2, <2>3, <2>4, <2>5 DEF FrameInv
<1>9. CASE ~Overflows(start, end)
  <2>1. queue' = q
    BY <1>4, <1>9
  <2>2. ASSUME NEW i \in 1 .. Len(q), q[i].kind = "frame"
        PROVE  /\ HeaderIs(q, first, i, q[i].vsh)
               /\ given.n < q[i].n
               /\ \A j \in 1 .. i - 1 : q[j].n < q[i].n
    <3>1. CASE i \in 1 .. L
      <4>1. i \in 1 .. L + 1 /\ q[i] = queue[i] /\ \A j \in 1 .. i - 1 : q[j] = queue[j]
        BY <1>2, <1>3, <3>1
      <4>2. HeaderIs(queue, first, i, queue[i].vsh)
        BY <2>2, <3>1, <4>1 DEF FrameInv
      <4> QED BY <1>5, <2>2, <3>1, <4>1, <4>2 DEF FrameInv
    <3>2. CASE i = L + 1
      <4>1. last_vsh' = last_vsh /\ q[i] = m
        BY <1>3, <2>2, <3>2
      <4>2. given.n <= n
        BY DEF FrameInv
      <4> QED BY <1>2, <1>3, <1>6, <3>2, <4>1, <4>2
    <3> QED BY <1>2, <1>3, <3>1, <3>2
  <2>3. HeaderIs(q, first, Len(q) + 1, last_vsh')
    BY <1>2, <1>3, <1>7
  <2>4. given.n <= n' /\ \A i \in 1 .. Len(q) : q[i].n <= n'
    BY <1>2, <1>3 DEF FrameInv
  <2> QED BY <2>1, <2>2, <2>3, <2>4 DEF FrameInv
<1> QED BY <1>8, <1>9

(* What is taken off the front of the queue is given in its order, and the    *)
(* header of every message left is still the same.                            *)
LEMMA DumpFrames ==
    ASSUME TypeOK, FrameInv, queue # <<>>, NEW max \in DumpSizes, DumpPackets(max)
    PROVE  FrameInv'
<1> DEFINE count == IF max < Len(queue) THEN max ELSE Len(queue)
           Last(S) == CHOOSE i \in S : \A j \in S : j <= i
           vshs  == {i \in 1 .. count : queue[i].kind = "vsh"}
           L     == Len(queue)
<1>1. queue \in Seq(Messages) /\ L \in Nat /\ count \in 1 .. L
  BY PlayerAssumption DEF TypeOK
<1>2. /\ queue' = SubSeq(queue, count + 1, L)
      /\ given'.n = queue[count].n
      /\ given'.vsh = IF vshs = {} THEN given.vsh ELSE queue[Last(vshs)].n
      /\ n' = n /\ last_vsh' = last_vsh
  BY <1>1 DEF DumpPackets
<1>3. HeaderIs(queue, given.vsh, count + 1, given'.vsh)
  <2>1. CASE vshs = {}
    BY <1>1, <1>2, <2>1 DEF HeaderIs
  <2>2. CASE vshs # {}
    <3>1. count \in Nat /\ vshs \subseteq 1 .. count
      BY <1>1
    <3>2. \E i \in vshs : \A j \in vshs : j <= i
      <4> HIDE DEF vshs, count
      <4> QED BY <2>2, <3>1, IndexesHaveMax
    <3>3. Last(vshs) \in vshs /\ \A j \in vshs : j <= Last(vshs)
      BY <3>2
    <3>4. given'.vsh = queue[Last(vshs)].n
      BY <1>2, <2>2
    <3> DEFINE l == Last(vshs)
    <3>5. l \in 1 .. count /\ queue[l].kind = "vsh" /\ \A j \in vshs : j <= l
      BY <3>3
    <3> HIDE DEF l, Last, count
    <3>6. \A j \in l + 1 .. count : queue[j].kind # "vsh"
      BY <3>1, <3>5
    <3>7. given'.vsh = queue[l].n
      BY <3>4 DEF l
    <3> HIDE DEF vshs
    <3>8. (count + 1) - 1 = count
      BY <3>1
    <3>9. /\ l \in 1 .. (count + 1) - 1 /\ queue[l].kind = "vsh" /\ queue[l].n = given'.vsh
          /\ \A j \in l + 1 .. (count + 1) - 1 : queue[j].kind # "vsh"
      BY <3>5, <3>6, <3>7, <3>8
    <3> QED BY <3>9 DEF HeaderIs
  <2> QED BY <2>1, <2>2
<1> HIDE DEF count, Last, vshs
<1>4. Len(queue') = L - count /\ \A i \in 1 .. Len(queue') : queue'[i] = queue[i + count]
  BY <1>1, <1>2
<1>5. ASSUME NEW i \in 1 .. Len(queue') + 1, NEW h,
             HeaderIs(queue, given.vsh, i + count, h)
      PROVE  HeaderIs(queue', given'.vsh, i, h)
  <2>1. CASE h = given.vsh /\ \A j \in 1 .. (i + count) - 1 : queue[j].kind # "vsh"
    <3>1. HeaderIs(queue, given.vsh, count + 1, h)
      BY <1>1, <2>1 DEF HeaderIs
    <3>2. h = given'.vsh
      BY <1>1, <1>3, <3>1, HeaderIsUnique
    <3>3. \A j \in 1 .. i - 1 : queue'[j].kind # "vsh"
      <4> SUFFICES ASSUME NEW j \in 1 .. i - 1 PROVE queue'[j].kind # "vsh"
        OBVIOUS
      <4>1. j + count \in 1 .. (i + count) - 1 /\ j \in 1 .. Len(queue')
        BY <1>1, <1>4
      <4> QED BY <1>4, <2>1, <4>1
    <3> QED BY <3>2, <3>3 DEF HeaderIs
  <2>2. ASSUME NEW j \in 1 .. (i + count) - 1, queue[j].kind = "vsh", queue[j].n = h,
               \A k \in j + 1 .. (i + count) - 1 : queue[k].kind # "vsh"
        PROVE  HeaderIs(queue', given'.vsh, i, h)
    <3>1. CASE j <= count
      <4>1. HeaderIs(queue, given.vsh, count + 1, h)
        BY <1>1, <2>2, <3>1 DEF HeaderIs
      <4>2. h = given'.vsh
        BY <1>1, <1>3, <4>1, HeaderIsUnique
      <4>3. \A k \in 1 .. i - 1 : queue'[k].kind # "vsh"
        <5> SUFFICES ASSUME NEW k \in 1 .. i - 1 PROVE queue'[k].kind # "vsh"
          OBVIOUS
        <5>1. k + count \in j + 1 .. (i + count) - 1 /\ k \in 1 .. Len(queue')
          BY <1>1, <1>4, <3>1
        <5> QED BY <1>4, <2>2, <5>1
      <4> QED BY <4>2, <4>3 DEF HeaderIs
    <3>2. CASE j > count
      <4>1. j - count \in 1 .. i - 1 /\ j - count \in 1 .. Len(queue')
            /\ j - count + count = j
        BY <1>1, <1>4, <3>2
      <4>2. queue'[j - count] = queue[j]
        BY <1>4, <4>1
      <4>3. \A k \in j - count + 1 .. i - 1 : queue'[k].kind # "vsh"
        <5> SUFFICES ASSUME NEW k \in j - count + 1 .. i - 1 PROVE queue'[k].kind # "vsh"
          OBVIOUS
        <5>1. k + count \in j + 1 .. (i + count) - 1 /\ k \in 1 .. Len(queue')
          BY <1>1, <1>4, <3>2
        <5> QED BY <1>4, <2>2, <5>1
      <4> QED BY <2>2, <4>1, <4>2, <4>3 DEF HeaderIs
    <3> QED BY <1>1, <3>1, <3>2
  <2>3. \/ h = given.vsh /\ \A j \in 1 .. (i + count) - 1 : queue[j].kind # "vsh"
        \/ \E j \in 1 .. (i + count) - 1 :
              /\ queue[j].kind = "vsh" /\ queue[j].n = h
              /\ \A k \in j + 1 .. (i + count) - 1 : queue[k].kind # "vsh"
    BY <1>5 DEF HeaderIs
  <2> QED BY <2>1, <2>2, <2>3
<1>6. HeaderIs(queue', given'.vsh, Len(queue') + 1, last_vsh')
  <2>1. Len(queue') + 1 \in 1 .. Len(queue') + 1 /\ Len(queue') + 1 + count = L + 1
    BY <1>1, <1>4
  <2>2. HeaderIs(queue, given.vsh, L + 1, last_vsh)
    BY DEF FrameInv
  <2> QED BY <1>2, <1>5, <2>1, <2>2
<1>7. ASSUME NEW i \in 1 .. Len(queue'), queue'[i].kind = "frame"
      PROVE  /\ HeaderIs(queue', given'.vsh, i, queue'[i].vsh)
             /\ given'.n < queue'[i].n
             /\ \A j \in 1 .. i - 1 : queue'[j].n < queue'[i].n
  <2>1. i + count \in 1 .. L /\ queue'[i] = queue[i + count] /\ i \in 1 .. Len(queue') + 1
        /\ count \in 1 .. (i + count) - 1
    BY <1>1, <1>4
  <2>2. /\ HeaderIs(queue, given.vsh, i + count, queue[i + count].vsh)
        /\ \A j \in 1 .. (i + count) - 1 : queue[j].n < queue[i + count].n
    BY <1>7, <2>1 DEF FrameInv
  <2>3. \A j \in 1 .. i - 1 : queue'[j].n < queue'[i].n
    <3> SUFFICES ASSUME NEW j \in 1 .. i - 1 PROVE queue'[j].n < queue'[i].n
      OBVIOUS
    <3>1. j + count \in 1 .. (i + count) - 1 /\ j \in 1 .. Len(queue')
      BY <1>1, <1>4
    <3> QED BY <1>4, <2>1, <2>2, <3>1
  <2> QED BY <1>2, <1>5, <2>1, <2>2, <2>3
<1>8. given'.n <= n' /\ \A i \in 1 .. Len(queue') : queue'[i].n <= n'
  <2>1. \A i \in 1 .. L : queue[i].n <= n
    BY DEF FrameInv
  <2>2. given'.n <= n'
    BY <1>1, <1>2, <2>1
  <2>3. \A i \in 1 .. Len(queue') : i + count \in 1 .. L
    BY <1>1, <1>4
  <2> QED BY <1>2, <1>4, <2>1, <2>2, <2>3
<1> QED BY <1>6, <1>7, <1>8 DEF FrameInv

LEMMA FramesInit == Init => FrameInv
BY DEF Init, FrameInv, HeaderIs

LEMMA FramesNext == TypeOK /\ FrameInv /\ [Next]_vars => FrameInv'
<1> SUFFICES ASSUME TypeOK, FrameInv, [Next]_vars PROVE FrameInv'
  OBVIOUS
<1>1. ASSUME NEW kind \in Kinds, NEW ts \in Times, NEW atc \in BOOLEAN,
             Enqueue(kind, ts, atc)
      PROVE  FrameInv'
  <2> DEFINE m == [kind |-> kind, ts |-> ts, n |-> n + 1,
                   vsh |-> IF kind = "vsh" THEN n + 1 ELSE last_vsh]
  <2>1. n \in Nat /\ last_vsh \in Nat /\ last_vsh <= n /\ n < MaxMsgs
    BY <1>1, PlayerAssumption DEF Enqueue, TypeOK
  <2>2. ts \in Times
    OBVIOUS
  <2>3. m \in Messages
    BY <2>1, <2>2, PlayerAssumption DEF Messages
  <2>4. EnqueueMsg(m)
    BY <1>1 DEF Enqueue
  <2>5. /\ m.n = n + 1 /\ n' = n + 1 /\ given' = given /\ m.vsh = last_vsh'
        /\ last_vsh' = IF m.kind = "vsh" THEN n + 1 ELSE last_vsh
    BY <1>1 DEF Enqueue
  <2> HIDE DEF m
  <2> QED BY <2>3, <2>4, <2>5, EnqueueFrames
<1>2. CASE UNCHANGED messages
  BY <1>2 DEF messages, FrameInv
<1>3. CASE Deliver
  <2>1. CASE paused \/ queue = <<>>
    BY <1>2, <1>3, <2>1 DEF Deliver
  <2>2. CASE ~(paused \/ queue = <<>>)
    BY <1>3, <2>2, DumpFrames DEF Deliver
  <2> QED BY <2>1, <2>2
<1>4. CASE Sender \/ Expire
  <2>1. Deliver \/ UNCHANGED messages
    BY <1>4 DEF Sender, Expired, Quit, ProcessControl, Replied, SendFails,
       QuitForError, Wait, WaitReturns, SleepReturns, Sent, Leave, Expire
  <2> QED BY <1>2, <1>3, <2>1
<1>5. CASE (\E c \in Controls : Receive(c)) \/ RecvWakes \/ ReceiveFails \/ SleepStopped
  BY <1>2, <1>5 DEF Receive, RecvWakes, ReceiveFails, SleepStopped, ReceiverOnly
<1>6. CASE UNCHANGED vars
  BY <1>2, <1>6 DEF vars, messages
<1> QED BY <1>1, <1>4, <1>5, <1>6 DEF Next

(* However often the queue is shrunk and however few messages are dumped at   *)
(* once, what a player is sent before a frame ends with the video header of   *)
(* that frame, and no frame comes twice or out of order.                      *)
THEOREM PlayerFramesMatchHeader == Spec => []FramesMatchHeader
<1>1. Spec => [](TypeOK /\ FrameInv)
  BY PlayerTypes, FramesInit, FramesNext, PTL DEF Spec
<1> QED BY <1>1, FrameInvMatches, PTL
-----------------------------------------------------------------------------
(* How far a player whose connection was expired is from stopping.  It leaves   *)
(* at the top of its loop, wherever it was: a control message that waits is    *)
(* processed before, and at most one wait or send comes after it.             *)
ToStop(p, waits) ==
    CASE p = "top" -> 1
      [] p \in {"sleeping", "sending"} -> 2
      [] p \in {"waiting", "signalled"} -> 3
      [] p = "control" /\ waits = <<>> -> 4
      [] p = "control" /\ waits # <<>> -> 5
      [] p = "replying" -> 6
      [] OTHER -> 0

(* And one whose receiver has ended: it processes what is left and leaves.     *)
ToEnd(p, waits) ==
    CASE p \in {"stopping", "gone"} -> 0
      [] p \in {"top", "control"} -> 2 * Len(waits) + 1
      [] p \in {"waiting", "signalled"} -> 2 * Len(waits) + 3
      [] OTHER -> 2 * Len(waits) + 2

(* Neither is taken further away by a step of anybody, and each step of its own *)
(* brings it nearer.                                                          *)
LeaverAdvances ==
    [][/\ expired /\ pc \in Playing =>
            /\ expired'
            /\ ToStop(pc', control') <= ToStop(pc, control)
            /\ Sender => ToStop(pc', control') < ToStop(pc, control)
       /\ recv_error /\ pc \in Playing =>
            /\ recv_error'
            /\ ToEnd(pc', control') <= ToEnd(pc, control)
            /\ Sender => ToEnd(pc', control') < ToEnd(pc, control)]_vars

(* The error of the receiver is the last thing it says.                      *)
ErrorEndsReceiver == recv_error => recv = "ended"

LEMMA ErrorEndsReceiverKeeps == ErrorEndsReceiver /\ [Next]_vars => ErrorEndsReceiver'
<1> SUFFICES ASSUME ErrorEndsReceiver, [Next]_vars PROVE ErrorEndsReceiver'
  OBVIOUS
<1>1. ASSUME recv_error' = recv_error, recv' = recv PROVE ErrorEndsReceiver'
  BY <1>1 DEF ErrorEndsReceiver
<1>2. ASSUME NEW kind \in Kinds, NEW ts \in Times, NEW atc \in BOOLEAN, Enqueue(kind, ts, atc)
      PROVE  ErrorEndsReceiver'
  BY <1>1, <1>2 DEF Enqueue, receiver
<1>3. CASE Sender
  <2>1. recv_error' = recv_error /\ recv' = recv
    BY <1>3 DEF Sender, Expired, ProcessControl, Replied, SendFails, QuitForError, Quit, Wait,
       WaitReturns, SleepReturns, Sent, Leave, receiver
  <2> QED BY <1>1, <2>1
<1>4. CASE Expire
  BY <1>1, <1>4 DEF Expire, receiver
<1>5. ASSUME NEW c \in Controls, Receive(c) PROVE ErrorEndsReceiver'
  BY <1>5 DEF Receive, ErrorEndsReceiver
<1>6. CASE RecvWakes \/ ReceiveFails \/ SleepStopped
  BY <1>6 DEF RecvWakes, ReceiveFails, SleepStopped, ErrorEndsReceiver
<1>7. CASE UNCHANGED vars
  BY <1>1, <1>7 DEF vars
<1> QED BY <1>2, <1>3, <1>4, <1>5, <1>6, <1>7 DEF Next

(* The control message that is processed is the only one.                     *)
LEMMA OnlyOne ==
    ASSUME NEW c \in Seq(Controls), c # <<>>, Len(c) <= 1
    PROVE  Len(c) = 1 /\ Tail(c) = <<>> /\ Len(Tail(c)) = 0
<1> DEFINE len == Len(c)
<1>1. len \in Nat /\ len # 0 /\ len <= 1
  OBVIOUS
<1> HIDE DEF len
<1>2. len = 1
  BY <1>1
<1>3. Tail(c) \in Seq(Controls) /\ Len(Tail(c)) = 0
  BY <1>2 DEF len
<1> DEFINE rest == Tail(c)
<1>4. rest \in Seq(Controls) /\ Len(rest) = 0
  BY <1>3
<1> HIDE DEF rest
<1>5. rest = <<>>
  BY <1>4
<1> QED BY <1>2, <1>4, <1>5 DEF len, rest

(* A step of the player itself brings it nearer.                              *)
LEMMA SenderAdvances ==
    ASSUME TypeOK, Heard, Sender, pc \in Playing
    PROVE  /\ expired => expired' /\ ToStop(pc', control') < ToStop(pc, control)
           /\ recv_error => recv_error' /\ ToEnd(pc', control') < ToEnd(pc, control)
<1>1. control \in Seq(Controls) /\ Len(control) <= 1
  BY DEF TypeOK, Heard, OneControlAtATime
<1>2. expired' = expired /\ recv_error' = recv_error
  BY DEF Sender, Expired, ProcessControl, Replied, SendFails, QuitForError, Quit, Wait,
     WaitReturns, SleepReturns, Sent, Leave, receiver
<1>3. pc \in {"top", "control", "replying", "waiting", "signalled", "sleeping", "sending"}
  BY DEF Playing
<1>4. CASE ProcessControl
  <2>1. control' = Tail(control) /\ control # <<>> /\ Pulled
    BY <1>4 DEF ProcessControl
  <2>2. pc' \in {"stopping"} \cup {"control"} \cup Answer
    BY <1>4 DEF ProcessControl
  <2>3. control' = <<>> /\ Len(control') = 0 /\ Len(control) = 1
    BY <1>1, <2>1, OnlyOne
  <2>4. expired => pc = "control" /\ pc' \in {"stopping", "control"}
    BY <2>1, <2>2 DEF Pulled, Answer
  <2>5. pc' \in {"stopping", "control", "replying"} /\ pc \in {"top", "control"}
    BY <2>1, <2>2 DEF Pulled, Answer
  <2>6. ToEnd(pc, control) = 3 /\ ToEnd(pc', control') \in {0, 1, 2}
    BY <2>3, <2>5 DEF ToEnd
  <2>7. expired => ToStop(pc, control) = 5 /\ ToStop(pc', control') \in {0, 4}
    BY <2>1, <2>3, <2>4 DEF ToStop
  <2> QED BY <1>2, <2>6, <2>7
<1>5. CASE ~ProcessControl
  <2>1. control' = control
    BY <1>5 DEF Sender, Expired, Replied, SendFails, QuitForError, Quit, Wait,
       WaitReturns, SleepReturns, Sent, Leave, receiver
  <2>2. Len(control) \in Nat
    BY <1>1
  <2>3. CASE pc' = "stopping"
    BY <1>2, <1>3, <2>1, <2>2, <2>3 DEF ToStop, ToEnd
  <2>4. CASE pc' # "stopping"
    <3>1. \/ Replied \/ (\E min \in MinMsgs : Wait(min)) \/ WaitReturns \/ SleepReturns \/ Sent
      BY <1>3, <1>5, <2>4 DEF Sender, Expired, SendFails, QuitForError, Quit, Leave
    <3>2. CASE Replied
      BY <1>2, <2>1, <2>2, <3>2 DEF Replied, ToStop, ToEnd
    <3>3. ASSUME NEW min \in MinMsgs, Wait(min)
          PROVE  /\ ~recv_error /\ control = <<>> /\ (expired => pc = "control")
                 /\ pc' \in {"top", "sending", "sleeping", "waiting"}
      BY <3>3 DEF Wait, Deliver, Pulled
    <3>4. CASE WaitReturns
      <4>1. pc' \in {"top", "sending"} /\ pc \in {"waiting", "signalled"}
        BY <3>4 DEF WaitReturns, Woken, Deliver
      <4>2. ToStop(pc, control) = 3 /\ ToStop(pc', control') \in {1, 2}
        BY <4>1 DEF ToStop
      <4>3. ToEnd(pc', control') < ToEnd(pc, control)
        BY <2>1, <2>2, <4>1 DEF ToEnd
      <4> QED BY <1>2, <4>2, <4>3
    <3>5. CASE SleepReturns \/ Sent
      BY <1>2, <2>1, <2>2, <3>5 DEF SleepReturns, Sent, ToStop, ToEnd
    <3> QED BY <1>2, <2>1, <3>1, <3>2, <3>3, <3>4, <3>5 DEF ToStop
  <2> QED BY <2>3, <2>4
<1> QED BY <1>4, <1>5

(* A step of anybody else takes it no further away.                           *)
LEMMA OtherAdvances ==
    ASSUME TypeOK, Heard, ErrorEndsReceiver, [Next]_vars, ~Sender, pc \in Playing
    PROVE  /\ expired => expired' /\ ToStop(pc', control') <= ToStop(pc, control)
           /\ recv_error => recv_error' /\ ToEnd(pc', control') <= ToEnd(pc, control)
<1>1. control \in Seq(Controls) /\ Len(control) \in Nat
  BY DEF TypeOK
<1>2. ToStop(pc, control) \in Nat /\ ToEnd(pc, control) \in Nat
  BY <1>1 DEF ToStop, ToEnd
<1>3. ASSUME Blocked, pc' = pc \/ (pc = "waiting" /\ pc' = "signalled"),
             expired => expired', recv_error => recv_error' /\ control' = control
      PROVE  /\ expired => expired' /\ ToStop(pc', control') <= ToStop(pc, control)
             /\ recv_error => recv_error' /\ ToEnd(pc', control') <= ToEnd(pc, control)
  BY <1>1, <1>2, <1>3 DEF Blocked, ToStop, ToEnd
<1>4. ASSUME NEW kind \in Kinds, NEW ts \in Times, NEW atc \in BOOLEAN, Enqueue(kind, ts, atc)
      PROVE  /\ expired => expired' /\ ToStop(pc', control') <= ToStop(pc, control)
             /\ recv_error => recv_error' /\ ToEnd(pc', control') <= ToEnd(pc, control)
  <2>1. /\ Blocked /\ expired' = expired /\ recv_error' = recv_error /\ control' = control
    BY <1>4 DEF Enqueue, receiver
  <2>2. pc' = pc \/ (pc = "waiting" /\ pc' = "signalled")
    BY <1>4 DEF Enqueue, Wakeup, Signal
  <2> QED BY <1>3, <2>1, <2>2
<1>5. CASE Expire
  BY <1>3, <1>5 DEF Expire, receiver
<1>6. ASSUME NEW c \in Controls, Receive(c)
      PROVE  /\ expired => expired' /\ ToStop(pc', control') <= ToStop(pc, control)
             /\ recv_error => recv_error' /\ ToEnd(pc', control') <= ToEnd(pc, control)
  <2>1. Blocked /\ expired' = expired /\ ~recv_error
    BY <1>6 DEF Receive, ReceiverOnly, ErrorEndsReceiver
  <2>2. pc' = pc \/ (pc = "waiting" /\ pc' = "signalled")
    BY <1>6 DEF Receive, Wakeup, Signal
  <2> QED BY <1>3, <2>1, <2>2
<1>7. CASE RecvWakes
  BY <1>3, <1>7 DEF RecvWakes, ReceiverOnly
<1>8. CASE ReceiveFails
  <2>1. Blocked /\ expired' = expired /\ control' = control /\ recv_error'
    BY <1>8 DEF ReceiveFails, ReceiverOnly
  <2>2. pc' = pc \/ (pc = "waiting" /\ pc' = "signalled")
    BY <1>8 DEF ReceiveFails, Wakeup, Signal
  <2> QED BY <1>3, <2>1, <2>2
<1>9. CASE SleepStopped
  BY <1>9 DEF SleepStopped, Playing
<1>10. CASE UNCHANGED vars
  BY <1>2, <1>10 DEF vars
<1> QED BY <1>4, <1>5, <1>6, <1>7, <1>8, <1>9, <1>10 DEF Next

(* A player that is to leave is at most a few steps from leaving, and nothing   *)
(* that the source or the client does takes it further away.                  *)
THEOREM PlayerLeavesSoon == Spec => LeaverAdvances
<1>1. Init => ErrorEndsReceiver
  BY DEF Init, ErrorEndsReceiver
<1> DEFINE Advances ==
      /\ expired /\ pc \in Playing =>
            /\ expired'
            /\ ToStop(pc', control') <= ToStop(pc, control)
            /\ Sender => ToStop(pc', control') < ToStop(pc, control)
      /\ recv_error /\ pc \in Playing =>
            /\ recv_error'
            /\ ToEnd(pc', control') <= ToEnd(pc, control)
            /\ Sender => ToEnd(pc', control') < ToEnd(pc, control)
<1>2. ASSUME TypeOK, Heard, ErrorEndsReceiver, Sender
      PROVE  Advances
  <2> SUFFICES ASSUME pc \in Playing PROVE Advances
    OBVIOUS
  <2>1. TypeOK'
    BY <1>2, TypeNext DEF Next
  <2>2. control \in Seq(Controls) /\ control' \in Seq(Controls)
    BY <1>2, <2>1 DEF TypeOK
  <2>3. /\ ToStop(pc, control) \in Nat /\ ToStop(pc', control') \in Nat
        /\ ToEnd(pc, control) \in Nat /\ ToEnd(pc', control') \in Nat
    BY <2>2 DEF ToStop, ToEnd
  <2> QED BY <1>2, <2>3, SenderAdvances
<1>3. TypeOK /\ Heard /\ ErrorEndsReceiver /\ [Next]_vars => [Advances]_vars
  BY <1>2, OtherAdvances
<1> QED BY <1>1, <1>3, PlayerTypes, PlayerHears, ErrorEndsReceiverKeeps, PTL DEF Spec, LeaverAdvances
=============================================================================

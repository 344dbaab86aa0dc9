-------------------------- MODULE PublishEdge_proofs --------------------------
(***************************************************************************)
(* One client publishes through an edge, over an upstream that stays open,  *)
(* and the origin gets its messages; whoever is to leave comes ever nearer  *)
(* to having left.                                                        *)
(***************************************************************************)
EXTENDS PublishEdge, TLAPS, SequenceTheorems

(* What the three coroutines know of each other.                             *)
Owned ==
    /\ \A c \in Clients : recv[c] = "receiving" => pc[c] \in {"publishing", "joining"}
    /\ fwd # "send" => batch = <<>>
    /\ sdk # "publishing" => queue = <<>>

IInv == TypeOK /\ OnePublisher /\ UpstreamIsThere /\ Owned

(* The header that shrink() keeps is one of the queue.                        *)
LEMMA LastIsHeader ==
    ASSUME NEW q \in Seq(Messages), NEW kind \in {"vsh", "ash"}
    PROVE  /\ Last(q, kind) \in Seq(Messages)
           /\ \A i \in 1 .. Len(Last(q, kind)) :
                /\ Last(q, kind)[i].kind = kind
                /\ \E j \in 1 .. Len(q) : Last(q, kind)[i] = q[j]
<1> DEFINE last == {i \in 1 .. Len(q) :
                      q[i].kind = kind /\ \A j \in i + 1 .. Len(q) : q[j].kind # kind}
           k == CHOOSE i \in last : TRUE
<1>1. CASE last = {}
  BY <1>1 DEF Last
<1>2. CASE last # {}
  <2>1. k \in last
    BY <1>2
  <2>2. k \in 1 .. Len(q) /\ q[k].kind = kind /\ q[k] \in Messages
    BY <2>1
  <2>3. Last(q, kind) = <<q[k]>>
    BY <1>2 DEF Last
  <2> HIDE DEF last, k
  <2> QED BY <2>2, <2>3
<1> QED BY <1>1, <1>2

LEMMA ShrunkIsHeaders ==
    ASSUME NEW q \in Seq(Messages)
    PROVE  /\ Shrunk(q) \in Seq(Messages)
           /\ \A i \in 1 .. Len(Shrunk(q)) :
                /\ Shrunk(q)[i].kind # "frame"
                /\ \E j \in 1 .. Len(q) : Shrunk(q)[i] = q[j]
<1> DEFINE v == Last(q, "vsh")
           a == Last(q, "ash")
<1>1. /\ v \in Seq(Messages)
      /\ \A i \in 1 .. Len(v) : v[i].kind = "vsh" /\ \E j \in 1 .. Len(q) : v[i] = q[j]
  BY LastIsHeader
<1>2. /\ a \in Seq(Messages)
      /\ \A i \in 1 .. Len(a) : a[i].kind = "ash" /\ \E j \in 1 .. Len(q) : a[i] = q[j]
  BY LastIsHeader
<1>3. Shrunk(q) = v \o a
  BY DEF Shrunk
<1> HIDE DEF v, a
<1>4. /\ v \o a \in Seq(Messages) /\ Len(v \o a) = Len(v) + Len(a)
      /\ \A i \in 1 .. Len(v) + Len(a) :
           (v \o a)[i] = IF i <= Len(v) THEN v[i] ELSE a[i - Len(v)]
  BY <1>1, <1>2, ConcatProperties
<1>5. ASSUME NEW i \in 1 .. Len(v \o a)
      PROVE  (v \o a)[i].kind # "frame" /\ \E j \in 1 .. Len(q) : (v \o a)[i] = q[j]
  <2>1. CASE i <= Len(v)
    BY <1>1, <1>4, <2>1
  <2>2. CASE i > Len(v)
    BY <1>1, <1>2, <1>4, <2>2
  <2> QED BY <1>1, <1>2, <2>1, <2>2
<1> QED BY <1>3, <1>4, <1>5

(* A step is one of these.                                                   *)
LEMMA Steps ==
    ASSUME [Next]_vars
    PROVE  \/ \E c \in Clients :
                \/ Acquire(c) \/ StartFails(c) \/ Started(c) \/ Leave(c) \/ Stay(c)
                \/ Release(c) \/ Released(c) \/ Quit(c)
                \/ \E kind \in Kinds : Proxy(c, kind)
                \/ ProxyIgnored(c) \/ ProxyFails(c) \/ ReceiveFails(c)
           \/ ForwarderRuns \/ UpstreamFails \/ Forward \/ Sent \/ SendFails
           \/ UNCHANGED vars
BY DEF Next, Connection, Forwarder

LEMMA TypesHold == TypeOK /\ UpstreamIsThere /\ [Next]_vars => TypeOK'
<1> SUFFICES ASSUME TypeOK, UpstreamIsThere, [Next]_vars PROVE TypeOK'
  OBVIOUS
<1> USE PublishEdgeAssumption
<1>1. ASSUME NEW c \in Clients, Acquire(c) PROVE TypeOK'
  BY <1>1 DEF TypeOK, Acquire, Entered, connection, forwarder, messages,
     Publishing
<1>2. ASSUME NEW c \in Clients, StartFails(c) PROVE TypeOK'
  BY <1>2 DEF TypeOK, StartFails, connection, forwarder, messages, Publishing
<1>3. ASSUME NEW c \in Clients, Started(c) PROVE TypeOK'
  <2>1. 0 \in 0 .. MaxMsgs /\ <<>> \in Seq(Messages)
    OBVIOUS
  <2> QED BY <1>3, <2>1 DEF TypeOK, Started, connection, forwarder, messages, Publishing
<1>4. ASSUME NEW c \in Clients, Leave(c) PROVE TypeOK'
  BY <1>4 DEF TypeOK, Leave, Quit, connection, forwarder, messages, Publishing
<1>5. ASSUME NEW c \in Clients, Stay(c) PROVE TypeOK'
  BY <1>5 DEF TypeOK, Stay, connection, forwarder, messages, Publishing
<1>6. ASSUME NEW c \in Clients, Release(c) PROVE TypeOK'
  BY <1>6 DEF TypeOK, Release, connection, forwarder, messages, Publishing
<1>7. ASSUME NEW c \in Clients, Released(c) PROVE TypeOK'
  BY <1>7 DEF TypeOK, Released, ClearQueue, JoinReturns, connection, forwarder,
     messages, Publishing
<1>8. ASSUME NEW c \in Clients, Quit(c) PROVE TypeOK'
  BY <1>8 DEF TypeOK, Quit, connection, forwarder, messages, Publishing
<1>9. ASSUME NEW c \in Clients, ProxyIgnored(c) PROVE TypeOK'
  BY <1>9 DEF TypeOK, ProxyIgnored, Got, connection, forwarder, messages,
     Publishing
<1>10. ASSUME NEW c \in Clients, ProxyFails(c) PROVE TypeOK'
  BY <1>10 DEF TypeOK, ProxyFails, RecvEnds, connection, forwarder, messages,
     Publishing
<1>11. ASSUME NEW c \in Clients, ReceiveFails(c) PROVE TypeOK'
  BY <1>11 DEF TypeOK, ReceiveFails, RecvEnds, connection, forwarder, messages,
     Publishing
<1>12. ASSUME NEW c \in Clients, NEW kind \in Kinds, Proxy(c, kind) PROVE TypeOK'
  <2> DEFINE m == [by |-> c, n |-> sent + 1, kind |-> kind]
  <2>1. sent' = sent + 1 /\ sent + 1 \in 1 .. MaxMsgs
    BY <1>12 DEF Proxy, TypeOK
  <2>2. m \in Messages
    BY <2>1 DEF Messages
  <2>3. Append(queue, m) \in Seq(Messages)
    BY <2>2, AppendProperties DEF TypeOK
  <2>4. Shrunk(Append(queue, m)) \in Seq(Messages)
    BY <2>3, ShrunkIsHeaders
  <2>5. queue' \in Seq(Messages) /\ lost' \in BOOLEAN
    BY <1>12, <2>3, <2>4 DEF Proxy, TypeOK
  <2> QED BY <1>12, <2>1, <2>5
          DEF TypeOK, Proxy, Got, connection, forwarder, messages, Publishing
<1>13. CASE ForwarderRuns
  BY <1>13 DEF TypeOK, ForwarderRuns, Again, ForwarderOnly, connection,
     forwarder, messages, Publishing
<1>14. CASE UpstreamFails
  BY <1>14 DEF TypeOK, UpstreamFails, Again, ForwarderOnly, connection,
     forwarder, messages, Publishing
<1>15. CASE Forward
  <2>1. Count(queue) \in 0 .. Len(queue)
    BY DEF Count, TypeOK
  <2>2. /\ SubSeq(queue, 1, Count(queue)) \in Seq(Messages)
        /\ SubSeq(queue, Count(queue) + 1, Len(queue)) \in Seq(Messages)
    BY <2>1, SubSeqProperties DEF TypeOK
  <2> QED BY <1>15, <2>2
          DEF TypeOK, Forward, Again, ForwarderOnly, connection, forwarder, messages, Publishing
<1>16. CASE Sent
  BY <1>16, ConcatProperties DEF TypeOK, Sent, Again, ForwarderOnly,
     connection, forwarder, messages, Publishing
<1>17. CASE SendFails
  BY <1>17 DEF TypeOK, SendFails, ForwarderOnly, connection, forwarder,
     messages, Publishing
<1>18. CASE UNCHANGED vars
  BY <1>18 DEF TypeOK, vars, connection, forwarder, messages, Publishing
<1> QED BY Steps, <1>1, <1>2, <1>3, <1>4, <1>5, <1>6, <1>7, <1>8, <1>9, <1>10,
<1>11, <1>12, <1>13, <1>14, <1>15, <1>16, <1>17, <1>18

LEMMA OnePublisherHolds == IInv /\ [Next]_vars => OnePublisher'
<1> SUFFICES ASSUME IInv, [Next]_vars PROVE OnePublisher'
  OBVIOUS
<1> USE DEF IInv, TypeOK
<1>1. ASSUME NEW c \in Clients, Acquire(c) PROVE OnePublisher'
  BY <1>1 DEF OnePublisher, UpstreamIsThere, Owned, Acquire, Entered,
     connection, forwarder, messages, Publishing
<1>2. ASSUME NEW c \in Clients, StartFails(c) PROVE OnePublisher'
  BY <1>2 DEF OnePublisher, UpstreamIsThere, Owned, StartFails, connection,
     forwarder, messages, Publishing
<1>3. ASSUME NEW c \in Clients, Started(c) PROVE OnePublisher'
  BY <1>3 DEF OnePublisher, UpstreamIsThere, Owned, Started, connection,
     forwarder, messages, Publishing
<1>4. ASSUME NEW c \in Clients, Leave(c) PROVE OnePublisher'
  BY <1>4 DEF OnePublisher, UpstreamIsThere, Owned, Leave, Quit, connection,
     forwarder, messages, Publishing
<1>5. ASSUME NEW c \in Clients, Stay(c) PROVE OnePublisher'
  BY <1>5 DEF OnePublisher, UpstreamIsThere, Owned, Stay, connection,
     forwarder, messages, Publishing
<1>6. ASSUME NEW c \in Clients, Release(c) PROVE OnePublisher'
  BY <1>6 DEF OnePublisher, UpstreamIsThere, Owned, Release, connection,
     forwarder, messages, Publishing
<1>7. ASSUME NEW c \in Clients, Released(c) PROVE OnePublisher'
  BY <1>7 DEF OnePublisher, UpstreamIsThere, Owned, Released, ClearQueue,
     JoinReturns, connection, forwarder, messages, Publishing
<1>8. ASSUME NEW c \in Clients, Quit(c) PROVE OnePublisher'
  BY <1>8 DEF OnePublisher, UpstreamIsThere, Owned, Quit, connection,
     forwarder, messages, Publishing
<1>9. ASSUME NEW c \in Clients, ProxyIgnored(c) PROVE OnePublisher'
  BY <1>9 DEF OnePublisher, UpstreamIsThere, Owned, ProxyIgnored, Got,
     connection, forwarder, messages, Publishing
<1>10. ASSUME NEW c \in Clients, ProxyFails(c) PROVE OnePublisher'
  BY <1>10 DEF OnePublisher, UpstreamIsThere, Owned, ProxyFails, RecvEnds,
     connection, forwarder, messages, Publishing
<1>11. ASSUME NEW c \in Clients, ReceiveFails(c) PROVE OnePublisher'
  BY <1>11 DEF OnePublisher, UpstreamIsThere, Owned, ReceiveFails, RecvEnds,
     connection, forwarder, messages, Publishing
<1>12. ASSUME NEW c \in Clients, NEW kind \in Kinds, Proxy(c, kind) PROVE OnePublisher'
  BY <1>12 DEF OnePublisher, UpstreamIsThere, Owned, Proxy, Got, connection,
     forwarder, messages, Publishing
<1>13. CASE ForwarderRuns
  BY <1>13 DEF OnePublisher, UpstreamIsThere, Owned, ForwarderRuns, Again,
     ForwarderOnly, connection, forwarder, messages, Publishing
<1>14. CASE UpstreamFails
  BY <1>14 DEF OnePublisher, UpstreamIsThere, Owned, UpstreamFails, Again,
     ForwarderOnly, connection, forwarder, messages, Publishing
<1>15. CASE Forward
  BY <1>15 DEF OnePublisher, UpstreamIsThere, Owned, Forward, Again, Count,
     ForwarderOnly, connection, forwarder, messages, Publishing
<1>16. CASE Sent
  BY <1>16 DEF OnePublisher, UpstreamIsThere, Owned, Sent, Again,
     ForwarderOnly, connection, forwarder, messages, Publishing
<1>17. CASE SendFails
  BY <1>17 DEF OnePublisher, UpstreamIsThere, Owned, SendFails, ForwarderOnly,
     connection, forwarder, messages, Publishing
<1>18. CASE UNCHANGED vars
  BY <1>18 DEF OnePublisher, UpstreamIsThere, Owned, vars, connection,
     forwarder, messages, Publishing
<1> QED BY Steps, <1>1, <1>2, <1>3, <1>4, <1>5, <1>6, <1>7, <1>8, <1>9, <1>10,
<1>11, <1>12, <1>13, <1>14, <1>15, <1>16, <1>17, <1>18

LEMMA UpstreamHolds == IInv /\ [Next]_vars => UpstreamIsThere'
<1> SUFFICES ASSUME IInv, [Next]_vars PROVE UpstreamIsThere'
  OBVIOUS
<1> USE DEF IInv, TypeOK
<1>1. ASSUME NEW c \in Clients, Acquire(c) PROVE UpstreamIsThere'
  BY <1>1 DEF OnePublisher, UpstreamIsThere, Owned, Acquire, Entered,
     connection, forwarder, messages, Publishing
<1>2. ASSUME NEW c \in Clients, StartFails(c) PROVE UpstreamIsThere'
  BY <1>2 DEF OnePublisher, UpstreamIsThere, Owned, StartFails, connection,
     forwarder, messages, Publishing
<1>3. ASSUME NEW c \in Clients, Started(c) PROVE UpstreamIsThere'
  BY <1>3 DEF OnePublisher, UpstreamIsThere, Owned, Started, connection,
     forwarder, messages, Publishing
<1>4. ASSUME NEW c \in Clients, Leave(c) PROVE UpstreamIsThere'
  BY <1>4 DEF OnePublisher, UpstreamIsThere, Owned, Leave, Quit, connection,
     forwarder, messages, Publishing
<1>5. ASSUME NEW c \in Clients, Stay(c) PROVE UpstreamIsThere'
  BY <1>5 DEF OnePublisher, UpstreamIsThere, Owned, Stay, connection,
     forwarder, messages, Publishing
<1>6. ASSUME NEW c \in Clients, Release(c) PROVE UpstreamIsThere'
  BY <1>6 DEF OnePublisher, UpstreamIsThere, Owned, Release, connection,
     forwarder, messages, Publishing
<1>7. ASSUME NEW c \in Clients, Released(c) PROVE UpstreamIsThere'
  BY <1>7 DEF OnePublisher, UpstreamIsThere, Owned, Released, ClearQueue,
     JoinReturns, connection, forwarder, messages, Publishing
<1>8. ASSUME NEW c \in Clients, Quit(c) PROVE UpstreamIsThere'
  BY <1>8 DEF OnePublisher, UpstreamIsThere, Owned, Quit, connection,
     forwarder, messages, Publishing
<1>9. ASSUME NEW c \in Clients, ProxyIgnored(c) PROVE UpstreamIsThere'
  BY <1>9 DEF OnePublisher, UpstreamIsThere, Owned, ProxyIgnored, Got,
     connection, forwarder, messages, Publishing
<1>10. ASSUME NEW c \in Clients, ProxyFails(c) PROVE UpstreamIsThere'
  BY <1>10 DEF OnePublisher, UpstreamIsThere, Owned, ProxyFails, RecvEnds,
     connection, forwarder, messages, Publishing
<1>11. ASSUME NEW c \in Clients, ReceiveFails(c) PROVE UpstreamIsThere'
  BY <1>11 DEF OnePublisher, UpstreamIsThere, Owned, ReceiveFails, RecvEnds,
     connection, forwarder, messages, Publishing
<1>12. ASSUME NEW c \in Clients, NEW kind \in Kinds, Proxy(c, kind) PROVE UpstreamIsThere'
  BY <1>12 DEF OnePublisher, UpstreamIsThere, Owned, Proxy, Got, connection,
     forwarder, messages, Publishing
<1>13. CASE ForwarderRuns
  BY <1>13 DEF OnePublisher, UpstreamIsThere, Owned, ForwarderRuns, Again,
     ForwarderOnly, connection, forwarder, messages, Publishing
<1>14. CASE UpstreamFails
  BY <1>14 DEF OnePublisher, UpstreamIsThere, Owned, UpstreamFails, Again,
     ForwarderOnly, connection, forwarder, messages, Publishing
<1>15. CASE Forward
  BY <1>15 DEF OnePublisher, UpstreamIsThere, Owned, Forward, Again, Count,
     ForwarderOnly, connection, forwarder, messages, Publishing
<1>16. CASE Sent
  BY <1>16 DEF OnePublisher, UpstreamIsThere, Owned, Sent, Again,
     ForwarderOnly, connection, forwarder, messages, Publishing
<1>17. CASE SendFails
  BY <1>17 DEF OnePublisher, UpstreamIsThere, Owned, SendFails, ForwarderOnly,
     connection, forwarder, messages, Publishing
<1>18. CASE UNCHANGED vars
  BY <1>18 DEF OnePublisher, UpstreamIsThere, Owned, vars, connection,
     forwarder, messages, Publishing
<1> QED BY Steps, <1>1, <1>2, <1>3, <1>4, <1>5, <1>6, <1>7, <1>8, <1>9, <1>10,
<1>11, <1>12, <1>13, <1>14, <1>15, <1>16, <1>17, <1>18

LEMMA OwnedHolds == IInv /\ [Next]_vars => Owned'
<1> SUFFICES ASSUME IInv, [Next]_vars PROVE Owned'
  OBVIOUS
<1> USE DEF IInv, TypeOK
<1>1. ASSUME NEW c \in Clients, Acquire(c) PROVE Owned'
  BY <1>1 DEF OnePublisher, UpstreamIsThere, Owned, Acquire, Entered,
     connection, forwarder, messages, Publishing
<1>2. ASSUME NEW c \in Clients, StartFails(c) PROVE Owned'
  BY <1>2 DEF OnePublisher, UpstreamIsThere, Owned, StartFails, connection,
     forwarder, messages, Publishing
<1>3. ASSUME NEW c \in Clients, Started(c) PROVE Owned'
  BY <1>3 DEF OnePublisher, UpstreamIsThere, Owned, Started, connection,
     forwarder, messages, Publishing
<1>4. ASSUME NEW c \in Clients, Leave(c) PROVE Owned'
  BY <1>4 DEF OnePublisher, UpstreamIsThere, Owned, Leave, Quit, connection,
     forwarder, messages, Publishing
<1>5. ASSUME NEW c \in Clients, Stay(c) PROVE Owned'
  BY <1>5 DEF OnePublisher, UpstreamIsThere, Owned, Stay, connection,
     forwarder, messages, Publishing
<1>6. ASSUME NEW c \in Clients, Release(c) PROVE Owned'
  BY <1>6 DEF OnePublisher, UpstreamIsThere, Owned, Release, connection,
     forwarder, messages, Publishing
<1>7. ASSUME NEW c \in Clients, Released(c) PROVE Owned'
  BY <1>7 DEF OnePublisher, UpstreamIsThere, Owned, Released, ClearQueue,
     JoinReturns, connection, forwarder, messages, Publishing
<1>8. ASSUME NEW c \in Clients, Quit(c) PROVE Owned'
  BY <1>8 DEF OnePublisher, UpstreamIsThere, Owned, Quit, connection,
     forwarder, messages, Publishing
<1>9. ASSUME NEW c \in Clients, ProxyIgnored(c) PROVE Owned'
  BY <1>9 DEF OnePublisher, UpstreamIsThere, Owned, ProxyIgnored, Got,
     connection, forwarder, messages, Publishing
<1>10. ASSUME NEW c \in Clients, ProxyFails(c) PROVE Owned'
  BY <1>10 DEF OnePublisher, UpstreamIsThere, Owned, ProxyFails, RecvEnds,
     connection, forwarder, messages, Publishing
<1>11. ASSUME NEW c \in Clients, ReceiveFails(c) PROVE Owned'
  BY <1>11 DEF OnePublisher, UpstreamIsThere, Owned, ReceiveFails, RecvEnds,
     connection, forwarder, messages, Publishing
<1>12. ASSUME NEW c \in Clients, NEW kind \in Kinds, Proxy(c, kind) PROVE Owned'
  BY <1>12 DEF OnePublisher, UpstreamIsThere, Owned, Proxy, Got, connection,
     forwarder, messages, Publishing
<1>13. CASE ForwarderRuns
  BY <1>13 DEF OnePublisher, UpstreamIsThere, Owned, ForwarderRuns, Again,
     ForwarderOnly, connection, forwarder, messages, Publishing
<1>14. CASE UpstreamFails
  BY <1>14 DEF OnePublisher, UpstreamIsThere, Owned, UpstreamFails, Again,
     ForwarderOnly, connection, forwarder, messages, Publishing
<1>15. CASE Forward
  BY <1>15 DEF OnePublisher, UpstreamIsThere, Owned, Forward, Again, Count,
     ForwarderOnly, connection, forwarder, messages, Publishing
<1>16. CASE Sent
  BY <1>16 DEF OnePublisher, UpstreamIsThere, Owned, Sent, Again,
     ForwarderOnly, connection, forwarder, messages, Publishing
<1>17. CASE SendFails
  BY <1>17 DEF OnePublisher, UpstreamIsThere, Owned, SendFails, ForwarderOnly,
     connection, forwarder, messages, Publishing
<1>18. CASE UNCHANGED vars
  BY <1>18 DEF OnePublisher, UpstreamIsThere, Owned, vars, connection,
     forwarder, messages, Publishing
<1> QED BY Steps, <1>1, <1>2, <1>3, <1>4, <1>5, <1>6, <1>7, <1>8, <1>9, <1>10,
<1>11, <1>12, <1>13, <1>14, <1>15, <1>16, <1>17, <1>18

LEMMA InvHolds == Spec => []IInv
<1>1. Init => IInv
  <2>1. 0 \in 0 .. MaxMsgs /\ <<>> \in Seq(Messages)
    BY PublishEdgeAssumption
  <2> QED BY <2>1 DEF Init, IInv, TypeOK, OnePublisher, UpstreamIsThere, Owned, Publishing
<1>2. IInv /\ [Next]_vars => IInv'
  BY TypesHold, OnePublisherHolds, UpstreamHolds, OwnedHolds DEF IInv
<1> QED BY <1>1, <1>2, PTL DEF Spec

(* For any number of clients, whatever fails: one publishes at a time, from    *)
(* before the origin is connected until its forwarder is joined; the forwarder *)
(* and the receive thread never use an upstream that was freed, nor does the   *)
(* edge keep publishing to the origin without a client.                       *)
THEOREM UpstreamHasOneOwner == Spec => [](TypeOK /\ OneOwner)
<1>1. IInv => TypeOK /\ OneOwner
  BY DEF IInv, OneOwner
<1> QED BY <1>1, InvHolds, PTL

(* Three sequences one after the other.                                        *)
LEMMA Three ==
    ASSUME NEW S, NEW s \in Seq(S), NEW t \in Seq(S), NEW u \in Seq(S)
    PROVE  /\ s \o t \o u \in Seq(S)
           /\ Len(s \o t \o u) = Len(s) + Len(t) + Len(u)
           /\ \A i \in 1 .. Len(s) + Len(t) + Len(u) :
                (s \o t \o u)[i] = IF i <= Len(s) THEN s[i]
                                   ELSE IF i <= Len(s) + Len(t) THEN t[i - Len(s)]
                                   ELSE u[i - Len(s) - Len(t)]
<1> DEFINE st == s \o t
<1>1. /\ st \in Seq(S) /\ Len(st) = Len(s) + Len(t)
      /\ \A i \in 1 .. Len(s) + Len(t) :
           st[i] = IF i <= Len(s) THEN s[i] ELSE t[i - Len(s)]
  BY ConcatProperties
<1> HIDE DEF st
<1>2. /\ st \o u \in Seq(S) /\ Len(st \o u) = Len(st) + Len(u)
      /\ \A i \in 1 .. Len(st) + Len(u) :
           (st \o u)[i] = IF i <= Len(st) THEN st[i] ELSE u[i - Len(st)]
  <2>1. st \in Seq(S) /\ u \in Seq(S)
    BY <1>1
  <2> QED BY <2>1, ConcatProperties
<1>3. /\ st \o u \in Seq(S)
      /\ Len(st \o u) = Len(s) + Len(t) + Len(u)
      /\ \A i \in 1 .. Len(s) + Len(t) + Len(u) :
           (st \o u)[i] = IF i <= Len(s) THEN s[i]
                          ELSE IF i <= Len(s) + Len(t) THEN t[i - Len(s)]
                          ELSE u[i - Len(s) - Len(t)]
  BY <1>1, <1>2
<1> QED BY <1>3 DEF st

(* What OriginGetsPublish says of a stream w of client c that forwarded k.      *)
OfClient(w, c, k) ==
    /\ \A i \in 1 .. Len(w) : w[i].by = c /\ w[i].n <= k
    /\ \A i, j \in 1 .. Len(w) :
         i < j /\ w[i].kind = "frame" /\ w[j].kind = "frame" => w[i].n < w[j].n

Whole(w, k) == Len(w) = k /\ \A i \in 1 .. Len(w) : w[i].n = i

(* A message more at the end of the queue.                                     *)
LEMMA StreamGrows ==
    ASSUME NEW s \in Seq(Messages), NEW t \in Seq(Messages), NEW u \in Seq(Messages),
           NEW c \in Clients, NEW k \in Nat, NEW m \in Messages,
           m.by = c, m.n = k + 1, OfClient(s \o t \o u, c, k)
    PROVE  /\ OfClient(s \o t \o Append(u, m), c, k + 1)
           /\ Whole(s \o t \o u, k) => Whole(s \o t \o Append(u, m), k + 1)
<1>1. Len(s) \in Nat /\ Len(t) \in Nat /\ Len(u) \in Nat
  BY LenProperties
<1> DEFINE v == Append(u, m)
           w == s \o t \o u
           x == s \o t \o v
<1>2. /\ v \in Seq(Messages) /\ Len(v) = Len(u) + 1
      /\ \A i \in 1 .. Len(u) : v[i] = u[i]
      /\ v[Len(u) + 1] = m
  BY AppendProperties
<1> HIDE DEF v
<1>3. /\ w \in Seq(Messages) /\ Len(w) = Len(s) + Len(t) + Len(u)
      /\ \A i \in 1 .. Len(w) :
           w[i] = IF i <= Len(s) THEN s[i]
                  ELSE IF i <= Len(s) + Len(t) THEN t[i - Len(s)]
                  ELSE u[i - Len(s) - Len(t)]
  BY Three
<1>4. /\ x \in Seq(Messages) /\ Len(x) = Len(s) + Len(t) + Len(v)
      /\ \A i \in 1 .. Len(x) :
           x[i] = IF i <= Len(s) THEN s[i]
                  ELSE IF i <= Len(s) + Len(t) THEN t[i - Len(s)]
                  ELSE v[i - Len(s) - Len(t)]
  <2>1. v \in Seq(Messages)
    BY <1>2
  <2> QED BY <2>1, Three
<1>5. OfClient(w, c, k)
  OBVIOUS
<1> HIDE DEF w, x
<1>6. Len(x) = Len(w) + 1 /\ x[Len(w) + 1] = m
  BY <1>1, <1>2, <1>3, <1>4
<1>7. ASSUME NEW i \in 1 .. Len(w) PROVE x[i] = w[i]
  <2>1. i \in Nat /\ i \in 1 .. Len(x) /\ 1 <= i /\ i <= Len(s) + Len(t) + Len(u)
    BY <1>1, <1>3, <1>6
  <2>2. CASE i <= Len(s)
    BY <2>1, <2>2, <1>3, <1>4
  <2>3. CASE ~(i <= Len(s)) /\ i <= Len(s) + Len(t)
    BY <2>1, <2>3, <1>3, <1>4
  <2>4. CASE ~(i <= Len(s)) /\ ~(i <= Len(s) + Len(t))
    <3>1. i - Len(s) - Len(t) \in 1 .. Len(u)
      BY <2>1, <2>4, <1>1
    <3> QED BY <3>1, <2>1, <2>4, <1>2, <1>3, <1>4
  <2> QED BY <2>2, <2>3, <2>4
<1>8. \A i \in 1 .. Len(w) : w[i] \in Messages
  BY <1>1, <1>3
<1>9. Len(w) \in Nat
  BY <1>1, <1>3
<1>10. \A i \in 1 .. Len(x) : i # Len(w) + 1 => i \in 1 .. Len(w) /\ x[i] = w[i]
  BY <1>9, <1>6, <1>7
<1>11. \A i \in 1 .. Len(w) : w[i].n \in Nat /\ w[i].n <= k
  BY <1>5, <1>8 DEF OfClient, Messages
<1>12. /\ \A i \in 1 .. Len(x) : x[i].by = c /\ x[i].n <= k + 1
       /\ Whole(w, k) => Whole(x, k + 1)
  <2>1. ASSUME NEW i \in 1 .. Len(x) PROVE x[i].by = c /\ x[i].n <= k + 1
    <3>1. CASE i = Len(w) + 1
      BY <3>1, <1>6
    <3>2. CASE i # Len(w) + 1
      <4>1. i \in 1 .. Len(w) /\ x[i] = w[i]
        BY <3>2, <1>10
      <4>2. w[i].by = c
        BY <4>1, <1>5 DEF OfClient
      <4>3. w[i].n <= k + 1
        BY <4>1, <1>11
      <4> QED BY <4>1, <4>2, <4>3
    <3> QED BY <3>1, <3>2
  <2>2. Whole(w, k) => Whole(x, k + 1)
    BY <1>9, <1>6, <1>10 DEF Whole
  <2> QED BY <2>1, <2>2
<1>13. \A i, j \in 1 .. Len(x) :
         i < j /\ x[i].kind = "frame" /\ x[j].kind = "frame" => x[i].n < x[j].n
  <2> SUFFICES ASSUME NEW i \in 1 .. Len(x), NEW j \in 1 .. Len(x), i < j,
                      x[i].kind = "frame", x[j].kind = "frame"
               PROVE  x[i].n < x[j].n
    OBVIOUS
  <2>1. i \in 1 .. Len(w) /\ x[i] = w[i]
    BY <1>9, <1>6, <1>10
  <2>2. CASE j = Len(w) + 1
    BY <2>1, <2>2, <1>6, <1>11
  <2>3. CASE j # Len(w) + 1
    BY <2>1, <2>3, <1>5, <1>10 DEF OfClient
  <2> QED BY <2>2, <2>3
<1>14. OfClient(x, c, k + 1)
  BY <1>12, <1>13 DEF OfClient
<1> QED BY <1>12, <1>14 DEF w, x, v

(* The end of a stream replaced by headers of it, or of the message m.          *)
LEMMA StreamIsCut ==
    ASSUME NEW s \in Seq(Messages), NEW t \in Seq(Messages), NEW u \in Seq(Messages),
           NEW c \in Clients, NEW k \in Nat, OfClient(s \o t \o u, c, k),
           NEW v \in Seq(Messages),
           \A i \in 1 .. Len(v) :
              v[i].kind # "frame" /\ \E j \in 1 .. Len(u) : v[i] = u[j]
    PROVE  OfClient(s \o t \o v, c, k)
<1>1. Len(s) \in Nat /\ Len(t) \in Nat /\ Len(u) \in Nat /\ Len(v) \in Nat
  BY LenProperties
<1> DEFINE w == s \o t \o u
           x == s \o t \o v
<1>2. /\ w \in Seq(Messages) /\ Len(w) = Len(s) + Len(t) + Len(u)
      /\ \A i \in 1 .. Len(w) :
           w[i] = IF i <= Len(s) THEN s[i]
                  ELSE IF i <= Len(s) + Len(t) THEN t[i - Len(s)]
                  ELSE u[i - Len(s) - Len(t)]
  BY Three
<1>3. /\ x \in Seq(Messages) /\ Len(x) = Len(s) + Len(t) + Len(v)
      /\ \A i \in 1 .. Len(x) :
           x[i] = IF i <= Len(s) THEN s[i]
                  ELSE IF i <= Len(s) + Len(t) THEN t[i - Len(s)]
                  ELSE v[i - Len(s) - Len(t)]
  BY Three
<1>4. OfClient(w, c, k)
  OBVIOUS
<1> HIDE DEF w, x
<1>5. \A j \in 1 .. Len(u) :
         u[j] = w[j + Len(s) + Len(t)] /\ j + Len(s) + Len(t) \in 1 .. Len(w)
  BY <1>1, <1>2
<1>6. \A j \in 1 .. Len(u) : u[j].by = c /\ u[j].n <= k
  BY <1>1, <1>4, <1>5 DEF OfClient
<1>7. ASSUME NEW i \in 1 .. Len(s) + Len(t)
      PROVE  x[i] = w[i] /\ i \in 1 .. Len(w) /\ i \in 1 .. Len(x)
  <2>1. i \in Nat /\ i \in 1 .. Len(w) /\ i \in 1 .. Len(x) /\ i <= Len(s) + Len(t)
    BY <1>1, <1>2, <1>3
  <2>2. CASE i <= Len(s)
    BY <2>1, <2>2, <1>2, <1>3
  <2>3. CASE ~(i <= Len(s))
    BY <2>1, <2>3, <1>2, <1>3
  <2> QED BY <2>1, <2>2, <2>3
<1>8. \A i \in 1 .. Len(x) : i > Len(s) + Len(t) =>
         x[i] = v[i - Len(s) - Len(t)] /\ i - Len(s) - Len(t) \in 1 .. Len(v)
  BY <1>1, <1>3
<1>9. \A i \in 1 .. Len(x) : i > Len(s) + Len(t) =>
         x[i].kind # "frame" /\ x[i].by = c /\ x[i].n <= k
  BY <1>1, <1>6, <1>8
<1>10. \A i \in 1 .. Len(x) : i <= Len(s) + Len(t) => i \in 1 .. Len(s) + Len(t)
  OBVIOUS
<1>11. \A i \in 1 .. Len(x) : i <= Len(s) + Len(t) \/ i > Len(s) + Len(t)
  BY <1>1
<1>12. \A i \in 1 .. Len(x) : x[i].by = c /\ x[i].n <= k
  BY <1>4, <1>7, <1>9, <1>10, <1>11 DEF OfClient
<1>13. \A i, j \in 1 .. Len(x) :
         i < j /\ x[i].kind = "frame" /\ x[j].kind = "frame" => x[i].n < x[j].n
  BY <1>4, <1>7, <1>9, <1>10, <1>11 DEF OfClient
<1> QED BY <1>12, <1>13 DEF OfClient, x

(* The middle of a stream lost.                                                *)
LEMMA StreamIsBroken ==
    ASSUME NEW s \in Seq(Messages), NEW t \in Seq(Messages), NEW u \in Seq(Messages),
           NEW c \in Clients, NEW k \in Nat, OfClient(s \o t \o u, c, k)
    PROVE  OfClient(s \o <<>> \o u, c, k)
<1>1. Len(s) \in Nat /\ Len(t) \in Nat /\ Len(u) \in Nat
  BY LenProperties
<1> DEFINE w == s \o t \o u
           x == s \o <<>> \o u
           from(i) == IF i <= Len(s) THEN i ELSE i + Len(t)
<1>2. /\ Len(w) = Len(s) + Len(t) + Len(u)
      /\ \A i \in 1 .. Len(w) :
           w[i] = IF i <= Len(s) THEN s[i]
                  ELSE IF i <= Len(s) + Len(t) THEN t[i - Len(s)]
                  ELSE u[i - Len(s) - Len(t)]
  BY Three
<1>3. /\ Len(x) = Len(s) + Len(u)
      /\ \A i \in 1 .. Len(x) : x[i] = IF i <= Len(s) THEN s[i] ELSE u[i - Len(s)]
  <2>1. s \o <<>> = s
    BY ConcatEmptySeq
  <2> QED BY <2>1, ConcatProperties
<1>4. OfClient(w, c, k)
  OBVIOUS
<1> HIDE DEF w, x
<1>5. ASSUME NEW i \in 1 .. Len(x)
      PROVE  from(i) \in 1 .. Len(w) /\ x[i] = w[from(i)]
  <2>1. i \in Nat /\ 1 <= i /\ i <= Len(s) + Len(u)
    BY <1>1, <1>3
  <2>2. CASE i <= Len(s)
    BY <2>1, <2>2, <1>1, <1>2, <1>3
  <2>3. CASE ~(i <= Len(s))
    <3>1. /\ i + Len(t) \in 1 .. Len(w)
          /\ ~(i + Len(t) <= Len(s)) /\ ~(i + Len(t) <= Len(s) + Len(t))
          /\ i + Len(t) - Len(s) - Len(t) = i - Len(s)
      BY <2>1, <2>3, <1>1, <1>2
    <3>2. w[i + Len(t)] = u[i - Len(s)]
      BY <3>1, <1>2
    <3>3. x[i] = u[i - Len(s)]
      BY <2>3, <1>3
    <3> QED BY <2>3, <3>1, <3>2, <3>3
  <2> QED BY <2>2, <2>3
<1>6. \A i, j \in 1 .. Len(x) : i < j => from(i) < from(j)
  OBVIOUS
<1> HIDE DEF from
<1> QED BY <1>4, <1>5, <1>6 DEF OfClient, x

(* The queue a stream ends with, moved into the message array.                 *)
LEMMA StreamMoves ==
    ASSUME NEW s \in Seq(Messages), NEW u \in Seq(Messages), NEW k \in 0 .. Len(u)
    PROVE  s \o SubSeq(u, 1, k) \o SubSeq(u, k + 1, Len(u)) = s \o <<>> \o u
<1>1. s \o <<>> = s
  BY ConcatEmptySeq
<1>2. Len(u) \in Nat /\ k \in Nat /\ k <= Len(u)
  BY LenProperties
<1>3. SubSeq(u, 1, k) \o SubSeq(u, k + 1, Len(u)) = SubSeq(u, 1, Len(u))
  <2>1. 1 \in 1 .. Len(u) + 1 /\ k \in 1 - 1 .. Len(u) /\ Len(u) \in k .. Len(u)
    BY <1>2
  <2> QED BY <2>1, ConcatAdjacentSubSeq, Zenon
<1>4. SubSeq(u, 1, Len(u)) = u
  BY SubSeqFull
<1>5. SubSeq(u, 1, k) \in Seq(Messages) /\ SubSeq(u, k + 1, Len(u)) \in Seq(Messages)
  BY <1>2, SubSeqProperties
<1>6. (s \o SubSeq(u, 1, k)) \o SubSeq(u, k + 1, Len(u))
         = s \o (SubSeq(u, 1, k) \o SubSeq(u, k + 1, Len(u)))
  <2> DEFINE a == SubSeq(u, 1, k)
             b == SubSeq(u, k + 1, Len(u))
  <2>1. a \in Seq(Messages) /\ b \in Seq(Messages)
    BY <1>5
  <2> HIDE DEF a, b
  <2>2. (s \o a) \o b = s \o (a \o b)
    BY <2>1, ConcatAssociative
  <2> QED BY <2>2 DEF a, b
<1> QED BY <1>1, <1>3, <1>4, <1>6

(* OriginGetsPublish, in these words.                                          *)
StreamOK ==
    \A c \in Clients : pc[c] \in Publishing =>
        /\ OfClient(Stream, c, sent)
        /\ ~lost /\ fwd # "ended" => Whole(Stream, sent)

LEMMA StreamInv == IInv /\ StreamOK /\ [Next]_vars => StreamOK'
<1> SUFFICES ASSUME IInv, StreamOK, [Next]_vars PROVE StreamOK'
  OBVIOUS
<1>t. /\ TypeOK /\ OnePublisher /\ UpstreamIsThere /\ Owned
      /\ queue \in Seq(Messages) /\ batch \in Seq(Messages) /\ origin \in Seq(Messages)
      /\ sent \in Nat /\ pc \in [Clients -> {"out", "starting"} \cup Publishing]
  BY PublishEdgeAssumption DEF IInv, TypeOK
<1>k. ASSUME \A c \in Clients : pc'[c] \in Publishing => pc[c] \in Publishing,
             UNCHANGED messages, fwd' = fwd \/ fwd # "ended" \/ fwd' = "ended"
      PROVE  StreamOK'
  BY <1>k DEF StreamOK, OfClient, Whole, Stream, messages
<1>1. ASSUME NEW c \in Clients, Acquire(c) PROVE StreamOK'
  BY <1>1, <1>t, <1>k DEF Acquire, connection, forwarder, Publishing
<1>2. ASSUME NEW c \in Clients, StartFails(c) PROVE StreamOK'
  BY <1>2, <1>t, <1>k DEF StartFails, connection, forwarder, Publishing
<1>3. ASSUME NEW c \in Clients, Leave(c) PROVE StreamOK'
  BY <1>3, <1>t, <1>k DEF Leave, Quit, connection, forwarder, Publishing
<1>4. ASSUME NEW c \in Clients, Stay(c) PROVE StreamOK'
  BY <1>4, <1>t, <1>k DEF Stay, connection, forwarder, Publishing
<1>5. ASSUME NEW c \in Clients, Release(c) PROVE StreamOK'
  BY <1>5, <1>t, <1>k DEF Release, connection, forwarder, Publishing
<1>6. ASSUME NEW c \in Clients, Quit(c) PROVE StreamOK'
  BY <1>6, <1>t, <1>k DEF Quit, connection, forwarder, Publishing
<1>7. ASSUME NEW c \in Clients, ProxyIgnored(c) PROVE StreamOK'
  BY <1>7, <1>t, <1>k DEF ProxyIgnored, Got, connection, forwarder, Publishing
<1>8. ASSUME NEW c \in Clients, ProxyFails(c) PROVE StreamOK'
  BY <1>8, <1>t, <1>k DEF ProxyFails, RecvEnds, connection, forwarder,
     Publishing
<1>9. ASSUME NEW c \in Clients, ReceiveFails(c) PROVE StreamOK'
  BY <1>9, <1>t, <1>k DEF ReceiveFails, RecvEnds, connection, forwarder,
     Publishing
<1>10. ASSUME NEW c \in Clients, Started(c) PROVE StreamOK'
  <2>1. queue = <<>> /\ batch = <<>>
    BY <1>10, <1>t DEF Started, UpstreamIsThere, OnePublisher, Owned, Publishing
  <2>2. Stream' = <<>> /\ sent' = 0
    BY <1>10, <2>1 DEF Started, Stream
  <2> QED BY <2>2 DEF StreamOK, OfClient, Whole
<1>11. ASSUME NEW c \in Clients, Released(c) PROVE StreamOK'
  BY <1>11, <1>t DEF Released, OnePublisher, StreamOK, Publishing
<1>12. ASSUME NEW c \in Clients, NEW kind \in Kinds, Proxy(c, kind) PROVE StreamOK'
  <2> DEFINE m == [by |-> c, n |-> sent + 1, kind |-> kind]
             v == Append(queue, m)
  <2>1. /\ pc[c] \in Publishing /\ pc' = pc /\ fwd' = fwd /\ sent' = sent + 1
        /\ origin' = origin /\ batch' = batch
    BY <1>12, <1>t DEF Proxy, Got, UpstreamIsThere, forwarder
  <2>2. \A d \in Clients : pc[d] \in Publishing => d = c
    BY <2>1, <1>t DEF OnePublisher, Publishing
  <2>3. m \in Messages /\ m.by = c /\ m.n = sent + 1
    BY <1>12, <1>t, PublishEdgeAssumption DEF Proxy, Messages
  <2>4. OfClient(Stream, c, sent) /\ (~lost /\ fwd # "ended" => Whole(Stream, sent))
    BY <2>1 DEF StreamOK
  <2>5. /\ OfClient(origin \o batch \o v, c, sent + 1)
        /\ Whole(Stream, sent) => Whole(origin \o batch \o v, sent + 1)
    BY <2>3, <2>4, <1>t, StreamGrows DEF Stream
  <2>6. CASE queue' = v /\ lost' = lost
    <3>1. Stream' = origin \o batch \o v
      BY <2>1, <2>6 DEF Stream
    <3> QED BY <3>1, <2>1, <2>2, <2>4, <2>5, <2>6 DEF StreamOK
  <2>7. CASE queue' = Shrunk(v) /\ lost' = TRUE
    <3>1. v \in Seq(Messages) /\ sent + 1 \in Nat
      BY <2>3, <1>t, AppendProperties
    <3>2. /\ Shrunk(v) \in Seq(Messages)
          /\ \A i \in 1 .. Len(Shrunk(v)) : Shrunk(v)[i].kind # "frame"
                 /\ \E j \in 1 .. Len(v) : Shrunk(v)[i] = v[j]
      BY <3>1, ShrunkIsHeaders
    <3> HIDE DEF v
    <3>3. OfClient(origin \o batch \o Shrunk(v), c, sent + 1)
      BY <3>1, <3>2, <2>5, <1>t, StreamIsCut
    <3>4. Stream' = origin \o batch \o Shrunk(v)
      BY <2>1, <2>7 DEF Stream
    <3> QED BY <3>3, <3>4, <2>1, <2>2, <2>7 DEF StreamOK
  <2> QED BY <1>12, <2>6, <2>7 DEF Proxy
<1>13. CASE ForwarderRuns
  BY <1>13, <1>t, <1>k DEF ForwarderRuns, Again, ForwarderOnly, connection
<1>14. CASE UpstreamFails
  BY <1>14, <1>t, <1>k DEF UpstreamFails, Again, ForwarderOnly, connection
<1>15. CASE Forward
  <2>1. fwd # "ended" /\ pc' = pc /\ sent' = sent /\ lost' = lost /\ origin' = origin
    BY <1>15 DEF Forward, ForwarderOnly, connection
  <2>2. batch = <<>>
    BY <1>15, <1>t DEF Forward, Owned
  <2>3. CASE Count(queue) = 0
    <3>1. Stream' = Stream
      BY <1>15, <2>3 DEF Forward, Stream
    <3> QED BY <3>1, <2>1 DEF StreamOK
  <2>4. CASE Count(queue) # 0
    <3>1. Count(queue) \in 0 .. Len(queue)
      BY <1>t, LenProperties, PublishEdgeAssumption DEF Count
    <3>2. /\ batch' = SubSeq(queue, 1, Count(queue))
          /\ queue' = SubSeq(queue, Count(queue) + 1, Len(queue))
      BY <1>15, <2>4 DEF Forward
    <3>3. Stream' = Stream
      BY <3>1, <3>2, <2>1, <2>2, <1>t, StreamMoves DEF Stream
    <3> QED BY <3>3, <2>1 DEF StreamOK
  <2> QED BY <2>3, <2>4
<1>16. CASE Sent
  <2>1. fwd # "ended" /\ pc' = pc /\ sent' = sent /\ lost' = lost
    BY <1>16 DEF Sent, ForwarderOnly, connection
  <2>2. (origin \o batch) \o <<>> = origin \o batch
    BY <1>t, ConcatProperties, ConcatEmptySeq
  <2>3. Stream' = Stream
    BY <1>16, <2>2 DEF Sent, Stream
  <2> QED BY <2>1, <2>3 DEF StreamOK
<1>17. CASE SendFails
  <2>1. fwd' = "ended" /\ pc' = pc /\ sent' = sent /\ Stream' = origin \o <<>> \o queue
    BY <1>17 DEF SendFails, ForwarderOnly, connection, Stream
  <2>2. ASSUME NEW c \in Clients, pc[c] \in Publishing PROVE OfClient(Stream', c, sent)
    BY <2>1, <2>2, <1>t, StreamIsBroken DEF StreamOK, Stream
  <2> QED BY <2>1, <2>2 DEF StreamOK
<1>18. CASE UNCHANGED vars
  BY <1>18, <1>k DEF vars, connection, forwarder
<1> QED BY Steps, <1>1, <1>2, <1>3, <1>4, <1>5, <1>6, <1>7, <1>8, <1>9, <1>10,
<1>11, <1>12, <1>13, <1>14, <1>15, <1>16, <1>17, <1>18

(* For any number of clients and messages, and any size of the message array:   *)
(* the origin gets the publish of the client whose upstream it is, in order,    *)
(* and all of it unless the queue overflowed or the upstream failed.            *)
THEOREM OriginGetsOnePublish == Spec => []OriginGetsPublish
<1>1. Init => StreamOK
  BY DEF Init, StreamOK, Publishing
<1>2. StreamOK => OriginGetsPublish
  BY DEF StreamOK, OriginGetsPublish, OfClient, Whole
<1> QED BY <1>1, <1>2, InvHolds, StreamInv, PTL DEF Spec

-----------------------------------------------------------------------------
(* How far a connection whose upstream failed is from noticing: its receiving    *)
(* coroutine reports it at the next message, or ends, and then the connection     *)
(* looks once or twice.                                                      *)
ToNotice(p, r, f) ==
    IF p # "publishing" THEN 0
    ELSE (IF r = "receiving" THEN 3 ELSE 0) + (IF f THEN 2 ELSE 1)

(* And how far one that leaves is from having left: the joins of its receiver     *)
(* and of the forwarder, wherever that is.                                    *)
ToLeave(p, r, at) ==
    CASE p = "joining" -> IF r = "receiving" THEN 6 ELSE 5
      [] p = "releasing" -> CASE at = "recv" -> 4 [] at = "send" -> 3
                              [] at \in {"new", "sleep"} -> 2 [] OTHER -> 1
      [] OTHER -> 0

(* No step takes it further away, whoever else sends or comes, and each step of    *)
(* its own, and of the coroutine that it joins, brings it nearer.              *)
GettingOutAdvances ==
    [][\A c \in Clients :
        /\ pc[c] = "publishing" /\ send_error_code =>
             /\ send_error_code'
             /\ ToNotice(pc'[c], recv'[c], fresh'[c]) <= ToNotice(pc[c], recv[c], fresh[c])
             /\ Connection(c) \/ ProxyFails(c) \/ ReceiveFails(c) =>
                  ToNotice(pc'[c], recv'[c], fresh'[c]) < ToNotice(pc[c], recv[c], fresh[c])
        /\ pc[c] \in {"joining", "releasing"} =>
             /\ ToLeave(pc'[c], recv'[c], fwd') <= ToLeave(pc[c], recv[c], fwd)
             /\ Connection(c) \/ ReceiveFails(c) \/ (pc[c] = "releasing" /\ Forwarder) =>
                  ToLeave(pc'[c], recv'[c], fwd') < ToLeave(pc[c], recv[c], fwd)]_vars

(* Whoever waits for the forwarder has interrupted it.                         *)
ForwarderIsTold == \A c \in Clients : pc[c] = "releasing" => stopped

LEMMA ForwarderIsToldKeeps == IInv /\ ForwarderIsTold /\ [Next]_vars => ForwarderIsTold'
<1> SUFFICES ASSUME IInv, ForwarderIsTold, [Next]_vars PROVE ForwarderIsTold'
  OBVIOUS
<1>0. pc \in [Clients -> {"out", "starting"} \cup Publishing] /\ OnePublisher
  BY DEF IInv, TypeOK
<1> USE DEF ForwarderIsTold
<1>1. ASSUME NEW d \in Clients, Started(d) PROVE ForwarderIsTold'
  <2>1. \A c \in Clients : pc[c] # "releasing"
    BY <1>0, <1>1 DEF Started, OnePublisher
  <2> QED BY <1>0, <1>1, <2>1 DEF Started
<1>2. ASSUME NEW d \in Clients, Release(d) PROVE ForwarderIsTold'
  BY <1>2 DEF Release
<1>3. ASSUME NEW d \in Clients, Acquire(d) \/ StartFails(d) \/ Quit(d) \/ Leave(d) \/ Stay(d) \/ Released(d)
      PROVE  ForwarderIsTold'
  BY <1>0, <1>3 DEF Acquire, StartFails, Quit, Leave, Stay, Released, forwarder
<1>4. ASSUME NEW d \in Clients, (\E kind \in Kinds : Proxy(d, kind)) \/ ProxyIgnored(d) \/ ProxyFails(d) \/ ReceiveFails(d)
      PROVE  ForwarderIsTold'
  <2>1. pc' = pc /\ stopped' = stopped
    BY <1>4 DEF Proxy, ProxyIgnored, ProxyFails, ReceiveFails, forwarder
  <2> QED BY <2>1
<1>5. CASE Forwarder
  <2>1. ForwarderOnly
    BY <1>5 DEF Forwarder, ForwarderRuns, UpstreamFails, Forward, Sent, SendFails
  <2>2. pc' = pc /\ stopped' = stopped
    BY <2>1 DEF ForwarderOnly, connection
  <2> QED BY <2>2
<1>6. CASE UNCHANGED vars
  BY <1>6 DEF vars, connection, forwarder
<1> QED BY <1>1, <1>2, <1>3, <1>4, <1>5, <1>6 DEF Next, Connection

(* While a client is past acquire_publish, nobody else moves.                   *)
LEMMA OthersStandStill ==
    ASSUME IInv, Next, NEW c \in Clients, pc[c] \in Publishing
    PROVE  \/ /\ \/ Connection(c) \/ Quit(c) \/ ProxyIgnored(c) \/ ProxyFails(c) \/ ReceiveFails(c)
                 \/ \E kind \in Kinds : Proxy(c, kind)
              /\ fwd' = fwd
           \/ Forwarder
<1>1. /\ \A d \in Clients : pc[d] # "out" => c = d
      /\ state = "Publish" /\ pc[c] # "out" /\ pc[c] # "starting"
  BY DEF IInv, OnePublisher, Publishing
<1>2. \A d \in Clients : recv[d] = "receiving" => pc[d] # "out"
  BY DEF IInv, UpstreamIsThere, Publishing
<1>3. ASSUME NEW d \in Clients, Acquire(d) PROVE FALSE
  BY <1>1, <1>3 DEF Acquire
<1>4. ASSUME NEW d \in Clients, Connection(d) \/ Quit(d) PROVE c = d
  BY <1>1, <1>4 DEF Connection, StartFails, Started, Leave, Quit, Stay, Release, Released
<1>5. ASSUME NEW d \in Clients,
             \/ ProxyIgnored(d) \/ ProxyFails(d) \/ ReceiveFails(d)
             \/ \E kind \in Kinds : Proxy(d, kind)
      PROVE  c = d
  BY <1>1, <1>2, <1>5 DEF ProxyIgnored, ProxyFails, ReceiveFails, RecvEnds, Proxy, Got
<1>6. CASE Connection(c) \/ Quit(c)
  <2>1. fwd' = fwd
    BY <1>1, <1>6 DEF Connection, StartFails, Started, Leave, Quit, Stay, Release, Released, forwarder
  <2> QED BY <1>6, <2>1
<1>7. CASE \/ ProxyIgnored(c) \/ ProxyFails(c) \/ ReceiveFails(c)
           \/ \E kind \in Kinds : Proxy(c, kind)
  <2>1. fwd' = fwd
    BY <1>7 DEF ProxyIgnored, ProxyFails, ReceiveFails, Proxy, forwarder
  <2> QED BY <1>7, <2>1
<1> QED BY <1>3, <1>4, <1>5, <1>6, <1>7 DEF Next

(* A client whose upstream failed comes nearer to noticing with each step.        *)
LEMMA FailureNears ==
    ASSUME IInv, Next, NEW c \in Clients, pc[c] = "publishing", send_error_code
    PROVE  /\ send_error_code'
           /\ ToNotice(pc'[c], recv'[c], fresh'[c]) <= ToNotice(pc[c], recv[c], fresh[c])
           /\ Connection(c) \/ ProxyFails(c) \/ ReceiveFails(c) =>
                ToNotice(pc'[c], recv'[c], fresh'[c]) < ToNotice(pc[c], recv[c], fresh[c])
<1>0. /\ pc \in [Clients -> {"out", "starting"} \cup Publishing]
      /\ recv \in [Clients -> {"receiving", "ended"}] /\ fresh \in [Clients -> BOOLEAN]
  BY DEF IInv, TypeOK
<1>1. CASE Leave(c) \/ Quit(c)
  <2>1. pc'[c] = "joining" /\ send_error_code' = send_error_code
    BY <1>0, <1>1 DEF Leave, Quit, forwarder
  <2> QED BY <2>1 DEF ToNotice
<1>2. CASE Stay(c)
  <2>1. pc' = pc /\ recv' = recv /\ fresh[c] /\ ~fresh'[c] /\ send_error_code' = send_error_code
    BY <1>0, <1>2 DEF Stay, Over, forwarder
  <2> QED BY <2>1 DEF ToNotice
<1>3. CASE ProxyFails(c) \/ ReceiveFails(c)
  <2>1. pc' = pc /\ recv[c] = "receiving" /\ recv'[c] = "ended" /\ send_error_code' = send_error_code
    BY <1>0, <1>3 DEF ProxyFails, ReceiveFails, RecvEnds, forwarder
  <2> QED BY <2>1 DEF ToNotice
<1>4. CASE StartFails(c) \/ Started(c) \/ Release(c) \/ Released(c) \/ ProxyIgnored(c) \/ \E kind \in Kinds : Proxy(c, kind)
  BY <1>4 DEF StartFails, Started, Release, Released, ProxyIgnored, Accepts, Proxy
<1>5. CASE ~(Connection(c) \/ ProxyFails(c) \/ ReceiveFails(c)) /\ Forwarder
  <2>1. UNCHANGED connection /\ send_error_code'
    BY <1>5 DEF Forwarder, ForwarderRuns, UpstreamFails, Forward, Sent, SendFails, ForwarderOnly
  <2> QED BY <1>5, <2>1 DEF ToNotice, connection
<1>6. \/ Connection(c) \/ Quit(c) \/ ProxyIgnored(c) \/ ProxyFails(c) \/ ReceiveFails(c)
      \/ Forwarder \/ \E kind \in Kinds : Proxy(c, kind)
  BY OthersStandStill DEF Publishing
<1> QED BY <1>1, <1>2, <1>3, <1>4, <1>5, <1>6 DEF Connection

(* And one that leaves to having left.                                        *)
LEMMA LeaverNears ==
    ASSUME IInv, ForwarderIsTold, Next, NEW c \in Clients, pc[c] \in {"joining", "releasing"}
    PROVE  /\ ToLeave(pc'[c], recv'[c], fwd') <= ToLeave(pc[c], recv[c], fwd)
           /\ Connection(c) \/ ReceiveFails(c) \/ (pc[c] = "releasing" /\ Forwarder) =>
                ToLeave(pc'[c], recv'[c], fwd') < ToLeave(pc[c], recv[c], fwd)
<1>0. /\ pc \in [Clients -> {"out", "starting"} \cup Publishing]
      /\ recv \in [Clients -> {"receiving", "ended"}]
      /\ fwd \in {"new", "recv", "send", "sleep", "ended"}
      /\ recv[c] = "receiving" => pc[c] = "joining"
  BY DEF IInv, TypeOK, Owned
<1>1. CASE Release(c)
  <2>1. pc[c] = "joining" /\ recv[c] = "ended" /\ pc'[c] = "releasing" /\ fwd' = fwd
    BY <1>0, <1>1 DEF Release
  <2>2. ToLeave(pc[c], recv[c], fwd) = 5
    BY <2>1 DEF ToLeave
  <2>3. ToLeave(pc'[c], recv'[c], fwd') \in 1 .. 4
    BY <1>0, <2>1 DEF ToLeave
  <2> QED BY <2>2, <2>3
<1>2. CASE Released(c)
  <2>1. pc[c] = "releasing" /\ fwd = "ended" /\ pc'[c] = "out"
    BY <1>0, <1>2 DEF Released, JoinReturns
  <2> QED BY <2>1 DEF ToLeave
<1>3. CASE ReceiveFails(c) \/ ProxyFails(c)
  <2>1. pc' = pc /\ pc[c] = "joining" /\ recv[c] = "receiving" /\ recv'[c] = "ended"
    BY <1>0, <1>3 DEF ReceiveFails, ProxyFails, RecvEnds
  <2> QED BY <2>1 DEF ToLeave
<1>4. CASE ProxyIgnored(c) \/ \E kind \in Kinds : Proxy(c, kind)
  <2>1. pc' = pc /\ recv' = recv /\ pc[c] = "joining" /\ recv[c] = "receiving"
    BY <1>0, <1>4 DEF ProxyIgnored, Proxy, Got
  <2>2. fwd' = fwd
    BY <1>4 DEF ProxyIgnored, Proxy, forwarder
  <2>3. ~Connection(c) /\ ~ReceiveFails(c)
    BY <1>0, <2>1 DEF Connection, StartFails, Started, Leave, Quit, Stay, Release, Released, ReceiveFails, RecvEnds
  <2> QED BY <2>1, <2>2, <2>3 DEF ToLeave
<1>5. CASE StartFails(c) \/ Started(c) \/ Leave(c) \/ Stay(c) \/ Quit(c)
  BY <1>5 DEF StartFails, Started, Leave, Stay, Quit
<1>6. CASE Forwarder
  <2>1. pc' = pc /\ recv' = recv
    BY <1>6 DEF Forwarder, ForwarderRuns, UpstreamFails, Forward, Sent, SendFails, ForwarderOnly, connection
  <2>2. CASE pc[c] = "joining"
    <3>1. ~Connection(c) /\ ~ReceiveFails(c)
      BY <1>0, <2>1, <2>2 DEF Connection, StartFails, Started, Leave, Quit, Stay, Release, Released, ReceiveFails, RecvEnds
    <3> QED BY <2>1, <2>2, <3>1 DEF ToLeave
  <2>3. CASE pc[c] = "releasing"
    <3>1. stopped
      BY <2>3 DEF ForwarderIsTold
    <3>2. \/ fwd = "recv" /\ fwd' \in {"send", "ended"}
          \/ fwd \in {"send", "new", "sleep"} /\ fwd' = "ended"
      <4>1. CASE ForwarderRuns \/ UpstreamFails \/ Sent \/ SendFails
        BY <3>1, <4>1 DEF ForwarderRuns, UpstreamFails, Sent, SendFails, Again
      <4>2. CASE Forward
        BY <3>1, <4>2 DEF Forward, Again
      <4> QED BY <1>6, <4>1, <4>2 DEF Forwarder
    <3> QED BY <2>1, <2>3, <3>2 DEF ToLeave
  <2> QED BY <2>2, <2>3
<1>7. \/ Connection(c) \/ Quit(c) \/ ProxyIgnored(c) \/ ProxyFails(c) \/ ReceiveFails(c)
      \/ Forwarder \/ \E kind \in Kinds : Proxy(c, kind)
  BY OthersStandStill DEF Publishing
<1> QED BY <1>1, <1>2, <1>3, <1>4, <1>5, <1>6, <1>7 DEF Connection

(* Whatever else happens, a client whose upstream failed is within a few steps of   *)
(* noticing, and one that leaves of having left: the part of PublishersGetOut that *)
(* needs no fairness (do_publishing, release_publish, SrsEdgeForwarder::stop).  *)
THEOREM GettingOutTakesFewSteps == Spec => GettingOutAdvances
<1>1. Init => ForwarderIsTold
  BY DEF Init, ForwarderIsTold
<1> DEFINE Advances(c) ==
        /\ pc[c] = "publishing" /\ send_error_code =>
             /\ send_error_code'
             /\ ToNotice(pc'[c], recv'[c], fresh'[c]) <= ToNotice(pc[c], recv[c], fresh[c])
             /\ Connection(c) \/ ProxyFails(c) \/ ReceiveFails(c) =>
                  ToNotice(pc'[c], recv'[c], fresh'[c]) < ToNotice(pc[c], recv[c], fresh[c])
        /\ pc[c] \in {"joining", "releasing"} =>
             /\ ToLeave(pc'[c], recv'[c], fwd') <= ToLeave(pc[c], recv[c], fwd)
             /\ Connection(c) \/ ReceiveFails(c) \/ (pc[c] = "releasing" /\ Forwarder) =>
                  ToLeave(pc'[c], recv'[c], fwd') < ToLeave(pc[c], recv[c], fwd)
<1>2. IInv /\ ForwarderIsTold /\ [Next]_vars => [\A c \in Clients : Advances(c)]_vars
  BY FailureNears, LeaverNears
<1> QED BY <1>1, <1>2, InvHolds, ForwarderIsToldKeeps, PTL DEF Spec, GettingOutAdvances
==============================================================================

-------------------------- MODULE PlayEdge_proofs --------------------------
(***************************************************************************)
(* For every number of players and of ingester coroutines: as long as no    *)
(* player comes while the last one is leaving and the source accepts the    *)
(* edge, the calls of PlayEdge keep one ingester, keep its upstream open    *)
(* under it, and never leave a player without it.  And, calm or not, a       *)
(* player that leaves is not held back by what others do.                   *)
(***************************************************************************)
EXTENDS PlayEdge, TLAPS

(* Whoever is in the source or on its way out, and what that says of the edge. *)
PcOK == \A c \in Clients : pc[c] \in {"out", "playing", "joining", "unpublishing"}

LeaverIsAlone ==
    \A c, d \in Clients : pc[c] \in Leaving /\ pc[d] # "out" => c = d

IdleEdge ==
    state = "Init" =>
        /\ \A c \in Clients : pc[c] = "out"
        /\ sdk = 0
        /\ can_publish
        /\ \A g \in Gens : ing[g] \in {"new", "ended"}
        /\ trd # 0 => disposed[trd]

BusyEdge ==
    (\E c \in Clients : pc[c] # "out") =>
        state # "Init" /\ trd # 0 /\ ~can_publish

Fed ==
    \A c \in Clients :
        pc[c] = "playing" => ing[trd] \in Running /\ ~disposed[trd] /\ is_active

Joining ==
    \A c \in Clients :
        pc[c] = "joining" =>
            /\ joins[c] = trd
            /\ disposed[trd]
            /\ is_active
            /\ ing[trd] \in Running \cup {"ended"}

Unpublishing ==
    \A c \in Clients :
        pc[c] = "unpublishing" => ing[trd] = "ended" /\ disposed[trd] /\ sdk = 0

SomebodyIsThere == state # "Init" => \E c \in Clients : pc[c] # "out"

CInv ==
    /\ IngestPlayAsserted
    /\ OneIngester
    /\ PcOK
    /\ LeaverIsAlone
    /\ IdleEdge
    /\ BusyEdge
    /\ Fed
    /\ Joining
    /\ Unpublishing
    /\ SomebodyIsThere

(* What holds while calls do not overlap, beside the types, which always hold. *)
IInv == TypeOK /\ (Calm => CInv)
-----------------------------------------------------------------------------
LEMMA InitIInv == Init => IInv
<1> SUFFICES ASSUME Init PROVE IInv
  OBVIOUS
<1> USE DEF Init, Leaving, Running, Gens
<1>1. TypeOK
  <2>1. 0 \in 0 .. MaxStarts /\ \A g \in Gens : g > 0
    BY PlayEdgeAssumption
  <2> QED
    BY <2>1 DEF TypeOK
<1>2. IngestPlayAsserted /\ OneIngester
  BY DEF IngestPlayAsserted, OneIngester
<1>3. PcOK /\ LeaverIsAlone /\ Fed /\ Joining /\ Unpublishing
  BY DEF PcOK, LeaverIsAlone, Fed, Joining, Unpublishing
<1>4. IdleEdge /\ BusyEdge /\ SomebodyIsThere
  BY DEF IdleEdge, BusyEdge, SomebodyIsThere
<1> QED
  BY <1>1, <1>2, <1>3, <1>4 DEF IInv, CInv

LEMMA StutterIInv == IInv /\ UNCHANGED vars => IInv'
  BY DEF vars, source, Calm, IInv, CInv, TypeOK, IngestPlayAsserted,
     OneIngester, PcOK, LeaverIsAlone, IdleEdge, BusyEdge, Fed, Joining,
     Unpublishing, SomebodyIsThere, NobodyLeaves,
     Leaving, Running

(* The types hold whatever the clients do.                                   *)
LEMMA TypeStep == TypeOK /\ [Next]_vars => TypeOK'
<1> SUFFICES ASSUME TypeOK, [Next]_vars PROVE TypeOK'
  OBVIOUS
<1> USE DEF TypeOK, Leaving, Running, source
<1>0. 0 \in 0 .. MaxStarts /\ Gens = 1 .. MaxStarts
  BY PlayEdgeAssumption DEF Gens
<1>1. ASSUME NEW c \in Clients,
Join(c) \/ JoinFails(c) \/ Leave(c) PROVE TypeOK'
  BY <1>1 DEF Join, JoinFails, Leave, Comes, NobodyLeaves
<1>2. ASSUME NEW c \in Clients, NewIngester(c), trd < MaxStarts,
             UNCHANGED <<state, is_active, can_publish, apart, accepted>>
                \/ JoinFirst(c)
      PROVE  TypeOK'
  <2>1. trd + 1 \in Gens /\ trd' = trd + 1 /\ trd' \in 0 .. MaxStarts
    BY <1>0, <1>2, PlayEdgeAssumption DEF NewIngester
  <2>2. \A g \in Gens : (ing'[g] = "new" <=> g > trd') /\ (disposed'[g] => g <= trd')
    BY <1>0, <1>2, <2>1 DEF NewIngester
  <2>3. /\ state' \in {"Init", "Play", "IngestConnected"}
        /\ is_active' \in BOOLEAN /\ can_publish' \in BOOLEAN
        /\ apart' \in BOOLEAN /\ accepted' \in BOOLEAN
    BY <1>2 DEF JoinFirst, NobodyLeaves
  <2> QED
    BY <1>2, <2>1, <2>2, <2>3 DEF NewIngester
<1>3. ASSUME NEW c \in Clients, JoinFirst(c) PROVE TypeOK'
  <2>1. CASE MustStopOld
    <3>1. disposed' \in [Gens -> BOOLEAN] /\ \A g \in Gens : disposed'[g] => g <= trd
      <4>1. disposed' = [disposed EXCEPT ![trd] = TRUE] /\ disposed \in [Gens -> BOOLEAN]
        BY <1>3, <2>1 DEF JoinFirst
      <4>2. trd \in Int /\ Gens \subseteq Int /\ \A g \in Gens : disposed[g] => g <= trd
        BY <1>0, PlayEdgeAssumption
      <4>3. ASSUME NEW g \in Gens, disposed'[g], g # trd PROVE disposed[g]
        BY <4>1, <4>3, Zenon
      <4> HIDE DEF TypeOK
      <4>4. disposed' \in [Gens -> BOOLEAN]
        BY <4>1, Zenon
      <4> QED
        BY <4>2, <4>3, <4>4
    <3>2. joins' \in [Clients -> 0 .. MaxStarts]
      BY <1>0, <1>3, <2>1, PlayEdgeAssumption DEF JoinFirst
    <3>3. pc' \in [Clients -> {"out", "playing", "restarting",
    "leaked"} \cup Leaving]
      BY <1>3, <2>1 DEF JoinFirst
    <3> QED
      BY <1>3, <2>1, <3>1, <3>2, <3>3 DEF JoinFirst, NobodyLeaves
  <2>2. CASE ~MustStopOld
    BY <1>2, <1>3, <2>2 DEF JoinFirst, Comes
  <2> QED
    BY <2>1, <2>2
<1>4. ASSUME NEW c \in Clients, Restarted(c) PROVE TypeOK'
  BY <1>2, <1>4 DEF Restarted
<1>5. ASSUME NEW c \in Clients, LeaveLast(c) PROVE TypeOK'
  <2>1. disposed' \in [Gens -> BOOLEAN] /\ \A g \in Gens : disposed'[g] => g <= trd
    <3>1. disposed' = [disposed EXCEPT ![trd] = TRUE] /\ disposed \in [Gens -> BOOLEAN]
      BY <1>5 DEF LeaveLast
    <3>2. trd \in Int /\ Gens \subseteq Int /\ \A g \in Gens : disposed[g] => g <= trd
      BY <1>0, PlayEdgeAssumption
    <3>3. ASSUME NEW g \in Gens, disposed'[g], g # trd PROVE disposed[g]
      BY <3>1, <3>3, Zenon
    <3> HIDE DEF TypeOK
    <3>4. disposed' \in [Gens -> BOOLEAN]
      BY <3>1, Zenon
    <3> QED
      BY <3>2, <3>3, <3>4
  <2>2. joins' \in [Clients -> 0 .. MaxStarts]
    BY <1>0, <1>5, PlayEdgeAssumption DEF LeaveLast
  <2> QED
    BY <1>5, <2>1, <2>2 DEF LeaveLast
<1>6. ASSUME NEW c \in Clients, CloseUpstream(c) PROVE TypeOK'
  <2>1. CASE can_publish
    BY <1>0, <1>6, <2>1 DEF CloseUpstream
  <2>2. CASE ~can_publish
    BY <1>0, <1>6, <2>2 DEF CloseUpstream
  <2> QED
    BY <2>1, <2>2
<1>7. ASSUME NEW c \in Clients, Unpublished(c) PROVE TypeOK'
  BY <1>7 DEF Unpublished, BackToInit
<1>8. ASSUME NEW g \in Gens, Ingester(g) PROVE TypeOK'
  <2>1. CASE CycleEnds(g) \/ ConnectFails(g) \/ IngestFails(g) \/ Wakes(g)
    BY <2>1 DEF CycleEnds, ConnectFails, IngestFails, Wakes, Goes
  <2>2. CASE Connect(g) \/ NoOrigin(g) \/ Redirected(g)
    BY <1>0, <2>2, PlayEdgeAssumption DEF Connect, NoOrigin, Redirected, Goes
  <2>3. CASE Connected(g)
    BY <2>3 DEF Connected, Goes
  <2> QED
    BY <1>8, <2>1, <2>2, <2>3 DEF Ingester
<1>9. CASE UNCHANGED vars
  BY <1>9 DEF vars
<1> QED
  BY <1>1, <1>3, <1>4, <1>5, <1>6, <1>7, <1>8, <1>9
     DEF Next, ClientStops, LeaveAgain, Stopped

(* In a calm edge no client finds the ingester stopped by another one.       *)
LEMMA NeverTaken ==
  ASSUME TypeOK, CInv, NEW c \in Clients
  PROVE  ~LeaveAgain(c) /\ ~Restarted(c)
<1>1. ~LeaveAgain(c)
  BY DEF CInv, Fed, LeaveAgain, IsLast
<1>2. ~Restarted(c)
  BY DEF CInv, PcOK, Restarted
<1> QED
  BY <1>1, <1>2

(* A player that finds the edge busy finds its ingester running.             *)
LEMMA JoinKeeps ==
  ASSUME TypeOK, CInv, Calm, NEW c \in Clients, Join(c), Calm'
  PROVE  CInv'
<1> USE DEF CInv, Calm, Gens, Leaving, Running, source, Join, NobodyLeaves
<1>1. IngestPlayAsserted'
  BY PlayEdgeAssumption DEF TypeOK, IngestPlayAsserted, IdleEdge,
     SomebodyIsThere
<1>2. OneIngester'
  BY PlayEdgeAssumption DEF TypeOK, OneIngester, IdleEdge, Joining
<1>3. PcOK'
  BY PlayEdgeAssumption DEF TypeOK, PcOK
<1>4. LeaverIsAlone'
  BY PlayEdgeAssumption DEF TypeOK, PcOK, LeaverIsAlone, IdleEdge
<1>5. IdleEdge'
  BY PlayEdgeAssumption DEF TypeOK, PcOK, LeaverIsAlone, IngestPlayAsserted,
     OneIngester, IdleEdge, BusyEdge, Joining, Unpublishing
<1>6. BusyEdge'
  BY PlayEdgeAssumption DEF TypeOK, PcOK, LeaverIsAlone, BusyEdge, IdleEdge,
     SomebodyIsThere
<1>7. Fed'
  BY PlayEdgeAssumption DEF TypeOK, PcOK, LeaverIsAlone, OneIngester, IdleEdge,
     BusyEdge, Fed, SomebodyIsThere
<1>8. Joining'
  BY PlayEdgeAssumption DEF TypeOK, PcOK, LeaverIsAlone, IdleEdge, BusyEdge,
     OneIngester, Fed, Joining
<1>9. Unpublishing'
  BY PlayEdgeAssumption DEF TypeOK, PcOK, LeaverIsAlone, OneIngester, IdleEdge,
     BusyEdge, Fed, Joining, Unpublishing
<1>10. SomebodyIsThere'
  <2>1. pc'[c] # "out"
    BY DEF TypeOK
  <2> QED
    BY <2>1 DEF SomebodyIsThere
<1> QED
  BY <1>1, <1>2, <1>3, <1>4, <1>5, <1>6, <1>7, <1>8, <1>9, <1>10

(* The first player finds the old ingester stopped and starts the next.      *)
LEMMA JoinFirstKeeps ==
  ASSUME TypeOK, CInv, Calm, NEW c \in Clients, JoinFirst(c), Calm'
  PROVE  CInv'
<1>0. NewIngester(c)
  BY DEF CInv, IdleEdge, Comes, JoinFirst, MustStopOld
<1> USE <1>0
<1> USE DEF CInv, Calm, Gens, Leaving, Running, source, JoinFirst, Comes,
            NobodyLeaves, NewIngester
<1>1. IngestPlayAsserted'
  BY PlayEdgeAssumption DEF TypeOK, IngestPlayAsserted, IdleEdge,
     SomebodyIsThere
<1>2. OneIngester'
  BY PlayEdgeAssumption DEF TypeOK, OneIngester, IdleEdge, Joining
<1>3. PcOK'
  BY PlayEdgeAssumption DEF TypeOK, PcOK
<1>4. LeaverIsAlone'
  BY PlayEdgeAssumption DEF TypeOK, PcOK, LeaverIsAlone, IdleEdge
<1>5. IdleEdge'
  BY PlayEdgeAssumption DEF TypeOK, PcOK, LeaverIsAlone, IngestPlayAsserted,
     OneIngester, IdleEdge, BusyEdge, Joining, Unpublishing
<1>6. BusyEdge'
  BY PlayEdgeAssumption DEF TypeOK, PcOK, LeaverIsAlone, BusyEdge, IdleEdge,
     SomebodyIsThere
<1>7. Fed'
  BY PlayEdgeAssumption DEF TypeOK, PcOK, LeaverIsAlone, OneIngester, IdleEdge,
     BusyEdge, Fed, SomebodyIsThere
<1>8. Joining'
  BY PlayEdgeAssumption DEF TypeOK, PcOK, LeaverIsAlone, IdleEdge, BusyEdge,
     OneIngester, Fed, Joining
<1>9. Unpublishing'
  BY PlayEdgeAssumption DEF TypeOK, PcOK, LeaverIsAlone, OneIngester, IdleEdge,
     BusyEdge, Fed, Joining, Unpublishing
<1>10. SomebodyIsThere'
  <2>1. pc'[c] # "out"
    BY DEF TypeOK
  <2> QED
    BY <2>1 DEF SomebodyIsThere
<1> QED
  BY <1>1, <1>2, <1>3, <1>4, <1>5, <1>6, <1>7, <1>8, <1>9, <1>10

(* A player that leaves others behind leaves the ingester to them.           *)
LEMMA LeaveKeeps ==
  ASSUME TypeOK, CInv, Calm, NEW c \in Clients, Leave(c), Calm'
  PROVE  CInv'
<1> USE DEF CInv, Calm, Gens, Leaving, Running, source, Leave, Consumers
<1>1. IngestPlayAsserted'
  BY PlayEdgeAssumption DEF TypeOK, IngestPlayAsserted, IdleEdge,
     SomebodyIsThere
<1>2. OneIngester'
  BY PlayEdgeAssumption DEF TypeOK, OneIngester, IdleEdge, Joining
<1>3. PcOK'
  BY PlayEdgeAssumption DEF TypeOK, PcOK
<1>4. LeaverIsAlone'
  BY PlayEdgeAssumption DEF TypeOK, PcOK, LeaverIsAlone, IdleEdge
<1>5. IdleEdge'
  BY PlayEdgeAssumption DEF TypeOK, PcOK, LeaverIsAlone, IngestPlayAsserted,
     OneIngester, IdleEdge, BusyEdge, Joining, Unpublishing
<1>6. BusyEdge'
  BY PlayEdgeAssumption DEF TypeOK, PcOK, LeaverIsAlone, BusyEdge, IdleEdge,
     SomebodyIsThere
<1>7. Fed'
  BY PlayEdgeAssumption DEF TypeOK, PcOK, LeaverIsAlone, OneIngester, IdleEdge,
     BusyEdge, Fed, SomebodyIsThere
<1>8. Joining'
  BY PlayEdgeAssumption DEF TypeOK, PcOK, LeaverIsAlone, IdleEdge, BusyEdge,
     OneIngester, Fed, Joining
<1>9. Unpublishing'
  BY PlayEdgeAssumption DEF TypeOK, PcOK, LeaverIsAlone, OneIngester, IdleEdge,
     BusyEdge, Fed, Joining, Unpublishing
<1>10. SomebodyIsThere'
  BY PlayEdgeAssumption DEF TypeOK, PcOK, LeaverIsAlone, SomebodyIsThere
<1> QED
  BY <1>1, <1>2, <1>3, <1>4, <1>5, <1>6, <1>7, <1>8, <1>9, <1>10

(* The last player waits alone.                                              *)
LEMMA LeaveLastKeeps ==
  ASSUME TypeOK, CInv, Calm, NEW c \in Clients, LeaveLast(c), Calm'
  PROVE  CInv'
<1> USE DEF CInv, Calm, Gens, Leaving, Running, source, LeaveLast, IsLast,
            Consumers
<1>1. IngestPlayAsserted'
  BY PlayEdgeAssumption DEF TypeOK, IngestPlayAsserted, IdleEdge,
     SomebodyIsThere
<1>2. OneIngester'
  BY PlayEdgeAssumption DEF TypeOK, OneIngester, IdleEdge, Joining
<1>3. PcOK'
  BY PlayEdgeAssumption DEF TypeOK, PcOK
<1>4. LeaverIsAlone'
  BY PlayEdgeAssumption DEF TypeOK, PcOK, LeaverIsAlone, IdleEdge
<1>5. IdleEdge'
  BY PlayEdgeAssumption DEF TypeOK, PcOK, LeaverIsAlone, IngestPlayAsserted,
     OneIngester, IdleEdge, BusyEdge, Joining, Unpublishing
<1>6. BusyEdge'
  BY PlayEdgeAssumption DEF TypeOK, PcOK, LeaverIsAlone, BusyEdge, IdleEdge,
     SomebodyIsThere
<1>7. Fed'
  BY PlayEdgeAssumption DEF TypeOK, PcOK, LeaverIsAlone, OneIngester, IdleEdge,
     BusyEdge, Fed, SomebodyIsThere
<1>8. Joining'
  BY PlayEdgeAssumption DEF TypeOK, PcOK, LeaverIsAlone, IdleEdge, BusyEdge,
     OneIngester, Fed, Joining
<1>9. Unpublishing'
  BY PlayEdgeAssumption DEF TypeOK, PcOK, LeaverIsAlone, OneIngester, IdleEdge,
     BusyEdge, Fed, Joining, Unpublishing
<1>10. SomebodyIsThere'
  <2>1. pc'[c] # "out"
    BY DEF TypeOK
  <2> QED
    BY <2>1 DEF SomebodyIsThere
<1> QED
  BY <1>1, <1>2, <1>3, <1>4, <1>5, <1>6, <1>7, <1>8, <1>9, <1>10

(* The upstream is closed after the ingester has ended.                      *)
LEMMA StoppedKeeps ==
  ASSUME TypeOK, CInv, Calm, NEW c \in Clients, Stopped(c), Calm'
  PROVE  CInv'
<1> USE DEF CInv, Calm, Gens, Leaving, Running, source, Stopped, JoinReturns,
            CloseUpstream
<1>1. IngestPlayAsserted'
  BY PlayEdgeAssumption DEF TypeOK, IngestPlayAsserted, IdleEdge,
     SomebodyIsThere
<1>2. OneIngester'
  BY PlayEdgeAssumption DEF TypeOK, OneIngester, IdleEdge, Joining
<1>3. PcOK'
  BY PlayEdgeAssumption DEF TypeOK, PcOK
<1>4. LeaverIsAlone'
  BY PlayEdgeAssumption DEF TypeOK, PcOK, LeaverIsAlone, IdleEdge
<1>5. IdleEdge'
  BY PlayEdgeAssumption DEF TypeOK, PcOK, LeaverIsAlone, IngestPlayAsserted,
     OneIngester, IdleEdge, BusyEdge, Joining, Unpublishing
<1>6. BusyEdge'
  BY PlayEdgeAssumption DEF TypeOK, PcOK, LeaverIsAlone, BusyEdge, IdleEdge,
     SomebodyIsThere
<1>7. Fed'
  BY PlayEdgeAssumption DEF TypeOK, PcOK, LeaverIsAlone, OneIngester, IdleEdge,
     BusyEdge, Fed, SomebodyIsThere
<1>8. Joining'
  BY PlayEdgeAssumption DEF TypeOK, PcOK, LeaverIsAlone, IdleEdge, BusyEdge,
     OneIngester, Fed, Joining
<1>9. Unpublishing'
  BY PlayEdgeAssumption DEF TypeOK, PcOK, LeaverIsAlone, OneIngester, IdleEdge,
     BusyEdge, Fed, Joining, Unpublishing
<1>10. SomebodyIsThere'
  <2>1. pc'[c] # "out"
    BY DEF TypeOK, BusyEdge
  <2> QED
    BY <2>1 DEF SomebodyIsThere
<1> QED
  BY <1>1, <1>2, <1>3, <1>4, <1>5, <1>6, <1>7, <1>8, <1>9, <1>10

(* The edge is idle again only when the source is.                           *)
LEMMA UnpublishedKeeps ==
  ASSUME TypeOK, CInv, Calm, NEW c \in Clients, Unpublished(c), Calm'
  PROVE  CInv'
<1> USE DEF CInv, Calm, Gens, Leaving, Running, source, Unpublished, BackToInit
<1>1. IngestPlayAsserted'
  BY PlayEdgeAssumption DEF TypeOK, IngestPlayAsserted, IdleEdge,
     SomebodyIsThere
<1>2. OneIngester'
  BY PlayEdgeAssumption DEF TypeOK, OneIngester, IdleEdge, Joining
<1>3. PcOK'
  BY PlayEdgeAssumption DEF TypeOK, PcOK
<1>4. LeaverIsAlone'
  BY PlayEdgeAssumption DEF TypeOK, PcOK, LeaverIsAlone, IdleEdge
<1>5. IdleEdge'
  BY PlayEdgeAssumption DEF TypeOK, PcOK, LeaverIsAlone, IngestPlayAsserted,
     OneIngester, IdleEdge, BusyEdge, Joining, Unpublishing
<1>6. BusyEdge'
  BY PlayEdgeAssumption DEF TypeOK, PcOK, LeaverIsAlone, BusyEdge, IdleEdge,
     SomebodyIsThere
<1>7. Fed'
  BY PlayEdgeAssumption DEF TypeOK, PcOK, LeaverIsAlone, OneIngester, IdleEdge,
     BusyEdge, Fed, SomebodyIsThere
<1>8. Joining'
  BY PlayEdgeAssumption DEF TypeOK, PcOK, LeaverIsAlone, IdleEdge, BusyEdge,
     OneIngester, Fed, Joining
<1>9. Unpublishing'
  BY PlayEdgeAssumption DEF TypeOK, PcOK, LeaverIsAlone, OneIngester, IdleEdge,
     BusyEdge, Fed, Joining, Unpublishing
<1>10. SomebodyIsThere'
  BY PlayEdgeAssumption DEF TypeOK, PcOK, LeaverIsAlone, SomebodyIsThere
<1> QED
  BY <1>1, <1>2, <1>3, <1>4, <1>5, <1>6, <1>7, <1>8, <1>9, <1>10

(* Only a stopped ingester ends.                                             *)
LEMMA CycleEndsKeeps ==
  ASSUME TypeOK, CInv, Calm, NEW g \in Gens, CycleEnds(g), Calm'
  PROVE  CInv'
<1> USE DEF CInv, Calm, Gens, Leaving, Running, source, Goes, CycleEnds
<1>1. IngestPlayAsserted'
  BY PlayEdgeAssumption DEF TypeOK, IngestPlayAsserted, IdleEdge,
     SomebodyIsThere
<1>2. OneIngester'
  BY PlayEdgeAssumption DEF TypeOK, OneIngester, IdleEdge, Joining
<1>3. PcOK'
  BY PlayEdgeAssumption DEF TypeOK, PcOK
<1>4. LeaverIsAlone'
  BY PlayEdgeAssumption DEF TypeOK, PcOK, LeaverIsAlone, IdleEdge
<1>5. IdleEdge'
  BY PlayEdgeAssumption DEF TypeOK, PcOK, LeaverIsAlone, IngestPlayAsserted,
     OneIngester, IdleEdge, BusyEdge, Joining, Unpublishing
<1>6. BusyEdge'
  BY PlayEdgeAssumption DEF TypeOK, PcOK, LeaverIsAlone, BusyEdge, IdleEdge,
     SomebodyIsThere
<1>7. Fed'
  BY PlayEdgeAssumption DEF TypeOK, PcOK, LeaverIsAlone, OneIngester, IdleEdge,
     BusyEdge, Fed, SomebodyIsThere
<1>8. Joining'
  BY PlayEdgeAssumption DEF TypeOK, PcOK, LeaverIsAlone, IdleEdge, BusyEdge,
     OneIngester, Fed, Joining
<1>9. Unpublishing'
  BY PlayEdgeAssumption DEF TypeOK, PcOK, LeaverIsAlone, OneIngester, IdleEdge,
     BusyEdge, Fed, Joining, Unpublishing
<1>10. SomebodyIsThere'
  BY PlayEdgeAssumption DEF TypeOK, PcOK, LeaverIsAlone, SomebodyIsThere
<1> QED
  BY <1>1, <1>2, <1>3, <1>4, <1>5, <1>6, <1>7, <1>8, <1>9, <1>10

(* A new upstream belongs to the one ingester that runs.                     *)
LEMMA ConnectKeeps ==
  ASSUME TypeOK, CInv, Calm, NEW g \in Gens, Connect(g), Calm'
  PROVE  CInv'
<1> USE DEF CInv, Calm, Gens, Leaving, Running, source, Goes, Connect
<1>1. IngestPlayAsserted'
  BY PlayEdgeAssumption DEF TypeOK, IngestPlayAsserted, IdleEdge,
     SomebodyIsThere
<1>2. OneIngester'
  BY PlayEdgeAssumption DEF TypeOK, OneIngester, IdleEdge, Joining
<1>3. PcOK'
  BY PlayEdgeAssumption DEF TypeOK, PcOK
<1>4. LeaverIsAlone'
  BY PlayEdgeAssumption DEF TypeOK, PcOK, LeaverIsAlone, IdleEdge
<1>5. IdleEdge'
  BY PlayEdgeAssumption DEF TypeOK, PcOK, LeaverIsAlone, IngestPlayAsserted,
     OneIngester, IdleEdge, BusyEdge, Joining, Unpublishing
<1>6. BusyEdge'
  BY PlayEdgeAssumption DEF TypeOK, PcOK, LeaverIsAlone, BusyEdge, IdleEdge,
     SomebodyIsThere
<1>7. Fed'
  BY PlayEdgeAssumption DEF TypeOK, PcOK, LeaverIsAlone, OneIngester, IdleEdge,
     BusyEdge, Fed, SomebodyIsThere
<1>8. Joining'
  BY PlayEdgeAssumption DEF TypeOK, PcOK, LeaverIsAlone, IdleEdge, BusyEdge,
     OneIngester, Fed, Joining
<1>9. Unpublishing'
  BY PlayEdgeAssumption DEF TypeOK, PcOK, LeaverIsAlone, OneIngester, IdleEdge,
     BusyEdge, Fed, Joining, Unpublishing
<1>10. SomebodyIsThere'
  BY PlayEdgeAssumption DEF TypeOK, PcOK, LeaverIsAlone, SomebodyIsThere
<1> QED
  BY <1>1, <1>2, <1>3, <1>4, <1>5, <1>6, <1>7, <1>8, <1>9, <1>10

(* Without an origin there is no upstream.                                   *)
LEMMA NoOriginKeeps ==
  ASSUME TypeOK, CInv, Calm, NEW g \in Gens, NoOrigin(g), Calm'
  PROVE  CInv'
<1> USE DEF CInv, Calm, Gens, Leaving, Running, source, Goes, NoOrigin
<1>1. IngestPlayAsserted'
  BY PlayEdgeAssumption DEF TypeOK, IngestPlayAsserted, IdleEdge,
     SomebodyIsThere
<1>2. OneIngester'
  BY PlayEdgeAssumption DEF TypeOK, OneIngester, IdleEdge, Joining
<1>3. PcOK'
  BY PlayEdgeAssumption DEF TypeOK, PcOK
<1>4. LeaverIsAlone'
  BY PlayEdgeAssumption DEF TypeOK, PcOK, LeaverIsAlone, IdleEdge
<1>5. IdleEdge'
  BY PlayEdgeAssumption DEF TypeOK, PcOK, LeaverIsAlone, IngestPlayAsserted,
     OneIngester, IdleEdge, BusyEdge, Joining, Unpublishing
<1>6. BusyEdge'
  BY PlayEdgeAssumption DEF TypeOK, PcOK, LeaverIsAlone, BusyEdge, IdleEdge,
     SomebodyIsThere
<1>7. Fed'
  BY PlayEdgeAssumption DEF TypeOK, PcOK, LeaverIsAlone, OneIngester, IdleEdge,
     BusyEdge, Fed, SomebodyIsThere
<1>8. Joining'
  BY PlayEdgeAssumption DEF TypeOK, PcOK, LeaverIsAlone, IdleEdge, BusyEdge,
     OneIngester, Fed, Joining
<1>9. Unpublishing'
  BY PlayEdgeAssumption DEF TypeOK, PcOK, LeaverIsAlone, OneIngester, IdleEdge,
     BusyEdge, Fed, Joining, Unpublishing
<1>10. SomebodyIsThere'
  BY PlayEdgeAssumption DEF TypeOK, PcOK, LeaverIsAlone, SomebodyIsThere
<1> QED
  BY <1>1, <1>2, <1>3, <1>4, <1>5, <1>6, <1>7, <1>8, <1>9, <1>10

(* An error is followed by a pause.                                          *)
LEMMA ConnectFailsKeeps ==
  ASSUME TypeOK, CInv, Calm, NEW g \in Gens, ConnectFails(g), Calm'
  PROVE  CInv'
<1> USE DEF CInv, Calm, Gens, Leaving, Running, source, Goes, ConnectFails
<1>1. IngestPlayAsserted'
  BY PlayEdgeAssumption DEF TypeOK, IngestPlayAsserted, IdleEdge,
     SomebodyIsThere
<1>2. OneIngester'
  BY PlayEdgeAssumption DEF TypeOK, OneIngester, IdleEdge, Joining
<1>3. PcOK'
  BY PlayEdgeAssumption DEF TypeOK, PcOK
<1>4. LeaverIsAlone'
  BY PlayEdgeAssumption DEF TypeOK, PcOK, LeaverIsAlone, IdleEdge
<1>5. IdleEdge'
  BY PlayEdgeAssumption DEF TypeOK, PcOK, LeaverIsAlone, IngestPlayAsserted,
     OneIngester, IdleEdge, BusyEdge, Joining, Unpublishing
<1>6. BusyEdge'
  BY PlayEdgeAssumption DEF TypeOK, PcOK, LeaverIsAlone, BusyEdge, IdleEdge,
     SomebodyIsThere
<1>7. Fed'
  BY PlayEdgeAssumption DEF TypeOK, PcOK, LeaverIsAlone, OneIngester, IdleEdge,
     BusyEdge, Fed, SomebodyIsThere
<1>8. Joining'
  BY PlayEdgeAssumption DEF TypeOK, PcOK, LeaverIsAlone, IdleEdge, BusyEdge,
     OneIngester, Fed, Joining
<1>9. Unpublishing'
  BY PlayEdgeAssumption DEF TypeOK, PcOK, LeaverIsAlone, OneIngester, IdleEdge,
     BusyEdge, Fed, Joining, Unpublishing
<1>10. SomebodyIsThere'
  BY PlayEdgeAssumption DEF TypeOK, PcOK, LeaverIsAlone, SomebodyIsThere
<1> QED
  BY <1>1, <1>2, <1>3, <1>4, <1>5, <1>6, <1>7, <1>8, <1>9, <1>10

(* The edge is not idle under a running ingester.                            *)
LEMMA ConnectedKeeps ==
  ASSUME TypeOK, CInv, Calm, NEW g \in Gens, Connected(g), Calm'
  PROVE  CInv'
<1> USE DEF CInv, Calm, Gens, Leaving, Running, source, Goes, Connected,
            IngestPlayOK
<1>1. IngestPlayAsserted'
  BY PlayEdgeAssumption DEF TypeOK, IngestPlayAsserted, IdleEdge,
     SomebodyIsThere
<1>2. OneIngester'
  BY PlayEdgeAssumption DEF TypeOK, OneIngester, IdleEdge, Joining
<1>3. PcOK'
  BY PlayEdgeAssumption DEF TypeOK, PcOK
<1>4. LeaverIsAlone'
  BY PlayEdgeAssumption DEF TypeOK, PcOK, LeaverIsAlone, IdleEdge
<1>5. IdleEdge'
  BY PlayEdgeAssumption DEF TypeOK, PcOK, LeaverIsAlone, IngestPlayAsserted,
     OneIngester, IdleEdge, BusyEdge, Joining, Unpublishing
<1>6. BusyEdge'
  BY PlayEdgeAssumption DEF TypeOK, PcOK, LeaverIsAlone, BusyEdge, IdleEdge,
     SomebodyIsThere
<1>7. Fed'
  BY PlayEdgeAssumption DEF TypeOK, PcOK, LeaverIsAlone, OneIngester, IdleEdge,
     BusyEdge, Fed, SomebodyIsThere
<1>8. Joining'
  BY PlayEdgeAssumption DEF TypeOK, PcOK, LeaverIsAlone, IdleEdge, BusyEdge,
     OneIngester, Fed, Joining
<1>9. Unpublishing'
  BY PlayEdgeAssumption DEF TypeOK, PcOK, LeaverIsAlone, OneIngester, IdleEdge,
     BusyEdge, Fed, Joining, Unpublishing
<1>10. SomebodyIsThere'
  BY PlayEdgeAssumption DEF TypeOK, PcOK, LeaverIsAlone, SomebodyIsThere
<1> QED
  BY <1>1, <1>2, <1>3, <1>4, <1>5, <1>6, <1>7, <1>8, <1>9, <1>10

(* A redirect is a new upstream.                                             *)
LEMMA RedirectedKeeps ==
  ASSUME TypeOK, CInv, Calm, NEW g \in Gens, Redirected(g), Calm'
  PROVE  CInv'
<1> USE DEF CInv, Calm, Gens, Leaving, Running, source, Goes, Redirected
<1>1. IngestPlayAsserted'
  BY PlayEdgeAssumption DEF TypeOK, IngestPlayAsserted, IdleEdge,
     SomebodyIsThere
<1>2. OneIngester'
  BY PlayEdgeAssumption DEF TypeOK, OneIngester, IdleEdge, Joining
<1>3. PcOK'
  BY PlayEdgeAssumption DEF TypeOK, PcOK
<1>4. LeaverIsAlone'
  BY PlayEdgeAssumption DEF TypeOK, PcOK, LeaverIsAlone, IdleEdge
<1>5. IdleEdge'
  BY PlayEdgeAssumption DEF TypeOK, PcOK, LeaverIsAlone, IngestPlayAsserted,
     OneIngester, IdleEdge, BusyEdge, Joining, Unpublishing
<1>6. BusyEdge'
  BY PlayEdgeAssumption DEF TypeOK, PcOK, LeaverIsAlone, BusyEdge, IdleEdge,
     SomebodyIsThere
<1>7. Fed'
  BY PlayEdgeAssumption DEF TypeOK, PcOK, LeaverIsAlone, OneIngester, IdleEdge,
     BusyEdge, Fed, SomebodyIsThere
<1>8. Joining'
  BY PlayEdgeAssumption DEF TypeOK, PcOK, LeaverIsAlone, IdleEdge, BusyEdge,
     OneIngester, Fed, Joining
<1>9. Unpublishing'
  BY PlayEdgeAssumption DEF TypeOK, PcOK, LeaverIsAlone, OneIngester, IdleEdge,
     BusyEdge, Fed, Joining, Unpublishing
<1>10. SomebodyIsThere'
  BY PlayEdgeAssumption DEF TypeOK, PcOK, LeaverIsAlone, SomebodyIsThere
<1> QED
  BY <1>1, <1>2, <1>3, <1>4, <1>5, <1>6, <1>7, <1>8, <1>9, <1>10

(* An error is followed by a pause.                                          *)
LEMMA IngestFailsKeeps ==
  ASSUME TypeOK, CInv, Calm, NEW g \in Gens, IngestFails(g), Calm'
  PROVE  CInv'
<1> USE DEF CInv, Calm, Gens, Leaving, Running, source, Goes, IngestFails
<1>1. IngestPlayAsserted'
  BY PlayEdgeAssumption DEF TypeOK, IngestPlayAsserted, IdleEdge,
     SomebodyIsThere
<1>2. OneIngester'
  BY PlayEdgeAssumption DEF TypeOK, OneIngester, IdleEdge, Joining
<1>3. PcOK'
  BY PlayEdgeAssumption DEF TypeOK, PcOK
<1>4. LeaverIsAlone'
  BY PlayEdgeAssumption DEF TypeOK, PcOK, LeaverIsAlone, IdleEdge
<1>5. IdleEdge'
  BY PlayEdgeAssumption DEF TypeOK, PcOK, LeaverIsAlone, IngestPlayAsserted,
     OneIngester, IdleEdge, BusyEdge, Joining, Unpublishing
<1>6. BusyEdge'
  BY PlayEdgeAssumption DEF TypeOK, PcOK, LeaverIsAlone, BusyEdge, IdleEdge,
     SomebodyIsThere
<1>7. Fed'
  BY PlayEdgeAssumption DEF TypeOK, PcOK, LeaverIsAlone, OneIngester, IdleEdge,
     BusyEdge, Fed, SomebodyIsThere
<1>8. Joining'
  BY PlayEdgeAssumption DEF TypeOK, PcOK, LeaverIsAlone, IdleEdge, BusyEdge,
     OneIngester, Fed, Joining
<1>9. Unpublishing'
  BY PlayEdgeAssumption DEF TypeOK, PcOK, LeaverIsAlone, OneIngester, IdleEdge,
     BusyEdge, Fed, Joining, Unpublishing
<1>10. SomebodyIsThere'
  BY PlayEdgeAssumption DEF TypeOK, PcOK, LeaverIsAlone, SomebodyIsThere
<1> QED
  BY <1>1, <1>2, <1>3, <1>4, <1>5, <1>6, <1>7, <1>8, <1>9, <1>10

(* After the pause the cycle starts again.                                   *)
LEMMA WakesKeeps ==
  ASSUME TypeOK, CInv, Calm, NEW g \in Gens, Wakes(g), Calm'
  PROVE  CInv'
<1> USE DEF CInv, Calm, Gens, Leaving, Running, source, Goes, Wakes
<1>1. IngestPlayAsserted'
  BY PlayEdgeAssumption DEF TypeOK, IngestPlayAsserted, IdleEdge,
     SomebodyIsThere
<1>2. OneIngester'
  BY PlayEdgeAssumption DEF TypeOK, OneIngester, IdleEdge, Joining
<1>3. PcOK'
  BY PlayEdgeAssumption DEF TypeOK, PcOK
<1>4. LeaverIsAlone'
  BY PlayEdgeAssumption DEF TypeOK, PcOK, LeaverIsAlone, IdleEdge
<1>5. IdleEdge'
  BY PlayEdgeAssumption DEF TypeOK, PcOK, LeaverIsAlone, IngestPlayAsserted,
     OneIngester, IdleEdge, BusyEdge, Joining, Unpublishing
<1>6. BusyEdge'
  BY PlayEdgeAssumption DEF TypeOK, PcOK, LeaverIsAlone, BusyEdge, IdleEdge,
     SomebodyIsThere
<1>7. Fed'
  BY PlayEdgeAssumption DEF TypeOK, PcOK, LeaverIsAlone, OneIngester, IdleEdge,
     BusyEdge, Fed, SomebodyIsThere
<1>8. Joining'
  BY PlayEdgeAssumption DEF TypeOK, PcOK, LeaverIsAlone, IdleEdge, BusyEdge,
     OneIngester, Fed, Joining
<1>9. Unpublishing'
  BY PlayEdgeAssumption DEF TypeOK, PcOK, LeaverIsAlone, OneIngester, IdleEdge,
     BusyEdge, Fed, Joining, Unpublishing
<1>10. SomebodyIsThere'
  BY PlayEdgeAssumption DEF TypeOK, PcOK, LeaverIsAlone, SomebodyIsThere
<1> QED
  BY <1>1, <1>2, <1>3, <1>4, <1>5, <1>6, <1>7, <1>8, <1>9, <1>10

LEMMA NextKeeps == IInv /\ [Next]_vars => IInv'
<1> SUFFICES ASSUME IInv, [Next]_vars, Calm' PROVE CInv'
  BY TypeStep DEF IInv
<1>1. CASE \E c \in Clients :
             \/ Join(c) \/ JoinFails(c) \/ JoinFirst(c)
             \/ Leave(c) \/ LeaveLast(c) \/ LeaveAgain(c) \/ ClientStops(c)
  <2>1. PICK c \in Clients :
             \/ Join(c) \/ JoinFails(c) \/ JoinFirst(c)
             \/ Leave(c) \/ LeaveLast(c) \/ LeaveAgain(c) \/ ClientStops(c)
    BY <1>1
  <2>2. ~JoinFails(c)
    BY DEF JoinFails, Calm
  <2>3. Calm
    BY <2>1, <2>2 DEF Calm, Join, JoinFirst, NewIngester, Leave, LeaveLast,
       LeaveAgain,
       ClientStops, Stopped, CloseUpstream, Unpublished, Restarted, source
  <2> QED
    BY <2>1, <2>2, <2>3, NeverTaken, JoinKeeps, JoinFirstKeeps, LeaveKeeps,
       LeaveLastKeeps, StoppedKeeps, UnpublishedKeeps DEF ClientStops, IInv
<1>2. CASE \E g \in Gens : Ingester(g)
  <2>1. PICK g \in Gens : Ingester(g)
    BY <1>2
  <2>2. Calm
    BY <2>1 DEF Calm, Ingester, CycleEnds, Connect, NoOrigin, ConnectFails,
       Connected,
       Redirected, IngestFails, Wakes, Goes, source
  <2> QED
    BY <2>1, <2>2, CycleEndsKeeps, ConnectKeeps, NoOriginKeeps,
       ConnectFailsKeeps,
       ConnectedKeeps, RedirectedKeeps, IngestFailsKeeps,
       WakesKeeps DEF Ingester, IInv
<1>3. CASE UNCHANGED vars
  BY <1>3, StutterIInv DEF IInv
<1> QED
  BY <1>1, <1>2, <1>3 DEF Next

LEMMA Inductive == Spec => []IInv
<1>1. IInv /\ [Next]_vars => IInv'
  BY NextKeeps
<1> QED
  BY InitIInv, <1>1, PTL DEF Spec

(* The assertion of on_ingest_play never fails, one ingester at a time uses    *)
(* the upstream, nobody closes it meanwhile, and what it reads reaches a       *)
(* source that is published.                                                  *)
THEOREM OneIngesterAtATime ==
  Spec => []IngesterIsSound
<1>1. IInv => IngesterIsSound
  <2>1. ASSUME IInv, Calm, NEW g \in Gens, ing[g] = "ingest"
        PROVE  is_active /\ ~can_publish
    <3>1. g = trd /\ trd # 0
      BY <2>1 DEF IInv, CInv, OneIngester, Running, Gens
    <3>2. state # "Init"
      BY <2>1 DEF IInv, CInv, IdleEdge
    <3>3. PICK c \in Clients : pc[c] # "out"
      BY <2>1, <3>2 DEF IInv, CInv, SomebodyIsThere
    <3>4. pc[c] \in {"playing", "joining"}
      BY <2>1, <3>1, <3>3 DEF IInv, CInv, PcOK, Unpublishing
    <3> QED
      BY <2>1, <3>3, <3>4 DEF IInv, CInv, BusyEdge, Fed, Joining
  <2> QED
    BY <2>1 DEF IInv, CInv, IngestPlayAsserted, OneIngester,
       IngestsIntoPublished, IngesterIsSound
<1> QED
  BY <1>1, Inductive, PTL

(* Whenever someone plays and nobody is leaving, an ingester runs for it; when  *)
(* nobody plays, the edge is idle and disconnected.                           *)
THEOREM EdgeRunsForPlayers == Spec => []EdgeFollowsPlayers
<1>1. IInv => PlayersAreFedWhenCalm
  BY DEF IInv, CInv, PcOK, BusyEdge, Fed, PlayersAreFed, PlayersAreFedWhenCalm,
     Consumers
<1>2. IInv => IdleWhenNobodyPlays
  BY DEF IInv, CInv, PcOK, IdleEdge, SomebodyIsThere, IdleWhenNobodyPlays
<1>3. IInv => EdgeFollowsPlayers
  BY <1>1, <1>2 DEF EdgeFollowsPlayers
<1> QED
  BY <1>3, Inductive, PTL
-----------------------------------------------------------------------------
(* How far a client that leaves is from being out: the ingester that it joins has  *)
(* its receive or connect ended, pauses and looks; then the hub stops.          *)
ToEnd(i) ==
    CASE i = "connect" -> 4 [] i = "ingest" -> 3 [] i = "sleep" -> 2 [] i = "top" -> 1 [] OTHER -> 0

ToOut(p, i) == CASE p = "joining" -> 2 + ToEnd(i) [] p = "unpublishing" -> 1 [] OTHER -> 0

(* No step of any client or ingester takes it further away, calm or not, and each   *)
(* step of its own and of the ingester that it joins brings it nearer.           *)
LeaverAdvances ==
    [][\A c \in Clients : pc[c] \in Leaving =>
        /\ ToOut(pc'[c], ing'[joins'[c]]) <= ToOut(pc[c], ing[joins[c]])
        /\ ClientStops(c) \/ (pc[c] = "joining" /\ Ingester(joins[c])) =>
             ToOut(pc'[c], ing'[joins'[c]]) < ToOut(pc[c], ing[joins[c]])]_vars

(* The ingester that is joined exists and was told to end: a client is the last     *)
(* one only where an ingester was started, unless a consumer is left behind.     *)
JoinedIsTold ==
    /\ \A c \in Clients : pc[c] = "joining" => joins[c] \in 1 .. trd /\ disposed[joins[c]]
    /\ state # "Init" => trd # 0 \/ \E c \in Clients : pc[c] = "leaked"

LEMMA JoinedIsToldKeeps == TypeOK /\ JoinedIsTold /\ [Next]_vars => JoinedIsTold'
<1> SUFFICES ASSUME TypeOK, JoinedIsTold, [Next]_vars PROVE JoinedIsTold'
  OBVIOUS
<1>0. /\ pc \in [Clients -> {"out", "playing", "restarting", "leaked"} \cup Leaving]
      /\ joins \in [Clients -> 0 .. MaxStarts] /\ trd \in 0 .. MaxStarts /\ MaxStarts \in Nat
      /\ disposed \in [Gens -> BOOLEAN] /\ Gens = 1 .. MaxStarts
  BY PlayEdgeAssumption DEF TypeOK, Gens
<1> USE DEF JoinedIsTold
(* What every other client keeps.                                            *)
<1>1. ASSUME NEW c \in Clients,
             \A d \in Clients : pc[d] = "leaked" => pc'[d] = "leaked",
             \A d \in Clients \ {c} : pc'[d] = pc[d] /\ joins'[d] = joins[d],
             \A g \in Gens : disposed[g] => disposed'[g],
             trd' \in Nat, trd <= trd',
             pc'[c] = "joining" => joins'[c] \in 1 .. trd' /\ disposed'[joins'[c]],
             state' = state \/ state' = "Init" \/ trd' # 0 \/ pc'[c] = "leaked"
      PROVE  JoinedIsTold'
  <2>1. ASSUME NEW d \in Clients, pc'[d] = "joining"
        PROVE  joins'[d] \in 1 .. trd' /\ disposed'[joins'[d]]
    <3>1. CASE d = c
      BY <1>1, <2>1, <3>1
    <3>2. CASE d # c
      <4>1. pc[d] = "joining" /\ joins'[d] = joins[d]
        BY <1>1, <2>1, <3>2
      <4>2. joins[d] \in 1 .. trd /\ disposed[joins[d]] /\ joins[d] \in Gens
        BY <1>0, <4>1
      <4> QED BY <1>0, <1>1, <4>1, <4>2
    <3> QED BY <3>1, <3>2
  <2>2. state' # "Init" => trd' # 0 \/ \E d \in Clients : pc'[d] = "leaked"
    BY <1>0, <1>1
  <2> QED BY <2>1, <2>2
<1>2. ASSUME NEW c \in Clients, Join(c) \/ Leave(c) \/ Unpublished(c)
      PROVE  JoinedIsTold'
  BY <1>0, <1>1, <1>2 DEF Join, Leave, Unpublished, BackToInit, source
<1>3. ASSUME NEW c \in Clients, JoinFails(c)
      PROVE  JoinedIsTold'
  BY <1>0, <1>1, <1>3 DEF JoinFails, Comes
<1>4. ASSUME NEW c \in Clients, NewIngester(c), pc[c] # "leaked", UNCHANGED state \/ state' = "Play", trd < MaxStarts
      PROVE  JoinedIsTold'
  BY <1>0, <1>1, <1>4 DEF NewIngester
<1>5. ASSUME NEW c \in Clients, JoinFirst(c)
      PROVE  JoinedIsTold'
  <2>1. CASE MustStopOld
    BY <1>0, <1>1, <1>5, <2>1 DEF JoinFirst, MustStopOld, Comes
  <2>2. CASE ~MustStopOld
    BY <1>4, <1>5, <2>2 DEF JoinFirst, Comes
  <2> QED BY <2>1, <2>2
<1>6. ASSUME NEW c \in Clients, Restarted(c)
      PROVE  JoinedIsTold'
  BY <1>4, <1>6 DEF Restarted
<1>7. ASSUME NEW c \in Clients, LeaveLast(c)
      PROVE  JoinedIsTold'
  <2>1. trd # 0
    BY <1>7 DEF LeaveLast, IsLast, Consumers
  <2>2. trd \in Gens /\ disposed'[trd] /\ joins'[c] = trd /\ trd' = trd
    BY <1>0, <1>7, <2>1 DEF LeaveLast
  <2> QED BY <1>0, <1>1, <1>7, <2>1, <2>2 DEF LeaveLast, IsLast
<1>8. ASSUME NEW c \in Clients, LeaveAgain(c) \/ Stopped(c)
      PROVE  JoinedIsTold'
  <2>1. pc[c] # "leaked" /\ CloseUpstream(c)
    BY <1>8 DEF LeaveAgain, Stopped, IsLast, JoinReturns
  <2> QED BY <1>0, <1>1, <2>1 DEF CloseUpstream
<1>9. ASSUME NEW g \in Gens, Ingester(g)
      PROVE  JoinedIsTold'
  <2>1. UNCHANGED <<pc, joins, trd, disposed>>
    BY <1>9 DEF Ingester, CycleEnds, Connect, NoOrigin, ConnectFails, Connected, Redirected, IngestFails, Wakes, Goes
  <2>2. state' = state \/ (state' = "IngestConnected" /\ state \in {"Play", "IngestConnected"})
    BY <1>9 DEF Ingester, CycleEnds, Connect, NoOrigin, ConnectFails, Connected, Redirected, IngestFails, Wakes, IngestPlayOK
  <2> QED BY <2>1, <2>2
<1>10. CASE UNCHANGED vars
  BY <1>10 DEF vars
<1> QED BY <1>2, <1>3, <1>5, <1>6, <1>7, <1>8, <1>9, <1>10 DEF Next, ClientStops

LEMMA IngesterNears ==
    ASSUME TypeOK, NEW g \in Gens, Ingester(g), disposed[g]
    PROVE  ToEnd(ing'[g]) < ToEnd(ing[g])
<1>1. ing \in [Gens -> {"new", "ended", "aborted"} \cup Running]
  BY DEF TypeOK
<1>2. \/ ing[g] = "top" /\ ing'[g] = "ended"
      \/ ing[g] = "connect" /\ ing'[g] \in {"sleep", "ingest", "aborted"}
      \/ ing[g] = "ingest" /\ ing'[g] = "sleep"
      \/ ing[g] = "sleep" /\ ing'[g] = "top"
  BY <1>1 DEF Ingester, CycleEnds, Connect, NoOrigin, ConnectFails, Connected, Redirected, IngestFails, Wakes, Goes
<1> QED BY <1>2 DEF ToEnd

(* Whoever leaves the edge joins an ingester that was told to end, and comes nearer  *)
(* to being out with each step it waits for, whatever other clients do meanwhile:    *)
(* the part of LeaversGetOut that needs no fairness (SrsPlayEdge::on_all_client_stop, *)
(* SrsEdgeIngester::stop and cycle).                                          *)
THEOREM LeaverIsNotHeldBack == Spec => []JoinedIsTold /\ LeaverAdvances
<1>1. Init => JoinedIsTold
  BY DEF Init, JoinedIsTold
<1> DEFINE before(c) == ToOut(pc[c], ing[joins[c]])
           after(c) == ToOut(pc'[c], ing'[joins'[c]])
           Advances(c) ==
             pc[c] \in Leaving =>
               /\ after(c) <= before(c)
               /\ ClientStops(c) \/ (pc[c] = "joining" /\ Ingester(joins[c])) => after(c) < before(c)
<1>2. ASSUME TypeOK, JoinedIsTold, Next, NEW c \in Clients, pc[c] \in Leaving
      PROVE  /\ after(c) <= before(c)
             /\ ClientStops(c) \/ (pc[c] = "joining" /\ Ingester(joins[c])) => after(c) < before(c)
  <2>0. /\ pc \in [Clients -> {"out", "playing", "restarting", "leaked"} \cup Leaving]
        /\ joins \in [Clients -> 0 .. MaxStarts] /\ trd \in 0 .. MaxStarts /\ MaxStarts \in Nat
        /\ ing \in [Gens -> {"new", "ended", "aborted"} \cup Running]
        /\ pc[c] \in {"joining", "unpublishing"} /\ Gens = 1 .. MaxStarts
    BY <1>2, PlayEdgeAssumption DEF TypeOK, Leaving, Gens
  <2>1. pc[c] = "joining" => joins[c] \in 1 .. trd /\ joins[c] \in Gens /\ disposed[joins[c]]
    BY <1>2, <2>0 DEF JoinedIsTold
  <2>2. \A i : ToEnd(i) \in 0 .. 4
    BY DEF ToEnd
  <2>3. CASE Stopped(c) \/ Unpublished(c)
    <3>1. \/ pc[c] = "joining" /\ pc'[c] \in {"out", "unpublishing"}
          \/ pc[c] = "unpublishing" /\ pc'[c] = "out"
      BY <2>0, <2>3 DEF Stopped, JoinReturns, CloseUpstream, Unpublished
    <3> QED BY <2>2, <3>1 DEF ToOut
  <2>4. ASSUME NEW g \in Gens, Ingester(g)
        PROVE  Advances(c)
    <3>1. pc' = pc /\ joins' = joins /\ ing' = [ing EXCEPT ![g] = ing'[g]]
      BY <2>0, <2>4 DEF Ingester, CycleEnds, Connect, NoOrigin, ConnectFails, Connected, Redirected,
         IngestFails, Wakes, Goes
    <3>2. ~ClientStops(c)
      <4>1. pc'[c] = pc[c]
        BY <3>1
      <4> QED BY <2>0, <4>1 DEF ClientStops, Stopped, JoinReturns, CloseUpstream, Unpublished, Restarted, NewIngester
    <3>3. CASE pc[c] = "joining" /\ g = joins[c]
      <4>1. ToEnd(ing'[joins[c]]) < ToEnd(ing[joins[c]])
        BY <1>2, <2>1, <2>4, <3>3, IngesterNears
      <4>2. ToEnd(ing'[joins[c]]) \in 0 .. 4 /\ ToEnd(ing[joins[c]]) \in 0 .. 4
        BY <2>2
      <4> QED BY <3>1, <3>3, <4>1, <4>2 DEF ToOut
    <3>4. CASE pc[c] = "joining" /\ g # joins[c]
      <4>1. ing'[joins[c]] = ing[joins[c]]
        BY <2>0, <2>1, <3>1, <3>4
      <4>2. ~Ingester(joins[c])
        <5>1. ASSUME Ingester(joins[c]) PROVE FALSE
          <6>1. ToEnd(ing'[joins[c]]) < ToEnd(ing[joins[c]])
            BY <1>2, <2>1, <3>4, <5>1, IngesterNears
          <6> QED BY <2>2, <4>1, <6>1
        <5> QED BY <5>1
      <4>3. ToEnd(ing[joins[c]]) \in 0 .. 4
        BY <2>2
      <4> QED BY <3>1, <3>2, <3>4, <4>1, <4>2, <4>3 DEF ToOut
    <3>5. CASE pc[c] = "unpublishing"
      BY <3>1, <3>2, <3>5 DEF ToOut
    <3> QED BY <2>0, <3>3, <3>4, <3>5
  <2>5. ASSUME NEW d \in Clients,
               \/ Join(d) \/ JoinFails(d) \/ JoinFirst(d)
               \/ Leave(d) \/ LeaveLast(d) \/ LeaveAgain(d)
               \/ Restarted(d) \/ (d # c /\ ClientStops(d))
        PROVE  Advances(c)
    <3>1. d # c /\ pc'[c] = pc[c] /\ joins'[c] = joins[c]
      BY <2>0, <2>5 DEF Join, JoinFails, JoinFirst, Comes, NewIngester, Leave, LeaveLast, LeaveAgain, IsLast,
         Restarted, ClientStops, Stopped, Unpublished, CloseUpstream
    <3>2. ing' = ing \/ (trd < MaxStarts /\ ing' = [ing EXCEPT ![trd + 1] = "top"])
      BY <2>5 DEF Join, JoinFails, JoinFirst, Comes, NewIngester, Leave, LeaveLast, LeaveAgain, IsLast,
         Restarted, ClientStops, Stopped, Unpublished, CloseUpstream
    <3>3. pc[c] = "joining" => ing'[joins[c]] = ing[joins[c]]
      BY <2>0, <2>1, <3>2
    <3>4. ~ClientStops(c)
      BY <2>0, <3>1 DEF ClientStops, Stopped, JoinReturns, CloseUpstream, Unpublished, Restarted, NewIngester
    <3>5. pc[c] = "joining" => ~Ingester(joins[c])
      <4>1. ASSUME pc[c] = "joining", Ingester(joins[c]) PROVE FALSE
        <5>1. ToEnd(ing'[joins[c]]) < ToEnd(ing[joins[c]])
          BY <1>2, <2>1, <4>1, IngesterNears
        <5> QED BY <2>2, <3>3, <4>1, <5>1
      <4> QED BY <4>1
    <3>6. ToEnd(ing[joins[c]]) \in 0 .. 4
      BY <2>2
    <3> QED BY <2>0, <3>1, <3>3, <3>4, <3>5, <3>6 DEF ToOut
  <2> QED BY <1>2, <2>3, <2>4, <2>5 DEF Next, ClientStops
<1>3. TypeOK /\ JoinedIsTold /\ [Next]_vars => [\A c \in Clients : Advances(c)]_vars
  BY <1>2
<1>4. Spec => []TypeOK
  <2>1. IInv => TypeOK
    BY DEF IInv
  <2> QED BY <2>1, Inductive, PTL
<1> QED BY <1>1, <1>3, <1>4, JoinedIsToldKeeps, PTL DEF Spec, LeaverAdvances
=============================================================================

--------------------------- MODULE Server_proofs ---------------------------
(***************************************************************************)
(* Proofs about Server, for any number of clients, connections,            *)
(* descriptors, reloads and sources that were not pooled: what a reload    *)
(* may count on, which sockets are open, whom a graceful quit waits for,    *)
(* and that nothing delays a quit.                                         *)
(*                                                                         *)
(* The second part is about ChunkStream, for any number of chunk streams,  *)
(* any times and lengths, and any limits of the timestamp fields: what the *)
(* reader keeps of a chunk stream is what the peer wrote, as long as it    *)
(* did not take payload for a timestamp, and when it may do that.          *)
(***************************************************************************)
EXTENDS Server, ChunkStream, TLAPS, FiniteSetTheorems, WellFoundedInduction

LEMMA LeastNatural ==
    ASSUME NEW T, T \subseteq Nat, T # {}
    PROVE  \E x \in T : \A y \in T : ~(y < x)
<1> DEFINE R == OpToRel(<, Nat)
<1>1. IsWellFoundedOn(R, Nat)
  BY NatLessThanWellFounded
<1>2. \A x, y \in Nat : x < y => <<x, y>> \in R
  BY DEF OpToRel
<1> HIDE DEF R
<1>3. \E x \in T : \A y \in T : ~(<<y, x>> \in R)
  BY <1>1, WFMin
<1> QED BY <1>2, <1>3

(* The indexes up to n are n.                                                  *)
LEMMA CountOfIndexes ==
    ASSUME NEW n \in Nat
    PROVE  IsFiniteSet(1 .. n) /\ Cardinality(1 .. n) = n
<1>1. 1 \in Int /\ n \in Int
  OBVIOUS
<1>2. IsFiniteSet(1 .. n) /\ Cardinality(1 .. n) = IF 1 > n THEN 0 ELSE n - 1 + 1
  BY <1>1, FS_Interval
<1>3. (IF 1 > n THEN 0 ELSE n - 1 + 1) = n
  OBVIOUS
<1> QED BY <1>2, <1>3

(* Of n members of a set of indexes there is a first, a second, ..., an n-th.  *)
LEMMA Ranked ==
    ASSUME NEW L \in Nat, NEW left \in SUBSET (1 .. L), NEW k \in 1 .. Cardinality(left)
    PROVE  \E j \in left : Cardinality({i \in left : i <= j}) = k
<1> DEFINE UpTo(j) == {i \in left : i <= j}
           T == {j \in 0 .. L : Cardinality(UpTo(j)) >= k}
<1>1. IsFiniteSet(left) /\ \A i \in left : i \in Nat /\ 1 <= i /\ i <= L
  <2>1. IsFiniteSet(1 .. L)
    BY CountOfIndexes, Zenon
  <2>2. IsFiniteSet(left)
    BY <2>1, FS_Subset
  <2>3. \A i \in left : i \in 1 .. L
    OBVIOUS
  <2> QED BY <2>2, <2>3
<1>2. \A j : IsFiniteSet(UpTo(j)) /\ Cardinality(UpTo(j)) \in Nat
  <2> TAKE j
  <2>1. UpTo(j) \in SUBSET left
    OBVIOUS
  <2> HIDE DEF UpTo
  <2>2. IsFiniteSet(UpTo(j))
    BY <1>1, <2>1, FS_Subset
  <2> QED BY <2>2, FS_CardinalityType
<1>3. k \in Nat /\ k > 0
  BY <1>1, FS_CardinalityType
<1>4. L \in T
  <2>1. UpTo(L) = left
    BY <1>1
  <2>2. k <= Cardinality(left) /\ Cardinality(left) \in Nat /\ L \in 0 .. L
    BY <1>1, FS_CardinalityType
  <2> HIDE DEF UpTo
  <2> QED BY <1>3, <2>1, <2>2
<1>5. PICK j \in T : \A y \in T : ~(y < j)
  <2>1. T \subseteq Nat /\ T # {}
    <3>1. T \subseteq 0 .. L /\ 0 .. L \subseteq Nat
      OBVIOUS
    <3> HIDE DEF T
    <3> QED BY <1>4, <3>1
  <2> HIDE DEF T
  <2> QED BY <2>1, LeastNatural
<1>6. j # 0
  <2>1. UpTo(0) = {}
    <3>1. \A i \in left : ~(i <= 0)
      BY <1>1
    <3> QED BY <3>1
  <2>2. Cardinality(UpTo(0)) = 0
    BY <2>1, FS_EmptySet
  <2> HIDE DEF UpTo
  <2> QED BY <1>3, <1>5, <2>2
<1>7. j - 1 \in 0 .. L /\ j - 1 < j /\ j \in 1 .. L
  BY <1>5, <1>6
<1>8. ~(Cardinality(UpTo(j - 1)) >= k)
  BY <1>5, <1>7
<1>9. Cardinality(UpTo(j)) >= k
  BY <1>5
<1>10. j \in left
  <2> SUFFICES ASSUME j \notin left PROVE FALSE
    OBVIOUS
  <2>1. \A i \in left : i <= j <=> i <= j - 1
    BY <1>1, <1>7
  <2>2. UpTo(j) = UpTo(j - 1)
    BY <2>1
  <2> HIDE DEF UpTo
  <2> QED BY <1>8, <1>9, <2>2
<1>11. UpTo(j) = UpTo(j - 1) \cup {j} /\ j \notin UpTo(j - 1)
  <2>1. \A i \in left : i <= j <=> i <= j - 1 \/ i = j
    BY <1>1, <1>7
  <2>2. j <= j /\ ~(j <= j - 1)
    BY <1>7
  <2> QED BY <1>10, <2>1, <2>2
<1> HIDE DEF UpTo
<1>12. Cardinality(UpTo(j)) = Cardinality(UpTo(j - 1)) + 1
  BY <1>2, <1>11, FS_AddElement
<1>13. Cardinality(UpTo(j)) = k
  <2> DEFINE a == Cardinality(UpTo(j))
             b == Cardinality(UpTo(j - 1))
  <2>1. a \in Nat /\ b \in Nat /\ k \in Nat /\ ~(b >= k) /\ a >= k /\ a = b + 1
    BY <1>2, <1>3, <1>8, <1>9, <1>12
  <2> HIDE DEF a, b
  <2>2. a = k
    BY <2>1
  <2> QED BY <2>2 DEF a
<1> QED BY <1>10, <1>13 DEF UpTo

NoTwice(s) == \A i, j \in 1 .. Len(s) : s[i] = s[j] => i = j

(* A filtered sequence has the members that stay, each as often as before.    *)
LEMMA WithoutKeeps ==
    ASSUME NEW T, NEW s \in Seq(T), NEW S
    PROVE  LET t == Without(s, S)
           IN  /\ t \in Seq(T)
               /\ \A k \in 1 .. Len(t) : \E j \in 1 .. Len(s) : s[j] \notin S /\ t[k] = s[j]
               /\ NoTwice(s) => NoTwice(t)
<1> DEFINE left == {j \in 1 .. Len(s) : s[j] \notin S}
           Place(j) == Cardinality({i \in left : i <= j})
           C == Cardinality(left)
           At(k) == CHOOSE j \in left : Place(j) = k
           t == [k \in 1 .. C |-> s[At(k)]]
           Sound(x) ==
               /\ x \in Seq(T)
               /\ \A k \in 1 .. Len(x) : \E j \in 1 .. Len(s) : s[j] \notin S /\ x[k] = s[j]
               /\ NoTwice(s) => NoTwice(x)
<1>1. Without(s, S) = t
  BY DEF Without
<1> SUFFICES Sound(t)
  BY <1>1
<1>2. Len(s) \in Nat /\ left \in SUBSET (1 .. Len(s))
  OBVIOUS
<1>3. C \in Nat
  <2>1. IsFiniteSet(1 .. Len(s))
    BY <1>2, CountOfIndexes, Zenon
  <2>2. IsFiniteSet(left)
    BY <2>1, FS_Subset
  <2> HIDE DEF left
  <2> QED BY <2>2, FS_CardinalityType
<1>4. \A k \in 1 .. C : At(k) \in left /\ Place(At(k)) = k
  <2> SUFFICES ASSUME NEW k \in 1 .. C PROVE At(k) \in left /\ Place(At(k)) = k
    OBVIOUS
  <2> HIDE DEF left
  <2>1. \E j \in left : Place(j) = k
    BY <1>2, Ranked
  <2> HIDE DEF Place
  <2> QED BY <2>1
<1> HIDE DEF At, C, Place
<1>5. t \in Seq(T) /\ Len(t) = C /\ \A k \in 1 .. C : t[k] = s[At(k)]
  BY <1>3, <1>4
<1> HIDE DEF t
<1>6. \A k \in 1 .. Len(t) : \E j \in 1 .. Len(s) : s[j] \notin S /\ t[k] = s[j]
  BY <1>4, <1>5
<1>7. ASSUME NoTwice(s), NEW k \in 1 .. C, NEW l \in 1 .. C, t[k] = t[l]
      PROVE  k = l
  <2>1. At(k) = At(l)
    BY <1>4, <1>5, <1>7 DEF NoTwice
  <2> QED BY <1>4, <2>1
<1>8. NoTwice(s) => NoTwice(t)
  BY <1>5, <1>7 DEF NoTwice
<1> QED BY <1>5, <1>6, <1>8

LEMMA WithoutNothing ==
    ASSUME NEW T, NEW s \in Seq(T)
    PROVE  Without(s, {}) = s
<1> DEFINE left == {j \in 1 .. Len(s) : s[j] \notin {}}
           Place(j) == Cardinality({i \in left : i <= j})
           At(k) == CHOOSE j \in left : Place(j) = k
           t == [k \in 1 .. Cardinality(left) |-> s[At(k)]]
<1>1. Without(s, {}) = t
  BY DEF Without
<1>2. left = 1 .. Len(s) /\ Len(s) \in Nat
  OBVIOUS
<1>3. Cardinality(left) = Len(s)
  <2>1. Cardinality(1 .. Len(s)) = Len(s)
    BY <1>2, CountOfIndexes, Zenon
  <2> QED BY <1>2, <2>1
<1>4. ASSUME NEW j \in 1 .. Len(s) PROVE Place(j) = j
  <2>1. {i \in left : i <= j} = 1 .. j
    BY <1>2
  <2>2. j \in Nat
    OBVIOUS
  <2>3. Cardinality(1 .. j) = j
    BY <2>2, CountOfIndexes, Zenon
  <2> QED BY <2>1, <2>3
<1> HIDE DEF Place
<1>5. ASSUME NEW k \in 1 .. Len(s) PROVE At(k) = k
  <2>1. k \in left /\ Place(k) = k
    BY <1>2, <1>4
  <2>2. At(k) \in left /\ Place(At(k)) = k
    BY <2>1
  <2> QED BY <1>2, <1>4, <2>2
<1> HIDE DEF At, left
<1>6. t = [k \in 1 .. Len(s) |-> s[k]]
  BY <1>3, <1>5
<1>7. [k \in 1 .. Len(s) |-> s[k]] = s
  OBVIOUS
<1> HIDE DEF t
<1> QED BY <1>1, <1>6, <1>7
-----------------------------------------------------------------------------
Stages == {"away", "starting", "served", "creating", "over", "refused"}

Handlers == [kind : {"conn"}, of : Clients] \cup [kind : {"hub"}, of : Nat]

Reloading == [i : Nat, told : Seq(Handlers), stayed : SUBSET Handlers, dangling : BOOLEAN]

ConnTypes ==
    /\ client \in [Clients -> Stages]
    /\ manager \in {"waiting", "woken"}
    /\ subscribes \in Seq(Handlers)
    /\ orphans \in Nat

(* Who makes the source of the stream does it alone and while there is none,  *)
(* and the source has a number of its own.                                    *)
OneSource ==
    /\ \A c, d \in Clients : client[c] = "creating" /\ client[d] = "creating" => c = d
    /\ \A c \in Clients : client[c] = "creating" => pool = {}
    /\ \A j \in 1 .. Len(subscribes) : subscribes[j].kind = "hub" =>
          /\ subscribes[j].of <= orphans
          /\ subscribes[j].of = orphans => pool # {} \/ \E c \in Clients : client[c] = "creating"

(* The handlers that are told of a reload exist, and none is told twice.      *)
HandlersLive ==
    /\ NoTwice(subscribes)
    /\ \A j \in 1 .. Len(subscribes) : Alive(subscribes[j])

(* The limit of the connections, and the wakeup of the manager.               *)
Counted ==
    /\ IsFiniteSet(conns) /\ Cardinality(conns) <= MaxConnections
    /\ \A c \in Clients : client[c] = "over" => manager = "woken"

ConnInv == ConnTypes /\ OneSource /\ HandlersLive /\ Counted

(* As long as nobody came or left while a handler blocked, the vector is the  *)
(* one the notification began with, and the handlers up to the iterator were  *)
(* told.                                                                      *)
NothingMoved ==
    /\ unheard = {} /\ ub = "none"
    /\ Iterating =>
          /\ ~reload.dangling /\ reload.i <= Len(subscribes)
          /\ reload.told = SubSeq(subscribes, 1, reload.i)
          /\ reload.stayed = ToSet(subscribes)

TellInv ==
    /\ reload \in Reloading
    /\ churned \in BOOLEAN
    /\ ub \in {"none", "iterator"}
    /\ ~churned => NothingMoved

(* A notification belongs to the main loop, and a server that waits for its   *)
(* last connections does not listen any more.                                 *)
MainInv ==
    /\ Iterating => main = "running"
    /\ main = "waiting" => listener = "closed"

ServerInv == ConnInv /\ TellInv /\ MainInv

LEMMA SubscribedKeeps ==
    ASSUME ConnTypes, HandlersLive, NEW s \in Handlers, NEW realloc \in BOOLEAN,
           \A j \in 1 .. Len(subscribes) : subscribes[j] # s, Subscribed(s, realloc)
    PROVE  /\ subscribes' \in Seq(Handlers) /\ NoTwice(subscribes')
           /\ Len(subscribes') = Len(subscribes) + 1
           /\ subscribes'[Len(subscribes) + 1] = s
           /\ \A j \in 1 .. Len(subscribes) : subscribes'[j] = subscribes[j]
<1>1. subscribes' = Append(subscribes, s) /\ subscribes \in Seq(Handlers)
  BY DEF Subscribed, ConnTypes
<1> DEFINE t == Append(subscribes, s)
<1>2. /\ t \in Seq(Handlers) /\ Len(t) = Len(subscribes) + 1 /\ Len(subscribes) \in Nat
      /\ t[Len(subscribes) + 1] = s
      /\ \A j \in 1 .. Len(subscribes) : t[j] = subscribes[j]
  BY <1>1
<1> HIDE DEF t
<1>3. NoTwice(t)
  BY <1>2 DEF HandlersLive, NoTwice
<1> QED BY <1>1, <1>2, <1>3 DEF t

LiveIn(s, cl) == s.kind = "conn" => cl[s.of] \in InConns \union {"over"}

LEMMA LiveOnes ==
    /\ HandlersLive <=>
          /\ NoTwice(subscribes)
          /\ \A j \in 1 .. Len(subscribes) : LiveIn(subscribes[j], client)
    /\ HandlersLive' <=>
          /\ NoTwice(subscribes')
          /\ \A j \in 1 .. Len(subscribes') : LiveIn(subscribes'[j], client')
BY DEF HandlersLive, LiveIn, Alive

LEMMA AcceptStep ==
    ASSUME ConnInv, NEW starts \in BOOLEAN, NEW realloc \in BOOLEAN, Accept(starts, realloc)
    PROVE  ConnInv'
<1> DEFINE c == Newcomer
<1>1. c \in Clients /\ client[c] = "away"
  <2>1. \E d \in Clients : client[d] = "away"
    BY DEF Accept, fds
  <2> QED BY <2>1 DEF Newcomer
<1>2. /\ client \in [Clients -> Stages] /\ subscribes \in Seq(Handlers)
      /\ UNCHANGED <<manager, pool, orphans>>
  BY DEF ConnInv, ConnTypes, Accept
<1> HIDE DEF c
<1>3. CASE Exceeds
  <2>1. client' = [client EXCEPT ![c] = "refused"] /\ UNCHANGED subscribes
    BY <1>3 DEF Accept, c
  <2>2. /\ client' \in [Clients -> Stages] /\ client'[c] = "refused"
        /\ \A d \in Clients \ {c} : client'[d] = client[d]
    BY <1>1, <1>2, <2>1 DEF Stages
  <2>3. conns' = conns
    BY <1>1, <2>2 DEF conns, InConns
  <2>4. ConnTypes' /\ OneSource'
    BY <1>1, <1>2, <2>1, <2>2 DEF ConnInv, ConnTypes, OneSource
  <2>5. HandlersLive'
    <3>1. ASSUME NEW j \in 1 .. Len(subscribes) PROVE LiveIn(subscribes[j], client')
      <4>1. LiveIn(subscribes[j], client) /\ subscribes[j] \in Handlers
        BY <1>2, LiveOnes DEF ConnInv
      <4>2. subscribes[j].kind = "conn" =>
               subscribes[j].of \in Clients /\ subscribes[j].of # c
        BY <1>1, <4>1 DEF LiveIn, Handlers, InConns
      <4> QED BY <2>1, <2>2, <4>1, <4>2 DEF LiveIn
    <3> QED BY <2>1, <3>1, LiveOnes DEF ConnInv
  <2>6. Counted'
    BY <1>1, <1>2, <2>2, <2>3 DEF ConnInv, Counted
  <2> QED BY <2>4, <2>5, <2>6 DEF ConnInv
<1>4. CASE ~Exceeds
  <2> DEFINE to == IF starts THEN "served" ELSE "starting"
             s == Handler("conn", c)
  <2>1. client' = [client EXCEPT ![c] = to] /\ Subscribed(s, realloc)
    BY <1>4 DEF Accept, c
  <2>2. /\ client' \in [Clients -> Stages] /\ client'[c] \in {"served", "starting"}
        /\ \A d \in Clients \ {c} : client'[d] = client[d]
    BY <1>1, <1>2, <2>1 DEF Stages
  <2>3. conns' = conns \cup {c} /\ c \notin conns
    BY <1>1, <2>2 DEF conns, InConns
  <2>4. s \in Handlers /\ s.kind = "conn" /\ s.of = c
    BY <1>1 DEF Handler, Handlers
  <2>5. ASSUME NEW j \in 1 .. Len(subscribes)
        PROVE  /\ subscribes[j] \in Handlers /\ subscribes[j] # s
               /\ LiveIn(subscribes[j], client')
    <3>1. LiveIn(subscribes[j], client) /\ subscribes[j] \in Handlers
      BY <1>2, LiveOnes DEF ConnInv
    <3>2. subscribes[j].kind = "conn" => subscribes[j].of \in Clients /\ subscribes[j].of # c
      BY <1>1, <3>1 DEF LiveIn, Handlers, InConns
    <3> HIDE DEF s
    <3>3. subscribes[j] # s
      BY <2>4, <3>2
    <3>5. subscribes'[j] = subscribes[j]
      BY <1>2, <2>1, <2>4 DEF Subscribed
    <3> QED BY <2>2, <3>1, <3>2, <3>3, <3>5 DEF LiveIn
  <2> HIDE DEF s, to
  <2>6. /\ subscribes' \in Seq(Handlers) /\ NoTwice(subscribes')
        /\ Len(subscribes') = Len(subscribes) + 1 /\ Len(subscribes) \in Nat
        /\ subscribes'[Len(subscribes) + 1] = s
        /\ \A j \in 1 .. Len(subscribes) : subscribes'[j] = subscribes[j]
    BY <1>2, <2>1, <2>4, <2>5, SubscribedKeeps DEF ConnInv
  <2>7. ConnTypes'
    BY <1>2, <2>2, <2>6 DEF ConnInv, ConnTypes
  <2>8. OneSource'
    <3>1. \A d \in Clients : client'[d] = "creating" <=> client[d] = "creating"
      BY <1>1, <2>2
    <3>2. \A j \in 1 .. Len(subscribes') :
             j \in 1 .. Len(subscribes) \/ subscribes'[j].kind = "conn"
      BY <2>4, <2>6
    <3> QED BY <1>2, <2>6, <3>1, <3>2 DEF ConnInv, OneSource
  <2>9. LiveIn(s, client')
    BY <2>2, <2>4 DEF LiveIn, InConns
  <2>10. HandlersLive'
    <3>1. ASSUME NEW j \in 1 .. Len(subscribes') PROVE LiveIn(subscribes'[j], client')
      BY <2>5, <2>6, <2>9
    <3> QED BY <2>6, <3>1, LiveOnes
  <2>11. Counted'
    <3>1. IsFiniteSet(conns) /\ Cardinality(conns) < MaxConnections
      BY <1>4, ServerAssumption, FS_CardinalityType DEF ConnInv, Counted, Exceeds
    <3>2. IsFiniteSet(conns') /\ Cardinality(conns') = Cardinality(conns) + 1
      BY <2>3, <3>1, FS_AddElement
    <3>3. Cardinality(conns') <= MaxConnections
      BY <3>1, <3>2, ServerAssumption, FS_CardinalityType
    <3>4. \A d \in Clients : client'[d] = "over" => client[d] = "over"
      BY <1>1, <2>2
    <3> QED BY <1>2, <3>2, <3>3, <3>4 DEF ConnInv, Counted
  <2> QED BY <2>7, <2>8, <2>10, <2>11 DEF ConnInv
<1> QED BY <1>3, <1>4

(* A connection that goes from one stage to another in which its handler      *)
(* lives keeps every handler alive.                                           *)
LEMMA StageKeeps ==
    ASSUME ConnTypes, HandlersLive, NEW c \in Clients, NEW to \in InConns \cup {"over"},
           client' = [client EXCEPT ![c] = to]
    PROVE  /\ client' \in [Clients -> Stages] /\ client'[c] = to
           /\ \A d \in Clients \ {c} : client'[d] = client[d]
           /\ \A j \in 1 .. Len(subscribes) : LiveIn(subscribes[j], client')
<1>1. client \in [Clients -> Stages] /\ subscribes \in Seq(Handlers)
  BY DEF ConnTypes
<1>2. /\ client' \in [Clients -> Stages] /\ client'[c] = to
      /\ \A d \in Clients \ {c} : client'[d] = client[d]
  BY <1>1 DEF Stages, InConns
<1>3. ASSUME NEW j \in 1 .. Len(subscribes) PROVE LiveIn(subscribes[j], client')
  <2>1. LiveIn(subscribes[j], client) /\ subscribes[j] \in Handlers
    BY <1>1, LiveOnes
  <2>2. subscribes[j].kind = "conn" => subscribes[j].of \in Clients
    BY <2>1 DEF Handlers
  <2> QED BY <1>2, <2>1, <2>2 DEF LiveIn
<1> QED BY <1>2, <1>3

LEMMA FetchStep ==
    ASSUME ConnInv, NEW c \in Clients, NEW realloc \in BOOLEAN, Fetch(c, realloc)
    PROVE  ConnInv'
<1> DEFINE s == Handler("hub", orphans)
<1>1. /\ client' = [client EXCEPT ![c] = "creating"] /\ Subscribed(s, realloc)
      /\ UNCHANGED <<manager, pool, orphans>> /\ pool = {}
      /\ \A d \in Clients : client[d] # "creating"
      /\ client[c] = "served"
  BY DEF Fetch, LockIsFree
<1>2. ConnTypes /\ OneSource /\ HandlersLive /\ Counted
  BY DEF ConnInv
<1>3. /\ client' \in [Clients -> Stages] /\ client'[c] = "creating"
      /\ \A d \in Clients \ {c} : client'[d] = client[d]
      /\ \A j \in 1 .. Len(subscribes) : LiveIn(subscribes[j], client')
  <2>1. "creating" \in InConns \cup {"over"}
    BY DEF InConns
  <2> QED BY <1>1, <1>2, <2>1, StageKeeps
<1>4. s \in Handlers /\ s.kind = "hub" /\ s.of = orphans
  BY <1>2 DEF Handler, Handlers, ConnTypes
<1> HIDE DEF s
<1>5. \A j \in 1 .. Len(subscribes) : subscribes[j] # s
  BY <1>1, <1>2, <1>4 DEF OneSource
<1>6. /\ subscribes' \in Seq(Handlers) /\ NoTwice(subscribes')
      /\ Len(subscribes') = Len(subscribes) + 1 /\ Len(subscribes) \in Nat
      /\ subscribes'[Len(subscribes) + 1] = s
      /\ \A j \in 1 .. Len(subscribes) : subscribes'[j] = subscribes[j]
  BY <1>1, <1>2, <1>4, <1>5, SubscribedKeeps DEF ConnTypes
<1>7. ConnTypes'
  BY <1>1, <1>2, <1>3, <1>6 DEF ConnTypes
<1>8. OneSource'
  <2>1. \A d \in Clients : client'[d] = "creating" <=> d = c
    BY <1>1, <1>3
  <2>2. \A j \in 1 .. Len(subscribes') :
           j \in 1 .. Len(subscribes) \/ subscribes'[j].of = orphans
    BY <1>4, <1>6
  <2>3. orphans \in Nat
    BY <1>2 DEF ConnTypes
  <2> QED BY <1>1, <1>2, <1>6, <2>1, <2>2, <2>3 DEF OneSource
<1>9. HandlersLive'
  <2>1. LiveIn(s, client')
    BY <1>4 DEF LiveIn
  <2>2. ASSUME NEW j \in 1 .. Len(subscribes') PROVE LiveIn(subscribes'[j], client')
    BY <1>3, <1>6, <2>1
  <2> QED BY <1>6, <2>2, LiveOnes
<1>10. Counted'
  <2>1. conns' = conns
    BY <1>1, <1>3 DEF conns, InConns
  <2>2. \A d \in Clients : client'[d] = "over" => client[d] = "over"
    BY <1>1, <1>3
  <2> QED BY <1>1, <1>2, <2>1, <2>2 DEF Counted
<1> QED BY <1>7, <1>8, <1>9, <1>10 DEF ConnInv

LEMMA CreatedStep ==
    ASSUME ConnInv, NEW c \in Clients, Created(c)
    PROVE  ConnInv' /\ ub' = ub
<1>1. /\ client[c] = "creating" /\ client' = [client EXCEPT ![c] = "served"]
      /\ pool' = pool \cup {orphans}
      /\ ub' = IF pool = {} THEN ub ELSE "two sources"
      /\ UNCHANGED <<manager, subscribes, orphans>>
  BY DEF Created
<1>2. ConnTypes /\ OneSource /\ HandlersLive /\ Counted
  BY DEF ConnInv
<1>3. /\ client' \in [Clients -> Stages] /\ client'[c] = "served"
      /\ \A d \in Clients \ {c} : client'[d] = client[d]
      /\ \A j \in 1 .. Len(subscribes) : LiveIn(subscribes[j], client')
  <2>1. "served" \in InConns \cup {"over"}
    BY DEF InConns
  <2> QED BY <1>1, <1>2, <2>1, StageKeeps
<1>4. ConnTypes'
  BY <1>1, <1>2, <1>3 DEF ConnTypes
<1>5. OneSource' /\ pool = {}
  <2>1. \A d \in Clients : client'[d] # "creating"
    BY <1>1, <1>2, <1>3 DEF OneSource
  <2>2. pool = {} /\ pool' # {}
    BY <1>1, <1>2 DEF OneSource
  <2> QED BY <1>1, <1>2, <2>1, <2>2 DEF OneSource
<1>6. HandlersLive'
  BY <1>1, <1>2, <1>3, LiveOnes
<1>7. Counted'
  <2>1. conns' = conns
    BY <1>1, <1>3 DEF conns, InConns
  <2>2. \A d \in Clients : client'[d] = "over" => client[d] = "over"
    BY <1>1, <1>3
  <2> QED BY <1>1, <1>2, <2>1, <2>2 DEF Counted
<1> QED BY <1>1, <1>4, <1>5, <1>6, <1>7 DEF ConnInv

(* A connection that ends is not counted any more, and wakes the manager.     *)
LEMMA OverCounted ==
    ASSUME ConnTypes, Counted, NEW c \in Clients, client[c] \in InConns,
           client' \in [Clients -> Stages], client'[c] = "over",
           \A d \in Clients \ {c} : client'[d] = client[d], manager' = "woken"
    PROVE  Counted'
<1>1. conns' = conns \ {c} /\ c \in conns
  BY DEF conns, InConns
<1>2. IsFiniteSet(conns') /\ Cardinality(conns') = Cardinality(conns) - 1
  BY <1>1, FS_RemoveElement DEF Counted
<1>3. Cardinality(conns') <= MaxConnections
  BY <1>2, ServerAssumption, FS_CardinalityType DEF Counted
<1> QED BY <1>2, <1>3 DEF Counted

LEMMA EndsStep ==
    ASSUME ConnInv, NEW c \in Clients, ConnEnds(c) \/ CreateFails(c)
    PROVE  ConnInv'
<1>1. /\ client[c] \in {"served", "creating"} /\ client' = [client EXCEPT ![c] = "over"]
      /\ manager' = "woken" /\ UNCHANGED <<subscribes, pool>>
      /\ client[c] = "creating" => orphans' = orphans + 1
      /\ client[c] = "served" => orphans' = orphans
  BY DEF ConnEnds, CreateFails, Signalled
<1>2. ConnTypes /\ OneSource /\ HandlersLive /\ Counted
  BY DEF ConnInv
<1>3. /\ client' \in [Clients -> Stages] /\ client'[c] = "over"
      /\ \A d \in Clients \ {c} : client'[d] = client[d]
      /\ \A j \in 1 .. Len(subscribes) : LiveIn(subscribes[j], client')
  BY <1>1, <1>2, StageKeeps
<1>4. ConnTypes'
  BY <1>1, <1>2, <1>3 DEF ConnTypes
<1>5. OneSource'
  <2>1. \A d \in Clients : client'[d] = "creating" <=> client[d] = "creating" /\ d # c
    BY <1>1, <1>3
  <2>2. orphans \in Nat /\ subscribes \in Seq(Handlers)
        /\ \A j \in 1 .. Len(subscribes) : subscribes[j] \in Handlers
    BY <1>2 DEF ConnTypes
  <2>3. \A j \in 1 .. Len(subscribes) : subscribes[j].kind = "hub" => subscribes[j].of \in Nat
    BY <2>2 DEF Handlers
  <2>4. CASE client[c] = "creating"
    BY <1>1, <1>2, <2>1, <2>2, <2>3, <2>4 DEF OneSource
  <2>5. CASE client[c] = "served"
    BY <1>1, <1>2, <2>1, <2>5 DEF OneSource
  <2> QED BY <1>1, <2>4, <2>5
<1>6. HandlersLive'
  BY <1>1, <1>2, <1>3, LiveOnes
<1>7. Counted'
  <2>1. client[c] \in InConns
    BY <1>1 DEF InConns
  <2> QED BY <1>1, <1>2, <1>3, <2>1, OverCounted
<1> QED BY <1>4, <1>5, <1>6, <1>7 DEF ConnInv

LEMMA ClearsStep ==
    ASSUME ConnInv, ManagerClears
    PROVE  ConnInv'
<1> DEFINE over == {c \in Clients : client[c] = "over"}
           S == {Handler("conn", c) : c \in over}
<1>1. /\ client' = [c \in Clients |-> IF c \in over THEN "away" ELSE client[c]]
      /\ subscribes' = Without(subscribes, S)
      /\ manager' = "waiting" /\ UNCHANGED <<pool, orphans>>
  BY DEF ManagerClears, Unsubscribed
<1>2. ConnTypes /\ OneSource /\ HandlersLive /\ Counted
  BY DEF ConnInv
<1>3. /\ client' \in [Clients -> Stages]
      /\ \A c \in Clients : client'[c] = IF client[c] = "over" THEN "away" ELSE client[c]
  <2>1. client \in [Clients -> Stages] /\ "away" \in Stages
    BY <1>2 DEF ConnTypes, Stages
  <2>2. \A c \in Clients : c \in over <=> client[c] = "over"
    OBVIOUS
  <2> HIDE DEF over, S
  <2>3. \A c \in Clients : client'[c] = IF client[c] = "over" THEN "away" ELSE client[c]
    BY <1>1, <2>2
  <2>4. DOMAIN client' = Clients /\ client' = [c \in Clients |-> client'[c]]
    BY <1>1
  <2> QED BY <2>1, <2>3, <2>4
<1>4. /\ subscribes' \in Seq(Handlers)
      /\ \A k \in 1 .. Len(subscribes') : \E j \in 1 .. Len(subscribes) :
            subscribes[j] \notin S /\ subscribes'[k] = subscribes[j]
      /\ NoTwice(subscribes')
  <2>1. subscribes \in Seq(Handlers) /\ NoTwice(subscribes)
    BY <1>2 DEF ConnTypes, HandlersLive
  <2> HIDE DEF S
  <2> QED BY <1>1, <2>1, WithoutKeeps
<1>5. ConnTypes'
  BY <1>1, <1>2, <1>3, <1>4 DEF ConnTypes
<1>6. OneSource'
  <2> HIDE DEF S
  <2>1. \A c \in Clients : client'[c] = "creating" <=> client[c] = "creating"
    BY <1>3
  <2>2. ASSUME NEW k \in 1 .. Len(subscribes'), subscribes'[k].kind = "hub"
        PROVE  /\ subscribes'[k].of <= orphans
               /\ subscribes'[k].of = orphans => pool # {} \/ \E c \in Clients : client[c] = "creating"
    <3>1. PICK j \in 1 .. Len(subscribes) : subscribes'[k] = subscribes[j]
      BY <1>4
    <3> QED BY <1>2, <2>2, <3>1 DEF OneSource
  <2> QED BY <1>1, <1>2, <2>1, <2>2 DEF OneSource
<1>7. HandlersLive'
  <2>1. ASSUME NEW k \in 1 .. Len(subscribes') PROVE LiveIn(subscribes'[k], client')
    <3>1. PICK j \in 1 .. Len(subscribes) : subscribes[j] \notin S /\ subscribes'[k] = subscribes[j]
      BY <1>4
    <3>2. LiveIn(subscribes[j], client) /\ subscribes[j] \in Handlers
      BY <1>2, LiveOnes DEF ConnTypes
    <3> DEFINE s == subscribes[j]
    <3>3. ASSUME s.kind = "conn" PROVE s.of \in Clients /\ s.of \notin over
      <4>1. s = Handler("conn", s.of) /\ s.of \in Clients
        BY <3>2, <3>3 DEF Handlers, Handler
      <4> HIDE DEF s
      <4>2. s.of \in over => s \in S
        BY <4>1
      <4> QED BY <3>1, <4>1, <4>2 DEF s
    <3>4. LiveIn(s, client')
      <4> HIDE DEF s
      <4>1. LiveIn(s, client)
        BY <3>2 DEF s
      <4> QED BY <1>3, <3>3, <4>1 DEF LiveIn
    <3> QED BY <3>1, <3>4
  <2> QED BY <1>4, <2>1, LiveOnes
<1>8. Counted'
  <2>1. conns' = conns
    BY <1>3 DEF conns, InConns
  <2>2. \A c \in Clients : client'[c] # "over"
    BY <1>3
  <2> QED BY <1>2, <2>1, <2>2 DEF Counted
<1> QED BY <1>5, <1>6, <1>7, <1>8 DEF ConnInv
-----------------------------------------------------------------------------
(* The handlers before the iterator and those behind it are the whole vector. *)
LEMMA HalvesMakeWhole ==
    ASSUME NEW T, NEW s \in Seq(T), NEW k \in 0 .. Len(s)
    PROVE  SubSeq(s, 1, k) \o SubSeq(s, k + 1, Len(s)) = s
<1> DEFINE l == SubSeq(s, 1, k)
           r == SubSeq(s, k + 1, Len(s))
           n == Len(s)
<1>1. n \in Nat /\ k \in Nat /\ k <= n
  OBVIOUS
<1>2. l \in Seq(T) /\ Len(l) = k /\ \A j \in 1 .. k : l[j] = s[j]
  BY <1>1
<1>3. r \in Seq(T) /\ Len(r) = n - k /\ \A j \in 1 .. n - k : r[j] = s[k + j]
  BY <1>1
<1> HIDE DEF l, r, n
<1>4. l \o r \in Seq(T) /\ Len(l \o r) = n
  <2>1. l \in Seq(T) /\ r \in Seq(T) /\ Len(l) + Len(r) = n
    BY <1>1, <1>2, <1>3
  <2>2. Len(l \o r) = Len(l) + Len(r) /\ l \o r \in Seq(T)
    BY <2>1
  <2> QED BY <2>1, <2>2
<1>5. ASSUME NEW j \in 1 .. n PROVE (l \o r)[j] = s[j]
  <2>1. CASE j <= k
    BY <1>1, <1>2, <1>3, <2>1
  <2>2. CASE ~(j <= k)
    <3>1. j - k \in 1 .. n - k /\ k + (j - k) = j
      BY <1>1, <2>2
    <3>2. (l \o r)[j] = r[j - k]
      BY <1>1, <1>2, <1>3, <2>2
    <3> QED BY <1>3, <3>1, <3>2
  <2> QED BY <2>1, <2>2
<1>6. Len(s) = n
  BY DEF n
<1> DEFINE w == l \o r
<1> HIDE DEF w
<1>7. w \in Seq(T) /\ Len(w) = n /\ \A j \in 1 .. n : w[j] = s[j]
  BY <1>4, <1>5 DEF w
<1>8. w = s
  BY <1>6, <1>7
<1> QED BY <1>8 DEF w, l, r

(* Whoever has one place in a sequence is counted once.                       *)
LEMMA CountedOnce ==
    ASSUME NEW T, NEW s \in Seq(T), NoTwice(s), NEW x \in ToSet(s)
    PROVE  Cardinality({j \in 1 .. Len(s) : s[j] = x}) = 1
<1>1. PICK i \in 1 .. Len(s) : s[i] = x
  BY DEF ToSet
<1>2. {j \in 1 .. Len(s) : s[j] = x} = {i}
  BY <1>1 DEF NoTwice
<1> QED BY <1>2, FS_Singleton

(* The rest of the handlers are called: none of them was freed, and when the  *)
(* first ones were told before, each of them has been told once.              *)
LEMMA CallRestTells ==
    ASSUME ConnInv, NEW from \in Nat, NEW told, NEW stayed, CallRest(from, told, stayed)
    PROVE  /\ ub' = ub /\ reload' = NoReload
           /\ /\ from <= Len(subscribes)
              /\ told = SubSeq(subscribes, 1, from)
              /\ stayed = ToSet(subscribes)
              => unheard' = unheard
<1> DEFINE called == SubSeq(subscribes, from + 1, Len(subscribes))
           all == told \o called
           Times(s) == Cardinality({j \in 1 .. Len(all) : all[j] = s})
<1>1. subscribes \in Seq(Handlers) /\ HandlersLive
  BY DEF ConnInv, ConnTypes
<1>2. /\ ub' = IF \E j \in 1 .. Len(called) : ~Alive(called[j]) THEN "freed handler" ELSE ub
      /\ unheard' = unheard \cup {s \in stayed : Times(s) # 1}
      /\ reload' = NoReload
  BY DEF CallRest
<1>3. ASSUME NEW j \in 1 .. Len(called) PROVE Alive(called[j])
  <2>1. from + j \in 1 .. Len(subscribes) /\ called[j] = subscribes[from + j]
    BY <1>1
  <2>2. Alive(subscribes[from + j])
    BY <1>1, <2>1 DEF HandlersLive
  <2> HIDE DEF called
  <2> QED BY <2>1, <2>2
<1>4. ASSUME from <= Len(subscribes), told = SubSeq(subscribes, 1, from),
             stayed = ToSet(subscribes)
      PROVE  unheard' = unheard
  <2>1. all = subscribes
    <3>1. from \in 0 .. Len(subscribes)
      BY <1>1, <1>4
    <3>2. SubSeq(subscribes, 1, from) \o SubSeq(subscribes, from + 1, Len(subscribes)) = subscribes
      BY <1>1, <3>1, HalvesMakeWhole
    <3> QED BY <1>4, <3>2
  <2> HIDE DEF all
  <2>2. \A s \in stayed : Times(s) = 1
    BY <1>1, <1>4, <2>1, CountedOnce DEF HandlersLive
  <2>3. {s \in stayed : Times(s) # 1} = {}
    BY <2>2
  <2> QED BY <1>2, <2>3
<1> HIDE DEF called, all
<1> QED BY <1>2, <1>3, <1>4

LEMMA NoReloadTyped == NoReload \in Reloading /\ NoReload.i = 0
<1>1. <<>> \in Seq(Handlers) /\ {} \in SUBSET Handlers /\ 0 \in Nat /\ FALSE \in BOOLEAN
  OBVIOUS
<1> QED BY <1>1 DEF NoReload, Reloading

LEMMA ReloadEnds ==
    ASSUME TellInv, reload' = NoReload, UNCHANGED churned,
           ub' \in {"none", "iterator"}, ~churned => unheard' = {} /\ ub' = "none"
    PROVE  TellInv'
BY NoReloadTyped DEF TellInv, NothingMoved, Iterating

LEMMA SubscribedTells ==
    ASSUME TellInv, NEW s, NEW realloc \in BOOLEAN, Subscribed(s, realloc),
           UNCHANGED <<unheard, ub>>
    PROVE  TellInv'
<1>1. /\ reload' = [reload EXCEPT !.dangling = @ \/ (Iterating /\ realloc)]
      /\ churned' = (churned \/ Iterating)
      /\ reload \in Reloading /\ churned \in BOOLEAN
  BY DEF Subscribed, TellInv
<1>2. Iterating \in BOOLEAN
  BY DEF Iterating
<1>3. reload' \in Reloading /\ reload'.i = reload.i
  BY <1>1, <1>2 DEF Reloading
<1>4. churned' \in BOOLEAN
  BY <1>1, <1>2
<1>5. CASE churned'
  BY <1>3, <1>4, <1>5 DEF TellInv
<1>6. CASE ~churned'
  <2>1. ~churned /\ ~Iterating /\ ~Iterating'
    BY <1>1, <1>3, <1>6 DEF Iterating
  <2> QED BY <1>3, <1>4, <2>1 DEF TellInv, NothingMoved
<1> QED BY <1>5, <1>6

LEMMA ClearsTells ==
    ASSUME ConnInv, TellInv, ManagerClears
    PROVE  TellInv'
<1> DEFINE S == {Handler("conn", c) : c \in {d \in Clients : client[d] = "over"}}
<1>1. /\ reload' = [reload EXCEPT !.stayed = @ \ S]
      /\ churned' = (churned \/ (Iterating /\ S # {}))
      /\ subscribes' = Without(subscribes, S)
      /\ UNCHANGED <<unheard, ub>>
      /\ reload \in Reloading /\ churned \in BOOLEAN /\ subscribes \in Seq(Handlers)
  BY DEF ManagerClears, Unsubscribed, TellInv, ConnInv, ConnTypes
<1> HIDE DEF S
<1>2. Iterating \in BOOLEAN /\ (Iterating /\ S # {}) \in BOOLEAN
  BY DEF Iterating
<1>3. reload' \in Reloading /\ reload'.i = reload.i
  BY <1>1 DEF Reloading
<1>4. churned' \in BOOLEAN
  BY <1>1, <1>2
<1>5. CASE churned'
  BY <1>1, <1>3, <1>4, <1>5 DEF TellInv
<1>6. CASE ~churned' /\ ~Iterating
  <2>1. ~churned /\ ~Iterating'
    BY <1>1, <1>3, <1>6 DEF Iterating
  <2> QED BY <1>1, <1>3, <1>4, <1>6, <2>1 DEF TellInv, NothingMoved
<1>7. CASE ~churned' /\ Iterating
  <2>1. ~churned /\ S = {}
    BY <1>1, <1>7
  <2>2. subscribes' = subscribes
    BY <1>1, <2>1, WithoutNothing
  <2>3. reload' = reload
    BY <1>1, <2>1 DEF Reloading
  <2>4. Iterating' = Iterating
    BY <2>3 DEF Iterating
  <2> QED BY <1>1, <1>3, <1>4, <2>1, <2>2, <2>3, <2>4 DEF TellInv, NothingMoved
<1> QED BY <1>5, <1>6, <1>7

LEMMA BeginsTells ==
    ASSUME ConnInv, TellInv, NEW blocks \in BOOLEAN, ReloadBegins(blocks)
    PROVE  TellInv'
<1>1. subscribes \in Seq(Handlers) /\ HandlersLive /\ Len(subscribes) \in Nat
  BY DEF ConnInv, ConnTypes
<1>2. UNCHANGED <<subscribes, churned>>
  BY DEF ReloadBegins, connVars
<1>3. CASE blocks /\ Blocking # {}
  <2> DEFINE k == CHOOSE j \in Blocking : TRUE
             called == SubSeq(subscribes, 1, k)
             r == [i |-> k, told |-> called, stayed |-> ToSet(subscribes), dangling |-> FALSE]
  <2>1. /\ ub' = IF \E j \in 1 .. k : ~Alive(called[j]) THEN "freed handler" ELSE ub
        /\ reload' = r
        /\ UNCHANGED unheard
    BY <1>3 DEF ReloadBegins
  <2>2. k \in 1 .. Len(subscribes)
    <3>1. k \in Blocking
      BY <1>3
    <3> HIDE DEF k
    <3> QED BY <3>1 DEF Blocking
  <2> HIDE DEF k
  <2>3. called \in Seq(Handlers) /\ \A j \in 1 .. k : called[j] = subscribes[j]
    BY <1>1, <2>2
  <2>4. \A j \in 1 .. k : Alive(called[j])
    <3> SUFFICES ASSUME NEW j \in 1 .. k PROVE Alive(called[j])
      OBVIOUS
    <3>1. j \in 1 .. Len(subscribes) /\ called[j] = subscribes[j]
      BY <1>1, <2>2, <2>3
    <3> HIDE DEF called
    <3> QED BY <1>1, <3>1 DEF HandlersLive
  <2>5. ub' = ub
    <3> HIDE DEF called
    <3> QED BY <2>1, <2>4
  <2>6. r \in Reloading
    <3>1. ToSet(subscribes) \in SUBSET Handlers
      BY <1>1 DEF ToSet
    <3>2. k \in Nat
      BY <2>2
    <3> HIDE DEF called
    <3> QED BY <2>3, <3>1, <3>2 DEF Reloading
  <2>7. r.i = k /\ ~r.dangling /\ r.told = called /\ r.stayed = ToSet(subscribes)
    OBVIOUS
  <2> HIDE DEF r
  <2>8. NothingMoved => NothingMoved'
    <3>1. k <= Len(subscribes)
      BY <1>1, <2>2
    <3>2. (Len(subscribes))' = Len(subscribes) /\ ToSet(subscribes)' = ToSet(subscribes)
          /\ SubSeq(subscribes', 1, k) = SubSeq(subscribes, 1, k)
      BY <1>2 DEF ToSet
    <3> QED BY <1>2, <2>1, <2>5, <2>7, <3>1, <3>2 DEF NothingMoved
  <2> QED BY <1>2, <2>1, <2>5, <2>6, <2>8 DEF TellInv
<1>4. CASE ~(blocks /\ Blocking # {})
  <2>1. CallRest(0, <<>>, ToSet(subscribes))
    BY <1>4 DEF ReloadBegins
  <2>2. <<>> = SubSeq(subscribes, 1, 0) /\ 0 <= Len(subscribes) /\ 0 \in Nat
    BY <1>1
  <2>3. ub' = ub /\ reload' = NoReload /\ unheard' = unheard
    BY <2>1, <2>2, CallRestTells
  <2> QED BY <1>2, <2>3, ReloadEnds DEF TellInv, NothingMoved
<1> QED BY <1>3, <1>4

LEMMA GoesOnTells ==
    ASSUME ConnInv, TellInv, ReloadGoesOn
    PROVE  TellInv'
<1>1. /\ Iterating /\ UNCHANGED <<subscribes, churned>>
      /\ reload \in Reloading /\ reload.i \in Nat
  BY DEF ReloadGoesOn, connVars, TellInv, Reloading
<1>2. CASE reload.dangling \/ reload.i > Len(subscribes)
  <2>1. ub' = "iterator" /\ UNCHANGED <<reload, unheard>>
    BY <1>2 DEF ReloadGoesOn
  <2>2. churned
    <3> SUFFICES ASSUME ~churned PROVE FALSE
      BY DEF TellInv
    <3>1. ~reload.dangling /\ reload.i <= Len(subscribes)
      BY <1>1 DEF TellInv, NothingMoved
    <3>2. Len(subscribes) \in Nat
      BY DEF ConnInv, ConnTypes
    <3> QED BY <1>1, <1>2, <3>1, <3>2
  <2> QED BY <1>1, <2>1, <2>2 DEF TellInv
<1>3. CASE ~(reload.dangling \/ reload.i > Len(subscribes))
  <2>1. CallRest(reload.i, reload.told, reload.stayed)
    BY <1>3 DEF ReloadGoesOn
  <2>2. ub' = ub /\ reload' = NoReload
    BY <1>1, <2>1, CallRestTells
  <2>3. ~churned => unheard' = {} /\ ub' = "none"
    BY <1>1, <2>1, <2>2, CallRestTells DEF TellInv, NothingMoved
  <2> QED BY <1>1, <2>2, <2>3, ReloadEnds DEF TellInv
<1> QED BY <1>2, <1>3
-----------------------------------------------------------------------------
LEMMA ServerInit == Init => ServerInv
<1> SUFFICES ASSUME Init PROVE ServerInv
  OBVIOUS
<1>1. /\ client = [c \in Clients |-> "away"] /\ manager = "waiting"
      /\ subscribes = <<>> /\ orphans = 0 /\ reload = NoReload
      /\ unheard = {} /\ churned = FALSE /\ ub = "none" /\ main = "running"
  BY DEF Init
<1>2. subscribes \in Seq(Handlers) /\ Len(subscribes) = 0
  BY <1>1
<1>3. ConnTypes
  BY <1>1, <1>2 DEF ConnTypes, Stages
<1>4. OneSource /\ HandlersLive
  BY <1>1, <1>2 DEF OneSource, HandlersLive, NoTwice
<1>5. Counted
  <2>1. conns = {}
    BY <1>1 DEF conns, InConns
  <2>2. IsFiniteSet(conns) /\ Cardinality(conns) = 0
    BY <2>1, FS_EmptySet
  <2> QED BY <1>1, <2>2, ServerAssumption DEF Counted
<1>6. ~Iterating
  BY <1>1, NoReloadTyped DEF Iterating
<1>7. TellInv
  BY <1>1, <1>6, NoReloadTyped DEF TellInv, NothingMoved
<1>8. MainInv
  BY <1>1, <1>6 DEF MainInv
<1> QED BY <1>3, <1>4, <1>5, <1>7, <1>8 DEF ServerInv, ConnInv

LEMMA SameConns == ASSUME ConnInv, UNCHANGED connVars PROVE ConnInv'
<1>1. UNCHANGED <<client, manager, subscribes, pool, orphans>>
  BY DEF connVars
<1>2. conns' = conns
  BY <1>1 DEF conns
<1>3. ConnTypes' /\ OneSource' /\ Counted'
  BY <1>1, <1>2 DEF ConnInv, ConnTypes, OneSource, Counted
<1>4. HandlersLive'
  BY <1>1, LiveOnes DEF ConnInv
<1> QED BY <1>3, <1>4 DEF ConnInv

LEMMA SameTells == ASSUME TellInv, UNCHANGED <<subscribes, reload, unheard, churned, ub>> PROVE TellInv'
BY DEF TellInv, NothingMoved, Iterating

LEMMA ConnNext == ConnInv /\ [Next]_vars => ConnInv'
<1> SUFFICES ASSUME ConnInv, [Next]_vars PROVE ConnInv'
  OBVIOUS
<1>1. CASE UNCHANGED vars
  BY <1>1, SameConns DEF vars
<1>2. ASSUME NEW c \in Clients, NEW b \in BOOLEAN, Fetch(c, b) PROVE ConnInv'
  BY <1>2, FetchStep
<1>3. ASSUME NEW c \in Clients, Created(c) PROVE ConnInv'
  BY <1>3, CreatedStep
<1>4. ASSUME NEW c \in Clients, ConnEnds(c) \/ CreateFails(c) PROVE ConnInv'
  BY <1>4, EndsStep
<1>5. ASSUME NEW starts \in BOOLEAN, NEW realloc \in BOOLEAN, Accept(starts, realloc) PROVE ConnInv'
  BY <1>5, AcceptStep
<1>6. CASE ManagerClears
  BY <1>6, ClearsStep
<1>7. CASE AcceptFails
  BY <1>7, SameConns DEF AcceptFails
<1>8. ASSUME NEW s, Signal(s) PROVE ConnInv'
  BY <1>8, SameConns DEF Signal
<1>9. ASSUME NEW b, ReloadBegins(b) PROVE ConnInv'
  BY <1>9, SameConns DEF ReloadBegins
<1>10. CASE ReloadFails \/ ReloadGoesOn \/ HandlerFails
  BY <1>10, SameConns DEF ReloadFails, ReloadGoesOn, HandlerFails
<1>11. CASE Quitting
  BY <1>11, SameConns DEF Quitting, QuitBegins, Disposed, StopsListening, GracefullyDisposed
<1> QED BY <1>1, <1>2, <1>3, <1>4, <1>5, <1>6, <1>7, <1>8, <1>9, <1>10, <1>11 DEF Next

LEMMA TellNext == ConnInv /\ TellInv /\ [Next]_vars => TellInv'
<1> SUFFICES ASSUME ConnInv, TellInv, [Next]_vars PROVE TellInv'
  OBVIOUS
<1>1. CASE UNCHANGED vars
  BY <1>1, SameTells DEF vars, connVars, reloadVars
<1>2. ASSUME NEW c \in Clients, NEW b \in BOOLEAN, Fetch(c, b) PROVE TellInv'
  BY <1>2, SubscribedTells DEF Fetch
<1>3. ASSUME NEW c \in Clients, Created(c) PROVE TellInv'
  <2>1. ub' = ub
    BY <1>3, CreatedStep
  <2> QED BY <1>3, <2>1, SameTells DEF Created, reloadVars
<1>4. ASSUME NEW c \in Clients, ConnEnds(c) \/ CreateFails(c) PROVE TellInv'
  BY <1>4, SameTells DEF ConnEnds, CreateFails, reloadVars
<1>5. ASSUME NEW starts \in BOOLEAN, NEW realloc \in BOOLEAN, Accept(starts, realloc) PROVE TellInv'
  <2>1. UNCHANGED <<unheard, ub>>
    BY <1>5 DEF Accept
  <2>2. CASE Exceeds
    BY <1>5, <2>1, <2>2, SameTells DEF Accept
  <2>3. CASE ~Exceeds
    BY <1>5, <2>1, <2>3, SubscribedTells DEF Accept
  <2> QED BY <2>2, <2>3
<1>6. CASE ManagerClears
  BY <1>6, ClearsTells
<1>7. CASE AcceptFails
  BY <1>7, SameTells DEF AcceptFails, connVars, reloadVars
<1>8. ASSUME NEW s, Signal(s) PROVE TellInv'
  BY <1>8, SameTells DEF Signal, connVars, reloadVars
<1>9. ASSUME NEW b \in BOOLEAN, ReloadBegins(b) PROVE TellInv'
  BY <1>9, BeginsTells
<1>10. CASE ReloadFails
  BY <1>10, SameTells DEF ReloadFails, connVars, reloadVars
<1>11. CASE ReloadGoesOn
  BY <1>11, GoesOnTells
<1>12. CASE HandlerFails
  BY <1>12, ReloadEnds DEF HandlerFails, TellInv, NothingMoved
<1>13. CASE Quitting
  BY <1>13, SameTells
     DEF Quitting, QuitBegins, Disposed, StopsListening, GracefullyDisposed, connVars, reloadVars
<1> QED BY <1>1, <1>2, <1>3, <1>4, <1>5, <1>6, <1>7, <1>8, <1>9, <1>10, <1>11, <1>12, <1>13 DEF Next

(* The iterator stands for the same, or a notification begins or ends.         *)
LEMMA SameMain ==
    ASSUME MainInv, UNCHANGED <<main, listener>>, reload'.i = reload.i \/ reload'.i = 0
    PROVE  MainInv'
BY DEF MainInv, Iterating

LEMMA MainNext == TellInv /\ MainInv /\ [Next]_vars => MainInv'
<1> SUFFICES ASSUME TellInv, MainInv, [Next]_vars PROVE MainInv'
  OBVIOUS
<1>0. reload \in Reloading
  BY DEF TellInv
<1>1. CASE UNCHANGED vars
  BY <1>1, SameMain DEF vars, reloadVars
<1>2. ASSUME NEW s, NEW b, Subscribed(s, b) PROVE reload'.i = reload.i
  BY <1>0, <1>2 DEF Subscribed, Reloading
<1>3. ASSUME NEW c \in Clients, NEW b \in BOOLEAN, Fetch(c, b) PROVE MainInv'
  BY <1>2, <1>3, SameMain DEF Fetch
<1>4. ASSUME NEW c \in Clients, Created(c) \/ ConnEnds(c) \/ CreateFails(c) PROVE MainInv'
  BY <1>4, SameMain DEF Created, ConnEnds, CreateFails, reloadVars
<1>5. ASSUME NEW starts \in BOOLEAN, NEW realloc \in BOOLEAN, Accept(starts, realloc) PROVE MainInv'
  <2>1. reload'.i = reload.i
    BY <1>2, <1>5 DEF Accept
  <2> QED BY <1>5, <2>1, SameMain DEF Accept
<1>6. CASE ManagerClears
  <2>1. reload'.i = reload.i
    BY <1>0, <1>6 DEF ManagerClears, Unsubscribed, Reloading
  <2> QED BY <1>6, <2>1, SameMain DEF ManagerClears
<1>7. CASE AcceptFails
  BY <1>7 DEF AcceptFails, MainInv, Iterating, reloadVars
<1>8. ASSUME NEW s, Signal(s) PROVE MainInv'
  BY <1>8, SameMain DEF Signal, reloadVars
<1>9. ASSUME NEW b \in BOOLEAN, ReloadBegins(b) PROVE MainInv'
  BY <1>9 DEF ReloadBegins, MainInv
<1>10. CASE ReloadFails
  BY <1>10 DEF ReloadFails, MainInv, Iterating, reloadVars
<1>11. CASE ReloadGoesOn
  <2>1. reload' = reload \/ reload' = NoReload
    BY <1>11 DEF ReloadGoesOn, CallRest
  <2> QED BY <1>11, <2>1, SameMain, NoReloadTyped DEF ReloadGoesOn
<1>12. CASE HandlerFails
  BY <1>12, NoReloadTyped DEF HandlerFails, MainInv, Iterating
<1>13. CASE Quitting
  BY <1>13 DEF Quitting, QuitBegins, Disposed, StopsListening, GracefullyDisposed, Goes,
               MainInv, Iterating, reloadVars
<1> QED BY <1>1, <1>3, <1>4, <1>5, <1>6, <1>7, <1>8, <1>9, <1>10, <1>11, <1>12, <1>13 DEF Next

LEMMA ServerInvariant == Spec => []ServerInv
<1>1. ServerInv /\ [Next]_vars => ServerInv'
  BY ConnNext, TellNext, MainNext DEF ServerInv
<1> QED BY <1>1, ServerInit, PTL DEF Spec

(* Whatever comes and goes, a reload calls no handler that was freed, leaves the  *)
(* vector only when someone came or left while a handler blocked, and tells every  *)
(* other subscriber once (SrsConfig::do_reload_listen and its like); and a stream that several      *)
(* connections ask for at once gets one source (SrsSourceManager::fetch_or_create). *)
THEOREM ServerReloadReachesAll == Spec => []ReloadReachesAll
<1>1. ServerInv => ReloadReachesAll
  BY DEF ServerInv, TellInv, NothingMoved, ReloadReachesAll
<1> QED BY <1>1, ServerInvariant, PTL

(* The limit of the connections holds (SrsServer::accept_client), and a connection   *)
(* that ended is about to be freed: the manager was woken for it.                 *)
THEOREM ServerSocketsAccounted == Spec => []SocketsAccounted
<1>1. ServerInv => SocketsAccounted
  <2> SUFFICES ASSUME ServerInv PROVE SocketsAccounted
    OBVIOUS
  <2>1. \A c \in fds \ conns : client[c] = "over" \/ client[c] = "refused"
    BY DEF ServerInv, ConnInv, ConnTypes, fds, conns, Stages, InConns
  <2>2. \A c \in fds \ conns : c \in Clients
    BY DEF fds
  <2> QED BY <2>1, <2>2 DEF ServerInv, ConnInv, Counted, SocketsAccounted
<1> QED BY <1>1, ServerInvariant, PTL

(* A graceful quit waits for every connection, unless a fast quit is asked for, and   *)
(* while it waits nobody is accepted.                                             *)
THEOREM ServerQuitLosesNobody == Spec => QuitLosesNobody
<1> DEFINE Kept ==
       /\ main = "waiting" /\ main' = "exited" => conns = {} \/ "fast_quit" \in signals
       /\ main = "waiting" => conns' \subseteq conns
<1>1. ServerInv /\ [Next]_vars => [Kept]_vars
  <2> SUFFICES ASSUME ServerInv, Next, main = "waiting"
               PROVE  /\ main' = "exited" => conns = {} \/ "fast_quit" \in signals
                      /\ conns' \subseteq conns
    OBVIOUS
  <2>1. ~Iterating /\ listener = "closed"
    BY DEF ServerInv, MainInv
  <2>2. client \in [Clients -> Stages]
    BY DEF ServerInv, ConnInv, ConnTypes
  <2>3. ASSUME NEW c \in Clients, client[c] \in InConns, NEW to, client' = [client EXCEPT ![c] = to]
        PROVE  conns' \subseteq conns
    BY <2>2, <2>3 DEF conns
  <2>4. ASSUME UNCHANGED client PROVE conns' = conns
    BY <2>4 DEF conns
  <2>5. ASSUME NEW c \in Clients, NEW b \in BOOLEAN, Fetch(c, b)
        PROVE  main' = "waiting" /\ conns' \subseteq conns
    BY <2>3, <2>5 DEF Fetch, InConns
  <2>6. ASSUME NEW c \in Clients, Created(c) \/ ConnEnds(c) \/ CreateFails(c)
        PROVE  main' = "waiting" /\ conns' \subseteq conns
    BY <2>3, <2>6 DEF Created, ConnEnds, CreateFails, InConns
  <2>7. ASSUME NEW s, NEW r, Accept(s, r) \/ AcceptFails PROVE FALSE
    BY <2>1, <2>7 DEF Accept, AcceptFails
  <2>8. CASE ManagerClears
    <3>1. /\ main' = main
          /\ client' = [c \in Clients |-> IF c \in {d \in Clients : client[d] = "over"}
                                          THEN "away" ELSE client[c]]
      BY <2>8 DEF ManagerClears
    <3> QED BY <3>1 DEF conns, InConns
  <2>9. ASSUME NEW s, Signal(s) PROVE main' = "waiting" /\ conns' = conns
    BY <2>4, <2>9 DEF Signal, connVars
  <2>10. ASSUME NEW b, ReloadBegins(b) \/ ReloadFails \/ ReloadGoesOn \/ HandlerFails PROVE FALSE
    BY <2>1, <2>10 DEF ReloadBegins, ReloadFails, ReloadGoesOn, HandlerFails
  <2>11. CASE Quitting
    BY <2>4, <2>11 DEF Quitting, QuitBegins, Disposed, StopsListening, GracefullyDisposed, Goes,
                       NobodyLeft, connVars
  <2> QED BY <2>5, <2>6, <2>7, <2>8, <2>9, <2>10, <2>11 DEF Next
<1>2. [][Kept]_vars => QuitLosesNobody
  BY DEF QuitLosesNobody
<1> HIDE DEF Kept
<1> QED BY <1>1, <1>2, ServerInvariant, PTL DEF Spec

(* How far a server that was told to quit is from its exit: the handler of a      *)
(* reload that blocks, the loop it leaves, and the pauses of the two kinds of     *)
(* quit.                                                                      *)
ToExit(m, i) ==
    (CASE m = "running" -> 8 [] m = "disposing" -> 6 [] m = "start_wait" -> 4
       [] m = "waiting" -> 2 [] OTHER -> 0) + (IF i > 0 THEN 1 ELSE 0)

(* No step takes it further away, whoever comes, leaves or signals meanwhile, and  *)
(* each step of the main coroutine brings it nearer.                          *)
QuitAdvances ==
    [][ub = "none" /\ signals \intersect Quits # {} =>
        /\ signals' \intersect Quits # {}
        /\ ToExit(main', reload'.i) <= ToExit(main, reload.i)
        /\ Quitting \/ ReloadGoesOn \/ HandlerFails =>
              ToExit(main', reload'.i) < ToExit(main, reload.i) \/ ub' # "none"]_vars

(* What a step means that leaves the main coroutine where it is.                *)
LEMMA StaysBefore ==
    ASSUME UNCHANGED main, reload'.i = reload.i, signals \intersect Quits \subseteq signals',
           signals \intersect Quits # {}
    PROVE  /\ signals' \intersect Quits # {}
           /\ ToExit(main', reload'.i) <= ToExit(main, reload.i)
<1>1. ToExit(main, reload.i) \in Nat
  BY DEF ToExit
<1>2. ToExit(main', reload'.i) = ToExit(main, reload.i)
  OBVIOUS
<1>3. signals' \intersect Quits # {}
  OBVIOUS
<1> QED BY <1>1, <1>2, <1>3

(* The main coroutine has three things to do: its own way to the exit, the rest of  *)
(* a reload, and the end of one.                                              *)
LEMMA MainAdvances ==
    ASSUME ServerInv, ub = "none", signals \intersect Quits # {},
           Quitting \/ ReloadGoesOn \/ HandlerFails
    PROVE  /\ UNCHANGED signals
           /\ \/ ToExit(main', reload'.i) < ToExit(main, reload.i)
              \/ ub' # "none" /\ UNCHANGED <<main, reload>>
<1>1. reload.i \in Nat /\ NoReload.i = 0 /\ (reload.i > 0 => main = "running")
  BY NoReloadTyped DEF ServerInv, TellInv, MainInv, Reloading, Iterating
<1>2. CASE QuitBegins
  BY <1>1, <1>2 DEF QuitBegins, Goes, Iterating, reloadVars, ToExit
<1>3. CASE Disposed
  BY <1>1, <1>3 DEF Disposed, Goes, Iterating, reloadVars, ToExit
<1>4. CASE StopsListening
  BY <1>1, <1>4 DEF StopsListening, Goes, Iterating, reloadVars, ToExit
<1>5. CASE GracefullyDisposed
  BY <1>1, <1>5 DEF GracefullyDisposed, Goes, Iterating, reloadVars, ToExit
<1>6. CASE ReloadGoesOn
  <2>1. UNCHANGED <<signals, main>> /\ reload.i > 0
    BY <1>6 DEF ReloadGoesOn, Iterating
  <2>2. (ub' # "none" /\ UNCHANGED reload) \/ reload' = NoReload
    BY <1>6 DEF ReloadGoesOn, CallRest
  <2> QED BY <1>1, <2>1, <2>2 DEF ToExit
<1>7. CASE HandlerFails
  BY <1>1, <1>7 DEF HandlerFails, Iterating, ToExit
<1> QED BY <1>2, <1>3, <1>4, <1>5, <1>6, <1>7 DEF Quitting

LEMMA OthersLeaveMain ==
    ASSUME TellInv, signals \intersect Quits # {}, Next,
           ~(Quitting \/ ReloadGoesOn \/ HandlerFails)
    PROVE  /\ UNCHANGED main /\ reload'.i = reload.i
           /\ signals \intersect Quits \subseteq signals'
<1>0. reload \in Reloading
  BY DEF TellInv
<1>1. ASSUME NEW s, NEW realloc \in BOOLEAN, Subscribed(s, realloc) PROVE reload'.i = reload.i
  BY <1>0, <1>1 DEF Subscribed, Reloading
<1>2. ASSUME NEW c \in Clients, NEW b \in BOOLEAN, Fetch(c, b)
      PROVE  UNCHANGED <<main, signals>> /\ reload'.i = reload.i
  BY <1>1, <1>2 DEF Fetch
<1>3. ASSUME NEW c \in Clients, Created(c) \/ ConnEnds(c) \/ CreateFails(c)
      PROVE  UNCHANGED <<main, signals>> /\ reload'.i = reload.i
  <2>1. UNCHANGED <<main, signals, reload>>
    BY <1>3 DEF Created, ConnEnds, CreateFails, reloadVars
  <2> QED BY <2>1
<1>4. ASSUME NEW starts \in BOOLEAN, NEW realloc \in BOOLEAN, Accept(starts, realloc)
      PROVE  UNCHANGED <<main, signals>> /\ reload'.i = reload.i
  BY <1>1, <1>4 DEF Accept
<1>5. CASE ManagerClears
  <2>1. \E S : Unsubscribed(S)
    BY <1>5 DEF ManagerClears
  <2>2. reload'.i = reload.i
    BY <1>0, <2>1 DEF Unsubscribed, Reloading
  <2> QED BY <1>5, <2>2 DEF ManagerClears
<1>6. CASE AcceptFails
  BY <1>6 DEF AcceptFails, reloadVars
<1>7. ASSUME NEW s, Signal(s) PROVE UNCHANGED main /\ reload'.i = reload.i /\ signals \subseteq signals'
  BY <1>7 DEF Signal, reloadVars
<1>8. ASSUME NEW b \in BOOLEAN, ReloadBegins(b) \/ ReloadFails PROVE FALSE
  <2>1. signals \intersect Quits = {}
    BY <1>8 DEF ReloadBegins, ReloadFails
  <2> QED BY <2>1
<1> QED BY <1>2, <1>3, <1>4, <1>5, <1>6, <1>7, <1>8 DEF Next

(* A server that was told to quit comes ever nearer to its exit, and no reload,      *)
(* client or signal keeps it back (SrsServer::do_cycle, dispose, gracefully_dispose): *)
(* the part of ServerQuits that needs no fairness.                               *)
THEOREM ServerIsNotHeldBack == Spec => QuitAdvances
<1> DEFINE Nearer ==
       ub = "none" /\ signals \intersect Quits # {} =>
         /\ signals' \intersect Quits # {}
         /\ ToExit(main', reload'.i) <= ToExit(main, reload.i)
         /\ Quitting \/ ReloadGoesOn \/ HandlerFails =>
               ToExit(main', reload'.i) < ToExit(main, reload.i) \/ ub' # "none"
<1>1. ServerInv /\ Next => Nearer
  <2> SUFFICES ASSUME ServerInv, Next, ub = "none", signals \intersect Quits # {}
               PROVE  /\ signals' \intersect Quits # {}
                      /\ ToExit(main', reload'.i) <= ToExit(main, reload.i)
                      /\ Quitting \/ ReloadGoesOn \/ HandlerFails =>
                            ToExit(main', reload'.i) < ToExit(main, reload.i) \/ ub' # "none"
    OBVIOUS
  <2>1. CASE Quitting \/ ReloadGoesOn \/ HandlerFails
    <3>1. ToExit(main, reload.i) \in Nat /\ ToExit(main', reload'.i) \in Nat
      BY DEF ToExit
    <3>2. UNCHANGED <<main, reload>> => ToExit(main', reload'.i) = ToExit(main, reload.i)
      OBVIOUS
    <3> HIDE DEF ToExit
    <3> QED BY <2>1, <3>1, <3>2, MainAdvances
  <2>2. CASE ~(Quitting \/ ReloadGoesOn \/ HandlerFails)
    BY <2>2, OthersLeaveMain, StaysBefore DEF ServerInv
  <2> QED BY <2>1, <2>2
<1>2. ServerInv /\ [Next]_vars => [Nearer]_vars
  BY <1>1
<1> QED BY <1>2, ServerInvariant, PTL DEF Spec, QuitAdvances
-----------------------------------------------------------------------------
(* The chunk streams of a connection.                                         *)
LEMMA RemainderUnique ==
    ASSUME NEW w \in Nat \ {0}, NEW q \in Int, NEW r \in 0 .. w - 1
    PROVE  (q * w + r) % w = r
OBVIOUS

LEMMA Quotient ==
    ASSUME NEW w \in Nat \ {0}, NEW a \in Int
    PROVE  /\ a % w \in 0 .. w - 1
           /\ a \div w \in Int
           /\ a = (a \div w) * w + (a % w)
OBVIOUS

LEMMA RemainderOfSum ==
    ASSUME NEW w \in Nat \ {0}, NEW a \in Int, NEW b \in Int
    PROVE  ((a % w) + b) % w = (a + b) % w
<1> DEFINE q == a \div w
           s == (a % w) + b
           k == s \div w
           r == s % w
<1>1. a % w \in Int /\ q \in Int /\ a = q * w + (a % w)
  BY Quotient
<1>2. s \in Int /\ s = (a % w) + b
  BY <1>1
<1> HIDE DEF s, q
<1>3. k \in Int /\ r \in 0 .. w - 1 /\ s = k * w + r
  BY <1>2, Quotient
<1> HIDE DEF k, r
<1>4. a + b = (q + k) * w + r
  BY <1>1, <1>2, <1>3
<1>5. q + k \in Int
  BY <1>1, <1>3
<1>6. ((q + k) * w + r) % w = r
  BY <1>3, <1>5, RemainderUnique
<1> QED BY <1>4, <1>6 DEF s, r

LEMMA RemainderDiffers ==
    ASSUME NEW w \in Nat \ {0, 1}, NEW a \in Int
    PROVE  (a + 1) % w # a % w
<1>1. w \in Nat \ {0} /\ a + 1 \in Int
  OBVIOUS
<1>2. a = (a \div w) * w + (a % w) /\ a \div w \in Int /\ a % w \in Int
  BY <1>1, Quotient
<1>3. a + 1 = ((a + 1) \div w) * w + ((a + 1) % w) /\ (a + 1) \div w \in Int
  BY <1>1, Quotient
<1> SUFFICES ASSUME (a + 1) % w = a % w PROVE FALSE
  OBVIOUS
<1> DEFINE d == ((a + 1) \div w) - (a \div w)
<1>4. d \in Int /\ d * w = 1
  BY <1>2, <1>3
<1>5. w > 1
  OBVIOUS
<1> HIDE DEF d
<1>6. CASE d >= 1
  <2>1. d * w >= w BY <1>6, <1>4, <1>5
  <2> QED BY <2>1, <1>4, <1>5
<1>7. CASE d <= 0
  <2>1. d * w <= 0 BY <1>7, <1>4, <1>5
  <2> QED BY <2>1, <1>4
<1> QED BY <1>4, <1>6, <1>7
-----------------------------------------------------------------------------
Peers == [time : Nat, stamp : Nat, origin : Nat, length : Nat, left : Nat, fresh : BOOLEAN]

Chunks == [timestamp : Nat, timestamp_delta : Nat, payload_length : Nat,
           extended_timestamp : BOOLEAN, fresh : BOOLEAN, msg : BOOLEAN, size : Nat]

ChunkTypeOK ==
    /\ repeats \in BOOLEAN /\ looks \in BOOLEAN
    /\ chunk_size \in ChunkSizes
    /\ peer \in [Cids -> Peers]
    /\ DOMAIN chunk = Cids

(* What the reader keeps of a chunk stream (s) and what its peer wrote (p).  A   *)
(* time that did not fit its field is what the reader keeps, be it a time or a  *)
(* difference.                                                               *)
Agree(p, s) ==
    /\ s \in Chunks
    /\ p.origin <= p.time
    /\ IsLong(p.stamp) => p.stamp = p.time - p.origin
    /\ s.timestamp = (p.time - p.origin) % Wrap
    /\ s.timestamp_delta = Least(p.stamp, Extended)
    /\ s.payload_length = p.length
    /\ s.extended_timestamp <=> IsLong(p.stamp)
    /\ s.fresh <=> p.fresh
    /\ s.msg <=> p.left > 0
    /\ s.size = IF s.msg THEN p.length - p.left ELSE 0
    /\ p.fresh => p.left = 0

Agreement == sync = "ok" => \A c \in Cids : Agree(peer[c], chunk[c])

ChunkInv == ChunkTypeOK /\ Agreement /\ StaysInSync

LEMMA InitAgrees == ChunkInit => ChunkInv
<1> SUFFICES ASSUME ChunkInit PROVE ChunkInv
  OBVIOUS
<1>1. Wrap \in Nat \ {0} /\ (0 - 0) % Wrap = 0
  <2>1. Wrap \in Nat \ {0} /\ 0 \in 0 .. Wrap - 1
    BY ChunkAssumption
  <2>2. (0 * Wrap + 0) % Wrap = 0
    BY <2>1, RemainderUnique
  <2> QED BY <2>1, <2>2
<1>2. ChunkTypeOK
  <2>1. peer \in [Cids -> Peers]
    BY ChunkAssumption DEF ChunkInit, Peers
  <2> QED BY <2>1 DEF ChunkInit, ChunkTypeOK
<1>3. ASSUME NEW c \in Cids PROVE Agree(peer[c], chunk[c])
  BY <1>1, ChunkAssumption DEF ChunkInit, Agree, Chunks, IsLong, Least
<1> QED BY <1>2, <1>3 DEF ChunkInit, ChunkInv, Agreement, StaysInSync
-----------------------------------------------------------------------------
(* What a reader that agrees with its peer makes of the first chunk of a        *)
(* message: it is not refused, it takes an extended timestamp just when one was *)
(* written, and the time and the length it arrives at are those of the message. *)
LEMMA FirstIsRead ==
    ASSUME NEW p \in Peers, NEW s, Agree(p, s), p.left = 0,
           NEW fmt \in 0 .. 3, NEW time \in Nat, NEW length \in Nat,
           Allowed(p, fmt, time, length)
    PROVE  LET stamp == Stamp(p, fmt, time)
               field == Least(stamp, Extended)
               origin == OriginOf(p, fmt, stamp)
               takes == Takes(s, fmt, field, stamp)
           IN  /\ stamp \in Nat /\ field \in 0 .. Extended
               /\ origin \in Nat /\ origin <= time
               /\ IsLong(stamp) => stamp = time - origin
               /\ ~Refused(s, fmt, length)
               /\ IsExtended(s, fmt, field) \in BOOLEAN
               /\ IsExtended(s, fmt, field) <=> IsLong(stamp)
               /\ takes <=> IsLong(stamp)
               /\ (IF takes THEN stamp ELSE TimeOf(s, fmt, field)) % Wrap = (time - origin) % Wrap
               /\ (IF fmt \in {0, 1} THEN length ELSE s.payload_length) = length
               /\ fmt = 3 => s.timestamp_delta = field
<1> DEFINE stamp == Stamp(p, fmt, time)
           field == Least(stamp, Extended)
           origin == OriginOf(p, fmt, stamp)
           takes == Takes(s, fmt, field, stamp)
<1>0. Wrap \in Nat \ {0} /\ Extended \in Nat \ {0} /\ MaxStep \in Nat
  BY ChunkAssumption
<1>1. /\ p.time \in Nat /\ p.stamp \in Nat /\ p.origin \in Nat /\ p.fresh \in BOOLEAN
      /\ p.origin <= p.time
      /\ s \in Chunks /\ ~s.msg /\ (s.fresh <=> p.fresh)
      /\ s.timestamp = (p.time - p.origin) % Wrap
      /\ s.timestamp_delta = Least(p.stamp, Extended)
      /\ s.payload_length = p.length
      /\ (s.extended_timestamp <=> IsLong(p.stamp))
  BY DEF Peers, Agree
<1>2. /\ fmt = 0 => stamp = time
      /\ fmt # 0 => stamp = time - p.time /\ stamp \in Nat
      /\ fmt = 3 => stamp = p.stamp
  BY <1>0, <1>1 DEF Stamp, Allowed
<1>3. stamp \in Nat
  BY <1>2
<1>4. /\ fmt = 0 => origin = 0
      /\ fmt # 0 /\ IsLong(stamp) => origin = p.time
      /\ fmt # 0 /\ ~IsLong(stamp) => origin = p.origin
  BY DEF OriginOf
<1> HIDE DEF stamp, origin
<1>5. /\ field \in 0 .. Extended
      /\ field >= Extended <=> IsLong(stamp)
      /\ ~IsLong(stamp) => field = stamp
  BY <1>0, <1>3 DEF Least, IsLong
<1>6. origin \in Nat /\ origin <= time /\ (IsLong(stamp) => stamp = time - origin)
  BY <1>0, <1>1, <1>2, <1>3, <1>4
<1>7. ~Refused(s, fmt, length)
  BY <1>1 DEF Refused, Allowed
<1>8. fmt = 3 => s.timestamp_delta = field
  BY <1>1, <1>2
<1> HIDE DEF field
<1>9. /\ IsExtended(s, fmt, field) \in BOOLEAN
      /\ IsExtended(s, fmt, field) <=> IsLong(stamp)
  <2>1. CASE fmt = 3
    BY <2>1, <1>1, <1>2 DEF IsExtended, Chunks
  <2>2. CASE fmt # 3
    BY <2>2, <1>5 DEF IsExtended
  <2> QED BY <2>1, <2>2
<1>10. takes <=> IsLong(stamp)
  BY <1>1, <1>9 DEF Takes
<1> HIDE DEF takes
<1>11. (IF takes THEN stamp ELSE TimeOf(s, fmt, field)) % Wrap = (time - origin) % Wrap
  <2>1. CASE takes
    BY <2>1, <1>6, <1>10
  <2>2. CASE ~takes /\ fmt = 0
    <3>1. TimeOf(s, fmt, field) = field /\ field = stamp
      BY <2>2, <1>5, <1>9, <1>10 DEF TimeOf
    <3>2. stamp = time - origin
      BY <2>2, <1>2, <1>4
    <3> QED BY <2>2, <3>1, <3>2
  <2>3. CASE ~takes /\ fmt # 0
    <3>1. TimeOf(s, fmt, field) = s.timestamp + field /\ field = stamp
      BY <2>3, <1>1, <1>5, <1>8, <1>9, <1>10 DEF TimeOf
    <3> DEFINE a == p.time - p.origin
    <3>2. a \in Int /\ stamp \in Int /\ a + stamp = time - origin
      BY <2>3, <1>1, <1>2, <1>3, <1>4, <1>10
    <3>3. s.timestamp = a % Wrap
      BY <1>1
    <3> HIDE DEF a
    <3>4. ((a % Wrap) + stamp) % Wrap = (a + stamp) % Wrap
      BY <3>2, <1>0, RemainderOfSum
    <3> QED BY <2>3, <3>1, <3>2, <3>3, <3>4
  <2> QED BY <2>1, <2>2, <2>3
<1>12. (IF fmt \in {0, 1} THEN length ELSE s.payload_length) = length
  BY <1>1 DEF Allowed
<1> QED BY <1>3, <1>5, <1>6, <1>7, <1>8, <1>9, <1>10, <1>11, <1>12 DEF stamp, field, origin, takes

(* The same of every later chunk, unless the detection is mistaken.            *)
LEMMA NextIsRead ==
    ASSUME NEW p \in Peers, NEW s, Agree(p, s), p.left > 0,
           NEW written \in BOOLEAN, NEW same \in BOOLEAN,
           written => IsLong(p.stamp)
    PROVE  LET next  == IF written \/ same THEN p.stamp ELSE p.stamp + 1
               takes == Takes(s, 3, 0, next)
           IN  /\ ~Refused(s, 3, 0)
               /\ IsExtended(s, 3, 0) <=> IsLong(p.stamp)
               /\ written => takes
               /\ takes /\ ~written =>
                     IsLong(p.stamp) /\ (same \/ p.stamp % Wrap = 0)
               /\ takes = written =>
                     (IF takes THEN next ELSE TimeOf(s, 3, 0)) % Wrap
                         = (p.time - p.origin) % Wrap
<1> DEFINE next  == IF written \/ same THEN p.stamp ELSE p.stamp + 1
           takes == Takes(s, 3, 0, next)
           a == p.time - p.origin
<1>0. Wrap \in Nat \ {0, 1}
  BY ChunkAssumption
<1>1. /\ p.stamp \in Nat /\ a \in Int /\ s \in Chunks /\ s.msg /\ ~s.fresh
      /\ s.timestamp = a % Wrap
      /\ (s.extended_timestamp <=> IsLong(p.stamp))
      /\ (IsLong(p.stamp) => p.stamp = a)
  BY DEF Peers, Agree
<1> HIDE DEF a
<1>2. ~Refused(s, 3, 0)
  BY <1>1 DEF Refused
<1>3. IsExtended(s, 3, 0) <=> IsLong(p.stamp)
  BY <1>1 DEF IsExtended
<1>4. takes <=> IsLong(p.stamp) /\ (p.stamp % Wrap = 0 \/ p.stamp % Wrap = next % Wrap)
  BY <1>1, <1>3 DEF Takes
<1>5. written => takes
  BY <1>4
<1>6. (p.stamp + 1) % Wrap # p.stamp % Wrap
  BY <1>0, <1>1, RemainderDiffers
<1>7. takes /\ ~written => IsLong(p.stamp) /\ (same \/ p.stamp % Wrap = 0)
  BY <1>4, <1>6
<1>8. ASSUME takes = written
      PROVE  (IF takes THEN next ELSE TimeOf(s, 3, 0)) % Wrap = a % Wrap
  <2>1. CASE takes
    BY <2>1, <1>1, <1>4, <1>8
  <2>2. CASE ~takes
    <3>1. TimeOf(s, 3, 0) = (a % Wrap) + 0
      <4>1. CASE IsLong(p.stamp)
        BY <4>1, <1>0, <1>1, <1>3, Quotient DEF TimeOf
      <4>2. CASE ~IsLong(p.stamp)
        BY <4>2, <1>1, <1>3 DEF TimeOf
      <4> QED BY <4>1, <4>2
    <3>2. Wrap \in Nat \ {0} /\ a \in Int /\ 0 \in Int
      BY <1>0, <1>1
    <3>3. ((a % Wrap) + 0) % Wrap = (a + 0) % Wrap
      BY ONLY <3>2, RemainderOfSum
    <3> QED BY <2>2, <3>1, <3>3, <1>1
  <2> QED BY <2>1, <2>2
<1> QED BY <1>2, <1>3, <1>5, <1>7, <1>8 DEF a
-----------------------------------------------------------------------------
LEMMA FirstChunkStep ==
    ASSUME ChunkInv, NEW c \in Cids, NEW fmt \in 0 .. 3,
           NEW time \in 0 .. MaxTime, NEW length \in 0 .. MaxLength,
           FirstChunk(c, fmt, time, length)
    PROVE  ChunkInv'
<1> DEFINE p == peer[c]
           s == chunk[c]
           stamp == Stamp(p, fmt, time)
           field == Least(stamp, Extended)
           origin == OriginOf(p, fmt, stamp)
           long == IsLong(stamp)
           takes == Takes(s, fmt, field, stamp)
           sum == IF takes THEN stamp ELSE TimeOf(s, fmt, field)
           whole == IF fmt \in {0, 1} THEN length ELSE s.payload_length
           now == Least(length, chunk_size)
           e == IsExtended(s, fmt, field)
<1>0. /\ chunk_size \in Nat \ {0} /\ time \in Nat /\ length \in Nat
      /\ now \in Nat /\ now <= length /\ (now = length \/ now < length)
  BY ChunkAssumption DEF ChunkInv, ChunkTypeOK, Least
<1>1. /\ p \in Peers /\ Agree(p, s) /\ p.left = 0 /\ Allowed(p, fmt, time, length)
      /\ \A d \in Cids : Agree(peer[d], chunk[d])
  BY DEF ChunkInv, ChunkTypeOK, Agreement, FirstChunk
<1>2. /\ stamp \in Nat /\ field \in 0 .. Extended
      /\ origin \in Nat /\ origin <= time
      /\ long => stamp = time - origin
      /\ ~Refused(s, fmt, length)
      /\ IsExtended(s, fmt, field) \in BOOLEAN
      /\ IsExtended(s, fmt, field) <=> long
      /\ takes <=> long
      /\ sum % Wrap = (time - origin) % Wrap
      /\ whole = length
      /\ fmt = 3 => s.timestamp_delta = field
  BY <1>0, <1>1, FirstIsRead
<1>3. s.size = 0 /\ s \in Chunks
  BY <1>1 DEF Agree, Peers
<1>4. /\ peer' = [peer EXCEPT ![c] =
            [time |-> time, stamp |-> stamp, origin |-> origin, length |-> length,
             left |-> length - now, fresh |-> FALSE]]
      /\ UNCHANGED <<repeats, chunk_size, looks>>
  BY DEF FirstChunk
<1>5. /\ sync' = "ok"
      /\ chunk' = [chunk EXCEPT ![c] =
            [timestamp |-> sum % Wrap,
             timestamp_delta |-> IF fmt = 3 THEN s.timestamp_delta ELSE field,
             payload_length |-> whole,
             extended_timestamp |-> IsExtended(s, fmt, field),
             fresh |-> FALSE,
             msg |-> ~(s.size + Least(whole - s.size, chunk_size) = whole),
             size |-> IF s.size + Least(whole - s.size, chunk_size) = whole THEN 0
                      ELSE s.size + Least(whole - s.size, chunk_size)]]
  <2>1. Read(c, fmt, field, length, long, stamp)
    BY DEF FirstChunk
  <2>2. takes = long
    <3>1. takes \in BOOLEAN /\ long \in BOOLEAN
      BY DEF Takes, IsLong
    <3> QED BY <3>1, <1>2
  <2>3. /\ sync' = IF takes = long THEN "ok" ELSE "lost"
        /\ chunk' = [chunk EXCEPT ![c] =
            [timestamp |-> sum % Wrap,
             timestamp_delta |-> IF fmt = 3 THEN s.timestamp_delta ELSE field,
             payload_length |-> whole,
             extended_timestamp |-> IsExtended(s, fmt, field),
             fresh |-> FALSE,
             msg |-> ~(s.size + Least(whole - s.size, chunk_size) = whole),
             size |-> IF s.size + Least(whole - s.size, chunk_size) = whole THEN 0
                      ELSE s.size + Least(whole - s.size, chunk_size)]]
    BY <2>1, <1>2, Zenon DEF Read
  <2> QED BY <2>2, <2>3
<1>6. s.size + Least(whole - s.size, chunk_size) = now
  BY <1>0, <1>2, <1>3
<1>7. (time - origin) % Wrap \in Nat
  <2>1. time - origin \in Int /\ Wrap \in Nat \ {0}
    BY <1>0, <1>2, ChunkAssumption
  <2>2. (time - origin) % Wrap \in 0 .. Wrap - 1
    BY <2>1, Quotient
  <2> QED BY <2>1, <2>2
<1>8. chunk'[c] = [timestamp |-> (time - origin) % Wrap, timestamp_delta |-> field,
                   payload_length |-> length, extended_timestamp |-> e,
                   fresh |-> FALSE, msg |-> now # length,
                   size |-> IF now = length THEN 0 ELSE now]
  <2>1. (IF fmt = 3 THEN s.timestamp_delta ELSE field) = field
    BY <1>2
  <2> QED BY <1>2, <1>5, <1>6, <2>1 DEF ChunkInv, ChunkTypeOK
<1>9. e \in BOOLEAN /\ (e <=> long)
  BY <1>2
<1> HIDE DEF p, s, stamp, field, origin, long, takes, sum, whole, now, e
<1>10. ChunkTypeOK'
  <2>1. [time |-> time, stamp |-> stamp, origin |-> origin, length |-> length,
         left |-> length - now, fresh |-> FALSE] \in Peers
    BY <1>0, <1>2 DEF Peers
  <2> QED BY <2>1, <1>4, <1>5 DEF ChunkInv, ChunkTypeOK
<1>11. Agree(peer[c], chunk[c])'
  <2>1. peer'[c] = [time |-> time, stamp |-> stamp, origin |-> origin, length |-> length,
                    left |-> length - now, fresh |-> FALSE]
    BY <1>4 DEF ChunkInv, ChunkTypeOK
  <2>2. chunk'[c] \in Chunks
    BY <1>0, <1>2, <1>7, <1>8, <1>9 DEF Chunks
  <2>3. /\ peer'[c].time = time /\ peer'[c].stamp = stamp /\ peer'[c].origin = origin
        /\ peer'[c].length = length
        /\ peer'[c].left = length - now /\ peer'[c].fresh = FALSE
    BY <2>1
  <2>4. /\ chunk'[c].timestamp = (time - origin) % Wrap /\ chunk'[c].timestamp_delta = field
        /\ chunk'[c].payload_length = length /\ chunk'[c].fresh = FALSE
        /\ chunk'[c].extended_timestamp = e
        /\ chunk'[c].msg = (now # length)
        /\ chunk'[c].size = IF now = length THEN 0 ELSE now
    BY <1>8
  <2>5. chunk'[c].extended_timestamp <=> IsLong(peer'[c].stamp)
    BY <2>3, <2>4, <1>9 DEF long
  <2>6. chunk'[c].msg <=> now # length
    BY <2>4
  <2>7. now = length - (length - now)
    BY <1>0
  <2>8. /\ peer'[c].origin <= peer'[c].time
        /\ IsLong(peer'[c].stamp) => peer'[c].stamp = peer'[c].time - peer'[c].origin
    BY <2>3, <1>2 DEF long
  <2>9. chunk'[c].timestamp_delta = Least(peer'[c].stamp, Extended)
    BY <2>3, <2>4 DEF field
  <2> QED BY <2>2, <2>3, <2>4, <2>5, <2>6, <2>7, <2>8, <2>9, <1>0 DEF Agree
<1>12. ASSUME NEW d \in Cids \ {c} PROVE Agree(peer[d], chunk[d])'
  <2>1. peer'[d] = peer[d] /\ chunk'[d] = chunk[d]
    BY <1>4, <1>5 DEF ChunkInv, ChunkTypeOK
  <2> QED BY <2>1, <1>1 DEF Agree
<1> QED BY <1>5, <1>10, <1>11, <1>12 DEF ChunkInv, Agreement, StaysInSync

LEMMA NextChunkStep ==
    ASSUME ChunkInv, NEW c \in Cids, NEW same \in BOOLEAN, NextChunk(c, same)
    PROVE  ChunkInv'
<1> DEFINE p == peer[c]
           s == chunk[c]
           written == repeats /\ IsLong(p.stamp)
           next == IF written \/ same THEN p.stamp ELSE p.stamp + 1
           takes == Takes(s, 3, 0, next)
           time == (IF takes THEN next ELSE TimeOf(s, 3, 0)) % Wrap
           was == (p.time - p.origin) % Wrap
           delta == Least(p.stamp, Extended)
           now == Least(p.left, chunk_size)
           size == s.size + Least(s.payload_length - s.size, chunk_size)
           e == IsExtended(s, 3, 0)
<1>1. /\ p \in Peers /\ Agree(p, s) /\ p.left > 0
      /\ written \in BOOLEAN /\ repeats \in BOOLEAN
      /\ \A d \in Cids : Agree(peer[d], chunk[d])
  BY DEF ChunkInv, ChunkTypeOK, Agreement, NextChunk, IsLong
<1>2. /\ s \in Chunks /\ s.msg /\ p.left \in Nat /\ p.length \in Nat
      /\ s.size \in Nat /\ s.size = p.length - p.left /\ s.payload_length = p.length
      /\ s.timestamp_delta = delta /\ p.time \in Nat /\ p.stamp \in Nat /\ p.origin \in Nat
  BY <1>1 DEF Agree, Peers, Chunks
<1>3. /\ ~Refused(s, 3, 0)
      /\ e <=> IsLong(p.stamp)
      /\ written => takes
      /\ takes /\ ~written => IsLong(p.stamp) /\ (same \/ p.stamp % Wrap = 0)
      /\ takes = written => time = was
  BY <1>1, NextIsRead
<1>4. e \in BOOLEAN
  BY <1>2 DEF IsExtended, Chunks
<1>5. /\ peer' = [peer EXCEPT ![c].left = p.left - now]
      /\ looks' = (~written /\ same)
      /\ UNCHANGED <<repeats, chunk_size>>
  BY DEF NextChunk
<1>6. /\ sync' = IF takes = written THEN "ok" ELSE "lost"
      /\ chunk' = [chunk EXCEPT ![c] =
            [timestamp |-> time, timestamp_delta |-> s.timestamp_delta,
             payload_length |-> s.payload_length, extended_timestamp |-> e,
             fresh |-> FALSE, msg |-> ~(size = s.payload_length),
             size |-> IF size = s.payload_length THEN 0 ELSE size]]
  <2>1. Read(c, 3, 0, 0, written, next)
    BY DEF NextChunk
  <2>2. /\ sync' = IF takes = written THEN "ok" ELSE "lost"
        /\ chunk' = [chunk EXCEPT ![c] =
              [timestamp |-> time,
               timestamp_delta |-> IF 3 = 3 THEN s.timestamp_delta ELSE 0,
               payload_length |-> IF 3 \in {0, 1} THEN 0 ELSE s.payload_length,
               extended_timestamp |-> e,
               fresh |-> FALSE,
               msg |-> ~(s.size + Least((IF 3 \in {0, 1} THEN 0 ELSE s.payload_length) - s.size,
                                        chunk_size)
                         = IF 3 \in {0, 1} THEN 0 ELSE s.payload_length),
               size |-> IF s.size + Least((IF 3 \in {0, 1} THEN 0 ELSE s.payload_length) - s.size,
                                          chunk_size)
                           = IF 3 \in {0, 1} THEN 0 ELSE s.payload_length
                        THEN 0
                        ELSE s.size + Least((IF 3 \in {0, 1} THEN 0 ELSE s.payload_length) - s.size,
                                            chunk_size)]]
    BY <2>1, <1>3, Zenon DEF Read
  <2>3. (IF 3 \in {0, 1} THEN 0 ELSE s.payload_length) = s.payload_length
    OBVIOUS
  <2>4. (IF 3 = 3 THEN s.timestamp_delta ELSE 0) = s.timestamp_delta
    OBVIOUS
  <2> QED BY <2>2, <2>3, <2>4, Zenon
<1>7. /\ chunk_size \in Nat \ {0} /\ now \in Nat /\ now <= p.left
      /\ size = p.length - (p.left - now) /\ now > 0
  BY <1>1, <1>2, ChunkAssumption DEF ChunkInv, ChunkTypeOK, Least
<1> HIDE DEF p, s, written, next, takes, time, was, delta, now, size, e
<1>8. ChunkTypeOK'
  <2>1. [p EXCEPT !.left = p.left - now] \in Peers
    BY <1>1, <1>2, <1>7 DEF Peers
  <2>2. peer' \in [Cids -> Peers]
    BY <2>1, <1>5 DEF ChunkInv, ChunkTypeOK, p
  <2> QED BY <2>2, <1>1, <1>5, <1>6 DEF ChunkInv, ChunkTypeOK
<1>9. ASSUME takes = written PROVE Agree(peer[c], chunk[c])'
  <2>1. /\ peer'[c].time = p.time /\ peer'[c].stamp = p.stamp /\ peer'[c].origin = p.origin
        /\ peer'[c].length = p.length
        /\ peer'[c].left = p.left - now /\ peer'[c].fresh = p.fresh
    BY <1>1, <1>5 DEF ChunkInv, ChunkTypeOK, Peers, p
  <2>2. chunk'[c] = [timestamp |-> time, timestamp_delta |-> delta,
                     payload_length |-> p.length, extended_timestamp |-> e,
                     fresh |-> FALSE, msg |-> ~(size = p.length),
                     size |-> IF size = p.length THEN 0 ELSE size]
    BY <1>2, <1>6 DEF ChunkInv, ChunkTypeOK
  <2>3. time \in Nat /\ time = was
    <3>1. Wrap \in Nat \ {0} /\ p.time - p.origin \in Int
      BY <1>2, ChunkAssumption
    <3>2. was \in 0 .. Wrap - 1
      BY <3>1, Quotient DEF was
    <3> QED BY <3>1, <3>2, <1>3, <1>9
  <2>4. size \in Nat /\ p.left - now \in Nat /\ (size = p.length <=> p.left - now = 0)
    BY <1>2, <1>7
  <2>10. delta \in Nat
    BY <1>2, ChunkAssumption DEF delta, Least
  <2>5. chunk'[c] \in Chunks
    BY <2>2, <2>3, <2>4, <2>10, <1>2, <1>4 DEF Chunks
  <2>6. /\ chunk'[c].timestamp = time /\ chunk'[c].timestamp_delta = delta
        /\ chunk'[c].payload_length = p.length /\ chunk'[c].fresh = FALSE
        /\ chunk'[c].extended_timestamp = e
        /\ chunk'[c].msg = ~(size = p.length)
        /\ chunk'[c].size = IF size = p.length THEN 0 ELSE size
    BY <2>2
  <2>7. p.fresh = FALSE
    BY <1>1, <1>2 DEF Agree, Peers
  <2>8. chunk'[c].msg <=> p.left - now > 0
    <3>1. size # p.length <=> p.left - now > 0
      BY <2>4
    <3> QED BY <2>6, <3>1
  <2>9. chunk'[c].size = IF chunk'[c].msg THEN p.length - (p.left - now) ELSE 0
    BY <2>4, <2>6, <1>7
  <2>11. /\ p.origin <= p.time
         /\ IsLong(p.stamp) => p.stamp = p.time - p.origin
    BY <1>1 DEF Agree
  <2> QED BY <2>1, <2>3, <2>5, <2>6, <2>7, <2>8, <2>9, <2>11, <1>3 DEF Agree, was, delta
<1>10. ASSUME NEW d \in Cids \ {c} PROVE Agree(peer[d], chunk[d])'
  <2>1. peer'[d] = peer[d] /\ chunk'[d] = chunk[d]
    BY <1>5, <1>6 DEF ChunkInv, ChunkTypeOK
  <2> QED BY <2>1, <1>1 DEF Agree
<1>11. Agreement'
  BY <1>6, <1>9, <1>10 DEF Agreement
<1>12. StaysInSync'
  <2>1. sync' # "error"
    BY <1>6
  <2>2. ASSUME sync' = "lost"
        PROVE  ~repeats' /\ (looks' \/ \E d \in Cids : /\ IsLong(peer'[d].stamp)
                                                       /\ peer'[d].stamp % Wrap = 0)
    <3>1. takes # written
      BY <2>2, <1>6
    <3>2. takes /\ ~written
      BY <3>1, <1>3, <1>1 DEF takes, Takes
    <3>3. IsLong(p.stamp) /\ (same \/ p.stamp % Wrap = 0)
      BY <3>2, <1>3
    <3>4. ~repeats'
      BY <3>2, <3>3, <1>5 DEF written
    <3>5. peer'[c].stamp = p.stamp
      BY <1>1, <1>5 DEF ChunkInv, ChunkTypeOK, Peers, p
    <3> QED BY <3>2, <3>3, <3>4, <3>5, <1>5
  <2> QED BY <2>1, <2>2 DEF StaysInSync
<1> QED BY <1>8, <1>11, <1>12 DEF ChunkInv

LEMMA OtherSteps ==
    ASSUME ChunkInv, (\E v \in ChunkSizes : SetChunkSize(v)) \/ UNCHANGED chunkVars
    PROVE  ChunkInv'
<1>1. /\ UNCHANGED <<repeats, peer, chunk, looks, sync>>
      /\ chunk_size' \in ChunkSizes
  BY DEF SetChunkSize, chunkVars, ChunkInv, ChunkTypeOK
<1>2. ChunkTypeOK'
  BY <1>1 DEF ChunkInv, ChunkTypeOK
<1>3. Agreement'
  BY <1>1 DEF ChunkInv, Agreement, Agree
<1>4. StaysInSync'
  BY <1>1 DEF ChunkInv, StaysInSync
<1> QED BY <1>2, <1>3, <1>4 DEF ChunkInv

(* The agreement of reader and peer is kept by every chunk.                     *)
THEOREM AgreementIsKept == ChunkSpec => []ChunkInv
<1>1. ChunkInv /\ [ChunkNext]_chunkVars => ChunkInv'
  BY FirstChunkStep, NextChunkStep, OtherSteps DEF ChunkNext
<1> QED BY InitAgrees, <1>1, PTL DEF ChunkSpec

(* For any interleaving of any number of chunk streams, any shortening of the   *)
(* headers a peer is allowed and any change of the chunk size: while the reader  *)
(* is in step, the messages it makes have the lengths that were written, and    *)
(* the times counted from the message before the last extended difference       *)
(* (recv_interlaced_message).                                                *)
THEOREM MessagesAreThePeers == ChunkSpec => []MessagesArrive
<1>1. ChunkInv => MessagesArrive
  <2> SUFFICES ASSUME ChunkInv, sync = "ok", NEW c \in Cids
               PROVE  /\ chunk[c].timestamp = (peer[c].time - peer[c].origin) % Wrap
                      /\ chunk[c].payload_length = peer[c].length
                      /\ chunk[c].msg <=> peer[c].left > 0
                      /\ chunk[c].msg => chunk[c].payload_length - chunk[c].size = peer[c].left
    BY DEF MessagesArrive
  <2>1. Agree(peer[c], chunk[c]) /\ peer[c] \in Peers
    BY DEF ChunkInv, Agreement, ChunkTypeOK
  <2>2. peer[c].length \in Nat /\ peer[c].left \in Nat
    BY <2>1 DEF Peers
  <2> QED BY <2>1, <2>2 DEF Agree
<1> QED BY <1>1, AgreementIsKept, PTL

(* No legal chunk is refused, and the reader loses its step only to a peer that  *)
(* leaves out the extended timestamp of later chunks, at a payload that begins    *)
(* like the time of its message or at a time that is a multiple of 2^31          *)
(* (read_message_header).                                                    *)
THEOREM ReaderStaysInSync == ChunkSpec => []StaysInSync
<1>1. ChunkInv => StaysInSync
  BY DEF ChunkInv
<1> QED BY <1>1, AgreementIsKept, PTL
=============================================================================

-------------------------- MODULE Timestamps_proofs --------------------------
(***************************************************************************)
(* Proofs about MixQueue and Timestamps.  First the queue alone, for any    *)
(* limit and any times: the counters are exact, and what is released with    *)
(* both tracks present comes in order.  Then the queue in front of a player's *)
(* jitter correction: it is the same queue, and the corrected clock runs with *)
(* the publisher's.                                                         *)
(***************************************************************************)
EXTENDS Timestamps, TLAPS, FiniteSetTheorems

(* A set of naturals that is not empty has a least element. *)
LEMMA MinNat ==
    ASSUME NEW S, S \subseteq Nat, S # {}
    PROVE  \E x \in S : \A y \in S : x <= y
<1>1. PICK m \in S : TRUE
  OBVIOUS
<1> DEFINE D == {n \in Nat : \A y \in S : n <= y}
           c == Cardinality(D)
<1>2. IsFiniteSet(D)
  <2>1. D \in SUBSET Nat /\ \A n \in D : n <= m
    BY <1>1
  <2> QED BY <1>1, <2>1, FS_BoundedSetOfNaturals
<1>3. c \in Nat
  BY <1>2, FS_CardinalityType
<1>4. \A n \in D : 0 .. n \subseteq D
  OBVIOUS
<1>5. 0 \in D
  OBVIOUS
<1>a. \A n \in Nat : (\A y \in S : n <= y) <=> n \in D
  OBVIOUS
<1>b. D \subseteq Nat
  OBVIOUS
<1> HIDE DEF D, c
<1>6. c \notin D
  <2> SUFFICES ASSUME c \in D PROVE FALSE
    OBVIOUS
  <2>1. Cardinality(0 .. c) = c + 1
    BY <1>3, FS_Interval, SMT
  <2>2. 0 .. c \in SUBSET D
    BY <1>4
  <2>3. Cardinality(0 .. c) <= c
    BY <1>2, <2>2, FS_Subset DEF c
  <2> QED BY <1>3, <2>1, <2>3
<1>7. D \subseteq 0 .. (c - 1)
  <2> SUFFICES ASSUME NEW n \in D PROVE n \in 0 .. (c - 1)
    OBVIOUS
  <2>1. n < c
    BY <1>3, <1>4, <1>6, <1>b
  <2> QED BY <2>1, <1>3, <1>b
<1>8. c - 1 \in D
  <2>1. c >= 1
    BY <1>3, <1>5, <1>7
  <2>2. IsFiniteSet(0 .. (c-1)) /\ Cardinality(0 .. (c - 1)) = c
    BY <1>3, <2>1, FS_Interval
  <2>3. D = 0 .. (c - 1)
    BY <1>7, <2>2, FS_Subset DEF c
  <2> QED BY <2>1, <2>3, <1>3
<1>9. c - 1 \in S
  <2> SUFFICES ASSUME c - 1 \notin S PROVE FALSE
    OBVIOUS
  <2>1. \A y \in S : c <= y
    BY <1>8, <1>3, <1>a
  <2> QED BY <2>1, <1>3, <1>6, <1>a
<1> QED BY <1>8, <1>9, <1>a, <1>b

(* begin() of a multimap that is not empty is one of its messages, and none  *)
(* of them is before it.                                                     *)
LEMMA BeginIsLeast ==
    ASSUME NEW s, s # {}, \A m \in s : m.ts \in Nat /\ m.nth \in Nat
    PROVE  Begin(s) \in s /\ \A n \in s : Begin(s).ts <= n.ts
<1> DEFINE T == {m.ts : m \in s}
<1>1. PICK t \in T : \A u \in T : t <= u
  BY MinNat
<1> DEFINE N == {m.nth : m \in {x \in s : x.ts = t}}
<1>2. PICK k \in N : \A l \in N : k <= l
  <2>1. N \subseteq Nat /\ N # {}
    BY <1>1
  <2> HIDE DEF N
  <2> QED BY <2>1, MinNat
<1>3. PICK m \in s : m.ts = t /\ m.nth = k
  BY <1>2
<1>4. \A n \in s : Before(m, n)
  <2> SUFFICES ASSUME NEW n \in s PROVE Before(m, n)
    OBVIOUS
  <2>1. CASE n.ts = t
    BY <1>2, <1>3, <2>1 DEF Before
  <2>2. CASE n.ts # t
    BY <1>1, <1>3, <2>2 DEF Before
  <2> QED BY <2>1, <2>2
<1>5. Begin(s) \in s /\ \A n \in s : Before(Begin(s), n)
  BY <1>3, <1>4 DEF Begin
<1> QED BY <1>5 DEF Before

(* The invariant behind MonotoneMix: after a pop made with both tracks held,  *)
(* nothing that is held, and nothing that can still arrive in order, is older *)
(* than what was popped.                                                      *)
NothingOlder ==
    ordered =>
      /\ \A m \in msgs : m.ts <= latest[m.kind]
      /\ popped.mixed => /\ \A m \in msgs : popped.ts <= m.ts
                         /\ \A k \in Kinds : popped.ts <= latest[k]

Numbered == \A m \in msgs : m.nth <= arrivals

IInv == TypeOK /\ IsFiniteSet(msgs) /\ Numbered /\ CountersAgree /\ NothingOlder

(* Adding or removing a message changes the two counts as the counters do.   *)
LEMMA HeldAdd ==
    ASSUME NEW s, IsFiniteSet(s), NEW m, m \notin s, NEW k
    PROVE  /\ IsFiniteSet(Held(s, k)) /\ Cardinality(Held(s, k)) \in Nat
           /\ Cardinality(Held(s \cup {m}, k)) =
                 Cardinality(Held(s, k)) + (IF m.kind = k THEN 1 ELSE 0)
<1>1. IsFiniteSet(Held(s, k))
  BY FS_Subset DEF Held
<1>2. Cardinality(Held(s, k)) \in Nat
  BY <1>1, FS_CardinalityType
<1>3. CASE m.kind = k
  <2>1. Held(s \cup {m}, k) = Held(s, k) \cup {m} /\ m \notin Held(s, k)
    BY <1>3 DEF Held
  <2> QED BY <1>1, <1>2, <1>3, <2>1, FS_AddElement
<1>4. CASE m.kind # k
  <2>1. Held(s \cup {m}, k) = Held(s, k)
    BY <1>4 DEF Held
  <2> QED BY <1>1, <1>2, <1>4, <2>1
<1> QED BY <1>1, <1>2, <1>3, <1>4

LEMMA HeldRemove ==
    ASSUME NEW s, IsFiniteSet(s), NEW m \in s, NEW k
    PROVE  Cardinality(Held(s \ {m}, k)) =
              Cardinality(Held(s, k)) - (IF m.kind = k THEN 1 ELSE 0)
<1> DEFINE r == s \ {m}
<1>1. IsFiniteSet(r) /\ m \notin r /\ r \cup {m} = s
  BY FS_RemoveElement
<1> HIDE DEF r
<1>2. /\ Cardinality(Held(r, k)) \in Nat
      /\ Cardinality(Held(r \cup {m}, k)) =
            Cardinality(Held(r, k)) + (IF m.kind = k THEN 1 ELSE 0)
  BY <1>1, HeldAdd
<1>3. Cardinality(Held(r, k)) = Cardinality(Held(s, k)) - (IF m.kind = k THEN 1 ELSE 0)
  BY <1>1, <1>2
<1> QED BY <1>3 DEF r

THEOREM InductiveInit == Init => IInv
<1> SUFFICES ASSUME Init PROVE IInv
  OBVIOUS
<1>1. TypeOK
  BY MixAssumption DEF Init, TypeOK, Kinds, Time
<1>2. IsFiniteSet(msgs) /\ CountersAgree
  <2>1. \A k : Held(msgs, k) = {}
    BY DEF Init, Held
  <2> QED BY <2>1, FS_EmptySet DEF Init, CountersAgree
<1>3. Numbered /\ NothingOlder
  BY DEF Init, Numbered, NothingOlder, Kinds
<1> QED BY <1>1, <1>2, <1>3 DEF IInv

(* One arrival keeps the invariant, and a pop that follows a mixed one does   *)
(* not go back in time.                                                      *)
LEMMA ArriveStep ==
    ASSUME IInv, NEW kind \in Kinds, NEW ts \in Time, Arrive(kind, ts)
    PROVE  IInv' /\ (ordered' /\ popped.mixed => popped'.ts >= popped.ts)
<1> DEFINE new  == [kind |-> kind, ts |-> ts, nth |-> arrivals + 1]
           held == msgs \cup {new}
           v    == nb_videos + IsVideo(new)
           a    == nb_audios + IsAudio(new)
           out  == Begin(held)
<1> USE MixAssumption
<1>1. new \in Msg /\ new \notin msgs /\ new.kind = kind /\ new.ts = ts /\ new.nth = arrivals + 1
  BY DEF IInv, TypeOK, Numbered, Arrive, Msg
<1>2. held \subseteq Msg /\ IsFiniteSet(held) /\ held # {}
  BY <1>1, FS_AddElement DEF IInv, TypeOK
<1>3. \A m \in Msg : m.kind \in Kinds /\ m.ts \in Nat /\ m.ts \in Time /\ m.nth \in Nat
  BY DEF Msg, Time
<1>4. out \in held /\ \A n \in held : out.ts <= n.ts
  BY <1>2, <1>3, BeginIsLeast
<1>5. /\ v = Cardinality(Held(held, "video")) /\ v \in Nat
      /\ a = Cardinality(Held(held, "audio")) /\ a \in Nat
  BY <1>1, HeldAdd DEF IInv, CountersAgree, Kinds, IsVideo, IsAudio
<1>6. /\ ordered' = (ordered /\ latest[kind] <= ts)
      /\ latest' = [latest EXCEPT ![kind] = ts]
      /\ arrivals' = arrivals + 1 /\ arrivals < MaxArrivals
  BY DEF Arrive
<1>7. /\ latest \in [Kinds -> Time] /\ \A k \in Kinds : latest[k] \in Nat
      /\ popped \in [ts : Time, mixed : BOOLEAN] /\ popped.ts \in Nat
      /\ arrivals \in Nat /\ ts \in Nat
  BY DEF IInv, TypeOK, Time
<1>8. \A m \in held : m.nth <= arrivals'
  BY <1>1, <1>2, <1>3, <1>6, <1>7 DEF IInv, Numbered
<1>9. ordered' => /\ \A m \in held : m.ts <= latest'[m.kind]
                  /\ popped.mixed => /\ \A m \in held : popped.ts <= m.ts
                                     /\ \A k \in Kinds : popped.ts <= latest'[k]
  <2> SUFFICES ASSUME ordered'
               PROVE  /\ \A m \in held : m.ts <= latest'[m.kind]
                      /\ popped.mixed => /\ \A m \in held : popped.ts <= m.ts
                                         /\ \A k \in Kinds : popped.ts <= latest'[k]
    OBVIOUS
  <2>1. ordered /\ latest[kind] <= ts /\ NothingOlder
    BY <1>6 DEF IInv
  <2>2. \A k \in Kinds : latest'[k] \in Nat /\ latest[k] <= latest'[k]
    BY <1>6, <1>7, <2>1
  <2>3. latest'[kind] = ts
    BY <1>6, <1>7
  <2>4. \A m \in msgs : m.kind \in Kinds /\ m.ts \in Nat
    BY <1>3 DEF IInv, TypeOK
  <2>5. \A m \in msgs : m.ts <= latest'[m.kind]
    BY <1>7, <2>1, <2>2, <2>4 DEF NothingOlder
  <2>6. popped.mixed => popped.ts <= latest[kind] /\ popped.ts <= ts
    BY <1>7, <2>1 DEF NothingOlder
  <2> QED BY <1>1, <1>7, <2>1, <2>2, <2>3, <2>5, <2>6 DEF NothingOlder
<1>10. latest' \in [Kinds -> Time] /\ ordered' \in BOOLEAN /\ arrivals' \in 0 .. MaxArrivals
  BY <1>6, <1>7 DEF IInv, TypeOK
<1> HIDE DEF new, held, v, a, out
<1>11. CASE /\ MixOk(v, a)
            /\ msgs' = held \ {out}
            /\ nb_videos' = v - IsVideo(out)
            /\ nb_audios' = a - IsAudio(out)
            /\ popped' = [ts |-> out.ts, mixed |-> Mixed(v, a)]
  <2>1. /\ Cardinality(Held(msgs', "video")) = nb_videos'
        /\ Cardinality(Held(msgs', "audio")) = nb_audios'
    BY <1>2, <1>3, <1>4, <1>5, <1>11, HeldRemove DEF IsVideo, IsAudio, Kinds
  <2>2. /\ nb_videos' \in Nat /\ nb_audios' \in Nat
        /\ msgs' \subseteq Msg /\ IsFiniteSet(msgs')
    <3>1. msgs' \subseteq Msg /\ IsFiniteSet(msgs')
      BY <1>2, <1>11, FS_RemoveElement
    <3>2. \A k : Cardinality(Held(msgs', k)) \in Nat
      BY <3>1, FS_Subset, FS_CardinalityType DEF Held
    <3> QED BY <2>1, <3>1, <3>2
  <2>3. popped' \in [ts : Time, mixed : BOOLEAN] /\ popped'.ts = out.ts /\ out.ts \in Nat
        /\ popped'.mixed = Mixed(v, a)
    BY <1>2, <1>3, <1>4, <1>11 DEF Mixed
  <2>4. TypeOK'
    BY <1>10, <2>2, <2>3 DEF TypeOK
  <2>5. Numbered' /\ CountersAgree'
    BY <1>8, <1>11, <2>1 DEF Numbered, CountersAgree
  <2>6. NothingOlder'
    <3> SUFFICES ASSUME ordered', popped'.mixed
                 PROVE  \A k \in Kinds : popped'.ts <= latest'[k]
      BY <1>4, <1>9, <1>11, <2>3 DEF NothingOlder
    <3>1. v >= 1 /\ a >= 1
      BY <2>3 DEF Mixed
    <3>2. \A k \in Kinds : Held(held, k) # {}
      <4>1. Held(held, "video") # {} /\ Held(held, "audio") # {}
        BY <1>5, <3>1, FS_EmptySet
      <4> QED BY <4>1 DEF Kinds
    <3> TAKE k \in Kinds
    <3>3. PICK m \in held : m.kind = k
      BY <3>2 DEF Held
    <3>4. m.ts \in Nat /\ out.ts <= m.ts /\ m.ts <= latest'[k]
      BY <1>2, <1>3, <1>4, <1>9, <3>3
    <3>5. latest'[k] \in Nat
      BY <1>10 DEF Time
    <3> QED BY <2>3, <3>4, <3>5
  <2>7. ordered' /\ popped.mixed => popped'.ts >= popped.ts
    BY <1>4, <1>7, <1>9, <2>3
  <2> QED BY <2>2, <2>4, <2>5, <2>6, <2>7 DEF IInv
<1>12. CASE /\ ~MixOk(v, a)
            /\ msgs' = held
            /\ nb_videos' = v
            /\ nb_audios' = a
            /\ UNCHANGED popped
  <2>1. TypeOK'
    BY <1>2, <1>5, <1>7, <1>10, <1>12 DEF TypeOK
  <2>2. Numbered' /\ CountersAgree' /\ IsFiniteSet(msgs)'
    BY <1>2, <1>5, <1>8, <1>12 DEF Numbered, CountersAgree
  <2>3. NothingOlder'
    BY <1>9, <1>12 DEF NothingOlder
  <2>4. popped'.ts >= popped.ts
    BY <1>7, <1>12
  <2> QED BY <2>1, <2>2, <2>3, <2>4 DEF IInv
<1> QED BY <1>11, <1>12 DEF Arrive, new, held, v, a, out

LEMMA ClearStep == ASSUME Clear PROVE IInv' /\ arrivals' = 0
<1>1. TypeOK'
  BY MixAssumption DEF Clear, TypeOK, Kinds, Time
<1>2. IsFiniteSet(msgs)' /\ CountersAgree'
  <2>1. \A k : Held(msgs', k) = {}
    BY DEF Clear, Held
  <2> QED BY <2>1, FS_EmptySet DEF Clear, CountersAgree
<1>3. Numbered' /\ NothingOlder'
  BY DEF Clear, Numbered, NothingOlder, Kinds
<1> QED BY <1>1, <1>2, <1>3 DEF IInv, Clear

LEMMA StutterStep == ASSUME IInv, UNCHANGED vars PROVE IInv'
BY DEF IInv, TypeOK, Numbered, CountersAgree, NothingOlder, vars

LEMMA CountersCount == Spec => [](TypeOK /\ CountersAgree)
<1>1. IInv /\ [Next]_vars => IInv'
  BY ArriveStep, ClearStep, StutterStep DEF Next
<1>2. IInv => TypeOK /\ CountersAgree
  BY DEF IInv
<1> QED BY <1>1, <1>2, InductiveInit, PTL DEF Spec

(* Two ordered tracks leave the queue interleaved in time, except right      *)
(* after a message was let out while the other track was missing.            *)
THEOREM MixIsMonotone == Spec => MonotoneMix
<1>1. IInv /\ [Next]_vars => IInv'
  BY ArriveStep, ClearStep, StutterStep DEF Next
<1>2. IInv /\ [Next]_vars
        => [ (ordered' /\ popped.mixed /\ arrivals' > arrivals)
             => popped'.ts >= popped.ts ]_vars
  <2> SUFFICES ASSUME IInv, Next, ordered', popped.mixed, arrivals' > arrivals
               PROVE  popped'.ts >= popped.ts
    OBVIOUS
  <2>1. ~Clear
    BY ClearStep DEF IInv, TypeOK
  <2> QED BY <2>1, ArriveStep DEF Next
<1> QED BY <1>1, <1>2, InductiveInit, PTL DEF Spec, MonotoneMix

LEMMA HeldSplit ==
    ASSUME NEW s, s \subseteq Msg, IsFiniteSet(s)
    PROVE  Cardinality(s) = Cardinality(Held(s, "video")) + Cardinality(Held(s, "audio"))
<1> DEFINE V == Held(s, "video")
           A == Held(s, "audio")
<1>1. IsFiniteSet(V) /\ IsFiniteSet(A)
  BY FS_Subset DEF Held
<1>2. s = V \cup A /\ V \cap A = {}
  BY DEF Held, Msg, Kinds
<1> HIDE DEF V, A
<1>3. Cardinality(V \cup A) = Cardinality(V) + Cardinality(A) - Cardinality(V \cap A)
  BY <1>1, FS_Union
<1>4. Cardinality(V) \in Nat /\ Cardinality(A) \in Nat
  BY <1>1, FS_CardinalityType
<1>5. Cardinality(s) = Cardinality(V) + Cardinality(A)
  BY <1>2, <1>3, <1>4, FS_EmptySet
<1> QED BY <1>5 DEF V, A

LEMMA MixDelay == Spec => []DelayBounded
<1> USE MixAssumption
<1>1. IInv /\ [Next]_vars => IInv'
  BY ArriveStep, ClearStep, StutterStep DEF Next
<1>2. Init => DelayBounded
  BY FS_EmptySet DEF Init, DelayBounded
<1>3. IInv /\ IInv' /\ DelayBounded /\ [Next]_vars => DelayBounded'
  <2> SUFFICES ASSUME IInv, IInv', DelayBounded, [Next]_vars PROVE DelayBounded'
    OBVIOUS
  <2>1. /\ Cardinality(msgs) = nb_videos + nb_audios
        /\ Cardinality(msgs') = nb_videos' + nb_audios'
    BY HeldSplit DEF IInv, TypeOK, CountersAgree
  <2>2. /\ nb_videos \in Nat /\ nb_audios \in Nat
        /\ nb_videos' \in Nat /\ nb_audios' \in Nat
    BY DEF IInv, TypeOK
  <2>3. ASSUME NEW kind \in Kinds, NEW ts \in Time, Arrive(kind, ts)
        PROVE  nb_videos' + nb_audios' < PureAV
    <3> DEFINE new  == [kind |-> kind, ts |-> ts, nth |-> arrivals + 1]
               v    == nb_videos + IsVideo(new)
               a    == nb_audios + IsAudio(new)
               out  == Begin(msgs \cup {new})
    <3>1. v \in Nat /\ a \in Nat /\ v + a = nb_videos + nb_audios + 1
      BY <2>2 DEF IsVideo, IsAudio, Kinds
    <3>2. out.kind \in Kinds
      <4> DEFINE held == msgs \cup {new}
      <4>1. held \subseteq Msg
        BY <2>3 DEF IInv, TypeOK, Msg, Arrive
      <4>2. \A m \in held : m.ts \in Nat /\ m.nth \in Nat /\ m.kind \in Kinds
        BY <4>1 DEF Msg, Time
      <4> QED BY <4>2, BeginIsLeast
    <3>3. IsVideo(out) + IsAudio(out) = 1 /\ IsVideo(out) \in Nat /\ IsAudio(out) \in Nat
      BY <3>2 DEF IsVideo, IsAudio, Kinds
    <3> HIDE DEF v, a, out
    <3>4. CASE nb_videos' = v - IsVideo(out) /\ nb_audios' = a - IsAudio(out)
      BY <2>1, <2>2, <3>1, <3>3, <3>4 DEF DelayBounded
    <3>5. CASE ~MixOk(v, a) /\ nb_videos' = v /\ nb_audios' = a
      BY <3>1, <3>5 DEF MixOk, Mixed
    <3> QED BY <2>3, <3>4, <3>5 DEF Arrive, v, a, out
  <2>4. CASE Clear
    BY <2>1, <2>4 DEF Clear, DelayBounded
  <2>5. CASE UNCHANGED vars
    BY <2>5 DEF vars, DelayBounded
  <2> QED BY <2>1, <2>3, <2>4, <2>5 DEF Next, DelayBounded
<1> QED BY <1>1, <1>2, <1>3, InductiveInit, PTL DEF Spec

(* In every reachable state pop() decides from exact counts, and the delay     *)
(* mix_correct adds is bounded whatever the publisher sends.                  *)
THEOREM QueueIsExact == Spec => [](TypeOK /\ QueueIsSound)
<1>1. CountersAgree /\ DelayBounded => QueueIsSound
  BY DEF QueueIsSound
<1> QED BY <1>1, CountersCount, MixDelay, PTL
-----------------------------------------------------------------------------

(* Every step is one of the queue or leaves it alone.                        *)
LEMMA StepOfQueue == [TimesNext]_timeVars => [Next]_vars
<1> SUFFICES ASSUME [TimesNext]_timeVars PROVE [Next]_vars
  OBVIOUS
<1>1. ASSUME NEW kind \in Kinds, NEW ts \in Time, Mix(kind, ts)
      PROVE  Next
  BY <1>1 DEF Mix, Next
<1>2. ASSUME NEW kind \in Kinds, NEW ts \in Time, Direct(kind, ts)
      PROVE  UNCHANGED vars
  BY <1>2 DEF Direct
<1>3. ASSUME Republish PROVE Next
  BY <1>3 DEF Republish, Next
<1>4. ASSUME NEW mix \in BOOLEAN, NEW a \in Algorithms, ReloadPlay(mix, a)
      PROVE  [Next]_vars
  BY <1>4 DEF ReloadPlay, Next
<1>5. CASE UNCHANGED timeVars
  BY <1>5 DEF timeVars
<1> QED BY <1>1, <1>2, <1>3, <1>4, <1>5 DEF TimesNext

(* The queue in front of a player is the queue of MixQueue.                  *)
THEOREM TimesImplementMixQueue == TimesSpec => Spec
<1>1. TimesInit => Init
  BY DEF TimesInit
<1> QED BY <1>1, StepOfQueue, PTL DEF TimesSpec, Spec
-----------------------------------------------------------------------------
(* What is given is the publisher's time and the shift, by each algorithm;     *)
(* with mix_correct the message given last is the one popped last.            *)
ClockOK ==
    shift # <<>> =>
      /\ ag = "full" => /\ last_pkt_correct_time >= 0
                        /\ shift = <<last_pkt_correct_time - last_pkt_time>>
                        /\ mix_correct => last_pkt_time = popped.ts
      /\ ag = "zero" => last_pkt_correct_time >= 0 /\ shift = <<0 - last_pkt_correct_time>>
      /\ ag = "off" => shift = <<0>>

TimesTypeOK ==
    /\ mix_correct \in BOOLEAN
    /\ ag \in Algorithms
    /\ last_pkt_time \in Time
    /\ last_pkt_correct_time \in Int /\ last_pkt_correct_time >= -1
    /\ steady \in BOOLEAN
    /\ seen \subseteq Kinds

HeldSeen == \A m \in msgs : m.kind \in seen

(* A track that is held has a next message near every one of them.             *)
Chained(s, last) ==
    \A m \in s : m.ts = last[m.kind]
                 \/ \E n \in s : n.kind = m.kind /\ m.ts < n.ts /\ n.ts <= m.ts + MaxJitter

(* The next message let out while both tracks are held is near the last one:   *)
(* it is held, or it is the next of a track of which nothing is.              *)
NextIsNear(s, last, who, ts) ==
    \/ \E m \in s : m.ts <= ts + MaxJitter
    \/ \E k \in who : last[k] <= ts /\ \A m \in s : m.kind # k

GapsOK ==
    ordered /\ steady =>
        /\ Chained(msgs, latest)
        /\ mix_correct /\ popped.mixed /\ shift # <<>> => NextIsNear(msgs, latest, seen, popped.ts)

TInv == IInv /\ TimesTypeOK /\ ClockOK /\ HeldSeen /\ GapsOK

(* correct() leaves the clock at the message it was given.                    *)
LEMMA CorrectSets ==
    ASSUME TimesTypeOK, NEW ts \in Time, Given(ts)
    PROVE  /\ last_pkt_time' \in Time
           /\ last_pkt_correct_time' \in Int /\ last_pkt_correct_time' >= -1
           /\ ag = "full" => /\ last_pkt_correct_time' >= 0
                             /\ shift' = <<last_pkt_correct_time' - ts>>
                             /\ last_pkt_time' = ts
           /\ ag = "zero" => /\ last_pkt_correct_time' >= 0
                             /\ shift' = <<0 - last_pkt_correct_time'>>
           /\ ag = "off" => shift' = <<0>>
<1> USE MixAssumption, JitterAssumption DEF TimesTypeOK, Time
<1>1. PICK t \in -MaxTime .. MaxGiven : Correct(ts, t)
  BY DEF Given
<1>2. t \in Int /\ ts \in Int /\ ts >= 0
  OBVIOUS
<1>3. CASE ag = "full"
  <2>1. Delta(ts) \in Int
    BY <1>2 DEF Delta, Since
  <2>2. /\ t = NotNegative(last_pkt_correct_time + Delta(ts))
        /\ last_pkt_correct_time' = t /\ last_pkt_time' = ts /\ shift' = <<t - ts>>
    BY <1>1, <1>3 DEF Correct
  <2>3. t >= 0
    BY <2>1, <2>2 DEF NotNegative
  <2> QED BY <1>2, <1>3, <2>2, <2>3
<1>4. CASE ag = "zero"
  <2>1. /\ last_pkt_correct_time' =
              IF last_pkt_correct_time = -1 THEN ts ELSE last_pkt_correct_time
        /\ t = ts - last_pkt_correct_time' /\ shift' = <<t - ts>>
        /\ last_pkt_time' = last_pkt_time
    BY <1>1, <1>4 DEF Correct
  <2>2. last_pkt_correct_time' \in Int /\ last_pkt_correct_time' >= 0
    BY <1>2, <2>1
  <2>3. t - ts = 0 - last_pkt_correct_time'
    BY <1>2, <2>1, <2>2
  <2> QED BY <1>4, <2>1, <2>2, <2>3
<1>5. CASE ag = "off"
  <2>1. t = ts /\ shift' = <<t - ts>> /\ UNCHANGED jitter
    BY <1>1, <1>5 DEF Correct
  <2> QED BY <1>2, <1>5, <2>1 DEF jitter
<1> QED BY <1>1, <1>3, <1>4, <1>5 DEF Correct

(* The clock advances by a difference that can be between two frames, so the    *)
(* shift stays.                                                               *)
LEMMA CorrectKeepsShift ==
    ASSUME TimesTypeOK, ClockOK, shift # <<>>, mix_correct, NEW ts \in Time, Given(ts),
           popped.ts \in Time, popped.ts <= ts, ts <= popped.ts + MaxJitter
    PROVE  shift' = shift
<1> USE MixAssumption, JitterAssumption DEF TimesTypeOK, Time
<1>1. PICK t \in -MaxTime .. MaxGiven : Correct(ts, t)
  BY DEF Given
<1>2. CASE ag = "full"
  <2>1. /\ last_pkt_time = popped.ts /\ last_pkt_correct_time >= 0
        /\ shift = <<last_pkt_correct_time - last_pkt_time>>
    BY <1>2 DEF ClockOK
  <2>2. Delta(ts) = ts - last_pkt_time /\ Delta(ts) >= 0
    BY <2>1 DEF Delta, Since
  <2>3. t = last_pkt_correct_time + (ts - last_pkt_time)
    BY <1>1, <1>2, <2>1, <2>2 DEF Correct, NotNegative
  <2>4. t - ts = last_pkt_correct_time - last_pkt_time
    BY <2>3
  <2> QED BY <1>1, <2>1, <2>4 DEF Correct
<1>3. CASE ag = "zero"
  <2>1. last_pkt_correct_time' = last_pkt_correct_time
    BY <1>1, <1>3 DEF Correct, ClockOK
  <2> QED BY <1>3, <2>1, CorrectSets DEF ClockOK
<1>4. CASE ag = "off"
  BY <1>4, CorrectSets DEF ClockOK
<1> QED BY <1>2, <1>3, <1>4 DEF Algorithms

(* A message that arrives is chained to those that are held.                   *)
LEMMA ChainAdd ==
    ASSUME NEW s, s \subseteq Msg, NEW last \in [Kinds -> Time],
           Chained(s, last), \A m \in s : m.kind \in seen,
           NEW new \in Msg, last[new.kind] <= new.ts,
           new.kind \in seen => new.ts - last[new.kind] <= MaxJitter
    PROVE  Chained(s \cup {new}, [last EXCEPT ![new.kind] = new.ts])
<1> USE MixAssumption, JitterAssumption DEF Msg, Time
<1> DEFINE last2 == [last EXCEPT ![new.kind] = new.ts]
<1>1. last2[new.kind] = new.ts /\ \A k \in Kinds : k # new.kind => last2[k] = last[k]
  OBVIOUS
<1>2. ASSUME NEW m \in s
      PROVE  \/ m.ts = last2[m.kind]
             \/ \E n \in s \cup {new} :
                  n.kind = m.kind /\ m.ts < n.ts /\ n.ts <= m.ts + MaxJitter
  <2>1. CASE m.ts = last[m.kind] /\ m.kind = new.kind
    <3>1. new.ts <= m.ts + MaxJitter /\ m.ts <= new.ts
      BY <1>2, <2>1
    <3> QED BY <1>1, <2>1, <3>1
  <2>2. CASE m.ts = last[m.kind] /\ m.kind # new.kind
    BY <1>1, <2>2
  <2>3. CASE m.ts # last[m.kind]
    BY <2>3 DEF Chained
  <2> QED BY <2>1, <2>2, <2>3
<1> HIDE DEF last2
<1>3. \A m \in s \cup {new} :
        \/ m.ts = last2[m.kind]
        \/ \E n \in s \cup {new} :
             n.kind = m.kind /\ m.ts < n.ts /\ n.ts <= m.ts + MaxJitter
  BY <1>1, <1>2
<1> QED BY <1>3 DEF Chained, last2

(* With both tracks held, the message let out is near the one before.          *)
LEMMA OutIsNear ==
    ASSUME NEW s, s \subseteq Msg, NEW last \in [Kinds -> Time], NEW ts \in Time,
           NextIsNear(s, last, seen, ts), NEW new \in Msg,
           new.kind \in seen => new.ts - last[new.kind] <= MaxJitter,
           NEW out \in s \cup {new}, \A m \in s \cup {new} : out.ts <= m.ts,
           \A k \in Kinds : \E m \in s \cup {new} : m.kind = k,
           seen \subseteq Kinds
    PROVE  out.ts <= ts + MaxJitter
<1> USE MixAssumption, JitterAssumption DEF Msg, Time
<1>1. CASE \E m \in s : m.ts <= ts + MaxJitter
  BY <1>1
<1>2. ASSUME NEW k \in seen, last[k] <= ts, \A m \in s : m.kind # k
      PROVE  out.ts <= ts + MaxJitter
  <2>1. new.kind = k
    BY <1>2
  <2>2. new.ts - last[k] <= MaxJitter /\ last[k] \in Nat /\ new.ts \in Nat /\ out.ts \in Nat
    BY <1>2, <2>1
  <2>3. out.ts <= new.ts
    OBVIOUS
  <2> QED BY <1>2, <2>2, <2>3
<1> QED BY <1>1, <1>2 DEF NextIsNear

(* What push() and pop() do with what is held.                                *)
LEMMA ArriveCases ==
    ASSUME IInv, NEW kind \in Kinds, NEW ts \in Time, Arrive(kind, ts),
           NEW new, new = [kind |-> kind, ts |-> ts, nth |-> arrivals + 1]
    PROVE  /\ new \in Msg /\ msgs \subseteq Msg
           /\ latest' = [latest EXCEPT ![kind] = ts]
           /\ ordered' = (ordered /\ latest[kind] <= ts)
           /\ \/ /\ ~Pops
                 /\ msgs' = msgs \cup {new}
                 /\ popped' = popped
              \/ /\ Pops
                 /\ \E out \in msgs \cup {new} :
                      /\ \A m \in msgs \cup {new} : out.ts <= m.ts
                      /\ msgs' = (msgs \cup {new}) \ {out}
                      /\ popped'.ts = out.ts
                      /\ popped'.mixed =>
                           \A k \in Kinds : \E m \in msgs \cup {new} : m.kind = k
<1> DEFINE held == msgs \cup {new}
           v    == nb_videos + IsVideo(new)
           a    == nb_audios + IsAudio(new)
           out  == Begin(held)
<1> USE MixAssumption
<1>1. new \in Msg /\ new \notin msgs /\ new.kind = kind /\ msgs \subseteq Msg
  BY DEF IInv, TypeOK, Numbered, Arrive, Msg
<1>2. held \subseteq Msg /\ IsFiniteSet(held) /\ held # {}
  BY <1>1, FS_AddElement DEF IInv, TypeOK
<1>3. \A m \in Msg : m.kind \in Kinds /\ m.ts \in Nat /\ m.nth \in Nat
  BY DEF Msg, Time
<1>4. out \in held /\ \A m \in held : out.ts <= m.ts
  BY <1>2, <1>3, BeginIsLeast
<1>5. /\ v = Cardinality(Held(held, "video")) /\ v \in Nat
      /\ a = Cardinality(Held(held, "audio")) /\ a \in Nat
  BY <1>1, HeldAdd DEF IInv, CountersAgree, Kinds, IsVideo, IsAudio
<1>6. Mixed(v, a) => \A k \in Kinds : \E m \in held : m.kind = k
  <2> SUFFICES ASSUME Mixed(v, a), NEW k \in Kinds PROVE \E m \in held : m.kind = k
    OBVIOUS
  <2>1. Cardinality(Held(held, k)) # 0
    BY <1>5 DEF Mixed, Kinds
  <2>2. Held(held, k) # {}
    BY <2>1, FS_EmptySet
  <2> QED BY <2>2 DEF Held
<1>7. nb_videos \in Nat /\ nb_audios \in Nat /\ v + a = nb_videos + nb_audios + 1
  BY <1>1 DEF IInv, TypeOK, IsVideo, IsAudio, Kinds
<1>8. IsVideo(out) + IsAudio(out) = 1 /\ IsVideo(out) \in Nat /\ IsAudio(out) \in Nat
  BY <1>2, <1>3, <1>4 DEF IsVideo, IsAudio, Kinds
<1>9. /\ latest' = [latest EXCEPT ![kind] = ts]
      /\ ordered' = (ordered /\ latest[kind] <= ts)
  BY DEF Arrive
<1>10. \/ /\ msgs' = held \ {out}
          /\ nb_videos' = v - IsVideo(out)
          /\ nb_audios' = a - IsAudio(out)
          /\ popped' = [ts |-> out.ts, mixed |-> Mixed(v, a)]
       \/ /\ msgs' = held
          /\ nb_videos' = v
          /\ nb_audios' = a
          /\ popped' = popped
  BY DEF Arrive
<1> HIDE DEF v, a, out
<1>11. CASE /\ msgs' = held \ {out}
            /\ nb_videos' = v - IsVideo(out)
            /\ nb_audios' = a - IsAudio(out)
            /\ popped' = [ts |-> out.ts, mixed |-> Mixed(v, a)]
  <2>1. nb_videos' + nb_audios' = v + a - (IsVideo(out) + IsAudio(out))
    <3>1. ASSUME NEW p \in Nat, NEW q \in Nat, NEW x \in Nat, NEW y \in Nat
          PROVE  (p - x) + (q - y) = p + q - (x + y)
      OBVIOUS
    <3> QED BY <1>5, <1>8, <1>11, <3>1
  <2>a. Pops
    BY <1>5, <1>7, <1>8, <2>1 DEF Pops
  <2>2. popped'.ts = out.ts /\ (popped'.mixed => Mixed(v, a))
    BY <1>11
  <2> QED BY <1>1, <1>4, <1>6, <1>9, <1>11, <2>a, <2>2
<1>12. CASE msgs' = held /\ nb_videos' = v /\ nb_audios' = a /\ popped' = popped
  <2>1. ~Pops
    BY <1>5, <1>7, <1>12 DEF Pops
  <2> QED BY <1>1, <1>9, <1>12, <2>1
<1> QED BY <1>10, <1>11, <1>12

(* A step of the queue with mix_correct, and the message it lets out.          *)
LEMMA MixStep ==
    ASSUME TInv, NEW kind \in Kinds, NEW ts \in Time, Mix(kind, ts)
    PROVE  /\ TInv'
           /\ (/\ Pops /\ popped.mixed /\ popped'.mixed
               /\ ordered' /\ steady' /\ shift # <<>>) => shift' = shift
<1> DEFINE new == [kind |-> kind, ts |-> ts, nth |-> arrivals + 1]
           held == msgs \cup {new}
<1> USE MixAssumption, JitterAssumption DEF TimesTypeOK
<1>1. IInv' /\ (ordered' /\ popped.mixed => popped'.ts >= popped.ts)
  BY ArriveStep DEF TInv, Mix
<1>2. /\ new \in Msg /\ msgs \subseteq Msg
      /\ latest' = [latest EXCEPT ![new.kind] = new.ts]
      /\ ordered' = (ordered /\ latest[new.kind] <= new.ts)
      /\ \/ /\ ~Pops /\ msgs' = held /\ popped' = popped
         \/ /\ Pops
            /\ \E out \in held :
                 /\ \A m \in held : out.ts <= m.ts
                 /\ msgs' = held \ {out}
                 /\ popped'.ts = out.ts
                 /\ popped'.mixed => \A k \in Kinds : \E m \in held : m.kind = k
  BY ArriveCases DEF TInv, Mix
<1>3. new.kind = kind /\ new.ts = ts
  OBVIOUS
<1>4. /\ mix_correct /\ seen' = seen \cup {new.kind}
      /\ steady' = (steady /\ (new.kind \in seen => new.ts - latest[new.kind] <= MaxJitter))
      /\ mix_correct' = mix_correct /\ ag' = ag
      /\ Pops => Given(popped'.ts)
      /\ ~Pops => UNCHANGED <<jitter, shift>>
  BY DEF Mix
<1>5. popped.ts \in Time /\ popped'.ts \in Time /\ latest \in [Kinds -> Time]
  BY <1>1 DEF TInv, IInv, TypeOK
<1> HIDE DEF new
<1>6. TimesTypeOK'
  <2>1. seen' \subseteq Kinds /\ steady' \in BOOLEAN
    BY <1>3, <1>4 DEF TInv
  <2>2. CASE Pops
    BY <1>4, <1>5, <2>1, <2>2, CorrectSets DEF TInv
  <2>3. CASE ~Pops
    BY <1>4, <2>1, <2>3 DEF TInv, jitter
  <2> QED BY <2>2, <2>3
<1>7. ClockOK'
  <2>1. CASE Pops
    BY <1>4, <1>5, <2>1, CorrectSets DEF TInv, ClockOK
  <2>2. CASE ~Pops
    BY <1>2, <1>4, <2>2 DEF TInv, ClockOK, jitter
  <2> QED BY <2>1, <2>2
<1>8. HeldSeen'
  BY <1>2, <1>4 DEF TInv, HeldSeen
<1>9. ordered' /\ steady' => Chained(held, latest')
  BY <1>2, <1>4, <1>5, ChainAdd DEF TInv, HeldSeen, GapsOK
<1>10. ordered' => \A m \in held : m.ts <= latest'[m.kind]
  <2> SUFFICES ASSUME ordered', NEW m \in held PROVE m.ts <= latest'[m.kind]
    OBVIOUS
  <2>a. ordered /\ latest[new.kind] <= new.ts
    BY <1>2, Zenon
  <2>1. CASE m = new
    BY <1>2, <1>5, <2>1 DEF Msg, Time
  <2>2. CASE m \in msgs
    <3>1. m.ts <= latest[m.kind] /\ m.kind \in Kinds /\ m.ts \in Int /\ new.ts \in Int
      BY <1>2, <2>a, <2>2 DEF TInv, IInv, NothingOlder, Msg, Time
    <3>2. CASE m.kind = new.kind
      BY <1>2, <1>5, <2>a, <3>1, <3>2 DEF Time, Msg
    <3>3. CASE m.kind # new.kind
      BY <1>2, <1>5, <3>1, <3>3
    <3> QED BY <3>2, <3>3
  <2> QED BY <2>1, <2>2
<1>11. GapsOK' /\ ((/\ Pops /\ popped.mixed /\ popped'.mixed
                    /\ ordered' /\ steady' /\ shift # <<>>) => shift' = shift)
  <2>1. CASE ~Pops
    <3>1. msgs' = held /\ popped' = popped /\ shift' = shift
      BY <1>2, <1>4, <2>1
    <3>2. ASSUME ordered', steady', popped.mixed, shift # <<>>
          PROVE  NextIsNear(held, latest', seen', popped.ts)
      <4>1. NextIsNear(msgs, latest, seen, popped.ts)
        BY <1>2, <1>4, <3>2 DEF TInv, GapsOK
      <4>2. CASE \E m \in msgs : m.ts <= popped.ts + MaxJitter
        BY <3>1, <4>2 DEF NextIsNear
      <4>3. ASSUME NEW k \in seen, latest[k] <= popped.ts, \A m \in msgs : m.kind # k
            PROVE  NextIsNear(held, latest', seen', popped.ts)
        <5>1. CASE k = new.kind
          <6>1. new.ts - latest[k] <= MaxJitter
            BY <1>4, <3>2, <5>1
          <6>2. new.ts \in Int /\ latest[k] \in Int /\ popped.ts \in Int
            BY <1>2, <1>5, <5>1 DEF Msg, Time
          <6>3. new.ts <= popped.ts + MaxJitter
            BY <4>3, <6>1, <6>2
          <6> QED BY <3>1, <6>3 DEF NextIsNear
        <5>2. CASE k # new.kind
          <6>1. latest'[k] = latest[k] /\ k \in seen'
            BY <1>2, <1>4, <1>5, <5>2 DEF TInv
          <6>2. \A m \in held : m.kind # k
            BY <4>3, <5>2
          <6> QED BY <3>1, <4>3, <6>1, <6>2 DEF NextIsNear
        <5> QED BY <5>1, <5>2
      <4> QED BY <4>1, <4>2, <4>3 DEF NextIsNear
    <3> QED BY <1>9, <2>1, <3>1, <3>2 DEF GapsOK, NextIsNear, Chained
  <2>2. ASSUME Pops, NEW out \in held, \A m \in held : out.ts <= m.ts,
               msgs' = held \ {out}, popped'.ts = out.ts,
               popped'.mixed => \A k \in Kinds : \E m \in held : m.kind = k
        PROVE  GapsOK' /\ ((/\ Pops /\ popped.mixed /\ popped'.mixed
                            /\ ordered' /\ steady' /\ shift # <<>>) => shift' = shift)
    <3>1. ASSUME ordered', steady'
          PROVE  Chained(msgs', latest') /\ NextIsNear(msgs', latest', seen', popped'.ts)
      <4>1. held \subseteq Msg /\ latest' \in [Kinds -> Time]
        BY <1>1, <1>2 DEF IInv, TypeOK
      <4>2. \A m \in held : m.kind \in seen' /\ m.ts <= latest'[m.kind]
        BY <1>4, <1>10, <3>1 DEF TInv, HeldSeen
      <4>3. \A m \in held : m.ts \in Int /\ m.kind \in Kinds
        BY <4>1 DEF Msg, Time
      <4>4. Chained(held, latest')
        BY <1>9, <3>1
      <4>5. Chained(held \ {out}, latest')
        <5> SUFFICES ASSUME NEW m \in held \ {out}, m.ts # latest'[m.kind]
                     PROVE  \E n \in held \ {out} :
                              n.kind = m.kind /\ m.ts < n.ts /\ n.ts <= m.ts + MaxJitter
          BY DEF Chained
        <5>1. PICK n \in held : n.kind = m.kind /\ m.ts < n.ts /\ n.ts <= m.ts + MaxJitter
          BY <4>4 DEF Chained
        <5>2. n # out
          BY <2>2, <4>3, <5>1
        <5> QED BY <5>1, <5>2
      <4>6. \/ \E m \in held \ {out} : m.ts <= out.ts + MaxJitter
            \/ latest'[out.kind] <= out.ts /\ \A m \in held \ {out} : m.kind # out.kind
        <5>1. CASE out.ts = latest'[out.kind]
          BY <4>2, <4>3, <5>1
        <5>2. CASE out.ts # latest'[out.kind]
          BY <4>3, <4>4, <5>2 DEF Chained
        <5> QED BY <5>1, <5>2
      <4> QED BY <2>2, <4>2, <4>5, <4>6 DEF NextIsNear
    <3>2. ASSUME popped.mixed, popped'.mixed, ordered', steady', shift # <<>>
          PROVE  shift' = shift
      <4>1. NextIsNear(msgs, latest, seen, popped.ts)
        BY <1>2, <1>4, <3>2 DEF TInv, GapsOK
      <4>2. out.ts <= popped.ts + MaxJitter
        <5>1. new.kind \in seen => new.ts - latest[new.kind] <= MaxJitter
          BY <1>4, <3>2
        <5>2. \A k \in Kinds : \E m \in held : m.kind = k
          BY <2>2, <3>2
        <5>3. seen \subseteq Kinds
          BY DEF TInv
        <5>4. new \in Msg /\ msgs \subseteq Msg
          BY <1>2
        <5>5. NextIsNear(msgs, latest, seen, popped.ts)
          BY <4>1
        <5> HIDE DEF held
        <5>6. out \in msgs \cup {new} /\ \A m \in msgs \cup {new} : out.ts <= m.ts
          BY <2>2 DEF held
        <5>7. \A k \in Kinds : \E m \in msgs \cup {new} : m.kind = k
          BY <5>2 DEF held
        <5> QED BY <1>5, <5>1, <5>3, <5>4, <5>5, <5>6, <5>7, OutIsNear
      <4>3. popped.ts <= popped'.ts
        BY <1>1, <1>5, <3>2 DEF Time
      <4> QED BY <1>4, <1>5, <2>2, <3>2, <4>2, <4>3, CorrectKeepsShift DEF TInv
    <3> QED BY <3>1, <3>2 DEF GapsOK
  <2> QED BY <1>2, <2>1, <2>2
<1> QED BY <1>1, <1>6, <1>7, <1>8, <1>11 DEF TInv

LEMMA ClearedIsFine == Clear /\ NewStream => HeldSeen' /\ GapsOK' /\ ClockOK'
BY DEF Clear, NewStream, HeldSeen, GapsOK, Chained, ClockOK

LEMMA TInvInit == TimesInit => TInv
<1> SUFFICES ASSUME TimesInit PROVE TInv
  OBVIOUS
<1>1. IInv
  BY InductiveInit DEF TimesInit
<1>2. TimesTypeOK
  BY MixAssumption DEF TimesInit, TimesTypeOK, Time
<1>3. HeldSeen /\ GapsOK /\ ClockOK
  BY DEF TimesInit, Init, HeldSeen, GapsOK, Chained, ClockOK
<1> QED BY <1>1, <1>2, <1>3 DEF TInv

(* Every other step starts afresh, or does not touch the queue.                *)
LEMMA TInvNext == TInv /\ [TimesNext]_timeVars => TInv'
<1> SUFFICES ASSUME TInv, [TimesNext]_timeVars PROVE TInv'
  OBVIOUS
<1>a. IInv'
  <2>1. [Next]_vars
    BY StepOfQueue
  <2> QED BY <2>1, ArriveStep, ClearStep, StutterStep DEF Next, TInv
<1>1. ASSUME NEW kind \in Kinds, NEW ts \in Time, Mix(kind, ts)
      PROVE  TInv'
  BY <1>1, MixStep
<1>2. ASSUME NEW kind \in Kinds, NEW ts \in Time, Direct(kind, ts)
      PROVE  TInv'
  <2>1. UNCHANGED <<vars, mix_correct, ag, seen, steady>> /\ ~mix_correct /\ Given(ts)
    BY <1>2 DEF Direct
  <2>2. TimesTypeOK' /\ ClockOK'
    BY <1>2, <2>1, CorrectSets DEF TInv, TimesTypeOK, ClockOK
  <2>3. HeldSeen' /\ GapsOK'
    BY <2>1 DEF TInv, HeldSeen, GapsOK, Chained, NextIsNear, vars
  <2> QED BY <1>a, <2>2, <2>3 DEF TInv
<1>3. ASSUME Republish PROVE TInv'
  <2>1. TimesTypeOK'
    BY <1>3 DEF Republish, NewStream, TInv, TimesTypeOK, jitter
  <2> QED BY <1>a, <1>3, <2>1, ClearedIsFine DEF Republish, TInv
<1>4. ASSUME NEW mix \in BOOLEAN, NEW a \in Algorithms, ReloadPlay(mix, a)
      PROVE  TInv'
  <2>1. TimesTypeOK'
    BY <1>4 DEF ReloadPlay, NewStream, TInv, TimesTypeOK, jitter
  <2>2. CASE mix = mix_correct
    <3>1. HeldSeen' /\ GapsOK' /\ ClockOK'
      BY <1>4, <2>2 DEF ReloadPlay, TInv, HeldSeen, GapsOK, Chained, ClockOK, vars
    <3> QED BY <1>a, <2>1, <3>1 DEF TInv
  <2>3. CASE mix # mix_correct
    BY <1>a, <1>4, <2>1, <2>3, ClearedIsFine DEF ReloadPlay, TInv
  <2> QED BY <2>2, <2>3
<1>5. CASE UNCHANGED timeVars
  <2>1. TimesTypeOK' /\ ClockOK'
    BY <1>5 DEF TInv, TimesTypeOK, ClockOK, timeVars, vars, history, jitter
  <2>2. HeldSeen' /\ GapsOK'
    BY <1>5 DEF TInv, HeldSeen, GapsOK, Chained, NextIsNear, timeVars, vars, history
  <2> QED BY <1>a, <2>1, <2>2 DEF TInv
<1> QED BY <1>1, <1>2, <1>3, <1>4, <1>5 DEF TimesNext

(* With mix_correct, two ordered tracks without gaps reach a player on the     *)
(* publisher's clock, by every jitter algorithm and however they interleave.  *)
THEOREM ClockIsPublishers == TimesSpec => TracksKeepTime
<1>1. TInv /\ [TimesNext]_timeVars
        => [ (/\ arrivals' > arrivals /\ Pops
              /\ popped.mixed /\ popped'.mixed
              /\ ordered' /\ steady'
              /\ shift # <<>>)
             => shift' = shift ]_timeVars
  <2> SUFFICES ASSUME TInv, TimesNext,
                      arrivals' > arrivals, Pops, popped.mixed, popped'.mixed,
                      ordered', steady', shift # <<>>
               PROVE  shift' = shift
    OBVIOUS
  <2>1. arrivals \in Nat
    BY MixAssumption DEF TInv, IInv, TypeOK
  <2>2. ASSUME NEW kind \in Kinds, NEW ts \in Time, Mix(kind, ts)
        PROVE  shift' = shift
    BY <2>2, MixStep
  <2>3. ASSUME NEW kind \in Kinds, NEW ts \in Time, Direct(kind, ts)
        PROVE  FALSE
    <3>1. arrivals' = arrivals
      BY <2>3 DEF Direct, vars
    <3> QED BY <2>1, <3>1
  <2>4. ~Clear
    BY <2>1 DEF Clear
  <2>5. ASSUME NEW mix \in BOOLEAN, NEW a \in Algorithms, ReloadPlay(mix, a)
        PROVE  FALSE
    <3>1. arrivals' = arrivals
      BY <2>4, <2>5 DEF ReloadPlay, vars
    <3> QED BY <2>1, <3>1
  <2> QED BY <2>2, <2>3, <2>4, <2>5 DEF TimesNext, Republish
<1> QED BY <1>1, TInvInit, TInvNext, PTL DEF TimesSpec, TracksKeepTime
=============================================================================

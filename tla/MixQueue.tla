------------------------------ MODULE MixQueue ------------------------------
(***************************************************************************)
(* SrsMixQueue, the queue a source puts between its publisher and its      *)
(* consumers when mix_correct is on.  Audio and video are held in a        *)
(* multimap ordered by timestamp and released one message per arrival, so  *)
(* that the two tracks come out interleaved.                               *)
(*                                                                         *)
(* One Arrive step is one call of SrsSource::on_audio or on_video: the     *)
(* message is pushed, then at most one message is popped and handed on.    *)
(***************************************************************************)
EXTENDS Integers, FiniteSets

CONSTANTS
    PureAV,       \* SRS_MIX_CORRECT_PURE_AV
    MaxTime,      \* bound: timestamps are 0 .. MaxTime
    MaxArrivals   \* bound: messages pushed between two clears

ASSUME MixAssumption ==
    /\ PureAV \in Nat \ {0}
    /\ MaxTime \in Nat
    /\ MaxArrivals \in Nat

VARIABLES
    msgs,       \* the multimap: equal timestamps keep their order of arrival
    nb_videos,
    nb_audios,
    arrivals,   \* messages pushed since the last clear
    latest,     \* history: the timestamp each track arrived with last
    ordered,    \* history: no track has gone back in time
    popped      \* history: the last pop, and whether both tracks were held

vars == <<msgs, nb_videos, nb_audios, arrivals, latest, ordered, popped>>

Kinds == {"audio", "video"}
Time == 0 .. MaxTime
Msg == [kind : Kinds, ts : Time, nth : 1 .. MaxArrivals]

Held(s, k) == {m \in s : m.kind = k}

(* Mutant: the queue keeps the order of arrival. *)
BeforeByArrival(m, n) == m.nth <= n.nth

(* The order of the multimap: by key, then by insertion. *)
Before(m, n) == m.ts < n.ts \/ (m.ts = n.ts /\ m.nth <= n.nth)

Begin(s) == CHOOSE m \in s : \A n \in s : Before(m, n)

Mixed(v, a) == v >= 1 /\ a >= 1

MixOk(v, a) ==
    \/ v >= PureAV /\ a = 0
    \/ a >= PureAV /\ v = 0
    \/ Mixed(v, a)

IsVideo(m) == IF m.kind = "video" THEN 1 ELSE 0

(* Mutant: the audio counter is never touched. *)
AudioNotCounted(m) == 0

IsAudio(m) == IF m.kind = "audio" THEN 1 ELSE 0

Init ==
    /\ msgs = {}
    /\ nb_videos = 0
    /\ nb_audios = 0
    /\ arrivals = 0
    /\ latest = [k \in Kinds |-> 0]
    /\ ordered = TRUE
    /\ popped = [ts |-> 0, mixed |-> TRUE]

(* push() then pop(): the message popped may be another than the one pushed. *)
Arrive(kind, ts) ==
    LET new  == [kind |-> kind, ts |-> ts, nth |-> arrivals + 1]
        held == msgs \cup {new}
        v    == nb_videos + IsVideo(new)
        a    == nb_audios + IsAudio(new)
        out  == Begin(held)
    IN  /\ arrivals < MaxArrivals
        /\ arrivals' = arrivals + 1
        /\ latest' = [latest EXCEPT ![kind] = ts]
        /\ ordered' = (ordered /\ latest[kind] <= ts)
        /\ \/ /\ MixOk(v, a)
              /\ msgs' = held \ {out}
              /\ nb_videos' = v - IsVideo(out)
              /\ nb_audios' = a - IsAudio(out)
              /\ popped' = [ts |-> out.ts, mixed |-> Mixed(v, a)]
           \/ /\ ~MixOk(v, a)
              /\ msgs' = held
              /\ nb_videos' = v
              /\ nb_audios' = a
              /\ UNCHANGED popped

(* clear(), called when a publish starts and when a reload turns mix_correct *)
(* on or off: what is held is dropped.                                       *)
Clear ==
    /\ msgs' = {}
    /\ nb_videos' = 0
    /\ nb_audios' = 0
    /\ arrivals' = 0
    /\ latest' = [k \in Kinds |-> 0]
    /\ ordered' = TRUE
    /\ popped' = [ts |-> 0, mixed |-> TRUE]

Next == Clear \/ \E kind \in Kinds, ts \in Time : Arrive(kind, ts)

Spec == Init /\ [][Next]_vars
-----------------------------------------------------------------------------
TypeOK ==
    /\ msgs \subseteq Msg
    /\ nb_videos \in Nat
    /\ nb_audios \in Nat
    /\ arrivals \in 0 .. MaxArrivals
    /\ latest \in [Kinds -> Time]
    /\ ordered \in BOOLEAN
    /\ popped \in [ts : Time, mixed : BOOLEAN]

(* pop() decides from the two counters and never looks at the messages: they *)
(* must count what the multimap holds, whichever kind begin() turns out to be. *)
CountersAgree ==
    /\ nb_videos = Cardinality(Held(msgs, "video"))
    /\ nb_audios = Cardinality(Held(msgs, "audio"))

(* A stream of one kind only is not delayed for ever: fewer than             *)
(* SRS_MIX_CORRECT_PURE_AV messages are held between two arrivals.           *)
DelayBounded == Cardinality(msgs) < PureAV

(* Both, however the queue is filled, emptied and cleared.                   *)
QueueIsSound == CountersAgree /\ DelayBounded

(* As long as each track arrives in order, a pop goes back in time only      *)
(* after a pop made while one of the tracks was missing.                     *)
MonotoneMix ==
    [][ (ordered' /\ popped.mixed /\ arrivals' > arrivals)
        => popped'.ts >= popped.ts ]_vars
=============================================================================

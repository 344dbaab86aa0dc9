----------------------------- MODULE Timestamps -----------------------------
(***************************************************************************)
(* What becomes of the times of a publisher on their way to one player:    *)
(* SrsSource::on_audio and on_video hand a message to the mix queue when    *)
(* mix_correct is on, and SrsConsumer::enqueue passes what comes out of it  *)
(* through SrsRtmpJitter.  The queue orders the two tracks; the jitter       *)
(* correction keeps one clock for both of them, which it advances by the    *)
(* difference of two messages in a row, whichever tracks they are of.       *)
(***************************************************************************)
EXTENDS MixQueue

CONSTANTS
    MaxJitter,   \* CONST_MAX_JITTER_MS, and -CONST_MAX_JITTER_MS_NEG
    FrameTime,   \* DEFAULT_FRAME_TIME_MS
    MaxGiven     \* bound: the times a player is given

ASSUME JitterAssumption ==
    /\ MaxJitter \in Nat
    /\ FrameTime \in 0 .. MaxJitter
    /\ MaxGiven \in Nat

VARIABLES
    mix_correct,
    ag,                      \* jitter_algorithm of the source
    last_pkt_time,
    last_pkt_correct_time,
    shift,    \* history: what was added to the time given last, <<>> before
    seen,     \* history: the tracks that sent something
    steady    \* history: no track left a gap of more than MaxJitter

jitter == <<last_pkt_time, last_pkt_correct_time>>
history == <<shift, seen, steady>>
timeVars == <<vars, mix_correct, ag, jitter, history>>

Algorithms == {"full", "zero", "off"}

NewStream == shift' = <<>> /\ seen' = {} /\ steady' = TRUE

(* SrsRtmpJitter of a player, and a source that is not published yet.        *)
TimesInit ==
    /\ Init
    /\ mix_correct \in BOOLEAN
    /\ ag \in Algorithms
    /\ last_pkt_time = 0
    /\ last_pkt_correct_time = -1
    /\ shift = <<>> /\ seen = {} /\ steady = TRUE

(* Mutant: the message is compared with the corrected time, not the           *)
(* publisher's.                                                              *)
SinceCorrected(ts) == ts - last_pkt_correct_time

Since(ts) == ts - last_pkt_time

(* A difference that cannot be between two frames is replaced.               *)
Delta(ts) == IF Since(ts) \in -MaxJitter .. MaxJitter THEN Since(ts) ELSE FrameTime

NotNegative(t) == IF t < 0 THEN 0 ELSE t

(* correct() of an audio or video message that a player is given as t.       *)
Correct(ts, t) ==
    /\ t <= MaxGiven
    /\ shift' = <<t - ts>>
    /\ \/ /\ ag = "full"
          /\ t = NotNegative(last_pkt_correct_time + Delta(ts))
          /\ last_pkt_correct_time' = t
          /\ last_pkt_time' = ts
       \/ /\ ag = "zero"
          /\ last_pkt_correct_time' =
                IF last_pkt_correct_time = -1 THEN ts ELSE last_pkt_correct_time
          /\ t = ts - last_pkt_correct_time'
          /\ UNCHANGED last_pkt_time
       \/ ag = "off" /\ t = ts /\ UNCHANGED jitter

Given(ts) == \E t \in -MaxTime .. MaxGiven : Correct(ts, t)

(* The queue holds as many messages as before: it let one out.               *)
Pops == nb_videos' + nb_audios' = nb_videos + nb_audios

(* on_audio and on_video with mix_correct.                                   *)
Mix(kind, ts) ==
    /\ mix_correct
    /\ Arrive(kind, ts)
    /\ seen' = seen \cup {kind}
    /\ steady' = (steady /\ (kind \in seen => ts - latest[kind] <= MaxJitter))
    /\ \/ Pops /\ Given(popped'.ts)
       \/ ~Pops /\ UNCHANGED <<jitter, shift>>
    /\ UNCHANGED <<mix_correct, ag>>

(* on_audio and on_video without.                                            *)
Direct(kind, ts) ==
    /\ ~mix_correct
    /\ Given(ts)
    /\ UNCHANGED <<vars, mix_correct, ag, seen, steady>>

(* on_publish: the players stay, and so does their jitter.                   *)
Republish ==
    /\ Clear
    /\ NewStream
    /\ UNCHANGED <<mix_correct, ag, jitter>>

(* on_reload_vhost_play, time_jitter and mix_correct.                        *)
ReloadPlay(mix, algorithm) ==
    /\ mix_correct' = mix
    /\ ag' = algorithm
    /\ IF mix = mix_correct
          THEN UNCHANGED <<vars, seen, steady>> /\ shift' = <<>>
          ELSE Clear /\ NewStream
    /\ UNCHANGED jitter

TimesNext ==
    \/ \E kind \in Kinds, ts \in Time : Mix(kind, ts) \/ Direct(kind, ts)
    \/ Republish
    \/ \E mix \in BOOLEAN, algorithm \in Algorithms : ReloadPlay(mix, algorithm)

TimesSpec == TimesInit /\ [][TimesNext]_timeVars
-----------------------------------------------------------------------------
(* full.conf:491 "whether use the interleaved/mixed algorithm to correct the   *)
(* timestamp": with mix_correct, as long as both tracks come in order and      *)
(* without gaps and none is missing, a player is given them on one clock: what *)
(* is added to the publisher's times does not change from one message to the   *)
(* next, however the tracks interleave and whatever the jitter algorithm.      *)
TracksKeepTime ==
    [][ (/\ arrivals' > arrivals /\ Pops
         /\ popped.mixed /\ popped'.mixed
         /\ ordered' /\ steady'
         /\ shift # <<>>)
        => shift' = shift ]_timeVars
=============================================================================

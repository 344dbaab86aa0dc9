----------------------------- MODULE LiveSource -----------------------------
(***************************************************************************)
(* What a live source (SrsSource, with its SrsMetaCache and SrsGopCache)   *)
(* gives to the consumers that join and leave it while publishers come and *)
(* go.                                                                     *)
(*                                                                         *)
(* A message is handled without a blocking call, so one step is one call   *)
(* of on_meta_data, on_audio_imp or on_video_imp.  The only operation that *)
(* blocks is on_unpublish, while the hub stops its services: it is split   *)
(* there.  Publish shows that one publisher at a time drives this module.  *)
(***************************************************************************)
EXTENDS Integers, Sequences, FiniteSets

CONSTANTS
    Consumers,
    Cfgs,           \* codec configurations a video sequence header can carry
    PureAudioGuess, \* SRS_PURE_AUDIO_GUESS_COUNT
    Reduces,        \* values of vhost.play.reduce_sequence_header to look at
    MaxSessions,    \* bound: publishes
    MaxMsgs         \* bound: messages of all sessions together

ASSUME LiveSourceAssumption ==
    /\ Cfgs \subseteq Nat \ {0}
    /\ PureAudioGuess \in Nat
    /\ Reduces \subseteq BOOLEAN
    /\ MaxSessions \in Nat
    /\ MaxMsgs \in Nat

VARIABLES
    reduce,     \* vhost.play.reduce_sequence_header, never reloaded here
    phase,      \* "off", "on", "failing" (the hub refused a message), "closing"
    session,    \* the number of publishes so far
    sent,       \* bound: messages so far
    n,          \* the number of the last frame of this session
    data, vsh, ash, previous_vsh, previous_ash,   \* SrsMetaCache
    gop,        \* SrsGopCache
    log,        \* what each consumer was given since it joined
    joined,     \* the first session it can be given, 0 when it is not there
    heads       \* history: how many messages of its log SrsMetaCache gave it

meta == <<data, vsh, ash, previous_vsh, previous_ash>>
vars == <<reduce, phase, session, sent, n, data, vsh, ash, previous_vsh, previous_ash,
          gop, log, joined, heads>>

(* Frames are numbered in their session; headers and metadata have number 0.  *)
(* cfg is the configuration a sequence header carries, or a video frame needs. *)
Msg(kind, num, cfg) == [kind |-> kind, session |-> session, n |-> num, cfg |-> cfg]

NULL == [kind |-> "none", session |-> 0, n |-> 0, cfg |-> 0]

IsVideo(m) == m.kind \in {"key", "inter"}
SamePayload(a, b) == a.kind = b.kind /\ a.cfg = b.cfg

EmptyGop(on) == [on |-> on, videos |-> 0, audios |-> 0, msgs |-> <<>>]

Init ==
    /\ reduce \in Reduces
    /\ phase = "off"
    /\ session = 0
    /\ sent = 0
    /\ n = 0
    /\ data = NULL /\ vsh = NULL /\ ash = NULL
    /\ previous_vsh = NULL /\ previous_ash = NULL
    /\ gop = EmptyGop(TRUE)
    /\ log = [c \in Consumers |-> <<>>]
    /\ joined = [c \in Consumers |-> 0]
    /\ heads = [c \in Consumers |-> 0]
-----------------------------------------------------------------------------
(* SrsGopCache::cache.                                                       *)
Cached(g, m) ==
    LET videos == g.videos + (IF IsVideo(m) THEN 1 ELSE 0)
        audios == IF IsVideo(m) THEN 0 ELSE g.audios + 1
    IN  IF ~g.on \/ videos = 0 THEN g
        ELSE IF audios > PureAudioGuess THEN EmptyGop(TRUE)
        ELSE IF m.kind = "key"
             THEN [on |-> TRUE, videos |-> 1, audios |-> 0, msgs |-> <<m>>]
        ELSE [on |-> TRUE, videos |-> videos, audios |-> audios,
              msgs |-> Append(g.msgs, m)]

(* Mutant: a keyframe does not reset the count of video frames. *)
CacheKeepsCount(m) ==
    gop' = IF m.kind = "key" /\ gop.on
           THEN [Cached(gop, m) EXCEPT !.videos = gop.videos + 1]
           ELSE Cached(gop, m)

(* Mutant: the overflow drops the frame and forgets to clear the cache. *)
CacheKeepsOverflow(m) ==
    gop' = IF ~IsVideo(m) /\ gop.audios = PureAudioGuess THEN gop ELSE Cached(gop, m)

Cache(m) == gop' = Cached(gop, m)

Present == {c \in Consumers : joined[c] # 0}

(* consumer->enqueue() of every consumer.                                    *)
GiveAll(m) ==
    log' = [c \in Consumers |-> IF c \in Present THEN Append(log[c], m) ELSE log[c]]

(* Mutant: repeated headers are never dropped. *)
DropNever(m, previous) == FALSE

(* A repeated sequence header is not sent again when reduce_sequence_header.  *)
DropForReduce(m, previous) ==
    reduce /\ previous # NULL /\ SamePayload(m, previous)

Sending ==
    /\ phase = "on"
    /\ sent < MaxMsgs
    /\ sent' = sent + 1
    /\ UNCHANGED <<reduce, session, joined, heads>>

(* The hub hands the message to HLS, DVR, forwarders and the rest; an error   *)
(* of one of them ends the publish.                                          *)
HubTakes == phase' = "on"
HubFails == phase' = "failing"

(* on_meta_data.  The metadata is in the cache before it is asked whether     *)
(* there was any: with reduce_sequence_header it is never sent live.          *)
OnMetaData ==
    LET m == Msg("data", 0, 0)
    IN  /\ Sending
        /\ data' = m
        /\ IF reduce THEN UNCHANGED log ELSE GiveAll(m)
        /\ HubTakes \/ HubFails
        /\ UNCHANGED <<n, vsh, ash, previous_vsh, previous_ash, gop>>

(* on_audio_imp: consumers first, then the hub, then the caches.             *)
OnAudioHeader ==
    LET m == Msg("ash", 0, 1)
    IN  /\ Sending
        /\ IF DropForReduce(m, previous_ash) THEN UNCHANGED log ELSE GiveAll(m)
        /\ \/ HubTakes /\ ash' = m /\ previous_ash' = m
           \/ HubFails /\ UNCHANGED <<ash, previous_ash>>
        /\ UNCHANGED <<n, data, vsh, previous_vsh, gop>>

(* The first audio frame stands for the sequence header when there is none.   *)
OnAudio ==
    LET m == Msg("audio", n + 1, 0)
    IN  /\ Sending
        /\ n' = n + 1
        /\ GiveAll(m)
        /\ \/ /\ HubTakes
              /\ ash' = IF ash = NULL THEN m ELSE ash
              /\ previous_ash' = IF ash = NULL THEN m ELSE previous_ash
              /\ Cache(m)
           \/ HubFails /\ UNCHANGED <<ash, previous_ash, gop>>
        /\ UNCHANGED <<data, vsh, previous_vsh>>

(* on_video_imp: the header cache first, then the hub, then consumers.       *)
OnVideoHeader(cfg) ==
    LET m == Msg("vsh", 0, cfg)
    IN  /\ Sending
        /\ vsh' = m
        /\ previous_vsh' = m
        /\ \/ /\ HubTakes
              /\ IF DropForReduce(m, previous_vsh) THEN UNCHANGED log ELSE GiveAll(m)
           \/ HubFails /\ UNCHANGED log
        /\ UNCHANGED <<n, data, ash, previous_ash, gop>>

OnVideo(kind) ==
    LET m == Msg(kind, n + 1, vsh.cfg)
    IN  /\ Sending
        /\ n' = n + 1
        /\ \/ HubTakes /\ GiveAll(m) /\ Cache(m)
           \/ HubFails /\ UNCHANGED <<log, gop>>
        /\ UNCHANGED meta
-----------------------------------------------------------------------------
(* SrsMetaCache::clear keeps what the next headers are compared with.        *)
ClearMeta == data' = NULL /\ vsh' = NULL /\ ash' = NULL

(* on_publish; it may end with an error of the hub, which then stays inactive, *)
(* or of the handler that mounts the HTTP stream, when it is active already.   *)
OnPublish ==
    /\ phase = "off"
    /\ session < MaxSessions
    /\ session' = session + 1
    /\ n' = 0
    /\ phase' \in {"on", "failing", "closing"}
    /\ ClearMeta
    /\ UNCHANGED <<reduce, sent, previous_vsh, previous_ash, gop, log, joined, heads>>

(* on_unpublish up to hub->on_unpublish(), which sets is_active to false and  *)
(* then waits for the services to stop.                                      *)
HubUnpublishes ==
    /\ phase \in {"on", "failing"}
    /\ phase' = "closing"
    /\ UNCHANGED <<reduce, session, sent, n, meta, gop, log, joined, heads>>

ClearGop == gop' = EmptyGop(gop.on)

OnUnpublish ==
    /\ phase = "closing"
    /\ phase' = "off"
    /\ ClearGop
    /\ previous_vsh' = vsh
    /\ previous_ash' = ash
    /\ UNCHANGED <<reduce, session, sent, n, data, vsh, ash, log, joined, heads>>

(* Mutant: whoever joins is given what is cached. *)
AlwaysActive == TRUE

Active == phase \in {"on", "failing"}

One(m) == IF m = NULL THEN <<>> ELSE <<m>>

(* SrsMetaCache::dumps: the audio frame that stands for a header is one of    *)
(* them, and may be in the GOP too.                                           *)
Heads == One(data) \o One(ash) \o One(vsh)

(* create_consumer, from an RTMP player or an HTTP stream; the second may     *)
(* ask for no GOP.                                                           *)
Dump(wants_gop) == Heads \o (IF wants_gop THEN gop.msgs ELSE <<>>)

CreateConsumer(c, wants_gop) ==
    /\ joined[c] = 0
    /\ joined' = [joined EXCEPT ![c] = IF phase \in {"off", "closing"} THEN session + 1 ELSE session]
    /\ log' = [log EXCEPT ![c] = IF Active THEN Dump(wants_gop) ELSE <<>>]
    /\ heads' = [heads EXCEPT ![c] = IF Active THEN Len(Heads) ELSE 0]
    /\ UNCHANGED <<reduce, phase, session, sent, n, meta, gop>>

OnConsumerDestroy(c) ==
    /\ joined[c] # 0
    /\ joined' = [joined EXCEPT ![c] = 0]
    /\ log' = [log EXCEPT ![c] = <<>>]
    /\ heads' = [heads EXCEPT ![c] = 0]
    /\ UNCHANGED <<reduce, phase, session, sent, n, meta, gop>>

(* set_cache() of every connection and on_reload_vhost_play: turning the      *)
(* cache off clears it, and so does a reload that changes atc.               *)
SetCache(v) ==
    /\ gop.on # v
    /\ gop' = IF v THEN [gop EXCEPT !.on = TRUE] ELSE EmptyGop(FALSE)
    /\ UNCHANGED <<reduce, phase, session, sent, n, meta, log, joined, heads>>

ReloadAtc ==
    /\ gop.msgs # <<>>
    /\ gop' = EmptyGop(gop.on)
    /\ UNCHANGED <<reduce, phase, session, sent, n, meta, log, joined, heads>>

Next ==
    \/ OnPublish \/ HubUnpublishes \/ OnUnpublish
    \/ OnMetaData \/ OnAudioHeader \/ OnAudio
    \/ \E cfg \in Cfgs : OnVideoHeader(cfg)
    \/ \E kind \in {"key", "inter"} : OnVideo(kind)
    \/ \E c \in Consumers, b \in BOOLEAN : CreateConsumer(c, b)
    \/ \E c \in Consumers : OnConsumerDestroy(c)
    \/ \E v \in BOOLEAN : SetCache(v)
    \/ ReloadAtc

Spec == Init /\ [][Next]_vars
-----------------------------------------------------------------------------
Headers == [kind : {"none", "data", "ash", "vsh", "audio"}, session : 0 .. MaxSessions,
            n : 0 .. MaxMsgs, cfg : Cfgs \cup {0, 1}]
Frames == [kind : {"audio", "key", "inter"}, session : 1 .. MaxSessions,
           n : 1 .. MaxMsgs, cfg : Cfgs \cup {0}]

TypeOK ==
    /\ phase \in {"off", "on", "failing", "closing"}
    /\ session \in 0 .. MaxSessions
    /\ sent \in 0 .. MaxMsgs
    /\ n \in 0 .. sent
    /\ {data, vsh, ash, previous_vsh, previous_ash} \subseteq Headers
    /\ gop \in [on : BOOLEAN, videos : 0 .. MaxMsgs, audios : 0 .. PureAudioGuess,
                msgs : Seq(Frames)]
    /\ log \in [Consumers -> Seq(Headers \cup Frames)]
    /\ joined \in [Consumers -> 0 .. MaxSessions + 1]
    /\ heads \in [Consumers -> 0 .. 3]

(* The counters by which the cache guesses a stream without video agree with  *)
(* what it holds, so it is never left growing with audio alone.              *)
GopCounts ==
    /\ gop.videos = Cardinality({i \in 1 .. Len(gop.msgs) : IsVideo(gop.msgs[i])})
    /\ gop.msgs # <<>> => IsVideo(gop.msgs[1])
    /\ \A i \in 1 .. Len(gop.msgs) :
          i + gop.audios > Len(gop.msgs) <=>
             \A j \in i .. Len(gop.msgs) : ~IsVideo(gop.msgs[j])

(* The cache is the end of the stream without holes, so that a consumer that  *)
(* is given the cache can go on with the next live message.                   *)
GopIsSuffix ==
    gop.msgs # <<>> =>
        /\ \A i \in 1 .. Len(gop.msgs) : gop.msgs[i].session = session
        /\ \A i \in 1 .. Len(gop.msgs) - 1 : gop.msgs[i + 1].n = gop.msgs[i].n + 1
        /\ phase = "on" => gop.msgs[Len(gop.msgs)].n = n

(* Both, in whatever order publishes, headers, hub errors and reloads come,    *)
(* and every message of the state is one of its kind.                         *)
GopIsSound == TypeOK /\ GopCounts /\ GopIsSuffix

(* i and j are frames of the log with none between them; b is the frame the    *)
(* publisher sent after a, or the first one of a later publish.                *)
NextFrame(s, i, j) ==
    /\ i < j /\ s[i].n # 0 /\ s[j].n # 0
    /\ \A k \in i + 1 .. j - 1 : s[k].n = 0

Follows(a, b) ==
    \/ b.session = a.session /\ b.n = a.n + 1
    \/ b.session > a.session /\ b.n = 1

(* The first h messages of the log s are what the metadata cache gave.  A      *)
(* frame among them is the first audio frame of a stream without an audio      *)
(* sequence header, for which on_audio_imp keeps it; the GOP may bring this    *)
(* frame once more, and no audio frame that is older.                          *)
OnlyFirstAudioTwice(s, h) ==
    \A i \in 1 .. h : s[i].n # 0 =>
        /\ s[i].kind = "audio"
        /\ \A j \in h + 1 .. Len(s) :
              s[j].kind = "audio" /\ s[j].session = s[i].session => s[j].n >= s[i].n

(* From the moment it joins, whatever is reloaded, a consumer is given the     *)
(* frames in the order of the publisher, none missing and none twice but the   *)
(* audio frame it was given as a header; after a republish it goes on with the *)
(* first frame.                                                                *)
NoGapNoRepeat ==
    \A c \in Consumers :
        /\ \A i, j \in heads[c] + 1 .. Len(log[c]) :
              NextFrame(log[c], i, j) => Follows(log[c][i], log[c][j])
        /\ OnlyFirstAudioTwice(log[c], heads[c])

(* Nothing of a publish that is over reaches a consumer: not its metadata, not *)
(* its headers, not its last GOP.                                              *)
SessionsApart ==
    \A c \in Consumers : \A i \in 1 .. Len(log[c]) :
        /\ log[c][i].session >= joined[c]
        /\ i > 1 => log[c][i].session >= log[c][i - 1].session

(* The last header of a kind in the log has the configuration cfg.             *)
LastHas(s, kind, cfg) ==
    \E i \in 1 .. Len(s) :
        /\ s[i].kind = kind /\ s[i].cfg = cfg
        /\ \A j \in i + 1 .. Len(s) : s[j].kind # kind

HasHeaders(c) ==
    /\ vsh # NULL => LastHas(log[c], "vsh", vsh.cfg)
    /\ ash.kind = "ash" => LastHas(log[c], "ash", ash.cfg)

(* full.conf:521 "whether reduce the sequence header, for some client which    *)
(* cannot got duplicated sequence header, while the sequence header is not     *)
(* changed yet": without it every consumer has the headers the frames of the   *)
(* stream need, whenever it joined.                                           *)
HeaderSent == ~reduce /\ phase = "on" => \A c \in Present : HasHeaders(c)

(* i and j are video headers with none between them.                          *)
NextHeader(s, i, j) ==
    /\ i < j /\ s[i].kind = "vsh" /\ s[j].kind = "vsh"
    /\ \A k \in i + 1 .. j - 1 : s[k].kind # "vsh"

(* With it, no consumer is given the header it has once more in one publish.   *)
NoDuplicateHeader ==
    reduce => \A c \in Consumers : \A i, j \in 1 .. Len(log[c]) :
        NextHeader(log[c], i, j) => log[c][i] # log[c][j]

(* Both: the headers a player is given are those it needs, and no more.        *)
HeadersAsConfigured == HeaderSent /\ NoDuplicateHeader
=============================================================================

------------------------- MODULE LiveSource_proofs -------------------------
(***************************************************************************)
(* Proofs about LiveSource, for any number of consumers, publishes and     *)
(* messages: the GOP cache is the end of the stream, a consumer is given   *)
(* the stream without a gap or a repeat and with its headers, and nothing  *)
(* of a publish that is over.                                              *)
(***************************************************************************)
EXTENDS LiveSource, TLAPS, FiniteSetTheorems

(* The caches hold messages of the last publish, each of its kind, and the    *)
(* header that is compared with the next one is the cached one.               *)
MetaInv ==
    /\ data # NULL => data.kind = "data" /\ data.session = session
    /\ ash # NULL => ash.kind \in {"ash", "audio"} /\ ash.session = session
    /\ vsh # NULL => vsh.kind = "vsh" /\ vsh.session = session /\ vsh.cfg \in Cfgs
    /\ previous_vsh = NULL \/ previous_vsh.kind = "vsh"
    /\ vsh # NULL => previous_vsh = vsh

Counts(g) ==
    /\ g.videos = Cardinality({i \in 1 .. Len(g.msgs) : IsVideo(g.msgs[i])})
    /\ g.msgs # <<>> => IsVideo(g.msgs[1])
    /\ \A i \in 1 .. Len(g.msgs) :
          i + g.audios > Len(g.msgs) <=>
             \A j \in i .. Len(g.msgs) : ~IsVideo(g.msgs[j])

Consecutive(g, number) ==
    /\ \A i \in 1 .. Len(g.msgs) : g.msgs[i].session = number
    /\ \A i \in 1 .. Len(g.msgs) - 1 : g.msgs[i + 1].n = g.msgs[i].n + 1

EndsAt(g, num) == g.msgs # <<>> => g.msgs[Len(g.msgs)].n = num

(* The cache is empty when it is off and between two publishes, and has no    *)
(* more video frames than the publisher sent.                                 *)
GopInv ==
    /\ Counts(gop) /\ Consecutive(gop, session)
    /\ phase = "on" => EndsAt(gop, n)
    /\ gop.videos <= n
    /\ ~gop.on \/ phase = "off" => gop.msgs = <<>>
    /\ phase # "off" => session # 0

(* Of the cached headers only an audio frame that stands for one has a number, *)
(* and no audio frame of the GOP is older than it.                            *)
AudioInv ==
    /\ data.n = 0 /\ vsh.n = 0 /\ ash.n <= n
    /\ ash.n # 0 => ash.kind = "audio"
    /\ \A i \in 1 .. Len(gop.msgs) :
          gop.msgs[i].kind = "audio" => ash # NULL /\ gop.msgs[i].n >= ash.n

CacheInv == TypeOK /\ MetaInv /\ GopInv /\ AudioInv

LEMMA CacheInvIsSound == CacheInv => GopIsSound
BY DEF CacheInv, GopInv, GopIsSound, GopCounts, GopIsSuffix, Counts, Consecutive, EndsAt

Gops == [on : BOOLEAN, videos : Nat, audios : 0 .. PureAudioGuess, msgs : Seq(Frames)]

VideosOf(s) == {i \in 1 .. Len(s) : IsVideo(s[i])}

LEMMA VideosAreFinite ==
    ASSUME NEW s \in Seq(Frames)
    PROVE  IsFiniteSet(VideosOf(s))
<1>1. IsFiniteSet(1 .. Len(s))
  BY FS_Interval
<1> QED BY <1>1, FS_Subset DEF VideosOf

LEMMA AppendedVideos ==
    ASSUME NEW s \in Seq(Frames), NEW m \in Frames
    PROVE  Cardinality(VideosOf(Append(s, m))) =
              Cardinality(VideosOf(s)) + (IF IsVideo(m) THEN 1 ELSE 0)
<1>1. IsFiniteSet(VideosOf(s)) /\ Cardinality(VideosOf(s)) \in Nat
  BY VideosAreFinite, FS_CardinalityType
<1>2. CASE IsVideo(m)
  <2>1. VideosOf(Append(s, m)) = VideosOf(s) \cup {Len(s) + 1}
    BY <1>2 DEF VideosOf
  <2>2. Len(s) + 1 \notin VideosOf(s)
    BY DEF VideosOf
  <2> QED BY <1>1, <1>2, <2>1, <2>2, FS_AddElement
<1>3. CASE ~IsVideo(m)
  <2>1. VideosOf(Append(s, m)) = VideosOf(s)
    BY <1>3 DEF VideosOf
  <2> QED BY <1>1, <1>3, <2>1
<1> QED BY <1>2, <1>3

(* A cache that counts no video frame is empty.                               *)
LEMMA NoVideoIsEmpty ==
    ASSUME NEW g \in Gops, Counts(g)
    PROVE  g.videos = 0 <=> g.msgs = <<>>
<1>1. g.msgs \in Seq(Frames) /\ g.videos = Cardinality(VideosOf(g.msgs))
  BY DEF Gops, Counts, VideosOf
<1>2. g.videos = 0 <=> VideosOf(g.msgs) = {}
  BY <1>1, VideosAreFinite, FS_EmptySet
<1>3. CASE g.msgs = <<>>
  BY <1>2, <1>3 DEF VideosOf
<1>4. CASE g.msgs # <<>>
  <2>1. 1 \in VideosOf(g.msgs)
    BY <1>1, <1>4 DEF Counts, VideosOf
  <2> QED BY <1>2, <1>4, <2>1
<1> QED BY <1>3, <1>4

LEMMA EmptyIsSound ==
    ASSUME NEW g, g.msgs = <<>>, g.videos = 0
    PROVE  /\ Counts(g)
           /\ \A number, num : Consecutive(g, number) /\ EndsAt(g, num)
<1>1. {i \in 1 .. Len(g.msgs) : IsVideo(g.msgs[i])} = {}
  OBVIOUS
<1>2. Counts(g)
  BY <1>1, FS_EmptySet DEF Counts
<1>3. \A number, num : Consecutive(g, number) /\ EndsAt(g, num)
  BY DEF Consecutive, EndsAt
<1> QED BY <1>2, <1>3

(* The next frame of the stream leaves a cache that ends with it, or none.    *)
LEMMA CachedIsSound ==
    ASSUME NEW g \in Gops, NEW m \in Frames, Counts(g),
           Consecutive(g, m.session), EndsAt(g, m.n - 1), ~g.on => g.msgs = <<>>
    PROVE  LET h == Cached(g, m)
           IN  /\ h \in Gops /\ h.videos <= g.videos + 1
               /\ Counts(h) /\ Consecutive(h, m.session) /\ EndsAt(h, m.n)
               /\ ~h.on => h.msgs = <<>>
<1> DEFINE h == Cached(g, m)
           videos == g.videos + (IF IsVideo(m) THEN 1 ELSE 0)
           audios == IF IsVideo(m) THEN 0 ELSE g.audios + 1
           Sound(x) == /\ x \in Gops /\ x.videos <= g.videos + 1
                       /\ Counts(x) /\ Consecutive(x, m.session) /\ EndsAt(x, m.n)
                       /\ ~x.on => x.msgs = <<>>
<1> SUFFICES Sound(h)
  OBVIOUS
<1>1. /\ g.videos \in Nat /\ g.audios \in 0 .. PureAudioGuess /\ g.msgs \in Seq(Frames)
      /\ PureAudioGuess \in Nat
  BY LiveSourceAssumption DEF Gops
<1>2. m.n \in Nat /\ m.session \in Nat
  BY LiveSourceAssumption DEF Frames
<1>3. CASE ~g.on \/ videos = 0
  <2>1. h = g
    BY <1>3 DEF Cached
  <2>2. g.msgs = <<>>
    BY <1>1, <1>3, NoVideoIsEmpty
  <2> HIDE DEF h
  <2> QED BY <1>1, <2>1, <2>2 DEF EndsAt
<1>4. CASE ~(~g.on \/ videos = 0) /\ audios > PureAudioGuess
  <2>1. h = EmptyGop(TRUE)
    BY <1>4 DEF Cached
  <2>2. h \in Gops /\ h.msgs = <<>> /\ h.videos = 0 /\ h.on
    BY <1>1, <2>1 DEF EmptyGop, Gops
  <2> HIDE DEF h
  <2>3. Counts(h) /\ Consecutive(h, m.session) /\ EndsAt(h, m.n)
    BY <2>2, EmptyIsSound
  <2> QED BY <1>1, <2>2, <2>3
<1>5. CASE ~(~g.on \/ videos = 0) /\ ~(audios > PureAudioGuess) /\ m.kind = "key"
  <2> DEFINE k == [on |-> TRUE, videos |-> 1, audios |-> 0, msgs |-> <<m>>]
  <2>1. h = k
    BY <1>5 DEF Cached
  <2>2. k \in Gops
    BY <1>1 DEF Gops
  <2>3. /\ k.msgs = <<m>> /\ Len(k.msgs) = 1 /\ k.msgs[1] = m /\ IsVideo(m)
        /\ k.on /\ k.audios = 0 /\ k.videos = 1
    BY <1>5 DEF IsVideo
  <2> HIDE DEF k
  <2>4. {i \in 1 .. Len(k.msgs) : IsVideo(k.msgs[i])} = {1}
    BY <2>3
  <2>5. Cardinality({i \in 1 .. Len(k.msgs) : IsVideo(k.msgs[i])}) = 1
    BY <2>4, FS_Singleton
  <2>6. ASSUME NEW i \in 1 .. 1
        PROVE  i + 0 > 1 <=> \A j \in i .. 1 : ~IsVideo(k.msgs[j])
    <3>1. i = 1 /\ 1 \in i .. 1
      OBVIOUS
    <3> QED BY <2>3, <3>1
  <2>7. Counts(k)
    BY <2>3, <2>5, <2>6 DEF Counts
  <2>8. Consecutive(k, m.session) /\ EndsAt(k, m.n)
    BY <2>3 DEF Consecutive, EndsAt
  <2> HIDE DEF h
  <2> QED BY <1>1, <2>1, <2>2, <2>3, <2>7, <2>8
<1>6. CASE ~(~g.on \/ videos = 0) /\ ~(audios > PureAudioGuess) /\ m.kind # "key"
  <2> DEFINE s == Append(g.msgs, m)
             k == [on |-> TRUE, videos |-> videos, audios |-> audios, msgs |-> s]
             L == Len(g.msgs)
  <2>1. h = k
    BY <1>6 DEF Cached
  <2>2. audios \in 0 .. PureAudioGuess /\ videos \in Nat /\ videos <= g.videos + 1
    BY <1>1, <1>6
  <2>3. s \in Seq(Frames) /\ Len(s) = L + 1 /\ s[L + 1] = m /\ L \in Nat
        /\ \A i \in 1 .. L : s[i] = g.msgs[i]
    BY <1>1
  <2>4. k \in Gops
    BY <2>2, <2>3 DEF Gops
  <2>5. k.msgs = s /\ k.on /\ k.audios = audios /\ k.videos = videos
    OBVIOUS
  <2>6. k.videos = Cardinality({i \in 1 .. Len(s) : IsVideo(s[i])})
    <3>1. Cardinality(VideosOf(s)) =
             Cardinality(VideosOf(g.msgs)) + (IF IsVideo(m) THEN 1 ELSE 0)
      BY <1>1, AppendedVideos
    <3>2. g.videos = Cardinality(VideosOf(g.msgs))
      BY DEF Counts, VideosOf
    <3> QED BY <2>5, <3>1, <3>2 DEF VideosOf
  <2>7. IsVideo(s[1])
    <3>1. CASE g.msgs = <<>>
      <4>1. g.videos = 0 /\ L = 0
        BY <3>1, NoVideoIsEmpty
      <4> QED BY <1>6, <2>3, <4>1
    <3>2. CASE g.msgs # <<>>
      <4>1. 1 \in 1 .. L
        BY <1>1, <3>2
      <4> QED BY <2>3, <3>2, <4>1 DEF Counts
    <3> QED BY <3>1, <3>2
  <2>8. ASSUME NEW i \in 1 .. L + 1
        PROVE  i + audios > L + 1 <=> \A j \in i .. L + 1 : ~IsVideo(s[j])
    <3>1. CASE IsVideo(m)
      <4>1. ~(i + audios > L + 1)
        BY <2>3, <3>1
      <4>2. L + 1 \in i .. L + 1 /\ IsVideo(s[L + 1])
        BY <2>3, <3>1
      <4> QED BY <4>1, <4>2
    <3>2. CASE ~IsVideo(m) /\ i = L + 1
      <4>1. i + audios > L + 1
        BY <1>1, <2>3, <3>2
      <4>2. \A j \in i .. L + 1 : ~IsVideo(s[j])
        BY <2>3, <3>2
      <4> QED BY <4>1, <4>2
    <3>3. CASE ~IsVideo(m) /\ i \in 1 .. L
      <4>1. i + audios > L + 1 <=> i + g.audios > L
        BY <1>1, <2>3, <3>3
      <4>2. i + g.audios > L <=> \A j \in i .. L : ~IsVideo(g.msgs[j])
        BY <3>3 DEF Counts
      <4>3. (\A j \in i .. L : ~IsVideo(g.msgs[j]))
               <=> \A j \in i .. L + 1 : ~IsVideo(s[j])
        BY <2>3, <3>3
      <4> QED BY <4>1, <4>2, <4>3
    <3> QED BY <2>3, <3>1, <3>2, <3>3
  <2>9. \A i \in 1 .. L + 1 : s[i].session = m.session
    BY <2>3 DEF Consecutive
  <2>10. ASSUME NEW i \in 1 .. (L + 1) - 1 PROVE s[i + 1].n = s[i].n + 1
    <3>1. CASE i \in 1 .. L - 1
      BY <2>3, <3>1 DEF Consecutive
    <3>2. CASE i = L
      <4>1. g.msgs # <<>> /\ g.msgs[L].n = m.n - 1
        BY <1>1, <2>3, <3>2 DEF EndsAt
      <4> QED BY <1>2, <2>3, <3>2, <4>1
    <3> QED BY <2>3, <3>1, <3>2
  <2> HIDE DEF s, k, audios, videos, h
  <2>11. Counts(k)
    BY <2>3, <2>5, <2>6, <2>7, <2>8 DEF Counts
  <2>12. Consecutive(k, m.session) /\ EndsAt(k, m.n)
    BY <2>3, <2>5, <2>9, <2>10 DEF Consecutive, EndsAt
  <2> QED BY <2>1, <2>2, <2>4, <2>5, <2>11, <2>12
<1> QED BY <1>3, <1>4, <1>5, <1>6
LEMMA FramesHaveNumbers ==
    ASSUME NEW m \in Frames
    PROVE  m.n \in Nat \ {0}
BY LiveSourceAssumption DEF Frames

(* A cached message is the new one or was cached before.                      *)
LEMMA CachedAre ==
    ASSUME NEW g \in Gops, NEW m \in Frames, NEW i \in 1 .. Len(Cached(g, m).msgs)
    PROVE  \/ Cached(g, m).msgs[i] = m
           \/ \E k \in 1 .. Len(g.msgs) : Cached(g, m).msgs[i] = g.msgs[k]
<1> DEFINE h == Cached(g, m)
           L == Len(g.msgs)
<1>1. g.msgs \in Seq(Frames) /\ L \in Nat
  BY DEF Gops
<1>2. \/ h.msgs = g.msgs
      \/ h.msgs = <<>>
      \/ h.msgs = <<m>>
      \/ h.msgs = Append(g.msgs, m)
  BY DEF Cached, EmptyGop
<1> HIDE DEF h
<1>3. CASE h.msgs = Append(g.msgs, m)
  <2>1. Len(h.msgs) = L + 1 /\ h.msgs[L + 1] = m /\ \A k \in 1 .. L : h.msgs[k] = g.msgs[k]
    BY <1>1, <1>3
  <2>2. i \in 1 .. L \/ i = L + 1
    BY <1>1, <2>1 DEF h
  <2> QED BY <2>1, <2>2 DEF h
<1>4. CASE h.msgs = <<m>>
  <2>1. Len(h.msgs) = 1 /\ h.msgs[1] = m
    BY <1>4
  <2>2. i = 1
    BY <2>1 DEF h
  <2> QED BY <2>1, <2>2 DEF h
<1>5. CASE h.msgs = <<>>
  <2>1. Len(h.msgs) = 0
    BY <1>5
  <2> QED BY <2>1 DEF h
<1>6. CASE h.msgs = g.msgs
  BY <1>6 DEF h
<1> QED BY <1>2, <1>3, <1>4, <1>5, <1>6
-----------------------------------------------------------------------------
LEMMA SourceTypes ==
    ASSUME CacheInv
    PROVE  /\ session \in Nat /\ n \in Nat /\ sent \in Nat /\ n <= sent
           /\ session <= MaxSessions /\ sent <= MaxMsgs
           /\ MaxSessions \in Nat /\ MaxMsgs \in Nat
           /\ gop \in Gops /\ gop.videos \in 0 .. MaxMsgs
           /\ NULL \in Headers
<1>1. /\ session \in Nat /\ n \in Nat /\ sent \in Nat /\ n <= sent
      /\ session <= MaxSessions /\ sent <= MaxMsgs
      /\ MaxSessions \in Nat /\ MaxMsgs \in Nat
  BY LiveSourceAssumption DEF CacheInv, TypeOK
<1>2. gop \in Gops /\ gop.videos \in 0 .. MaxMsgs
  <2>1. gop \in [on : BOOLEAN, videos : 0 .. MaxMsgs, audios : 0 .. PureAudioGuess,
                 msgs : Seq(Frames)]
    BY DEF CacheInv, TypeOK
  <2>2. 0 .. MaxMsgs \subseteq Nat
    BY <1>1
  <2> QED BY <2>1, <2>2 DEF Gops
<1>3. NULL \in Headers
  BY <1>1 DEF NULL, Headers
<1> QED BY <1>1, <1>2, <1>3

(* What Msg makes of the next message.                                        *)
LEMMA MsgTypes ==
    ASSUME CacheInv, Sending
    PROVE  /\ session \in 1 .. MaxSessions /\ sent' \in 0 .. MaxMsgs /\ n <= sent'
           /\ n + 1 \in 1 .. MaxMsgs /\ n + 1 <= sent'
           /\ \A kind \in {"data", "ash", "vsh"}, cfg \in Cfgs \cup {0, 1} :
                 Msg(kind, 0, cfg) \in Headers
           /\ \A kind \in {"audio", "key", "inter"}, cfg \in Cfgs \cup {0} :
                 Msg(kind, n + 1, cfg) \in Frames
           /\ Msg("audio", n + 1, 0) \in Headers
<1>1. phase = "on" /\ sent < MaxMsgs /\ sent' = sent + 1
  BY DEF Sending
<1>2. session # 0
  BY <1>1 DEF CacheInv, GopInv
<1>3. /\ session \in 1 .. MaxSessions /\ sent' \in 0 .. MaxMsgs /\ n <= sent'
      /\ n + 1 \in 1 .. MaxMsgs /\ n + 1 <= sent'
      /\ session \in 0 .. MaxSessions /\ n + 1 \in 0 .. MaxMsgs /\ 0 \in 0 .. MaxMsgs
  BY <1>1, <1>2, SourceTypes
<1> QED BY <1>3 DEF Msg, Headers, Frames

(* One message for all who are there.                                         *)
LEMMA GivenLogs ==
    ASSUME log \in [Consumers -> Seq(Headers \cup Frames)],
           NEW m \in Headers \cup Frames, GiveAll(m)
    PROVE  /\ log' \in [Consumers -> Seq(Headers \cup Frames)]
           /\ \A c \in Consumers :
                 log'[c] = IF joined[c] # 0 THEN Append(log[c], m) ELSE log[c]
<1>1. log' = [c \in Consumers |-> IF c \in Present THEN Append(log[c], m) ELSE log[c]]
  BY DEF GiveAll
<1>2. \A c \in Consumers : log[c] \in Seq(Headers \cup Frames)
  OBVIOUS
<1>3. \A c \in Consumers :
         (IF c \in Present THEN Append(log[c], m) ELSE log[c]) \in Seq(Headers \cup Frames)
  BY <1>2
<1> QED BY <1>1, <1>3 DEF Present

LEMMA CacheStep ==
    ASSUME CacheInv, Sending, NEW m \in Frames, m.session = session, m.n = n + 1,
           n' = n + 1, Cache(m)
    PROVE  /\ gop' \in [on : BOOLEAN, videos : 0 .. MaxMsgs,
                        audios : 0 .. PureAudioGuess, msgs : Seq(Frames)]
           /\ Counts(gop') /\ Consecutive(gop', session)
           /\ EndsAt(gop', n') /\ gop'.videos <= n'
           /\ ~gop'.on => gop'.msgs = <<>>
<1> DEFINE h == Cached(gop, m)
<1>1. gop' = h
  BY DEF Cache
<1>2. /\ gop \in Gops /\ gop.videos \in Nat /\ gop.videos <= n /\ n \in Nat
      /\ n + 1 \in 1 .. MaxMsgs /\ MaxMsgs \in Nat
  BY SourceTypes, MsgTypes DEF CacheInv, GopInv
<1>3. /\ Counts(gop) /\ Consecutive(gop, m.session) /\ EndsAt(gop, m.n - 1)
      /\ ~gop.on => gop.msgs = <<>>
  BY <1>2 DEF CacheInv, GopInv, Sending
<1>4. /\ h \in Gops /\ h.videos <= gop.videos + 1
      /\ Counts(h) /\ Consecutive(h, m.session) /\ EndsAt(h, m.n)
      /\ ~h.on => h.msgs = <<>>
  BY <1>2, <1>3, CachedIsSound
<1> HIDE DEF h
<1>5. h.videos \in Nat
  BY <1>4 DEF Gops
<1>6. h.videos <= n + 1 /\ h.videos \in 0 .. MaxMsgs
  BY <1>2, <1>4, <1>5
<1>7. h \in [on : BOOLEAN, videos : 0 .. MaxMsgs, audios : 0 .. PureAudioGuess,
             msgs : Seq(Frames)]
  BY <1>4, <1>6 DEF Gops
<1> QED BY <1>1, <1>4, <1>6, <1>7

LEMMA EmptyGopType ==
    ASSUME NEW on \in BOOLEAN
    PROVE  /\ EmptyGop(on) \in [on : BOOLEAN, videos : 0 .. MaxMsgs,
                                audios : 0 .. PureAudioGuess, msgs : Seq(Frames)]
           /\ EmptyGop(on).msgs = <<>> /\ EmptyGop(on).videos = 0
BY LiveSourceAssumption DEF EmptyGop

LEMMA CacheInit == Init => CacheInv
<1> SUFFICES ASSUME Init PROVE CacheInv
  OBVIOUS
<1>1. gop = [on |-> TRUE, videos |-> 0, audios |-> 0, msgs |-> <<>>]
  BY DEF Init, EmptyGop
<1>2. /\ gop \in [on : BOOLEAN, videos : 0 .. MaxMsgs, audios : 0 .. PureAudioGuess,
                  msgs : Seq(Frames)]
      /\ gop.msgs = <<>> /\ gop.videos = 0
  BY <1>1, LiveSourceAssumption
<1>3. NULL \in Headers
  BY LiveSourceAssumption DEF NULL, Headers
<1>4. TypeOK
  <2>1. {data, vsh, ash, previous_vsh, previous_ash} \subseteq Headers
    BY <1>3 DEF Init
  <2>2. log \in [Consumers -> Seq(Headers \cup Frames)]
    BY DEF Init
  <2>3. joined \in [Consumers -> 0 .. MaxSessions + 1]
    BY LiveSourceAssumption DEF Init
  <2>4. phase = "off" /\ session \in 0 .. MaxSessions /\ sent \in 0 .. MaxMsgs /\ n \in 0 .. sent
    BY LiveSourceAssumption DEF Init
  <2>5. heads \in [Consumers -> 0 .. 3]
    BY DEF Init
  <2> QED BY <1>2, <2>1, <2>2, <2>3, <2>4, <2>5 DEF TypeOK
<1>5. MetaInv
  BY DEF Init, MetaInv
<1>6. GopInv
  <2>1. Counts(gop) /\ Consecutive(gop, session) /\ EndsAt(gop, n)
    BY <1>2, EmptyIsSound
  <2>2. phase = "off" /\ n = 0
    BY DEF Init
  <2> QED BY <1>2, <2>1, <2>2 DEF GopInv
<1>7. AudioInv
  <2>1. data.n = 0 /\ vsh.n = 0 /\ ash.n = 0 /\ n = 0 /\ Len(gop.msgs) = 0
    BY <1>2 DEF Init, NULL
  <2> QED BY <2>1 DEF AudioInv
<1> QED BY <1>4, <1>5, <1>6, <1>7 DEF CacheInv

(* A message changes the caches, and the logs of those who are there.         *)
LEMMA MessageStep ==
    ASSUME CacheInv,
           \/ OnMetaData \/ OnAudioHeader \/ OnAudio
           \/ \E cfg \in Cfgs : OnVideoHeader(cfg)
           \/ \E kind \in {"key", "inter"} : OnVideo(kind)
    PROVE  CacheInv'
<1> DEFINE GopType == [on : BOOLEAN, videos : 0 .. MaxMsgs, audios : 0 .. PureAudioGuess,
                       msgs : Seq(Frames)]
           Logs == [Consumers -> Seq(Headers \cup Frames)]
           Rest == /\ session' = session /\ joined' = joined /\ heads' = heads /\ session # 0
                   /\ sent' \in 0 .. MaxMsgs /\ n' \in 0 .. sent'
                   /\ phase' \in {"on", "failing"}
           GopOK == /\ gop' \in GopType
                    /\ Counts(gop') /\ Consecutive(gop', session)
                    /\ phase' = "on" => EndsAt(gop', n')
                    /\ gop'.videos <= n'
                    /\ ~gop'.on => gop'.msgs = <<>>
<1>1. Sending
  BY DEF OnMetaData, OnAudioHeader, OnAudio, OnVideoHeader, OnVideo
<1>2. /\ phase = "on" /\ session' = session /\ joined' = joined /\ session # 0
      /\ heads' = heads
  BY <1>1 DEF Sending, CacheInv, GopInv
<1>3. /\ log \in Logs /\ gop \in GopType /\ n \in Nat /\ sent' \in Nat /\ n <= sent'
      /\ sent' \in 0 .. MaxMsgs /\ n + 1 <= sent'
      /\ data \in Headers /\ vsh \in Headers /\ ash \in Headers
      /\ previous_vsh \in Headers /\ previous_ash \in Headers
  BY <1>1, SourceTypes, MsgTypes DEF CacheInv, TypeOK
<1>4. /\ Counts(gop) /\ Consecutive(gop, session) /\ EndsAt(gop, n) /\ gop.videos <= n
      /\ ~gop.on => gop.msgs = <<>>
  BY <1>2 DEF CacheInv, GopInv
<1>5. gop.videos \in Nat
  BY SourceTypes
<1>6. (n' = n \/ (n' = n + 1 /\ phase' # "on")) /\ gop' = gop => GopOK
  BY <1>3, <1>4, <1>5
<1>13. ASSUME n' \in {n, n + 1}, gop' = gop, UNCHANGED ash, data'.n = 0, vsh'.n = 0
       PROVE  AudioInv'
  <2>1. ash.n \in Nat
    BY <1>3, LiveSourceAssumption DEF Headers
  <2> QED BY <1>3, <1>13, <2>1 DEF CacheInv, AudioInv
<1>7. ASSUME Rest, GopOK, log' \in Logs, MetaInv', AudioInv',
             {data', vsh', ash', previous_vsh', previous_ash'} \subseteq Headers
      PROVE  CacheInv'
  <2>1. TypeOK'
    BY <1>7 DEF CacheInv, TypeOK
  <2>2. GopInv'
    BY <1>7 DEF GopInv
  <2> QED BY <1>7, <2>1, <2>2 DEF CacheInv
<1>14. data.n = 0 /\ vsh.n = 0
  BY DEF CacheInv, AudioInv
<1> HIDE DEF GopOK
<1>8. CASE OnMetaData
  <2> DEFINE m == Msg("data", 0, 0)
  <2>1. m \in Headers
    BY <1>1, MsgTypes
  <2>2. log' \in Logs
    BY <1>3, <1>8, <2>1, GivenLogs DEF OnMetaData
  <2>3. /\ data' = m /\ n' = n /\ gop' = gop /\ phase' \in {"on", "failing"}
        /\ UNCHANGED <<vsh, ash, previous_vsh, previous_ash>>
    BY <1>8 DEF OnMetaData, HubTakes, HubFails
  <2>4. m.kind = "data" /\ m.session = session /\ m.n = 0
    BY DEF Msg
  <2>5. MetaInv'
    BY <1>2, <2>3, <2>4 DEF CacheInv, MetaInv
  <2>6. AudioInv'
    BY <1>13, <1>14, <2>3, <2>4
  <2> HIDE DEF m
  <2> QED BY <1>2, <1>3, <1>6, <1>7, <2>1, <2>2, <2>3, <2>5, <2>6
<1>9. CASE OnAudioHeader
  <2> DEFINE m == Msg("ash", 0, 1)
  <2>1. m \in Headers
    BY <1>1, MsgTypes
  <2>2. log' \in Logs
    BY <1>3, <1>9, <2>1, GivenLogs DEF OnAudioHeader
  <2>3. /\ ash' \in {m, ash} /\ previous_ash' \in {m, previous_ash}
        /\ n' = n /\ gop' = gop /\ phase' \in {"on", "failing"}
        /\ UNCHANGED <<data, vsh, previous_vsh>>
    BY <1>9 DEF OnAudioHeader, HubTakes, HubFails
  <2>4. m.kind = "ash" /\ m.session = session /\ m.n = 0
    BY DEF Msg
  <2> HIDE DEF m
  <2>5. MetaInv'
    BY <1>2, <2>3, <2>4 DEF CacheInv, MetaInv
  <2>6. AudioInv'
    <3>1. CASE ash' = ash
      BY <1>13, <1>14, <2>3, <3>1
    <3>2. CASE ash' = m
      <4>1. m # NULL
        BY <2>4 DEF NULL
      <4>2. gop \in Gops
        BY SourceTypes
      <4>5. \A i \in 1 .. Len(gop.msgs) : gop.msgs[i] \in Frames
        BY <4>2 DEF Gops
      <4>3. \A i \in 1 .. Len(gop.msgs) : gop.msgs[i].n >= 0
        BY <4>5, FramesHaveNumbers
      <4>4. 0 <= n'
        BY <1>3, <2>3
      <4> QED BY <1>14, <2>3, <2>4, <3>2, <4>1, <4>3, <4>4 DEF AudioInv
    <3> QED BY <2>3, <3>1, <3>2
  <2> QED BY <1>2, <1>3, <1>6, <1>7, <2>1, <2>2, <2>3, <2>5, <2>6
<1>10. CASE OnAudio
  <2> DEFINE m == Msg("audio", n + 1, 0)
  <2>1. m \in Headers /\ m \in Frames
    BY <1>1, MsgTypes
  <2>2. log' \in Logs
    BY <1>3, <1>10, <2>1, GivenLogs DEF OnAudio
  <2>3. /\ ash' \in {m, ash} /\ previous_ash' \in {m, previous_ash}
        /\ n' = n + 1
        /\ (HubTakes /\ Cache(m)) \/ (HubFails /\ gop' = gop)
        /\ UNCHANGED <<data, vsh, previous_vsh>>
        /\ \/ gop' = gop /\ ash' = ash
           \/ Cache(m) /\ ash' = (IF ash = NULL THEN m ELSE ash)
    BY <1>10 DEF OnAudio
  <2>4. m.kind = "audio" /\ m.session = session /\ m.n = n + 1
    BY DEF Msg
  <2> HIDE DEF m
  <2>5. MetaInv'
    BY <1>2, <2>3, <2>4 DEF CacheInv, MetaInv
  <2>6. GopOK
    <3>1. CASE HubTakes /\ Cache(m)
      BY <1>1, <2>1, <2>3, <2>4, <3>1, CacheStep DEF GopOK
    <3>2. CASE HubFails /\ gop' = gop
      BY <1>6, <2>3, <3>2 DEF HubFails
    <3> QED BY <2>3, <3>1, <3>2
  <2>7. phase' \in {"on", "failing"}
    BY <2>3 DEF HubTakes, HubFails
  <2>8. AudioInv'
    <3>1. CASE gop' = gop /\ ash' = ash
      BY <1>13, <1>14, <2>3, <3>1
    <3>2. CASE Cache(m) /\ ash' = (IF ash = NULL THEN m ELSE ash)
      <4>1. m # NULL /\ ash' # NULL
        BY <2>4, <3>2 DEF NULL
      <4>2. ash.n \in Nat /\ ash.n <= n
        BY <1>3, LiveSourceAssumption DEF Headers, CacheInv, AudioInv
      <4>3. ash'.n <= n + 1 /\ (ash'.n # 0 => ash'.kind = "audio")
        BY <1>3, <2>4, <3>2, <4>2 DEF CacheInv, AudioInv
      <4>4. ASSUME NEW i \in 1 .. Len(gop'.msgs), gop'.msgs[i].kind = "audio"
            PROVE  gop'.msgs[i].n >= ash'.n
        <5>1. \/ gop'.msgs[i] = m
              \/ \E k \in 1 .. Len(gop.msgs) : gop'.msgs[i] = gop.msgs[k]
          BY <2>1, <3>2, SourceTypes, CachedAre DEF Cache
        <5>2. CASE gop'.msgs[i] = m
          BY <1>3, <2>4, <4>2, <4>3, <5>2
        <5>3. CASE \E k \in 1 .. Len(gop.msgs) : gop'.msgs[i] = gop.msgs[k]
          BY <3>2, <4>4, <5>3 DEF CacheInv, AudioInv
        <5> QED BY <5>1, <5>2, <5>3
      <4> QED BY <1>14, <2>3, <4>1, <4>3, <4>4 DEF AudioInv
    <3> QED BY <2>3, <3>1, <3>2
  <2> QED BY <1>2, <1>3, <1>7, <2>1, <2>2, <2>3, <2>5, <2>6, <2>7, <2>8
<1>11. ASSUME NEW cfg \in Cfgs, OnVideoHeader(cfg) PROVE CacheInv'
  <2> DEFINE m == Msg("vsh", 0, cfg)
  <2>1. m \in Headers
    BY <1>1, MsgTypes
  <2>2. log' \in Logs
    BY <1>3, <1>11, <2>1, GivenLogs DEF OnVideoHeader
  <2>3. /\ vsh' = m /\ previous_vsh' = m
        /\ n' = n /\ gop' = gop /\ phase' \in {"on", "failing"}
        /\ UNCHANGED <<data, ash, previous_ash>>
    BY <1>11 DEF OnVideoHeader, HubTakes, HubFails
  <2>4. m.kind = "vsh" /\ m.session = session /\ m.cfg = cfg /\ m.n = 0
    BY DEF Msg
  <2> HIDE DEF m
  <2>5. MetaInv'
    BY <1>2, <2>3, <2>4 DEF CacheInv, MetaInv
  <2>6. AudioInv'
    BY <1>13, <1>14, <2>3, <2>4
  <2> QED BY <1>2, <1>3, <1>6, <1>7, <2>1, <2>2, <2>3, <2>5, <2>6
<1>12. ASSUME NEW kind \in {"key", "inter"}, OnVideo(kind) PROVE CacheInv'
  <2> DEFINE m == Msg(kind, n + 1, vsh.cfg)
  <2>1. m \in Frames
    <3>1. vsh.cfg \in Cfgs \cup {0}
      BY DEF CacheInv, MetaInv, NULL
    <3> QED BY <1>1, <3>1, MsgTypes
  <2>2. log' \in Logs
    BY <1>3, <1>12, <2>1, GivenLogs DEF OnVideo
  <2>3. /\ n' = n + 1
        /\ (HubTakes /\ Cache(m)) \/ (HubFails /\ gop' = gop)
        /\ UNCHANGED meta
    BY <1>12 DEF OnVideo
  <2>4. m.session = session /\ m.n = n + 1 /\ m.kind # "audio"
    BY DEF Msg
  <2> HIDE DEF m
  <2>5. MetaInv'
    BY <1>2, <2>3 DEF CacheInv, MetaInv, meta
  <2>6. GopOK
    <3>1. CASE HubTakes /\ Cache(m)
      BY <1>1, <2>1, <2>3, <2>4, <3>1, CacheStep DEF GopOK
    <3>2. CASE HubFails /\ gop' = gop
      BY <1>6, <2>3, <3>2 DEF HubFails
    <3> QED BY <2>3, <3>1, <3>2
  <2>7. phase' \in {"on", "failing"}
    BY <2>3 DEF HubTakes, HubFails
  <2>8. AudioInv'
    <3>1. CASE gop' = gop
      BY <1>13, <1>14, <2>3, <3>1 DEF meta
    <3>2. CASE Cache(m)
      <4>1. ash.n \in Nat /\ ash.n <= n'
        BY <1>3, <2>3, LiveSourceAssumption DEF Headers, CacheInv, AudioInv
      <4>2. ASSUME NEW i \in 1 .. Len(gop'.msgs), gop'.msgs[i].kind = "audio"
            PROVE  ash # NULL /\ gop'.msgs[i].n >= ash.n
        <5>1. \E k \in 1 .. Len(gop.msgs) : gop'.msgs[i] = gop.msgs[k]
          BY <2>1, <2>4, <3>2, <4>2, SourceTypes, CachedAre DEF Cache
        <5> QED BY <4>2, <5>1 DEF CacheInv, AudioInv
      <4>3. UNCHANGED <<data, vsh, ash>>
        BY <2>3 DEF meta
      <4> QED BY <1>14, <4>1, <4>2, <4>3 DEF CacheInv, AudioInv
    <3> QED BY <2>3, <3>1, <3>2
  <2> QED BY <1>2, <1>3, <1>7, <2>1, <2>2, <2>3, <2>5, <2>6, <2>7, <2>8 DEF meta
<1> QED BY <1>8, <1>9, <1>10, <1>11, <1>12

(* What a consumer that joins is given: at most one message of each cache, and *)
(* then the frames of the GOP.                                                *)
LEMMA DumpIsLog ==
    ASSUME CacheInv, NEW b \in BOOLEAN
    PROVE  /\ Dump(b) \in Seq(Headers \cup Frames)
           /\ \E h \in Seq(Headers), g \in Seq(Frames) :
                 /\ Dump(b) = h \o g
                 /\ g \in {<<>>, gop.msgs}
                 /\ h = Heads
           /\ Len(Heads) \in 0 .. 3
<1> DEFINE h == One(data) \o One(ash) \o One(vsh)
           g == IF b THEN gop.msgs ELSE <<>>
<1>1. \A x \in Headers : One(x) \in Seq(Headers)
  BY DEF One
<1>2. One(data) \in Seq(Headers) /\ One(ash) \in Seq(Headers) /\ One(vsh) \in Seq(Headers)
  BY <1>1 DEF CacheInv, TypeOK
<1>8. Len(One(data)) \in {0, 1} /\ Len(One(ash)) \in {0, 1} /\ Len(One(vsh)) \in {0, 1}
  BY DEF One
<1>3. h \in Seq(Headers) /\ Len(h) \in 0 .. 3
  <2> DEFINE D == One(data)
             A == One(ash)
             V == One(vsh)
  <2>1. /\ D \in Seq(Headers) /\ A \in Seq(Headers) /\ V \in Seq(Headers)
        /\ Len(D) \in {0, 1} /\ Len(A) \in {0, 1} /\ Len(V) \in {0, 1}
    BY <1>2, <1>8
  <2> HIDE DEF D, A, V
  <2>2. D \o A \o V \in Seq(Headers) /\ Len(D \o A \o V) = Len(D) + Len(A) + Len(V)
    BY <2>1
  <2>3. Len(D) + Len(A) + Len(V) \in 0 .. 3
    <3> DEFINE d == Len(D)
               a == Len(A)
               v == Len(V)
    <3>1. d \in {0, 1} /\ a \in {0, 1} /\ v \in {0, 1}
      BY <2>1
    <3> HIDE DEF d, a, v
    <3>2. d + a + v \in 0 .. 3
      BY <3>1
    <3> QED BY <3>2 DEF d, a, v
  <2> QED BY <2>2, <2>3 DEF D, A, V
<1>4. g \in Seq(Frames) /\ g \in {<<>>, gop.msgs}
  BY SourceTypes DEF Gops
<1>5. Dump(b) = h \o g /\ Heads = h
  BY DEF Dump, Heads
<1> HIDE DEF h, g
<1>6. h \in Seq(Headers \cup Frames) /\ g \in Seq(Headers \cup Frames)
  BY <1>3, <1>4
<1>7. h \o g \in Seq(Headers \cup Frames)
  BY <1>6
<1> QED BY <1>3, <1>4, <1>5, <1>7

LEMMA CacheNext == CacheInv /\ [Next]_vars => CacheInv'
<1> SUFFICES ASSUME CacheInv, [Next]_vars PROVE CacheInv'
  OBVIOUS
<1> DEFINE GopType == [on : BOOLEAN, videos : 0 .. MaxMsgs, audios : 0 .. PureAudioGuess,
                       msgs : Seq(Frames)]
<1>1. /\ session \in Nat /\ n \in Nat /\ sent \in Nat /\ MaxSessions \in Nat
      /\ session <= MaxSessions /\ gop \in GopType /\ gop.on \in BOOLEAN
      /\ NULL \in Headers /\ {data, vsh, ash, previous_vsh, previous_ash} \subseteq Headers
  BY SourceTypes DEF CacheInv, TypeOK
<1>2. CASE \/ OnMetaData \/ OnAudioHeader \/ OnAudio
           \/ \E cfg \in Cfgs : OnVideoHeader(cfg)
           \/ \E kind \in {"key", "inter"} : OnVideo(kind)
  BY <1>2, MessageStep
<1>3. CASE OnPublish
  <2>1. /\ phase = "off" /\ session < MaxSessions /\ session' = session + 1 /\ n' = 0
        /\ phase' \in {"on", "failing", "closing"}
        /\ data' = NULL /\ vsh' = NULL /\ ash' = NULL
        /\ UNCHANGED <<sent, previous_vsh, previous_ash, gop, log, joined, heads>>
    BY <1>3 DEF OnPublish, ClearMeta
  <2>2. gop.msgs = <<>> /\ Counts(gop) /\ gop \in Gops
    BY <2>1, SourceTypes DEF CacheInv, GopInv
  <2>3. gop.videos = 0
    BY <2>2, NoVideoIsEmpty
  <2>4. Counts(gop) /\ Consecutive(gop, session') /\ EndsAt(gop, n')
    BY <2>2, <2>3, EmptyIsSound
  <2>5. session' \in 0 .. MaxSessions /\ session' # 0 /\ n' \in 0 .. sent
    BY <1>1, <2>1
  <2>6. TypeOK'
    BY <1>1, <2>1, <2>5 DEF CacheInv, TypeOK
  <2>7. MetaInv'
    BY <2>1 DEF CacheInv, MetaInv
  <2>8. GopInv'
    BY <2>1, <2>2, <2>3, <2>4, <2>5 DEF GopInv
  <2>9. AudioInv'
    BY <2>1, <2>2 DEF AudioInv, NULL
  <2> QED BY <2>6, <2>7, <2>8, <2>9 DEF CacheInv
<1>4. CASE HubUnpublishes
  <2>1. /\ phase \in {"on", "failing"} /\ phase' = "closing"
        /\ UNCHANGED <<session, sent, n, data, vsh, ash, previous_vsh, previous_ash,
                       gop, log, joined, heads>>
    BY <1>4 DEF HubUnpublishes, meta
  <2> QED BY <2>1 DEF CacheInv, TypeOK, MetaInv, GopInv, AudioInv
<1>5. ASSUME gop' \in GopType, gop'.msgs = <<>>, gop'.videos = 0
      PROVE  Counts(gop') /\ Consecutive(gop', session) /\ EndsAt(gop', n) /\ gop'.videos <= n
  BY <1>1, <1>5, EmptyIsSound
<1>6. CASE OnUnpublish
  <2>1. /\ phase = "closing" /\ phase' = "off"
        /\ previous_vsh' = vsh /\ previous_ash' = ash
        /\ UNCHANGED <<session, sent, n, data, vsh, ash, log, joined, heads>>
    BY <1>6 DEF OnUnpublish
  <2>2. gop' = EmptyGop(gop.on)
    BY <1>6 DEF OnUnpublish, ClearGop
  <2>3. gop' \in GopType /\ gop'.msgs = <<>> /\ gop'.videos = 0
    BY <1>1, <2>2, EmptyGopType
  <2>4. TypeOK'
    BY <1>1, <2>1, <2>3 DEF CacheInv, TypeOK
  <2>5. MetaInv'
    BY <2>1 DEF CacheInv, MetaInv
  <2>6. GopInv'
    BY <1>5, <2>1, <2>3 DEF CacheInv, GopInv
  <2>7. AudioInv'
    BY <2>1, <2>3 DEF CacheInv, AudioInv
  <2> QED BY <2>4, <2>5, <2>6, <2>7 DEF CacheInv
<1>7. ASSUME NEW c \in Consumers, NEW b \in BOOLEAN, CreateConsumer(c, b) PROVE CacheInv'
  <2>1. /\ UNCHANGED <<phase, session, sent, n, data, vsh, ash, previous_vsh, previous_ash, gop>>
        /\ joined' = [joined EXCEPT ![c] = IF phase \in {"off", "closing"} THEN session + 1 ELSE session]
        /\ log' = [log EXCEPT ![c] = IF Active THEN Dump(b) ELSE <<>>]
        /\ heads' = [heads EXCEPT ![c] = IF Active THEN Len(Heads) ELSE 0]
    BY <1>7 DEF CreateConsumer, meta
  <2>2. joined' \in [Consumers -> 0 .. MaxSessions + 1]
    <3>1. session \in 0 .. MaxSessions + 1 /\ session + 1 \in 0 .. MaxSessions + 1
      BY <1>1
    <3> QED BY <2>1, <3>1 DEF CacheInv, TypeOK
  <2>3. Dump(b) \in Seq(Headers \cup Frames) /\ Len(Heads) \in 0 .. 3
    BY DumpIsLog
  <2>4. log' \in [Consumers -> Seq(Headers \cup Frames)]
    BY <2>1, <2>3 DEF CacheInv, TypeOK
  <2>6. heads' \in [Consumers -> 0 .. 3]
    BY <2>1, <2>3 DEF CacheInv, TypeOK
  <2>5. TypeOK'
    BY <2>1, <2>2, <2>4, <2>6 DEF CacheInv, TypeOK
  <2> QED BY <2>1, <2>5 DEF CacheInv, MetaInv, GopInv, AudioInv
<1>8. ASSUME NEW c \in Consumers, OnConsumerDestroy(c) PROVE CacheInv'
  <2>1. /\ UNCHANGED <<phase, session, sent, n, data, vsh, ash, previous_vsh, previous_ash, gop>>
        /\ joined' = [joined EXCEPT ![c] = 0]
        /\ log' = [log EXCEPT ![c] = <<>>]
        /\ heads' = [heads EXCEPT ![c] = 0]
    BY <1>8 DEF OnConsumerDestroy, meta
  <2>2. joined' \in [Consumers -> 0 .. MaxSessions + 1]
    BY <1>1, <2>1 DEF CacheInv, TypeOK
  <2>3. log' \in [Consumers -> Seq(Headers \cup Frames)]
    BY <2>1 DEF CacheInv, TypeOK
  <2>5. heads' \in [Consumers -> 0 .. 3]
    BY <2>1 DEF CacheInv, TypeOK
  <2>4. TypeOK'
    BY <2>1, <2>2, <2>3, <2>5 DEF CacheInv, TypeOK
  <2> QED BY <2>1, <2>4 DEF CacheInv, MetaInv, GopInv, AudioInv
<1>9. ASSUME gop' \in GopType, gop'.msgs = <<>>, gop'.videos = 0,
             UNCHANGED <<phase, session, sent, n, data, vsh, ash, previous_vsh,
                         previous_ash, log, joined, heads>>
      PROVE  CacheInv'
  <2>1. TypeOK'
    BY <1>9 DEF CacheInv, TypeOK
  <2>2. GopInv'
    BY <1>5, <1>9 DEF CacheInv, GopInv
  <2>3. AudioInv'
    BY <1>9 DEF CacheInv, AudioInv
  <2> QED BY <1>9, <2>1, <2>2, <2>3 DEF CacheInv, MetaInv
<1>10. ASSUME NEW v \in BOOLEAN, SetCache(v) PROVE CacheInv'
  <2>1. UNCHANGED <<phase, session, sent, n, data, vsh, ash, previous_vsh,
                    previous_ash, log, joined, heads>>
    BY <1>10 DEF SetCache, meta
  <2>2. CASE v
    <3>1. gop.msgs = <<>>
      BY <1>10, <2>2 DEF SetCache, CacheInv, GopInv
    <3>2. gop.videos = 0
      BY <3>1, SourceTypes, NoVideoIsEmpty DEF CacheInv, GopInv
    <3>3. gop' = [gop EXCEPT !.on = TRUE]
      BY <1>10, <2>2 DEF SetCache
    <3>4. gop' \in GopType /\ gop'.msgs = <<>> /\ gop'.videos = 0
      BY <1>1, <3>1, <3>2, <3>3
    <3> QED BY <1>9, <2>1, <3>4
  <2>3. CASE ~v
    <3>1. gop' = EmptyGop(FALSE)
      BY <1>10, <2>3 DEF SetCache
    <3>2. gop' \in GopType /\ gop'.msgs = <<>> /\ gop'.videos = 0
      BY <3>1, LiveSourceAssumption DEF EmptyGop
    <3> QED BY <1>9, <2>1, <3>2
  <2> QED BY <2>2, <2>3
<1>11. CASE ReloadAtc
  <2>1. /\ gop' = EmptyGop(gop.on)
        /\ UNCHANGED <<phase, session, sent, n, data, vsh, ash, previous_vsh,
                       previous_ash, log, joined, heads>>
    BY <1>11 DEF ReloadAtc, meta
  <2>2. gop' \in GopType /\ gop'.msgs = <<>> /\ gop'.videos = 0
    BY <1>1, <2>1, EmptyGopType
  <2> QED BY <1>9, <2>1, <2>2
<1>12. CASE UNCHANGED vars
  BY <1>12 DEF vars, CacheInv, TypeOK, MetaInv, GopInv, AudioInv
<1> QED BY <1>2, <1>3, <1>4, <1>6, <1>7, <1>8, <1>10, <1>11, <1>12 DEF Next

(* Whatever is published, refused by the hub, reloaded and joined, every       *)
(* variable has its type, the counters of the GOP cache agree with what it     *)
(* holds, and the cache is the end of the stream.                             *)
THEOREM SourceCachesGop == Spec => []GopIsSound
<1>1. Spec => []CacheInv
  BY CacheInit, CacheNext, PTL DEF Spec
<1> QED BY <1>1, CacheInvIsSound, PTL
-----------------------------------------------------------------------------
(* The logs.                                                                  *)
Msgs == Headers \cup Frames

Apart(s, first) ==
    \A i \in 1 .. Len(s) :
        /\ s[i].session >= first
        /\ i > 1 => s[i].session >= s[i - 1].session

UpTo(s, last) == \A i \in 1 .. Len(s) : s[i].session <= last

(* A consumer that is not there has no log; one that joins between two        *)
(* publishes waits for the next one.                                          *)
SessionsOf(c) ==
    /\ joined[c] = 0 => log[c] = <<>>
    /\ joined[c] <= session + 1
    /\ phase \in {"on", "failing"} => joined[c] <= session
    /\ Apart(log[c], joined[c])
    /\ UpTo(log[c], session)

(* What follows is about the messages of a log after the first h of them.      *)
Linked(s, h) ==
    \A i, j \in h + 1 .. Len(s) : NextFrame(s, i, j) => Follows(s[i], s[j])

LastFrame(s, i) == s[i].n # 0 /\ \A k \in i + 1 .. Len(s) : s[k].n = 0

(* The last frame of the log is the last one sent, unless this publish sent   *)
(* none yet.                                                                  *)
UpToDate(s, h, number, num) ==
    \A i \in h + 1 .. Len(s) : LastFrame(s, i) =>
        \/ s[i].session = number /\ s[i].n = num
        \/ s[i].session < number /\ num = 0

(* The first h messages are headers, or the first audio frame of the publish.  *)
Starts(s, h, number, num) ==
    /\ h <= Len(s)
    /\ OnlyFirstAudioTwice(s, h)
    /\ \A i \in 1 .. h : s[i].session = number => s[i].n <= num

FramesOf(c) ==
    /\ Linked(log[c], heads[c])
    /\ phase = "on" => UpToDate(log[c], heads[c], session, n)
    /\ Starts(log[c], heads[c], session, n)

LogInv == CacheInv /\ \A c \in Consumers : SessionsOf(c) /\ FramesOf(c)

LEMMA MsgsHaveNumbers ==
    ASSUME NEW m \in Msgs
    PROVE  m.session \in Nat /\ m.n \in Nat
BY LiveSourceAssumption DEF Msgs, Headers, Frames

LEMMA AppendedSessions ==
    ASSUME NEW s \in Seq(Msgs), NEW m \in Msgs, NEW first \in Nat,
           Apart(s, first), UpTo(s, m.session), first <= m.session
    PROVE  Apart(Append(s, m), first) /\ UpTo(Append(s, m), m.session)
<1> DEFINE t == Append(s, m)
           L == Len(s)
<1>1. L \in Nat /\ Len(t) = L + 1 /\ t[L + 1] = m /\ \A i \in 1 .. L : t[i] = s[i]
  OBVIOUS
<1>2. m.session \in Nat /\ \A i \in 1 .. L : s[i].session \in Nat
  BY MsgsHaveNumbers
<1> HIDE DEF t
<1>3. ASSUME NEW i \in 1 .. L + 1
      PROVE  /\ t[i].session >= first /\ t[i].session <= m.session
             /\ i > 1 => t[i].session >= t[i - 1].session
  <2>1. CASE i \in 1 .. L
    <3>1. i > 1 => i - 1 \in 1 .. L
      BY <2>1
    <3> QED BY <1>1, <2>1, <3>1 DEF Apart, UpTo
  <2>2. CASE i = L + 1
    <3>1. i > 1 => L \in 1 .. L /\ i - 1 = L
      BY <1>1, <2>2
    <3> QED BY <1>1, <1>2, <2>2, <3>1 DEF UpTo
  <2> QED BY <1>1, <2>1, <2>2
<1>4. Apart(t, first) /\ UpTo(t, m.session)
  BY <1>1, <1>3 DEF Apart, UpTo
<1> QED BY <1>4 DEF t

(* A header, and the next frame, at the end of a log.                         *)
LEMMA AppendedHeader ==
    ASSUME NEW s \in Seq(Msgs), NEW m \in Msgs, m.n = 0, NEW h \in Nat, Linked(s, h)
    PROVE  /\ Linked(Append(s, m), h)
           /\ \A number, num \in Nat :
                 UpToDate(s, h, number, num) => UpToDate(Append(s, m), h, number, num)
<1> DEFINE t == Append(s, m)
           L == Len(s)
<1>1. L \in Nat /\ Len(t) = L + 1 /\ t[L + 1] = m /\ \A i \in 1 .. L : t[i] = s[i]
  OBVIOUS
<1> HIDE DEF t
<1>2. ASSUME NEW i \in h + 1 .. L + 1, NEW j \in h + 1 .. L + 1, NextFrame(t, i, j)
      PROVE  Follows(t[i], t[j])
  <2>1. i \in h + 1 .. L /\ j \in h + 1 .. L
    BY <1>1, <1>2 DEF NextFrame
  <2>2. \A k \in i + 1 .. j - 1 : k \in 1 .. L
    BY <1>1, <2>1
  <2>3. NextFrame(s, i, j)
    BY <1>1, <1>2, <2>1, <2>2 DEF NextFrame
  <2> QED BY <1>1, <2>1, <2>3 DEF Linked
<1>3. ASSUME NEW number \in Nat, NEW num \in Nat, UpToDate(s, h, number, num),
             NEW i \in h + 1 .. L + 1, LastFrame(t, i)
      PROVE  \/ t[i].session = number /\ t[i].n = num
             \/ t[i].session < number /\ num = 0
  <2>1. i \in h + 1 .. L
    BY <1>1, <1>3 DEF LastFrame
  <2>2. \A k \in i + 1 .. L : k \in i + 1 .. Len(t) /\ t[k] = s[k]
    BY <1>1, <2>1
  <2>3. LastFrame(s, i)
    BY <1>1, <1>3, <2>1, <2>2 DEF LastFrame
  <2> QED BY <1>1, <1>3, <2>1, <2>3 DEF UpToDate
<1>4. Linked(t, h)
  BY <1>1, <1>2 DEF Linked
<1>5. \A number, num \in Nat : UpToDate(s, h, number, num) => UpToDate(t, h, number, num)
  BY <1>1, <1>3 DEF UpToDate
<1> QED BY <1>4, <1>5 DEF t

LEMMA AppendedFrame ==
    ASSUME NEW s \in Seq(Msgs), NEW m \in Msgs, NEW num \in Nat, m.n = num + 1,
           NEW h \in Nat, h <= Len(s), Linked(s, h), UpToDate(s, h, m.session, num)
    PROVE  Linked(Append(s, m), h) /\ UpToDate(Append(s, m), h, m.session, num + 1)
<1> DEFINE t == Append(s, m)
           L == Len(s)
<1>1. L \in Nat /\ Len(t) = L + 1 /\ t[L + 1] = m /\ \A i \in 1 .. L : t[i] = s[i]
  OBVIOUS
<1> HIDE DEF t
<1>2. ASSUME NEW i \in h + 1 .. L + 1, NEW j \in h + 1 .. L + 1, NextFrame(t, i, j)
      PROVE  Follows(t[i], t[j])
  <2>1. i \in h + 1 .. L /\ i < j
    BY <1>1, <1>2 DEF NextFrame
  <2>2. CASE j \in h + 1 .. L
    <3>1. \A k \in i + 1 .. j - 1 : k \in 1 .. L
      BY <1>1, <2>1, <2>2
    <3>2. NextFrame(s, i, j)
      BY <1>1, <1>2, <2>1, <2>2, <3>1 DEF NextFrame
    <3> QED BY <1>1, <2>1, <2>2, <3>2 DEF Linked
  <2>3. CASE j = L + 1
    <3>1. \A k \in i + 1 .. L : k \in i + 1 .. j - 1 /\ t[k] = s[k]
      BY <1>1, <2>1, <2>3
    <3>5. i \in 1 .. L
      BY <1>1, <2>1
    <3>6. t[i].n # 0 /\ \A k \in i + 1 .. j - 1 : t[k].n = 0
      BY <1>2 DEF NextFrame
    <3>2. LastFrame(s, i)
      BY <1>1, <3>1, <3>5, <3>6 DEF LastFrame
    <3>3. \/ s[i].session = m.session /\ s[i].n = num
          \/ s[i].session < m.session /\ num = 0
      BY <2>1, <3>2 DEF UpToDate
    <3>4. s[i].session \in Nat /\ m.session \in Nat
      BY <2>1, MsgsHaveNumbers
    <3> QED BY <1>1, <2>1, <2>3, <3>3, <3>4 DEF Follows
  <2> QED BY <1>1, <2>2, <2>3
<1>3. ASSUME NEW i \in h + 1 .. L + 1, LastFrame(t, i)
      PROVE  t[i].session = m.session /\ t[i].n = num + 1
  <2>1. i = L + 1
    <3> SUFFICES ASSUME i \in h + 1 .. L PROVE FALSE
      BY <1>1
    <3>1. L + 1 \in i + 1 .. Len(t)
      BY <1>1
    <3>2. t[L + 1].n = 0
      BY <1>3, <3>1 DEF LastFrame
    <3> QED BY <1>1, <3>2
  <2> QED BY <1>1, <2>1
<1>4. Linked(t, h)
  BY <1>1, <1>2 DEF Linked
<1>5. UpToDate(t, h, m.session, num + 1)
  BY <1>1, <1>3 DEF UpToDate
<1> QED BY <1>4, <1>5 DEF t

(* No message after them is an older audio frame.                             *)
LEMMA AppendedStarts ==
    ASSUME NEW s \in Seq(Msgs), NEW m \in Msgs, NEW h \in Nat, NEW num \in Nat,
           NEW last \in Nat, num <= last, Starts(s, h, m.session, num),
           m.kind = "audio" => m.n = last
    PROVE  Starts(Append(s, m), h, m.session, last)
<1> DEFINE t == Append(s, m)
           L == Len(s)
<1>1. L \in Nat /\ Len(t) = L + 1 /\ t[L + 1] = m /\ \A i \in 1 .. L : t[i] = s[i]
  OBVIOUS
<1> HIDE DEF t
<1>2. h <= L
  BY DEF Starts
<1>3. \A i \in 1 .. h : t[i] = s[i] /\ s[i].n \in Nat
  BY <1>1, <1>2, MsgsHaveNumbers
<1>4. \A i \in 1 .. h : t[i].session = m.session => t[i].n <= last
  BY <1>3 DEF Starts
<1>5. ASSUME NEW i \in 1 .. h, t[i].n # 0
      PROVE  /\ t[i].kind = "audio"
             /\ \A j \in h + 1 .. Len(t) :
                   t[j].kind = "audio" /\ t[j].session = t[i].session => t[j].n >= t[i].n
  <2>1. /\ s[i].kind = "audio"
        /\ \A j \in h + 1 .. L :
              s[j].kind = "audio" /\ s[j].session = s[i].session => s[j].n >= s[i].n
    BY <1>3, <1>5 DEF Starts, OnlyFirstAudioTwice
  <2>2. ASSUME NEW j \in h + 1 .. Len(t), t[j].kind = "audio", t[j].session = t[i].session
        PROVE  t[j].n >= t[i].n
    <3>1. CASE j \in h + 1 .. L
      BY <1>1, <1>3, <2>1, <2>2, <3>1
    <3>2. CASE j = L + 1
      <4>1. t[j].n = last /\ t[i].session = m.session
        BY <1>1, <2>2, <3>2
      <4> QED BY <1>3, <1>4, <4>1
    <3> QED BY <1>1, <1>2, <3>1, <3>2
  <2> QED BY <1>3, <2>1, <2>2
<1> QED BY <1>1, <1>2, <1>4, <1>5 DEF Starts, OnlyFirstAudioTwice, t

LEMMA StartsLater ==
    ASSUME NEW s \in Seq(Msgs), NEW h \in Nat, NEW number, NEW num \in Nat,
           NEW last \in Nat, num <= last, Starts(s, h, number, num)
    PROVE  Starts(s, h, number, last)
<1>1. \A i \in 1 .. h : s[i].n \in Nat
  BY MsgsHaveNumbers DEF Starts
<1> QED BY <1>1 DEF Starts

(* Headers, and then frames of which each follows the other.                  *)
LEMMA DumpedFrames ==
    ASSUME NEW h \in Seq(Msgs), NEW g \in Seq(Frames), NEW number \in Nat, NEW num,
           \A i \in 1 .. Len(h) : h[i].session = number,
           \A i \in 1 .. Len(g) : g[i].session = number,
           \A i \in 1 .. Len(g) - 1 : g[i + 1].n = g[i].n + 1
    PROVE  /\ Apart(h \o g, number) /\ UpTo(h \o g, number) /\ Linked(h \o g, Len(h))
           /\ (g # <<>> => g[Len(g)].n = num) => UpToDate(h \o g, Len(h), number, num)
<1> DEFINE t == h \o g
           L == Len(h)
           N == Len(g)
<1>1. /\ L \in Nat /\ N \in Nat /\ Len(t) = L + N
      /\ \A i \in 1 .. L : t[i] = h[i]
      /\ \A i \in 1 .. N : t[L + i] = g[i] /\ g[i] \in Frames
  OBVIOUS
<1> HIDE DEF t
<1>2. ASSUME NEW i \in 1 .. L + N
      PROVE  \/ i \in 1 .. L /\ t[i].session = number
             \/ \E k \in 1 .. N : /\ i = L + k /\ t[i] = g[k] /\ t[i].n \in Nat \ {0}
                                  /\ t[i].session = number
  <2>1. CASE i \in 1 .. L
    BY <1>1, <2>1
  <2>2. CASE i \in L + 1 .. L + N
    <3>1. i - L \in 1 .. N /\ i = L + (i - L)
      BY <1>1, <2>2
    <3>2. t[i] = g[i - L] /\ g[i - L] \in Frames
      BY <1>1, <3>1
    <3>3. t[i].n \in Nat \ {0}
      BY <3>2, FramesHaveNumbers
    <3> QED BY <3>1, <3>2, <3>3
  <2> QED BY <1>1, <2>1, <2>2
<1>3. \A i \in 1 .. L + N : t[i].session = number
  BY <1>2
<1>10. ASSUME NEW i \in L + 1 .. L + N
       PROVE  \E k \in 1 .. N : i = L + k /\ t[i] = g[k]
  <2>1. i - L \in 1 .. N /\ i = L + (i - L)
    BY <1>1
  <2>2. t[L + (i - L)] = g[i - L]
    BY <1>1, <2>1
  <2> QED BY <2>1, <2>2
<1>4. Apart(t, number) /\ UpTo(t, number)
  <2>1. \A i \in 1 .. L + N : i > 1 => i - 1 \in 1 .. L + N
    BY <1>1
  <2>2. \A i \in 1 .. Len(t) : t[i].session = number
    BY <1>1, <1>3
  <2>3. UpTo(t, number)
    BY <2>2 DEF UpTo
  <2>4. \A i \in 1 .. Len(t) : i > 1 => t[i - 1].session = number
    BY <1>1, <1>3, <2>1
  <2> QED BY <2>2, <2>3, <2>4 DEF Apart
<1>5. ASSUME NEW i \in L + 1 .. L + N, NEW j \in L + 1 .. L + N, NextFrame(t, i, j)
      PROVE  Follows(t[i], t[j])
  <2>1. i < j /\ t[i].n # 0 /\ t[j].n # 0
    BY <1>5 DEF NextFrame
  <2>2. PICK k \in 1 .. N : i = L + k /\ t[i] = g[k]
    BY <1>10
  <2>3. PICK l \in 1 .. N : j = L + l /\ t[j] = g[l]
    BY <1>10
  <2>4. l = k + 1
    <3> SUFFICES ASSUME l # k + 1 PROVE FALSE
      OBVIOUS
    <3>1. i + 1 \in i + 1 .. j - 1 /\ i + 1 = L + (k + 1) /\ k + 1 \in 1 .. N
      BY <1>1, <2>1, <2>2, <2>3
    <3>2. t[i + 1].n = 0
      BY <1>5, <3>1 DEF NextFrame
    <3>3. t[i + 1] = g[k + 1] /\ g[k + 1] \in Frames
      BY <1>1, <3>1
    <3>4. g[k + 1].n # 0
      BY <3>3, FramesHaveNumbers
    <3> QED BY <3>2, <3>3, <3>4
  <2>5. k \in 1 .. N - 1
    BY <1>1, <2>4
  <2>6. g[k + 1].n = g[k].n + 1 /\ g[k + 1].session = g[k].session
    BY <2>4, <2>5
  <2> QED BY <2>2, <2>3, <2>4, <2>6 DEF Follows
<1>6. ASSUME g # <<>> => g[Len(g)].n = num, NEW i \in L + 1 .. L + N, LastFrame(t, i)
      PROVE  t[i].session = number /\ t[i].n = num
  <2>1. t[i].n # 0
    BY <1>6 DEF LastFrame
  <2>2. PICK k \in 1 .. N : i = L + k /\ t[i] = g[k]
    BY <1>10
  <2>3. k = N
    <3> SUFFICES ASSUME k # N PROVE FALSE
      OBVIOUS
    <3>5. k + 1 \in 1 .. N
      BY <1>1
    <3>6. i + 1 = L + (k + 1) /\ i + 1 <= Len(t) /\ i + 1 \in Nat
      BY <1>1, <2>2, <3>5
    <3>1. i + 1 \in i + 1 .. Len(t) /\ i + 1 = L + (k + 1) /\ k + 1 \in 1 .. N
      BY <3>5, <3>6
    <3>2. t[i + 1].n = 0
      BY <1>6, <3>1 DEF LastFrame
    <3>3. t[i + 1] = g[k + 1] /\ g[k + 1] \in Frames
      BY <1>1, <3>1
    <3>4. g[k + 1].n # 0
      BY <3>3, FramesHaveNumbers
    <3> QED BY <3>2, <3>3, <3>4
  <2>4. g # <<>>
    BY <2>2
  <2> QED BY <1>1, <1>3, <1>6, <2>2, <2>3, <2>4
<1>7. Linked(t, L)
  BY <1>1, <1>5 DEF Linked
<1>8. (g # <<>> => g[Len(g)].n = num) => UpToDate(t, L, number, num)
  BY <1>1, <1>6 DEF UpToDate
<1> QED BY <1>4, <1>7, <1>8 DEF t

LEMMA DumpedStarts ==
    ASSUME NEW h \in Seq(Msgs), NEW g \in Seq(Frames), NEW num \in Nat, NEW first \in Nat,
           first <= num,
           \A i \in 1 .. Len(h) : h[i].n # 0 => h[i].kind = "audio" /\ h[i].n = first,
           \A i \in 1 .. Len(g) : g[i].kind = "audio" => g[i].n >= first
    PROVE  \A number : Starts(h \o g, Len(h), number, num)
<1> DEFINE t == h \o g
           L == Len(h)
           N == Len(g)
<1>1. /\ L \in Nat /\ N \in Nat /\ Len(t) = L + N
      /\ \A i \in 1 .. L : t[i] = h[i]
      /\ \A i \in 1 .. N : t[L + i] = g[i]
  OBVIOUS
<1> HIDE DEF t
<1>2. \A i \in 1 .. L : t[i].n <= num
  BY <1>1
<1>3. ASSUME NEW j \in L + 1 .. Len(t), t[j].kind = "audio" PROVE t[j].n >= first
  <2>1. j - L \in 1 .. N /\ j = L + (j - L)
    BY <1>1
  <2>2. t[j] = g[j - L]
    BY <1>1, <2>1
  <2> QED BY <1>3, <2>1, <2>2
<1>4. OnlyFirstAudioTwice(t, L)
  BY <1>1, <1>3 DEF OnlyFirstAudioTwice
<1> QED BY <1>1, <1>2, <1>4 DEF Starts, t

(* The headers of Dump: the metadata, the audio header and the video header,  *)
(* those there are, in this order.                                            *)
LEMMA DumpedHeaders ==
    ASSUME CacheInv
    PROVE  LET h == Heads
           IN  /\ h \in Seq(Msgs)
               /\ \A i \in 1 .. Len(h) : h[i].session = session
               /\ \A i \in 1 .. Len(h) : h[i].n # 0 => h[i].kind = "audio" /\ h[i].n = ash.n
               /\ \A i \in 1 .. Len(h) : h[i].kind = "vsh" =>
                     i = Len(h) /\ vsh # NULL /\ h[i].cfg = vsh.cfg
               /\ vsh # NULL => LastHas(h, "vsh", vsh.cfg)
               /\ ash.kind = "ash" => LastHas(h, "ash", ash.cfg)
<1> DEFINE D == One(data)
           A == One(ash)
           V == One(vsh)
           Sound(x) ==
               /\ x \in Seq(Msgs)
               /\ \A i \in 1 .. Len(x) : x[i].session = session
               /\ \A i \in 1 .. Len(x) : x[i].n # 0 => x[i].kind = "audio" /\ x[i].n = ash.n
               /\ \A i \in 1 .. Len(x) : x[i].kind = "vsh" =>
                     i = Len(x) /\ vsh # NULL /\ x[i].cfg = vsh.cfg
               /\ vsh # NULL => LastHas(x, "vsh", vsh.cfg)
               /\ ash.kind = "ash" => LastHas(x, "ash", ash.cfg)
<1> SUFFICES Sound(D \o A \o V)
  BY DEF Heads
<1>1. \A x \in Headers :
         /\ One(x) \in Seq(Headers)
         /\ x = NULL => Len(One(x)) = 0
         /\ x # NULL => Len(One(x)) = 1 /\ One(x)[1] = x
  BY DEF One
<1>2. data \in Headers /\ ash \in Headers /\ vsh \in Headers
  BY DEF CacheInv, TypeOK
<1>3. /\ D \in Seq(Headers) /\ (Len(D) = 0 \/ Len(D) = 1)
      /\ Len(D) = 1 => D[1].n = 0 /\ D[1].session = session /\ D[1].kind = "data"
  BY <1>1, <1>2 DEF CacheInv, MetaInv, AudioInv
<1>4. /\ A \in Seq(Headers) /\ (Len(A) = 0 \/ Len(A) = 1)
      /\ Len(A) = 1 => /\ A[1].n = ash.n /\ A[1].session = session
                       /\ A[1].n # 0 => A[1].kind = "audio"
                       /\ A[1].kind \in {"ash", "audio"}
      /\ ash.kind = "ash" => Len(A) = 1 /\ A[1].kind = "ash" /\ A[1].cfg = ash.cfg
  <2>1. ash.kind = "ash" => ash # NULL
    BY DEF NULL
  <2> QED BY <1>1, <1>2, <2>1 DEF CacheInv, MetaInv, AudioInv
<1>5. /\ V \in Seq(Headers) /\ (Len(V) = 0 \/ Len(V) = 1)
      /\ Len(V) = 1 => /\ V[1].n = 0 /\ V[1].session = session /\ V[1].kind = "vsh"
                       /\ vsh # NULL /\ V[1].cfg = vsh.cfg
      /\ vsh # NULL => Len(V) = 1
  BY <1>1, <1>2 DEF CacheInv, MetaInv, AudioInv
<1> DEFINE x == D \o A \o V
<1> HIDE DEF D, A, V
<1>6. /\ x \in Seq(Headers) /\ Len(x) = Len(D) + Len(A) + Len(V)
      /\ \A i \in 1 .. Len(x) :
            \/ i = 1 /\ Len(D) = 1 /\ x[i] = D[1]
            \/ i = Len(D) + 1 /\ Len(A) = 1 /\ x[i] = A[1]
            \/ i = Len(D) + Len(A) + 1 /\ Len(V) = 1 /\ x[i] = V[1]
      /\ Len(A) = 1 => x[Len(D) + 1] = A[1]
      /\ Len(V) = 1 => x[Len(D) + Len(A) + 1] = V[1]
  <2> DEFINE e == D \o A
             d == Len(D)
             l == Len(A)
             v == Len(V)
  <2>1. /\ d \in Nat /\ l \in Nat /\ v \in Nat /\ d <= 1 /\ l <= 1 /\ v <= 1
        /\ D \in Seq(Headers) /\ A \in Seq(Headers) /\ V \in Seq(Headers)
    <3>1. d = Len(D) /\ l = Len(A) /\ v = Len(V)
      OBVIOUS
    <3> HIDE DEF d, l, v
    <3> QED BY <1>3, <1>4, <1>5, <3>1
  <2>2. /\ e \in Seq(Headers) /\ Len(e) = d + l
        /\ \A i \in 1 .. d : e[i] = D[i]
        /\ \A i \in 1 .. l : e[d + i] = A[i]
    BY <2>1
  <2> HIDE DEF e
  <2>3. /\ x \in Seq(Headers) /\ Len(x) = d + l + v
        /\ \A i \in 1 .. Len(e) : x[i] = e[i]
        /\ \A i \in 1 .. v : x[Len(e) + i] = V[i]
    <3>1. x = e \o V
      BY DEF e
    <3> HIDE DEF x
    <3>2. e \o V \in Seq(Headers) /\ Len(e \o V) = Len(e) + v
      BY <2>1, <2>2
    <3>3. \A i \in 1 .. Len(e) : (e \o V)[i] = e[i]
      BY <2>1, <2>2
    <3>4. \A i \in 1 .. v : (e \o V)[Len(e) + i] = V[i]
      BY <2>1, <2>2
    <3> QED BY <2>2, <3>1, <3>2, <3>3, <3>4
  <2> HIDE DEF d, l, v, x
  <2>4. d = 1 => x[1] = D[1]
    BY <2>1, <2>2, <2>3
  <2>5. l = 1 => x[d + 1] = A[1]
    BY <2>1, <2>2, <2>3
  <2>6. v = 1 => x[d + l + 1] = V[1]
    <3>1. v = 1 => 1 \in 1 .. v
      OBVIOUS
    <3> QED BY <2>2, <2>3, <3>1
  <2>7. ASSUME NEW i \in 1 .. Len(x)
        PROVE  \/ i = 1 /\ d = 1
               \/ i = d + 1 /\ l = 1
               \/ i = d + l + 1 /\ v = 1
    BY <2>1, <2>3, <2>7
  <2>8. \A i \in 1 .. Len(x) :
            \/ i = 1 /\ d = 1 /\ x[i] = D[1]
            \/ i = d + 1 /\ l = 1 /\ x[i] = A[1]
            \/ i = d + l + 1 /\ v = 1 /\ x[i] = V[1]
    BY <2>4, <2>5, <2>6, <2>7
  <2> QED BY <2>3, <2>5, <2>6, <2>8 DEF d, l, v
<1> HIDE DEF x
<1>7. x \in Seq(Msgs)
  BY <1>6 DEF Msgs
<1>8. \A i \in 1 .. Len(x) : /\ x[i].session = session
                             /\ x[i].n # 0 => x[i].kind = "audio" /\ x[i].n = ash.n
  BY <1>3, <1>4, <1>5, <1>6
<1>9. \A i \in 1 .. Len(x) : x[i].kind = "vsh" =>
         i = Len(x) /\ vsh # NULL /\ x[i].cfg = vsh.cfg
  BY <1>3, <1>4, <1>5, <1>6
<1>10. ASSUME vsh # NULL PROVE LastHas(x, "vsh", vsh.cfg)
  <2>1. Len(x) \in 1 .. Len(x) /\ x[Len(x)].kind = "vsh" /\ x[Len(x)].cfg = vsh.cfg
    BY <1>3, <1>4, <1>5, <1>6, <1>10
  <2>2. \A j \in Len(x) + 1 .. Len(x) : x[j].kind # "vsh"
    BY <2>1
  <2> QED BY <2>1, <2>2 DEF LastHas
<1>11. ASSUME ash.kind = "ash" PROVE LastHas(x, "ash", ash.cfg)
  <2> DEFINE i == Len(D) + 1
  <2>1. i \in 1 .. Len(x) /\ x[i].kind = "ash" /\ x[i].cfg = ash.cfg
    BY <1>3, <1>4, <1>5, <1>6, <1>11
  <2>2. \A j \in i + 1 .. Len(x) : x[j].kind # "ash"
    BY <1>3, <1>4, <1>5, <1>6
  <2> QED BY <2>1, <2>2 DEF LastHas
<1>12. Sound(x)
  BY <1>7, <1>8, <1>9, <1>10, <1>11
<1> QED BY <1>12 DEF x

(* What a message of the publisher is to the logs: a header, or the next      *)
(* frame, which only an error of the hub keeps from the consumers.            *)
LEMMA WhatIsGiven ==
    ASSUME CacheInv,
           \/ OnMetaData \/ OnAudioHeader \/ OnAudio
           \/ \E cfg \in Cfgs : OnVideoHeader(cfg)
           \/ \E kind \in {"key", "inter"} : OnVideo(kind)
    PROVE  /\ phase = "on" /\ phase' \in {"on", "failing"}
           /\ session' = session /\ joined' = joined /\ heads' = heads
           /\ \E m \in Msgs :
                 /\ m.session = session
                 /\ GiveAll(m) \/ UNCHANGED log
                 /\ \/ m.n = 0 /\ m.kind # "audio" /\ n' = n
                    \/ m.n = n + 1 /\ n' = n + 1 /\ (phase' = "on" => GiveAll(m))
<1>1. Sending
  BY DEF OnMetaData, OnAudioHeader, OnAudio, OnVideoHeader, OnVideo
<1>2. phase = "on" /\ session' = session /\ joined' = joined /\ heads' = heads
  BY <1>1 DEF Sending
<1>3. ASSUME phase' \in {"on", "failing"}, NEW m \in Msgs, m.session = session,
             GiveAll(m) \/ UNCHANGED log,
             \/ m.n = 0 /\ m.kind # "audio" /\ n' = n
             \/ m.n = n + 1 /\ n' = n + 1 /\ (phase' = "on" => GiveAll(m))
      PROVE  /\ phase = "on" /\ phase' \in {"on", "failing"}
             /\ session' = session /\ joined' = joined /\ heads' = heads
             /\ \E x \in Msgs :
                 /\ x.session = session
                 /\ GiveAll(x) \/ UNCHANGED log
                 /\ \/ x.n = 0 /\ x.kind # "audio" /\ n' = n
                    \/ x.n = n + 1 /\ n' = n + 1 /\ (phase' = "on" => GiveAll(x))
  BY <1>2, <1>3
<1>4. CASE OnMetaData
  <2> DEFINE m == Msg("data", 0, 0)
  <2>1. m \in Msgs /\ m.session = session /\ m.n = 0 /\ m.kind # "audio"
    BY <1>1, MsgTypes DEF Msgs, Msg
  <2>2. phase' \in {"on", "failing"} /\ (GiveAll(m) \/ UNCHANGED log) /\ n' = n
    BY <1>4 DEF OnMetaData, HubTakes, HubFails
  <2> QED BY <1>3, <2>1, <2>2
<1>5. CASE OnAudioHeader
  <2> DEFINE m == Msg("ash", 0, 1)
  <2>1. m \in Msgs /\ m.session = session /\ m.n = 0 /\ m.kind # "audio"
    BY <1>1, MsgTypes DEF Msgs, Msg
  <2>2. phase' \in {"on", "failing"} /\ (GiveAll(m) \/ UNCHANGED log) /\ n' = n
    BY <1>5 DEF OnAudioHeader, HubTakes, HubFails
  <2> QED BY <1>3, <2>1, <2>2
<1>6. CASE OnAudio
  <2> DEFINE m == Msg("audio", n + 1, 0)
  <2>1. m \in Msgs /\ m.session = session /\ m.n = n + 1
    BY <1>1, MsgTypes DEF Msgs, Msg
  <2>2. phase' \in {"on", "failing"} /\ GiveAll(m) /\ n' = n + 1
    BY <1>6 DEF OnAudio, HubTakes, HubFails
  <2> QED BY <1>3, <2>1, <2>2
<1>7. ASSUME NEW cfg \in Cfgs, OnVideoHeader(cfg)
      PROVE  \E m \in Msgs :
                /\ m.session = session /\ (GiveAll(m) \/ UNCHANGED log)
                /\ m.n = 0 /\ m.kind # "audio" /\ n' = n /\ phase' \in {"on", "failing"}
  <2> DEFINE m == Msg("vsh", 0, cfg)
  <2>1. m \in Msgs /\ m.session = session /\ m.n = 0 /\ m.kind # "audio"
    BY <1>1, MsgTypes DEF Msgs, Msg
  <2>2. phase' \in {"on", "failing"} /\ (GiveAll(m) \/ UNCHANGED log) /\ n' = n
    BY <1>7 DEF OnVideoHeader, HubTakes, HubFails
  <2> QED BY <2>1, <2>2
<1>8. ASSUME NEW kind \in {"key", "inter"}, OnVideo(kind)
      PROVE  \E m \in Msgs :
                /\ m.session = session /\ (GiveAll(m) \/ UNCHANGED log)
                /\ m.n = n + 1 /\ n' = n + 1 /\ (phase' = "on" => GiveAll(m))
                /\ phase' \in {"on", "failing"}
  <2> DEFINE m == Msg(kind, n + 1, vsh.cfg)
  <2>1. m \in Msgs /\ m.session = session /\ m.n = n + 1
    <3>1. vsh.cfg \in Cfgs \cup {0}
      BY DEF CacheInv, MetaInv, NULL
    <3> QED BY <1>1, <3>1, MsgTypes DEF Msgs, Msg
  <2>2. phase' \in {"on", "failing"} /\ (phase' = "on" => GiveAll(m)) /\ n' = n + 1
        /\ (GiveAll(m) \/ UNCHANGED log)
    BY <1>8 DEF OnVideo, HubTakes, HubFails
  <2> QED BY <2>1, <2>2
<1> QED BY <1>3, <1>4, <1>5, <1>6, <1>7, <1>8

LEMMA EmptyLog ==
    /\ \A first : Apart(<<>>, first) /\ UpTo(<<>>, first)
    /\ \A h \in Nat : Linked(<<>>, h) /\ \A number, num : UpToDate(<<>>, h, number, num)
    /\ \A number, num : Starts(<<>>, 0, number, num)
BY DEF Apart, UpTo, Linked, UpToDate, Starts, OnlyFirstAudioTwice

LEMMA DumpIsApart ==
    ASSUME CacheInv, NEW b \in BOOLEAN
    PROVE  /\ Apart(Dump(b), session) /\ UpTo(Dump(b), session) /\ Linked(Dump(b), Len(Heads))
           /\ phase = "on" => UpToDate(Dump(b), Len(Heads), session, n)
           /\ Starts(Dump(b), Len(Heads), session, n)
<1> DEFINE h == Heads
           g == IF b THEN gop.msgs ELSE <<>>
<1>1. /\ h \in Seq(Msgs)
      /\ \A i \in 1 .. Len(h) : h[i].session = session
      /\ \A i \in 1 .. Len(h) : h[i].n # 0 => h[i].kind = "audio" /\ h[i].n = ash.n
  BY DumpedHeaders
<1>2. g \in Seq(Frames) /\ session \in Nat
  BY SourceTypes DEF Gops
<1>3. /\ \A i \in 1 .. Len(g) : g[i].session = session
      /\ \A i \in 1 .. Len(g) - 1 : g[i + 1].n = g[i].n + 1
      /\ phase = "on" => (g # <<>> => g[Len(g)].n = n)
  BY DEF CacheInv, GopInv, Consecutive, EndsAt
<1>5. /\ ash.n \in Nat /\ n \in Nat /\ ash.n <= n
      /\ \A i \in 1 .. Len(g) : g[i].kind = "audio" => g[i].n >= ash.n
  BY SourceTypes, LiveSourceAssumption DEF CacheInv, TypeOK, Headers, AudioInv
<1>4. Dump(b) = h \o g
  BY DEF Dump
<1> HIDE DEF h, g
<1>6. /\ Apart(h \o g, session) /\ UpTo(h \o g, session) /\ Linked(h \o g, Len(h))
      /\ phase = "on" => UpToDate(h \o g, Len(h), session, n)
  BY <1>1, <1>2, <1>3, DumpedFrames
<1>7. Starts(h \o g, Len(h), session, n)
  BY <1>1, <1>2, <1>5, DumpedStarts
<1>8. h = Heads
  BY DEF h
<1> QED BY <1>4, <1>6, <1>7, <1>8

LEMMA LogTypes ==
    ASSUME CacheInv, NEW c \in Consumers
    PROVE  log[c] \in Seq(Msgs) /\ joined[c] \in Nat /\ heads[c] \in Nat
<1>1. joined[c] \in 0 .. MaxSessions + 1 /\ heads[c] \in 0 .. 3
  BY DEF CacheInv, TypeOK
<1>2. log[c] \in Seq(Msgs)
  BY DEF CacheInv, TypeOK, Msgs
<1> QED BY <1>1, <1>2, LiveSourceAssumption

LEMMA LogInit == Init => LogInv
<1> SUFFICES ASSUME Init, NEW c \in Consumers PROVE SessionsOf(c) /\ FramesOf(c)
  BY CacheInit DEF LogInv
<1>1. log[c] = <<>> /\ joined[c] = 0 /\ heads[c] = 0 /\ session = 0 /\ phase = "off"
  BY DEF Init
<1> QED BY <1>1, EmptyLog DEF SessionsOf, FramesOf

LEMMA LogMessage ==
    ASSUME LogInv, NEW c \in Consumers,
           \/ OnMetaData \/ OnAudioHeader \/ OnAudio
           \/ \E cfg \in Cfgs : OnVideoHeader(cfg)
           \/ \E kind \in {"key", "inter"} : OnVideo(kind)
    PROVE  SessionsOf(c)' /\ FramesOf(c)'
<1>1. /\ CacheInv /\ SessionsOf(c) /\ FramesOf(c)
      /\ log[c] \in Seq(Msgs) /\ joined[c] \in Nat /\ session \in Nat /\ n \in Nat
      /\ heads[c] \in Nat
  BY LogTypes, SourceTypes DEF LogInv
<1>2. /\ phase = "on" /\ phase' \in {"on", "failing"}
      /\ session' = session /\ joined' = joined /\ heads' = heads
  BY <1>1, WhatIsGiven
<1>3. PICK m \in Msgs :
         /\ m.session = session
         /\ GiveAll(m) \/ UNCHANGED log
         /\ \/ m.n = 0 /\ m.kind # "audio" /\ n' = n
            \/ m.n = n + 1 /\ n' = n + 1 /\ (phase' = "on" => GiveAll(m))
  BY <1>1, WhatIsGiven
<1>4. joined[c] <= session /\ (joined[c] = 0 => log[c] = <<>>)
      /\ Apart(log[c], joined[c]) /\ UpTo(log[c], session)
      /\ Linked(log[c], heads[c]) /\ UpToDate(log[c], heads[c], session, n)
      /\ Starts(log[c], heads[c], session, n) /\ heads[c] <= Len(log[c])
  BY <1>1, <1>2 DEF SessionsOf, FramesOf, Starts
<1>9. n' \in {n, n + 1} /\ Starts(log[c], heads[c], session, n')
  BY <1>1, <1>3, <1>4, StartsLater
<1>5. GiveAll(m) => log'[c] = IF joined[c] # 0 THEN Append(log[c], m) ELSE log[c]
  BY <1>1, GivenLogs DEF CacheInv, TypeOK, Msgs
<1>6. CASE joined[c] = 0
  <2>1. log'[c] = <<>>
    BY <1>3, <1>4, <1>5, <1>6
  <2> QED BY <1>1, <1>2, <1>4, <1>6, <1>9, <2>1, EmptyLog DEF SessionsOf, FramesOf
<1>7. CASE joined[c] # 0 /\ GiveAll(m)
  <2>1. log'[c] = Append(log[c], m)
    BY <1>5, <1>7
  <2>2. Apart(log'[c], joined[c]) /\ UpTo(log'[c], session)
    BY <1>1, <1>3, <1>4, <2>1, AppendedSessions
  <2>3. SessionsOf(c)'
    BY <1>1, <1>2, <1>4, <1>7, <2>2 DEF SessionsOf
  <2>6. Starts(log'[c], heads[c], session, n')
    BY <1>1, <1>3, <1>4, <2>1, AppendedStarts
  <2>4. CASE m.n = 0 /\ n' = n
    BY <1>1, <1>2, <1>4, <2>1, <2>3, <2>4, <2>6, AppendedHeader DEF FramesOf
  <2>5. CASE m.n = n + 1 /\ n' = n + 1
    BY <1>1, <1>2, <1>3, <1>4, <2>1, <2>3, <2>5, <2>6, AppendedFrame DEF FramesOf
  <2> QED BY <1>3, <2>4, <2>5
<1>8. CASE joined[c] # 0 /\ ~GiveAll(m)
  <2>1. log'[c] = log[c] /\ (phase' = "on" => n' = n)
    BY <1>3, <1>8
  <2> QED BY <1>1, <1>2, <1>4, <1>8, <1>9, <2>1 DEF SessionsOf, FramesOf
<1> QED BY <1>6, <1>7, <1>8

LEMMA LogNext == LogInv /\ [Next]_vars => LogInv'
<1> SUFFICES ASSUME LogInv, [Next]_vars, NEW c \in Consumers
             PROVE  SessionsOf(c)' /\ FramesOf(c)'
  BY CacheNext DEF LogInv
<1>1. /\ CacheInv /\ SessionsOf(c) /\ FramesOf(c)
      /\ log[c] \in Seq(Msgs) /\ joined[c] \in Nat /\ session \in Nat
      /\ log \in [Consumers -> Seq(Headers \cup Frames)]
      /\ joined \in [Consumers -> 0 .. MaxSessions + 1] /\ heads \in [Consumers -> 0 .. 3]
      /\ heads[c] \in Nat
      /\ \A i \in 1 .. Len(log[c]) : log[c][i].session \in Nat
  <2>1. CacheInv /\ SessionsOf(c) /\ FramesOf(c)
    BY DEF LogInv
  <2>2. log[c] \in Seq(Msgs) /\ joined[c] \in Nat /\ heads[c] \in Nat /\ session \in Nat
    BY <2>1, LogTypes, SourceTypes
  <2>3. \A i \in 1 .. Len(log[c]) : log[c][i].session \in Nat
    BY <2>2, MsgsHaveNumbers
  <2> QED BY <2>1, <2>2, <2>3 DEF CacheInv, TypeOK
<1>2. CASE \/ OnMetaData \/ OnAudioHeader \/ OnAudio
           \/ \E cfg \in Cfgs : OnVideoHeader(cfg)
           \/ \E kind \in {"key", "inter"} : OnVideo(kind)
  BY <1>2, LogMessage
<1>3. CASE OnPublish
  <2>1. /\ session' = session + 1 /\ n' = 0 /\ UNCHANGED <<log, joined, heads>>
    BY <1>3 DEF OnPublish
  <2>2. UpTo(log[c], session + 1) /\ UpToDate(log[c], heads[c], session + 1, 0)
        /\ Starts(log[c], heads[c], session + 1, 0)
    <3>1. \A i \in 1 .. Len(log[c]) : log[c][i].session <= session
      BY <1>1 DEF SessionsOf, UpTo
    <3>2. \A i \in heads[c] + 1 .. Len(log[c]) : i \in 1 .. Len(log[c])
      BY <1>1
    <3>3. heads[c] <= Len(log[c]) /\ OnlyFirstAudioTwice(log[c], heads[c])
      BY <1>1 DEF FramesOf, Starts
    <3>4. \A i \in 1 .. heads[c] : i \in 1 .. Len(log[c])
      BY <1>1, <3>3
    <3> QED BY <1>1, <3>1, <3>2, <3>3, <3>4 DEF UpTo, UpToDate, Starts
  <2> QED BY <1>1, <2>1, <2>2 DEF SessionsOf, FramesOf
<1>4. CASE HubUnpublishes \/ OnUnpublish
  <2>1. /\ phase' \in {"closing", "off"} /\ UNCHANGED <<session, n, log, joined, heads>>
    BY <1>4 DEF HubUnpublishes, OnUnpublish
  <2> QED BY <1>1, <2>1 DEF SessionsOf, FramesOf
<1>5. ASSUME NEW d \in Consumers, NEW b \in BOOLEAN, CreateConsumer(d, b)
      PROVE  SessionsOf(c)' /\ FramesOf(c)'
  <2>1. /\ UNCHANGED <<phase, session, n>>
        /\ joined' = [joined EXCEPT ![d] = IF phase \in {"off", "closing"} THEN session + 1 ELSE session]
        /\ log' = [log EXCEPT ![d] = IF Active THEN Dump(b) ELSE <<>>]
        /\ heads' = [heads EXCEPT ![d] = IF Active THEN Len(Heads) ELSE 0]
    BY <1>5 DEF CreateConsumer
  <2>2. CASE c # d
    <3>1. log'[c] = log[c] /\ joined'[c] = joined[c] /\ heads'[c] = heads[c]
      BY <1>1, <2>1, <2>2
    <3> QED BY <1>1, <2>1, <3>1 DEF SessionsOf, FramesOf
  <2>3. CASE c = d /\ Active
    <3>1. /\ log'[c] = Dump(b) /\ joined'[c] = session /\ session # 0
          /\ heads'[c] = Len(Heads)
          /\ phase \in {"on", "failing"}
      BY <1>1, <2>1, <2>3 DEF Active, CacheInv, GopInv
    <3> QED BY <1>1, <2>1, <3>1, DumpIsApart DEF SessionsOf, FramesOf
  <2>4. CASE c = d /\ ~Active
    <3>1. /\ log'[c] = <<>> /\ joined'[c] \in {session, session + 1} /\ heads'[c] = 0
          /\ phase \notin {"on", "failing"}
      BY <1>1, <2>1, <2>4 DEF Active
    <3>2. joined'[c] <= session + 1
      BY <1>1, <3>1
    <3> QED BY <1>1, <2>1, <3>1, <3>2, EmptyLog DEF SessionsOf, FramesOf
  <2> QED BY <2>2, <2>3, <2>4
<1>6. ASSUME NEW d \in Consumers, OnConsumerDestroy(d)
      PROVE  SessionsOf(c)' /\ FramesOf(c)'
  <2>1. /\ UNCHANGED <<phase, session, n>>
        /\ joined' = [joined EXCEPT ![d] = 0]
        /\ log' = [log EXCEPT ![d] = <<>>]
        /\ heads' = [heads EXCEPT ![d] = 0]
    BY <1>6 DEF OnConsumerDestroy
  <2>2. CASE c # d
    <3>1. log'[c] = log[c] /\ joined'[c] = joined[c] /\ heads'[c] = heads[c]
      BY <1>1, <2>1, <2>2
    <3> QED BY <1>1, <2>1, <3>1 DEF SessionsOf, FramesOf
  <2>3. CASE c = d
    <3>1. log'[c] = <<>> /\ joined'[c] = 0 /\ heads'[c] = 0
      BY <1>1, <2>1, <2>3
    <3>2. 0 <= session + 1 /\ 0 <= session
      BY <1>1
    <3> QED BY <2>1, <3>1, <3>2, EmptyLog DEF SessionsOf, FramesOf
  <2> QED BY <2>2, <2>3
<1>7. ASSUME UNCHANGED <<phase, session, n, log, joined, heads>>
      PROVE  SessionsOf(c)' /\ FramesOf(c)'
  BY <1>1, <1>7 DEF SessionsOf, FramesOf
<1>8. CASE ReloadAtc \/ \E v \in BOOLEAN : SetCache(v)
  BY <1>7, <1>8 DEF ReloadAtc, SetCache
<1>9. CASE UNCHANGED vars
  BY <1>7, <1>9 DEF vars
<1> QED BY <1>2, <1>3, <1>4, <1>5, <1>6, <1>8, <1>9 DEF Next

(* Whatever is cached and whenever a consumer joins, nothing of a publish      *)
(* that is over reaches it, and what it is given is in the order of the        *)
(* publishes.                                                                 *)
THEOREM SourceKeepsSessionsApart == Spec => []SessionsApart
<1>1. LogInv => SessionsApart
  BY DEF LogInv, SessionsOf, SessionsApart, Apart
<1> QED BY <1>1, LogInit, LogNext, PTL DEF Spec

(* From the moment it joins, and whatever is reloaded, a consumer is given the *)
(* frames in the order of the publisher, none missing and none twice, but the  *)
(* first audio frame of a stream without an audio sequence header: a consumer  *)
(* that joins later is given it as a header, and perhaps again from the GOP.   *)
THEOREM SourceGivesEveryFrame == Spec => []NoGapNoRepeat
<1>1. LogInv => NoGapNoRepeat
  BY DEF LogInv, FramesOf, NoGapNoRepeat, Linked, Starts
<1> QED BY <1>1, LogInit, LogNext, PTL DEF Spec
-----------------------------------------------------------------------------
(* The headers in the logs.                                                   *)
Distinct(s) ==
    \A i, j \in 1 .. Len(s) : NextHeader(s, i, j) => s[i] # s[j]

LastHeader(s, i) == s[i].kind = "vsh" /\ \A k \in i + 1 .. Len(s) : s[k].kind # "vsh"

(* The last video header of the log, if it is of this publish, is the one the  *)
(* next header is compared with.                                              *)
HasPrevious(s, number, previous) ==
    \A i \in 1 .. Len(s) :
        LastHeader(s, i) /\ s[i].session = number =>
            previous.kind = "vsh" /\ s[i].cfg = previous.cfg

HeadersOf(c) ==
    /\ ~reduce /\ phase = "on" /\ joined[c] # 0 => HasHeaders(c)
    /\ reduce => Distinct(log[c])
    /\ reduce /\ phase = "on" => HasPrevious(log[c], session, previous_vsh)

HeaderInv == LogInv /\ \A c \in Consumers : HeadersOf(c)

LEMMA AppendedLast ==
    ASSUME NEW s \in Seq(Msgs), NEW m \in Msgs, NEW kind
    PROVE  /\ m.kind = kind => LastHas(Append(s, m), kind, m.cfg)
           /\ \A cfg : m.kind # kind /\ LastHas(s, kind, cfg) => LastHas(Append(s, m), kind, cfg)
<1> DEFINE t == Append(s, m)
           L == Len(s)
<1>1. L \in Nat /\ Len(t) = L + 1 /\ t[L + 1] = m /\ \A i \in 1 .. L : t[i] = s[i]
  OBVIOUS
<1> HIDE DEF t
<1>2. ASSUME m.kind = kind PROVE LastHas(t, kind, m.cfg)
  <2>1. L + 1 \in 1 .. Len(t) /\ \A j \in (L + 1) + 1 .. Len(t) : FALSE
    BY <1>1
  <2> QED BY <1>1, <1>2, <2>1 DEF LastHas
<1>3. ASSUME NEW cfg, m.kind # kind, LastHas(s, kind, cfg) PROVE LastHas(t, kind, cfg)
  <2>1. PICK i \in 1 .. L : /\ s[i].kind = kind /\ s[i].cfg = cfg
                            /\ \A j \in i + 1 .. L : s[j].kind # kind
    BY <1>3 DEF LastHas
  <2>2. \A j \in i + 1 .. Len(t) : j \in i + 1 .. L \/ j = L + 1
    BY <1>1
  <2>3. \A j \in i + 1 .. L : t[j] = s[j]
    BY <1>1
  <2>4. \A j \in i + 1 .. Len(t) : t[j].kind # kind
    BY <1>1, <1>3, <2>1, <2>2, <2>3
  <2>5. i \in 1 .. Len(t) /\ t[i] = s[i]
    BY <1>1
  <2> QED BY <2>1, <2>4, <2>5 DEF LastHas
<1> QED BY <1>2, <1>3 DEF t

LEMMA AppendedNoHeader ==
    ASSUME NEW s \in Seq(Msgs), NEW m \in Msgs, m.kind # "vsh"
    PROVE  /\ Distinct(s) => Distinct(Append(s, m))
           /\ \A number, previous :
                 HasPrevious(s, number, previous) => HasPrevious(Append(s, m), number, previous)
<1> DEFINE t == Append(s, m)
           L == Len(s)
<1>1. L \in Nat /\ Len(t) = L + 1 /\ t[L + 1] = m /\ \A i \in 1 .. L : t[i] = s[i]
  OBVIOUS
<1> HIDE DEF t
<1>2. ASSUME Distinct(s), NEW i \in 1 .. L + 1, NEW j \in 1 .. L + 1, NextHeader(t, i, j)
      PROVE  t[i] # t[j]
  <2>1. i \in 1 .. L /\ j \in 1 .. L
    BY <1>1, <1>2 DEF NextHeader
  <2>2. \A k \in i + 1 .. j - 1 : k \in 1 .. L
    BY <1>1, <2>1
  <2>3. NextHeader(s, i, j)
    BY <1>1, <1>2, <2>1, <2>2 DEF NextHeader
  <2> QED BY <1>1, <1>2, <2>1, <2>3 DEF Distinct
<1>3. ASSUME NEW number, NEW previous, HasPrevious(s, number, previous),
             NEW i \in 1 .. L + 1, LastHeader(t, i), t[i].session = number
      PROVE  previous.kind = "vsh" /\ t[i].cfg = previous.cfg
  <2>1. i \in 1 .. L
    BY <1>1, <1>3 DEF LastHeader
  <2>2. \A k \in i + 1 .. L : k \in i + 1 .. Len(t) /\ t[k] = s[k]
    BY <1>1, <2>1
  <2>3. LastHeader(s, i)
    BY <1>1, <1>3, <2>1, <2>2 DEF LastHeader
  <2> QED BY <1>1, <1>3, <2>1, <2>3 DEF HasPrevious
<1>4. Distinct(s) => Distinct(t)
  BY <1>1, <1>2 DEF Distinct
<1>5. ASSUME NEW number, NEW previous, HasPrevious(s, number, previous)
      PROVE  HasPrevious(t, number, previous)
  <2> SUFFICES ASSUME NEW i \in 1 .. Len(t), LastHeader(t, i), t[i].session = number
               PROVE  previous.kind = "vsh" /\ t[i].cfg = previous.cfg
    BY DEF HasPrevious
  <2> QED BY <1>1, <1>3, <1>5
<1> QED BY <1>4, <1>5 DEF t

(* A header that is not the one it is compared with.                          *)
LEMMA AppendedVideoHeader ==
    ASSUME NEW s \in Seq(Msgs), NEW m \in Msgs, m.kind = "vsh", Distinct(s),
           NEW previous, HasPrevious(s, m.session, previous),
           ~(previous.kind = "vsh" /\ previous.cfg = m.cfg)
    PROVE  Distinct(Append(s, m)) /\ HasPrevious(Append(s, m), m.session, m)
<1> DEFINE t == Append(s, m)
           L == Len(s)
<1>1. L \in Nat /\ Len(t) = L + 1 /\ t[L + 1] = m /\ \A i \in 1 .. L : t[i] = s[i]
  OBVIOUS
<1> HIDE DEF t
<1>2. ASSUME NEW i \in 1 .. L + 1, NEW j \in 1 .. L + 1, NextHeader(t, i, j)
      PROVE  t[i] # t[j]
  <2>1. i \in 1 .. L /\ i < j
    BY <1>1, <1>2 DEF NextHeader
  <2>2. CASE j \in 1 .. L
    <3>1. \A k \in i + 1 .. j - 1 : k \in 1 .. L
      BY <1>1, <2>1, <2>2
    <3>2. NextHeader(s, i, j)
      BY <1>1, <1>2, <2>1, <2>2, <3>1 DEF NextHeader
    <3> QED BY <1>1, <2>1, <2>2, <3>2 DEF Distinct
  <2>3. CASE j = L + 1
    <3>1. \A k \in i + 1 .. L : k \in i + 1 .. j - 1 /\ t[k] = s[k]
      BY <1>1, <2>1, <2>3
    <3>2. LastHeader(s, i)
      BY <1>1, <1>2, <2>1, <3>1 DEF NextHeader, LastHeader
    <3>3. s[i].session = m.session => s[i].cfg # m.cfg
      BY <2>1, <3>2 DEF HasPrevious
    <3> QED BY <1>1, <2>1, <2>3, <3>3
  <2> QED BY <1>1, <2>2, <2>3
<1>3. ASSUME NEW i \in 1 .. L + 1, LastHeader(t, i) PROVE t[i] = m
  <2>1. i = L + 1
    <3> SUFFICES ASSUME i \in 1 .. L PROVE FALSE
      BY <1>1
    <3>1. L + 1 \in i + 1 .. Len(t)
      BY <1>1
    <3>2. t[L + 1].kind # "vsh"
      BY <1>3, <3>1 DEF LastHeader
    <3> QED BY <1>1, <3>2
  <2> QED BY <1>1, <2>1
<1>4. Distinct(t)
  BY <1>1, <1>2 DEF Distinct
<1>5. HasPrevious(t, m.session, m)
  <2> SUFFICES ASSUME NEW i \in 1 .. Len(t), LastHeader(t, i)
               PROVE  m.kind = "vsh" /\ t[i].cfg = m.cfg
    BY DEF HasPrevious
  <2>1. t[i] = m
    BY <1>1, <1>3
  <2> QED BY <2>1
<1> QED BY <1>4, <1>5 DEF t

LEMMA DumpHasHeaders ==
    ASSUME CacheInv, NEW b \in BOOLEAN
    PROVE  /\ vsh # NULL => LastHas(Dump(b), "vsh", vsh.cfg)
           /\ ash.kind = "ash" => LastHas(Dump(b), "ash", ash.cfg)
           /\ Distinct(Dump(b)) /\ HasPrevious(Dump(b), session, previous_vsh)
<1> DEFINE h == Heads
           g == IF b THEN gop.msgs ELSE <<>>
           t == h \o g
           L == Len(h)
           N == Len(g)
<1>1. /\ h \in Seq(Msgs)
      /\ \A i \in 1 .. Len(h) : h[i].kind = "vsh" =>
            i = Len(h) /\ vsh # NULL /\ h[i].cfg = vsh.cfg
      /\ vsh # NULL => LastHas(h, "vsh", vsh.cfg)
      /\ ash.kind = "ash" => LastHas(h, "ash", ash.cfg)
  BY DumpedHeaders
<1>2. g \in Seq(Frames)
  BY SourceTypes DEF Gops
<1>3. Dump(b) = t
  BY DEF Dump
<1> HIDE DEF h, g
<1>4. /\ L \in Nat /\ N \in Nat /\ Len(t) = L + N
      /\ \A i \in 1 .. L : t[i] = h[i]
      /\ \A i \in 1 .. N : t[L + i] = g[i] /\ g[i] \in Frames
  BY <1>1, <1>2
<1> HIDE DEF t
<1>5. ASSUME NEW i \in L + 1 .. L + N PROVE t[i].kind \notin {"vsh", "ash"}
  <2>1. i - L \in 1 .. N /\ i = L + (i - L)
    BY <1>4
  <2>2. t[i] = g[i - L] /\ g[i - L] \in Frames
    BY <1>4, <2>1
  <2> QED BY <2>2 DEF Frames
<1>6. ASSUME NEW kind \in {"vsh", "ash"}, NEW cfg, LastHas(h, kind, cfg)
      PROVE  LastHas(t, kind, cfg)
  <2>1. PICK i \in 1 .. L : /\ h[i].kind = kind /\ h[i].cfg = cfg
                            /\ \A j \in i + 1 .. L : h[j].kind # kind
    BY <1>6 DEF LastHas
  <2>2. \A j \in i + 1 .. Len(t) : j \in i + 1 .. L \/ j \in L + 1 .. L + N
    BY <1>4
  <2>3. \A j \in i + 1 .. L : t[j] = h[j]
    BY <1>4
  <2>4. \A j \in i + 1 .. Len(t) : t[j].kind # kind
    BY <1>5, <2>1, <2>2, <2>3
  <2>5. i \in 1 .. Len(t) /\ t[i] = h[i]
    BY <1>4
  <2> QED BY <2>1, <2>4, <2>5 DEF LastHas
<1>7. ASSUME NEW i \in 1 .. L + N, t[i].kind = "vsh"
      PROVE  i = L /\ vsh # NULL /\ t[i].cfg = vsh.cfg
  <2>1. i \in 1 .. L
    BY <1>4, <1>5, <1>7
  <2> QED BY <1>1, <1>4, <1>7, <2>1
<1>8. Distinct(t)
  BY <1>4, <1>7 DEF Distinct, NextHeader
<1>9. vsh # NULL => previous_vsh.kind = "vsh" /\ previous_vsh.cfg = vsh.cfg
  BY DEF CacheInv, MetaInv
<1>10. HasPrevious(t, session, previous_vsh)
  BY <1>4, <1>7, <1>9 DEF HasPrevious, LastHeader
<1> QED BY <1>1, <1>3, <1>6, <1>8, <1>10

LEMMA HeaderInit == Init => HeaderInv
<1> SUFFICES ASSUME Init, NEW c \in Consumers PROVE HeadersOf(c)
  BY LogInit DEF HeaderInv
<1>1. log[c] = <<>> /\ joined[c] = 0 /\ phase = "off"
  BY DEF Init
<1> QED BY <1>1 DEF HeadersOf, Distinct

(* A message that is given to all or to none.                                 *)
LEMMA HeaderMessage ==
    ASSUME HeaderInv, NEW c \in Consumers,
           \/ OnMetaData \/ OnAudioHeader \/ OnAudio
           \/ \E cfg \in Cfgs : OnVideoHeader(cfg)
           \/ \E kind \in {"key", "inter"} : OnVideo(kind)
    PROVE  HeadersOf(c)'
<1>1. Sending
  BY DEF OnMetaData, OnAudioHeader, OnAudio, OnVideoHeader, OnVideo
<1>2. /\ CacheInv /\ LogInv /\ HeadersOf(c) /\ log[c] \in Seq(Msgs)
      /\ log \in [Consumers -> Seq(Headers \cup Frames)]
  <2>1. CacheInv /\ LogInv /\ HeadersOf(c)
    BY DEF HeaderInv, LogInv
  <2>2. log[c] \in Seq(Msgs)
    BY <2>1, LogTypes
  <2> QED BY <2>1, <2>2 DEF CacheInv, TypeOK
<1>3. /\ phase = "on" /\ UNCHANGED <<reduce, session, joined>>
  BY <1>1 DEF Sending
<1>4. /\ ~reduce /\ joined[c] # 0 => HasHeaders(c)
      /\ reduce => Distinct(log[c]) /\ HasPrevious(log[c], session, previous_vsh)
  BY <1>2, <1>3 DEF HeadersOf
<1>5. ASSUME NEW m \in Msgs, GiveAll(m)
      PROVE  log'[c] = IF joined[c] # 0 THEN Append(log[c], m) ELSE log[c]
  BY <1>2, <1>5, GivenLogs DEF Msgs
<1>6. joined[c] = 0 => log[c] = <<>>
  BY <1>2 DEF LogInv, SessionsOf
<1>7. \A number, previous : Distinct(<<>>) /\ HasPrevious(<<>>, number, previous)
  BY DEF Distinct, HasPrevious
<1>8. CASE joined[c] = 0
  <2>1. log'[c] = <<>>
    <3>1. \E m \in Msgs : GiveAll(m) \/ UNCHANGED log
      BY <1>2, WhatIsGiven
    <3> QED BY <1>5, <1>6, <1>8, <3>1
  <2> QED BY <1>3, <1>7, <1>8, <2>1 DEF HeadersOf
(* Any other message than a header leaves the headers as they are.           *)
<1>9. ASSUME NEW m \in Msgs, m.kind \notin {"vsh", "ash"}, joined[c] # 0,
             GiveAll(m) \/ UNCHANGED log, UNCHANGED <<vsh, previous_vsh>>,
             ash' = ash \/ ash'.kind # "ash"
      PROVE  HeadersOf(c)'
  <2>1. CASE GiveAll(m)
    <3>1. log'[c] = Append(log[c], m)
      BY <1>5, <1>9, <2>1
    <3>2. ~reduce => HasHeaders(c)'
      BY <1>2, <1>4, <1>9, <3>1, AppendedLast DEF HasHeaders
    <3>3. reduce => Distinct(log'[c]) /\ HasPrevious(log'[c], session, previous_vsh)
      BY <1>2, <1>4, <1>9, <3>1, AppendedNoHeader
    <3> QED BY <1>3, <1>9, <3>2, <3>3 DEF HeadersOf
  <2>2. CASE UNCHANGED log
    <3>1. ~reduce => HasHeaders(c)'
      BY <1>4, <1>9, <2>2 DEF HasHeaders
    <3> QED BY <1>3, <1>4, <1>9, <2>2, <3>1 DEF HeadersOf
  <2> QED BY <1>9, <2>1, <2>2
<1>10. CASE OnMetaData /\ joined[c] # 0
  <2> DEFINE m == Msg("data", 0, 0)
  <2>1. m \in Msgs /\ m.kind = "data"
    BY <1>1, <1>2, MsgTypes DEF Msgs, Msg
  <2>2. (GiveAll(m) \/ UNCHANGED log) /\ UNCHANGED <<vsh, previous_vsh, ash>>
    BY <1>10 DEF OnMetaData
  <2> HIDE DEF m
  <2> QED BY <1>9, <1>10, <2>1, <2>2
<1>11. CASE OnAudio /\ joined[c] # 0
  <2> DEFINE m == Msg("audio", n + 1, 0)
  <2>1. m \in Msgs /\ m.kind = "audio"
    BY <1>1, <1>2, MsgTypes DEF Msgs, Msg
  <2>2. GiveAll(m) /\ UNCHANGED <<vsh, previous_vsh>> /\ ash' \in {ash, m}
    BY <1>11 DEF OnAudio
  <2> HIDE DEF m
  <2> QED BY <1>9, <1>11, <2>1, <2>2
<1>12. ASSUME NEW kind \in {"key", "inter"}, OnVideo(kind), joined[c] # 0
       PROVE  HeadersOf(c)'
  <2> DEFINE m == Msg(kind, n + 1, vsh.cfg)
  <2>1. m \in Msgs /\ m.kind = kind
    <3>1. vsh.cfg \in Cfgs \cup {0}
      BY <1>2 DEF CacheInv, MetaInv, NULL
    <3> QED BY <1>1, <1>2, <3>1, MsgTypes DEF Msgs, Msg
  <2>2. (GiveAll(m) \/ UNCHANGED log) /\ UNCHANGED <<vsh, previous_vsh, ash>>
    BY <1>12 DEF OnVideo, meta
  <2> HIDE DEF m
  <2> QED BY <1>9, <1>12, <2>1, <2>2
<1>13. CASE OnAudioHeader /\ joined[c] # 0
  <2> DEFINE m == Msg("ash", 0, 1)
  <2>1. m \in Msgs /\ m.kind = "ash"
    BY <1>1, <1>2, MsgTypes DEF Msgs, Msg
  <2>2. /\ UNCHANGED <<vsh, previous_vsh>> /\ (phase' = "failing" \/ ash' = m)
        /\ GiveAll(m) \/ (reduce /\ UNCHANGED log)
    BY <1>13 DEF OnAudioHeader, DropForReduce, HubTakes, HubFails
  <2> HIDE DEF m
  <2>3. CASE UNCHANGED log /\ reduce
    BY <1>3, <1>4, <2>2, <2>3 DEF HeadersOf
  <2>4. CASE GiveAll(m)
    <3>1. log'[c] = Append(log[c], m)
      BY <1>5, <1>13, <2>1, <2>4
    <3>2. ~reduce /\ phase' = "on" => HasHeaders(c)'
      <4>1. LastHas(log'[c], "ash", m.cfg)
        BY <1>2, <2>1, <3>1, AppendedLast
      <4>2. \A cfg : LastHas(log[c], "vsh", cfg) => LastHas(log'[c], "vsh", cfg)
        BY <1>2, <2>1, <3>1, AppendedLast
      <4> QED BY <1>4, <1>13, <2>2, <4>1, <4>2 DEF HasHeaders
    <3>3. reduce => Distinct(log'[c]) /\ HasPrevious(log'[c], session, previous_vsh)
      BY <1>2, <1>4, <2>1, <3>1, AppendedNoHeader
    <3> QED BY <1>3, <2>2, <3>2, <3>3 DEF HeadersOf
  <2> QED BY <2>2, <2>3, <2>4
<1>14. ASSUME NEW cfg \in Cfgs, OnVideoHeader(cfg), joined[c] # 0 PROVE HeadersOf(c)'
  <2> DEFINE m == Msg("vsh", 0, cfg)
  <2>1. m \in Msgs /\ m.kind = "vsh" /\ m.session = session
    BY <1>1, <1>2, MsgTypes DEF Msgs, Msg
  <2>2. /\ vsh' = m /\ previous_vsh' = m /\ ash' = ash
        /\ \/ phase' = "failing" /\ UNCHANGED log
           \/ DropForReduce(m, previous_vsh) /\ UNCHANGED log
           \/ ~DropForReduce(m, previous_vsh) /\ GiveAll(m)
    BY <1>14 DEF OnVideoHeader, HubFails
  <2> HIDE DEF m
  <2>3. CASE phase' = "failing" /\ UNCHANGED log
    BY <1>3, <1>4, <2>3 DEF HeadersOf
  <2>4. CASE DropForReduce(m, previous_vsh) /\ UNCHANGED log
    <3>1. reduce /\ previous_vsh.cfg = m.cfg
      BY <2>4 DEF DropForReduce, SamePayload
    <3>2. HasPrevious(log[c], session, m)
      BY <1>4, <2>1, <3>1 DEF HasPrevious
    <3> QED BY <1>3, <1>4, <2>2, <2>4, <3>1, <3>2 DEF HeadersOf
  <2>5. CASE ~DropForReduce(m, previous_vsh) /\ GiveAll(m)
    <3>1. log'[c] = Append(log[c], m)
      BY <1>5, <1>14, <2>1, <2>5
    <3>2. ~reduce => HasHeaders(c)'
      BY <1>2, <1>4, <1>14, <2>1, <2>2, <3>1, AppendedLast DEF HasHeaders
    <3>3. ASSUME reduce PROVE Distinct(log'[c]) /\ HasPrevious(log'[c], session, m)
      <4>1. ~(previous_vsh.kind = "vsh" /\ previous_vsh.cfg = m.cfg)
        BY <2>1, <2>5, <3>3 DEF DropForReduce, SamePayload, NULL
      <4> QED BY <1>2, <1>4, <2>1, <3>1, <3>3, <4>1, AppendedVideoHeader
    <3> QED BY <1>3, <2>2, <3>2, <3>3 DEF HeadersOf
  <2> QED BY <2>2, <2>3, <2>4, <2>5
<1> QED BY <1>8, <1>10, <1>11, <1>12, <1>13, <1>14

LEMMA HeaderNext == HeaderInv /\ [Next]_vars => HeaderInv'
<1> SUFFICES ASSUME HeaderInv, [Next]_vars, NEW c \in Consumers PROVE HeadersOf(c)'
  BY LogNext DEF HeaderInv
<1>1. /\ CacheInv /\ LogInv /\ HeadersOf(c)
      /\ log[c] \in Seq(Msgs) /\ session \in Nat
      /\ log \in [Consumers -> Seq(Headers \cup Frames)]
      /\ joined \in [Consumers -> 0 .. MaxSessions + 1]
  <2>1. CacheInv /\ LogInv /\ HeadersOf(c)
    BY DEF HeaderInv, LogInv
  <2> QED BY <2>1, LogTypes, SourceTypes DEF CacheInv, TypeOK
<1>2. CASE \/ OnMetaData \/ OnAudioHeader \/ OnAudio
           \/ \E cfg \in Cfgs : OnVideoHeader(cfg)
           \/ \E kind \in {"key", "inter"} : OnVideo(kind)
  BY <1>2, HeaderMessage
<1>3. CASE OnPublish
  <2>1. /\ session' = session + 1 /\ vsh' = NULL /\ ash' = NULL
        /\ UNCHANGED <<reduce, previous_vsh, log, joined>>
    BY <1>3 DEF OnPublish, ClearMeta
  <2>2. \A i \in 1 .. Len(log[c]) : log[c][i].session <= session /\ log[c][i].session \in Nat
    BY <1>1, MsgsHaveNumbers DEF LogInv, SessionsOf, UpTo
  <2>3. HasPrevious(log[c], session + 1, previous_vsh)
    BY <1>1, <2>2 DEF HasPrevious
  <2>4. HasHeaders(c)'
    BY <2>1 DEF HasHeaders, NULL
  <2> QED BY <1>1, <2>1, <2>3, <2>4 DEF HeadersOf
<1>4. CASE HubUnpublishes \/ OnUnpublish
  <2>1. phase' \in {"closing", "off"} /\ UNCHANGED <<reduce, log, joined>>
    BY <1>4 DEF HubUnpublishes, OnUnpublish
  <2> QED BY <1>1, <2>1 DEF HeadersOf
<1>5. \A number, previous : Distinct(<<>>) /\ HasPrevious(<<>>, number, previous)
  BY DEF Distinct, HasPrevious
<1>6. ASSUME UNCHANGED <<reduce, phase, session, previous_vsh, vsh, ash>>,
             log'[c] = log[c], joined'[c] = joined[c]
      PROVE  HeadersOf(c)'
  BY <1>1, <1>6 DEF HeadersOf, HasHeaders
<1>7. ASSUME NEW d \in Consumers, NEW b \in BOOLEAN, CreateConsumer(d, b)
      PROVE  HeadersOf(c)'
  <2>1. /\ UNCHANGED <<reduce, phase, session, previous_vsh, vsh, ash>>
        /\ joined' = [joined EXCEPT ![d] = IF phase \in {"off", "closing"} THEN session + 1 ELSE session]
        /\ log' = [log EXCEPT ![d] = IF Active THEN Dump(b) ELSE <<>>]
    BY <1>7 DEF CreateConsumer, meta
  <2>2. CASE c # d
    <3>1. log'[c] = log[c] /\ joined'[c] = joined[c]
      BY <1>1, <2>1, <2>2
    <3> QED BY <1>6, <2>1, <3>1
  <2>3. CASE c = d /\ Active
    <3>1. log'[c] = Dump(b)
      BY <1>1, <2>1, <2>3
    <3>2. HasHeaders(c)'
      BY <1>1, <2>1, <3>1, DumpHasHeaders DEF HasHeaders
    <3>3. Distinct(log'[c]) /\ HasPrevious(log'[c], session, previous_vsh)
      BY <1>1, <3>1, DumpHasHeaders
    <3> QED BY <2>1, <3>2, <3>3 DEF HeadersOf
  <2>4. CASE c = d /\ ~Active
    <3>1. log'[c] = <<>> /\ phase # "on"
      BY <1>1, <2>1, <2>4 DEF Active
    <3> QED BY <1>5, <2>1, <3>1 DEF HeadersOf
  <2> QED BY <2>2, <2>3, <2>4
<1>8. ASSUME NEW d \in Consumers, OnConsumerDestroy(d) PROVE HeadersOf(c)'
  <2>1. /\ UNCHANGED <<reduce, phase, session, previous_vsh, vsh, ash>>
        /\ joined' = [joined EXCEPT ![d] = 0]
        /\ log' = [log EXCEPT ![d] = <<>>]
    BY <1>8 DEF OnConsumerDestroy, meta
  <2>2. CASE c # d
    <3>1. log'[c] = log[c] /\ joined'[c] = joined[c]
      BY <1>1, <2>1, <2>2
    <3> QED BY <1>6, <2>1, <3>1
  <2>3. CASE c = d
    <3>1. log'[c] = <<>> /\ joined'[c] = 0
      BY <1>1, <2>1, <2>3
    <3> QED BY <1>5, <2>1, <3>1 DEF HeadersOf
  <2> QED BY <2>2, <2>3
<1>9. CASE ReloadAtc \/ \E v \in BOOLEAN : SetCache(v)
  BY <1>6, <1>9 DEF ReloadAtc, SetCache, meta
<1>10. CASE UNCHANGED vars
  BY <1>6, <1>10 DEF vars
<1> QED BY <1>2, <1>3, <1>4, <1>7, <1>8, <1>9, <1>10 DEF Next

(* Without reduce_sequence_header every consumer has the headers the frames of *)
(* the stream need, whenever it joined; with it, no consumer is given the      *)
(* header it has once more in one publish.                                    *)
THEOREM SourceGivesHeaders == Spec => []HeadersAsConfigured
<1>1. HeaderInv => HeadersAsConfigured
  <2> SUFFICES ASSUME HeaderInv PROVE HeaderSent /\ NoDuplicateHeader
    BY DEF HeadersAsConfigured
  <2>1. HeaderSent
    BY DEF HeaderInv, HeadersOf, HeaderSent, Present
  <2>2. NoDuplicateHeader
    BY DEF HeaderInv, HeadersOf, NoDuplicateHeader, Distinct
  <2> QED BY <2>1, <2>2
<1> QED BY <1>1, HeaderInit, HeaderNext, PTL DEF Spec
=============================================================================

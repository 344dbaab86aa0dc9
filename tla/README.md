# A TLA+ model of SRS 3.0

SRS is a live streaming server: publishers push a stream over RTMP, players pull it, and an
*edge* server forwards both directions to an *origin*.  This directory holds TLA+ modules of
its streaming core and of the server around it, the TLC configurations that check them and
TLAPS proofs about them.  Source paths are relative to `src/trunk/src/`; a line `source.cpp:790` is
`app/srs_app_source.cpp:790`, and likewise for the other files of `app/`.

Everything in the server runs in *coroutines* of the State Threads library, on one OS thread.
A coroutine runs until it blocks (a read, a write, a sleep, a lock, a condition variable, a
join), so code between two blocking calls is atomic, and everything a coroutine read before a
blocking call may have changed after it.  This is where the bugs of such a server are, and it
decides the grain of every model here: **an action is what one coroutine does from one
blocking call to the next**.

    tlc -config MCPublish.cfg Publish      # one of the runs listed below
    tlapm Publish_proofs.tla               # one of the proof modules

## 1. The system

### Components, state, operations

| component | state it keeps | operations | model |
|---|---|---|---|
| Coroutine handle, `srs_app_st.cpp` (over State Threads' `sched.c`, `sync.c`) | `started interrupted disposed cycle_done trd_err`, the thread | start, interrupt, stop (joins), pull, cycle/pfn | `Coroutine` |
| Connection that publishes, `srs_app_rtmp_conn.cpp`, with its receive coroutine, `srs_app_recv_thread.cpp` | loop of `do_publishing`, `nb_msgs`, `recv_error` | acquire_publish, wait/timeout, release_publish | `Publish`, `PublishEdge` |
| Source as a lock on the stream, `srs_app_source.cpp` | `_can_publish _source_id`, the hub's `is_active` | can_publish, on_publish, on_unpublish | `Publish`, `PublishSession` |
| Live source, `SrsSource` with `SrsMetaCache` and `SrsGopCache` | metadata, sequence headers, previous headers, GOP, consumers | on_meta_data, on_audio, on_video, create_consumer, reloads | `LiveSource` |
| Mix queue, `SrsMixQueue` | a multimap by timestamp and two counters | push, pop, clear | `MixQueue` |
| Jitter, `SrsRtmpJitter` | last timestamp in and out | correct, with each algorithm; the play reload | `Timestamps` |
| Player: `SrsConsumer`, `SrsMessageQueue`, `do_playing`, `SrsQueueRecvThread` | queue with first and last time, `mw_waiting`, `paused`, control messages | enqueue, shrink, dump_packets, wait, wakeup, pause, expire | `Player` |
| Edge, play side: `SrsPlayEdge`, `SrsEdgeIngester`, `srs_app_edge.cpp` | edge state, ingester coroutine, upstream | on_client_play, on_all_client_stop, on_ingest_play, the cycle | `PlayEdge` |
| Edge, publish side: `SrsPublishEdge`, `SrsEdgeForwarder` | edge state, `send_error_code`, queue, upstream | on_client_publish, proxy, do_cycle, on_proxy_unpublish | `PublishEdge` |
| Origin hub and forwarders, `source.cpp`, `srs_app_forward.cpp` | `is_active`, the vector of forwarders, each with queue, header, `sdk` | on_publish, on_unpublish, on_audio, on_video, the reloads; the forwarder's cycle | `OriginHub` |
| Server, listener, `srs_app_server.cpp`, `srs_app_listener.cpp` | `conns`, signals | accept_client, on_signal, do_cycle, dispose, gracefully_dispose | `Server` |
| Coroutine manager, `srs_app_thread.cpp` | connections to be freed, a condition variable | remove, clear | `Server` |
| Source manager, `SrsSourceManager` | pool of sources, a lock | fetch_or_create | `Server` |
| Configuration and reload, `srs_app_config.cpp` | the list of subscribers | reload, subscribe, unsubscribe | `Server` |
| HTTP streaming, `srs_app_http_stream.cpp` | templates, entries, the mux | mount, unmount, hijack, do_serve_http, reload of http_remux | `HttpStream` |
| External processes, `srs_app_process.cpp`, `srs_app_ingest.cpp`, `srs_app_encoder.cpp` | vector of engines, `is_started` and pid of each | start, cycle, stop, fast_stop, fast_kill; the passes, reloads and quits over them | `Processes` |
| RTMP chunk reader, `protocol/srs_rtmp_stack.cpp` | one half-read message and the last header per chunk stream | recv_interlaced_message | `ChunkStream` |

`PROJECT.json` lists the others (HLS, DVR, DASH, the HTTP API, casters, codecs, handshake,
utilities) with the reason each is left out: they are encodings, file handling, or bookkeeping
without steps that interleave.

### How they interact

                 publish                                       play
     client --> receive coroutine --> SrsSource --> SrsConsumer --> do_playing --> client
                  ^ joined by           |  ^          (one queue       ^ woken by the source,
                  | do_publishing       |  |           per player)     | by its receive coroutine
             acquire / release          |  |                          or by expire()
                                   SrsOriginHub (services)
     publish / unpublish --> SrsOriginHub --> forwarders, encoder, ng-exec (own coroutines), muxers
                        \--> SrsHttpStreamServer: entry of the stream enabled / disabled
     reload (main coroutine) --> SrsConfig: subscribers one by one --> hubs, ingester, http streams
     edge, play:     first player --> SrsPlayEdge --> ingester coroutine --> SrsSource
     edge, publish:  receive coroutine --> SrsPublishEdge queue --> forwarder coroutine --> origin

- The receive coroutine of a publisher calls the source on its own stack.  The connection
  waits on a condition variable, and joins the receive coroutine before it releases the stream.
- A message goes through the source to every consumer without blocking; the consumer signals
  the player's coroutine when enough is queued.
- A player has a receive coroutine that takes one control message, wakes the player and waits
  until the message was processed.
- On an edge the first consumer starts an ingester, which publishes into the source, and the
  last one to leave stops it, which means joining a coroutine that may be asleep for 3 s.
- Every owner of a coroutine joins it through `SrsSTCoroutine::stop`.
- The hub starts the services of its vhost at a publish and stops them at an unpublish, which
  joins the coroutines of forwarders, encoder and ng-exec one after the other.  A reload, in
  the main coroutine, does the same with one of them.
- A connection that ends hands itself to the coroutine manager, which frees it from a coroutine
  of its own.  A reload calls the subscribers in a loop, and some of them block in it.
- A publish enables the stream's HTTP entry and an unpublish disables it; whoever is served
  looks at the entry between two sends.
- An ingester or encoder forks a process per engine and reaps it in passes; reload, unpublish
  and quit stop engines from other coroutines.

### What is hard, and what makes each component correct

- *Coroutine*: `stop()` blocks in its middle, on a handle others may use meanwhile, and two
  assertions rely on who wrote `trd_err` last.  Correct: no freed thread is signalled, the
  joined error is the reported one, a stop returns.
- *Publish*: the check and the taking of the stream, and joins, hooks and services that block
  between taking and freeing it.  Correct: one publisher, its messages within its session,
  and nobody who fell silent keeps the stream.
- *LiveSource*: caches, live path and hub are updated in a different order for audio, video
  and metadata, each of them may fail in its middle, and caches outlive a publish in part.
  Correct: whoever joins whenever gets the stream whole, in order, once, of one publish, with
  the headers it needs.
- *MixQueue*, *Timestamps*: two counters decide the release of messages neither of them may
  belong to, and one clock is kept for two tracks.  Correct: the counters are exact, the output is
  in order, and a player is given both tracks on the publisher's clock.
- *Player*: a condition variable with two signallers and an interrupt; a queue whose length is
  computed from two numbers that three functions maintain.  Correct: no lost wakeup, control
  messages are processed, the queue is bounded while times go up, and shrinking does not mix up
  headers.
- *PlayEdge*, *PublishEdge*: state that is read before, and written after, a join or a
  connect.  Correct: one ingester, one forwarder, an upstream that is open while it is used,
  and a way out for whoever leaves.

- *OriginHub*: two coroutines stop and start the same services and block between them.  Correct:
  nothing freed is used, services run exactly while the stream is published, another server
  gets headers before frames, an unpublish ends.
- *Server*: who is told of a reload, who frees what when, and how the server ends while clients
  come and go.
- *HttpStream*: an entry that is disabled and enabled again while nobody looks; a request that
  mounts what it asks for.
- *Processes*: a vector of objects that a pass over it uses across its pauses, and a child process
  that several coroutines may reap.
- *ChunkStream*: headers that leave out what did not change, and four bytes that may or may not
  be a timestamp.

The full list, each at its line and with the properties that would catch it going wrong, is
`hazards` in `PROJECT.json`.

## 2. The modules

A name in a module is that of the source where TLA+ allows it (`mw_waiting`, `av_start_time`,
`_can_publish` is `can_publish`).  `pc` variables say where a coroutine is blocked.  A variable
with the comment *history* exists for a property and influences nothing.  A definition whose
comment begins with *Mutant* is a plausible bug of the definition that follows it: the
property named for it in `PROJECT.json` (`mutants`) fails when it is used instead.

The state machine of a module is `Init`, `Next` and `Spec`, except where its proofs share a proof
module with those of another component (section 4): there the names carry a prefix
(`CoroutineInit`, `HttpNext`, `EnginesSpec`, `ChunkSpec`, ...), so that one module can extend both.

### Coroutine

`Users` are the coroutines that call one handle.  `Start`, `StartRefused` and `StartFails` are
`start()`; `Interrupt` is `interrupt()`; `StopBegins` and `StopJoined` are `stop()` before and
after its join, `StopAgain` and `StopUnstarted` its early returns.  `Block`, `Wake`,
`CycleDone` and `CycleFails` are the cycle of the handler, as `ISrsCoroutineHandler` asks for
it: it looks at `pull()` before it blocks.  State Threads' interrupt is modelled with the
flag that makes the next blocking call fail (`intr`).  `KickJoining` is an interrupt of the
coroutine that waits in the join, for the users in `Kickable`.

### Publish, PublishSession

`Publish` has one connection per `Conns`: `Ask` (the request is in the on_publish hook),
`HookRefuses`, `Busy`, `Acquire` and `AcquireFails` (`acquire_publish`), `WakeAndWait` and
`WakeAndLeave` (a turn of the loop of `do_publishing`), `Release` (the receive coroutine is
joined, the hub becomes inactive and stops its services), `Released` (`on_unpublish` gives the
stream back) and `Told` (the on_unpublish hook).  `Deliver` and `RecvEnds` are its receive
coroutine, `Kick` is `expire()`.  `nb_msgs` is abstracted to `fresh`: a message came since the
loop looked last.

`PublishSession` is the abstract specification: sessions that begin, carry messages of their
owner while they are live, close and end.  `Publish` implements it with `owner <- source_id`
and `live <- is_active` (run property `SessionSpec`, theorem `ImplementsSession`).

### LiveSource

One action per call of `on_meta_data`, `on_audio_imp` and `on_video_imp`, for headers and
frames apart, each with its two outcomes of the hub; `OnPublish`, `HubUnpublishes` and
`OnUnpublish`, apart because the hub blocks between them; `CreateConsumer`,
`OnConsumerDestroy`; `SetCache` and `ReloadAtc`, the ways a reload or a connection changes the
GOP cache.  `log[c]` is what a consumer was given since it joined; it is the only history.
Frames are numbered within their session and carry the configuration of the header they
need; payloads are otherwise abstracted to that.  An audio frame that comes before any audio header
is cached in the header's place (`ash`), as the code does for formats without one, keeps its number
there, and is given by `Heads` to whoever joins; `heads[c]` says how many of the messages at the
start of a log came that way, and properties about frames begin behind them.  The properties speak of places in a log
(the next frame after place `i`, the last header before it), not of filtered sequences, so that
they can be proved.  `Publish` shows that at most one publisher
drives this module, so it has none of its own.

### MixQueue

`Arrive` is one call of `on_audio` or `on_video` with mix_correct on: `push()` and at most one
`pop()`.  `Clear` is `clear()`.  A message has a kind, a time and a number; the multimap is a
set ordered by `Before`.

### Timestamps

`MixQueue` with what is around it.  `Mix` is a call of `on_audio` or `on_video` with mix_correct
(`Arrive`, then the message that comes out goes to `SrsConsumer::enqueue`), `Direct` one without;
`Republish` is `on_publish` and `ReloadPlay` `on_reload_vhost_play`.  `Correct` is
`SrsRtmpJitter::correct` for audio and video, with its three algorithms.  `shift`, the
difference between what a player is given and what the publisher sent, is history, as are
`seen` and `steady`.

### Player

The sending coroutine is `Expired`, `ProcessControl`, `Replied`, `SendFails`, `QuitForError`,
`Wait`, `WaitReturns`, `SleepReturns`, `Sent` and `Leave`; at `top` and `control` it runs, and
nothing else happens.  `Enqueue` is a call of `SrsConsumer::enqueue` with everything beneath
it (`SrsMessageQueue::enqueue` and `shrink`, the signal).  `Receive`, `RecvWakes`,
`ReceiveFails` and `SleepStopped` are the receive coroutine, `Expire` the HTTP API.
A message comes with any of `Times`, in any order: the jitter lets times go back by up to 250 ms,
the other modes by any, and 0 is the time of metadata.  `ordered` is history, whether the times went
up since the queue was last empty or shrunk.  `given` is what the client was sent last.

### PlayEdge

A client goes from `out` to `playing`, and back directly, or, as the last one, through the
join of the ingester (`joining`) and the stop of the hub's services (`unpublishing`).  Each
ingester coroutine has a number; `trd` is the current one.  Where the code frees an object
that another coroutine still uses, the model goes on as if the memory were kept: only the
first step of such a behaviour means anything, and the properties are about that step.

### PublishEdge

`Acquire`, `StartFails` and `Started` are `acquire_publish` with the connect to the origin in
the middle; `Proxy`, `ProxyIgnored`, `ProxyFails` and `ReceiveFails` the receive coroutine;
`Stay`, `Leave`, `Quit`, `Release` and `Released` the connection; `ForwarderRuns`,
`UpstreamFails`, `Forward`, `Sent` and `SendFails` the forwarder.  When the queue overflows
depends on the client's timestamps, so it is a choice here; that the length is bounded is
`Player`'s subject.

### OriginHub

`at[a]` says where the publisher and the reload are blocked: in the join of a forwarder, of the
encoder or of ng-exec.  `DestroyForwarders`, `StopForwarder`, `ForwarderStopped` are
`destroy_forwarders()` with `SrsForwarder::on_unpublish` in its loop; `StopServices` and
`ServiceStopped` the rest of `on_unpublish`; `OnPublishFails` a publish of which a service fails
and which the connection releases at once; `OnMessage` a header or frame with any set of muxers
failing and any set of forwarders' queues cut; `ReloadForward`, `ReloadMuxer`, `ReloadJoinable`,
`ReloadStopped` and `ReloadJoined` the `on_reload_vhost_*` handlers.  `Cycle`, `Connected`, `Sent`,
`Forward` and `Fails` are the coroutine of a forwarder.  A queue is the sequence of kinds in it.

Here and in the next three modules the code may use what was freed.  The model then
sets `ub` to what was misused and stops: what the program does afterwards is undefined.
The properties say when that can happen, and that it happens only then.

### Server

`client[c]` is what the server has of a client, from `Accept` to the moment the coroutine manager
frees it (`ManagerClears`).  `Fetch`, `Created` and `CreateFails` are `fetch_or_create` under its
lock.  `subscribes` is the vector of reload handlers; `ReloadBegins`, `ReloadGoesOn` and
`HandlerFails` the loop over it, which stops in a handler that blocks.  A handler is that of a
connection or of a hub, whose source has the number it was made with.  An append may move the
vector (`realloc`).  `QuitBegins`, `Disposed`, `StopsListening` and `GracefullyDisposed` are the
end of `SrsServer::cycle`.

### HttpStream

`entry[s]` is the entry of a stream and its place in the mux.  `OnPublish`, `HubStops` and
`OnUnpublish` are those of the source, apart because the hub blocks; `Reload` changes the
configuration and `OnReload` is the handler, which is told later.  `Request` is a request of a
client that is followed, with `hijack()`, and `OthersRequest` one of anybody else.  `Look` is the
loop of `do_serve_http` from its test to the next sleep or send.

### Processes

One module for `SrsIngester` and `SrsEncoder` (`owner`): `Wakes` and `StartReturns` are a pass over
the vector from one pause to the next, `StopReturns` a stop in it; `Start`, `Joins`,
`JoinReturns` and `ClearReturns` the life of the owner; `ReloadAdds`, `ReloadRemoves` and
`KillReturns` the reload of an ingest; `Dispose` and `FastKill` a fast quit of the ingests, which the
graceful one follows when both signals came; `FastQuit` is the exit of the server from under a
transcoder, which nobody stops.  `Ends` is the operating system.  An engine object and its process
have one number.  A pass keeps its place (`cycle.i`) when a reload erases an engine elsewhere, as the
vector's iterator does, so that it may skip one; it is undefined only when the engine in the pause was
freed, the vector moved, or the place is behind the end by then.

### ChunkStream

One step is one chunk that the peer writes (`FirstChunk`, `NextChunk`, `SetChunkSize`) and
`recv_interlaced_message` reads (`Read`, with `Refused`, `IsExtended`, `TimeOf`, `Takes` for
`read_message_header`).  The socket is a FIFO, so nothing is lost by doing both at once.  `peer` is
what the peer writes, `chunk` what the reader makes of it; payload is counted in units of four
bytes, and what these bytes look like is a choice.  This server's own writer, which always uses
fmt 0 and fmt 3 and repeats the extended timestamp, is one of the peers.  `peer[c].stamp` is what the
peer's last header gave, a time or a difference, `origin` the time of the peer that the reader's times
count from: 0, until an extended difference is taken for a time.

## 3. The runs

States are distinct states TLC finds.

| run | instance | states | question |
|---|---|---|---|
| `timestamps` | release after 3 arrivals of one kind, times 0..3, 5 arrivals, jitter over 2 | 779 575 | Are the counters exact, is the delay bounded, is the output in order and on one clock? |
| `coroutine` | 3 users | 324 | Do the assertions of `stop()` hold, is the error protocol kept, does `stop()` return? |
| `publish` | 3 connections, no bound on steps | 119 232 | Is there one publisher and one session, and is the stream freed? |
| `live_source` | 1 consumer, 2 publishes, 4 messages, 2 header configurations, both reduce settings | 961 106 | Does a consumer get the stream whole, in order, of one publish, with its headers? |
| `play_edge` | 3 players, 3 ingester starts | 84 369 | One ingester, fed players, a quiet edge when nobody plays, and a way out? |
| `player` | queue limit 1, times 0..2, in any order, 3 messages, `mw_min_msgs` 1 | 989 795 | No lost wakeup, controls processed, bounded queue, right headers? |
| `publish_edge` | 2 clients, 2 messages per send, 3 messages per publish | 87 472 | One client per origin stream, an open upstream, whole publishes, a way out? |
| `hub` | 2 forwarders, 1 muxer, 2 messages, 2 reloads | 445 062 | Is nothing freed used, do services follow the stream, do headers come first, does an unpublish end? |
| `server` | 3 clients, limit 2, 3 descriptors, 1 reload, 1 failed source | 336 629 | Is everybody told of a reload, every socket accounted for, nobody lost, and does the server quit? |
| `http` | 2 streams, 1 client followed, 2 publishes, 2 reloads | 900 522 | Is a response of one publish, is a request served, does a client get out? |
| `processes` | 3 names, 4 objects, 2 reloads, each way to quit | 43 799 | Is every process owned, and forked again when it ends? |
| `chunks` | 2 chunk streams, times 0..4 and differences to 3 over limits 2 and 3, 3 units, chunk sizes 1 and 2 | 151 576 | Is what is read what was written, and does the reader stay in step? |

**What the runs show.**

- `QueueIsSound`, `MonotoneMix`, `TracksKeepTime`: `pop()` decides from counters that are exact
  whichever kind it releases; fewer than `SRS_MIX_CORRECT_PURE_AV` messages wait; two
  tracks that are in order each leave in order, except after a release made while one
  track was missing; and then, without gaps, a player is given both on one clock: the
  jitter correction adds the same to every time, although it advances by the difference of two
  messages of different tracks.
- `HandleIsSound`, `ErrorIsFinal`, `StopReturns`: with three coroutines on one
  handle, in every order.
- `OnePublisher`, `SessionSpec`, `SilentPublisherLeaves`, `StreamIsFreed`: the lock on the
  stream, its sessions, and that a publisher keeps sending or loses the stream.
- `GopIsSound`, `NoGapNoRepeat`, `SessionsApart`, `HeadersAsConfigured`: the cache
  is a suffix of the stream and its counters count it; what a consumer was given from caches
  and live path together has no hole, no frame twice and no message of an earlier publish, but for
  the first audio frame of a stream without audio headers, which is given as the header and, if it
  is in the GOP, again; it has the current headers when they are not reduced, and no header twice
  when they are.
- `IngesterIsSound`, `EdgeFollowsPlayers`, `EdgeGoesOn`: under the condition `Calm`, that no
  player came while the last one was leaving and the source accepted the edge, one ingester
  works at a time, for whoever plays, and the edge is idle when nobody does; the origin's errors
  are not final.  That leavers get out needs no such condition.
- `Heard`, `QueueIsBounded`, `FramesMatchHeader`, `PlayerAnswers`: the player never waits for what it
  has; its queue spans `max_queue_size` at most as long as the times in it go up; the last header before a frame, counting
  what was sent, is the frame's own, however the queue was shrunk; what the client asks is
  processed.
- `OneOwner`, `OriginGetsPublish`, `PublishersGetOut`, `QueueIsSent`
  on the publishing edge: one client from before the connect until after the
  join; what the origin got, is sent and is queued is that client's publish.
- `FreedIsNotUsed`, `ServicesFollowStream`, `HeadersComeFirst`, `UnpublishEnds`: a freed forwarder,
  service or client is used only in the three cases the property names; whichever reloads
  overlap with an unpublish, nothing goes on recording or pushing a stream that is over; a
  forwarder sends a header before the frames that need it; an unpublish ends.
- `ReloadReachesAll`, `SocketsAccounted`, `QuitLosesNobody`, `ServerQuits`: a reload tells
  everybody once and uses no stale iterator, unless somebody came or left while a
  handler blocked; the wakeup of the coroutine manager is not lost; refused clients are the only
  sockets nobody closes; a graceful quit waits for connections, a fast one for nothing.
- `ResponseIsSound`, `RequestIsServed`, `ClientsGetOut`: a response is of one publish unless the
  entry was enabled again unseen; the FLV header announces what the source knew; while
  http_remux is on no request is refused, except when two streams have one path.
- `ProcessesAreOwned`, `EndedIsForkedAgain`: no process is nobody's, none is there twice, none
  outlives an unpublish, and none of an ingest the server, except one whose engine a reload removes,
  or the quit meets, in the pause after its fork; and every one that ends is forked again.  Transcode
  processes of a stream that is published when the server exits do outlive it.
- `MessagesArrive`, `StaysInSync`: whatever a legal peer writes, messages arrive with the length
  and, but for extended differences, the time they were written with; the guess
  about an extended timestamp goes wrong in the two cases the property names only.

**Bounds and why they are enough.**

- *Clients and users.*  Three for the handle, the lock and the play edge: one leaves, one
  overlaps with it, one comes after.  On the publishing edge two, since a third would be
  refused in the same states as the second.  `LiveSource` has one consumer, because consumers
  do not affect the source or each other (a message is given to all of them in one step);
  it may join and leave any number of times.
- *Messages and publishes.*  A header, a key frame and two frames after it, spread over two
  publishes, is the shortest stream in which each cache can be stale or incomplete.
  `PureAudioGuess` is 1 and `PureAV` 3, so the guess is reached; the real values (115 and 10)
  change how long it takes.  `Player` needs three messages to have one header dropped, one
  kept and a frame behind it.  In `publish_edge` three messages make two sends of two and an
  overflow with one header of each kind.
- *Times.*  Only differences against a limit matter; times up to twice the limit, going up and back,
  give a queue at its limit, over it, and emptied.  In `timestamps` a difference may be 2 and times go to 3, so
  both sides of the limit occur, in either direction; a player's time goes to 4, one beyond.
  In `chunks` times cross the limit of the three-byte field (2) and of 31 bits (3), and differences,
  to 3, that of the field.
- *Hub.*  Two forwarders, because what is wrong in the loop over them happens between the first
  and the second; one muxer stands for four that are handled alike; two reloads can stop
  what an earlier one created.  Two messages are a header and a frame.
- *Server.*  Three clients with a limit of two: one is refused, or two ask for one source while a
  third comes.  Three descriptors run out when a refused client keeps one.
- *HTTP.*  Two streams collide on one path; two publishes and two reloads (off and on) disable
  and enable an entry in every combination; the other clients are `OthersRequest`.
- *Processes.*  Three engines: one before, at and behind the place of the pass; a fourth object for
  the one that a reload adds while a removed one is in use.  Two reloads.
- *Chunks.*  Two chunk streams interleave; messages of up to three units have a first, a middle and
  a last chunk.
- *`MaxStarts`.*  Three ingesters: the first, one replacing it, and one replacing that.
- `Coroutine` and `Publish` have no bound: their state spaces are finite as they are.

`CHECK_DEADLOCK FALSE` is said where a bounded model ends (the last message, the last
start, a player that is gone) and in `Coroutine`, where the process may abort or every user be
done.  `Timestamps`, `Publish` and `PublishEdge` are checked for deadlock.
It is also said in the modules that stop at undefined behaviour, or with the server.

**Fairness.**  Weak, with one exception, and on what the code bounds in time:

- a runnable coroutine runs (`Sender`, `Serve`, `CycleEnds`, `Connection`, ...);
- a blocking call that has a timeout returns: `rtrd->wait(publish_*_timeout)`, the upstream's
  connect, receive and send timeouts, the player's 500 ms pause while paused and the 3 s sleep
  of an edge coroutine.  A player's `cond_wait` has *no* timeout, and `WaitReturns` is enabled
  only by a signal or an interrupt;
- a coroutine that is interrupted leaves its blocking call (`recv[c] = "stopping"`,
  `disposed[g]`, `pc = "stopping"`, `pc[c] = "joining"`);
- a cycle of a handle that looks at `pull()` comes to its next blocking call or its end;
- in `OriginHub` the steps of a forwarder (connect, send and receive have timeouts) and the joins of
  those that ended; in `Server` the manager that was woken, the reload and the quit, whose timers
  fire; in `HttpStream` sleeps, hooks, and a send to a peer that reads (`Stalls` is a peer that does
  not: a send has no timeout there, and the property makes the exception).
- The exception: `Processes` has strong fairness on the fork of each engine, that is, a fork that is
  tried again and again does not fail for ever.  A pass ends at the first fork that fails, so weak
  fairness of the pass says nothing about the engines behind it.

Not assumed: that a client sends or leaves, that a frame arrives, that an origin answers, that
an upstream fails, that anybody calls the API.

## 4. The proofs

All with TLAPS, for every value of the constants that meets the assumption of the module
(`MixAssumption`, `UsersAssumption`, ...: the bounds are naturals, the sizes the code fixes are
positive, a null connection is not a connection).  Each proof shows `Init => IInv`,
`IInv /\ [Next]_vars => IInv'` action by action, and `IInv => property`.  **Every invariant and every
action property that a run checks is stated by a theorem**, and so are the two refinements.

A proof module covers one component or, where components are about one subject, two or three
that it extends side by side: `Publish_proofs` also the handle by which a publisher starts and
joins its receive coroutine and the HTTP streams that a publish mounts; `Server_proofs` also the
chunk reader; `OriginHub_proofs` also the processes that encoder and ng-exec run.  The parts share
lemmas about sets and sequences, and no state.

| module, part | theorems | argument |
|---|---|---|
| `Timestamps_proofs` | `QueueIsExact`, `MixIsMonotone`, `TimesImplementMixQueue`, `ClockIsPublishers` | `NothingOlder`: after a release made with both tracks present no held message, and no last time of a track, is older than what was released; the counts are cardinalities (`HeldAdd`, `HeldRemove`).  Every step of `Timestamps` is one of `MixQueue` or a stutter, so the queue's invariant holds here.  `ClockOK`: what was given last is the publisher's time and the shift.  `GapsOK`: without gaps each held message has a next one of its track within `MaxJitter`, and the next release is near the last one; so the full algorithm always adds the true difference |
| `Publish_proofs`, `Publish` | `PublishersExclude`, `MessagesStayInside`, `ImplementsSession`, `StreamComesFree` | `HolderKnown`: the connection between taking and freeing is `source_id`; `RecvInside`: receive coroutines live only within it.  The refinement is one abstract step or a stutter per action |
| `Publish_proofs`, `Coroutine` | `HandleIsSafe`, `ErrorStays`, `JoinedThreadEnds` | `FlagsFit` relates the flags to the state of the thread; `JoinsAreInterrupted`: whoever joins has interrupted the thread or found its cycle done, so no interrupt comes after the join |
| `Publish_proofs`, `HttpStream` | `HttpResponseIsSound`, `HttpRequestIsServed` | `ServedInv`: what a response got and will get is of the publish that goes on, or of one that has ended while the entry cannot be enabled without its client being marked (`missed`); what the header does not announce yet is still in the queue.  `EntryInv`: who was told of http_remux has a template, and entries collide only where paths do.  `MountMounts` says what mounting does to the entries, for all callers |
| `LiveSource_proofs` | `SourceCachesGop`, `SourceGivesEveryFrame`, `SourceKeepsSessionsApart`, `SourceGivesHeaders` | In three layers.  `CacheInv`: the caches hold messages of the last publish, the cached GOP begins with a video frame, is consecutive and ends with the last frame sent, and its counters count it; what stands for the audio header has a number not above the last frame's.  `LogInv`, per consumer: `SessionsOf`, its log is of the publishes since it joined; `FramesOf`, its frames follow each other and, while a publish goes on, the last one is the stream's last.  `HeaderInv`: what its log has last of each header is what the cache has, and with `reduce_sequence_header` what the next header will be compared with |
| `PlayEdge_proofs` | `OneIngesterAtATime`, `EdgeRunsForPlayers`, `LeaverIsNotHeldBack` | `Calm => CInv`: a leaver is alone, the ingester it joins is the current one, the edge is idle or busy and nothing between |
| `Player_proofs` | `PlayerTypes`, `PlayerHears`, `PlayerQueueIsBounded`, `PlayerFramesMatchHeader`, `PlayerLeavesSoon` | `Heard` is inductive because nothing runs between the test and the wait; `QueueInv`: while `ordered`, times in the queue are ordered and not before `av_start_time`, which makes `av_end_time - av_start_time` an upper bound of what the queue spans; and `av_end_time` is set while audio or video is queued.  `FrameInv`: behind the queue the last header is the stream's last one, and before each frame it is the frame's own; a shrink keeps the last header of each kind and no frame, so it keeps both |
| `PublishEdge_proofs` | `UpstreamHasOneOwner`, `OriginGetsOnePublish`, `GettingOutTakesFewSteps` | `Owned`: receivers belong to their publishes and an upstream that is not open has an empty queue; the lemmas `StreamGrows`, `StreamIsCut`, `StreamIsBroken` and `StreamMoves` say what appending, shrinking, losing and moving messages does to the publish |
| `OriginHub_proofs`, `OriginHub` | `FreedOnlyWhereNamed`, `HeadersLead`, `NothingOutlivesStream`, `UnpublishComesToEnd` | What an actor may rely on while it joins: `ForwardersFit`, the forwarders told to end are those up to the one that is joined, and one actor destroys them at a time; `SdksFit`, who destroys forwarders has let its own ones run; `ServicesFit`, one actor stops a service, and behind the publisher's stop nothing is up; `HeadersFit`, a session without a header has one before the first frame of its queue.  It holds until `ub` is set, and each step that sets it is shown to be one of the exceptions |
| `OriginHub_proofs`, `Processes` | `ProcessesAreTheirs` | `VectorInv`: an engine in the vector is not freed, and names are there once.  `OwnedInv`: a process that runs is that of an engine in the vector which is started or is the one that the pass has just forked.  `CycleInv` and `MainAt` say what the pass and the main coroutine may rely on across their pauses: that the engine being started is in the vector, wherever reloads moved it, as long as `valid`; and that what the main coroutine has passed has ended |
| `Server_proofs`, `Server` | `ServerReloadReachesAll`, `ServerSocketsAccounted`, `ServerQuitLosesNobody`, `ServerIsNotHeldBack` | `ConnInv`: every handler in the vector is alive and there once, one source is made at a time and none while the pool has it, and whoever is over has woken the manager.  `TellInv`: as long as nobody came or left in a handler that blocks, the vector is the one the notification began with, and those up to the iterator were told.  `MainInv`: a notification belongs to the main loop, and who waits for connections does not listen |
| `Server_proofs`, `ChunkStream` | `AgreementIsKept`, `MessagesAreThePeers`, `ReaderStaysInSync` | `Agree`: what the reader keeps of a chunk stream (last difference, length, what is missing, and the last time, counted from `origin`) is what its peer wrote; `FirstIsRead` and `NextIsRead` keep it for each header format, with the lemmas on remainders (`RemainderOfSum`, `RemainderDiffers`) for times past 31 bits |

Why a strengthening is needed: most of the properties speak of the moment when things have
gone wrong, and hold only because of what each coroutine may rely on while it is blocked.
The invariants above are that knowledge, stated once.  The type invariants of the modules are parts
of them.

**Liveness, as far as it can be proved.**  TLAPS does not treat `ENABLED`, and so no fairness: the
eleven liveness properties (`StopReturns`, `SilentPublisherLeaves`, `StreamIsFreed`, `EdgeGoesOn`,
`PlayerAnswers`, `PublishersGetOut`, `QueueIsSent`, `UnpublishEnds`, `ServerQuits`, `ClientsGetOut`,
`EndedIsForkedAgain`) are only model-checked.  For seven of them the part that needs no fairness is
proved: a distance from the goal that *no* step of anybody raises, and that each step somebody waits
for lowers.  What fairness adds is only that those steps are taken.

| theorem | distance | of | part of |
|---|---|---|---|
| `StreamComesFree` | the end of the receive coroutine, its join, the stop of the services | a publisher that left its loop | `StreamIsFreed` |
| `JoinedThreadEnds` | (an invariant) the joined thread has ended or is about to see that it must | a `stop()` | `StopReturns` |
| `PlayerLeavesSoon` | the control messages left and the place in the loop | a player that was expired or lost its client | `PlayerAnswers` |
| `LeaverIsNotHeldBack` | the ingester's receive, pause and look, the join, the stop of the hub | a player that leaves an edge, with or without `Calm` | `EdgeGoesOn` |
| `GettingOutTakesFewSteps` | the next look at the error; the joins of receiver and forwarder | a client of the publishing edge | `PublishersGetOut` |
| `UnpublishComesToEnd` | the forwarders left, each with the steps to its end, and the services | an unpublish, whatever is reloaded | `UnpublishEnds` |
| `ServerIsNotHeldBack` | the rest of a reload and the pauses of the two quits | a server that was told to quit | `ServerQuits` |

The others rest on fairness alone, or more than weak fairness (`EndedIsForkedAgain`), or have nothing
that stays nearer: an entry that is disabled may be enabled again (`ClientsGetOut`), and a publisher
that is silent may send (`SilentPublisherLeaves`).

**Not proved for another reason:** nothing that a run checks.  That the models' bounded counters are
large enough is an argument (section 3), not a theorem.

## 5. What is not modelled

- *Other components*: see the table above and `PROJECT.json`.
- *Within the modelled ones.*  The HTTP hooks are blocking calls that may fail.  The choice of
  the origin, the RTMP exchange with it and its bandwidth test are one blocking call with a
  result.  ATC times, aggregate messages, codec parsing, statistics and
  `req->duration` are left out.  Reloads that change the role of a vhost, or `queue_length`
  and `mw_*` while a player is connected, are left out; so is a reload of `listen`, which ends the
  server (below).  `HttpStream` has FLV without `fast_cache`; `ChunkStream` has neither the basic
  header's bytes nor acknowledgements.
- *Compositions.*  `LiveSource` has the hub's outcome as a choice (`HubTakes`, `HubFails`), `Publish`
  its failures (`AcquireFails`), and `OriginHub` a publisher that `Publish` shows to be alone; the
  three are not composed in one module.

**Seen in the code.**  Each of these is a step of a model; where a
property would fail because of it, the property names it as its exception.

*Coroutines, sources and players.*

- `srs_assert(!r0)` after the join (`st.cpp:146`) fails when the coroutine that joins is itself
  interrupted, as `expire()` may do: `KickJoining`.
- `stop()` called twice: the second returns while the thread still runs (`st.cpp:135`), although
  `st.hpp:141` says "Interrupt the thread then wait to terminated".  `LeaveAgain` of `PlayEdge` is a
  caller that does it.
- `pull()` after a cycle that returned success gives success (`st.cpp:178`), where `st.hpp:153`
  names `ERROR_THREAD_TERMINATED`.
- With mix_correct the server shall "always ensure the timestamp of audio+video is
  interleaved/mixed monotonically increase" (`conf/full.conf:492`); it does not around a release
  made for lack of one track (`source.cpp:790`).
- The full jitter algorithm shall "ensure stream monotonically increasing" (`source.hpp:66`, and
  `source.cpp:122`: "ensure the delta is positive"), but a difference between -250 ms and 0 is added as
  it is (`source.cpp:134`): the times 2, then 0, are given as 1, then 0.  Where times go back, `av_end_time - av_start_time` (`source.cpp:282`) is less than
  the queue spans, which may then exceed `max_queue_size`: the condition `ordered`.
- The first audio frame of a stream without audio headers (MP3, or AAC that starts late) is cached as
  one (`source.cpp:2198`); a later player gets it as the header (`:1570`) and, if it is in the GOP, again.
- The GOP cache can begin with an inter frame, when it is turned on or cleared in the middle of a
  GOP (`source.cpp:661`), and can need an older header than the one dumped with it (`:2301`).
- With `reduce_sequence_header` a header equal to that of the publish before is dropped also for a
  player that joined between the two publishes and was never given it (`source.cpp:2292`); and
  the first metadata is dropped, because the cache is updated before the test "when already got
  metadata" (`source.cpp:2099`).
- `dump_packets` takes the time of the last message also when that is metadata with time 0, so that
  the queue seems longer than it is and is shrunk before it is full (`source.cpp:309`).
- An unpublish wakes no player, so the last messages of a stream, when they are fewer than a player
  waits for, stay queued until the next publish.

*Edge.*

- A player that comes while the last one leaves finds the edge still busy, starts no ingester, and
  stays without one (`edge.cpp:693`, `source.cpp:2557`): the condition `Calm`.
- A `create_consumer` whose edge fails in `source->on_publish` leaves its consumer registered and
  the edge in state Play (`source.cpp:2558`): `accepted`.
- A failed send ends the coroutine of the forwarder (`edge.cpp:544`, `:616`; the comment at `:530`
  says it retries), and the client is not told: the exception of `QueueIsSent`.
- A forwarder that fails after its connect leaves the upstream open until the next publish
  (`sdk = "left"`).

*Hub and server.*

- `destroy_forwarders()` blocks while it iterates, and a reload may do the same (`source.cpp:1498`);
  `SrsForwarder::on_unpublish` closes an `sdk` that exists only after its coroutine ran
  (`forward.cpp:109`): the cases of `FreedIsNotUsed`.
- The socket of a client refused by `fd2conn` for the limit of connections is not closed
  (`server.cpp:1400`); at the limit of descriptors accept fails and the coroutine of the listener
  ends.
- `fetch_or_create` drops a source that fails to initialize while it stays subscribed to reloads
  (`source.cpp:1717`).  A reload iterates over subscribers that block and change the list
  (`config.cpp:1326`): the exception of `ReloadReachesAll`.
- A reload of `listen` starts the coroutine manager once more, which fails, and so ends the server;
  so does a reload of a configuration that does not parse.

*HTTP streaming.*

- With a template without `[stream]` two streams have one path; `mux.handle` fails for the second,
  whose entry is then used through a null pointer (`http_stream.cpp:955`).
- Streams published after http_remux was turned off are still mounted and served.
- A batch that holds nothing but metadata is not written to the client; the buffer cache is not
  cleared at an unpublish.
- A client that looks between two sends misses an unpublish followed by a publish, and is given both
  in one response; a peer that does not read is never timed out.

*Processes.*

- `SrsProcess::start` pauses for 10 ms after the fork (`process.cpp:253`): a reload in that time frees
  the engine whose start it is, or moves the vector (`ingest.cpp:239`), and the process is nobody's.
  When it frees one before the place of the pass, the next is skipped until the next pass, and the
  iterator passes the vector's end if there is no next.
- `fast_kill` passes over what is in that pause, as it does not count as started yet
  (`process.cpp:341`), so that process outlives the quit; with ten or more ingests to fork the pass can
  last until it.
- `fast_stopped` (`process.cpp:273`) is set nowhere, so a pass may fork again what a fast stop has just
  ended.  A fast quit disposes of the ingester only (`server.cpp:678`): transcode and ng-exec processes
  go on.

*Chunks.*

- A peer need not repeat an extended timestamp in the chunks after the first.  The reader then takes
  four bytes of payload for it when they equal the time, or when the time is a multiple of 2^31
  (`rtmp_stack.cpp:1220`): the exception of `StaysInSync`.
- With fmt 1 and 2 the timestamp of a header, extended or not, is the difference to the message before
  (`rtmp_stack.cpp:1108`, `:1132`).  An extended one is stored as the time (`:1224`): from then on the
  stream's times are less than the peer's by what came before, which `MessagesArrive` has as `origin`.
- Acknowledgements are sent only after a whole message was read, so a peer with a window smaller
  than its message waits for ever.

## 6. Plan

Done: `MixQueue` and `Timestamps`, `Coroutine`, `Publish` over `PublishSession`, `LiveSource`,
`PlayEdge`, `Player`, `PublishEdge`, `OriginHub`, `Server`, `HttpStream`, `Processes`,
`ChunkStream`, in the order of how much of the system rests on them.

Next, in this order:

1. `LiveStream`, the composition of `Publish`, `LiveSource` and `Player`: what a client is given is
   related to what its publisher sent, and proved from the invariants of the three.
2. HLS and DVR: segments are closed, listed and reaped while a reload or an unpublish comes.
3. The window acknowledgement of the chunk layer, in both directions.
4. Abstract specifications of the server's list of subscribers and of a mounted stream, and the
   refinements to them.

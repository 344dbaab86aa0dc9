------------------------------ MODULE OriginHub ------------------------------
(***************************************************************************)
(* The hub of an origin: a publish starts the forwarders and the services   *)
(* of its vhost and an unpublish stops them, a reload stops and starts one   *)
(* of them in between (SrsOriginHub), and each forwarder pushes the stream    *)
(* to another server from a coroutine of its own (SrsForwarder).             *)
(*                                                                         *)
(* Stopping a forwarder, the encoder or ng-exec joins a coroutine.  While the *)
(* publisher or the reload waits there, the other one runs.  Where the code   *)
(* then uses what is freed, the model records it in ub and stops: what the    *)
(* program does afterwards is undefined.                                    *)
(***************************************************************************)
EXTENDS Integers, Sequences

CONSTANTS
    Endpoints,    \* number of servers to forward to
    Muxers,       \* HLS, DASH, DVR, HDS: services that never block
    MaxMsgs,      \* bound: messages of a publish
    MaxReloads    \* bound: reloads

ASSUME OriginHubAssumption ==
    /\ Endpoints \in Nat /\ MaxMsgs \in Nat /\ MaxReloads \in Nat
    /\ Muxers \intersect {"encoder", "exec"} = {}

VARIABLES
    is_active,
    forwarders,   \* the vector, with the state of each forwarder
    service,      \* "up", "stopping" (its coroutine is joined) or "down"
    vsh,          \* the source has a sequence header
    at,           \* where the publisher and the reload are: [pc, i]
    msgs,         \* messages of this publish
    reloads,      \* reloads so far
    refused,      \* history: services that failed and were not started again
    broken,       \* history: this on_publish failed half way
    ub            \* undefined behaviour met: "none", or what was misused

history == <<refused, broken>>
vars == <<is_active, forwarders, service, vsh, at, msgs, reloads, history, ub>>

Actors == {"publisher", "reload"}
Joinable == {"encoder", "exec"}       \* services with a coroutine of their own
Services == Joinable \union Muxers    \* started and stopped in this order: encoder, muxers, exec

Idle == [pc |-> "idle", i |-> 0]
AllDown == [s \in Services |-> "down"]

Init ==
    /\ is_active = FALSE
    /\ forwarders = <<>>
    /\ service = AllDown
    /\ vsh = FALSE
    /\ at = [a \in Actors |-> Idle]
    /\ msgs = 0 /\ reloads = 0
    /\ refused = {} /\ broken = FALSE
    /\ ub = "none"
-----------------------------------------------------------------------------
(* Stopping and starting.  fs and sv are the forwarders and services an actor  *)
(* has at hand when it comes to these calls.                                 *)

(* A forwarder: sh, it keeps a header; hdr, this session sent one; bare         *)
(* (history), a frame was sent in a session without the header it needs.      *)
NewForwarder(a) == [by |-> a, pc |-> "new", disposed |-> FALSE, freed |-> FALSE, sdk |-> FALSE,
                    queue |-> <<>>, sh |-> FALSE, hdr |-> FALSE, bare |-> FALSE]

(* create_forwarders: each is created and its coroutine started.             *)
Created(a) == [i \in 1 .. Endpoints |-> NewForwarder(a)]

Put(sv, S, v) == [s \in Services |-> IF s \in S THEN v ELSE sv[s]]

(* SrsOriginHub::on_unpublish behind destroy_forwarders: services S are stopped *)
(* in their order, up to one whose coroutine has to be joined.  The second stop *)
(* of a coroutine returns at once, and what it still uses is freed.           *)
StopServices(S, sv) ==
    LET busy == {s \in S \intersect Joinable : sv[s] # "down"}
        next == IF "encoder" \in busy THEN "encoder" ELSE "exec"
    IN  IF busy = {}
        THEN /\ service' = Put(sv, S, "down")
             /\ at' = [at EXCEPT !["publisher"] = Idle]
             /\ UNCHANGED ub
        ELSE /\ service' = [Put(sv, IF next = "exec" THEN S ELSE {}, "down") EXCEPT ![next] = "stopping"]
             /\ at' = [at EXCEPT !["publisher"] = [pc |-> next, i |-> 0]]
             /\ ub' = IF sv[next] = "stopping" THEN "service" ELSE ub

(* Mutant: a reload starts what it stopped although nobody publishes. *)
ActiveOrNot == TRUE

(* "Don't start ... when source is not active."                              *)
MayStart == is_active

(* What follows destroy_forwarders: the publisher goes on with on_unpublish,   *)
(* the reload creates the forwarders anew.                                   *)
AfterForwarders(a, sv) ==
    IF a = "publisher"
    THEN /\ forwarders' = <<>>
         /\ StopServices(Services, sv)
    ELSE /\ forwarders' = IF MayStart THEN Created(a) ELSE <<>>
         /\ at' = [at EXCEPT ![a] = Idle]
         /\ service' = sv
         /\ UNCHANGED ub

(* Actor a interrupts the coroutine of forwarder i and waits for its end.  A   *)
(* forwarder that another actor stops or has freed must not be touched.       *)
StopForwarder(a, i, fs, sv) ==
    /\ ub' = IF fs[i].disposed THEN "forwarder" ELSE ub
    /\ forwarders' = [fs EXCEPT ![i].disposed = TRUE]
    /\ at' = [at EXCEPT ![a] = [pc |-> "forwarders", i |-> i]]
    /\ service' = sv

DestroyForwarders(a, fs, sv) ==
    IF fs = <<>> THEN AfterForwarders(a, sv) ELSE StopForwarder(a, 1, fs, sv)

(* Mutant: stop() does not wait for the end of the coroutine. *)
NoJoin(f) == TRUE

JoinReturned(f) == f.pc = "ended"

(* The join returned: on_unpublish of the forwarder closes its sdk, and the    *)
(* loop goes on to the next one.                                             *)
ForwarderStopped(a) ==
    LET i == at[a].i
        f == forwarders[i]
        fs == [forwarders EXCEPT ![i].freed = TRUE]
        misuse == IF ~f.sdk THEN "sdk" ELSE IF f.pc # "ended" THEN "forwarder" ELSE "none"
    IN  /\ ub = "none"
        /\ at[a].pc = "forwarders"
        /\ JoinReturned(f)
        /\ IF misuse # "none"
           THEN ub' = misuse /\ UNCHANGED <<forwarders, service, at>>
           ELSE IF i < Len(forwarders)
           THEN StopForwarder(a, i + 1, fs, service)
           ELSE AfterForwarders(a, service)
        /\ UNCHANGED <<is_active, vsh, msgs, reloads, history>>
-----------------------------------------------------------------------------
(* Whoever created coroutines comes back from the network or a timer, which    *)
(* State Threads looks at only when no coroutine is ready: they have run.      *)
Comes(a, where) ==
    /\ ub = "none"
    /\ at[a].pc = where
    /\ \A i \in 1 .. Len(forwarders) : forwarders[i].pc = "new" => forwarders[i].by # a

OnPublish ==
    /\ Comes("publisher", "idle")
    /\ forwarders' = Created("publisher")
    /\ service' = Put(service, Services, "up")
    /\ is_active' = TRUE
    /\ at' = [at EXCEPT !["publisher"].pc = "live"]
    /\ msgs' = 0 /\ vsh' = FALSE
    /\ refused' = {} /\ broken' = FALSE
    /\ UNCHANGED <<reloads, ub>>

(* A service refuses to start behind those in S: the connection releases the   *)
(* publish at once, so on_unpublish meets forwarders that never ran.          *)
OnPublishFails(S) ==
    /\ Comes("publisher", "idle")
    /\ DestroyForwarders("publisher", Created("publisher"),
                         Put(service, S, "up"))
    /\ refused' = {} /\ broken' = TRUE
    /\ UNCHANGED <<is_active, vsh, msgs, reloads>>

OnUnpublish ==
    /\ Comes("publisher", "live")
    /\ is_active' = FALSE
    /\ DestroyForwarders("publisher", forwarders, service)
    /\ UNCHANGED <<vsh, msgs, reloads, history>>

(* The coroutine of the encoder or of ng-exec ended: its processes are freed.  *)
ServiceStopped ==
    /\ ub = "none"
    /\ at["publisher"].pc \in Joinable
    /\ LET s == at["publisher"].pc
       IN  StopServices(IF s = "exec" THEN {s} ELSE Services \ {s}, [service EXCEPT ![s] = "down"])
    /\ UNCHANGED <<is_active, forwarders, vsh, msgs, reloads, history>>

Has(q, m) == \E j \in 1 .. Len(q) : q[j] = m

(* A queue with one more message.  Those of one kind that follow each other     *)
(* count once.                                                               *)
Longer(q, m) == IF q # <<>> /\ q[Len(q)] = m THEN q ELSE Append(q, m)

(* A queue that grew too long keeps its last header only.                      *)
Shrunk(q) == IF Has(q, "sh") THEN <<"sh">> ELSE <<>>

(* SrsForwarder::on_video: the header is kept beside the queue, which may be    *)
(* cut.                                                                      *)
Taken(f, m, cut) ==
    LET q == Longer(f.queue, m)
    IN  [f EXCEPT !.queue = IF cut THEN Shrunk(q) ELSE q,
                  !.sh = @ \/ m = "sh"]

Receives(sh) ==
    /\ Comes("publisher", "live")
    /\ msgs < MaxMsgs
    /\ vsh' = (vsh \/ sh)
    /\ UNCHANGED <<is_active, at, reloads, broken>>

(* on_audio and on_video.  Muxers that fail are stopped and the message goes   *)
(* on to every forwarder; "early" is a frame that came before any header.     *)
OnMessage(sh, failed, cut) ==
    /\ Receives(sh)
    /\ msgs' = msgs + 1
    /\ \A s \in failed : service[s] = "up"
    /\ service' = Put(service, failed, "down")
    /\ refused' = refused \union failed
    /\ IF \E i \in 1 .. Len(forwarders) : forwarders[i].freed
       THEN ub' = "forwarder" /\ UNCHANGED forwarders
       ELSE /\ forwarders' = [i \in 1 .. Len(forwarders) |->
                                Taken(forwarders[i], IF sh THEN "sh" ELSE IF vsh THEN "frame" ELSE "early",
                                      i \in cut)]
            /\ UNCHANGED ub

(* HLS fails and its strategy is to disconnect: the error ends the receiving    *)
(* coroutine of the publisher.                                               *)
OnMessageFails(sh) ==
    /\ Receives(sh)
    /\ \E s \in Muxers : service[s] = "up"
    /\ msgs' = MaxMsgs
    /\ UNCHANGED <<forwarders, service, refused, ub>>
-----------------------------------------------------------------------------
(* The reload of one service of the vhost.                                   *)
Reloading ==
    /\ Comes("reload", "idle")
    /\ reloads < MaxReloads /\ reloads' = reloads + 1
    /\ UNCHANGED <<is_active, vsh, msgs, broken>>

(* on_reload_vhost_forward.                                                  *)
ReloadForward ==
    /\ Reloading
    /\ DestroyForwarders("reload", forwarders, service)
    /\ UNCHANGED refused

(* on_publish of the service behind its on_unpublish: it may fail.             *)
Restarted(s, ok) ==
    /\ service' = [service EXCEPT ![s] = IF MayStart /\ ok THEN "up" ELSE "down"]
    /\ refused' = IF MayStart /\ ~ok THEN refused \union {s} ELSE refused \ {s}

(* on_reload_vhost_hls, _dash and _dvr: nothing blocks.                       *)
ReloadMuxer(s, ok) ==
    /\ Reloading
    /\ Restarted(s, ok)
    /\ UNCHANGED <<forwarders, at, ub>>

(* on_reload_vhost_transcode and _exec: the coroutine of the service is joined. *)
ReloadJoinable(s) ==
    /\ Reloading
    /\ service[s] # "down"
    /\ service' = [service EXCEPT ![s] = "stopping"]
    /\ ub' = IF service[s] = "stopping" THEN "service" ELSE ub
    /\ at' = [at EXCEPT !["reload"] = [pc |-> s, i |-> 0]]
    /\ UNCHANGED <<forwarders, refused>>

ReloadStopped(s, ok) ==
    /\ Reloading
    /\ service[s] = "down"
    /\ Restarted(s, ok)
    /\ UNCHANGED <<forwarders, at, ub>>

ReloadJoined(ok) ==
    /\ ub = "none"
    /\ at["reload"].pc \in Joinable
    /\ Restarted(at["reload"].pc, ok)
    /\ at' = [at EXCEPT !["reload"] = Idle]
    /\ UNCHANGED <<is_active, forwarders, vsh, msgs, reloads, broken, ub>>
-----------------------------------------------------------------------------
(* The coroutine of a forwarder.                                             *)
Goes(i, from, f) ==
    /\ ub = "none"
    /\ forwarders[i].pc = from
    /\ forwarders' = [forwarders EXCEPT ![i] = f]
    /\ UNCHANGED <<is_active, service, vsh, at, msgs, reloads, history, ub>>

(* Mutant: the loop does not look at pull(). *)
NeverPulled(f) == FALSE

Pulled(f) == f.disposed

(* The top of the loop, first or after the pause: pull(), then do_cycle        *)
(* replaces the client and connects.                                         *)
Cycle(i, from) ==
    LET f == forwarders[i]
    IN  Goes(i, from, IF Pulled(f) THEN [f EXCEPT !.pc = "ended"]
                      ELSE [f EXCEPT !.pc = "connecting", !.sdk = TRUE, !.hdr = FALSE])

(* Any error of a session, an interrupt among them, is followed by the pause.  *)
Fails(i, from) == Goes(i, from, [forwarders[i] EXCEPT !.pc = "pause"])

(* Mutant: the session begins with what is queued. *)
NothingFirst(f) == FALSE

(* forward() sends the headers it has before the queue.                      *)
HeaderFirst(f) == f.sh

(* on_forwarder_start queues the headers of the source and forward() begins to *)
(* send: first its own copy of the header.                                   *)
Connected(i) ==
    LET f == IF vsh THEN Taken(forwarders[i], "sh", FALSE) ELSE forwarders[i]
    IN  /\ ~forwarders[i].disposed
        /\ Goes(i, "connecting", [f EXCEPT !.pc = "sending", !.hdr = HeaderFirst(f)])

Sent(i) ==
    /\ ~forwarders[i].disposed
    /\ Goes(i, "sending", [forwarders[i] EXCEPT !.pc = "receiving"])

(* A frame that has a header is sent in a session where none was.             *)
Bare(f) ==
    \E j \in 1 .. Len(f.queue) :
        f.queue[j] = "frame" /\ ~f.hdr /\ \A k \in 1 .. j - 1 : f.queue[k] # "sh"

(* The other server said something or was silent for 500 ms: what is queued    *)
(* is sent.                                                                  *)
Forward(i) ==
    LET f == forwarders[i]
    IN  /\ ~f.disposed
        /\ f.queue # <<>>
        /\ Goes(i, "receiving",
                [f EXCEPT !.pc = "sending", !.queue = <<>>,
                          !.hdr = @ \/ Has(f.queue, "sh"),
                          !.bare = @ \/ Bare(f)])

ForwarderRuns(i) ==
    /\ i \in 1 .. Len(forwarders)
    /\ \/ Cycle(i, "new") \/ Cycle(i, "pause")
       \/ Connected(i) \/ Sent(i) \/ Forward(i)
       \/ \E from \in {"connecting", "sending", "receiving"} : Fails(i, from)
-----------------------------------------------------------------------------
PublisherMoves ==
    \/ OnPublish \/ OnUnpublish \/ ServiceStopped \/ ForwarderStopped("publisher")
    \/ OnPublishFails({}) \/ \E M \in SUBSET Muxers : OnPublishFails({"encoder"} \union M)
    \/ \E sh \in BOOLEAN :
          \/ \E failed \in SUBSET Muxers, cut \in SUBSET (1 .. Endpoints) : OnMessage(sh, failed, cut)
          \/ OnMessageFails(sh)

ReloadMoves ==
    \/ ReloadForward \/ ForwarderStopped("reload")
    \/ \E ok \in BOOLEAN :
          \/ \E s \in Muxers : ReloadMuxer(s, ok)
          \/ \E s \in Joinable : ReloadStopped(s, ok)
          \/ ReloadJoined(ok)
    \/ \E s \in Joinable : ReloadJoinable(s)

Next == PublisherMoves \/ ReloadMoves \/ \E i \in 1 .. Endpoints : ForwarderRuns(i)

Spec == Init /\ [][Next]_vars

(* Forwarders have timeouts and end when they are told to; so do the encoder   *)
(* and ng-exec.                                                              *)
FairSpec ==
    /\ Spec
    /\ \A i \in 1 .. Endpoints : WF_vars(ForwarderRuns(i))
    /\ \A a \in Actors : WF_vars(ForwarderStopped(a))
    /\ WF_vars(ServiceStopped)
-----------------------------------------------------------------------------
(* destroy_forwarders and the stops behind it block between the end of one      *)
(* coroutine and the next.  Nothing that was freed is used by messages, by the   *)
(* unpublish or by a coroutine, with these exceptions: a reload of the          *)
(* forwarders is under way; publisher and reload stop the same service; an sdk   *)
(* is closed that its forwarder never opened, because on_publish failed or the    *)
(* other actor stops what was just created.                                  *)
FreedIsNotUsed ==
    CASE ub = "none" -> TRUE
      [] ub = "forwarder" -> at["reload"].pc = "forwarders"
      [] ub = "service" -> at["publisher"].pc = at["reload"].pc
      [] ub = "sdk" -> broken \/ \E a \in Actors : /\ at[a].pc = "forwarders"
                                                   /\ forwarders[at[a].i].by # a

(* When nobody is in the middle of a publish, an unpublish or a reload, the     *)
(* services run exactly while the stream is published, whatever failed and      *)
(* whichever reloads overlapped with an unpublish: nothing goes on recording,    *)
(* transcoding or pushing a stream that is over.                             *)
ServicesFollowStream ==
    ub = "none" /\ at["reload"] = Idle /\ at["publisher"].pc \in {"idle", "live"} =>
        /\ is_active = (at["publisher"].pc = "live")
        /\ Len(forwarders) = IF is_active THEN Endpoints ELSE 0
        /\ \A i \in 1 .. Len(forwarders) : ~forwarders[i].disposed
        /\ service = IF is_active THEN Put(Put(service, Services, "up"), refused, "down") ELSE AllDown

(* Another server never gets a frame in a session in which it got no header,    *)
(* if the stream had one when the frame came: also when the forwarder was        *)
(* created in the middle of the stream or connects again, and its queue was      *)
(* cut meanwhile.                                                            *)
HeadersComeFirst == \A i \in 1 .. Len(forwarders) : ~forwarders[i].bare

(* An unpublish that waits for forwarders, which connect, send or pause, and    *)
(* for services, comes to its end.                                           *)
UnpublishEnds ==
    at["publisher"].pc \in {"forwarders"} \union Joinable ~> at["publisher"] = Idle \/ ub # "none"
=============================================================================

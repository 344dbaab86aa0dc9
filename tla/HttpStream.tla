----------------------------- MODULE HttpStream -----------------------------
(***************************************************************************)
(* HTTP-FLV: a stream that is published is mounted in the HTTP server, from  *)
(* the template of its vhost (http_remux); a client asks for a path, which    *)
(* is matched with the mounted streams or mounts the stream it names          *)
(* (SrsHttpStreamServer::hijack); it is then served from a consumer of the     *)
(* source until the stream's entry is disabled, by the end of the publish or   *)
(* by a reload, or until it closes (SrsLiveStream).  A client that is served   *)
(* looks at the entry between two sends or two sleeps only.                *)
(*                                                                         *)
(* HttpInit and its like carry a prefix for Publish_proofs, which is about   *)
(* this module and Publish.                                                *)
(***************************************************************************)
EXTENDS Naturals, FiniteSets

CONSTANTS
    Streams,      \* a stream is also the path that names it
    Clients,      \* the clients whose responses are followed, out of any number
    MaxPublish,   \* bound: publishes
    MaxReload     \* bound: reloads of http_remux

ASSUME HttpStreamAssumption == MaxPublish \in Nat /\ MaxReload \in Nat /\ Streams # {}

VARIABLES
    mount,        \* the path a stream is mounted at, by the template
    remux,        \* whether the configuration enables http_remux
    template,     \* whether the vhost has a template in tflvs
    told,         \* whether the stream server was told of the last reload
    reloads,      \* reloads so far
    publish,      \* publish[s]: its state, its number, the kinds of message known
    publishes,    \* publishes so far
    entry,        \* the entry of a stream in sflvs, see Entries
    client,       \* the clients and what they got
    ub            \* undefined behaviour met

streamVars == <<publish, publishes>>
configVars == <<remux, template, told, reloads>>
httpVars == <<mount, configVars, streamVars, entry, client, ub>>

Kinds == {"script", "audio", "video"}
AV == {"audio", "video"}

(* "none"; "unregistered", in sflvs while mux.handle() failed, so its stream has *)
(* no mux entry; "disabled" or "enabled", in the mux.                          *)
Mounted(s) == entry[s] \in {"disabled", "enabled"}

AnyStream == CHOOSE s \in Streams : TRUE

(* at: where the connection's coroutine is; stream: whose handler serves it;     *)
(* queue: messages in its consumer; header: the FLV header is written; of: the    *)
(* publishes the response has messages of.  History: untold, audio and video the *)
(* source knew as it joined, less what the header announces; missed, the entry    *)
(* was disabled and enabled again unseen.                                        *)
Away == [at |-> "away", stream |-> AnyStream, queue |-> {},
         header |-> FALSE, untold |-> {}, of |-> {}, missed |-> FALSE, closed |-> FALSE]

Idle == [state |-> "idle", number |-> 0, known |-> {}]

(* The template either has the stream in the path, or one path for every one. *)
HttpInit ==
    /\ mount \in {[s \in Streams |-> s]} \union {[s \in Streams |-> AnyStream]}
    /\ remux \in BOOLEAN /\ template = remux /\ told = TRUE /\ reloads = 0
    /\ publish = [s \in Streams |-> Idle]
    /\ publishes = 0
    /\ entry = [s \in Streams |-> "none"]
    /\ client = [c \in Clients |-> Away]
    /\ ub = "none"

Running == ub = "none"
Serving(c) == client[c].at \in {"sleep", "send", "stuck"}
Enabled(c) == entry[client[c].stream] = "enabled"

NullEntry(S) == ub' = IF \E s \in S : entry[s] = "unregistered" THEN "null_entry" ELSE ub
-----------------------------------------------------------------------------
(* http_mount: a stream seen first is mounted at its path, unless another has   *)
(* the path; one that is known is enabled, whatever the configuration says.      *)
PathIsTaken(s) == \E t \in Streams : Mounted(t) /\ mount[t] = mount[s]

MountOf(s) ==
    CASE entry[s] = "none" /\ ~template        -> "none"
      [] entry[s] = "none" /\ template         -> IF PathIsTaken(s) THEN "unregistered" ELSE "enabled"
      [] entry[s] = "unregistered"             -> "unregistered"
      [] OTHER                                 -> "enabled"

HttpMount(S) ==
    /\ entry' = [s \in Streams |-> IF s \in S THEN MountOf(s) ELSE entry[s]]
    /\ NullEntry(S)

(* The clients, when the streams of S are mounted (history).                    *)
Unseen(S) ==
    [c \in Clients |-> [client[c] EXCEPT
        !.missed = @ \/ (Serving(c) /\ client[c].stream \in S /\ ~Enabled(c))]]

(* Mutant: an entry that is disabled stays in the mux as it was. *)
NotUnmounted(S) == entry' = entry /\ NullEntry(S)

HttpUnmount(S) ==
    /\ entry' = [s \in Streams |-> IF s \in S /\ Mounted(s) THEN "disabled" ELSE entry[s]]
    /\ NullEntry(S)
-----------------------------------------------------------------------------
(* SrsSource::on_publish, which fails when the stream cannot be mounted.        *)
OnPublish(s) ==
    /\ Running
    /\ publish[s].state = "idle" /\ publishes < MaxPublish
    /\ publishes' = publishes + 1
    /\ HttpMount({s})
    /\ publish' = [publish EXCEPT ![s] =
          [state |-> IF entry'[s] = "unregistered" THEN "failed" ELSE "publishing",
           number |-> publishes', known |-> {}]]
    /\ client' = Unseen({s})
    /\ UNCHANGED <<mount, configVars>>

(* A message of a kind that was not known stands for a sequence header, which    *)
(* the source keeps for those who join later.                                   *)
OnMessage(s, kind) ==
    /\ Running
    /\ publish[s].state = "publishing"
    /\ publish' = [publish EXCEPT ![s].known = @ \union {kind}]
    /\ client' = [c \in Clients |->
          IF Serving(c) /\ client[c].stream = s
          THEN [client[c] EXCEPT !.queue = @ \union {[number |-> publish[s].number, kind |-> kind]}]
          ELSE client[c]]
    /\ UNCHANGED <<mount, configVars, publishes, entry, ub>>

(* SrsSource::on_unpublish: the hub stops first, which blocks, then the rest.     *)
(* What is known is not told from here on, and cleared by the next publish.      *)
HubStops(s) ==
    /\ Running
    /\ publish[s].state \in {"publishing", "failed"}
    /\ publish' = [publish EXCEPT ![s] = [@ EXCEPT !.state = "closing", !.known = {}]]
    /\ UNCHANGED <<mount, configVars, publishes, entry, client, ub>>

OnUnpublish(s) ==
    /\ Running
    /\ publish[s].state = "closing"
    /\ publish' = [publish EXCEPT ![s] = Idle]
    /\ HttpUnmount({s})
    /\ UNCHANGED <<mount, configVars, publishes, client>>

(* The configuration changes; the stream server is told once the handlers       *)
(* before it in the list have returned.                                         *)
Reload ==
    /\ Running
    /\ told /\ reloads < MaxReload
    /\ reloads' = reloads + 1 /\ remux' = ~remux /\ told' = FALSE
    /\ UNCHANGED <<mount, template, streamVars, entry, client, ub>>

OnReload ==
    /\ Running
    /\ ~told
    /\ told' = TRUE /\ template' = (template \/ remux)
    /\ LET known == {s \in Streams : template /\ entry[s] # "none"}
       IN  IF remux
           THEN HttpMount(known) /\ client' = Unseen(known)
           ELSE HttpUnmount(known) /\ client' = client
    /\ UNCHANGED <<mount, remux, reloads, streamVars>>
-----------------------------------------------------------------------------
(* The path is matched with the entries that are enabled; hijack() then refuses  *)
(* a stream that a reload disabled, and mounts any other.                         *)
Matches(s, path) == entry[s] = "enabled" /\ mount[s] = path

IsServed(c, s) == client' = [Unseen({s}) EXCEPT ![c] = [Away EXCEPT !.at = "hook", !.stream = s]]
IsRefused(c) == client' = [client EXCEPT ![c] = [Away EXCEPT !.at = "refused"]]

(* Mutant: hijack() refuses every stream whose entry is disabled. *)
RefusesDisabled(path) == ~template \/ entry[path] = "disabled"

Refuses(path) == ~template \/ (entry[path] = "disabled" /\ ~remux)

Request(c, path) ==
    /\ Running
    /\ client[c].at = "away"
    /\ \/ /\ \E s \in Streams : Matches(s, path) /\ IsServed(c, s)
          /\ UNCHANGED <<entry, ub>>
       \/ /\ ~ \E s \in Streams : Matches(s, path)
          /\ IF Refuses(path)
             THEN IsRefused(c) /\ UNCHANGED <<entry, ub>>
             ELSE /\ HttpMount({path})
                  /\ IF entry'[path] = "enabled" THEN IsServed(c, path) ELSE IsRefused(c)
    /\ UNCHANGED <<mount, configVars, streamVars>>

(* A request of another client, whose response is not followed.                 *)
OthersRequest(path) ==
    /\ Running
    /\ ~ \E s \in Streams : Matches(s, path)
    /\ ~ Refuses(path)
    /\ HttpMount({path})
    /\ client' = Unseen({path})
    /\ UNCHANGED <<mount, configVars, streamVars>>

Answered(c) ==
    /\ Running
    /\ client[c].at = "refused"
    /\ client' = [client EXCEPT ![c] = Away]
    /\ UNCHANGED <<mount, configVars, streamVars, entry, ub>>
-----------------------------------------------------------------------------
KindsOf(queue) == {m.kind : m \in queue}

(* write_tags: the first batch with audio or video makes the FLV header; what    *)
(* came before it is dropped.                                                    *)
IsDropped(r) == ~r.header /\ KindsOf(r.queue) \cap AV = {}

(* Mutant: the header is made from any one of the messages. *)
FirstOnly(r) == IF r.header THEN r ELSE [r EXCEPT !.header = TRUE, !.untold = @ \ {CHOOSE k \in KindsOf(r.queue) \cap AV : TRUE}]

Written(r) == IF r.header THEN r ELSE [r EXCEPT !.header = TRUE, !.untold = @ \ KindsOf(r.queue)]

Stops(r) == [Away EXCEPT !.at = "stop"]

(* Mutant: the loop ends for the entry only, and does not ask the receive thread. *)
LookAtEntry(r) ==
    CASE entry[r.stream] # "enabled"          -> Stops(r)
      [] r.queue = {} \/ IsDropped(r)         -> [r EXCEPT !.at = "sleep", !.queue = {}]
      [] OTHER -> [Written(r) EXCEPT !.at = "send", !.queue = {},
                            !.of = @ \union {m.number : m \in r.queue}]

(* The loop of do_serve_http, from its test to the next sleep or send.           *)
Look(r) ==
    CASE entry[r.stream] # "enabled"          -> Stops(r)
      [] entry[r.stream] = "enabled" /\ r.closed -> Stops(r)
      [] OTHER ->
         IF r.queue = {} \/ IsDropped(r)
         THEN [r EXCEPT !.at = "sleep", !.queue = {}]
         ELSE [Written(r) EXCEPT !.at = "send", !.queue = {},
                        !.of = @ \union {m.number : m \in r.queue}]

Turn(c, from, r) ==
    /\ Running
    /\ client[c].at \in from
    /\ client' = [client EXCEPT ![c] = r]
    /\ UNCHANGED <<mount, configVars, streamVars, entry, ub>>

(* The hook returned: a consumer, with what the source knows while its hub is      *)
(* active, and the first turn of the loop.                                       *)
KnownOf(s) == IF publish[s].state = "publishing" THEN publish[s].known ELSE {}

DoServe(c) ==
    LET s == client[c].stream
    IN  Turn(c, {"hook"}, Look([client[c] EXCEPT
            !.queue = {[number |-> publish[s].number, kind |-> k] : k \in KnownOf(s)},
            !.untold = KnownOf(s) \cap AV]))

HookFails(c)   == Turn(c, {"hook"}, Away)
Wakes(c)       == Turn(c, {"sleep"}, Look(client[c]))
Sent(c)        == Turn(c, {"send"}, Look(client[c]))
SentAtLast(c)  == Turn(c, {"stuck"}, Look(client[c]))
SendFails(c)   == Turn(c, {"send", "stuck"}, Stops(client[c]))
(* The peer reads no more: a send has no timeout.                               *)
Stalls(c)      == Turn(c, {"send"}, [client[c] EXCEPT !.at = "stuck"])
(* The receive thread finds the connection closed, and ends.                    *)
Closes(c)      == Turn(c, {"sleep", "send", "stuck"}, [client[c] EXCEPT !.closed = TRUE])
(* http_hooks_on_stop returned, and the connection ends.                          *)
Stopped(c)     == Turn(c, {"stop"}, Away)
-----------------------------------------------------------------------------
HttpNext ==
    \/ \E s \in Streams : OnPublish(s) \/ HubStops(s) \/ OnUnpublish(s)
    \/ \E s \in Streams, kind \in Kinds : OnMessage(s, kind)
    \/ Reload \/ OnReload
    \/ \E path \in Streams : OthersRequest(path) \/ \E c \in Clients : Request(c, path)
    \/ \E c \in Clients : Answered(c) \/ DoServe(c) \/ HookFails(c) \/ Wakes(c)
                            \/ Sent(c) \/ SentAtLast(c) \/ SendFails(c)
                            \/ Stalls(c) \/ Closes(c) \/ Stopped(c)

HttpSpec == HttpInit /\ [][HttpNext]_httpVars

(* Sleeps and hooks end by time; a send to a peer that reads ends.               *)
HttpFairSpec ==
    HttpSpec /\ \A c \in Clients : /\ WF_httpVars(Wakes(c)) /\ WF_httpVars(Stopped(c))
                               /\ WF_httpVars(Sent(c) \/ SendFails(c))
-----------------------------------------------------------------------------
SharesPath == \E s, t \in Streams : s # t /\ mount[s] = mount[t]

(* What a client gets in one response is of one publish, unless the entry was    *)
(* disabled and enabled again (by the next publish, a reload or another client's *)
(* request) while it slept or sent; and the FLV header announces whatever the      *)
(* source knew when the client joined.                                          *)
ResponseIsSound ==
    \A c \in Clients :
        LET r == client[c]
        IN  /\ r.missed \/ Cardinality(r.of) <= 1
            /\ r.header => r.untold = {}

(* While http_remux is on, and the server was told, no request for a stream is     *)
(* refused, published or not; the server dereferences no entry that is not in the *)
(* mux.  A template that gives two streams one path is the exception to each.     *)
RequestIsServed ==
    [][/\ remux /\ told /\ ~SharesPath =>
             \A c \in Clients : client[c].at = "away" => client'[c].at # "refused"
       /\ ub' # "none" => SharesPath]_httpVars

(* A client whose stream's entry is disabled, or that closed, gets out, unless   *)
(* the entry is enabled again meanwhile or the peer stops reading in a send.       *)
ClientsGetOut ==
    \A c \in Clients :
        (Serving(c) /\ (client[c].closed \/ ~Enabled(c)))
            ~> (client[c].at \in {"away", "stuck"} \/ (Enabled(c) /\ ~client[c].closed) \/ ~Running)
=============================================================================

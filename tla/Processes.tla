----------------------------- MODULE Processes -----------------------------
(***************************************************************************)
(* The external processes of the server: SrsIngester has one for each ingest *)
(* of the configuration, SrsEncoder one for each transcode engine while a     *)
(* stream is published (SrsNgExec is the same loop).  Each has a vector of     *)
(* engines, and a coroutine that passes over it every three seconds: it forks  *)
(* what is not started, pausing after each fork, and reaps what has ended, to   *)
(* fork it again in the next pass.  The main coroutine (reload, quit) or that   *)
(* of the publisher stops engines meanwhile, and waits for what it kills.  A     *)
(* quit stops the ingests; the engines of a stream that is still published are    *)
(* left to themselves when the server exits.                                   *)
(***************************************************************************)
EXTENDS Integers, Sequences, FiniteSets, SequencesExt, FiniteSetsExt

CONSTANTS
    EngineNames,         \* the ingests or transcode engines that may be configured
    Objects,             \* bound: engine objects, one process each, reused once freed
    MaxEngineReloads     \* bound: reloads

ASSUME ProcessesAssumption ==
    /\ IsFiniteSet(EngineNames)
    /\ Objects \subseteq Nat /\ IsFiniteSet(Objects)
    /\ MaxEngineReloads \in Nat

VARIABLES
    owner,          \* "ingest" or "transcode"
    engines,        \* the vector of engine objects
    object,         \* object[o]: its name, its memory and is_started
    process,        \* process[o]: the last one that o forked
    cycle,          \* the coroutine of the owner
    main,           \* the coroutine that reloads and quits, or publishes
    disposed,       \* SrsIngester::disposed
    engineReloads,  \* reloads so far
    lost,           \* history: objects freed in the pause after their fork
    engineUb        \* undefined behaviour met

procVars == <<engines, object, process>>
enginesVars == <<owner, procVars, cycle, main, disposed, engineReloads, lost, engineUb>>

(* memory: "unused", "there" or, while it is blocked in or has a process, "freed". *)
Unused == [name |-> CHOOSE n \in EngineNames : TRUE, memory |-> "unused", started |-> FALSE]

(* at: "off"; "asleep" between passes; "starting", in the pause after the fork of  *)
(* the one in forked; "stopping", in the stop() of engine i; "over".  i: the place   *)
(* its iterator points at, whatever is there by now.  valid: the iterator and the    *)
(* object it starts are still there.  told: stop() interrupted it.                 *)
Off == [at |-> "off", i |-> 0, forked |-> {}, valid |-> TRUE, told |-> FALSE]
At(at, i) ==
    [cycle EXCEPT !.at = at, !.i = i, !.forked = IF at = "starting" THEN {engines[i]} ELSE {}]

(* at: "idle"; "killing" engine i for a reload, which then adds its name again or   *)
(* not; "joining" the coroutine; "clearing", in the destructor of engine i;          *)
(* "disposing", between fast_stop and fast_kill; "done", the server has ended.       *)
Main(at, i) == [at |-> at, i |-> i, again |-> FALSE]

EnginesInit ==
    /\ owner \in {"ingest", "transcode"}
    /\ engines = <<>>
    /\ object = [o \in Objects |-> Unused]
    /\ process = [o \in Objects |-> "none"]
    /\ cycle = Off /\ main = Main("idle", 0)
    /\ disposed = FALSE /\ engineReloads = 0
    /\ lost = {} /\ engineUb = "none"

Running == engineUb = "none" /\ main.at # "done"
Live == {o \in Objects : process[o] = "running"}
Started(v, from) == {j \in from .. Len(v) : object[v[j]].started}
-----------------------------------------------------------------------------
(* Mutant: a process that has ended still counts as started. *)
StillStarted(S, obj) == obj

(* SrsProcess::cycle: waitpid() reaps what has ended.                            *)
Reaped(S, obj) ==
    [o \in Objects |-> IF o \in S /\ process[o] = "zombie"
                       THEN [obj[o] EXCEPT !.started = FALSE] ELSE obj[o]]
NotReaped(S) == [o \in Objects |-> IF o \in S /\ process[o] = "zombie" THEN "none" ELSE process[o]]

(* A pass that has looked at first goes on at place i: what is started is looked     *)
(* at; the first that is not is forked, and the pass pauses.  A fork that fails ends  *)
(* the pass, and so does waitpid() for a process that the quit has reaped.         *)
PassFrom(i, first, obj, forks) ==
    LET idle == {j \in i .. Len(engines) : ~obj[engines[j]].started}
        gone == {j \in i .. Len(engines) : process[engines[j]] = "none"}
        stop == Min(idle \union gone \union {Len(engines) + 1})
        seen == first \union {engines[j] : j \in i .. (stop - 1)}
    IN  /\ object' = Reaped(seen, obj)
        /\ IF forks /\ stop \in idle
           THEN /\ process' = [NotReaped(seen) EXCEPT ![engines[stop]] = "running"]
                /\ cycle' = At("starting", stop)
           ELSE /\ process' = NotReaped(seen)
                /\ cycle' = At("asleep", 0)

(* SrsEncoder::cycle ends with a stop() of each engine; SrsIngester's just ends.    *)
EndFrom(i) ==
    LET s == IF owner = "transcode" THEN Started(engines, i) ELSE {}
    IN  cycle' = IF s = {} THEN At("over", 0) ELSE At("stopping", Min(s))

(* What a reload is killing was just reaped: it polls before the next pass.         *)
PollsFirst == main.at = "killing" => object[engines[main.i]].started

(* The coroutine starts, or three seconds are over, or stop() interrupts it.        *)
Wakes(forks) ==
    /\ Running
    /\ cycle.at = "asleep" /\ PollsFirst
    /\ IF cycle.told \/ disposed
       THEN EndFrom(1) /\ UNCHANGED <<object, process>>
       ELSE PassFrom(1, {}, object, forks)
    /\ UNCHANGED <<owner, engines, main, disposed, engineReloads, lost, engineUb>>

(* The pause after a fork ends: the engine counts as started and is looked at, and   *)
(* the pass goes on behind its iterator.  Undefined when a reload freed the engine    *)
(* or moved the vector, or when the iterator is the vector's end by now.           *)
StartReturns(forks) ==
    /\ Running
    /\ cycle.at = "starting"
    /\ IF cycle.valid /\ cycle.i <= Len(engines)
       THEN /\ PassFrom(cycle.i + 1, cycle.forked,
                       [o \in Objects |-> [object[o] EXCEPT !.started = @ \/ o \in cycle.forked]],
                       forks)
            /\ engineUb' = engineUb
       ELSE /\ engineUb' = "iterator"
            /\ UNCHANGED <<object, process, cycle>>
    /\ UNCHANGED <<owner, engines, main, disposed, engineReloads, lost>>

(* srs_kill_forced: SIGTERM, polls, SIGKILL after a second, unless another reaped   *)
(* the process meanwhile.  It is gone in any case.                                *)
Killed(o) ==
    /\ process' = [process EXCEPT ![o] = "none"]
    /\ object' = [object EXCEPT ![o].started = FALSE]

StopReturns ==
    /\ Running
    /\ cycle.at = "stopping"
    /\ Killed(engines[cycle.i])
    /\ EndFrom(cycle.i + 1)
    /\ UNCHANGED <<owner, engines, main, disposed, engineReloads, lost, engineUb>>

(* A process ends, by itself or by a signal.                                       *)
Ends(o) ==
    /\ Running
    /\ process[o] = "running"
    /\ process' = [process EXCEPT ![o] = "zombie"]
    /\ UNCHANGED <<owner, engines, object, cycle, main, disposed,
                   engineReloads, lost, engineUb>>
-----------------------------------------------------------------------------
(* A new object at the end of the vector for each name, as parse() makes them.     *)
Pushed(names, v, obj) ==
    LET free == {o \in Objects : obj[o].memory = "unused"}
        new  == CHOOSE f \in [names -> free] : IsInjective(f)
    IN  /\ Cardinality(free) >= Cardinality(names)
        /\ engines' = v \o SetToSeq({new[n] : n \in names})
        /\ object' = [o \in Objects |->
              IF \E n \in names : new[n] = o
              THEN [name |-> CHOOSE n \in names : new[n] = o, memory |-> "there", started |-> FALSE]
              ELSE obj[o]]

(* SrsIngester::start and SrsEncoder::on_publish; without an engine the encoder      *)
(* has no coroutine.                                                            *)
Start(names) ==
    /\ Running
    /\ main.at = "idle" /\ cycle.at = "off"
    /\ owner = "transcode" => names # {}
    /\ Pushed(names, <<>>, object)
    /\ cycle' = [Off EXCEPT !.at = "asleep"]
    /\ UNCHANGED <<owner, process, main, disposed, engineReloads, lost, engineUb>>

(* SrsEncoder::on_unpublish, and SrsIngester::stop as the server quits gracefully:    *)
(* joins the coroutine, then the destructors kill what still counts as started.      *)
Joins ==
    /\ Running
    /\ main.at = "idle" /\ cycle.at # "off"
    /\ main' = Main("joining", 0)
    /\ cycle' = [cycle EXCEPT !.told = TRUE]
    /\ UNCHANGED <<owner, procVars, disposed, engineReloads, lost, engineUb>>

Cleared ==
    /\ engines' = <<>> /\ cycle' = Off
    /\ object' = [o \in Objects |-> IF o \in ToSet(engines) THEN Unused ELSE object[o]]
    /\ main' = Main(IF owner = "ingest" THEN "done" ELSE "idle", 0)

(* Mutant: the destructor of an engine does not stop it. *)
JustCleared(from) == Cleared

ClearsFrom(from) ==
    IF Started(engines, from) = {} THEN Cleared
    ELSE /\ main' = Main("clearing", Min(Started(engines, from)))
         /\ UNCHANGED <<engines, object, cycle>>

JoinReturns ==
    /\ Running
    /\ main.at = "joining" /\ cycle.at = "over"
    /\ ClearsFrom(1)
    /\ UNCHANGED <<owner, process, disposed, engineReloads, lost, engineUb>>

(* The process that a destructor killed is gone, and the next one is freed.          *)
ClearReturns ==
    /\ Running
    /\ main.at = "clearing"
    /\ process' = [process EXCEPT ![engines[main.i]] = "none"]
    /\ ClearsFrom(main.i + 1)
    /\ UNCHANGED <<owner, disposed, engineReloads, lost, engineUb>>
-----------------------------------------------------------------------------
(* A reload in the pause after a fork may take away what the coroutine goes on with. *)
Starting(o) == o \in cycle.forked
Spoilt(how) == cycle' = [cycle EXCEPT !.valid = @ /\ ~(cycle.at = "starting" /\ how)]

(* on_reload_ingest_added: the vector may have to grow, which moves it.            *)
Added(n, v, obj, moves) ==
    /\ Pushed({n}, v, obj)
    /\ Spoilt(moves)

(* erase(): the object is freed, whatever its process does, and those behind it move   *)
(* one place down, under an iterator that stays where it is; no room is given up, so   *)
(* adding the name again does not move the vector.                                 *)
Without(i) == RemoveAt(engines, i)
FreedAt(i) ==
    LET o == engines[i]
    IN  [object EXCEPT ![o] = IF Starting(o) THEN [@ EXCEPT !.memory = "freed"] ELSE Unused]

Erased(i, again) ==
    /\ IF again
       THEN Pushed({object[engines[i]].name}, Without(i), FreedAt(i))
       ELSE engines' = Without(i) /\ object' = FreedAt(i)
    /\ Spoilt(Starting(engines[i]))
    /\ lost' = lost \union {o \in {engines[i]} : Starting(o)}
    /\ main' = Main("idle", 0)

Reloads ==
    /\ Running
    /\ owner = "ingest" /\ main.at = "idle" /\ cycle.at # "off"
    /\ engineReloads < MaxEngineReloads
    /\ engineReloads' = engineReloads + 1
    /\ UNCHANGED <<owner, disposed, engineUb>>

ReloadAdds(n, moves) ==
    /\ Reloads
    /\ \A o \in ToSet(engines) : object[o].name # n
    /\ Added(n, engines, object, moves)
    /\ UNCHANGED <<process, main, lost>>

(* on_reload_ingest_removed, and on_reload_ingest_updated, which then adds it again.  *)
ReloadRemoves(i, again) ==
    /\ Reloads
    /\ i \in DOMAIN engines
    /\ IF object[engines[i]].started
       THEN /\ main' = [Main("killing", i) EXCEPT !.again = again]
            /\ UNCHANGED <<engines, object, cycle, lost>>
       ELSE Erased(i, again)
    /\ UNCHANGED process

KillReturns ==
    /\ Running
    /\ main.at = "killing"
    /\ process' = [process EXCEPT ![engines[main.i]] = "none"]
    /\ Erased(main.i, main.again)
    /\ UNCHANGED <<owner, disposed, engineReloads, engineUb>>

(* SrsIngester::dispose as the server quits fast: fast_stop() signals, then 100 ms    *)
(* in which the coroutine goes on with its pass, then fast_kill(), which passes over   *)
(* the one that is in the 10 ms pause after its fork: it takes a pass with ten or more  *)
(* to fork, a number that is not bounded here.  waitpid() does not wait for what is     *)
(* killed.  With both signals, the graceful quit comes next.                        *)
Dispose ==
    /\ Running
    /\ owner = "ingest" /\ main.at = "idle" /\ cycle.at # "off"
    /\ disposed' = TRUE
    /\ main' = Main("disposing", 0)
    /\ UNCHANGED <<owner, procVars, cycle, engineReloads, lost, engineUb>>

FastKill ==
    /\ Running
    /\ main.at = "disposing"
    /\ \E late \in SUBSET Live :
          process' = [o \in Objects |->
             IF o \in ToSet(engines) /\ object[o].started
             THEN IF o \in late THEN "zombie" ELSE "none"
             ELSE process[o]]
    /\ \E both \in BOOLEAN :
          /\ main' = Main(IF both THEN "joining" ELSE "done", 0)
          /\ cycle' = [cycle EXCEPT !.told = both]
    /\ UNCHANGED <<owner, engines, object, disposed, engineReloads, lost, engineUb>>

(* The server exits while the stream is published: SrsServer::dispose disposes the     *)
(* ingester and the sources, and no encoder.                                       *)
FastQuit ==
    /\ Running
    /\ owner = "transcode"
    /\ main' = Main("done", 0)
    /\ UNCHANGED <<owner, procVars, cycle, disposed, engineReloads, lost, engineUb>>
-----------------------------------------------------------------------------
Coroutine ==
    \/ \E forks \in BOOLEAN : Wakes(forks) \/ StartReturns(forks)
    \/ StopReturns

Others == JoinReturns \/ ClearReturns \/ KillReturns \/ FastKill

EnginesNext ==
    \/ Coroutine \/ Others
    \/ \E o \in Objects : Ends(o)
    \/ \E names \in SUBSET EngineNames : Start(names)
    \/ Joins \/ Dispose \/ FastQuit
    \/ \E n \in EngineNames, moves \in BOOLEAN : ReloadAdds(n, moves)
    \/ \E i \in DOMAIN engines, again \in BOOLEAN : ReloadRemoves(i, again)

EnginesSpec == EnginesInit /\ [][EnginesNext]_enginesVars

Forks(o) == (Wakes(TRUE) \/ StartReturns(TRUE)) /\ cycle'.forked = {o}

(* Sleeps, polls and kills end by time; fork() does not fail for ever.              *)
EnginesFairSpec ==
    /\ EnginesSpec /\ WF_enginesVars(Coroutine) /\ WF_enginesVars(Others)
    /\ \A o \in Objects : SF_enginesVars(Forks(o))
-----------------------------------------------------------------------------
(* A process that runs belongs to an engine of the vector, which counts it as        *)
(* started or is about to; there is one per name; and none is left once the stream is  *)
(* unpublished, or the server quit with its ingests.  Except what a reload removed, or  *)
(* the quit met, in the pause after its fork: that process is nobody's, and stays.    *)
ProcessesAreOwned ==
    /\ \A o \in Live \ lost : o \in ToSet(engines) /\ (object[o].started \/ Starting(o))
    /\ \A o, p \in Live \ lost : object[o].name = object[p].name => o = p
    /\ main.at = "idle" /\ cycle.at = "off" => Live \subseteq lost
    /\ main.at = "done" /\ owner = "ingest" => Live \subseteq lost \union cycle.forked

(* A process that ended is forked again, as long as its engine is there; a stop, for   *)
(* unpublish, reload or quit, returns.                                             *)
EndedIsForkedAgain ==
    /\ \A o \in Objects :
           (object[o].memory = "there" /\ process[o] # "running" /\ main.at = "idle")
               ~> (process[o] = "running" \/ object[o].memory # "there" \/ main.at # "idle" \/ ~Running)
    /\ main.at # "idle" ~> (main.at = "idle" \/ ~Running)
=============================================================================

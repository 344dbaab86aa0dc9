----------------------------- MODULE Coroutine -----------------------------
(***************************************************************************)
(* SrsSTCoroutine: the handle every component of the server keeps on a     *)
(* State-Threads coroutine, to start it, interrupt it, join it and learn   *)
(* its error.  The handle is used by several coroutines at once (Users):   *)
(* its owner, the one that deletes it, one that only interrupts it.        *)
(*                                                                         *)
(* Scheduling is cooperative: a call runs to its end unless it blocks.     *)
(* stop() blocks, in st_thread_join, and the handler's cycle blocks in its *)
(* reads, writes and sleeps; every other operation is one step.            *)
(*                                                                         *)
(* CoroutineInit and its like carry a prefix for Publish_proofs, which is  *)
(* about this module and Publish, where a connection uses such a handle.   *)
(***************************************************************************)
EXTENDS Naturals

CONSTANTS
    Users,      \* the coroutines that call the handle
    Kickable    \* those of them that may themselves be interrupted

ASSUME UsersAssumption == Kickable \subseteq Users

VARIABLES
    started, interrupted, disposed, cycle_done,   \* flags of the handle
    trd_err,    \* the error pull() returns
    thread,     \* the ST thread: its state, and "joined" when it is freed
    intr,       \* _ST_FL_INTERRUPT of the thread
    retval,     \* what the thread returned: "none", or the cycle's error
    user,       \* where each user is in its stop()
    fault       \* an assertion that failed, or a freed thread that was used

flags == <<started, interrupted, disposed, cycle_done>>
coroutineVars == <<started, interrupted, disposed, cycle_done, trd_err, thread, intr,
          retval, user, fault>>

Errors == {"none", "disposed", "started", "create", "interrupted",
           "terminated", "cycle"}

(* No thread; created and not yet run; inside the cycle, blocked or runnable; *)
(* returned; joined.                                                          *)
ThreadStates == {"none", "ready", "blocked", "woken", "zombie", "joined"}
Live == {"ready", "blocked", "woken"}

CoroutineInit ==
    /\ started = FALSE
    /\ interrupted = FALSE
    /\ disposed = FALSE
    /\ cycle_done = FALSE
    /\ trd_err = "none"
    /\ thread = "none"
    /\ intr = FALSE
    /\ retval = "none"
    /\ user = [u \in Users |-> "idle"]
    /\ fault = "none"

Calls(u) == fault = "none" /\ user[u] = "idle"
-----------------------------------------------------------------------------
(* Mutant: an error of start() replaces the one already kept. *)
OverrideError(e) == e

KeepFirst(e) == IF trd_err = "none" THEN e ELSE trd_err

(* start() on a handle that was started or stopped is an error, which pull()  *)
(* reports from then on when there was none.                                  *)
StartRefused(u) ==
    /\ Calls(u)
    /\ started \/ disposed
    /\ trd_err' = KeepFirst(IF disposed THEN "disposed" ELSE "started")
    /\ UNCHANGED <<flags, thread, intr, retval, user, fault>>

StartFails(u) ==
    /\ Calls(u)
    /\ ~started /\ ~disposed
    /\ trd_err' = "create"
    /\ UNCHANGED <<flags, thread, intr, retval, user, fault>>

Start(u) ==
    /\ Calls(u)
    /\ ~started /\ ~disposed
    /\ started' = TRUE
    /\ thread' = "ready"
    /\ UNCHANGED <<interrupted, disposed, cycle_done, trd_err, intr, retval,
                   user, fault>>

Interrupts == started /\ ~interrupted /\ ~cycle_done

(* st_thread_interrupt: nothing for a thread that has returned; a thread that *)
(* blocks is made runnable; one that runs finds the flag when it next blocks. *)
(* A joined thread has been freed.                                            *)
SignalThread ==
    /\ thread' = IF thread = "blocked" THEN "woken" ELSE thread
    /\ intr' = (intr \/ thread \in Live)

Interrupt(u) ==
    /\ Calls(u)
    /\ Interrupts
    /\ interrupted' = TRUE
    /\ trd_err' = KeepFirst("interrupted")
    /\ SignalThread
    /\ fault' = IF thread = "joined" THEN "freed" ELSE fault
    /\ UNCHANGED <<started, disposed, cycle_done, retval, user>>
-----------------------------------------------------------------------------
(* Mutant: stop() joins without interrupting. *)
StopNoInterrupt ==
    /\ disposed' = TRUE
    /\ UNCHANGED <<started, interrupted, cycle_done, trd_err, thread, intr, retval>>

(* stop() up to the join: the thread, if it still runs, is interrupted.       *)
StopInterrupts ==
    /\ disposed' = TRUE
    /\ \/ /\ Interrupts
          /\ interrupted' = TRUE
          /\ trd_err' = KeepFirst("interrupted")
          /\ SignalThread
       \/ ~Interrupts /\ UNCHANGED <<interrupted, trd_err, thread, intr>>
    /\ UNCHANGED <<started, cycle_done, retval>>

StopAgain(u) ==
    /\ Calls(u)
    /\ disposed
    /\ user' = [user EXCEPT ![u] = "returned"]
    /\ UNCHANGED <<flags, trd_err, thread, intr, retval, fault>>

(* Nothing to join.                                                           *)
StopUnstarted(u) ==
    /\ Calls(u)
    /\ ~disposed
    /\ thread = "none"
    /\ disposed' = TRUE
    /\ trd_err' = IF trd_err = "none" THEN "terminated" ELSE trd_err
    /\ user' = [user EXCEPT ![u] = "returned"]
    /\ UNCHANGED <<started, interrupted, cycle_done, thread, intr, retval, fault>>

StopBegins(u) ==
    /\ Calls(u)
    /\ ~disposed
    /\ thread # "none"
    /\ StopInterrupts
    /\ user' = [user EXCEPT ![u] = "joining"]
    /\ UNCHANGED fault

(* The join returns and frees the thread; the rest of stop() does not block.  *)
StopJoined(u) ==
    /\ fault = "none"
    /\ user[u] = "joining"
    /\ thread = "zombie"
    /\ thread' = "joined"
    /\ fault' = IF retval # "none" /\ trd_err # retval THEN "trd_err" ELSE fault
    /\ trd_err' = IF trd_err = "none" /\ ~cycle_done THEN "terminated" ELSE trd_err
    /\ user' = [user EXCEPT ![u] = "returned"]
    /\ UNCHANGED <<flags, intr, retval>>

(* The joining coroutine is itself interrupted: st_cond_timedwait, hence      *)
(* st_thread_join, returns -1 and srs_assert(!r0) ends the process.           *)
KickJoining(u) ==
    /\ fault = "none"
    /\ u \in Kickable
    /\ user[u] = "joining"
    /\ fault' = "join"
    /\ UNCHANGED <<flags, trd_err, thread, intr, retval, user>>
-----------------------------------------------------------------------------
(* The handler's cycle, as ISrsCoroutineHandler wants it: a loop that checks  *)
(* pull() before it blocks again.                                             *)
Runnable == fault = "none" /\ thread \in {"ready", "woken"}

Block ==
    /\ Runnable
    /\ trd_err = "none"
    /\ thread' = IF intr THEN "woken" ELSE "blocked"
    /\ intr' = FALSE
    /\ UNCHANGED <<flags, trd_err, retval, user, fault>>

(* A read, a write or a sleep of the cycle comes to its end.                  *)
Wake ==
    /\ fault = "none"
    /\ thread = "blocked"
    /\ thread' = "woken"
    /\ UNCHANGED <<flags, trd_err, intr, retval, user, fault>>

CycleDone ==
    /\ Runnable
    /\ thread' = "zombie"
    /\ cycle_done' = TRUE
    /\ UNCHANGED <<started, interrupted, disposed, trd_err, intr, retval, user, fault>>

(* Mutant: pfn() keeps the error that was there before the cycle's. *)
FailKeepsError ==
    /\ Runnable
    /\ thread' = "zombie"
    /\ retval' = "cycle"
    /\ trd_err' = KeepFirst("cycle")
    /\ UNCHANGED <<flags, intr, user, fault>>

CycleFails ==
    /\ Runnable
    /\ thread' = "zombie"
    /\ retval' = "cycle"
    /\ trd_err' = "cycle"
    /\ UNCHANGED <<flags, intr, user, fault>>

CoroutineNext ==
    \/ \E u \in Users :
        \/ StartRefused(u) \/ StartFails(u) \/ Start(u) \/ Interrupt(u)
        \/ StopAgain(u) \/ StopUnstarted(u) \/ StopBegins(u)
        \/ StopJoined(u) \/ KickJoining(u)
    \/ Block \/ Wake \/ CycleDone \/ CycleFails

(* The scheduler runs every runnable coroutine.  Nothing makes the network    *)
(* answer (Wake), and nobody is obliged to call the handle.                   *)
CoroutineFairness ==
    /\ WF_coroutineVars(Block \/ CycleDone \/ CycleFails)
    /\ \A u \in Users : WF_coroutineVars(StopJoined(u))

CoroutineSpec == CoroutineInit /\ [][CoroutineNext]_coroutineVars /\ CoroutineFairness
-----------------------------------------------------------------------------
CoroutineTypeOK ==
    /\ started \in BOOLEAN
    /\ interrupted \in BOOLEAN
    /\ disposed \in BOOLEAN
    /\ cycle_done \in BOOLEAN
    /\ trd_err \in Errors
    /\ thread \in ThreadStates
    /\ intr \in BOOLEAN
    /\ retval \in {"none", "cycle"}
    /\ user \in [Users -> {"idle", "joining", "returned"}]
    /\ fault \in {"none", "join", "trd_err", "freed"}

(* srs_assert(trd_err == err_res) of stop(): whatever start() and interrupt() *)
(* did to trd_err, the error a joined thread returned is the one pull() has.  *)
ErrorIsCycles == fault # "trd_err"

(* interrupt() never reaches st_thread_interrupt with a thread that has been  *)
(* joined: its stack is freed by then.                                        *)
NeverSignalsFreed == fault # "freed"

(* From the moment the thread has returned, pull() gives the error of its     *)
(* cycle, or the cycle has returned success.                                  *)
EndIsReported ==
    thread \in {"zombie", "joined"} => trd_err = "cycle" \/ cycle_done

(* However many coroutines use one handle, the three hold.                    *)
HandleIsSound == ErrorIsCycles /\ NeverSignalsFreed /\ EndIsReported

(* A coroutine is told to leave by pull(), so pull() never goes back to       *)
(* success, and the error its cycle ended with is not replaced.               *)
ErrorIsFinal ==
    [][ /\ trd_err # "none" => trd_err' # "none"
        /\ trd_err = "cycle" => trd_err' = "cycle" ]_coroutineVars

(* stop() returns: a cycle that blocks is woken and sees pull() fail.         *)
StopReturns ==
    \A u \in Users : user[u] = "joining" ~> (user[u] = "returned" \/ fault # "none")
=============================================================================

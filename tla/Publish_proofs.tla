--------------------------- MODULE Publish_proofs ---------------------------
(***************************************************************************)
(* Proofs about Publish, for any set of connections: the stream has one    *)
(* publisher, its messages stay inside its session, the detailed protocol  *)
(* implements PublishSession, and a publisher that leaves comes ever nearer *)
(* to giving the stream back.                                              *)
(*                                                                         *)
(* The second part is about Coroutine, the handle by which a connection    *)
(* starts, interrupts and joins its receive coroutine, for any users.      *)
(*                                                                         *)
(* The third part is about HttpStream, by which a stream that is published *)
(* is mounted and sent, for any streams and clients: what one response     *)
(* holds, and which requests are served.                                   *)
(***************************************************************************)
EXTENDS Publish, Coroutine, HttpStream, TLAPS, FiniteSetTheorems

(* The flag, the source id and the places of the connections agree.          *)
HolderKnown ==
    /\ \A c \in Conns : pc[c] \in Holding => source_id = c /\ ~can_publish
    /\ can_publish => source_id = NoConn
    /\ ~can_publish => source_id \in Conns /\ pc[source_id] \in Holding

(* A receive coroutine exists only inside the loop of its connection, and the *)
(* hub is active exactly then.                                               *)
RecvInside ==
    \A c \in Conns :
        /\ recv[c] # "none" => pc[c] \in {"waiting", "joining"}
        /\ pc[c] \in {"waiting", "joining"} => is_active
        /\ pc[c] = "closing" => ~is_active

IInv == TypeOK /\ HolderKnown /\ RecvInside

THEOREM InductiveInit == Init => IInv
BY DEF Init, IInv, TypeOK, HolderKnown, RecvInside, PCs, Holding

LEMMA QuietStep ==
    ASSUME IInv, NEW c \in Conns,
           \/ Ask(c) \/ HookRefuses(c) \/ Busy(c) \/ Kick(c) \/ Told(c)
           \/ WakeAndWait(c)
    PROVE  IInv'
<1>1. TypeOK'
  BY DEF IInv, TypeOK, PCs, Ask, HookRefuses, Busy, Kick, Told, WakeAndWait, Goto, source
<1>2. HolderKnown'
  BY DEF IInv, TypeOK, HolderKnown, Holding, Ask, HookRefuses, Busy, Kick, Told,
     WakeAndWait, Goto, source
<1>3. RecvInside'
  BY DEF IInv, TypeOK, RecvInside, Ask, HookRefuses, Busy, Kick, Told,
     WakeAndWait, Goto, source
<1> QED BY <1>1, <1>2, <1>3 DEF IInv

LEMMA TakeStep ==
    ASSUME IInv, NEW c \in Conns, Acquire(c) \/ AcquireFails(c)
    PROVE  IInv'
<1>1. \A d \in Conns : pc[d] \notin Holding
  BY DEF IInv, HolderKnown, Acquire, AcquireFails, Take, CanPublish
<1>2. TypeOK'
  BY DEF IInv, TypeOK, PCs, Acquire, AcquireFails, Take, Goto
<1>3. HolderKnown'
  BY <1>1 DEF IInv, TypeOK, HolderKnown, Holding, Acquire, AcquireFails, Take, Goto
<1>4. RecvInside'
  BY <1>1 DEF IInv, TypeOK, RecvInside, Holding, Acquire, AcquireFails, Take, Goto
<1> QED BY <1>2, <1>3, <1>4 DEF IInv

LEMMA RecvStep ==
    ASSUME IInv, NEW c \in Conns, Deliver(c) \/ RecvEnds(c) \/ WakeAndLeave(c)
    PROVE  IInv'
<1>1. TypeOK'
  <2>1. CASE Deliver(c)
    BY <2>1 DEF IInv, TypeOK, Deliver
  <2>2. CASE RecvEnds(c)
    BY <2>2 DEF IInv, TypeOK, RecvEnds, source
  <2>3. CASE WakeAndLeave(c)
    BY <2>3 DEF IInv, TypeOK, PCs, WakeAndLeave, StopRecv, Goto, source
  <2> QED BY <2>1, <2>2, <2>3
<1>2. HolderKnown'
  BY DEF IInv, TypeOK, HolderKnown, Holding, Deliver, RecvEnds, WakeAndLeave, Goto, source
<1>3. RecvInside'
  BY DEF IInv, TypeOK, RecvInside, Deliver, RecvEnds, WakeAndLeave, StopRecv, Goto, source
<1> QED BY <1>1, <1>2, <1>3 DEF IInv

LEMMA ReleaseStep ==
    ASSUME IInv, NEW c \in Conns, Release(c) \/ Released(c)
    PROVE  IInv'
<1>1. \A d \in Conns : pc[d] \in Holding => d = c
  BY DEF IInv, HolderKnown, Holding, Release, Released
<1>2. TypeOK'
  BY DEF IInv, TypeOK, PCs, Release, Released, GiveBack, Goto
<1>3. HolderKnown'
  BY <1>1 DEF IInv, TypeOK, HolderKnown, Holding, Release, Released, GiveBack, Goto
<1>4. RecvInside'
  BY <1>1 DEF IInv, TypeOK, RecvInside, Holding, Release, Released, Goto
<1> QED BY <1>2, <1>3, <1>4 DEF IInv

LEMMA Inductive == IInv /\ [Next]_vars => IInv'
<1>1. ASSUME IInv, UNCHANGED vars PROVE IInv'
  BY <1>1 DEF IInv, TypeOK, HolderKnown, RecvInside, vars
<1> QED
  BY <1>1, QuietStep, TakeStep, RecvStep, ReleaseStep DEF Next, Serve

THEOREM Invariance == Spec => []IInv
<1> QED BY InductiveInit, Inductive, PTL DEF Spec

LEMMA WhatHolds == IInv => TypeOK /\ OnePublisher /\ MessagesInSession
<1> SUFFICES ASSUME IInv PROVE OnePublisher /\ MessagesInSession
  BY DEF IInv
<1>1. OnePublisher
  BY DEF IInv, HolderKnown, OnePublisher, Holding, TypeOK
<1>2. MessagesInSession
  BY DEF IInv, HolderKnown, RecvInside, MessagesInSession, Holding
<1> QED BY <1>1, <1>2

(* One publisher at a time, whatever the connections, the hooks and the       *)
(* receive coroutines do.                                                     *)
THEOREM PublishersExclude == Spec => [](TypeOK /\ OnePublisher)
<1> QED BY Invariance, WhatHolds, PTL

(* The hub is given messages only while it is active, only by the publisher.  *)
THEOREM MessagesStayInside == Spec => []MessagesInSession
<1> QED BY Invariance, WhatHolds, PTL

LEMMA StepRefines ==
    ASSUME IInv, [Next]_vars
    PROVE  [Session!Next]_<<source_id, is_active, heard>>
<1>1. ASSUME NEW c \in Conns,
             \/ Ask(c) \/ HookRefuses(c) \/ Busy(c) \/ Kick(c) \/ Told(c)
             \/ WakeAndWait(c) \/ WakeAndLeave(c) \/ RecvEnds(c)
      PROVE  UNCHANGED <<source_id, is_active, heard>>
  BY <1>1 DEF Ask, HookRefuses, Busy, Kick, Told, WakeAndWait, WakeAndLeave,
     RecvEnds, source
<1>2. ASSUME NEW c \in Conns, Acquire(c) \/ AcquireFails(c)
      PROVE  Session!Begin(c)
  BY <1>2 DEF IInv, HolderKnown, Acquire, AcquireFails, Take, CanPublish, Session!Begin
<1>3. ASSUME NEW c \in Conns, Deliver(c)
      PROVE  Session!Message(c)
  BY <1>3, WhatHolds DEF MessagesInSession, Deliver, Session!Message
<1>4. ASSUME NEW c \in Conns, Release(c)
      PROVE  Session!Close(c)
  BY <1>4 DEF IInv, HolderKnown, Holding, Release, Session!Close
<1>5. ASSUME NEW c \in Conns, Released(c)
      PROVE  Session!End(c)
  BY <1>5 DEF IInv, HolderKnown, RecvInside, Holding, Released, GiveBack, Session!End
<1>6. CASE UNCHANGED vars
  BY <1>6 DEF vars
<1> QED
  BY <1>1, <1>2, <1>3, <1>4, <1>5, <1>6 DEF Next, Serve, Session!Next

(* The protocol of the connections implements the sessions of a source.       *)
THEOREM ImplementsSession == Spec => SessionSpec
<1>1. Init => Session!Init
  BY DEF Init, Session!Init
<1>2. IInv /\ [Next]_vars => [Session!Next]_<<source_id, is_active, heard>>
  BY StepRefines
<1> QED BY <1>1, <1>2, Invariance, PTL DEF Spec, SessionSpec, Session!Spec

(* How far a connection that left its loop is from giving the stream back: the *)
(* read of its receive coroutine that is interrupted, the join, the stop of     *)
(* the services.                                                              *)
ToRelease(p, r) ==
    CASE p = "joining" /\ r # "ended" -> 3
      [] p = "joining" /\ r = "ended" -> 2
      [] p = "closing" -> 1
      [] OTHER -> 0

(* No step takes a connection that leaves further away, and each step of its    *)
(* own or of its receive coroutine brings it nearer, until the stream is free.  *)
LeaverAdvances ==
    [][\A c \in Conns : pc[c] \in {"joining", "closing"} =>
         /\ ToRelease(pc'[c], recv'[c]) <= ToRelease(pc[c], recv[c])
         /\ Serve(c) \/ Deliver(c) \/ RecvEnds(c) =>
               ToRelease(pc'[c], recv'[c]) < ToRelease(pc[c], recv[c])
         /\ pc'[c] \in {"joining", "closing"} \/ source_id' # c]_vars

(* The receive coroutine of a connection that joins it was interrupted or is    *)
(* over.                                                                      *)
LeaverIsTold ==
    \A c \in Conns :
        /\ pc[c] = "waiting" => recv[c] \in {"reading", "ended"}
        /\ pc[c] = "joining" => recv[c] \in {"stopping", "ended"}

LEMMA LeaverIsToldKeeps == IInv /\ LeaverIsTold /\ [Next]_vars => LeaverIsTold'
<1> SUFFICES ASSUME IInv, LeaverIsTold, [Next]_vars PROVE LeaverIsTold'
  OBVIOUS
<1> USE DEF LeaverIsTold
<1>1. ASSUME NEW d \in Conns, Ask(d) \/ HookRefuses(d) \/ Busy(d) \/ Told(d) \/ AcquireFails(d) \/ Release(d) \/ Released(d)
      PROVE  LeaverIsTold'
  BY <1>1 DEF IInv, TypeOK, Ask, HookRefuses, Busy, Told, AcquireFails, Release, Released, Goto
<1>2. ASSUME NEW d \in Conns, Acquire(d) \/ WakeAndLeave(d)
      PROVE  LeaverIsTold'
  BY <1>2 DEF IInv, TypeOK, Acquire, WakeAndLeave, StopRecv, Goto
<1>3. ASSUME NEW d \in Conns, Deliver(d) \/ RecvEnds(d) \/ Kick(d) \/ WakeAndWait(d)
      PROVE  LeaverIsTold'
  BY <1>3 DEF IInv, TypeOK, Deliver, RecvEnds, Kick, WakeAndWait
<1>4. CASE UNCHANGED vars
  BY <1>4 DEF vars
<1> QED BY <1>1, <1>2, <1>3, <1>4 DEF Next, Serve

(* Whoever joins the receive coroutine has interrupted it, and the stream is     *)
(* free three steps after: the part of StreamIsFreed that needs no fairness.    *)
THEOREM StreamComesFree == Spec => []LeaverIsTold /\ LeaverAdvances
<1>1. Init => LeaverIsTold
  BY DEF Init, LeaverIsTold
<1>2. ASSUME IInv, LeaverIsTold, Next, NEW c \in Conns, pc[c] \in {"joining", "closing"}
      PROVE  /\ ToRelease(pc'[c], recv'[c]) <= ToRelease(pc[c], recv[c])
             /\ Serve(c) \/ Deliver(c) \/ RecvEnds(c) =>
                   ToRelease(pc'[c], recv'[c]) < ToRelease(pc[c], recv[c])
             /\ pc'[c] \in {"joining", "closing"} \/ source_id' # c
  <2>1. pc[c] = "joining" => recv[c] \in {"stopping", "ended"}
    BY <1>2 DEF LeaverIsTold
  <2>2. pc \in [Conns -> PCs] /\ recv \in [Conns -> {"none", "reading", "stopping", "ended"}]
    BY <1>2 DEF IInv, TypeOK
  <2>3. CASE Deliver(c) \/ RecvEnds(c)
    <3>1. pc' = pc /\ recv'[c] = "ended" /\ pc[c] = "joining" /\ recv[c] = "stopping"
      BY <1>2, <2>1, <2>2, <2>3 DEF Deliver, RecvEnds, IInv, RecvInside
    <3> QED BY <3>1 DEF ToRelease
  <2>4. CASE Serve(c)
    <3>1. Release(c) \/ Released(c)
      BY <1>2, <2>4 DEF Serve, HookRefuses, Busy, Acquire, AcquireFails, Take, WakeAndWait, WakeAndLeave, Told
    <3>2. CASE Release(c)
      BY <2>2, <3>2 DEF Release, Goto, ToRelease
    <3>3. CASE Released(c)
      BY <2>2, <3>3, NoConnAssumption DEF Released, GiveBack, Goto, ToRelease
    <3> QED BY <3>1, <3>2, <3>3
  <2>5. CASE ~(Serve(c) \/ Deliver(c) \/ RecvEnds(c))
    <3>1. pc'[c] = pc[c] /\ recv'[c] = recv[c]
      <4>1. CASE Ask(c) \/ Kick(c)
        BY <1>2, <4>1 DEF Ask, Kick
      <4>2. ASSUME NEW d \in Conns, d # c, Ask(d) \/ Serve(d) \/ Deliver(d) \/ RecvEnds(d) \/ Kick(d)
            PROVE  pc'[c] = pc[c] /\ recv'[c] = recv[c]
        BY <2>2, <4>2 DEF Ask, Serve, Deliver, RecvEnds, Kick, HookRefuses, Busy, Acquire, AcquireFails,
           WakeAndWait, WakeAndLeave, StopRecv, Release, Released, Told, Goto
      <4> QED BY <1>2, <2>5, <4>1, <4>2 DEF Next
    <3> QED BY <1>2, <2>5, <3>1 DEF ToRelease
  <2> QED BY <2>3, <2>4, <2>5
<1> DEFINE Advances(c) ==
        pc[c] \in {"joining", "closing"} =>
         /\ ToRelease(pc'[c], recv'[c]) <= ToRelease(pc[c], recv[c])
         /\ Serve(c) \/ Deliver(c) \/ RecvEnds(c) =>
               ToRelease(pc'[c], recv'[c]) < ToRelease(pc[c], recv[c])
         /\ pc'[c] \in {"joining", "closing"} \/ source_id' # c
<1>3. IInv /\ LeaverIsTold /\ [Next]_vars => [\A c \in Conns : Advances(c)]_vars
  BY <1>2
<1> QED BY <1>1, <1>3, LeaverIsToldKeeps, Invariance, PTL DEF Spec, LeaverAdvances
-----------------------------------------------------------------------------
(* The handle of a coroutine.                                                 *)

(* What the flags of the handle say about the thread.                        *)
FlagsFit ==
    /\ started <=> thread # "none"
    /\ interrupted => started
    /\ thread \in Live \cup {"none"} => retval = "none" /\ ~cycle_done
    /\ thread \in {"zombie", "joined"} /\ ~cycle_done => retval = "cycle"
    /\ retval = "cycle" <=> trd_err = "cycle"

(* A thread is joined only by a stop() that has interrupted it, or that has   *)
(* found its cycle done: either way no interrupt() passes afterwards.         *)
JoinsAreInterrupted ==
    /\ thread = "joined" => interrupted \/ cycle_done
    /\ \A u \in Users : user[u] = "joining" => interrupted \/ cycle_done

HandleInv == CoroutineTypeOK /\ FlagsFit /\ JoinsAreInterrupted /\ ErrorIsCycles /\ NeverSignalsFreed

THEOREM HandleInit == CoroutineInit => HandleInv
BY DEF CoroutineInit, HandleInv, CoroutineTypeOK, FlagsFit, JoinsAreInterrupted,
   ErrorIsCycles, NeverSignalsFreed, Errors, ThreadStates, Live

LEMMA StartStep ==
    ASSUME HandleInv, NEW u \in Users, StartRefused(u) \/ StartFails(u) \/ Start(u)
    PROVE  HandleInv'
<1>1. CASE StartRefused(u)
  <2>1. CoroutineTypeOK'
    BY <1>1 DEF HandleInv, CoroutineTypeOK, Errors, ThreadStates, StartRefused,
       KeepFirst, flags
  <2>2. FlagsFit'
    BY <1>1 DEF HandleInv, CoroutineTypeOK, FlagsFit, Live, StartRefused, KeepFirst,
       flags
  <2>3. JoinsAreInterrupted'
    BY <1>1 DEF HandleInv, CoroutineTypeOK, FlagsFit, JoinsAreInterrupted, Live,
       StartRefused, KeepFirst, flags
  <2>4. (ErrorIsCycles /\ NeverSignalsFreed)'
    BY <1>1 DEF HandleInv, CoroutineTypeOK, FlagsFit, ErrorIsCycles, NeverSignalsFreed,
       Live, StartRefused, KeepFirst, flags
  <2> QED BY <2>1, <2>2, <2>3, <2>4 DEF HandleInv
<1>2. CASE StartFails(u)
  <2>1. CoroutineTypeOK'
    BY <1>2 DEF HandleInv, CoroutineTypeOK, Errors, ThreadStates, StartFails, flags
  <2>2. FlagsFit'
    BY <1>2 DEF HandleInv, CoroutineTypeOK, FlagsFit, Live, StartFails, flags
  <2>3. JoinsAreInterrupted'
    BY <1>2 DEF HandleInv, CoroutineTypeOK, FlagsFit, JoinsAreInterrupted, Live,
       StartFails, flags
  <2>4. (ErrorIsCycles /\ NeverSignalsFreed)'
    BY <1>2 DEF HandleInv, CoroutineTypeOK, FlagsFit, ErrorIsCycles, NeverSignalsFreed,
       Live, StartFails, flags
  <2> QED BY <2>1, <2>2, <2>3, <2>4 DEF HandleInv
<1>3. CASE Start(u)
  <2>1. CoroutineTypeOK'
    BY <1>3 DEF HandleInv, CoroutineTypeOK, Errors, ThreadStates, Start
  <2>2. FlagsFit'
    BY <1>3 DEF HandleInv, CoroutineTypeOK, FlagsFit, Live, Start
  <2>3. JoinsAreInterrupted'
    BY <1>3 DEF HandleInv, CoroutineTypeOK, FlagsFit, JoinsAreInterrupted, Live, Start
  <2>4. (ErrorIsCycles /\ NeverSignalsFreed)'
    BY <1>3 DEF HandleInv, CoroutineTypeOK, FlagsFit, ErrorIsCycles, NeverSignalsFreed,
       Live, Start
  <2> QED BY <2>1, <2>2, <2>3, <2>4 DEF HandleInv
<1> QED BY <1>1, <1>2, <1>3

LEMMA InterruptStep ==
    ASSUME HandleInv, NEW u \in Users, Interrupt(u)
    PROVE  HandleInv'
<1>1. thread # "joined"
  BY DEF HandleInv, JoinsAreInterrupted, Interrupt, Interrupts
<1>2. CoroutineTypeOK'
  BY <1>1 DEF HandleInv, CoroutineTypeOK, Errors, ThreadStates, Interrupt, Interrupts,
     SignalThread, KeepFirst
<1>3. FlagsFit'
  BY <1>1 DEF HandleInv, CoroutineTypeOK, FlagsFit, Live, Interrupt, Interrupts,
     SignalThread, KeepFirst
<1>4. JoinsAreInterrupted'
  BY <1>1 DEF HandleInv, CoroutineTypeOK, FlagsFit, JoinsAreInterrupted, Live,
     Interrupt, Interrupts, SignalThread, KeepFirst
<1>5. (ErrorIsCycles /\ NeverSignalsFreed)'
  BY <1>1 DEF HandleInv, CoroutineTypeOK, FlagsFit, ErrorIsCycles, NeverSignalsFreed,
     Live, Interrupt, Interrupts, SignalThread, KeepFirst
<1> QED BY <1>2, <1>3, <1>4, <1>5 DEF HandleInv

LEMMA StopStep ==
    ASSUME HandleInv, NEW u \in Users,
           StopAgain(u) \/ StopUnstarted(u) \/ StopBegins(u)
    PROVE  HandleInv'
<1>1. CASE StopAgain(u)
  <2>1. CoroutineTypeOK'
    BY <1>1 DEF HandleInv, CoroutineTypeOK, Errors, ThreadStates, StopAgain,
       flags
  <2>2. FlagsFit'
    BY <1>1 DEF HandleInv, CoroutineTypeOK, FlagsFit, Live, StopAgain, flags
  <2>3. JoinsAreInterrupted'
    BY <1>1 DEF HandleInv, CoroutineTypeOK, FlagsFit, JoinsAreInterrupted, Live,
       StopAgain, flags
  <2>4. (ErrorIsCycles /\ NeverSignalsFreed)'
    BY <1>1 DEF HandleInv, CoroutineTypeOK, FlagsFit, ErrorIsCycles, NeverSignalsFreed,
       Live, StopAgain, flags
  <2> QED BY <2>1, <2>2, <2>3, <2>4 DEF HandleInv
<1>2. CASE StopUnstarted(u)
  <2>1. CoroutineTypeOK'
    BY <1>2 DEF HandleInv, CoroutineTypeOK, Errors, ThreadStates, StopUnstarted
  <2>2. FlagsFit'
    BY <1>2 DEF HandleInv, CoroutineTypeOK, FlagsFit, Live, StopUnstarted
  <2>3. JoinsAreInterrupted'
    BY <1>2 DEF HandleInv, CoroutineTypeOK, FlagsFit, JoinsAreInterrupted, Live,
       StopUnstarted
  <2>4. (ErrorIsCycles /\ NeverSignalsFreed)'
    BY <1>2 DEF HandleInv, CoroutineTypeOK, FlagsFit, ErrorIsCycles, NeverSignalsFreed,
       Live, StopUnstarted
  <2> QED BY <2>1, <2>2, <2>3, <2>4 DEF HandleInv
<1>3. CASE StopBegins(u) /\ Interrupts
  <2>1. CoroutineTypeOK'
    BY <1>3 DEF HandleInv, CoroutineTypeOK, Errors, ThreadStates, StopBegins,
       StopInterrupts, Interrupts, SignalThread, KeepFirst
  <2>2. FlagsFit'
    BY <1>3 DEF HandleInv, CoroutineTypeOK, FlagsFit, Live, StopBegins, StopInterrupts,
       Interrupts, SignalThread, KeepFirst
  <2>3. JoinsAreInterrupted'
    BY <1>3 DEF HandleInv, CoroutineTypeOK, FlagsFit, JoinsAreInterrupted, Live,
       StopBegins, StopInterrupts, Interrupts, SignalThread, KeepFirst
  <2>4. (ErrorIsCycles /\ NeverSignalsFreed)'
    BY <1>3 DEF HandleInv, CoroutineTypeOK, FlagsFit, ErrorIsCycles, NeverSignalsFreed,
       Live, StopBegins, StopInterrupts, Interrupts, SignalThread, KeepFirst
  <2> QED BY <2>1, <2>2, <2>3, <2>4 DEF HandleInv
<1>4. CASE StopBegins(u) /\ ~Interrupts
  <2>1. CoroutineTypeOK'
    BY <1>4 DEF HandleInv, CoroutineTypeOK, Errors, ThreadStates, StopBegins,
       StopInterrupts, Interrupts
  <2>2. FlagsFit'
    BY <1>4 DEF HandleInv, CoroutineTypeOK, FlagsFit, Live, StopBegins, StopInterrupts,
       Interrupts
  <2>3. JoinsAreInterrupted'
    BY <1>4 DEF HandleInv, CoroutineTypeOK, FlagsFit, JoinsAreInterrupted, Live,
       StopBegins, StopInterrupts, Interrupts
  <2>4. (ErrorIsCycles /\ NeverSignalsFreed)'
    BY <1>4 DEF HandleInv, CoroutineTypeOK, FlagsFit, ErrorIsCycles, NeverSignalsFreed,
       Live, StopBegins, StopInterrupts, Interrupts
  <2> QED BY <2>1, <2>2, <2>3, <2>4 DEF HandleInv
<1> QED BY <1>1, <1>2, <1>3, <1>4

LEMMA JoinStep ==
    ASSUME HandleInv, NEW u \in Users, StopJoined(u) \/ KickJoining(u)
    PROVE  HandleInv'
<1>1. CASE StopJoined(u)
  <2>1. CoroutineTypeOK'
    BY <1>1 DEF HandleInv, CoroutineTypeOK, Errors, ThreadStates, StopJoined, flags
  <2>2. FlagsFit'
    BY <1>1 DEF HandleInv, CoroutineTypeOK, FlagsFit, Live, StopJoined, flags
  <2>3. JoinsAreInterrupted'
    BY <1>1 DEF HandleInv, CoroutineTypeOK, FlagsFit, JoinsAreInterrupted, Live,
       StopJoined, flags
  <2>4. (ErrorIsCycles /\ NeverSignalsFreed)'
    BY <1>1 DEF HandleInv, CoroutineTypeOK, FlagsFit, ErrorIsCycles, NeverSignalsFreed,
       Live, StopJoined, flags
  <2> QED BY <2>1, <2>2, <2>3, <2>4 DEF HandleInv
<1>2. CASE KickJoining(u)
  <2>1. CoroutineTypeOK'
    BY <1>2 DEF HandleInv, CoroutineTypeOK, Errors, ThreadStates, KickJoining, flags
  <2>2. FlagsFit'
    BY <1>2 DEF HandleInv, CoroutineTypeOK, FlagsFit, Live, KickJoining,
       flags
  <2>3. JoinsAreInterrupted'
    BY <1>2 DEF HandleInv, CoroutineTypeOK, FlagsFit, JoinsAreInterrupted, Live,
       KickJoining, flags
  <2>4. (ErrorIsCycles /\ NeverSignalsFreed)'
    BY <1>2 DEF HandleInv, CoroutineTypeOK, FlagsFit, ErrorIsCycles, NeverSignalsFreed,
       Live, KickJoining, flags
  <2> QED BY <2>1, <2>2, <2>3, <2>4 DEF HandleInv
<1> QED BY <1>1, <1>2

LEMMA ThreadStep ==
    ASSUME HandleInv, Block \/ Wake \/ CycleDone \/ CycleFails
    PROVE  HandleInv'
<1>1. CASE Block
  <2>1. CoroutineTypeOK'
    BY <1>1 DEF HandleInv, CoroutineTypeOK, Errors, ThreadStates, Runnable, Block, flags
  <2>2. FlagsFit'
    BY <1>1 DEF HandleInv, CoroutineTypeOK, FlagsFit, Live, Runnable, Block,
       flags
  <2>3. JoinsAreInterrupted'
    BY <1>1 DEF HandleInv, CoroutineTypeOK, FlagsFit, JoinsAreInterrupted, Live,
       Runnable, Block, flags
  <2>4. (ErrorIsCycles /\ NeverSignalsFreed)'
    BY <1>1 DEF HandleInv, CoroutineTypeOK, FlagsFit, ErrorIsCycles, NeverSignalsFreed,
       Live, Runnable, Block, flags
  <2> QED BY <2>1, <2>2, <2>3, <2>4 DEF HandleInv
<1>2. CASE Wake
  <2>1. CoroutineTypeOK'
    BY <1>2 DEF HandleInv, CoroutineTypeOK, Errors, ThreadStates, Runnable, Wake, flags
  <2>2. FlagsFit'
    BY <1>2 DEF HandleInv, CoroutineTypeOK, FlagsFit, Live, Runnable, Wake,
       flags
  <2>3. JoinsAreInterrupted'
    BY <1>2 DEF HandleInv, CoroutineTypeOK, FlagsFit, JoinsAreInterrupted, Live,
       Runnable, Wake, flags
  <2>4. (ErrorIsCycles /\ NeverSignalsFreed)'
    BY <1>2 DEF HandleInv, CoroutineTypeOK, FlagsFit, ErrorIsCycles, NeverSignalsFreed,
       Live, Runnable, Wake, flags
  <2> QED BY <2>1, <2>2, <2>3, <2>4 DEF HandleInv
<1>3. CASE CycleDone
  <2>1. CoroutineTypeOK'
    BY <1>3 DEF HandleInv, CoroutineTypeOK, Errors, ThreadStates, Runnable, CycleDone,
       flags
  <2>2. FlagsFit'
    BY <1>3 DEF HandleInv, CoroutineTypeOK, FlagsFit, Live, Runnable, CycleDone, flags
  <2>3. JoinsAreInterrupted'
    BY <1>3 DEF HandleInv, CoroutineTypeOK, FlagsFit, JoinsAreInterrupted, Live,
       Runnable, CycleDone, flags
  <2>4. (ErrorIsCycles /\ NeverSignalsFreed)'
    BY <1>3 DEF HandleInv, CoroutineTypeOK, FlagsFit, ErrorIsCycles, NeverSignalsFreed,
       Live, Runnable, CycleDone, flags
  <2> QED BY <2>1, <2>2, <2>3, <2>4 DEF HandleInv
<1>4. CASE CycleFails
  <2>1. CoroutineTypeOK'
    BY <1>4 DEF HandleInv, CoroutineTypeOK, Errors, ThreadStates, Runnable, CycleFails,
       flags
  <2>2. FlagsFit'
    BY <1>4 DEF HandleInv, CoroutineTypeOK, FlagsFit, Live, Runnable, CycleFails, flags
  <2>3. JoinsAreInterrupted'
    BY <1>4 DEF HandleInv, CoroutineTypeOK, FlagsFit, JoinsAreInterrupted, Live,
       Runnable, CycleFails, flags
  <2>4. (ErrorIsCycles /\ NeverSignalsFreed)'
    BY <1>4 DEF HandleInv, CoroutineTypeOK, FlagsFit, ErrorIsCycles, NeverSignalsFreed,
       Live, Runnable, CycleFails, flags
  <2> QED BY <2>1, <2>2, <2>3, <2>4 DEF HandleInv
<1> QED BY <1>1, <1>2, <1>3, <1>4

LEMMA HandleNext == HandleInv /\ [CoroutineNext]_coroutineVars => HandleInv'
<1>1. ASSUME HandleInv, UNCHANGED coroutineVars PROVE HandleInv'
  BY <1>1 DEF HandleInv, CoroutineTypeOK, FlagsFit, JoinsAreInterrupted, ErrorIsCycles,
     NeverSignalsFreed, coroutineVars
<1> QED
  BY <1>1, StartStep, InterruptStep, StopStep, JoinStep, ThreadStep DEF CoroutineNext

THEOREM HandleInvariance == CoroutineSpec => []HandleInv
<1> QED BY HandleInit, HandleNext, PTL DEF CoroutineSpec

(* The second assertion of stop() cannot fail, no freed thread is ever         *)
(* signalled, and a cycle that failed is reported by its own error from its    *)
(* end on, whoever calls the handle and in whatever order.                    *)
THEOREM HandleIsSafe == CoroutineSpec => [](CoroutineTypeOK /\ HandleIsSound)
<1>1. HandleInv => CoroutineTypeOK /\ HandleIsSound
  BY DEF HandleInv, FlagsFit, EndIsReported, HandleIsSound
<1> QED BY <1>1, HandleInvariance, PTL

(* pull() never reports success again, nor another error than the cycle's.    *)
THEOREM ErrorStays == CoroutineSpec => ErrorIsFinal
<1>1. HandleInv /\ [CoroutineNext]_coroutineVars
        => [ /\ trd_err # "none" => trd_err' # "none"
             /\ trd_err = "cycle" => trd_err' = "cycle" ]_coroutineVars
  <2> SUFFICES ASSUME HandleInv, CoroutineNext
               PROVE  /\ trd_err # "none" => trd_err' # "none"
                      /\ trd_err = "cycle" => trd_err' = "cycle"
    OBVIOUS
  <2>1. ASSUME NEW u \in Users,
               \/ StartRefused(u) \/ StartFails(u) \/ Start(u) \/ Interrupt(u)
               \/ StopAgain(u) \/ StopUnstarted(u) \/ StopJoined(u) \/ KickJoining(u)
        PROVE  /\ trd_err # "none" => trd_err' # "none"
               /\ trd_err = "cycle" => trd_err' = "cycle"
    BY <2>1 DEF HandleInv, FlagsFit, StartRefused, StartFails, Start, Interrupt,
       StopAgain, StopUnstarted, StopJoined, KickJoining, KeepFirst, Live
  <2>2. ASSUME NEW u \in Users, StopBegins(u)
        PROVE  /\ trd_err # "none" => trd_err' # "none"
               /\ trd_err = "cycle" => trd_err' = "cycle"
    BY <2>2 DEF StopBegins, StopInterrupts, KeepFirst
  <2>3. ASSUME Block \/ Wake \/ CycleDone \/ CycleFails
        PROVE  /\ trd_err # "none" => trd_err' # "none"
               /\ trd_err = "cycle" => trd_err' = "cycle"
    BY <2>3 DEF Block, Wake, CycleDone, CycleFails
  <2> QED BY <2>1, <2>2, <2>3 DEF CoroutineNext
<1> QED BY <1>1, HandleInvariance, PTL DEF CoroutineSpec, ErrorIsFinal

(* stop() never waits for a thread that blocks: the thread it joins has ended,   *)
(* or runs and will see pull() fail when it looks.                             *)
JoinsWhatEnds ==
    \A u \in Users : user[u] = "joining" =>
        thread = "zombie" \/ (thread \in {"ready", "woken"} /\ trd_err # "none")

JoinFits ==
    /\ \A u \in Users : user[u] = "joining" => disposed /\ thread \in {"ready", "woken", "zombie"}
    /\ \A u, v \in Users : user[u] = "joining" /\ user[v] = "joining" => u = v
    /\ interrupted => trd_err # "none" /\ thread # "blocked"
    /\ thread = "joined" => disposed

LEMMA JoinFitsKeeps == HandleInv /\ JoinFits /\ [CoroutineNext]_coroutineVars => JoinFits'
<1> SUFFICES ASSUME HandleInv, JoinFits, [CoroutineNext]_coroutineVars PROVE JoinFits'
  OBVIOUS
<1>1. /\ user \in [Users -> {"idle", "joining", "returned"}]
      /\ \A u \in Users : user[u] = "joining" => interrupted \/ cycle_done
      /\ thread \in Live => ~cycle_done
      /\ (started <=> thread # "none") /\ thread \in ThreadStates
  BY DEF HandleInv, CoroutineTypeOK, FlagsFit, JoinsAreInterrupted
<1>2. ASSUME NEW u \in Users, StartRefused(u) \/ StartFails(u) \/ Start(u) \/ Interrupt(u)
      PROVE  JoinFits'
  BY <1>1, <1>2 DEF JoinFits, StartRefused, StartFails, Start, Interrupt, Interrupts, SignalThread, KeepFirst, flags
<1>3. ASSUME NEW u \in Users, StopAgain(u) \/ StopUnstarted(u)
      PROVE  JoinFits'
  BY <1>1, <1>3 DEF JoinFits, StopAgain, StopUnstarted, flags
<1>4. ASSUME NEW u \in Users, StopBegins(u)
      PROVE  JoinFits'
  <2>1. /\ disposed' = TRUE /\ thread \in {"ready", "blocked", "woken", "zombie"}
        /\ \A v \in Users : user[v] # "joining"
    BY <1>1, <1>4 DEF JoinFits, StopBegins, StopInterrupts, ThreadStates
  <2>2. \A v \in Users : user'[v] = "joining" => v = u
    BY <1>1, <1>4, <2>1 DEF StopBegins
  <2>3. CASE Interrupts
    <3>1. interrupted' = TRUE /\ trd_err' # "none"
      BY <1>4, <2>3 DEF StopBegins, StopInterrupts, KeepFirst
    <3>2. thread' = IF thread = "blocked" THEN "woken" ELSE thread
      BY <1>4, <2>3 DEF StopBegins, StopInterrupts, SignalThread
    <3> QED BY <2>1, <2>2, <3>1, <3>2 DEF JoinFits
  <2>4. CASE ~Interrupts
    <3>1. thread' = thread /\ interrupted' = interrupted /\ trd_err' = trd_err
      BY <1>4, <2>4 DEF StopBegins, StopInterrupts
    <3>2. thread # "blocked"
      BY <1>1, <2>1, <2>4 DEF JoinFits, Interrupts, Live
    <3> QED BY <2>1, <2>2, <3>1, <3>2 DEF JoinFits
  <2> QED BY <2>3, <2>4
<1>5. ASSUME NEW u \in Users, StopJoined(u) \/ KickJoining(u)
      PROVE  JoinFits'
  BY <1>1, <1>5 DEF JoinFits, StopJoined, KickJoining, flags
<1>6. CASE Block \/ Wake \/ CycleDone \/ CycleFails
  BY <1>1, <1>6 DEF JoinFits, Block, Wake, CycleDone, CycleFails, Runnable, Live, flags
<1>7. CASE UNCHANGED coroutineVars
  BY <1>7 DEF JoinFits, coroutineVars
<1> QED BY <1>2, <1>3, <1>4, <1>5, <1>6, <1>7 DEF CoroutineNext

(* The part of StopReturns that needs no fairness: there is nothing the joined   *)
(* thread could still wait for.                                               *)
THEOREM JoinedThreadEnds == CoroutineSpec => []JoinsWhatEnds
<1>1. CoroutineInit => JoinFits
  BY DEF CoroutineInit, JoinFits
<1>2. HandleInv /\ JoinFits => JoinsWhatEnds
  BY DEF HandleInv, FlagsFit, JoinsAreInterrupted, JoinFits, JoinsWhatEnds, Live
<1> QED BY <1>1, <1>2, JoinFitsKeeps, HandleInvariance, PTL DEF CoroutineSpec
-----------------------------------------------------------------------------
(* Streams over HTTP.  What the variables of HttpStream hold.                 *)
InLoop == {"sleep", "send", "stuck"}

Places == {"away", "refused", "hook", "stop"} \cup InLoop

Messages == [number : Nat, kind : Kinds]

Responses ==
    [at : Places, stream : Streams, queue : SUBSET Messages, header : BOOLEAN,
     untold : SUBSET AV, of : SUBSET Nat, missed : BOOLEAN, closed : BOOLEAN]

Publishes == [state : {"idle", "failed", "publishing", "closing"},
              number : Nat, known : SUBSET Kinds]

Entries == {"none", "unregistered", "disabled", "enabled"}

HttpTypeOK ==
    /\ mount \in [Streams -> Streams]
    /\ remux \in BOOLEAN /\ template \in BOOLEAN /\ told \in BOOLEAN
    /\ publishes \in Nat
    /\ publish \in [Streams -> Publishes]
    /\ entry \in [Streams -> Entries]
    /\ client \in [Clients -> Responses]

(* Who was told that http_remux is on has the template of the vhost, and two  *)
(* streams collide in the mux only when the template gives them one path.     *)
EntryInv ==
    /\ remux /\ told => template
    /\ ~SharesPath => \A s \in Streams : entry[s] # "unregistered"

Numbers(r) == r.of \cup {m.number : m \in r.queue}

(* What a response (r) has got and will get, by the entries (e) and the       *)
(* publishes (p) of the streams, is of one publish: the one that goes on, or, *)
(* when it has ended, one that cannot go on while the entry is enabled.  And  *)
(* what is not announced yet is still in the queue.                           *)
OnePublish(r, e, p) ==
    IF p[r.stream].state = "idle"
    THEN /\ \A m, n \in Numbers(r) : m = n
         /\ e[r.stream] = "enabled" => Numbers(r) = {}
    ELSE Numbers(r) \subseteq {p[r.stream].number}

Announced(r) == IF r.header THEN r.untold = {} ELSE r.untold \subseteq KindsOf(r.queue)

ServedIn(r, e, p) ==
    IF r.at \in InLoop
    THEN /\ e[r.stream] \in {"disabled", "enabled"}
         /\ r.missed \/ OnePublish(r, e, p)
         /\ Announced(r)
    ELSE r.of = {} /\ ~r.header

ServedInv == \A c \in Clients : ServedIn(client[c], entry, publish)

HttpInv == HttpTypeOK /\ EntryInv /\ ServedInv
-----------------------------------------------------------------------------
(* What it does to the entries that the streams of S are mounted.             *)
LEMMA MountMounts ==
    ASSUME HttpTypeOK, NEW S \in SUBSET Streams, HttpMount(S)
    PROVE  /\ entry' \in [Streams -> Entries]
           /\ \A s \in Streams \ S : entry'[s] = entry[s]
           /\ \A s \in S : Mounted(s) => entry'[s] = "enabled"
           /\ \A s \in S : entry[s] = "none" =>
                 IF ~template THEN entry'[s] = "none"
                 ELSE entry'[s] = "enabled" \/ (SharesPath /\ entry'[s] = "unregistered")
           /\ \A s \in S : entry[s] = "unregistered" => entry'[s] = "unregistered"
           /\ ub' = ub \/ \E s \in S : entry[s] = "unregistered"
<1>1. /\ entry \in [Streams -> Entries] /\ mount \in [Streams -> Streams]
      /\ entry' = [s \in Streams |-> IF s \in S THEN MountOf(s) ELSE entry[s]]
      /\ ub' = IF \E s \in S : entry[s] = "unregistered" THEN "null_entry" ELSE ub
  BY DEF HttpTypeOK, HttpMount, NullEntry
<1>2. ASSUME NEW s \in Streams, entry[s] = "none", PathIsTaken(s) PROVE SharesPath
  <2>1. PICK t \in Streams : Mounted(t) /\ mount[t] = mount[s]
    BY <1>2 DEF PathIsTaken
  <2>2. t # s
    BY <1>2, <2>1 DEF Mounted
  <2> QED BY <2>1, <2>2 DEF SharesPath
<1>3. ASSUME NEW s \in Streams
      PROVE  /\ MountOf(s) \in Entries
             /\ Mounted(s) => MountOf(s) = "enabled"
             /\ entry[s] = "none" =>
                   IF ~template THEN MountOf(s) = "none"
                   ELSE MountOf(s) = "enabled" \/ (SharesPath /\ MountOf(s) = "unregistered")
             /\ entry[s] = "unregistered" => MountOf(s) = "unregistered"
  <2>1. CASE entry[s] = "none"
    BY <1>2, <2>1 DEF MountOf, Entries, Mounted
  <2>2. CASE entry[s] = "unregistered"
    BY <2>2 DEF MountOf, Entries, Mounted
  <2>3. CASE entry[s] \in {"disabled", "enabled"}
    BY <2>3 DEF MountOf, Entries, Mounted
  <2> QED BY <1>1, <2>1, <2>2, <2>3 DEF Entries
<1> QED BY <1>1, <1>3

Marked(r, S) ==
    [r EXCEPT !.missed = @ \/ (r.at \in InLoop /\ r.stream \in S /\ entry[r.stream] # "enabled")]

LEMMA UnseenMarks ==
    ASSUME HttpTypeOK, NEW S
    PROVE  \A c \in Clients : Unseen(S)[c] = Marked(client[c], S)
BY DEF Unseen, Marked, Serving, Enabled, InLoop

LEMMA MarkedKeeps ==
    ASSUME NEW r \in Responses, NEW S
    PROVE  /\ Marked(r, S) \in Responses
           /\ Marked(r, S).missed <=>
                 r.missed \/ (r.at \in InLoop /\ r.stream \in S /\ entry[r.stream] # "enabled")
           /\ Marked(r, S).at = r.at /\ Marked(r, S).stream = r.stream
           /\ Marked(r, S).queue = r.queue /\ Marked(r, S).header = r.header
           /\ Marked(r, S).untold = r.untold /\ Marked(r, S).of = r.of
BY DEF Marked, Responses

(* A response goes on when streams are mounted: the ones that were disabled    *)
(* are marked, and a publish may begin in those that had none.                 *)
LEMMA MountServes ==
    ASSUME HttpTypeOK, NEW S \in SUBSET Streams, HttpMount(S),
           NEW p, \A s \in Streams : p[s] = publish[s] \/ (publish[s].state = "idle" /\ s \in S),
           NEW r \in Responses, ServedIn(r, entry, publish)
    PROVE  ServedIn(Marked(r, S), entry', p)
<1> DEFINE s == r.stream
           q == Marked(r, S)
<1>1. s \in Streams /\ r.of \subseteq Nat
  BY DEF Responses
<1>2. /\ q.missed <=> r.missed \/ (r.at \in InLoop /\ r.stream \in S /\ entry[r.stream] # "enabled")
      /\ q.at = r.at /\ q.stream = r.stream
      /\ q.queue = r.queue /\ q.header = r.header
      /\ q.untold = r.untold /\ q.of = r.of
  BY MarkedKeeps
<1> SUFFICES ServedIn(q, entry', p)
  OBVIOUS
<1> HIDE DEF q
<1>3. Numbers(q) = Numbers(r) /\ (Announced(q) <=> Announced(r))
  BY <1>2 DEF Numbers, Announced
<1>4. CASE r.at \notin InLoop
  BY <1>2, <1>4 DEF ServedIn
<1>5. CASE r.at \in InLoop
  <2>1. /\ entry[s] \in {"disabled", "enabled"}
        /\ r.missed \/ OnePublish(r, entry, publish)
        /\ Announced(r)
    BY <1>5 DEF ServedIn
  <2>2. /\ entry'[s] \in {"disabled", "enabled"}
        /\ s \notin S => entry'[s] = entry[s]
    BY <1>1, <2>1, MountMounts DEF Mounted
  <2>3. q.missed \/ OnePublish(q, entry', p)
    <3> SUFFICES ASSUME ~q.missed PROVE OnePublish(q, entry', p)
      OBVIOUS
    <3>1. ~r.missed /\ (s \in S => entry[s] = "enabled")
      BY <1>2, <1>5
    <3>2. OnePublish(r, entry, publish) /\ (entry'[s] = "enabled" => entry[s] = "enabled")
      BY <2>1, <2>2, <3>1
    <3>3. CASE p[s] = publish[s]
      BY <1>2, <1>3, <3>2, <3>3 DEF OnePublish
    <3>4. CASE publish[s].state = "idle" /\ s \in S
      <4>1. Numbers(q) = {}
        BY <1>3, <3>1, <3>2, <3>4 DEF OnePublish
      <4> QED BY <4>1 DEF OnePublish
    <3> QED BY <1>1, <3>3, <3>4
  <2> QED BY <1>2, <1>3, <1>5, <2>1, <2>2, <2>3 DEF ServedIn
<1> QED BY <1>4, <1>5

(* And when they are unmounted, and a publish ends in some of them.           *)
LEMMA UnmountServes ==
    ASSUME HttpTypeOK, NEW S \in SUBSET Streams, HttpUnmount(S),
           NEW p, \A s \in Streams : p[s] = publish[s] \/ (p[s].state = "idle" /\ s \in S),
           NEW r \in Responses, ServedIn(r, entry, publish)
    PROVE  ServedIn(r, entry', p)
<1> DEFINE s == r.stream
<1>1. s \in Streams
  BY DEF Responses
<1>2. entry' = [t \in Streams |-> IF t \in S /\ Mounted(t) THEN "disabled" ELSE entry[t]]
  BY DEF HttpUnmount
<1>3. CASE r.at \notin InLoop
  BY <1>3 DEF ServedIn
<1>4. CASE r.at \in InLoop
  <2>1. /\ entry[s] \in {"disabled", "enabled"}
        /\ r.missed \/ OnePublish(r, entry, publish)
        /\ Announced(r)
    BY <1>4 DEF ServedIn
  <2>2. /\ entry'[s] \in {"disabled", "enabled"}
        /\ s \in S => entry'[s] = "disabled"
        /\ entry'[s] = "enabled" => entry[s] = "enabled"
    BY <1>1, <1>2, <2>1 DEF Mounted
  <2>3. ASSUME OnePublish(r, entry, publish) PROVE OnePublish(r, entry', p)
    <3>1. CASE p[s] = publish[s]
      BY <2>2, <2>3, <3>1 DEF OnePublish
    <3>2. CASE p[s].state = "idle" /\ s \in S
      <4>1. \A m, n \in Numbers(r) : m = n
        BY <2>3 DEF OnePublish
      <4> QED BY <2>2, <3>2, <4>1 DEF OnePublish
    <3> QED BY <1>1, <3>1, <3>2
  <2> QED BY <1>4, <2>1, <2>2, <2>3 DEF ServedIn
<1> QED BY <1>3, <1>4

(* One turn of the loop.                                                      *)
LEMMA LookServes ==
    ASSUME HttpTypeOK, NEW r \in Responses,
           r.missed \/ OnePublish(r, entry, publish), Announced(r)
    PROVE  /\ Look(r) \in Responses /\ ServedIn(Look(r), entry, publish)
           /\ Look(r).at # "refused"
<1>0. AnyStream \in Streams
  BY HttpStreamAssumption DEF AnyStream
<1> DEFINE late == [r EXCEPT !.at = "sleep", !.queue = {}]
           w == [Written(r) EXCEPT !.at = "send", !.queue = {},
                        !.of = @ \cup {m.number : m \in r.queue}]
<1>1. CASE entry[r.stream] # "enabled" \/ r.closed
  <2>1. Look(r) = Stops(r)
    BY <1>1 DEF Look
  <2>2. Stops(r) \in Responses /\ Stops(r).at = "stop" /\ Stops(r).of = {} /\ ~Stops(r).header
    BY <1>0 DEF Stops, Away, Responses, Places
  <2> QED BY <2>1, <2>2 DEF ServedIn, InLoop
<1>2. CASE entry[r.stream] = "enabled" /\ ~r.closed /\ (r.queue = {} \/ IsDropped(r))
  <2>1. Look(r) = late
    BY <1>2 DEF Look
  <2>2. /\ late \in Responses /\ late.at = "sleep" /\ late.queue = {} /\ late.stream = r.stream
        /\ late.header = r.header /\ late.untold = r.untold /\ late.of = r.of
        /\ late.missed = r.missed
    BY DEF Responses, Places, InLoop
  <2> HIDE DEF late
  <2>3. Numbers(late) \subseteq Numbers(r)
    BY <2>2 DEF Numbers
  <2>4. OnePublish(r, entry, publish) => OnePublish(late, entry, publish)
    BY <2>2, <2>3 DEF OnePublish
  <2>5. Announced(late)
    <3>1. CASE r.header
      BY <2>2, <3>1 DEF Announced
    <3>2. CASE ~r.header
      <4>1. r.untold \subseteq KindsOf(r.queue) /\ r.untold \subseteq AV
        BY <3>2 DEF Announced, Responses
      <4>2. KindsOf(r.queue) \cap AV = {}
        BY <1>2 DEF IsDropped, KindsOf
      <4>3. r.untold = {}
        BY <4>1, <4>2
      <4> QED BY <2>2, <4>3 DEF Announced
    <3> QED BY <3>1, <3>2
  <2> QED BY <1>2, <2>1, <2>2, <2>4, <2>5 DEF ServedIn, InLoop
<1>3. CASE entry[r.stream] = "enabled" /\ ~r.closed /\ ~(r.queue = {} \/ IsDropped(r))
  <2>1. Look(r) = w
    BY <1>3 DEF Look
  <2>2. /\ Written(r) \in Responses /\ Written(r).header /\ Written(r).stream = r.stream
        /\ Written(r).missed = r.missed /\ Written(r).of = r.of
        /\ Written(r).untold = {}
    <3>1. CASE r.header
      BY <3>1 DEF Written, Announced
    <3>2. CASE ~r.header
      <4>1. Written(r) = [r EXCEPT !.header = TRUE, !.untold = @ \ KindsOf(r.queue)]
        BY <3>2 DEF Written
      <4>2. r.untold \ KindsOf(r.queue) = {}
        BY <3>2 DEF Announced
      <4> QED BY <4>1, <4>2 DEF Responses
    <3> QED BY <3>1, <3>2
  <2>3. Numbers(r) \subseteq Nat
    BY DEF Numbers, Responses, Messages
  <2>4. /\ w \in Responses /\ w.at = "send" /\ w.queue = {} /\ w.stream = r.stream
        /\ w.header /\ w.untold = {} /\ w.of = Numbers(r) /\ w.missed = r.missed
    BY <2>2, <2>3 DEF Responses, Places, InLoop, Numbers
  <2> HIDE DEF w
  <2>5. Numbers(w) = Numbers(r)
    BY <2>4 DEF Numbers
  <2>6. OnePublish(r, entry, publish) => OnePublish(w, entry, publish)
    BY <2>4, <2>5 DEF OnePublish
  <2>7. Announced(w)
    BY <2>4 DEF Announced
  <2> QED BY <1>3, <2>1, <2>4, <2>6, <2>7 DEF ServedIn, InLoop
<1> QED BY <1>1, <1>2, <1>3
-----------------------------------------------------------------------------
(* What RequestIsServed asks of a step.                                       *)
Served ==
    /\ remux /\ told /\ ~SharesPath =>
          \A c \in Clients : client[c].at = "away" => client'[c].at # "refused"
    /\ ub' # "none" => SharesPath

(* A step of one client.                                                      *)
LEMMA OneResponse ==
    ASSUME HttpInv, NEW c \in Clients, NEW x \in Responses, ServedIn(x, entry, publish),
           client' = [client EXCEPT ![c] = x],
           UNCHANGED <<mount, configVars, streamVars, entry>>
    PROVE  /\ HttpInv'
           /\ client'[c] = x /\ \A d \in Clients \ {c} : client'[d] = client[d]
<1>1. /\ client \in [Clients -> Responses]
      /\ UNCHANGED <<mount, remux, template, told, publish, publishes, entry>>
  BY DEF HttpInv, HttpTypeOK, configVars, streamVars
<1>2. /\ client' \in [Clients -> Responses]
      /\ client'[c] = x /\ \A d \in Clients \ {c} : client'[d] = client[d]
  BY <1>1
<1>3. HttpTypeOK' /\ EntryInv'
  BY <1>1, <1>2 DEF HttpInv, HttpTypeOK, EntryInv, SharesPath
<1>4. ServedInv'
  BY <1>1, <1>2 DEF HttpInv, ServedInv
<1> QED BY <1>2, <1>3, <1>4 DEF HttpInv

(* Streams are mounted.                                                       *)
LEMMA MountStep ==
    ASSUME HttpInv, NEW S \in SUBSET Streams, HttpMount(S),
           NEW p \in [Streams -> Publishes],
           \A s \in Streams : p[s] = publish[s] \/ (publish[s].state = "idle" /\ s \in S)
    PROVE  /\ entry' \in [Streams -> Entries]
           /\ ~SharesPath => ub' = ub /\ \A s \in Streams : entry'[s] # "unregistered"
           /\ Unseen(S) \in [Clients -> Responses]
           /\ \A c \in Clients : ServedIn(Unseen(S)[c], entry', p) /\ Unseen(S)[c].at = client[c].at
<1>1. HttpTypeOK /\ EntryInv /\ ServedInv /\ client \in [Clients -> Responses]
      /\ entry \in [Streams -> Entries]
  BY DEF HttpInv, HttpTypeOK
<1>2. entry' \in [Streams -> Entries]
  BY <1>1, MountMounts
<1>3. ASSUME ~SharesPath PROVE ub' = ub /\ \A s \in Streams : entry'[s] # "unregistered"
  <2>1. \A s \in Streams : entry[s] # "unregistered"
    BY <1>1, <1>3 DEF EntryInv
  <2>2. ub' = ub
    BY <1>1, <2>1, MountMounts
  <2>3. ASSUME NEW s \in Streams PROVE entry'[s] # "unregistered"
    <3>1. CASE s \notin S
      <4>1. entry'[s] = entry[s]
        BY <1>1, <3>1, MountMounts
      <4> QED BY <2>1, <4>1
    <3>2. CASE s \in S /\ Mounted(s)
      <4>1. entry'[s] = "enabled"
        BY <1>1, <3>2, MountMounts
      <4> QED BY <4>1
    <3>3. CASE s \in S /\ ~Mounted(s)
      <4>1. entry[s] = "none"
        BY <1>1, <2>1, <3>3 DEF Mounted, Entries
      <4>2. IF ~template THEN entry'[s] = "none"
            ELSE entry'[s] = "enabled" \/ (SharesPath /\ entry'[s] = "unregistered")
        BY <1>1, <3>3, <4>1, MountMounts
      <4> QED BY <1>3, <4>2
    <3> QED BY <3>1, <3>2, <3>3
  <2> QED BY <2>2, <2>3
<1>4. ASSUME NEW c \in Clients
      PROVE  /\ Unseen(S)[c] \in Responses
             /\ ServedIn(Unseen(S)[c], entry', p) /\ Unseen(S)[c].at = client[c].at
  <2>1. client[c] \in Responses /\ ServedIn(client[c], entry, publish)
    BY <1>1 DEF ServedInv
  <2>2. ServedIn(Marked(client[c], S), entry', p)
    BY <1>1, <2>1, MountServes
  <2>3. Unseen(S)[c] = Marked(client[c], S)
    BY <1>1, UnseenMarks
  <2>4. Marked(client[c], S) \in Responses /\ Marked(client[c], S).at = client[c].at
    BY <2>1, MarkedKeeps
  <2> QED BY <2>2, <2>3, <2>4
<1>5. Unseen(S) = [c \in Clients |-> Unseen(S)[c]]
  BY DEF Unseen
<1>6. Unseen(S) \in [Clients -> Responses]
  <2> DEFINE u == Unseen(S)
  <2>1. u = [c \in Clients |-> u[c]] /\ \A c \in Clients : u[c] \in Responses
    BY <1>4, <1>5
  <2> HIDE DEF u
  <2>2. u \in [Clients -> Responses]
    BY <2>1
  <2> QED BY <2>2 DEF u
<1> QED BY <1>2, <1>3, <1>4, <1>6

(* A step in which every client only sees what is mounted.                    *)
LEMMA MountedInv ==
    ASSUME HttpInv, Running, NEW S \in SUBSET Streams, HttpMount(S), client' = Unseen(S),
           publish' \in [Streams -> Publishes], publishes' \in Nat,
           \A s \in Streams : publish'[s] = publish[s] \/ (publish[s].state = "idle" /\ s \in S),
           mount' = mount, remux' \in BOOLEAN, template' \in BOOLEAN, told' \in BOOLEAN,
           remux' /\ told' => template'
    PROVE  HttpInv' /\ Served
<1>1. /\ entry' \in [Streams -> Entries]
      /\ ~SharesPath => ub' = ub /\ \A s \in Streams : entry'[s] # "unregistered"
      /\ client' \in [Clients -> Responses]
      /\ \A c \in Clients : ServedIn(client'[c], entry', publish') /\ client'[c].at = client[c].at
  BY MountStep
<1>2. SharesPath' <=> SharesPath
  BY DEF SharesPath
<1>3. HttpTypeOK'
  BY <1>1 DEF HttpInv, HttpTypeOK
<1>4. EntryInv'
  BY <1>1, <1>2 DEF EntryInv
<1>5. ServedInv'
  BY <1>1 DEF ServedInv
<1>6. Served
  BY <1>1 DEF Served, Running
<1> QED BY <1>3, <1>4, <1>5, <1>6 DEF HttpInv

(* A step in which streams are unmounted.                                     *)
LEMMA UnmountedInv ==
    ASSUME HttpInv, Running, NEW S \in SUBSET Streams, HttpUnmount(S), client' = client,
           publish' \in [Streams -> Publishes],
           \A s \in Streams : publish'[s] = publish[s] \/ (publish'[s].state = "idle" /\ s \in S),
           mount' = mount, publishes' = publishes,
           remux' \in BOOLEAN, template' \in BOOLEAN, told' \in BOOLEAN,
           remux' /\ told' => template'
    PROVE  HttpInv' /\ Served
<1>1. HttpTypeOK /\ EntryInv /\ ServedInv
  BY DEF HttpInv
<1>2. /\ entry' = [s \in Streams |-> IF s \in S /\ Mounted(s) THEN "disabled" ELSE entry[s]]
      /\ ub' = IF \E s \in S : entry[s] = "unregistered" THEN "null_entry" ELSE ub
      /\ entry \in [Streams -> Entries]
  BY <1>1 DEF HttpUnmount, NullEntry, HttpTypeOK
<1>3. /\ entry' \in [Streams -> Entries]
      /\ \A s \in Streams : entry'[s] = "unregistered" => entry[s] = "unregistered"
  BY <1>2 DEF Entries
<1>4. SharesPath' <=> SharesPath
  BY DEF SharesPath
<1>5. HttpTypeOK' /\ EntryInv'
  BY <1>1, <1>3, <1>4 DEF HttpTypeOK, EntryInv
<1>6. ServedInv'
  <2> SUFFICES ASSUME NEW c \in Clients PROVE ServedIn(client[c], entry', publish')
    BY DEF ServedInv
  <2>1. client[c] \in Responses /\ ServedIn(client[c], entry, publish)
    BY <1>1 DEF ServedInv, HttpTypeOK
  <2> QED BY <1>1, <2>1, UnmountServes
<1>7. Served
  BY <1>1, <1>2 DEF Served, Running, EntryInv
<1> QED BY <1>5, <1>6, <1>7 DEF HttpInv

(* A publish that goes on, or has not begun, is the same for a response.      *)
LEMMA SamePublish ==
    ASSUME NEW r, NEW p, p[r.stream].number = publish[r.stream].number,
           p[r.stream].state = "idle" <=> publish[r.stream].state = "idle",
           ServedIn(r, entry, publish)
    PROVE  ServedIn(r, entry, p)
BY DEF ServedIn, OnePublish

LEMMA MessageStep ==
    ASSUME HttpInv, NEW s \in Streams, NEW kind \in Kinds, OnMessage(s, kind)
    PROVE  HttpInv' /\ Served
<1>1. HttpTypeOK /\ EntryInv /\ ServedInv
  BY DEF HttpInv
<1> DEFINE m == [number |-> publish[s].number, kind |-> kind]
<1>2. /\ publish[s].state = "publishing"
      /\ publish' = [publish EXCEPT ![s].known = @ \cup {kind}]
      /\ client' = [c \in Clients |->
            IF Serving(c) /\ client[c].stream = s
            THEN [client[c] EXCEPT !.queue = @ \cup {m}]
            ELSE client[c]]
      /\ ub = "none"
      /\ UNCHANGED <<mount, remux, template, told, publishes, entry, ub>>
  BY DEF OnMessage, configVars, Running
<1>3. /\ publish \in [Streams -> Publishes] /\ client \in [Clients -> Responses]
      /\ m \in Messages
  BY <1>1 DEF HttpTypeOK, Publishes, Messages
<1> HIDE DEF m
<1>4. /\ publish' \in [Streams -> Publishes]
      /\ \A t \in Streams : /\ publish'[t].number = publish[t].number
                            /\ publish'[t].state = publish[t].state
  BY <1>2, <1>3 DEF Publishes
<1>5. ASSUME NEW c \in Clients
      PROVE  /\ client'[c] \in Responses /\ client'[c].at = client[c].at
             /\ ServedIn(client'[c], entry, publish')
  <2> DEFINE r == client[c]
             q == [r EXCEPT !.queue = @ \cup {m}]
  <2>1. r \in Responses /\ ServedIn(r, entry, publish) /\ r.stream \in Streams
    BY <1>1, <1>3 DEF ServedInv, Responses
  <2>2. ServedIn(r, entry, publish')
    BY <1>4, <2>1, SamePublish
  <2>3. CASE ~(Serving(c) /\ r.stream = s)
    BY <1>2, <2>1, <2>2, <2>3
  <2>4. CASE Serving(c) /\ r.stream = s
    <3>1. client'[c] = q
      BY <1>2, <2>4
    <3>2. /\ q \in Responses /\ q.at = r.at /\ q.stream = s /\ q.queue = r.queue \cup {m}
          /\ q.header = r.header /\ q.untold = r.untold /\ q.of = r.of /\ q.missed = r.missed
      BY <1>3, <2>1, <2>4 DEF Responses
    <3> HIDE DEF q, r
    <3>3. r.at \in InLoop /\ r.stream = s
      BY <2>4 DEF Serving, InLoop, r
    <3>4. /\ entry[s] \in {"disabled", "enabled"}
          /\ r.missed \/ OnePublish(r, entry, publish')
          /\ Announced(r)
      BY <2>2, <3>3 DEF ServedIn
    <3>5. ASSUME OnePublish(r, entry, publish') PROVE OnePublish(q, entry, publish')
      <4>1. publish'[s].state # "idle" /\ m.number = publish'[s].number
        BY <1>2, <1>4 DEF m
      <4>2. Numbers(r) \subseteq {publish'[s].number}
        BY <3>3, <3>5, <4>1 DEF OnePublish
      <4>3. Numbers(q) = Numbers(r) \cup {m.number}
        BY <3>2 DEF Numbers
      <4> QED BY <3>2, <4>1, <4>2, <4>3 DEF OnePublish
    <3>6. Announced(q)
      BY <3>2, <3>4 DEF Announced, KindsOf
    <3> QED BY <3>1, <3>2, <3>3, <3>4, <3>5, <3>6 DEF ServedIn, r
  <2> QED BY <2>3, <2>4
<1>6. client' \in [Clients -> Responses]
  <2>1. client' = [c \in Clients |-> client'[c]]
    BY <1>2
  <2> QED BY <1>5, <2>1
<1>7. HttpTypeOK' /\ EntryInv'
  BY <1>1, <1>2, <1>4, <1>6 DEF HttpTypeOK, EntryInv, SharesPath
<1>8. ServedInv'
  BY <1>2, <1>5 DEF ServedInv
<1>9. Served
  BY <1>2, <1>5 DEF Served
<1> QED BY <1>7, <1>8, <1>9 DEF HttpInv

LEMMA HubStep ==
    ASSUME HttpInv, NEW s \in Streams, HubStops(s)
    PROVE  HttpInv' /\ Served
<1>1. HttpTypeOK /\ EntryInv /\ ServedInv
  BY DEF HttpInv
<1>2. /\ publish[s].state \in {"publishing", "failed"}
      /\ publish' = [publish EXCEPT ![s] = [@ EXCEPT !.state = "closing", !.known = {}]]
      /\ ub = "none"
      /\ UNCHANGED <<mount, remux, template, told, publishes, entry, client, ub>>
  BY DEF HubStops, configVars, Running
<1>3. /\ publish' \in [Streams -> Publishes]
      /\ \A t \in Streams : /\ publish'[t].number = publish[t].number
                            /\ publish'[t].state = "idle" <=> publish[t].state = "idle"
  BY <1>1, <1>2 DEF HttpTypeOK, Publishes
<1>4. HttpTypeOK' /\ EntryInv'
  BY <1>1, <1>2, <1>3 DEF HttpTypeOK, EntryInv, SharesPath
<1>5. ServedInv'
  <2> SUFFICES ASSUME NEW c \in Clients PROVE ServedIn(client[c], entry, publish')
    BY <1>2 DEF ServedInv
  <2>1. ServedIn(client[c], entry, publish) /\ client[c].stream \in Streams
    BY <1>1 DEF ServedInv, HttpTypeOK, Responses
  <2> QED BY <1>3, <2>1, SamePublish
<1>6. Served
  BY <1>2 DEF Served
<1> QED BY <1>4, <1>5, <1>6 DEF HttpInv

LEMMA PublishStep ==
    ASSUME HttpInv, NEW s \in Streams, OnPublish(s)
    PROVE  HttpInv' /\ Served
<1> DEFINE new == [state |-> IF entry'[s] = "unregistered" THEN "failed" ELSE "publishing",
                   number |-> publishes', known |-> {}]
<1>1. /\ publish[s].state = "idle" /\ publishes' = publishes + 1
      /\ HttpMount({s}) /\ publish' = [publish EXCEPT ![s] = new] /\ client' = Unseen({s})
      /\ Running /\ UNCHANGED <<mount, remux, template, told>>
  BY DEF OnPublish, configVars
<1>2. /\ publish \in [Streams -> Publishes] /\ publishes \in Nat
      /\ remux \in BOOLEAN /\ template \in BOOLEAN /\ told \in BOOLEAN
      /\ remux /\ told => template
  BY DEF HttpInv, HttpTypeOK, EntryInv
<1>3. new \in Publishes
  BY <1>1, <1>2 DEF Publishes
<1> HIDE DEF new
<1>4. /\ publish' \in [Streams -> Publishes] /\ publishes' \in Nat
      /\ \A t \in Streams : publish'[t] = publish[t] \/ (publish[t].state = "idle" /\ t \in {s})
  BY <1>1, <1>2, <1>3
<1>5. {s} \in SUBSET Streams /\ remux' \in BOOLEAN /\ template' \in BOOLEAN /\ told' \in BOOLEAN
      /\ (remux' /\ told' => template') /\ mount' = mount
  BY <1>1, <1>2
<1> QED BY <1>1, <1>4, <1>5, MountedInv

LEMMA UnpublishStep ==
    ASSUME HttpInv, NEW s \in Streams, OnUnpublish(s)
    PROVE  HttpInv' /\ Served
<1>1. /\ publish' = [publish EXCEPT ![s] = Idle] /\ HttpUnmount({s})
      /\ Running /\ UNCHANGED <<mount, remux, template, told, publishes, client>>
  BY DEF OnUnpublish, configVars
<1>2. /\ publish \in [Streams -> Publishes]
      /\ remux \in BOOLEAN /\ template \in BOOLEAN /\ told \in BOOLEAN
      /\ remux /\ told => template
  BY DEF HttpInv, HttpTypeOK, EntryInv
<1>3. Idle \in Publishes /\ Idle.state = "idle"
  BY DEF Idle, Publishes
<1>4. /\ publish' \in [Streams -> Publishes]
      /\ \A t \in Streams : publish'[t] = publish[t] \/ (publish'[t].state = "idle" /\ t \in {s})
  BY <1>1, <1>2, <1>3
<1>5. {s} \in SUBSET Streams /\ remux' \in BOOLEAN /\ template' \in BOOLEAN /\ told' \in BOOLEAN
      /\ (remux' /\ told' => template') /\ mount' = mount /\ client' = client /\ publishes' = publishes
  BY <1>1, <1>2
<1> QED BY <1>1, <1>4, <1>5, UnmountedInv

LEMMA ReloadStep ==
    ASSUME HttpInv, Reload \/ OnReload
    PROVE  HttpInv' /\ Served
<1>1. /\ HttpTypeOK /\ EntryInv /\ ServedInv
      /\ publish \in [Streams -> Publishes] /\ publishes \in Nat
      /\ remux \in BOOLEAN /\ template \in BOOLEAN
  BY DEF HttpInv, HttpTypeOK
<1>2. CASE Reload
  <2>1. /\ remux' = ~remux /\ told' = FALSE /\ ub = "none"
        /\ UNCHANGED <<mount, template, publish, publishes, entry, client, ub>>
    BY <1>2 DEF Reload, streamVars, Running
  <2>2. HttpTypeOK' /\ EntryInv' /\ ServedInv'
    BY <1>1, <2>1 DEF HttpTypeOK, EntryInv, ServedInv, SharesPath
  <2> QED BY <2>1, <2>2 DEF HttpInv, Served
<1>3. CASE OnReload
  <2> DEFINE known == {s \in Streams : template /\ entry[s] # "none"}
  <2>1. /\ told' = TRUE /\ template' = (template \/ remux) /\ Running
        /\ UNCHANGED <<mount, remux, publish, publishes>>
        /\ IF remux THEN HttpMount(known) /\ client' = Unseen(known)
                    ELSE HttpUnmount(known) /\ client' = client
    BY <1>3 DEF OnReload, streamVars
  <2>2. known \in SUBSET Streams
    OBVIOUS
  <2> HIDE DEF known
  <2>3. /\ publish' \in [Streams -> Publishes] /\ publishes' \in Nat
        /\ \A s \in Streams : publish'[s] = publish[s]
        /\ mount' = mount /\ publishes' = publishes
        /\ remux' \in BOOLEAN /\ template' \in BOOLEAN /\ told' \in BOOLEAN
        /\ remux' /\ told' => template'
    BY <1>1, <2>1
  <2>4. CASE remux
    BY <2>1, <2>2, <2>3, <2>4, MountedInv
  <2>5. CASE ~remux
    BY <2>1, <2>2, <2>3, <2>5, UnmountedInv
  <2> QED BY <2>4, <2>5
<1> QED BY <1>2, <1>3

(* What a client begins with when it is served, and when it is not.            *)
Begin(s) == [Away EXCEPT !.at = "hook", !.stream = s]

LEMMA BeginServes ==
    ASSUME NEW s \in Streams, NEW e, NEW p
    PROVE  /\ Begin(s) \in Responses /\ Begin(s).at = "hook"
           /\ ServedIn(Begin(s), e, p)
BY DEF Begin, Away, Responses, Places, ServedIn, InLoop

No == [Away EXCEPT !.at = "refused"]

LEMMA NobodyServed ==
    ASSUME NEW e, NEW p
    PROVE  /\ AnyStream \in Streams
           /\ No \in Responses /\ No.at = "refused" /\ ServedIn(No, e, p)
           /\ Away \in Responses /\ Away.at = "away" /\ ServedIn(Away, e, p)
<1>1. AnyStream \in Streams
  BY HttpStreamAssumption DEF AnyStream
<1>2. No \in Responses /\ No.at = "refused" /\ No.of = {} /\ ~No.header
  BY <1>1 DEF No, Away, Responses, Places
<1>3. Away \in Responses /\ Away.at = "away" /\ Away.of = {} /\ ~Away.header
  BY <1>1 DEF Away, Responses, Places
<1> QED BY <1>1, <1>2, <1>3 DEF ServedIn, InLoop

LEMMA RequestStep ==
    ASSUME HttpInv, NEW c \in Clients, NEW path \in Streams, Request(c, path)
    PROVE  HttpInv' /\ Served
<1>1. /\ HttpTypeOK /\ EntryInv /\ ServedInv
      /\ client \in [Clients -> Responses] /\ entry \in [Streams -> Entries]
      /\ publish \in [Streams -> Publishes] /\ mount \in [Streams -> Streams]
  BY DEF HttpInv, HttpTypeOK
<1>2. /\ client[c].at = "away" /\ ub = "none"
      /\ UNCHANGED <<mount, remux, template, told, reloads, publish, publishes>>
  BY DEF Request, configVars, streamVars, Running
<1>3. ASSUME NEW s \in Streams, NEW e \in [Streams -> Entries],
             ~SharesPath => \A t \in Streams : e[t] # "unregistered",
             Unseen({s}) \in [Clients -> Responses],
             \A d \in Clients : /\ ServedIn(Unseen({s})[d], e, publish)
                                /\ Unseen({s})[d].at = client[d].at,
             IsServed(c, s), entry' = e, ~SharesPath => ub' = ub
      PROVE  HttpInv' /\ Served
  <2>1. client' = [Unseen({s}) EXCEPT ![c] = Begin(s)]
    BY <1>3 DEF IsServed, Begin
  <2>2. /\ Begin(s) \in Responses /\ Begin(s).at = "hook"
        /\ ServedIn(Begin(s), e, publish)
    BY BeginServes
  <2>3. /\ client' \in [Clients -> Responses]
        /\ \A d \in Clients : /\ ServedIn(client'[d], e, publish)
                              /\ client'[d].at = client[d].at \/ client'[d].at = "hook"
    BY <1>3, <2>1, <2>2
  <2>4. HttpTypeOK' /\ EntryInv' /\ ServedInv'
    BY <1>1, <1>2, <1>3, <2>3 DEF HttpTypeOK, EntryInv, ServedInv, SharesPath
  <2>5. Served
    BY <1>2, <1>3, <2>3 DEF Served
  <2> QED BY <2>4, <2>5 DEF HttpInv
<1>4. CASE \E s \in Streams : Matches(s, path) /\ IsServed(c, s) /\ UNCHANGED <<entry, ub>>
  <2>1. PICK s \in Streams : Matches(s, path) /\ IsServed(c, s) /\ UNCHANGED <<entry, ub>>
    BY <1>4
  <2>2. ASSUME NEW d \in Clients
        PROVE  /\ Unseen({s})[d] \in Responses
               /\ ServedIn(Unseen({s})[d], entry, publish)
               /\ Unseen({s})[d].at = client[d].at
    <3> DEFINE r == client[d]
               q == Marked(r, {s})
    <3>1. r \in Responses /\ ServedIn(r, entry, publish) /\ Unseen({s})[d] = q
      BY <1>1, UnseenMarks DEF ServedInv
    <3>2. /\ q \in Responses /\ (r.missed => q.missed)
          /\ q.at = r.at /\ q.stream = r.stream /\ q.queue = r.queue
          /\ q.header = r.header /\ q.untold = r.untold /\ q.of = r.of
      BY <3>1, MarkedKeeps
    <3> HIDE DEF r, q
    <3>3. Numbers(q) = Numbers(r) /\ (Announced(q) <=> Announced(r))
      BY <3>2 DEF Numbers, Announced
    <3>4. OnePublish(r, entry, publish) => OnePublish(q, entry, publish)
      BY <3>2, <3>3 DEF OnePublish
    <3>5. ServedIn(q, entry, publish)
      BY <3>1, <3>2, <3>3, <3>4 DEF ServedIn
    <3> QED BY <3>1, <3>2, <3>5 DEF r
  <2>3. Unseen({s}) \in [Clients -> Responses]
    <3> DEFINE u == Unseen({s})
    <3>1. u = [d \in Clients |-> u[d]]
      BY DEF Unseen
    <3>2. \A d \in Clients : u[d] \in Responses
      BY <2>2
    <3> HIDE DEF u
    <3>3. u \in [Clients -> Responses]
      BY <3>1, <3>2
    <3> QED BY <3>3 DEF u
  <2>4. /\ entry' = entry /\ ub' = ub /\ IsServed(c, s)
        /\ ~SharesPath => \A t \in Streams : entry[t] # "unregistered"
    BY <1>1, <2>1 DEF EntryInv
  <2> QED BY <1>1, <1>3, <2>2, <2>3, <2>4
<1>5. CASE Refuses(path) /\ IsRefused(c) /\ UNCHANGED <<entry, ub>>
  <2>1. client' = [client EXCEPT ![c] = No]
    BY <1>5, NobodyServed DEF IsRefused, No
  <2>2. HttpInv'
    <3>1. /\ No \in Responses
          /\ ServedIn(No, entry, publish)
      BY NobodyServed
    <3> QED BY <1>2, <1>5, <2>1, <3>1, OneResponse DEF configVars, streamVars
  <2>3. ~(remux /\ told)
    BY <1>1, <1>5 DEF Refuses, EntryInv
  <2> QED BY <1>2, <1>5, <2>2, <2>3 DEF Served
<1>6. CASE HttpMount({path}) /\ entry'[path] = "enabled" /\ IsServed(c, path)
  <2>1. {path} \in SUBSET Streams
    OBVIOUS
  <2>2. /\ entry' \in [Streams -> Entries]
        /\ ~SharesPath => ub' = ub /\ \A s \in Streams : entry'[s] # "unregistered"
        /\ Unseen({path}) \in [Clients -> Responses]
        /\ \A d \in Clients : /\ ServedIn(Unseen({path})[d], entry', publish)
                              /\ Unseen({path})[d].at = client[d].at
    BY <1>1, <1>6, <2>1, MountStep
  <2>3. /\ client' = [Unseen({path}) EXCEPT ![c] = Begin(path)]
        /\ Begin(path) \in Responses /\ Begin(path).at = "hook"
        /\ ServedIn(Begin(path), entry', publish)
    BY <1>6, BeginServes DEF IsServed, Begin
  <2>4. /\ client' \in [Clients -> Responses]
        /\ \A d \in Clients : /\ ServedIn(client'[d], entry', publish)
                              /\ client'[d].at = client[d].at \/ client'[d].at = "hook"
    BY <2>2, <2>3
  <2>5. HttpTypeOK' /\ EntryInv' /\ ServedInv'
    BY <1>1, <1>2, <2>2, <2>4 DEF HttpTypeOK, EntryInv, ServedInv, SharesPath
  <2>6. Served
    BY <1>2, <2>2, <2>4 DEF Served
  <2> QED BY <2>5, <2>6 DEF HttpInv
<1>7. CASE ~Refuses(path) /\ HttpMount({path}) /\ entry'[path] # "enabled" /\ IsRefused(c)
  <2>1. {path} \in SUBSET Streams
    OBVIOUS
  <2>2. /\ entry' \in [Streams -> Entries]
        /\ ~SharesPath => ub' = ub /\ \A s \in Streams : entry'[s] # "unregistered"
    BY <1>1, <1>7, <2>1, MountStep
  <2>3. /\ \A s \in Streams \ {path} : entry'[s] = entry[s]
        /\ Mounted(path) => entry'[path] = "enabled"
        /\ entry[path] = "none" =>
              IF ~template THEN entry'[path] = "none"
              ELSE entry'[path] = "enabled" \/ (SharesPath /\ entry'[path] = "unregistered")
    BY <1>1, <1>7, <2>1, MountMounts
  <2>4. client' = [client EXCEPT ![c] = No]
    BY <1>7, NobodyServed DEF IsRefused, No
  <2>5. /\ No \in Responses
        /\ ServedIn(No, entry', publish)
    BY NobodyServed
  <2>6. ASSUME NEW d \in Clients PROVE ServedIn(client[d], entry', publish)
    <3>1. client[d] \in Responses /\ ServedIn(client[d], entry, publish)
      BY <1>1 DEF ServedInv
    <3>2. CASE client[d].at \in InLoop
      <4>1. entry[client[d].stream] \in {"disabled", "enabled"} /\ client[d].stream \in Streams
        BY <3>1, <3>2 DEF ServedIn, Responses
      <4>2. client[d].stream # path
        BY <1>7, <2>3, <4>1 DEF Mounted
      <4>3. entry'[client[d].stream] = entry[client[d].stream]
        BY <2>3, <4>1, <4>2
      <4> QED BY <3>1, <4>3 DEF ServedIn, OnePublish
    <3>3. CASE client[d].at \notin InLoop
      BY <3>1, <3>3 DEF ServedIn
    <3> QED BY <3>2, <3>3
  <2>7. /\ client' \in [Clients -> Responses]
        /\ \A d \in Clients : ServedIn(client'[d], entry', publish)
    BY <1>1, <2>4, <2>5, <2>6
  <2>8. HttpTypeOK' /\ EntryInv' /\ ServedInv'
    BY <1>1, <1>2, <2>2, <2>7 DEF HttpTypeOK, EntryInv, ServedInv, SharesPath
  <2>9. ~(remux /\ told /\ ~SharesPath)
    <3> SUFFICES ASSUME remux, told, ~SharesPath PROVE FALSE
      OBVIOUS
    <3>1. template /\ entry[path] # "unregistered"
      BY <1>1 DEF EntryInv
    <3>2. entry[path] = "none"
      BY <1>1, <1>7, <2>3, <3>1 DEF Mounted, Entries
    <3> QED BY <1>7, <2>3, <3>1, <3>2
  <2>10. Served
    BY <1>2, <2>2, <2>9 DEF Served
  <2> QED BY <2>8, <2>10 DEF HttpInv
<1> QED BY <1>4, <1>5, <1>6, <1>7 DEF Request

LEMMA OthersStep ==
    ASSUME HttpInv, NEW path \in Streams, OthersRequest(path)
    PROVE  HttpInv' /\ Served
<1>1. /\ Running /\ HttpMount({path}) /\ client' = Unseen({path})
      /\ UNCHANGED <<mount, remux, template, told, publish, publishes>>
  BY DEF OthersRequest, configVars, streamVars
<1>2. /\ publish' \in [Streams -> Publishes] /\ publishes' \in Nat
      /\ remux' \in BOOLEAN /\ template' \in BOOLEAN /\ told' \in BOOLEAN
      /\ remux' /\ told' => template'
  BY <1>1 DEF HttpInv, HttpTypeOK, EntryInv
<1>3. {path} \in SUBSET Streams /\ \A s \in Streams : publish'[s] = publish[s]
  BY <1>1
<1> QED BY <1>1, <1>2, <1>3, MountedInv

(* A turn of one client's coroutine, or of its receive thread.                *)
LEMMA TurnStep ==
    ASSUME HttpInv, NEW c \in Clients, NEW from, NEW x \in Responses,
           ServedIn(x, entry, publish), x.at # "refused", Turn(c, from, x)
    PROVE  HttpInv' /\ Served
<1>1. /\ client' = [client EXCEPT ![c] = x] /\ ub = "none" /\ ub' = ub
      /\ UNCHANGED <<mount, configVars, streamVars, entry>>
  BY DEF Turn, Running
<1>2. HttpInv' /\ client'[c] = x /\ \A d \in Clients \ {c} : client'[d] = client[d]
  BY <1>1, OneResponse
<1> QED BY <1>1, <1>2 DEF Served

LEMMA LoopStep ==
    ASSUME HttpInv, NEW c \in Clients,
           \/ DoServe(c) \/ HookFails(c) \/ Wakes(c) \/ Sent(c) \/ SentAtLast(c)
           \/ SendFails(c) \/ Stalls(c) \/ Closes(c) \/ Stopped(c)
    PROVE  HttpInv' /\ Served
<1> DEFINE r == client[c]
<1>1. /\ HttpTypeOK /\ r \in Responses /\ ServedIn(r, entry, publish)
      /\ publish \in [Streams -> Publishes]
  BY DEF HttpInv, HttpTypeOK, ServedInv
<1>2. Away \in Responses /\ Away.at = "away" /\ ServedIn(Away, entry, publish)
  BY NobodyServed
<1>3. CASE DoServe(c)
  <2> DEFINE s == r.stream
             q == [r EXCEPT
                !.queue = {[number |-> publish[s].number, kind |-> k] : k \in KnownOf(s)},
                !.untold = KnownOf(s) \cap AV]
  <2>1. Turn(c, {"hook"}, Look(q))
    BY <1>3 DEF DoServe
  <2>2. r.of = {} /\ ~r.header /\ s \in Streams
    BY <1>1, <2>1 DEF Turn, ServedIn, InLoop, Responses
  <2>3. /\ KnownOf(s) \subseteq Kinds /\ publish[s].number \in Nat
        /\ publish[s].state = "idle" => KnownOf(s) = {}
    BY <1>1, <2>2 DEF KnownOf, Publishes
  <2>4. /\ q \in Responses /\ q.stream = s /\ q.of = {} /\ ~q.header
        /\ q.queue = {[number |-> publish[s].number, kind |-> k] : k \in KnownOf(s)}
        /\ q.untold = KnownOf(s) \cap AV
    <3>1. {[number |-> publish[s].number, kind |-> k] : k \in KnownOf(s)} \in SUBSET Messages
      BY <2>3 DEF Messages
    <3>2. KnownOf(s) \cap AV \in SUBSET AV
      OBVIOUS
    <3> QED BY <1>1, <2>2, <3>1, <3>2 DEF Responses
  <2> HIDE DEF q
  <2>5. OnePublish(q, entry, publish)
    <3>1. /\ Numbers(q) \subseteq {publish[s].number}
          /\ KnownOf(s) = {} => Numbers(q) = {}
      BY <2>4 DEF Numbers
    <3> QED BY <2>3, <2>4, <3>1 DEF OnePublish
  <2>6. Announced(q)
    <3>1. KnownOf(s) \subseteq KindsOf(q.queue)
      <4> SUFFICES ASSUME NEW k \in KnownOf(s) PROVE k \in KindsOf(q.queue)
        OBVIOUS
      <4> DEFINE m == [number |-> publish[s].number, kind |-> k]
      <4>1. m \in q.queue /\ m.kind = k
        BY <2>4
      <4> HIDE DEF m
      <4> QED BY <4>1 DEF KindsOf
    <3> QED BY <2>4, <3>1 DEF Announced
  <2> QED BY <1>1, <2>1, <2>4, <2>5, <2>6, LookServes, TurnStep
<1>4. CASE Wakes(c) \/ Sent(c) \/ SentAtLast(c)
  <2>1. /\ r.at \in InLoop
        /\ \/ Turn(c, {"sleep"}, Look(r)) \/ Turn(c, {"send"}, Look(r))
           \/ Turn(c, {"stuck"}, Look(r))
    BY <1>4 DEF Wakes, Sent, SentAtLast, Turn, InLoop
  <2>2. (r.missed \/ OnePublish(r, entry, publish)) /\ Announced(r)
    BY <1>1, <2>1 DEF ServedIn
  <2>3. Look(r) \in Responses /\ ServedIn(Look(r), entry, publish) /\ Look(r).at # "refused"
    BY <1>1, <2>2, LookServes
  <2> QED BY <2>1, <2>3, TurnStep
<1>5. CASE SendFails(c)
  <2>1. Stops(r) \in Responses /\ Stops(r).at = "stop" /\ Stops(r).of = {} /\ ~Stops(r).header
    BY NobodyServed DEF Stops, Away, Responses, Places
  <2>2. ServedIn(Stops(r), entry, publish)
    BY <2>1 DEF ServedIn, InLoop
  <2> QED BY <1>5, <2>1, <2>2, TurnStep DEF SendFails
<1>6. CASE Stalls(c) \/ Closes(c)
  <2>1. PICK q \in {[r EXCEPT !.at = "stuck"], [r EXCEPT !.closed = TRUE]} :
           /\ r.at \in InLoop
           /\ Turn(c, {"send"}, q) \/ Turn(c, InLoop, q)
    BY <1>6 DEF Stalls, Closes, Turn, InLoop
  <2>2. /\ q \in Responses /\ q.at \in InLoop /\ q.stream = r.stream /\ q.queue = r.queue
        /\ q.header = r.header /\ q.untold = r.untold /\ q.of = r.of /\ q.missed = r.missed
    BY <1>1, <2>1 DEF Responses, Places, InLoop
  <2> HIDE DEF r
  <2>3. Numbers(q) = Numbers(r) /\ (Announced(q) <=> Announced(r))
    BY <2>2 DEF Numbers, Announced
  <2>4. OnePublish(r, entry, publish) => OnePublish(q, entry, publish)
    BY <2>2, <2>3 DEF OnePublish
  <2>5. ServedIn(q, entry, publish)
    BY <1>1, <2>1, <2>2, <2>3, <2>4 DEF ServedIn
  <2>6. q.at # "refused"
    BY <2>2 DEF InLoop
  <2> QED BY <2>1, <2>2, <2>5, <2>6, TurnStep
<1>7. CASE HookFails(c) \/ Stopped(c)
  BY <1>2, <1>7, TurnStep DEF HookFails, Stopped
<1> QED BY <1>3, <1>4, <1>5, <1>6, <1>7

LEMMA AnsweredStep ==
    ASSUME HttpInv, NEW c \in Clients, Answered(c)
    PROVE  HttpInv' /\ Served
<1>1. Away \in Responses /\ Away.at = "away" /\ ServedIn(Away, entry, publish)
  BY NobodyServed
<1>2. Turn(c, {"refused"}, Away)
  BY DEF Answered, Turn
<1> QED BY <1>1, <1>2, TurnStep

LEMMA HttpInitial == HttpInit => HttpInv
<1> SUFFICES ASSUME HttpInit PROVE HttpInv
  OBVIOUS
<1>1. AnyStream \in Streams /\ Away \in Responses /\ Away.at = "away" /\ Idle \in Publishes
      /\ ServedIn(Away, entry, publish)
  BY NobodyServed DEF Idle, Publishes
<1>2. mount \in [Streams -> Streams]
  BY <1>1 DEF HttpInit
<1>3. HttpTypeOK
  BY <1>1, <1>2 DEF HttpInit, HttpTypeOK, Entries
<1>4. EntryInv
  BY DEF HttpInit, EntryInv
<1>5. ServedInv
  BY <1>1 DEF HttpInit, ServedInv
<1> QED BY <1>3, <1>4, <1>5 DEF HttpInv

LEMMA HttpSteps == HttpInv /\ [HttpNext]_httpVars => HttpInv' /\ (Served \/ UNCHANGED httpVars)
<1> SUFFICES ASSUME HttpInv, [HttpNext]_httpVars
             PROVE  HttpInv' /\ (Served \/ UNCHANGED httpVars)
  OBVIOUS
<1>1. CASE UNCHANGED httpVars
  <2>1. UNCHANGED <<mount, remux, template, told, publish, publishes, entry, client>>
    BY <1>1 DEF httpVars, configVars, streamVars
  <2>2. HttpTypeOK' /\ EntryInv' /\ ServedInv'
    BY <2>1 DEF HttpInv, HttpTypeOK, EntryInv, ServedInv, SharesPath
  <2> QED BY <1>1, <2>2 DEF HttpInv
<1>2. CASE HttpNext
  <2>1. ASSUME NEW s \in Streams, OnPublish(s) \/ HubStops(s) \/ OnUnpublish(s)
        PROVE  HttpInv' /\ Served
    BY <2>1, PublishStep, HubStep, UnpublishStep
  <2>2. ASSUME NEW s \in Streams, NEW kind \in Kinds, OnMessage(s, kind) PROVE HttpInv' /\ Served
    BY <2>2, MessageStep
  <2>3. CASE Reload \/ OnReload
    BY <2>3, ReloadStep
  <2>4. ASSUME NEW path \in Streams, OthersRequest(path) PROVE HttpInv' /\ Served
    BY <2>4, OthersStep
  <2>5. ASSUME NEW path \in Streams, NEW c \in Clients, Request(c, path) PROVE HttpInv' /\ Served
    BY <2>5, RequestStep
  <2>6. ASSUME NEW c \in Clients, Answered(c) PROVE HttpInv' /\ Served
    BY <2>6, AnsweredStep
  <2>7. ASSUME NEW c \in Clients,
               \/ DoServe(c) \/ HookFails(c) \/ Wakes(c) \/ Sent(c) \/ SentAtLast(c)
               \/ SendFails(c) \/ Stalls(c) \/ Closes(c) \/ Stopped(c)
        PROVE  HttpInv' /\ Served
    BY <2>7, LoopStep
  <2> QED BY <1>2, <2>1, <2>2, <2>3, <2>4, <2>5, <2>6, <2>7 DEF HttpNext
<1> QED BY <1>1, <1>2

LEMMA HttpInvariant == HttpSpec => []HttpInv
<1> QED BY HttpInitial, HttpSteps, PTL DEF HttpSpec

(* For any number of streams, clients, publishes and reloads: a response whose    *)
(* entry was not enabled again behind it has the messages of one publish, and its  *)
(* FLV header announces all the source knew (SrsLiveStream::do_serve_http,        *)
(* SrsFlvStreamEncoder::write_tags).                                            *)
THEOREM HttpResponseIsSound == HttpSpec => []ResponseIsSound
<1>1. HttpInv => ResponseIsSound
  <2> SUFFICES ASSUME HttpInv, NEW c \in Clients
               PROVE  /\ client[c].missed \/ Cardinality(client[c].of) <= 1
                      /\ client[c].header => client[c].untold = {}
    BY DEF ResponseIsSound
  <2> DEFINE r == client[c]
  <2>1. ServedIn(r, entry, publish)
    BY DEF HttpInv, ServedInv
  <2>2. r.header => r.untold = {}
    BY <2>1 DEF ServedIn, Announced
  <2>3. r.missed \/ \A m, n \in r.of : m = n
    <3>1. r.of \subseteq Numbers(r)
      BY DEF Numbers
    <3>2. CASE r.at \in InLoop
      <4>1. r.missed \/ OnePublish(r, entry, publish)
        BY <2>1, <3>2 DEF ServedIn
      <4> QED BY <3>1, <4>1 DEF OnePublish
    <3>3. CASE r.at \notin InLoop
      BY <2>1, <3>3 DEF ServedIn
    <3> QED BY <3>2, <3>3
  <2> HIDE DEF r
  <2>4. ASSUME \A m, n \in r.of : m = n PROVE Cardinality(r.of) <= 1
    <3>1. CASE r.of = {}
      BY <3>1, FS_EmptySet
    <3>2. ASSUME NEW n \in r.of PROVE Cardinality(r.of) <= 1
      <4>1. r.of = {n}
        BY <2>4
      <4> QED BY <4>1, FS_Singleton
    <3> QED BY <3>1, <3>2
  <2> QED BY <2>2, <2>3, <2>4 DEF r
<1> QED BY <1>1, HttpInvariant, PTL

(* With http_remux on and the server told of it, a request for a stream is never  *)
(* refused, and no entry is used that is not in the mux, unless the template gives  *)
(* two streams one path (SrsHttpStreamServer::hijack, http_mount).                 *)
THEOREM HttpRequestIsServed == HttpSpec => RequestIsServed
<1>1. HttpInv /\ [HttpNext]_httpVars => [Served]_httpVars
  BY HttpSteps
<1>2. [][Served]_httpVars => RequestIsServed
  BY DEF Served, RequestIsServed
<1> QED BY <1>1, <1>2, HttpInvariant, PTL DEF HttpSpec
=============================================================================

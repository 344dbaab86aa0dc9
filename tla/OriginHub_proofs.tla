-------------------------- MODULE OriginHub_proofs --------------------------
(***************************************************************************)
(* Proofs about OriginHub, for any number of forwarders, services, messages *)
(* and reloads: what is used after it was freed, that the services run just  *)
(* while the stream is published, that headers come before frames, and that  *)
(* nothing delays an unpublish.                                            *)
(* Then about Processes, what the hub's encoder and ng-exec run and the       *)
(* server's ingests too: whose every process is.                           *)
(***************************************************************************)
EXTENDS OriginHub, Processes, TLAPS, SequenceTheorems, FiniteSetTheorems, WellFoundedInduction

Messages == {"sh", "frame", "early"}

Places == {"new", "connecting", "sending", "receiving", "pause", "ended"}

Forwarders == [by : Actors, pc : Places, disposed : BOOLEAN, freed : BOOLEAN, sdk : BOOLEAN,
               queue : Seq(Messages), sh : BOOLEAN, hdr : BOOLEAN, bare : BOOLEAN]

Positions == [pc : {"idle", "live", "forwarders", "encoder", "exec"}, i : Nat]

States == {"up", "stopping", "down"}

TypeOK ==
    /\ is_active \in BOOLEAN /\ vsh \in BOOLEAN /\ broken \in BOOLEAN
    /\ forwarders \in Seq(Forwarders)
    /\ service \in [Services -> States]
    /\ at \in [Actors -> Positions]
    /\ ub \in {"none", "forwarder", "service", "sdk"}

Publisher == at["publisher"].pc

Reload == at["reload"].pc

(* Whoever destroys the forwarders has told those up to the one it joins.       *)
ToldUpTo(fs, i) ==
    /\ i \in 1 .. Len(fs)
    /\ \A j \in 1 .. Len(fs) : fs[j].disposed <=> j <= i

Untouched(fs) == \A j \in 1 .. Len(fs) : ~fs[j].disposed /\ ~fs[j].freed

(* Which forwarders there are: one actor destroys them at a time, the reload     *)
(* only those of a stream that is published.                                 *)
ForwardersFit ==
    /\ Reload # "live"
    /\ is_active <=> Publisher = "live"
    /\ Publisher = "live" => Len(forwarders) = Endpoints
    /\ Publisher \in {"idle", "encoder", "exec"} => forwarders = <<>>
    /\ Publisher = "forwarders" => ToldUpTo(forwarders, at["publisher"].i)
    /\ Reload = "forwarders" => Publisher = "live" /\ ToldUpTo(forwarders, at["reload"].i)
    /\ "forwarders" \notin {Publisher, Reload} => Untouched(forwarders)

(* A coroutine that ran has an sdk, unless it was told to end before; and who     *)
(* destroys forwarders has let its own ones run.                             *)
SdkFits(f) == f.pc = "new" \/ f.disposed \/ f.sdk

Ran(fs, a) == \A j \in 1 .. Len(fs) : fs[j].by = a => fs[j].sdk

SdksFit ==
    /\ \A j \in 1 .. Len(forwarders) : SdkFits(forwarders[j])
    /\ \A a \in Actors : at[a].pc = "forwarders" /\ ~broken => Ran(forwarders, a)

(* A service is being stopped by one actor at most.  While the stream is          *)
(* published the others run unless they failed; the unpublish leaves none.      *)
ServicesFit ==
    /\ \A s \in Joinable : service[s] = "stopping" <=> s \in {Publisher, Reload}
    /\ \A s \in Muxers : service[s] # "stopping"
    /\ Publisher = Reload => Publisher = "idle"
    /\ Publisher = "live" =>
          \A s \in Services : service[s] # "stopping" => (service[s] = "down" <=> s \in refused)
    /\ Publisher = "idle" => \A s \in Services : service[s] = "down"
    /\ Publisher = "exec" => \A s \in Services \ {"exec"} : service[s] = "down"

HeaderLeads(q) ==
    \E k \in 1 .. Len(q) : q[k] = "sh" /\ \A j \in 1 .. k - 1 : q[j] # "frame"

(* A session without a header has one before the frames in its queue, or no       *)
(* frame, and none will come before a header does.                           *)
HeaderFits(f, known, over) ==
    /\ ~f.bare
    /\ ~known => ~Has(f.queue, "frame")
    /\ f.pc \in {"sending", "receiving"} /\ ~f.hdr =>
          HeaderLeads(f.queue) \/ (~Has(f.queue, "frame") /\ (~known \/ over))

HeadersFit == \A j \in 1 .. Len(forwarders) : HeaderFits(forwarders[j], vsh, msgs = MaxMsgs)

HubOK == ForwardersFit /\ SdksFit /\ ServicesFit /\ HeadersFit

IInv ==
    /\ TypeOK /\ FreedIsNotUsed /\ HeadersComeFirst
    /\ ub = "none" => HubOK
-----------------------------------------------------------------------------
LEMMA Names ==
    /\ Services = {"encoder", "exec"} \cup Muxers
    /\ "encoder" \notin Muxers /\ "exec" \notin Muxers
BY OriginHubAssumption DEF Services, Joinable

LEMMA InitFits == Init => IInv
<1> SUFFICES ASSUME Init PROVE IInv
  OBVIOUS
<1>1. TypeOK
  BY EmptySeq DEF Init, TypeOK, Idle, AllDown, Positions, States, Actors
<1>2. at["publisher"] = Idle /\ at["reload"] = Idle
  BY DEF Init, Actors
<1>3. Len(forwarders) = 0
  BY DEF Init
<1>4. ForwardersFit
  BY <1>2, <1>3 DEF Init, ForwardersFit, Publisher, Reload, Idle, Untouched
<1>5. SdksFit
  BY <1>2, <1>3 DEF Init, SdksFit, Idle, Actors
<1>6. ServicesFit
  BY <1>2, Names DEF Init, ServicesFit, Publisher, Reload, Idle, AllDown, Joinable
<1>7. HeadersFit
  BY <1>3 DEF HeadersFit
<1> QED BY <1>1, <1>3, <1>4, <1>5, <1>6, <1>7
        DEF Init, IInv, HubOK, FreedIsNotUsed, HeadersComeFirst

(* What an actor's move leaves of the other one.                               *)
LEMMA Moves ==
    ASSUME at \in [Actors -> Positions], NEW a \in Actors, NEW p \in Positions,
           at' = [at EXCEPT ![a] = p]
    PROVE  /\ at' \in [Actors -> Positions]
           /\ at'[a] = p
           /\ \A b \in Actors \ {a} : at'[b] = at[b]
OBVIOUS

LEMMA NewOnes ==
    ASSUME NEW a \in Actors
    PROVE  /\ Created(a) \in Seq(Forwarders)
           /\ Len(Created(a)) = Endpoints
           /\ \A j \in 1 .. Endpoints : Created(a)[j] = NewForwarder(a)
<1>1. NewForwarder(a) \in Forwarders
  BY EmptySeq DEF NewForwarder, Forwarders, Places
<1>2. Endpoints \in Nat
  BY OriginHubAssumption
<1>3. Created(a) \in [1 .. Endpoints -> Forwarders]
  BY <1>1 DEF Created
<1>4. Created(a) \in Seq(Forwarders)
  BY <1>2, <1>3, SeqDef
<1> QED BY <1>2, <1>4, LenProperties DEF Created

(* A forwarder that is told to end, or freed, is otherwise the same.            *)
LEMMA OneIsMarked ==
    ASSUME NEW fs \in Seq(Forwarders), NEW i \in 1 .. Len(fs), NEW g \in Forwarders
    PROVE  /\ [fs EXCEPT ![i] = g] \in Seq(Forwarders)
           /\ Len([fs EXCEPT ![i] = g]) = Len(fs)
           /\ \A j \in 1 .. Len(fs) : [fs EXCEPT ![i] = g][j] = IF j = i THEN g ELSE fs[j]
           /\ \A j \in 1 .. Len(fs) : fs[j] \in Forwarders
BY ExceptSeq, ElementOfSeq
-----------------------------------------------------------------------------
(* What the publisher has at hand when it comes to the services behind the        *)
(* forwarders: those outside S are down, and only the reload may be stopping one.  *)
AtHand(S, sv) ==
    /\ sv \in [Services -> States]
    /\ \A s \in Services \ S : sv[s] = "down"
    /\ \A s \in Joinable : sv[s] = "stopping" <=> s = Reload
    /\ \A s \in Muxers : sv[s] # "stopping"

(* The services are stopped as they should be, or the publisher meets the reload   *)
(* in the stop of one of them.                                               *)
Stopped ==
    /\ service' \in [Services -> States]
    /\ at' \in [Actors -> Positions]
    /\ at'["reload"] = at["reload"]
    /\ ub' \in {"none", "service"}
    /\ ub' = "service" => Publisher' = Reload'
    /\ ub' = "none" => ServicesFit' /\ Publisher' \in {"idle", "encoder", "exec"}

LEMMA ServicesAreStopped ==
    ASSUME TypeOK, ub = "none", Reload \notin {"live", "forwarders"},
           NEW S \in {Services, Services \ {"encoder"}, {"exec"}}, NEW sv,
           AtHand(S, sv), StopServices(S, sv)
    PROVE  Stopped
<1> DEFINE busy == {s \in S \cap Joinable : sv[s] # "down"}
           next == IF "encoder" \in busy THEN "encoder" ELSE "exec"
           D == IF next = "exec" THEN S ELSE {}
<1>0. /\ Reload \in {"idle", "encoder", "exec"} /\ Reload = at["reload"].pc
      /\ at \in [Actors -> Positions] /\ "publisher" \in Actors /\ "reload" \in Actors
  BY DEF TypeOK, Positions, Actors, Reload
<1>1. CASE busy = {}
  <2>1. /\ service' = Put(sv, S, "down") /\ ub' = ub
        /\ at' = [at EXCEPT !["publisher"] = Idle]
    BY <1>1 DEF StopServices
  <2>2. \A s \in Services : service'[s] = "down"
    BY <2>1 DEF Put, AtHand
  <2>3. service' \in [Services -> States]
    BY <2>1 DEF Put, AtHand, States
  <2>4. Idle \in Positions
    BY DEF Idle, Positions
  <2>5. /\ at' \in [Actors -> Positions] /\ at'["publisher"] = Idle
        /\ at'["reload"] = at["reload"]
    BY <1>0, <2>1, <2>4, Moves DEF Actors
  <2>6. \A s \in Joinable : sv[s] = "down"
    BY <1>1, Names DEF AtHand, Joinable
  <2>7. Reload \notin Joinable
    BY <2>6 DEF AtHand
  <2>8. Reload = "idle"
    BY <1>0, <2>7 DEF Joinable
  <2>9. Publisher' = "idle" /\ Reload' = "idle"
    BY <2>5, <2>8 DEF Publisher, Reload, Idle
  <2>10. ServicesFit'
    <3>1. \A s \in Joinable : s \in Services /\ s \notin {"idle"}
      BY Names DEF Joinable
    <3>2. \A s \in Muxers : s \in Services
      BY Names
    <3> QED BY <2>2, <2>9, <3>1, <3>2 DEF ServicesFit
  <2> QED BY <2>1, <2>3, <2>5, <2>9, <2>10 DEF Stopped
<1>2. CASE busy # {}
  <2>1. next \in busy /\ next \in Joinable /\ next \in S /\ next \in Services
    BY <1>2, Names DEF Joinable
  <2>2. /\ service' = [Put(sv, D, "down") EXCEPT ![next] = "stopping"]
        /\ at' = [at EXCEPT !["publisher"] = [pc |-> next, i |-> 0]]
        /\ ub' = IF sv[next] = "stopping" THEN "service" ELSE ub
    BY <1>2 DEF StopServices
  <2>3. \A s \in Services :
            service'[s] = IF s = next THEN "stopping" ELSE IF s \in D THEN "down" ELSE sv[s]
    BY <2>2 DEF Put
  <2>4. service' \in [Services -> States]
    BY <2>2 DEF Put, AtHand, States
  <2>5. [pc |-> next, i |-> 0] \in Positions
    BY <2>1 DEF Positions, Joinable
  <2>6. /\ at' \in [Actors -> Positions] /\ at'["publisher"] = [pc |-> next, i |-> 0]
        /\ at'["reload"] = at["reload"]
    BY <1>0, <2>2, <2>5, Moves DEF Actors
  <2>7. Publisher' = next /\ Reload' = Reload
    BY <2>6 DEF Publisher, Reload
  <2>8. CASE sv[next] = "stopping"
    <3>1. next = Reload
      BY <2>1, <2>8 DEF AtHand
    <3> QED BY <2>2, <2>4, <2>6, <2>7, <2>8, <3>1 DEF Stopped
  <2>9. CASE sv[next] # "stopping"
    <3>1. next # Reload
      BY <2>1, <2>9 DEF AtHand
    <3>2. \A s \in Joinable : service'[s] = "stopping" <=> s \in {next, Reload}
      <4> SUFFICES ASSUME NEW s \in Joinable, s # next
                   PROVE  service'[s] = "stopping" <=> s = Reload
        BY <2>1, <2>3, Names DEF Joinable
      <4>1. s \in Services
        BY Names DEF Joinable
      <4>2. CASE s \in D
        <5>1. next = "exec" /\ s = "encoder" /\ s \in S
          BY <4>2 DEF Joinable
        <5>2. sv[s] = "down"
          BY <5>1
        <5> QED BY <4>1, <4>2, <5>2, <2>3 DEF AtHand
      <4>3. CASE s \notin D
        BY <4>1, <4>3, <2>3 DEF AtHand
      <4> QED BY <4>2, <4>3
    <3>3. \A s \in Muxers : service'[s] # "stopping"
      BY <2>1, <2>3, Names DEF AtHand, Joinable
    <3>4. next = "exec" => \A s \in Services \ {"exec"} : service'[s] = "down"
      BY <2>3 DEF AtHand
    <3>5. next \in {"encoder", "exec"}
      OBVIOUS
    <3>6. ServicesFit'
      BY <2>7, <3>1, <3>2, <3>3, <3>4, <3>5 DEF ServicesFit
    <3> QED BY <2>2, <2>4, <2>6, <2>7, <2>9, <3>5, <3>6 DEF Stopped
  <2> QED BY <2>8, <2>9
<1> QED BY <1>1, <1>2
-----------------------------------------------------------------------------
(* Forwarders that can be destroyed by a: those before i were told.              *)
Destroyable(a, i, fs) ==
    /\ i \in 1 .. Len(fs)
    /\ \A j \in 1 .. Len(fs) :
          /\ fs[j].disposed <=> j < i
          /\ SdkFits(fs[j])
          /\ HeaderFits(fs[j], vsh', msgs' = MaxMsgs)
    /\ broken' \/ Ran(fs, a)

LEMMA OneIsTold ==
    ASSUME TypeOK, ub = "none", NEW a \in Actors, NEW i, NEW fs \in Seq(Forwarders), NEW sv,
           Destroyable(a, i, fs), StopForwarder(a, i, fs, sv)
    PROVE  /\ ub' = "none" /\ service' = sv
           /\ forwarders' \in Seq(Forwarders)
           /\ Len(forwarders') = Len(fs)
           /\ at' \in [Actors -> Positions]
           /\ at'[a] = [pc |-> "forwarders", i |-> i]
           /\ \A b \in Actors \ {a} : at'[b] = at[b]
           /\ ToldUpTo(forwarders', i)
           /\ \A j \in 1 .. Len(forwarders') : SdkFits(forwarders'[j])
           /\ broken' \/ Ran(forwarders', a)
           /\ HeadersFit' /\ HeadersComeFirst'
<1> DEFINE g == [fs[i] EXCEPT !.disposed = TRUE]
<1>1. i \in 1 .. Len(fs) /\ ~fs[i].disposed /\ Len(fs) \in Nat
  BY LenProperties DEF Destroyable
<1>2. \A j \in 1 .. Len(fs) : fs[j] \in Forwarders
  BY ElementOfSeq
<1>3. g \in Forwarders
  BY <1>1, <1>2 DEF Forwarders
<1>4. /\ g.by = fs[i].by /\ g.pc = fs[i].pc /\ g.sdk = fs[i].sdk /\ g.queue = fs[i].queue
      /\ g.hdr = fs[i].hdr /\ g.bare = fs[i].bare /\ g.disposed = TRUE
  BY <1>1, <1>2 DEF Forwarders
<1>5. forwarders' = [fs EXCEPT ![i] = g] /\ ub' = "none" /\ service' = sv
  BY <1>1 DEF StopForwarder
<1> HIDE DEF g
<1>6. /\ forwarders' \in Seq(Forwarders) /\ Len(forwarders') = Len(fs)
      /\ \A j \in 1 .. Len(fs) : forwarders'[j] = IF j = i THEN g ELSE fs[j]
  BY <1>1, <1>3, <1>5, OneIsMarked
<1>7. [pc |-> "forwarders", i |-> i] \in Positions
  BY <1>1 DEF Positions
<1>8. /\ at' \in [Actors -> Positions]
      /\ at'[a] = [pc |-> "forwarders", i |-> i]
      /\ \A b \in Actors \ {a} : at'[b] = at[b]
  BY <1>7, Moves DEF TypeOK, StopForwarder
<1>9. ASSUME NEW j \in 1 .. Len(fs)
      PROVE  /\ forwarders'[j].by = fs[j].by /\ forwarders'[j].sdk = fs[j].sdk
             /\ forwarders'[j].disposed <=> j <= i
             /\ SdkFits(forwarders'[j])
             /\ HeaderFits(forwarders'[j], vsh', msgs' = MaxMsgs)
  <2>1. CASE j = i
    BY <2>1, <1>4, <1>6 DEF Destroyable, SdkFits, HeaderFits
  <2>2. CASE j # i
    BY <2>2, <1>1, <1>6 DEF Destroyable
  <2> QED BY <2>1, <2>2
<1>10. ToldUpTo(forwarders', i)
  BY <1>1, <1>6, <1>9 DEF ToldUpTo
<1>11. broken' \/ Ran(forwarders', a)
  BY <1>6, <1>9 DEF Destroyable, Ran
<1>12. HeadersFit' /\ HeadersComeFirst'
  BY <1>6, <1>9 DEF HeadersFit, HeadersComeFirst, HeaderFits
<1> QED BY <1>5, <1>6, <1>8, <1>9, <1>10, <1>11, <1>12

(* The publisher goes on from a forwarder to the next.                          *)
LEMMA PublisherTells ==
    ASSUME TypeOK, ub = "none", Reload \notin {"live", "forwarders"},
           NEW i, NEW fs \in Seq(Forwarders), NEW sv,
           Destroyable("publisher", i, fs), AtHand(Services, sv),
           StopForwarder("publisher", i, fs, sv),
           is_active' = FALSE, vsh' \in BOOLEAN, broken' \in BOOLEAN
    PROVE  IInv'
<1>0. "publisher" \in Actors /\ "reload" \in Actors \ {"publisher"} /\ Actors = {"publisher", "reload"}
  BY DEF Actors
<1>1. /\ ub' = "none" /\ service' = sv
      /\ forwarders' \in Seq(Forwarders)
      /\ at' \in [Actors -> Positions]
      /\ at'["publisher"] = [pc |-> "forwarders", i |-> i]
      /\ at'["reload"] = at["reload"]
      /\ ToldUpTo(forwarders', i)
      /\ \A j \in 1 .. Len(forwarders') : SdkFits(forwarders'[j])
      /\ broken' \/ Ran(forwarders', "publisher")
      /\ HeadersFit' /\ HeadersComeFirst'
  BY <1>0, OneIsTold
<1>2. Publisher' = "forwarders" /\ at'["publisher"].i = i /\ Reload' = Reload
  BY <1>1 DEF Publisher, Reload
<1>3. TypeOK'
  BY <1>1 DEF TypeOK, AtHand
<1>4. ForwardersFit'
  BY <1>1, <1>2 DEF ForwardersFit
<1>5. SdksFit'
  BY <1>0, <1>1, <1>2 DEF SdksFit, Reload
<1>6. ServicesFit'
  <2>1. Services \ Services = {} /\ "forwarders" \notin Joinable
    BY DEF Joinable
  <2> QED BY <1>1, <1>2, <2>1 DEF ServicesFit, AtHand
<1> QED BY <1>1, <1>3, <1>4, <1>5, <1>6 DEF IInv, HubOK, FreedIsNotUsed

(* Services are being stopped, and there is no forwarder.                       *)
LEMMA OnlyServices ==
    ASSUME TypeOK, Reload \notin {"live", "forwarders"}, Stopped, forwarders' = <<>>,
           is_active' = FALSE, vsh' \in BOOLEAN, broken' \in BOOLEAN
    PROVE  IInv'
<1>1. forwarders' \in Seq(Forwarders) /\ Len(forwarders') = 0
  BY EmptySeq
<1>2. TypeOK'
  BY <1>1 DEF Stopped, TypeOK
<1>3. HeadersComeFirst' /\ HeadersFit'
  BY <1>1 DEF HeadersComeFirst, HeadersFit
<1>4. FreedIsNotUsed'
  BY DEF Stopped, FreedIsNotUsed, Publisher, Reload
<1>5. ASSUME ub' = "none" PROVE HubOK'
  <2>1. Publisher' \in {"idle", "encoder", "exec"} /\ Reload' = Reload /\ ServicesFit'
    BY <1>5 DEF Stopped, Reload
  <2>2. ForwardersFit'
    BY <1>1, <2>1 DEF ForwardersFit, Untouched
  <2>3. SdksFit'
    BY <1>1, <2>1 DEF SdksFit, Ran
  <2> QED BY <1>3, <2>1, <2>2, <2>3 DEF HubOK
<1> QED BY <1>2, <1>3, <1>4, <1>5 DEF IInv

(* The last forwarder has ended, or there was none.                             *)
LEMMA PublisherPasses ==
    ASSUME TypeOK, ub = "none", Reload \notin {"live", "forwarders"}, NEW sv,
           AtHand(Services, sv), AfterForwarders("publisher", sv),
           is_active' = FALSE, vsh' \in BOOLEAN, broken' \in BOOLEAN
    PROVE  IInv'
<1>1. forwarders' = <<>> /\ StopServices(Services, sv)
  BY DEF AfterForwarders
<1>2. Stopped
  BY <1>1, ServicesAreStopped
<1> QED BY <1>1, <1>2, OnlyServices

(* destroy_forwarders of the publisher, which may meet the reload in it.         *)
LEMMA PublisherDestroys ==
    ASSUME TypeOK, ub = "none", Reload # "live",
           NEW fs \in Seq(Forwarders), NEW sv,
           Reload = "forwarders" => fs # <<>> /\ fs[1].disposed,
           Reload # "forwarders" => Untouched(fs) /\ (broken' \/ Ran(fs, "publisher")),
           \A j \in 1 .. Len(fs) : SdkFits(fs[j]) /\ HeaderFits(fs[j], vsh', msgs' = MaxMsgs),
           AtHand(Services, sv), DestroyForwarders("publisher", fs, sv),
           is_active' = FALSE, vsh' \in BOOLEAN, broken' \in BOOLEAN
    PROVE  IInv'
<1>1. CASE fs = <<>>
  BY <1>1, PublisherPasses DEF DestroyForwarders
<1>2. CASE fs # <<>> /\ Reload # "forwarders"
  <2>1. 1 \in 1 .. Len(fs) /\ Len(fs) \in Nat
    BY <1>2, EmptySeq, LenProperties
  <2>2. Destroyable("publisher", 1, fs)
    BY <1>2, <2>1 DEF Destroyable, Untouched
  <2> QED BY <1>2, <2>2, PublisherTells DEF DestroyForwarders
<1>3. CASE fs # <<>> /\ Reload = "forwarders"
  <2>1. 1 \in 1 .. Len(fs) /\ fs[1].disposed /\ \A j \in 1 .. Len(fs) : fs[j] \in Forwarders
    BY <1>3, EmptySeq, LenProperties, ElementOfSeq
  <2>2. StopForwarder("publisher", 1, fs, sv)
    BY <1>3 DEF DestroyForwarders
  <2>3. ub' = "forwarder" /\ service' = sv
    BY <2>1, <2>2 DEF StopForwarder
  <2>4. [fs[1] EXCEPT !.disposed = TRUE] \in Forwarders /\ [fs[1] EXCEPT !.disposed = TRUE].bare = fs[1].bare
    BY <2>1 DEF Forwarders
  <2>5. forwarders' = [fs EXCEPT ![1] = [fs[1] EXCEPT !.disposed = TRUE]]
    BY <2>2 DEF StopForwarder
  <2>6. /\ forwarders' \in Seq(Forwarders) /\ Len(forwarders') = Len(fs)
        /\ \A j \in 1 .. Len(fs) : forwarders'[j].bare = fs[j].bare
    BY <2>1, <2>4, <2>5, OneIsMarked
  <2>7. [pc |-> "forwarders", i |-> 1] \in Positions /\ "publisher" \in Actors
        /\ "reload" \in Actors \ {"publisher"}
    BY DEF Positions, Actors
  <2>8. at' \in [Actors -> Positions] /\ at'["reload"] = at["reload"]
    BY <2>2, <2>7, Moves DEF StopForwarder, TypeOK
  <2>9. HeadersComeFirst'
    BY <2>6 DEF HeadersComeFirst, HeaderFits
  <2>10. TypeOK'
    BY <2>3, <2>6, <2>8 DEF TypeOK, AtHand
  <2>11. FreedIsNotUsed'
    BY <1>3, <2>3, <2>8 DEF FreedIsNotUsed, Reload
  <2> QED BY <2>3, <2>9, <2>10, <2>11 DEF IInv
<1> QED BY <1>1, <1>2, <1>3
-----------------------------------------------------------------------------
LEMMA NewFits ==
    ASSUME NEW a \in Actors, NEW known, NEW over
    PROVE  /\ SdkFits(NewForwarder(a)) /\ HeaderFits(NewForwarder(a), known, over)
           /\ ~NewForwarder(a).disposed /\ ~NewForwarder(a).freed
           /\ NewForwarder(a).by = a
BY DEF NewForwarder, SdkFits, HeaderFits, Has

(* What is so while no stream is published.                                     *)
LEMMA IdlePublisher ==
    ASSUME IInv, ub = "none", Publisher = "idle"
    PROVE  /\ Reload = "idle" /\ ~is_active
           /\ \A s \in Services : service[s] = "down"
<1>1. \A s \in Services : service[s] = "down"
  BY DEF IInv, HubOK, ServicesFit
<1>2. Reload \notin Joinable
  BY <1>1, Names DEF IInv, HubOK, ServicesFit, Joinable
<1>3. Reload \notin {"live", "forwarders"} /\ ~is_active
  BY DEF IInv, HubOK, ForwardersFit
<1>4. Reload \in {"idle", "live", "forwarders", "encoder", "exec"}
  BY DEF IInv, TypeOK, Actors, Positions, Reload
<1> QED BY <1>1, <1>2, <1>3, <1>4 DEF Joinable

LEMMA OnPublishStep ==
    ASSUME IInv, OnPublish
    PROVE  IInv'
<1>0. "publisher" \in Actors /\ "reload" \in Actors \ {"publisher"} /\ Actors = {"publisher", "reload"}
  BY DEF Actors
<1>1. /\ ub = "none" /\ Publisher = "idle" /\ TypeOK
  BY DEF OnPublish, Comes, IInv, Publisher
<1>2. Reload = "idle"
  BY <1>1, IdlePublisher
<1>3. /\ forwarders' \in Seq(Forwarders) /\ Len(forwarders') = Endpoints
      /\ \A j \in 1 .. Len(forwarders') :
            /\ SdkFits(forwarders'[j]) /\ HeaderFits(forwarders'[j], vsh', (msgs = MaxMsgs)')
            /\ ~forwarders'[j].disposed /\ ~forwarders'[j].freed
  BY <1>0, NewOnes, NewFits DEF OnPublish
<1>4. at' = [at EXCEPT !["publisher"] = [at["publisher"] EXCEPT !.pc = "live"]]
  BY DEF OnPublish
<1>5. /\ [at["publisher"] EXCEPT !.pc = "live"] \in Positions
      /\ [at["publisher"] EXCEPT !.pc = "live"].pc = "live"
  BY <1>0, <1>1 DEF TypeOK, Positions
<1>6. /\ at' \in [Actors -> Positions] /\ at'["publisher"].pc = "live"
      /\ at'["reload"] = at["reload"]
  BY <1>0, <1>1, <1>4, <1>5, Moves DEF TypeOK
<1>7. Publisher' = "live" /\ Reload' = "idle"
  BY <1>2, <1>6 DEF Publisher, Reload
<1>8. /\ service' \in [Services -> States]
      /\ \A s \in Services : service'[s] = "up"
  BY <1>1 DEF OnPublish, Put, TypeOK, States
<1>9. TypeOK'
  BY <1>1, <1>3, <1>6, <1>8 DEF OnPublish, TypeOK
<1>10. ForwardersFit'
  BY <1>3, <1>7 DEF ForwardersFit, Untouched, OnPublish
<1>11. SdksFit'
  BY <1>0, <1>3, <1>6, <1>7 DEF SdksFit, Reload
<1>12. ServicesFit'
  BY <1>7, <1>8, Names DEF ServicesFit, Joinable, OnPublish
<1>13. HeadersFit' /\ HeadersComeFirst'
  BY <1>3 DEF HeadersFit, HeadersComeFirst, HeaderFits
<1>14. ub' = "none"
  BY <1>1 DEF OnPublish
<1> QED BY <1>9, <1>10, <1>11, <1>12, <1>13, <1>14 DEF IInv, HubOK, FreedIsNotUsed

LEMMA OnPublishFailsStep ==
    ASSUME IInv, NEW S \in SUBSET Services, OnPublishFails(S)
    PROVE  IInv'
<1> DEFINE fs == Created("publisher")
           sv == Put(service, S, "up")
<1>1. /\ ub = "none" /\ Publisher = "idle" /\ TypeOK
      /\ DestroyForwarders("publisher", fs, sv)
      /\ broken' = TRUE /\ is_active' = is_active /\ vsh' = vsh /\ vsh' \in BOOLEAN
  BY DEF OnPublishFails, Comes, IInv, Publisher, TypeOK
<1>2. /\ Reload = "idle" /\ is_active' = FALSE
      /\ \A s \in Services : service[s] = "down"
  BY <1>1, IdlePublisher DEF TypeOK
<1>3. /\ fs \in Seq(Forwarders)
      /\ \A j \in 1 .. Len(fs) :
            /\ SdkFits(fs[j]) /\ HeaderFits(fs[j], vsh', msgs' = MaxMsgs)
            /\ ~fs[j].disposed /\ ~fs[j].freed
  BY NewOnes, NewFits DEF Actors
<1>4. AtHand(Services, sv)
  BY <1>1, <1>2, Names DEF AtHand, Put, States, Joinable, TypeOK
<1> HIDE DEF fs, sv
<1>5. Untouched(fs)
  BY <1>3 DEF Untouched
<1> QED BY <1>1, <1>2, <1>3, <1>4, <1>5, PublisherDestroys

(* Services as the publisher finds them from a publish to the end of its          *)
(* forwarders.                                                               *)
LEMMA ServicesAtHand ==
    ASSUME IInv, ub = "none", Publisher \in {"live", "forwarders"}
    PROVE  AtHand(Services, service)
BY DEF IInv, TypeOK, HubOK, ServicesFit, AtHand, Joinable

LEMMA OnUnpublishStep ==
    ASSUME IInv, OnUnpublish
    PROVE  IInv'
<1>1. /\ ub = "none" /\ Publisher = "live" /\ TypeOK /\ HubOK
      /\ DestroyForwarders("publisher", forwarders, service)
      /\ broken' = broken /\ vsh' = vsh /\ msgs' = msgs /\ is_active' = FALSE
      /\ vsh' \in BOOLEAN /\ broken' \in BOOLEAN
  BY DEF OnUnpublish, Comes, history, IInv, Publisher, TypeOK
<1>2. forwarders \in Seq(Forwarders) /\ Len(forwarders) \in Nat
  BY <1>1, LenProperties DEF TypeOK
<1>3. Reload # "live"
  BY <1>1 DEF HubOK, ForwardersFit
<1>4. ASSUME Reload = "forwarders"
      PROVE  forwarders # <<>> /\ forwarders[1].disposed
  <2>1. ToldUpTo(forwarders, at["reload"].i)
    BY <1>1, <1>4 DEF HubOK, ForwardersFit
  <2>2. at["reload"].i \in 1 .. Len(forwarders) /\ 1 \in 1 .. Len(forwarders)
    BY <1>2, <2>1 DEF ToldUpTo
  <2>3. 1 <= at["reload"].i
    BY <1>2, <2>2
  <2> QED BY <2>1, <2>2, <2>3, EmptySeq DEF ToldUpTo
<1>5. ASSUME Reload # "forwarders"
      PROVE  Untouched(forwarders) /\ Ran(forwarders, "publisher")
  <2>1. Untouched(forwarders)
    BY <1>1, <1>5 DEF HubOK, ForwardersFit
  <2>2. \A j \in 1 .. Len(forwarders) :
           SdkFits(forwarders[j]) /\ (forwarders[j].pc = "new" => forwarders[j].by # "publisher")
    BY <1>1 DEF HubOK, SdksFit, OnUnpublish, Comes
  <2> QED BY <2>1, <2>2 DEF Untouched, Ran, SdkFits
<1>6. \A j \in 1 .. Len(forwarders) :
         SdkFits(forwarders[j]) /\ HeaderFits(forwarders[j], vsh', msgs' = MaxMsgs)
  BY <1>1 DEF HubOK, SdksFit, HeadersFit
<1>7. AtHand(Services, service)
  BY <1>1, ServicesAtHand
<1> QED BY <1>1, <1>2, <1>3, <1>4, <1>5, <1>6, <1>7, PublisherDestroys

LEMMA ServiceStoppedStep ==
    ASSUME IInv, ServiceStopped
    PROVE  IInv'
<1> DEFINE s == Publisher
           S == IF s = "exec" THEN {s} ELSE Services \ {s}
           sv == [service EXCEPT ![s] = "down"]
<1>1. /\ ub = "none" /\ TypeOK /\ HubOK /\ s \in Joinable /\ s \in Services
      /\ StopServices(S, sv)
      /\ is_active' = is_active /\ forwarders' = forwarders
      /\ vsh' \in BOOLEAN /\ broken' \in BOOLEAN
  BY Names DEF ServiceStopped, history, IInv, Publisher, TypeOK, Joinable
<1>2. forwarders' = <<>> /\ Reload \notin {"live", "forwarders"} /\ is_active' = FALSE
  BY <1>1 DEF HubOK, ForwardersFit, Joinable, TypeOK
<1>3. S \in {Services, Services \ {"encoder"}, {"exec"}}
  BY <1>1 DEF Joinable
<1>4. s # Reload
  BY <1>1 DEF HubOK, ServicesFit, Joinable
<1>5. AtHand(S, sv)
  <2>1. sv \in [Services -> States]
    BY <1>1 DEF TypeOK, States
  <2>2. \A r \in Services \ S : sv[r] = "down"
    BY <1>1 DEF HubOK, ServicesFit, TypeOK, Joinable
  <2>3. \A r \in Joinable : sv[r] = "stopping" <=> r = Reload
    BY <1>1, <1>4, Names DEF HubOK, ServicesFit, TypeOK, Joinable
  <2>4. \A r \in Muxers : sv[r] # "stopping"
    BY <1>1, Names DEF HubOK, ServicesFit, TypeOK
  <2> QED BY <2>1, <2>2, <2>3, <2>4 DEF AtHand
<1> HIDE DEF S, sv
<1>6. Stopped
  BY <1>1, <1>2, <1>3, <1>5, ServicesAreStopped
<1> QED BY <1>1, <1>2, <1>6, OnlyServices
-----------------------------------------------------------------------------
(* The join of forwarder i returned.                                           *)
LEMMA OneIsFreed ==
    ASSUME IInv, ub = "none", NEW a \in Actors, at[a].pc = "forwarders",
           UNCHANGED <<vsh, msgs, broken>>
    PROVE  LET i  == at[a].i
               fs == [forwarders EXCEPT ![i].freed = TRUE]
           IN  /\ i \in 1 .. Len(forwarders) /\ Len(forwarders) \in Nat
               /\ forwarders[i].sdk \/ broken \/ forwarders[i].by # a
               /\ fs \in Seq(Forwarders) /\ Len(fs) = Len(forwarders)
               /\ i < Len(forwarders) => Destroyable(a, i + 1, fs)
<1> DEFINE i  == at[a].i
           g  == [forwarders[i] EXCEPT !.freed = TRUE]
           fs == [forwarders EXCEPT ![i] = g]
<1>1. forwarders \in Seq(Forwarders) /\ Len(forwarders) \in Nat /\ HubOK
  BY LenProperties DEF IInv, TypeOK
<1>2. ToldUpTo(forwarders, i)
  BY <1>1 DEF HubOK, ForwardersFit, Publisher, Reload, Actors
<1>3. i \in 1 .. Len(forwarders) /\ \A j \in 1 .. Len(forwarders) : forwarders[j] \in Forwarders
  BY <1>1, <1>2, ElementOfSeq DEF ToldUpTo
<1>4. /\ g \in Forwarders
      /\ g.by = forwarders[i].by /\ g.pc = forwarders[i].pc /\ g.sdk = forwarders[i].sdk
      /\ g.queue = forwarders[i].queue /\ g.hdr = forwarders[i].hdr
      /\ g.bare = forwarders[i].bare /\ g.disposed = forwarders[i].disposed
  BY <1>3 DEF Forwarders
<1>5. broken \/ Ran(forwarders, a)
  BY <1>1 DEF HubOK, SdksFit
<1> HIDE DEF g
<1>6. /\ fs \in Seq(Forwarders) /\ Len(fs) = Len(forwarders)
      /\ \A j \in 1 .. Len(forwarders) : fs[j] = IF j = i THEN g ELSE forwarders[j]
  BY <1>1, <1>3, <1>4, OneIsMarked
<1>7. \A j \in 1 .. Len(forwarders) :
         SdkFits(forwarders[j]) /\ HeaderFits(forwarders[j], vsh', msgs' = MaxMsgs)
  BY <1>1 DEF HubOK, SdksFit, HeadersFit
<1> HIDE DEF fs
<1>8. ASSUME NEW j \in 1 .. Len(fs)
      PROVE  /\ fs[j].disposed <=> j < i + 1
             /\ SdkFits(fs[j]) /\ HeaderFits(fs[j], vsh', msgs' = MaxMsgs)
             /\ fs[j].by = forwarders[j].by /\ fs[j].sdk = forwarders[j].sdk
  <2>1. j \in 1 .. Len(forwarders) /\ (j <= i <=> j < i + 1)
    BY <1>1, <1>3, <1>6
  <2>2. forwarders[j].disposed <=> j < i + 1
    BY <1>2, <2>1 DEF ToldUpTo
  <2>3. CASE j = i
    BY <2>1, <2>2, <2>3, <1>4, <1>6, <1>7 DEF SdkFits, HeaderFits
  <2>4. CASE j # i
    BY <2>1, <2>2, <2>4, <1>6, <1>7
  <2> QED BY <2>3, <2>4
<1>9. broken' \/ Ran(fs, a)
  BY <1>5, <1>6, <1>8 DEF Ran
<1>10. i < Len(forwarders) => Destroyable(a, i + 1, fs)
  BY <1>1, <1>3, <1>6, <1>8, <1>9 DEF Destroyable
<1>11. forwarders[i].sdk \/ broken \/ forwarders[i].by # a
  BY <1>3, <1>5 DEF Ran
<1> QED BY <1>1, <1>3, <1>6, <1>10, <1>11 DEF fs, g

(* The sdk that is closed was opened, or one of the exceptions applies.           *)
LEMMA SdkIsMissed ==
    ASSUME IInv, ub = "none", NEW a \in Actors, at[a].pc = "forwarders",
           ~forwarders[at[a].i].sdk, ub' = "sdk",
           UNCHANGED <<is_active, forwarders, service, at, vsh, msgs, broken>>
    PROVE  IInv'
<1>1. broken \/ forwarders[at[a].i].by # a
  BY OneIsFreed
<1>2. FreedIsNotUsed'
  BY <1>1 DEF FreedIsNotUsed
<1>3. TypeOK' /\ HeadersComeFirst'
  BY DEF IInv, TypeOK, HeadersComeFirst
<1> QED BY <1>2, <1>3 DEF IInv

LEMMA PublisherStopped ==
    ASSUME IInv, ForwarderStopped("publisher")
    PROVE  IInv'
<1> DEFINE i  == at["publisher"].i
           f  == forwarders[i]
           fs == [forwarders EXCEPT ![i].freed = TRUE]
<1>1. /\ ub = "none" /\ at["publisher"].pc = "forwarders" /\ f.pc = "ended"
      /\ UNCHANGED <<is_active, vsh, msgs, broken>>
      /\ "publisher" \in Actors /\ Publisher = "forwarders" /\ TypeOK /\ HubOK
  BY DEF ForwarderStopped, JoinReturned, history, Actors, Publisher, IInv
<1>2. CASE ~f.sdk
  <2>1. ub' = "sdk" /\ UNCHANGED <<forwarders, service, at>>
    BY <1>2 DEF ForwarderStopped
  <2> QED BY <1>1, <1>2, <2>1, SdkIsMissed
<1>3. CASE f.sdk
  <2>1. IF i < Len(forwarders) THEN StopForwarder("publisher", i + 1, fs, service)
        ELSE AfterForwarders("publisher", service)
    BY <1>1, <1>3 DEF ForwarderStopped
  <2>2. Reload \notin {"live", "forwarders"} /\ is_active' = FALSE
    BY <1>1 DEF HubOK, ForwardersFit, TypeOK
  <2>3. AtHand(Services, service)
    BY <1>1, ServicesAtHand
  <2>4. vsh' \in BOOLEAN /\ broken' \in BOOLEAN
    BY <1>1 DEF TypeOK
  <2>5. fs \in Seq(Forwarders) /\ (i < Len(forwarders) => Destroyable("publisher", i + 1, fs))
    BY <1>1, OneIsFreed
  <2>6. CASE i < Len(forwarders)
    BY <1>1, <2>1, <2>2, <2>3, <2>4, <2>5, <2>6, PublisherTells
  <2>7. CASE ~(i < Len(forwarders))
    BY <1>1, <2>1, <2>2, <2>3, <2>4, <2>7, PublisherPasses
  <2> QED BY <2>6, <2>7
<1> QED BY <1>2, <1>3
-----------------------------------------------------------------------------
(* The reload tells one more forwarder of a stream that is published.             *)
LEMMA ReloadTells ==
    ASSUME IInv, ub = "none", Publisher = "live", Reload \in {"idle", "forwarders"},
           NEW i, NEW fs \in Seq(Forwarders), Len(fs) = Endpoints,
           Destroyable("reload", i, fs), StopForwarder("reload", i, fs, service),
           UNCHANGED <<is_active, vsh, broken, refused>>
    PROVE  IInv'
<1>0. "reload" \in Actors /\ "publisher" \in Actors \ {"reload"} /\ Actors = {"publisher", "reload"}
  BY DEF Actors
<1>1. TypeOK /\ HubOK
  BY DEF IInv
<1>2. /\ ub' = "none" /\ service' = service
      /\ forwarders' \in Seq(Forwarders) /\ Len(forwarders') = Endpoints
      /\ at' \in [Actors -> Positions]
      /\ at'["reload"] = [pc |-> "forwarders", i |-> i]
      /\ at'["publisher"] = at["publisher"]
      /\ ToldUpTo(forwarders', i)
      /\ \A j \in 1 .. Len(forwarders') : SdkFits(forwarders'[j])
      /\ broken' \/ Ran(forwarders', "reload")
      /\ HeadersFit' /\ HeadersComeFirst'
  BY <1>0, <1>1, OneIsTold
<1>3. Reload' = "forwarders" /\ at'["reload"].i = i /\ Publisher' = "live"
  BY <1>2 DEF Publisher, Reload
<1>4. TypeOK'
  BY <1>1, <1>2 DEF TypeOK
<1>5. ForwardersFit'
  BY <1>1, <1>2, <1>3 DEF HubOK, ForwardersFit
<1>6. SdksFit'
  BY <1>0, <1>2, <1>3 DEF SdksFit, Publisher
<1>7. ServicesFit'
  BY <1>1, <1>2, <1>3 DEF HubOK, ServicesFit, Joinable
<1> QED BY <1>2, <1>4, <1>5, <1>6, <1>7 DEF IInv, HubOK, FreedIsNotUsed

(* The reload starts the forwarders anew, if the stream is still published.       *)
LEMMA ReloadPasses ==
    ASSUME IInv, ub = "none", Publisher # "forwarders", Reload \in {"idle", "forwarders"},
           AfterForwarders("reload", service),
           UNCHANGED <<is_active, vsh, msgs, broken, refused>>
    PROVE  IInv'
<1>0. "reload" \in Actors /\ "publisher" \in Actors \ {"reload"} /\ Actors = {"publisher", "reload"}
  BY DEF Actors
<1>1. TypeOK /\ HubOK
  BY DEF IInv
<1>2. /\ forwarders' = IF is_active THEN Created("reload") ELSE <<>>
      /\ at' = [at EXCEPT !["reload"] = Idle] /\ service' = service /\ ub' = "none"
  BY DEF AfterForwarders, MayStart
<1>3. Idle \in Positions
  BY DEF Idle, Positions
<1>4. /\ at' \in [Actors -> Positions] /\ at'["reload"] = Idle
      /\ at'["publisher"] = at["publisher"]
  BY <1>0, <1>1, <1>2, <1>3, Moves DEF TypeOK
<1>5. Reload' = "idle" /\ Publisher' = Publisher
  BY <1>4 DEF Publisher, Reload, Idle
<1>6. /\ forwarders' \in Seq(Forwarders)
      /\ is_active => Len(forwarders') = Endpoints
      /\ ~is_active => forwarders' = <<>>
      /\ \A j \in 1 .. Len(forwarders') :
            /\ SdkFits(forwarders'[j]) /\ HeaderFits(forwarders'[j], vsh', (msgs = MaxMsgs)')
            /\ ~forwarders'[j].disposed /\ ~forwarders'[j].freed
  <2>1. CASE is_active
    BY <2>1, <1>0, <1>2, NewOnes, NewFits
  <2>2. CASE ~is_active
    <3>1. forwarders' = <<>>
      BY <2>2, <1>2
    <3>2. forwarders' \in Seq(Forwarders) /\ Len(forwarders') = 0
      BY <3>1, EmptySeq
    <3> QED BY <2>2, <3>1, <3>2
  <2> QED BY <2>1, <2>2
<1>7. TypeOK'
  BY <1>1, <1>2, <1>4, <1>6 DEF TypeOK
<1>8. ForwardersFit'
  BY <1>1, <1>5, <1>6 DEF HubOK, ForwardersFit, Untouched
<1>9. SdksFit'
  BY <1>0, <1>5, <1>6 DEF SdksFit, Publisher, Reload
<1>10. ServicesFit'
  <2>1. \A s \in Joinable : s \notin {"idle", "forwarders"}
    BY DEF Joinable
  <2> QED BY <1>1, <1>2, <1>5, <2>1 DEF HubOK, ServicesFit
<1>11. HeadersFit' /\ HeadersComeFirst'
  BY <1>6 DEF HeadersFit, HeadersComeFirst, HeaderFits
<1> QED BY <1>2, <1>7, <1>8, <1>9, <1>10, <1>11 DEF IInv, HubOK, FreedIsNotUsed

LEMMA ReloadStoppedOne ==
    ASSUME IInv, ForwarderStopped("reload")
    PROVE  IInv'
<1> DEFINE i  == at["reload"].i
           f  == forwarders[i]
           fs == [forwarders EXCEPT ![i].freed = TRUE]
<1>1. /\ ub = "none" /\ at["reload"].pc = "forwarders" /\ f.pc = "ended"
      /\ UNCHANGED <<is_active, vsh, msgs, broken, refused>>
      /\ "reload" \in Actors /\ Reload = "forwarders" /\ HubOK
  BY DEF ForwarderStopped, JoinReturned, history, Actors, Reload, IInv
<1>2. CASE ~f.sdk
  <2>1. ub' = "sdk" /\ UNCHANGED <<forwarders, service, at>>
    BY <1>2 DEF ForwarderStopped
  <2> QED BY <1>1, <1>2, <2>1, SdkIsMissed
<1>3. CASE f.sdk
  <2>1. IF i < Len(forwarders) THEN StopForwarder("reload", i + 1, fs, service)
        ELSE AfterForwarders("reload", service)
    BY <1>1, <1>3 DEF ForwarderStopped
  <2>2. Publisher = "live" /\ Len(forwarders) = Endpoints
    BY <1>1 DEF HubOK, ForwardersFit
  <2>3. /\ fs \in Seq(Forwarders) /\ Len(fs) = Endpoints
        /\ i < Len(forwarders) => Destroyable("reload", i + 1, fs)
    BY <1>1, <2>2, OneIsFreed
  <2>4. CASE i < Len(forwarders)
    BY <1>1, <2>1, <2>2, <2>3, <2>4, ReloadTells
  <2>5. CASE ~(i < Len(forwarders))
    BY <1>1, <2>1, <2>2, <2>5, ReloadPasses
  <2> QED BY <2>4, <2>5
<1> QED BY <1>2, <1>3

LEMMA ReloadForwardStep ==
    ASSUME IInv, ReloadForward
    PROVE  IInv'
<1>1. /\ ub = "none" /\ Reload = "idle" /\ TypeOK /\ HubOK
      /\ DestroyForwarders("reload", forwarders, service)
      /\ UNCHANGED <<is_active, vsh, msgs, broken, refused>>
  <2>1. Reloading /\ DestroyForwarders("reload", forwarders, service) /\ UNCHANGED refused
    BY DEF ReloadForward
  <2> QED BY <2>1 DEF Reloading, Comes, IInv, Reload
<1>2. forwarders \in Seq(Forwarders) /\ Len(forwarders) \in Nat
  BY <1>1, LenProperties DEF TypeOK
<1>3. CASE forwarders = <<>>
  <2>1. Len(forwarders) = 0
    BY <1>3, EmptySeq
  <2>2. Publisher # "forwarders"
    BY <1>1, <2>1 DEF HubOK, ForwardersFit, ToldUpTo
  <2> QED BY <1>1, <1>3, <2>2, ReloadPasses DEF DestroyForwarders
<1>4. CASE forwarders # <<>>
  <2>1. 1 \in 1 .. Len(forwarders) /\ StopForwarder("reload", 1, forwarders, service)
    BY <1>1, <1>2, <1>4, EmptySeq DEF DestroyForwarders
  <2>2. Publisher \in {"live", "forwarders"}
    BY <1>1, <1>4 DEF HubOK, ForwardersFit, TypeOK, Positions, Actors, Publisher
  <2>3. CASE Publisher = "live"
    <3>1. Untouched(forwarders) /\ Len(forwarders) = Endpoints
      BY <1>1, <2>3 DEF HubOK, ForwardersFit
    <3>2. \A j \in 1 .. Len(forwarders) :
             SdkFits(forwarders[j]) /\ (forwarders[j].pc = "new" => forwarders[j].by # "reload")
      BY <1>1 DEF HubOK, SdksFit, ReloadForward, Reloading, Comes
    <3>3. Ran(forwarders, "reload")
      BY <3>1, <3>2 DEF Untouched, Ran, SdkFits
    <3>4. \A j \in 1 .. Len(forwarders) : HeaderFits(forwarders[j], vsh', msgs' = MaxMsgs)
      BY <1>1 DEF HubOK, HeadersFit
    <3>5. Destroyable("reload", 1, forwarders)
      BY <1>2, <2>1, <3>1, <3>2, <3>3, <3>4 DEF Destroyable, Untouched
    <3> QED BY <1>1, <1>2, <2>1, <2>3, <3>1, <3>5, ReloadTells
  <2>4. CASE Publisher = "forwarders"
    <3>1. ToldUpTo(forwarders, at["publisher"].i)
      BY <1>1, <2>4 DEF HubOK, ForwardersFit
    <3>2. forwarders[1].disposed /\ \A j \in 1 .. Len(forwarders) : forwarders[j] \in Forwarders
      BY <1>2, <2>1, <3>1, ElementOfSeq DEF ToldUpTo
    <3>3. ub' = "forwarder" /\ service' = service
      BY <2>1, <3>2 DEF StopForwarder
    <3> DEFINE g == [forwarders[1] EXCEPT !.disposed = TRUE]
    <3>4. g \in Forwarders /\ g.bare = forwarders[1].bare
      BY <2>1, <3>2 DEF Forwarders
    <3>5. forwarders' = [forwarders EXCEPT ![1] = g]
      BY <2>1 DEF StopForwarder
    <3> HIDE DEF g
    <3>6. /\ forwarders' \in Seq(Forwarders) /\ Len(forwarders') = Len(forwarders)
          /\ \A j \in 1 .. Len(forwarders) : forwarders'[j].bare = forwarders[j].bare
      BY <1>2, <2>1, <3>4, <3>5, OneIsMarked
    <3>7. [pc |-> "forwarders", i |-> 1] \in Positions /\ "reload" \in Actors
      BY DEF Positions, Actors
    <3>8. at' \in [Actors -> Positions] /\ at'["reload"] = [pc |-> "forwarders", i |-> 1]
      BY <1>1, <2>1, <3>7, Moves DEF StopForwarder, TypeOK
    <3>9. TypeOK'
      BY <1>1, <3>3, <3>6, <3>8 DEF TypeOK
    <3>10. FreedIsNotUsed'
      BY <3>3, <3>8 DEF FreedIsNotUsed
    <3>11. HeadersComeFirst'
      BY <3>6 DEF HeadersComeFirst, IInv
    <3> QED BY <3>3, <3>9, <3>10, <3>11 DEF IInv
  <2> QED BY <2>2, <2>3, <2>4
<1> QED BY <1>3, <1>4
-----------------------------------------------------------------------------
(* A queue with one more message.                                             *)
LEMMA QueueGrows ==
    ASSUME NEW q \in Seq(Messages), NEW m \in Messages
    PROVE  /\ Longer(q, m) \in Seq(Messages)
           /\ Len(q) \in Nat /\ Len(q) <= Len(Longer(q, m)) /\ Len(Longer(q, m)) <= Len(q) + 1
           /\ Len(Longer(q, m)) > 0
           /\ Longer(q, m)[Len(Longer(q, m))] = m
           /\ \A j \in 1 .. Len(q) : Longer(q, m)[j] = q[j]
<1>1. Len(q) \in Nat /\ (q # <<>> => Len(q) > 0)
  BY EmptySeq, LenProperties
<1>2. CASE q # <<>> /\ q[Len(q)] = m
  BY <1>1, <1>2 DEF Longer
<1>3. CASE ~(q # <<>> /\ q[Len(q)] = m)
  BY <1>1, <1>3, AppendProperties DEF Longer
<1> QED BY <1>2, <1>3

LEMMA QueueIsCut ==
    ASSUME NEW q
    PROVE  /\ Shrunk(q) \in Seq(Messages)
           /\ ~Has(Shrunk(q), "frame")
           /\ Has(q, "sh") => HeaderLeads(Shrunk(q))
<1>1. CASE Has(q, "sh")
  <2>1. Shrunk(q) = <<"sh">>
    BY <1>1 DEF Shrunk
  <2>2. <<"sh">> \in Seq(Messages) /\ Len(<<"sh">>) = 1 /\ <<"sh">>[1] = "sh"
    BY DEF Messages
  <2>3. ~Has(<<"sh">>, "frame")
    BY <2>2 DEF Has
  <2>4. HeaderLeads(<<"sh">>)
    BY <2>2 DEF HeaderLeads
  <2> QED BY <2>1, <2>2, <2>3, <2>4
<1>2. CASE ~Has(q, "sh")
  BY <1>2, EmptySeq DEF Shrunk, Has
<1> QED BY <1>1, <1>2

(* A message that is queued leaves headers before frames: when it is a frame the    *)
(* source had a header before, when it is none of both it had not.               *)
LEMMA TakenFits ==
    ASSUME NEW f \in Forwarders, NEW m \in Messages, NEW cut \in BOOLEAN,
           NEW known \in BOOLEAN, NEW now \in BOOLEAN, NEW open \in BOOLEAN, NEW over \in BOOLEAN,
           now <=> known \/ m = "sh", ~open, HeaderFits(f, known, open), m = "frame" => known
    PROVE  LET t == Taken(f, m, cut)
           IN  /\ t \in Forwarders
               /\ t.by = f.by /\ t.pc = f.pc /\ t.disposed = f.disposed /\ t.freed = f.freed
               /\ t.sdk = f.sdk /\ t.hdr = f.hdr /\ t.bare = f.bare
               /\ t.sh = (f.sh \/ m = "sh")
               /\ HeaderFits(t, now, over)
<1> DEFINE q == f.queue
           l == Longer(q, m)
           n == IF cut THEN Shrunk(l) ELSE l
           t == Taken(f, m, cut)
<1>1. q \in Seq(Messages) /\ f.sh \in BOOLEAN
  BY DEF Forwarders
<1>2. /\ l \in Seq(Messages) /\ Len(q) \in Nat /\ Len(l) \in Nat
      /\ Len(q) <= Len(l) /\ Len(l) <= Len(q) + 1 /\ Len(l) > 0
      /\ l[Len(l)] = m /\ \A j \in 1 .. Len(q) : l[j] = q[j]
  BY <1>1, QueueGrows, LenProperties
<1>3. t = [f EXCEPT !.queue = n, !.sh = (f.sh \/ m = "sh")]
  BY DEF Taken
<1>4. n \in Seq(Messages)
  BY <1>2, QueueIsCut
<1> HIDE DEF n, l
<1>5. /\ t \in Forwarders
      /\ t.by = f.by /\ t.pc = f.pc /\ t.disposed = f.disposed /\ t.freed = f.freed
      /\ t.sdk = f.sdk /\ t.hdr = f.hdr /\ t.bare = f.bare /\ t.queue = n
      /\ t.sh = (f.sh \/ m = "sh")
  BY <1>1, <1>3, <1>4 DEF Forwarders
<1> HIDE DEF t
<1>6. ASSUME ~Has(q, "frame"), m # "frame" PROVE ~Has(l, "frame")
  <2> SUFFICES ASSUME NEW j \in 1 .. Len(l) PROVE l[j] # "frame"
    BY DEF Has
  <2>1. CASE j \in 1 .. Len(q)
    BY <2>1, <1>2, <1>6 DEF Has
  <2>2. CASE j \notin 1 .. Len(q)
    <3>1. j = Len(l)
      BY <2>2, <1>2
    <3> QED BY <3>1, <1>2, <1>6
  <2> QED BY <2>1, <2>2
<1>7. ASSUME HeaderLeads(q) PROVE HeaderLeads(l)
  <2>1. PICK k \in 1 .. Len(q) : q[k] = "sh" /\ \A j \in 1 .. k - 1 : q[j] # "frame"
    BY <1>7 DEF HeaderLeads
  <2>2. k \in 1 .. Len(l) /\ \A j \in 1 .. k - 1 : j \in 1 .. Len(q)
    BY <1>2
  <2> QED BY <2>1, <2>2, <1>2 DEF HeaderLeads
<1>8. ASSUME ~Has(q, "frame"), m = "sh" PROVE HeaderLeads(l)
  <2>1. Len(l) \in 1 .. Len(l) /\ l[Len(l)] = "sh"
    BY <1>2, <1>8
  <2>2. \A j \in 1 .. Len(l) - 1 : j \in 1 .. Len(q)
    BY <1>2
  <2>3. \A j \in 1 .. Len(l) - 1 : l[j] # "frame"
    BY <2>2, <1>2, <1>8 DEF Has
  <2> QED BY <2>1, <2>3 DEF HeaderLeads
<1>9. HeaderLeads(l) => Has(l, "sh")
  BY DEF HeaderLeads, Has
<1>10. ~f.bare /\ (~known => ~Has(q, "frame"))
  BY DEF HeaderFits
<1>11. ASSUME ~(known \/ m = "sh") PROVE ~Has(n, "frame")
  BY <1>6, <1>10, <1>11, QueueIsCut DEF n
<1>12. ASSUME f.pc \in {"sending", "receiving"}, ~f.hdr
       PROVE  HeaderLeads(n) \/ (~Has(n, "frame") /\ ~(known \/ m = "sh"))
  <2>1. HeaderLeads(q) \/ (~Has(q, "frame") /\ ~known)
    BY <1>12 DEF HeaderFits
  <2>2. HeaderLeads(l) \/ (~Has(l, "frame") /\ ~known /\ m # "sh")
    BY <2>1, <1>6, <1>7, <1>8
  <2>3. CASE cut
    BY <2>2, <2>3, <1>9, QueueIsCut DEF n
  <2>4. CASE ~cut
    BY <2>2, <2>4 DEF n
  <2> QED BY <2>3, <2>4
<1>13. HeaderFits(t, now, over)
  BY <1>5, <1>10, <1>11, <1>12 DEF HeaderFits
<1> QED BY <1>5, <1>13 DEF t

LEMMA OnMessageStep ==
    ASSUME IInv, NEW sh \in BOOLEAN, NEW failed \in SUBSET Muxers,
           NEW cut \in SUBSET (1 .. Endpoints), OnMessage(sh, failed, cut)
    PROVE  IInv'
<1> DEFINE m == IF sh THEN "sh" ELSE IF vsh THEN "frame" ELSE "early"
<1>1. /\ ub = "none" /\ Publisher = "live" /\ msgs # MaxMsgs /\ TypeOK /\ HubOK
      /\ vsh' = (vsh \/ sh) /\ UNCHANGED <<is_active, at, broken>>
      /\ service' = Put(service, failed, "down") /\ refused' = refused \cup failed
      /\ \A s \in failed : service[s] = "up"
  BY OriginHubAssumption DEF OnMessage, Receives, Comes, IInv, Publisher
<1>2. forwarders \in Seq(Forwarders) /\ Len(forwarders) \in Nat
      /\ \A j \in 1 .. Len(forwarders) : forwarders[j] \in Forwarders
  BY <1>1, LenProperties, ElementOfSeq DEF TypeOK
<1>3. Publisher' = "live" /\ Reload' = Reload
  BY <1>1 DEF Publisher, Reload
<1>4. /\ service' \in [Services -> States]
      /\ \A s \in Services : service'[s] = IF s \in failed THEN "down" ELSE service[s]
  BY <1>1 DEF TypeOK, Put, States
<1>5. ServicesFit'
  <2>1. \A s \in Joinable : s \in Services /\ s \notin failed
    BY Names DEF Joinable
  <2>2. \A s \in Muxers : s \in Services
    BY Names
  <2> QED BY <1>1, <1>3, <1>4, <2>1, <2>2 DEF HubOK, ServicesFit
<1>6. CASE \E j \in 1 .. Len(forwarders) : forwarders[j].freed
  <2>1. ub' = "forwarder" /\ forwarders' = forwarders
    BY <1>6 DEF OnMessage
  <2>2. Reload' = "forwarders"
    BY <1>1, <1>3, <1>6 DEF HubOK, ForwardersFit, Untouched
  <2>3. FreedIsNotUsed'
    BY <2>1, <2>2 DEF FreedIsNotUsed, Reload
  <2>4. TypeOK'
    BY <1>1, <1>4, <2>1 DEF TypeOK
  <2>5. HeadersComeFirst'
    BY <2>1 DEF IInv, HeadersComeFirst
  <2> QED BY <2>1, <2>3, <2>4, <2>5 DEF IInv
<1>7. CASE ~\E j \in 1 .. Len(forwarders) : forwarders[j].freed
  <2> DEFINE T(j) == Taken(forwarders[j], m, j \in cut)
  <2>1. ub' = "none" /\ forwarders' = [j \in 1 .. Len(forwarders) |-> T(j)]
    BY <1>1, <1>7 DEF OnMessage
  <2>2. m \in Messages /\ (m = "frame" => vsh) /\ (m = "sh" <=> sh)
    BY DEF Messages
  <2>3. ASSUME NEW j \in 1 .. Len(forwarders)
        PROVE  /\ T(j) \in Forwarders
               /\ T(j).by = forwarders[j].by /\ T(j).pc = forwarders[j].pc
               /\ T(j).disposed = forwarders[j].disposed /\ T(j).freed = forwarders[j].freed
               /\ T(j).sdk = forwarders[j].sdk /\ T(j).bare = forwarders[j].bare
               /\ HeaderFits(T(j), vsh \/ m = "sh", msgs' = MaxMsgs)
    <3> DEFINE f == forwarders[j]
               c == j \in cut
               o == msgs' = MaxMsgs
               p == msgs = MaxMsgs
               k == vsh \/ m = "sh"
    <3>1. /\ HeaderFits(f, vsh, p) /\ f \in Forwarders /\ ~p
          /\ c \in BOOLEAN /\ o \in BOOLEAN /\ p \in BOOLEAN /\ vsh \in BOOLEAN /\ k \in BOOLEAN
      BY <1>1, <1>2 DEF HubOK, HeadersFit, TypeOK
    <3>2. T(j) = Taken(f, m, c) /\ (k <=> vsh \/ m = "sh")
      OBVIOUS
    <3>3. m \in Messages /\ (m = "frame" => vsh)
      BY <2>2
    <3> HIDE DEF m, c, o, p, k, f
    <3>4. LET t == Taken(f, m, c)
          IN  /\ t \in Forwarders
              /\ t.by = f.by /\ t.pc = f.pc /\ t.disposed = f.disposed /\ t.freed = f.freed
              /\ t.sdk = f.sdk /\ t.hdr = f.hdr /\ t.bare = f.bare
              /\ t.sh = (f.sh \/ m = "sh")
              /\ HeaderFits(t, k, o)
      BY <3>1, <3>2, <3>3, TakenFits
    <3> QED BY <3>2, <3>4 DEF f, o, k
  <2> HIDE DEF T, m
  <2>4. forwarders' \in [1 .. Len(forwarders) -> Forwarders]
    BY <2>1, <2>3
  <2>5. forwarders' \in Seq(Forwarders)
    BY <1>2, <2>4, SeqDef
  <2>6. Len(forwarders') = Len(forwarders)
    BY <1>2, <2>1, <2>5, LenProperties
  <2>7. \A j \in 1 .. Len(forwarders) : forwarders'[j] = T(j)
    BY <2>1
  <2>8. vsh' <=> (vsh \/ m = "sh")
    BY <1>1, <2>2
  <2>9. \A j \in 1 .. Len(forwarders) :
           /\ forwarders'[j].by = forwarders[j].by /\ forwarders'[j].pc = forwarders[j].pc
           /\ forwarders'[j].disposed = forwarders[j].disposed
           /\ forwarders'[j].freed = forwarders[j].freed
           /\ forwarders'[j].sdk = forwarders[j].sdk /\ forwarders'[j].bare = forwarders[j].bare
           /\ HeaderFits(forwarders'[j], vsh', msgs' = MaxMsgs)
    BY <2>3, <2>7, <2>8 DEF HeaderFits
  <2>10. TypeOK'
    BY <1>1, <1>4, <2>1, <2>5 DEF TypeOK
  <2>11. ForwardersFit'
    <3>1. forwarders = <<>> => forwarders' = <<>>
      BY <2>5, <2>6, EmptySeq
    <3> QED BY <1>1, <1>3, <2>6, <2>9, <3>1 DEF HubOK, ForwardersFit, Untouched, ToldUpTo
  <2>12. SdksFit'
    BY <1>1, <2>6, <2>9 DEF HubOK, SdksFit, SdkFits, Ran
  <2>13. HeadersFit' /\ HeadersComeFirst'
    BY <2>6, <2>9 DEF HeadersFit, HeadersComeFirst, HeaderFits
  <2> QED BY <1>5, <2>1, <2>10, <2>11, <2>12, <2>13 DEF IInv, HubOK, FreedIsNotUsed
<1> QED BY <1>6, <1>7

LEMMA OnMessageFailsStep ==
    ASSUME IInv, NEW sh \in BOOLEAN, OnMessageFails(sh)
    PROVE  IInv'
<1>1. /\ ub = "none" /\ TypeOK /\ HubOK /\ vsh' = (vsh \/ sh) /\ msgs' = MaxMsgs /\ msgs # MaxMsgs
      /\ UNCHANGED <<is_active, forwarders, service, at, refused, broken, ub>>
  BY OriginHubAssumption DEF OnMessageFails, Receives, Comes, IInv
<1>2. TypeOK'
  BY <1>1 DEF TypeOK
<1>3. ForwardersFit' /\ SdksFit' /\ ServicesFit'
  BY <1>1 DEF HubOK, ForwardersFit, SdksFit, ServicesFit, Publisher, Reload, ToldUpTo, Untouched, Ran, SdkFits
<1>4. HeadersFit' /\ HeadersComeFirst'
  BY <1>1 DEF HubOK, HeadersFit, HeaderFits, HeadersComeFirst
<1> QED BY <1>1, <1>2, <1>3, <1>4 DEF IInv, HubOK, FreedIsNotUsed
-----------------------------------------------------------------------------
(* A step of a forwarder's coroutine changes nothing that its owner relies on.    *)
LEMMA ForwarderGoes ==
    ASSUME IInv, NEW i \in 1 .. Len(forwarders), NEW from, NEW f \in Forwarders,
           Goes(i, from, f),
           f.by = forwarders[i].by, f.disposed = forwarders[i].disposed,
           f.freed = forwarders[i].freed, forwarders[i].sdk => f.sdk,
           SdkFits(f), HeaderFits(f, vsh, msgs = MaxMsgs)
    PROVE  IInv'
<1>1. /\ ub = "none" /\ TypeOK /\ HubOK /\ forwarders' = [forwarders EXCEPT ![i] = f]
      /\ UNCHANGED <<is_active, service, vsh, at, msgs, reloads, refused, broken, ub>>
  BY DEF Goes, history, IInv
<1>2. forwarders \in Seq(Forwarders)
  BY <1>1 DEF TypeOK
<1>3. /\ forwarders' \in Seq(Forwarders) /\ Len(forwarders') = Len(forwarders)
      /\ \A j \in 1 .. Len(forwarders) : forwarders'[j] = IF j = i THEN f ELSE forwarders[j]
  BY <1>1, <1>2, OneIsMarked
<1>4. ASSUME NEW j \in 1 .. Len(forwarders)
      PROVE  /\ forwarders'[j].by = forwarders[j].by
             /\ forwarders'[j].disposed = forwarders[j].disposed
             /\ forwarders'[j].freed = forwarders[j].freed
             /\ forwarders[j].sdk => forwarders'[j].sdk
             /\ SdkFits(forwarders'[j])
             /\ HeaderFits(forwarders'[j], vsh, msgs = MaxMsgs)
  <2>1. SdkFits(forwarders[j]) /\ HeaderFits(forwarders[j], vsh, msgs = MaxMsgs)
    BY <1>1 DEF HubOK, SdksFit, HeadersFit
  <2>2. CASE j = i
    BY <1>3, <2>2
  <2>3. CASE j # i
    BY <1>3, <2>1, <2>3
  <2> QED BY <2>2, <2>3
<1>5. TypeOK'
  BY <1>1, <1>3 DEF TypeOK
<1>6. Publisher' = Publisher /\ Reload' = Reload
  BY <1>1 DEF Publisher, Reload
<1>7. ForwardersFit'
  <2>1. forwarders = <<>> => forwarders' = <<>>
    BY <1>2, <1>3, EmptySeq
  <2> QED BY <1>1, <1>3, <1>4, <1>6, <2>1 DEF HubOK, ForwardersFit, ToldUpTo, Untouched
<1>8. SdksFit'
  BY <1>1, <1>3, <1>4 DEF HubOK, SdksFit, Ran
<1>9. ServicesFit'
  BY <1>1, <1>6 DEF HubOK, ServicesFit
<1>10. HeadersFit' /\ HeadersComeFirst'
  BY <1>1, <1>3, <1>4 DEF HeadersFit, HeadersComeFirst, HeaderFits
<1> QED BY <1>1, <1>5, <1>7, <1>8, <1>9, <1>10 DEF IInv, HubOK, FreedIsNotUsed

(* What is known of a forwarder before it runs.                                 *)
LEMMA OneRuns ==
    ASSUME IInv, ub = "none", NEW i \in 1 .. Len(forwarders)
    PROVE  /\ forwarders[i] \in Forwarders
           /\ SdkFits(forwarders[i])
           /\ HeaderFits(forwarders[i], vsh, msgs = MaxMsgs)
BY ElementOfSeq DEF IInv, TypeOK, HubOK, SdksFit, HeadersFit

LEMMA CycleStep ==
    ASSUME IInv, NEW i \in 1 .. Len(forwarders), NEW from, Cycle(i, from)
    PROVE  IInv'
<1> DEFINE f == forwarders[i]
           e == [f EXCEPT !.pc = "ended"]
           c == [f EXCEPT !.pc = "connecting", !.sdk = TRUE, !.hdr = FALSE]
<1>1. ub = "none"
  BY DEF Cycle, Goes
<1>2. f \in Forwarders /\ SdkFits(f) /\ HeaderFits(f, vsh, msgs = MaxMsgs)
  BY <1>1, OneRuns
<1>3. CASE f.disposed
  <2>1. Goes(i, from, e)
    BY <1>3 DEF Cycle, Pulled
  <2>2. /\ e \in Forwarders /\ e.by = f.by /\ e.pc = "ended" /\ e.disposed = f.disposed
        /\ e.freed = f.freed /\ e.sdk = f.sdk /\ e.queue = f.queue /\ e.bare = f.bare
    BY <1>2 DEF Forwarders, Places
  <2> HIDE DEF e
  <2>3. SdkFits(e) /\ HeaderFits(e, vsh, msgs = MaxMsgs)
    BY <1>2, <1>3, <2>2 DEF SdkFits, HeaderFits
  <2> QED BY <2>1, <2>2, <2>3, ForwarderGoes
<1>4. CASE ~f.disposed
  <2>1. Goes(i, from, c)
    BY <1>4 DEF Cycle, Pulled
  <2>2. /\ c \in Forwarders /\ c.by = f.by /\ c.pc = "connecting" /\ c.disposed = f.disposed
        /\ c.freed = f.freed /\ c.sdk = TRUE /\ c.queue = f.queue /\ c.bare = f.bare
    BY <1>2 DEF Forwarders, Places
  <2> HIDE DEF c
  <2>3. SdkFits(c) /\ HeaderFits(c, vsh, msgs = MaxMsgs)
    BY <1>2, <2>2 DEF SdkFits, HeaderFits
  <2> QED BY <2>1, <2>2, <2>3, ForwarderGoes
<1> QED BY <1>3, <1>4

LEMMA FailsStep ==
    ASSUME IInv, NEW i \in 1 .. Len(forwarders), NEW from \in {"connecting", "sending", "receiving"},
           Fails(i, from)
    PROVE  IInv'
<1> DEFINE f == forwarders[i]
           p == [f EXCEPT !.pc = "pause"]
<1>1. ub = "none" /\ f.pc = from /\ Goes(i, from, p)
  BY DEF Fails, Goes
<1>2. f \in Forwarders /\ SdkFits(f) /\ HeaderFits(f, vsh, msgs = MaxMsgs)
  BY <1>1, OneRuns
<1>3. /\ p \in Forwarders /\ p.by = f.by /\ p.pc = "pause" /\ p.disposed = f.disposed
      /\ p.freed = f.freed /\ p.sdk = f.sdk /\ p.queue = f.queue /\ p.bare = f.bare
  BY <1>2 DEF Forwarders, Places
<1> HIDE DEF p
<1>4. SdkFits(p) /\ HeaderFits(p, vsh, msgs = MaxMsgs)
  BY <1>1, <1>2, <1>3 DEF SdkFits, HeaderFits
<1> QED BY <1>1, <1>3, <1>4, ForwarderGoes

(* A session that begins has the header of the source, if there is one.           *)
LEMMA ConnectedStep ==
    ASSUME IInv, NEW i \in 1 .. Len(forwarders), Connected(i)
    PROVE  IInv'
<1> DEFINE f == forwarders[i]
           t == IF vsh THEN Taken(f, "sh", FALSE) ELSE f
           n == [t EXCEPT !.pc = "sending", !.hdr = t.sh]
<1>1. ub = "none" /\ f.pc = "connecting" /\ Goes(i, "connecting", n) /\ vsh \in BOOLEAN
  BY DEF Connected, Goes, HeaderFirst, IInv, TypeOK
<1>2. f \in Forwarders /\ SdkFits(f) /\ HeaderFits(f, vsh, msgs = MaxMsgs)
  BY <1>1, OneRuns
<1>3. /\ t \in Forwarders /\ t.by = f.by /\ t.disposed = f.disposed /\ t.freed = f.freed
      /\ t.sdk = f.sdk /\ t.bare = f.bare
      /\ vsh => t.sh
      /\ ~vsh => t.queue = f.queue
  <2>1. CASE ~vsh
    BY <1>2, <2>1
  <2>2. CASE vsh
    <3>1. HeaderFits(f, TRUE, FALSE)
      BY <1>1, <1>2 DEF HeaderFits
    <3>2. "sh" \in Messages /\ TRUE \in BOOLEAN /\ FALSE \in BOOLEAN
      BY DEF Messages
    <3> DEFINE u == Taken(f, "sh", FALSE)
    <3>3. /\ u \in Forwarders /\ u.by = f.by /\ u.disposed = f.disposed /\ u.freed = f.freed
          /\ u.sdk = f.sdk /\ u.bare = f.bare /\ u.sh = (f.sh \/ "sh" = "sh")
      BY <1>2, <3>1, <3>2, TakenFits
    <3> QED BY <2>2, <3>3
  <2> QED BY <1>1, <2>1, <2>2
<1> HIDE DEF t
<1>4. t.sh \in BOOLEAN /\ t.queue \in Seq(Messages)
  BY <1>3 DEF Forwarders
<1>5. /\ n \in Forwarders /\ n.by = f.by /\ n.pc = "sending" /\ n.disposed = f.disposed
      /\ n.freed = f.freed /\ n.sdk = f.sdk /\ n.queue = t.queue /\ n.bare = f.bare
      /\ n.hdr = t.sh
  BY <1>3, <1>4 DEF Forwarders, Places
<1> HIDE DEF n
<1>6. SdkFits(n)
  BY <1>1, <1>2, <1>5 DEF SdkFits
<1>7. HeaderFits(n, vsh, msgs = MaxMsgs)
  BY <1>2, <1>3, <1>5 DEF HeaderFits
<1> QED BY <1>1, <1>5, <1>6, <1>7, ForwarderGoes

LEMMA SentStep ==
    ASSUME IInv, NEW i \in 1 .. Len(forwarders), Sent(i)
    PROVE  IInv'
<1> DEFINE f == forwarders[i]
           n == [f EXCEPT !.pc = "receiving"]
<1>1. ub = "none" /\ f.pc = "sending" /\ Goes(i, "sending", n)
  BY DEF Sent, Goes
<1>2. f \in Forwarders /\ SdkFits(f) /\ HeaderFits(f, vsh, msgs = MaxMsgs)
  BY <1>1, OneRuns
<1>3. /\ n \in Forwarders /\ n.by = f.by /\ n.pc = "receiving" /\ n.disposed = f.disposed
      /\ n.freed = f.freed /\ n.sdk = f.sdk /\ n.queue = f.queue /\ n.bare = f.bare /\ n.hdr = f.hdr
  BY <1>2 DEF Forwarders, Places
<1> HIDE DEF n
<1>4. SdkFits(n) /\ HeaderFits(n, vsh, msgs = MaxMsgs)
  BY <1>1, <1>2, <1>3 DEF SdkFits, HeaderFits
<1> QED BY <1>1, <1>3, <1>4, ForwarderGoes

(* What is sent has a header before its frames, if the session had none yet.       *)
LEMMA ForwardStep ==
    ASSUME IInv, NEW i \in 1 .. Len(forwarders), Forward(i)
    PROVE  IInv'
<1> DEFINE f == forwarders[i]
           n == [f EXCEPT !.pc = "sending", !.queue = <<>>,
                          !.hdr = @ \/ Has(f.queue, "sh"), !.bare = @ \/ Bare(f)]
<1>1. ub = "none" /\ f.pc = "receiving" /\ Goes(i, "receiving", n)
  BY DEF Forward, Goes
<1>2. f \in Forwarders /\ SdkFits(f) /\ HeaderFits(f, vsh, msgs = MaxMsgs)
  BY <1>1, OneRuns
<1>3. f.hdr \in BOOLEAN /\ f.queue \in Seq(Messages) /\ f.bare = FALSE
  BY <1>2 DEF Forwarders, HeaderFits
<1>4. ~Bare(f)
  <2> SUFFICES ASSUME NEW j \in 1 .. Len(f.queue), f.queue[j] = "frame", ~f.hdr
               PROVE  \E k \in 1 .. j - 1 : f.queue[k] = "sh"
    BY DEF Bare
  <2>1. Has(f.queue, "frame")
    BY DEF Has
  <2>2. HeaderLeads(f.queue)
    BY <1>1, <1>2, <2>1 DEF HeaderFits
  <2>3. PICK k \in 1 .. Len(f.queue) : f.queue[k] = "sh" /\ \A l \in 1 .. k - 1 : f.queue[l] # "frame"
    BY <2>2 DEF HeaderLeads
  <2>4. k # j /\ j \notin 1 .. k - 1 /\ Len(f.queue) \in Nat
    BY <1>3, <2>3, LenProperties
  <2>5. k \in 1 .. j - 1
    BY <2>4
  <2> QED BY <2>3, <2>5
<1>5. Has(f.queue, "sh") \in BOOLEAN /\ Bare(f) \in BOOLEAN
  BY DEF Has, Bare
<1>6. n = [f EXCEPT !.pc = "sending", !.queue = <<>>,
                    !.hdr = f.hdr \/ Has(f.queue, "sh"), !.bare = f.bare \/ Bare(f)]
  BY <1>2 DEF Forwarders
<1>7. (f.hdr \/ Has(f.queue, "sh")) \in BOOLEAN /\ (f.bare \/ Bare(f)) = FALSE
  BY <1>3, <1>4
<1>8. /\ n \in Forwarders /\ n.by = f.by /\ n.pc = "sending" /\ n.disposed = f.disposed
      /\ n.freed = f.freed /\ n.sdk = f.sdk /\ n.queue = <<>> /\ n.bare = FALSE
      /\ n.hdr = (f.hdr \/ Has(f.queue, "sh"))
  BY <1>2, <1>6, <1>7, EmptySeq DEF Forwarders, Places
<1> HIDE DEF n
<1>9. SdkFits(n)
  BY <1>1, <1>2, <1>8 DEF SdkFits
<1>10. ~Has(<<>>, "frame")
  BY DEF Has
<1>11. ASSUME ~n.hdr PROVE ~vsh \/ msgs = MaxMsgs
  <2>1. ~f.hdr /\ ~Has(f.queue, "sh")
    BY <1>8, <1>11
  <2>2. ~HeaderLeads(f.queue)
    BY <2>1 DEF HeaderLeads, Has
  <2> QED BY <1>1, <1>2, <2>1, <2>2 DEF HeaderFits
<1>12. HeaderFits(n, vsh, msgs = MaxMsgs)
  BY <1>8, <1>10, <1>11 DEF HeaderFits
<1> QED BY <1>1, <1>8, <1>9, <1>12, ForwarderGoes

LEMMA ForwarderRunsStep ==
    ASSUME IInv, NEW i \in 1 .. Endpoints, ForwarderRuns(i)
    PROVE  IInv'
<1>1. i \in 1 .. Len(forwarders)
  BY DEF ForwarderRuns
<1>2. CASE Cycle(i, "new") \/ Cycle(i, "pause")
  BY <1>1, <1>2, CycleStep
<1>3. CASE Connected(i)
  BY <1>1, <1>3, ConnectedStep
<1>4. CASE Sent(i)
  BY <1>1, <1>4, SentStep
<1>5. CASE Forward(i)
  BY <1>1, <1>5, ForwardStep
<1>6. CASE \E from \in {"connecting", "sending", "receiving"} : Fails(i, from)
  BY <1>1, <1>6, FailsStep
<1> QED BY <1>2, <1>3, <1>4, <1>5, <1>6 DEF ForwarderRuns
-----------------------------------------------------------------------------
(* A service that nobody stops, or that the reload has stopped, is started again     *)
(* or not.                                                                   *)
LEMMA ServiceIsStarted ==
    ASSUME TypeOK, HubOK, NEW s \in Services, NEW ok \in BOOLEAN,
           Restarted(s, ok), s \in Joinable => s # Publisher, Reload \in {"idle", s},
           service[s] = "stopping" => s = Reload,
           Publisher' = Publisher, Reload' = "idle"
    PROVE  ServicesFit' /\ service' \in [Services -> States]
<1> DEFINE v == IF is_active /\ ok THEN "up" ELSE "down"
<1>1. service' = [service EXCEPT ![s] = v] /\ v \in {"up", "down"}
  BY DEF Restarted, MayStart
<1>2. /\ service' \in [Services -> States]
      /\ \A r \in Services : service'[r] = IF r = s THEN v ELSE service[r]
  BY <1>1 DEF TypeOK, States
<1>3. /\ \A r \in Joinable : r \in Services /\ r # "idle"
      /\ \A r \in Muxers : r \in Services
  BY Names DEF Joinable
<1>4. is_active <=> Publisher = "live"
  BY DEF HubOK, ForwardersFit
<1>5. is_active => (s \in refused' <=> ~ok) /\ \A r \in Services \ {s} : r \in refused' <=> r \in refused
  BY DEF Restarted, MayStart
<1>6. Publisher = "live" => (v = "down" <=> s \in refused')
  BY <1>4, <1>5
<1>7. Publisher # "live" => v = "down"
  BY <1>4
<1> HIDE DEF v
<1>8. \A r \in Joinable : service'[r] = "stopping" <=> r \in {Publisher, "idle"}
  BY <1>1, <1>2, <1>3 DEF HubOK, ServicesFit
<1>9. \A r \in Muxers : service'[r] # "stopping"
  BY <1>1, <1>2, <1>3 DEF HubOK, ServicesFit
<1>10. ASSUME Publisher = "live", NEW r \in Services, service'[r] # "stopping"
       PROVE  service'[r] = "down" <=> r \in refused'
  BY <1>10, <1>2, <1>4, <1>5, <1>6 DEF HubOK, ServicesFit
<1>11. /\ Publisher = "idle" => \A r \in Services : service'[r] = "down"
       /\ Publisher = "exec" => \A r \in Services \ {"exec"} : service'[r] = "down"
  BY <1>2, <1>7 DEF HubOK, ServicesFit
<1> QED BY <1>2, <1>8, <1>9, <1>10, <1>11 DEF ServicesFit

(* The rest is as it was.                                                      *)
LEMMA ReloadEnds ==
    ASSUME IInv, ub = "none", ub' = "none", Reload # "forwarders",
           UNCHANGED <<is_active, forwarders, vsh, msgs, broken>>,
           at' \in [Actors -> Positions], at'["publisher"] = at["publisher"],
           Reload' \in {"idle", "encoder", "exec"},
           ServicesFit', service' \in [Services -> States]
    PROVE  IInv'
<1>0. Actors = {"publisher", "reload"}
  BY DEF Actors
<1>1. TypeOK' /\ HeadersComeFirst' /\ HeadersFit'
  BY DEF IInv, TypeOK, HeadersComeFirst, HubOK, HeadersFit
<1>2. Publisher' = Publisher
  BY DEF Publisher
<1>3. ForwardersFit'
  BY <1>2 DEF IInv, HubOK, ForwardersFit, ToldUpTo, Untouched
<1>4. SdksFit'
  BY <1>0 DEF IInv, HubOK, SdksFit, SdkFits, Ran, Reload
<1> QED BY <1>1, <1>3, <1>4 DEF IInv, HubOK, FreedIsNotUsed

LEMMA ReloadMuxerStep ==
    ASSUME IInv, NEW ok \in BOOLEAN, NEW s \in Muxers, ReloadMuxer(s, ok)
    PROVE  IInv'
<1>1. /\ ub = "none" /\ Reload = "idle" /\ TypeOK /\ HubOK /\ Restarted(s, ok)
      /\ UNCHANGED <<is_active, forwarders, at, vsh, msgs, broken, ub>>
  BY DEF ReloadMuxer, Reloading, Comes, IInv, Reload
<1>2. Publisher' = Publisher /\ Reload' = "idle"
  BY <1>1 DEF Publisher, Reload
<1>3. s \in Services /\ service[s] # "stopping" /\ s \notin Joinable
  BY <1>1, Names DEF HubOK, ServicesFit, Joinable
<1>4. ServicesFit' /\ service' \in [Services -> States]
  BY <1>1, <1>2, <1>3, ServiceIsStarted
<1> QED BY <1>1, <1>2, <1>4, ReloadEnds DEF TypeOK

LEMMA ReloadStoppedStep ==
    ASSUME IInv, NEW ok \in BOOLEAN, NEW s \in Joinable, ReloadStopped(s, ok)
    PROVE  IInv'
<1>1. /\ ub = "none" /\ Reload = "idle" /\ TypeOK /\ HubOK /\ Restarted(s, ok)
      /\ service[s] = "down"
      /\ UNCHANGED <<is_active, forwarders, at, vsh, msgs, broken, ub>>
  BY DEF ReloadStopped, Reloading, Comes, IInv, Reload
<1>2. Publisher' = Publisher /\ Reload' = "idle"
  BY <1>1 DEF Publisher, Reload
<1>3. s \in Services /\ s # Publisher
  BY <1>1, Names DEF HubOK, ServicesFit, Joinable
<1>4. ServicesFit' /\ service' \in [Services -> States]
  BY <1>1, <1>2, <1>3, ServiceIsStarted
<1> QED BY <1>1, <1>2, <1>4, ReloadEnds DEF TypeOK

LEMMA ReloadJoinedStep ==
    ASSUME IInv, NEW ok \in BOOLEAN, ReloadJoined(ok)
    PROVE  IInv'
<1>1. /\ ub = "none" /\ Reload \in Joinable /\ TypeOK /\ HubOK /\ Restarted(Reload, ok)
      /\ at' = [at EXCEPT !["reload"] = Idle]
      /\ UNCHANGED <<is_active, forwarders, vsh, msgs, broken, ub>>
  BY DEF ReloadJoined, IInv, Reload
<1>2. Idle \in Positions /\ "reload" \in Actors /\ "publisher" \in Actors \ {"reload"}
  BY DEF Idle, Positions, Actors
<1>3. /\ at' \in [Actors -> Positions] /\ at'["reload"] = Idle
      /\ at'["publisher"] = at["publisher"]
  BY <1>1, <1>2, Moves DEF TypeOK
<1>4. Publisher' = Publisher /\ Reload' = "idle"
  BY <1>3 DEF Publisher, Reload, Idle
<1>5. Reload \in Services /\ Reload # "forwarders" /\ Reload # Publisher
  BY <1>1, Names DEF HubOK, ServicesFit, Joinable
<1>6. ServicesFit' /\ service' \in [Services -> States]
  BY <1>1, <1>4, <1>5, ServiceIsStarted
<1> QED BY <1>1, <1>3, <1>4, <1>5, <1>6, ReloadEnds

LEMMA ReloadJoinableStep ==
    ASSUME IInv, NEW s \in Joinable, ReloadJoinable(s)
    PROVE  IInv'
<1>1. /\ ub = "none" /\ Reload = "idle" /\ TypeOK /\ HubOK /\ service[s] # "down"
      /\ service' = [service EXCEPT ![s] = "stopping"]
      /\ ub' = IF service[s] = "stopping" THEN "service" ELSE ub
      /\ at' = [at EXCEPT !["reload"] = [pc |-> s, i |-> 0]]
      /\ UNCHANGED <<is_active, forwarders, vsh, msgs, broken, refused>>
  BY DEF ReloadJoinable, Reloading, Comes, IInv, Reload
<1>2. [pc |-> s, i |-> 0] \in Positions /\ "reload" \in Actors /\ "publisher" \in Actors \ {"reload"}
  BY DEF Joinable, Positions, Actors
<1>3. /\ at' \in [Actors -> Positions] /\ at'["reload"] = [pc |-> s, i |-> 0]
      /\ at'["publisher"] = at["publisher"]
  BY <1>1, <1>2, Moves DEF TypeOK
<1>4. Publisher' = Publisher /\ Reload' = s
  BY <1>3 DEF Publisher, Reload
<1>5. /\ \A r \in Joinable : r \in Services /\ r # "idle"
      /\ \A r \in Muxers : r \in Services /\ r # s
  BY Names DEF Joinable
<1>6. /\ service' \in [Services -> States]
      /\ \A r \in Services : service'[r] = IF r = s THEN "stopping" ELSE service[r]
  BY <1>1, <1>5 DEF TypeOK, States
<1>7. CASE service[s] = "stopping"
  <2>1. Publisher = s
    BY <1>1, <1>5, <1>7 DEF HubOK, ServicesFit
  <2>2. ub' = "service" /\ Publisher' = Reload'
    BY <1>1, <1>4, <1>7, <2>1
  <2>3. FreedIsNotUsed'
    BY <2>2 DEF FreedIsNotUsed, Publisher, Reload
  <2>4. TypeOK' /\ HeadersComeFirst'
    BY <1>1, <1>3, <1>6, <2>2 DEF IInv, TypeOK, HeadersComeFirst
  <2> QED BY <2>2, <2>3, <2>4 DEF IInv
<1>8. CASE service[s] # "stopping"
  <2>1. Publisher \notin {"idle", "exec", s}
    <3>1. Publisher # s
      BY <1>8 DEF HubOK, ServicesFit, IInv, ReloadJoinable, Reloading, Comes
    <3>2. Publisher = "exec" => s = "exec"
      BY <1>1, <1>5 DEF HubOK, ServicesFit
    <3>3. Publisher # "idle"
      BY <1>1, <1>5 DEF HubOK, ServicesFit
    <3> QED BY <3>1, <3>2, <3>3
  <2>2. ServicesFit'
    BY <1>1, <1>4, <1>5, <1>6, <2>1 DEF HubOK, ServicesFit
  <2>3. ub' = "none" /\ Reload' \in {"idle", "encoder", "exec"}
    BY <1>1, <1>4, <1>8 DEF Joinable
  <2> QED BY <1>1, <1>3, <1>6, <2>2, <2>3, ReloadEnds
<1> QED BY <1>7, <1>8
-----------------------------------------------------------------------------
LEMMA StutterKeeps ==
    ASSUME IInv, UNCHANGED vars
    PROVE  IInv'
<1>1. UNCHANGED <<is_active, forwarders, service, vsh, at, msgs, refused, broken, ub>>
  BY DEF vars, history
<1>2. TypeOK' /\ FreedIsNotUsed' /\ HeadersComeFirst'
  BY <1>1 DEF IInv, TypeOK, FreedIsNotUsed, HeadersComeFirst
<1>3. HubOK => HubOK'
  BY <1>1 DEF HubOK, ForwardersFit, SdksFit, ServicesFit, HeadersFit, HeaderFits, SdkFits,
              Publisher, Reload, ToldUpTo, Untouched, Ran
<1> QED BY <1>1, <1>2, <1>3 DEF IInv

LEMMA PublisherKeeps ==
    ASSUME IInv, PublisherMoves
    PROVE  IInv'
<1>1. CASE OnPublish
  BY <1>1, OnPublishStep
<1>2. CASE OnUnpublish
  BY <1>2, OnUnpublishStep
<1>3. CASE ServiceStopped
  BY <1>3, ServiceStoppedStep
<1>4. CASE ForwarderStopped("publisher")
  BY <1>4, PublisherStopped
<1>5. CASE OnPublishFails({})
  BY <1>5, OnPublishFailsStep
<1>6. CASE \E M \in SUBSET Muxers : OnPublishFails({"encoder"} \union M)
  <2>1. PICK M \in SUBSET Muxers : OnPublishFails({"encoder"} \union M)
    BY <1>6
  <2>2. {"encoder"} \union M \in SUBSET Services
    BY Names
  <2> QED BY <2>1, <2>2, OnPublishFailsStep
<1>7. CASE \E sh \in BOOLEAN, failed \in SUBSET Muxers, cut \in SUBSET (1 .. Endpoints) :
              OnMessage(sh, failed, cut)
  BY <1>7, OnMessageStep
<1>8. CASE \E sh \in BOOLEAN : OnMessageFails(sh)
  BY <1>8, OnMessageFailsStep
<1> QED BY <1>1, <1>2, <1>3, <1>4, <1>5, <1>6, <1>7, <1>8 DEF PublisherMoves

LEMMA ReloadKeeps ==
    ASSUME IInv, ReloadMoves
    PROVE  IInv'
<1>1. CASE ReloadForward
  BY <1>1, ReloadForwardStep
<1>2. CASE ForwarderStopped("reload")
  BY <1>2, ReloadStoppedOne
<1>3. CASE \E ok \in BOOLEAN, s \in Muxers : ReloadMuxer(s, ok)
  BY <1>3, ReloadMuxerStep
<1>4. CASE \E ok \in BOOLEAN, s \in Joinable : ReloadStopped(s, ok)
  BY <1>4, ReloadStoppedStep
<1>5. CASE \E ok \in BOOLEAN : ReloadJoined(ok)
  BY <1>5, ReloadJoinedStep
<1>6. CASE \E s \in Joinable : ReloadJoinable(s)
  BY <1>6, ReloadJoinableStep
<1> QED BY <1>1, <1>2, <1>3, <1>4, <1>5, <1>6 DEF ReloadMoves

LEMMA StepKeeps ==
    ASSUME IInv, [Next]_vars
    PROVE  IInv'
<1>1. CASE PublisherMoves
  BY <1>1, PublisherKeeps
<1>2. CASE ReloadMoves
  BY <1>2, ReloadKeeps
<1>3. CASE \E i \in 1 .. Endpoints : ForwarderRuns(i)
  BY <1>3, ForwarderRunsStep
<1>4. CASE UNCHANGED vars
  BY <1>4, StutterKeeps
<1> QED BY <1>1, <1>2, <1>3, <1>4 DEF Next

(* The parts of the hub fit together in every state, as long as no freed object    *)
(* was used.                                                                 *)
THEOREM HubStaysWhole == Spec => []IInv
<1>1. Init => IInv
  BY InitFits
<1>2. IInv /\ [Next]_vars => IInv'
  BY StepKeeps
<1> QED BY <1>1, <1>2, PTL DEF Spec

(* Whatever the number of servers, of services and of reloads: messages, the        *)
(* unpublish and the coroutines of the forwarders use nothing that was freed, but   *)
(* in the cases that FreedIsNotUsed names (SrsOriginHub::on_unpublish,             *)
(* destroy_forwarders and the on_reload_vhost_* handlers, which block).          *)
THEOREM FreedOnlyWhereNamed == Spec => []FreedIsNotUsed
BY HubStaysWhole, PTL DEF IInv

(* No frame reaches another server before the header it needs, in any session of    *)
(* any forwarder (SrsForwarder::on_forwarder_start behind connect, forward, and the *)
(* shrink of its queue).                                                     *)
THEOREM HeadersLead == Spec => []HeadersComeFirst
BY HubStaysWhole, PTL DEF IInv

(* Between a publish, an unpublish and reloads, however they overlapped, the         *)
(* forwarders exist and the services run just while the stream is published.      *)
THEOREM NothingOutlivesStream == Spec => []ServicesFollowStream
<1>1. IInv => ServicesFollowStream
  <2> SUFFICES ASSUME IInv, ub = "none", at["reload"] = Idle, Publisher \in {"idle", "live"}
               PROVE  /\ is_active = (Publisher = "live")
                      /\ Len(forwarders) = IF is_active THEN Endpoints ELSE 0
                      /\ \A i \in 1 .. Len(forwarders) : ~forwarders[i].disposed
                      /\ service = IF is_active THEN Put(Put(service, Services, "up"), refused, "down")
                                   ELSE AllDown
    BY Zenon DEF ServicesFollowStream, Publisher
  <2>1. TypeOK /\ HubOK /\ Reload = "idle"
    BY DEF IInv, Reload, Idle
  <2>2. is_active <=> Publisher = "live"
    BY <2>1 DEF HubOK, ForwardersFit
  <2>3. is_active \in BOOLEAN /\ (Publisher = "live") \in BOOLEAN
    BY <2>1 DEF TypeOK
  <2>4. is_active = (Publisher = "live")
    BY <2>2, <2>3, Zenon
  <2>5. Len(<<>>) = 0
    BY EmptySeq
  <2>6. Len(forwarders) = IF is_active THEN Endpoints ELSE 0
    BY <2>1, <2>2, <2>5 DEF HubOK, ForwardersFit
  <2>7. \A i \in 1 .. Len(forwarders) : ~forwarders[i].disposed
    BY <2>1 DEF HubOK, ForwardersFit, Untouched
  <2>8. service = [s \in Services |-> service[s]]
    BY <2>1 DEF TypeOK
  <2>9. CASE is_active
    <3>1. \A s \in Services : service[s] # "stopping"
      BY <2>1, <2>2, <2>9, Names DEF HubOK, ServicesFit, Joinable
    <3>2. \A s \in Services : service[s] = IF s \in refused THEN "down" ELSE "up"
      BY <2>1, <2>2, <2>9, <3>1 DEF HubOK, ServicesFit, TypeOK, States
    <3>3. Put(Put(service, Services, "up"), refused, "down")
             = [s \in Services |-> IF s \in refused THEN "down" ELSE "up"]
      BY DEF Put
    <3>4. service = Put(Put(service, Services, "up"), refused, "down")
      BY <2>8, <3>2, <3>3
    <3> QED BY <2>4, <2>6, <2>7, <2>9, <3>4, Zenon
  <2>10. CASE ~is_active
    <3>1. \A s \in Services : service[s] = "down"
      BY <2>1, <2>2, <2>10 DEF HubOK, ServicesFit
    <3>2. service = AllDown
      BY <2>8, <3>1 DEF AllDown
    <3> QED BY <2>4, <2>6, <2>7, <2>10, <3>2, Zenon
  <2> QED BY <2>9, <2>10
<1> QED BY <1>1, HubStaysWhole, PTL
-----------------------------------------------------------------------------
(* How far an unpublish is from its end: the forwarders it has not joined, how   *)
(* far the one it joins is from ending, and the services behind them.          *)
ToEnd(f) ==
    CASE f.pc \in {"connecting", "sending", "receiving"} -> 2
      [] f.pc \in {"new", "pause"} -> 1
      [] OTHER -> 0

ToIdle(where, fs) ==
    CASE where.pc = "forwarders" -> 4 * (Len(fs) - where.i) + ToEnd(fs[where.i]) + 3
      [] where.pc = "encoder" -> 2
      [] where.pc = "exec" -> 1
      [] OTHER -> 0

Unpublishing == Publisher \in {"forwarders", "encoder", "exec"}

Joined(i) == Publisher = "forwarders" /\ at["publisher"].i = i

(* No step takes it further away, whatever is reloaded meanwhile, and each step   *)
(* of its own or of the forwarder that it joins brings it nearer or meets        *)
(* something freed.                                                          *)
UnpublishAdvances ==
    [][ub = "none" /\ Unpublishing =>
        /\ ToIdle(at'["publisher"], forwarders') <= ToIdle(at["publisher"], forwarders)
        /\ \/ ForwarderStopped("publisher") \/ ServiceStopped
           \/ \E i \in 1 .. Endpoints : Joined(i) /\ ForwarderRuns(i)
           => \/ ToIdle(at'["publisher"], forwarders') < ToIdle(at["publisher"], forwarders)
              \/ ub' # "none"]_vars

LEMMA EndsInTwo == \A f : ToEnd(f) \in 0 .. 2
BY DEF ToEnd

LEMMA ToIdleIsNumber ==
    ASSUME NEW where \in Positions, NEW fs \in Seq(Forwarders)
    PROVE  ToIdle(where, fs) \in Int
<1>1. Len(fs) \in Nat /\ where.i \in Nat
  BY LenProperties DEF Positions
<1>2. ToEnd(fs[where.i]) \in 0 .. 2
  BY EndsInTwo
<1> QED BY <1>1, <1>2 DEF ToIdle

(* Behind the forwarders only the services of S that are not down are waited for. *)
LEMMA ServicesAreNear ==
    ASSUME TypeOK, NEW S, NEW sv, StopServices(S, sv)
    PROVE  \A fs :
              /\ ToIdle(at'["publisher"], fs) \in 0 .. 2
              /\ "encoder" \notin S => ToIdle(at'["publisher"], fs) \in 0 .. 1
              /\ "encoder" \notin S /\ sv["exec"] = "down" => ToIdle(at'["publisher"], fs) = 0
<1> DEFINE busy == {s \in S \intersect Joinable : sv[s] # "down"}
           next == IF "encoder" \in busy THEN "encoder" ELSE "exec"
<1>1. CASE busy = {}
  <2>1. at' = [at EXCEPT !["publisher"] = Idle]
    BY <1>1 DEF StopServices
  <2>2. at'["publisher"] = Idle
    BY <2>1 DEF TypeOK, Actors
  <2> QED BY <2>2 DEF Idle, ToIdle
<1>2. CASE busy # {}
  <2>1. at' = [at EXCEPT !["publisher"] = [pc |-> next, i |-> 0]]
    BY <1>2 DEF StopServices
  <2>2. at'["publisher"].pc = next
    BY <2>1 DEF TypeOK, Actors
  <2>3. next \in busy /\ next \in {"encoder", "exec"}
    BY <1>2 DEF Joinable
  <2>4. "encoder" \notin S => next = "exec"
    BY <2>3
  <2>5. sv["exec"] = "down" => next = "encoder"
    BY <2>3
  <2> QED BY <2>2, <2>3, <2>4, <2>5 DEF ToIdle
<1> QED BY <1>1, <1>2

(* An unpublish that joins a forwarder: it was told to end, and so far from the    *)
(* end of the unpublish.                                                     *)
LEMMA JoinsForwarder ==
    ASSUME IInv, ub = "none", Publisher = "forwarders"
    PROVE  LET i == at["publisher"].i
           IN  /\ i \in 1 .. Len(forwarders) /\ Len(forwarders) \in Nat
               /\ \A j \in 1 .. i : forwarders[j].disposed
               /\ Reload # "forwarders"
               /\ ToIdle(at["publisher"], forwarders)
                    = 4 * (Len(forwarders) - i) + ToEnd(forwarders[i]) + 3
<1>1. ToldUpTo(forwarders, at["publisher"].i) /\ Reload # "forwarders"
  BY DEF IInv, HubOK, ForwardersFit
<1>2. Len(forwarders) \in Nat
  BY LenProperties DEF IInv, TypeOK
<1> QED BY <1>1, <1>2 DEF ToldUpTo, ToIdle, Publisher

LEMMA ForwarderIsJoined ==
    ASSUME IInv, ub = "none", ForwarderStopped("publisher")
    PROVE  \/ ToIdle(at'["publisher"], forwarders') < ToIdle(at["publisher"], forwarders)
           \/ /\ ub' # "none"
              /\ ToIdle(at'["publisher"], forwarders') = ToIdle(at["publisher"], forwarders)
<1> DEFINE i == at["publisher"].i
           f == forwarders[i]
           fs == [forwarders EXCEPT ![i].freed = TRUE]
           misuse == IF ~f.sdk THEN "sdk" ELSE IF f.pc # "ended" THEN "forwarder" ELSE "none"
<1>1. Publisher = "forwarders"
  BY DEF ForwarderStopped, Publisher
<1>2. /\ i \in 1 .. Len(forwarders) /\ Len(forwarders) \in Nat
      /\ ToIdle(at["publisher"], forwarders) = 4 * (Len(forwarders) - i) + ToEnd(f) + 3
  BY <1>1, JoinsForwarder
<1>3. ToEnd(f) \in 0 .. 2
  BY EndsInTwo
<1>4. CASE misuse # "none"
  BY <1>4 DEF ForwarderStopped
<1>5. CASE misuse = "none" /\ i < Len(forwarders)
  <2>1. StopForwarder("publisher", i + 1, fs, service)
    BY <1>5 DEF ForwarderStopped
  <2>2. at'["publisher"] = [pc |-> "forwarders", i |-> i + 1]
    BY <2>1 DEF StopForwarder, IInv, TypeOK, Actors
  <2>3. Len(forwarders') = Len(forwarders)
    <3>1. forwarders' = [fs EXCEPT ![i + 1].disposed = TRUE]
      BY <2>1 DEF StopForwarder
    <3>2. forwarders \in Seq(Forwarders)
      BY DEF IInv, TypeOK
    <3>3. f \in Forwarders /\ [f EXCEPT !.freed = TRUE] \in Forwarders
      <4>1. f \in Forwarders
        BY <1>2, <3>2, ElementOfSeq
      <4> QED BY <4>1 DEF Forwarders
    <3>4. fs \in Seq(Forwarders) /\ Len(fs) = Len(forwarders)
      BY <1>2, <3>2, <3>3, OneIsMarked
    <3> HIDE DEF fs
    <3>5. i + 1 \in 1 .. Len(fs)
      BY <1>2, <1>5, <3>4
    <3>6. fs[i + 1] \in Forwarders /\ [fs[i + 1] EXCEPT !.disposed = TRUE] \in Forwarders
      <4>1. fs[i + 1] \in Forwarders
        BY <3>4, <3>5, ElementOfSeq
      <4> QED BY <4>1 DEF Forwarders
    <3> QED BY <3>1, <3>4, <3>5, <3>6, OneIsMarked
  <2>4. ToEnd(forwarders'[i + 1]) \in 0 .. 2
    BY EndsInTwo
  <2>5. ToIdle(at'["publisher"], forwarders')
          = 4 * (Len(forwarders) - (i + 1)) + ToEnd(forwarders'[i + 1]) + 3
    BY <2>2, <2>3 DEF ToIdle
  <2> DEFINE len == Len(forwarders)
             end == ToEnd(f)
             end2 == ToEnd(forwarders'[i + 1])
             before == ToIdle(at["publisher"], forwarders)
             after == ToIdle(at'["publisher"], forwarders')
  <2>6. /\ i \in 1 .. len /\ len \in Nat /\ end \in 0 .. 2 /\ end2 \in 0 .. 2
        /\ before = 4 * (len - i) + end + 3
        /\ after = 4 * (len - (i + 1)) + end2 + 3
    BY <1>2, <1>3, <2>4, <2>5
  <2> HIDE DEF len, end, end2, before, after, i
  <2>7. after < before
    BY <2>6
  <2> QED BY <2>7 DEF after, before
<1>6. CASE misuse = "none" /\ ~(i < Len(forwarders))
  <2>1. AfterForwarders("publisher", service)
    BY <1>6 DEF ForwarderStopped
  <2>2. StopServices(Services, service)
    BY <2>1 DEF AfterForwarders
  <2>3. ToIdle(at'["publisher"], forwarders') \in 0 .. 2
    BY <2>2, ServicesAreNear DEF IInv
  <2> DEFINE len == Len(forwarders)
             end == ToEnd(f)
             before == ToIdle(at["publisher"], forwarders)
             after == ToIdle(at'["publisher"], forwarders')
  <2>4. i \in 1 .. len /\ len \in Nat /\ before = 4 * (len - i) + end + 3 /\ end \in 0 .. 2 /\ after \in 0 .. 2
    BY <1>2, <1>3, <2>3
  <2> HIDE DEF len, end, before, after, i
  <2>5. after < before
    BY <2>4
  <2> QED BY <2>5 DEF after, before
<1> QED BY <1>4, <1>5, <1>6

LEMMA ServiceIsJoined ==
    ASSUME IInv, ub = "none", ServiceStopped
    PROVE  ToIdle(at'["publisher"], forwarders') < ToIdle(at["publisher"], forwarders)
<1>1. CASE Publisher = "encoder"
  <2>1. StopServices(Services \ {"encoder"}, [service EXCEPT !["encoder"] = "down"])
    BY <1>1 DEF ServiceStopped, Publisher
  <2>2. ToIdle(at'["publisher"], forwarders') \in 0 .. 1
    BY <2>1, ServicesAreNear DEF IInv
  <2>3. ToIdle(at["publisher"], forwarders) = 2
    BY <1>1 DEF ToIdle, Publisher
  <2> QED BY <2>2, <2>3
<1>2. CASE Publisher = "exec"
  <2>1. StopServices({"exec"}, [service EXCEPT !["exec"] = "down"])
    BY <1>2 DEF ServiceStopped, Publisher
  <2>2. [service EXCEPT !["exec"] = "down"]["exec"] = "down"
    BY Names DEF IInv, TypeOK
  <2>3. ToIdle(at'["publisher"], forwarders') = 0
    <3> DEFINE S == {"exec"}
               sv == [service EXCEPT !["exec"] = "down"]
    <3>1. StopServices(S, sv) /\ "encoder" \notin S /\ sv["exec"] = "down" /\ TypeOK
      BY <2>1, <2>2 DEF IInv
    <3> HIDE DEF S, sv
    <3> QED BY <3>1, ServicesAreNear
  <2>4. ToIdle(at["publisher"], forwarders) = 1
    BY <1>2 DEF ToIdle, Publisher
  <2> QED BY <2>3, <2>4
<1> QED BY <1>1, <1>2 DEF ServiceStopped, Joinable, Publisher

(* A forwarder runs: the one that is joined comes nearer to its end.              *)
LEMMA ForwarderNears ==
    ASSUME IInv, ub = "none", Unpublishing, NEW i \in 1 .. Endpoints, ForwarderRuns(i)
    PROVE  /\ ToIdle(at'["publisher"], forwarders') <= ToIdle(at["publisher"], forwarders)
           /\ Joined(i) => ToIdle(at'["publisher"], forwarders') < ToIdle(at["publisher"], forwarders)
<1>1. at' = at /\ i \in 1 .. Len(forwarders)
  BY DEF ForwarderRuns, Cycle, Connected, Sent, Forward, Fails, Goes
<1>2. CASE Publisher # "forwarders"
  BY <1>1, <1>2 DEF Unpublishing, Publisher, Joined, ToIdle
<1>3. CASE Publisher = "forwarders"
  <2> DEFINE k == at["publisher"].i
  <2>1. /\ k \in 1 .. Len(forwarders) /\ Len(forwarders) \in Nat
        /\ \A j \in 1 .. k : forwarders[j].disposed
        /\ ToIdle(at["publisher"], forwarders) = 4 * (Len(forwarders) - k) + ToEnd(forwarders[k]) + 3
    BY <1>3, JoinsForwarder
  <2>2. forwarders \in Seq(Forwarders)
    BY DEF IInv, TypeOK
  <2>3. PICK f : /\ forwarders' = [forwarders EXCEPT ![i] = f]
                 /\ i = k => ToEnd(f) < ToEnd(forwarders[i])
    <3>1. i = k => forwarders[i].disposed
      BY <2>1
    <3>2. ASSUME NEW from, NEW f, Goes(i, from, f), i = k => ToEnd(f) < ToEnd(forwarders[i])
          PROVE  \E g : /\ forwarders' = [forwarders EXCEPT ![i] = g]
                        /\ i = k => ToEnd(g) < ToEnd(forwarders[i])
      BY <3>2 DEF Goes
    <3>3. forwarders[i] \in Forwarders
      BY <1>1, <2>2, ElementOfSeq
    <3>4. ASSUME NEW from \in {"new", "pause"}, Cycle(i, from)
          PROVE  \E g : /\ forwarders' = [forwarders EXCEPT ![i] = g]
                        /\ i = k => ToEnd(g) < ToEnd(forwarders[i])
      <4>1. CASE forwarders[i].disposed
        <5> DEFINE f == [forwarders[i] EXCEPT !.pc = "ended"]
        <5>1. Goes(i, from, f)
          BY <3>4, <4>1 DEF Cycle, Pulled
        <5>2. f.pc = "ended" /\ forwarders[i].pc = from
          BY <3>3, <5>1 DEF Forwarders, Goes
        <5>3. ToEnd(f) = 0 /\ ToEnd(forwarders[i]) = 1
          BY <5>2 DEF ToEnd
        <5> QED BY <3>2, <5>1, <5>3
      <4>2. CASE ~forwarders[i].disposed
        BY <3>1, <3>4, <4>2 DEF Cycle, Goes
      <4> QED BY <4>1, <4>2
    <3>5. ASSUME NEW from \in {"connecting", "sending", "receiving"}, Fails(i, from)
          PROVE  \E g : /\ forwarders' = [forwarders EXCEPT ![i] = g]
                        /\ i = k => ToEnd(g) < ToEnd(forwarders[i])
      <4> DEFINE f == [forwarders[i] EXCEPT !.pc = "pause"]
      <4>1. Goes(i, from, f)
        BY <3>5 DEF Fails
      <4>2. f.pc = "pause" /\ forwarders[i].pc = from
        BY <3>3, <4>1 DEF Forwarders, Goes
      <4>3. ToEnd(f) = 1 /\ ToEnd(forwarders[i]) = 2
        BY <4>2 DEF ToEnd
      <4> QED BY <3>2, <4>1, <4>3
    <3>6. CASE Connected(i) \/ Sent(i) \/ Forward(i)
      BY <3>1, <3>6 DEF Connected, Sent, Forward, Goes
    <3> QED BY <3>4, <3>5, <3>6 DEF ForwarderRuns
  <2>4. forwarders'[k] = IF i = k THEN f ELSE forwarders[k]
    BY <1>1, <2>1, <2>2, <2>3
  <2>5. Len(forwarders') = Len(forwarders)
    BY <2>2, <2>3
  <2>6. ToIdle(at'["publisher"], forwarders') = 4 * (Len(forwarders) - k) + ToEnd(forwarders'[k]) + 3
    BY <1>1, <1>3, <2>5 DEF ToIdle, Publisher
  <2>7. ToEnd(forwarders[k]) \in Int /\ ToEnd(forwarders'[k]) \in Int
    BY EndsInTwo
  <2>8. CASE i = k
    <3>1. ToEnd(forwarders'[k]) < ToEnd(forwarders[k])
      BY <2>3, <2>4, <2>8
    <3> DEFINE len == Len(forwarders)
               x == ToEnd(forwarders[k])
               y == ToEnd(forwarders'[k])
               before == ToIdle(at["publisher"], forwarders)
               after == ToIdle(at'["publisher"], forwarders')
    <3>2. /\ len \in Nat /\ k \in 1 .. len /\ x \in Int /\ y \in Int /\ y < x
          /\ before = 4 * (len - k) + x + 3 /\ after = 4 * (len - k) + y + 3
      BY <2>1, <2>6, <2>7, <3>1
    <3> HIDE DEF len, x, y, before, after, k
    <3>3. after < before /\ after <= before
      BY <3>2
    <3> QED BY <3>3 DEF after, before
  <2>9. CASE i # k
    <3>1. ToEnd(forwarders'[k]) = ToEnd(forwarders[k]) /\ ~Joined(i)
      BY <2>4, <2>9 DEF Joined
    <3> QED BY <2>1, <2>6, <2>7, <3>1
  <2> QED BY <2>8, <2>9
<1> QED BY <1>2, <1>3

(* A reload neither moves the publisher nor the forwarders that it waits for.     *)
LEMMA ReloadKeepsAway ==
    ASSUME IInv, ub = "none", Unpublishing, ReloadMoves
    PROVE  ToIdle(at'["publisher"], forwarders') = ToIdle(at["publisher"], forwarders)
<1>1. "publisher" \in Actors /\ "reload" \in Actors /\ at \in [Actors -> Positions]
  BY DEF Actors, IInv, TypeOK
<1>2. CASE ReloadForward
  <2>1. DestroyForwarders("reload", forwarders, service)
    BY <1>2 DEF ReloadForward
  <2>2. CASE Publisher = "forwarders"
    <3> DEFINE k == at["publisher"].i
    <3>1. /\ k \in 1 .. Len(forwarders) /\ Len(forwarders) \in Nat
      BY <2>2, JoinsForwarder
    <3>2. forwarders # <<>>
      BY <3>1
    <3>3. StopForwarder("reload", 1, forwarders, service)
      BY <2>1, <3>2 DEF DestroyForwarders
    <3>4. at'["publisher"] = at["publisher"]
      BY <1>1, <3>3 DEF StopForwarder
    <3>5. forwarders \in Seq(Forwarders) /\ 1 \in 1 .. Len(forwarders)
      BY <3>1 DEF IInv, TypeOK
    <3>6. [forwarders[1] EXCEPT !.disposed = TRUE] \in Forwarders /\ forwarders[1] \in Forwarders
      <4>1. forwarders[1] \in Forwarders
        BY <3>5, ElementOfSeq
      <4> QED BY <4>1 DEF Forwarders
    <3>7. forwarders' = [forwarders EXCEPT ![1] = [forwarders[1] EXCEPT !.disposed = TRUE]]
      BY <3>3 DEF StopForwarder
    <3>8. /\ Len(forwarders') = Len(forwarders)
          /\ forwarders'[k] = IF k = 1 THEN [forwarders[1] EXCEPT !.disposed = TRUE] ELSE forwarders[k]
      BY <3>1, <3>5, <3>6, <3>7, OneIsMarked
    <3>9. forwarders'[k].pc = forwarders[k].pc
      BY <3>6, <3>8 DEF Forwarders
    <3> QED BY <2>2, <3>4, <3>8, <3>9 DEF ToIdle, ToEnd
  <2>3. CASE Publisher # "forwarders"
    <3>1. forwarders = <<>>
      BY <2>3 DEF Unpublishing, IInv, HubOK, ForwardersFit
    <3>2. AfterForwarders("reload", service)
      BY <2>1, <3>1 DEF DestroyForwarders
    <3>3. at'["publisher"] = at["publisher"]
      BY <1>1, <3>2 DEF AfterForwarders
    <3> QED BY <2>3, <3>3 DEF ToIdle, Publisher
  <2> QED BY <2>2, <2>3
<1>3. CASE ForwarderStopped("reload")
  <2>1. Reload = "forwarders"
    BY <1>3 DEF ForwarderStopped, Reload
  <2> QED BY <2>1 DEF Unpublishing, IInv, HubOK, ForwardersFit
<1>4. ASSUME NEW ok \in BOOLEAN, NEW s, ReloadMuxer(s, ok) \/ ReloadStopped(s, ok)
      PROVE  at' = at /\ forwarders' = forwarders
  BY <1>4 DEF ReloadMuxer, ReloadStopped
<1>5. ASSUME NEW ok \in BOOLEAN, ReloadJoined(ok)
      PROVE  at'["publisher"] = at["publisher"] /\ forwarders' = forwarders
  BY <1>1, <1>5 DEF ReloadJoined
<1>6. ASSUME NEW s \in Joinable, ReloadJoinable(s)
      PROVE  at'["publisher"] = at["publisher"] /\ forwarders' = forwarders
  BY <1>1, <1>6 DEF ReloadJoinable
<1> QED BY <1>2, <1>3, <1>4, <1>5, <1>6 DEF ReloadMoves

(* An unpublish is never further from its end than before, and nothing that it       *)
(* waits for can run without bringing it nearer: the part of UnpublishEnds that      *)
(* needs no fairness (SrsOriginHub::on_unpublish).                              *)
THEOREM UnpublishComesToEnd == Spec => UnpublishAdvances
<1> DEFINE Advances ==
      ub = "none" /\ Unpublishing =>
        /\ ToIdle(at'["publisher"], forwarders') <= ToIdle(at["publisher"], forwarders)
        /\ \/ ForwarderStopped("publisher") \/ ServiceStopped
           \/ \E i \in 1 .. Endpoints : Joined(i) /\ ForwarderRuns(i)
           => \/ ToIdle(at'["publisher"], forwarders') < ToIdle(at["publisher"], forwarders)
              \/ ub' # "none"
<1>1. ASSUME IInv, Next PROVE Advances
  <2> SUFFICES ASSUME ub = "none", Unpublishing PROVE Advances
    OBVIOUS
  <2> DEFINE before == ToIdle(at["publisher"], forwarders)
             after == ToIdle(at'["publisher"], forwarders')
             Own == \/ ForwarderStopped("publisher") \/ ServiceStopped
                    \/ \E i \in 1 .. Endpoints : Joined(i) /\ ForwarderRuns(i)
  <2>1. before \in Int /\ after \in Int
    <3>1. TypeOK /\ TypeOK' /\ "publisher" \in Actors
      BY <1>1, StepKeeps DEF IInv, Actors
    <3>2. at["publisher"] \in Positions /\ at'["publisher"] \in Positions
      BY <3>1 DEF TypeOK
    <3> QED BY <3>1, <3>2, ToIdleIsNumber DEF TypeOK
  <2>2. \/ after < before
        \/ after = before /\ ub' # "none"
        \/ after <= before /\ ~Own
    <3>1. CASE ForwarderStopped("publisher")
      BY <1>1, <3>1, ForwarderIsJoined
    <3>2. CASE ServiceStopped
      BY <1>1, <3>2, ServiceIsJoined
    <3>3. CASE ~(ForwarderStopped("publisher") \/ ServiceStopped)
      <4>1. CASE Own
        BY <1>1, <3>3, <4>1, ForwarderNears
      <4>2. CASE ~Own
        <5>1. CASE \E i \in 1 .. Endpoints : ForwarderRuns(i)
          BY <1>1, <4>2, <5>1, ForwarderNears
        <5>2. CASE ReloadMoves
          BY <1>1, <2>1, <4>2, <5>2, ReloadKeepsAway
        <5>3. CASE PublisherMoves
          BY <3>3, <5>3 DEF PublisherMoves, Unpublishing, Publisher, OnPublish, OnUnpublish,
             OnPublishFails, OnMessage, OnMessageFails, Receives, Comes
        <5> QED BY <1>1, <5>1, <5>2, <5>3 DEF Next
      <4> QED BY <4>1, <4>2
    <3> QED BY <3>1, <3>2, <3>3
  <2> HIDE DEF before, after, Own
  <2>3. /\ after <= before
        /\ Own => after < before \/ ub' # "none"
    BY <2>1, <2>2
  <2> QED BY <2>3 DEF before, after, Own
<1>2. IInv /\ [Next]_vars => [Advances]_vars
  BY <1>1
<1> QED BY <1>2, HubStaysWhole, PTL DEF Spec, UnpublishAdvances
-----------------------------------------------------------------------------
(* Processes, for any names, objects and number of reloads.  The invariant adds  *)
(* to ProcessesAreOwned which engine the coroutine starts or stops and the main   *)
(* coroutine kills, that no two of the vector share a name, and that what          *)
(* was freed in the pause after its fork never enters the vector again.         *)
-----------------------------------------------------------------------------
Engines == [name : EngineNames \cup {Unused.name}, memory : {"unused", "there", "freed"},
            started : BOOLEAN]

Cycles == [at : {"off", "asleep", "starting", "stopping", "over"}, i : Nat,
           forked : SUBSET Objects, valid : BOOLEAN, told : BOOLEAN]

Mains == [at : {"idle", "killing", "joining", "clearing", "disposing", "done"},
          i : Nat, again : BOOLEAN]

EnginesTypeOK ==
    /\ owner \in {"ingest", "transcode"}
    /\ engines \in Seq(Objects)
    /\ object \in [Objects -> Engines]
    /\ process \in [Objects -> {"none", "running", "zombie"}]
    /\ cycle \in Cycles
    /\ main \in Mains
    /\ lost \in SUBSET Objects

(* The engines are there, with names of their own; and what was freed while   *)
(* the coroutine was in it is not used again.                                 *)
VectorIn(v, obj) ==
    /\ \A i \in 1 .. Len(v) : obj[v[i]].memory = "there"
    /\ \A i, j \in 1 .. Len(v) : obj[v[i]].name = obj[v[j]].name => i = j

VectorInv == VectorIn(engines, object) /\ \A o \in lost : object[o].memory = "freed"

(* Whose process runs.                                                        *)
OwnedIn(o, v, obj, forked) == o \in ToSet(v) /\ (obj[o].started \/ o \in forked)

OwnedInv ==
    \A o \in Objects \ lost :
        process[o] = "running" => OwnedIn(o, engines, object, cycle.forked)

CycleInv ==
    /\ cycle.at # "starting" => cycle.forked = {}
    /\ cycle.at = "starting" /\ cycle.valid =>
          \E o \in ToSet(engines) : cycle.forked = {o}
    /\ cycle.at = "stopping" => owner = "transcode" /\ cycle.i \in 1 .. Len(engines)
    /\ cycle.at = "off" => engines = <<>>

MainAt ==
    /\ main.at = "killing" => owner = "ingest" /\ main.i \in 1 .. Len(engines)
    /\ main.at = "clearing" =>
          /\ cycle.at = "over" /\ main.i \in 1 .. Len(engines)
          /\ \A j \in 1 .. main.i - 1 : process[engines[j]] # "running"
    /\ main.at = "done" /\ owner = "ingest" => Live \subseteq lost \cup cycle.forked

EnginesInv == EnginesTypeOK /\ VectorInv /\ OwnedInv /\ CycleInv /\ MainAt
-----------------------------------------------------------------------------
LEMMA FirstOf ==
    ASSUME NEW T, T \subseteq Nat, T # {}
    PROVE  Min(T) \in T /\ \A y \in T : Min(T) <= y
<1> DEFINE R == OpToRel(<, Nat)
<1>1. IsWellFoundedOn(R, Nat)
  BY NatLessThanWellFounded
<1>2. \A x, y \in Nat : x < y => <<x, y>> \in R
  BY DEF OpToRel
<1> HIDE DEF R
<1>3. PICK x \in T : \A y \in T : ~(<<y, x>> \in R)
  BY <1>1, WFMin
<1>4. ASSUME NEW y \in T PROVE x <= y
  <2>1. x \in Nat /\ y \in Nat /\ ~(y < x)
    BY <1>2, <1>3
  <2> QED BY <2>1
<1>5. \E z \in T : \A y \in T : z <= y
  BY <1>3, <1>4
<1> QED BY <1>5 DEF Min

(* Among enough objects each of the names can have one of its own.            *)
LEMMA OneForEach ==
    ASSUME NEW S, NEW T, IsFiniteSet(S), IsFiniteSet(T), Cardinality(S) <= Cardinality(T)
    PROVE  \E f \in [S -> T] : IsInjective(f)
<1> DEFINE m == Cardinality(S)
           n == Cardinality(T)
<1>1. m \in Nat /\ n \in Nat /\ m <= n
  BY FS_CardinalityType
<1>2. PICK b \in Bijection(1 .. m, S) : TRUE
  BY FS_CardinalityType DEF ExistsBijection
<1>3. PICK c \in Bijection(1 .. n, T) : TRUE
  BY FS_CardinalityType DEF ExistsBijection
<1> HIDE DEF m, n
<1>4. /\ b \in [1 .. m -> S] /\ \A s \in S : \E k \in 1 .. m : b[k] = s
  BY <1>2 DEF Bijection, Surjection, Injection
<1>5. c \in [1 .. n -> T] /\ \A j, k \in 1 .. n : c[j] = c[k] => j = k
  BY <1>3 DEF Bijection, Injection, IsInjective
<1> DEFINE place(s) == CHOOSE k \in 1 .. m : b[k] = s
           f == [s \in S |-> c[place(s)]]
<1>6. ASSUME NEW s \in S PROVE place(s) \in 1 .. n /\ b[place(s)] = s
  <2>1. place(s) \in 1 .. m /\ b[place(s)] = s
    BY <1>4
  <2> HIDE DEF place
  <2> QED BY <1>1, <2>1
<1> HIDE DEF place
<1>7. f \in [S -> T]
  BY <1>5, <1>6
<1>8. \A s, t \in S : f[s] = f[t] => s = t
  <2> SUFFICES ASSUME NEW s \in S, NEW t \in S, f[s] = f[t] PROVE s = t
    OBVIOUS
  <2>1. c[place(s)] = c[place(t)]
    OBVIOUS
  <2>2. place(s) = place(t)
    BY <1>5, <1>6, <2>1
  <2> QED BY <1>6, <2>2
<1> HIDE DEF f
<1> QED BY <1>7, <1>8 DEF IsInjective

LEMMA SetToSeqIs ==
    ASSUME NEW S, IsFiniteSet(S)
    PROVE  /\ SetToSeq(S) \in Seq(S)
           /\ \A i, j \in 1 .. Len(SetToSeq(S)) : SetToSeq(S)[i] = SetToSeq(S)[j] => i = j
<1> DEFINE n == Cardinality(S)
           f == SetToSeq(S)
<1>1. n \in Nat /\ \E g \in [1 .. n -> S] : IsInjective(g)
  <2>1. n \in Nat /\ ExistsBijection(1 .. n, S)
    BY FS_CardinalityType
  <2>2. PICK g \in Bijection(1 .. n, S) : TRUE
    BY <2>1 DEF ExistsBijection
  <2> QED BY <2>1, <2>2 DEF Bijection, Injection
<1>2. f \in [1 .. n -> S] /\ IsInjective(f)
  BY <1>1 DEF SetToSeq
<1> HIDE DEF f, n
<1>3. f \in Seq(S) /\ Len(f) = n
  BY <1>1, <1>2
<1>4. \A i, j \in 1 .. n : f[i] = f[j] => i = j
  BY <1>2 DEF IsInjective
<1> QED BY <1>3, <1>4 DEF f

LEMMA RemoveAtIs ==
    ASSUME NEW T, NEW s \in Seq(T), NEW i \in 1 .. Len(s)
    PROVE  /\ RemoveAt(s, i) \in Seq(T) /\ Len(RemoveAt(s, i)) = Len(s) - 1
           /\ \A k \in 1 .. Len(s) - 1 : RemoveAt(s, i)[k] = s[IF k < i THEN k ELSE k + 1]
<1> DEFINE l == SubSeq(s, 1, i - 1)
           r == SubSeq(s, i + 1, Len(s))
           n == Len(s)
<1>1. n \in Nat /\ i \in Nat /\ 1 <= i /\ i <= n
  OBVIOUS
<1>2. l \in Seq(T) /\ Len(l) = i - 1 /\ \A j \in 1 .. i - 1 : l[j] = s[j]
  BY <1>1
<1>3. r \in Seq(T) /\ Len(r) = n - i /\ \A j \in 1 .. n - i : r[j] = s[i + j]
  BY <1>1
<1>4. RemoveAt(s, i) = l \o r
  BY DEF RemoveAt
<1>5. Len(s) = n
  OBVIOUS
<1> HIDE DEF l, r, n
<1>6. l \o r \in Seq(T) /\ Len(l \o r) = Len(l) + Len(r)
  <2>1. l \in Seq(T) /\ r \in Seq(T)
    BY <1>2, <1>3
  <2> QED BY <2>1
<1>7. ASSUME NEW k \in 1 .. n - 1 PROVE (l \o r)[k] = s[IF k < i THEN k ELSE k + 1]
  <2>1. CASE k < i
    BY <1>1, <1>2, <1>3, <2>1
  <2>2. CASE ~(k < i)
    <3>1. k - (i - 1) \in 1 .. n - i /\ i + (k - (i - 1)) = k + 1
      BY <1>1, <2>2
    <3>2. (l \o r)[k] = r[k - (i - 1)]
      BY <1>1, <1>2, <1>3, <2>2
    <3> QED BY <1>3, <2>2, <3>1, <3>2
  <2> QED BY <2>1, <2>2
<1>8. Len(l) + Len(r) = n - 1
  BY <1>1, <1>2, <1>3
<1> QED BY <1>4, <1>5, <1>6, <1>7, <1>8

(* What is pushed gets objects that nobody uses, each name one of its own.    *)
LEMMA PushedIs ==
    ASSUME NEW v \in Seq(Objects), NEW obj \in [Objects -> Engines],
           NEW names, names \subseteq EngineNames \cup {Unused.name},
           VectorIn(v, obj), \A i \in 1 .. Len(v) : obj[v[i]].name \notin names,
           Pushed(names, v, obj)
    PROVE  /\ engines' \in Seq(Objects) /\ object' \in [Objects -> Engines]
           /\ VectorIn(engines', object')
           /\ \A o \in Objects : obj[o].memory # "unused" => object'[o] = obj[o]
           /\ Len(v) <= Len(engines') /\ \A k \in 1 .. Len(v) : engines'[k] = v[k]
<1> DEFINE free == {o \in Objects : obj[o].memory = "unused"}
           new  == CHOOSE f \in [names -> free] : IsInjective(f)
           S    == {new[n] : n \in names}
           w    == SetToSeq(S)
           m    == Len(v)
<1>1. IsFiniteSet(names) /\ IsFiniteSet(free)
  <2>1. IsFiniteSet(EngineNames \cup {Unused.name}) /\ IsFiniteSet(Objects)
    BY ProcessesAssumption, FS_Singleton, FS_Union
  <2> QED BY <2>1, FS_Subset
<1>2. new \in [names -> free] /\ IsInjective(new)
  <2>1. Cardinality(names) <= Cardinality(free)
    BY <1>1, FS_CardinalityType DEF Pushed
  <2>2. \E f \in [names -> free] : IsInjective(f)
    BY <1>1, <2>1, OneForEach
  <2> QED BY <2>2
<1>3. /\ engines' = v \o w
      /\ object' = [o \in Objects |->
             IF \E n \in names : new[n] = o
             THEN [name |-> CHOOSE n \in names : new[n] = o, memory |-> "there", started |-> FALSE]
             ELSE obj[o]]
  BY DEF Pushed
<1> HIDE DEF new
<1>4. IsFiniteSet(S)
  <2>1. new \in Surjection(names, S)
    BY <1>2 DEF Surjection
  <2> QED BY <1>1, <2>1, FS_Surjection
<1>5. w \in Seq(S) /\ \A i, j \in 1 .. Len(w) : w[i] = w[j] => i = j
  BY <1>4, SetToSeqIs
<1>6. S \subseteq free
  BY <1>2
<1>7. ASSUME NEW n \in names
      PROVE  object'[new[n]] = [name |-> n, memory |-> "there", started |-> FALSE]
  <2>1. new[n] \in Objects
    BY <1>2
  <2>2. \A k \in names : new[k] = new[n] => k = n
    BY <1>2 DEF IsInjective
  <2>3. n = CHOOSE k \in names : new[k] = new[n]
    BY <2>2
  <2> QED BY <1>3, <2>1, <2>3
<1>8. ASSUME NEW o \in Objects, obj[o].memory # "unused" PROVE object'[o] = obj[o]
  <2>1. ~ \E n \in names : new[n] = o
    BY <1>2, <1>8
  <2> QED BY <1>3, <2>1
<1>9. object' \in [Objects -> Engines]
  <2>1. ASSUME NEW o \in Objects PROVE object'[o] \in Engines
    <3>1. CASE \E n \in names : new[n] = o
      <4>1. PICK n \in names : new[n] = o
        BY <3>1
      <4>2. object'[o] = [name |-> n, memory |-> "there", started |-> FALSE]
        BY <1>7, <4>1
      <4> QED BY <4>2 DEF Engines
    <3>2. CASE ~ \E n \in names : new[n] = o
      BY <1>3, <3>2
    <3> QED BY <3>1, <3>2
  <2>2. object' = [o \in Objects |-> object'[o]]
    BY <1>3
  <2> QED BY <2>1, <2>2
<1> HIDE DEF S, w, m, free
<1>10. m \in Nat /\ m = Len(v) /\ Len(w) \in Nat
  BY <1>5 DEF m
<1>11. w \in Seq(Objects)
  BY <1>5, <1>6 DEF free
<1>12. /\ v \o w \in Seq(Objects) /\ Len(v \o w) = m + Len(w)
       /\ \A k \in 1 .. m : (v \o w)[k] = v[k]
       /\ \A k \in m + 1 .. m + Len(w) : (v \o w)[k] = w[k - m]
  BY <1>10, <1>11
<1>13. ASSUME NEW k \in 1 .. Len(engines'), ~(k <= m)
       PROVE  /\ (k - m) \in 1 .. Len(w) /\ engines'[k] = w[k - m]
              /\ \E n \in names : /\ engines'[k] = new[n]
                                 /\ object'[engines'[k]].name = n
                                 /\ object'[engines'[k]].memory = "there"
  <2>1. k \in m + 1 .. m + Len(w)
    BY <1>3, <1>10, <1>12, <1>13
  <2>2. (k - m) \in 1 .. Len(w) /\ engines'[k] = w[k - m]
    BY <1>3, <1>10, <1>12, <2>1
  <2>3. w[k - m] \in S
    BY <1>5, <2>2
  <2>4. PICK n \in names : engines'[k] = new[n]
    BY <2>2, <2>3 DEF S
  <2>5. object'[engines'[k]] = [name |-> n, memory |-> "there", started |-> FALSE]
    BY <1>7, <2>4
  <2> QED BY <2>2, <2>4, <2>5
<1>14. ASSUME NEW k \in 1 .. m
       PROVE  /\ engines'[k] = v[k] /\ v[k] \in Objects /\ obj[v[k]].memory = "there"
              /\ object'[v[k]] = obj[v[k]] /\ obj[v[k]].name \notin names
  <2>1. engines'[k] = v[k] /\ v[k] \in Objects
    BY <1>3, <1>10, <1>12
  <2>2. obj[v[k]].memory = "there" /\ obj[v[k]].name \notin names
    BY <1>10 DEF VectorIn
  <2> QED BY <1>8, <2>1, <2>2
<1>15. ASSUME NEW k \in 1 .. Len(engines') PROVE k \in 1 .. m \/ ~(k <= m)
  BY <1>10
<1>16. ASSUME NEW k \in 1 .. Len(engines') PROVE object'[engines'[k]].memory = "there"
  <2>1. CASE ~(k <= m)
    BY <1>13, <2>1
  <2> QED BY <1>14, <1>15, <2>1
<1>17. ASSUME NEW i \in 1 .. Len(engines'), NEW j \in 1 .. Len(engines'),
              object'[engines'[i]].name = object'[engines'[j]].name
       PROVE  i = j
  <2>1. \A k \in 1 .. Len(engines') : ~(k <= m) =>
           \E n \in names : engines'[k] = new[n] /\ object'[engines'[k]].name = n
    BY <1>13
  <2>2. CASE i \in 1 .. m /\ j \in 1 .. m
    BY <1>10, <1>14, <1>17, <2>2 DEF VectorIn
  <2>3. CASE ~(i <= m) /\ ~(j <= m)
    <3>1. engines'[i] = engines'[j]
      BY <1>17, <2>1, <2>3
    <3>2. w[i - m] = w[j - m] /\ (i - m) \in 1 .. Len(w) /\ (j - m) \in 1 .. Len(w)
      BY <1>13, <2>3, <3>1
    <3>3. i - m = j - m
      BY <1>5, <3>2
    <3> QED BY <1>10, <3>3
  <2>4. CASE i \in 1 .. m /\ ~(j <= m)
    BY <1>14, <1>17, <2>1, <2>4
  <2>5. CASE ~(i <= m) /\ j \in 1 .. m
    BY <1>14, <1>17, <2>1, <2>5
  <2> QED BY <1>15, <2>2, <2>3, <2>4, <2>5
<1>18. VectorIn(engines', object')
  BY <1>16, <1>17 DEF VectorIn
<1>19. engines' \in Seq(Objects) /\ Len(v) <= Len(engines')
  BY <1>3, <1>10, <1>12
<1> QED BY <1>8, <1>9, <1>10, <1>14, <1>18, <1>19

(* An engine keeps its object, its name and its process when others are       *)
(* pushed behind it.                                                          *)
LEMMA PushedKeeps ==
    ASSUME NEW v \in Seq(Objects), NEW obj \in [Objects -> Engines],
           NEW names, names \subseteq EngineNames \cup {Unused.name},
           VectorIn(v, obj), \A i \in 1 .. Len(v) : obj[v[i]].name \notin names,
           Pushed(names, v, obj),
           NEW o \in Objects, NEW forked, OwnedIn(o, v, obj, forked)
    PROVE  OwnedIn(o, engines', object', forked)
<1>1. PICK k \in 1 .. Len(v) : v[k] = o
  BY DEF OwnedIn, ToSet
<1>2. obj[o].memory = "there"
  BY <1>1 DEF VectorIn
<1>3. object'[o] = obj[o]
  BY <1>2, PushedIs
<1>4. k \in 1 .. Len(engines') /\ engines'[k] = o
  BY <1>1, PushedIs
<1>5. o \in ToSet(engines')
  BY <1>4 DEF ToSet
<1> QED BY <1>3, <1>5 DEF OwnedIn

(* The vector does not care which of its engines have been started.           *)
LEMMA VectorKept ==
    ASSUME NEW v \in Seq(Objects), NEW obj, NEW next, VectorIn(v, obj),
           \A o \in Objects : next[o].memory = obj[o].memory /\ next[o].name = obj[o].name
    PROVE  VectorIn(v, next)
<1>1. \A i \in 1 .. Len(v) : v[i] \in Objects
  OBVIOUS
<1> QED BY <1>1 DEF VectorIn

(* An erased engine leaves the others where they are, and comes back, if at   *)
(* all, with another object.                                                  *)
LEMMA ErasedIs ==
    ASSUME EnginesInv, NEW i \in 1 .. Len(engines), NEW again \in BOOLEAN, Erased(i, again)
    PROVE  /\ engines' \in Seq(Objects) /\ object' \in [Objects -> Engines]
           /\ VectorIn(engines', object')
           /\ lost' \in SUBSET Objects /\ \A o \in lost' : object'[o].memory = "freed"
           /\ lost \subseteq lost' /\ (Starting(engines[i]) => engines[i] \in lost')
           /\ \A o \in Objects : /\ o # engines[i]
                                 /\ OwnedIn(o, engines, object, cycle.forked)
                                 => OwnedIn(o, engines', object', cycle.forked)
<1> DEFINE v   == Without(i)
           obj == FreedAt(i)
           e   == engines[i]
           names == {object[e].name}
<1>1. /\ engines \in Seq(Objects) /\ object \in [Objects -> Engines] /\ lost \subseteq Objects
      /\ VectorIn(engines, object) /\ \A o \in lost : object[o].memory = "freed"
  BY DEF EnginesInv, EnginesTypeOK, VectorInv
<1>2. e \in Objects /\ Len(engines) \in Nat /\ i \in Nat
  BY <1>1
<1>3. /\ v \in Seq(Objects) /\ Len(v) = Len(engines) - 1
      /\ \A k \in 1 .. Len(engines) - 1 : v[k] = engines[IF k < i THEN k ELSE k + 1]
  BY <1>1, RemoveAtIs DEF Without
<1>4. /\ obj \in [Objects -> Engines]
      /\ \A o \in Objects : o # e => obj[o] = object[o]
      /\ obj[e].memory = IF Starting(e) THEN "freed" ELSE "unused"
  <2>1. Unused \in Engines /\ Unused.memory = "unused"
    BY DEF Unused, Engines
  <2>2. /\ [object[e] EXCEPT !.memory = "freed"] \in Engines
        /\ [object[e] EXCEPT !.memory = "freed"].memory = "freed"
    <3>1. object[e] \in Engines
      BY <1>1, <1>2
    <3> QED BY <3>1 DEF Engines
  <2>3. obj = [object EXCEPT ![e] = IF Starting(e) THEN [object[e] EXCEPT !.memory = "freed"] ELSE Unused]
    BY DEF FreedAt
  <2> HIDE DEF obj, e
  <2> QED BY <1>1, <1>2, <2>1, <2>2, <2>3
<1>5. /\ IF again THEN Pushed(names, v, obj) ELSE engines' = v /\ object' = obj
      /\ lost' = lost \cup {o \in {e} : Starting(o)}
  BY DEF Erased
<1> HIDE DEF v, obj, names
<1>6. \A k \in 1 .. Len(v) : \E m \in 1 .. Len(engines) : m # i /\ v[k] = engines[m]
  <2> SUFFICES ASSUME NEW k \in 1 .. Len(v)
               PROVE  \E m \in 1 .. Len(engines) : m # i /\ v[k] = engines[m]
    OBVIOUS
  <2> DEFINE m == IF k < i THEN k ELSE k + 1
  <2>1. m \in 1 .. Len(engines) /\ m # i
    BY <1>2, <1>3
  <2>2. v[k] = engines[m]
    BY <1>3
  <2> HIDE DEF m
  <2> QED BY <2>1, <2>2
<1>7. \A j, k \in 1 .. Len(v) : v[j] = v[k] => j = k
  <2> SUFFICES ASSUME NEW j \in 1 .. Len(v), NEW k \in 1 .. Len(v), v[j] = v[k]
               PROVE  j = k
    OBVIOUS
  <2> DEFINE p == IF j < i THEN j ELSE j + 1
             q == IF k < i THEN k ELSE k + 1
  <2>1. v[j] = engines[p] /\ v[k] = engines[q]
    BY <1>3
  <2>2. p \in 1 .. Len(engines) /\ q \in 1 .. Len(engines)
    BY <1>2, <1>3
  <2>3. p = q => j = k
    BY <1>2, <1>3
  <2> HIDE DEF p, q
  <2> QED BY <1>1, <2>1, <2>2, <2>3 DEF VectorIn
<1>8. \A m \in 1 .. Len(engines) : engines[m] = e => m = i
  BY <1>1 DEF VectorIn
<1>9. \A k \in 1 .. Len(v) : /\ v[k] \in Objects /\ v[k] # e /\ obj[v[k]] = object[v[k]]
                            /\ object[v[k]].name # object[e].name
                            /\ object[v[k]].memory = "there"
  <2> SUFFICES ASSUME NEW k \in 1 .. Len(v)
               PROVE  /\ v[k] \in Objects /\ v[k] # e /\ obj[v[k]] = object[v[k]]
                      /\ object[v[k]].name # object[e].name
                      /\ object[v[k]].memory = "there"
    OBVIOUS
  <2>1. PICK m \in 1 .. Len(engines) : m # i /\ v[k] = engines[m]
    BY <1>6
  <2>2. v[k] \in Objects /\ v[k] # e
    BY <1>3, <1>8, <2>1
  <2> QED BY <1>1, <1>4, <2>1, <2>2 DEF VectorIn
<1>10. VectorIn(v, obj)
  <2>1. \A j \in 1 .. Len(v) : obj[v[j]].memory = "there"
    BY <1>9
  <2>2. ASSUME NEW j \in 1 .. Len(v), NEW k \in 1 .. Len(v), obj[v[j]].name = obj[v[k]].name
        PROVE  j = k
    <3>1. PICK p \in 1 .. Len(engines) : v[j] = engines[p]
      BY <1>6
    <3>2. PICK q \in 1 .. Len(engines) : v[k] = engines[q]
      BY <1>6
    <3>3. object[engines[p]].name = object[engines[q]].name
      BY <1>9, <2>2, <3>1, <3>2
    <3>4. p = q
      BY <1>1, <3>3 DEF VectorIn
    <3> QED BY <1>7, <3>1, <3>2, <3>4
  <2> QED BY <2>1, <2>2 DEF VectorIn
<1>11. names \subseteq EngineNames \cup {Unused.name} /\ \A k \in 1 .. Len(v) : obj[v[k]].name \notin names
  BY <1>1, <1>2, <1>9 DEF names, Engines
<1>12. ASSUME NEW o \in Objects, o # e, OwnedIn(o, engines, object, cycle.forked)
       PROVE  OwnedIn(o, v, obj, cycle.forked)
  <2>1. PICK m \in 1 .. Len(engines) : engines[m] = o
    BY <1>12 DEF OwnedIn, ToSet
  <2> DEFINE k == IF m < i THEN m ELSE m - 1
  <2>2. k \in 1 .. Len(v) /\ m = IF k < i THEN k ELSE k + 1
    BY <1>2, <1>3, <1>12, <2>1
  <2>3. v[k] = o
    BY <1>3, <2>1, <2>2
  <2> HIDE DEF k
  <2>4. o \in ToSet(v)
    BY <2>2, <2>3 DEF ToSet
  <2> QED BY <1>4, <1>12, <2>4 DEF OwnedIn
<1>13. /\ engines' \in Seq(Objects) /\ object' \in [Objects -> Engines]
       /\ VectorIn(engines', object')
       /\ \A o \in Objects : obj[o].memory # "unused" => object'[o] = obj[o]
  <2>1. CASE again
    BY <1>3, <1>4, <1>5, <1>10, <1>11, <2>1, PushedIs
  <2>2. CASE ~again
    BY <1>3, <1>4, <1>5, <1>10, <2>2
  <2> QED BY <2>1, <2>2
<1>14. ASSUME NEW o \in Objects, OwnedIn(o, v, obj, cycle.forked)
       PROVE  OwnedIn(o, engines', object', cycle.forked)
  <2>1. CASE again
    BY <1>3, <1>4, <1>5, <1>10, <1>11, <1>14, <2>1, PushedKeeps
  <2>2. CASE ~again
    BY <1>5, <1>14, <2>2
  <2> QED BY <2>1, <2>2
<1>15. object[e].memory = "there"
  BY <1>1 DEF VectorIn
<1>16. ASSUME NEW o \in lost' PROVE o \in Objects /\ object'[o].memory = "freed"
  <2>1. CASE o \in lost
    <3>1. o \in Objects /\ o # e /\ object[o].memory = "freed"
      BY <1>1, <1>15, <2>1
    <3>2. obj[o].memory = "freed"
      BY <1>4, <3>1
    <3> QED BY <1>13, <3>1, <3>2
  <2>2. CASE o = e /\ Starting(e)
    BY <1>2, <1>4, <1>13, <2>2
  <2> QED BY <1>5, <2>1, <2>2
<1>17. lost \subseteq lost' /\ (Starting(e) => e \in lost')
  BY <1>5
<1> HIDE DEF e
<1> QED BY <1>12, <1>13, <1>14, <1>16, <1>17 DEF e

(* A pass over the engines: what it forks is owned, and what has ended does   *)
(* not count as started.                                                      *)
LEMMA PassFromIs ==
    ASSUME EnginesInv, Running, cycle.at \in {"asleep", "starting"},
           NEW i \in Nat \ {0}, NEW first, NEW forks \in BOOLEAN,
           NEW obj \in [Objects -> Engines],
           \A o \in Objects : obj[o].memory = object[o].memory /\ obj[o].name = object[o].name,
           \A o \in Objects \ lost : process[o] = "running" =>
               o \in ToSet(engines) /\ obj[o].started,
           PassFrom(i, first, obj, forks), UNCHANGED <<owner, engines, main, lost>>
    PROVE  EnginesInv'
<1> DEFINE idle == {j \in i .. Len(engines) : ~obj[engines[j]].started}
           gone == {j \in i .. Len(engines) : process[engines[j]] = "none"}
           stop == Min(idle \union gone \union {Len(engines) + 1})
           seen == first \union {engines[j] : j \in i .. (stop - 1)}
           forked == IF forks /\ stop \in idle THEN {engines[stop]} ELSE {}
<1>1. EnginesTypeOK /\ VectorInv /\ CycleInv /\ MainAt
  BY DEF EnginesInv
<1>2. engines \in Seq(Objects) /\ Len(engines) \in Nat /\ i \in Nat /\ 1 <= i
  BY <1>1 DEF EnginesTypeOK
<1>4. \A j \in idle : j \in 1 .. Len(engines) /\ engines[j] \in Objects
  BY <1>2
<1>5. /\ object' = Reaped(seen, obj)
      /\ process' = [o \in Objects |-> IF o \in forked THEN "running" ELSE NotReaped(seen)[o]]
      /\ cycle' = IF forks /\ stop \in idle THEN At("starting", stop) ELSE At("asleep", 0)
  <2>1. object' = Reaped(seen, obj)
    BY DEF PassFrom
  <2>2. CASE forks /\ stop \in idle
    <3>1. process' = [NotReaped(seen) EXCEPT ![engines[stop]] = "running"] /\ cycle' = At("starting", stop)
      BY <2>2 DEF PassFrom
    <3>2. engines[stop] \in Objects
      BY <1>4, <2>2
    <3>3. forked = {engines[stop]}
      BY <2>2
    <3> HIDE DEF forked, seen, idle, gone, stop
    <3> QED BY <2>1, <2>2, <3>1, <3>2, <3>3 DEF NotReaped
  <2>3. CASE ~(forks /\ stop \in idle)
    <3>1. process' = NotReaped(seen) /\ cycle' = At("asleep", 0)
      BY <2>3 DEF PassFrom
    <3>2. forked = {}
      BY <2>3
    <3> HIDE DEF forked, seen, idle, gone, stop
    <3> QED BY <2>1, <2>3, <3>1, <3>2 DEF NotReaped
  <2> QED BY <2>2, <2>3
<1> HIDE DEF stop, seen, gone
<1>6. /\ cycle' \in Cycles /\ cycle'.forked = forked
      /\ cycle'.at \in {"starting", "asleep"}
      /\ cycle'.at = "starting" => \E o \in ToSet(engines) : cycle'.forked = {o}
      /\ cycle'.at # "starting" => cycle'.forked = {}
  <2>1. cycle \in Cycles
    BY <1>1 DEF EnginesTypeOK
  <2>2. CASE forks /\ stop \in idle
    <3>1. stop \in 1 .. Len(engines) /\ engines[stop] \in Objects
      BY <1>4, <2>2
    <3>2. stop \in Nat /\ {engines[stop]} \in SUBSET Objects
      BY <3>1
    <3>3. cycle' = [cycle EXCEPT !.at = "starting", !.i = stop, !.forked = {engines[stop]}]
      BY <1>5, <2>2 DEF At
    <3>4. forked = {engines[stop]} /\ engines[stop] \in ToSet(engines)
      BY <2>2, <3>1 DEF ToSet
    <3> HIDE DEF forked, idle
    <3> QED BY <2>1, <3>1, <3>2, <3>3, <3>4 DEF Cycles
  <2>3. CASE ~(forks /\ stop \in idle)
    <3>1. cycle' = [cycle EXCEPT !.at = "asleep", !.i = 0, !.forked = {}]
      BY <1>5, <2>3 DEF At
    <3>2. forked = {}
      BY <2>3
    <3> HIDE DEF forked, idle
    <3> QED BY <2>1, <3>1, <3>2 DEF Cycles
  <2> QED BY <2>2, <2>3
<1>7. ASSUME NEW o \in Objects
      PROVE  /\ object'[o] \in Engines
             /\ object'[o].memory = object[o].memory /\ object'[o].name = object[o].name
             /\ process[o] # "zombie" => object'[o] = obj[o]
  <2>1. object'[o] = IF o \in seen /\ process[o] = "zombie"
                     THEN [obj[o] EXCEPT !.started = FALSE] ELSE obj[o]
    BY <1>5 DEF Reaped
  <2>2. obj[o] \in Engines
    OBVIOUS
  <2>3. /\ [obj[o] EXCEPT !.started = FALSE] \in Engines
        /\ [obj[o] EXCEPT !.started = FALSE].memory = obj[o].memory
        /\ [obj[o] EXCEPT !.started = FALSE].name = obj[o].name
    BY <2>2 DEF Engines
  <2> QED BY <2>1, <2>2, <2>3
<1>8. object' \in [Objects -> Engines]
  <2>1. object' = [o \in Objects |-> object'[o]]
    BY <1>5 DEF Reaped
  <2> QED BY <1>7, <2>1
<1>9. forked \subseteq Objects /\ forked \subseteq ToSet(engines)
  <2>1. CASE forks /\ stop \in idle
    <3>1. stop \in 1 .. Len(engines) /\ engines[stop] \in Objects
      BY <1>4, <2>1
    <3> QED BY <2>1, <3>1 DEF ToSet
  <2>2. CASE ~(forks /\ stop \in idle)
    BY <2>2
  <2> QED BY <2>1, <2>2
<1> HIDE DEF forked, idle
<1>10. process' \in [Objects -> {"none", "running", "zombie"}]
  BY <1>1, <1>5 DEF NotReaped, EnginesTypeOK
<1>11. EnginesTypeOK'
  BY <1>1, <1>6, <1>8, <1>10 DEF EnginesTypeOK
<1>12. VectorInv'
  <2>1. VectorIn(engines, object')
    BY <1>1, <1>2, <1>7, VectorKept DEF VectorInv
  <2>2. \A o \in lost : object'[o].memory = "freed"
    BY <1>1, <1>7 DEF VectorInv, EnginesTypeOK
  <2> QED BY <2>1, <2>2 DEF VectorInv
<1>13. OwnedInv'
  <2> SUFFICES ASSUME NEW o \in Objects \ lost, process'[o] = "running"
               PROVE  o \in ToSet(engines) /\ (object'[o].started \/ o \in cycle'.forked)
    BY DEF OwnedInv, OwnedIn
  <2>1. CASE o \in forked
    BY <1>6, <1>9, <2>1
  <2>2. CASE o \notin forked
    <3>1. process[o] = "running"
      BY <1>5, <2>2 DEF NotReaped
    <3> QED BY <1>7, <3>1
  <2> QED BY <2>1, <2>2
<1>14. CycleInv'
  BY <1>6 DEF CycleInv
<1>15. MainAt'
  BY <1>1 DEF MainAt, Running
<1> QED BY <1>11, <1>12, <1>13, <1>14, <1>15 DEF EnginesInv

(* The encoder's coroutine stops what counts as started before it is over.    *)
LEMMA EndFromIs ==
    ASSUME EnginesInv, NEW i \in Nat \ {0}, EndFrom(i), UNCHANGED <<owner, engines>>
    PROVE  /\ cycle' \in Cycles /\ CycleInv' /\ cycle'.forked = {}
           /\ cycle'.at \in {"stopping", "over"}
<1> DEFINE s == IF owner = "transcode" THEN Started(engines, i) ELSE {}
<1>1. cycle \in Cycles /\ engines \in Seq(Objects) /\ Len(engines) \in Nat /\ i \in Nat /\ 1 <= i
  BY DEF EnginesInv, EnginesTypeOK
<1>2. cycle' = IF s = {} THEN At("over", 0) ELSE At("stopping", Min(s))
  BY DEF EndFrom
<1>3. s \subseteq 1 .. Len(engines) /\ (s # {} => owner = "transcode")
  BY <1>1 DEF Started
<1> HIDE DEF s
<1>4. s # {} => Min(s) \in 1 .. Len(engines) /\ Min(s) \in Nat
  <2>1. s \subseteq Nat
    BY <1>1, <1>3
  <2> QED BY <1>3, <2>1, FirstOf
<1>5. CASE s = {}
  <2>1. cycle' = [cycle EXCEPT !.at = "over", !.i = 0, !.forked = {}]
    BY <1>2, <1>5 DEF At
  <2>2. /\ cycle' \in Cycles /\ cycle'.at = "over" /\ cycle'.forked = {}
    BY <1>1, <2>1 DEF Cycles
  <2> QED BY <2>2 DEF CycleInv
<1>6. CASE s # {}
  <2>1. cycle' = [cycle EXCEPT !.at = "stopping", !.i = Min(s), !.forked = {}]
    BY <1>2, <1>6 DEF At
  <2>2. /\ cycle' \in Cycles /\ cycle'.at = "stopping" /\ cycle'.forked = {} /\ cycle'.i = Min(s)
    BY <1>1, <1>4, <1>6, <2>1 DEF Cycles
  <2> QED BY <1>3, <1>4, <1>6, <2>2 DEF CycleInv
<1> QED BY <1>5, <1>6

(* The destructors stop what counts as started, and nothing is left.          *)
LEMMA ClearsFromIs ==
    ASSUME EnginesInv, cycle.at = "over", NEW i \in Nat \ {0},
           ClearsFrom(i), UNCHANGED <<owner, lost>>,
           process' \in [Objects -> {"none", "running", "zombie"}],
           \A o \in Objects : process'[o] = "running" => process[o] = "running",
           \A j \in 1 .. Len(engines) : j < i => process'[engines[j]] # "running"
    PROVE  EnginesInv'
<1> DEFINE s == Started(engines, i)
<1>1. EnginesTypeOK /\ VectorInv /\ OwnedInv /\ CycleInv
  BY DEF EnginesInv
<1>2. /\ engines \in Seq(Objects) /\ Len(engines) \in Nat /\ i \in Nat /\ 1 <= i
      /\ lost \subseteq Objects /\ object \in [Objects -> Engines] /\ cycle \in Cycles
  BY <1>1 DEF EnginesTypeOK
<1>3. \A j \in 1 .. Len(engines) : engines[j] \in Objects /\ engines[j] \notin lost
  BY <1>1, <1>2 DEF VectorInv, VectorIn
<1>4. \A j \in 1 .. Len(engines) : j \notin s => process'[engines[j]] # "running"
  <2> SUFFICES ASSUME NEW j \in 1 .. Len(engines), j \notin s, process'[engines[j]] = "running"
               PROVE  FALSE
    OBVIOUS
  <2>1. process[engines[j]] = "running" /\ engines[j] \in Objects \ lost
    BY <1>3
  <2>2. cycle.forked = {}
    BY <1>1 DEF CycleInv
  <2>3. object[engines[j]].started
    BY <1>1, <2>1, <2>2 DEF OwnedInv, OwnedIn
  <2>4. ~(j < i)
    OBVIOUS
  <2> QED BY <1>2, <2>3, <2>4 DEF Started
<1>5. CASE s = {}
  <2>1. Cleared
    BY <1>5 DEF ClearsFrom
  <2>2. /\ engines' = <<>> /\ cycle' = Off
        /\ object' = [o \in Objects |-> IF o \in ToSet(engines) THEN Unused ELSE object[o]]
        /\ main' = Main(IF owner = "ingest" THEN "done" ELSE "idle", 0)
    BY <2>1 DEF Cleared
  <2>3. \A o \in Objects \ lost : process'[o] # "running"
    <3> SUFFICES ASSUME NEW o \in Objects \ lost, process'[o] = "running" PROVE FALSE
      OBVIOUS
    <3>1. o \in ToSet(engines)
      BY <1>1 DEF OwnedInv, OwnedIn
    <3>2. PICK j \in 1 .. Len(engines) : engines[j] = o
      BY <3>1 DEF ToSet
    <3> QED BY <1>4, <1>5, <3>2
  <2>4. object' \in [Objects -> Engines]
    <3>1. Unused \in Engines
      BY DEF Unused, Engines
    <3> QED BY <1>2, <2>2, <3>1
  <2>5. engines' \in Seq(Objects) /\ Len(engines') = 0
    BY <2>2
  <2>6. cycle' \in Cycles /\ cycle'.at = "off" /\ cycle'.forked = {}
    BY <2>2 DEF Off, Cycles
  <2>7. main' \in Mains /\ main'.at \in {"done", "idle"}
    BY <2>2 DEF Main, Mains
  <2>8. EnginesTypeOK'
    BY <1>1, <2>4, <2>5, <2>6, <2>7 DEF EnginesTypeOK
  <2>9. VectorInv'
    <3>1. VectorIn(engines', object')
      BY <2>5 DEF VectorIn
    <3>2. \A o \in lost : o \notin ToSet(engines)
      BY <1>3 DEF ToSet
    <3>3. \A o \in lost : object'[o].memory = "freed"
      BY <1>1, <1>2, <2>2, <3>2 DEF VectorInv
    <3> QED BY <3>1, <3>3 DEF VectorInv
  <2>10. OwnedInv'
    BY <2>3 DEF OwnedInv
  <2>11. CycleInv'
    BY <2>2, <2>6 DEF CycleInv
  <2>12. MainAt'
    BY <2>3, <2>7 DEF MainAt, Live
  <2> QED BY <2>8, <2>9, <2>10, <2>11, <2>12 DEF EnginesInv
<1>6. CASE s # {}
  <2>1. main' = Main("clearing", Min(s)) /\ UNCHANGED <<engines, object, cycle>>
    BY <1>6 DEF ClearsFrom
  <2>2. s \subseteq 1 .. Len(engines) /\ s \subseteq Nat
    BY <1>2 DEF Started
  <2> HIDE DEF s
  <2>3. Min(s) \in s /\ \A y \in s : Min(s) <= y
    BY <1>6, <2>2, FirstOf
  <2>4. main' \in Mains /\ main'.at = "clearing" /\ main'.i = Min(s)
    <3>1. Min(s) \in Nat
      BY <2>2, <2>3
    <3> QED BY <2>1, <3>1 DEF Main, Mains
  <2>5. EnginesTypeOK'
    BY <1>1, <2>1, <2>4 DEF EnginesTypeOK
  <2>6. VectorInv'
    BY <1>1, <2>1 DEF VectorInv
  <2>7. OwnedInv'
    BY <1>1, <2>1 DEF OwnedInv
  <2>8. CycleInv'
    BY <1>1, <2>1 DEF CycleInv
  <2>9. \A j \in 1 .. Min(s) - 1 : process'[engines[j]] # "running"
    <3> DEFINE m == Min(s)
    <3>1. m \in 1 .. Len(engines) /\ \A y \in s : m <= y
      BY <2>2, <2>3
    <3> HIDE DEF m
    <3>2. \A j \in 1 .. m - 1 : j \in 1 .. Len(engines) /\ ~(m <= j)
      BY <1>2, <3>1
    <3>3. \A j \in 1 .. m - 1 : process'[engines[j]] # "running"
      BY <1>4, <3>1, <3>2
    <3> QED BY <3>3 DEF m
  <2>10. MainAt'
    BY <2>1, <2>2, <2>3, <2>4, <2>9 DEF MainAt
  <2> QED BY <2>5, <2>6, <2>7, <2>8, <2>10 DEF EnginesInv
<1> QED BY <1>5, <1>6
-----------------------------------------------------------------------------
LEMMA EnginesStarts == EnginesInit => EnginesInv
<1> SUFFICES ASSUME EnginesInit PROVE EnginesInv
  OBVIOUS
<1>1. EnginesTypeOK
  <2>1. Unused \in Engines
    BY DEF Unused, Engines
  <2> QED BY <2>1 DEF EnginesInit, EnginesTypeOK, Off, Cycles, Main, Mains
<1>2. VectorInv /\ OwnedInv /\ CycleInv /\ MainAt
  BY DEF EnginesInit, VectorInv, VectorIn, OwnedInv, CycleInv, MainAt, Off, Main
<1> QED BY <1>1, <1>2 DEF EnginesInv

(* Something besides engines, their memory and names moves, and no process    *)
(* starts.                                                                    *)
LEMMA FewerRun ==
    ASSUME EnginesInv, EnginesTypeOK', UNCHANGED <<engines, lost>>,
           \A o \in Objects : /\ object'[o].memory = object[o].memory
                             /\ object'[o].name = object[o].name,
           \A o \in Objects : process'[o] = "running" =>
               /\ process[o] = "running"
               /\ (object[o].started \/ o \in cycle.forked) =>
                      (object'[o].started \/ o \in cycle'.forked)
    PROVE  VectorInv' /\ OwnedInv'
<1>1. engines \in Seq(Objects) /\ lost \subseteq Objects /\ VectorInv /\ OwnedInv
  BY DEF EnginesInv, EnginesTypeOK
<1>2. VectorInv'
  <2>1. VectorIn(engines, object')
    BY <1>1, VectorKept DEF VectorInv
  <2>2. \A o \in lost : object'[o].memory = "freed"
    BY <1>1 DEF VectorInv
  <2> QED BY <2>1, <2>2 DEF VectorInv
<1>3. OwnedInv'
  <2> SUFFICES ASSUME NEW o \in Objects \ lost, process'[o] = "running"
               PROVE  o \in ToSet(engines) /\ (object'[o].started \/ o \in cycle'.forked)
    BY DEF OwnedInv, OwnedIn
  <2> QED BY <1>1 DEF OwnedInv, OwnedIn
<1> QED BY <1>2, <1>3

LEMMA WakesKeeps ==
    ASSUME EnginesInv, NEW forks \in BOOLEAN, Wakes(forks)
    PROVE  EnginesInv'
<1>1. /\ Running /\ cycle.at = "asleep"
      /\ UNCHANGED <<owner, engines, main, disposed, engineReloads, lost, engineUb>>
  BY DEF Wakes
<1>2. EnginesTypeOK /\ OwnedInv /\ CycleInv /\ MainAt
  BY DEF EnginesInv
<1>3. CASE cycle.told \/ disposed
  <2>1. EndFrom(1) /\ UNCHANGED <<object, process>>
    BY <1>3 DEF Wakes
  <2>2. /\ cycle' \in Cycles /\ CycleInv' /\ cycle'.forked = {}
        /\ cycle'.at \in {"stopping", "over"}
    BY <1>1, <2>1, EndFromIs
  <2>3. EnginesTypeOK'
    BY <1>1, <1>2, <2>1, <2>2 DEF EnginesTypeOK
  <2>4. cycle.forked = {}
    BY <1>1, <1>2 DEF CycleInv
  <2>5. VectorInv' /\ OwnedInv'
    BY <1>1, <2>1, <2>3, <2>4, FewerRun
  <2>6. MainAt'
    BY <1>1, <1>2 DEF MainAt, Running
  <2> QED BY <2>2, <2>3, <2>5, <2>6 DEF EnginesInv
<1>4. CASE ~(cycle.told \/ disposed)
  <2>1. PassFrom(1, {}, object, forks)
    BY <1>4 DEF Wakes
  <2>2. object \in [Objects -> Engines]
    BY <1>2 DEF EnginesTypeOK
  <2>3. \A o \in Objects \ lost : process[o] = "running" =>
            o \in ToSet(engines) /\ object[o].started
    BY <1>1, <1>2 DEF OwnedInv, OwnedIn, CycleInv
  <2> QED BY <1>1, <2>1, <2>2, <2>3, PassFromIs
<1> QED BY <1>3, <1>4

LEMMA StartReturnsKeeps ==
    ASSUME EnginesInv, NEW forks \in BOOLEAN, StartReturns(forks)
    PROVE  EnginesInv'
<1>1. /\ Running /\ cycle.at = "starting"
      /\ UNCHANGED <<owner, engines, main, disposed, engineReloads, lost>>
  BY DEF StartReturns
<1>2. EnginesTypeOK /\ VectorInv /\ OwnedInv /\ CycleInv /\ MainAt
  BY DEF EnginesInv
<1>3. CASE cycle.valid /\ cycle.i <= Len(engines)
  <2> DEFINE obj == [o \in Objects |-> [object[o] EXCEPT !.started = @ \/ o \in cycle.forked]]
  <2>1. PassFrom(cycle.i + 1, cycle.forked, obj, forks)
    BY <1>3 DEF StartReturns
  <2>2. /\ object \in [Objects -> Engines] /\ cycle.forked \subseteq Objects
        /\ cycle.i + 1 \in Nat \ {0}
    BY <1>2 DEF EnginesTypeOK, Cycles
  <2>3. ASSUME NEW o \in Objects
        PROVE  /\ obj[o] \in Engines
               /\ obj[o].memory = object[o].memory /\ obj[o].name = object[o].name
               /\ (object[o].started \/ o \in cycle.forked) => obj[o].started
    <3> DEFINE b == object[o].started \/ o \in cycle.forked
    <3>1. obj[o] = [object[o] EXCEPT !.started = b]
      OBVIOUS
    <3>2. object[o] \in Engines /\ b \in BOOLEAN
      BY <2>2 DEF Engines
    <3> HIDE DEF obj, b
    <3>3. /\ obj[o] \in Engines /\ obj[o].started = b
          /\ obj[o].memory = object[o].memory /\ obj[o].name = object[o].name
      BY <3>1, <3>2 DEF Engines
    <3> QED BY <3>3 DEF b
  <2>4. obj \in [Objects -> Engines]
    BY <2>3
  <2> HIDE DEF obj
  <2>5. \A o \in Objects \ lost : process[o] = "running" =>
            o \in ToSet(engines) /\ obj[o].started
    BY <1>2, <2>3 DEF OwnedInv, OwnedIn
  <2> QED BY <1>1, <2>1, <2>2, <2>3, <2>4, <2>5, PassFromIs
<1>4. CASE ~(cycle.valid /\ cycle.i <= Len(engines))
  <2>1. UNCHANGED <<object, process, cycle>>
    BY <1>4 DEF StartReturns
  <2>2. EnginesTypeOK' /\ CycleInv' /\ MainAt'
    BY <1>1, <1>2, <2>1 DEF EnginesTypeOK, CycleInv, MainAt, Live
  <2>3. VectorInv' /\ OwnedInv'
    BY <1>1, <2>1, <2>2, FewerRun
  <2> QED BY <2>2, <2>3 DEF EnginesInv
<1> QED BY <1>3, <1>4

LEMMA StopReturnsKeeps == ASSUME EnginesInv, StopReturns PROVE EnginesInv'
<1>1. /\ Running /\ cycle.at = "stopping" /\ Killed(engines[cycle.i]) /\ EndFrom(cycle.i + 1)
      /\ UNCHANGED <<owner, engines, main, disposed, engineReloads, lost, engineUb>>
  BY DEF StopReturns
<1>2. EnginesTypeOK /\ OwnedInv /\ CycleInv /\ MainAt
  BY DEF EnginesInv
<1>3. /\ object \in [Objects -> Engines] /\ engines \in Seq(Objects)
      /\ process \in [Objects -> {"none", "running", "zombie"}]
  BY <1>2 DEF EnginesTypeOK
<1>4. cycle.i \in 1 .. Len(engines) /\ cycle.forked = {} /\ owner = "transcode"
  BY <1>1, <1>2 DEF CycleInv
<1> DEFINE e == engines[cycle.i]
<1>5. e \in Objects /\ cycle.i + 1 \in Nat \ {0}
  BY <1>3, <1>4
<1>6. /\ process' = [process EXCEPT ![e] = "none"]
      /\ object' = [object EXCEPT ![e].started = FALSE]
  BY <1>1 DEF Killed
<1> HIDE DEF e
<1>7. /\ cycle' \in Cycles /\ CycleInv' /\ cycle'.forked = {}
      /\ cycle'.at \in {"stopping", "over"}
  BY <1>1, <1>5, EndFromIs
<1>8. ASSUME NEW o \in Objects
      PROVE  /\ object'[o] \in Engines
             /\ object'[o].memory = object[o].memory /\ object'[o].name = object[o].name
             /\ process'[o] = "running" => process[o] = "running" /\ object'[o] = object[o]
  <2>1. object'[o] = IF o = e THEN [object[o] EXCEPT !.started = FALSE] ELSE object[o]
    BY <1>3, <1>5, <1>6
  <2>2. object[o] \in Engines
    BY <1>3
  <2>3. process'[o] = IF o = e THEN "none" ELSE process[o]
    BY <1>3, <1>6
  <2>4. object'[o] \in Engines /\ object'[o].memory = object[o].memory /\ object'[o].name = object[o].name
    BY <2>1, <2>2 DEF Engines
  <2> QED BY <2>1, <2>3, <2>4
<1>9. object' \in [Objects -> Engines]
  <2>1. object' = [o \in Objects |-> object'[o]]
    BY <1>3, <1>6
  <2> QED BY <1>8, <2>1
<1>10. process' \in [Objects -> {"none", "running", "zombie"}]
  BY <1>3, <1>6
<1>11. EnginesTypeOK'
  BY <1>1, <1>2, <1>7, <1>9, <1>10 DEF EnginesTypeOK
<1>12. VectorInv' /\ OwnedInv'
  BY <1>1, <1>4, <1>8, <1>11, FewerRun
<1>13. MainAt'
  BY <1>1, <1>2 DEF MainAt, Running
<1> QED BY <1>7, <1>11, <1>12, <1>13 DEF EnginesInv

(* A process that runs no longer, or steps that only change what main does.   *)
LEMMA EndsKeeps == ASSUME EnginesInv, NEW o \in Objects, Ends(o) PROVE EnginesInv'
<1>1. /\ Running /\ process' = [process EXCEPT ![o] = "zombie"]
      /\ UNCHANGED <<owner, engines, object, cycle, main, lost>>
  BY DEF Ends
<1>2. EnginesTypeOK /\ CycleInv /\ MainAt
  BY DEF EnginesInv
<1>3. EnginesTypeOK' /\ \A p \in Objects : process'[p] = "running" => process[p] = "running"
  BY <1>1, <1>2 DEF EnginesTypeOK
<1>4. VectorInv' /\ OwnedInv'
  BY <1>1, <1>3, FewerRun
<1>5. CycleInv'
  BY <1>1, <1>2 DEF CycleInv
<1>6. MainAt'
  <2>1. \A j \in 1 .. Len(engines) : engines[j] \in Objects
    BY <1>2 DEF EnginesTypeOK
  <2>2. \A j \in 1 .. Len(engines) : process[engines[j]] # "running" => process'[engines[j]] # "running"
    BY <1>3, <2>1
  <2>3. main.at = "clearing" => \A j \in 1 .. main.i - 1 : j \in 1 .. Len(engines)
    BY <1>2 DEF MainAt, EnginesTypeOK
  <2> QED BY <1>1, <1>2, <2>2, <2>3 DEF MainAt, Running
<1> QED BY <1>3, <1>4, <1>5, <1>6 DEF EnginesInv

LEMMA StartKeeps == ASSUME EnginesInv, NEW names \in SUBSET EngineNames, Start(names) PROVE EnginesInv'
<1>1. /\ Running /\ main.at = "idle" /\ cycle.at = "off" /\ Pushed(names, <<>>, object)
      /\ cycle' = [Off EXCEPT !.at = "asleep"]
      /\ UNCHANGED <<owner, process, main, lost>>
  BY DEF Start
<1>2. EnginesTypeOK /\ VectorInv /\ OwnedInv /\ CycleInv /\ MainAt
  BY DEF EnginesInv
<1>3. engines = <<>> /\ cycle.forked = {}
  BY <1>1, <1>2 DEF CycleInv
<1> DEFINE v == <<>>
<1>4. v \in Seq(Objects) /\ Len(v) = 0 /\ engines = v
  BY <1>3
<1> HIDE DEF v
<1>5. /\ object \in [Objects -> Engines] /\ names \subseteq EngineNames \cup {Unused.name}
      /\ VectorIn(v, object) /\ \A i \in 1 .. Len(v) : object[v[i]].name \notin names
      /\ Pushed(names, v, object)
  BY <1>1, <1>2, <1>4 DEF EnginesTypeOK, VectorIn, v
<1>6. /\ engines' \in Seq(Objects) /\ object' \in [Objects -> Engines]
      /\ VectorIn(engines', object')
      /\ \A o \in Objects : object[o].memory # "unused" => object'[o] = object[o]
  BY <1>4, <1>5, PushedIs
<1>7. cycle' \in Cycles /\ cycle'.at = "asleep" /\ cycle'.forked = {}
  BY <1>1 DEF Off, Cycles
<1>8. EnginesTypeOK'
  BY <1>1, <1>2, <1>6, <1>7 DEF EnginesTypeOK
<1>9. VectorInv'
  BY <1>1, <1>2, <1>6 DEF VectorInv, EnginesTypeOK
<1>10. OwnedInv'
  BY <1>1, <1>2, <1>3, <1>4, <1>5, <1>7, PushedKeeps DEF OwnedInv
<1>11. CycleInv'
  BY <1>7 DEF CycleInv
<1>12. MainAt'
  BY <1>1, <1>2 DEF MainAt
<1> QED BY <1>8, <1>9, <1>10, <1>11, <1>12 DEF EnginesInv

LEMMA JoinsKeeps == ASSUME EnginesInv, Joins \/ Dispose \/ FastQuit PROVE EnginesInv'
<1>1. EnginesTypeOK /\ CycleInv
  BY DEF EnginesInv
<1>2. /\ UNCHANGED <<owner, engines, object, process, lost>>
      /\ main' \in Mains /\ (main'.at \in {"joining", "disposing"} \/ owner = "transcode")
      /\ main'.at \notin {"killing", "clearing"}
      /\ \/ cycle' = [cycle EXCEPT !.told = TRUE]
         \/ cycle' = cycle
  <2>1. CASE Joins
    BY <2>1 DEF Joins, procVars, Main, Mains
  <2>2. CASE Dispose
    BY <2>2 DEF Dispose, procVars, Main, Mains
  <2>3. CASE FastQuit
    BY <2>3 DEF FastQuit, procVars, Main, Mains
  <2> QED BY <2>1, <2>2, <2>3
<1>3. /\ cycle' \in Cycles /\ cycle'.at = cycle.at /\ cycle'.i = cycle.i
      /\ cycle'.forked = cycle.forked /\ cycle'.valid = cycle.valid
  BY <1>1, <1>2 DEF EnginesTypeOK, Cycles
<1>4. EnginesTypeOK'
  BY <1>1, <1>2, <1>3 DEF EnginesTypeOK
<1>5. VectorInv' /\ OwnedInv'
  BY <1>2, <1>3, <1>4, FewerRun
<1>6. CycleInv'
  BY <1>1, <1>2, <1>3 DEF CycleInv
<1>7. MainAt'
  BY <1>2 DEF MainAt
<1> QED BY <1>4, <1>5, <1>6, <1>7 DEF EnginesInv

LEMMA ClearsKeep == ASSUME EnginesInv, JoinReturns \/ ClearReturns PROVE EnginesInv'
<1>1. EnginesTypeOK /\ MainAt
  BY DEF EnginesInv
<1>2. engines \in Seq(Objects) /\ process \in [Objects -> {"none", "running", "zombie"}]
  BY <1>1 DEF EnginesTypeOK
<1>3. CASE JoinReturns
  <2>1. cycle.at = "over" /\ ClearsFrom(1) /\ UNCHANGED <<owner, process, lost>>
    BY <1>3 DEF JoinReturns
  <2>2. \A j \in 1 .. Len(engines) : ~(j < 1)
    BY <1>2
  <2> QED BY <1>2, <2>1, <2>2, ClearsFromIs
<1>4. CASE ClearReturns
  <2>1. /\ main.at = "clearing" /\ process' = [process EXCEPT ![engines[main.i]] = "none"]
        /\ ClearsFrom(main.i + 1) /\ UNCHANGED <<owner, lost>>
    BY <1>4 DEF ClearReturns
  <2>2. /\ cycle.at = "over" /\ main.i \in 1 .. Len(engines)
        /\ \A j \in 1 .. main.i - 1 : process[engines[j]] # "running"
    BY <1>1, <2>1 DEF MainAt
  <2>3. engines[main.i] \in Objects /\ main.i \in Nat /\ main.i + 1 \in Nat \ {0}
    BY <1>2, <2>2
  <2>4. /\ process' \in [Objects -> {"none", "running", "zombie"}]
        /\ \A o \in Objects : process'[o] = "running" => process[o] = "running"
        /\ process'[engines[main.i]] # "running"
    BY <1>2, <2>1, <2>3
  <2>5. ASSUME NEW j \in 1 .. Len(engines), j < main.i + 1
        PROVE  process'[engines[j]] # "running"
    <3>1. CASE j = main.i
      BY <2>4, <3>1
    <3>2. CASE j # main.i
      <4>1. j \in 1 .. main.i - 1 /\ engines[j] \in Objects
        BY <1>2, <2>3, <2>5, <3>2
      <4> QED BY <2>2, <2>4, <4>1
    <3> QED BY <3>1, <3>2
  <2> QED BY <2>1, <2>2, <2>3, <2>4, <2>5, ClearsFromIs
<1> QED BY <1>3, <1>4

LEMMA SpoiltIs ==
    ASSUME cycle \in Cycles, NEW how \in BOOLEAN, Spoilt(how)
    PROVE  /\ cycle' \in Cycles /\ cycle'.at = cycle.at /\ cycle'.i = cycle.i
           /\ cycle'.forked = cycle.forked
           /\ cycle'.valid => cycle.valid /\ ~(cycle.at = "starting" /\ how)
<1> DEFINE b == cycle.valid /\ ~(cycle.at = "starting" /\ how)
<1>1. cycle' = [cycle EXCEPT !.valid = b] /\ b \in BOOLEAN
  BY DEF Spoilt
<1>2. b => cycle.valid /\ ~(cycle.at = "starting" /\ how)
  OBVIOUS
<1> HIDE DEF b
<1>3. cycle'.valid = b
  BY <1>1 DEF Cycles
<1>4. /\ cycle' \in Cycles /\ cycle'.at = cycle.at /\ cycle'.i = cycle.i
      /\ cycle'.forked = cycle.forked
  BY <1>1 DEF Cycles
<1> QED BY <1>2, <1>3, <1>4

LEMMA ReloadAddsKeeps ==
    ASSUME EnginesInv, NEW n \in EngineNames, NEW moves \in BOOLEAN, ReloadAdds(n, moves)
    PROVE  EnginesInv'
<1> DEFINE names == {n}
<1>1. /\ owner = "ingest" /\ main.at = "idle" /\ cycle.at # "off"
      /\ \A o \in ToSet(engines) : object[o].name # n
      /\ Pushed(names, engines, object) /\ Spoilt(moves)
      /\ UNCHANGED <<owner, process, main, lost>>
  BY DEF ReloadAdds, Reloads, Added
<1>2. EnginesTypeOK /\ VectorInv /\ OwnedInv /\ CycleInv /\ MainAt
  BY DEF EnginesInv
<1>3. /\ engines \in Seq(Objects) /\ object \in [Objects -> Engines] /\ cycle \in Cycles
      /\ VectorIn(engines, object) /\ names \subseteq EngineNames \cup {Unused.name}
  BY <1>2 DEF EnginesTypeOK, VectorInv
<1>4. \A i \in 1 .. Len(engines) : object[engines[i]].name \notin names
  BY <1>1 DEF ToSet
<1> HIDE DEF names
<1>5. /\ engines' \in Seq(Objects) /\ object' \in [Objects -> Engines]
      /\ VectorIn(engines', object')
      /\ \A o \in Objects : object[o].memory # "unused" => object'[o] = object[o]
      /\ Len(engines) <= Len(engines') /\ \A k \in 1 .. Len(engines) : engines'[k] = engines[k]
  BY <1>1, <1>3, <1>4, PushedIs
<1>6. /\ cycle' \in Cycles /\ cycle'.at = cycle.at /\ cycle'.i = cycle.i
      /\ cycle'.forked = cycle.forked /\ (cycle'.valid => cycle.valid)
  BY <1>1, <1>3, SpoiltIs
<1>7. EnginesTypeOK'
  BY <1>1, <1>2, <1>5, <1>6 DEF EnginesTypeOK
<1>8. VectorInv'
  BY <1>1, <1>2, <1>5 DEF VectorInv, EnginesTypeOK
<1>9. OwnedInv'
  BY <1>1, <1>2, <1>3, <1>4, <1>6, PushedKeeps DEF OwnedInv
<1>10. CycleInv'
  <2>1. \A k \in 1 .. Len(engines) : k \in 1 .. Len(engines')
    BY <1>3, <1>5
  <2>2. ToSet(engines) \subseteq ToSet(engines')
    BY <1>5, <2>1 DEF ToSet
  <2> QED BY <1>1, <1>2, <1>6, <2>2 DEF CycleInv
<1>11. MainAt'
  BY <1>1, <1>2 DEF MainAt
<1> QED BY <1>7, <1>8, <1>9, <1>10, <1>11 DEF EnginesInv

(* What erases an engine has ended its process, or loses it.                  *)
LEMMA ErasedKeeps ==
    ASSUME EnginesInv, NEW i \in 1 .. Len(engines), NEW again \in BOOLEAN, Erased(i, again),
           owner = "ingest", cycle.at # "off", UNCHANGED owner,
           process' \in [Objects -> {"none", "running", "zombie"}],
           \A o \in Objects : process'[o] = "running" => process[o] = "running",
           Starting(engines[i]) \/ process'[engines[i]] # "running"
    PROVE  EnginesInv'
<1>1. EnginesTypeOK /\ VectorInv /\ OwnedInv /\ CycleInv /\ MainAt
  BY DEF EnginesInv
<1>2. /\ engines' \in Seq(Objects) /\ object' \in [Objects -> Engines]
      /\ VectorIn(engines', object')
      /\ lost' \in SUBSET Objects /\ \A o \in lost' : object'[o].memory = "freed"
      /\ lost \subseteq lost' /\ (Starting(engines[i]) => engines[i] \in lost')
      /\ \A o \in Objects : /\ o # engines[i]
                            /\ OwnedIn(o, engines, object, cycle.forked)
                            => OwnedIn(o, engines', object', cycle.forked)
  BY ErasedIs
<1>3. Spoilt(Starting(engines[i])) /\ main' = Main("idle", 0) /\ cycle \in Cycles
  BY <1>1 DEF Erased, EnginesTypeOK
<1>4. /\ cycle' \in Cycles /\ cycle'.at = cycle.at /\ cycle'.forked = cycle.forked
      /\ (cycle'.valid => cycle.valid /\ ~(cycle.at = "starting" /\ Starting(engines[i])))
  <2> DEFINE how == Starting(engines[i])
  <2>1. Spoilt(how) /\ how \in BOOLEAN
    BY <1>3 DEF Starting
  <2> HIDE DEF how
  <2>2. /\ cycle' \in Cycles /\ cycle'.at = cycle.at /\ cycle'.forked = cycle.forked
        /\ (cycle'.valid => cycle.valid /\ ~(cycle.at = "starting" /\ how))
    BY <1>3, <2>1, SpoiltIs
  <2> QED BY <2>2 DEF how
<1>5. main' \in Mains /\ main'.at = "idle"
  BY <1>3 DEF Main, Mains
<1>6. EnginesTypeOK'
  BY <1>1, <1>2, <1>4, <1>5 DEF EnginesTypeOK
<1>7. VectorInv'
  BY <1>2 DEF VectorInv
<1>8. OwnedInv'
  <2> SUFFICES ASSUME NEW o \in Objects \ lost', process'[o] = "running"
               PROVE  OwnedIn(o, engines', object', cycle.forked)
    BY <1>4 DEF OwnedInv
  <2>1. o \notin lost /\ process[o] = "running" /\ o # engines[i]
    BY <1>2
  <2> QED BY <1>1, <1>2, <2>1 DEF OwnedInv
<1>9. CycleInv'
  <2>1. cycle.at # "starting" => cycle'.forked = {}
    BY <1>1, <1>4 DEF CycleInv
  <2>2. ASSUME cycle'.at = "starting", cycle'.valid
        PROVE  \E o \in ToSet(engines') : cycle'.forked = {o}
    <3>1. PICK o \in ToSet(engines) : cycle.forked = {o}
      BY <1>1, <1>4, <2>2 DEF CycleInv
    <3>2. o \in Objects /\ o # engines[i]
      <4>1. o \in Objects
        BY <1>1 DEF EnginesTypeOK, ToSet
      <4> QED BY <1>4, <2>2, <3>1, <4>1 DEF Starting
    <3>3. OwnedIn(o, engines, object, cycle.forked)
      BY <3>1 DEF OwnedIn
    <3>4. o \in ToSet(engines')
      BY <1>2, <3>2, <3>3 DEF OwnedIn
    <3> QED BY <1>4, <3>1, <3>4
  <2> QED BY <1>1, <1>4, <2>1, <2>2 DEF CycleInv
<1>10. MainAt'
  BY <1>5 DEF MainAt
<1> QED BY <1>6, <1>7, <1>8, <1>9, <1>10 DEF EnginesInv

LEMMA ReloadRemovesKeeps ==
    ASSUME EnginesInv, NEW i \in DOMAIN engines, NEW again \in BOOLEAN, ReloadRemoves(i, again)
    PROVE  EnginesInv'
<1>1. EnginesTypeOK /\ VectorInv /\ OwnedInv /\ CycleInv
  BY DEF EnginesInv
<1>2. /\ owner = "ingest" /\ cycle.at # "off" /\ UNCHANGED <<owner, process>>
  BY DEF ReloadRemoves, Reloads
<1>3. /\ engines \in Seq(Objects) /\ process \in [Objects -> {"none", "running", "zombie"}]
  BY <1>1 DEF EnginesTypeOK
<1>4. i \in 1 .. Len(engines) /\ engines[i] \in Objects /\ i \in Nat
  BY <1>3
<1>5. CASE object[engines[i]].started
  <2>1. main' = [Main("killing", i) EXCEPT !.again = again] /\ UNCHANGED <<engines, object, cycle, lost>>
    BY <1>5 DEF ReloadRemoves
  <2>2. main' \in Mains /\ main'.at = "killing" /\ main'.i = i
    BY <1>4, <2>1 DEF Main, Mains
  <2>3. EnginesTypeOK'
    BY <1>1, <1>2, <2>1, <2>2 DEF EnginesTypeOK
  <2>4. VectorInv' /\ OwnedInv'
    BY <1>2, <2>1, <2>3, FewerRun
  <2>5. CycleInv'
    BY <1>1, <1>2, <2>1 DEF CycleInv
  <2>6. MainAt'
    BY <1>2, <1>4, <2>1, <2>2 DEF MainAt
  <2> QED BY <2>3, <2>4, <2>5, <2>6 DEF EnginesInv
<1>6. CASE ~object[engines[i]].started
  <2>1. Erased(i, again)
    BY <1>6 DEF ReloadRemoves
  <2>2. engines[i] \notin lost
    BY <1>1, <1>4 DEF VectorInv, VectorIn
  <2>3. Starting(engines[i]) \/ process'[engines[i]] # "running"
    BY <1>1, <1>2, <1>4, <1>6, <2>2 DEF OwnedInv, OwnedIn, Starting
  <2> QED BY <1>2, <1>3, <1>4, <2>1, <2>3, ErasedKeeps
<1> QED BY <1>5, <1>6

LEMMA KillReturnsKeeps == ASSUME EnginesInv, KillReturns PROVE EnginesInv'
<1>1. /\ main.at = "killing" /\ process' = [process EXCEPT ![engines[main.i]] = "none"]
      /\ Erased(main.i, main.again) /\ UNCHANGED owner
  BY DEF KillReturns
<1>2. EnginesTypeOK /\ CycleInv /\ MainAt
  BY DEF EnginesInv
<1>3. /\ owner = "ingest" /\ main.i \in 1 .. Len(engines) /\ main.again \in BOOLEAN
      /\ engines \in Seq(Objects) /\ process \in [Objects -> {"none", "running", "zombie"}]
  BY <1>1, <1>2 DEF MainAt, EnginesTypeOK, Mains
<1>4. cycle.at # "off" /\ engines[main.i] \in Objects
  BY <1>2, <1>3 DEF CycleInv
<1>5. /\ process' \in [Objects -> {"none", "running", "zombie"}]
      /\ \A o \in Objects : process'[o] = "running" => process[o] = "running"
      /\ process'[engines[main.i]] # "running"
  BY <1>1, <1>3, <1>4
<1> QED BY <1>1, <1>3, <1>4, <1>5, ErasedKeeps

LEMMA FastKillKeeps == ASSUME EnginesInv, FastKill PROVE EnginesInv'
<1>1. PICK late \in SUBSET Live :
         process' = [o \in Objects |->
             IF o \in ToSet(engines) /\ object[o].started
             THEN IF o \in late THEN "zombie" ELSE "none"
             ELSE process[o]]
  BY DEF FastKill
<1>2. PICK both \in BOOLEAN :
         /\ main' = Main(IF both THEN "joining" ELSE "done", 0)
         /\ cycle' = [cycle EXCEPT !.told = both]
  BY DEF FastKill
<1>3. UNCHANGED <<owner, engines, object, lost>>
  BY DEF FastKill
<1>4. EnginesTypeOK /\ OwnedInv /\ CycleInv
  BY DEF EnginesInv
<1>5. main' \in Mains /\ main'.at \in {"joining", "done"}
  BY <1>2 DEF Main, Mains
<1>6. /\ cycle' \in Cycles /\ cycle'.at = cycle.at /\ cycle'.i = cycle.i
      /\ cycle'.forked = cycle.forked /\ cycle'.valid = cycle.valid
  BY <1>2, <1>4 DEF EnginesTypeOK, Cycles
<1>7. process' \in [Objects -> {"none", "running", "zombie"}]
  BY <1>1, <1>4 DEF EnginesTypeOK
<1>8. EnginesTypeOK' /\ \A o \in Objects : process'[o] = "running" => process[o] = "running"
  BY <1>1, <1>3, <1>4, <1>5, <1>6, <1>7 DEF EnginesTypeOK
<1>9. VectorInv' /\ OwnedInv'
  BY <1>3, <1>6, <1>8, FewerRun
<1>10. CycleInv'
  BY <1>3, <1>4, <1>6 DEF CycleInv
<1>11. ASSUME NEW o \in Objects \ lost, process'[o] = "running"
       PROVE  o \in cycle.forked
  <2>1. process[o] = "running" /\ ~(o \in ToSet(engines) /\ object[o].started)
    BY <1>1, <1>8, <1>11
  <2> QED BY <1>4, <2>1 DEF OwnedInv, OwnedIn
<1>12. MainAt'
  BY <1>3, <1>5, <1>6, <1>11 DEF MainAt, Live
<1> QED BY <1>8, <1>9, <1>10, <1>12 DEF EnginesInv

LEMMA EnginesKeeps == EnginesInv /\ [EnginesNext]_enginesVars => EnginesInv'
<1> SUFFICES ASSUME EnginesInv, [EnginesNext]_enginesVars PROVE EnginesInv'
  OBVIOUS
<1>1. ASSUME NEW forks \in BOOLEAN, Wakes(forks) \/ StartReturns(forks) PROVE EnginesInv'
  BY <1>1, WakesKeeps, StartReturnsKeeps
<1>2. CASE StopReturns
  BY <1>2, StopReturnsKeeps
<1>3. CASE Others
  BY <1>3, ClearsKeep, KillReturnsKeeps, FastKillKeeps DEF Others
<1>4. ASSUME NEW o \in Objects, Ends(o) PROVE EnginesInv'
  BY <1>4, EndsKeeps
<1>5. ASSUME NEW names \in SUBSET EngineNames, Start(names) PROVE EnginesInv'
  BY <1>5, StartKeeps
<1>6. CASE Joins \/ Dispose \/ FastQuit
  BY <1>6, JoinsKeeps
<1>7. ASSUME NEW n \in EngineNames, NEW moves \in BOOLEAN, ReloadAdds(n, moves) PROVE EnginesInv'
  BY <1>7, ReloadAddsKeeps
<1>8. ASSUME NEW i \in DOMAIN engines, NEW again \in BOOLEAN, ReloadRemoves(i, again) PROVE EnginesInv'
  BY <1>8, ReloadRemovesKeeps
<1>9. CASE UNCHANGED enginesVars
  BY <1>9 DEF enginesVars, procVars, EnginesInv, EnginesTypeOK, VectorInv, OwnedInv,
              CycleInv, MainAt, Live
<1> QED BY <1>1, <1>2, <1>3, <1>4, <1>5, <1>6, <1>7, <1>8, <1>9 DEF EnginesNext, Coroutine

(* Every process that runs is that of an engine in the vector, the only one of    *)
(* its name; after unpublish none runs, nor when the server has quit with its       *)
(* ingests, fast or gracefully; except those whose engine a reload erased, or the    *)
(* quit met, in the pause of SrsProcess::start after the fork.  Of the transcode     *)
(* engines of a stream that is published as the server exits it says nothing:        *)
(* SrsServer::dispose leaves them running.                                       *)
THEOREM ProcessesAreTheirs == EnginesSpec => []ProcessesAreOwned
<1>1. EnginesInv => ProcessesAreOwned
  <2> SUFFICES ASSUME EnginesInv PROVE ProcessesAreOwned
    OBVIOUS
  <2>1. /\ VectorIn(engines, object) /\ OwnedInv /\ CycleInv /\ MainAt
    BY DEF EnginesInv, VectorInv
  <2>2. \A o \in Live \ lost : o \in ToSet(engines) /\ (object[o].started \/ Starting(o))
    BY <2>1 DEF OwnedInv, OwnedIn, Live, Starting
  <2>3. ASSUME NEW o \in Live \ lost, NEW p \in Live \ lost, object[o].name = object[p].name
        PROVE  o = p
    <3>1. PICK i \in 1 .. Len(engines) : engines[i] = o
      BY <2>2 DEF ToSet
    <3>2. PICK j \in 1 .. Len(engines) : engines[j] = p
      BY <2>2 DEF ToSet
    <3> QED BY <2>1, <2>3, <3>1, <3>2 DEF VectorIn
  <2>4. engines = <<>> => Live \subseteq lost
    BY <2>2 DEF ToSet
  <2>5. /\ main.at = "idle" /\ cycle.at = "off" => Live \subseteq lost
        /\ main.at = "done" /\ owner = "ingest" => Live \subseteq lost \cup cycle.forked
    BY <2>1, <2>4 DEF CycleInv, MainAt
  <2> QED BY <2>2, <2>3, <2>5 DEF ProcessesAreOwned
<1> QED BY <1>1, EnginesStarts, EnginesKeeps, PTL DEF EnginesSpec
=============================================================================

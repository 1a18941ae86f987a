--------------------------- MODULE OwnerElection ---------------------------
(***************************************************************************)
(* Electing the one infrastructure owner of a state root.  A producer that *)
(* gets the instance lease (a flock) settles the last startup, accepts a   *)
(* new one in the journal and starts a child that inherits the lease.  The *)
(* child assumes the startup, binds its endpoint, publishes it and serves. *)
(* Producers that find the lease busy join what the journal shows.  A stop *)
(* client asks the owner to stop and observes that it has.  Processes die  *)
(* at any step, the machine reboots, and the wall clock may be set back.   *)
(***************************************************************************)
EXTENDS Naturals, Sequences, FiniteSets

CONSTANTS Producers,        \* processes that ask for an owner
          Keys,             \* launch context and initial operation of a request
          MaxStartups,      \* bound: accepted startups
          MaxBoots,         \* bound: boots of the machine
          MaxElectFaults    \* bound: deaths, failed steps and clock changes

VARIABLES
    startups,               \* journal: intents with their later records
    staged,                 \* launch contexts with a manifest
    children,               \* owner process of each startup
    sockets,                \* startups whose endpoint path exists
    leaseBy,                \* descriptors of the locked instance file
    producers,              \* progress of each producer
    stopper,                \* the stop client
    bootNow, electFaults

electVars == <<startups, staged, children, sockets, leaseBy, producers, stopper, bootNow, electFaults>>

Latest == Len(startups)
Starts == 1..Latest
ChildOf(s) == <<"child", s>>
ProducerOf(p) == <<"producer", p>>
Probe == <<"probe", 0>>

Reasons == {"unassumed-expired", "assumed-absent", "previous-boot", "serving-released"}
ChildPcs == {"none", "born", "assumed", "bound", "serving", "draining", "unbound", "fenced",
             "failing", "waiting", "leaving", "gone"}
ProducerPcs == {"idle", "elect", "stage", "accept", "start", "release", "join", "observe"}

IdleProducer(key) == [pc |-> "idle", key |-> key, seq |-> 0]
IdleStopper == [pc |-> "idle", target |-> 0, report |-> "none"]

ElectTypeOK ==
    /\ Latest <= MaxStartups /\ Len(children) = Latest
    /\ \A s \in Starts :
         /\ startups[s] \in [key : Keys, boot : 1..MaxBoots, expired : BOOLEAN, assumed : BOOLEAN,
                             published : BOOLEAN, settled : Reasons \cup {"none"}]
         /\ children[s] \in [pc : ChildPcs, waits : BOOLEAN]
    /\ staged \subseteq Keys /\ sockets \subseteq Starts
    /\ leaseBy \subseteq {ChildOf(s) : s \in Starts} \cup {ProducerOf(p) : p \in Producers} \cup {Probe}
    /\ producers \in [Producers -> [pc : ProducerPcs, key : Keys, seq : 0..MaxStartups]]
    /\ stopper \in [pc : {"idle", "contact", "observe", "probe"}, target : 0..MaxStartups,
                    report : {"none", "released", "closed"}]
    /\ bootNow \in 1..MaxBoots /\ electFaults \in 0..MaxElectFaults

ElectInit ==
    /\ startups = <<>> /\ staged = {} /\ children = <<>> /\ sockets = {} /\ leaseBy = {}
    /\ producers \in [Producers -> {IdleProducer(k) : k \in Keys}]
    /\ stopper = IdleStopper /\ bootNow = 1 /\ electFaults = 0

-----------------------------------------------------------------------------
(* What the journal and the process table say. *)

SameBoot(s) == startups[s].boot = bootNow
Present(s) == children[s].pc \notin {"none", "gone"}
ElectFault == electFaults < MaxElectFaults /\ electFaults' = electFaults + 1

\* unassumedStartupPending: a child may still come.
Pending(s) == ~ startups[s].assumed /\ SameBoot(s) /\ ~ startups[s].expired

\* Mutant: settlement without looking at the clock or the assumed process.
ObservedBlindly(s) ==
    IF SameBoot(s) THEN IF startups[s].assumed THEN "assumed-absent" ELSE "unassumed-expired"
    ELSE "previous-boot"
\* observeStartupSettlement: why startup s is over, or "none" when it may not be.
Observed(s) ==
    CASE ~ SameBoot(s) -> "previous-boot"
      [] SameBoot(s) /\ ~ startups[s].assumed /\ startups[s].expired -> "unassumed-expired"
      [] SameBoot(s) /\ startups[s].assumed /\ ~ Present(s) -> "assumed-absent"
      [] OTHER -> "none"

\* settlementEvidence.reobserve: the settlement of s still stands.  An expiry is judged
\* by the recorded time.
Reobserved(s) ==
    \/ startups[s].settled = "serving-released"
    \/ startups[s].settled \in Reasons /\ ~ SameBoot(s)
    \/ startups[s].settled = "unassumed-expired" /\ ~ startups[s].assumed
    \/ startups[s].settled = "assumed-absent" /\ startups[s].assumed /\ ~ Present(s)

\* requireSettledHistory: every startup but the last.
SettledHistory == \A s \in 1..(Latest - 1) : Reobserved(s)

\* The latest intent, read again by whoever acts for startup s.
Current(s) == s = Latest /\ SameBoot(s)

Advance(p, pc) == producers' = [producers EXCEPT ![p].pc = pc]
ChildStep(s, pc) == children' = [children EXCEPT ![s].pc = pc]
Give(p) == producers' = [producers EXCEPT ![p] = IdleProducer(producers[p].key)]

\* Mutant: the descriptor is closed with LOCK_UN.
DropLeaseUnlocks(who) == leaseBy' = {}
\* Close drops one descriptor; the flock lasts as long as another is open.
DropLease(who) == leaseBy' = leaseBy \ {who}

-----------------------------------------------------------------------------
(* A producer. *)

\* establishCaptured: one attempt at the lease.
Establish(p) ==
    /\ producers[p].pc = "idle"
    /\ IF leaseBy = {}
       THEN leaseBy' = {ProducerOf(p)} /\ Advance(p, "elect")
       ELSE UNCHANGED leaseBy /\ Advance(p, "join")
    /\ UNCHANGED <<startups, staged, children, sockets, stopper, bootNow, electFaults>>

\* joinBusy: a published owner is contacted by the caller, a pending startup of the same
\* request is joined, anything else is busy.
Joinable(p) ==
    /\ Latest > 0 /\ SameBoot(Latest) /\ startups[Latest].settled = "none"
    /\ startups[Latest].assumed \/ ~ startups[Latest].expired
    /\ ~ startups[Latest].published /\ startups[Latest].key = producers[p].key
JoinBusy(p) ==
    /\ producers[p].pc = "join"
    /\ IF Joinable(p)
       THEN producers' = [producers EXCEPT ![p].pc = "observe", ![p].seq = Latest]
       ELSE Give(p)
    /\ UNCHANGED <<startups, staged, children, sockets, leaseBy, stopper, bootNow, electFaults>>

\* elect, up to prepareSuccessor: join the pending startup, settle the last one, or refuse.
\* A refusal closes the attempt and with it the lease.
Settles == startups[Latest].settled = "none" /\ ~ Pending(Latest)
MayJoin(p) ==
    /\ Latest > 0 /\ SettledHistory /\ startups[Latest].settled = "none"
    /\ Pending(Latest) /\ startups[Latest].key = producers[p].key
MaySucceed ==
    \/ Latest = 0
    \/ /\ Latest > 0 /\ SettledHistory
       /\ \/ startups[Latest].settled # "none" /\ Reobserved(Latest)
          \/ Settles /\ Observed(Latest) # "none"
Elect(p) ==
    /\ producers[p].pc = "elect"
    /\ \/ /\ MaySucceed
          /\ startups' = IF Latest > 0 /\ Settles
                         THEN [startups EXCEPT ![Latest].settled = Observed(Latest)] ELSE startups
          /\ Advance(p, "stage") /\ UNCHANGED leaseBy
       \/ /\ MayJoin(p)
          /\ producers' = [producers EXCEPT ![p].pc = "observe", ![p].seq = Latest]
          /\ DropLease(ProducerOf(p)) /\ UNCHANGED startups
       \/ /\ ~ MaySucceed /\ ~ MayJoin(p)
          /\ Give(p) /\ DropLease(ProducerOf(p)) /\ UNCHANGED startups
    /\ UNCHANGED <<staged, children, sockets, stopper, bootNow, electFaults>>

\* stageContext: the chunks, last to first, and then the manifest that makes them a context.
Stage(p) ==
    /\ producers[p].pc = "stage"
    /\ staged' = staged \cup {producers[p].key}
    /\ Advance(p, "accept")
    /\ UNCHANGED <<startups, children, sockets, leaseBy, stopper, bootNow, electFaults>>

\* A step before acceptance fails, or the caller's deadline has passed.
Refuse(p) ==
    /\ producers[p].pc \in {"elect", "stage", "accept"} /\ ElectFault
    /\ Give(p) /\ DropLease(ProducerOf(p))
    /\ UNCHANGED <<startups, staged, children, sockets, stopper, bootNow>>

\* putIntent: the next sequence number, under the lease.
Accept(p) ==
    /\ producers[p].pc = "accept" /\ Latest < MaxStartups
    /\ startups' = Append(startups, [key |-> producers[p].key, boot |-> bootNow, expired |-> FALSE,
                                     assumed |-> FALSE, published |-> FALSE, settled |-> "none"])
    /\ children' = Append(children, [pc |-> "none", waits |-> FALSE])
    /\ producers' = [producers EXCEPT ![p].pc = "start", ![p].seq = Latest + 1]
    /\ UNCHANGED <<staged, sockets, leaseBy, stopper, bootNow, electFaults>>

\* The child is born with the lease's descriptor, unless the deadline passed or it fails.
StartChild(p) ==
    LET s == producers[p].seq IN
    /\ producers[p].pc = "start"
    /\ \/ /\ ~ startups[s].expired
          /\ ChildStep(s, "born") /\ leaseBy' = leaseBy \cup {ChildOf(s)}
          /\ Advance(p, "release")
          /\ UNCHANGED electFaults
       \/ /\ (startups[s].expired /\ UNCHANGED electFaults) \/ ElectFault
          /\ Advance(p, "release") /\ UNCHANGED <<children, leaseBy>>
    /\ UNCHANGED <<startups, staged, sockets, stopper, bootNow>>

\* releaseElection.
Release(p) ==
    /\ producers[p].pc = "release"
    /\ DropLease(ProducerOf(p)) /\ Advance(p, "observe")
    /\ UNCHANGED <<startups, staged, children, sockets, stopper, bootNow, electFaults>>

\* Observe: the startup is assumed and published by a reachable process (ready), or no
\* longer pending.  A pending one is observed again.
ObservePending(s) == ~ startups[s].published /\ (startups[s].assumed \/ ~ startups[s].expired)
Observe(p) ==
    /\ producers[p].pc = "observe" /\ ~ ObservePending(producers[p].seq)
    /\ Give(p)
    /\ UNCHANGED <<startups, staged, children, sockets, leaseBy, stopper, bootNow, electFaults>>
\* The observer's own deadline.
StopObserving(p) ==
    /\ producers[p].pc = "observe" /\ ObservePending(producers[p].seq) /\ ElectFault
    /\ Give(p)
    /\ UNCHANGED <<startups, staged, children, sockets, leaseBy, stopper, bootNow>>

ProducerDies(p) ==
    /\ producers[p].pc # "idle" /\ ElectFault
    /\ Give(p) /\ DropLease(ProducerOf(p))
    /\ UNCHANGED <<startups, staged, children, sockets, stopper, bootNow>>

-----------------------------------------------------------------------------
(* The child. *)

\* readOperation and putAssumption: only the current, unexpired, unsettled startup.
MayAssume(s) ==
    /\ Current(s) /\ ~ startups[s].expired
    /\ startups[s].settled = "none" /\ startups[s].key \in staged
Assume(s) ==
    /\ children[s].pc = "born"
    /\ IF MayAssume(s)
       THEN startups' = [startups EXCEPT ![s].assumed = TRUE] /\ ChildStep(s, "assumed")
       ELSE ChildStep(s, "failing") /\ UNCHANGED startups
    /\ UNCHANGED <<staged, sockets, leaseBy, producers, stopper, bootNow, electFaults>>

\* bindInitialEndpoint: the path of this sequence number must be free.
Bind(s) ==
    /\ children[s].pc = "assumed"
    /\ IF Current(s) /\ s \notin sockets
       THEN sockets' = sockets \cup {s} /\ ChildStep(s, "bound")
       ELSE ChildStep(s, "failing") /\ UNCHANGED sockets
    /\ UNCHANGED <<startups, staged, leaseBy, producers, stopper, bootNow, electFaults>>

\* putPublication and validateResident.
Publish(s) ==
    /\ children[s].pc = "bound"
    /\ IF Current(s) /\ startups[s].settled = "none" /\ startups[s].assumed
       THEN startups' = [startups EXCEPT ![s].published = TRUE] /\ ChildStep(s, "serving")
       ELSE ChildStep(s, "failing") /\ UNCHANGED startups
    /\ UNCHANGED <<staged, sockets, leaseBy, producers, stopper, bootNow, electFaults>>

\* A failed entry removes its endpoint, closes the lease and leaves.
Fail(s) ==
    /\ children[s].pc \in {"born", "assumed", "bound"} /\ ElectFault
    /\ ChildStep(s, "failing")
    /\ UNCHANGED <<startups, staged, sockets, leaseBy, producers, stopper, bootNow>>
CloseFailed(s) ==
    /\ children[s].pc = "failing"
    /\ sockets' = sockets \ {s} /\ DropLease(ChildOf(s)) /\ ChildStep(s, "leaving")
    /\ UNCHANGED <<startups, staged, producers, stopper, bootNow, electFaults>>

\* validateResidentHeld: the owner still is the one the journal names.
Resident(s) == Current(s) /\ startups[s].assumed /\ startups[s].published /\ s \in sockets

\* GuardDaemonStart: the owner starts a daemon and will wait for it.
GuardDaemonStart(s) ==
    /\ children[s].pc = "serving" /\ Resident(s) /\ ~ children[s].waits
    /\ children' = [children EXCEPT ![s].waits = TRUE]
    /\ UNCHANGED <<startups, staged, sockets, leaseBy, producers, stopper, bootNow, electFaults>>

DaemonEnds(s) ==
    /\ children[s].waits
    /\ children' = [children EXCEPT ![s].waits = FALSE]
    /\ UNCHANGED <<startups, staged, sockets, leaseBy, producers, stopper, bootNow, electFaults>>

\* Serving ends: a failed initial operation or a failed listener.
EndServing(s) ==
    /\ children[s].pc = "serving" /\ ElectFault
    /\ ChildStep(s, "draining")
    /\ UNCHANGED <<startups, staged, sockets, leaseBy, producers, stopper, bootNow>>

\* finishResidentRuntime: nothing outstanding, the entry closes its endpoint and its lease;
\* with a daemon to wait for, releaseServingContext closes the endpoint first.
FinishRuntime(s) ==
    /\ children[s].pc = "draining"
    /\ sockets' = sockets \ {s}
    /\ IF children[s].waits
       THEN ChildStep(s, "unbound") /\ UNCHANGED leaseBy
       ELSE ChildStep(s, "leaving") /\ DropLease(ChildOf(s))
    /\ UNCHANGED <<startups, staged, producers, stopper, bootNow, electFaults>>

\* recordServingRelease: an owner that is still current fences its startup.  A put that
\* failed may or may not have been written.
FenceServing(s) ==
    /\ children[s].pc = "unbound" /\ Current(s) /\ startups[s].assumed /\ startups[s].published
    /\ \/ startups' = [startups EXCEPT ![s].settled = "serving-released"] /\ UNCHANGED electFaults
       \/ ElectFault /\ UNCHANGED startups
    /\ ChildStep(s, "fenced")
    /\ UNCHANGED <<staged, sockets, leaseBy, producers, stopper, bootNow>>

\* The lease goes; the process stays for its daemon.
ReleaseServing(s) ==
    /\ children[s].pc = "fenced"
    /\ DropLease(ChildOf(s)) /\ ChildStep(s, "waiting")
    /\ UNCHANGED <<startups, staged, sockets, producers, stopper, bootNow, electFaults>>
ResidentLeaves(s) ==
    /\ children[s].pc = "leaving" \/ (children[s].pc = "waiting" /\ ~ children[s].waits)
    /\ ChildStep(s, "gone")
    /\ UNCHANGED <<startups, staged, sockets, leaseBy, producers, stopper, bootNow, electFaults>>

ChildDies(s) ==
    /\ Present(s) /\ ElectFault
    /\ children' = [children EXCEPT ![s] = [pc |-> "gone", waits |-> FALSE]]
    /\ DropLease(ChildOf(s))
    /\ UNCHANGED <<startups, staged, sockets, producers, stopper, bootNow>>

-----------------------------------------------------------------------------
(* The stop client. *)

\* readOwnerStopLocator: the latest startup with its records, of this boot.
Locate ==
    /\ stopper = IdleStopper /\ Latest > 0
    /\ Current(Latest) /\ startups[Latest].assumed /\ startups[Latest].published
    /\ stopper' = [pc |-> "contact", target |-> Latest, report |-> "none"]
    /\ UNCHANGED <<startups, staged, children, sockets, leaseBy, producers, bootNow, electFaults>>

\* contactOwnerStop and commitOwnerStop: a serving owner accepts; one that cannot be
\* reached is observed anyway.
Contact ==
    LET s == stopper.target IN
    /\ stopper.pc = "contact"
    /\ stopper' = [stopper EXCEPT !.pc = "observe"]
    /\ IF children[s].pc = "serving" /\ s = Latest /\ s \in sockets
       THEN ChildStep(s, "draining") ELSE UNCHANGED children
    /\ UNCHANGED <<startups, staged, sockets, leaseBy, producers, bootNow, electFaults>>

\* observeOwnerStopClosure: a successor proves the role was given up; else a probe of the
\* lease is needed.
Released(s) == startups[s].settled = "serving-released"
ObserveClosure ==
    LET s == stopper.target
        succeeded == Latest > s /\ (Released(s) \/ ~ Present(s))
    IN
    /\ stopper.pc = "observe" /\ SameBoot(s)
    /\ \/ /\ succeeded /\ SameBoot(Latest) /\ s \notin sockets
          /\ stopper' = [stopper EXCEPT !.pc = "idle",
                                        !.report = IF Present(s) THEN "released" ELSE "closed"]
          /\ UNCHANGED leaseBy
       \/ ~ succeeded /\ leaseBy = {} /\ leaseBy' = {Probe} /\ stopper' = [stopper EXCEPT !.pc = "probe"]
    /\ UNCHANGED <<startups, staged, children, sockets, producers, bootNow, electFaults>>

\* Mutant: a free lease is taken as the proof that the owner is gone.
ProbeByLease ==
    /\ stopper.pc = "probe"
    /\ DropLease(Probe)
    /\ stopper' = [stopper EXCEPT !.pc = "idle", !.report = "closed"]
    /\ UNCHANGED <<startups, staged, children, sockets, producers, bootNow, electFaults>>
\* observeOwnerStopUnderLease.
ProbeClosure ==
    LET s == stopper.target IN
    /\ stopper.pc = "probe"
    /\ DropLease(Probe)
    /\ stopper' = CASE ~ Present(s) -> [stopper EXCEPT !.pc = "idle", !.report = "closed"]
                    [] Present(s) /\ Released(s) /\ s \notin sockets ->
                         [stopper EXCEPT !.pc = "idle", !.report = "released"]
                    [] OTHER -> [stopper EXCEPT !.pc = "observe"]
    /\ UNCHANGED <<startups, staged, children, sockets, producers, bootNow, electFaults>>

\* The client's deadline, a changed boot, or a stale endpoint: the result is unknown.
GiveUpStop ==
    /\ stopper.pc \in {"contact", "observe"} /\ stopper' = IdleStopper /\ ElectFault
    /\ UNCHANGED <<startups, staged, children, sockets, leaseBy, producers, bootNow>>

-----------------------------------------------------------------------------
(* The machine. *)

\* The wall clock reaches a deadline, or is set back before it.  Only an unassumed startup
\* has a deadline that anyone looks at.
Expire(s) ==
    /\ ~ startups[s].expired /\ ~ startups[s].assumed /\ s = Latest
    /\ startups' = [startups EXCEPT ![s].expired = TRUE]
    /\ UNCHANGED <<staged, children, sockets, leaseBy, producers, stopper, bootNow, electFaults>>
ClockSetBack(s) ==
    /\ startups[s].expired /\ ElectFault
    /\ startups' = [startups EXCEPT ![s].expired = FALSE]
    /\ UNCHANGED <<staged, children, sockets, leaseBy, producers, stopper, bootNow>>

Reboot ==
    /\ bootNow < MaxBoots /\ bootNow' = bootNow + 1
    /\ children' = [s \in Starts |-> [pc |-> IF children[s].pc = "none" THEN "none" ELSE "gone",
                                      waits |-> FALSE]]
    /\ leaseBy' = {} /\ producers' = [p \in Producers |-> IdleProducer(producers[p].key)]
    /\ stopper' = IdleStopper
    /\ UNCHANGED <<startups, staged, sockets, electFaults>>

ElectNext ==
    \/ \E p \in Producers :
         \/ Establish(p) \/ JoinBusy(p) \/ Elect(p) \/ Stage(p) \/ Refuse(p) \/ Accept(p)
         \/ StartChild(p) \/ Release(p) \/ Observe(p) \/ StopObserving(p) \/ ProducerDies(p)
    \/ \E s \in Starts :
         \/ Assume(s) \/ Bind(s) \/ Publish(s) \/ Fail(s) \/ CloseFailed(s)
         \/ GuardDaemonStart(s) \/ DaemonEnds(s) \/ EndServing(s) \/ FinishRuntime(s)
         \/ FenceServing(s) \/ ReleaseServing(s) \/ ResidentLeaves(s) \/ ChildDies(s)
         \/ Expire(s) \/ ClockSetBack(s)
    \/ Locate \/ Contact \/ ObserveClosure \/ ProbeClosure \/ GiveUpStop \/ Reboot

ElectSpec == ElectInit /\ [][ElectNext]_electVars

-----------------------------------------------------------------------------
(* Properties. *)

\* The child acts as, or is on its way to be, the owner of the root.
Owning(s) == children[s].pc \in {"assumed", "bound", "serving", "draining", "unbound"}

\* An owner, from its assumption until it fences or closes its startup, is the only one: it
\* is the last startup, unsettled, and nobody else has the lease but the producer that
\* started it (producer_native.go acceptAndStart, lease.go Close).
SoleOwner ==
    \A s \in Starts : Owning(s) =>
        /\ Current(s) /\ startups[s].settled = "none" /\ ChildOf(s) \in leaseBy
        /\ \A who \in leaseBy \ {ChildOf(s)} :
             \E p \in Producers : who = ProducerOf(p) /\ producers[p].seq = s

\* What later elections read never contradicts itself: the contexts of accepted startups
\* are staged, every startup but the last is settled, and a settlement stands when it is
\* observed again (producer_election.go requireSettledHistory would fault for good).
EvidenceStands ==
    \A s \in Starts :
        /\ startups[s].key \in staged
        /\ startups[s].published => startups[s].assumed
        /\ startups[s].settled # "none" => Reobserved(s)
        /\ s < Latest => startups[s].settled # "none"

\* A stop that was reported is one: the owner does not serve any more and, when its
\* process was reported closed, it is gone (owner_stop_client.go observeOwnerStopClosure).
StopReportIsTrue ==
    stopper.report # "none" =>
        /\ ~ Owning(stopper.target)
        /\ stopper.report = "closed" => ~ Present(stopper.target)

Ownership == SoleOwner /\ EvidenceStands
=============================================================================

---------------------------- MODULE TaskLifetime ----------------------------
(***************************************************************************)
(* One task's native lifetime: the guardian, its worker and a recoverer over  *)
(* the durable records, with the provider processes, stop requests, crashes   *)
(* and host reboots around them, and the properties that make it correct.     *)
(***************************************************************************)
EXTENDS Guardian, WorkerClient

(* --------------------------------------------------------------- recovery *)

(* RecoverTaskLifetime and ReconcileRecordsOwned (internal/guardian): a later *)
(* process takes the lifetime-owner lease a dead guardian left and resumes    *)
(* the finalizer from durable evidence alone.  RecoveryStep chose the entry   *)
(* point; every step may instead fail, time out or crash (RecoveryEnds).      *)
RecoveryAt(pc) == rpc = pc

AcquireRecoveryOwner ==
    /\ RecoveryAt("idle") /\ owner = "none"
    /\ HasIntent(rec) \/ HasRegistration(rec)
    /\ owner' = "recovery"
    /\ rpc' = RecoveryStep(rec, boot)
    /\ UNCHANGED <<durable, run, expired, native, g, w, channel>>

(* reconcileUnregisteredLifetimeIntent of this boot: an absent or empty       *)
(* planned scope is removed; a populated one stops recovery.                  *)
DisposeUnregisteredScope ==
    /\ RecoveryAt("dispose") /\ (scope => Live = {})
    /\ scope' = FALSE
    /\ rpc' = "absence"
    /\ UNCHANGED <<durable, owner, run, expired, boot, proc, g, w, channel>>

(* A completion already recorded refuses the absence.  Mutant: overwrite it.  *)
AbsenceOverwrites == TRUE
AbsenceWritable == rec.wait = "none"

(* persistRecoveredLifetimeAbsence.                                           *)
PersistAbsence ==
    /\ RecoveryAt("absence") /\ AbsenceWritable
    /\ rec' = [rec EXCEPT !.wait = "absent"]
    /\ rpc' = "release"
    /\ UNCHANGED <<stop, proven, owner, run, expired, native, g, w, channel>>

PersistTermination(cause, next) ==
    /\ rec' = [rec EXCEPT !.termination = [cause |-> cause, count |-> rec.launches]]
    /\ rpc' = next
    /\ UNCHANGED <<stop, proven, owner, run, expired, native, g, w, channel>>

(* reconcilePreviousBootLifetime: another boot ended every process.           *)
ReconcilePreviousBoot ==
    RecoveryAt("previousBoot") /\ PersistTermination("previous-boot", "absence")

(* Cooperative recovery kills the launches it can name and fails closed.      *)
(* Mutant: it takes that for an empty scope.                                  *)
KillRecordedLaunches ==
    proc' = [s \in Launches |-> IF s <= rec.launches THEN Killed[s] ELSE proc[s]]

TrustRecordedLaunches ==
    KillRecordedLaunches /\ rpc' = "terminate" /\ UNCHANGED owner

RecoverCooperative ==
    KillRecordedLaunches /\ rpc' = "idle" /\ owner' = "none"

(* recoverRegisteredLifetime.  An exact scope without a worker record must    *)
(* already be empty; with one it is emptied, the worker is awaited, and it is *)
(* emptied again.                                                             *)
RecoverRegistered ==
    /\ RecoveryAt("open")
    /\ \/ /\ Exact /\ scope /\ rec.worker
          /\ proc' = Killed /\ rpc' = "wait" /\ UNCHANGED owner
       \/ /\ Exact /\ scope /\ ~rec.worker /\ Live = {}
          /\ rpc' = "terminate" /\ UNCHANGED <<proc, owner>>
       \/ ~Exact /\ RecoverCooperative
    /\ UNCHANGED <<durable, run, expired, boot, scope, g, w, channel>>

(* lifetime.WaitProcessAbsent on the recorded worker identity.                *)
(* Mutant: a worker without a guardian is taken for gone.                     *)
WorkerPresumedAbsent == TRUE
WorkerAbsent == ~WorkerAlive

AwaitWorkerAbsent ==
    /\ RecoveryAt("wait") /\ WorkerAbsent
    /\ rpc' = "again"
    /\ UNCHANGED <<durable, owner, run, expired, native, g, w, channel>>

(* A worker can cross Start after the first empty observation.                *)
RecoverScopeAgain ==
    /\ RecoveryAt("again")
    /\ proc' = Killed
    /\ rpc' = "terminate"
    /\ UNCHANGED <<durable, owner, run, expired, boot, scope, g, w, channel>>

PersistRecoveryTermination ==
    RecoveryAt("terminate") /\ PersistTermination("recovery", "finish")

(* recoverLifetimeWorkerCompletion: a recorded completion stands; otherwise   *)
(* the recorded worker must be gone.  An unrecorded worker proves nothing.    *)
RecoverWorkerCompletion ==
    /\ rpc \in {"completion", "finish"}
    /\ \/ rec.wait # "none" /\ UNCHANGED rec
       \/ /\ rec.wait = "none" /\ rec.worker /\ WorkerAbsent
          /\ rec' = [rec EXCEPT !.wait = "absent"]
    /\ rpc' = IF rpc = "finish" THEN "destroy" ELSE "release"
    /\ UNCHANGED <<stop, proven, owner, run, expired, native, g, w, channel>>

DestroyRecoveredScope ==
    /\ RecoveryAt("destroy") /\ Live = {}
    /\ scope' = FALSE
    /\ rpc' = "release"
    /\ UNCHANGED <<durable, owner, run, expired, boot, proc, g, w, channel>>

(* owner.ReleaseWithError: success, any error, the recovery timeout, a crash. *)
RecoveryEnds ==
    /\ ~RecoveryAt("idle")
    /\ rpc' = "idle" /\ owner' = "none"
    /\ UNCHANGED <<durable, run, expired, native, g, w, channel>>

RecoveryActions ==
    \/ AcquireRecoveryOwner \/ DisposeUnregisteredScope \/ PersistAbsence
    \/ ReconcilePreviousBoot \/ RecoverRegistered \/ AwaitWorkerAbsent
    \/ RecoverScopeAgain \/ PersistRecoveryTermination
    \/ RecoverWorkerCompletion \/ DestroyRecoveredScope \/ RecoveryEnds

(* ------------------------------------------------------------ environment *)

(* RunLaunchGate: the token lets the wrapper exec the provider, a closed pipe *)
(* makes it fail.                                                             *)
GateOpens(s) ==
    /\ proc[s] = "released"
    /\ proc' = [proc EXCEPT ![s] = "running"]
    /\ UNCHANGED <<durable, owner, boot, run, expired, scope, g, w, channel, rpc>>

GateFails(s) ==
    /\ proc[s] = "aborted"
    /\ proc' = [proc EXCEPT ![s] = "dead"]
    /\ UNCHANGED <<durable, owner, boot, run, expired, scope, g, w, channel, rpc>>

(* A process dies, or the provider exits leaving descendants in the scope.    *)
ProcessEnds(s) ==
    /\ \/ s \in Live /\ proc' = [proc EXCEPT ![s] = "dead"]
       \/ proc[s] = "running" /\ proc' = [proc EXCEPT ![s] = "residual"]
    /\ UNCHANGED <<durable, owner, boot, run, expired, scope, g, w, channel, rpc>>

DeadlinePasses ==
    /\ run > 0 /\ run \notin expired
    /\ expired' = expired \cup {run}
    /\ UNCHANGED <<durable, owner, native, run, g, w, channel, rpc>>

(* A user's durable stop request.                                             *)
RequestStop ==
    /\ stop = "none"
    /\ stop' = "user"
    /\ UNCHANGED <<rec, proven, owner, native, run, expired, g, w, channel, rpc>>

(* unlaunchedTaskEvidenceContext under a momentary lifetime-owner lease; a     *)
(* busy owner is not proof.  Mutant: the records are read without the lease.  *)
UnlaunchedByRecords == rec = NoEvidence
UnlaunchedUnderLease == owner = "none" /\ rec = NoEvidence

(* ProveUnlaunchedTaskReferenceContext.                                       *)
ProveUnlaunched ==
    /\ UnlaunchedUnderLease /\ stop # "none" /\ ~proven
    /\ proven' = TRUE
    /\ UNCHANGED <<rec, stop, owner, native, run, expired, g, w, channel, rpc>>

(* FenceUnlaunchedTaskContext: only an unsubmitted task, and the refusal is   *)
(* written and read back inside the same critical section.                    *)
FenceUnlaunched ==
    /\ UnlaunchedUnderLease /\ run = 0 /\ ~proven
    /\ stop' = IF stop = "none" THEN "abandoned" ELSE stop
    /\ proven' = TRUE
    /\ UNCHANGED <<rec, owner, native, run, expired, g, w, channel, rpc>>

(* The guardian dies: its lease and its end of the channel go, replies it     *)
(* already wrote stay readable.                                               *)
GuardianCrash ==
    /\ ~At("idle")
    /\ EndRun
    /\ conn' = FALSE /\ req' = <<>>
    /\ UNCHANGED <<durable, native, run, expired, w, rep, rpc>>

(* Another boot: durable records only.                                        *)
Reboot ==
    /\ boot < MaxBoots
    /\ boot' = boot + 1
    /\ owner' = "none" /\ g' = IdleGuardian /\ rpc' = "idle"
    /\ w' = IF w.pc = "none" THEN w ELSE [NoWorker EXCEPT !.pc = "exited"]
    /\ scope' = FALSE /\ proc' = Killed
    /\ conn' = FALSE /\ req' = <<>> /\ rep' = <<>>
    /\ UNCHANGED <<durable, run, expired>>

Environment ==
    \/ \E s \in Launches : GateOpens(s) \/ GateFails(s) \/ ProcessEnds(s)
    \/ DeadlinePasses \/ RequestStop \/ ProveUnlaunched \/ FenceUnlaunched
    \/ GuardianCrash \/ WorkerCrash \/ Reboot

Next ==
    \/ AcquireRunOwner \/ GuardianStep \/ ServeFault
    \/ WorkerStep \/ RecoveryActions \/ Environment

Spec == Init /\ [][Next]_vars

(* Every process that runs is scheduled, time passes, and a gate wrapper      *)
(* whose pipe closed exits.  Nothing is assumed of providers, users, storage  *)
(* faults, crashes or recovery.                                               *)
Fairness ==
    /\ WF_vars(GuardianStep)
    /\ WF_vars(WorkerStep)
    /\ WF_vars(DeadlinePasses)
    /\ \A s \in Launches : WF_vars(GateFails(s))

FairSpec == Spec /\ Fairness

-----------------------------------------------------------------------------
(* A durable termination record is true and stays true: the scope it names    *)
(* holds no process, not even one still at its launch gate.                   *)
TerminationSound == HasTermination(rec) => Live = {}

(* Closed evidence lets the task's outcome be published: neither a provider   *)
(* process nor the managed worker is left to write into the task directory.   *)
ClosureSound == Closed(rec) => Live = {} /\ ~WorkerAlive

(* A provider executes only after its launch record is durable, so recovery   *)
(* can name every process that ever ran provider code.                        *)
ExecutesAfterDurableLaunch ==
    \A s \in Launches :
        proc[s] \in {"released", "running", "residual"} => s <= rec.launches

(* At any moment at most one launch of the task has processes.                *)
SerialLaunches == \A s, t \in Live : s = t

(* No interleaving of writers, crashes and recoveries leaves evidence that    *)
(* the validating readers reject as task.ErrEvidenceFault.                    *)
EvidenceNeverFaults == EvidenceBinds(rec)

(* A proof that the task was never launched is never overtaken by a launch.   *)
UnlaunchedProofHolds == proven => ~HasIntent(rec) /\ w.pc = "none" /\ Live = {}

(* The worker believes the task is terminal only when that is durable.        *)
WorkerTerminalIsDurable == w.terminal => HasTermination(rec)

(* A client never learns of a termination while it is inside a native Start:  *)
(* the fence waits for that Start before it acknowledges anything.            *)
NoTerminationInsideStart ==
    w.pc \in {"start", "complete", "startFailed"} => ~w.terminal

(* The evidence of a lifetime is sound: what it says of the scope and of the  *)
(* worker is true and stays true, its readers accept it whatever wrote it,    *)
(* and neither a front end nor the worker believes more than is durable.      *)
EvidenceIsSound ==
    /\ TerminationSound /\ ClosureSound /\ SerialLaunches
    /\ EvidenceNeverFaults /\ UnlaunchedProofHolds
    /\ WorkerTerminalIsDurable /\ NoTerminationInsideStart

(* A guardian that registered its scope gives the lease up, crashes apart,    *)
(* only once the closure is durable and the scope has been removed.           *)
ReleasesOnlyClosed ==
    [][ReleaseOwner => Closed(rec) \/ ~HasRegistration(rec)]_vars

(* Lifetime records are create-once: whatever a step finds it keeps.          *)
RecordsAreImmutable ==
    [][/\ HasIntent(rec) => rec'.intent = rec.intent
       /\ HasRegistration(rec) => rec'.registration = rec.registration
       /\ rec.worker => rec'.worker
       /\ rec'.launches >= rec.launches
       /\ HasTermination(rec) =>
             rec'.termination = rec.termination /\ rec'.launches = rec.launches
       /\ rec.wait # "none" => rec'.wait = rec.wait]_vars

(* Records stand, and the lease outlives the work they leave open.            *)
RecordsStand == ReleasesOnlyClosed /\ RecordsAreImmutable

(* The lifetime implements its contract: evidence, processes and worker as    *)
(* the rest of the system sees them.                                          *)
Contract == INSTANCE LifetimeContract WITH
    LaunchIds <- Launches,
    evidence <- IF Closed(rec) THEN "closed"
                ELSE IF HasTermination(rec) THEN "terminated" ELSE "open",
    live <- Live,
    used <- {s \in Launches : proc[s] # "none"},
    worker <- IF w.pc = "none" THEN "none"
              ELSE IF w.pc = "exited" THEN "gone" ELSE "alive"

ImplementsContract == Contract!ContractSpec

(* A durable user stop routes through the guardian, which ends the scope and  *)
(* gives the lease up (agents/_data/delegation-invariants.md, section 3).     *)
CancellationEndsRun == stop = "user" /\ owner = "guardian" ~> owner # "guardian"

(* A guardian never holds the lease for ever: the deadline ends its task, the *)
(* fence ends its worker, and the lease is released.                          *)
GuardianReleases == owner = "guardian" ~> owner # "guardian"

-----------------------------------------------------------------------------
(* The strengthening that makes the type invariant and                        *)
(* ExecutesAfterDurableLaunch inductive.                                      *)

(* Records appear in commit order.                                            *)
CommitOrder ==
    /\ HasRegistration(rec) => HasIntent(rec)
    /\ rec.launches # 0 => HasRegistration(rec)
    /\ g.pc # "idle" => run # 0
    /\ g.pc \in {"create", "register"} => HasIntent(rec)
    /\ g.pc = "create" => ~HasRegistration(rec)
    /\ g.pc \in {"start", "observe", "record", "serve", "launched"} =>
          HasRegistration(rec)
    /\ g.pc \in {"register", "resolve", "start", "observe", "record"} =>
          rec.launches = 0

(* What the guardian has authorized, recorded and is about to acknowledge.    *)
GuardianOrder ==
    /\ g.pc \in {"serve", "launched"} =>
          rec.launches <= g.next
    /\ g.authorized # 0 => g.authorized = g.next
    /\ g.pc = "launched" =>
          /\ req # <<>> /\ Head(req).type = "started"
          /\ Head(req).seq = g.authorized /\ rec.launches = g.authorized
    /\ g.pending.type \in {"none", "begin", "stop", "close"}
    /\ g.pending.type = "begin" => ~g.pending.ok

(* What an accepting reply in the channel promises the worker.                *)
Promises(r) ==
    /\ r.ok /\ r.type = "begin" => r.seq \in Launches
    /\ r.ok /\ r.type = "started" => r.seq <= rec.launches
RepliesPromise == \A i \in DOMAIN rep : Promises(rep[i])

(* The worker's sequence numbers while a launch is in progress.               *)
WorkerOrder ==
    /\ w.pc \in {"start", "complete", "startFailed"} \/ w.call = "started" =>
          w.sequence \in Launches
    /\ w.call = "started" => w.active = w.sequence
    /\ w.pc = "run" => w.active \in Launches

LaunchInv ==
    /\ TypeOK /\ CommitOrder /\ GuardianOrder /\ RepliesPromise /\ WorkerOrder
    /\ ExecutesAfterDurableLaunch
=============================================================================

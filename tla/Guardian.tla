------------------------------ MODULE Guardian ------------------------------
(***************************************************************************)
(* The lifetime guardian (internal/guardian): one process per pueue row that *)
(* owns the lease, the native scope and the managed worker from the intent   *)
(* record to the durable closure.  Each action is one step between two       *)
(* points where a crash, a durable write or another process can intervene.   *)
(***************************************************************************)
EXTENDS LifetimeState

At(pc) == g.pc = pc
DeadlineReached == run \in expired
ThisRun == [run |-> run, boot |-> boot]

(* releaseOwnerUntilDone and process exit.                                    *)
EndRun ==
    /\ g' = IdleGuardian
    /\ owner' = "none"

(* freezeTerminationCause, then terminateAndRecord starts over: fence, prove  *)
(* empty, publish.  `reply` is owed once the termination is durable.          *)
EnterTermination(cause, reply) ==
    g' = [g EXCEPT !.pc = "term", !.pending = reply,
                   !.cause = IF @ = "none" THEN cause ELSE @]

(* ---------------------------------------------------------------- startup *)

AcquireRunOwner ==
    /\ At("idle") /\ owner = "none" /\ run < MaxRuns
    /\ owner' = "guardian" /\ run' = run + 1
    /\ g' = [IdleGuardian EXCEPT !.pc = "owned"]
    /\ UNCHANGED <<durable, expired, native, w, channel, rpc>>

(* TaskLaunchRefused, a recovered absence, or an existing termination.        *)
LaunchRefused ==
    stop # "none" \/ rec.wait = "absent" \/ HasTermination(rec)

RefuseTerminalReplay ==
    /\ At("owned") /\ LaunchRefused
    /\ EndRun
    /\ UNCHANGED <<durable, native, run, expired, w, channel, rpc>>

(* A deadline that passed while waiting for the lease: refuse fresh work, but *)
(* recover what an earlier owner left, still under the lease.                 *)
RecoverExpiredStart ==
    /\ At("owned") /\ ~LaunchRefused /\ DeadlineReached
    /\ g' = IdleGuardian
    /\ IF HasIntent(rec) \/ HasRegistration(rec)
       THEN owner' = "recovery" /\ rpc' = RecoveryStep(rec, boot)
       ELSE owner' = "none" /\ UNCHANGED rpc
    /\ UNCHANGED <<durable, native, run, expired, w, channel>>

(* The launch permission is read here and the intent written in a later step: *)
(* a stop request can fall between the two.                                   *)
PermitIntent ==
    /\ At("owned") /\ ~LaunchRefused /\ ~DeadlineReached
    /\ g' = [g EXCEPT !.pc = "intent"]
    /\ UNCHANGED <<durable, owner, native, run, expired, w, channel, rpc>>

(* A second run carries another deadline, so an existing intent mismatches.   *)
(* A failed write may or may not have landed; both end the run.               *)
RecordIntent ==
    /\ At("intent")
    /\ \/ /\ ~HasIntent(rec)
          /\ rec' = [rec EXCEPT !.intent = ThisRun]
          /\ g' = [g EXCEPT !.pc = "create"]
          /\ UNCHANGED owner
       \/ /\ ~HasIntent(rec)
          /\ rec' = [rec EXCEPT !.intent = ThisRun]
          /\ EndRun
       \/ UNCHANGED rec /\ EndRun
    /\ UNCHANGED <<stop, proven, native, run, expired, w, channel, rpc>>

CreateScope ==
    /\ At("create")
    /\ \/ /\ scope' = Exact
          /\ g' = [g EXCEPT !.pc = "register"]
          /\ UNCHANGED owner
       \/ UNCHANGED scope /\ EndRun
    /\ UNCHANGED <<durable, boot, proc, run, expired, w, channel, rpc>>

(* BindOwnerProcess and recordRegistration; any failure goes to the resolver, *)
(* with or without the registration on disk.                                  *)
BindAndRecordRunScope ==
    /\ At("register")
    /\ \/ UNCHANGED rec /\ g' = [g EXCEPT !.pc = "resolve"]
       \/ /\ rec' = [rec EXCEPT !.registration = ThisRun]
          /\ g' = [g EXCEPT !.pc = "resolve"]
       \/ /\ rec' = [rec EXCEPT !.registration = ThisRun]
          /\ g' = [g EXCEPT !.pc = "start"]
    /\ UNCHANGED <<stop, proven, owner, native, run, expired, w, channel, rpc>>

(* resolveCreatedScopeFailure asks whether the failed write landed.           *)
(* Mutant: the error is taken for an absent record.                           *)
ScopeNeverPublished == FALSE
ScopePublished == HasRegistration(rec)

(* A scope that was never published is destroyed without a terminal record;   *)
(* a published one is acknowledged and goes through the finalizer.            *)
ResolveCreatedScopeFailure ==
    /\ At("resolve")
    /\ IF ScopePublished
       THEN EnterTermination("recovery", NoReply) /\ UNCHANGED scope
       ELSE /\ Live = {}
            /\ scope' = FALSE
            /\ g' = [g EXCEPT !.pc = "release"]
    /\ UNCHANGED <<durable, owner, boot, proc, run, expired, w, channel, rpc>>

(* The deadline, a failed codec or a failed Start leave no worker behind.     *)
StartWorker ==
    /\ At("start")
    /\ \/ /\ ~DeadlineReached
          /\ g' = [g EXCEPT !.pc = "observe", !.started = TRUE]
          /\ w' = [NoWorker EXCEPT !.pc = "boot"]
          /\ conn' = TRUE
       \/ /\ EnterTermination(IF DeadlineReached THEN "budget" ELSE "recovery",
                              NoReply)
          /\ UNCHANGED <<w, conn>>
    /\ UNCHANGED <<durable, owner, native, run, expired, req, rep, rpc>>

(* ObserveWorker and TrackOwnerProcess.                                       *)
ObserveWorker ==
    /\ At("observe")
    /\ \/ g' = [g EXCEPT !.pc = "record"] /\ UNCHANGED conn
       \/ g' = [g EXCEPT !.pc = "unrecorded"] /\ conn' = FALSE
    /\ UNCHANGED <<durable, owner, native, run, expired, w, req, rep, rpc>>

(* persistWorkerIdentity: retried until acknowledged, before hello is served. *)
PersistWorkerIdentity ==
    /\ At("record")
    /\ rec' = [rec EXCEPT !.worker = TRUE]
    /\ \/ g' = [g EXCEPT !.pc = "serve"]
       \/ ~rec.worker /\ UNCHANGED g      \* written, error reported
    /\ UNCHANGED <<stop, proven, owner, native, run, expired, w, channel, rpc>>

(* The wait writer takes a completion without a worker record only from an    *)
(* exact scope.  Mutant: from any scope.                                      *)
UnboundWaitAlwaysAccepted == TRUE
UnboundWaitAccepted == Exact

(* startAndRecordWorker without an observed identity: the worker is awaited,  *)
(* its Wait is persisted unbound, and then the scope is ended.                *)
PersistUnrecordedWait ==
    /\ At("unrecorded") /\ w.pc = "exited" /\ UnboundWaitAccepted
    /\ rec' = [rec EXCEPT !.wait = "unqualified"]
    /\ g' = [g EXCEPT !.pc = "term", !.waitObserved = TRUE,
                      !.cause = "recovery"]
    /\ UNCHANGED <<stop, proven, owner, native, run, expired, w, channel, rpc>>

(* ensureScopeEmpty (finalizeLifetimeScope): terminate and prove empty.       *)
(* Mutant: trust that the provider's exit left nothing behind.                *)
AssumeScopeEmpty == UNCHANGED proc
EnsureScopeEmpty == proc' = Killed

(* ------------------------------------------------------- control protocol *)

(* recoverWithCause: the handler's error ends serving.                        *)
Recovering(state) ==
    [state EXCEPT !.pc = "term", !.cause = IF @ = "none" THEN "recovery" ELSE @]

ReplyTo(m, ok) == [type |-> m.type, seq |-> m.seq, ok |-> ok]

(* reply/reject: a reply that cannot be written is a handler error.           *)
Answer(state, m, ok) ==
    IF conn
    THEN g' = state /\ rep' = Append(rep, ReplyTo(m, ok))
    ELSE g' = Recovering(state) /\ UNCHANGED rep

(* A handler that refuses and fails: the reply is best effort.                *)
RejectAndRecover(state, m) ==
    /\ g' = Recovering(state)
    /\ rep' = IF conn THEN Append(rep, ReplyTo(m, FALSE)) ELSE rep

Serving(type) == At("serve") /\ req # <<>> /\ Head(req).type = type

(* requireReady; serving itself means neither fenced nor terminal.            *)
ReadyToBegin == g.hello /\ g.authorized = 0 /\ g.active = 0
ReadyToAcknowledge(m) == g.hello /\ g.active = 0 /\ g.authorized = m.seq
ReadyToFinish(m) == g.hello /\ g.authorized = 0 /\ g.active = m.seq

HandleHello ==
    /\ Serving("hello")
    /\ req' = Tail(req)
    /\ Answer([g EXCEPT !.hello = TRUE], Head(req), ~g.hello)
    /\ UNCHANGED <<durable, owner, native, run, expired, w, conn, rpc>>

(* The next sequence, within the task's launch limit.  Mutant: no limit.      *)
InUnlimitedOrder(m) == m.seq = g.next + 1
InLaunchOrder(m) == m.seq = g.next + 1 /\ m.seq <= MaxLaunches

HandleBegin ==
    LET m == Head(req) IN
    /\ Serving("begin")
    /\ req' = Tail(req)
    /\ CASE ~ReadyToBegin -> Answer(g, m, FALSE)
         [] ReadyToBegin /\ DeadlineReached ->
               EnterTermination("budget", ReplyTo(m, FALSE)) /\ UNCHANGED rep
         [] ReadyToBegin /\ ~DeadlineReached /\ InLaunchOrder(m) ->
               Answer([g EXCEPT !.next = m.seq, !.authorized = m.seq], m, TRUE)
         [] OTHER -> Answer(g, m, FALSE)
    /\ UNCHANGED <<durable, owner, native, run, expired, w, conn, rpc>>

(* RecordLifetimeLaunchContext.  Mutant: the launch is only remembered.       *)
ForgetLaunch(m) == UNCHANGED rec
RecordLaunch(m) == rec' = [rec EXCEPT !.launches = m.seq]

(* observeLifetimeLaunch, then RecordLaunch.  A launch becomes durable before *)
(* its acknowledgement, which is the next step.                               *)
HandleStarted ==
    LET m == Head(req) IN
    /\ Serving("started")
    /\ IF ReadyToAcknowledge(m)
       THEN \/ /\ m.seq \in Live
               /\ RecordLaunch(m)
               /\ g' = [g EXCEPT !.pc = "launched"]
               /\ UNCHANGED <<req, rep>>
            \/ /\ RejectAndRecover(g, m)    \* the process cannot be observed
               /\ req' = Tail(req) /\ UNCHANGED rec
       ELSE Answer(g, m, FALSE) /\ req' = Tail(req) /\ UNCHANGED rec
    /\ UNCHANGED <<stop, proven, owner, native, run, expired, w, conn, rpc>>

AcknowledgeStarted ==
    LET m == Head(req) IN
    /\ At("launched")
    /\ req' = Tail(req)
    /\ Answer([g EXCEPT !.pc = "serve", !.authorized = 0, !.active = m.seq],
              m, TRUE)
    /\ UNCHANGED <<durable, owner, native, run, expired, w, conn, rpc>>

(* rejectStartedLaunch: the launch record failed, and may still have landed.  *)
(* Authorization is cleared only after the scope was proved empty.            *)
RejectStartedLaunch ==
    LET m == Head(req) IN
    /\ Serving("started") /\ ReadyToAcknowledge(m) /\ m.seq \in Live
    /\ req' = Tail(req)
    /\ rec' \in {rec, [rec EXCEPT !.launches = m.seq]}
    /\ \/ /\ EnsureScopeEmpty
          /\ RejectAndRecover([g EXCEPT !.authorized = 0], m)
       \/ UNCHANGED <<proc, rep>> /\ g' = Recovering(g)
    /\ UNCHANGED <<stop, proven, owner, boot, scope, run, expired, w, conn,
                   rpc>>

HandleFailed ==
    LET m == Head(req) IN
    /\ Serving("failed")
    /\ req' = Tail(req)
    /\ IF ReadyToAcknowledge(m)
       THEN Answer([g EXCEPT !.authorized = 0], m, TRUE)
       ELSE Answer(g, m, FALSE)
    /\ UNCHANGED <<durable, owner, native, run, expired, w, conn, rpc>>

(* ensureScopeEmpty drains the descendants the provider left behind.          *)
HandleFinish ==
    LET m == Head(req) IN
    /\ Serving("finish")
    /\ req' = Tail(req)
    /\ IF ReadyToFinish(m)
       THEN \/ EnsureScopeEmpty /\ Answer([g EXCEPT !.active = 0], m, TRUE)
            \/ UNCHANGED proc /\ RejectAndRecover(g, m)
       ELSE UNCHANGED proc /\ Answer(g, m, FALSE)
    /\ UNCHANGED <<durable, owner, boot, scope, run, expired, w, conn, rpc>>

(* Mutant: the request is acknowledged before its termination is durable.     *)
AcknowledgeTerminationEarly ==
    LET m == Head(req) IN
    /\ At("serve") /\ req # <<>> /\ m.type \in {"stop", "close"}
    /\ req' = Tail(req)
    /\ g' = Recovering(g)
    /\ rep' = IF conn THEN Append(rep, ReplyTo(m, TRUE)) ELSE rep
    /\ UNCHANGED <<durable, owner, native, run, expired, w, conn, rpc>>

HandleTermination ==
    LET m == Head(req) IN
    /\ At("serve") /\ req # <<>> /\ m.type \in {"stop", "close"}
    /\ req' = Tail(req)
    /\ IF g.hello
       THEN /\ EnterTermination(IF m.type = "stop" THEN "budget" ELSE "completed",
                                ReplyTo(m, TRUE))
            /\ UNCHANGED rep
       ELSE Answer(g, m, FALSE)
    /\ UNCHANGED <<durable, owner, native, run, expired, w, conn, rpc>>

(* waitForServeEvent: the worker's Wait, its closed channel, the deadline     *)
(* timer, and the poll of the durable user stop.                              *)
ServeEvent ==
    /\ At("serve")
    /\ \/ /\ w.pc = "exited"
          /\ g' = [Recovering(g) EXCEPT !.waitObserved = TRUE]
       \/ /\ req = <<>> /\ (w.pc = "exited" \/ ~conn)
          /\ g' = Recovering(g)
       \/ DeadlineReached /\ EnterTermination("budget", NoReply)
       \/ stop = "user" /\ EnterTermination("requested", NoReply)
    /\ UNCHANGED <<durable, owner, native, run, expired, w, channel, rpc>>

(* An unreadable stop record or an invalid frame ends serving as well.        *)
ServeFault ==
    /\ At("serve")
    /\ g' = Recovering(g)
    /\ UNCHANGED <<durable, owner, native, run, expired, w, channel, rpc>>

(* The reader's receive context closes the codec when the deadline passes.    *)
ReaderDeadline ==
    /\ ~At("idle") /\ conn /\ DeadlineReached
    /\ conn' = FALSE
    /\ UNCHANGED <<durable, owner, native, run, expired, g, w, req, rep, rpc>>

(* ------------------------------------------------------------ finalization *)

(* A bounded attempt failed: a pending request is refused; without one the    *)
(* run leaves serve, whose reader closes the channel, and retries.            *)
TerminationAttemptFails ==
    /\ g.pc \in {"term", "publish"} /\ conn
    /\ g' = [g EXCEPT !.pending = NoReply]
    /\ IF g.pending = NoReply
       THEN conn' = FALSE /\ UNCHANGED rep
       ELSE rep' = Append(rep, [g.pending EXCEPT !.ok = FALSE]) /\ UNCHANGED conn
    /\ UNCHANGED <<durable, owner, native, run, expired, w, req, rpc>>

(* fencePendingStart with an authorized start: close the control channel and  *)
(* wait for the worker, which alone can finish or clean up that start.        *)
FencePendingStart ==
    /\ At("term") /\ g.authorized # 0 /\ ~g.waitObserved
    /\ \/ conn /\ conn' = FALSE /\ UNCHANGED g
       \/ /\ ~conn /\ w.pc = "exited"
          /\ g' = [g EXCEPT !.waitObserved = TRUE]
          /\ UNCHANGED conn
    /\ UNCHANGED <<durable, owner, native, run, expired, w, req, rep, rpc>>

(* No authorized start can still produce a process.  Mutant: the scope is     *)
(* emptied while the worker may be inside Start.                              *)
StartAssumedFenced == TRUE
StartFenced == g.authorized = 0 \/ g.waitObserved

(* verifyPendingStartFence and ensureScopeEmpty: terminationEmptyProven.      *)
ProveScopeEmpty ==
    /\ At("term") /\ StartFenced
    /\ EnsureScopeEmpty
    /\ g' = [g EXCEPT !.pc = "publish", !.authorized = 0]
    /\ UNCHANGED <<durable, owner, boot, scope, run, expired, w, channel, rpc>>

(* The record counts the durable launches.  Mutant: the authorized ones.      *)
TerminationOfAuthorized == [cause |-> g.cause, count |-> g.next]
TerminationOfLaunched == [cause |-> g.cause, count |-> rec.launches]

(* recordTermination: a failed write that landed is recognised on the retry.  *)
(* Success answers the pending request, ends serve and closes the channel.    *)
RecordTermination ==
    /\ At("publish")
    /\ rec' = [rec EXCEPT !.termination = TerminationOfLaunched]
    /\ \/ /\ ~HasTermination(rec)            \* written, error reported
          /\ UNCHANGED <<g, conn, rep>>
       \/ /\ g' = [g EXCEPT !.pc = "await", !.active = 0, !.pending = NoReply]
          /\ rep' = IF conn /\ g.pending # NoReply
                    THEN Append(rep, g.pending) ELSE rep
          /\ conn' = FALSE
    /\ UNCHANGED <<stop, proven, owner, native, run, expired, w, req, rpc>>

(* A worker that was started has been waited for.  Mutants: the scope's       *)
(* termination stands for it; a worker that never started is waited for.      *)
WorkerNotAwaited == TRUE
AnyWorkerAwaited == g.waitObserved \/ w.pc = "exited"
WorkerAwaited == g.started => g.waitObserved \/ w.pc = "exited"

(* awaitWorkerWaitUntilDone.                                                  *)
AwaitWorkerWait ==
    /\ At("await") /\ WorkerAwaited
    /\ g' = [g EXCEPT !.pc = IF rec.wait = "none" THEN "wait" ELSE "destroy",
                      !.waitObserved = g.started]
    /\ UNCHANGED <<durable, owner, native, run, expired, w, channel, rpc>>

(* persistWorkerWait with the frozen facts.                                   *)
PersistWorkerWait ==
    /\ At("wait")
    /\ rec' = [rec EXCEPT !.wait = IF g.started THEN "native" ELSE "not-started"]
    /\ \/ g' = [g EXCEPT !.pc = "destroy"]
       \/ rec.wait = "none" /\ UNCHANGED g      \* written, error reported
    /\ UNCHANGED <<stop, proven, owner, native, run, expired, w, channel, rpc>>

DestroyScope ==
    /\ At("destroy")
    /\ Live = {}
    /\ scope' = FALSE
    /\ g' = [g EXCEPT !.pc = "release"]
    /\ UNCHANGED <<durable, owner, boot, proc, run, expired, w, channel, rpc>>

ReleaseOwner ==
    /\ At("release")
    /\ EndRun
    /\ UNCHANGED <<durable, native, run, expired, w, channel, rpc>>

GuardianStartup ==
    \/ RefuseTerminalReplay \/ RecoverExpiredStart
    \/ PermitIntent \/ RecordIntent \/ CreateScope \/ BindAndRecordRunScope
    \/ ResolveCreatedScopeFailure \/ StartWorker \/ ObserveWorker
    \/ PersistWorkerIdentity \/ PersistUnrecordedWait

GuardianControl ==
    \/ HandleHello \/ HandleBegin \/ HandleStarted \/ AcknowledgeStarted
    \/ RejectStartedLaunch \/ HandleFailed \/ HandleFinish
    \/ HandleTermination \/ ServeEvent \/ ReaderDeadline

GuardianFinalization ==
    \/ TerminationAttemptFails \/ FencePendingStart \/ ProveScopeEmpty
    \/ RecordTermination \/ AwaitWorkerWait \/ PersistWorkerWait
    \/ DestroyScope \/ ReleaseOwner

(* What a guardian that holds the lease does while it is scheduled.           *)
GuardianStep == GuardianStartup \/ GuardianControl \/ GuardianFinalization
=============================================================================

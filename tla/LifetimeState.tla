---------------------------- MODULE LifetimeState ----------------------------
(***************************************************************************)
(* One task's native lifetime: first the durable evidence of it               *)
(* (internal/taskdir/lifetime*.go) and the pure decisions taken from it        *)
(* (internal/task/lifetime_completion.go, internal/guardian/recovery.go).      *)
(* Every record is create-once: a writer either publishes the first value or  *)
(* finds the identical one.                                                   *)
(*                                                                         *)
(* Then the state shared by the processes of the lifetime: the durable        *)
(* records, the lifetime-owner lease, the native scope with the               *)
(* provider processes in it, the guardian, the managed worker, the private    *)
(* control channel between them, and a recoverer.                            *)
(***************************************************************************)
EXTENDS Naturals, Sequences

CONSTANTS
    Assurance,     \* "exact" (cgroup v2) or "cooperative" (process group)
    MaxLaunches,   \* task.MaxLifetimeLaunches
    MaxRuns,       \* bound: guardian processes started for the task
    MaxBoots       \* bound: host boots

ASSUME AssuranceAssumption == Assurance \in {"exact", "cooperative"}
ASSUME BoundsAssumption ==
    /\ MaxLaunches \in Nat \ {0}
    /\ MaxRuns \in Nat \ {0}
    /\ MaxBoots \in Nat \ {0}

Launches == 1 .. MaxLaunches
Runs == 1 .. MaxRuns
Boots == 1 .. MaxBoots
Exact == Assurance = "exact"

(* Intent and registration carry the boot identity and the deadline.  An     *)
(* ordinary task's deadline is "now + budget" of the guardian run, so the    *)
(* run number stands for it.  Run 0 is an absent record.                     *)
Stamp == [run : 0 .. MaxRuns, boot : 0 .. MaxBoots]
NoStamp == [run |-> 0, boot |-> 0]

(* Why a scope ended; "none" is an absent termination record.                *)
Causes == {"none", "completed", "budget", "requested", "recovery",
           "previous-boot"}
NoTermination == [cause |-> "none", count |-> 0]

(* The worker-wait record: the child's Wait bound to a worker record, the    *)
(* same without one, a worker that never started, or a proof of absence.     *)
WaitResults == {"none", "native", "unqualified", "not-started", "absent"}

Evidence ==
    [intent       : Stamp,
     registration : Stamp,
     worker       : BOOLEAN,
     launches     : 0 .. MaxLaunches,
     termination  : [cause : Causes, count : 0 .. MaxLaunches],
     wait         : WaitResults]

NoEvidence ==
    [intent |-> NoStamp, registration |-> NoStamp, worker |-> FALSE,
     launches |-> 0, termination |-> NoTermination, wait |-> "none"]

HasIntent(e) == e.intent.run # 0
HasRegistration(e) == e.registration.run # 0
HasTermination(e) == e.termination.cause # "none"

(* ResolveLifetimeClosure(e).Closed(): absence closes with or without a       *)
(* registration, a native wait closes once the scope has a termination, and a *)
(* previous-boot termination closes alone (the legacy form).                  *)
Closed(e) ==
    \/ e.wait = "absent"
    \/ e.wait # "none" /\ HasTermination(e)
    \/ e.wait = "none" /\ e.termination.cause = "previous-boot"

(* validateLifetimeNativeCompletionBinding.                                   *)
NativeWaitBinds(e) ==
    /\ HasRegistration(e)
    /\ IF e.worker
       THEN e.wait = "native"
       ELSE \/ e.wait = "not-started" /\ e.launches = 0
            \/ e.wait = "unqualified" /\ Exact

(* validateLifetimeAbsenceBinding, over the three absence proofs.             *)
AbsenceBinds(e) ==
    \/ HasRegistration(e) /\ HasTermination(e)
    \/ /\ HasIntent(e) /\ ~HasRegistration(e)
       /\ ~e.worker /\ e.launches = 0 /\ ~HasTermination(e)

(* validateLifetimeEvidenceFacts and ValidateLifetimeCompletionBinding: the   *)
(* evidence a reader accepts.  Anything else is task.ErrEvidenceFault.        *)
EvidenceBinds(e) ==
    /\ ~HasRegistration(e) =>
          ~e.worker /\ e.launches = 0 /\ ~HasTermination(e)
    /\ HasIntent(e) /\ HasRegistration(e) => e.intent = e.registration
    /\ HasTermination(e) => e.termination.count = e.launches
    /\ e.wait = "absent" => AbsenceBinds(e)
    /\ e.wait \notin {"none", "absent"} => NativeWaitBinds(e)

(* reconcileOwnedLifetime: the transition the holder of the lifetime-owner    *)
(* lease starts with, given the evidence it loaded and the current boot.      *)
RecoveryStep(e, boot) ==
    CASE Closed(e) -> "release"
      [] ~Closed(e) /\ ~HasRegistration(e) ->
            IF e.intent.boot = boot THEN "dispose" ELSE "absence"
      [] ~Closed(e) /\ HasRegistration(e) /\ e.registration.boot # boot ->
            IF HasTermination(e) THEN "absence" ELSE "previousBoot"
      [] OTHER ->
            IF HasTermination(e) THEN "completion" ELSE "open"

-----------------------------------------------------------------------------
(* The shared state.                                                         *)

VARIABLES
    rec,      \* durable lifetime evidence (taskdir, lifetime/*.json)
    stop,     \* durable stop request: "none", "user" or "abandoned"
    proven,   \* some caller holds a proof that the task was never launched
    owner,    \* holder of lifetime/owner.lock
    boot,     \* current boot identity
    run,      \* guardian processes started so far
    expired,  \* runs whose immutable deadline has passed
    scope,    \* the planned cgroup exists
    proc,     \* the process tree of each launch sequence
    g,        \* Guardian: its private transition state
    w,        \* WorkerClient and the worker's execution thread
    conn,     \* the guardian's end of the control channel is open
    req, rep, \* requests and replies in the two directions of the channel
    rpc       \* recoverer: control state of ReconcileRecordsOwned

durable == <<rec, stop, proven>>
native == <<boot, scope, proc>>
channel == <<conn, req, rep>>
vars == <<rec, stop, proven, owner, boot, run, expired, scope, proc, g, w,
          conn, req, rep, rpc>>

-----------------------------------------------------------------------------
(* A provider process: waiting at the launch gate, with the launch token in   *)
(* its pipe, with the pipe closed, executing the provider, or exited leaving  *)
(* descendants in the scope.                                                  *)
ProcStates == {"none", "gated", "released", "aborted", "running", "residual",
               "dead"}
LiveStates == ProcStates \ {"none", "dead"}
Live == {s \in Launches : proc[s] \in LiveStates}

(* Terminate on a scope: every process in it is gone.                         *)
Killed == [s \in Launches |-> IF proc[s] = "none" THEN "none" ELSE "dead"]

(* The worker's death closes the writer of every gate still held.             *)
GatesClosed ==
    [s \in Launches |-> IF proc[s] = "gated" THEN "aborted" ELSE proc[s]]

MessageTypes == {"hello", "begin", "started", "failed", "finish", "stop",
                 "close"}

(* A worker may ask for a launch beyond the limit, which the guardian refuses; *)
(* one past it is the model's bound on how often it asks.                      *)
Asked == 0 .. MaxLaunches + 1
Request == [type : MessageTypes, seq : Asked]
Reply == [type : MessageTypes \cup {"none"}, seq : Asked, ok : BOOLEAN]
NoReply == [type |-> "none", seq |-> 0, ok |-> FALSE]

GuardianPCs == {"idle", "owned", "intent", "create", "register", "resolve",
                "start", "observe", "record", "unrecorded", "serve",
                "launched", "term", "publish", "await", "wait", "destroy",
                "release"}
GuardianState ==
    [pc           : GuardianPCs,
     cause        : Causes,              \* terminationCause, first wins
     hello        : BOOLEAN,             \* helloReceived
     started      : BOOLEAN,             \* workerStarted
     waitObserved : BOOLEAN,             \* workerWaitObserved
     authorized   : 0 .. MaxLaunches,    \* authorizedSequence
     active       : 0 .. MaxLaunches,    \* activeSequence
     next         : 0 .. MaxLaunches,    \* nextSequence
     pending      : Reply]               \* reply owed after termination

IdleGuardian ==
    [pc |-> "idle", cause |-> "none", hello |-> FALSE, started |-> FALSE,
     waitObserved |-> FALSE, authorized |-> 0, active |-> 0, next |-> 0,
     pending |-> NoReply]

WorkerPCs == {"none", "boot", "call", "ready", "start", "complete",
              "startFailed", "run", "closing", "exit", "exited"}
WorkerState ==
    [pc         : WorkerPCs,
     call       : MessageTypes \cup {"none"},  \* call in flight; holds c.mu
     sequence   : Asked,
     active     : 0 .. MaxLaunches,            \* activePID, by its sequence
     terminal   : BOOLEAN,
     controlErr : BOOLEAN,
     stopped    : BOOLEAN]                     \* Terminate has been called

NoWorker ==
    [pc |-> "none", call |-> "none", sequence |-> 0, active |-> 0,
     terminal |-> FALSE, controlErr |-> FALSE, stopped |-> FALSE]

WorkerAlive == w.pc \notin {"none", "exited"}

RecoveryPCs == {"idle", "dispose", "absence", "previousBoot", "open", "wait",
                "again", "terminate", "completion", "finish", "destroy",
                "release"}

Init ==
    /\ rec = NoEvidence /\ stop = "none" /\ proven = FALSE
    /\ owner = "none" /\ boot = 1 /\ run = 0 /\ expired = {}
    /\ scope = FALSE /\ proc = [s \in Launches |-> "none"]
    /\ g = IdleGuardian /\ w = NoWorker
    /\ conn = FALSE /\ req = <<>> /\ rep = <<>>
    /\ rpc = "idle"

TypeOK ==
    /\ rec \in Evidence
    /\ stop \in {"none", "user", "abandoned"}
    /\ proven \in BOOLEAN
    /\ owner \in {"none", "guardian", "recovery"}
    /\ boot \in Boots /\ run \in 0 .. MaxRuns
    /\ expired \in SUBSET Runs
    /\ scope \in BOOLEAN /\ proc \in [Launches -> ProcStates]
    /\ g \in GuardianState /\ w \in WorkerState
    /\ conn \in BOOLEAN
    /\ req \in Seq(Request) /\ rep \in Seq(Reply)
    /\ rpc \in RecoveryPCs
=============================================================================

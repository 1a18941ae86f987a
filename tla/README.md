# Verification of delegation-layer

delegation-layer runs headless coding-agent CLIs ("providers") as durable local
tasks. A front end (`delegate`) admits a task and submits it to a private pueue
supervisor; each pueue row runs `delegate-run`, whose guardian process owns the
task's native lifetime; durable task files, never process exit codes, decide
what happened. A recurring scheduler claims due occurrences and dispatches them
as ordinary tasks.

This directory holds TLA+ modules translated from the Go source, TLC
configurations that model-check them on small instances, and TLAPS proofs.

## 1. Inventory

| Part | State it keeps | Operations | Interacts through |
|---|---|---|---|
| lifetime records (`internal/taskdir/lifetime*.go`, `internal/task/lifetime*.go`) | create-once JSON records under `lifetime/`: intent, registration, worker, launches 1..n, termination, worker-wait; `owner.lock` | record (first value or identical replay), read, validate against each other, resolve closure | files and an flock |
| guardian (`internal/guardian`) | owner lease, scope, control protocol state, termination progress | start up, serve hello/begin/started/failed/finish/stop/close, finalize with unbounded retries | records; private socket to the worker; native scope |
| worker client and launch gate (`internal/guardian/worker_client.go`, `launch_gate.go`) | sequence, active process, terminal and error flags; one pipe per gated start | StartCommand, FinishCommand, Terminate, CloseTask | private socket; pipes |
| native scopes (`internal/lifetime`) | cgroup v2 scope (exact) or process groups (cooperative) | create, terminate, prove empty, destroy, wait for a process | kernel |
| lifetime recovery (`internal/guardian/recovery.go`, `task_recovery.go`) | none beyond the lease | resume the finalizer from records | records, lease, scope |
| launch refusal (`internal/taskdir/launch_refusal.go`) | stop and abandonment records | request a stop, prove or fence "never launched" | records, lease |
| execution (`internal/execution`) | budget, captures, the one provider child, interaction journal | run one provider, carry messages to it, publish its outcome | worker client, task directory |
| task directory, outcome publication (`internal/taskdir`, `internal/task`) | brief, request, permits, receipts, outcome, seals, session claims | create-once writes with fsync barriers, publication, recheck, scavenging | files, flocks |
| task lifecycle (`internal/tasklifecycle`) | none | submit, status, wait, result, cancel, continue, collect | admission, supervisor, task directory |
| admission, inspection (`internal/admission`, `internal/inspection`) | put-once operation records, group journal per generation | inspect a provider once, qualify a harness, prepare a request | supervisor queue, guardian, task directory |
| supervisor queue (`internal/pueue`, `internal/supervisor`) | rows, writer intent and identity locks, terminal event inbox, wake counters | staged submission, stop, cleanup, maintenance, control commands that outlive their caller | pueue daemon socket, flocks, owner processes |
| supervisor generations (`internal/pueue/internal/control/private_*.go`) | binding, daemon identity, publication, migration journal and history, aliases, runner receipts | bootstrap, migrate, recover, repair queued runners, share status observations | records, bootstrap and transition locks, daemon processes |
| infrastructure owner (`internal/supervisor/infrastructure`) | startup journal, instance lease, endpoint; connections and handoff in memory | elect, settle, serve, drain, stop | journal, socket, inherited lease |
| workspaces (`internal/workspaces`, `internal/workspace`) | journal of numbered uses per worktree, checkpoints and their removal attempts | reserve, use, capture, release, remove, forget, checkpoint | Git refs and worktrees, use lease |
| scheduler (`internal/scheduler`) | SQLite rows: schedules with a cursor, occurrences, skip spans; in memory: live and held occurrences; host epochs, fences and closures | claim, skip, observe, release, pause, resume, delete; the loop; host, resident child, foreground run, stop; next due instant | SQLite, two leases, pipes, task lifecycle |
| resource admission (`internal/resourceadmission`) | sampled host and cgroup facts | decide whether there is room for a task | kernel files |
| custody (`internal/verifiedexec`) | images, witnesses and views of earlier releases | release, reclaim, maintain | hard links, pool gate, wakes |
| provider adapters (`internal/provider`, `internal/providerjson`) | parsers and protocol machines | read streams live and sealed, decide whether a run is committed and with which answer | pipes, sealed artifacts |
| teams, configuration, front end, host interfaces, tooling | documents | parse, plan, print | files |

What is hard here:

* **Several processes, one set of records.** A guardian, its worker, the gated
  provider, a recoverer and a front end that cancels or abandons a task all read
  and write one task's evidence; only the owner lease orders some of them. The
  same is true of the queue, the supervisor's generations, inspections and
  workspaces: commands in any number of processes, with files and flocks.
* **Failure everywhere.** Processes and the host may die between any two steps; a
  write may land although its writer saw an error; a directory entry may be lost
  in a power failure after others have read it; replies may be lost or arrive for
  a call that has been given up.
* **Names are reused.** Queue IDs, process numbers and socket paths come back for
  somebody else between a check and its use.
* **Time.** An immutable deadline races the control protocol, a user stop and
  the worker's own termination; wall clocks go backwards; zones skip and repeat
  minutes.
* **Evidence must be true.** A "terminated" record means that no process of the
  task is left. "Ready", "complete", "released" and "removed" make claims too.
  None may be made early, be contradicted later, or be withheld for ever.
* **At most once.** A due time, a queue row, an inspection, a user's message, a
  provider start: each survives a crash between decision and effect without being
  done twice.
* **Waiting.** Readers and writers of the queue, connections and drain of a
  server, and seven goroutines of a provider run wait for one another.

## 2. Plan

Done, in this order: the lifetime core and its contract; the first proofs; the
scheduler and its contract; the remaining components with state of their own
(queue, generations, owner, inspections, workspaces, conversations, task
directory, provider run, provider streams, scopes, custody, host, recurrence,
resource admission); the liveness of those that wait for one another; the proofs
of section 5.

Left: proofs about the components that section 5 lists as model-checked only (their
modules use no RECURSIVE operator and can be proved about as they stand), the migration
of a generation, the inspections and the scopes first, and the composition of submission
with a task's lifetime.

## 3. Modules

| Module | Models | Kind |
|---|---|---|
| `LifetimeState` | the evidence of one task and the decisions taken from it; the variables, their types, the initial state | state |
| `Guardian` | `Guardian.Run`: startup, control protocol, finalization | actions |
| `WorkerClient` | the managed worker: client, launch gate, order of calls | actions |
| `TaskLifetime` | `RecoverTaskLifetime`, `ReconcileRecordsOwned`; the composition, the environment, the properties, `LaunchInv` | specification |
| `LifetimeContract` | what the rest of the system may rely on | abstract specification |
| `SchedulerLoop` | the SQLite rows and the transactions on them; `runtime.Run`: scan, claim, skip, observe, finish | state and actions |
| `Scheduler` | workers and tasks, commands, clock, start, stop, crash; properties | specification |
| `SchedulerContract` | what happens to a due time, once | abstract specification |
| `SchedulerHost` | the resident host, its child, foreground runs and stops | specification |
| `Recurrence` | `Next` across zone transitions, against its definition | algorithm |
| `Submission` | rows and reused IDs; staged submission, stops, cleanup | specification |
| `QueueLocks` | readers, writers and the writer intent of the queue | specification |
| `QueueMaintenance` | terminal events, wakes, the elected maintenance pass | specification |
| `ControlOwner` | control commands that outlive their caller | specification |
| `PrivateBootstrap` | first use of a private supervisor, with power failures | specification |
| `PrivateMigration` | replacement of one generation by the next, recovery | specification |
| `RunnerRepair` | queued rows rewritten for an upgraded runner | specification |
| `TaskStatus` | shared queue observations and what a status call tells | specification |
| `OwnerElection`, `OwnerServer` | election of the one owner of a root; its server and drain | specifications |
| `Inspection`, `InspectionGroup` | one inspection operation; the group journal of a root | specifications |
| `ResourceAdmission` | sampling, evaluation and the gate at creation | specification |
| `ProcessScope` | process-group scopes under a changing process table | specification |
| `Custody` | disposal of executables in custody | specification |
| `TaskDirectory` | the files of one task, their links and barriers | specification |
| `ProviderRun` | one provider run: seven goroutines, pipes, journal | specification |
| `Continuation` | session claims and the commands that continue a task | specification |
| `WorkspaceUse`, `Checkpoints` | uses of a managed worktree; one checkpoint and its removal | specifications |
| `ClaudeStream`, `CodexStream`, `PiStream`, `OpenCodeStream`, `EnvelopeReaders` | the readers of the provider streams | specifications |
| `MCSupervision`, `MCTasks`, `MCLive` | the suites of section 4 | model checking |
| `*Proofs` | theorems (section 5) | proofs |

The lifetime and the scheduler are two specifications. They meet in one fact:
the scheduler releases a reservation on a closure or never-launched proof, and
`ClosureSound` and `UnlaunchedProofHolds` say that such a proof is true. The other
components meet in the same way, in records whose meaning one module establishes
and another relies on: `Submission` assumes of a control command what
`ControlOwner` shows, `QueueMaintenance` and `Submission` the exclusion that
`QueueLocks` shows, `InspectionGroup` takes a migration as the one step
`PrivateMigration` makes of it, `Continuation` and `WorkspaceUse` rest on the
closure of a lifetime.

The lifetime modules share the variables of `LifetimeState`, so that the processes
interact the way the code does: through durable records (`rec`, `stop`), the
lease (`owner`), the scope and its processes (`scope`, `proc`), and the control
channel (`conn`, `req`, `rep`).

### State and code: lifetime

* `rec` is `task.LifetimeEvidence`: a record that exists has a value, an absent
  one its zero value. Launch records are consecutive, so a count stands for
  them. An intent and a registration carry the guardian run (it stands for the
  deadline, `now + budget`, which no two runs share) and the boot.
* `proc[s]` is the process tree of launch `s`: at its gate (`gated`), with the
  launch token in its pipe (`released`), with the pipe closed (`aborted`),
  executing the provider (`running`), exited with descendants left behind
  (`residual`).
* `g` mirrors the fields of `Guardian`; `g.pc` names the point between two
  durable writes, native operations or messages. `helloReceived`,
  `authorizedSequence`, `activeSequence`, `nextSequence`, `workerStarted`,
  `workerWaitObserved` and `terminationCause` keep their meaning; `pending` is
  the reply `handleTermination` owes once the termination is durable.
* `w` mirrors `WorkerClient` and the execution thread above it. `w.call` is the
  call in flight and holds the client's mutex. The budget thread's `Terminate`
  is a second thread that competes for that mutex.
* `rpc` is the recoverer's place in `reconcileOwnedLifetime`.

### State and code: scheduler

* `sched`, `occ` and `spans` are the tables `schedules`, `occurrences` and
  `skip_spans`. A task ID that has no row is `NoOccurrence`. An instant is a
  number; a schedule's cron expression and zone are the set of its due times.
* A store operator is one transaction and is enabled when it would commit. The
  compare-and-set conditions have names (`ClaimAllowed`, `SkipAllowed`,
  `ChangeAllowed`), so that the loop's action for a lost one can use them.
* `l` is the `loop` struct with what its call stack holds during a scan: the
  snapshot of active occurrences (`active`), the summaries still to consider
  (`page`), the spans recorded for the current one (`pass`), the claim and the
  result being worked on. `live` also stands for the counter `admissions`, which
  the code changes together with it. `observedRound` is the set of tasks already
  observed in the current round.
* `work` holds the worker goroutines, `results` the channel they write to.
* `job[t]` is what has really become of the task: the task directory, the
  supervisor row, the run. It is written by `Dispatch`, by `Status` (which may
  finish a staged submission) and by the world.
* `fe` is a pause, resume or delete command between its read and its write.

The loop's actions end where a command of another process, a worker or the clock
can intervene, which is between two transactions. A claim whose commit is
uncertain takes the code's way through readback, one retry, or the end of the
run. `RunEnds` stands for cancellation and for store errors without effect, which
can occur at any point of the loop.

### State and code: the other components

Each module's header says what it is about, and each variable has a comment that
names what it stands for. Some conventions are common to all:

* A command, a goroutine or a helper process is a record with a `pc` (the point
  between two records, locks or messages it has reached) and what its call stack
  holds there. A flock is a variable that names its holder; a lock that a child
  inherits is the set of its holders.
* A put-once record is `"none"` or its value; a write that finds a record compares
  or refuses as the code does. Where the code fsyncs, the model distinguishes what
  a reader sees from what survives (`TaskDirectory`, `PrivateBootstrap`).
* Deaths and other faults are actions with a bounded counter, enabled at every
  `pc`; what survives a death is what the code wrote before it.
* A stream is a sequence of abstract events; every reader that the code would feed
  is fed the same event in the same step, and the properties compare them.
* Variables that only the properties read (what a caller was told, how often
  something was started) are named so in their comments.

`PROJECT.json` maps definitions to source lines. The range of a definition
includes the neighbouring functions that it stands for through the operators it
uses, so small helper operators have no entry of their own.

### Actions in general

An action covers everything between two points where something else can
intervene. Where the code performs a durable write that can report an error
although it landed, the action has one alternative for each outcome. Handler
errors follow the code: a refused request is answered and serving goes on; a
handler that fails ends serving through `recoverWithCause`.

Each small operator with a "Mutant" comment, or beside an operator it resembles
and used nowhere, is the wrong version a plausible bug would produce. They are
used only to confirm that the properties can fail.

### What the environment may do

Providers may exit, die or leave descendants at any time; the deadline passes;
a user requests a stop; a front end proves or fences a task as never launched;
the guardian, the worker, the recoverer and the host crash at any step. A dead
guardian's lease is free at once (an flock), replies it already wrote remain
readable, the worker notices the closed channel. A dead worker's gates close.
Commands of every component may stop between any two steps, daemons and hosts
die, power fails, queue IDs and process numbers are handed out again, other
installations of the program upgrade the same state root.

## 4. Runs

| Run | Instance | Question |
|---|---|---|
| `task_exact` | exact scope, 2 launches, 2 guardian runs, 2 boots; 1.2 million states | is the evidence true, create-once and acceptable in every interleaving, and does the lifetime implement its contract? |
| `task_cooperative` | cooperative scope, same bounds; 1.1 million states | the same contract for the assurance in which recovery cannot see the whole scope |
| `task_live` | exact, 1 launch, 2 runs, 1 boot, with fairness | does a guardian always give the lease up? |
| `task_stop_cooperative` | cooperative, 1 launch, 1 run, 1 boot, with fairness | does a durable cancellation always end the run? It does not (section 7). |
| `scheduler_recovery` | 1 schedule, 2 tasks, 2 scheduler runs, 2 faults; 0.9 million states | is a due time decided and dispatched at most once, and held as long as its task, through crashes, uncertain commits and failing tasks? |
| `scheduler_clock` | the same without faults; the clock is set back once; 0.8 million states | can a clock that goes backwards make the scheduler make up for a due time or blame the wrong cause? |
| `scheduler_commands` | the same with 2 commands, 1 scheduler run and a steady clock; 0.7 million states | do commands and loop keep out of each other's transactions? |
| `scheduler_capacity` | 2 schedules due at once, 1 admission slot, 1 fault; 1.3 million states | do the admission limit and the result channel fit together? |
| `scheduler_live` | 1 schedule, 2 runs, 1 fault, with fairness | is everything that falls due decided, and every reservation given back? |
| `supervision` | fifteen components, 1.4 million states | do the components of a state root keep their promises under interleavings, crashes and restarts? |
| `tasks` | ten components, 0.9 million states | do a task's records, run, conversation, workspace and streams? |
| `live` | three components with fairness, 0.33 million states | is everybody served who is made to wait? |

### The suites

`MCSupervision`, `MCTasks` and `MCLive` check many small components in one run. The
components are independent of each other, so their product would only multiply
states: the initial state chooses a `focus`, and only the component in focus
moves. The components take turns in the variables `s1`, `s2`, ... that each
instance substitutes for its own. A property of a suite is the property of one
component, guarded by the focus; its type invariant is part of it. Some components
appear as several cases with different bounds, so that each bound is large in some
case (two generations with one move, one generation with two).

| Property | What could go wrong |
|---|---|
| `QueueIsSafe`, `RowsLeaveForCause` | a command reaches another task's row through a reused ID, a task becomes two rows, a runnable row is unknown to its directory, a row leaves while it runs |
| `MaintenanceIsTrue` | a wake is lost between two callers, or "complete" is told of a pass that began too early |
| `ControlIsTrue` | commands of two callers overlap because a caller gave up or died |
| `MigrationIsSafe` | two generations of the daemon at once, a predecessor comes back, a completed generation leads nowhere |
| `ElectionIsSafe` | two owners, a journal that contradicts itself, a stop reported before it happened |
| `GroupIsTrue` | a group created twice, a journal ahead of the published generations |
| `BootstrapIsSafe` | a power failure leaves what nobody can take up, or "ready" is not true |
| `RepairIsSafe` | a row starts a runner that refuses it, a receipt hides an unrepaired row |
| `StatusIsTrue` | a stale observation is told, a continuation is offered beside a live runner |
| `HostIsSafe` | a scheduler runs after its stop was reported, a fence is overtaken by a late child |
| `InspectionIsTrue` | an inspection works twice, or two callers get different verdicts |
| `ResourceIsTrue` | a task is created on a stale reading, a refusal has no proven cause |
| `ScopeIsSafe` | "empty" while a process forks past the census, a signal to a reused process number |
| `CustodyIsSafe` | a view of an open lifetime or a linked image is removed; custody is stranded |
| `NextIsFirst` | a due instant is skipped or repeated at a zone transition |
| `RunIsSafe` | a seal before the streams are still, a message sent twice or unrecorded |
| `TaskRecordsHold` | what was told of an outcome is gone after a power failure, a task starts twice |
| `ConversationIsSafe` | two tasks hold one conversation |
| `WorkspaceIsSafe`, `CheckpointIsTrue` | two occupants, a release without its capture, a lost snapshot, a removed checkpoint that comes back |
| `ClaudeIsTrue`, `CodexIsTrue`, `PiIsTrue`, `OpenCodeIsTrue`, `EnvelopeIsTrue` | a commit without the last answer, live and sealed readers or two revisions that disagree |
| `WaitersAreSafe`, `EverybodyIsServed` | writers starved by readers, a drain or join that waits for what waits for it, a worker that starts a daemon after the owner stopped waiting, a run stuck on a full pipe |

### Bounds

Lifetime. Two launches are the least with a second sequence number, a stale reply
of an earlier launch and a provider left over from one launch while the next is
asked for; the worker may also ask for one launch beyond the limit. Two guardian
runs are the least in which a replay meets an earlier run's records. Two boots
are the least with a previous-boot recovery. The channel needs no bound: a
worker has one call outstanding, apart from the replies to abandoned calls.

Scheduler. `Horizon`, the last instant, leaves room for a due time to
be claimed, a second one to be held behind it and to expire; the calendar has two
adjacent due times and one beyond the horizon, so that "the next due time" always
exists. `ClaimWindow` is 2 where the difference between "in the window" and "due
now" matters (retries, the clock) and 1 elsewhere. Two task IDs are enough for
these due times, since a claim takes one and a retry uses it again. Two runs are
the least with a restart. `MaxFaults` = 2 lets both attempts of a write fail.
`MaxCommands` = 2 is a pause and its resume, or a pause and a delete.
`AdmissionLimit` is 1 instead of 4, and two schedules already exceed it.
`MaxRollbacks` = 1: the clock is set back once, to any earlier instant.

Suites. Two processes and two objects are the least that race; the locks have
three clients, so that readers can relieve each other while a writer waits. The server
has one worker for each of two connections and the initial operation. Fault
bounds of one or two let a recovery be interrupted. Each bound is named in the
component that has it (`Max...`) and given in the suite's INSTANCE. Every property
has a mutant of the code that breaks it within these bounds.

Deadlock checking is off (`CHECK_DEADLOCK FALSE`) because a task's lifetime
ends: with the runs, boots and launches used up, nothing is left to do. The same
holds for a scheduler that was stopped and is not started again, and for the
components of the suites, whose commands end.

### Properties of the lifetime and the scheduler

In `TaskLifetime`:

* `EvidenceIsSound` collects the invariants: `TerminationSound` and `ClosureSound`
  (what a termination record and a closed task claim about processes is true, and
  stays true; these are what the launch fence, the double scope proof of recovery,
  the lease and the owner-death rules are for), `SerialLaunches` (the sequence
  protocol), `EvidenceNeverFaults` (no schedule of writers leaves records that the
  validating readers reject, which would make the task unresolvable),
  `UnlaunchedProofHolds` (a proof that a task was never launched is not overtaken
  by a guardian that had already read its launch permission),
  `WorkerTerminalIsDurable` and `NoTerminationInsideStart` (what the worker is told
  about the termination, and when; the second shows that the terminal branch of
  `completeStartLocked` is defensive).
* `ExecutesAfterDurableLaunch`: the launch gate.
* `RecordsStand`: `RecordsAreImmutable` (create-once, for every record and every
  writer) and `ReleasesOnlyClosed` (the lease is given up only after closure,
  crashes apart).
* `ImplementsContract`: refinement of `LifetimeContract`.
* `GuardianReleases`, `CancellationEndsRun`: liveness.

In `Scheduler`:

* `SchedulerIsSound`: `DisposedOnce` (claims and spans partition the due times up
  to the cursor, which five kinds of transaction from two processes move),
  `NoOverlap` and `ReleasedIsOver` (one task of a schedule at a time, and no
  reservation is given back while its task, or a dispatch of it, can still run),
  `ResultsNeverBlock` (every worker's send has a slot, so the join at shutdown
  ends).
* `DecisionsAreTrue`: `BlameIsTrue` (the reason a span records was true when it was
  recorded) and `NoBacklog` (nothing from before a start is claimed).
* `ImplementsContract`: refinement of `SchedulerContract`, in which a task runs at
  most once and due times are decided in order.
* `SchedulesMoveOn`: `DueIsDecided` and `ReservationReleased`, liveness.

### Fairness

`FairSpec` of the lifetime assumes weak fairness of the guardian's own steps, of
the worker's own steps, of the passing of the deadline and of a gate wrapper whose
pipe closed. The operating system schedules live processes; the deadline is a
timer; the wrapper reads end-of-file and exits. A storage or native operation that
fails is retried by the code and is assumed to succeed eventually, which weak
fairness of the disjunction expresses. Nothing is assumed of providers, of
users, of crashes or of recovery. `task_live` does not need the worker to be
well behaved: a worker that hangs in its provider is ended by the deadline, and
a killed provider ends its `Wait`.

The scheduler's `FairSpec` assumes weak fairness of the loop, of each worker and
of the clock, all of which the Go runtime and the operating system schedule, and
strong fairness of a scan that begins a new observation round: `IdleInterval`
elapses again and again while the loop scans, and the model's instants are too
coarse to say when. Faults are finitely many. Nothing is assumed of tasks: that a
due time is decided does not depend on the earlier task ending.

`MCLive` assumes weak fairness of each process, goroutine, connection handler and
deadline of the component in focus. Clients of the queue may die, the provider may
read and write as it likes or not at all, and peers of the server may stall; only
a provider that was killed is assumed to exit, and only code of this program to go
on. An operation's worker outlives its callback, but each of its steps is bounded by
the operation's context, so it ends; a daemon that it started need not. `EverybodyIsServed` is one property for three components, since each `Owed`
and `Paid` concerns the component in focus and the focus never changes.

## 5. Proofs

Eight modules hold the theorems, each with the constants left open: the bounds of
section 4 are instances.

| Module | Theorems | What they say |
| --- | --- | --- |
| `TaskLifetimeProofs` | `LaunchInvariant`, `TypeCorrect`, `LaunchesAreDurable` | types and the launch fence |
| | `EvidenceInvariant`, `EvidenceSoundness`, `RecordsNeverChange`, `LifetimeImplementsContract` | evidence, create-once records, the contract of a lifetime |
| `SchedulerProofs` | `SchedulerInvariant`, `SchedulerSoundness`, `SchedulerDecisions`, `SchedulerImplementsContract` | the scheduler's rows, decisions and contract |
| `ControlProofs` | `LockInvariant`, `WritersExclude`, `CommandsOutlive`, `WakesAreKept`, `OneOwner` | the queue's locks, control commands, maintenance wake-ups, the election of the one owner of a root |
| `SubmissionProofs` | `RowsAreTheirTasks`, `RowsLeaveOnlyForCause` | the queue: commands, rows and their tasks, removals |
| `RootProofs` | `HostKeepsItsWord`, `StatusInductive`, `CustodyInductive` | the host of the scheduler, the status of a task, the custody of executables |
| `SupervisionProofs` | `MaintenanceSoundness`, `ControlSoundness`, `ElectionSoundness`, `QueueSoundness`, `QueueRemovals`, `HostSoundness`, `StatusSoundness`, `CustodySoundness` | what the components' theorems say of the suite `MCSupervision` |
| `TaskProofs` | `CheckpointInductive`, `ContInductive`, `PiInductive`, `WorkspaceInductive`, `DirInductive` | checkpoints and their removals, conversations, the readers of a Pi stream, managed workspaces, the files of a task |
| `TasksProofs` | `CheckpointSoundness`, `ConversationSoundness`, `PiSoundness`, `WorkspaceSoundness`, `RecordsSoundness` | what these say of the suite `MCTasks` |

### The launch fence of a lifetime

`TypeCorrect` (`Spec => []TypeOK`) is more than a formality: it bounds the sequence
numbers of guardian, worker and records by the launch limit, although the worker
may ask for more. `LaunchesAreDurable` is `Spec => []ExecutesAfterDurableLaunch`.

Neither is inductive. A provider executes because the worker released its gate,
because it read an accepting reply, because the guardian acknowledged a launch,
because the record had been written; each link has to be in the invariant.
`LaunchInv` adds:

* `CommitOrder`: records appear in order, and at which guardian step which are
  present. Without it a second run's intent could coexist with launches.
* `GuardianOrder`: an authorized sequence is the next one and is not behind the
  recorded one; between the record and its acknowledgement the request is still
  at the head of the channel; a reply owed after termination never accepts a
  launch.
* `RepliesPromise`: an accepting `begin` names a sequence within the limit and an
  accepting `started` a recorded launch. This covers replies to abandoned calls
  and replies of a dead guardian.
* `WorkerOrder`: a worker inside a start has a sequence within the limit, and the
  process it would release is the one it asked about.

### The evidence of a lifetime

`EvidenceSoundness` (`Spec => []EvidenceIsSound`): a durable termination means an
empty scope, a closure an absent worker besides, no reader meets evidence it must
reject, and nobody believes more than is durable. `EvidenceInv` extends `LaunchInv`
by what connects a record with the world: which processes can still exist when a
request is in flight or a reply is on its way, what a worker that is inside a start
may still do after the guardian has stopped reading it, that the scope of a launch
is empty before the next one is authorized, and what each reader has seen. Its
hardest part is the worker that outlives its guardian: what it may still start is
limited by the replies left in its channel, which is why the invariant speaks about
every message in a channel and not about its head. `RecordsNeverChange` is the action
property `RecordsStand`.

`LifetimeImplementsContract` (`Spec => ImplementsContract`) maps every step to one step of
`LifetimeContract` or to a stutter under the same substitution the runs check:
processes from the process table, facts from the records. The premises of the
contract's steps (one launch at a time, in an empty open scope; nothing is proved
that has not ended) are conjuncts of `EvidenceInv`.

### The scheduler

`SchedulerSoundness`, `SchedulerDecisions` and `SchedulerImplementsContract` hold for every
set of schedules and tasks, every calendar, horizon, claim window and
admission limit. None of the properties is inductive; `SchedulerInv` adds:

* `RowsFirst`: whatever speaks of a task (worker, result, slot, directory) comes
  after its row, so the task a claim draws is new.
* `OneWorker`, `SlotsAreDispatches`, `PlacesSuffice`: a dispatch holds an admission
  slot until its result is read, and workers and results together never exceed
  the slots and the one observer. This is the argument for `ResultsNeverBlock`; the
  cardinalities are handled with the library's theorems on finite sets.
* `ClaimIsNext`: a claim in progress is for the next due time after the cursor it
  expects, and still so on the retry after an uncertain commit.
* `ReportsHold`: an observation or a release that is on its way or recorded is true
  and stays true: "absent" is reported only of a task no dispatch can create any
  more. With `OneReservation` this gives `NoOverlap` and `ReleasedIsOver`.
* `SnapshotHolds`: the scan's snapshot of reservations may be older than the rows,
  but not for a schedule the scan has yet to consider. This is what makes
  `overlap_active` and `missed_capacity` true reasons.
* `Disposed`: `DisposedOnce` without counting, which a claim and a span can be shown
  to extend by one due time and by one interval.

For the refinement, `Fate` reads each due time's fate off rows, spans and tasks.
`ClaimedFate` and `UnclaimedFate` say what a fate implies about the store; one lemma
per contract step (`ContractSkips`, `ContractClaims`, `ContractSettles`,
`ContractReleases`) turns a change of fates into that step; one lemma per kind of
write (`SkipTickSkips`, `CommandSkips`, `CreationSkips`, `ClaimClaims`,
`ReleaseReleases`, `ObservationStands`) shows which change it is. A step that writes no
row is a `Settle` or a stutter: only a claim can make a task run (`MayRunFalls`).
A skip needs the last due time of an interval, which exists because a set of
numbers below a bound has a greatest element (`LastInstant`, from the library's
well-founded order of the naturals).

### The private supervisor

`LockInvariant` and `WritersExclude` are about `QueueLocks` alone. Mutual exclusion of
writers is not inductive: `LockInv` adds who holds which file at which step
(`LocksByStep`), what `flock` guarantees (`FlockExcludes`), and that a writer which has
asked for the gate is announced (`IntentIsAnnounced`), which is why a reader between the
writer's two steps turns back.

`CommandsOutlive`: two callers' commands never run together and a caller is told what
happened. The owner process may outlive the caller it serves and the command may
outlive both, so `OwnerInv` says who holds the inherited descriptor at each step of
caller and owner (`LeaseHeld`), that only one caller's family holds it
(`LeasesExclude`), which stages exist when (`StagesInOrder`), and that every frame in a
channel, every observation and every result is true (`ReportsAreTrue`).

`WakesAreKept`: no ended row is left behind when everyone has finished, and a completion
counter is the number of a pass that covered it. `MaintInv` says that only the elected
callback acts as maintainer (`OneMaintainer`), that a pass is for the requests counted
when it began (`PassIsCurrent`), and, as long as nothing failed, that a request not yet
attempted has somebody who will serve it and that an ended row is in the inbox or
covered by a full pass to come (`Promised`). A first version of the last conjunct was
not inductive: it did not say that a callback whose event is not recorded has not noted
its row.

`OneOwner`: a root has one owner, which the pair on disk names, and a stop that is
reported has stopped the daemon it was asked to stop. The owner lease is an open
file description that a producer hands down to the daemon it starts, so "one holder"
is false and the invariant says instead who holds it at which step (`LeaseIsHeld`),
that two holders are a producer and the child it has just started (`LeaseExcludes`),
and that such a child is that of the last startup of its boot (`LeaseIsCurrent`).
`ElectionStands` says that what an election has read under the lease stays true until
it acts on it; `OwnersAct` and `EvidenceStands` relate the files, the sealed evidence and
the processes; `StopperAims` says that the target of a stop was assumed once and that
nobody assumes it again. Each step is reduced to one of three frames (`ProducerMoves`,
`ChildMoves`, `StopperMoves`: what a step of a producer, a daemon or a stop client may
change), each frame keeps the invariant once and for all.

`RowsAreTheirTasks` and `RowsLeaveOnlyForCause`: the daemon knows numeric IDs only and
hands them out again, so a command is safe only because the locks it runs under keep
the rows it names where they were seen. `SubInv` says, for each process, which locks it
holds at its step (`Placed`), which command is its own (`Commanded`, `Addressed`), that the
rows of a running command are still there and for the intended task (`Aimed`), that a row
between its add and its enqueue stays stashed with receipt and ticket in order
(`Staged`), and that a cleanup clears the events of rows that are gone (`Cleared`). All of
it survives the caller: a command whose caller gave up or died keeps its locks, and
the process stays at `retain`. Lemma `Alone` is the heart: two operations at work are
submissions of two different tasks, every other pair excludes each other through one
of the two locks; that a task is submitted once (`OnePermit`) is part of the invariant.

`HostKeepsItsWord`: a stop that is reported has ended the host and its child, nothing is
launched after a stop record, a child's last word is not lost in a restart, and a host
that shows itself ready has a confirmed child, of which one at most runs. None of these is
inductive. `HostInv` orders the processes by the execution lease (`HoldsLease`: a child
that runs or waits, a foreground run and a closing host hold it at their steps; the
lease has one holder, so they exclude each other), relates the records of a run and of
its child (`Fits`: what a child has sent goes with how far it is, a doomed child's last
frame was heard or is still to be read, the readiness shown is a confirmed child's, a stop
record names the last launch), says whose records are in the journal (`Dated`,
`Recorded`: an epoch is the one of its run, and a closed one's run has no child), and what
the stop command may rely on at each of its steps (`Followed`). As in the election, each
step is an instance of a few frames (`Becomes`, `Turns`, `ChildMoves`, `Begins`) that keep
the invariant once and for all.

`StatusInductive`: what a status command tells is never older than what was shared before
it began, an admission is durable, a continuation is offered only when nothing runs, and
"ended" is final. A command reads the queue, publishes what it saw, and answers from what
is shared by then, which another command may have written. `StatusInv` says what the
world only gains (`WorldAgrees`: a submission before its row, an end before its proof) and
what a command knows at each step (`CallAgrees`): at the point of publication its
observation is at least as new as everything heard so far, a newer shared one is as new as
the command's own start, and an offer to resume rests on a proof.

`CustodyInductive`: no view of an open lifetime and no linked image is removed, "released"
is true, and an ended guardian strands no custody. Guardians, a maintenance pass, a
removal and a status command dispose of the same pool; only the reclaim of images is
under a gate. `CustodyInv` says what a disposer knows of its owner, the gate and the images
it has listed (`WorkAgrees`): what it does to a pool, it does to a closed lifetime, and an
image it is about to unlink has stayed idle since it was listed because the gate is its own.

`SupervisionProofs` carries these over to the specification the runs check. `MCSupervision`
instantiates the components over one set of variables and explores one at a time;
`Control` instantiates the module of proofs over the same variables, the lemmas `...IsTheSame`
show that the definitions coincide, and the theorems state `MaintenanceIsTrue`,
`ControlIsTrue`, `ElectionIsSafe`, `QueueIsSafe`, `RowsLeaveForCause`, `HostIsSafe`,
`StatusIsTrue` and `CustodyIsSafe` for every set of processes, rows and IDs.

### The records of a task

`CheckpointInductive`: a checkpoint that counts as usable is pinned, one that is reported
removed stays removed, and one removal works at a time. `CheckpointInv` says what the
repository holds at each stage of the creation, that a removal is registered only when the
creation is proven over and every earlier attempt has an "unavailable" receipt
(`RemovalsInOrder`), and that what a command has read of the attempts still holds when it
registers its own (`ReadingsStand`): attempts are only appended, and a receipt is put once.

`ContInductive`: one task at a time owns a conversation, and a release that was proven stays
provable. The records of a task are written by its command, its runner, its provider and
by recovery, in no fixed order. `ContInv` says for each task that its records agree with
what runs (`RecordAgrees`) and for each command what it may rely on (`CommandAgrees`): a
command about to claim has seen the first task over, and the one about to commit holds the
session lock and knows every owner.

`PiInductive`: both revisions of the reader of a Pi stream commit only the text of the last
cycle of a stream without a stated failure, and they agree unless Pi said something only
one of them reads, or stated an outcome so that only one of them refuses it. `PiInv` relates each parser's cycle to what the process has really said
(`CycleReads`) and the two parsers to one another (`Twins`).

`WorkspaceInductive`: one process at a time is in a managed worktree, a captured use has in
its snapshot all that was written in it, what is removed was captured or given up, and
every ref is named by a record. `WsInv` has three parts. `Journal` is about the numbered
uses: only the head is open, a task is the one its use names, and a helper is at work only
for the open use and at the stage that needs it (`Entitled`). `Content` is about the files:
what a helper that has come so far has done (`Achieved`), which writers' files a snapshot
has (`SnapshotsInOrder`), and in which order a workspace ends (`EndingInOrder`).
`ClientsInOrder` says that only the holder of the lease is at work and that what it has
seen still holds (`Knows`); since commands may stop anywhere, nothing else may rest on who
holds the lease.

The proof corrected the model. It had one mark for "the files of a verification", which
made `CaptureIsComplete` false for three uses: the mark of a second verification is not in
the snapshot that sealed the first. A writer is now a task, or the verification of a
numbered use (`Writers`). The runs with two uses could not have shown it.

`DirInductive`: what was told of an outcome or an assessment stays and is the one that is
read, an outcome rests on records that are on disk, and a task starts once, whoever
crashes and whenever the power fails. A name can be read before it is synced, so the
invariant orders what is on disk (`RecordsInOrder`: every record rests on those it was
drawn from, and they were synced first) and says what a process relies on while it
publishes (`Relies`) and which lease it holds (`Entitles`).

`TasksProofs` carries these over to `MCTasks` in the same way and states `CheckpointIsTrue`,
`ConversationIsSafe` (in its three instances), `PiIsTrue`, `WorkspaceIsSafe` and
`TaskRecordsHold`.

### How the proofs are laid out

One lemma for each action, or group of actions with the same effect, shows that it
preserves the invariant; what several of them need (frames for steps that leave a
part alone, what a cleared loop or a row update looks like, what `DecideTick` can
decide) is stated once. The inductive invariants were checked by TLC as invariants of
the runs' instances before they were proved: `LaunchInv` and `EvidenceInv` on `task_exact`
and `task_cooperative`, `SchedulerInv` on the four scheduler instances, the invariants of
`ControlProofs` on instances of the three components with two or three processes,
`ElectInv` with two producers, three startups, two boots and one fault, `SubInv` with two
processes, tasks, IDs, crashes and passes, `HostInv` with two runs and three faults, `StatusInv`, `CustodyInv`, `CheckpointInv`, `ContInv`
and `PiInv` on the instances of the suites, the parts of `WsInv` with two uses, two removal
attempts and one command, and `DirInv` with six processes and two faults.

The assumptions are those the modules name: `BoundsAssumption` and
`AssuranceAssumption` (a lifetime's bounds are positive numbers), `SchedulerAssumption`
(schedules and tasks are numbered from one, and a calendar has a next due time after
every instant: a recurrence never ends), `LoopAssumption` and `SchedulerBounds`. The
theorems of `ControlProofs`, `SubmissionProofs`, `RootProofs`, `SupervisionProofs`, `TaskProofs` and
`TasksProofs` state theirs: the bounds on requests, writes, launches, crashes and
faults are natural numbers, there is at least one generation and one removal attempt, and
the value for "nobody", "no ID", "no task", "no record" or "no text" is not a process, an ID,
a task, a request or a text.

Only model-checked: liveness (`GuardianReleases`, `SchedulesMoveOn`, `EverybodyIsServed`;
fairness and ENABLED are outside what TLAPS proves), what the recursive definitions
compute (`Recurrence`'s `NextIsFirst` and the folds of the stream readers:
induction over data is out of the provers' reach), and the safety of the components
whose proof is not written: in `MCSupervision` `MigrationIsSafe`, `GroupIsTrue`,
`BootstrapIsSafe`, `RepairIsSafe`, `InspectionIsTrue`, `ResourceIsTrue` and `ScopeIsSafe`; in
`MCTasks` `RunIsSafe`, `ClaudeIsTrue`, `CodexIsTrue`, `OpenCodeIsTrue` and
`EnvelopeIsTrue`; in `MCLive` `WaitersAreSafe`.

## 6. What is not modelled, and abstractions

Lifetime:

* `prepareRunScope`'s branch for an existing scope: a later run's deadline
  differs, so its intent mismatches first.
* An unreadable boot identity ends the run or the recovery like any other error.
* Custody placement in the registration and the legacy evidence without an
  intent.
* In `TaskLifetime` the census of a cooperative scope is the kernel's process
  table; how it is read is `ProcessScope`.
* Message and record bodies, digests, exit codes and identities: a message is
  its type and sequence, a process its launch sequence.

Scheduler:

* Pages hold every schedule (`MaxPageLimit` only divides them); the clock does not
  advance inside one transaction; digests, definitions and history reads, which
  change nothing; `ClaimExisting`, which the single owner lease makes unreachable
  and which authorizes nothing; observations that lie within one model instant are
  taken in the order in which they were made. An observation recorded before the
  clock was set back looks newer than its successors (`runtime/observation.go`);
  the cache only chooses between two reasons of a span.
* `Scheduler` takes a calendar as an arbitrary set of due times. `Recurrence` has
  one tick for the smallest unit, two transitions per zone, and the five-year
  horizon and four-year stride scaled down; the calendar library, the cron grammar
  and time-zone names are external. The leap-year tail of `ZoneBounds` is modelled.
* `SchedulerHost`: launch (intent, start, register, hello) is one step; a stop left
  without a closed record stays pending by design; the initialization of the
  database and the pulse are not modelled. `Scheduler` lets a run start and stop at
  any time.

Tasks:

* `Continuation`: cancelling a continuation that claimed its session but was never
  submitted leaves a claim that cannot be released, so the conversation stays busy.
  `WorkspaceUse`: a task created but stopped before its capture obligation was
  recorded leaves its use pending until the dispatch is repeated. No liveness is
  asserted of either.
* `ProviderRun`: command construction, environments and preflight.
* The streams: fields no verdict depends on, catalogues, and usage accounting but
  for `EnvelopeReaders`, where it never decides the document. In `CodexStream` a
  message that names nothing addresses the root until the root is named, and
  `RevisionsAgree` sets aside unknown notifications with a result or an error, which
  only later revisions refuse; `PiRevisionsAgree` sets aside outcomes that Pi states
  or that cannot be read, which only the outcome revision reads.
* Git commands are modelled by their effect on refs and worktrees.

Supervisor:

* Terminal events are wake-up hints: the callback has no token of its submission,
  so a late callback of a reused ID may mark a new row; every consumer reads the
  row again. `RecordPrivateTerminalObservation` for inspection rows is left out.
* `OwnerServer`: the initial and a connection's own operation have workers of one
  shape, each starting one daemon at a time; a completion whose resources stay
  pending is `kept`, an error that names no completion `lost` (only tests produce
  it). Faults of native closes that no worker owns are left out.
* `PrivateBootstrap`: record contents are whole (synced before link or rename),
  directory entries may be lost or kept until the barrier; restart intents and
  records of two installations come only from earlier releases (initial states);
  an identity published for a live daemon found after a crash names the selected
  pair; the daemon's own pid-file exclusion is external.
* `InspectionGroup`: a private migration is one step that may be left half way. A
  return to an earlier generation makes the journal's chain cyclic, and every
  later reader refuses it; a creation claimed but never sent stays refused. Both
  fail closed.
* `RunnerRepair`: one generation; a row whose editor died stays locked and is
  skipped by the receipt; an inspection row whose upgrade was authorized but not
  edited before a crash keeps its old runner although the receipt is published;
  rows that an older installation submits after the collection are not covered.
* `TaskStatus`: "fresh" means never older than the last observation published
  before the call entered; the runner's lease is the row's state.
* `Inspection`: the evaluation of the records is one step (they are put-once);
  a wait recorded before its termination reads as an identity fault and is left
  out; operations of earlier releases are never newly accepted.
* `ResourceAdmission`: reasons of missing evidence are one value, `memory.high` is
  left out; an unreadable task entry when the gate opens means that there is no
  gate.
* `ProcessScope`: the Linux build only; callers settle a pending start before an
  observation; `EmptyIsTrue` tolerates movement during one of the two censuses
  but not during both, which is what cooperative assurance means.
* `Custody`: publishers of earlier releases are external and atomic under the
  shared gate; a root that vanished returns only between operations; no liveness
  (a failed full pass needs a later wake, and the request stays owed).
* Branches that the runs show to be unreachable (the edge already complete in
  `MigratePrivate`, "fault" answers of `Inspection`) are kept as the code has them.

Not modelled at all: teams and configuration, argument parsing and output, host
interfaces, executable verification, tooling. `PROJECT.json` lists every part with
its status.

## 7. Finding

If the identity of a just-started worker cannot be observed, the guardian waits
for it and then persists its wait (`worker.go`, `startAndRecordWorker`). In a
cooperative scope a wait that is not bound to a worker record is refused
(`lifetime_completion.go`, `validateLifetimeNativeCompletionBinding`), and
`persistWorkerWait` retries without end and without looking at the deadline or
the stop request. The guardian keeps the lease and neither expiry nor a user
cancellation ends it, although `agents/_data/delegation-invariants.md` says that
both route through the guardian. `task_stop_cooperative` shows the behaviour.

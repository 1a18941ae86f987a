---------------------------- MODULE WorkspaceUse ----------------------------
(***************************************************************************)
(* A managed workspace: a Git worktree that tasks, verifications and       *)
(* checkpoints use one after another.  Every use is a numbered reservation *)
(* in the workspace's journal.  A use that may have written files owes a   *)
(* capture, made by a helper process once the use is proven closed; the    *)
(* last use, a release, captures whatever is left and lets the worktree    *)
(* be removed, and a forget then deletes the refs the journal names.       *)
(* Commands hold the use lease while they move the journal and may stop    *)
(* between any two records; the next command carries on from the records.  *)
(***************************************************************************)
EXTENDS Naturals, Sequences, FiniteSets

CONSTANTS WsTasks,     \* tasks that may be dispatched into the workspace
          Clients,     \* command processes
          NoClient,
          MaxUses,     \* bound: reservations
          MaxTries     \* bound: removal and forget helpers

VARIABLES
    uses,      \* the reservations, in order, with what the journal says of each
    tasks,     \* [WsTasks -> [state, use]]: the task's record and its provider
    helpers,   \* [HelperIds -> [state, done, result]]: the workspace operations
    place,     \* the worktree and the records about it
    work,      \* the tasks and verifications whose files are in the worktree
    snapshots, \* [1..MaxUses -> content of the use's capture candidate]
    refs,      \* Git refs the workspace owns
    ending,    \* release, removal and forget records
    useOwner,  \* the client that holds the use lease
    clients    \* [Clients -> [goal, at, task, discard]]

wsVars == <<uses, tasks, helpers, place, work, snapshots, refs, ending, useOwner, clients>>

Uses == 1..MaxUses
HelperIds == ({"provision", "capture", "verify", "checkpoint"} \X Uses)
                \cup ({"remove", "forget"} \X (1..MaxTries))
Nothing == "nothing"
\* Who writes files: the provider of a task and the command of a verification.
Writers == ({"task"} \X WsTasks) \cup ({"verify"} \X Uses)
NoEnd == [by |-> 0, discard |-> FALSE, removed |-> FALSE, intent |-> {}, forgetting |-> FALSE,
          forgotten |-> FALSE]
Away == [goal |-> Nothing, at |-> "away", task |-> Nothing, discard |-> FALSE]

Waiting == {"opened", "queued"}
Closed == {"ended"}
Subjects == {"admission", "verify", "checkpoint", "release"}
Dispositions == {"open", "captured", "unavailable", "aborted", "completed"}

WsTypeOK ==
    /\ \A n \in DOMAIN uses :
          uses[n] \in [kind : Subjects, task : WsTasks \cup {Nothing}, discard : BOOLEAN,
                       owed : BOOLEAN, receipt : {"none", "captured", "unavailable"},
                       closed : Dispositions, baseline : BOOLEAN]
    /\ Len(uses) <= MaxUses
    /\ tasks \in [WsTasks -> [state : {"absent", "created", "submitted", "running", "ended"},
                              use : 0..MaxUses]]
    /\ helpers \in [HelperIds -> [state : {"none", "opened", "queued", "running", "ended"},
                                  done : 0..3, result : {"none", "succeeded", "failed"}]]
    /\ place \in [source : BOOLEAN, anchor : BOOLEAN, tree : {"absent", "present", "gone"},
                  registered : BOOLEAN]
    /\ work \subseteq Writers
    /\ snapshots \in [Uses -> [taken : BOOLEAN, content : SUBSET Writers]]
    /\ useOwner \in Clients \cup {NoClient}

WsInit ==
    /\ uses = <<>> /\ tasks = [t \in WsTasks |-> [state |-> "absent", use |-> 0]]
    /\ helpers = [h \in HelperIds |-> [state |-> "none", done |-> 0, result |-> "none"]]
    /\ place = [source |-> FALSE, anchor |-> FALSE, tree |-> "absent", registered |-> FALSE]
    /\ work = {} /\ snapshots = [n \in Uses |-> [taken |-> FALSE, content |-> {}]]
    /\ refs = {} /\ ending = NoEnd
    /\ useOwner = NoClient /\ clients = [c \in Clients |-> Away]

-----------------------------------------------------------------------------
(* Reading the journal *)

Latest == Len(uses)
\* Resource.Reservation: the head, when it is not closed.
Reserved == Latest > 0 /\ uses[Latest].closed = "open"
ReleaseRecorded == ending.by # 0

Proven(h) == helpers[h].state \in Closed
Succeeded(h) == helpers[h].state = "ended" /\ helpers[h].result = "succeeded"

\* RequireProvisionHelpersClosed and the helpers of one admission.
ProvisionsClosed == /\ \E n \in Uses : helpers[<<"provision", n>>].state # "none"
                    /\ \A n \in Uses : helpers[<<"provision", n>>].state \in Closed \cup {"none"}

\* workspaceAdmissionTaskAbsent: no task record names this reservation.
TaskAbsent(n) == \A t \in WsTasks : tasks[t].state # "absent" => tasks[t].use # n

\* workspaceCapturePredecessorClosed: the process that used the worktree is proven over.
PredecessorClosedAnyway(n) == TRUE
PredecessorClosed(n) ==
    CASE uses[n].kind = "admission" -> tasks[uses[n].task].state \in Closed
      [] uses[n].kind = "verify" -> Proven(<<"verify", n>>)
      [] uses[n].kind = "checkpoint" -> Proven(<<"checkpoint", n>>)
      [] uses[n].kind = "release" -> TRUE

\* RegisteredCheckout
CheckoutUsable == place.registered /\ place.tree = "present"

\* ForgetInventory: the refs that the source, candidate and baseline records name.
NamedRefs == (IF place.source THEN {<<"base", 0>>} ELSE {})
                \cup {<<"capture", n>> : n \in {m \in Uses : snapshots[m].taken}}
                \cup {<<"baseline", n>> : n \in {m \in DOMAIN uses : uses[m].baseline}}

-----------------------------------------------------------------------------
(* Workspace operations: a helper is opened, submitted, launched and closed *)

At(c, step) == clients' = [clients EXCEPT ![c].at = step]
Leave(c) == /\ clients' = [clients EXCEPT ![c] = Away]
            /\ useOwner' = IF useOwner = c THEN NoClient ELSE useOwner
Holding(c, step) == clients[c].at = step /\ useOwner = c

\* SubmitOperation: the permit is claimed once; the row, its receipt and its release follow,
\* or the answer is lost and the next command submits again and finds the row.
SubmitOperation(h) ==
    /\ helpers[h].state = "opened"
    /\ \E reached \in Waiting : helpers' = [helpers EXCEPT ![h].state = reached]

\* OperationClosed after the deadline: an operation that has no lifetime is sealed.
SealExpired(h) ==
    /\ helpers[h].state \in Waiting
    /\ helpers' = [helpers EXCEPT ![h].state = "ended", ![h].result = "failed"]

\* runLoadedWorkspaceWorker claims start.json once, inside its lifetime.
LaunchHelper(h) ==
    /\ helpers[h].state = "queued"
    /\ helpers' = [helpers EXCEPT ![h].state = "running"]
    /\ UNCHANGED <<uses, tasks, place, work, snapshots, refs, ending, useOwner, clients>>

Advance(h) == helpers' = [helpers EXCEPT ![h].done = @ + 1]
Works(h, step) ==
    /\ helpers[h].state = "running" /\ helpers[h].result = "none" /\ helpers[h].done = step

\* recordWorkspaceWorkerResult
Succeeds(h, last) ==
    /\ Works(h, last)
    /\ helpers' = [helpers EXCEPT ![h].result = "succeeded", ![h].done = 0]
    /\ UNCHANGED <<uses, tasks, place, work, snapshots, refs, ending, useOwner, clients>>

\* The helper records a failure, runs out of time or dies, or its result is there; then the
\* guardian proves its processes gone.
HelperEnds(h) ==
    /\ helpers[h].state = "running"
    /\ helpers' = [helpers EXCEPT ![h] = [state |-> "ended", done |-> 0,
                      result |-> IF @.result = "none" THEN "failed" ELSE @.result]]
    /\ UNCHANGED <<uses, tasks, place, work, snapshots, refs, ending, useOwner, clients>>

\* provisionManagedCheckout: source and anchor records, the base ref, the worktree,
\* the checkout and the registration.  An interrupted provision is resumed from its records.
SourceRecorded == [place EXCEPT !.source = TRUE, !.anchor = TRUE]
Pinned(ref) == refs \cup {ref}
WorktreeAdded == [place EXCEPT !.tree = "present"]
Provision(h) ==
    /\ h[1] = "provision"
    /\ \/ Works(h, 0) /\ place' = SourceRecorded /\ UNCHANGED refs
       \/ /\ Works(h, 1) /\ place.tree # "gone"
          /\ place' = WorktreeAdded /\ refs' = Pinned(<<"base", 0>>)
       \/ /\ Works(h, 2) /\ UNCHANGED refs
          /\ place' = [place EXCEPT !.registered = TRUE]
    /\ Advance(h)
    /\ UNCHANGED <<uses, tasks, work, snapshots, ending, useOwner, clients>>

\* captureManagedCheckout: what is observed is recorded before a ref names it.
Observed(n) == [snapshots EXCEPT ![n] = IF @.taken THEN @ ELSE [taken |-> TRUE, content |-> work]]
CapturePinFirst(h) ==
    \/ Works(h, 0) /\ CheckoutUsable /\ refs' = refs \cup {h} /\ UNCHANGED snapshots
    \/ /\ Works(h, 1) /\ UNCHANGED refs
       /\ snapshots' = Observed(h[2])
CaptureRecordFirst(h) ==
    \/ /\ Works(h, 0) /\ CheckoutUsable
       /\ snapshots' = Observed(h[2]) /\ UNCHANGED refs
    \/ Works(h, 1) /\ refs' = Pinned(h) /\ UNCHANGED snapshots
CaptureCheckout(h) ==
    /\ h[1] = "capture"
    /\ CaptureRecordFirst(h)
    /\ Advance(h)
    /\ UNCHANGED <<uses, tasks, place, work, ending, useOwner, clients>>

\* verifyManagedCheckout runs the given command in the worktree.
VerifyCheckout(h) ==
    /\ h[1] = "verify" /\ Works(h, 0) /\ CheckoutUsable
    /\ work' = work \cup {h}
    /\ Advance(h)
    /\ UNCHANGED <<uses, tasks, place, snapshots, refs, ending, useOwner, clients>>

\* removeManagedCheckout: needs the release record; what was never provisioned is not there.
WorktreeRemoved == [place EXCEPT !.tree = IF @ = "present" THEN "gone" ELSE @]
RemoveCheckout(h) ==
    /\ h[1] = "remove" /\ Works(h, 0) /\ ReleaseRecorded
    /\ place' = WorktreeRemoved
    /\ Advance(h)
    /\ UNCHANGED <<uses, tasks, work, snapshots, refs, ending, useOwner, clients>>

\* forgetManagedWorkspace: one Git transaction deletes the refs that the intent names.
DeleteRefs(named) == refs \ named
ForgetRefs(h) ==
    /\ h[1] = "forget" /\ Works(h, 0) /\ ending.forgetting /\ ending.removed
    /\ refs' = DeleteRefs(ending.intent)
    /\ Advance(h)
    /\ UNCHANGED <<uses, tasks, place, work, snapshots, ending, useOwner, clients>>

\* prepareManagedCheckpoint reads the worktree under its own reservation.
CheckpointCheckout(h) ==
    /\ h[1] = "checkpoint" /\ Works(h, 0) /\ CheckoutUsable
    /\ Reserved /\ Latest = h[2]
    /\ Advance(h)
    /\ UNCHANGED <<uses, tasks, place, work, snapshots, refs, ending, useOwner, clients>>

LastStep(h) == CASE h[1] = "provision" -> 3 [] h[1] = "capture" -> 2 [] OTHER -> 1

HelperStep(h) ==
    \/ LaunchHelper(h) \/ Succeeds(h, LastStep(h)) \/ HelperEnds(h)
    \/ Provision(h) \/ CaptureCheckout(h) \/ VerifyCheckout(h) \/ RemoveCheckout(h)
    \/ ForgetRefs(h) \/ CheckpointCheckout(h)

-----------------------------------------------------------------------------
(* Tasks *)

\* observeManagedTurnBaseline, then the provider: the baseline is recorded, then pinned.
LaunchTask(t) ==
    /\ tasks[t].state = "submitted"
    /\ ~ uses[tasks[t].use].baseline /\ uses[tasks[t].use].closed = "open" /\ CheckoutUsable
    /\ uses' = [uses EXCEPT ![tasks[t].use].baseline = TRUE]
    /\ tasks' = [tasks EXCEPT ![t].state = "running"]
    /\ UNCHANGED <<helpers, place, work, snapshots, refs, ending, useOwner, clients>>

PinTurnBaseline(t) ==
    /\ tasks[t].state = "running" /\ <<"baseline", tasks[t].use>> \notin refs
    /\ refs' = Pinned(<<"baseline", tasks[t].use>>)
    /\ UNCHANGED <<uses, tasks, helpers, place, work, snapshots, ending, useOwner, clients>>

ProviderWrites(t) ==
    /\ tasks[t].state = "running" /\ <<"baseline", tasks[t].use>> \in refs
    /\ work' = work \cup {<<"task", t>>}
    /\ UNCHANGED <<uses, tasks, helpers, place, snapshots, refs, ending, useOwner, clients>>

\* The task's lifetime is closed, or it is proven that nothing was launched.
TaskEnds(t) ==
    /\ tasks[t].state \in {"created", "submitted", "running"}
    /\ tasks' = [tasks EXCEPT ![t].state = "ended"]
    /\ UNCHANGED <<uses, helpers, place, work, snapshots, refs, ending, useOwner, clients>>

-----------------------------------------------------------------------------
(* A command holds the use lease, brings the journal up to date, then acts. *)
(* It may stop at any point: its process dies or its time is over.          *)

World == <<tasks, place, work, snapshots, refs>>

\* prepareDispatchUse looks for the task's record before it reserves and a forget only checks
\* what must already hold.  Every other command reconciles first; until that is done all the
\* commands behave alike, so which one it is is left open.
Errand(goal, t, d, step) == [goal |-> goal, task |-> t, discard |-> d, at |-> step]
Begin(c) ==
    /\ useOwner = NoClient /\ clients[c].at = "away"
    /\ \E begun \in {Errand("dispatch", t, FALSE, "oblige") :
                          t \in {u \in WsTasks : tasks[u].state # "absent"}}
                      \cup {Errand("forget", Nothing, FALSE, "act"),
                            Errand(Nothing, Nothing, FALSE, "reconcile")} :
          clients' = [clients EXCEPT ![c] = begun]
    /\ useOwner' = c
    /\ UNCHANGED <<uses, helpers, ending>> /\ UNCHANGED World

Stop(c) ==
    /\ clients[c].at # "away"
    /\ Leave(c)
    /\ UNCHANGED <<uses, helpers, ending>> /\ UNCHANGED World

\* One helper is brought forward: opened, submitted, or sealed once its deadline passed.
Bring(h) == \/ helpers[h].state = "none" /\ helpers' = [helpers EXCEPT ![h].state = "opened"]
            \/ SubmitOperation(h)
            \/ SealExpired(h)

\* ReconcileUnlaunchedAdmission
AdmissionsProvisions(n) == {<<"provision", m>> : m \in {k \in DOMAIN uses :
                               uses[k].kind = "admission" /\ uses[k].task = uses[n].task}}
AbortAdmission(n) ==
    /\ uses[n].kind = "admission" /\ ~ uses[n].owed /\ uses[n].closed = "open" /\ TaskAbsent(n)
    /\ \/ /\ \A h \in AdmissionsProvisions(n) : helpers[h].state \in Closed \cup {"none"}
          /\ uses' = [uses EXCEPT ![n].closed = "aborted"] /\ UNCHANGED helpers
       \/ (\E h \in AdmissionsProvisions(n) : SealExpired(h)) /\ UNCHANGED uses
    /\ UNCHANGED ending

\* restoreWorkspaceCaptureObligation: a use of the workspace by a command that stopped
\* before it recorded what it owes.
RestoreObligation(n) ==
    /\ uses[n].kind \in {"verify", "release"} /\ ~ uses[n].owed
    /\ uses' = [uses EXCEPT ![n].owed = TRUE]
    /\ UNCHANGED <<helpers, ending>>

\* settleManagedCheckpointUse
SettleCheckpoint(n) ==
    /\ uses[n].kind = "checkpoint"
    /\ \/ /\ Proven(<<"checkpoint", n>>) /\ UNCHANGED helpers
          /\ uses' = [uses EXCEPT ![n].closed = "completed"]
       \/ Bring(<<"checkpoint", n>>) /\ UNCHANGED uses
    /\ UNCHANGED ending

\* workspaceAuxiliaryUseClosed submits the command that the use is waiting for.
AwaitVerification(n) ==
    /\ uses[n].owed /\ uses[n].kind = "verify" /\ Bring(<<"verify", n>>)
    /\ UNCHANGED <<uses, ending>>

\* runWorkspaceCapture: the one capture of this use, whoever asked for it first.
RunCapture(n) ==
    /\ uses[n].owed /\ uses[n].receipt = "none" /\ PredecessorClosed(n)
    /\ Bring(<<"capture", n>>)
    /\ UNCHANGED <<uses, ending>>

\* BuildCaptureReceipt: only a capture that succeeded and recorded what it saw is captured.
RecordCaptureReceipt(n) ==
    /\ uses[n].owed /\ uses[n].receipt = "none" /\ Proven(<<"capture", n>>)
    /\ uses' = [uses EXCEPT ![n].receipt =
                   IF Succeeded(<<"capture", n>>) /\ snapshots[n].taken
                   THEN "captured" ELSE "unavailable"]
    /\ UNCHANGED <<helpers, ending>>

CloseCaptured(n) ==
    /\ uses[n].receipt # "none"
    /\ uses' = [uses EXCEPT ![n].closed = uses[n].receipt]
    /\ UNCHANGED <<helpers, ending>>

ReconcileOpenUse ==
    /\ Reserved
    /\ \/ AbortAdmission(Latest) \/ RestoreObligation(Latest) \/ SettleCheckpoint(Latest)
       \/ AwaitVerification(Latest) \/ RunCapture(Latest) \/ RecordCaptureReceipt(Latest)
       \/ CloseCaptured(Latest)

\* completeWorkspaceReleaseCapture: nothing is released that was not captured, unless the
\* release discards.
MayReleaseAlways(n) == TRUE
MayRelease(n) == uses[n].receipt = "captured" \/ uses[n].discard
RecordRelease ==
    /\ Latest > 0 /\ ~ Reserved /\ ~ ReleaseRecorded
    /\ uses[Latest].kind = "release" /\ uses[Latest].closed \in {"captured", "unavailable"}
    /\ MayRelease(Latest)
    /\ ending' = [ending EXCEPT !.by = Latest, !.discard = uses[Latest].discard]
    /\ UNCHANGED <<uses, helpers>>

\* latestWorkspaceOperation: attempts are made one after the other; a command that asks for it
\* starts another after one that failed.
Attempts(kind) == {k \in 1..MaxTries : helpers[<<kind, k>>].state # "none"}
Current(kind) == CHOOSE k \in Attempts(kind) : \A j \in Attempts(kind) : j <= k
BringAttempt(kind) ==
    \/ /\ Attempts(kind) = {}
       /\ helpers' = [helpers EXCEPT ![<<kind, 1>>].state = "opened"]
    \/ /\ Attempts(kind) # {} /\ ~ Proven(<<kind, Current(kind)>>)
       /\ Bring(<<kind, Current(kind)>>)
    \/ /\ Attempts(kind) # {} /\ Current(kind) < MaxTries
       /\ Proven(<<kind, Current(kind)>>) /\ ~ Succeeded(<<kind, Current(kind)>>)
       /\ helpers' = [helpers EXCEPT ![<<kind, Current(kind) + 1>>].state = "opened"]
Accomplished(kind) == Attempts(kind) # {} /\ Succeeded(<<kind, Current(kind)>>)

\* ReconcileRemoval
ReconcileRemoval ==
    /\ ReleaseRecorded /\ ~ ending.removed
    /\ \/ BringAttempt("remove") /\ UNCHANGED ending
       \/ /\ Accomplished("remove") /\ UNCHANGED helpers
          /\ ending' = [ending EXCEPT !.removed = TRUE]
    /\ UNCHANGED uses

\* ReconcileForgetOperation
ReconcileForget ==
    /\ ending.forgetting /\ ~ ending.forgotten
    /\ \/ BringAttempt("forget") /\ UNCHANGED ending
       \/ /\ Accomplished("forget") /\ UNCHANGED helpers
          /\ ending' = [ending EXCEPT !.forgotten = TRUE]
    /\ UNCHANGED uses

\* ReconcileUse: every step follows from the records, whoever wrote them.
Reconcile(c) ==
    /\ Holding(c, "reconcile")
    /\ \/ ReconcileOpenUse
       \/ RecordRelease
       \/ ~ Reserved /\ ReconcileRemoval
       \/ ~ Reserved /\ ReconcileForget
    /\ UNCHANGED <<useOwner, clients>> /\ UNCHANGED World

\* Nothing is left to do before the command's own action; a wake has none.
Reconciled(c) ==
    /\ Holding(c, "reconcile") /\ ~ Reserved
    /\ \E next \in {Errand("dispatch", t, FALSE, "act") :
                         t \in {u \in WsTasks : tasks[u].state = "absent"}}
                     \cup {Errand(goal, Nothing, FALSE, "act") : goal \in {"verify", "checkpoint"}}
                     \cup {Errand("release", Nothing, d, "act") : d \in BOOLEAN} :
          clients' = [clients EXCEPT ![c] = next]
    /\ UNCHANGED <<uses, helpers, ending, useOwner>> /\ UNCHANGED World

-----------------------------------------------------------------------------
(* What each command does *)

\* Resource.Reserve
Reservable == ~ ReleaseRecorded /\ ~ Reserved /\ Latest < MaxUses
Reserve(kind, t, d) ==
    uses' = Append(uses, [kind |-> kind, task |-> t, discard |-> d, owed |-> FALSE,
                          receipt |-> "none", closed |-> "open", baseline |-> FALSE])

\* requireOpenAdmissionSubject: a request whose use was closed as launched is not admitted again.
ReserveDispatch(c) ==
    /\ Holding(c, "act") /\ clients[c].goal = "dispatch" /\ Reservable
    /\ \A n \in DOMAIN uses : (uses[n].kind = "admission" /\ uses[n].task = clients[c].task)
                               => uses[n].closed = "aborted"
    /\ Reserve("admission", clients[c].task, FALSE)
    /\ At(c, "provision")
    /\ UNCHANGED <<helpers, ending, useOwner>> /\ UNCHANGED World

\* provisionIfNeeded and awaitProvision
ProvisionForDispatch(c) ==
    /\ Holding(c, "provision")
    /\ LET h == <<"provision", Latest>> IN
       \/ /\ IF place.registered /\ helpers[h].state = "none"
             THEN ProvisionsClosed ELSE Succeeded(h) /\ place.registered
          /\ CheckoutUsable
          /\ At(c, "create") /\ UNCHANGED helpers
       \/ ~ (place.registered /\ helpers[h].state = "none") /\ Bring(h) /\ UNCHANGED clients
    /\ UNCHANGED <<uses, ending, useOwner>> /\ UNCHANGED World

CreateTask(c) ==
    /\ Holding(c, "create")
    /\ tasks' = [tasks EXCEPT ![clients[c].task] = [state |-> "created", use |-> Latest]]
    /\ At(c, "oblige")
    /\ UNCHANGED <<uses, helpers, place, work, snapshots, refs, ending, useOwner>>

\* Admission.FinishContext without a task record
FinishAborted(c) ==
    /\ clients[c].at \in {"provision", "create"} /\ useOwner = c
    /\ AbortAdmission(Latest)
    /\ IF uses' = uses THEN UNCHANGED <<clients, useOwner>> ELSE Leave(c)
    /\ UNCHANGED World

\* RecordTaskCapture: what the task will owe is recorded before the task can be submitted.
RecordTaskCapture(c) ==
    /\ Holding(c, "oblige") /\ clients[c].goal = "dispatch"
    /\ LET n == tasks[clients[c].task].use IN
          /\ uses[n].owed \/ (Reserved /\ Latest = n)
          /\ uses' = [uses EXCEPT ![n].owed = TRUE]
    /\ At(c, "submit")
    /\ UNCHANGED <<helpers, ending, useOwner>> /\ UNCHANGED World

SubmitTask(c) ==
    /\ Holding(c, "submit") /\ clients[c].goal = "dispatch"
    /\ tasks' = [tasks EXCEPT ![clients[c].task].state = IF @ = "created" THEN "submitted" ELSE @]
    /\ Leave(c)
    /\ UNCHANGED <<uses, helpers, place, work, snapshots, refs, ending>>

\* BeginVerification and BeginManagedCheckpoint: the operation exists before the use that
\* names it, and is submitted only under that use.
OpenUseOperation(c) ==
    /\ Holding(c, "act") /\ clients[c].goal \in {"verify", "checkpoint"} /\ Latest < MaxUses
    /\ helpers' = [helpers EXCEPT ![<<clients[c].goal, Latest + 1>>].state = "opened"]
    /\ At(c, "reserve")
    /\ UNCHANGED <<uses, ending, useOwner>> /\ UNCHANGED World

ReserveOperation(c) ==
    /\ Holding(c, "reserve") /\ Reservable
    /\ Reserve(clients[c].goal, Nothing, FALSE)
    /\ At(c, IF clients[c].goal = "verify" THEN "oblige" ELSE "submit")
    /\ UNCHANGED <<helpers, ending, useOwner>> /\ UNCHANGED World

RecordVerificationUse(c) ==
    /\ Holding(c, "oblige") /\ clients[c].goal = "verify"
    /\ uses' = [uses EXCEPT ![Latest].owed = TRUE]
    /\ At(c, "submit")
    /\ UNCHANGED <<helpers, ending, useOwner>> /\ UNCHANGED World

SubmitUseOperation(c) ==
    /\ Holding(c, "submit") /\ clients[c].goal \in {"verify", "checkpoint"}
    /\ SubmitOperation(<<clients[c].goal, Latest>>)
    /\ Leave(c)
    /\ UNCHANGED <<uses, ending>> /\ UNCHANGED World

\* BeginRelease: a release action of its own, then the capture it owes.
ReserveRelease(c) ==
    /\ Holding(c, "act") /\ clients[c].goal = "release" /\ Reservable
    /\ Reserve("release", Nothing, clients[c].discard)
    /\ clients' = [clients EXCEPT ![c] = Errand(Nothing, Nothing, FALSE, "reconcile")]
    /\ UNCHANGED <<helpers, ending, useOwner>> /\ UNCHANGED World

\* BeginForget: the inventory is taken once, when no operation is unfinished.
ForgetWorkspace(c) ==
    /\ Holding(c, "act") /\ clients[c].goal = "forget"
    /\ ending.removed /\ ~ Reserved /\ ~ ending.forgotten
    /\ IF ending.forgetting THEN UNCHANGED ending
       ELSE /\ \A h \in HelperIds : helpers[h].state \in Closed \cup {"none"}
            /\ ending' = [ending EXCEPT !.forgetting = TRUE, !.intent = NamedRefs]
    /\ clients' = [clients EXCEPT ![c] = Errand(Nothing, Nothing, FALSE, "reconcile")]
    /\ UNCHANGED <<uses, helpers, useOwner>> /\ UNCHANGED World

ClientStep(c) ==
    \/ Begin(c) \/ Stop(c) \/ Reconcile(c) \/ Reconciled(c)
    \/ ReserveDispatch(c) \/ ProvisionForDispatch(c) \/ CreateTask(c) \/ FinishAborted(c)
    \/ RecordTaskCapture(c) \/ SubmitTask(c)
    \/ OpenUseOperation(c) \/ ReserveOperation(c) \/ RecordVerificationUse(c)
    \/ SubmitUseOperation(c) \/ ReserveRelease(c) \/ ForgetWorkspace(c)

TaskStep(t) == LaunchTask(t) \/ PinTurnBaseline(t) \/ ProviderWrites(t) \/ TaskEnds(t)

WsNext == \/ \E c \in Clients : ClientStep(c)
          \/ \E t \in WsTasks : TaskStep(t)
          \/ \E h \in HelperIds : HelperStep(h)

WsSpec == WsInit /\ [][WsNext]_wsVars

-----------------------------------------------------------------------------
(* Properties *)

\* Processes that are in the worktree now.
Occupants == {t \in WsTasks : tasks[t].state = "running"}
                \cup {h \in HelperIds : h[1] # "forget" /\ helpers[h].state = "running"}

\* However commands stop and start again, two processes are never in the worktree at once: a
\* task, the capture of its work, a verification, a checkpoint, a provision, a removal.
SoleOccupant == Cardinality(Occupants) <= 1

\* A use whose receipt says captured has everything that its task or its command wrote in the
\* snapshot, and nobody can write for that use any more.
InSnapshot(n, writer) == writer \in work => writer \in snapshots[n].content
CaptureIsComplete ==
    \A n \in DOMAIN uses : uses[n].receipt = "captured" =>
        /\ uses[n].kind = "admission" =>
              tasks[uses[n].task].state \in Closed /\ InSnapshot(n, <<"task", uses[n].task>>)
        /\ uses[n].kind = "verify" => Proven(<<"verify", n>>) /\ InSnapshot(n, <<"verify", n>>)

\* The worktree goes only when all that was ever written in it is in the snapshot of the
\* release, and stays pinned until a forget names it, unless the release discards.
NothingIsLost ==
    (place.tree = "gone" /\ ~ ending.discard) =>
        /\ snapshots[ending.by].taken /\ work \subseteq snapshots[ending.by].content
        /\ <<"capture", ending.by>> \in refs \/ ending.forgetting

\* Every ref that was made is named by a record, and a forgotten workspace has left none.
RefsAreKnown == /\ refs \subseteq NamedRefs
                /\ ending.forgotten => refs = {}

\* A workspace's files are used by one process at a time and never lost, and its refs are
\* never orphaned.
WorkspaceIsSafe == SoleOccupant /\ CaptureIsComplete /\ NothingIsLost /\ RefsAreKnown
=============================================================================

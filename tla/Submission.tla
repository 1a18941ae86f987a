----------------------------- MODULE Submission -----------------------------
(***************************************************************************)
(* Admission of tasks to the private supervisor: the supervisor's queue    *)
(* and the locks its callers share, staged submission, the recovery of a   *)
(* submission that stopped half way, stops, and the removal of rows whose  *)
(* task has ended.                                                         *)
(*                                                                         *)
(* The queue itself is an external daemon: rows with a numeric ID, a label *)
(* and a state, and commands addressed to a numeric ID.  The daemon hands  *)
(* out the ID of a removed row again, so an ID alone does not name a task. *)
(* Commands run in a control owner process that inherits the caller's lock *)
(* descriptors: the locks outlive the caller while a command is running.   *)
(* The processes that submit, stop and clean up share nothing but the      *)
(* queue, the task directories' create-once records and the locks.         *)
(***************************************************************************)
EXTENDS Naturals, FiniteSets

CONSTANTS Tasks,    \* task IDs; a row's label names one
          Ids,      \* numeric IDs the daemon may hand out
          Procs,    \* delegate processes and goroutines that use the queue
          MaxCrashes,   \* bound: crashes of a process
          MaxStops,     \* bound: stop requests of one task
          MaxPasses     \* bound: cleanup passes

VARIABLES
    rows,       \* [Ids -> row or NoRow], the daemon's queue
    callbacks,  \* terminal callbacks the daemon has yet to run, by ID
    boot,       \* [Procs -> mode held on bootstrap.lock]
    ident,      \* [Procs -> mode held on the queue identity lock]
    cmd,        \* [Procs -> control command of the process or NoCommand]
    proc,       \* [Procs -> local state of the operation a process is in]
    submit,     \* tasks that have submit.json
    receipt,    \* [Tasks -> numeric ID of supervisor.ref.json, or NoId]
    stops,      \* [Tasks -> number of stop requests recorded]
    published,  \* tasks whose outcome is published
    tickets,    \* IDs with a terminal event ticket
    events,     \* IDs in the terminal event inbox
    crashes, passes

queueVars == <<rows, callbacks, boot, ident, cmd>>

NoId == "none"
NoRow == [task |-> "none", state |-> "absent"]
Row == [task : Tasks, state : {"stashed", "queued", "running", "ended"}]

Modes == {"free", "SH", "EX"}

\* A command addresses a set of (ID, intended task) targets: one for enqueue, kill
\* and a stop's remove, several for a cleanup's remove, none for add.
Target == [id : Ids, task : Tasks]
NoCommand == [op |-> "none", task |-> "none", targets |-> {}, stage |-> "idle", id |-> NoId]
Command == [op : {"add", "enqueue", "remove", "kill"}, task : Tasks \cup {"none"},
            targets : SUBSET Target, stage : {"running", "done", "failed"},
            id : Ids \cup {NoId}]

QueueTypeOK ==
    /\ rows \in [Ids -> Row \cup {NoRow}]
    /\ callbacks \subseteq Ids
    /\ boot \in [Procs -> Modes]
    /\ ident \in [Procs -> Modes]
    /\ cmd \in [Procs -> Command \cup {NoCommand}]

QueueInit ==
    /\ rows = [i \in Ids |-> NoRow]
    /\ callbacks = {}
    /\ boot = [p \in Procs |-> "free"]
    /\ ident = [p \in Procs |-> "free"]
    /\ cmd = [p \in Procs |-> NoCommand]

\* flock compatibility, for a process that does not hold the lock yet.
Grants(lock, p, mode) ==
    \A q \in Procs \ {p} : lock[q] = "free" \/ (mode = "SH" /\ lock[q] = "SH")

\* matchingLabelRows: exactly one row carries the task's label, and its ID is the
\* expected one when the caller has one.  Anything else is an unknown observation.
Matches(t, expected) ==
    {i \in Ids : /\ rows[i] # NoRow
                 /\ {j \in Ids : rows[j].task = t} = {i}
                 /\ expected \in {NoId, i}}

Running(p) == cmd[p].stage = "running"

Start(p, op, t, targets) ==
    cmd' = [cmd EXCEPT ![p] = [op |-> op, task |-> t, targets |-> targets,
                               stage |-> "running", id |-> NoId]]

\* The daemon executes an add: the new row gets any free ID.
ExecuteAdd(p) ==
    /\ Running(p) /\ cmd[p].op = "add"
    /\ \E i \in Ids :
          /\ rows[i] = NoRow
          /\ rows' = [rows EXCEPT ![i] = [task |-> cmd[p].task, state |-> "stashed"]]
          /\ cmd' = [cmd EXCEPT ![p].stage = "done", ![p].id = i]
    /\ UNCHANGED <<callbacks, boot, ident>>

\* The states a command accepts, and what it does to a row in one of them.
Accepts(op) == CASE op = "enqueue" -> {"stashed"}
                 [] op = "remove" -> {"stashed", "queued", "ended"}
                 [] op = "kill" -> {"running"}
                 [] OTHER -> {}

After(op, row) == CASE op = "enqueue" -> [row EXCEPT !.state = "queued"]
                    [] op = "kill" -> [row EXCEPT !.state = "ended"]
                    [] OTHER -> NoRow

\* The daemon executes a command on the rows its numeric IDs now name, whatever task
\* they belong to, and refuses it when one of them is in a state it does not accept.
ExecuteOnIds(p) ==
    /\ Running(p) /\ cmd[p].op # "add"
    /\ LET ids == {g.id : g \in cmd[p].targets}
           accepted == \A i \in ids : rows[i].state \in Accepts(cmd[p].op)
       IN  /\ rows' = IF accepted
                      THEN [i \in Ids |-> IF i \in ids THEN After(cmd[p].op, rows[i]) ELSE rows[i]]
                      ELSE rows
           /\ cmd' = [cmd EXCEPT ![p].stage = IF accepted THEN "done" ELSE "failed"]
           /\ callbacks' = IF accepted /\ cmd[p].op = "kill" THEN callbacks \cup ids ELSE callbacks
    /\ UNCHANGED <<boot, ident>>

\* A command that fails before it reaches the daemon: the client or the connection
\* to the daemon fails.
CommandFails(p) ==
    /\ Running(p)
    /\ cmd' = [cmd EXCEPT ![p].stage = "failed"]
    /\ UNCHANGED <<rows, callbacks, boot, ident>>

\* The daemon starts a queued row, and a row's process ends by itself.
DaemonStart(i) ==
    /\ rows[i].state = "queued"
    /\ rows' = [rows EXCEPT ![i].state = "running"]
    /\ UNCHANGED <<callbacks, boot, ident, cmd>>

DaemonEnd(i) ==
    /\ rows[i].state = "running"
    /\ rows' = [rows EXCEPT ![i].state = "ended"]
    /\ callbacks' = callbacks \cup {i}
    /\ UNCHANGED <<boot, ident, cmd>>

-----------------------------------------------------------------------------
(* The operations on it. *)

taskVars == <<submit, receipt, stops, published>>
eventVars == <<tickets, events>>
vars == <<queueVars, proc, taskVars, eventVars, crashes, passes>>

Idle == [pc |-> "idle", goal |-> "none", task |-> "none", id |-> NoId, plan |-> {}]
PCs == {"idle", "permit", "add", "adding", "recover", "commit", "register", "enqueue",
        "enqueuing", "stop", "stopping", "capture", "remove", "removing", "clear",
        "stale", "retain"}
Local == [pc : PCs, goal : {"none", "add", "recover", "stop", "pass", "bootstrap"},
          task : Tasks \cup {"none"}, id : Ids \cup {NoId}, plan : SUBSET Target]

TypeOK ==
    /\ QueueTypeOK
    /\ proc \in [Procs -> Local]
    /\ submit \subseteq Tasks
    /\ receipt \in [Tasks -> Ids \cup {NoId}]
    /\ stops \in [Tasks -> 0..MaxStops]
    /\ published \subseteq Tasks
    /\ tickets \subseteq Ids /\ events \subseteq Ids
    /\ crashes \in 0..MaxCrashes
    /\ passes \in 0..MaxPasses

Init ==
    /\ QueueInit
    /\ proc = [p \in Procs |-> Idle]
    /\ submit = {} /\ published = {}
    /\ receipt = [t \in Tasks |-> NoId]
    /\ stops = [t \in Tasks |-> 0]
    /\ tickets = {} /\ events = {}
    /\ crashes = 0 /\ passes = 0

At(p, pc) == proc[p].pc = pc
Goto(p, pc) == proc' = [proc EXCEPT ![p].pc = pc]

Take(p, bootMode, identMode) ==
    /\ Grants(boot, p, bootMode) /\ Grants(ident, p, identMode)
    /\ boot' = [boot EXCEPT ![p] = bootMode]
    /\ ident' = [ident EXCEPT ![p] = identMode]

Release(p) ==
    /\ boot' = [boot EXCEPT ![p] = "free"]
    /\ ident' = [ident EXCEPT ![p] = "free"]
    /\ cmd' = [cmd EXCEPT ![p] = NoCommand]

\* The operation is over: whatever lock it still holds is closed.
Finish(p) == Release(p) /\ proc' = [proc EXCEPT ![p] = Idle]

LaunchPermitted(t) == stops[t] = 0

-----------------------------------------------------------------------------
(* Submission. *)

\* Mutant: a dispatch that finds the task's submit.json submits again.
PrepareSubmissionAgain(p, t) ==
    /\ At(p, "idle") /\ LaunchPermitted(t)
    /\ submit' = submit \cup {t}
    /\ proc' = [proc EXCEPT ![p] = [Idle EXCEPT !.pc = "permit", !.goal = "add", !.task = t]]
    /\ UNCHANGED <<queueVars, receipt, stops, published, eventVars, crashes, passes>>

\* PrepareSubmission commits submit.json once and returns the one-use permit.
PrepareSubmission(p, t) ==
    /\ At(p, "idle") /\ t \notin submit /\ LaunchPermitted(t)
    /\ submit' = submit \cup {t}
    /\ proc' = [proc EXCEPT ![p] = [Idle EXCEPT !.pc = "permit", !.goal = "add", !.task = t]]
    /\ UNCHANGED <<queueVars, receipt, stops, published, eventVars, crashes, passes>>

\* The permission that submission and recovery check again, before the locks.
RequireTaskLaunchPermission(p) ==
    /\ At(p, "permit")
    /\ IF LaunchPermitted(proc[p].task)
       THEN Goto(p, proc[p].goal)
       ELSE proc' = [proc EXCEPT ![p] = Idle]
    /\ UNCHANGED <<queueVars, taskVars, eventVars, crashes, passes>>

\* Under the shared generation lease and the shared queue identity lease the permit is
\* consumed and `add --stashed` starts.
SubmitStaged(p) ==
    /\ At(p, "add")
    /\ Take(p, "SH", "SH")
    /\ Start(p, "add", proc[p].task, {})
    /\ Goto(p, "adding")
    /\ UNCHANGED <<rows, callbacks, taskVars, eventVars, crashes, passes>>

\* Mutant: the row is registered and enqueued before its receipt is committed.
StagedAddedUncommitted(p) ==
    /\ At(p, "adding") /\ cmd[p].stage = "done"
    /\ proc' = [proc EXCEPT ![p].pc = "register", ![p].id = cmd[p].id]
    /\ cmd' = [cmd EXCEPT ![p] = NoCommand]
    /\ UNCHANGED <<rows, callbacks, boot, ident, taskVars, eventVars, crashes, passes>>

StagedAdded(p) ==
    /\ At(p, "adding") /\ cmd[p].stage = "done"
    /\ proc' = [proc EXCEPT ![p].pc = "commit", ![p].id = cmd[p].id]
    /\ cmd' = [cmd EXCEPT ![p] = NoCommand]
    /\ UNCHANGED <<rows, callbacks, boot, ident, taskVars, eventVars, crashes, passes>>

\* The commit callback records the receipt; an existing one must be the same.
CommitReceipt(p) ==
    /\ At(p, "commit")
    /\ LET t == proc[p].task IN
       IF receipt[t] \in {NoId, proc[p].id}
       THEN /\ receipt' = [receipt EXCEPT ![t] = proc[p].id]
            /\ Goto(p, "register")
            /\ UNCHANGED <<boot, ident, cmd>>
       ELSE Finish(p) /\ UNCHANGED receipt
    /\ UNCHANGED <<rows, callbacks, submit, stops, published, eventVars, crashes, passes>>

\* Under the event lock; an existing ticket stands.
WriteTicket(i) == tickets' = tickets \cup {i}

\* The ticket is written before the stale event of an earlier row with this ID goes.
RegisterTerminalEvent(p) ==
    /\ At(p, "register")
    /\ WriteTicket(proc[p].id)
    /\ events' = events \ {proc[p].id}
    /\ Goto(p, "enqueue")
    /\ UNCHANGED <<queueVars, taskVars, crashes, passes>>

EnqueueStaged(p) ==
    /\ At(p, "enqueue")
    /\ Start(p, "enqueue", proc[p].task, {[id |-> proc[p].id, task |-> proc[p].task]})
    /\ Goto(p, "enqueuing")
    /\ UNCHANGED <<rows, callbacks, boot, ident, taskVars, eventVars, crashes, passes>>

\* The end of a command that concludes its operation, and the failure of any command.
CommandConcludes(p) ==
    /\ \/ At(p, "enqueuing") /\ cmd[p].stage \in {"done", "failed"}
       \/ At(p, "stopping") /\ cmd[p].stage \in {"done", "failed"}
       \/ At(p, "adding") /\ cmd[p].stage = "failed"
       \/ At(p, "removing") /\ cmd[p].stage = "failed"
    /\ Finish(p)
    /\ UNCHANGED <<rows, callbacks, taskVars, eventVars, crashes, passes>>

-----------------------------------------------------------------------------
(* Recovery of a staged submission, by a later status or a repeated dispatch. *)

\* The task has submit.json, so nothing is added again: an unlocked snapshot looks for
\* its row, and a stashed one is taken up.
ReconcileSubmitted(p, t) ==
    /\ At(p, "idle") /\ t \in submit /\ LaunchPermitted(t)
    /\ \E i \in Matches(t, receipt[t]) :
          /\ rows[i].state = "stashed"
          /\ proc' = [proc EXCEPT ![p] = [Idle EXCEPT !.pc = "permit", !.goal = "recover",
                                                      !.task = t, !.id = i]]
    /\ UNCHANGED <<queueVars, taskVars, eventVars, crashes, passes>>

\* Under the exclusive queue identity lease the row is looked up again; only a row that
\* is still stashed under the same ID is committed and enqueued.
RecoverStaged(p) ==
    /\ At(p, "recover")
    /\ \/ /\ \E i \in Matches(proc[p].task, proc[p].id) : rows[i].state = "stashed"
          /\ Take(p, "SH", "EX")
          /\ Goto(p, "commit")
          /\ UNCHANGED cmd
       \/ /\ ~ \E i \in Matches(proc[p].task, proc[p].id) : rows[i].state = "stashed"
          /\ Grants(boot, p, "SH") /\ Grants(ident, p, "EX")
          /\ Finish(p)
    /\ UNCHANGED <<rows, callbacks, taskVars, eventVars, crashes, passes>>

-----------------------------------------------------------------------------
(* Stop. *)

\* PrepareStop binds the numeric target from the receipt, if there is one.  Without a
\* target, or when the lifetime owner is busy, the durable request is all there is.
PrepareStop(p, t) ==
    /\ At(p, "idle") /\ t \notin published /\ stops[t] < MaxStops
    /\ stops' = [stops EXCEPT ![t] = @ + 1]
    /\ \/ proc' = [proc EXCEPT ![p] = IF receipt[t] = NoId THEN Idle
                     ELSE [Idle EXCEPT !.pc = "stop", !.goal = "stop", !.task = t,
                                       !.id = receipt[t]]]
       \/ /\ \E i \in Ids : rows[i].task = t /\ rows[i].state = "running"
          /\ UNCHANGED proc
    /\ UNCHANGED <<queueVars, submit, receipt, published, eventVars, crashes, passes>>

StopAction(state) == CASE state \in {"stashed", "queued"} -> "remove"
                       [] state = "running" -> "kill"
                       [] OTHER -> "none"

\* Under the exclusive bootstrap lock the row is matched by label and saved ID; the
\* command then carries only the ID.
StopLocked(p) ==
    /\ At(p, "stop")
    /\ Grants(boot, p, "EX")
    /\ LET t == proc[p].task
           found == {i \in Matches(t, proc[p].id) : StopAction(rows[i].state) # "none"}
       IN IF found = {}
          THEN Finish(p)
          ELSE \E i \in found :
                 /\ boot' = [boot EXCEPT ![p] = "EX"]
                 /\ Start(p, StopAction(rows[i].state), t, {[id |-> i, task |-> t]})
                 /\ Goto(p, "stopping")
                 /\ UNCHANGED ident
    /\ UNCHANGED <<rows, callbacks, taskVars, eventVars, crashes, passes>>

-----------------------------------------------------------------------------
(* Removal of ended rows. *)

\* A maintenance pass is elected by the queue maintenance lock.  The overflow cleanup
\* of a bootstrap runs without it, under the exclusive bootstrap lock.
BeginCleanup(p) ==
    /\ At(p, "idle") /\ passes < MaxPasses
    /\ passes' = passes + 1
    /\ \/ /\ \A q \in Procs : proc[q].goal # "pass"
          /\ proc' = [proc EXCEPT ![p] = [Idle EXCEPT !.pc = "capture", !.goal = "pass"]]
          /\ UNCHANGED boot
       \/ /\ Grants(boot, p, "EX")
          /\ boot' = [boot EXCEPT ![p] = "EX"]
          /\ proc' = [proc EXCEPT ![p] = [Idle EXCEPT !.pc = "capture", !.goal = "bootstrap"]]
    /\ UNCHANGED <<rows, callbacks, ident, cmd, taskVars, eventVars, crashes>>

CleanupLease(p) == IF proc[p].goal = "bootstrap" THEN "EX" ELSE "SH"
BetweenPhases(p) == IF proc[p].goal = "bootstrap" THEN "EX" ELSE "free"

\* The inbox names candidates: IDs whose terminal event was recorded.
Inbox == events

\* Every row that shares its label with a row of the inbox, so that an ambiguous label shows.
EventRows == {i \in Ids : \E j \in Inbox : rows[j] # NoRow /\ rows[i].task = rows[j].task}

\* The ended rows with a label of their own, of the given ones.
Candidates(ids) ==
    {g \in Target : /\ g.id \in ids
                    /\ rows[g.id] = [task |-> g.task, state |-> "ended"]
                    /\ Matches(g.task, g.id) # {}}

\* Mutant: an ended row is taken for a finished task.
AuthorizedByReceipt(g) == receipt[g.task] = g.id

\* The ended row's task is inspected: its receipt names the row, its outcome is published.
EndedTaskPublished(g) == receipt[g.task] = g.id /\ g.task \in published

\* AuthorizeSuccessfulCleanup.
Authorized(g) == EndedTaskPublished(g)

\* Capture takes the lock, snapshots and lets go; the authorizer reads task directories
\* after it, without the queue identity lock.
CapturePrivateCleanup(p) ==
    /\ At(p, "capture")
    /\ Grants(boot, p, CleanupLease(p)) /\ Grants(ident, p, "EX")
    /\ \E scope \in {Ids, EventRows} :
          proc' = [proc EXCEPT ![p].pc = "remove", ![p].plan = Candidates(scope)]
    /\ UNCHANGED <<queueVars, taskVars, eventVars, crashes, passes>>

\* validateAuthorizedTerminalRows: every row planned is still the captured one.
StillCaptured(plan) == \A g \in plan : g \in Candidates(Ids)

RemoveCaptured(p) ==
    /\ At(p, "remove")
    /\ LET plan == {g \in proc[p].plan : Authorized(g)} IN
       \/ /\ plan = {}
          /\ proc' = [proc EXCEPT ![p].pc = "stale", ![p].plan = {}]
          /\ UNCHANGED <<boot, ident, cmd>>
       \/ /\ plan # {} /\ StillCaptured(plan)
          /\ Take(p, CleanupLease(p), "EX")
          /\ Start(p, "remove", "none", plan)
          /\ proc' = [proc EXCEPT ![p].pc = "removing", ![p].plan = plan]
       \/ /\ plan # {} /\ ~ StillCaptured(plan)
          /\ Grants(boot, p, CleanupLease(p)) /\ Grants(ident, p, "EX")
          /\ Finish(p)
    /\ UNCHANGED <<rows, callbacks, taskVars, eventVars, crashes, passes>>

RowsRemoved(p) ==
    /\ At(p, "removing") /\ cmd[p].stage = "done"
    /\ cmd' = [cmd EXCEPT ![p] = NoCommand]
    /\ Goto(p, "clear")
    /\ UNCHANGED <<rows, callbacks, boot, ident, taskVars, eventVars, crashes, passes>>

\* Tickets and events of the removed rows go before the identity lock does.
ClearTerminalEvents(p) ==
    /\ At(p, "clear")
    /\ LET ids == {g.id : g \in proc[p].plan} IN
       tickets' = tickets \ ids /\ events' = events \ ids
    /\ boot' = [boot EXCEPT ![p] = BetweenPhases(p)]
    /\ ident' = [ident EXCEPT ![p] = "free"]
    /\ proc' = [proc EXCEPT ![p].pc = "stale", ![p].plan = {}]
    /\ UNCHANGED <<rows, callbacks, cmd, taskVars, crashes, passes>>

\* Events of IDs that no row has any more are dropped under the exclusive lock.
ClearStaleEvents(p) ==
    /\ At(p, "stale")
    /\ Grants(boot, p, CleanupLease(p)) /\ Grants(ident, p, "EX")
    /\ LET stale == {i \in events : rows[i] = NoRow} IN
       tickets' = tickets \ stale /\ events' = events \ stale
    /\ Finish(p)
    /\ UNCHANGED <<rows, callbacks, taskVars, crashes, passes>>

-----------------------------------------------------------------------------
(* The row's process and its callback, timeouts and crashes. *)

\* The row's guardian, once it finds the receipt of its own row, publishes an outcome.
Publish(t) ==
    /\ t \notin published
    /\ \E i \in Ids : rows[i] = [task |-> t, state |-> "running"] /\ receipt[t] = i
    /\ published' = published \cup {t}
    /\ UNCHANGED <<queueVars, proc, submit, receipt, stops, eventVars, crashes, passes>>

\* A callback is invoked for every row; without a ticket it leaves no trace.
Ticketed(i) == i \in tickets

\* The daemon's callback, possibly long after the row ended: a ticket is needed.
TerminalEvent(i) ==
    /\ i \in callbacks
    /\ callbacks' = callbacks \ {i}
    /\ events' = IF Ticketed(i) THEN events \cup {i} ELSE events
    /\ UNCHANGED <<rows, boot, ident, cmd, proc, taskVars, tickets, crashes, passes>>

\* The observation deadline passes first: the command is pending, its locks retained.
CommandPending(p) ==
    /\ Running(p) /\ proc[p].pc # "retain"
    /\ Goto(p, "retain")
    /\ UNCHANGED <<queueVars, taskVars, eventVars, crashes, passes>>

\* Mutant: the locks are released with the caller, not with the command.
CrashUnlocks(p) ==
    /\ crashes < MaxCrashes /\ proc[p].pc \notin {"idle", "retain"}
    /\ crashes' = crashes + 1
    /\ IF Running(p)
       THEN /\ Goto(p, "retain")
            /\ boot' = [boot EXCEPT ![p] = "free"] /\ ident' = [ident EXCEPT ![p] = "free"]
            /\ UNCHANGED cmd
       ELSE Finish(p)
    /\ UNCHANGED <<rows, callbacks, taskVars, eventVars, passes>>

\* The process dies.  A running command keeps the locks through its control owner.
Crash(p) ==
    /\ crashes < MaxCrashes /\ proc[p].pc \notin {"idle", "retain"}
    /\ crashes' = crashes + 1
    /\ IF Running(p) THEN Goto(p, "retain") /\ UNCHANGED <<boot, ident, cmd>> ELSE Finish(p)
    /\ UNCHANGED <<rows, callbacks, taskVars, eventVars, passes>>

ReleaseRetained(p) ==
    /\ At(p, "retain") /\ ~ Running(p)
    /\ Finish(p)
    /\ UNCHANGED <<rows, callbacks, taskVars, eventVars, crashes, passes>>

-----------------------------------------------------------------------------
Daemon(p) ==
    /\ ExecuteAdd(p) \/ ExecuteOnIds(p) \/ CommandFails(p)
    /\ UNCHANGED <<proc, taskVars, eventVars, crashes, passes>>

RowStep(i) ==
    /\ DaemonStart(i) \/ DaemonEnd(i)
    /\ UNCHANGED <<proc, taskVars, eventVars, crashes, passes>>

Operate(p) ==
    \/ RequireTaskLaunchPermission(p) \/ SubmitStaged(p) \/ StagedAdded(p)
    \/ CommitReceipt(p) \/ RegisterTerminalEvent(p) \/ EnqueueStaged(p)
    \/ CommandConcludes(p) \/ RecoverStaged(p) \/ StopLocked(p)
    \/ CapturePrivateCleanup(p) \/ RemoveCaptured(p) \/ RowsRemoved(p)
    \/ ClearTerminalEvents(p) \/ ClearStaleEvents(p) \/ ReleaseRetained(p)

Next ==
    \/ \E p \in Procs : Operate(p) \/ Daemon(p) \/ BeginCleanup(p)
    \/ \E p \in Procs : CommandPending(p) \/ Crash(p)
    \/ \E p \in Procs, t \in Tasks :
          PrepareSubmission(p, t) \/ ReconcileSubmitted(p, t) \/ PrepareStop(p, t)
    \/ \E t \in Tasks : Publish(t)
    \/ \E i \in Ids : RowStep(i) \/ TerminalEvent(i)

Spec == Init /\ [][Next]_vars

-----------------------------------------------------------------------------
(* Properties. *)

\* A numeric ID names another task's row once the daemon reuses it.  No enqueue, kill
\* or remove may reach a row of a task it was not meant for: the locks a command runs
\* under keep every row it addresses where it was seen, even when the caller has given
\* up on the command or died.
CommandsReachTheirRow ==
    \A p \in Procs : Running(p) =>
        \A g \in cmd[p].targets : rows[g.id] = NoRow \/ rows[g.id].task = g.task

\* One dispatched task never becomes two rows, however often its submission is retried
\* or recovered.
OneRowPerTask == \A i, j \in Ids :
    rows[i].task = rows[j].task /\ rows[i] # NoRow => i = j

\* A row that may run is known to its task directory under its own ID: the guardian
\* waits for that receipt, and stop and cleanup act through it.  While it may still end
\* it also has its ticket, so that its terminal callback is not dropped.
RunnableRowIsKnown == \A i \in Ids :
    /\ rows[i].state \in {"queued", "running", "ended"} => receipt[rows[i].task] = i
    /\ rows[i].state \in {"queued", "running"} => i \in tickets

\* A running row is never removed, and a row leaves the queue only when its task has a
\* published outcome or was asked to stop.  (A stop that saw a queued row may find it
\* ended when its remove is executed, so an ended row can leave unpublished.)
RowLeavesForCause ==
    \A i \in Ids : rows[i] # NoRow /\ rows'[i] = NoRow =>
        /\ rows[i].state # "running"
        /\ \/ rows[i].state = "ended" /\ rows[i].task \in published
           \/ stops[rows[i].task] > 0

RowsLeaveForCause == [][RowLeavesForCause]_vars
=============================================================================

---------------------------- MODULE OwnerServer ----------------------------
(***************************************************************************)
(* The serving process of an infrastructure owner: the loop that accepts   *)
(* connections, one handler per connection, the goroutine that runs the    *)
(* operation the owner was started for, and the main goroutine that waits  *)
(* for them, drains the server and gives up the serving role.  All of them *)
(* share the fields of ownerServer under one mutex.  An operation is       *)
(* carried out by a worker that may outlive the callback that waits for it *)
(* and start a daemon after the server is drained.                         *)
(***************************************************************************)
EXTENDS Naturals, FiniteSets

CONSTANTS Conns,            \* connections of clients
          PreauthLimit, OperationLimit, ControlLimit,
          MaxServeFaults    \* bound: failures and expiries of connections, operations, listener

VARIABLES
    closing, serving, drained,          \* of ownerServer
    initial, initDone, terminal, delivered,
    deadline,                           \* the startup's deadline has passed
    owners,                             \* operations in cleanupFailure: their cleanup is retained
    conns,                              \* progress of each connection
    prep,                               \* goroutine of prepareInitial
    runner,                             \* goroutine of runResidentServer
    worker,                             \* worker of each operation
    daemon,                             \* daemon that it started
    registrationClosed,                 \* of daemonWaitOwner
    serveFaults

serveVars == <<closing, serving, drained, initial, initDone, terminal, delivered, deadline, owners,
               conns, prep, runner, worker, daemon, registrationClosed, serveFaults>>
workVars == <<worker, daemon, registrationClosed>>
initVars == <<initial, initDone, terminal, delivered>>

Kinds == {"none", "status", "own", "initial", "stop"}
ConnPcs == {"none", "reading", "admit", "execute", "work", "await", "reply", "deliver", "closed"}
Initial == 0    \* the operation the owner was started for; connections are numbered from 1
Operations == Conns \cup {Initial}
Fresh == [pc |-> "none", class |-> "none", kind |-> "none"]

ServeTypeOK ==
    /\ {closing, serving, drained, deadline, terminal, delivered, registrationClosed} \subseteq BOOLEAN
    /\ owners \subseteq Operations
    /\ initial \in 0..1 /\ initDone \in {"none", "ok", "failed", "empty"}
    /\ conns \in [Conns -> [pc : ConnPcs, class : {"none", "preauth", "operation", "control"}, kind : Kinds]]
    /\ prep \in {"begin", "running", "ok", "failed", "empty", "sent-ok", "sent-failed", "read"}
    /\ runner \in {"select", "handoff", "served", "prepared", "drain", "finish", "dispose", "waiting", "keeping",
                  "retained", "gone"}
    /\ worker \in [Operations -> {"idle", "busy", "failed", "kept", "lost"}]
    /\ daemon \in [Operations -> {"none", "unowned", "waited", "exited"}]
    /\ serveFaults \in 0..MaxServeFaults

ServeInit ==
    /\ closing = FALSE /\ serving = TRUE /\ drained = FALSE
    /\ initial = 0 /\ initDone = "none" /\ terminal = FALSE /\ delivered = FALSE
    /\ deadline = FALSE /\ owners = {}
    /\ conns = [c \in Conns |-> Fresh] /\ prep = "begin" /\ runner = "select"
    /\ worker = [w \in Operations |-> "idle"] /\ daemon = [w \in Operations |-> "none"]
    /\ registrationClosed = FALSE /\ serveFaults = 0

-----------------------------------------------------------------------------
(* Fields under the mutex. *)

ServeFault == serveFaults < MaxServeFaults /\ serveFaults' = serveFaults + 1
Registered == {c \in Conns : conns[c].class # "none"}
ClassCount(class) == Cardinality({c \in Conns : conns[c].class = class})

\* Mutant: the connections that are still being answered are forgotten.
DrainedEarly(isClosing, isServing, open, running) == drained \/ (isClosing /\ ~ isServing /\ running = 0)
\* signalDrained, called wherever one of its inputs changes.
Drained(isClosing, isServing, open, running) ==
    drained \/ (isClosing /\ ~ isServing /\ open = {} /\ running = 0)

\* The request was read; what is left to do does not depend on it.
To(c, pc) == conns' = [conns EXCEPT ![c].pc = pc, ![c].kind = "none"]

\* finishConnection: the connection is closed and forgotten in one step of the mutex.
Finish(c) ==
    /\ conns' = [conns EXCEPT ![c] = [pc |-> "closed", class |-> "none", kind |-> "none"]]
    /\ drained' = Drained(closing, serving, Registered \ {c}, initial)

\* stopAccepting: no admission any more; readers are woken.
StopAccepting == closing' = TRUE /\ drained' = Drained(TRUE, serving, Registered, initial)

\* registerInitial and admitConnection: an operation needs a slot, the initial one too.
OperationSlot == ClassCount("operation") + initial < OperationLimit
ControlSlot == ClassCount("control") < ControlLimit

\* connectionFault: an error that retains cleanup enters the server's fault and closes admission.
Retain(w) == owners' = owners \cup {w} /\ closing' = TRUE
LeavesBehind(w) == worker[w] \in {"kept", "lost"}

-----------------------------------------------------------------------------
(* The worker of an operation. *)

\* guardedDaemonStart under the resident's grant, which a closed entry refuses; once per operation.
StartDaemon(w) ==
    /\ worker[w] = "busy" /\ daemon[w] = "none" /\ runner \notin {"waiting", "gone"}
    /\ daemon' = [daemon EXCEPT ![w] = "unowned"]
    /\ UNCHANGED <<closing, serving, drained, initVars, deadline, owners, conns, prep, runner, worker,
                   registrationClosed, serveFaults>>
\* RegisterDaemonWait: the wait is handed to the owner, or refused and the worker fails.
RegisterWait(w) ==
    /\ worker[w] = "busy" /\ daemon[w] = "unowned"
    /\ IF registrationClosed
       THEN worker' = [worker EXCEPT ![w] = "failed"] /\ UNCHANGED daemon
       ELSE daemon' = [daemon EXCEPT ![w] = "waited"] /\ UNCHANGED worker
    /\ UNCHANGED <<closing, serving, drained, initVars, deadline, owners, conns, prep, runner,
                   registrationClosed, serveFaults>>
\* The action ends with its cleanup done (a connection answers a failure as it does a success),
\* with resources that could not be closed, or with an error that names no completion of its
\* cleanup; the worker itself is the completion of a callback that gave up.
WorkerEnds(w) ==
    /\ worker[w] = "busy" /\ daemon[w] # "unowned"
    /\ \/ worker' = [worker EXCEPT ![w] = "idle"] /\ UNCHANGED serveFaults
       \/ /\ w = Initial /\ worker' = [worker EXCEPT ![w] = "failed"]
          /\ IF deadline THEN UNCHANGED serveFaults ELSE ServeFault
       \/ ServeFault /\ worker' = [worker EXCEPT ![w] = "kept"]
       \/ w \notin owners /\ ServeFault /\ worker' = [worker EXCEPT ![w] = "lost"]
    /\ daemon' = [daemon EXCEPT ![w] = IF @ = "exited" THEN "none" ELSE @]
    /\ UNCHANGED <<closing, serving, drained, initVars, deadline, owners, conns, prep, runner,
                   registrationClosed>>

-----------------------------------------------------------------------------
(* The accept loop. *)

\* A connection arrives: registered, or closed at once.
Connect(c) ==
    /\ serving /\ ~ closing /\ conns[c].pc = "none"
    /\ conns' = [conns EXCEPT ![c] = IF ClassCount("preauth") < PreauthLimit
                                     THEN [pc |-> "reading", class |-> "preauth", kind |-> "none"]
                                     ELSE [pc |-> "closed", class |-> "none", kind |-> "none"]]
    /\ UNCHANGED <<closing, serving, drained, initVars, deadline, owners, prep, runner, workVars, serveFaults>>

\* The deadline of the listener ends the loop.
EndLoop ==
    /\ serving /\ closing
    /\ serving' = FALSE /\ drained' = Drained(closing, FALSE, Registered, initial)
    /\ UNCHANGED <<closing, initVars, deadline, owners, conns, prep, runner, workVars, serveFaults>>
ListenerFails ==
    /\ serving /\ ~ closing /\ ServeFault
    /\ StopAccepting
    /\ UNCHANGED <<serving, initVars, deadline, owners, conns, prep, runner, workVars>>

\* The process is asked to end.
CancelServing ==
    /\ ~ closing /\ ServeFault /\ StopAccepting
    /\ UNCHANGED <<serving, initVars, deadline, owners, conns, prep, runner, workVars>>

-----------------------------------------------------------------------------
(* One connection. *)

\* readOwnerControlFrame and setRequestDeadline: a frame, or the end of the connection.
ReadFrame(c, kind) ==
    /\ conns[c].pc = "reading" /\ ~ closing
    /\ conns' = [conns EXCEPT ![c].pc = "admit", ![c].kind = kind]
    /\ UNCHANGED <<closing, serving, drained, initVars, deadline, owners, prep, runner, workVars, serveFaults>>
LoseConnection(c) ==
    /\ conns[c].pc = "reading"
    /\ (closing /\ UNCHANGED serveFaults) \/ ServeFault
    /\ Finish(c)
    /\ UNCHANGED <<closing, serving, initVars, deadline, owners, prep, runner, workVars>>

\* acceptWork: a failed initial operation is handed over before anything else is done.
Admitted(c) ==
    /\ ~ closing
    /\ terminal => conns[c].kind \in {"initial", "stop"}
    /\ IF conns[c].kind \in {"status", "stop"} THEN ControlSlot ELSE OperationSlot
Admit(c) ==
    /\ conns[c].pc = "admit"
    /\ IF Admitted(c)
       THEN conns' = [conns EXCEPT ![c].pc = "execute",
                      ![c].class = IF conns[c].kind \in {"status", "stop"} THEN "control" ELSE "operation"]
       ELSE To(c, "reply")
    /\ UNCHANGED <<closing, serving, drained, initVars, deadline, owners, prep, runner, workVars, serveFaults>>

\* executeWork: an operation of the caller, unless a failed initial one is being handed over.
ExecuteOwn(c) ==
    /\ conns[c].pc = "execute" /\ conns[c].kind \in {"own", "status"}
    /\ To(c, IF conns[c].kind = "own" /\ ~ terminal THEN "work" ELSE "reply")
    /\ UNCHANGED <<closing, serving, drained, initVars, deadline, owners, prep, runner, workVars, serveFaults>>

\* preparationForRequest: wait for the initial result; after a success the caller's own
\* operation is run, a failure is replayed.
AwaitInitial(c) ==
    /\ conns[c].pc = "execute" /\ conns[c].kind = "initial" /\ initDone # "none"
    /\ To(c, CASE initDone = "ok" -> "work" [] initDone = "failed" -> "deliver" [] OTHER -> "reply")
    /\ UNCHANGED <<closing, serving, drained, initVars, deadline, owners, prep, runner, workVars, serveFaults>>
AwaitTimeout(c) ==
    /\ conns[c].pc = "execute" /\ conns[c].kind = "initial" /\ initDone = "none" /\ ServeFault
    /\ To(c, "reply")
    /\ UNCHANGED <<closing, serving, drained, initVars, deadline, owners, prep, runner, workVars>>

\* runInfrastructurePreparation: the callback starts a worker, unless its deadline is over.
Work(c) ==
    /\ conns[c].pc = "work"
    /\ \/ To(c, "await") /\ worker' = [worker EXCEPT ![c] = "busy"] /\ UNCHANGED serveFaults
       \/ To(c, "reply") /\ ServeFault /\ UNCHANGED worker
    /\ UNCHANGED <<closing, serving, drained, initVars, deadline, owners, prep, runner, daemon, registrationClosed>>
\* It waits for the worker until its deadline; a worker that is not done by then is retained.
\* What is left behind stops the server (executePreparation).
WorkReturns(c) ==
    /\ conns[c].pc = "await"
    /\ IF worker[c] = "busy" THEN ServeFault ELSE UNCHANGED serveFaults
    /\ To(c, "reply")
    /\ IF worker[c] = "busy" \/ LeavesBehind(c)
       THEN Retain(c) /\ drained' = Drained(TRUE, serving, Registered, initial)
       ELSE UNCHANGED <<owners, closing, drained>>
    /\ UNCHANGED <<serving, initVars, deadline, prep, runner, workVars>>

\* respondToWork: deliverInitialResult follows a written reply.
Deliver(c) ==
    /\ conns[c].pc = "deliver"
    /\ To(c, "reply")
    /\ \/ delivered' = (delivered \/ terminal) /\ UNCHANGED serveFaults
       \/ ServeFault /\ UNCHANGED delivered
    /\ UNCHANGED <<closing, serving, drained, initial, initDone, terminal, deadline, owners, prep, runner, workVars>>

\* commitOwnerStop: refused while work is under way or a failure is still to be handed over.
StopAllowed ==
    /\ owners = {} /\ ~ closing /\ initDone # "none" /\ ClassCount("operation") = 0
    /\ terminal => delivered \/ deadline
CommitStop(c) ==
    /\ conns[c].pc = "execute" /\ conns[c].kind = "stop"
    /\ To(c, "reply")
    /\ IF StopAllowed THEN StopAccepting ELSE UNCHANGED <<closing, drained>>
    /\ UNCHANGED <<serving, initVars, deadline, owners, prep, runner, workVars, serveFaults>>

\* The reply is written, or fails; the connection ends.
Reply(c) ==
    /\ conns[c].pc = "reply"
    /\ Finish(c)
    /\ UNCHANGED <<closing, serving, initVars, deadline, owners, prep, runner, workVars, serveFaults>>

-----------------------------------------------------------------------------
(* The initial operation. *)

\* prepareInitial up to registerInitial.
BeginInitial ==
    /\ prep = "begin"
    /\ IF deadline \/ closing \/ ClassCount("operation") >= OperationLimit
       THEN prep' = "failed" /\ UNCHANGED <<initial, worker>>
       ELSE prep' = "running" /\ initial' = 1 /\ worker' = [worker EXCEPT ![Initial] = "busy"]
    /\ UNCHANGED <<closing, serving, drained, initDone, terminal, delivered, deadline, owners, conns, runner,
                   daemon, registrationClosed, serveFaults>>

\* The operation is awaited within the startup's deadline, and gives its slot back.
RunInitial ==
    /\ prep = "running" /\ (worker[Initial] = "busy" => deadline)
    /\ initial' = 0
    /\ IF worker[Initial] = "busy" \/ LeavesBehind(Initial)
       THEN prep' = "empty" /\ Retain(Initial) /\ drained' = Drained(TRUE, serving, Registered, 0)
       ELSE prep' = (IF worker[Initial] = "idle" THEN "ok" ELSE "failed") /\ UNCHANGED <<owners, closing>>
            /\ drained' = Drained(closing, serving, Registered, 0)
    /\ UNCHANGED <<serving, initDone, terminal, delivered, deadline, conns, runner, workVars, serveFaults>>

\* completeInitial: a failure is handed over when the server still accepts.
CompleteInitial ==
    /\ prep \in {"ok", "failed", "empty"}
    /\ initDone' = prep /\ terminal' = (prep = "failed" /\ ~ closing)
    /\ prep' = IF prep = "ok" THEN "sent-ok" ELSE "sent-failed"
    /\ UNCHANGED <<closing, serving, drained, initial, delivered, deadline, owners, conns, runner, workVars, serveFaults>>

-----------------------------------------------------------------------------
(* The main goroutine. *)

\* runResidentServer: whichever of the two ends first.
RunnerSelect ==
    /\ runner = "select"
    /\ \/ /\ prep = "sent-failed" /\ runner' = "handoff" /\ prep' = "read" /\ UNCHANGED <<closing, drained>>
       \/ /\ prep = "sent-ok" /\ runner' = "served" /\ prep' = "read" /\ UNCHANGED <<closing, drained>>
       \/ /\ ~ serving /\ runner' = "prepared" /\ StopAccepting /\ UNCHANGED prep
    /\ UNCHANGED <<serving, initVars, deadline, owners, conns, workVars, serveFaults>>

\* Mutant: only the delivery ends the wait.
HandedOverOnly == ~ terminal \/ delivered
\* awaitInitialHandoff: delivered, stopped, or the startup's deadline.
HandedOver == ~ terminal \/ delivered \/ closing \/ deadline
AwaitHandoff ==
    /\ runner = "handoff" /\ HandedOver
    /\ runner' = "served" /\ StopAccepting
    /\ UNCHANGED <<serving, initVars, deadline, owners, conns, prep, workVars, serveFaults>>

JoinServe ==
    /\ runner = "served" /\ ~ serving /\ runner' = "drain" /\ StopAccepting
    /\ UNCHANGED <<serving, initVars, deadline, owners, conns, prep, workVars, serveFaults>>
JoinPrepare ==
    /\ runner = "prepared" /\ prep \in {"sent-ok", "sent-failed"}
    /\ runner' = "drain" /\ prep' = "read"
    /\ UNCHANGED <<closing, serving, drained, initVars, deadline, owners, conns, workVars, serveFaults>>
Drain ==
    /\ runner = "drain" /\ drained /\ runner' = "finish"
    /\ UNCHANGED <<closing, serving, drained, initVars, deadline, owners, conns, prep, workVars, serveFaults>>

\* Mutant: the drain of the callbacks is taken for the end of their workers.
CleanupObserved == TRUE
\* joinResidentCleanup: a worker whose callback gave up may still start a daemon.
CleanupJoined == \A w \in owners : worker[w] # "busy"
\* finishResidentRuntime: only then no daemon's wait is accepted any more.  Resources that a
\* cleanup left pending are kept; an error without a completion is reported at once.
FinishRuntime ==
    /\ runner = "finish" /\ CleanupJoined
    /\ IF \E w \in owners : worker[w] = "lost"
       THEN runner' = "retained" /\ UNCHANGED registrationClosed
       ELSE /\ registrationClosed' = TRUE
            /\ runner' = IF \E w \in owners : worker[w] = "kept" THEN "keeping" ELSE "dispose"
    /\ UNCHANGED <<closing, serving, drained, initVars, deadline, owners, conns, prep, worker, daemon, serveFaults>>

\* The rest is closed; a daemon keeps the process without the serving role.
Outstanding == \E w \in Operations : daemon[w] = "waited"
Dispose ==
    /\ runner = "dispose"
    /\ \/ runner' = (IF Outstanding THEN "waiting" ELSE "gone") /\ UNCHANGED serveFaults
       \/ runner' = (IF Outstanding THEN "keeping" ELSE "retained") /\ ServeFault
    /\ UNCHANGED <<closing, serving, drained, initVars, deadline, owners, conns, prep, workVars>>
JoinDaemons ==
    /\ runner \in {"waiting", "keeping"} /\ ~ Outstanding
    /\ runner' = IF runner = "waiting" THEN "gone" ELSE "retained"
    /\ UNCHANGED <<closing, serving, drained, initVars, deadline, owners, conns, prep, workVars, serveFaults>>

DaemonExits(w) ==
    /\ daemon[w] \in {"unowned", "waited"}
    /\ daemon' = [daemon EXCEPT ![w] = IF worker[w] = "busy" THEN "exited" ELSE "none"]
    /\ UNCHANGED <<closing, serving, drained, initVars, deadline, owners, conns, prep, runner, worker,
                   registrationClosed, serveFaults>>
DeadlinePasses ==
    /\ ~ deadline /\ deadline' = TRUE
    /\ UNCHANGED <<closing, serving, drained, initVars, owners, conns, prep, runner, workVars, serveFaults>>

ServerStep ==
    \/ EndLoop \/ BeginInitial \/ RunInitial \/ CompleteInitial \/ RunnerSelect \/ AwaitHandoff
    \/ JoinServe \/ JoinPrepare \/ Drain \/ FinishRuntime \/ Dispose \/ JoinDaemons
ConnStep(c) ==
    \/ LoseConnection(c) \/ Admit(c) \/ ExecuteOwn(c) \/ AwaitInitial(c) \/ AwaitTimeout(c)
    \/ Work(c) \/ WorkReturns(c) \/ Deliver(c) \/ CommitStop(c) \/ Reply(c)
WorkerStep(w) == RegisterWait(w) \/ WorkerEnds(w)
ServeNext ==
    \/ ServerStep
    \/ \E w \in Operations : StartDaemon(w) \/ WorkerStep(w) \/ DaemonExits(w)
    \/ \E c \in Conns : Connect(c) \/ ConnStep(c) \/ \E kind \in Kinds \ {"none"} : ReadFrame(c, kind)
    \/ ListenerFails \/ CancelServing \/ DeadlinePasses

\* Goroutines are scheduled, a worker, whose every step is bounded by the deadline of its
\* operation, comes to an end, and time passes.  Nothing makes a daemon exit.
ServeFairness ==
    /\ WF_serveVars(ServerStep) /\ WF_serveVars(DeadlinePasses)
    /\ \A c \in Conns : WF_serveVars(ConnStep(c))
    /\ \A w \in Operations : WF_serveVars(WorkerStep(w))

ServeSpec == ServeInit /\ [][ServeNext]_serveVars /\ ServeFairness

-----------------------------------------------------------------------------
(* Properties. *)

\* Registration is closed only when nothing runs that could still start a daemon, neither a
\* callback nor a worker that outlived its own, and every daemon that was started has somebody
\* who waits for it until it ends (entry_cleanup_completion.go finishResidentRuntime,
\* owner_daemon_waits.go): a wait refused would leave it unowned.  What a worker could not
\* close is never disposed of.
NothingLeftBehind ==
    /\ registrationClosed =>
         /\ ~ serving /\ prep \notin {"begin", "running"} /\ \A c \in Conns : conns[c].pc \in {"none", "closed"}
         /\ \A w \in Operations : worker[w] # "busy"
    /\ \A w \in Operations : daemon[w] = "unowned" => worker[w] = "busy"
    /\ runner \in {"dispose", "waiting", "gone"} => \A w \in Operations : ~ LeavesBehind(w)
    /\ runner = "gone" \/ (runner = "retained" /\ registrationClosed) => ~ Outstanding

AdmissionClosed == closing
\* Given up, or kept for resources that a cleanup left pending.
RoleGivenUp == runner \in {"waiting", "keeping", "retained", "gone"}

\* Once admission is closed the owner gives up the serving role, or keeps it only for what could
\* not be closed: nobody waits for somebody who waits for it, neither the handoff, the drain nor
\* the join of the workers (owner_server_initial.go awaitInitialHandoff, owner_server.go
\* stopAcceptAndDrain, entry_cleanup_completion.go joinResidentCleanup).
RoleIsGivenUp == AdmissionClosed ~> RoleGivenUp
=============================================================================

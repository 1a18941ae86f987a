---------------------------- MODULE WorkerClient ----------------------------
(***************************************************************************)
(* The managed worker of one task: the lifetime port it drives over the      *)
(* private control channel (internal/guardian/worker_client.go), the launch  *)
(* gate between a native Start and the provider's exec (launch_gate.go), and  *)
(* the order in which execution calls them.  w.call is the call in flight,    *)
(* which holds the client's mutex; the budget stopper is a second thread.     *)
(***************************************************************************)
EXTENDS LifetimeState

WorkerAt(pc) == w.pc = pc
MutexFree == w.call = "none"

(* The immutable deadline the worker read from the registration record.       *)
WorkerDeadlineReached == rec.registration.run \in expired

(* call / controlCall.  An expired deadline or a closed channel fails before  *)
(* the frame is written; stop has its own timeout.  The execution thread      *)
(* blocks in its own calls, the stopper leaves it where it is.                *)
Call(type, seq) ==
    /\ MutexFree
    /\ w' = [w EXCEPT !.call = type,
                      !.pc = IF type = "stop" THEN @ ELSE "call",
                      !.sequence = IF type = "begin" THEN seq ELSE @,
                      !.active = IF type = "started" THEN seq ELSE @,
                      !.stopped = @ \/ type = "stop"]
    /\ req' = IF conn /\ (type = "stop" \/ ~WorkerDeadlineReached)
              THEN Append(req, [type |-> type, seq |-> seq]) ELSE req
    /\ UNCHANGED <<durable, owner, native, run, expired, g, conn, rep, rpc>>

(* The sequence a message of this type carries.                               *)
MessageSequence(type) ==
    IF type \in {"hello", "stop", "close"} THEN 0 ELSE w.sequence

-----------------------------------------------------------------------------
(* openLifetimeChild and NewWorkerClient: hello precedes every command.       *)
SendHello == WorkerAt("boot") /\ Call("hello", 0)

OpenChildFails ==
    /\ WorkerAt("boot")
    /\ w' = [w EXCEPT !.pc = "exit"]
    /\ UNCHANGED <<durable, owner, native, run, expired, g, channel, rpc>>

(* StartCommand up to the guardian's authorization.                           *)
StartCommand ==
    /\ WorkerAt("ready") /\ w.active = 0 /\ ~w.terminal
    /\ w.sequence <= MaxLaunches      \* bound: one refused ask
    /\ Call("begin", w.sequence + 1)

(* start(), outside the mutex: a process held at the launch gate, or nothing. *)
NativeStart ==
    /\ WorkerAt("start")
    /\ \/ /\ proc' = [proc EXCEPT ![w.sequence] = "gated"]
          /\ w' = [w EXCEPT !.pc = "complete"]
       \/ UNCHANGED proc /\ w' = [w EXCEPT !.pc = "startFailed"]
    /\ UNCHANGED <<durable, owner, boot, scope, run, expired, g, channel, rpc>>

(* The launch token written to the gate's pipe, or the pipe closed without it.*)
Release(s) == IF proc[s] = "gated" THEN [proc EXCEPT ![s] = "released"] ELSE proc
Abort(s) == IF proc[s] = "gated" THEN [proc EXCEPT ![s] = "aborted"] ELSE proc

(* completeStartLocked after a successful Start; a client that learned of the *)
(* termination meanwhile closes the gate and leaves the Wait to execution.    *)
CompleteStart ==
    /\ WorkerAt("complete") /\ MutexFree
    /\ IF w.terminal
       THEN /\ proc' = Abort(w.sequence)
            /\ w' = [w EXCEPT !.active = w.sequence, !.pc = "run"]
            /\ UNCHANGED <<durable, owner, boot, scope, run, expired, g, channel,
                           rpc>>
       ELSE Call("started", w.sequence)

CompleteFailedStart ==
    /\ WorkerAt("startFailed") /\ MutexFree
    /\ IF w.terminal
       THEN /\ w' = [w EXCEPT !.pc = "ready"]
            /\ UNCHANGED <<durable, owner, native, run, expired, g, channel, rpc>>
       ELSE Call("failed", w.sequence)

(* execution's one Wait has returned: the direct child is gone.               *)
CommandWaited == WorkerAt("run") /\ proc[w.active] \in {"dead", "residual"}

FinishCommand ==
    /\ CommandWaited /\ ~w.controlErr /\ ~w.terminal
    /\ Call("finish", w.sequence)

FinishCommandLocally ==
    /\ CommandWaited /\ (w.controlErr \/ w.terminal) /\ MutexFree
    /\ w' = [w EXCEPT !.active = 0, !.pc = "ready"]
    /\ UNCHANGED <<durable, owner, native, run, expired, g, channel, rpc>>

(* Terminate, from the execution budget's thread.                             *)
Terminate ==
    /\ w.pc \notin {"none", "boot", "exit", "exited"} /\ w.call # "hello"
    /\ ~w.terminal /\ ~w.stopped
    /\ Call("stop", 0)

(* CloseTask, once execution has nothing left to start.                       *)
CloseTask ==
    /\ WorkerAt("ready") /\ MutexFree
    /\ IF w.controlErr \/ w.terminal
       THEN /\ w' = [w EXCEPT !.pc = "exit"]
            /\ UNCHANGED <<durable, owner, native, run, expired, g, channel, rpc>>
       ELSE Call("close", 0)

-----------------------------------------------------------------------------
(* What each caller does with its reply.                                      *)
AcceptReply ==
    LET done == [w EXCEPT !.call = "none"] IN
    CASE w.call = "hello" -> w' = [done EXCEPT !.pc = "ready"] /\ UNCHANGED proc
      [] w.call = "begin" -> w' = [done EXCEPT !.pc = "start"] /\ UNCHANGED proc
      [] w.call = "started" ->
            /\ proc' = Release(w.active)
            /\ w' = [done EXCEPT !.pc = "run",
                                 !.controlErr = @ \/ proc[w.active] # "gated"]
      [] w.call = "failed" -> w' = [done EXCEPT !.pc = "ready"] /\ UNCHANGED proc
      [] w.call = "finish" ->
            w' = [done EXCEPT !.pc = "ready", !.active = 0] /\ UNCHANGED proc
      [] w.call = "stop" -> w' = [done EXCEPT !.terminal = TRUE] /\ UNCHANGED proc
      [] w.call = "close" ->
            w' = [done EXCEPT !.pc = "exit", !.terminal = TRUE] /\ UNCHANGED proc

(* cleanupUnacknowledgedStart: the wrapper is killed, or at least never       *)
(* released.                                                                  *)
FailCall ==
    LET done == [w EXCEPT !.call = "none"] IN
    CASE w.call \in {"hello", "close"} ->
            w' = [done EXCEPT !.pc = "exit"] /\ UNCHANGED proc
      [] w.call \in {"begin", "failed"} ->
            w' = [done EXCEPT !.pc = "ready"] /\ UNCHANGED proc
      [] w.call = "started" ->
            /\ proc' \in {Abort(w.active), [proc EXCEPT ![w.active] = "dead"]}
            /\ w' = [done EXCEPT !.pc = "run", !.controlErr = TRUE]
      [] w.call = "finish" ->
            /\ w' = [done EXCEPT !.pc = "ready", !.active = 0, !.controlErr = TRUE]
            /\ UNCHANGED proc
      [] w.call = "stop" -> w' = done /\ UNCHANGED proc

(* callContext reads one frame; a reply to an earlier, abandoned call does    *)
(* not match and fails this one.                                              *)
ReceiveReply ==
    /\ WorkerAlive /\ ~MutexFree /\ rep # <<>>
    /\ rep' = Tail(rep)
    /\ IF Head(rep) = [type |-> w.call, seq |-> MessageSequence(w.call), ok |-> TRUE]
       THEN AcceptReply ELSE FailCall
    /\ UNCHANGED <<durable, owner, boot, scope, run, expired, g, conn, req, rpc>>

(* A closed channel, or the call's own deadline.                              *)
CallFails ==
    /\ WorkerAlive /\ ~MutexFree
    /\ ~conn \/ WorkerDeadlineReached \/ w.call = "stop"
    /\ FailCall
    /\ UNCHANGED <<durable, owner, boot, scope, run, expired, g, channel, rpc>>

(* The worker process ends, in order or at any point by a crash: its end of   *)
(* the channel and every gate it holds close with it.                         *)
WorkerEnds ==
    /\ w' = [NoWorker EXCEPT !.pc = "exited"]
    /\ proc' = GatesClosed
    /\ rep' = <<>>
    /\ UNCHANGED <<durable, owner, boot, scope, run, expired, g, conn, req, rpc>>

WorkerExits == WorkerAt("exit") /\ WorkerEnds
WorkerCrash == WorkerAlive /\ WorkerEnds

WorkerStep ==
    \/ SendHello \/ OpenChildFails \/ StartCommand \/ NativeStart
    \/ CompleteStart \/ CompleteFailedStart
    \/ FinishCommand \/ FinishCommandLocally \/ Terminate \/ CloseTask
    \/ ReceiveReply \/ CallFails \/ WorkerExits
=============================================================================

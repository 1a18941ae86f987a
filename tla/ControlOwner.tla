---------------------------- MODULE ControlOwner ----------------------------
(***************************************************************************)
(* How a supervisor command outlives the process that wanted it.  A caller *)
(* that holds a lock starts a control owner process with duplicates of its *)
(* lock descriptors; the owner starts the command, reports its start and   *)
(* its end over a socket and keeps the descriptors until it exits.  The    *)
(* caller observes for a bounded time and otherwise keeps a pending handle *)
(* with its own descriptors.  A lock is free when no descriptor is left.   *)
(***************************************************************************)
EXTENDS Naturals, Sequences, FiniteSets

CONSTANTS Callers,         \* delegate processes that run one command each
          MaxOwnerFaults   \* bound: failed writes, crashes of callers and of owners

VARIABLES
    callPc,     \* [Callers -> where the caller is]
    held,       \* [Callers -> descriptors open on the lock: "caller", "owner"]
    ownerPc,    \* [Callers -> control owner process]
    command,    \* [Callers -> the command's process]
    frames,     \* [Callers -> frames the owner has written and nobody has read]
    seen,       \* [Callers -> result as observed so far]
    pending,    \* [Callers -> completed result, or NoResult]
    released,   \* callers whose client has run its cleanup
    ownerFaults

ownerVars == <<callPc, held, ownerPc, command, frames, seen, pending, released, ownerFaults>>

\* A result: was the command reported started, ended, and was there an error.
Results == [started : BOOLEAN, completed : BOOLEAN, err : {"none", "exit", "start", "wait", "protocol"}]
NoResult == [started |-> FALSE, completed |-> FALSE, err |-> "none"]
Event == [stage : {"started", "completed"}, kind : {"none", "exit", "start", "wait"}]

OwnerTypeOK ==
    /\ callPc \in [Callers -> {"idle", "locked", "consumed", "observing", "inflight", "closing",
                               "done", "dead"}]
    /\ held \in [Callers -> SUBSET {"caller", "owner"}]
    /\ ownerPc \in [Callers -> {"none", "reading", "running", "mute", "exited", "killed"}]
    /\ command \in [Callers -> {"none", "running", "succeeded", "failed", "signalled"}]
    /\ \A c \in Callers : Len(frames[c]) <= 2 /\ \A i \in 1..Len(frames[c]) : frames[c][i] \in Event
    /\ seen \in [Callers -> Results] /\ pending \in [Callers -> Results]
    /\ released \subseteq Callers
    /\ ownerFaults \in 0..MaxOwnerFaults

OwnerInit ==
    /\ callPc = [c \in Callers |-> "idle"] /\ held = [c \in Callers |-> {}]
    /\ ownerPc = [c \in Callers |-> "none"] /\ command = [c \in Callers |-> "none"]
    /\ frames = [c \in Callers |-> <<>>]
    /\ seen = [c \in Callers |-> NoResult] /\ pending = [c \in Callers |-> NoResult]
    /\ released = {} /\ ownerFaults = 0

OwnerFault == ownerFaults < MaxOwnerFaults /\ ownerFaults' = ownerFaults + 1
CallerStep(c, from, to) == callPc[c] = from /\ callPc' = [callPc EXCEPT ![c] = to]
Listening(c) == callPc[c] \in {"observing", "inflight", "closing"} /\ ~ seen[c].completed
                    /\ seen[c].err # "protocol"

-----------------------------------------------------------------------------
(* The caller. *)

AcquireLock(c) ==
    /\ \A d \in Callers : held[d] = {}
    /\ CallerStep(c, "idle", "locked")
    /\ held' = [held EXCEPT ![c] = {"caller"}]
    /\ UNCHANGED <<ownerPc, command, frames, seen, pending, released, ownerFaults>>

\* The last check and the one-use permit come just before the owner is started: a
\* refusal leaves no process behind.
ConsumePrepared(c) ==
    /\ \/ CallerStep(c, "locked", "consumed") /\ UNCHANGED pending
       \/ /\ CallerStep(c, "locked", "closing")
          /\ pending' = [pending EXCEPT ![c] = [NoResult EXCEPT !.completed = TRUE, !.err = "start"]]
    /\ UNCHANGED <<held, ownerPc, command, frames, seen, released, ownerFaults>>

\* Mutant: the owner gets no duplicates of the lock descriptors.
StartOwnerUnleased(c) ==
    /\ CallerStep(c, "consumed", "observing")
    /\ ownerPc' = [ownerPc EXCEPT ![c] = "reading"]
    /\ UNCHANGED <<held, command, frames, seen, pending, released, ownerFaults>>

\* startControlOwnedCaptured: the owner inherits duplicates of all leases.
StartOwner(c) ==
    /\ CallerStep(c, "consumed", "observing")
    /\ ownerPc' = [ownerPc EXCEPT ![c] = "reading"]
    /\ held' = [held EXCEPT ![c] = @ \cup {"owner"}]
    /\ UNCHANGED <<command, frames, seen, pending, released, ownerFaults>>

StartOwnerFails(c) ==
    /\ CallerStep(c, "consumed", "closing") /\ OwnerFault
    /\ pending' = [pending EXCEPT ![c] = [NoResult EXCEPT !.completed = TRUE, !.err = "start"]]
    /\ UNCHANGED <<held, ownerPc, command, frames, seen, released>>

\* The caller's own request frame does not arrive: it stops listening, the owner reads
\* the end of the stream and exits.
RequestLost(c) ==
    /\ callPc[c] = "observing" /\ ownerPc[c] = "reading" /\ OwnerFault
    /\ seen' = [seen EXCEPT ![c].err = "protocol"]
    /\ ownerPc' = [ownerPc EXCEPT ![c] = "exited"]
    /\ held' = [held EXCEPT ![c] = @ \ {"owner"}]
    /\ UNCHANGED <<callPc, command, frames, pending, released>>

-----------------------------------------------------------------------------
(* The control owner and the command. *)

\* The event is written within its deadline or not at all; a caller that is gone or has
\* stopped reading makes the write fail.
Written(c, stage, kind) ==
    /\ Listening(c)
    /\ frames' = [frames EXCEPT ![c] = Append(@, [stage |-> stage, kind |-> kind])]
    /\ UNCHANGED ownerFaults

Unwritten(c) == UNCHANGED frames /\ (OwnerFault \/ (~ Listening(c) /\ UNCHANGED ownerFaults))

OwnerExits(c) ==
    /\ ownerPc' = [ownerPc EXCEPT ![c] = "exited"]
    /\ held' = [held EXCEPT ![c] = @ \ {"owner"}]

\* A request that is not valid, or a command that cannot be started.
OwnerRefuses(c) ==
    /\ ownerPc[c] = "reading"
    /\ Written(c, "completed", "start") \/ Unwritten(c)
    /\ OwnerExits(c)
    /\ UNCHANGED <<callPc, command, seen, pending, released>>

\* A start that cannot be reported makes the owner mute; the command goes on.
OwnerStartsCommand(c) ==
    /\ ownerPc[c] = "reading"
    /\ command' = [command EXCEPT ![c] = "running"]
    /\ \/ Written(c, "started", "none") /\ ownerPc' = [ownerPc EXCEPT ![c] = "running"]
       \/ Unwritten(c) /\ ownerPc' = [ownerPc EXCEPT ![c] = "mute"]
    /\ UNCHANGED <<callPc, held, seen, pending, released>>

CommandEnds(c) ==
    /\ command[c] = "running"
    /\ \E how \in {"succeeded", "failed", "signalled"} : command' = [command EXCEPT ![c] = how]
    /\ UNCHANGED <<callPc, held, ownerPc, frames, seen, pending, released, ownerFaults>>

\* commandCompletionRecordKind: an exit with a positive code is told apart from every
\* other end, which only says that waiting failed.
RecordKind(how) == CASE how = "succeeded" -> "none" [] how = "failed" -> "exit" [] OTHER -> "wait"

\* Mutant: the owner leaves once the command is started.
OwnerLeavesEarly(c) ==
    /\ ownerPc[c] \in {"running", "mute"}
    /\ Unwritten(c)
    /\ OwnerExits(c)
    /\ UNCHANGED <<callPc, command, seen, pending, released>>

\* The owner exits only after the command has ended, reported or not.
OwnerCompletes(c) ==
    /\ ownerPc[c] \in {"running", "mute"} /\ command[c] \notin {"none", "running"}
    /\ IF ownerPc[c] = "running"
       THEN Written(c, "completed", RecordKind(command[c])) \/ Unwritten(c)
       ELSE UNCHANGED <<frames, ownerFaults>>
    /\ OwnerExits(c)
    /\ UNCHANGED <<callPc, command, seen, pending, released>>

-----------------------------------------------------------------------------
(* Observation. *)

\* The order of stages is checked: a second start, or a completion that disagrees with
\* what was seen of the start, is a protocol error.
ReadEvent(c) ==
    /\ Listening(c) /\ frames[c] # <<>>
    /\ LET ev == Head(frames[c])
           wrong == (ev.stage = "started" /\ seen[c].started)
                      \/ (ev.stage = "completed" /\ seen[c].started # (ev.kind # "start"))
       IN seen' = [seen EXCEPT ![c] =
            IF wrong THEN [@ EXCEPT !.err = "protocol"]
            ELSE IF ev.stage = "started" THEN [@ EXCEPT !.started = TRUE]
            ELSE [@ EXCEPT !.completed = TRUE, !.err = ev.kind]]
    /\ frames' = [frames EXCEPT ![c] = Tail(@)]
    /\ UNCHANGED <<callPc, held, ownerPc, command, pending, released, ownerFaults>>

\* The stream ends before a completion: the owner is mute, exited or was killed.
ReadEOF(c) ==
    /\ Listening(c) /\ frames[c] = <<>> /\ ownerPc[c] \in {"mute", "exited", "killed"}
    /\ seen' = [seen EXCEPT ![c].err = "protocol"]
    /\ UNCHANGED <<callPc, held, ownerPc, command, frames, pending, released, ownerFaults>>

\* completeControlOwnerPending waits for the owner process, whatever was observed.
CompletePending(c) ==
    /\ callPc[c] \in {"observing", "inflight", "closing"} /\ pending[c] = NoResult
    /\ seen[c].completed \/ seen[c].err = "protocol"
    /\ ownerPc[c] \in {"exited", "killed"}
    /\ pending' = [pending EXCEPT ![c] = [seen[c] EXCEPT !.completed = TRUE]]
    /\ UNCHANGED <<callPc, held, ownerPc, command, frames, seen, released, ownerFaults>>

\* The observation timeout: the caller gets the in-flight error and keeps its locks.
ObservationTimeout(c) ==
    /\ CallerStep(c, "observing", "inflight") /\ pending[c] = NoResult
    /\ UNCHANGED <<held, ownerPc, command, frames, seen, pending, released, ownerFaults>>

\* The client is closed: no new command begins, running ones are waited for.
CloseClient(c) ==
    /\ CallerStep(c, "observing", "closing") \/ CallerStep(c, "inflight", "closing")
    /\ callPc[c] = "observing" => pending[c] # NoResult
    /\ UNCHANGED <<held, ownerPc, command, frames, seen, pending, released, ownerFaults>>

\* Retained locks, and the client's cleanup, wait for every pending handle.
ReleaseRetainedLock(c) ==
    /\ CallerStep(c, "closing", "done") /\ pending[c] # NoResult
    /\ held' = [held EXCEPT ![c] = @ \ {"caller"}]
    /\ released' = released \cup {c}
    /\ UNCHANGED <<ownerPc, command, frames, seen, pending, ownerFaults>>

-----------------------------------------------------------------------------
(* Crashes. *)

CallerCrash(c) ==
    /\ callPc[c] \notin {"idle", "done", "dead"} /\ OwnerFault
    /\ callPc' = [callPc EXCEPT ![c] = "dead"]
    /\ held' = [held EXCEPT ![c] = @ \ {"caller"}]
    /\ frames' = [frames EXCEPT ![c] = <<>>]
    /\ UNCHANGED <<ownerPc, command, seen, pending, released>>

\* Nothing guards against the death of the owner itself: its descriptors go with it.
OwnerCrash(c) ==
    /\ ownerPc[c] \in {"reading", "running", "mute"} /\ OwnerFault
    /\ ownerPc' = [ownerPc EXCEPT ![c] = "killed"]
    /\ held' = [held EXCEPT ![c] = @ \ {"owner"}]
    /\ UNCHANGED <<callPc, command, frames, seen, pending, released>>

OwnerNext == \E c \in Callers :
    \/ AcquireLock(c) \/ ConsumePrepared(c) \/ StartOwner(c) \/ StartOwnerFails(c)
    \/ RequestLost(c) \/ OwnerRefuses(c) \/ OwnerStartsCommand(c) \/ CommandEnds(c)
    \/ OwnerCompletes(c) \/ ReadEvent(c) \/ ReadEOF(c) \/ CompletePending(c)
    \/ ObservationTimeout(c) \/ CloseClient(c) \/ ReleaseRetainedLock(c)
    \/ CallerCrash(c) \/ OwnerCrash(c)

OwnerSpec == OwnerInit /\ [][OwnerNext]_ownerVars

-----------------------------------------------------------------------------
(* Properties. *)

\* Commands of different callers exclude each other even when their callers gave up on
\* them or died: the lock stays taken until the command has ended.  Only the death of a
\* control owner can break this.
CommandsExclude == \A c, d \in Callers :
    (c # d /\ command[c] = "running" /\ ownerPc[c] # "killed") => held[d] = {}

\* What a caller is finally told is true: a completed handle means that the command has
\* ended, a reported start and exit happened, a reported failure to start means that it
\* never ran; and the client's cleanup never runs under a running command.
OutcomeIsTrue == \A c \in Callers : ownerPc[c] # "killed" =>
    /\ pending[c] # NoResult => command[c] # "running"
    /\ pending[c].err = "start" => command[c] = "none"
    /\ pending[c] # NoResult /\ pending[c].err = "none" => command[c] = "succeeded"
    /\ pending[c].err = "exit" => command[c] = "failed"
    /\ c \in released => command[c] # "running"
=============================================================================

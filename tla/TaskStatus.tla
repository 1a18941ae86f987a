----------------------------- MODULE TaskStatus -----------------------------
(***************************************************************************)
(* The status of one task.  Concurrent callers share queue observations: a *)
(* caller notes the published observation when it enters, waits for the    *)
(* observation lock, and takes over an observation that was published in   *)
(* the meantime.  A call may finish a submission that stopped after its    *)
(* row was staged, and reports admission, liveness and the offer to        *)
(* continue a task that was stopped.  Meanwhile the row moves, the         *)
(* supervisor is replaced, the runner ends and the user cancels.           *)
(***************************************************************************)
EXTENDS Naturals

CONSTANTS Callers,         \* status commands
          NoCaller,
          MaxMoves,        \* bound: moves of the row
          MaxGenerations   \* bound: supervisor generations

\* pueue's task states, as `status --json` prints them, and the absence of a row.
Raw == {"none", "Stashed", "LockedStashed", "Queued", "LockedQueued", "Running", "Paused",
        "Success", "Failed", "gone"}
NoSeen == [at |-> 0, gen |-> 0, state |-> "none"]
NoCall == [pc |-> "idle", gen |-> 0, deferred |-> FALSE, newer |-> FALSE, seen |-> NoSeen,
           since |-> 0, again |-> FALSE, offer |-> "none"]

VARIABLES
    row,          \* the task's row in the daemon
    moves,        \* number of moves of the row
    submitted,    \* submit.json exists
    receipt,      \* supervisor.ref.json exists
    generation,   \* generation of the published supervisor binding
    shared,       \* task-observation.ndjson: the published observation
    obsLock,      \* holder of task-observation.lock
    proof,        \* a terminated budget stop or a closure is recorded
    userStop,     \* a user stop is recorded
    outcome,      \* the outcome is published
    calls,        \* [Callers -> the call in progress]
    heard         \* moves of the row when the latest observation was published (history)

statusVars == <<row, moves, submitted, receipt, generation, shared, obsLock,
                proof, userStop, outcome, calls, heard>>
worldVars == <<row, moves, submitted, receipt, generation, proof, userStop,
               outcome>>

StatusInit ==
    /\ row \in {"none", "Queued"} /\ moves = 0
    /\ submitted = (row # "none") /\ receipt = (row = "Queued")
    /\ generation = 1
    /\ shared = NoSeen /\ obsLock = NoCaller
    /\ proof = FALSE /\ userStop = FALSE /\ outcome = FALSE
    /\ calls = [c \in Callers |-> NoCall]
    /\ heard = 0

At(c, pc) == calls[c].pc = pc

-----------------------------------------------------------------------------
(* What happens around the calls. *)

\* Moves of the row: its submission, another command's edit, the daemon, and cleanup.
Moves(r) ==
    CASE r = "none" -> IF submitted THEN {"Stashed"} ELSE {}
      [] r = "Stashed" -> {"LockedStashed", "gone"} \cup (IF receipt THEN {"Queued"} ELSE {})
      [] r = "LockedStashed" -> {"Stashed"}
      [] r = "Queued" -> {"LockedQueued", "Running", "gone"}
      [] r = "LockedQueued" -> {"Queued"}
      [] r = "Running" -> {"Paused", "Success", "Failed"}
      [] r = "Paused" -> {"Running"}
      [] r \in {"Success", "Failed"} -> {"gone"}
      [] OTHER -> {}

MoveRow(r) ==
    /\ r \in Moves(row) /\ moves < MaxMoves
    /\ row' = r /\ moves' = moves + 1
    /\ UNCHANGED <<submitted, receipt, generation, shared, obsLock, proof,
                   userStop, outcome, calls, heard>>

RecordSubmission ==
    /\ ~submitted /\ ~userStop
    /\ submitted' = TRUE
    /\ UNCHANGED <<row, moves, receipt, generation, shared, obsLock, proof,
                   userStop, outcome, calls, heard>>

CommitSubmission ==
    /\ row = "Stashed" /\ ~receipt
    /\ receipt' = TRUE
    /\ UNCHANGED <<row, moves, submitted, generation, shared, obsLock, proof,
                   userStop, outcome, calls, heard>>

\* A lifecycle transition holds the exclusive lock: no caller is inside the lease.
ReplaceGeneration ==
    /\ obsLock = NoCaller /\ generation < MaxGenerations
    /\ generation' = generation + 1
    /\ UNCHANGED <<row, moves, submitted, receipt, shared, obsLock, proof, userStop,
                   outcome, calls, heard>>

\* The runner holds its lease while it works.
RunnerLeaseReleased == row \notin {"Running", "Paused"}

\* Whoever sees the row ended records the termination of a stop or the closure.
RecordTermination ==
    /\ ~proof /\ row \in {"Success", "Failed"}
    /\ proof' = TRUE
    /\ UNCHANGED <<row, moves, submitted, receipt, generation, shared, obsLock,
                   userStop, outcome, calls, heard>>

\* Cancel refuses a task that is terminal; otherwise the stop request is recorded.
Cancel ==
    /\ ~outcome /\ ~userStop
    /\ userStop' = TRUE
    /\ UNCHANGED <<row, moves, submitted, receipt, generation, shared, obsLock,
                   proof, outcome, calls, heard>>

PublishOutcome ==
    /\ ~outcome /\ row \in {"Success", "Failed"}
    /\ outcome' = TRUE
    /\ UNCHANGED <<row, moves, submitted, receipt, generation, shared, obsLock,
                   proof, userStop, calls, heard>>

-----------------------------------------------------------------------------
(* A status call. *)

\* parseJobState: Locked tells nothing, Paused is running, every Done result has ended.
StateOf(r) ==
    CASE r \in {"LockedStashed", "LockedQueued"} -> "unknown"
      [] r = "Stashed" -> "stashed"
      [] r = "Queued" -> "queued"
      [] r \in {"Running", "Paused"} -> "running"
      [] r \in {"Success", "Failed"} -> "ended"
      [] OTHER -> "none"

\* A snapshot holds every row of the queue; matchingObservation finds the task's.
Snapshot == [at |-> moves, gen |-> generation, state |-> StateOf(row)]
Matched(seen) == seen.state \notin {"none"} /\ seen # NoSeen

\* A terminal task is reported from its records; one without submit.json is not admitted.
Begin(c) ==
    /\ At(c, "idle")
    /\ calls' = [calls EXCEPT ![c] =
         [NoCall EXCEPT !.pc = IF outcome THEN "offer" ELSE IF submitted THEN "prepare" ELSE "offer"]]
    /\ UNCHANGED <<worldVars, shared, obsLock, heard>>

\* ObserveTaskSupervisor: a client of the published generation, for reading only while its
\* maintenance is not complete.
PrepareClient(c) ==
    /\ At(c, "prepare")
    /\ \E deferred \in (IF generation = 1 THEN {FALSE} ELSE BOOLEAN) :
         calls' = [calls EXCEPT ![c].pc = "enter", ![c].gen = generation,
                                ![c].deferred = deferred]
    /\ UNCHANGED <<worldVars, shared, obsLock, heard>>

\* The header's flight ID is read before any lock.  The ID of every publication is new, so
\* all that matters later is whether another was published since: the call's `newer`.
ReadFlight(c) ==
    /\ At(c, "enter")
    /\ calls' = [calls EXCEPT ![c].pc = "lock", ![c].newer = FALSE, ![c].since = heard]
    /\ UNCHANGED <<worldVars, shared, obsLock, heard>>

\* What the call has learnt about the queue; it will report it.
Learnt(call, seen) ==
    [NoCall EXCEPT !.pc = "offer", !.gen = call.gen, !.seen = seen,
                   !.since = IF seen = NoSeen THEN 0 ELSE call.since]

\* The shared lease, then the observation lock, then the binding is verified again.
LockObservation(c) ==
    /\ At(c, "lock") /\ obsLock = NoCaller
    /\ IF calls[c].gen = generation
       THEN obsLock' = c /\ calls' = [calls EXCEPT ![c].pc = "locked"]
       ELSE calls' = [calls EXCEPT ![c] = Learnt(@, NoSeen)] /\ UNCHANGED obsLock
    /\ UNCHANGED <<worldVars, shared, heard>>

\* A staged row is recovered, once, unless maintenance is deferred.
Observed(call, seen) ==
    IF seen.state = "stashed" /\ ~call.deferred /\ ~call.again
    THEN [NoCall EXCEPT !.pc = "permit", !.gen = call.gen, !.seen = seen, !.since = call.since]
    ELSE Learnt(call, seen)

\* Mutant: any observation of this generation is taken over.
ReusableAlways(c) == shared.gen = calls[c].gen

\* Only an observation of this generation that was published after the call entered is
\* taken over.
Reusable(c) == shared.gen = calls[c].gen /\ calls[c].newer

ReuseObservation(c) ==
    /\ At(c, "locked") /\ Reusable(c)
    /\ calls' = [calls EXCEPT ![c] = Observed(@, shared)]
    /\ obsLock' = NoCaller
    /\ UNCHANGED <<worldVars, shared, heard>>

TakeSnapshot(c) ==
    /\ At(c, "locked") /\ ~Reusable(c)
    /\ calls' = [calls EXCEPT ![c].pc = "publish", ![c].seen = Snapshot]
    /\ UNCHANGED <<worldVars, shared, obsLock, heard>>

\* The record is replaced as a whole, under a new flight, before the caller may answer.
PublishObservation(c) ==
    /\ At(c, "publish")
    /\ shared' = calls[c].seen
    /\ calls' = [d \in Callers |->
         IF d = c THEN Observed(calls[c], calls[c].seen)
         ELSE IF calls[d].pc = "lock" THEN [calls[d] EXCEPT !.newer = TRUE]
         ELSE calls[d]]
    /\ heard' = moves
    /\ obsLock' = NoCaller
    /\ UNCHANGED worldVars

\* The queue cannot be read, or the call is killed: the locks are released.
FailObservation(c) ==
    /\ calls[c].pc \in {"lock", "locked", "publish"}
    /\ calls' = [calls EXCEPT ![c] = Learnt(@, NoSeen)]
    /\ obsLock' = IF obsLock = c THEN NoCaller ELSE obsLock
    /\ UNCHANGED <<worldVars, shared, heard>>

\* RecoverStagedSubmission: a task that was stopped may not be launched.
PermitRecovery(c) ==
    /\ At(c, "permit")
    /\ calls' = [calls EXCEPT ![c].pc = IF userStop THEN "offer" ELSE "recover"]
    /\ UNCHANGED <<worldVars, shared, obsLock, heard>>

\* Under the gate the row must still be staged: the receipt is committed and the row
\* enqueued.  When the row is not there any more, a caller that knows the receipt looks again.
RecoverStaged(c) ==
    /\ At(c, "recover")
    /\ \/ /\ row = "Stashed" /\ calls[c].gen = generation
          /\ moves < MaxMoves
          /\ receipt' = TRUE /\ row' = "Queued" /\ moves' = moves + 1
          /\ calls' = [calls EXCEPT ![c] = Learnt(@, [@.seen EXCEPT !.state = "queued"])]
       \/ /\ row # "Stashed" \/ calls[c].gen # generation
          /\ calls' = [calls EXCEPT ![c] =
               IF receipt THEN [@ EXCEPT !.pc = "enter", !.again = TRUE, !.seen = NoSeen]
               ELSE Learnt(@, NoSeen)]
          /\ UNCHANGED <<receipt, row, moves>>
    /\ UNCHANGED <<submitted, generation, proof, userStop, outcome,
                   shared, obsLock, heard>>

\* A recorded termination makes an offer, which can be resumed once the lease is released.
DeriveOffer(c) ==
    /\ At(c, "offer")
    /\ calls' = [calls EXCEPT ![c].pc = "answer",
         ![c].offer = IF ~proof THEN "none" ELSE IF RunnerLeaseReleased THEN "resumable" ELSE "blocked"]
    /\ UNCHANGED <<worldVars, shared, obsLock, heard>>

\* Mutant: an offer that was derived stands.
SuppressedNever(c) == FALSE

\* Only a derived offer reads the user's stop, which withdraws it.
Suppressed(c) == userStop

\* Mutant: an observed row is an admitted one.
AdmittedWhenMatched(c) == Matched(calls[c].seen)

\* RequireDurableSupervisorReceipt.
Admitted(c) == Matched(calls[c].seen) /\ receipt

Admission(c) ==
    IF Admitted(c) THEN "admitted"
    ELSE IF calls[c].gen = 0 /\ ~outcome THEN "not admitted" ELSE "unknown"

\* LivenessFromQueue, and UpdateStatusStops: a row that has ended is running until the
\* termination is recorded.
Liveness(c) ==
    CASE calls[c].seen.state \in {"stashed", "queued", "running"} -> "running"
      [] calls[c].seen.state = "ended" -> IF proof THEN "ended" ELSE "running"
      [] OTHER -> "undetermined"

Offer(c) == IF calls[c].offer # "none" /\ Suppressed(c) THEN "withdrawn" ELSE calls[c].offer

\* The response is built from what the call collected.
Answer(c) ==
    /\ At(c, "answer")
    /\ calls' = [calls EXCEPT ![c] = NoCall]
    /\ UNCHANGED <<worldVars, shared, obsLock, heard>>

StatusWorld ==
    \/ \E r \in Raw : MoveRow(r)
    \/ RecordSubmission \/ CommitSubmission
    \/ ReplaceGeneration
    \/ RecordTermination \/ Cancel \/ PublishOutcome

StatusCall(c) ==
    \/ Begin(c) \/ PrepareClient(c) \/ ReadFlight(c) \/ LockObservation(c)
    \/ ReuseObservation(c) \/ TakeSnapshot(c) \/ PublishObservation(c) \/ FailObservation(c)
    \/ PermitRecovery(c) \/ RecoverStaged(c) \/ DeriveOffer(c) \/ Answer(c)

StatusNext == StatusWorld \/ \E c \in Callers : StatusCall(c)
StatusSpec == StatusInit /\ [][StatusNext]_statusVars

-----------------------------------------------------------------------------
StatusTypeOK ==
    /\ row \in Raw /\ moves \in 0..MaxMoves
    /\ {submitted, receipt, proof, userStop, outcome} \subseteq BOOLEAN
    /\ generation \in 1..MaxGenerations
    /\ shared.gen \in 0..MaxGenerations
    /\ obsLock \in Callers \cup {NoCaller}

\* A call never rests on an observation older than the last one that was published before
\* it entered, although publications race with calls that enter: so calls that follow one
\* another never see the row move back.  And the observation is of the call's generation.
ObservationIsFresh ==
    \A c \in Callers : (At(c, "answer") /\ calls[c].seen # NoSeen) =>
        /\ calls[c].seen.at >= calls[c].since
        /\ calls[c].seen.gen = calls[c].gen

\* Who is told "admitted" can rely on a submission that is durably known, whoever
\* finished it.
AdmittedIsDurable ==
    \A c \in Callers : (At(c, "answer") /\ Admission(c) = "admitted") => submitted /\ receipt

\* An offer to resume is never made while the runner works, nor after a user's stop that
\* was recorded while the call was collecting its answer.
OfferIsSafe ==
    \A c \in Callers : (At(c, "answer") /\ Offer(c) = "resumable") =>
        RunnerLeaseReleased /\ ~userStop

\* "ended" is only told of a row that has ended, however old the shared observation it was
\* read from: no command can move the row back since.
EndedIsFinal ==
    \A c \in Callers : (At(c, "answer") /\ Liveness(c) = "ended") =>
        row \in {"Success", "Failed", "gone"}

StatusIsTrue == ObservationIsFresh /\ AdmittedIsDurable /\ OfferIsSafe /\ EndedIsFinal

=============================================================================

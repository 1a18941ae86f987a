----------------------------- MODULE Inspection -----------------------------
(***************************************************************************)
(* A provider inspection: before a task is admitted, a worker is queued    *)
(* once to ask the provider's program what it supports, and every caller   *)
(* that needs the answer waits for it until one fixed deadline.  Callers,  *)
(* the worker, the guardian that runs it and the recovery of an abandoned  *)
(* one share no memory; they meet in the put-once records of one operation *)
(* (internal/inspection/internal/journal, internal/taskdir) and in the     *)
(* supervisor's queue row (internal/pueue/internal/control).               *)
(***************************************************************************)
EXTENDS Naturals, Sequences, FiniteSets

CONSTANTS Callers,        \* processes that ask for the same inspection
          MaxRows,        \* bound on the queue rows that may be added
          MaxInspFaults   \* bound on crashes and lost answers

VARIABLES exitProof,      \* the request: how its binding proves the worker's exit
          late,           \* the operation's deadline has passed
          rec,            \* the operation's records
          rows,           \* the queue's rows, oldest first
          super,          \* who holds the private supervisor lease
          owner,          \* the row whose guardian holds the lifetime lease
          procs,          \* guardian and worker of each row
          callers, recoverer,
          told,           \* every verdict a caller was given
          inspFaults

inspVars == <<exitProof, late, rec, rows, super, owner, procs, callers,
              recoverer, told, inspFaults>>

Rows == 1..MaxRows
Nobody == "nobody"
ExitProofs == {"guardian-wait", "queue-exit", "historical"}

InspInit ==
    /\ exitProof = "none"
    /\ late = FALSE
    /\ rec = [submitted |-> FALSE, receipt |-> 0, start |-> FALSE,
              stop |-> FALSE, result |-> "none", completion |-> FALSE,
              exit |-> "none", fence |-> FALSE, intent |-> FALSE,
              registration |-> FALSE, worker |-> FALSE, wait |-> "none",
              termination |-> "none"]
    /\ rows = <<>> /\ super = Nobody /\ owner = 0
    /\ procs = [r \in Rows |-> [guard |-> "none", child |-> "none"]]
    /\ callers = [c \in Callers |-> [pc |-> "establish", row |-> 0]]
    /\ recoverer = "idle" /\ told = {} /\ inspFaults = 0

(***************************************************************************)
(* The records.                                                            *)
(***************************************************************************)

NoFence == ~rec.fence
NoTermination == rec.termination = "none"

(* rejectLifetimeLaunchPermissionTx: nothing may be launched for an          *)
(* operation that is fenced, whose worker is known to be gone or whose scope *)
(* is known to be empty.                                                     *)
LaunchPermission == NoFence /\ rec.wait # "absent" /\ NoTermination

(* ensureNoNativeLifetimeRecordsTx.                                          *)
NoNativeRecords ==
    /\ ~rec.intent /\ ~rec.registration /\ ~rec.worker
    /\ rec.wait = "none" /\ NoTermination

(* WithLifetimeLaunchPermissionOrReplayContext for a one-shot claim: an      *)
(* existing claim answers false, a new one needs permission and time.        *)
MayClaim(existing) == ~existing /\ LaunchPermission /\ ~late

(* rejectStoppedEligibility.                                                 *)
StoppedEligibility(reason) == reason = "eligible" /\ rec.stop

(* ReadCompletedContext.                                                     *)
Completed ==
    IF rec.result = "none" THEN "absent"
    ELSE IF StoppedEligibility(rec.result) THEN "expired"
    ELSE IF ~rec.completion THEN "absent"
    ELSE IF ~rec.start THEN "fault" ELSE rec.result

(* ResolveLifetimeClosure.                                                   *)
Closure ==
    CASE rec.wait = "absent"                  -> "recovered"
      [] rec.wait \notin {"none", "absent"} /\ ~NoTermination -> "native"
      [] OTHER                                -> "open"

(* managedWorkerFailureResult.                                               *)
ManagedFailure == IF rec.termination = "budget" THEN "expired" ELSE "unavailable"

(* readStartedManagedWorkerResultContext.                                    *)
StartedManagedResult ==
    IF rec.wait # "success" THEN ManagedFailure
    ELSE IF ~rec.worker THEN "fault"
    ELSE CASE Completed = "eligible" -> "succeeded"
           [] Completed = "expired"  -> "expired"
           [] OTHER                  -> "fault"

(* readManagedWorkerResultContext: guardian evidence alone.                  *)
ManagedWorkerResult ==
    CASE rec.fence                              -> "expired"
      [] ~rec.fence /\ rec.receipt = 0          -> "absent"
      [] OTHER ->
         CASE Closure = "recovered" -> "unavailable"
           [] Closure = "native"    -> StartedManagedResult
           [] OTHER -> IF rec.wait = "none" THEN "absent" ELSE "fault"

(* readWorkerObservationContext and readObservedWorkerCompletion: the exit   *)
(* that some caller saw in the queue.                                        *)
ObservedWorkerResult ==
    CASE rec.receipt = 0 \/ rec.exit = "none" -> "absent"
      [] rec.receipt # 0 /\ rec.exit = "failed" -> "unavailable"
      [] rec.receipt # 0 /\ rec.exit = "failed-after-completion" ->
           IF Completed = "expired" THEN "expired" ELSE "unavailable"
      [] OTHER -> CASE Completed = "eligible" -> "succeeded"
                    [] Completed = "expired"  -> "expired"
                    [] OTHER                  -> "fault"

(* ReadWorkerResultContext.                                                  *)
WorkerResult == IF exitProof = "guardian-wait" THEN ManagedWorkerResult
                ELSE ObservedWorkerResult

(* HistoricalInspectionLifetime.                                             *)
Historical == exitProof # "guardian-wait" /\ ~rec.intent /\ ~rec.registration

(* completedInspectionEvidence: an eligible result, completed in time, of a  *)
(* scope that its own guardian saw empty before the deadline.                *)
CompletedEvidence(requireTermination) ==
    IF Completed # "eligible" THEN IF Completed = "absent" THEN "pending" ELSE "expired"
    ELSE IF ~requireTermination THEN "eligible"
    ELSE IF NoTermination THEN "pending"
    ELSE IF rec.termination = "completed" THEN "eligible" ELSE "expired"

(* evaluateInspectionAdmission.                                              *)
Evaluate ==
    CASE WorkerResult = "absent"    -> "pending"
      [] WorkerResult = "succeeded" -> CompletedEvidence(~Historical)
      [] OTHER                      -> WorkerResult

(* recordControlLifetimeIntentTx and recordControlLifetimeRegistrationTx.    *)
MayRecordIntent == LaunchPermission /\ NoNativeRecords
MayRecordRegistration == LaunchPermission /\ rec.intent /\ ~rec.registration

(* RecordLifetimeWorkerContext.                                              *)
MayRecordWorker == LaunchPermission /\ rec.registration

(* recordControlLifetimeTerminationTx: written once.                         *)
WithTermination(r, cause) ==
    IF r.registration /\ r.termination = "none"
    THEN [r EXCEPT !.termination = cause] ELSE r

(* recordControlLifetimeWorkerWaitTx: written once.                          *)
WithWait(r, result) == IF r.wait = "none" THEN [r EXCEPT !.wait = result] ELSE r

-----------------------------------------------------------------------------
(***************************************************************************)
(* Callers.                                                                *)
(***************************************************************************)

At(c, pc) == callers[c].pc = pc
Goes(c, pc, row) == callers' = [callers EXCEPT ![c] = [pc |-> pc, row |-> row]]
Move(c, pc) == Goes(c, pc, callers[c].row)
Tell(c, verdict) == Goes(c, "done", 0) /\ told' = told \union {verdict}
Fault == inspFaults < MaxInspFaults /\ inspFaults' = inspFaults + 1

(* openOperationContext: the first request fixes the operation's binding and *)
(* deadline; a later caller replays the saved one.                           *)
Establish(c) ==
    /\ At(c, "establish") /\ Move(c, "open")
    /\ IF exitProof = "none" THEN exitProof' \in ExitProofs ELSE UNCHANGED exitProof
    /\ UNCHANGED <<late, rec, rows, super, owner, procs, recoverer, told,
                   inspFaults>>

(* RunInspectionContext: recorded facts first, then the deadline.            *)
Open(c) ==
    /\ At(c, "open")
    /\ IF Evaluate # "pending" THEN Tell(c, Evaluate)
       ELSE IF late THEN Tell(c, "expired")
       ELSE Move(c, "claim") /\ UNCHANGED told
    /\ UNCHANGED <<exitProof, late, rec, rows, super, owner, procs, recoverer,
                   inspFaults>>

(* ClaimSubmissionContext.  A mutant grants a second permit.                 *)
SubmitAgain(c) ==
    /\ At(c, "claim") /\ rec' = [rec EXCEPT !.submitted = TRUE]
    /\ Move(c, "check")
ClaimSubmission(c) ==
    /\ At(c, "claim")
    /\ \/ /\ MayClaim(rec.submitted)
          /\ rec' = [rec EXCEPT !.submitted = TRUE]
          /\ Move(c, "check")
       \/ rec.submitted /\ Move(c, "await") /\ UNCHANGED rec
Claim(c) ==
    /\ ClaimSubmission(c)
    /\ UNCHANGED <<exitProof, late, rows, super, owner, procs, recoverer, told,
                   inspFaults>>

(* A claim or a launch that the fence, the closed lifetime or the deadline   *)
(* refuses.                                                                  *)
Refused(c) ==
    /\ \/ At(c, "claim") /\ ~rec.submitted /\ ~MayClaim(FALSE)
       \/ At(c, "check") /\ ~LaunchPermission
    /\ Tell(c, "refused")
    /\ UNCHANGED <<exitProof, late, rec, rows, super, owner, procs, recoverer,
                   inspFaults>>

(* submitInspectionStagedLocked: the row is added stashed; the answer of the *)
(* add may be lost, whether or not the row was added.                        *)
Add(c) ==
    /\ At(c, "check") /\ LaunchPermission /\ super = Nobody
    /\ Len(rows) < MaxRows
    /\ \/ /\ rows' = Append(rows, "stashed") /\ super' = c
          /\ Goes(c, "commit", Len(rows) + 1)
          /\ UNCHANGED <<told, inspFaults>>
       \/ /\ Fault /\ Tell(c, "refused") /\ UNCHANGED super
          /\ \/ rows' = Append(rows, "stashed")
             \/ UNCHANGED rows
    /\ UNCHANGED <<exitProof, late, rec, owner, procs, recoverer>>

(* RecordReceiptContext and the launch permission checked after it.  A       *)
(* mutant lets a refused receipt go on to the enqueue.                       *)
MayCommitAnyway(row) == TRUE
MayCommit(row) ==
    IF rec.receipt # 0 THEN rec.receipt = row /\ LaunchPermission
    ELSE LaunchPermission
Commit(c) ==
    LET row == callers[c].row IN
    /\ At(c, "commit")
    /\ IF MayCommit(row)
       THEN /\ rec' = IF LaunchPermission /\ rec.receipt = 0
                      THEN [rec EXCEPT !.receipt = row] ELSE rec
            /\ Move(c, "enqueue") /\ UNCHANGED <<super, told>>
       ELSE Tell(c, "refused") /\ super' = Nobody /\ UNCHANGED rec
    /\ UNCHANGED <<exitProof, late, rows, owner, procs, recoverer, inspFaults>>

(* enqueueStaged, with an answer that may be lost either way.                *)
Enqueue(c) ==
    LET row == callers[c].row
        queued == [rows EXCEPT ![row] = IF @ = "stashed" THEN "queued" ELSE @] IN
    /\ At(c, "enqueue") /\ super' = Nobody
    /\ \/ rows' = queued /\ Goes(c, "await", 0) /\ UNCHANGED <<told, inspFaults>>
       \/ Fault /\ Tell(c, "refused") /\ rows' \in {rows, queued}
    /\ UNCHANGED <<exitProof, late, rec, owner, procs, recoverer>>

(* observeInspectionUntilTerminal: recorded facts end the wait, before the   *)
(* deadline or, once more, after it.                                         *)
Look(c) ==
    /\ At(c, "await") \/ At(c, "after")
    /\ Evaluate # "pending" /\ Tell(c, Evaluate)
    /\ UNCHANGED <<exitProof, late, rec, rows, super, owner, procs, recoverer,
                   inspFaults>>

(* awaitCompletedInspectionObservation begins, and gives up.                 *)
Expire(c) ==
    /\ late
    /\ \/ At(c, "await") /\ Move(c, "after") /\ UNCHANGED told
       \/ At(c, "after") /\ Tell(c, "expired")
    /\ UNCHANGED <<exitProof, late, rec, rows, super, owner, procs, recoverer,
                   inspFaults>>

(* RecordWorkerExitContext.                                                  *)
WorkerExit(succeeded) ==
    IF Completed = "expired" THEN "refused"
    ELSE IF succeeded THEN IF Completed = "eligible" THEN "succeeded" ELSE "refused"
    ELSE IF Completed = "absent" THEN "failed" ELSE "failed-after-completion"

(* RequireInspectionReceipt, then acceptCompletedInspectionObservation of    *)
(* an ended row; the guardian's own evidence is never replaced by it.        *)
Accept(c, row) ==
    LET succeeded == rows[row] = "succeeded"
        timely    == CompletedEvidence(TRUE)
        exit      == WorkerExit(succeeded) IN
    CASE rec.receipt # row              -> Tell(c, "fault") /\ UNCHANGED rec
      [] rec.receipt = row /\ succeeded /\ timely = "pending" ->
           UNCHANGED <<callers, told, rec>>
      [] rec.receipt = row /\ succeeded /\ timely = "expired" ->
           Tell(c, "expired") /\ UNCHANGED rec
      [] rec.receipt = row /\ (~succeeded \/ timely = "eligible") ->
           IF exitProof = "guardian-wait" THEN UNCHANGED <<callers, told, rec>>
           ELSE IF exit = "refused" THEN Tell(c, "expired") /\ UNCHANGED rec
           ELSE IF rec.exit \notin {"none", exit}
           THEN Tell(c, "fault") /\ UNCHANGED rec
           ELSE /\ rec' = [rec EXCEPT !.exit = exit]
                /\ IF succeeded THEN UNCHANGED <<callers, told>>
                   ELSE Tell(c, "unavailable")

(* matchingInspectionObservation: exactly one row carries the label.         *)
Matched == Len(rows) = 1

(* pollInspectionStatus, under the supervisor lease.  The one row that       *)
(* carries the label is found; a stashed one is recovered; after the         *)
(* deadline only a completed inspection is still looked for.                 *)
Poll(c) ==
    /\ super = Nobody /\ Evaluate = "pending" /\ Matched
    /\ \/ At(c, "await") /\ ~late
       \/ At(c, "after") /\ CompletedEvidence(TRUE) = "eligible"
    /\ CASE rows[1] = "stashed" ->
              /\ At(c, "await") /\ UNCHANGED rec
              /\ IF LaunchPermission
                 THEN Goes(c, "recover", 1) /\ UNCHANGED told
                 ELSE Tell(c, "refused")
         [] rows[1] \in {"succeeded", "failed"} -> Accept(c, 1)
         [] OTHER ->
              /\ rec.receipt # 1 /\ Tell(c, "fault") /\ UNCHANGED rec
    /\ UNCHANGED <<exitProof, late, rows, super, owner, procs, recoverer,
                   inspFaults>>

(* recoverStagedAuxiliaryObservation: the row is looked at again under the   *)
(* lease; another observer may have enqueued it meanwhile.                   *)
RecoverStaged(c) ==
    /\ At(c, "recover") /\ super = Nobody
    /\ IF rows[1] = "stashed" THEN super' = c /\ Move(c, "commit")
       ELSE Goes(c, "await", 0) /\ UNCHANGED super
    /\ UNCHANGED <<exitProof, late, rec, rows, owner, procs, recoverer, told,
                   inspFaults>>

(* A caller dies and its request is made again.                              *)
CallerCrash(c) ==
    /\ ~At(c, "establish") /\ Fault
    /\ Goes(c, "establish", 0)
    /\ super' = IF super = c THEN Nobody ELSE super
    /\ UNCHANGED <<exitProof, late, rec, rows, owner, procs, recoverer, told>>

-----------------------------------------------------------------------------
(***************************************************************************)
(* The queue, the guardian and the worker.                                 *)
(***************************************************************************)

Ended == {"succeeded", "failed"}
Finished == {"ok", "bad"}
GuardAt(r, pc) == procs[r].guard = pc
ChildAt(r, pc) == procs[r].child = pc
Guards(r, pc) == procs' = [procs EXCEPT ![r].guard = pc]
Works(r, pc) == procs' = [procs EXCEPT ![r].child = pc]
Ends(r, child) == rows' = [rows EXCEPT ![r] =
                             IF child = "ok" THEN "succeeded" ELSE "failed"]

(* The daemon starts a queued row: the guardian, or the worker of an older   *)
(* operation that has none (inspectionWorkerArguments).                      *)
StartRow(r) ==
    /\ r <= Len(rows) /\ rows[r] = "queued"
    /\ rows' = [rows EXCEPT ![r] = "running"]
    /\ IF exitProof = "historical" THEN Works(r, "resume") ELSE Guards(r, "lease")
    /\ UNCHANGED <<exitProof, late, rec, super, owner, callers, recoverer, told,
                   inspFaults>>

(* AcquireLifetimeOwner, RecordLifetimeIntent and RecordLifetimeRegistration *)
(* before anything native exists, then the worker and its record.            *)
Prepare(r) ==
    /\ \/ /\ GuardAt(r, "lease") /\ owner = 0
          /\ owner' = r /\ Guards(r, "intent") /\ UNCHANGED rec
       \/ /\ GuardAt(r, "intent") /\ MayRecordIntent
          /\ rec' = [rec EXCEPT !.intent = TRUE]
          /\ Guards(r, "register") /\ UNCHANGED owner
       \/ /\ GuardAt(r, "register") /\ MayRecordRegistration
          /\ rec' = [rec EXCEPT !.registration = TRUE]
          /\ Guards(r, "spawn") /\ UNCHANGED owner
       \/ /\ GuardAt(r, "spawn") /\ MayRecordWorker
          /\ rec' = [rec EXCEPT !.worker = TRUE] /\ UNCHANGED owner
          /\ procs' = [procs EXCEPT ![r] = [guard |-> "watch", child |-> "resume"]]
    /\ UNCHANGED <<exitProof, late, rows, super, callers, recoverer, told, inspFaults>>

(* The guardian cannot go on: it was refused, or could not start the worker. *)
GuardFails(r) ==
    /\ \/ /\ GuardAt(r, "intent") /\ ~MayRecordIntent
          /\ UNCHANGED <<rec, inspFaults>> /\ Guards(r, "gone")
          /\ owner' = 0 /\ Ends(r, "bad")
       \/ /\ GuardAt(r, "lease") /\ late
          /\ UNCHANGED <<rec, inspFaults, owner>> /\ Guards(r, "gone")
          /\ Ends(r, "bad")
       \/ /\ GuardAt(r, "spawn") /\ Fault
          /\ procs' = [procs EXCEPT ![r] = [guard |-> "closing", child |-> "none"]]
          /\ UNCHANGED <<rec, owner, rows>>
    /\ UNCHANGED <<exitProof, late, super, callers, recoverer, told>>

(* resumeSupervisedInspectionWorker or reconcileInspectionWorker.  A row is  *)
(* started only after its receipt, so the wait for it is never in vain.      *)
Resume(r) ==
    /\ ChildAt(r, "resume") /\ rec.receipt = r
    /\ Works(r, "claim")
    /\ UNCHANGED <<exitProof, late, rec, rows, super, owner, callers, recoverer,
                   told, inspFaults>>

(* ClaimStartContext.                                                        *)
ClaimStart(r) ==
    /\ ChildAt(r, "claim")
    /\ IF MayClaim(rec.start)
       THEN rec' = [rec EXCEPT !.start = TRUE] /\ Works(r, "work")
       ELSE UNCHANGED rec /\ Works(r, "bad")
    /\ UNCHANGED <<exitProof, late, rows, super, owner, callers, recoverer, told,
                   inspFaults>>

(* RunSupervised returns: the inspection's commands have ended, CloseTask    *)
(* has the guardian see the scope empty and record the termination.          *)
CloseTask(r) ==
    /\ ChildAt(r, "work")
    /\ rec' = WithTermination(rec, IF late THEN "late" ELSE "completed")
    /\ \E outcome \in {"facts", "failed"} : Works(r, outcome)
    /\ UNCHANGED <<exitProof, late, rows, super, owner, callers, recoverer, told,
                   inspFaults>>

(* stopInspectionLocked: a running row is killed, and its worker with it.    *)
KilledRow == "bad"

(* inspectionBudgetStopper: the deadline ends the inspection.  The stop is   *)
(* claimed before the guardian, or the queue, is asked to end the scope.     *)
StopBudget(r) ==
    /\ ChildAt(r, "work") /\ late /\ rec.receipt # 0
    /\ rec' = WithTermination([rec EXCEPT !.stop = TRUE], "budget")
    /\ Works(r, IF exitProof = "historical" THEN KilledRow ELSE "failed")
    /\ UNCHANGED <<exitProof, late, rows, super, owner, callers, recoverer, told,
                   inspFaults>>

(* The guardian's own deadline.                                              *)
GuardBudget(r) ==
    /\ GuardAt(r, "watch") /\ late /\ NoTermination
    /\ rec' = WithTermination(rec, "budget")
    /\ Works(r, IF ChildAt(r, "work") THEN "failed"
                ELSE IF procs[r].child \in {"resume", "claim"} THEN "bad"
                ELSE procs[r].child)
    /\ UNCHANGED <<exitProof, late, rows, super, owner, callers, recoverer, told,
                   inspFaults>>

(* runLoadedInspectionWorkerOperation: the time of completion is read, and   *)
(* an inspection that is over in time may be published as eligible.          *)
Stamp(r) ==
    /\ ChildAt(r, "facts")
    /\ Works(r, IF late THEN "failed" ELSE "stamped")
    /\ UNCHANGED <<exitProof, late, rec, rows, super, owner, callers, recoverer,
                   told, inspFaults>>

(* completePreparedContext: the result, refused after a stop or when it      *)
(* differs from the recorded one.                                            *)
PublishResult(r) ==
    LET reason == IF ChildAt(r, "stamped") THEN "eligible"
                  ELSE IF late THEN "expired" ELSE "unavailable" IN
    /\ ChildAt(r, "stamped") \/ ChildAt(r, "failed")
    /\ IF StoppedEligibility(reason) \/ rec.result \notin {"none", reason} \/ ~rec.start
       THEN UNCHANGED rec /\ Works(r, "bad")
       ELSE /\ rec' = [rec EXCEPT !.result = reason]
            /\ Works(r, IF reason = "eligible" THEN "published" ELSE "regretted")
    /\ UNCHANGED <<exitProof, late, rows, super, owner, callers, recoverer, told,
                   inspFaults>>

(* The eligible result is not published when the deadline cancels it first.  *)
Abandon(r) ==
    /\ ChildAt(r, "stamped") /\ late /\ Works(r, "bad")
    /\ UNCHANGED <<exitProof, late, rec, rows, super, owner, callers, recoverer,
                   told, inspFaults>>

(* The completion that binds the result, repaired without cancellation.      *)
PublishCompletion(r) ==
    /\ ChildAt(r, "published") \/ ChildAt(r, "regretted")
    /\ rec' = [rec EXCEPT !.completion = TRUE]
    /\ Works(r, IF ChildAt(r, "published") THEN "ok" ELSE "bad")
    /\ UNCHANGED <<exitProof, late, rows, super, owner, callers, recoverer, told,
                   inspFaults>>

(* The guardian outlives its worker: the scope's termination, unless it is   *)
(* known, then the worker's own Wait, then the lease and the queue row.      *)
Collect(r) ==
    /\ \/ /\ GuardAt(r, "watch") /\ procs[r].child \in Finished
          /\ Guards(r, "closing") /\ UNCHANGED <<rec, rows, owner>>
       \/ /\ GuardAt(r, "closing") /\ NoTermination
          /\ rec' = WithTermination(rec, "recovery")
          /\ Guards(r, "closing") /\ UNCHANGED <<rows, owner>>
       \/ /\ GuardAt(r, "closing") /\ ~NoTermination /\ rec.wait = "none"
          /\ rec' = WithWait(rec, CASE ChildAt(r, "ok")   -> "success"
                                    [] ChildAt(r, "none") -> "not-started"
                                    [] OTHER              -> "failure")
          /\ UNCHANGED <<procs, rows, owner>>
       \/ /\ GuardAt(r, "closing") /\ rec.wait # "none"
          /\ Guards(r, "gone") /\ owner' = 0 /\ Ends(r, procs[r].child)
          /\ UNCHANGED rec
       \/ /\ GuardAt(r, "none") /\ procs[r].child \in Finished
          /\ rows[r] = "running"
          /\ Ends(r, procs[r].child) /\ UNCHANGED <<rec, owner, procs>>
    /\ UNCHANGED <<exitProof, late, super, callers, recoverer, told, inspFaults>>

(* The guardian or the worker dies.  Without its guardian a worker may live  *)
(* on until recovery empties its scope.                                      *)
ProcessCrash(r) ==
    /\ Fault
    /\ \/ /\ procs[r].guard \notin {"none", "gone"}
          /\ \/ Guards(r, "gone")
             \/ procs' = [procs EXCEPT ![r] = [guard |-> "gone",
                  child |-> IF @.child \in Finished \union {"none"} THEN @.child ELSE "bad"]]
          /\ owner' = IF owner = r THEN 0 ELSE owner
          /\ Ends(r, "bad")
       \/ /\ procs[r].child \notin Finished \union {"none"}
          /\ Works(r, "bad") /\ UNCHANGED <<owner, rows>>
    /\ UNCHANGED <<exitProof, late, rec, super, callers, recoverer, told>>

-----------------------------------------------------------------------------
(***************************************************************************)
(* Recovery and time.                                                      *)
(***************************************************************************)

(* sealControlLifetimeUnlaunchedTx.  A mutant trusts what was read before    *)
(* the lease was taken.                                                      *)
SealUnchecked == rec' = [rec EXCEPT !.fence = TRUE]
Seal == rec' = IF NoNativeRecords /\ late THEN [rec EXCEPT !.fence = TRUE] ELSE rec

(* RecoverInspectionLifetime: an expired operation with nothing native is    *)
(* fenced; the rest is the guardian's evidence, completed under its lease.   *)
RecoverDecides ==
    /\ recoverer = "idle" /\ Closure = "open" /\ ~rec.fence
    /\ recoverer' = IF rec.intent \/ rec.registration THEN "reconcile"
                    ELSE IF exitProof = "guardian-wait" /\ late THEN "seal"
                    ELSE "idle"
    /\ recoverer' # "idle"
    /\ UNCHANGED <<exitProof, late, rec, rows, super, owner, procs, callers, told,
                   inspFaults>>

RecoverSeals ==
    /\ recoverer = "seal" /\ recoverer' = "idle"
    /\ IF owner = 0 THEN Seal ELSE UNCHANGED rec
    /\ UNCHANGED <<exitProof, late, rows, super, owner, procs, callers, told,
                   inspFaults>>

(* reconcileOwnedLifetime: an unregistered intent is disposed of; a          *)
(* registered scope is emptied, then its worker is known to be absent.       *)
Reconciled ==
    IF Closure # "open" THEN rec
    ELSE IF ~rec.registration THEN WithWait(rec, "absent")
    ELSE IF NoTermination THEN WithTermination(rec, "recovery")
    ELSE IF rec.worker THEN WithWait(rec, "absent") ELSE rec
RecoverReconciles ==
    /\ recoverer = "reconcile" /\ recoverer' = "idle"
    /\ IF owner = 0
       THEN /\ rec' = Reconciled
            /\ procs' = [r \in Rows |->
                 [procs[r] EXCEPT !.child =
                    IF @ \in Finished \union {"none"} THEN @ ELSE "bad"]]
       ELSE UNCHANGED <<rec, procs>>
    /\ UNCHANGED <<exitProof, late, rows, super, owner, callers, told, inspFaults>>

Deadline ==
    /\ exitProof # "none" /\ ~late /\ late' = TRUE
    /\ UNCHANGED <<exitProof, rec, rows, super, owner, procs, callers, recoverer,
                   told, inspFaults>>

InspNext ==
    \/ \E c \in Callers :
          \/ Establish(c) \/ Open(c) \/ Claim(c) \/ Refused(c) \/ Add(c) \/ Commit(c)
          \/ Enqueue(c) \/ Look(c) \/ Expire(c) \/ Poll(c) \/ RecoverStaged(c)
          \/ CallerCrash(c)
    \/ \E r \in Rows :
          \/ StartRow(r) \/ Prepare(r) \/ GuardFails(r) \/ Resume(r)
          \/ ClaimStart(r) \/ CloseTask(r) \/ StopBudget(r) \/ GuardBudget(r)
          \/ Stamp(r) \/ PublishResult(r) \/ Abandon(r) \/ PublishCompletion(r)
          \/ Collect(r) \/ ProcessCrash(r)
    \/ RecoverDecides \/ RecoverSeals \/ RecoverReconciles \/ Deadline

InspSpec == InspInit /\ [][InspNext]_inspVars

-----------------------------------------------------------------------------
InspTypeOK ==
    /\ rec.receipt \in 0..MaxRows
    /\ Len(rows) <= MaxRows
    /\ told \subseteq {"eligible", "unavailable", "expired", "refused", "fault"}

(* Facts that one caller was given are what every later reader of the same   *)
(* operation is given, whatever stops, fences, recoveries and crashes come   *)
(* after; and so is the verdict that no facts can be had.  (RunInspection,   *)
(* evaluateInspectionAdmission.)                                             *)
VerdictsStand ==
    \A v \in {"eligible", "unavailable"} : v \in told => Evaluate = v

(* One inspection is queued at most once and works at most once; it never    *)
(* works behind the fence, and the row that runs is the one on the receipt.  *)
(* (ClaimSubmission, ClaimStart, SealLifetimeUnlaunched, RecordReceipt.)     *)
WorksOnce ==
    /\ Len(rows) <= 1
    /\ \A r \in 1..Len(rows) : rows[r] # "stashed" => rec.receipt = r
    /\ rec.fence => /\ ~rec.intent /\ ~rec.start
                    /\ \A r \in Rows : procs[r].child = "none"

(* No interleaving makes the records contradict one another: a caller is     *)
(* never told that the evidence is at fault.  (ErrEvidenceFault,             *)
(* ErrIdentityMismatch.)                                                     *)
EvidenceIsSound == "fault" \notin told

InspectionIsTrue == VerdictsStand /\ WorksOnce /\ EvidenceIsSound
=============================================================================

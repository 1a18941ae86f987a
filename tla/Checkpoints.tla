---------------------------- MODULE Checkpoints ----------------------------
(***************************************************************************)
(* One checkpoint: a commit of a working directory, made by a worker and   *)
(* pinned by a ref of its own, and the attempts to remove it.  The worker  *)
(* records the commit it prepared before it publishes the ref, so a later  *)
(* removal can find whatever a worker that died left behind.  Removal      *)
(* attempts form a list that grows by compare-and-append; several commands *)
(* ask for a removal at once and may stop between any two records.         *)
(***************************************************************************)
EXTENDS Naturals, Sequences, FiniteSets

CONSTANTS Removers,     \* processes of the checkpoint command
          MaxEdits,     \* bound: edits of the working directory
          MaxAttempts   \* bound: registered removals

VARIABLES
    folder,     \* content of the working directory
    creation,   \* the worker of the checkpoint
    candidate,  \* commit that checkpoint-candidate.json names, 0 before
    snapshot,   \* commit that the ref names, 0 when there is none
    receipt,    \* checkpoint-receipt.json
    removals,   \* the registered attempts, in order, with their receipts
    removers    \* [Removers -> [at, expected]]

checkpointVars == <<folder, creation, candidate, snapshot, receipt, removals, removers>>

Resting == [at |-> "idle", expected |-> 0]
Unopened == [state |-> "none", done |-> 0, result |-> FALSE, closure |-> "none"]
Opened == [Unopened EXCEPT !.state = "opened"]
Workers == [state : {"none", "opened", "queued", "running", "ended"}, done : 0..2,
            result : BOOLEAN, closure : {"none", "native", "recovered", "unlaunched"}]
RemovalStatuses == {"none", "removed", "nothing-to-remove", "unavailable"}

CheckpointTypeOK ==
    /\ folder \in 1..(MaxEdits + 1) /\ creation \in Workers
    /\ candidate \in 0..(MaxEdits + 1) /\ snapshot \in 0..(MaxEdits + 1)
    /\ receipt \in {"none", "checkpointed", "unavailable"}
    /\ Len(removals) <= MaxAttempts
    /\ \A k \in DOMAIN removals : /\ removals[k].worker \in Workers
                                  /\ removals[k].receipt \in RemovalStatuses
    /\ removers \in [Removers -> [at : {"idle", "begun", "qualified", "register"},
                                  expected : 0..MaxAttempts]]

CheckpointInit ==
    /\ folder = 1 /\ creation = Unopened /\ candidate = 0 /\ snapshot = 0 /\ receipt = "none"
    /\ removals = <<>> /\ removers = [r \in Removers |-> Resting]

-----------------------------------------------------------------------------
(* A worker, of the creation or of a removal *)

Queued(w) == [w EXCEPT !.state = "queued"]
Launched(w) == [w EXCEPT !.state = "running"]
Sealed(w) == [w EXCEPT !.state = "ended", !.closure = "unlaunched"]
Advanced(w) == [w EXCEPT !.done = @ + 1]
Working(w, step) == w.state = "running" /\ w.done = step /\ ~ w.result

\* Stages of a worker that do not touch the repository: it is scheduled, launched or found
\* unlaunched; it records success; it is proven over, normally or by recovery.
Moves(w, last) ==
    (IF w.state = "opened" THEN {Queued(w), Sealed(w)} ELSE {})
        \cup (IF w.state = "queued" THEN {Launched(w), Sealed(w)} ELSE {})
        \cup (IF w.state = "running" /\ w.done = last THEN {[w EXCEPT !.result = TRUE]} ELSE {})
        \cup (IF w.state = "running"
              THEN {[w EXCEPT !.state = "ended", !.closure = kind] : kind \in {"native", "recovered"}}
              ELSE {})

\* classifyCheckpointCompletion: only a native closure lets the result stand.
CompletionSucceeded(w) == w.state = "ended" /\ w.result /\ w.closure = "native"

-----------------------------------------------------------------------------
(* Creation *)

\* BeginOrdinaryCheckpoint, BeginManagedCheckpoint
BeginCheckpoint ==
    /\ creation.state = "none"
    /\ creation' = Opened
    /\ UNCHANGED <<folder, candidate, snapshot, receipt, removals, removers>>

CreationMoves ==
    /\ creation' \in Moves(creation, 2)
    /\ UNCHANGED <<folder, candidate, snapshot, receipt, removals, removers>>

Edit ==
    /\ folder <= MaxEdits
    /\ folder' = folder + 1
    /\ UNCHANGED <<creation, candidate, snapshot, receipt, removals, removers>>

\* prepareCheckpoint hashes the commit without writing it, RecordCheckpointCandidate names it.
RecordCheckpointCandidate ==
    /\ Working(creation, 0)
    /\ candidate' = folder /\ creation' = Advanced(creation)
    /\ UNCHANGED <<folder, snapshot, receipt, removals, removers>>

\* PublishCheckpoint writes the recorded commit and pins it create-only.
PublishCheckpoint ==
    /\ Working(creation, 1)
    /\ snapshot' = candidate /\ creation' = Advanced(creation)
    /\ UNCHANGED <<folder, candidate, receipt, removals, removers>>

\* QualifyCheckpoint: put once, and only when the worker is proven over.
Qualifiable == creation.state = "ended"
Qualified == IF receipt # "none" THEN receipt
             ELSE IF CompletionSucceeded(creation) THEN "checkpointed" ELSE "unavailable"

\* ObserveCheckpoint and FinalizeCheckpoint of the creation
QualifyCheckpoint ==
    /\ Qualifiable /\ receipt = "none"
    /\ receipt' = Qualified
    /\ UNCHANGED <<folder, creation, candidate, snapshot, removals, removers>>

-----------------------------------------------------------------------------
(* Removal *)

\* The last attempt; where there is none another may follow, as after one that failed.
Newest == IF removals = <<>> THEN [worker |-> Sealed(Unopened), receipt |-> "unavailable"]
          ELSE removals[Len(removals)]

\* removeCheckpointRef: no candidate, nothing to do; a ref that is already gone is no error.
RemoveCheckpointRef(k) ==
    /\ Working(removals[k].worker, 0)
    /\ snapshot' = IF candidate # 0 /\ snapshot = candidate THEN 0 ELSE snapshot
    /\ removals' = [removals EXCEPT ![k].worker = Advanced(@)]
    /\ UNCHANGED <<folder, creation, candidate, receipt, removers>>

RemovalMoves(k) ==
    /\ \E moved \in Moves(removals[k].worker, 1) : removals' = [removals EXCEPT ![k].worker = moved]
    /\ UNCHANGED <<folder, creation, candidate, snapshot, receipt, removers>>

\* checkpointRemovalDisposition
Disposition(k) == IF ~ CompletionSucceeded(removals[k].worker) THEN "unavailable"
                  ELSE IF candidate # 0 THEN "removed" ELSE "nothing-to-remove"

\* qualifyCheckpointRemoval: put once, by whoever looks first.
QualifyRemoval(k) ==
    /\ removals[k].worker.state = "ended" /\ removals[k].receipt = "none"
    /\ removals' = [removals EXCEPT ![k].receipt = Disposition(k)]
    /\ UNCHANGED <<folder, creation, candidate, snapshot, receipt, removers>>

Gone(r) == removers' = [removers EXCEPT ![r] = Resting]

AskRemoval(r) ==
    /\ removers[r].at = "idle" /\ creation.state # "none"
    /\ removers' = [removers EXCEPT ![r].at = "begun"]
    /\ UNCHANGED <<folder, creation, candidate, snapshot, receipt, removals>>

\* BeginCheckpointRemoval qualifies the creation first: one that may still publish is pending.
QualifyUnproven(r) ==
    /\ removers[r].at = "begun"
    /\ receipt' = receipt
    /\ removers' = [removers EXCEPT ![r].at = "qualified"]
    /\ UNCHANGED <<folder, creation, candidate, snapshot, removals>>
QualifyFirst(r) ==
    /\ removers[r].at = "begun"
    /\ \/ /\ Qualifiable /\ receipt' = Qualified
          /\ removers' = [removers EXCEPT ![r].at = "qualified"]
       \/ ~ Qualifiable /\ Gone(r) /\ UNCHANGED receipt
    /\ UNCHANGED <<folder, creation, candidate, snapshot, removals>>

\* reconcileCheckpointRemoval: an unfinished head is pending, a finished one has its receipt,
\* and only a head that failed, or none, lets another attempt follow.
ReadHead(r) ==
    /\ removers[r].at = "qualified"
    /\ \/ /\ Newest.receipt = "unavailable"
          /\ removers' = [removers EXCEPT ![r] = [at |-> "register", expected |-> Len(removals)]]
       \/ /\ Newest.worker.state # "ended" \/ Newest.receipt \in {"removed", "nothing-to-remove"}
          /\ Gone(r)
    /\ UNCHANGED <<folder, creation, candidate, snapshot, receipt, removals>>

\* RegisterCheckpointRemoval: the loser of a race takes the winner's attempt for its own.
RegisterBlindly(r) ==
    /\ removers[r].at = "register" /\ Len(removals) < MaxAttempts
    /\ removals' = Append(removals, [worker |-> Opened, receipt |-> "none"])
    /\ Gone(r)
    /\ UNCHANGED <<folder, creation, candidate, snapshot, receipt>>
Register(r) ==
    /\ removers[r].at = "register" /\ Len(removals) < MaxAttempts
    /\ removals' = IF Len(removals) = removers[r].expected
                   THEN Append(removals, [worker |-> Opened, receipt |-> "none"]) ELSE removals
    /\ Gone(r)
    /\ UNCHANGED <<folder, creation, candidate, snapshot, receipt>>

StopRemover(r) ==
    /\ removers[r].at # "idle"
    /\ Gone(r)
    /\ UNCHANGED <<folder, creation, candidate, snapshot, receipt, removals>>

CheckpointNext ==
    \/ BeginCheckpoint \/ CreationMoves \/ Edit \/ RecordCheckpointCandidate
    \/ PublishCheckpoint \/ QualifyCheckpoint
    \/ \E k \in DOMAIN removals : RemoveCheckpointRef(k) \/ RemovalMoves(k) \/ QualifyRemoval(k)
    \/ \E r \in Removers : \/ AskRemoval(r) \/ QualifyFirst(r) \/ ReadHead(r)
                           \/ Register(r) \/ StopRemover(r)

CheckpointSpec == CheckpointInit /\ [][CheckpointNext]_checkpointVars

-----------------------------------------------------------------------------
(* Properties *)

\* describeCheckpoint
Usable == receipt = "checkpointed" /\ Len(removals) = 0

\* Two removals never work at once, and every attempt but the last is recorded as failed:
\* the history that every later command insists on reading.
RemovalsAreSerial ==
    /\ Cardinality({k \in DOMAIN removals : removals[k].worker.state = "running"}) <= 1
    /\ \A k \in 1..(Len(removals) - 1) : removals[k].receipt = "unavailable"

\* What was reported removed, or never there, is not there and never comes back.
RemovedStaysRemoved ==
    (\E k \in DOMAIN removals : removals[k].receipt \in {"removed", "nothing-to-remove"})
        => snapshot = 0 /\ creation.state = "ended"

\* A checkpoint that is described as usable is pinned to the commit that it names, and every
\* ref there is was named by a candidate before.
UsableIsPinned == /\ Usable => snapshot # 0 /\ snapshot = candidate
                  /\ snapshot # 0 => snapshot = candidate

\* A checkpoint that is reported is there and one that is reported removed is not.
CheckpointIsTrue == RemovalsAreSerial /\ RemovedStaysRemoved /\ UsableIsPinned
=============================================================================

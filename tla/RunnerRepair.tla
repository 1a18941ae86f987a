---------------------------- MODULE RunnerRepair ----------------------------
(***************************************************************************)
(* Repair of queued commands after an upgrade.  A row waits in the queue   *)
(* with the path of the runner that will execute it; a command of another  *)
(* installation rewrites the rows that have not started, so that they run  *)
(* the runner it installed, and leaves one receipt per runner.  Rows start *)
(* at any time, and the daemon hands out the ID of a removed row again.    *)
(***************************************************************************)
EXTENDS Naturals, FiniteSets

CONSTANTS Ordinary,       \* tasks with rows of their own
          Inspections,    \* inspection operations with rows of their own
          Repairers,      \* commands that prepare the supervisor
          Installed,      \* runner paths of installations
          Legacy,         \* a runner copy in the state root, of an old release
          NoTarget,
          MaxIds,         \* bound: numeric IDs
          MaxRepairFaults \* bound: abandoned repairs and lost editors

Labels == Ordinary \cup Inspections
Ids == 1..MaxIds
NoRow == [label |-> NoTarget, runs |-> NoTarget, runner |-> NoTarget, state |-> "absent"]
NoEdit == [id |-> 0, expected |-> NoRow, runner |-> NoTarget, stage |-> "none"]
NoPlan == [i \in {} |-> NoTarget]
Away == [pc |-> "idle", target |-> NoTarget, collected |-> NoPlan, pending |-> {},
         previous |-> {}, plans |-> {}, left |-> {}]

VARIABLES
    meta,        \* [Labels -> recorded runner and ownership], immutable
    submitted,   \* labels whose row was added
    queue,       \* [Ids -> row]
    authorized,  \* operations with a worker upgrade record
    migrated,    \* tasks with runner-migration.json
    receipts,    \* runners with a repair receipt for this generation
    elected,     \* holder of the transition lock
    exclusive,   \* holder of the exclusive bootstrap lock
    repairs,     \* [Repairers -> local state]
    edits,       \* [Repairers -> the edit command in its control owner]
    lost,        \* labels whose row an editor left locked (history)
    repairFaults

repairVars == <<meta, submitted, queue, authorized, migrated, receipts, elected,
                exclusive, repairs, edits, lost, repairFaults>>
records == <<authorized, migrated>>

Metas(l) ==
    [runner : Installed, ownership : {"managed", "custom"}] \cup
    (IF l \in Ordinary THEN {[runner |-> Legacy, ownership |-> "unrecorded"]} ELSE {})

RepairInit ==
    /\ meta \in {m \in [Labels -> UNION {Metas(l) : l \in Labels}] :
                    \A l \in Labels : m[l] \in Metas(l)}
    /\ submitted = {} /\ authorized = {} /\ migrated = {} /\ receipts = {}
    /\ queue = [i \in Ids |-> NoRow]
    /\ elected = NoTarget /\ exclusive = NoTarget
    /\ repairs = [p \in Repairers |-> Away]
    /\ edits = [p \in Repairers |-> NoEdit]
    /\ lost = {}
    /\ repairFaults = 0

At(p, pc) == repairs[p].pc = pc

\* runnerCommandEditableState.
Editable(row) == row.state \in {"queued", "stashed"}

\* A path in the state root belongs to an earlier release and is managed; otherwise the
\* ownership is the recorded one.
ManagedRunnerExecutable(l) == meta[l].ownership = "managed" \/ meta[l].runner = Legacy

RunnerOwnershipManaged(l) == l \in migrated \/ ManagedRunnerExecutable(l)

-----------------------------------------------------------------------------
(* The queue (external), as submissions and the daemon change it. *)

\* A retried dispatch of a managed task takes the saved runner, or the current one when
\* the saved one is a historical copy, and records the migration first.
RefreshManagedRetryRunner(l, r) ==
    /\ meta[l].runner = Legacy
    /\ r \in Installed
    /\ migrated' = migrated \cup {l}

\* Submissions and stops hold the shared bootstrap lease.
SubmitRow(l, i, r) ==
    /\ exclusive = NoTarget
    /\ l \notin submitted /\ queue[i] = NoRow
    /\ \/ r = meta[l].runner /\ UNCHANGED migrated
       \/ RefreshManagedRetryRunner(l, r)
    /\ submitted' = submitted \cup {l}
    /\ queue' = [queue EXCEPT ![i] = [label |-> l, runs |-> l, runner |-> r, state |-> "stashed"]]
    /\ UNCHANGED <<meta, authorized, receipts, elected, exclusive, repairs, edits, lost, repairFaults>>

EnqueueRow(i) ==
    /\ exclusive = NoTarget /\ queue[i].state = "stashed"
    /\ queue' = [queue EXCEPT ![i].state = "queued"]
    /\ UNCHANGED <<meta, submitted, records, receipts, elected, exclusive, repairs, edits, lost, repairFaults>>

StartRow(i) ==
    /\ queue[i].state = "queued"
    /\ queue' = [queue EXCEPT ![i].state = "running"]
    /\ UNCHANGED <<meta, submitted, records, receipts, elected, exclusive, repairs, edits, lost, repairFaults>>

\* A stop removes a row that has not started; cleanup removes one that has ended.
RemoveRow(i) ==
    /\ exclusive = NoTarget /\ queue[i].state \in {"stashed", "queued", "running"}
    /\ queue' = [queue EXCEPT ![i] = NoRow]
    /\ UNCHANGED <<meta, submitted, records, receipts, elected, exclusive, repairs, edits, lost, repairFaults>>

\* A restarted daemon gives a row that an editor left locked its earlier state.
RestartDaemon ==
    /\ \E i \in Ids : queue[i].state \in {"lockedQ", "lockedS"}
    /\ \A p \in Repairers : edits[p].stage \notin {"sent", "open"}
    /\ queue' = [i \in Ids |->
         [queue[i] EXCEPT !.state = CASE @ = "lockedQ" -> "queued"
                                      [] @ = "lockedS" -> "stashed"
                                      [] OTHER -> @]]
    /\ UNCHANGED <<meta, submitted, records, receipts, elected, exclusive, repairs, edits, lost, repairFaults>>

-----------------------------------------------------------------------------
(* EnsurePrivateQueuedRunnerRepair *)

\* Whatever happens, the transition lock is released on the way out.
Over(p) ==
    /\ repairs' = [repairs EXCEPT ![p] = Away]
    /\ elected' = NoTarget

Unexclude(p) == exclusive' = IF exclusive = p THEN NoTarget ELSE exclusive

\* PlanQueuedRunnerRepairTarget: only an installed role may be the target.
PlanTarget(p, b) ==
    /\ At(p, "idle") /\ edits[p].stage = "none"
    /\ b \in Installed \ receipts
    /\ repairs' = [repairs EXCEPT ![p] = [Away EXCEPT !.pc = "elect", !.target = b]]
    /\ UNCHANGED <<meta, submitted, queue, records, receipts, elected, exclusive, edits, lost, repairFaults>>

\* One transition owner at a time; it reads the receipt again.  The others wait for the
\* transition and look again.
Elect(p) ==
    /\ At(p, "elect") /\ elected = NoTarget
    /\ IF repairs[p].target \in receipts
       THEN repairs' = [repairs EXCEPT ![p] = Away] /\ UNCHANGED elected
       ELSE /\ elected' = p
            /\ repairs' = [repairs EXCEPT ![p].pc = "collect"]
    /\ UNCHANGED <<meta, submitted, queue, records, receipts, exclusive, edits, lost, repairFaults>>

\* prepareQueuedRunnerCommandForJob: a managed task's row, or a managed operation's row
\* whose worker upgrade is not authorized yet.
Eligible(l) ==
    IF l \in Ordinary
    THEN RunnerOwnershipManaged(l)
    ELSE meta[l].ownership = "managed" /\ l \notin authorized

\* Mutant: the durable authority for another runner is not recorded.
NothingToRecord(ls) == {}

\* Operations need a worker upgrade record, tasks without recorded ownership a migration.
ToRecord(ls) ==
    {l \in ls : l \in Inspections \/ (meta[l].ownership = "unrecorded" /\ l \notin migrated)}

CollectReplacements(p) ==
    /\ At(p, "collect")
    /\ LET found == {i \in Ids : Editable(queue[i]) /\ Eligible(queue[i].label)}
           labels == {queue[i].label : i \in found}
       IN  repairs' = [repairs EXCEPT ![p] =
             [@ EXCEPT !.pc = IF found = {} THEN "publish" ELSE "record",
                       !.collected = [i \in found |-> queue[i].label],
                       !.pending = ToRecord(labels),
                       !.previous = receipts]]
    /\ UNCHANGED <<meta, submitted, queue, records, receipts, elected, exclusive, edits, lost, repairFaults>>

\* Every upgrade is authorized, then every migration recorded, before a command changes.
RecordAuthority(p) ==
    /\ At(p, "record")
    /\ LET rest == repairs[p].pending IN
       \/ \E l \in rest \cap Inspections :
            /\ authorized' = authorized \cup {l}
            /\ repairs' = [repairs EXCEPT ![p].pending = @ \ {l}]
            /\ UNCHANGED migrated
       \/ /\ rest \cap Inspections = {}
          /\ \E l \in rest :
               /\ migrated' = migrated \cup {l}
               /\ repairs' = [repairs EXCEPT ![p].pending = @ \ {l}]
          /\ UNCHANGED authorized
       \/ /\ rest = {}
          /\ repairs' = [repairs EXCEPT ![p].pc = "current"]
          /\ UNCHANGED records
    /\ UNCHANGED <<meta, submitted, queue, receipts, elected, exclusive, edits, lost, repairFaults>>

\* The runners a row of the collection may name: the recorded one, one a receipt names,
\* or already the target.
SourceRunners(p, l) == {meta[l].runner} \cup repairs[p].previous

\* Mutant: rows that are stashed are left for later.
PlannedQueued(p) ==
    {i \in DOMAIN repairs[p].collected :
        queue[i].state = "queued" /\ queue[i].runner # repairs[p].target}

\* planQueuedRunnerCommands: the rows of the collection to be edited.
Planned(p) ==
    {i \in DOMAIN repairs[p].collected :
        Editable(queue[i]) /\ queue[i].runner # repairs[p].target}

\* Mutant: the numeric ID is taken for the row's identity.
PlanByNumber(p) == TRUE

\* Each editable row still carries the collected label and its own saved command.
PlanAccepted(p) ==
    \A i \in DOMAIN repairs[p].collected : Editable(queue[i]) =>
        /\ queue[i].label = repairs[p].collected[i]
        /\ queue[i].runs = queue[i].label
        /\ queue[i].runner \in SourceRunners(p, queue[i].label) \cup {repairs[p].target}

\* Under the shared lease: when nothing is left to edit the exclusive lock is not taken.
QueuedRunnerCommandsCurrent(p) ==
    /\ At(p, "current") /\ exclusive = NoTarget
    /\ IF ~PlanAccepted(p)
       THEN Over(p)
       ELSE /\ repairs' = [repairs EXCEPT ![p].pc = IF Planned(p) = {} THEN "publish" ELSE "plan"]
            /\ UNCHANGED elected
    /\ UNCHANGED <<meta, submitted, queue, records, receipts, exclusive, edits, lost, repairFaults>>

\* ReplaceQueuedRunnerCommands, under the exclusive bootstrap lock and on a new snapshot.
PlanReplacements(p) ==
    /\ At(p, "plan") /\ exclusive = NoTarget
    /\ IF ~PlanAccepted(p)
       THEN Over(p) /\ UNCHANGED exclusive
       ELSE IF Planned(p) = {}
       THEN repairs' = [repairs EXCEPT ![p].pc = "publish"] /\ UNCHANGED <<elected, exclusive>>
       ELSE /\ exclusive' = p
            /\ repairs' = [repairs EXCEPT ![p].pc = "apply", ![p].plans = Planned(p),
                                          ![p].left = Planned(p)]
            /\ UNCHANGED elected
    /\ UNCHANGED <<meta, submitted, queue, records, receipts, edits, lost, repairFaults>>

\* The plan names what the row ran in the snapshot and what it shall run.
ApplyPlan(p) ==
    /\ At(p, "apply") /\ repairs[p].left # {} /\ edits[p].stage = "none"
    /\ LET i == CHOOSE j \in repairs[p].left : \A k \in repairs[p].left : j <= k
           expected == [queue[i] EXCEPT !.state = "absent"]
       IN  edits' = [edits EXCEPT ![p] = [id |-> i, expected |-> expected,
                                          runner |-> repairs[p].target, stage |-> "sent"]]
    /\ UNCHANGED <<meta, submitted, queue, records, receipts, elected, exclusive, repairs, lost, repairFaults>>

\* `pueue edit` (external) locks a row that has not started and hands its command out.
OpenEdit(p) ==
    /\ edits[p].stage = "sent"
    /\ LET i == edits[p].id IN
       IF Editable(queue[i])
       THEN /\ queue' = [queue EXCEPT ![i].state = IF @ = "queued" THEN "lockedQ" ELSE "lockedS"]
            /\ edits' = [edits EXCEPT ![p].stage = "open"]
       ELSE /\ edits' = [edits EXCEPT ![p].stage = "failed"]
            /\ UNCHANGED queue
    /\ UNCHANGED <<meta, submitted, records, receipts, elected, exclusive, repairs, lost, repairFaults>>

\* The repair editor replaces the file only when it holds the expected command.
ReplaceCommand(p) ==
    /\ edits[p].stage = "open"
    /\ LET i == edits[p].id
           same == [queue[i] EXCEPT !.state = "absent"] = edits[p].expected
           unlocked == [queue[i] EXCEPT !.state = IF @ = "lockedQ" THEN "queued" ELSE "stashed"]
       IN  /\ queue' = [queue EXCEPT ![i] =
                 IF same THEN [unlocked EXCEPT !.runner = edits[p].runner,
                                               !.runs = edits[p].expected.label]
                 ELSE unlocked]
           /\ edits' = [edits EXCEPT ![p].stage = IF same THEN "done" ELSE "failed"]
    /\ UNCHANGED <<meta, submitted, records, receipts, elected, exclusive, repairs, lost, repairFaults>>

\* The editing client dies: its row stays locked.
LoseEditor(p) ==
    /\ edits[p].stage = "open" /\ repairFaults < MaxRepairFaults
    /\ edits' = [edits EXCEPT ![p].stage = "failed"]
    /\ lost' = lost \cup {queue[edits[p].id].label}
    /\ repairFaults' = repairFaults + 1
    /\ UNCHANGED <<meta, submitted, queue, records, receipts, elected, exclusive, repairs>>

\* runnerCommandPlanComplete, on another snapshot: a row that cannot be edited any more, or
\* already has its replacement, needs nothing.
PlanComplete(p, i) == ~Editable(queue[i]) \/ queue[i].runner = repairs[p].target

\* A failed edit ends the repair unless its plan is complete all the same.
EditEnded(p) ==
    /\ At(p, "apply") /\ edits[p].stage \in {"done", "failed"}
    /\ LET i == edits[p].id IN
       IF edits[p].stage = "done" \/ PlanComplete(p, i)
       THEN /\ repairs' = [repairs EXCEPT ![p].left = @ \ {i}]
            /\ UNCHANGED <<elected, exclusive>>
       ELSE Over(p) /\ Unexclude(p)
    /\ edits' = [edits EXCEPT ![p] = NoEdit]
    /\ UNCHANGED <<meta, submitted, queue, records, receipts, lost, repairFaults>>

\* The last snapshot: every planned row that can still be edited has its replacement.
VerifyPlans(p) ==
    /\ At(p, "apply") /\ repairs[p].left = {} /\ edits[p].stage = "none"
    /\ IF \A i \in repairs[p].plans : Editable(queue[i]) => queue[i].runner = repairs[p].target
       THEN repairs' = [repairs EXCEPT ![p].pc = "publish"] /\ UNCHANGED elected
       ELSE Over(p)
    /\ Unexclude(p)
    /\ UNCHANGED <<meta, submitted, queue, records, receipts, edits, lost, repairFaults>>

PublishReceipt(p) ==
    /\ At(p, "publish")
    /\ receipts' = receipts \cup {repairs[p].target}
    /\ Over(p)
    /\ UNCHANGED <<meta, submitted, queue, records, exclusive, edits, lost, repairFaults>>

\* The command is killed or its deadline passes: the kernel releases the transition lock,
\* but an edit that is running keeps the exclusive lock in its control owner.
Abandon(p) ==
    /\ repairs[p].pc \in {"record", "plan", "apply", "publish"} /\ repairFaults < MaxRepairFaults
    /\ Over(p)
    /\ IF edits[p].stage \in {"sent", "open"}
       THEN UNCHANGED <<exclusive, edits>>
       ELSE Unexclude(p) /\ edits' = [edits EXCEPT ![p] = NoEdit]
    /\ repairFaults' = repairFaults + 1
    /\ UNCHANGED <<meta, submitted, queue, records, receipts, lost>>

\* finishPrivateBootstrap: a retained lock is closed when its command is done.
FinishRetained(p) ==
    /\ At(p, "idle") /\ edits[p].stage \in {"done", "failed"}
    /\ edits' = [edits EXCEPT ![p] = NoEdit]
    /\ Unexclude(p)
    /\ UNCHANGED <<meta, submitted, queue, records, receipts, elected, repairs, lost, repairFaults>>

QueueStep ==
    \/ \E i \in Ids : EnqueueRow(i) \/ StartRow(i) \/ RemoveRow(i)
    \/ \E l \in Labels, i \in Ids, r \in Installed \cup {Legacy} : SubmitRow(l, i, r)
    \/ RestartDaemon

RepairStep(p) ==
    \/ \E b \in Installed : PlanTarget(p, b)
    \/ Elect(p) \/ CollectReplacements(p) \/ RecordAuthority(p)
    \/ QueuedRunnerCommandsCurrent(p) \/ PlanReplacements(p) \/ ApplyPlan(p)
    \/ OpenEdit(p) \/ ReplaceCommand(p) \/ LoseEditor(p) \/ EditEnded(p)
    \/ VerifyPlans(p) \/ PublishReceipt(p) \/ Abandon(p) \/ FinishRetained(p)

RepairNext == QueueStep \/ \E p \in Repairers : RepairStep(p)
RepairSpec == RepairInit /\ [][RepairNext]_repairVars

-----------------------------------------------------------------------------
RepairTypeOK ==
    /\ queue \in [Ids -> [label : Labels \cup {NoTarget}, runs : Labels \cup {NoTarget},
                          runner : Installed \cup {Legacy, NoTarget},
                          state : {"absent", "stashed", "queued", "running", "lockedQ", "lockedS"}]]
    /\ submitted \subseteq Labels /\ authorized \subseteq Inspections
    /\ migrated \subseteq Ordinary /\ receipts \subseteq Installed
    /\ elected \in Repairers \cup {NoTarget} /\ exclusive \in Repairers \cup {NoTarget}
    /\ repairFaults \in 0..MaxRepairFaults

\* An ordinary runner that is not the recorded one needs a managed task, and the migration
\* record when the task's ownership was never recorded.
OrdinaryRunnerAccepted(l) ==
    ManagedRunnerExecutable(l) /\ (meta[l].ownership = "unrecorded" => l \in migrated)

\* A worker that is not the saved one needs a managed binding and the upgrade record.
InspectionRunnerAccepted(l) == meta[l].ownership = "managed" /\ l \in authorized

\* What the runner itself checks when its row starts.
RunnerIsAccepted(row) ==
    \/ row.runner = meta[row.label].runner
    \/ row.label \in Ordinary /\ OrdinaryRunnerAccepted(row.label)
    \/ row.label \in Inspections /\ InspectionRunnerAccepted(row.label)

\* Every row that starts runs its own task, with a runner that will accept it.
StartsAreValid ==
    \A i \in Ids : queue[i].state \in {"running", "queued", "stashed"} =>
        queue[i].runs = queue[i].label /\ RunnerIsAccepted(queue[i])

\* When a repair is about to publish its receipt, no row it collected still waits with
\* another runner: unless an editor died on the row, it has started, is gone, or was
\* rewritten.  The receipt is what keeps every later command from looking again.
ReceiptIsTrue ==
    \A p \in Repairers : At(p, "publish") =>
        \A i \in DOMAIN repairs[p].collected :
            (/\ Editable(queue[i])
             /\ queue[i].label = repairs[p].collected[i]
             /\ queue[i].label \notin lost) => queue[i].runner = repairs[p].target

RepairIsSafe == StartsAreValid /\ ReceiptIsTrue

=============================================================================

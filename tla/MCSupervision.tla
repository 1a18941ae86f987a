--------------------------- MODULE MCSupervision ----------------------------
(***************************************************************************)
(* The private supervisor, the scheduler host, inspections, scopes and the *)
(* other resources of a state root, one component after the other: the     *)
(* initial state chooses the component in focus, and only that one moves.  *)
(* The components are independent, so one run checks them side by side     *)
(* without multiplying their states; they take turns in the variables      *)
(* s1, s2, ... that each substitutes for its own.                          *)
(***************************************************************************)
EXTENDS Integers, TLC

CONSTANTS
    Processes,   \* commands, callers or other processes of a component
    Objects,     \* tasks, rows or installations of a component
    Slots,       \* numeric IDs of queue rows
    Nil          \* nothing

VARIABLES
    focus,   \* the component under check
    s1, s2, s3, s4, s5, s6, s7, s8, s9, s10, s11, s12, s13, s14   \* its variables

Sub == INSTANCE Submission WITH
    Tasks <- Objects, Ids <- Slots, Procs <- Processes, MaxCrashes <- 1, MaxStops <- 1,
    MaxPasses <- 1,
    rows <- s1, callbacks <- s2, boot <- s3, ident <- s4, cmd <- s5, proc <- s6, submit <- s7,
    receipt <- s8, stops <- s9, published <- s10, tickets <- s11, events <- s12, crashes <- s13,
    passes <- s14

Maint == INSTANCE QueueMaintenance WITH
    EndedRows <- Objects, MaxRequests <- 3, MaxMaintFaults <- 2,
    wake <- s1, inbox <- s2, ended <- s3, maintainer <- s4, caller <- s5, maintFaults <- s6,
    fullStarts <- s7

Own == INSTANCE ControlOwner WITH
    Callers <- Processes, MaxOwnerFaults <- 2,
    callPc <- s1, held <- s2, ownerPc <- s3, command <- s4, frames <- s5, seen <- s6,
    pending <- s7, released <- s8, ownerFaults <- s9

Mig == INSTANCE PrivateMigration WITH
    Gens <- {"g1", "g2", "g3"}, NoGen <- "none", Historical <- {"g3"}, MaxPids <- 4,
    MaxMigrations <- 2, MaxMigFaults <- 3,
    identity <- s1, published <- s2, publishing <- s3, bootstrapPending <- s4, journal <- s5,
    history <- s6, alias <- s7, aliasFiles <- s8, daemons <- s9, pidFile <- s10, jobs <- s11,
    op <- s12, migFaults <- s13

Elect == INSTANCE OwnerElection WITH
    Producers <- Processes, Keys <- {"k1"}, MaxStartups <- 2, MaxBoots <- 2, MaxElectFaults <- 1,
    startups <- s1, staged <- s2, children <- s3, sockets <- s4, leaseBy <- s5, producers <- s6,
    stopper <- s7, bootNow <- s8, electFaults <- s9

Group == INSTANCE InspectionGroup WITH
    ExternalGens <- {"x1"}, PrivateGens <- {"p1", "p2"}, NoBinding <- Nil,
    GroupCommands <- Processes, MaxHandovers <- 2, MaxGroupFaults <- 0,
    groupRoot <- s1, dirs <- s2, chain <- s3, halfway <- s4, queues <- s5, sent <- s6,
    commands <- s7, bootLock <- s8, groupFaults <- s9

GroupFaults == INSTANCE InspectionGroup WITH
    ExternalGens <- {"x1"}, PrivateGens <- {"p1", "p2"}, NoBinding <- Nil,
    GroupCommands <- Processes, MaxHandovers <- 1, MaxGroupFaults <- 1,
    groupRoot <- s1, dirs <- s2, chain <- s3, halfway <- s4, queues <- s5, sent <- s6,
    commands <- s7, bootLock <- s8, groupFaults <- s9

Boot == INSTANCE PrivateBootstrap WITH
    Pairs <- Objects, NoPair <- Nil, BootCommands <- Processes, MaxBootFaults <- 2,
    names <- s1, stable <- s2, inherited <- s3, tooLong <- s4, installed <- s5, daemon <- s6,
    wide <- s7, cmds <- s8, bootFaults <- s9

Repair == INSTANCE RunnerRepair WITH
    Ordinary <- {"t1"}, Inspections <- {"o1"}, Repairers <- Processes, Installed <- Objects,
    Legacy <- "old", NoTarget <- Nil, MaxIds <- 1, MaxRepairFaults <- 1,
    meta <- s1, submitted <- s2, queue <- s3, authorized <- s4, migrated <- s5, receipts <- s6,
    elected <- s7, exclusive <- s8, repairs <- s9, edits <- s10, lost <- s11,
    repairFaults <- s12

RepairRows == INSTANCE RunnerRepair WITH
    Ordinary <- {"t1"}, Inspections <- {"o1"}, Repairers <- Processes, Installed <- {"a"},
    Legacy <- "old", NoTarget <- Nil, MaxIds <- 2, MaxRepairFaults <- 1,
    meta <- s1, submitted <- s2, queue <- s3, authorized <- s4, migrated <- s5, receipts <- s6,
    elected <- s7, exclusive <- s8, repairs <- s9, edits <- s10, lost <- s11,
    repairFaults <- s12

Status == INSTANCE TaskStatus WITH
    Callers <- Processes, NoCaller <- Nil, MaxMoves <- 2, MaxGenerations <- 1,
    row <- s1, moves <- s2, submitted <- s3, receipt <- s4, generation <- s5, shared <- s6,
    obsLock <- s7, proof <- s8, userStop <- s9, outcome <- s10, calls <- s11, heard <- s12

StatusGeneration == INSTANCE TaskStatus WITH
    Callers <- Processes, NoCaller <- Nil, MaxMoves <- 1, MaxGenerations <- 2,
    row <- s1, moves <- s2, submitted <- s3, receipt <- s4, generation <- s5, shared <- s6,
    obsLock <- s7, proof <- s8, userStop <- s9, outcome <- s10, calls <- s11, heard <- s12

Host == INSTANCE SchedulerHost WITH
    HostRuns <- Processes, NoRun <- Nil, MaxLaunches <- 2, MaxHostFaults <- 2,
    hLease <- s1, eLease <- s2, epochs <- s3, fences <- s4, closures <- s5, runs <- s6,
    residents <- s7, stopping <- s8, hostFaults <- s9

Insp == INSTANCE Inspection WITH
    Callers <- Processes, MaxRows <- 2, MaxInspFaults <- 2,
    exitProof <- s1, late <- s2, rec <- s3, rows <- s4, super <- s5, owner <- s6, procs <- s7,
    callers <- s8, recoverer <- s9, told <- s10, inspFaults <- s11

Res == INSTANCE ResourceAdmission WITH
    Watches <- {{"hostCPU", "hostMemory"}, {"cgroupCPU"}, {"cgroupMemory"}}, MaxTargets <- 2,
    Window <- 1, MaxResFaults <- 1,
    watched <- s1, targeted <- s2, dispatch <- s3, check <- s4, gate <- s5, present <- s6,
    runsIn <- s7, truth <- s8, resFaults <- s9

Scope == INSTANCE ProcessScope WITH
    MaxPid <- 2, MaxBirths <- 3,
    scopeKind <- s1, table <- s2, births <- s3, lastPid <- s4, bound <- s5, ledger <- s6,
    census <- s7, scopeOp <- s8, folder <- s9, verdict <- s10, strays <- s11

Cust == INSTANCE Custody WITH
    OwnerIds <- {"o1", "o2"}, Inspected <- {"o2"}, Images <- {"i1"}, Disposers <- Processes,
    NoOwner <- Nil, NoDisposer <- Nil, MaxCustodyFaults <- 0,
    closed <- s1, views <- s2, witness <- s3, linked <- s4, images <- s5, root <- s6, gate <- s7,
    work <- s8, guardians <- s9, fullWake <- s10, pass <- s11, queued <- s12,
    custodyFaults <- s13

CustTask == INSTANCE Custody WITH
    OwnerIds <- {"o1"}, Inspected <- {}, Images <- {"i1"}, Disposers <- Processes,
    NoOwner <- Nil, NoDisposer <- Nil, MaxCustodyFaults <- 1,
    closed <- s1, views <- s2, witness <- s3, linked <- s4, images <- s5, root <- s6, gate <- s7,
    work <- s8, guardians <- s9, fullWake <- s10, pass <- s11, queued <- s12,
    custodyFaults <- s13

CustInspection == INSTANCE Custody WITH
    OwnerIds <- {"o2"}, Inspected <- {"o2"}, Images <- {"i1"}, Disposers <- Processes,
    NoOwner <- Nil, NoDisposer <- Nil, MaxCustodyFaults <- 1,
    closed <- s1, views <- s2, witness <- s3, linked <- s4, images <- s5, root <- s6, gate <- s7,
    work <- s8, guardians <- s9, fullWake <- s10, pass <- s11, queued <- s12,
    custodyFaults <- s13

Rec == INSTANCE Recurrence WITH
    Last <- 7, Offsets <- {-3, 0, 2}, MinuteTicks <- 2, Horizon <- 5, Stride <- 4,
    zone <- s1, leapTail <- s2, matching <- s3, after <- s4, search <- s5, answer <- s6

-----------------------------------------------------------------------------
\* A component with k variables leaves the others at rest.
Unused(k) ==
    /\ IF k < 7 THEN s7 = 0 ELSE TRUE
    /\ IF k < 8 THEN s8 = 0 ELSE TRUE
    /\ IF k < 9 THEN s9 = 0 ELSE TRUE
    /\ IF k < 10 THEN s10 = 0 ELSE TRUE
    /\ IF k < 11 THEN s11 = 0 ELSE TRUE
    /\ IF k < 12 THEN s12 = 0 ELSE TRUE
    /\ IF k < 13 THEN s13 = 0 ELSE TRUE
    /\ IF k < 14 THEN s14 = 0 ELSE TRUE

AtRest(k) ==
    /\ UNCHANGED focus
    /\ IF k < 7 THEN UNCHANGED s7 ELSE TRUE
    /\ IF k < 8 THEN UNCHANGED s8 ELSE TRUE
    /\ IF k < 9 THEN UNCHANGED s9 ELSE TRUE
    /\ IF k < 10 THEN UNCHANGED s10 ELSE TRUE
    /\ IF k < 11 THEN UNCHANGED s11 ELSE TRUE
    /\ IF k < 12 THEN UNCHANGED s12 ELSE TRUE
    /\ IF k < 13 THEN UNCHANGED s13 ELSE TRUE
    /\ IF k < 14 THEN UNCHANGED s14 ELSE TRUE

Init ==
    \/ focus = "submission" /\ Sub!Init /\ Unused(14)
    \/ focus = "maintenance" /\ Maint!MaintInit /\ Unused(7)
    \/ focus = "owner" /\ Own!OwnerInit /\ Unused(9)
    \/ focus = "migration" /\ Mig!MigInit /\ Unused(13)
    \/ focus = "election" /\ Elect!ElectInit /\ Unused(9)
    \/ focus = "group" /\ Group!GroupInit /\ Unused(9)
    \/ focus = "groupFaults" /\ GroupFaults!GroupInit /\ Unused(9)
    \/ focus = "bootstrap" /\ Boot!BootInit /\ Unused(9)
    \/ focus = "repair" /\ Repair!RepairInit /\ Unused(12)
    \/ focus = "repairRows" /\ RepairRows!RepairInit /\ Unused(12)
    \/ focus = "status" /\ Status!StatusInit /\ Unused(12)
    \/ focus = "statusGeneration" /\ StatusGeneration!StatusInit /\ Unused(12)
    \/ focus = "host" /\ Host!HostInit /\ Unused(9)
    \/ focus = "inspection" /\ Insp!InspInit /\ Unused(11)
    \/ focus = "resource" /\ Res!ResourceInit /\ Unused(9)
    \/ focus = "scope" /\ Scope!ScopeInit /\ Unused(11)
    \/ focus = "custody" /\ Cust!CustodyInit /\ Unused(13)
    \/ focus = "custodyTask" /\ CustTask!CustodyInit /\ Unused(13)
    \/ focus = "custodyInspection" /\ CustInspection!CustodyInit /\ Unused(13)
    \/ focus = "recurrence" /\ Rec!RecurrenceInit /\ Unused(6)

Next ==
    \/ focus = "submission" /\ Sub!Next /\ AtRest(14)
    \/ focus = "maintenance" /\ Maint!MaintNext /\ AtRest(7)
    \/ focus = "owner" /\ Own!OwnerNext /\ AtRest(9)
    \/ focus = "migration" /\ Mig!MigNext /\ AtRest(13)
    \/ focus = "election" /\ Elect!ElectNext /\ AtRest(9)
    \/ focus = "group" /\ Group!GroupNext /\ AtRest(9)
    \/ focus = "groupFaults" /\ GroupFaults!GroupNext /\ AtRest(9)
    \/ focus = "bootstrap" /\ Boot!BootNext /\ AtRest(9)
    \/ focus = "repair" /\ Repair!RepairNext /\ AtRest(12)
    \/ focus = "repairRows" /\ RepairRows!RepairNext /\ AtRest(12)
    \/ focus = "status" /\ Status!StatusNext /\ AtRest(12)
    \/ focus = "statusGeneration" /\ StatusGeneration!StatusNext /\ AtRest(12)
    \/ focus = "host" /\ Host!HostNext /\ AtRest(9)
    \/ focus = "inspection" /\ Insp!InspNext /\ AtRest(11)
    \/ focus = "resource" /\ Res!ResourceNext /\ AtRest(9)
    \/ focus = "scope" /\ Scope!ScopeNext /\ AtRest(11)
    \/ focus = "custody" /\ Cust!CustodyNext /\ AtRest(13)
    \/ focus = "custodyTask" /\ CustTask!CustodyNext /\ AtRest(13)
    \/ focus = "custodyInspection" /\ CustInspection!CustodyNext /\ AtRest(13)
    \/ focus = "recurrence" /\ Rec!RecurrenceNext /\ AtRest(6)

vars == <<focus, s1, s2, s3, s4, s5, s6, s7, s8, s9, s10, s11, s12, s13, s14>>

Spec == Init /\ [][Next]_vars

\* Processes, tasks and queue IDs are interchangeable in every component.
Symmetry == Permutations(Processes) \cup Permutations(Objects) \cup Permutations(Slots)

-----------------------------------------------------------------------------
\* No command reaches a row of a task it was not meant for although IDs are reused, no task
\* becomes two rows, and no row may run that its task directory does not know (staged.go
\* SubmitStaged, mutations.go stop, private_queue_cleanup.go).
QueueIsSafe == focus = "submission" => Sub!TypeOK /\ Sub!CommandsReachTheirRow /\ Sub!OneRowPerTask /\ Sub!RunnableRowIsKnown

\* A row never leaves while it runs, and leaves only for a published outcome or a stop.
RowsLeaveForCause == [][focus = "submission" => Sub!RowLeavesForCause]_vars

\* No wake and no ended row is forgotten while requests, passes and crashes interleave, and a
\* caller that is told "complete" is served by a pass that began after its request
\* (maintenance.go, private_queue_cleanup.go).
MaintenanceIsTrue == focus = "maintenance" => Maint!MaintTypeOK /\ Maint!NoWakeLost /\ Maint!CompletionIsTrue

\* Commands of two callers exclude each other although callers give up and die, and what a
\* caller is told of its command happened (control_owner.go).
ControlIsTrue == focus = "owner" => Own!OwnerTypeOK /\ Own!CommandsExclude /\ Own!OutcomeIsTrue

\* Two generations of the daemon never run at once, a stopped predecessor does not come back,
\* and every completed generation still leads to the published one (private_migration_flow.go,
\* private_recovery_flow.go).
MigrationIsSafe == focus = "migration" => Mig!MigTypeOK /\ Mig!HandoverIsClean /\ Mig!ChainResolves

\* One owner at a time, its durable evidence never contradicts itself, and a reported stop is
\* one (producer_election.go, lease.go, owner_stop_client.go).
ElectionIsSafe == focus = "election" => Elect!ElectTypeOK /\ Elect!Ownership /\ Elect!StopReportIsTrue

\* The inspection group of a generation is created at most once, its journal never runs ahead
\* of the published generations, and "ready" is true (journal/group.go, group_migration.go,
\* inspection_group.go).
GroupIsTrue ==
    /\ focus = "group" => Group!GroupTypeOK /\ Group!GroupIsTrue
    /\ focus = "groupFaults" => GroupFaults!GroupTypeOK /\ GroupFaults!GroupIsTrue

\* Whatever a crash or power failure leaves of a bootstrap can be taken up again, the
\* configuration of a running daemon stands, and "ready" is true (private_config_store.go,
\* private_supervisor_state.go, admission_preparation.go).
BootstrapIsSafe == focus = "bootstrap" => Boot!BootTypeOK /\ Boot!BootstrapIsSafe

\* A queued row only ever starts a runner that will accept it, and the receipt of a repair is
\* true of every row it covers (runner_upgrade.go, queue_repair.go, queue_identity.go).
RepairIsSafe ==
    /\ focus = "repair" => Repair!RepairTypeOK /\ Repair!RepairIsSafe
    /\ focus = "repairRows" => RepairRows!RepairTypeOK /\ RepairRows!RepairIsSafe

\* What a status command tells is never older than the observation that was shared before it
\* began, an admission is durable, a continuation is never offered beside a live runner, and
\* "ended" is final (status_observation.go, continuation_observation.go).
StatusIsTrue ==
    /\ focus = "status" => Status!StatusTypeOK /\ Status!StatusIsTrue
    /\ focus = "statusGeneration" => StatusGeneration!StatusTypeOK /\ StatusGeneration!StatusIsTrue

\* A stopped scheduler is quiet, a fence holds against a child that starts late, and "ready" is
\* true of the run that is told so (host/lifecycle.go, host/resident.go,
\* host/stop_recovery.go).
HostIsSafe == focus = "host" => Host!HostTypeOK /\ Host!HostIsSafe

\* A verdict given once is given to every later caller, an inspection is queued and works at
\* most once and never behind its fence (journal/journal.go, inspection_worker.go,
\* staged_inspection.go).
InspectionIsTrue == focus = "inspection" => Insp!InspTypeOK /\ Insp!InspectionIsTrue

\* A task is only created in a scope whose current reading is clear and a refusal only rests on
\* proven pressure, although targets and readings change meanwhile
\* (resourceadmission/checker.go, policy.go, tasklifecycle/creation.go).
ResourceIsTrue == focus = "resource" => Res!ResourceTypeOK /\ Res!ResourceIsTrue

\* A scope that is called empty is, although it is read process by process while they fork, die
\* and are adopted, and no signal reaches a process outside it (process_group.go,
\* process_ownership.go, process_census_linux.go).
ScopeIsSafe == focus = "scope" => Scope!ScopeTypeOK /\ Scope!ScopeIsSafe

\* No view of an open lifetime and no linked image is removed, "released" is never said of a
\* pool that vanished, and no ended guardian strands custody (pool_owner.go, pool_images.go,
\* task_maintenance.go).
CustodyIsSafe ==
    /\ focus = "custody" => Cust!CustodyTypeOK /\ Cust!CustodyIsSafe
    /\ focus = "custodyTask" => CustTask!CustodyTypeOK /\ CustTask!CustodyIsSafe
    /\ focus = "custodyInspection" => CustInspection!CustodyTypeOK /\ CustInspection!CustodyIsSafe

\* The next occurrence is the first instant that is due, through skipped and repeated local
\* minutes (recurrence/next.go, fold.go).
NextIsFirst == focus = "recurrence" => Rec!RecurrenceTypeOK /\ Rec!NextIsFirst

=============================================================================

------------------------- MODULE SupervisionProofs --------------------------
(***************************************************************************)
(* What the theorems about the private supervisor's components say of the  *)
(* supervision that MCSupervision puts together.                           *)
(***************************************************************************)
EXTENDS MCSupervision, TLAPS

\* The components as their proofs know them, over the same variables; the locks of the
\* queue take no part in this supervision.
Control == INSTANCE ControlProofs WITH
    EndedRows <- Objects, MaxRequests <- 3, MaxMaintFaults <- 2,
    wake <- s1, inbox <- s2, ended <- s3, maintainer <- s4, caller <- s5, maintFaults <- s6,
    fullStarts <- s7,
    Callers <- Processes, MaxOwnerFaults <- 2,
    callPc <- s1, held <- s2, ownerPc <- s3, command <- s4, frames <- s5, seen <- s6,
    pending <- s7, released <- s8, ownerFaults <- s9,
    Clients <- Processes, MaxWrites <- 0, MaxLockFaults <- 0,
    intentFile <- s1, intent <- s2, gate <- s3, identity <- s4, lockPc <- s5, writes <- s6,
    lockFaults <- s7,
    Producers <- Processes, Keys <- {"k1"}, MaxStartups <- 2, MaxBoots <- 2, MaxElectFaults <- 1,
    startups <- s1, staged <- s2, children <- s3, sockets <- s4, leaseBy <- s5, producers <- s6,
    stopper <- s7, bootNow <- s8, electFaults <- s9

Queue == INSTANCE SubmissionProofs WITH
    Tasks <- Objects, Ids <- Slots, Procs <- Processes, MaxCrashes <- 1, MaxStops <- 1,
    MaxPasses <- 1,
    rows <- s1, callbacks <- s2, boot <- s3, ident <- s4, cmd <- s5, proc <- s6, submit <- s7,
    receipt <- s8, stops <- s9, published <- s10, tickets <- s11, events <- s12, crashes <- s13,
    passes <- s14

Keeper == INSTANCE RootProofs WITH
    HostRuns <- Processes, NoRun <- Nil, MaxLaunches <- 2, MaxHostFaults <- 2,
    hLease <- s1, eLease <- s2, epochs <- s3, fences <- s4, closures <- s5, runs <- s6,
    residents <- s7, stopping <- s8, hostFaults <- s9,
    Callers <- Processes, NoCaller <- Nil, MaxMoves <- 2, MaxGenerations <- 1,
    row <- s1, moves <- s2, submitted <- s3, receipt <- s4, generation <- s5, shared <- s6,
    obsLock <- s7, proof <- s8, userStop <- s9, outcome <- s10, calls <- s11, heard <- s12,
    OwnerIds <- {"o1", "o2"}, Inspected <- {"o2"}, Images <- {"i1"}, Disposers <- Processes,
    NoOwner <- Nil, NoDisposer <- Nil, MaxCustodyFaults <- 0,
    closed <- s1, views <- s2, witness <- s3, linked <- s4, images <- s5, root <- s6, gate <- s7,
    work <- s8, guardians <- s9, fullWake <- s10, pass <- s11, queued <- s12,
    custodyFaults <- s13

\* The same with the other bounds on the status and the custody.
TaskKeeper == INSTANCE RootProofs WITH
    HostRuns <- Processes, NoRun <- Nil, MaxLaunches <- 2, MaxHostFaults <- 2,
    hLease <- s1, eLease <- s2, epochs <- s3, fences <- s4, closures <- s5, runs <- s6,
    residents <- s7, stopping <- s8, hostFaults <- s9,
    Callers <- Processes, NoCaller <- Nil, MaxMoves <- 1, MaxGenerations <- 2,
    row <- s1, moves <- s2, submitted <- s3, receipt <- s4, generation <- s5, shared <- s6,
    obsLock <- s7, proof <- s8, userStop <- s9, outcome <- s10, calls <- s11, heard <- s12,
    OwnerIds <- {"o1"}, Inspected <- {}, Images <- {"i1"}, Disposers <- Processes,
    NoOwner <- Nil, NoDisposer <- Nil, MaxCustodyFaults <- 1,
    closed <- s1, views <- s2, witness <- s3, linked <- s4, images <- s5, root <- s6, gate <- s7,
    work <- s8, guardians <- s9, fullWake <- s10, pass <- s11, queued <- s12,
    custodyFaults <- s13

InspectionKeeper == INSTANCE RootProofs WITH
    HostRuns <- Processes, NoRun <- Nil, MaxLaunches <- 2, MaxHostFaults <- 2,
    hLease <- s1, eLease <- s2, epochs <- s3, fences <- s4, closures <- s5, runs <- s6,
    residents <- s7, stopping <- s8, hostFaults <- s9,
    Callers <- Processes, NoCaller <- Nil, MaxMoves <- 1, MaxGenerations <- 2,
    row <- s1, moves <- s2, submitted <- s3, receipt <- s4, generation <- s5, shared <- s6,
    obsLock <- s7, proof <- s8, userStop <- s9, outcome <- s10, calls <- s11, heard <- s12,
    OwnerIds <- {"o2"}, Inspected <- {"o2"}, Images <- {"i1"}, Disposers <- Processes,
    NoOwner <- Nil, NoDisposer <- Nil, MaxCustodyFaults <- 1,
    closed <- s1, views <- s2, witness <- s3, linked <- s4, images <- s5, root <- s6, gate <- s7,
    work <- s8, guardians <- s9, fullWake <- s10, pass <- s11, queued <- s12,
    custodyFaults <- s13

\* Either way the queue maintenance is the same.
LEMMA MaintenanceIsTheSame ==
  /\ Maint!MaintInit <=> Control!MaintInit
  /\ Maint!MaintNext <=> Control!MaintNext
  /\ Maint!MaintTypeOK <=> Control!MaintTypeOK
  /\ Maint!NoWakeLost <=> Control!NoWakeLost
  /\ Maint!CompletionIsTrue <=> Control!CompletionIsTrue
  <1>1. Maint!MaintInit <=> Control!MaintInit
    BY DEF Maint!MaintInit, Control!MaintInit, Maint!NoWake, Control!NoWake, Maint!NoMaintainer,
          Control!NoMaintainer, Maint!NewCaller, Control!NewCaller
  <1>2. Maint!MaintNext <=> Control!MaintNext
    BY DEF Maint!MaintNext, Control!MaintNext, Maint!RowEnds, Control!RowEnds,
          Maint!RecordTerminalEvent, Control!RecordTerminalEvent, Maint!RequestMaintenance,
          Control!RequestMaintenance, Maint!Requested, Control!Requested, Maint!RequestFails,
          Control!RequestFails, Maint!TryElection, Control!TryElection, Maint!RunElectionPass,
          Control!RunElectionPass, Maint!Needed, Control!Needed, Maint!BeginPass,
          Control!BeginPass, Maint!EndTurn, Control!EndTurn, Maint!CaptureRows,
          Control!CaptureRows, Maint!CleaningFails, Control!CleaningFails, Maint!FinishPass,
          Control!FinishPass, Maint!Finished, Control!Finished, Maint!FinishFails,
          Control!FinishFails, Maint!Unelect, Control!Unelect, Maint!RereadWake,
          Control!RereadWake, Maint!MaintCrash, Control!MaintCrash, Maint!At, Control!At,
          Maint!Move, Control!Move, Maint!Leave, Control!Leave, Maint!Fault, Control!Fault,
          Maint!NewCaller, Control!NewCaller, Maint!NoMaintainer, Control!NoMaintainer
  <1>3. /\ Maint!MaintTypeOK <=> Control!MaintTypeOK
        /\ Maint!NoWakeLost <=> Control!NoWakeLost
        /\ Maint!CompletionIsTrue <=> Control!CompletionIsTrue
    BY DEF Maint!MaintTypeOK, Control!MaintTypeOK, Maint!NoWakeLost, Control!NoWakeLost,
          Maint!CompletionIsTrue, Control!CompletionIsTrue, Maint!Counters, Control!Counters,
          Maint!Wake, Control!Wake, Maint!Caller, Control!Caller, Maint!NoMaintainer,
          Control!NoMaintainer
  <1> QED BY <1>1, <1>2, <1>3

\* And so are the commands that outlive their callers.
LEMMA OwnerIsTheSame ==
  /\ Own!OwnerInit <=> Control!OwnerInit
  /\ Own!OwnerNext <=> Control!OwnerNext
  /\ Own!OwnerTypeOK <=> Control!OwnerTypeOK
  /\ Own!CommandsExclude <=> Control!CommandsExclude
  /\ Own!OutcomeIsTrue <=> Control!OutcomeIsTrue
  <1>1. Own!OwnerInit <=> Control!OwnerInit
    BY DEF Own!OwnerInit, Control!OwnerInit, Own!NoResult, Control!NoResult
  <1>2. Own!OwnerNext <=> Control!OwnerNext
    BY DEF Own!OwnerNext, Control!OwnerNext, Own!AcquireLock, Control!AcquireLock,
          Own!ConsumePrepared, Control!ConsumePrepared, Own!StartOwner, Control!StartOwner,
          Own!StartOwnerFails, Control!StartOwnerFails, Own!RequestLost, Control!RequestLost,
          Own!OwnerRefuses, Control!OwnerRefuses, Own!OwnerStartsCommand,
          Control!OwnerStartsCommand, Own!CommandEnds, Control!CommandEnds, Own!OwnerCompletes,
          Control!OwnerCompletes, Own!ReadEvent, Control!ReadEvent, Own!ReadEOF,
          Control!ReadEOF, Own!CompletePending, Control!CompletePending, Own!ObservationTimeout,
          Control!ObservationTimeout, Own!CloseClient, Control!CloseClient,
          Own!ReleaseRetainedLock, Control!ReleaseRetainedLock, Own!CallerCrash,
          Control!CallerCrash, Own!OwnerCrash, Control!OwnerCrash, Own!OwnerFault,
          Control!OwnerFault, Own!CallerStep, Control!CallerStep, Own!Listening,
          Control!Listening, Own!Written, Control!Written, Own!Unwritten, Control!Unwritten,
          Own!OwnerExits, Control!OwnerExits, Own!RecordKind, Control!RecordKind, Own!NoResult,
          Control!NoResult
  <1>3. /\ Own!OwnerTypeOK <=> Control!OwnerTypeOK
        /\ Own!CommandsExclude <=> Control!CommandsExclude
        /\ Own!OutcomeIsTrue <=> Control!OutcomeIsTrue
    BY DEF Own!OwnerTypeOK, Control!OwnerTypeOK, Own!CommandsExclude, Control!CommandsExclude,
          Own!OutcomeIsTrue, Control!OutcomeIsTrue, Own!Results, Control!Results, Own!Event,
          Control!Event, Own!NoResult, Control!NoResult
  <1> QED BY <1>1, <1>2, <1>3

\* So is the election of the owner.
LEMMA ElectionIsTheSame ==
  /\ Elect!ElectInit <=> Control!ElectInit
  /\ Elect!ElectNext <=> Control!ElectNext
  /\ Elect!ElectTypeOK <=> Control!ElectTypeOK
  /\ Elect!Ownership <=> Control!Ownership
  /\ Elect!StopReportIsTrue <=> Control!StopReportIsTrue
  <1>1. Elect!ElectInit <=> Control!ElectInit
    BY DEF Elect!ElectInit, Control!ElectInit, Elect!IdleProducer, Control!IdleProducer,
          Elect!IdleStopper, Control!IdleStopper
  <1>2. Elect!ElectNext <=> Control!ElectNext
    BY DEF Elect!ElectNext, Control!ElectNext, Elect!Establish, Control!Establish, Elect!JoinBusy,
          Control!JoinBusy, Elect!Elect, Control!Elect, Elect!Stage, Control!Stage, Elect!Refuse,
          Control!Refuse, Elect!Accept, Control!Accept, Elect!StartChild, Control!StartChild,
          Elect!Release, Control!Release, Elect!Observe, Control!Observe, Elect!StopObserving,
          Control!StopObserving, Elect!ProducerDies, Control!ProducerDies, Elect!Starts,
          Control!Starts, Elect!Assume, Control!Assume, Elect!Bind, Control!Bind, Elect!Publish,
          Control!Publish, Elect!Fail, Control!Fail, Elect!CloseFailed, Control!CloseFailed,
          Elect!GuardDaemonStart, Control!GuardDaemonStart, Elect!DaemonEnds, Control!DaemonEnds,
          Elect!EndServing, Control!EndServing, Elect!FinishRuntime, Control!FinishRuntime,
          Elect!FenceServing, Control!FenceServing, Elect!ReleaseServing, Control!ReleaseServing,
          Elect!ResidentLeaves, Control!ResidentLeaves, Elect!ChildDies, Control!ChildDies,
          Elect!Expire, Control!Expire, Elect!ClockSetBack, Control!ClockSetBack, Elect!Locate,
          Control!Locate, Elect!Contact, Control!Contact, Elect!ObserveClosure,
          Control!ObserveClosure, Elect!ProbeClosure, Control!ProbeClosure, Elect!GiveUpStop,
          Control!GiveUpStop, Elect!Reboot, Control!Reboot, Elect!ProducerOf, Control!ProducerOf,
          Elect!Advance, Control!Advance, Elect!Joinable, Control!Joinable, Elect!Latest,
          Control!Latest, Elect!Give, Control!Give, Elect!MaySucceed, Control!MaySucceed,
          Elect!Settles, Control!Settles, Elect!Observed, Control!Observed, Elect!MayJoin,
          Control!MayJoin, Elect!DropLease, Control!DropLease, Elect!ElectFault, Control!ElectFault,
          Elect!ChildStep, Control!ChildStep, Elect!ChildOf, Control!ChildOf, Elect!ObservePending,
          Control!ObservePending, Elect!MayAssume, Control!MayAssume, Elect!Current,
          Control!Current, Elect!Resident, Control!Resident, Elect!Present, Control!Present,
          Elect!IdleStopper, Control!IdleStopper, Elect!Released, Control!Released, Elect!SameBoot,
          Control!SameBoot, Elect!Probe, Control!Probe, Elect!IdleProducer, Control!IdleProducer,
          Elect!SettledHistory, Control!SettledHistory, Elect!Reobserved, Control!Reobserved,
          Elect!Pending, Control!Pending, Elect!Reasons, Control!Reasons
  <1>3. /\ Elect!ElectTypeOK <=> Control!ElectTypeOK
        /\ Elect!Ownership <=> Control!Ownership
        /\ Elect!StopReportIsTrue <=> Control!StopReportIsTrue
    BY DEF Elect!ElectTypeOK, Control!ElectTypeOK, Elect!Ownership, Control!Ownership,
          Elect!StopReportIsTrue, Control!StopReportIsTrue, Elect!Latest, Control!Latest,
          Elect!Starts, Control!Starts, Elect!Reasons, Control!Reasons, Elect!ChildPcs,
          Control!ChildPcs, Elect!ChildOf, Control!ChildOf, Elect!ProducerOf, Control!ProducerOf,
          Elect!Probe, Control!Probe, Elect!ProducerPcs, Control!ProducerPcs, Elect!SoleOwner,
          Control!SoleOwner, Elect!EvidenceStands, Control!EvidenceStands, Elect!Owning,
          Control!Owning, Elect!Present, Control!Present, Elect!Current, Control!Current,
          Elect!Reobserved, Control!Reobserved, Elect!SameBoot, Control!SameBoot
  <1> QED BY <1>1, <1>2, <1>3

\* And the queue.
LEMMA QueueIsTheSame ==
  /\ Sub!Init <=> Queue!Init
  /\ Sub!Next <=> Queue!Next
  /\ Sub!TypeOK <=> Queue!TypeOK
  /\ Sub!CommandsReachTheirRow <=> Queue!CommandsReachTheirRow
  /\ Sub!OneRowPerTask <=> Queue!OneRowPerTask
  /\ Sub!RunnableRowIsKnown <=> Queue!RunnableRowIsKnown
  /\ Sub!RowLeavesForCause <=> Queue!RowLeavesForCause
  <1>1. Sub!Init <=> Queue!Init
    BY DEF Sub!Init, Queue!Init, Sub!QueueInit, Queue!QueueInit, Sub!Idle, Queue!Idle, Sub!NoId,
          Queue!NoId, Sub!NoRow, Queue!NoRow, Sub!NoCommand, Queue!NoCommand
  <1>2. Sub!Next <=> Queue!Next
    BY DEF Sub!Next, Queue!Next, Sub!Operate, Queue!Operate, Sub!Daemon, Queue!Daemon,
          Sub!BeginCleanup, Queue!BeginCleanup, Sub!CommandPending, Queue!CommandPending, Sub!Crash,
          Queue!Crash, Sub!PrepareSubmission, Queue!PrepareSubmission, Sub!ReconcileSubmitted,
          Queue!ReconcileSubmitted, Sub!PrepareStop, Queue!PrepareStop, Sub!Publish, Queue!Publish,
          Sub!RowStep, Queue!RowStep, Sub!TerminalEvent, Queue!TerminalEvent,
          Sub!RequireTaskLaunchPermission, Queue!RequireTaskLaunchPermission, Sub!SubmitStaged,
          Queue!SubmitStaged, Sub!StagedAdded, Queue!StagedAdded, Sub!CommitReceipt,
          Queue!CommitReceipt, Sub!RegisterTerminalEvent, Queue!RegisterTerminalEvent,
          Sub!EnqueueStaged, Queue!EnqueueStaged, Sub!CommandConcludes, Queue!CommandConcludes,
          Sub!RecoverStaged, Queue!RecoverStaged, Sub!StopLocked, Queue!StopLocked,
          Sub!CapturePrivateCleanup, Queue!CapturePrivateCleanup, Sub!RemoveCaptured,
          Queue!RemoveCaptured, Sub!RowsRemoved, Queue!RowsRemoved, Sub!ClearTerminalEvents,
          Queue!ClearTerminalEvents, Sub!ClearStaleEvents, Queue!ClearStaleEvents,
          Sub!ReleaseRetained, Queue!ReleaseRetained, Sub!ExecuteAdd, Queue!ExecuteAdd,
          Sub!ExecuteOnIds, Queue!ExecuteOnIds, Sub!CommandFails, Queue!CommandFails, Sub!taskVars,
          Queue!taskVars, Sub!eventVars, Queue!eventVars, Sub!At, Queue!At, Sub!Idle, Queue!Idle,
          Sub!Grants, Queue!Grants, Sub!Running, Queue!Running, Sub!Goto, Queue!Goto, Sub!queueVars,
          Queue!queueVars, Sub!Finish, Queue!Finish, Sub!LaunchPermitted, Queue!LaunchPermitted,
          Sub!Matches, Queue!Matches, Sub!NoId, Queue!NoId, Sub!DaemonStart, Queue!DaemonStart,
          Sub!DaemonEnd, Queue!DaemonEnd, Sub!Ticketed, Queue!Ticketed, Sub!Take, Queue!Take,
          Sub!Start, Queue!Start, Sub!NoCommand, Queue!NoCommand, Sub!WriteTicket,
          Queue!WriteTicket, Sub!StopAction, Queue!StopAction, Sub!CleanupLease, Queue!CleanupLease,
          Sub!EventRows, Queue!EventRows, Sub!Candidates, Queue!Candidates, Sub!Authorized,
          Queue!Authorized, Sub!StillCaptured, Queue!StillCaptured, Sub!BetweenPhases,
          Queue!BetweenPhases, Sub!NoRow, Queue!NoRow, Sub!Accepts, Queue!Accepts, Sub!After,
          Queue!After, Sub!Release, Queue!Release, Sub!Inbox, Queue!Inbox, Sub!Target, Queue!Target,
          Sub!EndedTaskPublished, Queue!EndedTaskPublished
  <1>3. /\ Sub!TypeOK <=> Queue!TypeOK
        /\ Sub!CommandsReachTheirRow <=> Queue!CommandsReachTheirRow
        /\ Sub!OneRowPerTask <=> Queue!OneRowPerTask
        /\ Sub!RunnableRowIsKnown <=> Queue!RunnableRowIsKnown
        /\ Sub!RowLeavesForCause <=> Queue!RowLeavesForCause
    BY DEF Sub!TypeOK, Queue!TypeOK, Sub!CommandsReachTheirRow, Queue!CommandsReachTheirRow,
          Sub!OneRowPerTask, Queue!OneRowPerTask, Sub!RunnableRowIsKnown, Queue!RunnableRowIsKnown,
          Sub!RowLeavesForCause, Queue!RowLeavesForCause, Sub!QueueTypeOK, Queue!QueueTypeOK,
          Sub!Local, Queue!Local, Sub!NoId, Queue!NoId, Sub!Running, Queue!Running, Sub!NoRow,
          Queue!NoRow, Sub!Row, Queue!Row, Sub!Modes, Queue!Modes, Sub!Command, Queue!Command,
          Sub!NoCommand, Queue!NoCommand, Sub!PCs, Queue!PCs, Sub!Target, Queue!Target
  <1> QED BY <1>1, <1>2, <1>3

\* The maintenance keeps its promise whatever else the supervisor does: for any set of
\* rows MaintenanceIsTrue is an invariant of the supervision.
THEOREM MaintenanceSoundness ==
  ASSUME Maint!NoMaintainer \notin Objects
  PROVE  Spec => []MaintenanceIsTrue
  <1> DEFINE Inv == focus = "maintenance" => Control!MaintInv
  <1>1. Control!NoMaintainer \notin Objects /\ 3 \in Nat /\ 2 \in Nat
    BY DEF Maint!NoMaintainer, Control!NoMaintainer
  <1>2. /\ Control!MaintInit => Control!MaintInv
        /\ Control!MaintInv /\ [Control!MaintNext]_Control!maintVars => Control!MaintInv'
        /\ Control!MaintInv => Control!MaintTypeOK /\ Control!NoWakeLost /\ Control!CompletionIsTrue
    BY <1>1, Control!MaintInductive, Control!MaintSound
  <1>3. Init => Inv
    BY <1>2, MaintenanceIsTheSame DEF Init
  <1>4. Inv /\ [Next]_vars => Inv'
    <2> SUFFICES ASSUME Inv, [Next]_vars, (focus = "maintenance")' PROVE Control!MaintInv'
      OBVIOUS
    <2>1. focus = "maintenance" /\ (Maint!MaintNext \/ UNCHANGED vars)
      BY DEF Next, AtRest, vars
    <2>2. [Control!MaintNext]_Control!maintVars
      BY <2>1, MaintenanceIsTheSame DEF vars, Control!maintVars
    <2> QED BY <1>2, <2>1, <2>2
  <1>5. Inv => MaintenanceIsTrue
    BY <1>2, MaintenanceIsTheSame DEF MaintenanceIsTrue
  <1> QED BY <1>3, <1>4, <1>5, PTL DEF Spec

\* Commands of two callers exclude each other and what a caller is told happened, for any
\* set of processes: ControlIsTrue is an invariant of the supervision.
THEOREM ControlSoundness ==
  Spec => []ControlIsTrue
  <1> DEFINE Inv == focus = "owner" => Control!OwnerInv
  <1>1. /\ Control!OwnerInit => Control!OwnerInv
        /\ Control!OwnerInv /\ [Control!OwnerNext]_Control!ownerVars => Control!OwnerInv'
        /\ Control!OwnerInv => /\ Control!OwnerTypeOK
                               /\ Control!CommandsExclude
                               /\ Control!OutcomeIsTrue
    BY Control!OwnerInductive, Control!OwnerSound
  <1>2. Init => Inv
    BY <1>1, OwnerIsTheSame DEF Init
  <1>3. Inv /\ [Next]_vars => Inv'
    <2> SUFFICES ASSUME Inv, [Next]_vars, (focus = "owner")' PROVE Control!OwnerInv'
      OBVIOUS
    <2>1. focus = "owner" /\ (Own!OwnerNext \/ UNCHANGED vars)
      BY DEF Next, AtRest, vars
    <2>2. [Control!OwnerNext]_Control!ownerVars
      BY <2>1, OwnerIsTheSame DEF vars, Control!ownerVars
    <2> QED BY <1>1, <2>1, <2>2
  <1>4. Inv => ControlIsTrue
    BY <1>1, OwnerIsTheSame DEF ControlIsTrue
  <1> QED BY <1>2, <1>3, <1>4, PTL DEF Spec

\* There is one owner of a state root at a time, its journal never contradicts itself and a
\* reported stop is one, for any set of producers: ElectionIsSafe is an invariant of the
\* supervision.
THEOREM ElectionSoundness ==
  Spec => []ElectionIsSafe
  <1> DEFINE Inv == focus = "election" => Control!ElectInv
  <1>1. /\ Control!ElectInit => Control!ElectInv
        /\ Control!ElectInv /\ [Control!ElectNext]_Control!electVars => Control!ElectInv'
        /\ Control!ElectInv => /\ Control!ElectTypeOK
                             /\ Control!Ownership
                             /\ Control!StopReportIsTrue
    BY Control!ElectInductive
  <1>2. Init => Inv
    BY <1>1, ElectionIsTheSame DEF Init
  <1>3. Inv /\ [Next]_vars => Inv'
    <2> SUFFICES ASSUME Inv, [Next]_vars, (focus = "election")' PROVE Control!ElectInv'
      OBVIOUS
    <2>1. focus = "election" /\ (Elect!ElectNext \/ UNCHANGED vars)
      BY DEF Next, AtRest, vars
    <2>2. [Control!ElectNext]_Control!electVars
      BY <2>1, ElectionIsTheSame DEF vars, Control!electVars
    <2> QED BY <1>1, <2>1, <2>2
  <1>4. Inv => ElectionIsSafe
    BY <1>1, ElectionIsTheSame DEF ElectionIsSafe
  <1> QED BY <1>2, <1>3, <1>4, PTL DEF Spec

\* The host of the scheduler is the same.
LEMMA HostIsTheSame ==
  /\ Host!HostInit <=> Keeper!HostInit
  /\ Host!HostNext <=> Keeper!HostNext
  /\ Host!HostTypeOK <=> Keeper!HostTypeOK
  /\ Host!HostIsSafe <=> Keeper!HostIsSafe
  <1>1. Host!HostInit <=> Keeper!HostInit
    BY DEF Host!HostInit, Keeper!HostInit, Host!FreeE, Keeper!FreeE, Host!NewRun, Keeper!NewRun,
          Host!NoResident, Keeper!NoResident, Host!NoStop, Keeper!NoStop, Host!E, Keeper!E,
          Host!NoFence, Keeper!NoFence
  <1>2. Host!HostNext <=> Keeper!HostNext
    BY DEF Host!HostNext, Keeper!HostNext, Host!E, Keeper!E, Host!HostStep, Keeper!HostStep,
          Host!ResidentStep, Keeper!ResidentStep, Host!StopCommand, Keeper!StopCommand, Host!Serve,
          Keeper!Serve, Host!LeaseBusy, Keeper!LeaseBusy, Host!Foreground, Keeper!Foreground,
          Host!ForegroundEnds, Keeper!ForegroundEnds, Host!Finish, Keeper!Finish, Host!Launch,
          Keeper!Launch, Host!ChildEvent, Keeper!ChildEvent, Host!ChildWaited, Keeper!ChildWaited,
          Host!ReadinessExpires, Keeper!ReadinessExpires, Host!Signalled, Keeper!Signalled,
          Host!JoinChild, Keeper!JoinChild, Host!CloseEpoch, Keeper!CloseEpoch, Host!HostEnds,
          Keeper!HostEnds, Host!RunDies, Keeper!RunDies, Host!TakeExecution, Keeper!TakeExecution,
          Host!ConfirmHost, Keeper!ConfirmHost, Host!AwaitConfirmation, Keeper!AwaitConfirmation,
          Host!RuntimeEnds, Keeper!RuntimeEnds, Host!ChildDies, Keeper!ChildDies, Host!ReadLatest,
          Keeper!ReadLatest, Host!AskStop, Keeper!AskStop, Host!AskLost, Keeper!AskLost,
          Host!NoFenceFound, Keeper!NoFenceFound, Host!FenceClosed, Keeper!FenceClosed,
          Host!StopTimesOut, Keeper!StopTimesOut, Host!FinishStop, Keeper!FinishStop, Host!NoFail,
          Keeper!NoFail, Host!NoFence, Keeper!NoFence, Host!NewRun, Keeper!NewRun, Host!Fail,
          Keeper!Fail, Host!FreeE, Keeper!FreeE, Host!NoResident, Keeper!NoResident, Host!Serving,
          Keeper!Serving, Host!Degraded, Keeper!Degraded, Host!Scheduled, Keeper!Scheduled,
          Host!PermanentFault, Keeper!PermanentFault, Host!Exited, Keeper!Exited, Host!Looping,
          Keeper!Looping, Host!PublishStop, Keeper!PublishStop, Host!ChildAlive, Keeper!ChildAlive,
          Host!MayClose, Keeper!MayClose, Host!Alive, Keeper!Alive, Host!ExitWith, Keeper!ExitWith,
          Host!EndOfInput, Keeper!EndOfInput, Host!StopStep, Keeper!StopStep, Host!TerminalFrames,
          Keeper!TerminalFrames, Host!FenceStop, Keeper!FenceStop, Host!Intent, Keeper!Intent,
          Host!Ended, Keeper!Ended
  <1>3. /\ Host!HostTypeOK <=> Keeper!HostTypeOK
        /\ Host!HostIsSafe <=> Keeper!HostIsSafe
    BY DEF Host!HostTypeOK, Keeper!HostTypeOK, Host!HostIsSafe, Keeper!HostIsSafe,
          Host!StoppedIsQuiet, Keeper!StoppedIsQuiet, Host!FenceHolds, Keeper!FenceHolds,
          Host!LastWordCounts, Keeper!LastWordCounts, Host!ReadyIsTrue, Keeper!ReadyIsTrue,
          Host!Alive, Keeper!Alive, Host!ChildAlive, Keeper!ChildAlive, Host!NoFence,
          Keeper!NoFence, Host!Serving, Keeper!Serving, Host!E, Keeper!E
  <1> QED BY <1>1, <1>2, <1>3

\* What the supervision says of the queue comes from one invariant.
LEMMA QueueIsKept ==
  ASSUME "none" \notin Slots, "none" \notin Objects
  PROVE  /\ Init => (focus = "submission" => Queue!SubInv)
         /\ (focus = "submission" => Queue!SubInv) /\ [Next]_vars =>
              /\ (focus = "submission" => Queue!SubInv)'
              /\ focus = "submission" => Sub!RowLeavesForCause
         /\ (focus = "submission" => Queue!SubInv) => QueueIsSafe
  <1>1. /\ Queue!Init => Queue!SubInv
        /\ Queue!SubInv /\ [Queue!Next]_Queue!vars => Queue!SubInv'
        /\ Queue!SubInv => /\ Queue!TypeOK /\ Queue!CommandsReachTheirRow
                           /\ Queue!OneRowPerTask /\ Queue!RunnableRowIsKnown
        /\ Queue!SubInv /\ [Queue!Next]_Queue!vars => Queue!RowLeavesForCause
    BY Queue!SubmissionInductive
  <1>2. Init => (focus = "submission" => Queue!SubInv)
    BY <1>1, QueueIsTheSame DEF Init
  <1>3. ASSUME [Next]_vars, focus' = "submission" \/ focus = "submission"
        PROVE  focus = "submission" /\ focus' = "submission" /\ [Queue!Next]_Queue!vars
    <2>1. focus = "submission" /\ focus' = "submission" /\ (Sub!Next \/ UNCHANGED vars)
      BY <1>3 DEF Next, AtRest, vars
    <2> QED BY <2>1, QueueIsTheSame DEF vars, Queue!vars, Queue!queueVars, Queue!taskVars,
         Queue!eventVars
  <1>4. (focus = "submission" => Queue!SubInv) /\ [Next]_vars =>
              /\ (focus = "submission" => Queue!SubInv)'
              /\ focus = "submission" => Sub!RowLeavesForCause
    BY <1>1, <1>3, QueueIsTheSame
  <1>5. (focus = "submission" => Queue!SubInv) => QueueIsSafe
    BY <1>1, QueueIsTheSame DEF QueueIsSafe
  <1> QED BY <1>2, <1>4, <1>5

\* Commands reach the rows they were meant for, a task has one row and its directory knows the
\* one that may run, for any set of processes, tasks and IDs: QueueIsSafe is an invariant of
\* the supervision.
THEOREM QueueSoundness ==
  ASSUME "none" \notin Slots, "none" \notin Objects
  PROVE  Spec => []QueueIsSafe
  <1> DEFINE Inv == focus = "submission" => Queue!SubInv
  <1>1. Init => Inv
    BY QueueIsKept
  <1>2. Inv /\ [Next]_vars => Inv'
    BY QueueIsKept
  <1>3. Inv => QueueIsSafe
    BY QueueIsKept
  <1> QED BY <1>1, <1>2, <1>3, PTL DEF Spec

\* A row leaves the queue for a cause: RowsLeaveForCause holds of the supervision.
THEOREM QueueRemovals ==
  ASSUME "none" \notin Slots, "none" \notin Objects
  PROVE  Spec => RowsLeaveForCause
  <1> DEFINE Inv == focus = "submission" => Queue!SubInv
  <1>1. Init => Inv
    BY QueueIsKept
  <1>2. Inv /\ [Next]_vars => Inv'
    BY QueueIsKept
  <1>3. Inv /\ [Next]_vars => [focus = "submission" => Sub!RowLeavesForCause]_vars
    BY QueueIsKept
  <1> QED BY <1>1, <1>2, <1>3, PTL DEF Spec, RowsLeaveForCause

\* A stop of the scheduler's host that was reported is one, a stop record ends the launches,
\* a child's last word counts and a ready host has the one runtime, for any set of process
\* runs: HostIsSafe is an invariant of the supervision.
THEOREM HostSoundness ==
  Spec => []HostIsSafe
  <1> DEFINE Inv == focus = "host" => Keeper!HostInv
  <1>1. /\ Keeper!HostInit => Keeper!HostInv
        /\ Keeper!HostInv /\ [Keeper!HostNext]_Keeper!hostVars => Keeper!HostInv'
        /\ Keeper!HostInv => Keeper!HostTypeOK /\ Keeper!HostIsSafe
    BY Keeper!HostInductive, Keeper!HostSound
  <1>2. Init => Inv
    BY <1>1, HostIsTheSame DEF Init
  <1>3. Inv /\ [Next]_vars => Inv'
    <2> SUFFICES ASSUME Inv, [Next]_vars, (focus = "host")' PROVE Keeper!HostInv'
      OBVIOUS
    <2>1. focus = "host" /\ (Host!HostNext \/ UNCHANGED vars)
      BY DEF Next, AtRest, vars
    <2>2. [Keeper!HostNext]_Keeper!hostVars
      BY <2>1, HostIsTheSame DEF vars, Keeper!hostVars
    <2> QED BY <1>1, <2>1, <2>2
  <1>4. Inv => HostIsSafe
    BY <1>1, HostIsTheSame DEF HostIsSafe
  <1> QED BY <1>2, <1>3, <1>4, PTL DEF Spec

\* The status of a task is the same,
LEMMA StatusIsTheSame ==
  /\ Status!StatusInit <=> Keeper!StatusInit
  /\ Status!StatusNext <=> Keeper!StatusNext
  /\ Status!StatusTypeOK <=> Keeper!StatusTypeOK
  /\ Status!StatusIsTrue <=> Keeper!StatusIsTrue
  <1>1. Status!StatusInit <=> Keeper!StatusInit
    BY DEF Status!StatusInit, Keeper!StatusInit, Status!NoSeen, Keeper!NoSeen, Status!NoCall,
          Keeper!NoCall
  <1>2. Status!StatusNext <=> Keeper!StatusNext
    BY DEF Status!StatusNext, Keeper!StatusNext, Status!StatusWorld, Keeper!StatusWorld,
          Status!StatusCall, Keeper!StatusCall, Status!Raw, Keeper!Raw, Status!MoveRow,
          Keeper!MoveRow, Status!RecordSubmission, Keeper!RecordSubmission, Status!CommitSubmission,
          Keeper!CommitSubmission, Status!ReplaceGeneration, Keeper!ReplaceGeneration,
          Status!RecordTermination, Keeper!RecordTermination, Status!Cancel, Keeper!Cancel,
          Status!PublishOutcome, Keeper!PublishOutcome, Status!Begin, Keeper!Begin,
          Status!PrepareClient, Keeper!PrepareClient, Status!ReadFlight, Keeper!ReadFlight,
          Status!LockObservation, Keeper!LockObservation, Status!ReuseObservation,
          Keeper!ReuseObservation, Status!TakeSnapshot, Keeper!TakeSnapshot,
          Status!PublishObservation, Keeper!PublishObservation, Status!FailObservation,
          Keeper!FailObservation, Status!PermitRecovery, Keeper!PermitRecovery,
          Status!RecoverStaged, Keeper!RecoverStaged, Status!DeriveOffer, Keeper!DeriveOffer,
          Status!Answer, Keeper!Answer, Status!Moves, Keeper!Moves, Status!At, Keeper!At,
          Status!NoCall, Keeper!NoCall, Status!worldVars, Keeper!worldVars, Status!Learnt,
          Keeper!Learnt, Status!NoSeen, Keeper!NoSeen, Status!Reusable, Keeper!Reusable,
          Status!Observed, Keeper!Observed, Status!Snapshot, Keeper!Snapshot,
          Status!RunnerLeaseReleased, Keeper!RunnerLeaseReleased, Status!StateOf, Keeper!StateOf
  <1>3. /\ Status!StatusTypeOK <=> Keeper!StatusTypeOK
        /\ Status!StatusIsTrue <=> Keeper!StatusIsTrue
    BY DEF Status!StatusTypeOK, Keeper!StatusTypeOK, Status!StatusIsTrue, Keeper!StatusIsTrue,
          Status!Raw, Keeper!Raw, Status!ObservationIsFresh, Keeper!ObservationIsFresh,
          Status!AdmittedIsDurable, Keeper!AdmittedIsDurable, Status!OfferIsSafe,
          Keeper!OfferIsSafe, Status!EndedIsFinal, Keeper!EndedIsFinal, Status!At, Keeper!At,
          Status!NoSeen, Keeper!NoSeen, Status!Admission, Keeper!Admission, Status!Offer,
          Keeper!Offer, Status!RunnerLeaseReleased, Keeper!RunnerLeaseReleased, Status!Liveness,
          Keeper!Liveness, Status!Admitted, Keeper!Admitted, Status!Suppressed, Keeper!Suppressed,
          Status!Matched, Keeper!Matched
  <1> QED BY <1>1, <1>2, <1>3

\* and so it is with two generations.
LEMMA StatusGenerationIsTheSame ==
  /\ StatusGeneration!StatusInit <=> TaskKeeper!StatusInit
  /\ StatusGeneration!StatusNext <=> TaskKeeper!StatusNext
  /\ StatusGeneration!StatusTypeOK <=> TaskKeeper!StatusTypeOK
  /\ StatusGeneration!StatusIsTrue <=> TaskKeeper!StatusIsTrue
  <1>1. StatusGeneration!StatusInit <=> TaskKeeper!StatusInit
    BY DEF StatusGeneration!StatusInit, TaskKeeper!StatusInit, StatusGeneration!NoSeen,
          TaskKeeper!NoSeen, StatusGeneration!NoCall, TaskKeeper!NoCall
  <1>2. StatusGeneration!StatusNext <=> TaskKeeper!StatusNext
    BY DEF StatusGeneration!StatusNext, TaskKeeper!StatusNext, StatusGeneration!StatusWorld,
          TaskKeeper!StatusWorld, StatusGeneration!StatusCall, TaskKeeper!StatusCall,
          StatusGeneration!Raw, TaskKeeper!Raw, StatusGeneration!MoveRow, TaskKeeper!MoveRow,
          StatusGeneration!RecordSubmission, TaskKeeper!RecordSubmission,
          StatusGeneration!CommitSubmission, TaskKeeper!CommitSubmission,
          StatusGeneration!ReplaceGeneration, TaskKeeper!ReplaceGeneration,
          StatusGeneration!RecordTermination, TaskKeeper!RecordTermination, StatusGeneration!Cancel,
          TaskKeeper!Cancel, StatusGeneration!PublishOutcome, TaskKeeper!PublishOutcome,
          StatusGeneration!Begin, TaskKeeper!Begin, StatusGeneration!PrepareClient,
          TaskKeeper!PrepareClient, StatusGeneration!ReadFlight, TaskKeeper!ReadFlight,
          StatusGeneration!LockObservation, TaskKeeper!LockObservation,
          StatusGeneration!ReuseObservation, TaskKeeper!ReuseObservation,
          StatusGeneration!TakeSnapshot, TaskKeeper!TakeSnapshot,
          StatusGeneration!PublishObservation, TaskKeeper!PublishObservation,
          StatusGeneration!FailObservation, TaskKeeper!FailObservation,
          StatusGeneration!PermitRecovery, TaskKeeper!PermitRecovery,
          StatusGeneration!RecoverStaged, TaskKeeper!RecoverStaged, StatusGeneration!DeriveOffer,
          TaskKeeper!DeriveOffer, StatusGeneration!Answer, TaskKeeper!Answer,
          StatusGeneration!Moves, TaskKeeper!Moves, StatusGeneration!At, TaskKeeper!At,
          StatusGeneration!NoCall, TaskKeeper!NoCall, StatusGeneration!worldVars,
          TaskKeeper!worldVars, StatusGeneration!Learnt, TaskKeeper!Learnt, StatusGeneration!NoSeen,
          TaskKeeper!NoSeen, StatusGeneration!Reusable, TaskKeeper!Reusable,
          StatusGeneration!Observed, TaskKeeper!Observed, StatusGeneration!Snapshot,
          TaskKeeper!Snapshot, StatusGeneration!RunnerLeaseReleased, TaskKeeper!RunnerLeaseReleased,
          StatusGeneration!StateOf, TaskKeeper!StateOf
  <1>3. /\ StatusGeneration!StatusTypeOK <=> TaskKeeper!StatusTypeOK
        /\ StatusGeneration!StatusIsTrue <=> TaskKeeper!StatusIsTrue
    BY DEF StatusGeneration!StatusTypeOK, TaskKeeper!StatusTypeOK, StatusGeneration!StatusIsTrue,
          TaskKeeper!StatusIsTrue, StatusGeneration!Raw, TaskKeeper!Raw,
          StatusGeneration!ObservationIsFresh, TaskKeeper!ObservationIsFresh,
          StatusGeneration!AdmittedIsDurable, TaskKeeper!AdmittedIsDurable,
          StatusGeneration!OfferIsSafe, TaskKeeper!OfferIsSafe, StatusGeneration!EndedIsFinal,
          TaskKeeper!EndedIsFinal, StatusGeneration!At, TaskKeeper!At, StatusGeneration!NoSeen,
          TaskKeeper!NoSeen, StatusGeneration!Admission, TaskKeeper!Admission,
          StatusGeneration!Offer, TaskKeeper!Offer, StatusGeneration!RunnerLeaseReleased,
          TaskKeeper!RunnerLeaseReleased, StatusGeneration!Liveness, TaskKeeper!Liveness,
          StatusGeneration!Admitted, TaskKeeper!Admitted, StatusGeneration!Suppressed,
          TaskKeeper!Suppressed, StatusGeneration!Matched, TaskKeeper!Matched
  <1> QED BY <1>1, <1>2, <1>3

\* The custody is the same, of a task and an inspection,
LEMMA CustodyIsTheSame ==
  /\ Cust!CustodyInit <=> Keeper!CustodyInit
  /\ Cust!CustodyNext <=> Keeper!CustodyNext
  /\ Cust!CustodyTypeOK <=> Keeper!CustodyTypeOK
  /\ Cust!CustodyIsSafe <=> Keeper!CustodyIsSafe
  <1>1. Cust!CustodyInit <=> Keeper!CustodyInit
    BY DEF Cust!CustodyInit, Keeper!CustodyInit, Cust!NoWork, Keeper!NoWork, Cust!NoPass,
          Keeper!NoPass
  <1>2. Cust!CustodyNext <=> Keeper!CustodyNext
    BY DEF Cust!CustodyNext, Keeper!CustodyNext, Cust!LinkView, Keeper!LinkView, Cust!CloseLifetime,
          Keeper!CloseLifetime, Cust!LoseRoot, Keeper!LoseRoot, Cust!RestoreRoot,
          Keeper!RestoreRoot, Cust!BeginPass, Keeper!BeginPass, Cust!EndPass, Keeper!EndPass,
          Cust!Dispose, Keeper!Dispose, Cust!GuardianEnds, Keeper!GuardianEnds, Cust!PassVisits,
          Keeper!PassVisits, Cust!AuthorizeRemoval, Keeper!AuthorizeRemoval, Cust!ObserveTask,
          Keeper!ObserveTask, Cust!lifeVars, Keeper!lifeVars, Cust!Doing, Keeper!Doing,
          Cust!poolVars, Keeper!poolVars, Cust!NoPass, Keeper!NoPass, Cust!ProveIdentity,
          Keeper!ProveIdentity, Cust!Observe, Keeper!Observe, Cust!Reprove, Keeper!Reprove,
          Cust!RemoveView, Keeper!RemoveView, Cust!RemoveWitness, Keeper!RemoveWitness,
          Cust!ReleaseFails, Keeper!ReleaseFails, Cust!Die, Keeper!Die, Cust!Conclude,
          Keeper!Conclude, Cust!TakeGate, Keeper!TakeGate, Cust!ListImages, Keeper!ListImages,
          Cust!StatImage, Keeper!StatImage, Cust!UnlinkImage, Keeper!UnlinkImage, Cust!EndReclaim,
          Keeper!EndReclaim, Cust!ClosedCustody, Keeper!ClosedCustody, Cust!StartOperation,
          Keeper!StartOperation, Cust!Go, Keeper!Go, Cust!Identity, Keeper!Identity, Cust!Owner,
          Keeper!Owner, Cust!ObserveWitness, Keeper!ObserveWitness, Cust!Absent, Keeper!Absent,
          Cust!NoWork, Keeper!NoWork, Cust!HandsOver, Keeper!HandsOver, Cust!GateTaken,
          Keeper!GateTaken, Cust!CloseGate, Keeper!CloseGate, Cust!Idle, Keeper!Idle
  <1>3. /\ Cust!CustodyTypeOK <=> Keeper!CustodyTypeOK
        /\ Cust!CustodyIsSafe <=> Keeper!CustodyIsSafe
    BY DEF Cust!CustodyTypeOK, Keeper!CustodyTypeOK, Cust!CustodyIsSafe, Keeper!CustodyIsSafe,
          Cust!CustodyStands, Keeper!CustodyStands, Cust!ReleasedIsTrue, Keeper!ReleasedIsTrue,
          Cust!NothingStranded, Keeper!NothingStranded, Cust!Doing, Keeper!Doing, Cust!Owner,
          Keeper!Owner
  <1> QED BY <1>1, <1>2, <1>3

\* of a task alone,
LEMMA TaskCustodyIsTheSame ==
  /\ CustTask!CustodyInit <=> TaskKeeper!CustodyInit
  /\ CustTask!CustodyNext <=> TaskKeeper!CustodyNext
  /\ CustTask!CustodyTypeOK <=> TaskKeeper!CustodyTypeOK
  /\ CustTask!CustodyIsSafe <=> TaskKeeper!CustodyIsSafe
  <1>1. CustTask!CustodyInit <=> TaskKeeper!CustodyInit
    BY DEF CustTask!CustodyInit, TaskKeeper!CustodyInit, CustTask!NoWork, TaskKeeper!NoWork,
          CustTask!NoPass, TaskKeeper!NoPass
  <1>2. CustTask!CustodyNext <=> TaskKeeper!CustodyNext
    BY DEF CustTask!CustodyNext, TaskKeeper!CustodyNext, CustTask!LinkView, TaskKeeper!LinkView,
          CustTask!CloseLifetime, TaskKeeper!CloseLifetime, CustTask!LoseRoot, TaskKeeper!LoseRoot,
          CustTask!RestoreRoot, TaskKeeper!RestoreRoot, CustTask!BeginPass, TaskKeeper!BeginPass,
          CustTask!EndPass, TaskKeeper!EndPass, CustTask!Dispose, TaskKeeper!Dispose,
          CustTask!GuardianEnds, TaskKeeper!GuardianEnds, CustTask!PassVisits,
          TaskKeeper!PassVisits, CustTask!AuthorizeRemoval, TaskKeeper!AuthorizeRemoval,
          CustTask!ObserveTask, TaskKeeper!ObserveTask, CustTask!lifeVars, TaskKeeper!lifeVars,
          CustTask!Doing, TaskKeeper!Doing, CustTask!poolVars, TaskKeeper!poolVars, CustTask!NoPass,
          TaskKeeper!NoPass, CustTask!ProveIdentity, TaskKeeper!ProveIdentity, CustTask!Observe,
          TaskKeeper!Observe, CustTask!Reprove, TaskKeeper!Reprove, CustTask!RemoveView,
          TaskKeeper!RemoveView, CustTask!RemoveWitness, TaskKeeper!RemoveWitness,
          CustTask!ReleaseFails, TaskKeeper!ReleaseFails, CustTask!Die, TaskKeeper!Die,
          CustTask!Conclude, TaskKeeper!Conclude, CustTask!TakeGate, TaskKeeper!TakeGate,
          CustTask!ListImages, TaskKeeper!ListImages, CustTask!StatImage, TaskKeeper!StatImage,
          CustTask!UnlinkImage, TaskKeeper!UnlinkImage, CustTask!EndReclaim, TaskKeeper!EndReclaim,
          CustTask!ClosedCustody, TaskKeeper!ClosedCustody, CustTask!StartOperation,
          TaskKeeper!StartOperation, CustTask!Go, TaskKeeper!Go, CustTask!Identity,
          TaskKeeper!Identity, CustTask!Owner, TaskKeeper!Owner, CustTask!ObserveWitness,
          TaskKeeper!ObserveWitness, CustTask!Absent, TaskKeeper!Absent, CustTask!NoWork,
          TaskKeeper!NoWork, CustTask!HandsOver, TaskKeeper!HandsOver, CustTask!GateTaken,
          TaskKeeper!GateTaken, CustTask!CloseGate, TaskKeeper!CloseGate, CustTask!Idle,
          TaskKeeper!Idle
  <1>3. /\ CustTask!CustodyTypeOK <=> TaskKeeper!CustodyTypeOK
        /\ CustTask!CustodyIsSafe <=> TaskKeeper!CustodyIsSafe
    BY DEF CustTask!CustodyTypeOK, TaskKeeper!CustodyTypeOK, CustTask!CustodyIsSafe,
          TaskKeeper!CustodyIsSafe, CustTask!CustodyStands, TaskKeeper!CustodyStands,
          CustTask!ReleasedIsTrue, TaskKeeper!ReleasedIsTrue, CustTask!NothingStranded,
          TaskKeeper!NothingStranded, CustTask!Doing, TaskKeeper!Doing, CustTask!Owner,
          TaskKeeper!Owner
  <1> QED BY <1>1, <1>2, <1>3

\* and of an inspection alone.
LEMMA InspectionCustodyIsTheSame ==
  /\ CustInspection!CustodyInit <=> InspectionKeeper!CustodyInit
  /\ CustInspection!CustodyNext <=> InspectionKeeper!CustodyNext
  /\ CustInspection!CustodyTypeOK <=> InspectionKeeper!CustodyTypeOK
  /\ CustInspection!CustodyIsSafe <=> InspectionKeeper!CustodyIsSafe
  <1>1. CustInspection!CustodyInit <=> InspectionKeeper!CustodyInit
    BY DEF CustInspection!CustodyInit, InspectionKeeper!CustodyInit, CustInspection!NoWork,
          InspectionKeeper!NoWork, CustInspection!NoPass, InspectionKeeper!NoPass
  <1>2. CustInspection!CustodyNext <=> InspectionKeeper!CustodyNext
    BY DEF CustInspection!CustodyNext, InspectionKeeper!CustodyNext, CustInspection!LinkView,
          InspectionKeeper!LinkView, CustInspection!CloseLifetime, InspectionKeeper!CloseLifetime,
          CustInspection!LoseRoot, InspectionKeeper!LoseRoot, CustInspection!RestoreRoot,
          InspectionKeeper!RestoreRoot, CustInspection!BeginPass, InspectionKeeper!BeginPass,
          CustInspection!EndPass, InspectionKeeper!EndPass, CustInspection!Dispose,
          InspectionKeeper!Dispose, CustInspection!GuardianEnds, InspectionKeeper!GuardianEnds,
          CustInspection!PassVisits, InspectionKeeper!PassVisits, CustInspection!AuthorizeRemoval,
          InspectionKeeper!AuthorizeRemoval, CustInspection!ObserveTask,
          InspectionKeeper!ObserveTask, CustInspection!lifeVars, InspectionKeeper!lifeVars,
          CustInspection!Doing, InspectionKeeper!Doing, CustInspection!poolVars,
          InspectionKeeper!poolVars, CustInspection!NoPass, InspectionKeeper!NoPass,
          CustInspection!ProveIdentity, InspectionKeeper!ProveIdentity, CustInspection!Observe,
          InspectionKeeper!Observe, CustInspection!Reprove, InspectionKeeper!Reprove,
          CustInspection!RemoveView, InspectionKeeper!RemoveView, CustInspection!RemoveWitness,
          InspectionKeeper!RemoveWitness, CustInspection!ReleaseFails,
          InspectionKeeper!ReleaseFails, CustInspection!Die, InspectionKeeper!Die,
          CustInspection!Conclude, InspectionKeeper!Conclude, CustInspection!TakeGate,
          InspectionKeeper!TakeGate, CustInspection!ListImages, InspectionKeeper!ListImages,
          CustInspection!StatImage, InspectionKeeper!StatImage, CustInspection!UnlinkImage,
          InspectionKeeper!UnlinkImage, CustInspection!EndReclaim, InspectionKeeper!EndReclaim,
          CustInspection!ClosedCustody, InspectionKeeper!ClosedCustody,
          CustInspection!StartOperation, InspectionKeeper!StartOperation, CustInspection!Go,
          InspectionKeeper!Go, CustInspection!Identity, InspectionKeeper!Identity,
          CustInspection!Owner, InspectionKeeper!Owner, CustInspection!ObserveWitness,
          InspectionKeeper!ObserveWitness, CustInspection!Absent, InspectionKeeper!Absent,
          CustInspection!NoWork, InspectionKeeper!NoWork, CustInspection!HandsOver,
          InspectionKeeper!HandsOver, CustInspection!GateTaken, InspectionKeeper!GateTaken,
          CustInspection!CloseGate, InspectionKeeper!CloseGate, CustInspection!Idle,
          InspectionKeeper!Idle
  <1>3. /\ CustInspection!CustodyTypeOK <=> InspectionKeeper!CustodyTypeOK
        /\ CustInspection!CustodyIsSafe <=> InspectionKeeper!CustodyIsSafe
    BY DEF CustInspection!CustodyTypeOK, InspectionKeeper!CustodyTypeOK,
          CustInspection!CustodyIsSafe, InspectionKeeper!CustodyIsSafe,
          CustInspection!CustodyStands, InspectionKeeper!CustodyStands,
          CustInspection!ReleasedIsTrue, InspectionKeeper!ReleasedIsTrue,
          CustInspection!NothingStranded, InspectionKeeper!NothingStranded, CustInspection!Doing,
          InspectionKeeper!Doing, CustInspection!Owner, InspectionKeeper!Owner
  <1> QED BY <1>1, <1>2, <1>3

\* What the supervision says of the status comes from one invariant,
LEMMA StatusIsKept ==
  ASSUME Nil \notin Processes
  PROVE  /\ Init => (focus = "status" => Keeper!StatusInv)
         /\ (focus = "status" => Keeper!StatusInv) /\ [Next]_vars =>
              (focus = "status" => Keeper!StatusInv)'
         /\ (focus = "status" => Keeper!StatusInv) => (focus = "status" =>
                 Status!StatusTypeOK /\ Status!StatusIsTrue)
  <1>1. /\ Keeper!StatusInit => Keeper!StatusInv
        /\ Keeper!StatusInv /\ [Keeper!StatusNext]_Keeper!statusVars => Keeper!StatusInv'
        /\ Keeper!StatusInv => Keeper!StatusTypeOK /\ Keeper!StatusIsTrue
    <2>1. 2 \in Nat /\ 1 \in Nat \ {0}
      OBVIOUS
    <2> QED BY <2>1, Keeper!StatusInductive
  <1>2. Init => (focus = "status" => Keeper!StatusInv)
    BY <1>1, StatusIsTheSame DEF Init
  <1>3. ASSUME focus = "status" => Keeper!StatusInv, [Next]_vars, focus' = "status"
        PROVE  Keeper!StatusInv'
    <2>1. focus = "status" /\ (Status!StatusNext \/ UNCHANGED vars)
      BY <1>3 DEF Next, AtRest, vars
    <2>2. [Keeper!StatusNext]_Keeper!statusVars
      BY <2>1, StatusIsTheSame DEF vars, Keeper!statusVars
    <2> QED BY <1>1, <1>3, <2>1, <2>2
  <1>4. (focus = "status" => Keeper!StatusInv) => (focus = "status" =>
             Status!StatusTypeOK /\ Status!StatusIsTrue)
    BY <1>1, StatusIsTheSame
  <1> QED BY <1>2, <1>3, <1>4

\* and of the one with two generations too.
LEMMA StatusGenerationIsKept ==
  ASSUME Nil \notin Processes
  PROVE  /\ Init => (focus = "statusGeneration" => TaskKeeper!StatusInv)
         /\ (focus = "statusGeneration" => TaskKeeper!StatusInv) /\ [Next]_vars =>
              (focus = "statusGeneration" => TaskKeeper!StatusInv)'
         /\ (focus = "statusGeneration" => TaskKeeper!StatusInv) =>
              (focus = "statusGeneration" =>
                 StatusGeneration!StatusTypeOK /\ StatusGeneration!StatusIsTrue)
  <1>1. /\ TaskKeeper!StatusInit => TaskKeeper!StatusInv
        /\ TaskKeeper!StatusInv /\ [TaskKeeper!StatusNext]_TaskKeeper!statusVars =>
             TaskKeeper!StatusInv'
        /\ TaskKeeper!StatusInv => TaskKeeper!StatusTypeOK /\ TaskKeeper!StatusIsTrue
    <2>1. 1 \in Nat /\ 2 \in Nat \ {0}
      OBVIOUS
    <2> QED BY <2>1, TaskKeeper!StatusInductive
  <1>2. Init => (focus = "statusGeneration" => TaskKeeper!StatusInv)
    BY <1>1, StatusGenerationIsTheSame DEF Init
  <1>3. ASSUME focus = "statusGeneration" => TaskKeeper!StatusInv,
               [Next]_vars, focus' = "statusGeneration"
        PROVE  TaskKeeper!StatusInv'
    <2>1. focus = "statusGeneration" /\ (StatusGeneration!StatusNext \/ UNCHANGED vars)
      BY <1>3 DEF Next, AtRest, vars
    <2>2. [TaskKeeper!StatusNext]_TaskKeeper!statusVars
      BY <2>1, StatusGenerationIsTheSame DEF vars, TaskKeeper!statusVars
    <2> QED BY <1>1, <1>3, <2>1, <2>2
  <1>4. (focus = "statusGeneration" => TaskKeeper!StatusInv) => (focus = "statusGeneration" =>
             StatusGeneration!StatusTypeOK /\ StatusGeneration!StatusIsTrue)
    BY <1>1, StatusGenerationIsTheSame
  <1> QED BY <1>2, <1>3, <1>4

\* What it says of the custody comes from one invariant,
LEMMA CustodyIsKept ==
  ASSUME Nil \notin Processes
  PROVE  /\ Init => (focus = "custody" => Keeper!CustodyInv)
         /\ (focus = "custody" => Keeper!CustodyInv) /\ [Next]_vars =>
              (focus = "custody" => Keeper!CustodyInv)'
         /\ (focus = "custody" => Keeper!CustodyInv) => (focus = "custody" =>
                 Cust!CustodyTypeOK /\ Cust!CustodyIsSafe)
  <1>1. /\ Keeper!CustodyInit => Keeper!CustodyInv
        /\ Keeper!CustodyInv /\ [Keeper!CustodyNext]_Keeper!custodyVars => Keeper!CustodyInv'
        /\ Keeper!CustodyInv => Keeper!CustodyTypeOK /\ Keeper!CustodyIsSafe
    <2>1. 0 \in Nat /\ {"o2"} \subseteq {"o1", "o2"}
      OBVIOUS
    <2> QED BY <2>1, Keeper!CustodyInductive
  <1>2. Init => (focus = "custody" => Keeper!CustodyInv)
    BY <1>1, CustodyIsTheSame DEF Init
  <1>3. ASSUME focus = "custody" => Keeper!CustodyInv, [Next]_vars, focus' = "custody"
        PROVE  Keeper!CustodyInv'
    <2>1. focus = "custody" /\ (Cust!CustodyNext \/ UNCHANGED vars)
      BY <1>3 DEF Next, AtRest, vars
    <2>2. [Keeper!CustodyNext]_Keeper!custodyVars
      BY <2>1, CustodyIsTheSame DEF vars, Keeper!custodyVars
    <2> QED BY <1>1, <1>3, <2>1, <2>2
  <1>4. (focus = "custody" => Keeper!CustodyInv) => (focus = "custody" =>
             Cust!CustodyTypeOK /\ Cust!CustodyIsSafe)
    BY <1>1, CustodyIsTheSame
  <1> QED BY <1>2, <1>3, <1>4

\* for a task alone,
LEMMA TaskCustodyIsKept ==
  ASSUME Nil \notin Processes
  PROVE  /\ Init => (focus = "custodyTask" => TaskKeeper!CustodyInv)
         /\ (focus = "custodyTask" => TaskKeeper!CustodyInv) /\ [Next]_vars =>
              (focus = "custodyTask" => TaskKeeper!CustodyInv)'
         /\ (focus = "custodyTask" => TaskKeeper!CustodyInv) => (focus = "custodyTask" =>
                 CustTask!CustodyTypeOK /\ CustTask!CustodyIsSafe)
  <1>1. /\ TaskKeeper!CustodyInit => TaskKeeper!CustodyInv
        /\ TaskKeeper!CustodyInv /\ [TaskKeeper!CustodyNext]_TaskKeeper!custodyVars =>
             TaskKeeper!CustodyInv'
        /\ TaskKeeper!CustodyInv => TaskKeeper!CustodyTypeOK /\ TaskKeeper!CustodyIsSafe
    <2>1. 1 \in Nat /\ {} \subseteq {"o1"}
      OBVIOUS
    <2> QED BY <2>1, TaskKeeper!CustodyInductive
  <1>2. Init => (focus = "custodyTask" => TaskKeeper!CustodyInv)
    BY <1>1, TaskCustodyIsTheSame DEF Init
  <1>3. ASSUME focus = "custodyTask" => TaskKeeper!CustodyInv,
               [Next]_vars, focus' = "custodyTask"
        PROVE  TaskKeeper!CustodyInv'
    <2>1. focus = "custodyTask" /\ (CustTask!CustodyNext \/ UNCHANGED vars)
      BY <1>3 DEF Next, AtRest, vars
    <2>2. [TaskKeeper!CustodyNext]_TaskKeeper!custodyVars
      BY <2>1, TaskCustodyIsTheSame DEF vars, TaskKeeper!custodyVars
    <2> QED BY <1>1, <1>3, <2>1, <2>2
  <1>4. (focus = "custodyTask" => TaskKeeper!CustodyInv) => (focus = "custodyTask" =>
             CustTask!CustodyTypeOK /\ CustTask!CustodyIsSafe)
    BY <1>1, TaskCustodyIsTheSame
  <1> QED BY <1>2, <1>3, <1>4

\* and for an inspection alone.
LEMMA InspectionCustodyIsKept ==
  ASSUME Nil \notin Processes
  PROVE  /\ Init => (focus = "custodyInspection" => InspectionKeeper!CustodyInv)
         /\ (focus = "custodyInspection" => InspectionKeeper!CustodyInv) /\ [Next]_vars =>
              (focus = "custodyInspection" => InspectionKeeper!CustodyInv)'
         /\ (focus = "custodyInspection" => InspectionKeeper!CustodyInv) =>
              (focus = "custodyInspection" =>
                 CustInspection!CustodyTypeOK /\ CustInspection!CustodyIsSafe)
  <1>1. /\ InspectionKeeper!CustodyInit => InspectionKeeper!CustodyInv
        /\ InspectionKeeper!CustodyInv
           /\ [InspectionKeeper!CustodyNext]_InspectionKeeper!custodyVars =>
             InspectionKeeper!CustodyInv'
        /\ InspectionKeeper!CustodyInv =>
             InspectionKeeper!CustodyTypeOK /\ InspectionKeeper!CustodyIsSafe
    <2>1. 1 \in Nat /\ {"o2"} \subseteq {"o2"}
      OBVIOUS
    <2> QED BY <2>1, InspectionKeeper!CustodyInductive
  <1>2. Init => (focus = "custodyInspection" => InspectionKeeper!CustodyInv)
    BY <1>1, InspectionCustodyIsTheSame DEF Init
  <1>3. ASSUME focus = "custodyInspection" => InspectionKeeper!CustodyInv,
               [Next]_vars, focus' = "custodyInspection"
        PROVE  InspectionKeeper!CustodyInv'
    <2>1. focus = "custodyInspection" /\ (CustInspection!CustodyNext \/ UNCHANGED vars)
      BY <1>3 DEF Next, AtRest, vars
    <2>2. [InspectionKeeper!CustodyNext]_InspectionKeeper!custodyVars
      BY <2>1, InspectionCustodyIsTheSame DEF vars, InspectionKeeper!custodyVars
    <2> QED BY <1>1, <1>3, <2>1, <2>2
  <1>4. (focus = "custodyInspection" => InspectionKeeper!CustodyInv) =>
          (focus = "custodyInspection" =>
             CustInspection!CustodyTypeOK /\ CustInspection!CustodyIsSafe)
    BY <1>1, InspectionCustodyIsTheSame
  <1> QED BY <1>2, <1>3, <1>4

\* What a status command tells is never older than what was shared before it began, an
\* admission is durable, a continuation is never offered beside a live runner, and "ended" is
\* final, for any set of callers: StatusIsTrue is an invariant of the supervision.
THEOREM StatusSoundness ==
  ASSUME Nil \notin Processes
  PROVE  Spec => []StatusIsTrue
  <1> DEFINE Inv == /\ focus = "status" => Keeper!StatusInv
                    /\ focus = "statusGeneration" => TaskKeeper!StatusInv
  <1>1. Init => Inv
    BY StatusIsKept, StatusGenerationIsKept
  <1>2. Inv /\ [Next]_vars => Inv'
    BY StatusIsKept, StatusGenerationIsKept
  <1>3. Inv => StatusIsTrue
    BY StatusIsKept, StatusGenerationIsKept DEF StatusIsTrue
  <1> QED BY <1>1, <1>2, <1>3, PTL DEF Spec

\* No view of an open lifetime and no linked image is removed, "released" is never said of a
\* pool that vanished, and no ended guardian strands custody, for any set of disposers:
\* CustodyIsSafe is an invariant of the supervision.
THEOREM CustodySoundness ==
  ASSUME Nil \notin Processes
  PROVE  Spec => []CustodyIsSafe
  <1> DEFINE Inv == /\ focus = "custody" => Keeper!CustodyInv
                    /\ focus = "custodyTask" => TaskKeeper!CustodyInv
                    /\ focus = "custodyInspection" => InspectionKeeper!CustodyInv
  <1>1. Init => Inv
    BY CustodyIsKept, TaskCustodyIsKept, InspectionCustodyIsKept
  <1>2. Inv /\ [Next]_vars => Inv'
    BY CustodyIsKept, TaskCustodyIsKept, InspectionCustodyIsKept
  <1>3. Inv => CustodyIsSafe
    BY CustodyIsKept, TaskCustodyIsKept, InspectionCustodyIsKept DEF CustodyIsSafe
  <1> QED BY <1>1, <1>2, <1>3, PTL DEF Spec
=============================================================================

---------------------------- MODULE TasksProofs -----------------------------
(***************************************************************************)
(* What the theorems about the records of a task say of the components     *)
(* that MCTasks puts together.                                             *)
(***************************************************************************)
EXTENDS MCTasks, TLAPS

\* The components as their proofs know them, over the same variables.
Kept == INSTANCE TaskProofs WITH
    Removers <- Processes, MaxEdits <- 2, MaxAttempts <- 2,
    folder <- s1, creation <- s2, candidate <- s3, snapshot <- s4, receipt <- s5, removals <- s6,
    removers <- s7,
    First <- "t0", None <- Nil,
    Tasks <- Objects \cup {"t0"}, Commands <- Processes, MaxContFaults <- 0,
    records <- s1, claims <- s2, releases <- s3, sessionLock <- s4, runners <- s5, turn <- s6,
    commands <- s7, contFaults <- s8,
    Texts <- {"p", "q"}, parsers <- s1, told <- s2, exit <- s3,
    WsTasks <- {"t1"}, Clients <- Processes, NoClient <- Nil, MaxUses <- 2, MaxTries <- 1,
    uses <- s1, tasks <- s2, helpers <- s3, place <- s4, work <- s5, snapshots <- s6, refs <- s7,
    ending <- s8, useOwner <- s9, clients <- s10,
    Creators <- Processes, RunWorkers <- Objects, Collectors <- {"k1"}, Recheckers <- {"r1"},
    Requests <- {"q1", "q2"}, MaxDirFaults <- 2,
    seen <- s1, disk <- s2, raw <- s3, stages <- s4, litter <- s5, maintSH <- s6,
    admission <- s7, runLock <- s8, actor <- s9, dirFaults <- s10, starts <- s11,
    reported <- s12, assessed <- s13

\* The same with the other bounds on the conversation: a command that stops, and two that race.
CrashKept == INSTANCE TaskProofs WITH
    Removers <- Processes, MaxEdits <- 2, MaxAttempts <- 2,
    folder <- s1, creation <- s2, candidate <- s3, snapshot <- s4, receipt <- s5, removals <- s6,
    removers <- s7,
    First <- "t0", None <- Nil,
    Tasks <- Objects \cup {"t0"}, Commands <- {"c1"}, MaxContFaults <- 1,
    records <- s1, claims <- s2, releases <- s3, sessionLock <- s4, runners <- s5, turn <- s6,
    commands <- s7, contFaults <- s8,
    Texts <- {"p", "q"}, parsers <- s1, told <- s2, exit <- s3,
    WsTasks <- {"t1"}, Clients <- Processes, NoClient <- Nil, MaxUses <- 2, MaxTries <- 1,
    uses <- s1, tasks <- s2, helpers <- s3, place <- s4, work <- s5, snapshots <- s6, refs <- s7,
    ending <- s8, useOwner <- s9, clients <- s10,
    Creators <- Processes, RunWorkers <- Objects, Collectors <- {"k1"}, Recheckers <- {"r1"},
    Requests <- {"q1", "q2"}, MaxDirFaults <- 2,
    seen <- s1, disk <- s2, raw <- s3, stages <- s4, litter <- s5, maintSH <- s6,
    admission <- s7, runLock <- s8, actor <- s9, dirFaults <- s10, starts <- s11,
    reported <- s12, assessed <- s13

RaceKept == INSTANCE TaskProofs WITH
    Removers <- Processes, MaxEdits <- 2, MaxAttempts <- 2,
    folder <- s1, creation <- s2, candidate <- s3, snapshot <- s4, receipt <- s5, removals <- s6,
    removers <- s7,
    First <- "t0", None <- Nil,
    Tasks <- {"t0", "t1"}, Commands <- Processes, MaxContFaults <- 1,
    records <- s1, claims <- s2, releases <- s3, sessionLock <- s4, runners <- s5, turn <- s6,
    commands <- s7, contFaults <- s8,
    Texts <- {"p", "q"}, parsers <- s1, told <- s2, exit <- s3,
    WsTasks <- {"t1"}, Clients <- Processes, NoClient <- Nil, MaxUses <- 2, MaxTries <- 1,
    uses <- s1, tasks <- s2, helpers <- s3, place <- s4, work <- s5, snapshots <- s6, refs <- s7,
    ending <- s8, useOwner <- s9, clients <- s10,
    Creators <- Processes, RunWorkers <- Objects, Collectors <- {"k1"}, Recheckers <- {"r1"},
    Requests <- {"q1", "q2"}, MaxDirFaults <- 2,
    seen <- s1, disk <- s2, raw <- s3, stages <- s4, litter <- s5, maintSH <- s6,
    admission <- s7, runLock <- s8, actor <- s9, dirFaults <- s10, starts <- s11,
    reported <- s12, assessed <- s13

\* The checkpoints are the ones their theorem is about.
LEMMA CheckpointsAreTheSame ==
  /\ Check!CheckpointInit <=> Kept!CheckpointInit
  /\ Check!CheckpointNext <=> Kept!CheckpointNext
  /\ Check!CheckpointTypeOK <=> Kept!CheckpointTypeOK
  /\ Check!CheckpointIsTrue <=> Kept!CheckpointIsTrue
  <1>1. Check!CheckpointInit <=> Kept!CheckpointInit
    BY DEF Check!CheckpointInit, Kept!CheckpointInit, Check!Unopened, Kept!Unopened, Check!Resting,
          Kept!Resting
  <1>2. Check!CheckpointNext <=> Kept!CheckpointNext
    BY DEF Check!CheckpointNext, Kept!CheckpointNext, Check!BeginCheckpoint, Kept!BeginCheckpoint,
          Check!CreationMoves, Kept!CreationMoves, Check!Edit, Kept!Edit,
          Check!RecordCheckpointCandidate, Kept!RecordCheckpointCandidate, Check!PublishCheckpoint,
          Kept!PublishCheckpoint, Check!QualifyCheckpoint, Kept!QualifyCheckpoint,
          Check!RemoveCheckpointRef, Kept!RemoveCheckpointRef, Check!RemovalMoves,
          Kept!RemovalMoves, Check!QualifyRemoval, Kept!QualifyRemoval, Check!AskRemoval,
          Kept!AskRemoval, Check!QualifyFirst, Kept!QualifyFirst, Check!ReadHead, Kept!ReadHead,
          Check!Register, Kept!Register, Check!StopRemover, Kept!StopRemover, Check!Opened,
          Kept!Opened, Check!Moves, Kept!Moves, Check!Working, Kept!Working, Check!Advanced,
          Kept!Advanced, Check!Qualifiable, Kept!Qualifiable, Check!Qualified, Kept!Qualified,
          Check!Disposition, Kept!Disposition, Check!Gone, Kept!Gone, Check!Newest, Kept!Newest,
          Check!Unopened, Kept!Unopened, Check!Queued, Kept!Queued, Check!Sealed, Kept!Sealed,
          Check!Launched, Kept!Launched, Check!CompletionSucceeded, Kept!CompletionSucceeded,
          Check!Resting, Kept!Resting
  <1>3. /\ Check!CheckpointTypeOK <=> Kept!CheckpointTypeOK
        /\ Check!CheckpointIsTrue <=> Kept!CheckpointIsTrue
    BY DEF Check!CheckpointTypeOK, Kept!CheckpointTypeOK, Check!CheckpointIsTrue,
          Kept!CheckpointIsTrue, Check!Workers, Kept!Workers, Check!RemovalStatuses,
          Kept!RemovalStatuses, Check!RemovalsAreSerial, Kept!RemovalsAreSerial,
          Check!RemovedStaysRemoved, Kept!RemovedStaysRemoved, Check!UsableIsPinned,
          Kept!UsableIsPinned, Check!Usable, Kept!Usable, Check!Cardinality, Kept!Cardinality
  <1> QED BY <1>1, <1>2, <1>3

\* The conversation is the same,
LEMMA ConversationIsTheSame ==
  /\ Cont!ContInit <=> Kept!ContInit
  /\ Cont!ContNext <=> Kept!ContNext
  /\ Cont!ContTypeOK <=> Kept!ContTypeOK
  /\ Cont!ConversationIsSafe <=> Kept!ConversationIsSafe
  <1>1. Cont!ContInit <=> Kept!ContInit
    BY DEF Cont!ContInit, Kept!ContInit, Cont!NoRecord, Kept!NoRecord, Cont!Idle, Kept!Idle
  <1>2. Cont!ContNext <=> Kept!ContNext
    BY DEF Cont!ContNext, Kept!ContNext, Cont!Resolve, Kept!Resolve, Cont!Release, Kept!Release,
          Cont!Create, Kept!Create, Cont!Claim, Kept!Claim, Cont!CommitClaim, Kept!CommitClaim,
          Cont!Submit, Kept!Submit, Cont!CommandStops, Kept!CommandStops, Cont!BeginContinue,
          Kept!BeginContinue, Cont!DispatchAgain, Kept!DispatchAgain, Cont!Collect, Kept!Collect,
          Cont!Status, Kept!Status, Cont!Cancel, Kept!Cancel, Cont!RunnerStarts, Kept!RunnerStarts,
          Cont!BudgetStop, Kept!BudgetStop, Cont!ProviderEnds, Kept!ProviderEnds,
          Cont!RunnerFinishes, Kept!RunnerFinishes, Cont!RunnerReleases, Kept!RunnerReleases,
          Cont!RunnerCrashes, Kept!RunnerCrashes, Cont!CloseLifetime, Kept!CloseLifetime,
          Cont!Settled, Kept!Settled, Cont!Continues, Kept!Continues, Cont!Terminal, Kept!Terminal,
          Cont!Goto, Kept!Goto, Cont!Done, Kept!Done, Cont!Idle, Kept!Idle, Cont!Readable,
          Kept!Readable, Cont!ReleaseRecord, Kept!ReleaseRecord, Cont!TerminalProof,
          Kept!TerminalProof, Cont!NoRecord, Kept!NoRecord, Cont!LockSession, Kept!LockSession,
          Cont!Owners, Kept!Owners, Cont!Released, Kept!Released, Cont!Unlock, Kept!Unlock,
          Cont!Busy, Kept!Busy, Cont!Prior, Kept!Prior, Cont!LeaseReleased, Kept!LeaseReleased,
          Cont!Active, Kept!Active, Cont!Interrupted, Kept!Interrupted, Cont!Handoff, Kept!Handoff
  <1>3. /\ Cont!ContTypeOK <=> Kept!ContTypeOK
        /\ Cont!ConversationIsSafe <=> Kept!ConversationIsSafe
    BY DEF Cont!ContTypeOK, Kept!ContTypeOK, Cont!ConversationIsSafe, Kept!ConversationIsSafe,
          Cont!Evidence, Kept!Evidence, Cont!Active, Kept!Active, Cont!Steps, Kept!Steps,
          Cont!SoleTurn, Kept!SoleTurn, Cont!ReleasesStand, Kept!ReleasesStand, Cont!OneOwner,
          Kept!OneOwner, Cont!InHand, Kept!InHand, Cont!Readable, Kept!Readable, Cont!Owners,
          Kept!Owners, Cont!Released, Kept!Released, Cont!TerminalProof, Kept!TerminalProof,
          Cont!LeaseReleased, Kept!LeaseReleased, Cont!Handoff, Kept!Handoff, Cont!Cardinality,
          Kept!Cardinality
  <1> QED BY <1>1, <1>2, <1>3

\* where one command may stop,
LEMMA CrashIsTheSame ==
  /\ ContCrash!ContInit <=> CrashKept!ContInit
  /\ ContCrash!ContNext <=> CrashKept!ContNext
  /\ ContCrash!ContTypeOK <=> CrashKept!ContTypeOK
  /\ ContCrash!ConversationIsSafe <=> CrashKept!ConversationIsSafe
  <1>1. ContCrash!ContInit <=> CrashKept!ContInit
    BY DEF ContCrash!ContInit, CrashKept!ContInit, ContCrash!NoRecord, CrashKept!NoRecord,
          ContCrash!Idle, CrashKept!Idle
  <1>2. ContCrash!ContNext <=> CrashKept!ContNext
    BY DEF ContCrash!ContNext, CrashKept!ContNext, ContCrash!Resolve, CrashKept!Resolve,
          ContCrash!Release, CrashKept!Release, ContCrash!Create, CrashKept!Create, ContCrash!Claim,
          CrashKept!Claim, ContCrash!CommitClaim, CrashKept!CommitClaim, ContCrash!Submit,
          CrashKept!Submit, ContCrash!CommandStops, CrashKept!CommandStops, ContCrash!BeginContinue,
          CrashKept!BeginContinue, ContCrash!DispatchAgain, CrashKept!DispatchAgain,
          ContCrash!Collect, CrashKept!Collect, ContCrash!Status, CrashKept!Status,
          ContCrash!Cancel, CrashKept!Cancel, ContCrash!RunnerStarts, CrashKept!RunnerStarts,
          ContCrash!BudgetStop, CrashKept!BudgetStop, ContCrash!ProviderEnds,
          CrashKept!ProviderEnds, ContCrash!RunnerFinishes, CrashKept!RunnerFinishes,
          ContCrash!RunnerReleases, CrashKept!RunnerReleases, ContCrash!RunnerCrashes,
          CrashKept!RunnerCrashes, ContCrash!CloseLifetime, CrashKept!CloseLifetime,
          ContCrash!Settled, CrashKept!Settled, ContCrash!Continues, CrashKept!Continues,
          ContCrash!Terminal, CrashKept!Terminal, ContCrash!Goto, CrashKept!Goto, ContCrash!Done,
          CrashKept!Done, ContCrash!Idle, CrashKept!Idle, ContCrash!Readable, CrashKept!Readable,
          ContCrash!ReleaseRecord, CrashKept!ReleaseRecord, ContCrash!TerminalProof,
          CrashKept!TerminalProof, ContCrash!NoRecord, CrashKept!NoRecord, ContCrash!LockSession,
          CrashKept!LockSession, ContCrash!Owners, CrashKept!Owners, ContCrash!Released,
          CrashKept!Released, ContCrash!Unlock, CrashKept!Unlock, ContCrash!Busy, CrashKept!Busy,
          ContCrash!Prior, CrashKept!Prior, ContCrash!LeaseReleased, CrashKept!LeaseReleased,
          ContCrash!Active, CrashKept!Active, ContCrash!Interrupted, CrashKept!Interrupted,
          ContCrash!Handoff, CrashKept!Handoff
  <1>3. /\ ContCrash!ContTypeOK <=> CrashKept!ContTypeOK
        /\ ContCrash!ConversationIsSafe <=> CrashKept!ConversationIsSafe
    BY DEF ContCrash!ContTypeOK, CrashKept!ContTypeOK, ContCrash!ConversationIsSafe,
          CrashKept!ConversationIsSafe, ContCrash!Evidence, CrashKept!Evidence, ContCrash!Active,
          CrashKept!Active, ContCrash!Steps, CrashKept!Steps, ContCrash!SoleTurn,
          CrashKept!SoleTurn, ContCrash!ReleasesStand, CrashKept!ReleasesStand, ContCrash!OneOwner,
          CrashKept!OneOwner, ContCrash!InHand, CrashKept!InHand, ContCrash!Readable,
          CrashKept!Readable, ContCrash!Owners, CrashKept!Owners, ContCrash!Released,
          CrashKept!Released, ContCrash!TerminalProof, CrashKept!TerminalProof,
          ContCrash!LeaseReleased, CrashKept!LeaseReleased, ContCrash!Handoff, CrashKept!Handoff,
          ContCrash!Cardinality, CrashKept!Cardinality
  <1> QED BY <1>1, <1>2, <1>3

\* and where two race for one successor.
LEMMA RaceIsTheSame ==
  /\ ContRace!ContInit <=> RaceKept!ContInit
  /\ ContRace!ContNext <=> RaceKept!ContNext
  /\ ContRace!ContTypeOK <=> RaceKept!ContTypeOK
  /\ ContRace!ConversationIsSafe <=> RaceKept!ConversationIsSafe
  <1>1. ContRace!ContInit <=> RaceKept!ContInit
    BY DEF ContRace!ContInit, RaceKept!ContInit, ContRace!NoRecord, RaceKept!NoRecord,
          ContRace!Idle, RaceKept!Idle
  <1>2. ContRace!ContNext <=> RaceKept!ContNext
    BY DEF ContRace!ContNext, RaceKept!ContNext, ContRace!Resolve, RaceKept!Resolve,
          ContRace!Release, RaceKept!Release, ContRace!Create, RaceKept!Create, ContRace!Claim,
          RaceKept!Claim, ContRace!CommitClaim, RaceKept!CommitClaim, ContRace!Submit,
          RaceKept!Submit, ContRace!CommandStops, RaceKept!CommandStops, ContRace!BeginContinue,
          RaceKept!BeginContinue, ContRace!DispatchAgain, RaceKept!DispatchAgain, ContRace!Collect,
          RaceKept!Collect, ContRace!Status, RaceKept!Status, ContRace!Cancel, RaceKept!Cancel,
          ContRace!RunnerStarts, RaceKept!RunnerStarts, ContRace!BudgetStop, RaceKept!BudgetStop,
          ContRace!ProviderEnds, RaceKept!ProviderEnds, ContRace!RunnerFinishes,
          RaceKept!RunnerFinishes, ContRace!RunnerReleases, RaceKept!RunnerReleases,
          ContRace!RunnerCrashes, RaceKept!RunnerCrashes, ContRace!CloseLifetime,
          RaceKept!CloseLifetime, ContRace!Settled, RaceKept!Settled, ContRace!Continues,
          RaceKept!Continues, ContRace!Terminal, RaceKept!Terminal, ContRace!Goto, RaceKept!Goto,
          ContRace!Done, RaceKept!Done, ContRace!Idle, RaceKept!Idle, ContRace!Readable,
          RaceKept!Readable, ContRace!ReleaseRecord, RaceKept!ReleaseRecord, ContRace!TerminalProof,
          RaceKept!TerminalProof, ContRace!NoRecord, RaceKept!NoRecord, ContRace!LockSession,
          RaceKept!LockSession, ContRace!Owners, RaceKept!Owners, ContRace!Released,
          RaceKept!Released, ContRace!Unlock, RaceKept!Unlock, ContRace!Busy, RaceKept!Busy,
          ContRace!Prior, RaceKept!Prior, ContRace!LeaseReleased, RaceKept!LeaseReleased,
          ContRace!Active, RaceKept!Active, ContRace!Interrupted, RaceKept!Interrupted,
          ContRace!Handoff, RaceKept!Handoff
  <1>3. /\ ContRace!ContTypeOK <=> RaceKept!ContTypeOK
        /\ ContRace!ConversationIsSafe <=> RaceKept!ConversationIsSafe
    BY DEF ContRace!ContTypeOK, RaceKept!ContTypeOK, ContRace!ConversationIsSafe,
          RaceKept!ConversationIsSafe, ContRace!Evidence, RaceKept!Evidence, ContRace!Active,
          RaceKept!Active, ContRace!Steps, RaceKept!Steps, ContRace!SoleTurn, RaceKept!SoleTurn,
          ContRace!ReleasesStand, RaceKept!ReleasesStand, ContRace!OneOwner, RaceKept!OneOwner,
          ContRace!InHand, RaceKept!InHand, ContRace!Readable, RaceKept!Readable, ContRace!Owners,
          RaceKept!Owners, ContRace!Released, RaceKept!Released, ContRace!TerminalProof,
          RaceKept!TerminalProof, ContRace!LeaseReleased, RaceKept!LeaseReleased, ContRace!Handoff,
          RaceKept!Handoff, ContRace!Cardinality, RaceKept!Cardinality
  <1> QED BY <1>1, <1>2, <1>3

\* The readers of a Pi stream are the same.
LEMMA PiIsTheSame ==
  /\ Pi!PiInit <=> Kept!PiInit
  /\ Pi!PiNext <=> Kept!PiNext
  /\ Pi!PiTypeOK <=> Kept!PiTypeOK
  /\ Pi!PiIsTrue <=> Kept!PiIsTrue
  <1>1. Pi!PiInit <=> Kept!PiInit
    BY DEF Pi!PiInit, Kept!PiInit, Pi!Versions, Kept!Versions, Pi!NewParser, Kept!NewParser,
          Pi!NoText, Kept!NoText, Pi!NewCycle, Kept!NewCycle
  <1>2. Pi!PiNext <=> Kept!PiNext
    <2>1. Pi!ReadSession <=> Kept!ReadSession
      BY DEF Pi!ReadSession, Kept!ReadSession, Pi!ReadAll, Kept!ReadAll, Pi!SessionRead,
            Kept!SessionRead, Pi!Versions, Kept!Versions, Pi!Accept, Kept!Accept, Pi!Broken,
            Kept!Broken, Pi!NewParser, Kept!NewParser, Pi!NewCycle, Kept!NewCycle, Pi!NoText,
            Kept!NoText
    <2>2. Pi!ReadAgentStart <=> Kept!ReadAgentStart
      BY DEF Pi!ReadAgentStart, Kept!ReadAgentStart, Pi!ReadAll, Kept!ReadAll, Pi!AgentStart,
            Kept!AgentStart, Pi!NoText, Kept!NoText, Pi!Versions, Kept!Versions, Pi!NewCycle,
            Kept!NewCycle, Pi!Accept, Kept!Accept, Pi!Broken, Kept!Broken, Pi!NewParser,
            Kept!NewParser
    <2>3. Pi!ReadTurnStart <=> Kept!ReadTurnStart
      BY DEF Pi!ReadTurnStart, Kept!ReadTurnStart, Pi!ReadAll, Kept!ReadAll, Pi!TurnStart,
            Kept!TurnStart, Pi!NoText, Kept!NoText, Pi!Versions, Kept!Versions, Pi!InCycle,
            Kept!InCycle, Pi!Accept, Kept!Accept, Pi!Broken, Kept!Broken, Pi!NewParser,
            Kept!NewParser, Pi!NewCycle, Kept!NewCycle
    <2>4. Pi!ReadMessageStart <=> Kept!ReadMessageStart
      BY DEF Pi!ReadMessageStart, Kept!ReadMessageStart, Pi!ReadAll, Kept!ReadAll, Pi!MessageStart,
            Kept!MessageStart, Pi!Versions, Kept!Versions, Pi!InCycle, Kept!InCycle, Pi!Accept,
            Kept!Accept, Pi!Broken, Kept!Broken, Pi!NewParser, Kept!NewParser, Pi!NewCycle,
            Kept!NewCycle, Pi!NoText, Kept!NoText
    <2>5. Pi!ReadMessageUpdate <=> Kept!ReadMessageUpdate
      BY DEF Pi!ReadMessageUpdate, Kept!ReadMessageUpdate, Pi!ReadAll, Kept!ReadAll,
            Pi!MessageUpdate, Kept!MessageUpdate, Pi!Versions, Kept!Versions, Pi!InCycle,
            Kept!InCycle, Pi!Accept, Kept!Accept, Pi!Broken, Kept!Broken, Pi!NewParser,
            Kept!NewParser, Pi!NewCycle, Kept!NewCycle, Pi!NoText, Kept!NoText
    <2>6. Pi!ReadRetryStart <=> Kept!ReadRetryStart
      BY DEF Pi!ReadRetryStart, Kept!ReadRetryStart, Pi!ReadAll, Kept!ReadAll, Pi!RetryStart,
            Kept!RetryStart, Pi!Versions, Kept!Versions, Pi!Accept, Kept!Accept, Pi!Broken,
            Kept!Broken, Pi!NewParser, Kept!NewParser, Pi!NewCycle, Kept!NewCycle, Pi!NoText,
            Kept!NoText
    <2>7. Pi!ReadError <=> Kept!ReadError
      BY DEF Pi!ReadError, Kept!ReadError, Pi!ReadAll, Kept!ReadAll, Pi!ErrorRead, Kept!ErrorRead,
            Pi!Versions, Kept!Versions, Pi!Broken, Kept!Broken, Pi!NewParser, Kept!NewParser,
            Pi!NewCycle, Kept!NewCycle, Pi!NoText, Kept!NoText
    <2>8. Pi!ReadSessionInfo <=> Kept!ReadSessionInfo
      BY DEF Pi!ReadSessionInfo, Kept!ReadSessionInfo, Pi!ReadAll, Kept!ReadAll, Pi!SessionInfo,
            Kept!SessionInfo, Pi!Versions, Kept!Versions, Pi!Broken, Kept!Broken, Pi!NewParser,
            Kept!NewParser, Pi!NewCycle, Kept!NewCycle, Pi!NoText, Kept!NoText
    <2>9. Pi!ReadUnknown <=> Kept!ReadUnknown
      BY DEF Pi!ReadUnknown, Kept!ReadUnknown, Pi!ReadAll, Kept!ReadAll, Pi!Broken, Kept!Broken,
            Pi!Versions, Kept!Versions, Pi!NewParser, Kept!NewParser, Pi!NewCycle, Kept!NewCycle,
            Pi!NoText, Kept!NoText
    <2>10. Pi!AllTexts <=> Kept!AllTexts
      BY DEF Pi!AllTexts, Kept!AllTexts, Pi!BlankText, Kept!BlankText
    <2>11. Pi!Stops <=> Kept!Stops
      BY DEF Pi!Stops, Kept!Stops
    <2>12. \A assistant, text, stop, error :
            Pi!ReadMessageEnd(assistant, text, stop, error) <=>
            Kept!ReadMessageEnd(assistant, text, stop, error)
      BY DEF Pi!ReadMessageEnd, Kept!ReadMessageEnd, Pi!ReadAll, Kept!ReadAll, Pi!MessageEnd,
            Kept!MessageEnd, Pi!Versions, Kept!Versions, Pi!InCycle, Kept!InCycle, Pi!Accept,
            Kept!Accept, Pi!Broken, Kept!Broken, Pi!NewParser, Kept!NewParser, Pi!NewCycle,
            Kept!NewCycle, Pi!NoText, Kept!NoText
    <2>13. \A text, stop, error :
            Pi!ReadTurnEnd(text, stop, error) <=> Kept!ReadTurnEnd(text, stop, error)
      BY DEF Pi!ReadTurnEnd, Kept!ReadTurnEnd, Pi!ReadAll, Kept!ReadAll, Pi!TurnEnd, Kept!TurnEnd,
            Pi!Versions, Kept!Versions, Pi!InCycle, Kept!InCycle, Pi!NoText, Kept!NoText, Pi!Accept,
            Kept!Accept, Pi!Broken, Kept!Broken, Pi!NewParser, Kept!NewParser, Pi!NewCycle,
            Kept!NewCycle
    <2>14. \A text, stop, error :
            Pi!ReadAgentEnd(text, stop, error) <=> Kept!ReadAgentEnd(text, stop, error)
      BY DEF Pi!ReadAgentEnd, Kept!ReadAgentEnd, Pi!ReadAll, Kept!ReadAll, Pi!AgentEnd,
            Kept!AgentEnd, Pi!NoText, Kept!NoText, Pi!Versions, Kept!Versions, Pi!InCycle,
            Kept!InCycle, Pi!Accept, Kept!Accept, Pi!Broken, Kept!Broken, Pi!NewParser,
            Kept!NewParser, Pi!NewCycle, Kept!NewCycle
    <2>15. Pi!Says <=> Kept!Says
      BY DEF Pi!Says, Kept!Says
    <2>16. \A said :
            Pi!ReadRetryEnd(said) <=> Kept!ReadRetryEnd(said)
      BY DEF Pi!ReadRetryEnd, Kept!ReadRetryEnd, Pi!ReadAll, Kept!ReadAll, Pi!RetryEnd,
            Kept!RetryEnd, Pi!Say, Kept!Say, Pi!Versions, Kept!Versions, Pi!Accept, Kept!Accept,
            Pi!Broken, Kept!Broken, Pi!Outcome, Kept!Outcome, Pi!NewParser, Kept!NewParser,
            Pi!NewCycle, Kept!NewCycle, Pi!NoText, Kept!NoText
    <2>17. \A said :
            Pi!ReadSettled(said) <=> Kept!ReadSettled(said)
      BY DEF Pi!ReadSettled, Kept!ReadSettled, Pi!ReadAll, Kept!ReadAll, Pi!SettledRead,
            Kept!SettledRead, Pi!Say, Kept!Say, Pi!Versions, Kept!Versions, Pi!Accept, Kept!Accept,
            Pi!Outcome, Kept!Outcome, Pi!Broken, Kept!Broken, Pi!NewParser, Kept!NewParser,
            Pi!NewCycle, Kept!NewCycle, Pi!NoText, Kept!NoText
    <2>18. \A success :
            Pi!PiSeal(success) <=> Kept!PiSeal(success)
      BY DEF Pi!PiSeal, Kept!PiSeal
    <2> QED BY <2>1, <2>2, <2>3, <2>4, <2>5, <2>6, <2>7, <2>8, <2>9, <2>10, <2>11, <2>12, <2>13,
         <2>14, <2>15, <2>16, <2>17, <2>18 DEF Pi!PiNext, Kept!PiNext
  <1>3. /\ Pi!PiTypeOK <=> Kept!PiTypeOK
        /\ Pi!PiIsTrue <=> Kept!PiIsTrue
    BY DEF Pi!PiTypeOK, Kept!PiTypeOK, Pi!PiIsTrue, Kept!PiIsTrue, Pi!Versions, Kept!Versions,
          Pi!AllTexts, Kept!AllTexts, Pi!NoText, Kept!NoText, Pi!PiAnswerStands,
          Kept!PiAnswerStands, Pi!PiRevisionsAgree, Kept!PiRevisionsAgree, Pi!BlankText,
          Kept!BlankText, Pi!PiCommitted, Kept!PiCommitted
  <1> QED BY <1>1, <1>2, <1>3

\* What is said here of the checkpoints comes from one invariant.
LEMMA CheckpointIsKept ==
  /\ Init => (focus = "checkpoint" => Kept!CheckpointInv)
  /\ (focus = "checkpoint" => Kept!CheckpointInv) /\ [Next]_vars =>
       (focus = "checkpoint" => Kept!CheckpointInv)'
  /\ (focus = "checkpoint" => Kept!CheckpointInv) => (focus = "checkpoint" =>
          Check!CheckpointTypeOK /\ Check!CheckpointIsTrue)
  <1>1. /\ Kept!CheckpointInit => Kept!CheckpointInv
        /\ Kept!CheckpointInv /\ [Kept!CheckpointNext]_Kept!checkpointVars =>
             Kept!CheckpointInv'
        /\ Kept!CheckpointInv => Kept!CheckpointTypeOK /\ Kept!CheckpointIsTrue
    <2>1. 2 \in Nat
      OBVIOUS
    <2> QED BY <2>1, Kept!CheckpointInductive
  <1>2. Init => (focus = "checkpoint" => Kept!CheckpointInv)
    BY <1>1, CheckpointsAreTheSame DEF Init
  <1>3. ASSUME focus = "checkpoint" => Kept!CheckpointInv, [Next]_vars, focus' = "checkpoint"
        PROVE  Kept!CheckpointInv'
    <2>1. focus = "checkpoint" /\ (Check!CheckpointNext \/ UNCHANGED vars)
      BY <1>3 DEF Next, AtRest, vars
    <2>2. [Kept!CheckpointNext]_Kept!checkpointVars
      BY <2>1, CheckpointsAreTheSame DEF vars, Kept!checkpointVars
    <2> QED BY <1>1, <1>3, <2>1, <2>2
  <1>4. (focus = "checkpoint" => Kept!CheckpointInv) => (focus = "checkpoint" =>
             Check!CheckpointTypeOK /\ Check!CheckpointIsTrue)
    BY <1>1, CheckpointsAreTheSame
  <1> QED BY <1>2, <1>3, <1>4

\* What is said of a conversation comes from one invariant,
LEMMA ConversationIsKept ==
  ASSUME Nil \notin Processes
  PROVE  /\ Init => (focus = "continuation" => Kept!ContInv)
         /\ (focus = "continuation" => Kept!ContInv) /\ [Next]_vars =>
              (focus = "continuation" => Kept!ContInv)'
         /\ (focus = "continuation" => Kept!ContInv) => (focus = "continuation" =>
                 Cont!ContTypeOK /\ Cont!ConversationIsSafe)
  <1>1. /\ Kept!ContInit => Kept!ContInv
        /\ Kept!ContInv /\ [Kept!ContNext]_Kept!contVars => Kept!ContInv'
        /\ Kept!ContInv => Kept!ContTypeOK /\ Kept!ConversationIsSafe
    <2>1. "t0" \in Objects \cup {"t0"} /\ 0 \in Nat
      OBVIOUS
    <2> QED BY <2>1, Kept!ContInductive
  <1>2. Init => (focus = "continuation" => Kept!ContInv)
    BY <1>1, ConversationIsTheSame DEF Init
  <1>3. ASSUME focus = "continuation" => Kept!ContInv, [Next]_vars, focus' = "continuation"
        PROVE  Kept!ContInv'
    <2>1. focus = "continuation" /\ (Cont!ContNext \/ UNCHANGED vars)
      BY <1>3 DEF Next, AtRest, vars
    <2>2. [Kept!ContNext]_Kept!contVars
      BY <2>1, ConversationIsTheSame DEF vars, Kept!contVars
    <2> QED BY <1>1, <1>3, <2>1, <2>2
  <1>4. (focus = "continuation" => Kept!ContInv) => (focus = "continuation" =>
             Cont!ContTypeOK /\ Cont!ConversationIsSafe)
    BY <1>1, ConversationIsTheSame
  <1> QED BY <1>2, <1>3, <1>4

\* where one command may stop,
LEMMA CrashIsKept ==
  ASSUME Nil # "c1"
  PROVE  /\ Init => (focus = "continuationCrash" => CrashKept!ContInv)
         /\ (focus = "continuationCrash" => CrashKept!ContInv) /\ [Next]_vars =>
              (focus = "continuationCrash" => CrashKept!ContInv)'
         /\ (focus = "continuationCrash" => CrashKept!ContInv) =>
              (focus = "continuationCrash" =>
                 ContCrash!ContTypeOK /\ ContCrash!ConversationIsSafe)
  <1>1. /\ CrashKept!ContInit => CrashKept!ContInv
        /\ CrashKept!ContInv /\ [CrashKept!ContNext]_CrashKept!contVars => CrashKept!ContInv'
        /\ CrashKept!ContInv => CrashKept!ContTypeOK /\ CrashKept!ConversationIsSafe
    <2>1. "t0" \in Objects \cup {"t0"} /\ Nil \notin {"c1"} /\ 1 \in Nat
      OBVIOUS
    <2> QED BY <2>1, CrashKept!ContInductive
  <1>2. Init => (focus = "continuationCrash" => CrashKept!ContInv)
    BY <1>1, CrashIsTheSame DEF Init
  <1>3. ASSUME focus = "continuationCrash" => CrashKept!ContInv,
               [Next]_vars, focus' = "continuationCrash"
        PROVE  CrashKept!ContInv'
    <2>1. focus = "continuationCrash" /\ (ContCrash!ContNext \/ UNCHANGED vars)
      BY <1>3 DEF Next, AtRest, vars
    <2>2. [CrashKept!ContNext]_CrashKept!contVars
      BY <2>1, CrashIsTheSame DEF vars, CrashKept!contVars
    <2> QED BY <1>1, <1>3, <2>1, <2>2
  <1>4. (focus = "continuationCrash" => CrashKept!ContInv) => (focus = "continuationCrash" =>
             ContCrash!ContTypeOK /\ ContCrash!ConversationIsSafe)
    BY <1>1, CrashIsTheSame
  <1> QED BY <1>2, <1>3, <1>4

\* and where two race.
LEMMA RaceIsKept ==
  ASSUME Nil \notin Processes
  PROVE  /\ Init => (focus = "continuationRace" => RaceKept!ContInv)
         /\ (focus = "continuationRace" => RaceKept!ContInv) /\ [Next]_vars =>
              (focus = "continuationRace" => RaceKept!ContInv)'
         /\ (focus = "continuationRace" => RaceKept!ContInv) => (focus = "continuationRace" =>
                 ContRace!ContTypeOK /\ ContRace!ConversationIsSafe)
  <1>1. /\ RaceKept!ContInit => RaceKept!ContInv
        /\ RaceKept!ContInv /\ [RaceKept!ContNext]_RaceKept!contVars => RaceKept!ContInv'
        /\ RaceKept!ContInv => RaceKept!ContTypeOK /\ RaceKept!ConversationIsSafe
    <2>1. "t0" \in {"t0", "t1"} /\ 1 \in Nat
      OBVIOUS
    <2> QED BY <2>1, RaceKept!ContInductive
  <1>2. Init => (focus = "continuationRace" => RaceKept!ContInv)
    BY <1>1, RaceIsTheSame DEF Init
  <1>3. ASSUME focus = "continuationRace" => RaceKept!ContInv,
               [Next]_vars, focus' = "continuationRace"
        PROVE  RaceKept!ContInv'
    <2>1. focus = "continuationRace" /\ (ContRace!ContNext \/ UNCHANGED vars)
      BY <1>3 DEF Next, AtRest, vars
    <2>2. [RaceKept!ContNext]_RaceKept!contVars
      BY <2>1, RaceIsTheSame DEF vars, RaceKept!contVars
    <2> QED BY <1>1, <1>3, <2>1, <2>2
  <1>4. (focus = "continuationRace" => RaceKept!ContInv) => (focus = "continuationRace" =>
             ContRace!ContTypeOK /\ ContRace!ConversationIsSafe)
    BY <1>1, RaceIsTheSame
  <1> QED BY <1>2, <1>3, <1>4

\* What is said of a Pi stream comes from one invariant.
LEMMA PiIsKept ==
  /\ Init => (focus = "pi" => Kept!PiInv)
  /\ (focus = "pi" => Kept!PiInv) /\ [Next]_vars => (focus = "pi" => Kept!PiInv)'
  /\ (focus = "pi" => Kept!PiInv) => (focus = "pi" => Pi!PiTypeOK /\ Pi!PiIsTrue)
  <1>1. /\ Kept!PiInit => Kept!PiInv
        /\ Kept!PiInv /\ [Kept!PiNext]_Kept!piVars => Kept!PiInv'
        /\ Kept!PiInv => Kept!PiTypeOK /\ Kept!PiIsTrue
    <2>1. Kept!NoText \notin {"p", "q"}
      BY DEF Kept!NoText
    <2> QED BY <2>1, Kept!PiInductive
  <1>2. Init => (focus = "pi" => Kept!PiInv)
    BY <1>1, PiIsTheSame DEF Init
  <1>3. ASSUME focus = "pi" => Kept!PiInv, [Next]_vars, focus' = "pi"
        PROVE  Kept!PiInv'
    <2>1. focus = "pi" /\ (Pi!PiNext \/ UNCHANGED vars)
      BY <1>3 DEF Next, AtRest, vars
    <2>2. [Kept!PiNext]_Kept!piVars
      BY <2>1, PiIsTheSame DEF vars, Kept!piVars
    <2> QED BY <1>1, <1>3, <2>1, <2>2
  <1>4. (focus = "pi" => Kept!PiInv) => (focus = "pi" => Pi!PiTypeOK /\ Pi!PiIsTrue)
    BY <1>1, PiIsTheSame
  <1> QED BY <1>2, <1>3, <1>4

\* A workspace is the same.
LEMMA WorkspaceIsTheSame ==
  /\ Ws!WsInit <=> Kept!WsInit
  /\ Ws!WsNext <=> Kept!WsNext
  /\ Ws!WsTypeOK <=> Kept!WsTypeOK
  /\ Ws!WorkspaceIsSafe <=> Kept!WorkspaceIsSafe
  <1>1. Ws!WsInit <=> Kept!WsInit
    BY DEF Ws!WsInit, Kept!WsInit, Ws!HelperIds, Kept!HelperIds, Ws!Uses, Kept!Uses, Ws!NoEnd,
          Kept!NoEnd, Ws!Away, Kept!Away, Ws!Nothing, Kept!Nothing
  <1>2. Ws!WsNext <=> Kept!WsNext
    BY DEF Ws!WsNext, Kept!WsNext, Ws!ClientStep, Kept!ClientStep, Ws!TaskStep, Kept!TaskStep,
          Ws!HelperIds, Kept!HelperIds, Ws!HelperStep, Kept!HelperStep, Ws!Begin, Kept!Begin,
          Ws!Stop, Kept!Stop, Ws!Reconcile, Kept!Reconcile, Ws!Reconciled, Kept!Reconciled,
          Ws!ReserveDispatch, Kept!ReserveDispatch, Ws!ProvisionForDispatch,
          Kept!ProvisionForDispatch, Ws!CreateTask, Kept!CreateTask, Ws!FinishAborted,
          Kept!FinishAborted, Ws!RecordTaskCapture, Kept!RecordTaskCapture, Ws!SubmitTask,
          Kept!SubmitTask, Ws!OpenUseOperation, Kept!OpenUseOperation, Ws!ReserveOperation,
          Kept!ReserveOperation, Ws!RecordVerificationUse, Kept!RecordVerificationUse,
          Ws!SubmitUseOperation, Kept!SubmitUseOperation, Ws!ReserveRelease, Kept!ReserveRelease,
          Ws!ForgetWorkspace, Kept!ForgetWorkspace, Ws!LaunchTask, Kept!LaunchTask,
          Ws!PinTurnBaseline, Kept!PinTurnBaseline, Ws!ProviderWrites, Kept!ProviderWrites,
          Ws!TaskEnds, Kept!TaskEnds, Ws!Uses, Kept!Uses, Ws!LaunchHelper, Kept!LaunchHelper,
          Ws!Succeeds, Kept!Succeeds, Ws!LastStep, Kept!LastStep, Ws!HelperEnds, Kept!HelperEnds,
          Ws!Provision, Kept!Provision, Ws!CaptureCheckout, Kept!CaptureCheckout, Ws!VerifyCheckout,
          Kept!VerifyCheckout, Ws!RemoveCheckout, Kept!RemoveCheckout, Ws!ForgetRefs,
          Kept!ForgetRefs, Ws!CheckpointCheckout, Kept!CheckpointCheckout, Ws!Errand, Kept!Errand,
          Ws!Nothing, Kept!Nothing, Ws!World, Kept!World, Ws!Leave, Kept!Leave, Ws!Holding,
          Kept!Holding, Ws!ReconcileOpenUse, Kept!ReconcileOpenUse, Ws!RecordRelease,
          Kept!RecordRelease, Ws!Reserved, Kept!Reserved, Ws!ReconcileRemoval,
          Kept!ReconcileRemoval, Ws!ReconcileForget, Kept!ReconcileForget, Ws!Reservable,
          Kept!Reservable, Ws!Reserve, Kept!Reserve, Ws!At, Kept!At, Ws!Latest, Kept!Latest,
          Ws!ProvisionsClosed, Kept!ProvisionsClosed, Ws!Succeeded, Kept!Succeeded,
          Ws!CheckoutUsable, Kept!CheckoutUsable, Ws!Bring, Kept!Bring, Ws!AbortAdmission,
          Kept!AbortAdmission, Ws!SubmitOperation, Kept!SubmitOperation, Ws!Closed, Kept!Closed,
          Ws!NamedRefs, Kept!NamedRefs, Ws!Pinned, Kept!Pinned, Ws!Works, Kept!Works,
          Ws!SourceRecorded, Kept!SourceRecorded, Ws!WorktreeAdded, Kept!WorktreeAdded, Ws!Advance,
          Kept!Advance, Ws!CaptureRecordFirst, Kept!CaptureRecordFirst, Ws!ReleaseRecorded,
          Kept!ReleaseRecorded, Ws!WorktreeRemoved, Kept!WorktreeRemoved, Ws!DeleteRefs,
          Kept!DeleteRefs, Ws!Away, Kept!Away, Ws!RestoreObligation, Kept!RestoreObligation,
          Ws!SettleCheckpoint, Kept!SettleCheckpoint, Ws!AwaitVerification, Kept!AwaitVerification,
          Ws!RunCapture, Kept!RunCapture, Ws!RecordCaptureReceipt, Kept!RecordCaptureReceipt,
          Ws!CloseCaptured, Kept!CloseCaptured, Ws!MayRelease, Kept!MayRelease, Ws!BringAttempt,
          Kept!BringAttempt, Ws!Accomplished, Kept!Accomplished, Ws!SealExpired, Kept!SealExpired,
          Ws!TaskAbsent, Kept!TaskAbsent, Ws!AdmissionsProvisions, Kept!AdmissionsProvisions,
          Ws!Waiting, Kept!Waiting, Ws!Observed, Kept!Observed, Ws!Proven, Kept!Proven,
          Ws!PredecessorClosed, Kept!PredecessorClosed, Ws!Attempts, Kept!Attempts, Ws!Current,
          Kept!Current
  <1>3. /\ Ws!WsTypeOK <=> Kept!WsTypeOK
        /\ Ws!WorkspaceIsSafe <=> Kept!WorkspaceIsSafe
    BY DEF Ws!WsTypeOK, Kept!WsTypeOK, Ws!WorkspaceIsSafe, Kept!WorkspaceIsSafe, Ws!Subjects,
          Kept!Subjects, Ws!Nothing, Kept!Nothing, Ws!Dispositions, Kept!Dispositions, Ws!HelperIds,
          Kept!HelperIds, Ws!Writers, Kept!Writers, Ws!Uses, Kept!Uses, Ws!SoleOccupant,
          Kept!SoleOccupant, Ws!CaptureIsComplete, Kept!CaptureIsComplete, Ws!NothingIsLost,
          Kept!NothingIsLost, Ws!RefsAreKnown, Kept!RefsAreKnown, Ws!Occupants, Kept!Occupants,
          Ws!Closed, Kept!Closed, Ws!InSnapshot, Kept!InSnapshot, Ws!Proven, Kept!Proven,
          Ws!NamedRefs, Kept!NamedRefs, Ws!Cardinality, Kept!Cardinality
  <1> QED BY <1>1, <1>2, <1>3

\* What is said of a workspace comes from one invariant.
LEMMA WorkspaceIsKept ==
  ASSUME Nil \notin Processes
  PROVE  /\ Init => (focus = "workspace" => Kept!WsInv)
         /\ (focus = "workspace" => Kept!WsInv) /\ [Next]_vars =>
              (focus = "workspace" => Kept!WsInv)'
         /\ (focus = "workspace" => Kept!WsInv) => (focus = "workspace" =>
                 Ws!WsTypeOK /\ Ws!WorkspaceIsSafe)
  <1>1. /\ Kept!WsInit => Kept!WsInv
        /\ Kept!WsInv /\ [Kept!WsNext]_Kept!wsVars => Kept!WsInv'
        /\ Kept!WsInv => Kept!WsTypeOK /\ Kept!WorkspaceIsSafe
    <2>1. 2 \in Nat /\ 1 \in Nat \ {0}
      OBVIOUS
    <2> QED BY <2>1, Kept!WorkspaceInductive
  <1>2. Init => (focus = "workspace" => Kept!WsInv)
    BY <1>1, WorkspaceIsTheSame DEF Init
  <1>3. ASSUME focus = "workspace" => Kept!WsInv, [Next]_vars, focus' = "workspace"
        PROVE  Kept!WsInv'
    <2>1. focus = "workspace" /\ (Ws!WsNext \/ UNCHANGED vars)
      BY <1>3 DEF Next, AtRest, vars
    <2>2. [Kept!WsNext]_Kept!wsVars
      BY <2>1, WorkspaceIsTheSame DEF vars, Kept!wsVars
    <2> QED BY <1>1, <1>3, <2>1, <2>2
  <1>4. (focus = "workspace" => Kept!WsInv) => (focus = "workspace" =>
             Ws!WsTypeOK /\ Ws!WorkspaceIsSafe)
    BY <1>1, WorkspaceIsTheSame
  <1> QED BY <1>2, <1>3, <1>4

\* The files of a task are the same.
LEMMA DirectoryIsTheSame ==
  /\ Dir!DirInit <=> Kept!DirInit
  /\ Dir!DirNext <=> Kept!DirNext
  /\ Dir!DirTypeOK <=> Kept!DirTypeOK
  /\ Dir!OutcomeHolds <=> Kept!OutcomeHolds
  /\ Dir!TaskStartsOnce <=> Kept!TaskStartsOnce
  <1>1. Dir!DirInit <=> Kept!DirInit
    BY DEF Dir!DirInit, Kept!DirInit, Dir!Files, Kept!Files, Dir!Absent, Kept!Absent, Dir!Nobody,
          Kept!Nobody, Dir!Actors, Kept!Actors, Dir!IdleActor, Kept!IdleActor, Dir!TaskFiles,
          Kept!TaskFiles, Dir!RecheckFiles, Kept!RecheckFiles, Dir!PreparedSet, Kept!PreparedSet
  <1>2. Dir!DirNext <=> Kept!DirNext
    BY DEF Dir!DirNext, Kept!DirNext, Dir!Actors, Kept!Actors, Dir!CreateTaskContext,
          Kept!CreateTaskContext, Dir!Admit, Kept!Admit, Dir!PrepareSet, Kept!PrepareSet,
          Dir!PrepareStart, Kept!PrepareStart, Dir!Launch, Kept!Launch, Dir!WriteRaw, Kept!WriteRaw,
          Dir!CloseRaw, Kept!CloseRaw, Dir!ImportOutput, Kept!ImportOutput, Dir!Seal, Kept!Seal,
          Dir!Finalize, Kept!Finalize, Dir!ReleaseLease, Kept!ReleaseLease, Dir!CollectContext,
          Kept!CollectContext, Dir!CollectOwned, Kept!CollectOwned, Dir!Recheck, Kept!Recheck,
          Dir!Stage, Kept!Stage, Dir!Link, Kept!Link, Dir!SyncDir, Kept!SyncDir, Dir!Unlink,
          Kept!Unlink, Dir!PublishFails, Kept!PublishFails, Dir!ProcessDies, Kept!ProcessDies,
          Dir!Scavenge, Kept!Scavenge, Dir!PowerFails, Kept!PowerFails, Dir!AtStep, Kept!AtStep,
          Dir!BarrierDir, Kept!BarrierDir, Dir!TaskFiles, Kept!TaskFiles, Dir!Nobody, Kept!Nobody,
          Dir!Preparable, Kept!Preparable, Dir!Go, Kept!Go, Dir!Return, Kept!Return, Dir!Exists,
          Kept!Exists, Dir!PublishRecord, Kept!PublishRecord, Dir!Prepared, Kept!Prepared,
          Dir!Absent, Kept!Absent, Dir!Faulty, Kept!Faulty, Dir!Contents, Kept!Contents,
          Dir!SealIsValid, Kept!SealIsValid, Dir!IdleActor, Kept!IdleActor, Dir!ReleaseLocks,
          Kept!ReleaseLocks, Dir!WinnerIsValid, Kept!WinnerIsValid, Dir!Acknowledge,
          Kept!Acknowledge, Dir!PayloadOf, Kept!PayloadOf, Dir!Verdict, Kept!Verdict, Dir!Recovered,
          Kept!Recovered, Dir!RecheckFiles, Kept!RecheckFiles, Dir!Files, Kept!Files, Dir!FolderOf,
          Kept!FolderOf, Dir!PreparedSet, Kept!PreparedSet
  <1>3. /\ Dir!DirTypeOK <=> Kept!DirTypeOK
        /\ Dir!OutcomeHolds <=> Kept!OutcomeHolds
        /\ Dir!TaskStartsOnce <=> Kept!TaskStartsOnce
    BY DEF Dir!DirTypeOK, Kept!DirTypeOK, Dir!OutcomeHolds, Kept!OutcomeHolds, Dir!TaskStartsOnce,
          Kept!TaskStartsOnce, Dir!Files, Kept!Files, Dir!Contents, Kept!Contents, Dir!Absent,
          Kept!Absent, Dir!Actors, Kept!Actors, Dir!Nobody, Kept!Nobody, Dir!Actor, Kept!Actor,
          Dir!ReportsStand, Kept!ReportsStand, Dir!OutcomeIsBacked, Kept!OutcomeIsBacked,
          Dir!PreparedSet, Kept!PreparedSet, Dir!Exists, Kept!Exists, Dir!AtStep, Kept!AtStep,
          Dir!TaskFiles, Kept!TaskFiles, Dir!RecheckFiles, Kept!RecheckFiles, Dir!WinnerIsValid,
          Kept!WinnerIsValid, Dir!PayloadOf, Kept!PayloadOf, Dir!Verdict, Kept!Verdict
  <1> QED BY <1>1, <1>2, <1>3

\* What is said of the files of a task comes from one invariant.
LEMMA DirectoryIsKept ==
  ASSUME "nobody" \notin Processes \cup Objects
  PROVE  /\ Init => (focus = "directory" => Kept!DirInv)
         /\ (focus = "directory" => Kept!DirInv) /\ [Next]_vars =>
              (focus = "directory" => Kept!DirInv)'
         /\ (focus = "directory" => Kept!DirInv) => (focus = "directory" =>
                 Dir!DirTypeOK /\ Dir!OutcomeHolds /\ Dir!TaskStartsOnce)
  <1>1. /\ Kept!DirInit => Kept!DirInv
        /\ Kept!DirInv /\ [Kept!DirNext]_Kept!dirVars => Kept!DirInv'
        /\ Kept!DirInv => Kept!DirTypeOK /\ Kept!OutcomeHolds /\ Kept!TaskStartsOnce
    <2>1. 2 \in Nat /\ Kept!Absent \notin {"q1", "q2"} /\ Kept!Nobody \notin Kept!Actors
      BY DEF Kept!Absent, Kept!Nobody, Kept!Actors
    <2> QED BY <2>1, Kept!DirInductive
  <1>2. Init => (focus = "directory" => Kept!DirInv)
    BY <1>1, DirectoryIsTheSame DEF Init
  <1>3. ASSUME focus = "directory" => Kept!DirInv, [Next]_vars, focus' = "directory"
        PROVE  Kept!DirInv'
    <2>1. focus = "directory" /\ (Dir!DirNext \/ UNCHANGED vars)
      BY <1>3 DEF Next, AtRest, vars
    <2>2. [Kept!DirNext]_Kept!dirVars
      BY <2>1, DirectoryIsTheSame DEF vars, Kept!dirVars
    <2> QED BY <1>1, <1>3, <2>1, <2>2
  <1>4. (focus = "directory" => Kept!DirInv) => (focus = "directory" =>
             Dir!DirTypeOK /\ Dir!OutcomeHolds /\ Dir!TaskStartsOnce)
    BY <1>1, DirectoryIsTheSame
  <1> QED BY <1>2, <1>3, <1>4

\* A checkpoint that is reported is pinned, one that is reported removed is gone for good, and
\* removals are serial, for any set of commands: CheckpointIsTrue is an invariant of MCTasks.
THEOREM CheckpointSoundness ==
  Spec => []CheckpointIsTrue
  <1> DEFINE Inv == focus = "checkpoint" => Kept!CheckpointInv
  <1>1. Init => Inv
    BY CheckpointIsKept
  <1>2. Inv /\ [Next]_vars => Inv'
    BY CheckpointIsKept
  <1>3. Inv => CheckpointIsTrue
    BY CheckpointIsKept DEF CheckpointIsTrue
  <1> QED BY <1>1, <1>2, <1>3, PTL DEF Spec

\* A conversation is in the hands of one task at a time, and a proven release stays provable,
\* for any set of tasks and commands: ConversationIsSafe is an invariant of MCTasks.
THEOREM ConversationSoundness ==
  ASSUME Nil \notin Processes, Nil # "c1"
  PROVE  Spec => []ConversationIsSafe
  <1> DEFINE Inv == /\ focus = "continuation" => Kept!ContInv
                    /\ focus = "continuationCrash" => CrashKept!ContInv
                    /\ focus = "continuationRace" => RaceKept!ContInv
  <1>1. Init => Inv
    BY ConversationIsKept, CrashIsKept, RaceIsKept
  <1>2. Inv /\ [Next]_vars => Inv'
    BY ConversationIsKept, CrashIsKept, RaceIsKept
  <1>3. Inv => ConversationIsSafe
    BY ConversationIsKept, CrashIsKept, RaceIsKept DEF ConversationIsSafe
  <1> QED BY <1>1, <1>2, <1>3, PTL DEF Spec

\* A Pi run is committed only with the text of its last cycle and without a stated failure,
\* and both revisions agree: PiIsTrue is an invariant of MCTasks.
THEOREM PiSoundness ==
  Spec => []PiIsTrue
  <1> DEFINE Inv == focus = "pi" => Kept!PiInv
  <1>1. Init => Inv
    BY PiIsKept
  <1>2. Inv /\ [Next]_vars => Inv'
    BY PiIsKept
  <1>3. Inv => PiIsTrue
    BY PiIsKept DEF PiIsTrue
  <1> QED BY <1>1, <1>2, <1>3, PTL DEF Spec

\* One process at a time is in a worktree, a captured use has all that was written in it, what is
\* removed was captured or given up, and every ref is known: WorkspaceIsSafe is an invariant of
\* MCTasks.
THEOREM WorkspaceSoundness ==
  ASSUME Nil \notin Processes
  PROVE  Spec => []WorkspaceIsSafe
  <1> DEFINE Inv == focus = "workspace" => Kept!WsInv
  <1>1. Init => Inv
    BY WorkspaceIsKept
  <1>2. Inv /\ [Next]_vars => Inv'
    BY WorkspaceIsKept
  <1>3. Inv => WorkspaceIsSafe
    BY WorkspaceIsKept DEF WorkspaceIsSafe
  <1> QED BY <1>1, <1>2, <1>3, PTL DEF Spec

\* What was told of an outcome stays, an outcome that can be read rests on records that are on
\* disk, and a task starts once: TaskRecordsHold is an invariant of MCTasks.
THEOREM RecordsSoundness ==
  ASSUME "nobody" \notin Processes \cup Objects
  PROVE  Spec => []TaskRecordsHold
  <1> DEFINE Inv == focus = "directory" => Kept!DirInv
  <1>1. Init => Inv
    BY DirectoryIsKept
  <1>2. Inv /\ [Next]_vars => Inv'
    BY DirectoryIsKept
  <1>3. Inv => TaskRecordsHold
    BY DirectoryIsKept DEF TaskRecordsHold
  <1> QED BY <1>1, <1>2, <1>3, PTL DEF Spec
=============================================================================

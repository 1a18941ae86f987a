------------------------- MODULE ControlProofs ------------------------------
(***************************************************************************)
(* Theorems about how processes share the private supervisor, for any      *)
(* number of processes, rows, requests and faults: the wake-ups of the     *)
(* queue maintenance, commands that outlive their callers, the lock of the *)
(* queue's identity, and the election of the one infrastructure owner of a *)
(* state root.  For each component an inductive invariant says who holds   *)
(* what at which step and what follows; one lemma for each group of steps  *)
(* with the same effect shows that they keep it.                           *)
(***************************************************************************)
EXTENDS QueueMaintenance, ControlOwner, QueueLocks, OwnerElection, SequenceTheorems, TLAPS

--------------------
(* The wake-ups of the queue maintenance.                                  *)

Elected == {"elected", "begin", "clean", "finish", "unlock"}
InPass == {"clean", "finish"}

\* The lock belongs to the one process that acts as maintainer.
OneMaintainer ==
    \A r \in EndedRows : caller[r].at \in Elected <=> maintainer = r

\* A pass is for the requests counted when it began; nobody else completes any
\* while it lasts.
PassIsCurrent ==
    /\ \A r \in EndedRows : caller[r].at \in InPass =>
          /\ caller[r].passTarget <= wake.requested
          /\ wake.attempted <= caller[r].passTarget /\ fullStarts <= caller[r].passTarget
          /\ caller[r].at = "clean" /\ ~ caller[r].full =>
                \/ wake.fullRequested <= wake.fullCompleted
                \/ wake.fullRequested > caller[r].passTarget
    /\ fullStarts <= wake.requested

\* The callback of row r has counted its request.
Asked(r) == caller[r].at \notin {"live", "event", "request"}

\* An ended row that was asked for is known to the next pass, and a request that was not
\* attempted has somebody to serve it.
Promised ==
    /\ \A r \in EndedRows :
          /\ caller[r].ok /\ caller[r].at # "dead"
          /\ caller[r].at \in {"live", "event"} => ~ caller[r].noted
    /\ wake.requested > wake.attempted =>
          \E r \in EndedRows : caller[r].at \in Elected \cup {"elect", "reread"}
    /\ \A r \in ended :
          /\ caller[r].at # "live"
          /\ At(r, "request") /\ caller[r].noted => r \in inbox
          /\ Asked(r) => /\ wake.requested > wake.attempted
                         /\ r \in inbox \/ wake.fullRequested > wake.fullCompleted
    /\ \A r \in EndedRows : At(r, "finish") =>
          \A x \in ended \ caller[r].captured : Asked(x) =>
              /\ wake.requested > caller[r].passTarget
              /\ x \in inbox \/ wake.fullRequested > caller[r].passTarget

\* That holds as long as nothing failed.
WakesAreServed == maintFaults = 0 => Promised

MaintInv == MaintTypeOK /\ CompletionIsTrue /\ OneMaintainer /\ PassIsCurrent /\ WakesAreServed

--------------------
(* Commands that outlive their callers.                                    *)

\* Somebody always holds the lock for caller c, its owner or its command.
LeaseHeld(c) ==
    /\ callPc[c] \in {"locked", "consumed", "observing", "inflight", "closing"} =>
          "caller" \in held[c]
    /\ ownerPc[c] \in {"reading", "running", "mute"} => "owner" \in held[c]
    /\ command[c] = "running" => ownerPc[c] \in {"running", "mute", "killed"}

\* One caller at a time, with all that runs on its behalf, has the lock.
LeasesExclude == \A c, d \in Callers : c # d => held[c] = {} \/ held[d] = {}

\* Nothing of a command exists before its owner was started, and the owner starts and
\* completes it once.
StagesInOrder(c) ==
    /\ callPc[c] \in {"idle", "locked", "consumed"} => ownerPc[c] = "none" /\ pending[c] = NoResult
    /\ ownerPc[c] \in {"none", "reading"} => command[c] = "none" /\ frames[c] = <<>>
    /\ ownerPc[c] \in {"running", "mute"} => Len(frames[c]) <= 1
    /\ pending[c] # NoResult => ownerPc[c] \in {"none", "exited", "killed"}
    /\ c \in released => pending[c] # NoResult

\* What an ended command's owner says of it.
Says(c, kind) ==
    /\ kind = "none" => command[c] = "succeeded"
    /\ kind = "exit" => command[c] = "failed"
    /\ kind = "start" => command[c] = "none"

\* What was said is true: on its way, once observed and when it is the result.
ReportsAreTrue(c) ==
    /\ \A i \in 1..Len(frames[c]) : frames[c][i].stage = "completed" =>
          ownerPc[c] = "exited" /\ Says(c, frames[c][i].kind)
    /\ seen[c].completed => ownerPc[c] = "exited" /\ Says(c, seen[c].err)
    /\ ~ seen[c].completed => seen[c].err \in {"none", "protocol"}
    /\ pending[c] # NoResult /\ ownerPc[c] # "killed" => Says(c, pending[c].err)

Sound(c) == LeaseHeld(c) /\ StagesInOrder(c) /\ ReportsAreTrue(c)

OwnerInv ==
    /\ OwnerTypeOK /\ frames \in [Callers -> Seq(Event)]
    /\ LeasesExclude
    /\ \A c \in Callers : Sound(c)

--------------------
(* The lock of the queue's identity.                                       *)

\* Who holds what at which step.
LocksByStep == \A c \in Clients :
    /\ lockPc[c] \in {"announce", "shut", "exclude", "writing", "withdraw", "close",
                      "clear", "recheckClear"} => intent = c
    /\ lockPc[c] = "writing" => identity[c] = "EX"
    /\ lockPc[c] = "reading" => identity[c] = "SH"

\* flock never grants an exclusive lock beside another.
FlockExcludes == \A c, d \in Clients :
    c # d /\ identity[c] = "EX" => identity[d] = "free"

\* A writer that has asked for the gate is announced.
IntentIsAnnounced == \A c \in Clients :
    lockPc[c] \in {"shut", "exclude", "writing"} => intentFile = "waiting"

LockInv == LockTypeOK /\ LocksByStep /\ FlockExcludes /\ IntentIsAnnounced

--------------------
(* Proofs: the lock of the queue's identity.                               *)

\* A client's step moves nobody else.
LEMMA StepMoves ==
  ASSUME LockTypeOK, NEW c \in Clients, NEW from, NEW to, Step(c, from, to)
  PROVE  /\ lockPc[c] = from /\ lockPc'[c] = to
         /\ \A d \in Clients : d # c => lockPc'[d] = lockPc[d]
  BY DEF Step, LockTypeOK

\* Every step keeps the types.
LEMMA LockTypesStay ==
  ASSUME LockTypeOK, [LockNext]_lockVars, MaxWrites \in Nat, MaxLockFaults \in Nat
  PROVE  LockTypeOK'
  <1> USE DEF LockTypeOK
  <1>1. CASE UNCHANGED lockVars BY <1>1 DEF lockVars
  <1>2. ASSUME NEW c \in Clients, Begin(c) PROVE LockTypeOK'
    BY <1>2 DEF Begin, Step, ReaderSteps, WriterSteps
  <1>3. ASSUME NEW c \in Clients,
               WaitForQueueWriter(c) \/ ClearStaleIntent(c) \/ PassGate(c) \/ ShareIdentity(c)
                 \/ EndReading(c)
        PROVE  LockTypeOK'
    BY <1>3 DEF WaitForQueueWriter, ClearStaleIntent, PassGate, ShareIdentity, EndReading, Step,
       ReaderSteps, WriterSteps
  <1>4. ASSUME NEW c \in Clients,
               TakeIntent(c) \/ AnnounceIntent(c) \/ ShutGate(c) \/ ExcludeIdentity(c)
                 \/ EndWriting(c) \/ WithdrawIntent(c) \/ CloseIntent(c)
        PROVE  LockTypeOK'
    BY <1>4 DEF TakeIntent, AnnounceIntent, ShutGate, ExcludeIdentity, EndWriting,
       WithdrawIntent, CloseIntent, Step, ReaderSteps, WriterSteps
  <1>5. ASSUME NEW c \in Clients, OrphanEnds(c) \/ LockCrash(c) PROVE LockTypeOK'
    BY <1>5 DEF OrphanEnds, LockCrash, Unlock, Step
  <1> QED BY <1>1, <1>2, <1>3, <1>4, <1>5 DEF LockNext, Proceed

\* A reader's steps.
LEMMA ReaderKeeps ==
  ASSUME LockInv, LockTypeOK', NoClient \notin Clients, NEW c \in Clients,
         Begin(c) \/ WaitForQueueWriter(c) \/ ClearStaleIntent(c) \/ PassGate(c)
           \/ ShareIdentity(c) \/ EndReading(c)
  PROVE  LockInv'
  <1> USE DEF LockInv
  <1>1. CASE Begin(c) \/ PassGate(c)
    <2>1. /\ UNCHANGED <<intentFile, intent, identity>>
          /\ \/ lockPc'[c] \in {"look", "intent", "recheck"}
          /\ \A d \in Clients : d # c => lockPc'[d] = lockPc[d]
      BY <1>1, StepMoves DEF Begin, PassGate
    <2> QED BY <2>1 DEF LocksByStep, FlockExcludes, IntentIsAnnounced
  <1>2. CASE WaitForQueueWriter(c)
    <2>1. /\ UNCHANGED <<intentFile, identity>>
          /\ \/ lockPc'[c] \in {"gate", "share", "look"} /\ UNCHANGED intent
             \/ lockPc'[c] \in {"clear", "recheckClear"} /\ intent = NoClient /\ intent' = c
          /\ \A d \in Clients : d # c => lockPc'[d] = lockPc[d]
      BY <1>2, StepMoves DEF WaitForQueueWriter
    <2> QED BY <2>1 DEF LocksByStep, FlockExcludes, IntentIsAnnounced
  <1>3. CASE ClearStaleIntent(c)
    <2>1. /\ UNCHANGED identity /\ intent' = NoClient
          /\ lockPc[c] \in {"clear", "recheckClear"} /\ lockPc'[c] \in {"gate", "share"}
          /\ \A d \in Clients : d # c => lockPc'[d] = lockPc[d]
      BY <1>3, StepMoves DEF ClearStaleIntent
    <2>2. intent = c
      BY <2>1 DEF LocksByStep
    <2> QED BY <2>1, <2>2 DEF LocksByStep, FlockExcludes, IntentIsAnnounced
  <1>4. CASE ShareIdentity(c) \/ EndReading(c)
    <2>1. /\ UNCHANGED <<intentFile, intent>>
          /\ \/ lockPc'[c] = "reading" /\ identity'[c] = "SH"
                /\ \A d \in Clients : d # c => identity[d] # "EX"
             \/ lockPc'[c] = "idle" /\ identity'[c] = "free"
          /\ \A d \in Clients : d # c => lockPc'[d] = lockPc[d] /\ identity'[d] = identity[d]
      BY <1>4, StepMoves DEF ShareIdentity, EndReading, Compatible, LockTypeOK
    <2> QED BY <2>1 DEF LocksByStep, FlockExcludes, IntentIsAnnounced
  <1> QED BY <1>1, <1>2, <1>3, <1>4

\* A writer's steps.
LEMMA WriterKeeps ==
  ASSUME LockInv, LockTypeOK', NoClient \notin Clients, NEW c \in Clients,
         TakeIntent(c) \/ AnnounceIntent(c) \/ ShutGate(c) \/ ExcludeIdentity(c)
           \/ EndWriting(c) \/ WithdrawIntent(c) \/ CloseIntent(c)
  PROVE  LockInv'
  <1> USE DEF LockInv
  <1>1. CASE TakeIntent(c)
    <2>1. /\ UNCHANGED <<intentFile, identity>> /\ intent = NoClient /\ intent' = c
          /\ lockPc'[c] = "announce"
          /\ \A d \in Clients : d # c => lockPc'[d] = lockPc[d]
      BY <1>1, StepMoves DEF TakeIntent
    <2> QED BY <2>1 DEF LocksByStep, FlockExcludes, IntentIsAnnounced
  <1>2. CASE AnnounceIntent(c) \/ ShutGate(c)
    <2>1. /\ UNCHANGED <<identity, intent>> /\ lockPc[c] \in {"announce", "shut"}
          /\ \/ lockPc'[c] = "shut" /\ intentFile' = "waiting"
             \/ lockPc[c] = "shut" /\ lockPc'[c] = "exclude" /\ UNCHANGED intentFile
          /\ \A d \in Clients : d # c => lockPc'[d] = lockPc[d]
      BY <1>2, StepMoves DEF AnnounceIntent, ShutGate
    <2> QED BY <2>1 DEF LocksByStep, FlockExcludes, IntentIsAnnounced
  <1>3. CASE ExcludeIdentity(c)
    <2>1. /\ UNCHANGED <<intentFile, intent>>
          /\ lockPc[c] = "exclude" /\ lockPc'[c] = "writing" /\ identity'[c] = "EX"
          /\ \A d \in Clients : d # c => identity[d] = "free" /\ identity'[d] = identity[d]
          /\ \A d \in Clients : d # c => lockPc'[d] = lockPc[d]
      BY <1>3, StepMoves DEF ExcludeIdentity, Compatible, LockTypeOK
    <2> QED BY <2>1 DEF LocksByStep, FlockExcludes, IntentIsAnnounced
  <1>4. CASE EndWriting(c)
    <2>1. /\ UNCHANGED <<intentFile, intent>>
          /\ lockPc[c] = "writing" /\ lockPc'[c] = "withdraw" /\ identity'[c] = "free"
          /\ \A d \in Clients : d # c => lockPc'[d] = lockPc[d] /\ identity'[d] = identity[d]
      BY <1>4, StepMoves DEF EndWriting, LockTypeOK
    <2> QED BY <2>1 DEF LocksByStep, FlockExcludes, IntentIsAnnounced
  <1>5. CASE WithdrawIntent(c) \/ CloseIntent(c)
    <2>1. /\ UNCHANGED identity /\ lockPc[c] \in {"withdraw", "close"}
          /\ \/ lockPc'[c] = "close" /\ UNCHANGED intent
             \/ lockPc'[c] = "idle" /\ UNCHANGED intentFile
          /\ \A d \in Clients : d # c => lockPc'[d] = lockPc[d]
      BY <1>5, StepMoves DEF WithdrawIntent, CloseIntent
    <2>2. intent = c
      BY <2>1 DEF LocksByStep
    <2> QED BY <2>1, <2>2 DEF LocksByStep, FlockExcludes, IntentIsAnnounced
  <1> QED BY <1>1, <1>2, <1>3, <1>4, <1>5

\* A client dies, alone or leaving a command behind, and that command ends.
LEMMA DeathKeeps ==
  ASSUME LockInv, LockTypeOK', NoClient \notin Clients, NEW c \in Clients,
         LockCrash(c) \/ OrphanEnds(c)
  PROVE  LockInv'
  <1> USE DEF LockInv
  <1>1. /\ UNCHANGED intentFile /\ lockPc'[c] \in {"idle", "orphan"}
        /\ intent' = intent \/ (intent = c /\ intent' = NoClient)
        /\ identity'[c] \in {identity[c], "free"}
        /\ \A d \in Clients : d # c => lockPc'[d] = lockPc[d] /\ identity'[d] = identity[d]
    BY StepMoves DEF LockCrash, OrphanEnds, Unlock, LockTypeOK
  <1> QED BY <1>1 DEF LocksByStep, FlockExcludes, IntentIsAnnounced

\* LockInv is an invariant of the queue's locks.
THEOREM LockInvariant ==
  ASSUME NoClient \notin Clients, MaxWrites \in Nat, MaxLockFaults \in Nat
  PROVE  LockSpec => []LockInv
  <1>1. LockInit => LockInv
    BY DEF LockInit, LockInv, LockTypeOK, LocksByStep, FlockExcludes, IntentIsAnnounced
  <1>2. LockInv /\ [LockNext]_lockVars => LockInv'
    <2> SUFFICES ASSUME LockInv, [LockNext]_lockVars PROVE LockInv'
      OBVIOUS
    <2>1. LockTypeOK'
      BY LockTypesStay DEF LockInv
    <2>2. CASE UNCHANGED lockVars
      BY <2>1, <2>2 DEF lockVars, LockInv, LocksByStep, FlockExcludes, IntentIsAnnounced
    <2>3. CASE \E c \in Clients : Begin(c) \/ Proceed(c) \/ LockCrash(c)
      BY <2>1, <2>3, ReaderKeeps, WriterKeeps, DeathKeeps DEF Proceed
    <2> QED BY <2>2, <2>3 DEF LockNext
  <1> QED BY <1>1, <1>2, PTL DEF LockSpec

\* A reader never uses the queue beside a writer, and a writer at work is announced,
\* for any number of clients, writes and deaths (withPrivateQueueIdentityMutation).
THEOREM WritersExclude ==
  ASSUME NoClient \notin Clients, MaxWrites \in Nat, MaxLockFaults \in Nat
  PROVE  LockSpec => []WriterExcludes
  <1>1. LockInv => WriterExcludes
    BY DEF LockInv, LocksByStep, FlockExcludes, IntentIsAnnounced, WriterExcludes
  <1>2. LockSpec => []LockInv
    BY LockInvariant
  <1> QED BY <1>1, <1>2, PTL

--------------------
(* Proofs: commands that outlive their callers.                            *)

\* The types, what is written on its own.
FrameTypes ==
    /\ frames \in [Callers -> Seq(Event)]
    /\ \A c \in Callers : Len(frames[c]) <= 2
PlainTypes ==
    /\ callPc \in [Callers -> {"idle", "locked", "consumed", "observing", "inflight", "closing",
                               "done", "dead"}]
    /\ held \in [Callers -> SUBSET {"caller", "owner"}]
    /\ ownerPc \in [Callers -> {"none", "reading", "running", "mute", "exited", "killed"}]
    /\ command \in [Callers -> {"none", "running", "succeeded", "failed", "signalled"}]
    /\ seen \in [Callers -> Results] /\ pending \in [Callers -> Results]
    /\ released \subseteq Callers
    /\ ownerFaults \in 0..MaxOwnerFaults

\* The typing of the owner's state is that of its parts, the frames apart.
LEMMA OwnerTypes ==
  FrameTypes /\ PlainTypes <=> OwnerTypeOK /\ frames \in [Callers -> Seq(Event)]
  <1>1. FrameTypes => \A c \in Callers : \A i \in 1..Len(frames[c]) : frames[c][i] \in Event
    BY DEF FrameTypes
  <1> QED BY <1>1 DEF FrameTypes, PlainTypes, OwnerTypeOK

\* A step of caller c, its owner or its command touches nobody else, and opens a
\* descriptor only where the lock was taken or free.
MovesOnly(c) ==
    /\ \A d \in Callers : d # c =>
          /\ callPc'[d] = callPc[d] /\ held'[d] = held[d] /\ ownerPc'[d] = ownerPc[d]
          /\ command'[d] = command[d] /\ frames'[d] = frames[d] /\ seen'[d] = seen[d]
          /\ pending'[d] = pending[d] /\ (d \in released' <=> d \in released)
    /\ held'[c] = {} \/ held[c] # {} \/ \A d \in Callers : held[d] = {}

\* The results that the steps make are results.
LEMMA ResultsStay ==
  ASSUME NEW r \in Results
  PROVE  /\ NoResult \in Results
         /\ [NoResult EXCEPT !.completed = TRUE, !.err = "start"] \in Results
         /\ [r EXCEPT !.completed = TRUE] \in Results /\ [r EXCEPT !.started = TRUE] \in Results
         /\ [r EXCEPT !.err = "protocol"] \in Results
         /\ \A kind \in {"none", "exit", "start", "wait"} :
               [r EXCEPT !.completed = TRUE, !.err = kind] \in Results
  BY DEF Results, NoResult

\* Every step keeps the types: the caller.
LEMMA CallerTypesStay ==
  ASSUME FrameTypes, PlainTypes, MaxOwnerFaults \in Nat, NEW c \in Callers,
         AcquireLock(c) \/ ConsumePrepared(c) \/ StartOwner(c) \/ StartOwnerFails(c)
           \/ RequestLost(c) \/ CompletePending(c) \/ ObservationTimeout(c) \/ CloseClient(c)
           \/ ReleaseRetainedLock(c) \/ CallerCrash(c) \/ OwnerCrash(c) \/ CommandEnds(c)
  PROVE  FrameTypes' /\ PlainTypes'
  <1>1. FrameTypes'
    <2>1. UNCHANGED frames \/ frames' = [frames EXCEPT ![c] = <<>>]
      BY DEF AcquireLock, ConsumePrepared, StartOwner, StartOwnerFails, RequestLost,
         CompletePending, ObservationTimeout, CloseClient, ReleaseRetainedLock, CallerCrash,
         OwnerCrash, CommandEnds
    <2>2. <<>> \in Seq(Event) /\ Len(<<>>) <= 2
      OBVIOUS
    <2> QED BY <2>1, <2>2 DEF FrameTypes
  <1>2. /\ seen[c] \in Results /\ pending[c] \in Results
    BY DEF PlainTypes
  <1>3. CASE AcquireLock(c) BY <1>1, <1>3 DEF AcquireLock, CallerStep, PlainTypes
  <1>4. CASE ConsumePrepared(c)
    <2>1. PICK p \in Results : pending' = pending \/ pending' = [pending EXCEPT ![c] = p]
      BY <1>2, <1>4, ResultsStay DEF ConsumePrepared
    <2> QED BY <1>1, <1>4, <2>1 DEF ConsumePrepared, CallerStep, PlainTypes
  <1>5. CASE StartOwner(c) BY <1>1, <1>5 DEF StartOwner, CallerStep, PlainTypes
  <1>6. CASE StartOwnerFails(c)
    <2>1. PICK p \in Results : pending' = [pending EXCEPT ![c] = p]
      BY <1>2, <1>6, ResultsStay DEF StartOwnerFails
    <2> QED BY <1>1, <1>6, <2>1 DEF StartOwnerFails, CallerStep, OwnerFault, PlainTypes
  <1>7. CASE RequestLost(c)
    <2>1. PICK s \in Results : seen' = [seen EXCEPT ![c] = s]
      BY <1>2, <1>7, ResultsStay DEF RequestLost
    <2> QED BY <1>1, <1>7, <2>1 DEF RequestLost, OwnerFault, PlainTypes
  <1>8. CASE CompletePending(c) BY <1>1, <1>2, <1>8, ResultsStay DEF CompletePending, PlainTypes
  <1>9. CASE ObservationTimeout(c) BY <1>1, <1>9 DEF ObservationTimeout, CallerStep, PlainTypes
  <1>10. CASE CloseClient(c) BY <1>1, <1>10 DEF CloseClient, CallerStep, PlainTypes
  <1>11. CASE ReleaseRetainedLock(c) BY <1>1, <1>11 DEF ReleaseRetainedLock, CallerStep, PlainTypes
  <1>12. CASE CallerCrash(c) BY <1>1, <1>12 DEF CallerCrash, OwnerFault, PlainTypes
  <1>13. CASE OwnerCrash(c) BY <1>1, <1>13 DEF OwnerCrash, OwnerFault, PlainTypes
  <1>14. CASE CommandEnds(c) BY <1>1, <1>14 DEF CommandEnds, PlainTypes
  <1> QED BY <1>1, <1>3, <1>4, <1>5, <1>6, <1>7, <1>8, <1>9, <1>10, <1>11, <1>12, <1>13, <1>14

\* Every step keeps the types: what the owner writes and the caller reads.
LEMMA ReportTypesStay ==
  ASSUME FrameTypes, PlainTypes, \A d \in Callers : Sound(d), MaxOwnerFaults \in Nat,
         NEW c \in Callers,
         OwnerRefuses(c) \/ OwnerStartsCommand(c) \/ OwnerCompletes(c) \/ ReadEvent(c)
           \/ ReadEOF(c)
  PROVE  FrameTypes' /\ PlainTypes'
  <1>1. ASSUME NEW stage \in {"started", "completed"},
               NEW kind \in {"none", "exit", "start", "wait"},
               Written(c, stage, kind), Len(frames[c]) <= 1
        PROVE  FrameTypes'
    <2>1. [stage |-> stage, kind |-> kind] \in Event
      BY DEF Event
    <2>2. PICK e \in Event : frames' = [frames EXCEPT ![c] = Append(@, e)]
      BY <1>1, <2>1 DEF Written
    <2>3. frames[c] \in Seq(Event)
      BY DEF FrameTypes
    <2>4. Append(frames[c], e) \in Seq(Event) /\ Len(Append(frames[c], e)) <= 2
      BY <1>1, <2>3
    <2> QED BY <2>2, <2>4 DEF FrameTypes
  <1>2. CASE OwnerRefuses(c) \/ OwnerStartsCommand(c) \/ OwnerCompletes(c)
    <2>1. /\ ownerPc[c] \in {"reading", "running", "mute"}
          /\ UNCHANGED <<callPc, seen, pending, released>>
      BY <1>2 DEF OwnerRefuses, OwnerStartsCommand, OwnerCompletes
    <2>2. \/ UNCHANGED frames /\ Unwritten(c)
          \/ UNCHANGED <<frames, ownerFaults>>
          \/ \E stage \in {"started", "completed"} :
                \E kind \in {"none", "exit", "start", "wait"} : Written(c, stage, kind)
      BY <1>2 DEF OwnerRefuses, OwnerStartsCommand, OwnerCompletes, Unwritten, RecordKind
    <2>3. ownerFaults' \in 0..MaxOwnerFaults
      BY <2>2 DEF Unwritten, OwnerFault, Written, PlainTypes
    <2>4. PlainTypes'
      BY <1>2, <2>1, <2>3 DEF OwnerRefuses, OwnerStartsCommand, OwnerCompletes, OwnerExits,
         PlainTypes
    <2>5. CASE UNCHANGED frames BY <2>4, <2>5 DEF FrameTypes
    <2>6. CASE frames' # frames
      <3>1. ownerPc[c] # "mute"
        BY <1>2, <2>6 DEF OwnerRefuses, OwnerStartsCommand, OwnerCompletes
      <3>2. Len(frames[c]) <= 1
        BY <2>1, <3>1 DEF Sound, StagesInOrder
      <3> QED BY <1>1, <2>2, <2>4, <2>6, <3>2
    <2> QED BY <2>5, <2>6
  <1>3. CASE ReadEvent(c)
    <2>1. /\ frames[c] \in Seq(Event) /\ frames[c] # <<>> /\ Len(frames[c]) <= 2
          /\ frames' = [frames EXCEPT ![c] = Tail(@)]
      BY <1>3 DEF ReadEvent, FrameTypes
    <2>2. Tail(frames[c]) \in Seq(Event) /\ Len(Tail(frames[c])) <= 2
      BY <2>1
    <2>3. FrameTypes'
      BY <2>1, <2>2 DEF FrameTypes
    <2>4. Head(frames[c]) \in Event /\ seen[c] \in Results
      BY <2>1 DEF PlainTypes
    <2>5. Head(frames[c]).kind \in {"none", "exit", "start", "wait"}
      BY <2>4 DEF Event
    <2>6. PICK s \in Results : seen' = [seen EXCEPT ![c] = s]
      BY <1>3, <2>4, <2>5, ResultsStay DEF ReadEvent
    <2>7. UNCHANGED <<callPc, held, ownerPc, command, pending, released, ownerFaults>>
      BY <1>3 DEF ReadEvent
    <2> QED BY <2>3, <2>6, <2>7 DEF PlainTypes
  <1>4. CASE ReadEOF(c)
    <2>1. seen[c] \in Results
      BY DEF PlainTypes
    <2> QED BY <1>4, <2>1, ResultsStay DEF ReadEOF, PlainTypes, FrameTypes
  <1> QED BY <1>2, <1>3, <1>4


\* What a step of c leaves alone stays sound, and the lock stays one caller's.
LEMMA OthersKeep ==
  ASSUME FrameTypes, PlainTypes, PlainTypes', LeasesExclude, \A d \in Callers : Sound(d),
         NEW c \in Callers, MovesOnly(c)
  PROVE  LeasesExclude' /\ \A d \in Callers : d # c => Sound(d)'
  <1>1. LeasesExclude'
    BY DEF MovesOnly, LeasesExclude
  <1>2. ASSUME NEW d \in Callers, d # c PROVE Sound(d)'
    <2>1. /\ callPc'[d] = callPc[d] /\ held'[d] = held[d] /\ ownerPc'[d] = ownerPc[d]
          /\ command'[d] = command[d] /\ frames'[d] = frames[d] /\ seen'[d] = seen[d]
          /\ pending'[d] = pending[d] /\ (d \in released' <=> d \in released)
      BY <1>2 DEF MovesOnly
    <2>2. Sound(d)
      OBVIOUS
    <2> QED BY <2>1, <2>2 DEF Sound, LeaseHeld, StagesInOrder, ReportsAreTrue, Says
  <1> QED BY <1>1, <1>2

\* The caller's own steps, the command's end and the deaths.
LEMMA CallerKeeps ==
  ASSUME FrameTypes, PlainTypes, FrameTypes', PlainTypes', NEW c \in Callers, Sound(c),
         AcquireLock(c) \/ ConsumePrepared(c) \/ StartOwner(c) \/ StartOwnerFails(c)
           \/ RequestLost(c) \/ ObservationTimeout(c) \/ CloseClient(c)
           \/ ReleaseRetainedLock(c) \/ CallerCrash(c) \/ OwnerCrash(c) \/ CommandEnds(c)
  PROVE  MovesOnly(c) /\ Sound(c)'
  <1>1. MovesOnly(c)
    <2>1. CASE AcquireLock(c) \/ ConsumePrepared(c) \/ StartOwner(c) \/ StartOwnerFails(c)
      BY <2>1 DEF AcquireLock, ConsumePrepared, StartOwner, StartOwnerFails, CallerStep, PlainTypes,
         FrameTypes, MovesOnly, Sound, LeaseHeld
    <2>2. CASE RequestLost(c) \/ ObservationTimeout(c) \/ CloseClient(c) \/ CommandEnds(c)
      BY <2>2 DEF RequestLost, ObservationTimeout, CloseClient, CommandEnds, CallerStep, PlainTypes,
         FrameTypes, MovesOnly
    <2>3. CASE ReleaseRetainedLock(c) \/ CallerCrash(c) \/ OwnerCrash(c)
      BY <2>3 DEF ReleaseRetainedLock, CallerCrash, OwnerCrash, CallerStep, PlainTypes,
         FrameTypes, MovesOnly
    <2> QED BY <2>1, <2>2, <2>3
  <1> SUFFICES Sound(c)'
    BY <1>1
  <1> USE DEF Sound, LeaseHeld, StagesInOrder, ReportsAreTrue, Says
  <1>2. CASE AcquireLock(c) BY <1>2 DEF AcquireLock, CallerStep, PlainTypes
  <1>3. CASE ConsumePrepared(c)
    <2>1. /\ callPc[c] = "locked" /\ callPc'[c] \in {"consumed", "closing"}
          /\ UNCHANGED <<held, ownerPc, command, frames, seen, released>>
      BY <1>3 DEF ConsumePrepared, CallerStep, PlainTypes
    <2>2. \/ pending'[c] = pending[c]
          \/ callPc'[c] = "closing" /\ pending'[c].err = "start" /\ pending'[c] # NoResult
      <3>1. PICK r : r.err = "start" /\ r # NoResult
                       /\ r = [NoResult EXCEPT !.completed = TRUE, !.err = "start"]
        BY DEF NoResult
      <3>2. CASE UNCHANGED pending BY <3>2
      <3>3. CASE pending' # pending
        <4>1. callPc' = [callPc EXCEPT ![c] = "closing"] /\ pending' = [pending EXCEPT ![c] = r]
          BY <1>3, <3>1, <3>3 DEF ConsumePrepared, CallerStep
        <4> QED BY <3>1, <4>1 DEF PlainTypes
      <3> QED BY <3>2, <3>3
    <2> QED BY <2>1, <2>2
  <1>4. CASE StartOwner(c) BY <1>4 DEF StartOwner, CallerStep, PlainTypes
  <1>5. CASE StartOwnerFails(c) BY <1>5 DEF StartOwnerFails, CallerStep, PlainTypes, NoResult
  <1>6. CASE RequestLost(c) BY <1>6 DEF RequestLost, PlainTypes, Results
  <1>7. CASE ObservationTimeout(c) \/ CloseClient(c)
    BY <1>7 DEF ObservationTimeout, CloseClient, CallerStep, PlainTypes
  <1>8. CASE ReleaseRetainedLock(c) BY <1>8 DEF ReleaseRetainedLock, CallerStep, PlainTypes
  <1>9. CASE CallerCrash(c) BY <1>9 DEF CallerCrash, PlainTypes, FrameTypes
  <1>10. CASE OwnerCrash(c) BY <1>10 DEF OwnerCrash, PlainTypes
  <1>11. CASE CommandEnds(c) BY <1>11 DEF CommandEnds, PlainTypes
  <1> QED BY <1>2, <1>3, <1>4, <1>5, <1>6, <1>7, <1>8, <1>9, <1>10, <1>11

\* What the owner writes, and what the caller makes of it.
LEMMA ReportKeeps ==
  ASSUME FrameTypes, PlainTypes, FrameTypes', PlainTypes', NEW c \in Callers, Sound(c),
         OwnerRefuses(c) \/ OwnerStartsCommand(c) \/ OwnerCompletes(c) \/ ReadEvent(c)
           \/ ReadEOF(c) \/ CompletePending(c)
  PROVE  MovesOnly(c) /\ Sound(c)'
  <1>1. MovesOnly(c)
    <2>1. CASE OwnerRefuses(c) \/ OwnerStartsCommand(c) \/ OwnerCompletes(c)
      BY <2>1 DEF OwnerRefuses, OwnerStartsCommand, OwnerCompletes, OwnerExits, Written, Unwritten,
         PlainTypes, FrameTypes, MovesOnly
    <2>2. CASE ReadEvent(c) \/ ReadEOF(c) \/ CompletePending(c)
      BY <2>2 DEF ReadEvent, ReadEOF, CompletePending, PlainTypes, FrameTypes, MovesOnly
    <2> QED BY <2>1, <2>2
  <1>2. ASSUME NEW stage \in {"started", "completed"},
               NEW kind \in {"none", "exit", "start", "wait"}, Written(c, stage, kind)
        PROVE  /\ Len(frames'[c]) = Len(frames[c]) + 1
               /\ \A i \in 1..Len(frames'[c]) : frames'[c][i].stage = "completed" =>
                     \/ i \in 1..Len(frames[c]) /\ frames'[c][i] = frames[c][i]
                     \/ stage = "completed" /\ frames'[c][i].kind = kind
    <2>1. frames[c] \in Seq(Event) /\ [stage |-> stage, kind |-> kind] \in Event
      BY DEF FrameTypes, Event
    <2>2. frames'[c] = Append(frames[c], [stage |-> stage, kind |-> kind])
      BY <1>2 DEF Written, FrameTypes
    <2> QED BY <2>1, <2>2
  <1> SUFFICES Sound(c)'
    BY <1>1
  <1> USE DEF Sound, LeaseHeld, StagesInOrder, ReportsAreTrue, Says
  <1>3. CASE OwnerRefuses(c)
    <2>1. UNCHANGED frames \/ Written(c, "completed", "start")
      BY <1>3 DEF OwnerRefuses, Unwritten
    <2> QED BY <1>2, <1>3, <2>1 DEF OwnerRefuses, OwnerExits, PlainTypes
  <1>4. CASE OwnerStartsCommand(c) BY <1>2, <1>4 DEF OwnerStartsCommand, Unwritten, PlainTypes
  <1>5. CASE OwnerCompletes(c)
    <2>1. UNCHANGED frames \/ Written(c, "completed", RecordKind(command[c]))
      BY <1>5 DEF OwnerCompletes, Unwritten
    <2>2. Says(c, RecordKind(command[c])) /\ RecordKind(command[c]) \in {"none", "exit", "wait"}
      BY <1>5 DEF OwnerCompletes, RecordKind, PlainTypes
    <2> QED BY <1>2, <1>5, <2>1, <2>2 DEF OwnerCompletes, OwnerExits, PlainTypes
  <1>6. CASE ReadEvent(c)
    <2>1. frames[c] \in Seq(Event) /\ frames[c] # <<>> /\ frames'[c] = Tail(frames[c])
      BY <1>6 DEF ReadEvent, FrameTypes
    <2>2. /\ Len(frames'[c]) = Len(frames[c]) - 1
          /\ \A i \in 1..Len(frames'[c]) : frames'[c][i] = frames[c][i + 1]
          /\ Head(frames[c]) = frames[c][1] /\ 1 \in 1..Len(frames[c])
          /\ \A i \in 1..Len(frames'[c]) : i + 1 \in 1..Len(frames[c])
      BY <2>1
    <2>3. frames[c][1] \in Event
      BY <2>1, <2>2
    <2>4. \/ seen'[c].completed = seen[c].completed /\ seen'[c].err \in {seen[c].err, "protocol"}
          \/ frames[c][1].stage = "completed" /\ seen'[c].completed
               /\ seen'[c].err = frames[c][1].kind
      <3>1. seen[c] \in Results /\ seen'[c] \in Results
        BY DEF PlainTypes
      <3>2. \/ seen'[c] = [seen[c] EXCEPT !.err = "protocol"]
            \/ seen'[c] = [seen[c] EXCEPT !.started = TRUE]
            \/ /\ frames[c][1].stage # "started"
               /\ seen'[c] = [seen[c] EXCEPT !.completed = TRUE, !.err = frames[c][1].kind]
        BY <1>6, <2>2 DEF ReadEvent, PlainTypes
      <3>3. frames[c][1].stage \in {"started", "completed"}
        BY <2>3 DEF Event
      <3> QED BY <3>1, <3>2, <3>3 DEF Results
    <2>5. ~ seen[c].completed
      BY <1>6 DEF ReadEvent, Listening
    <2>6. UNCHANGED <<callPc, held, ownerPc, command, pending, released, ownerFaults>>
      BY <1>6 DEF ReadEvent
    <2>7. \A i \in 1..Len(frames'[c]) : frames'[c][i].stage = "completed" =>
             ownerPc[c] = "exited" /\ Says(c, frames'[c][i].kind)
      BY <2>2
    <2>8. Len(frames'[c]) <= Len(frames[c]) /\ Len(frames[c]) \in Nat
      BY <2>1, <2>2
    <2>9. frames[c][1].stage = "completed" =>
             ownerPc[c] = "exited" /\ Says(c, frames[c][1].kind)
      BY <2>2
    <2>10. LeaseHeld(c)' /\ StagesInOrder(c)'
      BY <1>6, <2>1, <2>6, <2>8 DEF ReadEvent
    <2>11. ReportsAreTrue(c)'
      BY <2>4, <2>5, <2>6, <2>7, <2>9
    <2> QED BY <2>10, <2>11
  <1>7. CASE ReadEOF(c) BY <1>7 DEF ReadEOF, PlainTypes, Results
  <1>8. CASE CompletePending(c)
    <2>1. pending'[c].err = seen[c].err
      BY <1>8 DEF CompletePending, PlainTypes, Results
    <2> QED BY <1>8, <2>1 DEF CompletePending, PlainTypes
  <1> QED BY <1>3, <1>4, <1>5, <1>6, <1>7, <1>8

\* OwnerInv holds at first and after every step.
LEMMA OwnerInductive ==
  ASSUME MaxOwnerFaults \in Nat
  PROVE  /\ OwnerInit => OwnerInv
         /\ OwnerInv /\ [OwnerNext]_ownerVars => OwnerInv'
  <1>1. OwnerInit => OwnerInv
    <2> SUFFICES ASSUME OwnerInit PROVE OwnerInv
      OBVIOUS
    <2>1. NoResult \in Results
      BY DEF NoResult, Results
    <2>2. FrameTypes /\ PlainTypes
      BY <2>1 DEF OwnerInit, FrameTypes, PlainTypes
    <2>3. LeasesExclude /\ \A c \in Callers : Sound(c)
      BY DEF OwnerInit, LeasesExclude, Sound, LeaseHeld, StagesInOrder, ReportsAreTrue, Says,
         NoResult
    <2> QED BY <2>2, <2>3, OwnerTypes DEF OwnerInv
  <1>2. OwnerInv /\ [OwnerNext]_ownerVars => OwnerInv'
    <2> SUFFICES ASSUME OwnerInv, [OwnerNext]_ownerVars PROVE OwnerInv'
      OBVIOUS
    <2>1. FrameTypes /\ PlainTypes /\ LeasesExclude /\ \A c \in Callers : Sound(c)
      BY OwnerTypes DEF OwnerInv
    <2>2. CASE UNCHANGED ownerVars
      <3>1. OwnerTypeOK' /\ (frames \in [Callers -> Seq(Event)])'
        BY <2>2 DEF ownerVars, OwnerInv, OwnerTypeOK
      <3>2. LeasesExclude'
        BY <2>1, <2>2 DEF ownerVars, LeasesExclude
      <3>3. ASSUME NEW c \in Callers PROVE Sound(c)'
        BY <2>1, <2>2 DEF ownerVars, Sound, LeaseHeld, StagesInOrder, ReportsAreTrue, Says
      <3> QED BY <3>1, <3>2, <3>3 DEF OwnerInv
    <2>3. ASSUME NEW c \in Callers, MovesOnly(c) /\ Sound(c)', FrameTypes' /\ PlainTypes'
          PROVE  OwnerInv'
      <3>1. LeasesExclude' /\ \A d \in Callers : Sound(d)'
        BY <2>1, <2>3, OthersKeep
      <3>2. OwnerTypeOK' /\ (frames \in [Callers -> Seq(Event)])'
        <4>1. FrameTypes' => \A d \in Callers :
                 \A i \in 1..Len(frames'[d]) : frames'[d][i] \in Event
          BY DEF FrameTypes
        <4> QED BY <2>3, <4>1 DEF FrameTypes, PlainTypes, OwnerTypeOK
      <3> QED BY <3>1, <3>2 DEF OwnerInv
    <2>4. ASSUME NEW c \in Callers,
                 AcquireLock(c) \/ ConsumePrepared(c) \/ StartOwner(c) \/ StartOwnerFails(c)
                   \/ RequestLost(c) \/ ObservationTimeout(c) \/ CloseClient(c)
                   \/ ReleaseRetainedLock(c) \/ CallerCrash(c) \/ OwnerCrash(c) \/ CommandEnds(c)
          PROVE  OwnerInv'
      BY <2>1, <2>3, <2>4, CallerTypesStay, CallerKeeps
    <2>5. ASSUME NEW c \in Callers,
                 OwnerRefuses(c) \/ OwnerStartsCommand(c) \/ OwnerCompletes(c) \/ ReadEvent(c)
                   \/ ReadEOF(c) \/ CompletePending(c)
          PROVE  OwnerInv'
      BY <2>1, <2>3, <2>5, CallerTypesStay, ReportTypesStay, ReportKeeps
    <2> QED BY <2>2, <2>4, <2>5 DEF OwnerNext
  <1> QED BY <1>1, <1>2

\* OwnerInv is enough.
LEMMA OwnerSound == ASSUME OwnerInv PROVE OwnerTypeOK /\ CommandsExclude /\ OutcomeIsTrue
  <1>1. OwnerTypeOK /\ LeasesExclude /\ (\A c \in Callers : Sound(c)) /\ FrameTypes /\ PlainTypes
    BY OwnerTypes DEF OwnerInv
  <1>2. CommandsExclude
    BY <1>1 DEF CommandsExclude, LeasesExclude, Sound, LeaseHeld
  <1>3. ASSUME NEW c \in Callers, ownerPc[c] # "killed"
        PROVE  /\ pending[c] # NoResult => command[c] # "running"
               /\ pending[c].err # "none" => pending[c] # NoResult
               /\ c \in released => command[c] # "running"
               /\ pending[c] # NoResult => Says(c, pending[c].err)
    BY <1>1, <1>3 DEF Sound, LeaseHeld, StagesInOrder, ReportsAreTrue, NoResult, PlainTypes
  <1>4. OutcomeIsTrue
    BY <1>3 DEF OutcomeIsTrue, Says
  <1> QED BY <1>1, <1>2, <1>4

\* Commands of different callers exclude each other as long as no control owner died, and
\* what a caller is told of its command is true, for any number of callers, crashes and
\* failed writes (control_owner.go, control_owner_runtime.go).
THEOREM CommandsOutlive ==
  ASSUME MaxOwnerFaults \in Nat
  PROVE  OwnerSpec => [](CommandsExclude /\ OutcomeIsTrue)
  <1>1. OwnerInit => OwnerInv
    BY OwnerInductive
  <1>2. OwnerInv /\ [OwnerNext]_ownerVars => OwnerInv'
    BY OwnerInductive
  <1>3. OwnerInv => CommandsExclude /\ OutcomeIsTrue
    BY OwnerSound
  <1> QED BY <1>1, <1>2, <1>3, PTL DEF OwnerSpec

--------------------
(* Proofs: the wake-ups of the queue maintenance.                          *)

Places == {"live", "event", "request", "elect", "elected", "begin", "clean", "finish",
           "unlock", "reread", "done", "dead"}

\* A step of row r's callback makes c of its local state and touches no other's.
Becomes(r, c) ==
    /\ caller' \in [EndedRows -> Caller] /\ caller'[r] = c
    /\ \A d \in EndedRows : d # r => caller'[d] = caller[d]

\* The same but for its place.
Moved(r, c) ==
    /\ c.noted = caller[r].noted /\ c.target = caller[r].target
    /\ c.passTarget = caller[r].passTarget /\ c.full = caller[r].full
    /\ c.captured = caller[r].captured /\ c.ok = caller[r].ok

\* What the steps make of a callback's local state.
LEMMA Becoming ==
  ASSUME caller \in [EndedRows -> Caller], NEW r \in EndedRows, NEW c \in Caller,
         caller' = [caller EXCEPT ![r] = c]
  PROVE  Becomes(r, c)
  BY DEF Becomes

\* A callback that only moves on keeps the rest of what it knows.
LEMMA Moving ==
  ASSUME caller \in [EndedRows -> Caller], NEW r \in EndedRows, NEW at \in Places, Move(r, at)
  PROVE  \E c \in Caller : Becomes(r, c) /\ c.at = at /\ Moved(r, c)
  <1> DEFINE c == [caller[r] EXCEPT !.at = at]
  <1>1. c \in Caller /\ c.at = at /\ Moved(r, c)
    BY DEF Caller, Places, Moved
  <1>2. caller' = [caller EXCEPT ![r] = c]
    BY DEF Move
  <1> QED BY <1>1, <1>2, Becoming

\* The caller a callback starts as is one, and has not failed.
LEMMA NewCallers ==
  ASSUME MaxRequests \in Nat
  PROVE  NewCaller \in Caller /\ NewCaller.ok /\ NewCaller.at = "live"
  <1>1. 0 \in Counters
    BY DEF Counters
  <1>2. {} \in SUBSET EndedRows
    OBVIOUS
  <1> QED BY <1>1, <1>2 DEF Caller, NewCaller

\* A callback that leaves its turn forgets it, without a failure.
LEMMA Leaving ==
  ASSUME caller \in [EndedRows -> Caller], MaxRequests \in Nat, NEW r \in EndedRows,
         NEW at \in Places, Leave(r, at)
  PROVE  \E c \in Caller : Becomes(r, c) /\ c.at = at /\ c.ok
  <1> DEFINE c == [NewCaller EXCEPT !.at = at]
  <1>1. c \in Caller /\ c.at = at /\ c.ok
    BY NewCallers DEF Caller, Places
  <1>2. caller' = [caller EXCEPT ![r] = c]
    BY DEF Leave
  <1> QED BY <1>1, <1>2, Becoming

\* A callback that ends its turn goes to give its lock back, with the turn's result.
LEMMA Ending ==
  ASSUME caller \in [EndedRows -> Caller], MaxRequests \in Nat, NEW r \in EndedRows,
         NEW ok \in BOOLEAN, EndTurn(r, ok)
  PROVE  \E c \in Caller : Becomes(r, c) /\ c.at = "unlock" /\ c.ok = ok
  <1> DEFINE c == [NewCaller EXCEPT !.at = "unlock", !.ok = ok, !.target = caller[r].target]
  <1>1. c \in Caller /\ c.at = "unlock" /\ c.ok = ok
    BY NewCallers DEF Caller
  <1>2. caller' = [caller EXCEPT ![r] = c]
    BY DEF EndTurn
  <1> QED BY <1>1, <1>2, Becoming

\* The steps outside a pass, in the terms of their places: from, to, and the rest.
LEMMA CallbackSteps ==
  ASSUME MaintTypeOK, MaxRequests \in Nat, NEW r \in EndedRows
  PROVE  /\ RowEnds(r) => At(r, "live") /\ \E c \in Caller :
               Becomes(r, c) /\ c.at = "event" /\ Moved(r, c)
         /\ RecordTerminalEvent(r) => At(r, "event") /\ \E c \in Caller :
               /\ Becomes(r, c) /\ c.at = "request" /\ c.ok = caller[r].ok
               /\ \/ c.noted /\ inbox' = inbox \cup {r}
                  \/ c.noted = caller[r].noted /\ UNCHANGED inbox
         /\ RequestMaintenance(r) => At(r, "request") /\ \E c \in Caller :
               Becomes(r, c) /\ c.at = "elect" /\ Moved(r, c)
         /\ RequestFails(r) => At(r, "request") /\ \E c \in Caller :
               Becomes(r, c) /\ c.at \in {"elect", "done"}
         /\ TryElection(r) => At(r, "elect") /\ \E c \in Caller :
               /\ Becomes(r, c) /\ (caller[r].ok => c.ok)
               /\ \/ maintainer # NoMaintainer /\ c.at = "done" /\ UNCHANGED maintainer
                  \/ maintainer = NoMaintainer /\ c.at = "elected" /\ maintainer' = r
         /\ RunElectionPass(r) => At(r, "elected") /\ \E c \in Caller :
               Becomes(r, c) /\ c.ok /\ c.at = IF Needed THEN "begin" ELSE "unlock"
         /\ Unelect(r) => At(r, "unlock") /\ \E c \in Caller :
               Becomes(r, c) /\ c.at = "reread" /\ Moved(r, c)
         /\ RereadWake(r) => At(r, "reread") /\ \E c \in Caller :
               /\ Becomes(r, c) /\ (caller[r].ok => c.ok)
               /\ \/ c.at = "elect"
                  \/ c.at = "done" /\ (caller[r].ok => wake.requested <= wake.attempted)
         /\ MaintCrash(r) => caller[r].at \notin {"live", "done"} /\ \E c \in Caller :
               Becomes(r, c) /\ c.at = "dead"
  <1>1. caller \in [EndedRows -> Caller] /\ caller[r] \in Caller /\ wake \in Wake
    BY DEF MaintTypeOK
  <1>2. \A at \in {"event", "request", "elect", "elected", "reread", "dead", "done"} : at \in Places
    BY DEF Places
  <1> HIDE DEF Places
  <1>3. RowEnds(r) => At(r, "live") /\ \E c \in Caller :
           Becomes(r, c) /\ c.at = "event" /\ Moved(r, c)
    BY <1>1, <1>2, Moving DEF RowEnds
  <1>4. RecordTerminalEvent(r) => At(r, "event") /\ \E c \in Caller :
           /\ Becomes(r, c) /\ c.at = "request" /\ c.ok = caller[r].ok
           /\ \/ c.noted /\ inbox' = inbox \cup {r}
              \/ c.noted = caller[r].noted /\ UNCHANGED inbox
    <2>1. CASE /\ inbox' = inbox \cup {r}
               /\ caller' = [caller EXCEPT ![r].at = "request", ![r].noted = TRUE]
      <3> DEFINE c == [caller[r] EXCEPT !.at = "request", !.noted = TRUE]
      <3>1. c \in Caller /\ c.at = "request" /\ c.noted /\ c.ok = caller[r].ok
        BY <1>1 DEF Caller
      <3>2. caller' = [caller EXCEPT ![r] = c]
        BY <2>1
      <3>3. Becomes(r, c)
        BY <1>1, <3>1, <3>2, Becoming
      <3> HIDE DEF c
      <3> QED BY <2>1, <3>1, <3>3 DEF RecordTerminalEvent
    <2>2. CASE Move(r, "request") /\ UNCHANGED inbox
      <3>1. PICK c \in Caller : Becomes(r, c) /\ c.at = "request" /\ Moved(r, c)
        BY <1>1, <1>2, <2>2, Moving
      <3> QED BY <2>2, <3>1 DEF RecordTerminalEvent, Moved
    <2> QED BY <2>1, <2>2 DEF RecordTerminalEvent
  <1>5. RequestMaintenance(r) => At(r, "request") /\ \E c \in Caller :
           Becomes(r, c) /\ c.at = "elect" /\ Moved(r, c)
    BY <1>1, <1>2, Moving DEF RequestMaintenance
  <1>6. RequestFails(r) => At(r, "request") /\ \E c \in Caller :
           Becomes(r, c) /\ c.at \in {"elect", "done"}
    BY <1>1, <1>2, Moving, Leaving DEF RequestFails
  <1>7. TryElection(r) => At(r, "elect") /\ \E c \in Caller :
           /\ Becomes(r, c) /\ (caller[r].ok => c.ok)
           /\ \/ maintainer # NoMaintainer /\ c.at = "done" /\ UNCHANGED maintainer
              \/ maintainer = NoMaintainer /\ c.at = "elected" /\ maintainer' = r
    <2>1. CASE maintainer = NoMaintainer BY <1>1, <1>2, <2>1, Moving DEF TryElection, Moved
    <2>2. CASE maintainer # NoMaintainer BY <1>1, <1>2, <2>2, Leaving DEF TryElection
    <2> QED BY <2>1, <2>2
  <1>8. RunElectionPass(r) => At(r, "elected") /\ \E c \in Caller :
           Becomes(r, c) /\ c.ok /\ c.at = IF Needed THEN "begin" ELSE "unlock"
    <2> DEFINE to == IF Needed THEN "begin" ELSE "unlock"
               c == [caller[r] EXCEPT !.at = to, !.target = wake.requested, !.ok = TRUE]
    <2>1. to \in {"begin", "unlock"} /\ wake.requested \in Counters
      BY <1>1 DEF Wake
    <2> HIDE DEF to
    <2>2. c \in Caller /\ c.at = to /\ c.ok
      BY <1>1, <2>1 DEF Caller
    <2>3. RunElectionPass(r) => caller' = [caller EXCEPT ![r] = c]
      BY DEF RunElectionPass, to
    <2>4. RunElectionPass(r) => Becomes(r, c)
      BY <1>1, <2>2, <2>3, Becoming
    <2> HIDE DEF c
    <2>5. c.at = IF Needed THEN "begin" ELSE "unlock"
      BY <2>2 DEF to
    <2> QED BY <2>2, <2>4, <2>5 DEF RunElectionPass
  <1>9. Unelect(r) => At(r, "unlock") /\ \E c \in Caller :
           Becomes(r, c) /\ c.at = "reread" /\ Moved(r, c)
    BY <1>1, <1>2, Moving DEF Unelect
  <1>10. RereadWake(r) => At(r, "reread") /\ \E c \in Caller :
            /\ Becomes(r, c) /\ (caller[r].ok => c.ok)
            /\ \/ c.at = "elect"
               \/ c.at = "done" /\ (caller[r].ok => wake.requested <= wake.attempted)
    <2>1. CASE \/ wake.requested <= wake.attempted
               \/ ~ caller[r].ok /\ wake.attempted < caller[r].target
      BY <1>1, <1>2, <2>1, Leaving DEF RereadWake
    <2>2. CASE ~ \/ wake.requested <= wake.attempted
                 \/ ~ caller[r].ok /\ wake.attempted < caller[r].target
      BY <1>1, <1>2, <2>2, Moving DEF RereadWake, Moved
    <2> QED BY <2>1, <2>2
  <1>11. MaintCrash(r) => caller[r].at \notin {"live", "done"} /\ \E c \in Caller :
            Becomes(r, c) /\ c.at = "dead"
    BY <1>1, <1>2, Leaving DEF MaintCrash
  <1> QED BY <1>3, <1>4, <1>5, <1>6, <1>7, <1>8, <1>9, <1>10, <1>11

\* The steps of a pass, likewise.
LEMMA PassSteps ==
  ASSUME MaintTypeOK, MaxRequests \in Nat, NEW r \in EndedRows
  PROVE  /\ BeginPass(r) => At(r, "begin") /\ \E c \in Caller :
               /\ Becomes(r, c) /\ c.ok \in {TRUE, caller[r].ok}
               /\ \/ /\ c.at = "clean" /\ c.passTarget = wake.requested
                     /\ c.full <=> wake.fullRequested > wake.fullCompleted
                  \/ c.at = "unlock"
         /\ CaptureRows(r) => At(r, "clean") /\ \E c \in Caller :
               /\ Becomes(r, c) /\ c.at = "finish" /\ c.ok
               /\ c.passTarget = caller[r].passTarget
               /\ c.captured = IF caller[r].full THEN ended ELSE inbox \cap ended
         /\ CleaningFails(r) => At(r, "clean") /\ \E c \in Caller :
               /\ Becomes(r, c) /\ c.at = "finish" /\ c.passTarget = caller[r].passTarget
         /\ FinishPass(r) => At(r, "finish") /\ \E c \in Caller :
               /\ Becomes(r, c) /\ (caller[r].ok => c.ok)
               /\ c.at = IF caller[r].ok /\ wake'.requested > wake'.attempted
                         THEN "begin" ELSE "unlock"
         /\ FinishFails(r) => At(r, "finish") /\ \E c \in Caller :
               Becomes(r, c) /\ c.at = "unlock"
  <1>1. /\ caller \in [EndedRows -> Caller] /\ caller[r] \in Caller /\ wake \in Wake
        /\ caller[r].ok \in BOOLEAN
    BY DEF MaintTypeOK, Caller
  <1>2. BeginPass(r) => At(r, "begin") /\ \E c \in Caller :
           /\ Becomes(r, c) /\ c.ok \in {TRUE, caller[r].ok}
           /\ \/ /\ c.at = "clean" /\ c.passTarget = wake.requested
                 /\ c.full <=> wake.fullRequested > wake.fullCompleted
              \/ c.at = "unlock"
    <2>1. CASE Needed
      <3> DEFINE full == wake.fullRequested > wake.fullCompleted
                 c == [caller[r] EXCEPT !.at = "clean", !.passTarget = wake.requested,
                                        !.full = full]
      <3>1. wake.requested \in Counters /\ full \in BOOLEAN
        BY <1>1 DEF Wake
      <3> HIDE DEF full
      <3>2. /\ c \in Caller /\ c.at = "clean" /\ c.passTarget = wake.requested /\ c.full = full
            /\ c.ok = caller[r].ok
        BY <1>1, <3>1 DEF Caller
      <3>3. BeginPass(r) => caller' = [caller EXCEPT ![r] = c]
        BY <2>1 DEF BeginPass, full
      <3>4. BeginPass(r) => Becomes(r, c)
        BY <1>1, <3>2, <3>3, Becoming
      <3> HIDE DEF c
      <3> QED BY <3>2, <3>4 DEF BeginPass, full
    <2>2. CASE ~ Needed BY <1>1, <2>2, Ending DEF BeginPass
    <2> QED BY <2>1, <2>2
  <1>3. CaptureRows(r) => At(r, "clean") /\ \E c \in Caller :
           /\ Becomes(r, c) /\ c.at = "finish" /\ c.ok /\ c.passTarget = caller[r].passTarget
           /\ c.captured = IF caller[r].full THEN ended ELSE inbox \cap ended
    <2> DEFINE S == IF caller[r].full THEN ended ELSE inbox \cap ended
               c == [caller[r] EXCEPT !.at = "finish", !.ok = TRUE, !.captured = S]
    <2>1. S \in SUBSET EndedRows
      BY DEF MaintTypeOK
    <2>2. CaptureRows(r) => caller' = [caller EXCEPT ![r] = c]
      BY DEF CaptureRows
    <2> HIDE DEF S
    <2>3. /\ c \in Caller /\ c.at = "finish" /\ c.ok /\ c.passTarget = caller[r].passTarget
          /\ c.captured = S
      BY <1>1, <2>1 DEF Caller
    <2>4. CaptureRows(r) => Becomes(r, c)
      BY <1>1, <2>2, <2>3, Becoming
    <2> HIDE DEF c
    <2> QED BY <2>3, <2>4 DEF CaptureRows, S
  <1>4. CleaningFails(r) => At(r, "clean") /\ \E c \in Caller :
           Becomes(r, c) /\ c.at = "finish" /\ c.passTarget = caller[r].passTarget
    <2> DEFINE c == [caller[r] EXCEPT !.at = "finish", !.ok = FALSE, !.captured = {}]
    <2>1. c \in Caller /\ c.at = "finish" /\ c.passTarget = caller[r].passTarget
      BY <1>1 DEF Caller
    <2>2. CleaningFails(r) => caller' = [caller EXCEPT ![r] = c]
      BY DEF CleaningFails
    <2>3. CleaningFails(r) => Becomes(r, c)
      BY <1>1, <2>1, <2>2, Becoming
    <2> HIDE DEF c
    <2> QED BY <2>1, <2>3 DEF CleaningFails
  <1>5. FinishPass(r) => At(r, "finish") /\ \E c \in Caller :
           /\ Becomes(r, c) /\ (caller[r].ok => c.ok)
           /\ c.at = IF caller[r].ok /\ wake'.requested > wake'.attempted
                     THEN "begin" ELSE "unlock"
    <2>1. CASE caller[r].ok /\ wake'.requested > wake'.attempted
      <3>1. FinishPass(r) => At(r, "finish") /\ Move(r, "begin")
        BY <2>1 DEF FinishPass
      <3>2. "begin" \in Places
        BY DEF Places
      <3> QED BY <1>1, <2>1, <3>1, <3>2, Moving DEF Moved
    <2>2. CASE ~ (caller[r].ok /\ wake'.requested > wake'.attempted)
      <3>1. FinishPass(r) => At(r, "finish") /\ EndTurn(r, caller[r].ok)
        BY <2>2 DEF FinishPass
      <3> QED BY <1>1, <2>2, <3>1, Ending
    <2> QED BY <2>1, <2>2
  <1>6. FinishFails(r) => At(r, "finish") /\ \E c \in Caller : Becomes(r, c) /\ c.at = "unlock"
    BY <1>1, Ending DEF FinishFails
  <1> QED BY <1>2, <1>3, <1>4, <1>5, <1>6

\* A request is counted: the next generation, and a full one for an event not noted.
LEMMA WakeRequested ==
  ASSUME wake \in Wake, MaxRequests \in Nat, wake.requested < MaxRequests,
         NEW noted \in BOOLEAN, wake' = Requested(noted)
  PROVE  /\ wake' \in Wake
         /\ wake'.requested = wake.requested + 1 /\ wake'.attempted = wake.attempted
         /\ wake'.completed = wake.completed /\ wake'.fullCompleted = wake.fullCompleted
         /\ wake'.fullRequested = IF noted THEN wake.fullRequested ELSE wake.requested + 1
  <1>1. /\ wake.requested + 1 \in Counters
        /\ (IF noted THEN wake.fullRequested ELSE wake.requested + 1) \in Counters
    BY DEF Wake, Counters
  <1> QED BY <1>1 DEF Requested, Wake

\* What the end of a pass makes of the counters.
LEMMA WakeFinished ==
  ASSUME wake \in Wake, NEW c \in Caller, wake' = Finished(c)
  PROVE  /\ wake' \in Wake
         /\ wake'.requested = wake.requested /\ wake'.fullRequested = wake.fullRequested
         /\ wake'.attempted = IF c.passTarget > wake.attempted THEN c.passTarget ELSE wake.attempted
         /\ wake'.completed = IF c.ok /\ c.passTarget > wake.completed
                              THEN c.passTarget ELSE wake.completed
         /\ \/ wake'.fullCompleted = wake.fullCompleted
            \/ /\ wake'.fullCompleted = wake.fullRequested
               /\ c.ok /\ c.full /\ wake.fullRequested <= c.passTarget
  <1>1. c.passTarget \in Counters /\ wake.fullRequested \in Counters
    BY DEF Wake, Caller
  <1> QED BY <1>1 DEF Finished, Wake

\* Every step keeps the types.
LEMMA MaintTypesStay ==
  ASSUME MaintTypeOK, MaxRequests \in Nat, MaxMaintFaults \in Nat, [MaintNext]_maintVars
  PROVE  MaintTypeOK'
  <1>1. CASE UNCHANGED maintVars BY <1>1 DEF maintVars, MaintTypeOK
  <1>2. ASSUME NEW r \in EndedRows,
               \/ RowEnds(r) \/ RecordTerminalEvent(r) \/ RequestMaintenance(r)
               \/ RequestFails(r) \/ TryElection(r) \/ RunElectionPass(r) \/ Unelect(r)
               \/ RereadWake(r) \/ MaintCrash(r)
        PROVE  MaintTypeOK'
    <2>1. caller' \in [EndedRows -> Caller]
      BY <1>2, CallbackSteps DEF Becomes
    <2>2. wake' \in Wake
      <3>1. CASE RequestMaintenance(r)
        <4>1. caller[r].noted \in BOOLEAN /\ wake \in Wake
          BY DEF MaintTypeOK, Caller
        <4> QED BY <3>1, <4>1, WakeRequested DEF RequestMaintenance
      <3>2. CASE ~ RequestMaintenance(r)
        BY <1>2, <3>2 DEF MaintTypeOK, RowEnds, RecordTerminalEvent, RequestFails, TryElection,
           RunElectionPass, Unelect, RereadWake, MaintCrash
      <3> QED BY <3>1, <3>2
    <2>3. /\ inbox' \subseteq EndedRows /\ ended' \subseteq EndedRows
          /\ maintainer' \in EndedRows \cup {NoMaintainer}
      BY <1>2 DEF MaintTypeOK, RowEnds, RecordTerminalEvent, RequestMaintenance, RequestFails,
         TryElection, RunElectionPass, Unelect, RereadWake, MaintCrash
    <2>4. maintFaults' \in 0..MaxMaintFaults /\ fullStarts' \in Counters
      BY <1>2 DEF MaintTypeOK, RowEnds, RecordTerminalEvent, RequestMaintenance, RequestFails,
         TryElection, RunElectionPass, Unelect, RereadWake, MaintCrash, Fault
    <2> QED BY <2>1, <2>2, <2>3, <2>4 DEF MaintTypeOK
  <1>3. ASSUME NEW r \in EndedRows,
               BeginPass(r) \/ CaptureRows(r) \/ CleaningFails(r) \/ FinishPass(r)
                 \/ FinishFails(r)
        PROVE  MaintTypeOK'
    <2>1. caller' \in [EndedRows -> Caller]
      BY <1>3, PassSteps DEF Becomes
    <2>2. caller[r] \in Caller /\ caller[r].passTarget \in Counters /\ wake \in Wake
      BY DEF MaintTypeOK, Caller
    <2>3. wake' \in Wake
      <3>1. CASE FinishPass(r) BY <2>2, <3>1, WakeFinished DEF FinishPass
      <3>2. CASE ~ FinishPass(r)
        BY <1>3, <2>2, <3>2 DEF BeginPass, CaptureRows, CleaningFails, FinishFails
      <3> QED BY <3>1, <3>2
    <2>4. /\ inbox' \subseteq EndedRows /\ ended' \subseteq EndedRows
          /\ maintainer' \in EndedRows \cup {NoMaintainer}
      BY <1>3 DEF MaintTypeOK, BeginPass, CaptureRows, CleaningFails, FinishPass, FinishFails
    <2>5. maintFaults' \in 0..MaxMaintFaults
      <3>1. UNCHANGED maintFaults \/ Fault
        BY <1>3 DEF BeginPass, CaptureRows, CleaningFails, FinishPass, FinishFails
      <3> QED BY <3>1 DEF Fault, MaintTypeOK
    <2>6. fullStarts' \in Counters
      <3>1. fullStarts' \in {fullStarts, caller[r].passTarget}
        BY <1>3 DEF BeginPass, CaptureRows, CleaningFails, FinishPass, FinishFails
      <3> QED BY <2>2, <3>1 DEF MaintTypeOK
    <2> QED BY <2>1, <2>3, <2>4, <2>5, <2>6 DEF MaintTypeOK
  <1> QED BY <1>1, <1>2, <1>3 DEF MaintNext

\* The counters are numbers.
LEMMA CountersAreNat ==
  ASSUME MaintTypeOK, MaxRequests \in Nat
  PROVE  /\ wake.requested \in Nat /\ wake.attempted \in Nat /\ wake.completed \in Nat
         /\ wake.fullRequested \in Nat /\ wake.fullCompleted \in Nat /\ fullStarts \in Nat
         /\ \A r \in EndedRows : caller[r].passTarget \in Nat
  <1>1. Counters \subseteq Nat
    BY DEF Counters
  <1> QED BY <1>1 DEF MaintTypeOK, Wake, Caller

\* One maintainer, whoever steps.
LEMMA MaintainerKeeps ==
  ASSUME MaintTypeOK, MaxRequests \in Nat, NoMaintainer \notin EndedRows, OneMaintainer,
         NEW r \in EndedRows,
         \/ RowEnds(r) \/ RecordTerminalEvent(r) \/ RequestMaintenance(r) \/ RequestFails(r)
         \/ TryElection(r) \/ RunElectionPass(r) \/ BeginPass(r) \/ CaptureRows(r)
         \/ CleaningFails(r) \/ FinishPass(r) \/ FinishFails(r) \/ Unelect(r) \/ RereadWake(r)
         \/ MaintCrash(r)
  PROVE  OneMaintainer'
  <1>1. ASSUME NEW c \in Caller, Becomes(r, c),
               \/ maintainer' = maintainer /\ (caller[r].at \in Elected <=> c.at \in Elected)
               \/ maintainer = NoMaintainer /\ maintainer' = r /\ c.at \in Elected
               \/ maintainer' = (IF maintainer = r THEN NoMaintainer ELSE maintainer)
                    /\ c.at \notin Elected
        PROVE  OneMaintainer'
    BY <1>1 DEF OneMaintainer, Becomes
  <1>2. CASE RowEnds(r) \/ RecordTerminalEvent(r) \/ RequestMaintenance(r) \/ RequestFails(r)
    <2>1. UNCHANGED maintainer
      BY <1>2 DEF RowEnds, RecordTerminalEvent, RequestMaintenance, RequestFails
    <2>2. PICK c \in Caller : Becomes(r, c) /\ c.at \notin Elected /\ caller[r].at \notin Elected
      BY <1>2, CallbackSteps DEF At, Elected
    <2> QED BY <1>1, <2>1, <2>2
  <1>3. CASE TryElection(r)
    <2>1. PICK c \in Caller : /\ Becomes(r, c) /\ caller[r].at = "elect"
                              /\ \/ c.at = "done" /\ UNCHANGED maintainer
                                 \/ maintainer = NoMaintainer /\ c.at = "elected" /\ maintainer' = r
      BY <1>3, CallbackSteps DEF At
    <2> QED BY <1>1, <2>1 DEF Elected
  <1>4. CASE RunElectionPass(r)
    <2>1. PICK c \in Caller : /\ Becomes(r, c) /\ caller[r].at = "elected"
                              /\ c.at \in {"begin", "unlock"} /\ UNCHANGED maintainer
      BY <1>4, CallbackSteps DEF At, RunElectionPass
    <2> QED BY <1>1, <2>1 DEF Elected
  <1>5. CASE BeginPass(r) \/ CaptureRows(r) \/ CleaningFails(r) \/ FinishPass(r) \/ FinishFails(r)
    <2>1. UNCHANGED maintainer
      BY <1>5 DEF BeginPass, CaptureRows, CleaningFails, FinishPass, FinishFails
    <2>2. PICK c \in Caller : /\ Becomes(r, c) /\ caller[r].at \in {"begin", "clean", "finish"}
                              /\ c.at \in {"clean", "finish", "begin", "unlock"}
      BY <1>5, PassSteps DEF At
    <2> QED BY <1>1, <2>1, <2>2 DEF Elected
  <1>6. CASE Unelect(r)
    <2>1. PICK c \in Caller : Becomes(r, c) /\ caller[r].at = "unlock" /\ c.at = "reread"
      BY <1>6, CallbackSteps DEF At
    <2>2. maintainer = r /\ maintainer' = NoMaintainer
      BY <1>6, <2>1 DEF Unelect, OneMaintainer, Elected
    <2> QED BY <1>1, <2>1, <2>2 DEF Elected
  <1>7. CASE RereadWake(r)
    <2>1. PICK c \in Caller : /\ Becomes(r, c) /\ caller[r].at = "reread"
                              /\ c.at \in {"elect", "done"} /\ UNCHANGED maintainer
      BY <1>7, CallbackSteps DEF At, RereadWake
    <2> QED BY <1>1, <2>1 DEF Elected
  <1>8. CASE MaintCrash(r)
    <2>1. PICK c \in Caller : Becomes(r, c) /\ c.at = "dead"
      BY <1>8, CallbackSteps
    <2> QED BY <1>1, <1>8, <2>1 DEF MaintCrash, Elected
  <1> QED BY <1>2, <1>3, <1>4, <1>5, <1>6, <1>7, <1>8

\* The steps outside a pass keep what is known of the pass and of the counters.
LEMMA CallbackKeepsPass ==
  ASSUME MaintTypeOK, MaintTypeOK', MaxRequests \in Nat, CompletionIsTrue, PassIsCurrent,
         NEW r \in EndedRows,
         \/ RowEnds(r) \/ RecordTerminalEvent(r) \/ RequestMaintenance(r)
         \/ RequestFails(r) \/ TryElection(r) \/ RunElectionPass(r) \/ Unelect(r)
         \/ RereadWake(r) \/ MaintCrash(r)
  PROVE  CompletionIsTrue' /\ PassIsCurrent'
  <1>1. PICK c \in Caller : Becomes(r, c) /\ c.at \notin InPass
    BY CallbackSteps DEF InPass
  <1>2. UNCHANGED fullStarts
    BY DEF RowEnds, RecordTerminalEvent, RequestMaintenance, RequestFails, TryElection,
       RunElectionPass, Unelect, RereadWake, MaintCrash
  <1>3. CASE RequestMaintenance(r)
    <2>1. caller[r].noted \in BOOLEAN /\ wake \in Wake
      BY DEF MaintTypeOK, Caller
    <2>2. /\ wake'.requested = wake.requested + 1 /\ wake'.attempted = wake.attempted
          /\ wake'.completed = wake.completed /\ wake'.fullCompleted = wake.fullCompleted
          /\ wake'.fullRequested = wake.fullRequested \/ wake'.fullRequested = wake.requested + 1
      BY <1>3, <2>1, WakeRequested DEF RequestMaintenance
    <2> QED BY <1>1, <1>2, <2>2, CountersAreNat DEF CompletionIsTrue, PassIsCurrent, Becomes
  <1>4. CASE ~ RequestMaintenance(r)
    <2>1. UNCHANGED wake
      BY <1>4 DEF RowEnds, RecordTerminalEvent, RequestFails, TryElection, RunElectionPass,
         Unelect, RereadWake, MaintCrash
    <2> QED BY <1>1, <1>2, <2>1 DEF CompletionIsTrue, PassIsCurrent, Becomes
  <1> QED BY <1>3, <1>4

\* So do the steps of a pass.
LEMMA PassKeepsPass ==
  ASSUME MaintTypeOK, MaintTypeOK', MaxRequests \in Nat, CompletionIsTrue, PassIsCurrent,
         OneMaintainer, NEW r \in EndedRows,
         BeginPass(r) \/ CaptureRows(r) \/ CleaningFails(r) \/ FinishPass(r) \/ FinishFails(r)
  PROVE  CompletionIsTrue' /\ PassIsCurrent'
  <1>1. CASE BeginPass(r)
    <2>1. PICK c \in Caller : /\ Becomes(r, c)
                              /\ \/ /\ c.at = "clean" /\ c.passTarget = wake.requested
                                    /\ c.full <=> wake.fullRequested > wake.fullCompleted
                                 \/ c.at = "unlock"
      BY <1>1, PassSteps
    <2>2. UNCHANGED <<wake, fullStarts>>
      BY <1>1 DEF BeginPass
    <2> QED BY <2>1, <2>2, CountersAreNat DEF CompletionIsTrue, PassIsCurrent, Becomes, InPass
  <1>2. CASE CaptureRows(r) \/ CleaningFails(r)
    <2>1. PICK c \in Caller : /\ Becomes(r, c) /\ caller[r].at = "clean" /\ c.at = "finish"
                              /\ c.passTarget = caller[r].passTarget
      BY <1>2, PassSteps DEF At
    <2>2. UNCHANGED <<wake, fullStarts>>
      BY <1>2 DEF CaptureRows, CleaningFails
    <2> QED BY <2>1, <2>2 DEF CompletionIsTrue, PassIsCurrent, Becomes, InPass
  <1>3. CASE FinishFails(r)
    <2>1. PICK c \in Caller : Becomes(r, c) /\ c.at = "unlock"
      BY <1>3, PassSteps
    <2>2. UNCHANGED <<wake, fullStarts>>
      BY <1>3 DEF FinishFails
    <2> QED BY <2>1, <2>2 DEF CompletionIsTrue, PassIsCurrent, Becomes, InPass
  <1>4. CASE FinishPass(r)
    <2>1. PICK c \in Caller : /\ Becomes(r, c) /\ caller[r].at = "finish"
                              /\ c.at \in {"begin", "unlock"}
      BY <1>4, PassSteps DEF At
    <2>2. \A d \in EndedRows : caller'[d].at \notin InPass
      BY <2>1 DEF OneMaintainer, Becomes, InPass, Elected
    <2>3. caller[r] \in Caller /\ wake \in Wake /\ wake' = Finished(caller[r])
      BY <1>4 DEF MaintTypeOK, FinishPass
    <2>4. fullStarts' = IF caller[r].ok /\ caller[r].full THEN caller[r].passTarget ELSE fullStarts
      BY <1>4 DEF FinishPass
    <2>5. /\ caller[r].passTarget <= wake.requested /\ wake.attempted <= caller[r].passTarget
          /\ fullStarts <= caller[r].passTarget /\ caller[r].passTarget \in Nat
      BY <2>1, CountersAreNat DEF PassIsCurrent, InPass
    <2>6. PassIsCurrent'
      BY <2>2, <2>3, <2>4, <2>5, WakeFinished, CountersAreNat DEF PassIsCurrent
    <2>7. CompletionIsTrue'
      BY <2>3, <2>4, <2>5, WakeFinished, CountersAreNat DEF CompletionIsTrue
    <2> QED BY <2>6, <2>7
  <1> QED BY <1>1, <1>2, <1>3, <1>4

\* A fault ends what WakesAreServed promises.
LEMMA FaultsExcuse ==
  ASSUME MaintTypeOK, Fault
  PROVE  WakesAreServed'
  <1>1. maintFaults' # 0
    BY DEF MaintTypeOK, Fault
  <1> QED BY <1>1 DEF WakesAreServed

\* The steps of the callbacks outside a pass keep the promise.
LEMMA CallbackKeepsPromise ==
  ASSUME MaintTypeOK, MaxRequests \in Nat, NoMaintainer \notin EndedRows, CompletionIsTrue,
         OneMaintainer, PassIsCurrent, Promised, NEW r \in EndedRows,
         RowEnds(r) \/ RecordTerminalEvent(r) \/ RequestMaintenance(r) \/ TryElection(r)
           \/ RunElectionPass(r) \/ Unelect(r) \/ RereadWake(r)
  PROVE  Promised'
  <1> USE DEF At, Asked, Elected
  <1>1. CASE RowEnds(r)
    <2>1. PICK c \in Caller : /\ Becomes(r, c) /\ caller[r].at = "live" /\ c.at = "event"
                              /\ Moved(r, c)
      BY <1>1, CallbackSteps
    <2>2. ended' = ended \cup {r} /\ UNCHANGED <<wake, inbox>>
      BY <1>1 DEF RowEnds
    <2> QED BY <2>1, <2>2 DEF Promised, Becomes, Moved, MaintTypeOK
  <1>2. CASE RecordTerminalEvent(r)
    <2>1. PICK c \in Caller : /\ Becomes(r, c) /\ caller[r].at = "event" /\ c.at = "request"
                              /\ c.ok = caller[r].ok
                              /\ \/ c.noted /\ inbox' = inbox \cup {r}
                                 \/ c.noted = caller[r].noted /\ UNCHANGED inbox
      BY <1>2, CallbackSteps
    <2>2. UNCHANGED <<wake, ended>>
      BY <1>2 DEF RecordTerminalEvent
    <2> QED BY <2>1, <2>2 DEF Promised, Becomes, MaintTypeOK
  <1>3. CASE RequestMaintenance(r)
    <2>1. PICK c \in Caller : /\ Becomes(r, c) /\ caller[r].at = "request" /\ c.at = "elect"
                              /\ Moved(r, c)
      BY <1>3, CallbackSteps
    <2>2. caller[r].noted \in BOOLEAN /\ wake \in Wake /\ UNCHANGED <<inbox, ended>>
      BY <1>3 DEF MaintTypeOK, Caller, RequestMaintenance
    <2>3. /\ wake'.requested = wake.requested + 1 /\ wake'.attempted = wake.attempted
          /\ wake'.fullCompleted = wake.fullCompleted
          /\ wake'.fullRequested = IF caller[r].noted THEN wake.fullRequested
                                   ELSE wake.requested + 1
      BY <1>3, <2>2, WakeRequested DEF RequestMaintenance
    <2> QED BY <2>1, <2>2, <2>3, CountersAreNat
      DEF Promised, Becomes, Moved, MaintTypeOK, CompletionIsTrue, PassIsCurrent, InPass
  <1>4. CASE TryElection(r)
    <2>1. PICK c \in Caller : /\ Becomes(r, c) /\ caller[r].at = "elect" /\ (caller[r].ok => c.ok)
                              /\ \/ maintainer # NoMaintainer /\ c.at = "done"
                                 \/ c.at = "elected"
      BY <1>4, CallbackSteps
    <2>2. UNCHANGED <<wake, inbox, ended>>
      BY <1>4 DEF TryElection
    <2> QED BY <2>1, <2>2 DEF Promised, Becomes, MaintTypeOK, OneMaintainer
  <1>5. CASE RunElectionPass(r) \/ Unelect(r)
    <2>1. PICK c \in Caller : /\ Becomes(r, c) /\ caller[r].at \in {"elected", "unlock"}
                              /\ (caller[r].ok => c.ok) /\ c.at \in {"begin", "unlock", "reread"}
      BY <1>5, CallbackSteps DEF Moved
    <2>2. UNCHANGED <<wake, inbox, ended>>
      BY <1>5 DEF RunElectionPass, Unelect
    <2> QED BY <2>1, <2>2 DEF Promised, Becomes, MaintTypeOK
  <1>6. CASE RereadWake(r)
    <2>1. PICK c \in Caller : /\ Becomes(r, c) /\ caller[r].at = "reread" /\ (caller[r].ok => c.ok)
                              /\ \/ c.at = "elect"
                                 \/ /\ c.at = "done"
                                    /\ caller[r].ok => wake.requested <= wake.attempted
      BY <1>6, CallbackSteps
    <2>2. UNCHANGED <<wake, inbox, ended>>
      BY <1>6 DEF RereadWake
    <2> QED BY <2>1, <2>2, CountersAreNat DEF Promised, Becomes, MaintTypeOK
  <1> QED BY <1>1, <1>2, <1>3, <1>4, <1>5, <1>6

\* The steps of a pass keep it.
LEMMA PassKeepsPromise ==
  ASSUME MaintTypeOK, MaxRequests \in Nat, CompletionIsTrue, OneMaintainer, PassIsCurrent,
         Promised, NEW r \in EndedRows, BeginPass(r) \/ CaptureRows(r) \/ FinishPass(r)
  PROVE  Promised'
  <1> USE DEF At, Asked, Elected
  <1>1. CASE BeginPass(r)
    <2>1. PICK c \in Caller : /\ Becomes(r, c) /\ caller[r].at = "begin"
                              /\ c.ok \in {TRUE, caller[r].ok} /\ c.at \in {"clean", "unlock"}
      BY <1>1, PassSteps
    <2>2. UNCHANGED <<wake, inbox, ended>>
      BY <1>1 DEF BeginPass
    <2> QED BY <2>1, <2>2 DEF Promised, Becomes, MaintTypeOK
  <1>2. CASE CaptureRows(r)
    <2>1. PICK c \in Caller : /\ Becomes(r, c) /\ caller[r].at = "clean" /\ c.at = "finish" /\ c.ok
                              /\ c.passTarget = caller[r].passTarget
                              /\ c.captured = IF caller[r].full THEN ended ELSE inbox \cap ended
      BY <1>2, PassSteps
    <2>2. UNCHANGED <<wake, inbox, ended>>
      BY <1>2 DEF CaptureRows
    <2>3. ASSUME NEW x \in ended \ c.captured, Asked(x)
          PROVE  wake.requested > c.passTarget /\ (x \in inbox \/ wake.fullRequested > c.passTarget)
      <3>1. ~ caller[r].full /\ x \notin inbox
        BY <2>1, <2>3
      <3>2. wake.fullRequested > wake.fullCompleted
        BY <2>3, <3>1 DEF Promised
      <3> QED BY <2>1, <3>1, <3>2, CountersAreNat DEF PassIsCurrent, InPass, CompletionIsTrue
    <2> QED BY <2>1, <2>2, <2>3 DEF Promised, Becomes, MaintTypeOK
  <1>3. CASE FinishPass(r)
    <2>1. PICK c \in Caller : /\ Becomes(r, c) /\ caller[r].at = "finish" /\ (caller[r].ok => c.ok)
                              /\ c.at = IF caller[r].ok /\ wake'.requested > wake'.attempted
                                        THEN "begin" ELSE "unlock"
      BY <1>3, PassSteps
    <2>2. /\ ended' = ended \ caller[r].captured /\ inbox' = inbox \ caller[r].captured
          /\ caller[r] \in Caller /\ wake \in Wake /\ wake' = Finished(caller[r])
      BY <1>3 DEF FinishPass, MaintTypeOK
    <2>3. wake.attempted <= caller[r].passTarget
      BY <2>1 DEF PassIsCurrent, InPass
    <2>4. /\ wake'.requested = wake.requested /\ wake'.fullRequested = wake.fullRequested
          /\ wake'.attempted = caller[r].passTarget
          /\ \/ wake'.fullCompleted = wake.fullCompleted
             \/ wake.fullRequested <= caller[r].passTarget
      BY <2>2, <2>3, WakeFinished, CountersAreNat
    <2>5. wake.fullCompleted <= caller[r].passTarget
      BY <2>1, CountersAreNat DEF PassIsCurrent, InPass, CompletionIsTrue
    <2>6. \A d \in EndedRows : caller'[d].at # "finish"
      BY <2>1 DEF OneMaintainer, Becomes
    <2>7. ASSUME NEW x \in ended', Asked(x)'
          PROVE  /\ wake'.requested > wake'.attempted
                 /\ x \in inbox' \/ wake'.fullRequested > wake'.fullCompleted
      <3>1. x \in ended \ caller[r].captured /\ Asked(x)
        BY <2>1, <2>2, <2>7 DEF Becomes, MaintTypeOK
      <3> QED BY <2>1, <2>2, <2>4, <2>5, <3>1, CountersAreNat DEF Promised
    <2>8. \A x \in ended' :
             /\ caller'[x].at # "live"
             /\ caller'[x].at = "request" /\ caller'[x].noted => x \in inbox'
      BY <2>1, <2>2 DEF Promised, Becomes, MaintTypeOK
    <2>9. \A d \in EndedRows :
             /\ caller'[d].ok /\ caller'[d].at # "dead"
             /\ caller'[d].at \in {"live", "event"} => ~ caller'[d].noted
      BY <2>1 DEF Promised, Becomes
    <2>10. \E d \in EndedRows : caller'[d].at \in Elected
      BY <2>1 DEF Becomes
    <2> QED BY <2>6, <2>7, <2>8, <2>9, <2>10 DEF Promised
  <1> QED BY <1>1, <1>2, <1>3

\* MaintInv holds at first and after every step.
LEMMA MaintInductive ==
  ASSUME MaxRequests \in Nat, MaxMaintFaults \in Nat, NoMaintainer \notin EndedRows
  PROVE  /\ MaintInit => MaintInv
         /\ MaintInv /\ [MaintNext]_maintVars => MaintInv'
  <1>1. MaintInit => MaintInv
    <2> SUFFICES ASSUME MaintInit PROVE MaintInv
      OBVIOUS
    <2>1. 0 \in Counters /\ NoWake \in Wake
      BY DEF Counters, NoWake, Wake
    <2>2. MaintTypeOK
      BY <2>1, NewCallers DEF MaintInit, MaintTypeOK
    <2>3. \A r \in EndedRows : caller[r].at = "live" /\ caller[r].ok /\ ~ caller[r].noted
      BY DEF MaintInit, NewCaller
    <2>4. /\ wake.requested = 0 /\ wake.attempted = 0 /\ wake.completed = 0
          /\ wake.fullRequested = 0 /\ wake.fullCompleted = 0
      BY DEF MaintInit, NoWake
    <2>5. CompletionIsTrue /\ OneMaintainer /\ PassIsCurrent
      BY <2>3, <2>4 DEF MaintInit, CompletionIsTrue, OneMaintainer, PassIsCurrent, Elected, InPass
    <2>6. WakesAreServed
      BY <2>3, <2>4 DEF MaintInit, WakesAreServed, Promised, At
    <2> QED BY <2>2, <2>5, <2>6 DEF MaintInv
  <1>2. ASSUME MaintInv, [MaintNext]_maintVars PROVE MaintInv'
    <2>1. MaintTypeOK /\ MaintTypeOK'
      BY <1>2, MaintTypesStay DEF MaintInv
    <2>2. CASE UNCHANGED maintVars
      BY <1>2, <2>1, <2>2 DEF maintVars, MaintInv, CompletionIsTrue, OneMaintainer, PassIsCurrent,
         WakesAreServed, Promised, At, Asked
    <2>3. ASSUME NEW r \in EndedRows,
                 RowEnds(r) \/ RecordTerminalEvent(r) \/ RequestMaintenance(r) \/ TryElection(r)
                   \/ RunElectionPass(r) \/ Unelect(r) \/ RereadWake(r)
          PROVE  MaintInv'
      <3>1. UNCHANGED maintFaults
        BY <2>3 DEF RowEnds, RecordTerminalEvent, RequestMaintenance, TryElection,
           RunElectionPass, Unelect, RereadWake
      <3>2. CompletionIsTrue' /\ PassIsCurrent' /\ OneMaintainer'
        BY <1>2, <2>1, <2>3, CallbackKeepsPass, MaintainerKeeps DEF MaintInv
      <3>3. WakesAreServed'
        BY <1>2, <2>1, <2>3, <3>1, CallbackKeepsPromise DEF MaintInv, WakesAreServed
      <3> QED BY <2>1, <3>2, <3>3 DEF MaintInv
    <2>4. ASSUME NEW r \in EndedRows, BeginPass(r) \/ CaptureRows(r) \/ FinishPass(r)
          PROVE  MaintInv'
      <3>1. UNCHANGED maintFaults
        BY <2>4 DEF BeginPass, CaptureRows, FinishPass
      <3>2. CompletionIsTrue' /\ PassIsCurrent' /\ OneMaintainer'
        BY <1>2, <2>1, <2>4, PassKeepsPass, MaintainerKeeps DEF MaintInv
      <3>3. WakesAreServed'
        BY <1>2, <2>1, <2>4, <3>1, PassKeepsPromise DEF MaintInv, WakesAreServed
      <3> QED BY <2>1, <3>2, <3>3 DEF MaintInv
    <2>5. ASSUME NEW r \in EndedRows,
                 RequestFails(r) \/ CleaningFails(r) \/ FinishFails(r) \/ MaintCrash(r)
          PROVE  MaintInv'
      <3>1. WakesAreServed'
        BY <2>1, <2>5, FaultsExcuse DEF RequestFails, CleaningFails, FinishFails, MaintCrash
      <3>2. OneMaintainer'
        BY <1>2, <2>1, <2>5, MaintainerKeeps DEF MaintInv
      <3>3. CompletionIsTrue' /\ PassIsCurrent'
        BY <1>2, <2>1, <2>5, CallbackKeepsPass, PassKeepsPass DEF MaintInv
      <3> QED BY <2>1, <3>1, <3>2, <3>3 DEF MaintInv
    <2> QED BY <1>2, <2>2, <2>3, <2>4, <2>5 DEF MaintNext
  <1> QED BY <1>1, <1>2

\* No wake-up is lost.
LEMMA MaintSound ==
  ASSUME MaintInv, MaxRequests \in Nat
  PROVE  MaintTypeOK /\ NoWakeLost /\ CompletionIsTrue
  <1>1. MaintTypeOK /\ CompletionIsTrue /\ WakesAreServed
    BY DEF MaintInv
  <1>2. ASSUME maintFaults = 0, \A r \in EndedRows : caller[r].at \in {"live", "done"}
        PROVE  ended = {} /\ wake.attempted = wake.requested
    <2>1. Promised
      BY <1>1, <1>2 DEF WakesAreServed
    <2>2. ~ (wake.requested > wake.attempted)
      BY <1>2, <2>1 DEF Promised, Elected
    <2>3. wake.attempted = wake.requested
      BY <1>1, <2>2, CountersAreNat DEF CompletionIsTrue
    <2>4. ended = {}
      BY <1>1, <1>2, <2>1, <2>2 DEF Promised, Asked, MaintTypeOK
    <2> QED BY <2>3, <2>4
  <1> QED BY <1>1, <1>2 DEF NoWakeLost

\* However requests, passes, elections and deaths interleave, for any number of rows and
\* requests: when nothing failed and nobody is at work no ended row is left, and whoever is
\* told "complete" was served by a pass that began after its request
\* (private_queue_cleanup.go, queue_maintenance_state.go).
THEOREM WakesAreKept ==
  ASSUME MaxRequests \in Nat, MaxMaintFaults \in Nat, NoMaintainer \notin EndedRows
  PROVE  MaintSpec => [](NoWakeLost /\ CompletionIsTrue)
  <1>1. MaintInit => MaintInv
    BY MaintInductive
  <1>2. MaintInv /\ [MaintNext]_maintVars => MaintInv'
    BY MaintInductive
  <1>3. MaintInv => NoWakeLost /\ CompletionIsTrue
    BY MaintSound
  <1> QED BY <1>1, <1>2, <1>3, PTL DEF MaintSpec

--------------------
(* The election of the owner: what its invariant says.                     *)

Startup == [key : Keys, boot : 1..MaxBoots, expired : BOOLEAN, assumed : BOOLEAN,
            published : BOOLEAN, settled : Reasons \cup {"none"}]
Child == [pc : ChildPcs, waits : BOOLEAN]

JournalTypes ==
    /\ startups \in Seq(Startup) /\ Len(startups) <= MaxStartups
    /\ children \in [1..Len(startups) -> Child]

\* A producer that acts on the lease, and a child that has not given it back.
Holding(p) == producers[p].pc \in {"elect", "stage", "accept", "start", "release"}
Inside(s) == children[s].pc \in {"born", "assumed", "bound", "serving", "draining", "unbound",
                                 "fenced", "failing"}

\* The lease is held by those processes and by the stop client's probe.
LeaseIsHeld ==
    /\ \A p \in Producers : ProducerOf(p) \in leaseBy <=> Holding(p)
    /\ \A s \in Starts : ChildOf(s) \in leaseBy <=> Inside(s)
    /\ Probe \in leaseBy <=> stopper.pc = "probe"

\* They exclude each other, but for a producer and the child it has just started.
LeaseExcludes ==
    /\ \A p, q \in Producers : Holding(p) /\ Holding(q) => p = q
    /\ \A p \in Producers : \A s \in Starts : Holding(p) /\ Inside(s) =>
          producers[p].pc = "release" /\ producers[p].seq = s
    /\ stopper.pc = "probe" =>
          (\A p \in Producers : ~ Holding(p)) /\ (\A s \in Starts : ~ Inside(s))

\* A child that has not given the lease back is the last startup's, in its boot.
LeaseIsCurrent ==
    /\ \A s \in Starts : Inside(s) => Current(s)
    /\ \A s \in Starts : startups[s].boot <= bootNow

\* An accepted intent waits for its child, and what the election has found stays true
\* until it acts on it.
ElectionStands ==
    /\ \A p \in Producers : producers[p].pc \in {"stage", "accept"} =>
          \A s \in Starts : startups[s].settled # "none"
    /\ \A p \in Producers : producers[p].pc = "accept" => producers[p].key \in staged
    /\ \A p \in Producers : producers[p].pc = "start" =>
          LET s == producers[p].seq IN
          /\ s \in Starts /\ Current(s)
          /\ children[s].pc = "none" /\ startups[s].settled = "none"
    /\ \A p \in Producers : producers[p].pc \in {"release", "observe"} =>
          producers[p].seq \in Starts

\* A child acts as owner only of a startup that it has assumed and nobody has settled.
OwnersAct ==
    \A s \in Starts :
        /\ Owning(s) => startups[s].settled = "none"
        /\ startups[s].assumed => children[s].pc \notin {"none", "born"}

\* The stop client's target was assumed, so no child will assume it again.
StopperAims ==
    stopper # IdleStopper =>
        stopper.target \in Starts /\ startups[stopper.target].assumed

ElectInv ==
    /\ ElectTypeOK /\ JournalTypes
    /\ LeaseIsHeld /\ LeaseExcludes /\ LeaseIsCurrent
    /\ ElectionStands /\ OwnersAct /\ EvidenceStands
    /\ StopperAims /\ StopReportIsTrue

--------------------
(* The election: the journal and the processes.                            *)

\* The holders of the lease are told apart.
LEMMA Holders ==
  /\ \A p, q : ProducerOf(p) = ProducerOf(q) => p = q
  /\ \A s, t : ChildOf(s) = ChildOf(t) => s = t
  /\ \A p, s : ProducerOf(p) # ChildOf(s)
  /\ \A p : ProducerOf(p) # Probe
  /\ \A s : ChildOf(s) # Probe
  BY DEF ProducerOf, ChildOf, Probe

\* A function on the first numbers is a sequence.
LEMMA Listed ==
  ASSUME NEW n \in Nat, NEW S, NEW f \in [1..n -> S]
  PROVE  f \in Seq(S) /\ Len(f) = n
  <1>1. f \in Seq(S)
    BY SeqDef
  <1>2. Len(f) \in Nat /\ DOMAIN f = 1..Len(f) /\ DOMAIN f = 1..n
    BY <1>1, LenProperties
  <1> QED BY <1>1, <1>2

\* The journal is a sequence of startups, each with its child.
LEMMA Journal ==
  ASSUME JournalTypes
  PROVE  /\ Latest \in Nat /\ Starts = 1..Latest
         /\ startups \in [Starts -> Startup] /\ children \in [Starts -> Child]
         /\ Latest <= MaxStartups
  BY LenProperties DEF JournalTypes, Latest, Starts

\* What the type invariant says of the journal follows.
LEMMA TypedJournal ==
  ASSUME JournalTypes
  PROVE  /\ Latest <= MaxStartups /\ Len(children) = Latest
         /\ \A s \in Starts :
              /\ startups[s] \in [key : Keys, boot : 1..MaxBoots, expired : BOOLEAN,
                                  assumed : BOOLEAN, published : BOOLEAN,
                                  settled : Reasons \cup {"none"}]
              /\ children[s] \in [pc : ChildPcs, waits : BOOLEAN]
  <1>1. Len(children) = Len(startups)
    BY Journal, Listed DEF JournalTypes, Latest
  <1> QED BY <1>1, Journal DEF JournalTypes, Latest, Startup, Child

\* The rest of it.
RestTypes ==
    /\ staged \subseteq Keys /\ sockets \subseteq Starts
    /\ leaseBy \subseteq
         {ChildOf(s) : s \in Starts} \cup {ProducerOf(p) : p \in Producers} \cup {Probe}
    /\ producers \in [Producers -> [pc : ProducerPcs, key : Keys, seq : 0..MaxStartups]]
    /\ stopper \in [pc : {"idle", "contact", "observe", "probe"}, target : 0..MaxStartups,
                    report : {"none", "released", "closed"}]
    /\ bootNow \in 1..MaxBoots /\ electFaults \in 0..MaxElectFaults

\* The invariant gives the journal, the processes and the lease their types.
LEMMA Typed ==
  JournalTypes => (ElectTypeOK <=> RestTypes)
  BY TypedJournal DEF ElectTypeOK, RestTypes

\* A changed record changes nothing else.
LEMMA RecordChanges ==
  ASSUME JournalTypes, NEW s \in Starts, NEW r \in Startup, startups' = [startups EXCEPT ![s] = r]
  PROVE  /\ startups' \in Seq(Startup) /\ Latest' = Latest /\ Starts' = Starts
         /\ startups'[s] = r /\ \A t \in Starts : t # s => startups'[t] = startups[t]
  <1>1. s \in 1..Len(startups) /\ startups \in Seq(Startup)
    BY DEF Starts, Latest, JournalTypes
  <1>2. /\ startups' \in Seq(Startup) /\ Len(startups') = Len(startups)
        /\ \A j \in 1..Len(startups) : startups'[j] = IF j = s THEN r ELSE startups[j]
    BY <1>1, ExceptSeq
  <1> QED BY <1>1, <1>2 DEF Starts, Latest

\* A step of a child that may change its startup's record and give back the lease, and may
\* not undo what others rely on.
ChildMoves(s, c, r) ==
    /\ c \in Child /\ r \in Startup
    /\ children' = [children EXCEPT ![s] = c]
    /\ startups' = [startups EXCEPT ![s] = r]
    /\ r.key = startups[s].key /\ r.boot = startups[s].boot
    /\ children[s].pc = "none" <=> c.pc = "none"
    /\ c.pc = "born" => children[s].pc = "born"
    /\ c.pc \in {"gone"} \/ Present(s) \/ c.pc = children[s].pc
    /\ startups[s].assumed => r.assumed
    /\ r.assumed => c.pc \notin {"none", "born"}
    /\ r.published => r.assumed
    /\ startups[s].settled # "none" => r.assumed = startups[s].assumed
    /\ r.settled \in {startups[s].settled, "serving-released"}
    /\ children[s].pc = "none" => r.settled = startups[s].settled
    /\ leaseBy' \in {leaseBy, leaseBy \ {ChildOf(s)}}
    /\ Inside(s)' <=> Inside(s) /\ leaseBy' = leaseBy
    /\ Owning(s)' => /\ r.settled = "none"
                     /\ Owning(s) \/ ~ startups[s].assumed

\* The bounds.
Bounds == MaxStartups \in Nat /\ MaxBoots \in Nat \ {0} /\ MaxElectFaults \in Nat

\* What else may change in the step of a child: its endpoint, and the stop client's request
\* is answered.
Beside(s) ==
    /\ UNCHANGED <<staged, producers, bootNow>>
    /\ sockets' \in {sockets, sockets \ {s}, sockets \cup {s}}
    /\ electFaults' = electFaults \/ ElectFault
    /\ \/ stopper' = stopper
       \/ stopper.pc = "contact" /\ stopper' = [stopper EXCEPT !.pc = "observe"]

\* Such a step keeps the invariant.
LEMMA ChildMovesKeep ==
  ASSUME Bounds, ElectInv, NEW s \in Starts, NEW c, NEW r, ChildMoves(s, c, r), Beside(s)
  PROVE  ElectInv'
  <1>0. UNCHANGED <<staged, producers, bootNow>>
    BY DEF Beside
  <1>1. /\ JournalTypes /\ RestTypes /\ c \in Child /\ r \in Startup /\ s \in 1..Latest
        /\ startups' = [startups EXCEPT ![s] = r] /\ children' = [children EXCEPT ![s] = c]
    BY Typed DEF ElectInv, ChildMoves, Starts
  <1>2. /\ Latest \in Nat /\ startups \in [Starts -> Startup] /\ children \in [Starts -> Child]
        /\ Latest <= MaxStartups
    BY <1>1, Journal
  <1>3. /\ startups' \in Seq(Startup) /\ Latest' = Latest /\ Starts' = Starts
        /\ startups'[s] = r /\ \A t \in Starts : t # s => startups'[t] = startups[t]
    BY <1>1, RecordChanges
  <1>4. /\ children' \in [Starts -> Child] /\ children'[s] = c
        /\ \A t \in Starts : t # s => children'[t] = children[t]
    BY <1>1, <1>2
  <1>5. JournalTypes'
    BY <1>1, <1>2, <1>3, <1>4 DEF JournalTypes, Latest, Starts
  <1>a. \/ stopper' = stopper
        \/ (stopper.pc = "contact" /\ stopper' = [stopper EXCEPT !.pc = "observe"])
    BY DEF Beside
  <1>b. RestTypes'
    <2>1. sockets' \subseteq Starts'
      BY <1>1, <1>3 DEF Beside, RestTypes
    <2>2. leaseBy' \subseteq leaseBy
      BY DEF ChildMoves
    <2>3. electFaults' \in 0..MaxElectFaults
      BY <1>1 DEF Beside, RestTypes, ElectFault, Bounds
    <2>4. stopper' \in [pc : {"idle", "contact", "observe", "probe"}, target : 0..MaxStartups,
                        report : {"none", "released", "closed"}]
      BY <1>1, <1>a DEF RestTypes
    <2> QED BY <1>0, <1>1, <1>3, <2>1, <2>2, <2>3, <2>4 DEF RestTypes
  <1>6. ElectTypeOK'
    <2>1. JournalTypes' => (ElectTypeOK' <=> RestTypes')
      BY Typed, PTL
    <2> QED BY <2>1, <1>5, <1>b
  <1>7. \A t \in Starts : t # s =>
          /\ (Inside(t)' <=> Inside(t)) /\ (Owning(t)' <=> Owning(t))
          /\ (Present(t)' <=> Present(t)) /\ (Current(t)' <=> Current(t))
          /\ (Reobserved(t)' <=> Reobserved(t))
    BY <1>0, <1>3, <1>4 DEF Inside, Owning, Present, Current, SameBoot, Reobserved
  <1>8. \A p \in Producers : Holding(p)' <=> Holding(p)
    BY <1>0 DEF Holding
  <1>9. Current(s)' <=> Current(s)
    BY <1>0, <1>3, <1>4 DEF Current, SameBoot, ChildMoves
  <1>10. Inside(s)' <=> Inside(s) /\ leaseBy' = leaseBy
    BY DEF ChildMoves
  <1>11. leaseBy' \in {leaseBy, leaseBy \ {ChildOf(s)}}
    BY DEF ChildMoves
  <1>12. LeaseIsHeld'
    <2>1. LeaseIsHeld
      BY DEF ElectInv
    <2>2. \A p \in Producers : ProducerOf(p) \in leaseBy' <=> Holding(p)'
      BY <2>1, <1>8, <1>11, Holders DEF LeaseIsHeld
    <2>3. \A t \in Starts : ChildOf(t) \in leaseBy' <=> Inside(t)'
      BY <2>1, <1>7, <1>10, <1>11, Holders DEF LeaseIsHeld
    <2>4. stopper'.pc = "probe" <=> stopper.pc = "probe"
      BY <1>1, <1>a DEF RestTypes
    <2>5. Probe \in leaseBy' <=> stopper'.pc = "probe"
      BY <2>1, <2>4, <1>11, Holders DEF LeaseIsHeld
    <2> QED BY <2>2, <2>3, <2>5, <1>3 DEF LeaseIsHeld
  <1>13. LeaseExcludes'
    BY <1>0, <1>1, <1>a, <1>3, <1>7, <1>8, <1>10 DEF LeaseExcludes, ElectInv, RestTypes
  <1>14. LeaseIsCurrent'
    <2>1. \A t \in Starts : startups'[t].boot = startups[t].boot
      BY <1>3 DEF ChildMoves
    <2> QED BY <2>1, <1>0, <1>3, <1>7, <1>9, <1>10 DEF LeaseIsCurrent, ElectInv
  <1>15. ElectionStands'
    BY <1>0, <1>3, <1>4, <1>7, <1>9 DEF ElectionStands, ElectInv, ChildMoves
  <1>16. OwnersAct'
    BY <1>3, <1>4, <1>7 DEF OwnersAct, ElectInv, ChildMoves
  <1>17. EvidenceStands'
    <2>1. EvidenceStands
      BY DEF ElectInv
    <2>2. Reobserved(s) /\ startups[s].settled # "none" => Reobserved(s)'
      BY <1>0, <1>3, <1>4, <1>9 DEF Reobserved, ChildMoves, SameBoot, Present, Current
    <2>3. startups[s].settled = "none" => r.settled = "none" \/ r.settled = "serving-released"
      BY DEF ChildMoves
    <2>4. r.settled # "none" => Reobserved(s)'
      BY <2>1, <2>2, <2>3, <1>3 DEF EvidenceStands, Reobserved
    <2>5. /\ r.key \in staged'
          /\ r.published => r.assumed
          /\ startups[s].settled # "none" => r.settled # "none"
      BY <1>0, <2>1 DEF EvidenceStands, ChildMoves
    <2>6. ASSUME NEW t \in Starts
          PROVE  /\ startups'[t].key \in staged'
                 /\ startups'[t].published => startups'[t].assumed
                 /\ startups'[t].settled # "none" => Reobserved(t)'
                 /\ t < Latest => startups'[t].settled # "none"
      <3>1. CASE t = s
        <4>1. startups'[s] = r /\ (s < Latest => startups[s].settled # "none")
          BY <2>1, <1>3 DEF EvidenceStands
        <4>2. Reobserved(t)' <=> Reobserved(s)'
          BY <3>1 DEF Reobserved, SameBoot, Present
        <4> QED BY <2>4, <2>5, <4>1, <4>2, <3>1
      <3>2. CASE t # s
        <4>1. startups'[t] = startups[t] /\ (Reobserved(t)' <=> Reobserved(t)) /\ staged' = staged
          BY <1>0, <1>3, <1>7, <3>2
        <4> QED BY <2>1, <4>1 DEF EvidenceStands
      <3> QED BY <3>1, <3>2
    <2> QED BY <2>6, <1>3 DEF EvidenceStands
  <1>18. /\ stopper' # IdleStopper => stopper # IdleStopper
         /\ stopper'.target = stopper.target /\ stopper'.report = stopper.report
    BY <1>1, <1>a DEF RestTypes, IdleStopper
  <1>19. StopperAims'
    BY <1>3, <1>18 DEF StopperAims, ElectInv, ChildMoves
  <1>20. StopReportIsTrue'
    <2>1. SUFFICES ASSUME stopper.report # "none"
                   PROVE  /\ ~ Owning(stopper.target)'
                          /\ stopper.report = "closed" => ~ Present(stopper.target)'
      BY <1>18 DEF StopReportIsTrue
    <2>2. /\ stopper.target \in Starts /\ startups[stopper.target].assumed
          /\ ~ Owning(stopper.target)
          /\ stopper.report = "closed" => ~ Present(stopper.target)
      BY <2>1 DEF ElectInv, StopperAims, StopReportIsTrue, IdleStopper
    <2>3. CASE stopper.target = s
      <3>1. ~ Owning(s)'
        BY <2>2, <2>3 DEF ChildMoves
      <3>2. ~ Present(s) => ~ Present(s)'
        BY <1>4 DEF ChildMoves, Present
      <3> QED BY <3>1, <3>2, <2>2, <2>3, <1>18
    <2>4. CASE stopper.target # s BY <2>2, <2>4, <1>7, <1>18
    <2> QED BY <2>3, <2>4
  <1> QED BY <1>5, <1>6, <1>12, <1>13, <1>14, <1>15, <1>16, <1>17, <1>19, <1>20 DEF ElectInv

--------------------
(* The election: the child's steps.                                        *)

\* Where the child acts for its startup alone, the rest is out of its way.
LEMMA ChildKnows ==
  ASSUME ElectInv, NEW s \in Starts
  PROVE  /\ children[s] \in Child /\ startups[s] \in Startup
         /\ startups \in [Starts -> Startup] /\ children \in [Starts -> Child]
         /\ startups = [startups EXCEPT ![s] = startups[s]]
         /\ children = [children EXCEPT ![s] = children[s]]
         /\ startups[s].assumed => children[s].pc \notin {"none", "born"}
         /\ startups[s].published => startups[s].assumed
         /\ Owning(s) => startups[s].settled = "none"
         /\ Inside(s) <=> ChildOf(s) \in leaseBy
  <1>1. JournalTypes
    BY DEF ElectInv
  <1>2. startups \in [Starts -> Startup] /\ children \in [Starts -> Child]
    BY <1>1, Journal
  <1> QED BY <1>2 DEF ElectInv, OwnersAct, EvidenceStands, LeaseIsHeld

\* A child that only moves on.
LEMMA ChildGoes ==
  ASSUME Bounds, ElectInv, NEW s \in Starts, Present(s), NEW to \in ChildPcs \ {"none", "born"},
         ChildStep(s, to), UNCHANGED startups, Beside(s),
         to \in {"assumed", "bound", "serving", "draining", "unbound"} => Owning(s),
         IF to \in {"waiting", "leaving", "gone"}
         THEN leaseBy' = leaseBy \ {ChildOf(s)} ELSE UNCHANGED leaseBy /\ Inside(s)
  PROVE  ElectInv'
  <1> DEFINE c == [children[s] EXCEPT !.pc = to]
  <1>1. children[s] \in Child /\ children \in [Starts -> Child]
    BY ChildKnows
  <1>2. c \in Child /\ c.pc = to /\ children' = [children EXCEPT ![s] = c]
    BY <1>1 DEF Child, ChildStep
  <1>3. children'[s].pc = to
    BY <1>1, <1>2
  <1>4. Inside(s)' <=> Inside(s) /\ leaseBy' = leaseBy
    BY <1>3, ChildKnows DEF Inside, ChildPcs
  <1>5. Owning(s)' => Owning(s)
    BY <1>3 DEF Owning
  <1> HIDE DEF c
  <1>6. ChildMoves(s, c, startups[s])
    BY <1>2, <1>4, <1>5, ChildKnows DEF ChildMoves, Present
  <1> QED BY <1>6, ChildMovesKeep

\* A child assumes its startup, or fails to.
LEMMA AssumeKeeps ==
  ASSUME Bounds, ElectInv, NEW s \in Starts, Assume(s)
  PROVE  ElectInv'
  <1>1. Beside(s) /\ UNCHANGED leaseBy /\ children[s].pc = "born" /\ Present(s) /\ Inside(s)
    BY DEF Assume, Beside, Present, Inside
  <1>2. CASE MayAssume(s)
    <2> DEFINE c == [children[s] EXCEPT !.pc = "assumed"]
               r == [startups[s] EXCEPT !.assumed = TRUE]
    <2>1. children[s] \in Child /\ startups[s] \in Startup /\ children \in [Starts -> Child]
          /\ startups \in [Starts -> Startup]
      BY ChildKnows
    <2>2. c \in Child /\ c.pc = "assumed" /\ children' = [children EXCEPT ![s] = c]
      BY <1>2, <2>1 DEF Child, ChildPcs, ChildStep, Assume
    <2>3. /\ r \in Startup /\ r.assumed /\ r.settled = startups[s].settled
          /\ r.key = startups[s].key /\ r.boot = startups[s].boot
          /\ startups' = [startups EXCEPT ![s] = r]
      BY <1>2, <2>1 DEF Startup, Assume
    <2>4. children'[s].pc = "assumed"
      BY <2>1, <2>2
    <2>5. startups[s].settled = "none" /\ ~ startups[s].assumed
      BY <1>1, <1>2, ChildKnows DEF MayAssume
    <2>6. Inside(s)'
      BY <2>4 DEF Inside
    <2> HIDE DEF c, r
    <2>7. ChildMoves(s, c, r)
      BY <1>1, <2>2, <2>3, <2>5, <2>6 DEF ChildMoves
    <2> QED BY <1>1, <2>7, ChildMovesKeep
  <1>3. CASE ~ MayAssume(s) BY <1>1, <1>3, ChildGoes DEF Assume, ChildPcs
  <1> QED BY <1>2, <1>3

\* A bound owner publishes its endpoint, or fails to.
LEMMA PublishKeeps ==
  ASSUME Bounds, ElectInv, NEW s \in Starts, Publish(s)
  PROVE  ElectInv'
  <1>1. /\ Beside(s) /\ UNCHANGED leaseBy /\ children[s].pc = "bound"
        /\ Present(s) /\ Inside(s) /\ Owning(s)
    BY DEF Publish, Beside, Present, Inside, Owning
  <1> DEFINE May == Current(s) /\ startups[s].settled = "none" /\ startups[s].assumed
  <1>2. CASE May
    <2> DEFINE c == [children[s] EXCEPT !.pc = "serving"]
               r == [startups[s] EXCEPT !.published = TRUE]
    <2>1. children[s] \in Child /\ startups[s] \in Startup /\ children \in [Starts -> Child]
          /\ startups \in [Starts -> Startup]
      BY ChildKnows
    <2>2. c \in Child /\ c.pc = "serving" /\ children' = [children EXCEPT ![s] = c]
      BY <1>2, <2>1 DEF Child, ChildPcs, ChildStep, Publish
    <2>3. /\ r \in Startup /\ r.assumed = startups[s].assumed
          /\ r.settled = startups[s].settled
          /\ r.key = startups[s].key /\ r.boot = startups[s].boot
          /\ startups' = [startups EXCEPT ![s] = r]
      BY <1>2, <2>1 DEF Startup, Publish
    <2>4. children'[s].pc = "serving"
      BY <2>1, <2>2
    <2>5. Inside(s)'
      BY <2>4 DEF Inside
    <2>6. startups[s].settled = "none" /\ startups[s].assumed
      BY <1>2
    <2> HIDE DEF c, r
    <2>7. ChildMoves(s, c, r)
      BY <1>1, <2>2, <2>3, <2>5, <2>6 DEF ChildMoves
    <2> QED BY <1>1, <2>7, ChildMovesKeep
  <1>3. CASE ~ May BY <1>1, <1>3, ChildGoes DEF Publish, ChildPcs
  <1> QED BY <1>2, <1>3

\* An owner that goes on without the lease fences its startup first, unless that fails.
LEMMA FenceKeeps ==
  ASSUME Bounds, ElectInv, NEW s \in Starts, FenceServing(s)
  PROVE  ElectInv'
  <1>1. /\ UNCHANGED leaseBy /\ children[s].pc = "unbound"
        /\ Present(s) /\ Inside(s) /\ Owning(s) /\ startups[s].assumed
    BY DEF FenceServing, Present, Inside, Owning
  <1>2. CASE /\ startups' = [startups EXCEPT ![s].settled = "serving-released"]
             /\ UNCHANGED electFaults
    <2> DEFINE c == [children[s] EXCEPT !.pc = "fenced"]
               r == [startups[s] EXCEPT !.settled = "serving-released"]
    <2>1. children[s] \in Child /\ startups[s] \in Startup /\ children \in [Starts -> Child]
          /\ startups \in [Starts -> Startup]
      BY ChildKnows
    <2>2. c \in Child /\ c.pc = "fenced" /\ children' = [children EXCEPT ![s] = c]
      BY <2>1 DEF Child, ChildPcs, ChildStep, FenceServing
    <2>3. /\ r \in Startup /\ r.assumed = startups[s].assumed
          /\ r.published = startups[s].published /\ r.settled = "serving-released"
          /\ r.key = startups[s].key /\ r.boot = startups[s].boot
          /\ startups' = [startups EXCEPT ![s] = r]
      BY <1>2, <2>1 DEF Startup, Reasons
    <2>4. children'[s].pc = "fenced"
      BY <2>1, <2>2
    <2>5. Inside(s)' /\ ~ Owning(s)'
      BY <2>4 DEF Inside, Owning
    <2>6. Beside(s)
      BY <1>2 DEF FenceServing, Beside
    <2> HIDE DEF c, r
    <2>7. ChildMoves(s, c, r)
      BY <1>1, <2>2, <2>3, <2>5, ChildKnows DEF ChildMoves
    <2> QED BY <2>6, <2>7, ChildMovesKeep
  <1>3. CASE ElectFault /\ UNCHANGED startups
    <2>1. Beside(s)
      BY <1>3 DEF FenceServing, Beside
    <2> QED BY <1>1, <1>3, <2>1, ChildGoes DEF FenceServing, ChildPcs
  <1> QED BY <1>2, <1>3 DEF FenceServing

\* The steps in which a child only moves on.
LEMMA ChildStepsKeep ==
  ASSUME Bounds, ElectInv, NEW s \in Starts,
         \/ Bind(s) \/ Fail(s) \/ CloseFailed(s) \/ EndServing(s) \/ FinishRuntime(s)
         \/ ReleaseServing(s) \/ ResidentLeaves(s)
  PROVE  ElectInv'
  <1>1. CASE Bind(s) BY <1>1, ChildGoes DEF Bind, Beside, Present, Inside, Owning, ChildPcs
  <1>2. CASE Fail(s) BY <1>2, ChildGoes DEF Fail, Beside, Present, Inside, Owning, ChildPcs
  <1>3. CASE CloseFailed(s)
    BY <1>3, ChildGoes DEF CloseFailed, DropLease, Beside, Present, Inside, Owning, ChildPcs
  <1>4. CASE EndServing(s)
    BY <1>4, ChildGoes DEF EndServing, Beside, Present, Inside, Owning, ChildPcs
  <1>5. CASE FinishRuntime(s)
    BY <1>5, ChildGoes DEF FinishRuntime, DropLease, Beside, Present, Inside, Owning, ChildPcs
  <1>6. CASE ReleaseServing(s)
    BY <1>6, ChildGoes DEF ReleaseServing, DropLease, Beside, Present, Inside, Owning, ChildPcs
  <1>7. CASE ResidentLeaves(s)
    <2>1. ~ Inside(s) /\ leaseBy = leaseBy \ {ChildOf(s)}
      BY <1>7, ChildKnows DEF ResidentLeaves, Inside
    <2> QED BY <1>7, <2>1, ChildGoes DEF ResidentLeaves, Beside, Present, ChildPcs
  <1> QED BY <1>1, <1>2, <1>3, <1>4, <1>5, <1>6, <1>7

\* A child that starts a daemon, loses it or dies.
LEMMA DaemonsKeep ==
  ASSUME Bounds, ElectInv, NEW s \in Starts,
         GuardDaemonStart(s) \/ DaemonEnds(s) \/ ChildDies(s)
  PROVE  ElectInv'
  <1>1. ASSUME NEW b \in BOOLEAN, children' = [children EXCEPT ![s].waits = b],
               UNCHANGED <<startups, staged, sockets, leaseBy, producers, stopper>>,
               UNCHANGED <<bootNow, electFaults>>
        PROVE  ElectInv'
    <2> DEFINE c == [children[s] EXCEPT !.waits = b]
    <2>1. children[s] \in Child /\ children \in [Starts -> Child]
      BY ChildKnows
    <2>2. c \in Child /\ c.pc = children[s].pc /\ children' = [children EXCEPT ![s] = c]
      BY <1>1, <2>1 DEF Child
    <2>3. children'[s].pc = children[s].pc
      BY <2>1, <2>2
    <2>4. (Inside(s)' <=> Inside(s)) /\ (Owning(s)' <=> Owning(s))
      BY <2>3 DEF Inside, Owning
    <2> HIDE DEF c
    <2>5. ChildMoves(s, c, startups[s]) /\ Beside(s)
      BY <1>1, <2>2, <2>4, ChildKnows DEF ChildMoves, Beside
    <2> QED BY <2>5, ChildMovesKeep
  <1>2. CASE ChildDies(s)
    <2> DEFINE c == [pc |-> "gone", waits |-> FALSE]
    <2>1. children[s] \in Child /\ children \in [Starts -> Child]
      BY ChildKnows
    <2>2. c \in Child /\ c.pc = "gone" /\ children' = [children EXCEPT ![s] = c]
      BY <1>2 DEF Child, ChildPcs, ChildDies
    <2>3. children'[s].pc = "gone"
      BY <2>1, <2>2
    <2>4. ~ Inside(s)' /\ ~ Owning(s)'
      BY <2>3 DEF Inside, Owning
    <2>5. leaseBy' = leaseBy \ {ChildOf(s)} /\ (Inside(s) => leaseBy' # leaseBy)
      BY <1>2, ChildKnows DEF ChildDies, DropLease
    <2>6. children[s].pc # "none" /\ Beside(s) /\ UNCHANGED startups
      BY <1>2 DEF ChildDies, Present, Beside
    <2> HIDE DEF c
    <2>7. ChildMoves(s, c, startups[s])
      BY <2>2, <2>4, <2>5, <2>6, ChildKnows DEF ChildMoves
    <2> QED BY <2>6, <2>7, ChildMovesKeep
  <1> QED BY <1>1, <1>2 DEF GuardDaemonStart, DaemonEnds

\* The clock changes what is expired, and nothing else.
LEMMA ClockKeeps ==
  ASSUME Bounds, ElectInv, NEW s \in Starts, Expire(s) \/ ClockSetBack(s)
  PROVE  ElectInv'
  <1>1. PICK b \in BOOLEAN : startups' = [startups EXCEPT ![s].expired = b]
    BY DEF Expire, ClockSetBack
  <1>2. UNCHANGED <<children, leaseBy>> /\ Beside(s)
    BY DEF Expire, ClockSetBack, Beside
  <1> DEFINE r == [startups[s] EXCEPT !.expired = b]
  <1>3. /\ r \in Startup /\ r.assumed = startups[s].assumed /\ r.settled = startups[s].settled
        /\ r.published = startups[s].published
        /\ r.key = startups[s].key /\ r.boot = startups[s].boot
        /\ startups' = [startups EXCEPT ![s] = r]
    BY <1>1, ChildKnows DEF Startup
  <1>4. (Inside(s)' <=> Inside(s)) /\ (Owning(s)' <=> Owning(s))
    BY <1>2 DEF Inside, Owning
  <1> HIDE DEF r
  <1>5. ChildMoves(s, children[s], r)
    BY <1>2, <1>3, <1>4, ChildKnows DEF ChildMoves
  <1> QED BY <1>2, <1>5, ChildMovesKeep

--------------------
(* The election: the producer's steps.                                     *)

Producer == [pc : ProducerPcs, key : Keys, seq : 0..MaxStartups]

\* A step of a producer that leaves the journal and the processes alone.
ProducerMoves(p, x) ==
    /\ x \in Producer /\ producers' = [producers EXCEPT ![p] = x]
    /\ UNCHANGED <<startups, children, sockets, stopper, bootNow>>
    /\ staged' \in {staged, staged \cup {producers[p].key}}
    /\ electFaults' = electFaults \/ ElectFault
    /\ \/ /\ x.pc \in {"idle", "join", "observe"} /\ leaseBy' = leaseBy \ {ProducerOf(p)}
       \/ /\ x.pc = "elect" /\ leaseBy = {} /\ leaseBy' = {ProducerOf(p)}
       \/ /\ x.pc \in {"stage", "accept"} /\ producers[p].pc \in {"elect", "stage"}
          /\ leaseBy' = leaseBy
       \/ /\ x.pc = "release" /\ producers[p].pc = "start" /\ x.seq = producers[p].seq
          /\ leaseBy' = leaseBy
    /\ x.pc \in {"stage", "accept"} => \A s \in Starts : startups[s].settled # "none"
    /\ x.pc = "accept" => x.key \in staged'
    /\ x.pc \in {"release", "observe"} => x.seq \in Starts

\* Such a step keeps the invariant.
LEMMA ProducerMovesKeep ==
  ASSUME Bounds, ElectInv, NEW p \in Producers, NEW x, ProducerMoves(p, x)
  PROVE  ElectInv'
  <1>1. /\ JournalTypes /\ RestTypes
        /\ UNCHANGED <<startups, children, sockets, stopper, bootNow>>
        /\ x \in Producer /\ producers' = [producers EXCEPT ![p] = x]
    BY Typed DEF ElectInv, ProducerMoves
  <1>2. producers \in [Producers -> Producer]
    BY <1>1 DEF RestTypes, Producer
  <1>3. /\ producers' \in [Producers -> Producer] /\ producers'[p] = x
        /\ \A q \in Producers : q # p => producers'[q] = producers[q]
    BY <1>1, <1>2
  <1>4. JournalTypes' /\ Latest' = Latest /\ Starts' = Starts
    BY <1>1 DEF JournalTypes, Latest, Starts
  <1>5. /\ staged \subseteq staged' /\ staged' \subseteq Keys
    BY <1>1, <1>2 DEF ProducerMoves, RestTypes, Producer
  <1>6. ElectTypeOK'
    <2>1. leaseBy' \subseteq
            {ChildOf(s) : s \in Starts} \cup {ProducerOf(q) : q \in Producers} \cup {Probe}
      BY <1>1 DEF ProducerMoves, RestTypes
    <2>2. electFaults' \in 0..MaxElectFaults
      BY <1>1 DEF ProducerMoves, RestTypes, ElectFault, Bounds
    <2>3. RestTypes'
      BY <1>1, <1>3, <1>4, <1>5, <2>1, <2>2 DEF RestTypes, Producer
    <2>4. JournalTypes' => (ElectTypeOK' <=> RestTypes')
      BY Typed, PTL
    <2> QED BY <2>3, <2>4, <1>4
  <1>7. \A s \in Starts :
          /\ (Inside(s)' <=> Inside(s)) /\ (Owning(s)' <=> Owning(s))
          /\ (Present(s)' <=> Present(s)) /\ (Current(s)' <=> Current(s))
          /\ (Reobserved(s)' <=> Reobserved(s))
    BY <1>1, <1>4 DEF Inside, Owning, Present, Current, SameBoot, Reobserved
  <1>8. \A q \in Producers : q # p => (Holding(q)' <=> Holding(q))
    BY <1>3 DEF Holding
  <1>9. Holding(p)' <=> x.pc \in {"elect", "stage", "accept", "start", "release"}
    BY <1>3 DEF Holding
  <1>10. LeaseIsHeld /\ LeaseExcludes
    BY DEF ElectInv
  <1>11. \/ ~ Holding(p)' /\ leaseBy' = leaseBy \ {ProducerOf(p)}
         \/ Holding(p)' /\ leaseBy = {} /\ leaseBy' = {ProducerOf(p)} /\ x.pc = "elect"
         \/ /\ Holding(p)' /\ Holding(p) /\ leaseBy' = leaseBy
            /\ \/ x.pc # "release" /\ producers[p].pc # "release"
               \/ x.pc = "release" /\ x.seq = producers[p].seq
    BY <1>9 DEF ProducerMoves, Holding
  <1>12. LeaseIsHeld'
    <2>1. \A q \in Producers : ProducerOf(q) \in leaseBy' <=> Holding(q)'
      BY <1>8, <1>10, <1>11, Holders DEF LeaseIsHeld
    <2>2. \A s \in Starts : ChildOf(s) \in leaseBy' <=> Inside(s)'
      BY <1>7, <1>10, <1>11, Holders DEF LeaseIsHeld
    <2>3. Probe \in leaseBy' <=> stopper.pc = "probe"
      BY <1>10, <1>11, Holders DEF LeaseIsHeld
    <2> QED BY <1>1, <1>4, <2>1, <2>2, <2>3 DEF LeaseIsHeld
  <1>13. LeaseExcludes'
    <2>1. CASE ~ Holding(p)'
      <3>1. /\ \A q, t \in Producers : Holding(q)' /\ Holding(t)' => q = t
            /\ \A q \in Producers : \A s \in Starts : Holding(q)' /\ Inside(s)' =>
                  producers'[q].pc = "release" /\ producers'[q].seq = s
            /\ stopper.pc = "probe" =>
                  (\A q \in Producers : ~ Holding(q)') /\ (\A s \in Starts : ~ Inside(s)')
        BY <2>1, <1>3, <1>7, <1>8, <1>10 DEF LeaseExcludes
      <3> QED BY <3>1, <1>1, <1>4 DEF LeaseExcludes
    <2>2. CASE leaseBy = {}
      <3>1. /\ \A q \in Producers : ~ Holding(q)
            /\ \A s \in Starts : ~ Inside(s)
            /\ stopper.pc # "probe"
        BY <2>2, <1>10 DEF LeaseIsHeld
      <3> QED BY <3>1, <1>1, <1>4, <1>7, <1>8 DEF LeaseExcludes
    <2>3. CASE /\ Holding(p)' /\ Holding(p)
               /\ \/ x.pc # "release" /\ producers[p].pc # "release"
                  \/ x.pc = "release" /\ x.seq = producers[p].seq
      <3>1. /\ \A q, t \in Producers : Holding(q)' /\ Holding(t)' => q = t
            /\ \A q \in Producers : \A s \in Starts : Holding(q)' /\ Inside(s)' =>
                  producers'[q].pc = "release" /\ producers'[q].seq = s
            /\ stopper.pc = "probe" =>
                  (\A q \in Producers : ~ Holding(q)') /\ (\A s \in Starts : ~ Inside(s)')
        BY <2>3, <1>3, <1>7, <1>8, <1>10 DEF LeaseExcludes
      <3> QED BY <3>1, <1>1, <1>4 DEF LeaseExcludes
    <2> QED BY <1>11, <2>1, <2>2, <2>3
  <1>14. LeaseIsCurrent'
    BY <1>1, <1>4, <1>7 DEF LeaseIsCurrent, ElectInv
  <1>15. ElectionStands'
    BY <1>1, <1>3, <1>4, <1>5, <1>7 DEF ElectionStands, ElectInv, ProducerMoves
  <1>16. OwnersAct'
    BY <1>1, <1>4, <1>7 DEF OwnersAct, ElectInv
  <1>17. EvidenceStands'
    BY <1>1, <1>4, <1>5, <1>7 DEF EvidenceStands, ElectInv
  <1>18. StopperAims'
    BY <1>1, <1>4 DEF StopperAims, ElectInv, IdleStopper
  <1>19. StopReportIsTrue'
    <2>1. stopper.report # "none" => stopper.target \in Starts
      BY DEF ElectInv, StopperAims, IdleStopper
    <2> QED BY <2>1, <1>1, <1>7 DEF StopReportIsTrue, ElectInv
  <1> QED BY <1>4, <1>6, <1>12, <1>13, <1>14, <1>15, <1>16, <1>17, <1>18, <1>19 DEF ElectInv

\* What a producer's step makes of it.
LEMMA ProducerKnows ==
  ASSUME Bounds, ElectInv, NEW p \in Producers
  PROVE  /\ producers \in [Producers -> Producer] /\ producers[p] \in Producer
         /\ Latest \in 0..MaxStartups /\ Starts = 1..Latest
         /\ Holding(p) <=> ProducerOf(p) \in leaseBy
         /\ \A pc \in ProducerPcs : LET x == [producers[p] EXCEPT !.pc = pc] IN
              /\ x \in Producer /\ x.pc = pc /\ x.key = producers[p].key /\ x.seq = producers[p].seq
              /\ Advance(p, pc) => producers' = [producers EXCEPT ![p] = x]
         /\ IdleProducer(producers[p].key) \in Producer
  <1>1. JournalTypes /\ RestTypes
    BY Typed DEF ElectInv
  <1>2. Latest \in 0..MaxStartups /\ Starts = 1..Latest
    BY <1>1, Journal DEF Bounds
  <1>3. producers \in [Producers -> Producer]
    BY <1>1 DEF RestTypes, Producer
  <1>4. Holding(p) <=> ProducerOf(p) \in leaseBy
    BY DEF ElectInv, LeaseIsHeld
  <1> QED BY <1>2, <1>3, <1>4 DEF Producer, Advance, IdleProducer, ProducerPcs, Bounds

\* A producer that gives up, with or without the lease.
LEMMA GivingUp ==
  ASSUME Bounds, ElectInv, NEW p \in Producers, Give(p),
         leaseBy' = leaseBy \ {ProducerOf(p)} \/ (~ Holding(p) /\ UNCHANGED leaseBy),
         UNCHANGED <<startups, children, sockets, stopper, bootNow, staged>>,
         electFaults' = electFaults \/ ElectFault
  PROVE  ElectInv'
  <1> DEFINE x == IdleProducer(producers[p].key)
  <1>1. x \in Producer /\ x.pc = "idle" /\ producers' = [producers EXCEPT ![p] = x]
    BY ProducerKnows DEF Give, IdleProducer
  <1>2. leaseBy' = leaseBy \ {ProducerOf(p)}
    BY ProducerKnows
  <1> HIDE DEF x
  <1>3. ProducerMoves(p, x)
    BY <1>1, <1>2 DEF ProducerMoves
  <1> QED BY <1>3, ProducerMovesKeep

\* The steps of a producer up to the acceptance, the settlement apart, and those after it.
LEMMA ProducerStepsKeep ==
  ASSUME Bounds, ElectInv, NEW p \in Producers,
         \/ Establish(p) \/ JoinBusy(p) \/ Stage(p) \/ Refuse(p)
         \/ Release(p) \/ Observe(p) \/ StopObserving(p) \/ ProducerDies(p)
  PROVE  ElectInv'
  <1>1. CASE Establish(p)
    <2>1. /\ ~ Holding(p)
          /\ UNCHANGED <<startups, staged, children, sockets, stopper, bootNow, electFaults>>
      BY <1>1 DEF Establish, Holding
    <2>2. ASSUME NEW to \in {"elect", "join"}, Advance(p, to),
                 IF to = "elect" THEN leaseBy = {} /\ leaseBy' = {ProducerOf(p)}
                 ELSE leaseBy' = leaseBy
          PROVE  ElectInv'
      <3> DEFINE x == [producers[p] EXCEPT !.pc = to]
      <3>1. x \in Producer /\ x.pc = to /\ producers' = [producers EXCEPT ![p] = x]
        <4>1. to \in ProducerPcs
          BY DEF ProducerPcs
        <4> QED BY <2>2, <4>1, ProducerKnows
      <3>2. leaseBy = leaseBy \ {ProducerOf(p)}
        BY <2>1, ProducerKnows
      <3> HIDE DEF x
      <3>3. ProducerMoves(p, x)
        BY <2>1, <2>2, <3>1, <3>2 DEF ProducerMoves
      <3> QED BY <3>3, ProducerMovesKeep
    <2> QED BY <1>1, <2>2 DEF Establish
  <1>2. CASE JoinBusy(p)
    <2>1. ~ Holding(p) /\ leaseBy' = leaseBy \ {ProducerOf(p)} /\ UNCHANGED leaseBy
      BY <1>2, ProducerKnows DEF JoinBusy, Holding
    <2>2. UNCHANGED <<startups, staged, children, sockets, leaseBy, stopper, bootNow, electFaults>>
      BY <1>2 DEF JoinBusy
    <2>3. CASE Joinable(p)
      <3> DEFINE x == [producers[p] EXCEPT !.pc = "observe", !.seq = Latest]
      <3>a. producers' = [producers EXCEPT ![p].pc = "observe", ![p].seq = Latest]
        BY <1>2, <2>3 DEF JoinBusy
      <3>b. /\ producers \in [Producers -> Producer] /\ producers[p] \in Producer
            /\ Latest \in 0..MaxStartups
        BY ProducerKnows
      <3>1. /\ x \in Producer /\ x.pc = "observe" /\ x.seq = Latest
            /\ producers' = [producers EXCEPT ![p] = x]
        BY <3>a, <3>b DEF Producer, ProducerPcs
      <3>2. Latest \in Starts
        BY <2>3, ProducerKnows DEF Joinable, Bounds
      <3> HIDE DEF x
      <3>3. ProducerMoves(p, x)
        BY <2>1, <2>2, <3>1, <3>2 DEF ProducerMoves
      <3> QED BY <3>3, ProducerMovesKeep
    <2>4. CASE ~ Joinable(p) BY <1>2, <2>1, <2>2, <2>4, GivingUp DEF JoinBusy
    <2> QED BY <2>3, <2>4
  <1>3. CASE Stage(p)
    <2> DEFINE x == [producers[p] EXCEPT !.pc = "accept"]
    <2>1. /\ x \in Producer /\ x.pc = "accept" /\ x.key = producers[p].key
          /\ producers' = [producers EXCEPT ![p] = x]
      BY <1>3, ProducerKnows DEF Stage, ProducerPcs
    <2>2. /\ UNCHANGED <<startups, children, sockets, leaseBy, stopper, bootNow, electFaults>>
          /\ staged' = staged \cup {producers[p].key} /\ producers[p].pc = "stage"
      BY <1>3 DEF Stage
    <2>3. \A s \in Starts : startups[s].settled # "none"
      BY <2>2 DEF ElectInv, ElectionStands
    <2> HIDE DEF x
    <2>4. ProducerMoves(p, x)
      BY <2>1, <2>2, <2>3 DEF ProducerMoves
    <2> QED BY <2>4, ProducerMovesKeep
  <1>4. CASE Refuse(p) \/ ProducerDies(p)
    BY <1>4, GivingUp DEF Refuse, ProducerDies, DropLease
  <1>5. CASE Release(p)
    <2> DEFINE x == [producers[p] EXCEPT !.pc = "observe"]
    <2>1. /\ x \in Producer /\ x.pc = "observe" /\ x.seq = producers[p].seq
          /\ producers' = [producers EXCEPT ![p] = x]
      BY <1>5, ProducerKnows DEF Release, ProducerPcs
    <2>2. /\ UNCHANGED <<startups, staged, children, sockets, stopper, bootNow, electFaults>>
          /\ leaseBy' = leaseBy \ {ProducerOf(p)} /\ producers[p].pc = "release"
      BY <1>5 DEF Release, DropLease
    <2>3. producers[p].seq \in Starts
      BY <2>2 DEF ElectInv, ElectionStands
    <2> HIDE DEF x
    <2>4. ProducerMoves(p, x)
      BY <2>1, <2>2, <2>3 DEF ProducerMoves
    <2> QED BY <2>4, ProducerMovesKeep
  <1>6. CASE Observe(p) \/ StopObserving(p)
    <2>1. ~ Holding(p) /\ UNCHANGED leaseBy
      BY <1>6 DEF Observe, StopObserving, Holding
    <2> QED BY <1>6, <2>1, GivingUp DEF Observe, StopObserving
  <1> QED BY <1>1, <1>2, <1>3, <1>4, <1>5, <1>6

\* Whoever acts on the lease before a child has it is alone.
LEMMA Alone ==
  ASSUME ElectInv, NEW p \in Producers, producers[p].pc \in {"elect", "stage", "accept", "start"}
  PROVE  /\ \A q \in Producers : q # p => ~ Holding(q)
         /\ \A s \in Starts : ~ Inside(s) /\ ~ Owning(s)
         /\ stopper.pc # "probe"
  <1>1. Holding(p) /\ producers[p].pc # "release"
    BY DEF Holding
  <1>2. \A s \in Starts : Owning(s) => Inside(s)
    BY DEF Owning, Inside
  <1> QED BY <1>1, <1>2 DEF ElectInv, LeaseExcludes

\* The settlement of the last startup, by the one who may.
LEMMA SettlementKeeps ==
  ASSUME Bounds, ElectInv, NEW p \in Producers, producers[p].pc = "elect",
         Latest > 0, Observed(Latest) # "none", startups[Latest].settled = "none",
         \A s \in 1..(Latest - 1) : startups[s].settled # "none",
         startups' = [startups EXCEPT ![Latest].settled = Observed(Latest)],
         Advance(p, "stage"),
         UNCHANGED <<staged, children, sockets, leaseBy, stopper, bootNow, electFaults>>
  PROVE  ElectInv'
  <1>1. JournalTypes /\ RestTypes
    BY Typed DEF ElectInv
  <1>2. Latest \in Nat /\ Starts = 1..Latest /\ Latest \in Starts
    BY <1>1, Journal
  <1>l. PICK L \in Starts : L = Latest
    BY <1>2
  <1>3. PICK r \in Startup : /\ startups' = [startups EXCEPT ![L] = r]
                             /\ r = [startups[L] EXCEPT !.settled = Observed(L)]
    <2>1. Observed(L) \in Reasons
      BY <1>l DEF Observed, Reasons
    <2>2. startups[L] \in Startup
      BY <1>2, ChildKnows
    <2>3. [startups[L] EXCEPT !.settled = Observed(L)] \in Startup
      BY <2>1, <2>2 DEF Startup
    <2> QED BY <2>3, <1>l
  <1>4. /\ r.key = startups[L].key /\ r.boot = startups[L].boot
        /\ r.assumed = startups[L].assumed /\ r.published = startups[L].published
        /\ r.settled = Observed(L) /\ r.settled # "none"
    <2>1. startups[L] \in Startup
      BY <1>2, ChildKnows
    <2> QED BY <1>3, <1>l, <2>1 DEF Startup
  <1>5. /\ startups' \in Seq(Startup) /\ Latest' = Latest /\ Starts' = Starts
        /\ startups'[L] = r /\ \A t \in Starts : t # L => startups'[t] = startups[t]
    BY <1>1, <1>l, <1>3, RecordChanges
  <1> DEFINE x == [producers[p] EXCEPT !.pc = "stage"]
  <1>6. x \in Producer /\ x.pc = "stage" /\ producers' = [producers EXCEPT ![p] = x]
    BY ProducerKnows DEF ProducerPcs
  <1> HIDE DEF x
  <1>7. /\ producers' \in [Producers -> Producer] /\ producers'[p] = x
        /\ \A q \in Producers : q # p => producers'[q] = producers[q]
    BY <1>6, ProducerKnows
  <1>8. JournalTypes'
    BY <1>1, <1>5 DEF JournalTypes, Latest
  <1>9. ElectTypeOK'
    <2>1. RestTypes'
      BY <1>1, <1>5, <1>7 DEF RestTypes, Producer
    <2>2. JournalTypes' => (ElectTypeOK' <=> RestTypes')
      BY Typed, PTL
    <2> QED BY <2>1, <2>2, <1>8
  <1>10. \A s \in Starts :
          /\ (Inside(s)' <=> Inside(s)) /\ (Owning(s)' <=> Owning(s))
          /\ (Present(s)' <=> Present(s)) /\ (Current(s)' <=> Current(s))
    BY <1>4, <1>5 DEF Inside, Owning, Present, Current, SameBoot
  <1>11. \A q \in Producers : Holding(q)' <=> Holding(q)
    BY <1>6, <1>7 DEF Holding
  <1>12. LeaseIsHeld'
    BY <1>5, <1>10, <1>11 DEF LeaseIsHeld, ElectInv
  <1>13. LeaseExcludes'
    BY <1>5, <1>10, <1>11, Alone DEF LeaseExcludes, ElectInv
  <1>14. LeaseIsCurrent'
    BY <1>4, <1>5, <1>10 DEF LeaseIsCurrent, ElectInv
  <1>15. \A s \in Starts : startups'[s].settled # "none"
    BY <1>2, <1>l, <1>4, <1>5
  <1>16. ElectionStands'
    <2>1. \A q \in Producers : q # p => producers'[q].pc \notin {"stage", "accept", "start"}
      BY <1>7, Alone DEF Holding
    <2>2. \A q \in Producers : q # p /\ producers'[q].pc \in {"release", "observe"} =>
             producers'[q].seq \in Starts
      BY <1>7 DEF ElectInv, ElectionStands
    <2> QED BY <2>1, <2>2, <1>5, <1>6, <1>7, <1>15 DEF ElectionStands
  <1>17. OwnersAct'
    <2>1. \A s \in Starts : ~ Owning(s)
      BY Alone
    <2> QED BY <2>1, <1>4, <1>5, <1>10 DEF OwnersAct, ElectInv
  <1>18. EvidenceStands'
    <2>1. Reobserved(L)'
      <3>1. /\ Observed(L) = "previous-boot" => ~ SameBoot(L)
            /\ Observed(L) = "unassumed-expired" => ~ startups[L].assumed
            /\ Observed(L) = "assumed-absent" => startups[L].assumed /\ ~ Present(L)
            /\ Observed(L) \in {"previous-boot", "unassumed-expired", "assumed-absent"}
        BY <1>l DEF Observed
      <3>2. SameBoot(L)' <=> SameBoot(L)
        BY <1>4, <1>5 DEF SameBoot
      <3>3. Present(L)' <=> Present(L)
        BY DEF Present
      <3> QED BY <3>1, <3>2, <3>3, <1>4, <1>5 DEF Reobserved, Reasons
    <2>2. \A s \in Starts : s # L => (Reobserved(s)' <=> Reobserved(s))
      BY <1>5 DEF Reobserved, SameBoot, Present
    <2>3. \A s \in Starts : /\ startups'[s].key \in staged
                            /\ startups'[s].published => startups'[s].assumed
      BY <1>2, <1>l, <1>4, <1>5 DEF EvidenceStands, ElectInv
    <2>4. \A s \in Starts : s # L /\ startups'[s].settled # "none" => Reobserved(s)'
      BY <2>2, <1>5 DEF EvidenceStands, ElectInv
    <2>5. \A s \in Starts : startups'[s].settled # "none" => Reobserved(s)'
      BY <2>1, <2>4
    <2> QED BY <2>3, <2>5, <1>5, <1>15 DEF EvidenceStands
  <1>19. StopperAims'
    BY <1>4, <1>5 DEF StopperAims, ElectInv, IdleStopper
  <1>20. StopReportIsTrue'
    <2>1. stopper.report # "none" => stopper.target \in Starts
      BY DEF ElectInv, StopperAims, IdleStopper
    <2> QED BY <2>1, <1>10 DEF StopReportIsTrue, ElectInv
  <1> QED BY <1>8, <1>9, <1>12, <1>13, <1>14, <1>16, <1>17, <1>18, <1>19, <1>20 DEF ElectInv

\* A producer with the lease joins, settles the last startup, or refuses.
LEMMA ElectKeeps ==
  ASSUME Bounds, ElectInv, NEW p \in Producers, Elect(p)
  PROVE  ElectInv'
  <1>1. /\ producers[p].pc = "elect" /\ Latest \in 0..MaxStartups /\ Starts = 1..Latest
        /\ UNCHANGED <<staged, children, sockets, stopper, bootNow, electFaults>>
    BY ProducerKnows DEF Elect
  <1>2. CASE /\ MaySucceed /\ Advance(p, "stage") /\ UNCHANGED leaseBy
             /\ startups' = IF Latest > 0 /\ Settles
                            THEN [startups EXCEPT ![Latest].settled = Observed(Latest)]
                            ELSE startups
    <2>1. Latest > 0 => \A s \in 1..(Latest - 1) : startups[s].settled # "none"
      BY <1>1 DEF ElectInv, EvidenceStands, Bounds
    <2>2. CASE Latest > 0 /\ Settles
      <3>1. Observed(Latest) # "none" /\ startups[Latest].settled = "none"
        BY <1>1, <1>2, <2>2 DEF MaySucceed, Settles, Bounds
      <3> QED BY <1>1, <1>2, <2>1, <2>2, <3>1, SettlementKeeps
    <2>3. CASE ~ (Latest > 0 /\ Settles)
      <3>1. \A s \in Starts : startups[s].settled # "none"
        BY <1>1, <1>2, <2>1, <2>3 DEF MaySucceed, Bounds
      <3> DEFINE x == [producers[p] EXCEPT !.pc = "stage"]
      <3>2. x \in Producer /\ x.pc = "stage" /\ producers' = [producers EXCEPT ![p] = x]
        BY <1>2, ProducerKnows DEF ProducerPcs
      <3>3. startups' = startups
        BY <1>2, <2>3
      <3> HIDE DEF x
      <3>4. ProducerMoves(p, x)
        BY <1>1, <1>2, <3>1, <3>2, <3>3 DEF ProducerMoves
      <3> QED BY <3>4, ProducerMovesKeep
    <2> QED BY <2>2, <2>3
  <1>3. CASE /\ MayJoin(p) /\ UNCHANGED startups /\ DropLease(ProducerOf(p))
             /\ producers' = [producers EXCEPT ![p].pc = "observe", ![p].seq = Latest]
    <2> DEFINE x == [producers[p] EXCEPT !.pc = "observe", !.seq = Latest]
    <2>a. producers \in [Producers -> Producer] /\ producers[p] \in Producer
      BY ProducerKnows
    <2>1. /\ x \in Producer /\ x.pc = "observe" /\ x.seq = Latest
          /\ producers' = [producers EXCEPT ![p] = x]
      BY <1>1, <1>3, <2>a DEF Producer, ProducerPcs
    <2>2. Latest \in Starts
      BY <1>1, <1>3 DEF MayJoin, Bounds
    <2> HIDE DEF x
    <2>3. ProducerMoves(p, x)
      BY <1>1, <1>3, <2>1, <2>2 DEF ProducerMoves, DropLease
    <2> QED BY <2>3, ProducerMovesKeep
  <1>4. CASE Give(p) /\ DropLease(ProducerOf(p)) /\ UNCHANGED startups
    BY <1>1, <1>4, GivingUp DEF DropLease
  <1> QED BY <1>2, <1>3, <1>4 DEF Elect

\* What an accepted intent adds to the journal.
LEMMA Accepted ==
  ASSUME JournalTypes, MaxStartups \in Nat, NEW r \in Startup, NEW c \in Child,
         Latest < MaxStartups,
         startups' = Append(startups, r), children' = Append(children, c)
  PROVE  /\ JournalTypes' /\ Latest' = Latest + 1
         /\ Starts' = Starts \cup {Latest + 1} /\ Latest + 1 \notin Starts
         /\ startups'[Latest + 1] = r /\ children'[Latest + 1] = c
         /\ \A t \in Starts : startups'[t] = startups[t] /\ children'[t] = children[t]
  <1>1. /\ Latest \in Nat /\ Starts = 1..Latest
        /\ startups \in Seq(Startup) /\ Len(startups) = Latest
    BY Journal DEF JournalTypes, Latest
  <1>2. children \in Seq(Child) /\ Len(children) = Latest
    BY <1>1, Listed DEF JournalTypes
  <1>3. /\ startups' \in Seq(Startup) /\ Len(startups') = Latest + 1
        /\ children' \in Seq(Child) /\ Len(children') = Latest + 1
    BY <1>1, <1>2
  <1>4. /\ startups'[Latest + 1] = r /\ children'[Latest + 1] = c
        /\ \A t \in 1..Latest : startups'[t] = startups[t] /\ children'[t] = children[t]
    BY <1>1, <1>2
  <1>5. children' \in [1..(Latest + 1) -> Child]
    BY <1>3, LenProperties
  <1>6. JournalTypes' /\ Latest' = Latest + 1
    BY <1>1, <1>3, <1>5 DEF JournalTypes, Latest
  <1>7. Starts' = 1..(Latest + 1)
    BY <1>6 DEF Starts
  <1>8. Starts' = Starts \cup {Latest + 1} /\ Latest + 1 \notin Starts
    BY <1>1, <1>7
  <1> QED BY <1>1, <1>4, <1>6, <1>8

\* An intent is accepted under the lease.
LEMMA AcceptKeeps ==
  ASSUME Bounds, ElectInv, NEW p \in Producers, Accept(p)
  PROVE  ElectInv'
  <1>1. /\ JournalTypes /\ RestTypes
        /\ producers[p].pc = "accept" /\ producers[p] \in Producer
        /\ producers \in [Producers -> Producer]
        /\ Latest < MaxStartups /\ Latest \in Nat /\ Starts = 1..Latest
        /\ UNCHANGED <<staged, sockets, leaseBy, stopper, bootNow, electFaults>>
    BY Typed, ProducerKnows, Journal DEF ElectInv, Accept, Producer
  <1>2. PICK n \in Nat : n = Latest + 1
    BY <1>1
  <1> DEFINE new == [key |-> producers[p].key, boot |-> bootNow, expired |-> FALSE,
                     assumed |-> FALSE, published |-> FALSE, settled |-> "none"]
             unborn == [pc |-> "none", waits |-> FALSE]
             x == [producers[p] EXCEPT !.pc = "start", !.seq = n]
  <1>3. new \in Startup /\ unborn \in Child
    BY <1>1 DEF Startup, Child, ChildPcs, RestTypes, Producer
  <1>4. /\ x \in Producer /\ x.pc = "start" /\ x.seq = n
        /\ producers' = [producers EXCEPT ![p] = x]
    <2>1. producers' = [producers EXCEPT ![p].pc = "start", ![p].seq = n]
      BY <1>2 DEF Accept
    <2>2. n \in 0..MaxStartups
      BY <1>1, <1>2 DEF Bounds
    <2> QED BY <1>1, <2>1, <2>2 DEF Producer, ProducerPcs
  <1>5. /\ producers' \in [Producers -> Producer] /\ producers'[p] = x
        /\ \A q \in Producers : q # p => producers'[q] = producers[q]
    BY <1>1, <1>4
  <1> HIDE DEF x
  <1>6. /\ JournalTypes' /\ Latest' = n /\ Starts' = Starts \cup {n} /\ n \notin Starts
        /\ startups'[n] = new /\ children'[n] = unborn
        /\ \A t \in Starts : startups'[t] = startups[t] /\ children'[t] = children[t]
    <2>1. startups' = Append(startups, new) /\ children' = Append(children, unborn)
      BY DEF Accept
    <2> HIDE DEF new, unborn
    <2> QED BY <1>1, <1>2, <1>3, <2>1, Accepted DEF Bounds
  <1>7. ElectTypeOK'
    <2>1. RestTypes'
      BY <1>1, <1>5, <1>6 DEF RestTypes, Producer
    <2>2. JournalTypes' => (ElectTypeOK' <=> RestTypes')
      BY Typed, PTL
    <2> QED BY <2>1, <2>2, <1>6
  <1>8. /\ \A s \in Starts : ~ Inside(s)' /\ ~ Owning(s)' /\ ~ Inside(s)
        /\ ~ Inside(n)' /\ ~ Owning(n)'
        /\ \A s \in Starts : (Present(s)' <=> Present(s)) /\ (Reobserved(s)' <=> Reobserved(s))
    BY <1>1, <1>6, Alone DEF Inside, Owning, Present, Reobserved, SameBoot
  <1>9. /\ Holding(p)' /\ Holding(p)
        /\ \A q \in Producers : q # p => ~ Holding(q) /\ ~ Holding(q)'
    BY <1>1, <1>4, <1>5, Alone DEF Holding
  <1>10. LeaseIsHeld'
    <2>1. ChildOf(n) \notin leaseBy
      BY <1>1, <1>6, Holders DEF RestTypes
    <2>2. LeaseIsHeld
      BY DEF ElectInv
    <2>3. \A q \in Producers : ProducerOf(q) \in leaseBy <=> Holding(q)'
      BY <1>9, <2>2 DEF LeaseIsHeld
    <2>4. \A s \in Starts' : ChildOf(s) \in leaseBy <=> Inside(s)'
      <3>1. \A s \in Starts : ChildOf(s) \in leaseBy <=> Inside(s)'
        BY <1>8, <2>2 DEF LeaseIsHeld
      <3>2. ChildOf(n) \in leaseBy <=> Inside(n)'
        BY <1>8, <2>1
      <3> QED BY <3>1, <3>2, <1>6
    <2> QED BY <2>2, <2>3, <2>4, <1>1 DEF LeaseIsHeld
  <1>11. \A s \in Starts' : ~ Inside(s)' /\ ~ Owning(s)'
    <2>1. (\A s \in Starts : ~ Inside(s)' /\ ~ Owning(s)') /\ ~ Inside(n)' /\ ~ Owning(n)'
      BY <1>8
    <2> QED BY <2>1, <1>6
  <1>12. LeaseExcludes'
    BY <1>1, <1>9, <1>11, Alone DEF LeaseExcludes
  <1>13. LeaseIsCurrent'
    <2>1. \A s \in Starts' : startups'[s].boot <= bootNow
      BY <1>1, <1>6 DEF LeaseIsCurrent, ElectInv, RestTypes
    <2> QED BY <2>1, <1>1, <1>11 DEF LeaseIsCurrent
  <1>14. ElectionStands'
    <2>1. \A q \in Producers : q # p => producers'[q].pc \notin {"stage", "accept", "start"}
      BY <1>9 DEF Holding
    <2>2. \A q \in Producers : q # p /\ producers'[q].pc \in {"release", "observe"} =>
             producers'[q].seq \in Starts'
      BY <1>5, <1>6 DEF ElectInv, ElectionStands
    <2>3. Current(n)'
      BY <1>1, <1>6 DEF Current, SameBoot
    <2> QED BY <2>1, <2>2, <2>3, <1>4, <1>5, <1>6 DEF ElectionStands
  <1>15. OwnersAct'
    <2>1. \A s \in Starts' : startups'[s].assumed => children'[s].pc \notin {"none", "born"}
      BY <1>6 DEF OwnersAct, ElectInv
    <2> QED BY <2>1, <1>11 DEF OwnersAct
  <1>16. EvidenceStands'
    <2>1. \A s \in Starts : startups[s].settled # "none" /\ producers[p].key \in staged
      BY <1>1 DEF ElectInv, ElectionStands
    <2>2. \A s \in Starts : /\ startups'[s].key \in staged
                            /\ startups'[s].published => startups'[s].assumed
                            /\ startups'[s].settled # "none" => Reobserved(s)'
                            /\ startups'[s].settled # "none"
      BY <2>1, <1>6, <1>8 DEF EvidenceStands, ElectInv
    <2>3. /\ startups'[n].key \in staged /\ ~ startups'[n].published
          /\ startups'[n].settled = "none"
      BY <1>1, <1>6 DEF ElectInv, ElectionStands
    <2>4. \A s \in Starts' : /\ startups'[s].key \in staged
                             /\ startups'[s].published => startups'[s].assumed
                             /\ startups'[s].settled # "none" => Reobserved(s)'
                             /\ s < n => startups'[s].settled # "none"
      BY <2>2, <2>3, <1>2, <1>6
    <2> QED BY <2>4, <1>1, <1>6 DEF EvidenceStands
  <1>17. StopperAims'
    BY <1>1, <1>6 DEF StopperAims, ElectInv, IdleStopper
  <1>18. StopReportIsTrue'
    <2>1. stopper.report # "none" => stopper.target \in Starts
      BY DEF ElectInv, StopperAims, IdleStopper
    <2> QED BY <2>1, <1>1, <1>8 DEF StopReportIsTrue, ElectInv
  <1> QED BY <1>6, <1>7, <1>10, <1>12, <1>13, <1>14, <1>15, <1>16, <1>17, <1>18 DEF ElectInv

\* A producer starts the child of the intent it accepted, or does not get to.
LEMMA StartKeeps ==
  ASSUME Bounds, ElectInv, NEW p \in Producers, StartChild(p)
  PROVE  ElectInv'
  <1>1. PICK s \in Starts : s = producers[p].seq /\ Current(s) /\ children[s].pc = "none"
                            /\ startups[s].settled = "none"
    BY DEF StartChild, ElectInv, ElectionStands
  <1>2. /\ JournalTypes /\ RestTypes /\ producers[p].pc = "start"
        /\ producers \in [Producers -> Producer]
        /\ UNCHANGED <<startups, staged, sockets, stopper, bootNow>>
    BY Typed, ProducerKnows DEF ElectInv, StartChild
  <1> DEFINE x == [producers[p] EXCEPT !.pc = "release"]
  <1>3. /\ x \in Producer /\ x.pc = "release" /\ x.seq = s
        /\ producers' = [producers EXCEPT ![p] = x]
    BY <1>1, ProducerKnows DEF StartChild, ProducerPcs
  <1>4. /\ producers' \in [Producers -> Producer] /\ producers'[p] = x
        /\ \A q \in Producers : q # p => producers'[q] = producers[q]
    BY <1>2, <1>3
  <1> HIDE DEF x
  <1>5. CASE /\ UNCHANGED <<children, leaseBy>> /\ (electFaults' = electFaults \/ ElectFault)
    <2>1. ProducerMoves(p, x)
      BY <1>1, <1>2, <1>3, <1>5 DEF ProducerMoves
    <2> QED BY <2>1, ProducerMovesKeep
  <1>6. CASE /\ ChildStep(s, "born") /\ leaseBy' = leaseBy \cup {ChildOf(s)}
             /\ UNCHANGED electFaults
    <2> DEFINE c == [children[s] EXCEPT !.pc = "born"]
    <2>1. c \in Child /\ c.pc = "born" /\ children' = [children EXCEPT ![s] = c]
      BY <1>6, ChildKnows DEF ChildStep, Child, ChildPcs
    <2>2. /\ children' \in [Starts -> Child] /\ children'[s] = c
          /\ \A t \in Starts : t # s => children'[t] = children[t]
      BY <2>1, ChildKnows
    <2> HIDE DEF c
    <2>3. JournalTypes' /\ Latest' = Latest /\ Starts' = Starts
      BY <1>2, <2>2, Journal DEF JournalTypes, Latest, Starts
    <2>4. ElectTypeOK'
      <3>1. RestTypes'
        BY <1>2, <1>4, <1>6, <2>3 DEF RestTypes, Producer
      <3>2. JournalTypes' => (ElectTypeOK' <=> RestTypes')
        BY Typed, PTL
      <3> QED BY <3>1, <3>2, <2>3
    <2>5. /\ \A t \in Starts : ~ Owning(t)' /\ ~ Owning(t) /\ ~ Inside(t)
          /\ \A t \in Starts : t # s => ~ Inside(t)' /\ (Present(t)' <=> Present(t))
          /\ Inside(s)'
      BY <1>2, <2>1, <2>2, Alone DEF Owning, Inside, Present
    <2>6. /\ Holding(p)' /\ Holding(p)
          /\ \A q \in Producers : q # p => ~ Holding(q)' /\ ~ Holding(q)
      BY <1>2, <1>3, <1>4, Alone DEF Holding
    <2>7. LeaseIsHeld'
      <3>1. LeaseIsHeld
        BY DEF ElectInv
      <3>2. \A q \in Producers : ProducerOf(q) \in leaseBy' <=> Holding(q)'
        BY <3>1, <1>6, <2>6, Holders DEF LeaseIsHeld
      <3>3. \A t \in Starts : ChildOf(t) \in leaseBy' <=> Inside(t)'
        BY <3>1, <1>6, <2>5, Holders DEF LeaseIsHeld
      <3>4. Probe \in leaseBy' <=> stopper.pc = "probe"
        BY <3>1, <1>6, Holders DEF LeaseIsHeld
      <3> QED BY <3>2, <3>3, <3>4, <1>2, <2>3 DEF LeaseIsHeld
    <2>8. LeaseExcludes'
      <3>1. /\ \A q, t \in Producers : Holding(q)' /\ Holding(t)' => q = t
            /\ \A q \in Producers : \A t \in Starts : Holding(q)' /\ Inside(t)' =>
                  producers'[q].pc = "release" /\ producers'[q].seq = t
            /\ stopper.pc # "probe"
        BY <1>2, <1>3, <1>4, <2>5, <2>6, Alone
      <3> QED BY <3>1, <1>2, <2>3 DEF LeaseExcludes
    <2>9. LeaseIsCurrent'
      <3>1. Current(s)' /\ \A t \in Starts : startups[t].boot <= bootNow
        BY <1>1, <1>2, <2>3 DEF Current, SameBoot, LeaseIsCurrent, ElectInv
      <3>2. \A t \in Starts : Inside(t)' => Current(t)'
        BY <2>5, <3>1
      <3> QED BY <3>1, <3>2, <1>2, <2>3 DEF LeaseIsCurrent
    <2>10. ElectionStands'
      <3>1. \A q \in Producers : q # p => producers'[q].pc \notin {"stage", "accept", "start"}
        BY <2>6 DEF Holding
      <3>2. \A q \in Producers : q # p /\ producers'[q].pc \in {"release", "observe"} =>
               producers'[q].seq \in Starts
        BY <1>4 DEF ElectInv, ElectionStands
      <3> QED BY <3>1, <3>2, <1>3, <1>4, <2>3 DEF ElectionStands
    <2>11. ~ startups[s].assumed
      BY <1>1, ChildKnows
    <2>12. OwnersAct'
      <3>1. \A t \in Starts : startups[t].assumed => children'[t].pc \notin {"none", "born"}
        BY <2>2, <2>11 DEF OwnersAct, ElectInv
      <3> QED BY <3>1, <1>2, <2>3, <2>5 DEF OwnersAct
    <2>13. EvidenceStands'
      <3>1. \A t \in Starts : t # s => (Reobserved(t)' <=> Reobserved(t))
        BY <1>2, <2>5 DEF Reobserved, SameBoot
      <3>2. \A t \in Starts : startups[t].settled # "none" => Reobserved(t)'
        BY <3>1, <1>1 DEF EvidenceStands, ElectInv
      <3> QED BY <3>2, <1>2, <2>3 DEF EvidenceStands, ElectInv
    <2>14. StopperAims'
      BY <1>2, <2>3 DEF StopperAims, ElectInv, IdleStopper
    <2>15. StopReportIsTrue'
      <3>1. stopper.report # "none" => stopper.target \in Starts /\ stopper.target # s
        BY <2>11 DEF ElectInv, StopperAims, IdleStopper
      <3> QED BY <3>1, <1>2, <2>5 DEF StopReportIsTrue, ElectInv
    <2> QED BY <2>3, <2>4, <2>7, <2>8, <2>9, <2>10, <2>12, <2>13, <2>14, <2>15 DEF ElectInv
  <1> QED BY <1>1, <1>5, <1>6 DEF StartChild

--------------------
(* The election: the stop client's steps and the machine's.                *)

Stopper == [pc : {"idle", "contact", "observe", "probe"}, target : 0..MaxStartups,
            report : {"none", "released", "closed"}]

\* A step of the stop client that leaves everything else alone.
StopperMoves(x) ==
    /\ x \in Stopper /\ stopper' = x
    /\ UNCHANGED <<startups, staged, children, sockets, producers, bootNow>>
    /\ electFaults' = electFaults \/ ElectFault
    /\ \/ x.pc = "probe" /\ leaseBy = {} /\ leaseBy' = {Probe}
       \/ x.pc # "probe" /\ leaseBy' = leaseBy \ {Probe}
    /\ x # IdleStopper => x.target \in Starts /\ startups[x.target].assumed
    /\ x.report # "none" =>
          /\ ~ Owning(x.target)
          /\ x.report = "closed" => ~ Present(x.target)

\* Such a step keeps the invariant.
LEMMA StopperMovesKeep ==
  ASSUME Bounds, ElectInv, NEW x, StopperMoves(x)
  PROVE  ElectInv'
  <1>1. /\ JournalTypes /\ RestTypes /\ x \in Stopper /\ stopper' = x
        /\ UNCHANGED <<startups, staged, children, sockets, producers, bootNow>>
    BY Typed DEF ElectInv, StopperMoves
  <1>2. JournalTypes' /\ Latest' = Latest /\ Starts' = Starts
    BY <1>1 DEF JournalTypes, Latest, Starts
  <1>3. ElectTypeOK'
    <2>1. RestTypes'
      BY <1>1, <1>2 DEF RestTypes, Stopper, StopperMoves, ElectFault, Bounds
    <2>2. JournalTypes' => (ElectTypeOK' <=> RestTypes')
      BY Typed, PTL
    <2> QED BY <2>1, <2>2, <1>2
  <1>4. \A s \in Starts :
          /\ (Inside(s)' <=> Inside(s)) /\ (Owning(s)' <=> Owning(s))
          /\ (Present(s)' <=> Present(s)) /\ (Current(s)' <=> Current(s))
          /\ (Reobserved(s)' <=> Reobserved(s))
    BY <1>1, <1>2 DEF Inside, Owning, Present, Current, SameBoot, Reobserved
  <1>5. \A q \in Producers : Holding(q)' <=> Holding(q)
    BY <1>1 DEF Holding
  <1>6. LeaseIsHeld'
    <2>1. LeaseIsHeld
      BY DEF ElectInv
    <2>2. /\ \A q \in Producers : ProducerOf(q) \in leaseBy' <=> Holding(q)'
          /\ \A s \in Starts : ChildOf(s) \in leaseBy' <=> Inside(s)'
      BY <2>1, <1>4, <1>5, Holders DEF LeaseIsHeld, StopperMoves
    <2>3. Probe \in leaseBy' <=> x.pc = "probe"
      BY DEF StopperMoves
    <2> QED BY <2>2, <2>3, <1>1, <1>2 DEF LeaseIsHeld
  <1>7. LeaseExcludes'
    <2>1. LeaseExcludes /\ LeaseIsHeld
      BY DEF ElectInv
    <2>2. x.pc = "probe" => (\A q \in Producers : ~ Holding(q)) /\ (\A s \in Starts : ~ Inside(s))
      BY <2>1 DEF StopperMoves, LeaseIsHeld
    <2> QED BY <2>1, <2>2, <1>1, <1>2, <1>4, <1>5 DEF LeaseExcludes
  <1>8. LeaseIsCurrent' /\ ElectionStands' /\ OwnersAct' /\ EvidenceStands'
    BY <1>1, <1>2, <1>4 DEF LeaseIsCurrent, ElectionStands, OwnersAct, EvidenceStands, ElectInv
  <1>9. StopperAims'
    BY <1>1, <1>2 DEF StopperAims, StopperMoves, IdleStopper
  <1>10. StopReportIsTrue'
    <2>1. x.report # "none" => x.target \in Starts
      BY DEF StopperMoves, IdleStopper
    <2> QED BY <2>1, <1>1, <1>4 DEF StopReportIsTrue, StopperMoves
  <1> QED BY <1>2, <1>3, <1>6, <1>7, <1>8, <1>9, <1>10 DEF ElectInv

\* What the stop client is about.
LEMMA StopperKnows ==
  ASSUME Bounds, ElectInv
  PROVE  /\ stopper \in Stopper /\ IdleStopper \in Stopper
         /\ stopper # IdleStopper => stopper.target \in Starts /\ startups[stopper.target].assumed
         /\ Probe \in leaseBy <=> stopper.pc = "probe"
         /\ Latest \in 0..MaxStartups /\ Starts = 1..Latest
         /\ stopper.report # "none" =>
              /\ ~ Owning(stopper.target)
              /\ stopper.report = "closed" => ~ Present(stopper.target)
  <1>1. RestTypes /\ JournalTypes
    BY Typed DEF ElectInv
  <1>2. stopper \in Stopper /\ IdleStopper \in Stopper
    BY <1>1 DEF RestTypes, Stopper, IdleStopper, Bounds
  <1>3. Latest \in 0..MaxStartups /\ Starts = 1..Latest
    BY <1>1, Journal DEF Bounds
  <1> QED BY <1>2, <1>3 DEF ElectInv, StopperAims, StopReportIsTrue, LeaseIsHeld

\* A located owner is asked to stop.
LEMMA ContactKeeps ==
  ASSUME Bounds, ElectInv, Contact
  PROVE  ElectInv'
  <1>1. PICK s \in Starts : s = stopper.target
    BY StopperKnows DEF Contact, IdleStopper
  <1>2. Beside(s) /\ UNCHANGED <<startups, leaseBy>>
    BY DEF Contact, Beside
  <1>3. CASE children[s].pc = "serving" /\ ChildStep(s, "draining")
    BY <1>2, <1>3, ChildGoes DEF Present, Inside, Owning, ChildPcs
  <1>4. CASE UNCHANGED children
    <2>1. (Inside(s)' <=> Inside(s)) /\ (Owning(s)' <=> Owning(s))
      BY <1>4 DEF Inside, Owning
    <2>2. ChildMoves(s, children[s], startups[s])
      BY <1>2, <1>4, <2>1, ChildKnows DEF ChildMoves
    <2> QED BY <1>2, <2>2, ChildMovesKeep
  <1> QED BY <1>1, <1>3, <1>4 DEF Contact

\* The stop client locates an owner, observes its end, or gives up.
LEMMA StopperStepsKeep ==
  ASSUME Bounds, ElectInv, Locate \/ ObserveClosure \/ ProbeClosure \/ GiveUpStop
  PROVE  ElectInv'
  <1>1. CASE Locate
    <2> DEFINE x == [pc |-> "contact", target |-> Latest, report |-> "none"]
    <2>1. Latest \in Starts /\ startups[Latest].assumed
      BY <1>1, StopperKnows DEF Locate, Bounds
    <2>2. x \in Stopper /\ x.pc = "contact" /\ x.target = Latest /\ x.report = "none"
      BY StopperKnows DEF Stopper
    <2>3. leaseBy' = leaseBy \ {Probe}
      BY <1>1, StopperKnows DEF Locate, IdleStopper
    <2>4. /\ stopper' = x
          /\ UNCHANGED <<startups, staged, children, sockets, producers, bootNow, electFaults>>
      BY <1>1 DEF Locate
    <2> HIDE DEF x
    <2>5. StopperMoves(x)
      BY <2>1, <2>2, <2>3, <2>4 DEF StopperMoves
    <2> QED BY <2>5, StopperMovesKeep
  <1>2. CASE ObserveClosure
    <2>1. PICK s \in Starts : s = stopper.target /\ startups[s].assumed /\ stopper.pc = "observe"
      BY <1>2, StopperKnows DEF ObserveClosure, IdleStopper
    <2> DEFINE succeeded == Latest > s /\ (Released(s) \/ ~ Present(s))
    <2>2. UNCHANGED <<startups, staged, children, sockets, producers, bootNow, electFaults>>
      BY <1>2 DEF ObserveClosure
    <2>3. CASE /\ succeeded /\ UNCHANGED leaseBy
               /\ stopper' = [stopper EXCEPT !.pc = "idle",
                                             !.report = IF Present(s) THEN "released" ELSE "closed"]
      <3> DEFINE x == [stopper EXCEPT !.pc = "idle",
                                      !.report = IF Present(s) THEN "released" ELSE "closed"]
      <3>1. /\ x \in Stopper /\ x.pc = "idle" /\ x.target = s
            /\ x.report = "closed" => ~ Present(s)
        BY <2>1, StopperKnows DEF Stopper
      <3>2. ~ Owning(s)
        <4>1. Owning(s) => Inside(s)
          BY DEF Owning, Inside
        <4>2. Inside(s) => s = Latest
          BY DEF ElectInv, LeaseIsCurrent, Current
        <4>3. Latest > s /\ s \in Nat /\ Latest \in Nat
          BY <2>3, StopperKnows
        <4> QED BY <4>1, <4>2, <4>3
      <3>3. leaseBy' = leaseBy \ {Probe} /\ stopper' = x
        BY <2>1, <2>3, StopperKnows
      <3> HIDE DEF x
      <3>4. StopperMoves(x)
        BY <2>1, <2>2, <3>1, <3>2, <3>3 DEF StopperMoves
      <3> QED BY <3>4, StopperMovesKeep
    <2>4. CASE leaseBy = {} /\ leaseBy' = {Probe} /\ stopper' = [stopper EXCEPT !.pc = "probe"]
      <3> DEFINE x == [stopper EXCEPT !.pc = "probe"]
      <3>1. x \in Stopper /\ x.pc = "probe" /\ x.target = s /\ x.report = stopper.report
        BY <2>1, StopperKnows DEF Stopper
      <3>2. stopper' = x
        BY <2>4
      <3> HIDE DEF x
      <3>3. StopperMoves(x)
        BY <2>1, <2>2, <2>4, <3>1, <3>2, StopperKnows DEF StopperMoves
      <3> QED BY <3>3, StopperMovesKeep
    <2> QED BY <1>2, <2>1, <2>3, <2>4 DEF ObserveClosure
  <1>3. CASE ProbeClosure
    <2>1. PICK s \in Starts : s = stopper.target /\ startups[s].assumed /\ stopper.pc = "probe"
      BY <1>3, StopperKnows DEF ProbeClosure, IdleStopper
    <2>2. /\ UNCHANGED <<startups, staged, children, sockets, producers, bootNow, electFaults>>
          /\ leaseBy' = leaseBy \ {Probe}
      BY <1>3 DEF ProbeClosure, DropLease
    <2>3. ~ Owning(s)
      BY <2>1 DEF ElectInv, LeaseExcludes, Owning, Inside
    <2>4. ASSUME NEW x \in Stopper, stopper' = x, x.pc # "probe", x.target = s,
                 x.report = "closed" => ~ Present(s)
          PROVE  ElectInv'
      <3>1. StopperMoves(x)
        BY <2>1, <2>2, <2>3, <2>4 DEF StopperMoves
      <3> QED BY <3>1, StopperMovesKeep
    <2>5. CASE ~ Present(s)
      <3>1. stopper' = [stopper EXCEPT !.pc = "idle", !.report = "closed"]
        BY <1>3, <2>1, <2>5 DEF ProbeClosure
      <3>2. [stopper EXCEPT !.pc = "idle", !.report = "closed"] \in Stopper
        BY StopperKnows DEF Stopper
      <3> QED BY <2>1, <2>4, <2>5, <3>1, <3>2, StopperKnows DEF Stopper
    <2>6. CASE Present(s) /\ Released(s) /\ s \notin sockets
      <3>1. stopper' = [stopper EXCEPT !.pc = "idle", !.report = "released"]
        BY <1>3, <2>1, <2>6 DEF ProbeClosure
      <3>2. [stopper EXCEPT !.pc = "idle", !.report = "released"] \in Stopper
        BY StopperKnows DEF Stopper
      <3> QED BY <2>1, <2>4, <3>1, <3>2, StopperKnows DEF Stopper
    <2>7. CASE Present(s) /\ ~ (Released(s) /\ s \notin sockets)
      <3>1. stopper' = [stopper EXCEPT !.pc = "observe"]
        BY <1>3, <2>1, <2>7 DEF ProbeClosure
      <3>2. [stopper EXCEPT !.pc = "observe"] \in Stopper
        BY StopperKnows DEF Stopper
      <3> QED BY <2>1, <2>4, <3>1, <3>2, StopperKnows DEF Stopper
    <2> QED BY <2>5, <2>6, <2>7
  <1>4. CASE GiveUpStop
    <2>1. /\ stopper' = IdleStopper /\ ElectFault
          /\ UNCHANGED <<startups, staged, children, sockets, leaseBy, producers, bootNow>>
          /\ stopper.pc # "probe"
      BY <1>4 DEF GiveUpStop
    <2>2. /\ IdleStopper \in Stopper /\ IdleStopper.pc = "idle" /\ IdleStopper.report = "none"
          /\ leaseBy' = leaseBy \ {Probe}
      BY <2>1, StopperKnows DEF IdleStopper
    <2>3. StopperMoves(IdleStopper)
      BY <2>1, <2>2 DEF StopperMoves
    <2> QED BY <2>3, StopperMovesKeep
  <1> QED BY <1>1, <1>2, <1>3, <1>4

\* A reboot ends all processes and keeps the records.
LEMMA RebootKeeps ==
  ASSUME Bounds, ElectInv, Reboot
  PROVE  ElectInv'
  <1>1. /\ JournalTypes /\ RestTypes
        /\ leaseBy' = {} /\ stopper' = IdleStopper
        /\ UNCHANGED <<startups, staged, sockets, electFaults>>
        /\ bootNow' = bootNow + 1 /\ bootNow < MaxBoots /\ bootNow \in Nat
        /\ producers' = [p \in Producers |-> IdleProducer(producers[p].key)]
    BY Typed DEF ElectInv, Reboot, RestTypes
  <1>2. /\ children \in [Starts -> Child] /\ Starts = 1..Latest /\ Latest' = Latest
        /\ Starts' = Starts
    BY <1>1, Journal DEF Latest, Starts
  <1>3. /\ children' \in [Starts -> Child]
        /\ \A s \in Starts : children'[s].pc = IF children[s].pc = "none" THEN "none" ELSE "gone"
    BY <1>2 DEF Reboot, Child, ChildPcs
  <1>4. /\ producers' \in [Producers -> Producer]
        /\ \A p \in Producers : producers'[p].pc = "idle"
    BY <1>1 DEF RestTypes, Producer, ProducerPcs, IdleProducer, Bounds
  <1>5. JournalTypes'
    BY <1>1, <1>2, <1>3 DEF JournalTypes, Latest
  <1>6. ElectTypeOK'
    <2>1. bootNow' \in 1..MaxBoots
      BY <1>1 DEF RestTypes, Bounds
    <2>2. RestTypes'
      BY <1>1, <1>2, <1>4, <2>1, StopperKnows DEF RestTypes, Producer, Stopper
    <2>3. JournalTypes' => (ElectTypeOK' <=> RestTypes')
      BY Typed, PTL
    <2> QED BY <2>2, <2>3, <1>5
  <1>7. /\ \A s \in Starts : ~ Inside(s)' /\ ~ Owning(s)' /\ ~ Present(s)'
        /\ \A p \in Producers : ~ Holding(p)'
    BY <1>3, <1>4 DEF Inside, Owning, Present, Holding
  <1>8. LeaseIsHeld' /\ LeaseExcludes'
    BY <1>1, <1>2, <1>7 DEF LeaseIsHeld, LeaseExcludes, IdleStopper
  <1>9. LeaseIsCurrent'
    <2>1. \A s \in Starts : startups[s].boot \in Nat /\ startups[s].boot <= bootNow
      BY ChildKnows DEF Startup, ElectInv, LeaseIsCurrent
    <2>2. \A s \in Starts : startups[s].boot <= bootNow + 1
      BY <2>1, <1>1
    <2> QED BY <2>2, <1>1, <1>2, <1>7 DEF LeaseIsCurrent
  <1>10. ElectionStands'
    BY <1>4 DEF ElectionStands
  <1>11. OwnersAct'
    BY <1>1, <1>2, <1>3, <1>7 DEF OwnersAct, ElectInv
  <1>12. EvidenceStands'
    <2>1. \A s \in Starts : ~ SameBoot(s)'
      <3>1. \A s \in Starts : startups[s].boot \in Nat /\ startups[s].boot <= bootNow
        BY ChildKnows DEF Startup, ElectInv, LeaseIsCurrent
      <3> QED BY <3>1, <1>1 DEF SameBoot
    <2>2. \A s \in Starts : startups[s].settled # "none" => startups[s].settled \in Reasons
      BY ChildKnows DEF Startup
    <2>3. \A s \in Starts : startups[s].settled # "none" => Reobserved(s)'
      BY <2>1, <2>2, <1>1 DEF Reobserved
    <2> QED BY <2>3, <1>1, <1>2 DEF EvidenceStands, ElectInv
  <1>13. StopperAims' /\ StopReportIsTrue'
    BY <1>1 DEF StopperAims, StopReportIsTrue, IdleStopper
  <1> QED BY <1>5, <1>6, <1>8, <1>9, <1>10, <1>11, <1>12, <1>13 DEF ElectInv

--------------------
(* The theorems.                                                           *)

\* Initially nothing is accepted and nobody has the lease.
LEMMA ElectStarts ==
  ASSUME Bounds, ElectInit
  PROVE  ElectInv
  <1>1. /\ startups = <<>> /\ staged = {} /\ children = <<>> /\ sockets = {} /\ leaseBy = {}
        /\ stopper = IdleStopper /\ bootNow = 1 /\ electFaults = 0
        /\ producers \in [Producers -> {IdleProducer(k) : k \in Keys}]
    BY DEF ElectInit
  <1>2. Latest = 0 /\ Starts = {} /\ startups \in Seq(Startup) /\ Len(startups) = 0
    BY <1>1 DEF Latest, Starts
  <1>3. JournalTypes
    <2>1. children \in [1..0 -> Child]
      BY <1>1
    <2> QED BY <1>2, <2>1 DEF JournalTypes, Bounds
  <1>4. \A p \in Producers : producers[p] \in Producer /\ producers[p].pc = "idle"
    BY <1>1 DEF IdleProducer, Producer, ProducerPcs, Bounds
  <1>5. producers \in [Producers -> Producer]
    BY <1>1, <1>4
  <1>6. RestTypes
    BY <1>1, <1>2, <1>5 DEF RestTypes, Producer, IdleStopper, Bounds
  <1>7. ElectTypeOK
    BY <1>3, <1>6, Typed
  <1>8. LeaseIsHeld /\ LeaseExcludes
    BY <1>1, <1>2, <1>4 DEF LeaseIsHeld, LeaseExcludes, Holding, IdleStopper
  <1>9. LeaseIsCurrent /\ OwnersAct /\ EvidenceStands
    BY <1>2 DEF LeaseIsCurrent, OwnersAct, EvidenceStands
  <1>10. ElectionStands
    BY <1>4 DEF ElectionStands
  <1>11. StopperAims /\ StopReportIsTrue
    BY <1>1 DEF StopperAims, StopReportIsTrue, IdleStopper
  <1> QED BY <1>3, <1>7, <1>8, <1>9, <1>10, <1>11 DEF ElectInv

\* Every step keeps the invariant.
LEMMA ElectSteps ==
  ASSUME Bounds, ElectInv, [ElectNext]_electVars
  PROVE  ElectInv'
  <1>1. CASE UNCHANGED electVars
    BY <1>1 DEF electVars, ElectInv, ElectTypeOK, JournalTypes, LeaseIsHeld, LeaseExcludes,
                LeaseIsCurrent, ElectionStands, OwnersAct, EvidenceStands, StopperAims,
                StopReportIsTrue, Latest, Starts, Holding, Inside, Current, SameBoot, Owning,
                Present, Reobserved
  <1>2. ASSUME NEW p \in Producers,
               \/ Establish(p) \/ JoinBusy(p) \/ Elect(p) \/ Stage(p) \/ Refuse(p) \/ Accept(p)
               \/ StartChild(p) \/ Release(p) \/ Observe(p) \/ StopObserving(p) \/ ProducerDies(p)
        PROVE  ElectInv'
    BY <1>2, ProducerStepsKeep, ElectKeeps, AcceptKeeps, StartKeeps
  <1>3. ASSUME NEW s \in Starts,
               \/ Assume(s) \/ Bind(s) \/ Publish(s) \/ Fail(s) \/ CloseFailed(s)
               \/ GuardDaemonStart(s) \/ DaemonEnds(s) \/ EndServing(s) \/ FinishRuntime(s)
               \/ FenceServing(s) \/ ReleaseServing(s) \/ ResidentLeaves(s) \/ ChildDies(s)
               \/ Expire(s) \/ ClockSetBack(s)
        PROVE  ElectInv'
    BY <1>3, AssumeKeeps, PublishKeeps, FenceKeeps, ChildStepsKeep, DaemonsKeep, ClockKeeps
  <1>4. CASE Locate \/ Contact \/ ObserveClosure \/ ProbeClosure \/ GiveUpStop \/ Reboot
    BY <1>4, ContactKeeps, StopperStepsKeep, RebootKeeps
  <1> QED BY <1>1, <1>2, <1>3, <1>4 DEF ElectNext

\* The invariant implies what the election promises.
LEMMA ElectSound ==
  ASSUME ElectInv
  PROVE  ElectTypeOK /\ SoleOwner /\ EvidenceStands /\ StopReportIsTrue
  <1>1. ASSUME NEW s \in Starts, Owning(s)
        PROVE  /\ Current(s) /\ startups[s].settled = "none" /\ ChildOf(s) \in leaseBy
               /\ \A who \in leaseBy \ {ChildOf(s)} :
                    \E p \in Producers : who = ProducerOf(p) /\ producers[p].seq = s
    <2>1. Inside(s)
      BY <1>1 DEF Owning, Inside
    <2>2. Current(s) /\ startups[s].settled = "none" /\ ChildOf(s) \in leaseBy
      BY <1>1, <2>1 DEF ElectInv, LeaseIsCurrent, OwnersAct, LeaseIsHeld
    <2>3. ASSUME NEW who \in leaseBy \ {ChildOf(s)}
          PROVE  \E p \in Producers : who = ProducerOf(p) /\ producers[p].seq = s
      <3>1. leaseBy \subseteq
              {ChildOf(t) : t \in Starts} \cup {ProducerOf(p) : p \in Producers} \cup {Probe}
        BY DEF ElectInv, ElectTypeOK
      <3>2. who # Probe
        BY <2>1 DEF ElectInv, LeaseIsHeld, LeaseExcludes
      <3>3. ASSUME NEW t \in Starts, who = ChildOf(t)
            PROVE  FALSE
        <4>1. Inside(t) /\ t # s
          BY <3>3 DEF ElectInv, LeaseIsHeld
        <4> QED BY <2>1, <4>1 DEF ElectInv, LeaseIsCurrent, Current
      <3>4. PICK p \in Producers : who = ProducerOf(p)
        BY <3>1, <3>2, <3>3
      <3>5. Holding(p)
        BY <3>4 DEF ElectInv, LeaseIsHeld
      <3>6. producers[p].seq = s
        BY <2>1, <3>5 DEF ElectInv, LeaseExcludes
      <3> QED BY <3>4, <3>6
    <2> QED BY <2>2, <2>3
  <1> QED BY <1>1 DEF ElectInv, SoleOwner

\* The three facts about the invariant, with constant hypotheses.
LEMMA ElectInductive ==
  ASSUME MaxStartups \in Nat, MaxBoots \in Nat \ {0}, MaxElectFaults \in Nat
  PROVE  /\ ElectInit => ElectInv
         /\ ElectInv /\ [ElectNext]_electVars => ElectInv'
         /\ ElectInv => ElectTypeOK /\ Ownership /\ StopReportIsTrue
  <1>1. Bounds
    BY DEF Bounds
  <1> QED BY <1>1, ElectStarts, ElectSteps, ElectSound DEF Ownership

\* At most one process acts as owner, with the lease and the last, unsettled startup; what the
\* journal says of the others stays true; a stop that was reported is one.
THEOREM OneOwner ==
  ASSUME MaxStartups \in Nat, MaxBoots \in Nat \ {0}, MaxElectFaults \in Nat
  PROVE  ElectSpec => [](Ownership /\ StopReportIsTrue)
  <1>1. ElectInit => ElectInv
    BY ElectInductive
  <1>2. ElectInv /\ [ElectNext]_electVars => ElectInv'
    BY ElectInductive
  <1>3. ElectInv => Ownership /\ StopReportIsTrue
    BY ElectInductive
  <1> QED BY <1>1, <1>2, <1>3, PTL DEF ElectSpec
==============================================================================

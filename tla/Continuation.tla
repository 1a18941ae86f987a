---------------------------- MODULE Continuation ----------------------------
(***************************************************************************)
(* Continuing a provider's conversation with a new task.  The first task   *)
(* opens the conversation; every later one names a predecessor and claims  *)
(* the conversation in a directory that all processes share.  A claim is   *)
(* released with evidence that its task has ended: its outcome, the        *)
(* observed end of its budget stop, or the closure of its lifetime.  The   *)
(* commands that continue, dispatch again, collect, look and cancel run    *)
(* in any number of processes, and each may stop between any two steps.    *)
(***************************************************************************)
EXTENDS Naturals, FiniteSets

CONSTANTS Tasks,         \* task identifiers; successors get fresh ones
          First,         \* the task that opened the conversation
          None,
          Commands,      \* processes that run commands
          MaxContFaults  \* bound: processes that stop at a bad moment

VARIABLES
    records,     \* [Tasks -> the records in the task's directory]
    claims,      \* tasks with a claim in the session directory
    releases,    \* [Tasks -> evidence of the release record, or None]
    sessionLock, \* the command that holds the session's lock, or None
    runners,     \* [Tasks -> where the task's runner is; it holds the run lock while active]
    turn,        \* tasks whose provider process is alive
    commands,    \* [Commands -> what the process is doing]
    contFaults

contVars == <<records, claims, releases, sessionLock, runners, turn, commands, contFaults>>

Evidence == {"outcome", "budget", "closure"}
Active == {"running", "publishing"}
Steps == {"idle", "resolve", "settle", "create", "claim", "commit", "submit", "release"}

ContTypeOK ==
    /\ records \in [Tasks -> [made : BOOLEAN, pred : Tasks \cup {None}, submitted : BOOLEAN,
                              start : BOOLEAN, identity : BOOLEAN, seal : BOOLEAN,
                              outcome : BOOLEAN, stop : {"none", "requested", "terminated"},
                              closed : BOOLEAN, refused : BOOLEAN]]
    /\ claims \subseteq Tasks /\ releases \in [Tasks -> Evidence \cup {None}]
    /\ sessionLock \in Commands \cup {None}
    /\ runners \in [Tasks -> Active \cup {"none", "queued", "gone"}] /\ turn \subseteq Tasks
    /\ commands \in [Commands -> [at : Steps, task : Tasks \cup {None},
                                  pred : Tasks \cup {None}, evidence : Evidence \cup {None}]]
    /\ contFaults \in 0..MaxContFaults

NoRecord == [made |-> FALSE, pred |-> None, submitted |-> FALSE, start |-> FALSE,
             identity |-> FALSE, seal |-> FALSE, outcome |-> FALSE, stop |-> "none",
             closed |-> FALSE, refused |-> FALSE]
Idle == [at |-> "idle", task |-> None, pred |-> None, evidence |-> None]

ContInit ==
    /\ records = [t \in Tasks |-> IF t = First
                    THEN [NoRecord EXCEPT !.made = TRUE, !.submitted = TRUE] ELSE NoRecord]
    /\ claims = {} /\ releases = [t \in Tasks |-> None] /\ sessionLock = None
    /\ runners = [t \in Tasks |-> IF t = First THEN "queued" ELSE "none"] /\ turn = {}
    /\ commands = [c \in Commands |-> Idle] /\ contFaults = 0

-----------------------------------------------------------------------------
(* What the records prove *)

Terminal(t) == records[t].outcome
Continues(t) == records[t].pred # None
LeaseReleased(t) == runners[t] \notin Active

\* resolveContinuationSession: the identity the provider gave, or else the one this task
\* was itself asked to continue.
Prior(t) == records[t].made /\ (records[t].identity \/ Continues(t))

\* closureInterruption: the lifetime is closed and left no result.
Interrupted(t) == records[t].closed /\ ~ records[t].seal /\ ~ records[t].outcome

\* matchesHandoffProof
Handoff(t, e) == \/ e = "budget" /\ records[t].stop = "terminated"
                 \/ e = "closure" /\ records[t].closed

\* Mutant: a task with an outcome is released by that outcome alone.
TerminalProofOfOutcome(t, e) ==
    /\ LeaseReleased(t)
    /\ IF records[t].outcome THEN e = "outcome" ELSE Handoff(t, e)

\* terminalProof: under the run lock of the task.
TerminalProof(t, e) ==
    /\ LeaseReleased(t)
    /\ (records[t].outcome /\ e = "outcome") \/ Handoff(t, e)

Released(t) == releases[t] # None
Readable == \A t \in claims : Released(t) => TerminalProof(t, releases[t])

\* activeSessionOwner: the claims without a release; every release is proved again.
Owners == {t \in claims : ~ Released(t)}

-----------------------------------------------------------------------------
(* Steps of a command *)

Goto(c, step) == commands' = [commands EXCEPT ![c].at = step]
Done(c) == commands' = [commands EXCEPT ![c] = Idle]
Busy(c) == commands[c].at # "idle"

\* Mutant: whoever finds the directory starts to read it.
LockSessionNot(c) == sessionLock' = c

\* withSession
LockSession(c) == sessionLock = None /\ sessionLock' = c

Unlock(c) == sessionLock' = IF sessionLock = c THEN None ELSE sessionLock

\* ContinueContext: the inputs are loaded, the resources checked and a task ID made up.
BeginContinue(c, p) ==
    /\ ~ Busy(c) /\ Prior(p)
    /\ \E t \in Tasks :
         /\ ~ records[t].made /\ \A d \in Commands : commands[d].task # t
         /\ commands' = [commands EXCEPT ![c] =
               [at |-> "resolve", task |-> t, pred |-> p, evidence |-> None]]
    /\ UNCHANGED <<records, claims, releases, sessionLock, runners, turn, contFaults>>

\* Mutant: the end that was observed is enough, whoever still holds the run lock.
SettledAnyway(p) == records[p].stop = "terminated" \/ Interrupted(p) \/ Terminal(p)

\* PredecessorTerminated: the predecessor has ended, and its runner has let go.
Settled(p) ==
    /\ Terminal(p) \/ records[p].stop = "terminated" \/ Interrupted(p)
    /\ LeaseReleased(p)

\* ResolvePredecessor.  The evidence that settles it also releases its claim, if it has one.
Resolve(c) ==
    LET p == commands[c].pred IN
    /\ commands[c].at = "resolve"
    /\ \/ /\ Settled(p)
          /\ IF Continues(p)
             THEN commands' = [commands EXCEPT ![c].at = "settle", ![c].evidence =
                    IF Terminal(p) THEN "outcome"
                    ELSE IF records[p].stop = "terminated" THEN "budget" ELSE "closure"]
             ELSE Goto(c, "create")
       \/ ~ Settled(p) /\ Done(c)
    /\ UNCHANGED <<records, claims, releases, sessionLock, runners, turn, contFaults>>

\* releaseSessionRecord of task t with evidence e.
ReleaseRecord(t, e) ==
    IF Released(t)
    THEN /\ releases[t] = e \/ (Handoff(t, releases[t]) /\ TerminalProof(t, e))
         /\ UNCHANGED releases
    ELSE /\ Owners = {t} /\ TerminalProof(t, e)
         /\ releases' = [releases EXCEPT ![t] = e]

\* The release of a claim, by the command that continues, collects or dispatches again.
Release(c) ==
    LET t == IF commands[c].at = "settle" THEN commands[c].pred ELSE commands[c].task
        next == IF commands[c].at = "settle" THEN [commands[c] EXCEPT !.at = "create"] ELSE Idle
    IN /\ commands[c].at \in {"settle", "release"}
       /\ sessionLock = None /\ UNCHANGED sessionLock
       /\ \/ /\ t \in claims /\ Readable
             /\ ReleaseRecord(t, commands[c].evidence)
             /\ commands' = [commands EXCEPT ![c] = next]
          \/ /\ ~ (t \in claims /\ Readable /\ TerminalProof(t, commands[c].evidence))
             /\ Done(c) /\ UNCHANGED releases
       /\ UNCHANGED <<records, claims, runners, turn, contFaults>>

\* createTask: admission, profile and resources are looked at again, then the record.
Create(c) ==
    /\ commands[c].at = "create"
    /\ \/ /\ records' = [records EXCEPT ![commands[c].task] =
                [NoRecord EXCEPT !.made = TRUE, !.pred = commands[c].pred]]
          /\ Goto(c, "claim")
       \/ Done(c) /\ UNCHANGED records
    /\ UNCHANGED <<claims, releases, sessionLock, runners, turn, contFaults>>

\* ClaimSession: under the session's lock, nobody else holds the conversation.  A claim
\* of this task that was already released is not renewed.
Claim(c) ==
    LET t == commands[c].task IN
    /\ commands[c].at = "claim"
    /\ \/ /\ LockSession(c) /\ Readable /\ ~ records[t].refused
          /\ \/ Owners = {} /\ t \notin claims
             \/ Owners = {t}
          /\ Goto(c, "commit")
       \/ /\ ~ (Readable /\ ~ records[t].refused /\ Owners \subseteq {t}
                /\ ~ (t \in claims /\ Released(t)))
          /\ Done(c) /\ UNCHANGED sessionLock
    /\ UNCHANGED <<records, claims, releases, runners, turn, contFaults>>
CommitClaim(c) ==
    /\ commands[c].at = "commit"
    /\ claims' = claims \cup {commands[c].task}
    /\ Unlock(c) /\ Goto(c, "submit")
    /\ UNCHANGED <<records, releases, runners, turn, contFaults>>

\* PrepareSubmission and SubmitStaged.  The task is the supervisor's from here on.
Submit(c) ==
    LET t == commands[c].task IN
    /\ commands[c].at = "submit"
    /\ IF records[t].refused \/ records[t].submitted
       THEN UNCHANGED <<records, runners>>
       ELSE /\ records' = [records EXCEPT ![t].submitted = TRUE]
            /\ runners' = [runners EXCEPT ![t] = "queued"]
    /\ Done(c)
    /\ UNCHANGED <<claims, releases, sessionLock, turn, contFaults>>

\* DispatchExisting: the same dispatch again.  An ended task is released, a submitted one
\* is only looked at, one that never got so far is submitted.
DispatchAgain(c, t) ==
    /\ ~ Busy(c) /\ records[t].made /\ Continues(t)
    /\ \/ /\ Terminal(t)
          /\ commands' = [commands EXCEPT ![c] =
                [at |-> "release", task |-> t, pred |-> None, evidence |-> "outcome"]]
       \/ /\ ~ Terminal(t) /\ ~ records[t].submitted /\ ~ records[t].start
          /\ commands' = [commands EXCEPT ![c] =
                [at |-> "claim", task |-> t, pred |-> None, evidence |-> None]]
    /\ UNCHANGED <<records, claims, releases, sessionLock, runners, turn, contFaults>>

\* CollectContext: a sealed task without a runner gets its outcome, and is released.
Collect(c, t) ==
    /\ ~ Busy(c) /\ records[t].made /\ LeaseReleased(t)
    /\ records[t].seal \/ records[t].outcome
    /\ records' = [records EXCEPT ![t].outcome = TRUE]
    /\ IF Continues(t)
       THEN commands' = [commands EXCEPT ![c] =
              [at |-> "release", task |-> t, pred |-> None, evidence |-> "outcome"]]
       ELSE UNCHANGED commands
    /\ UNCHANGED <<claims, releases, sessionLock, runners, turn, contFaults>>

\* UpdateStatusStops: the queue says that the task has ended and the lifetime agrees.
Status(c, t) ==
    /\ ~ Busy(c) /\ records[t].stop = "requested" /\ t \notin turn
    /\ records' = [records EXCEPT ![t].stop = "terminated"]
    /\ UNCHANGED <<claims, releases, sessionLock, runners, turn, commands, contFaults>>

\* Cancel: the user's stop refuses every later launch; a live provider is stopped.  Once
\* the task has started nothing reads the refusal any more.
Cancel(c, t) ==
    /\ ~ Busy(c) /\ records[t].made /\ ~ Terminal(t) /\ ~ records[t].refused
    /\ records' = [records EXCEPT ![t].refused = ~ records[t].start]
    /\ turn' = turn \ {t}
    /\ UNCHANGED <<claims, releases, sessionLock, runners, commands, contFaults>>

\* The process of a command ends; the lock goes with it.
CommandStops(c) ==
    /\ Busy(c) /\ contFaults < MaxContFaults /\ contFaults' = contFaults + 1
    /\ Done(c) /\ Unlock(c)
    /\ UNCHANGED <<records, claims, releases, runners, turn>>

-----------------------------------------------------------------------------
(* The runner of a task *)

\* runPreparedRunner: the run lock, then the start record, which nothing removes.  The
\* provider says which conversation it is in, or ends before it does.
RunnerStarts(t) ==
    /\ runners[t] = "queued"
    /\ IF records[t].start \/ records[t].refused \/ records[t].closed
       THEN runners' = [runners EXCEPT ![t] = "gone"] /\ UNCHANGED <<records, turn>>
       ELSE /\ runners' = [runners EXCEPT ![t] = "running"]
            /\ \E known \in BOOLEAN :
                 records' = [records EXCEPT ![t].start = TRUE, ![t].identity = known]
            /\ turn' = turn \cup {t}
    /\ UNCHANGED <<claims, releases, sessionLock, commands, contFaults>>

\* PrepareBudget: the deadline has come; the stop is recorded and the provider ended.
BudgetStop(t) ==
    /\ runners[t] = "running" /\ records[t].stop = "none"
    /\ records' = [records EXCEPT ![t].stop = "requested"]
    /\ turn' = turn \ {t}
    /\ UNCHANGED <<claims, releases, sessionLock, runners, commands, contFaults>>

ProviderEnds(t) ==
    /\ t \in turn /\ turn' = turn \ {t}
    /\ UNCHANGED <<records, claims, releases, sessionLock, runners, commands, contFaults>>

\* runProvider: what the provider left is sealed and published, then the claim released.
RunnerFinishes(t) ==
    /\ t \notin turn
    /\ \/ /\ runners[t] = "running"
          /\ records' = [records EXCEPT ![t].seal = TRUE]
          /\ runners' = [runners EXCEPT ![t] = "publishing"]
       \/ /\ runners[t] = "publishing"
          /\ records' = [records EXCEPT ![t].outcome = TRUE]
          /\ runners' = [runners EXCEPT ![t] = "gone"]
    /\ UNCHANGED <<claims, releases, sessionLock, turn, commands, contFaults>>

\* The runner has let go of the run lock and releases the claim, if nobody else is at it.
RunnerReleases(t) ==
    /\ runners[t] = "gone" /\ Terminal(t) /\ Continues(t) /\ ~ Released(t)
    /\ sessionLock = None /\ t \in claims /\ Readable
    /\ ReleaseRecord(t, "outcome")
    /\ UNCHANGED <<records, claims, sessionLock, runners, turn, commands, contFaults>>

\* The runner ends early.  Its guardian ends the provider before the lifetime is closed.
RunnerCrashes(t) ==
    /\ runners[t] \in Active \cup {"queued"} /\ contFaults < MaxContFaults /\ contFaults' = contFaults + 1
    /\ runners' = [runners EXCEPT ![t] = "gone"]
    /\ UNCHANGED <<records, claims, releases, sessionLock, turn, commands>>

\* The closure of a task that has left a seal is not evidence for anything here.
CloseLifetime(t) ==
    /\ runners[t] = "gone" /\ t \notin turn /\ ~ records[t].closed /\ ~ records[t].seal
    /\ records' = [records EXCEPT ![t].closed = TRUE]
    /\ UNCHANGED <<claims, releases, sessionLock, runners, turn, commands, contFaults>>

ContNext ==
    \/ \E c \in Commands :
         \/ Resolve(c) \/ Release(c) \/ Create(c) \/ Claim(c) \/ CommitClaim(c) \/ Submit(c)
         \/ CommandStops(c)
         \/ \E t \in Tasks : \/ BeginContinue(c, t) \/ DispatchAgain(c, t) \/ Collect(c, t)
                             \/ Status(c, t) \/ Cancel(c, t)
    \/ \E t \in Tasks :
         \/ RunnerStarts(t) \/ BudgetStop(t) \/ ProviderEnds(t)
         \/ RunnerFinishes(t) \/ RunnerReleases(t) \/ RunnerCrashes(t) \/ CloseLifetime(t)

ContSpec == ContInit /\ [][ContNext]_contVars

-----------------------------------------------------------------------------
(* Properties *)

\* A conversation is in the hands of one task at a time: no two of its tasks have a
\* runner that has started or a provider that still lives, however the commands that
\* continue it interleave.
InHand(t) == runners[t] \in Active \/ t \in turn
SoleTurn == \A s, t \in Tasks : InHand(s) /\ InHand(t) => s = t

\* A release that was once proved stays provable, whatever the task's runner or its
\* collectors publish later: every later claim reads all releases and fails on a bad one.
ReleasesStand == Readable

\* At most one claim is open: two would make every later claim an invariant fault.
OneOwner == Cardinality(Owners) <= 1

ConversationIsSafe == SoleTurn /\ ReleasesStand /\ OneOwner
=============================================================================

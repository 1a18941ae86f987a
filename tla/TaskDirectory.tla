--------------------------- MODULE TaskDirectory ---------------------------
(***************************************************************************)
(* The files of one task directory: the prepared set, the start and the    *)
(* seal of the provider, the payload, the outcome and its recheck.  Every  *)
(* record is published the same way: a private stage file is written and   *)
(* synced, linked under its name (a link never replaces a file), and the   *)
(* directory is synced.  A name can be read between the link and the sync, *)
(* and a power failure in between may take it away again, so a process     *)
(* that finds a record does not know that it will stay.                    *)
(***************************************************************************)
EXTENDS Naturals, FiniteSets

CONSTANTS Creators,      \* processes that create the task
          RunWorkers,    \* processes that run its provider
          Collectors,    \* processes that collect its outcome
          Recheckers,    \* processes that assess a rejected outcome again
          Requests,      \* what a creator may ask for under the task's name
          MaxDirFaults   \* bound: failing system calls, dead processes, power failures

VARIABLES
    seen,       \* [Files -> value]: what a reader of the directory finds
    disk,       \* [Files -> value]: what a power failure leaves
    raw,        \* captured provider output: what is read and what is on disk
    stages,     \* processes whose stage file exists
    litter,     \* stage files nobody uses are left
    maintSH,    \* holders of the shared maintenance lock
    admission,  \* holder of .admission.lock
    runLock,    \* holder of .run.lock
    actor,      \* [process -> local state]
    dirFaults,
    starts,     \* history: launches of the provider
    reported,   \* history: outcomes some caller was told
    assessed    \* history: rechecks some caller was told

dirVars == <<seen, disk, raw, stages, litter, maintSH, admission, runLock, actor,
             dirFaults, starts, reported, assessed>>

Absent == "absent"
Nobody == "nobody"
Actors == Creators \cup RunWorkers \cup Collectors \cup Recheckers

\* What the provider can leave in raw/: its interpreter accepts the first, refuses the
\* others, and a newer interpreter recovers the last.
Contents == {"answer", "refusal", "garbled"}
Verdict(c) == IF c = "answer" THEN "committed" ELSE "rejected"
Recovered(c) == c = "garbled"

PreparedSet == {"brief", "task", "meta"}
TaskFiles == PreparedSet \cup {"start", "exit", "result", "reject", "outcome"}
RecheckFiles == {"rresult", "report"}
Files == TaskFiles \cup RecheckFiles
FolderOf(f) == IF f \in TaskFiles THEN TaskFiles ELSE RecheckFiles
PayloadOf(c) == IF Verdict(c) = "committed" THEN "result" ELSE "reject"

\* The lease of a runner and the record a process is publishing.
Actor == [at : {"idle", "admit", "prepare", "run", "collect", "recheck", "stage", "link",
                "barrier", "unlink"},
          file : Files \cup {Absent}, val : Requests \cup Contents \cup {Absent},
          launched : BOOLEAN, writing : BOOLEAN, imported : BOOLEAN, sealed : BOOLEAN,
          poisoned : BOOLEAN]
IdleActor == [at |-> "idle", file |-> Absent, val |-> Absent, launched |-> FALSE,
         writing |-> FALSE, imported |-> FALSE, sealed |-> FALSE, poisoned |-> FALSE]

DirTypeOK ==
    /\ seen \in [Files -> Requests \cup Contents \cup {Absent}]
    /\ disk \in [Files -> Requests \cup Contents \cup {Absent}]
    /\ raw \in [seen : Contents \cup {Absent}, disk : Contents \cup {Absent}]
    /\ stages \subseteq Actors /\ litter \in BOOLEAN
    /\ maintSH \subseteq Actors
    /\ admission \in Creators \cup {Nobody} /\ runLock \in Actors \cup {Nobody}
    /\ actor \in [Actors -> Actor]
    /\ dirFaults \in 0..MaxDirFaults
    /\ starts \in 0..2 /\ reported \subseteq Contents /\ assessed \subseteq Contents

DirInit ==
    /\ seen = [f \in Files |-> Absent] /\ disk = seen
    /\ raw = [seen |-> Absent, disk |-> Absent]
    /\ stages = {} /\ litter = FALSE
    /\ maintSH = {} /\ admission = Nobody /\ runLock = Nobody
    /\ actor = [p \in Actors |-> IdleActor]
    /\ dirFaults = 0 /\ starts = 0 /\ reported = {} /\ assessed = {}

AtStep(p, at) == actor[p].at = at
Go(p, at) == actor' = [actor EXCEPT ![p].at = at]
PublishRecord(p, f, v) == actor' = [actor EXCEPT ![p].at = "stage", ![p].file = f, ![p].val = v]
Faulty == dirFaults < MaxDirFaults /\ dirFaults' = dirFaults + 1
Exists(f) == seen[f] # Absent

\* barrierDir: every name in a directory is on disk after it is synced.
BarrierDir(folder) == disk' = [f \in Files |-> IF f \in folder THEN seen[f] ELSE disk[f]]

\* The deferred unlocks of a process that returns.  A runner keeps its lease.
ReleaseLocks(p) ==
    /\ maintSH' = maintSH \ {p}
    /\ admission' = IF admission = p THEN Nobody ELSE admission
    /\ runLock' = IF runLock = p THEN Nobody ELSE runLock
Return(p) ==
    IF p \in RunWorkers /\ actor[p].launched
    THEN Go(p, "run") /\ UNCHANGED <<maintSH, admission, runLock>>
    ELSE actor' = [actor EXCEPT ![p] = IdleActor] /\ ReleaseLocks(p)

-----------------------------------------------------------------------------
(* What a reader accepts *)

\* loadAndValidatePreparedSet: all three records, of one request, and the guards.
Prepared ==
    /\ \A f \in PreparedSet : Exists(f) /\ seen[f] = seen["task"]
    /\ Exists("start") => seen["start"] = seen["task"]

\* readSeal: the seal follows a start, and the raw files are those it lists.
SealIsValid == Exists("exit") /\ Exists("start") /\ raw.seen = seen["exit"]

\* readWinner: the payload the outcome names and the evidence it was drawn from are there.
WinnerIsValid ==
    /\ Exists("outcome")
    /\ seen[PayloadOf(seen["outcome"])] = seen["outcome"]
    /\ raw.seen = seen["outcome"]

-----------------------------------------------------------------------------
(* Creating the task *)

\* CreateTaskContext up to the admission lock: making the directory syncs it, also when
\* it was there.
CreateTaskContext(p) ==
    /\ p \in Creators /\ AtStep(p, "idle")
    /\ maintSH' = maintSH \cup {p}
    /\ BarrierDir(TaskFiles)
    /\ \E r \in Requests :
         actor' = [actor EXCEPT ![p].at = "admit", ![p].val = r]
    /\ UNCHANGED <<seen, raw, stages, litter, admission, runLock, dirFaults, starts,
                   reported, assessed>>

\* prepareSetContext: nothing is written before every record that exists was found to be
\* this request's; a set that was started from may not be completed.
Preparable(r) ==
    /\ \A f \in PreparedSet : seen[f] \in {r, Absent}
    /\ Exists("start") => \A f \in PreparedSet : Exists(f)

Admit(p) ==
    /\ AtStep(p, "admit")
    /\ IF admission = Nobody /\ Preparable(actor[p].val)
       THEN /\ admission' = p
            /\ Go(p, "prepare")
            /\ UNCHANGED <<maintSH, runLock>>
       ELSE Return(p)
    /\ UNCHANGED <<seen, disk, raw, stages, litter, dirFaults, starts, reported, assessed>>

PrepareSet(p) ==
    /\ AtStep(p, "prepare")
    /\ IF Exists("brief") /\ Exists("task") /\ Exists("meta")
       THEN Return(p)
       ELSE /\ PublishRecord(p, CASE ~ Exists("brief") -> "brief"
                            [] Exists("brief") /\ ~ Exists("task") -> "task"
                            [] OTHER -> "meta", actor[p].val)
            /\ UNCHANGED <<maintSH, admission, runLock>>
    /\ UNCHANGED <<seen, disk, raw, stages, litter, dirFaults, starts, reported, assessed>>

-----------------------------------------------------------------------------
(* The worker: start, capture, seal *)

\* PrepareStart.  The raw directory is made, and the task directory synced, before the
\* start is published.  A task that was ever started is not started again.
PrepareStart(p) ==
    /\ p \in RunWorkers /\ AtStep(p, "idle") /\ runLock = Nobody
    /\ Prepared
    /\ ~ Exists("start") /\ ~ Exists("exit") /\ ~ Exists("outcome")
    /\ raw.seen = Absent
    /\ maintSH' = maintSH \cup {p} /\ runLock' = p
    /\ BarrierDir(TaskFiles)
    /\ PublishRecord(p, "start", seen["task"])
    /\ UNCHANGED <<seen, raw, stages, litter, admission, dirFaults, starts, reported,
                   assessed>>

\* The permit is consumed and the launch files are made: once, and if that fails nothing
\* this runner captures can be sealed.
Launch(p) ==
    /\ AtStep(p, "run") /\ ~ actor[p].launched
    /\ starts < 2
    /\ starts' = starts + 1
    /\ \/ actor' = [actor EXCEPT ![p].launched = TRUE] /\ UNCHANGED dirFaults
       \/ actor' = [actor EXCEPT ![p].launched = TRUE, ![p].poisoned = TRUE] /\ Faulty
    /\ UNCHANGED <<seen, disk, raw, stages, litter, maintSH, admission, runLock, reported,
                   assessed>>

\* openRawWriter and Write: no new output is taken after the seal was prepared.
WriteRaw(p) ==
    /\ AtStep(p, "run") /\ actor[p].launched /\ ~ actor[p].writing
    /\ ~ actor[p].sealed /\ ~ actor[p].poisoned
    /\ raw.seen = Absent
    /\ \E c \in Contents : raw' = [raw EXCEPT !.seen = c]
    /\ actor' = [actor EXCEPT ![p].writing = TRUE]
    /\ UNCHANGED <<seen, disk, stages, litter, maintSH, admission, runLock, dirFaults,
                   starts, reported, assessed>>

\* rawWriter.Close syncs the stream; a stream that failed poisons the lease.
CloseRaw(p) ==
    /\ AtStep(p, "run") /\ actor[p].writing
    /\ \/ /\ raw' = [raw EXCEPT !.disk = raw.seen]
          /\ actor' = [actor EXCEPT ![p].writing = FALSE]
          /\ UNCHANGED dirFaults
       \/ /\ Faulty
          /\ actor' = [actor EXCEPT ![p].writing = FALSE, ![p].poisoned = TRUE]
          /\ UNCHANGED raw
    /\ UNCHANGED <<seen, disk, stages, litter, maintSH, admission, runLock, starts,
                   reported, assessed>>

\* ImportOutputArtifacts: a snapshot of what the provider wrote itself, once, with every
\* stream closed.
ImportOutput(p) ==
    /\ AtStep(p, "run") /\ actor[p].launched /\ ~ actor[p].writing /\ ~ actor[p].sealed
    /\ ~ actor[p].poisoned /\ ~ actor[p].imported /\ raw.seen # Absent
    /\ \/ actor' = [actor EXCEPT ![p].imported = TRUE] /\ UNCHANGED dirFaults
       \/ actor' = [actor EXCEPT ![p].poisoned = TRUE] /\ Faulty
    /\ UNCHANGED <<seen, disk, raw, stages, litter, maintSH, admission, runLock, starts,
                   reported, assessed>>

\* SealWithIdentity.  A seal that is found, one whose publication was uncertain, is
\* synced again; else the raw files are synced and listed, and from here on no writer
\* is opened.
Seal(p) ==
    /\ AtStep(p, "run") /\ actor[p].launched /\ ~ actor[p].writing
    /\ ~ actor[p].poisoned /\ actor[p].imported
    /\ Exists("exit") => SealIsValid
    /\ IF Exists("exit")
       THEN BarrierDir(TaskFiles) /\ UNCHANGED <<raw, actor>>
       ELSE /\ raw' = [raw EXCEPT !.disk = raw.seen]
            /\ actor' = [actor EXCEPT ![p].at = "stage", ![p].file = "exit",
                                      ![p].val = raw.seen, ![p].sealed = TRUE]
            /\ UNCHANGED disk
    /\ UNCHANGED <<seen, stages, litter, maintSH, admission, runLock, dirFaults, starts,
                   reported, assessed>>

Finalize(p) ==
    /\ AtStep(p, "run") /\ actor[p].sealed /\ ~ actor[p].writing /\ ~ actor[p].poisoned
    /\ Go(p, "collect")
    /\ UNCHANGED <<seen, disk, raw, stages, litter, maintSH, admission, runLock, dirFaults,
                   starts, reported, assessed>>

\* leaseState.release is refused while a writer is open.
ReleaseLease(p) ==
    /\ AtStep(p, "run") /\ ~ actor[p].writing
    /\ actor' = [actor EXCEPT ![p] = IdleActor]
    /\ ReleaseLocks(p)
    /\ UNCHANGED <<seen, disk, raw, stages, litter, dirFaults, starts, reported, assessed>>

-----------------------------------------------------------------------------
(* Collecting the outcome *)

CollectContext(p) ==
    /\ p \in Collectors /\ AtStep(p, "idle") /\ runLock = Nobody
    /\ Prepared /\ (Exists("outcome") \/ Exists("exit") \/ Exists("start"))
    /\ maintSH' = maintSH \cup {p} /\ runLock' = p
    /\ Go(p, "collect")
    /\ UNCHANGED <<seen, disk, raw, stages, litter, admission, dirFaults, starts, reported,
                   assessed>>

\* Mutant: an outcome that can be read is reported without a sync.
AcknowledgeUnsynced(folder) == UNCHANGED disk

\* acknowledgeRecord: whoever published the record may not have synced the directory.
Acknowledge(folder) == BarrierDir(folder)

\* collectOwnedContext: an outcome that is there is acknowledged and returned; without
\* one the seal is interpreted and its payload published first.
CollectOwned(p) ==
    /\ AtStep(p, "collect")
    /\ IF Exists("outcome")
       THEN /\ IF WinnerIsValid
               THEN Acknowledge(TaskFiles) /\ reported' = reported \cup {seen["outcome"]}
               ELSE UNCHANGED <<disk, reported>>
            /\ Return(p)
       ELSE IF SealIsValid
       THEN /\ PublishRecord(p, PayloadOf(seen["exit"]), seen["exit"])
            /\ UNCHANGED <<disk, reported, maintSH, admission, runLock>>
       ELSE Return(p) /\ UNCHANGED <<disk, reported>>
    /\ UNCHANGED <<seen, raw, stages, litter, dirFaults, starts, assessed>>

-----------------------------------------------------------------------------
(* Assessing a rejected outcome again *)

\* recheckOwned: the directory of the assessment is made, which syncs the chain above it;
\* a report that is there is checked against its payload, acknowledged and returned.
Recheck(p) ==
    /\ p \in Recheckers /\ AtStep(p, "idle") /\ runLock = Nobody
    /\ Prepared /\ SealIsValid /\ WinnerIsValid
    /\ Verdict(seen["outcome"]) = "rejected"
    /\ LET c == seen["outcome"] IN
       IF Exists("report")
       THEN /\ seen["report"] = c
            /\ seen["rresult"] = IF Recovered(c) THEN c ELSE Absent
            /\ Acknowledge(RecheckFiles)
            /\ assessed' = assessed \cup {c}
            /\ UNCHANGED <<maintSH, runLock, actor>>
       ELSE /\ Recovered(c) \/ ~ Exists("rresult")
            /\ BarrierDir(Files)
            /\ maintSH' = maintSH \cup {p} /\ runLock' = p
            /\ PublishRecord(p, IF Recovered(c) THEN "rresult" ELSE "report", c)
            /\ UNCHANGED assessed
    /\ UNCHANGED <<seen, raw, stages, litter, admission, dirFaults, starts, reported>>

-----------------------------------------------------------------------------
(* Publishing one record: stageReaderContext and commitStage *)

Stage(p) ==
    /\ AtStep(p, "stage")
    /\ stages' = stages \cup {p}
    /\ Go(p, "link")
    /\ UNCHANGED <<seen, disk, raw, litter, maintSH, admission, runLock, dirFaults, starts,
                   reported, assessed>>

\* A link does not replace: with the name taken the stage is discarded, and the record
\* that is there has to be the one that was to be published.
Link(p) ==
    /\ AtStep(p, "link") /\ p \in stages
    /\ LET f == actor[p].file IN
       IF ~ Exists(f)
       THEN /\ seen' = [seen EXCEPT ![f] = actor[p].val]
            /\ Go(p, "barrier")
            /\ UNCHANGED <<stages, maintSH, admission, runLock>>
       ELSE IF seen[f] = actor[p].val /\ f \in {"result", "reject", "outcome", "rresult"}
       THEN Go(p, "barrier") /\ UNCHANGED <<seen, stages, maintSH, admission, runLock>>
       ELSE stages' = stages \ {p} /\ Return(p) /\ UNCHANGED seen
    /\ UNCHANGED <<disk, raw, litter, dirFaults, starts, reported, assessed>>

SyncDir(p) ==
    /\ AtStep(p, "barrier")
    /\ BarrierDir(FolderOf(actor[p].file))
    /\ Go(p, "unlink")
    /\ UNCHANGED <<seen, raw, stages, litter, maintSH, admission, runLock, dirFaults,
                   starts, reported, assessed>>

\* The stage file is removed and the publisher goes on.
Unlink(p) ==
    /\ AtStep(p, "unlink")
    /\ stages' = stages \ {p}
    /\ LET f == actor[p].file
           v == actor[p].val
       IN  /\ \/ /\ \/ f \in PreparedSet /\ Go(p, "prepare")
                    \/ f \in {"start", "exit"} /\ Go(p, "run")
                    \/ f \in {"result", "reject"} /\ PublishRecord(p, "outcome", v)
                    \/ f = "rresult" /\ PublishRecord(p, "report", v)
                 /\ UNCHANGED <<maintSH, admission, runLock>>
              \/ f \in {"outcome", "report"} /\ Return(p)
           /\ reported' = IF f = "outcome" THEN reported \cup {v} ELSE reported
           /\ assessed' = IF f = "report" THEN assessed \cup {v} ELSE assessed
    /\ UNCHANGED <<seen, disk, raw, litter, dirFaults, starts>>

\* A system call fails while a record is published, or its interpreter does: the error
\* is returned, whether or not the name is linked, and the stage file is left.  An
\* outcome that is synced is reported all the same.
PublishFails(p) ==
    /\ actor[p].at \in {"stage", "link", "barrier", "unlink"} /\ Faulty
    /\ stages' = stages \ {p} /\ litter' = TRUE
    /\ Return(p)
    /\ reported' = IF AtStep(p, "unlink") /\ actor[p].file = "outcome"
                   THEN reported \cup {actor[p].val} ELSE reported
    /\ UNCHANGED <<seen, disk, raw, starts, assessed>>

\* Mutant: stage files are collected without excluding their writers.
ScavengeAnytime ==
    /\ litter \/ stages # {}
    /\ litter' = FALSE /\ stages' = {}
    /\ UNCHANGED <<seen, disk, raw, maintSH, admission, runLock, actor, dirFaults, starts,
                   reported, assessed>>

\* Scavenge removes every stage file, under the exclusive maintenance lock.
Scavenge ==
    /\ maintSH = {}
    /\ litter \/ stages # {}
    /\ litter' = FALSE /\ stages' = {}
    /\ UNCHANGED <<seen, disk, raw, maintSH, admission, runLock, actor, dirFaults, starts,
                   reported, assessed>>

-----------------------------------------------------------------------------
(* Faults *)

ProcessDies(p) ==
    /\ actor[p] # IdleActor /\ Faulty
    /\ actor' = [actor EXCEPT ![p] = IdleActor] /\ ReleaseLocks(p)
    /\ stages' = stages \ {p} /\ litter' = (litter \/ p \in stages)
    /\ UNCHANGED <<seen, disk, raw, starts, reported, assessed>>

\* Each name that was linked since its directory was synced may be gone or not.
PowerFails ==
    /\ Faulty
    /\ \E lost \in SUBSET {f \in Files : seen[f] # disk[f]} :
         seen' = [f \in Files |-> IF f \in lost THEN disk[f] ELSE seen[f]]
    /\ disk' = seen'
    /\ \E c \in {raw.seen, raw.disk} : raw' = [seen |-> c, disk |-> c]
    /\ actor' = [p \in Actors |-> IdleActor]
    /\ maintSH' = {} /\ admission' = Nobody /\ runLock' = Nobody
    /\ litter' = (litter \/ stages # {}) /\ stages' = {}
    /\ UNCHANGED <<starts, reported, assessed>>

DirNext ==
    \/ \E p \in Actors :
         \/ CreateTaskContext(p) \/ Admit(p) \/ PrepareSet(p)
         \/ PrepareStart(p) \/ Launch(p) \/ WriteRaw(p) \/ CloseRaw(p) \/ ImportOutput(p)
         \/ Seal(p) \/ Finalize(p) \/ ReleaseLease(p)
         \/ CollectContext(p) \/ CollectOwned(p) \/ Recheck(p)
         \/ Stage(p) \/ Link(p) \/ SyncDir(p) \/ Unlink(p) \/ PublishFails(p)
         \/ ProcessDies(p)
    \/ Scavenge \/ PowerFails

DirSpec == DirInit /\ [][DirNext]_dirVars

-----------------------------------------------------------------------------
(* Properties *)

\* An outcome or an assessment a caller was told is on disk and is the one that is read,
\* from then on: there is never a second one, whoever crashes.
ReportsStand ==
    /\ \A o \in reported : seen["outcome"] = o /\ disk["outcome"] = o
    /\ \A o \in assessed : disk["report"] = o /\ disk["outcome"] = o

\* An outcome that can be read was drawn from what is on disk: its payload, the seal and
\* the raw files the seal lists, the start and the prepared set, all of one request.
OutcomeIsBacked ==
    Exists("outcome") =>
        /\ WinnerIsValid
        /\ disk[PayloadOf(seen["outcome"])] = seen["outcome"]
        /\ disk["exit"] = seen["outcome"] /\ raw.disk = seen["outcome"]
        /\ disk["start"] # Absent
        /\ \A f \in PreparedSet : disk[f] = disk["start"]

OutcomeHolds == ReportsStand /\ OutcomeIsBacked

\* The provider is launched at most once, for one request, and a stage file is there
\* until its writer is done with it.
TaskStartsOnce ==
    /\ starts <= 1
    /\ \A f, g \in PreparedSet : Exists(f) /\ Exists(g) => seen[f] = seen[g]
    /\ \A p \in Actors : AtStep(p, "link") => p \in stages
=============================================================================

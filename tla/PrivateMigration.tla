-------------------------- MODULE PrivateMigration --------------------------
(***************************************************************************)
(* Replacing the private supervisor of a state root by another generation  *)
(* (another daemon installation or configuration).  One command at a time  *)
(* runs under the exclusive bootstrap lock and may stop anywhere; what     *)
(* survives it are the published binding, the daemon's identity, the       *)
(* publication of the two, the migration journal, its history, the         *)
(* recovery alias of the predecessor, and the daemon processes.            *)
(***************************************************************************)
EXTENDS Naturals, Sequences, FiniteSets

CONSTANTS Gens,             \* generations: what a binding says of a daemon
          NoGen,            \* no record
          Historical,       \* generations that cannot be launched any more
          MaxPids,          \* bound: daemon processes ever started
          MaxMigrations,    \* bound: completed migrations
          MaxMigFaults      \* bound: crashes of the command, failed or slow steps

VARIABLES
    identity, published,    \* daemon.identity.json and the binding record
    publishing,             \* journal of the publication of both, or NoGen
    bootstrapPending,       \* a first start is under way
    journal,                \* migration record, or NoJournal
    history,                \* completed migrations, oldest first
    alias, aliasFiles,      \* generation and files of the recovery alias
    daemons,                \* processes of the supervisor
    pidFile,                \* process number the last daemon wrote
    jobs,                   \* the queue holds active rows
    op,                     \* the command under the bootstrap lock
    migFaults

migVars == <<identity, published, publishing, bootstrapPending, journal, history, alias, aliasFiles,
             daemons, pidFile, jobs, op, migFaults>>
records == <<identity, published, publishing, bootstrapPending, journal, history>>

Pids == 1..MaxPids
GenOrNo == Gens \cup {NoGen}
NoJournal == [legacy |-> NoGen, successor |-> NoGen, pid |-> 0, phase |-> "none"]
Phases == {"prepared", "requested", "dispatched", "stopped"}
Journals == [legacy : Gens, successor : Gens, pid : 0..MaxPids, phase : Phases]

\* Order in which an alias is published: a crash leaves a prefix of these writes and
\* removals done.
AliasSteps == <<{"pendingConfig"}, {"pendingConfig", "pendingRecord"},
                {"pendingConfig", "pendingRecord", "config"},
                {"pendingConfig", "pendingRecord", "config", "record"},
                {"pendingConfig", "config", "record"}, {"config", "record"}>>
AliasFiles == {"pendingConfig", "pendingRecord", "config", "record"}

Idle == [pc |-> "idle", mode |-> "none", goal |-> NoGen, flags |-> {}, then |-> "done"]
Pcs == {"idle", "entry", "start", "prepare", "recoverOld", "authorize", "capture", "dispatch",
        "sent", "wait", "complete", "commit", "retire", "cleanup", "done"}
Flags == {"preserve", "owned", "safe", "shutdown", "complete", "busy"}

MigTypeOK ==
    /\ identity \in GenOrNo /\ published \in GenOrNo /\ publishing \in GenOrNo
    /\ bootstrapPending \in BOOLEAN /\ jobs \in BOOLEAN
    /\ journal \in Journals \cup {NoJournal}
    /\ Len(history) <= MaxMigrations /\ \A i \in 1..Len(history) : history[i] \in Journals
    /\ alias \in GenOrNo /\ aliasFiles \subseteq AliasFiles
    /\ daemons \subseteq [gen : Gens, pid : Pids, up : BOOLEAN] /\ pidFile \in 0..MaxPids
    /\ op \in [pc : Pcs, mode : {"none", "migrate", "recover"}, goal : GenOrNo,
               flags : SUBSET Flags, then : {"done", "commit", "retire"}]
    /\ migFaults \in 0..MaxMigFaults

\* A fresh root, a root with a published generation, and one from before bindings were
\* recorded.
MigInit ==
    /\ \/ identity = NoGen /\ published = NoGen /\ bootstrapPending = TRUE
       \/ identity \in Gens /\ published \in {identity, NoGen} /\ bootstrapPending = FALSE
    /\ publishing = NoGen /\ journal = NoJournal /\ history = <<>>
    /\ alias = NoGen /\ aliasFiles = {}
    /\ daemons \in {{}} \cup {{[gen |-> g, pid |-> 1, up |-> TRUE]} : g \in {identity} \ {NoGen}}
    /\ pidFile = IF daemons = {} THEN 0 ELSE 1
    /\ jobs \in {FALSE, daemons # {}}
    /\ op = Idle /\ migFaults = 0

-----------------------------------------------------------------------------
(* What the records say. *)

Ready == \E d \in daemons : d.up
ProcessGone(pid) == ~ \E d \in daemons : d.pid = pid
Unavailable(pid) == ~ Ready /\ ProcessGone(pid)
AliasRecord == "record" \in aliasFiles

\* facts.publishedReady and facts.complete.
PublishedReady(g) ==
    ~ bootstrapPending /\ publishing = NoGen /\ identity = g /\ published = g /\ g # NoGen
GenerationComplete(g, allowAlias) ==
    PublishedReady(g) /\ journal = NoJournal /\ (allowAlias \/ ~ AliasRecord)

\* privateSupervisorSuccessorConnected: follow the completed migrations, oldest first.
Connected(saved, current) ==
    LET cursor[i \in 0..Len(history)] ==
          IF i = 0 THEN saved
          ELSE IF history[i].legacy = cursor[i-1] THEN history[i].successor ELSE cursor[i-1]
    IN history # <<>> /\ cursor[Len(history)] = current

Go(pc) == op' = [op EXCEPT !.pc = pc]
Fault == migFaults < MaxMigFaults /\ migFaults' = migFaults + 1
\* A command that fails runs its deferred cleanup, if it has got that far.
Fail == Go("cleanup")

\* A failed or slow step.
FaultyFail == Fault /\ Fail

\* recoverPrivateIdentityPublication: the binding, the daemon's identity, the journal.
\* A stop before the journal is removed leaves it to be replayed.
Replay ==
    IF publishing = NoGen THEN UNCHANGED <<identity, published, publishing>>
    ELSE published' = publishing /\ identity' = publishing /\ publishing' = NoGen

\* publishPrivateDaemonIdentity: all of it, or, when the command dies, a prefix.
PublishIdentity(g) == published' = g /\ identity' = g /\ publishing' = NoGen /\ bootstrapPending' = FALSE
PublishIdentityPrefix(g) ==
    /\ \/ publishing' = g /\ published' = published /\ identity' = identity
       \/ publishing' = g /\ published' = g /\ identity' = identity
       \/ publishing' = g /\ published' = g /\ identity' = g
       \/ publishing' = NoGen /\ published' = g /\ identity' = g
    /\ UNCHANGED bootstrapPending

-----------------------------------------------------------------------------
(* The recovery alias. *)

\* recoverPrivateRecoveryPublication: a staged config without its record is removed, a
\* publication with its record is finished.
Recovered == CASE "pendingRecord" \in aliasFiles -> {"config", "record"}
               [] OTHER -> aliasFiles \ {"pendingConfig"}
RecoveredAlias == IF Recovered = {} THEN NoGen ELSE alias

\* PersistPrivateRecoveryBinding, with the stop it may meet: another alias refuses.
Persist(g) ==
    IF Recovered # {} /\ "record" \in Recovered /\ alias # g
    THEN aliasFiles' = Recovered /\ UNCHANGED alias
    ELSE aliasFiles' = {"config", "record"} /\ alias' = g
PersistRefused(g) == "record" \in Recovered /\ alias # g
PersistPrefix(g) ==
    /\ "record" \notin Recovered
    /\ \E i \in 1..Len(AliasSteps) : aliasFiles' = AliasSteps[i] \cup (Recovered \cap {"config"})
    /\ alias' = g

-----------------------------------------------------------------------------
(* Commands. *)

BeginMigration(g) ==
    /\ op = Idle
    /\ op' = [Idle EXCEPT !.pc = "entry", !.mode = "migrate", !.goal = g]
    /\ UNCHANGED <<records, alias, aliasFiles, daemons, pidFile, jobs, migFaults>>

BeginRecovery(g) ==
    /\ op = Idle
    /\ op' = [Idle EXCEPT !.pc = "entry", !.mode = "recover", !.goal = g]
    /\ UNCHANGED <<records, alias, aliasFiles, daemons, pidFile, jobs, migFaults>>

\* The binding of a root from before bindings: the alias names it, or the command's own
\* generation when the live daemon is that one.
MissingBinding ==
    IF AliasRecord THEN (IF alias = identity THEN identity ELSE NoGen)
    ELSE IF identity = op.goal /\ Ready THEN op.goal ELSE NoGen

\* observeDispatchedPrivateMigrationShutdown: a process that is there and answers is told
\* once more, otherwise its end is waited for.
Observed ==
    IF ~ ProcessGone(journal.pid) /\ Ready
    THEN [pc |-> "dispatch", jrn |-> [journal EXCEPT !.phase = "requested"]]
    ELSE [pc |-> "wait", jrn |-> journal]

\* resumePrivateMigration.
Resumed ==
    IF journal.phase = "prepared"
    THEN IF journal.successor # op.goal
         THEN IF published = journal.legacy /\ identity = journal.legacy /\ op.goal # journal.legacy
                    /\ op.goal \notin Historical
              THEN [pc |-> "prepare", jrn |-> [journal EXCEPT !.successor = op.goal]]
              ELSE [pc |-> "cleanup", jrn |-> journal]
         ELSE IF identity = op.goal /\ published = op.goal THEN [pc |-> "complete", jrn |-> journal]
         ELSE IF identity = journal.legacy /\ published = journal.legacy
              THEN [pc |-> "prepare", jrn |-> journal]
              ELSE [pc |-> "cleanup", jrn |-> journal]
    ELSE IF journal.phase = "stopped"
         THEN [pc |-> IF journal.successor = op.goal THEN "complete" ELSE "cleanup", jrn |-> journal]
    ELSE IF identity # journal.legacy \/ published # journal.legacy
         THEN [pc |-> "cleanup", jrn |-> journal]
    ELSE IF journal.phase = "dispatched" THEN Observed
    ELSE [pc |-> "dispatch", jrn |-> journal]

\* MigratePrivateSupervisorWithLock up to its choice, once a publication is replayed.
Enter ==
    /\ op.pc = "entry" /\ op.mode = "migrate" /\ publishing = NoGen
    /\ LET binding == IF published = NoGen THEN MissingBinding ELSE published IN
       IF journal = NoJournal /\ identity = NoGen
       THEN /\ IF bootstrapPending /\ ~ AliasRecord THEN Go("start") ELSE Fail
            /\ UNCHANGED <<published, journal>>
       ELSE IF binding = NoGen THEN Fail /\ UNCHANGED <<published, journal>>
       ELSE IF published = NoGen
       THEN \* the binding is published first; then as with a binding
            published' = binding /\ UNCHANGED <<op, journal>>
       ELSE IF journal # NoJournal
       THEN Go(Resumed.pc) /\ journal' = Resumed.jrn /\ UNCHANGED published
       ELSE /\ IF identity # published THEN Fail
               ELSE IF identity = op.goal THEN op' = [op EXCEPT !.pc = "start", !.then = "retire"]
               ELSE IF op.goal \in Historical THEN Fail ELSE Go("prepare")
            /\ UNCHANGED <<published, journal>>
    /\ UNCHANGED <<identity, publishing, bootstrapPending, history, alias, aliasFiles, daemons, pidFile,
                   jobs, migFaults>>

\* Every command replays an interrupted publication before it reads the records.
ReplayPublication ==
    /\ op.pc = "entry" /\ publishing # NoGen
    /\ Replay
    /\ UNCHANGED <<bootstrapPending, journal, history, alias, aliasFiles, daemons, pidFile, jobs, op,
                   migFaults>>

\* startDaemon: a further process, and the number file names it.
Launch(g) ==
    /\ pidFile < MaxPids
    /\ daemons' = daemons \cup {[gen |-> g, pid |-> pidFile + 1, up |-> TRUE]}
    /\ pidFile' = pidFile + 1

\* StartPrivate and startPrivate: a daemon that answers is taken as it is; otherwise the
\* old process and endpoint must be gone before a new one starts.
StartReady ==
    /\ op.pc = "start" /\ Ready
    /\ \/ /\ identity = NoGen /\ PublishIdentity(op.goal) /\ Go(op.then) /\ UNCHANGED migFaults
       \/ /\ identity = NoGen /\ PublishIdentityPrefix(op.goal) /\ op' = Idle /\ Fault
       \/ /\ identity # NoGen /\ bootstrapPending' = FALSE /\ Go(op.then)
          /\ UNCHANGED <<identity, published, publishing, migFaults>>
    /\ UNCHANGED <<journal, history, alias, aliasFiles, daemons, pidFile, jobs>>

StartDaemon ==
    /\ op.pc = "start" /\ ~ Ready /\ op.goal \notin Historical
    /\ Unavailable(pidFile)
    /\ Launch(op.goal)
    /\ \/ PublishIdentity(op.goal) /\ Go(op.then) /\ UNCHANGED migFaults
       \/ PublishIdentityPrefix(op.goal) /\ op' = Idle /\ Fault
       \/ \* not ready in time
          /\ bootstrapPending' = (bootstrapPending \/ identity = NoGen)
          /\ FaultyFail /\ UNCHANGED <<identity, published, publishing>>
    /\ UNCHANGED <<journal, history, alias, aliasFiles, jobs>>

StartRefused ==
    /\ op.pc = "start" /\ ~ Ready
    /\ IF op.goal \in Historical THEN Fail /\ UNCHANGED migFaults
       ELSE ~ Unavailable(pidFile) /\ FaultyFail
    /\ UNCHANGED <<records, alias, aliasFiles, daemons, pidFile, jobs>>

-----------------------------------------------------------------------------
(* The migration. *)

\* publishPrivateMigrationState; a historical predecessor must be recovered before it.
Prepare ==
    /\ op.pc = "prepare"
    /\ IF published \in Historical /\ ~ Ready
       THEN Fail /\ UNCHANGED journal
       ELSE /\ journal' = IF journal # NoJournal THEN journal
                          ELSE [legacy |-> published, successor |-> op.goal, pid |-> 0, phase |-> "prepared"]
            /\ Go("recoverOld")
    /\ UNCHANGED <<identity, published, publishing, bootstrapPending, history, alias, aliasFiles, daemons,
                   pidFile, jobs, migFaults>>

\* RecoverSavedWithPair: the predecessor must run to be asked about its queue.
RecoverOld ==
    /\ op.pc = "recoverOld"
    /\ IF PersistRefused(journal.legacy)
       THEN /\ Fail /\ aliasFiles' = Recovered /\ UNCHANGED <<alias, daemons, pidFile, migFaults>>
       ELSE IF Ready
       THEN /\ op' = [op EXCEPT !.pc = "authorize", !.flags = @ \cup {"preserve"}]
            /\ aliasFiles' = Recovered /\ alias' = RecoveredAlias
            /\ UNCHANGED <<daemons, pidFile, migFaults>>
       ELSE /\ journal.legacy \notin Historical
            /\ Launch(journal.legacy)
            /\ \/ /\ op' = [op EXCEPT !.pc = "authorize", !.flags = @ \cup {"preserve", "owned"}]
                  /\ aliasFiles' = Recovered /\ alias' = RecoveredAlias /\ UNCHANGED migFaults
               \/ \* not ready in time: the alias keeps the way back
                  FaultyFail /\ Persist(journal.legacy)
    /\ UNCHANGED <<records, jobs>>

RecoverOldRefused ==
    /\ op.pc = "recoverOld" /\ ~ PersistRefused(journal.legacy) /\ ~ Ready
    /\ journal.legacy \in Historical
    /\ Fail /\ aliasFiles' = Recovered /\ alias' = RecoveredAlias
    /\ UNCHANGED <<records, daemons, pidFile, jobs, migFaults>>

\* Mutant: the predecessor's queue is not looked at.
AuthorizeBlindly ==
    /\ op.pc = "authorize"
    /\ op' = [op EXCEPT !.pc = "capture", !.flags = @ \cup {"safe"}] /\ Persist(journal.legacy)
    /\ UNCHANGED migFaults
    /\ UNCHANGED <<records, daemons, pidFile, jobs>>

\* authorizePrivateMigrationQueue, then PersistPrivateRecoveryBinding: a busy queue is
\* left alone and stays reachable through its alias.
AuthorizeQueue ==
    /\ op.pc = "authorize"
    /\ \/ /\ ~ Ready /\ Fail /\ UNCHANGED <<alias, aliasFiles, migFaults>>
       \/ /\ Ready /\ jobs /\ Persist(journal.legacy)
          /\ op' = [op EXCEPT !.pc = "cleanup", !.flags = @ \cup {"busy"}] /\ UNCHANGED migFaults
       \/ /\ Ready /\ ~ jobs /\ ~ PersistRefused(journal.legacy)
          /\ op' = [op EXCEPT !.pc = "capture", !.flags = @ \cup {"safe"}]
          /\ Persist(journal.legacy) /\ UNCHANGED migFaults
       \/ /\ Ready /\ PersistPrefix(journal.legacy) /\ op' = Idle /\ Fault
    /\ UNCHANGED <<records, daemons, pidFile, jobs>>

\* The process to stop is named in the journal before it is asked to stop.
Capture ==
    /\ op.pc = "capture"
    /\ IF ProcessGone(pidFile) THEN Fail /\ UNCHANGED journal
       ELSE /\ journal' = [journal EXCEPT !.pid = pidFile, !.phase = "requested"]
            /\ op' = [op EXCEPT !.pc = "dispatch", !.flags = @ \cup {"shutdown"}]
    /\ UNCHANGED <<identity, published, publishing, bootstrapPending, history, alias, aliasFiles, daemons,
                   pidFile, jobs, migFaults>>

\* A daemon told to shut down closes its endpoint first and exits later.
Closing(d) == [d EXCEPT !.up = FALSE]
ShutDown == daemons' = {IF d.up THEN Closing(d) ELSE d : d \in daemons}

\* ShutdownDispatched: the command reaches the daemon; or fails before or after it started.
Dispatch ==
    /\ op.pc = "dispatch"
    /\ \/ ProcessGone(journal.pid) /\ Go("wait") /\ UNCHANGED <<daemons, migFaults>>
       \/ ~ ProcessGone(journal.pid) /\ ShutDown /\ Go("sent") /\ UNCHANGED migFaults
       \/ ~ ProcessGone(journal.pid) /\ FaultyFail /\ UNCHANGED daemons
    /\ UNCHANGED <<records, alias, aliasFiles, pidFile, jobs>>

\* The journal says dispatched; a command that ended in error is made retryable again.
RecordDispatched ==
    /\ op.pc = "sent"
    /\ \/ journal' = [journal EXCEPT !.phase = "dispatched"] /\ Go("wait") /\ UNCHANGED migFaults
       \/ UNCHANGED journal /\ FaultyFail
       \/ journal' = [journal EXCEPT !.phase = "dispatched"] /\ FaultyFail
    /\ UNCHANGED <<identity, published, publishing, bootstrapPending, history, alias, aliasFiles, daemons,
                   pidFile, jobs>>

\* Mutant: only the endpoint is waited for, not the process.
WaitEndpoint ==
    /\ op.pc = "wait" /\ ~ Ready
    /\ journal' = [journal EXCEPT !.phase = "stopped"]
    /\ op' = [op EXCEPT !.pc = IF op.mode = "migrate" /\ journal.successor = op.goal THEN "complete" ELSE "cleanup",
                        !.flags = @ \cup {"complete"}]
    /\ UNCHANGED <<identity, published, publishing, bootstrapPending, history, alias, aliasFiles, daemons,
                   pidFile, jobs, migFaults>>

\* waitUnavailableWithProcess: the endpoint and the named process are gone.  Only the
\* recorded successor goes on.
WaitStopped ==
    /\ op.pc = "wait" /\ Unavailable(journal.pid)
    /\ journal' = [journal EXCEPT !.phase = "stopped"]
    /\ op' = [op EXCEPT !.pc = IF op.mode = "migrate" /\ journal.successor = op.goal THEN "complete" ELSE "cleanup",
                        !.flags = @ \cup {"complete"}]
    /\ UNCHANGED <<identity, published, publishing, bootstrapPending, history, alias, aliasFiles, daemons,
                   pidFile, jobs, migFaults>>

WaitTimeout ==
    /\ op.pc = "wait" /\ ~ Unavailable(journal.pid) /\ FaultyFail
    /\ UNCHANGED <<records, alias, aliasFiles, daemons, pidFile, jobs>>

\* completePendingPrivateMigration starts the successor unless it answers already.
CompletePending ==
    /\ op.pc = "complete"
    /\ IF Ready THEN Go("commit") ELSE op' = [op EXCEPT !.pc = "start", !.then = "commit"]
    /\ UNCHANGED <<records, alias, aliasFiles, daemons, pidFile, jobs, migFaults>>

CompletionRecorded ==
    /\ \E i \in 1..Len(history) : history[i] = journal
    /\ PublishedReady(op.goal)

\* Mutant: the completion is appended again when it is replayed.
AppendedAgain == IF Len(history) < MaxMigrations THEN Append(history, journal) ELSE history

\* appendPrivateMigrationHistory: a record that is there is not appended again.
Appended == IF \E i \in 1..Len(history) : history[i] = journal THEN history ELSE Append(history, journal)

\* commitPrivateMigrationCompletion: identity, history, journal.
CommitCompletion ==
    /\ op.pc = "commit" /\ Len(Appended) <= MaxMigrations
    /\ \/ /\ CompletionRecorded /\ journal' = NoJournal /\ Go("retire")
          /\ UNCHANGED <<identity, published, publishing, bootstrapPending, history, migFaults>>
       \/ /\ ~ CompletionRecorded /\ PublishIdentity(op.goal)
          /\ history' = Appended /\ journal' = NoJournal /\ Go("retire") /\ UNCHANGED migFaults
       \/ /\ ~ CompletionRecorded /\ op' = Idle /\ Fault /\ UNCHANGED journal
          /\ \/ PublishIdentityPrefix(op.goal) /\ UNCHANGED history
             \/ PublishIdentity(op.goal) /\ history' = Appended
    /\ UNCHANGED <<alias, aliasFiles, daemons, pidFile, jobs>>

\* retirePrivateRecoveryBinding: only for the completed successor of the alias, by the
\* history or, for the very generation that is running, by a quiescent queue.
RetireAllowed ==
    /\ GenerationComplete(op.goal, TRUE)
    /\ IF "record" \in Recovered
       THEN Connected(alias, op.goal) \/ (op.then = "retire" /\ alias = op.goal /\ Ready /\ ~ jobs)
       ELSE \E i \in 1..Len(history) : history[i].successor = op.goal
\* The record is removed before the config, so a stop leaves at most an orphaned config.
Leftovers == {Recovered, Recovered \ {"record"}}
RetireAlias ==
    /\ op.pc = "retire"
    /\ \/ /\ Recovered = {} /\ Go("done") /\ aliasFiles' = {} /\ alias' = NoGen /\ UNCHANGED migFaults
       \/ /\ Recovered # {} /\ RetireAllowed /\ Go("done") /\ UNCHANGED migFaults
          /\ aliasFiles' = {} /\ alias' = NoGen
       \/ /\ Recovered # {} /\ RetireAllowed /\ op' = Idle /\ Fault
          /\ aliasFiles' \in Leftovers /\ UNCHANGED alias
       \/ /\ Recovered # {} /\ ~ RetireAllowed /\ Fail /\ aliasFiles' = Recovered
          /\ UNCHANGED <<alias, migFaults>>
    /\ UNCHANGED <<records, daemons, pidFile, jobs>>

\* The deferred part: the alias keeps the way back to the predecessor, and a daemon that
\* was started only for the migration is stopped again if that is safe.
StopOwned == {"owned", "safe"} \subseteq op.flags /\ op.flags \cap {"complete", "shutdown", "busy"} = {}
Cleanup ==
    /\ op.pc = "cleanup"
    /\ IF "preserve" \in op.flags /\ journal # NoJournal THEN Persist(journal.legacy)
       ELSE UNCHANGED <<alias, aliasFiles>>
    /\ IF StopOwned THEN ShutDown \/ UNCHANGED daemons ELSE UNCHANGED daemons
    /\ op' = Idle
    /\ UNCHANGED <<records, pidFile, jobs, migFaults>>

Finish == op.pc = "done" /\ op' = Idle
    /\ UNCHANGED <<records, alias, aliasFiles, daemons, pidFile, jobs, migFaults>>

-----------------------------------------------------------------------------
(* Recovery of a saved generation for a task: AttemptPrivateRecovery. *)

\* With an alias: a shutdown that is requested forbids a start, a dispatched one is
\* followed to its end.
RecoverAlias ==
    /\ op.pc = "entry" /\ op.mode = "recover" /\ "record" \in Recovered
    /\ aliasFiles' = Recovered /\ UNCHANGED alias
    /\ IF alias # op.goal \/ journal.phase = "requested"
       THEN Fail /\ UNCHANGED <<journal, daemons, pidFile, migFaults>>
       ELSE IF journal.phase \in {"dispatched", "stopped"}
       THEN /\ IF journal.phase = "dispatched" /\ journal.legacy = alias
               THEN Go(Observed.pc) /\ journal' = Observed.jrn
               ELSE Fail /\ UNCHANGED journal
            /\ UNCHANGED <<daemons, pidFile, migFaults>>
       ELSE IF Ready THEN Go("done") /\ UNCHANGED <<journal, daemons, pidFile, migFaults>>
       ELSE /\ op.goal \notin Historical /\ Launch(op.goal) /\ UNCHANGED journal
            /\ (Go("done") /\ UNCHANGED migFaults) \/ FaultyFail
    /\ UNCHANGED <<identity, published, publishing, bootstrapPending, history, jobs>>

\* Without: the published generation is started when the saved one leads to it; a root
\* without a binding must have no transition under way.
RecoverGeneration ==
    /\ op.pc = "entry" /\ op.mode = "recover" /\ "record" \notin Recovered
    /\ aliasFiles' = Recovered /\ alias' = RecoveredAlias
    /\ IF published # NoGen /\ publishing = NoGen /\ GenerationComplete(published, FALSE)
            /\ (op.goal = published \/ Connected(op.goal, published))
       THEN op' = [op EXCEPT !.pc = "start", !.goal = published] /\ UNCHANGED published
       ELSE IF published = NoGen /\ journal = NoJournal /\ ~ bootstrapPending /\ publishing = NoGen
                 /\ identity = op.goal
       THEN published' = op.goal /\ Go("start")
       ELSE Fail /\ UNCHANGED published
    /\ UNCHANGED <<identity, publishing, bootstrapPending, journal, history, daemons, pidFile, jobs,
                   migFaults>>

-----------------------------------------------------------------------------
(* The rest of the world. *)

\* A task is queued only under the lock, for the complete generation.
SubmitJob ==
    /\ op = Idle /\ ~ jobs /\ Ready /\ published # NoGen /\ GenerationComplete(published, FALSE)
    /\ jobs' = TRUE
    /\ UNCHANGED <<records, alias, aliasFiles, daemons, pidFile, op, migFaults>>

JobsEnd ==
    /\ jobs /\ Ready /\ jobs' = FALSE
    /\ UNCHANGED <<records, alias, aliasFiles, daemons, pidFile, op, migFaults>>

DaemonExits ==
    /\ \E d \in daemons : daemons' = daemons \ {d} /\ (IF d.up THEN Fault ELSE UNCHANGED migFaults)
    /\ UNCHANGED <<records, alias, aliasFiles, pidFile, jobs, op>>

CommandDies ==
    /\ op # Idle /\ Fault /\ op' = Idle
    /\ UNCHANGED <<records, alias, aliasFiles, daemons, pidFile, jobs>>

MigNext ==
    \/ \E g \in Gens : BeginMigration(g) \/ BeginRecovery(g)
    \/ ReplayPublication \/ Enter \/ StartReady \/ StartDaemon \/ StartRefused \/ Prepare \/ RecoverOld
    \/ RecoverOldRefused \/ AuthorizeQueue \/ Capture \/ Dispatch \/ RecordDispatched \/ WaitStopped
    \/ WaitTimeout \/ CompletePending \/ CommitCompletion \/ RetireAlias \/ Cleanup \/ Finish
    \/ RecoverAlias \/ RecoverGeneration \/ SubmitJob \/ JobsEnd \/ DaemonExits \/ CommandDies

-----------------------------------------------------------------------------
(* Properties. *)

\* A migration never tells a daemon with active rows to shut down, however often it was
\* interrupted between looking at the queue and dispatching.
ShutdownIsQuiescent == [][jobs => \A d \in daemons : d.up => Closing(d) \notin daemons']_migVars

\* Two generations never run at once, and once the journal says that the predecessor has
\* stopped no process of it is left and no command brings one back.
HandoverIsClean ==
    /\ \A d, e \in daemons : d.gen = e.gen
    /\ journal.phase = "stopped" => \A d \in daemons : d.gen = journal.successor

\* Every generation that was completed leads through the history to the published one.
ChainResolves == (published # NoGen /\ GenerationComplete(published, TRUE)) =>
    \A i \in 1..Len(history) : Connected(history[i].legacy, published)
==============================================================================

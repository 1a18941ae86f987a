-------------------------- MODULE PrivateBootstrap --------------------------
(***************************************************************************)
(* The admission of a state root to its private supervisor: the supervisor *)
(* directory and its configuration, the daemon, the records that publish   *)
(* them and the scheduling evidence, created on first use and found again  *)
(* later.  Any number of commands do this at once: a probe under the shared *)
(* lease, an election by the transition lock, the bootstrap lock for the   *)
(* one that changes anything.                                              *)
(*                                                                         *)
(* The directory is modelled with its cache: `names` is what a process     *)
(* sees, `stable` what a power failure leaves for certain; an entry that   *)
(* was changed since the last directory barrier may be lost or kept.       *)
(* Contents are whole: they are synced before the link or the rename.      *)
(* Supervisor migrations and recovery aliases are PrivateMigration.        *)
(***************************************************************************)
EXTENDS Naturals, Sequences, FiniteSets, TLC

CONSTANTS Pairs,           \* installed pairs of client and daemon executables
          NoPair,
          BootCommands,    \* commands that admit work at the same time
          MaxBootFaults    \* bound: crashes, power failures, dead daemons, moved installations

VARIABLES names,       \* the entries of the supervisor directory as processes see them
          stable,      \* the entries that survive a power failure for certain
          inherited,   \* the root began with records of two installations
          tooLong,     \* the default socket path exceeds the platform's limit
          installed,   \* pairs whose executables exist
          daemon,      \* the running daemon
          wide,        \* its default group runs any number of tasks
          cmds,        \* command -> its progress
          bootFaults

bootVars == <<names, stable, inherited, tooLong, installed, daemon, wide, cmds, bootFaults>>

None == [pair |-> NoPair, config |-> "none"]
NoMarker == [kind |-> "none", from |-> NoPair, to |-> NoPair]
BootMarker == [kind |-> "boot", from |-> NoPair, to |-> NoPair]
NoDaemon == [pair |-> NoPair, config |-> "none", up |-> FALSE]
IdleCommand == [pc |-> "idle", then |-> "none", stack |-> <<>>, pair |-> NoPair,
                existed |-> FALSE, holds |-> {}]
Entries == {"lock", "config", "run", "marker", "pending", "binding", "identity", "evidence"}
Empty == [lock |-> FALSE, config |-> "none", run |-> FALSE, marker |-> NoMarker, pending |-> None,
          binding |-> None, identity |-> None, evidence |-> None]

(* ResolveConfig, ValidateUnixSocketPathBytes: the compact socket path is
   short enough for every root. *)
Valid(config) == config = "compact" \/ (config = "plain" /\ ~tooLong)

(* Roots that were never used; that an earlier release left with a
   configuration the daemon cannot use; that are settled; that an earlier
   release left while it restarted the daemon of a moved installation; and
   whose records it left naming two installations. *)
BootInit ==
    /\ tooLong \in BOOLEAN
    /\ installed \in {{p} : p \in Pairs}
    /\ wide = FALSE
    /\ \E p, q \in Pairs :
       LET g == [pair |-> p, config |-> IF tooLong THEN "compact" ELSE "plain"]
           settled == [Empty EXCEPT !.lock = TRUE, !.config = g.config, !.run = TRUE,
                                    !.binding = g, !.identity = g]
       IN names \in {Empty,
                     [Empty EXCEPT !.lock = TRUE, !.config = "plain", !.marker = BootMarker],
                     [settled EXCEPT !.evidence = g],
                     [settled EXCEPT !.marker = [kind |-> "restart", from |-> p, to |-> q]],
                     [settled EXCEPT !.identity = [g EXCEPT !.pair = q]]}
    /\ inherited = (names.identity # names.binding)
    /\ names.marker.kind = "restart" => names.marker.from # names.marker.to
    /\ stable = names
    /\ daemon \in {NoDaemon, [pair |-> names.binding.pair, config |-> names.config, up |-> TRUE]}
    /\ daemon # NoDaemon => names.binding # None
    /\ cmds = [c \in BootCommands |-> IdleCommand]
    /\ bootFaults = 0

-----------------------------------------------------------------------------
(* What the records say. *)

(* privateGenerationFacts.publishedReady and complete: nothing is under way
   and the daemon's identity is that of the published generation. *)
Complete ==
    /\ names.marker = NoMarker
    /\ names.pending = None
    /\ names.binding # None
    /\ names.identity = names.binding
(* incompletePrivateConfigGenerationAbsent: nothing was ever published. *)
GenerationAbsent == names.identity = None /\ names.binding = None /\ names.pending = None
(* incompletePrivateConfigRepairAuthorized: and no daemon can have run. *)
RepairAuthorized == GenerationAbsent /\ names.evidence = None /\ ~names.run

-----------------------------------------------------------------------------
(* Commands. *)

Holds(lock) == {c \in BootCommands : lock \in cmds[c].holds}
Go(c, pc) == cmds' = [cmds EXCEPT ![c].pc = pc]
(* The command returns with an error and gives up its locks. *)
Ended(c) == cmds' = [cmds EXCEPT ![c] = IdleCommand]
Runtime(c) == [pair |-> cmds[c].pair, config |-> names.config]
Quiet == UNCHANGED <<inherited, tooLong, installed, daemon, wide, bootFaults>>
Still == UNCHANGED <<names, stable>> /\ Quiet

(* replacePrivateRecordAtomic and publishPrivateRecord: the entry changes in
   one step; the directory barrier follows in the next. *)
Put(c, entry, value, next) ==
    /\ names' = [names EXCEPT ![entry] = value]
    /\ cmds' = [cmds EXCEPT ![c].pc = "sync", ![c].then = next]
    /\ UNCHANGED stable
    /\ Quiet

(* syncPrivateDirectory *)
Sync(c) ==
    /\ cmds[c].pc = "sync"
    /\ stable' = names
    /\ cmds' = [cmds EXCEPT ![c].pc = cmds[c].then, ![c].then = "none"]
    /\ UNCHANGED names
    /\ Quiet

Begin(c) ==
    /\ cmds[c] = IdleCommand
    /\ Go(c, "probe")
    /\ Still

(* observePrivateWithGate, probePrivateReady: the shared lease, which excludes
   whoever holds the bootstrap lock; then the published records. *)
AfterProbe(c) == IF cmds[c].pc \in {"probe", "probing"} THEN "elect" ELSE "boot"
MayLease(c) == Holds("boot") = {}

ProbeFacts(c) ==
    /\ cmds[c].pc \in {"probe", "reprobe"}
    /\ MayLease(c)
    /\ IF ~names.lock \/ ~Complete \/ ~names.run \/ names.config # names.binding.config
       THEN Go(c, AfterProbe(c))
       ELSE IF names.binding.pair \notin installed
       THEN Ended(c)
       ELSE cmds' = [cmds EXCEPT ![c].pc = IF @ = "probe" THEN "probing" ELSE "reprobing",
                                 ![c].holds = @ \union {"lease"}]
    /\ Still

(* ProbePrivateEndpointWithGate: the endpoint answers, and the scheduling
   evidence is that of the published generation. *)
ProbeEndpoint(c) ==
    /\ cmds[c].pc \in {"probing", "reprobing"}
    /\ IF daemon.up /\ names.evidence = names.binding
       THEN Go(c, "ready")
       ELSE cmds' = [cmds EXCEPT ![c].pc = AfterProbe(c), ![c].holds = @ \ {"lease"}]
    /\ Still

(* ensurePrivateBase, ensurePrivateLockFile: the directory and its locks are
   created by whoever comes first, before any lock is held. *)
EnsureBase(c) ==
    /\ cmds[c].pc = "elect"
    /\ ~names.lock
    /\ Put(c, "lock", TRUE, "elect")

(* electPrivateAdmissionTransition: one command per root; the others wait for
   it and probe again. *)
Elect(c) ==
    /\ cmds[c].pc = "elect"
    /\ names.lock
    /\ cmds' = [cmds EXCEPT ![c] = IF Holds("transition") = {}
                                   THEN [@ EXCEPT !.pc = "reprobe", !.holds = @ \union {"transition"}]
                                   ELSE [@ EXCEPT !.pc = "wait"]]
    /\ Still

WaitForTransition(c) ==
    /\ cmds[c].pc = "wait"
    /\ Holds("transition") = {}
    /\ Go(c, "probe")
    /\ Still

(* WithBootstrapLockContext, then recoverPrivateIdentityPublication: under the
   lock a publication that was interrupted is finished first. *)
Bootstrap(c) ==
    /\ cmds[c].pc = "boot"
    /\ Holds("boot") = {} /\ Holds("lease") = {}
    /\ IF /\ names.pending # None
          /\ names.marker.kind = "restart" /\ names.pending.pair # names.marker.to
       THEN Ended(c)
       ELSE cmds' = [cmds EXCEPT ![c].holds = @ \union {"boot"},
                                 ![c].existed = names.config # "none",
                                 ![c].stack = IF names.pending = None THEN <<>> ELSE <<"reconcile">>,
                                 ![c].pc = IF names.pending = None THEN "reconcile" ELSE "bindSync"]
    /\ Still

-----------------------------------------------------------------------------
(* publishPrivateDaemonIdentity: intention, binding, identity, and the
   intention is withdrawn; commitPrivateDaemonIdentity then clears the marker. *)

Publish(c) ==
    /\ cmds[c].pc = "publish"
    /\ IF names.marker.kind = "restart" /\ cmds[c].pair # names.marker.to
       THEN Ended(c) /\ Still
       ELSE Put(c, "pending", Runtime(c), "bindSync")

(* Mutant: the binding is renamed into place without the barrier before it. *)
PublishBindingNoSync(c) ==
    /\ cmds[c].pc = "bindSync"
    /\ Go(c, "bind")
    /\ Still
(* replacePrivateSupervisorBindingRecord syncs the directory before the
   rename: an intention found after a crash may not be durable yet. *)
PublishBindingSync(c) ==
    /\ cmds[c].pc = "bindSync"
    /\ stable' = names
    /\ Go(c, "bind")
    /\ UNCHANGED names
    /\ Quiet

PublishBinding(c) ==
    /\ cmds[c].pc = "bind"
    /\ Put(c, "binding", names.pending, "identity")

PublishIdentity(c) ==
    /\ cmds[c].pc = "identity"
    /\ Put(c, "identity", names.pending, "withdraw")

Withdraw(c) ==
    /\ cmds[c].pc = "withdraw"
    /\ names' = [names EXCEPT !.pending = None]
    /\ cmds' = [cmds EXCEPT ![c].pc = "sync", ![c].then = Head(cmds[c].stack),
                            ![c].stack = Tail(cmds[c].stack)]
    /\ UNCHANGED stable
    /\ Quiet

(* clearPrivateBootstrapPending *)
ClearMarker(c) ==
    /\ cmds[c].pc = "clear"
    /\ LET next == Head(cmds[c].stack)
       IN \/ /\ names.marker # NoMarker
             /\ names' = [names EXCEPT !.marker = NoMarker]
             /\ cmds' = [cmds EXCEPT ![c].pc = "sync", ![c].then = next, ![c].stack = <<>>]
          \/ /\ names.marker = NoMarker
             /\ cmds' = [cmds EXCEPT ![c].pc = next, ![c].stack = <<>>]
             /\ UNCHANGED names
    /\ UNCHANGED stable
    /\ Quiet

-----------------------------------------------------------------------------
(* ReconcilePublishedSupervisorWithLock. *)

(* resumePrivatePairRestart: only the recorded target may take over, and only
   once its daemon answers. *)
ResumeRestart(c) ==
    /\ cmds[c].pc = "reconcile"
    /\ names.marker.kind = "restart"
    /\ IF /\ {names.binding.pair, names.identity.pair} \subseteq {names.marker.from, names.marker.to}
          /\ names.marker.to \in installed
          /\ daemon.up
       THEN cmds' = [cmds EXCEPT ![c].pc = "publish", ![c].pair = names.marker.to,
                                 ![c].stack = <<"clear", "live">>]
       ELSE Ended(c)
    /\ Still

(* reconcilePrivatePairWithWitness: records of two installations are brought
   together when the identity is that of the installed pair. *)
ReconcilePair(c) ==
    /\ cmds[c].pc = "reconcile"
    /\ names.marker.kind # "restart"
    /\ names.binding # None /\ names.identity # None
    /\ names.binding # names.identity
    /\ IF names.marker = NoMarker /\ names.identity.pair \in installed
       THEN Put(c, "binding", names.identity, "live")
       ELSE /\ IF names.marker = NoMarker THEN Ended(c) ELSE Go(c, "live")
            /\ Still

(* A published pair that is gone has no successor without an explicit migration. *)
Reconciled(c) ==
    /\ cmds[c].pc = "reconcile"
    /\ names.marker.kind # "restart"
    /\ names.binding = None \/ names.identity = None \/ names.binding = names.identity
    /\ IF names.binding # None /\ names.binding.pair \notin installed /\ Complete
       THEN Ended(c)
       ELSE Go(c, "live")
    /\ Still

(* repairLivePrivateAdmissionTransition: a live daemon only lacks scheduling. *)
Live(c) ==
    /\ cmds[c].pc = "live"
    /\ IF Complete /\ names.run /\ names.binding.pair \in installed /\ daemon.up
       THEN cmds' = [cmds EXCEPT ![c].pair = names.binding.pair,
                                 ![c].pc = IF names.evidence = names.binding /\ wide
                                           THEN "ready" ELSE "widen"]
       ELSE Go(c, "published")
    /\ Still

(* PreparePublishedPrivateWithLock, or the first bootstrap of the root. *)
Prepare(c) ==
    /\ cmds[c].pc = "published"
    /\ \/ /\ names.binding # None
          /\ IF Complete /\ names.binding.pair \in installed
             THEN cmds' = [cmds EXCEPT ![c].pc = "start", ![c].pair = names.binding.pair,
                                       ![c].stack = <<"schedule">>]
             ELSE Ended(c)
       \/ /\ names.binding = None
          /\ \E p \in installed :
                 cmds' = [cmds EXCEPT ![c].pc = "config", ![c].pair = p,
                                      ![c].stack = <<"ensureBinding">>]
    /\ Still

-----------------------------------------------------------------------------
(* ensurePrivateConfigContext. *)

(* Mutant: the configuration is linked before its marker is recorded. *)
CreateConfigUnmarked(c) ==
    /\ cmds[c].pc = "config"
    /\ names.config = "none"
    /\ IF GenerationAbsent
       THEN Put(c, "config", IF tooLong THEN "compact" ELSE "plain", "validate")
       ELSE Ended(c) /\ Still
(* A root without a configuration: the bootstrap marker is durable before the
   configuration exists. *)
CreateConfig(c) ==
    /\ cmds[c].pc = "config"
    /\ names.config = "none"
    /\ IF GenerationAbsent
       THEN Put(c, "marker", BootMarker, "link")
       ELSE Ended(c) /\ Still

LinkConfig(c) ==
    /\ cmds[c].pc = "link"
    /\ Put(c, "config", IF tooLong THEN "compact" ELSE "plain", "validate")

(* repairIncompletePrivateConfig: only a configuration no daemon can have used. *)
MayRepair == names.marker.kind = "boot" /\ RepairAuthorized

ExistingConfig(c) ==
    /\ cmds[c].pc = "config"
    /\ names.config # "none"
    /\ \/ /\ Valid(names.config)
          /\ Go(c, "validate")
          /\ Still
       \/ /\ ~Valid(names.config)
          /\ MayRepair
          /\ Put(c, "config", "compact", "validate")
       \/ /\ ~Valid(names.config)
          /\ ~MayRepair
          /\ Ended(c)
          /\ Still

(* validatePrivateConfig creates the data and runtime directories; a
   configuration that was found under a marker is made durable again. *)
Validate(c) ==
    /\ cmds[c].pc = "validate"
    /\ names' = [names EXCEPT !.run = TRUE]
    /\ cmds' = [cmds EXCEPT ![c].pc = IF cmds[c].existed /\ names.marker # NoMarker THEN "sync" ELSE "admit",
                            ![c].then = IF cmds[c].existed /\ names.marker # NoMarker THEN "admit" ELSE "none"]
    /\ UNCHANGED stable
    /\ Quiet

(* RejectPrivateAdmissionMigrationWithEndpointProof: a configuration that no
   marker explains belongs to an unknown predecessor. *)
Admit(c) ==
    /\ cmds[c].pc = "admit"
    /\ IF cmds[c].existed /\ names.marker = NoMarker /\ ~daemon.up
       THEN Ended(c) ELSE Go(c, "start")
    /\ Still

-----------------------------------------------------------------------------
(* StartPrivate. *)

(* A daemon that answers is the supervisor; its identity is published if it
   never was. *)
StartLive(c) ==
    /\ cmds[c].pc = "start"
    /\ daemon.up
    /\ cmds' = [cmds EXCEPT ![c].pc = IF names.identity = None THEN "publish" ELSE "clear",
                            ![c].stack = IF names.identity = None THEN <<"clear">> \o @ ELSE @]
    /\ Still

(* The marker is durable before a daemon without an identity starts. *)
StartAbsent(c) ==
    /\ cmds[c].pc = "start"
    /\ ~daemon.up
    /\ IF names.binding = None /\ names.identity # None
       THEN Ended(c) /\ Still
       ELSE IF names.identity = None
       THEN Put(c, "marker", BootMarker, "spawn")
       ELSE Go(c, "spawn") /\ Still

(* WaitUnavailable, startDaemon: nothing else runs and the pair is there. *)
Spawn(c) ==
    /\ cmds[c].pc = "spawn"
    /\ IF daemon = NoDaemon /\ cmds[c].pair \in installed
       THEN daemon' = Runtime(c) @@ [up |-> FALSE] /\ Go(c, "waitReady")
       ELSE UNCHANGED daemon /\ Ended(c)
    /\ UNCHANGED <<names, stable, inherited, tooLong, installed, wide, bootFaults>>

WaitReady(c) ==
    /\ cmds[c].pc = "waitReady"
    /\ \/ /\ daemon.up
          /\ cmds' = [cmds EXCEPT ![c].pc = "publish", ![c].stack = <<"clear">> \o @]
       \/ /\ ~daemon.up
          /\ Ended(c)
    /\ Still

(* EnsurePrivateSupervisorBindingWithLock *)
EnsureBinding(c) ==
    /\ cmds[c].pc = "ensureBinding"
    /\ IF daemon.up /\ names.identity = Runtime(c) /\ names.binding = Runtime(c) /\ Complete
       THEN Go(c, "schedule") ELSE Ended(c)
    /\ Still

(* EnsureOrdinarySchedulingWithBootstrapLock *)
Schedule(c) ==
    /\ cmds[c].pc = "schedule"
    /\ Go(c, IF names.evidence = Runtime(c) THEN "ready" ELSE "widen")
    /\ Still

(* SetPrivateDefaultParallelTasksWithBootstrapLock, of a complete generation. *)
Widen(c) ==
    /\ cmds[c].pc = "widen"
    /\ IF daemon.up /\ Complete
       THEN wide' = TRUE /\ Go(c, "record")
       ELSE UNCHANGED wide /\ Ended(c)
    /\ UNCHANGED <<names, stable, inherited, tooLong, installed, daemon, bootFaults>>

(* publishPrivateOrdinaryScheduling *)
RecordScheduling(c) ==
    /\ cmds[c].pc = "record"
    /\ Put(c, "evidence", Runtime(c), "ready")

Return(c) ==
    /\ cmds[c].pc = "ready"
    /\ Ended(c)
    /\ Still

-----------------------------------------------------------------------------
(* The surroundings. *)

Fault == bootFaults < MaxBootFaults /\ bootFaults' = bootFaults + 1

DaemonUp ==
    /\ daemon # NoDaemon /\ ~daemon.up
    /\ daemon' = [daemon EXCEPT !.up = TRUE]
    /\ UNCHANGED <<names, stable, inherited, tooLong, installed, wide, cmds, bootFaults>>

DaemonDies ==
    /\ daemon # NoDaemon
    /\ Fault
    /\ daemon' = NoDaemon
    /\ UNCHANGED <<names, stable, inherited, tooLong, installed, wide, cmds>>

(* The installation moves: the pair it replaces is gone. *)
MoveInstallation ==
    /\ Fault
    /\ \E p \in Pairs : {p} # installed /\ installed' = {p}
    /\ UNCHANGED <<names, stable, inherited, tooLong, daemon, wide, cmds>>

(* Somebody limits the default group by hand. *)
Narrow ==
    /\ wide
    /\ Fault
    /\ wide' = FALSE
    /\ UNCHANGED <<names, stable, inherited, tooLong, installed, daemon, cmds>>

Crash(c) ==
    /\ cmds[c].pc \notin {"idle", "ready"}
    /\ Fault
    /\ Ended(c)
    /\ UNCHANGED <<names, stable, inherited, tooLong, installed, daemon, wide>>

(* Each entry changed since the last barrier is kept or lost. *)
PowerFailure ==
    /\ Fault
    /\ \E kept \in SUBSET {e \in Entries : names[e] # stable[e]} :
           names' = [e \in Entries |-> IF e \in kept THEN names[e] ELSE stable[e]]
    /\ stable' = names'
    /\ daemon' = NoDaemon
    /\ cmds' = [c \in BootCommands |-> IdleCommand]
    /\ UNCHANGED <<inherited, tooLong, installed, wide>>

BootNext ==
    \/ \E c \in BootCommands :
        \/ Begin(c) \/ Sync(c) \/ ProbeFacts(c) \/ ProbeEndpoint(c) \/ EnsureBase(c) \/ Elect(c)
        \/ WaitForTransition(c) \/ Bootstrap(c) \/ Publish(c) \/ PublishBindingSync(c)
        \/ PublishBinding(c) \/ PublishIdentity(c) \/ Withdraw(c) \/ ClearMarker(c)
        \/ ResumeRestart(c) \/ ReconcilePair(c) \/ Reconciled(c) \/ Live(c) \/ Prepare(c)
        \/ CreateConfig(c) \/ LinkConfig(c) \/ ExistingConfig(c) \/ Validate(c) \/ Admit(c)
        \/ StartLive(c) \/ StartAbsent(c) \/ Spawn(c) \/ WaitReady(c) \/ EnsureBinding(c)
        \/ Schedule(c) \/ Widen(c) \/ RecordScheduling(c) \/ Return(c) \/ Crash(c)
    \/ DaemonUp \/ DaemonDies \/ MoveInstallation \/ Narrow \/ PowerFailure

BootSpec == BootInit /\ [][BootNext]_bootVars

-----------------------------------------------------------------------------
(* The states have the shape the code gives them. *)
BootTypeOK ==
    /\ {names.config, stable.config} \subseteq {"none", "plain", "compact"}
    /\ {names.marker.kind, stable.marker.kind} \subseteq {"none", "boot", "restart"}
    /\ installed \subseteq Pairs /\ installed # {}
    /\ Cardinality(Holds("boot")) <= 1 /\ Cardinality(Holds("transition")) <= 1
    /\ Holds("boot") # {} => Holds("lease") = {}

(* Whatever a crash or a power failure leaves, the binding and the identity
   name one generation, unless the intention that explains the difference is
   there to be replayed: publishPrivateDaemonIdentity and its replay. *)
PublicationIsRecoverable ==
    \A r \in {names, stable} :
        r.binding # r.identity => r.pending # None \/ inherited

(* A root whose bootstrap was interrupted can always take it up again: a
   configuration without a generation has its marker (or the admission would
   take it for an unknown predecessor), and so has a daemon without identity. *)
BootstrapIsResumable ==
    /\ \A r \in {names, stable} :
           r.config # "none" /\ r.identity = None => r.pending # None \/ r.marker.kind = "boot"
    /\ daemon # NoDaemon /\ names.identity = None =>
           names.pending # None \/ names.marker.kind = "boot"

(* The configuration a generation or a running daemon was started with is the
   one in place: it is repaired only before any daemon used it. *)
ConfigurationStands ==
    /\ \A r \in {names, stable} : r.binding # None => r.config = r.binding.config
    /\ daemon # NoDaemon => daemon.config = names.config

(* A command that reports the supervisor ready has a complete generation with
   scheduling evidence of exactly that generation, as long as it holds its
   lease or lock: PreparePrivateAdmissionSupervisorContext. *)
AdmissionIsTrue ==
    \A c \in BootCommands : cmds[c].pc = "ready" =>
        /\ Complete
        /\ names.evidence = names.binding
        /\ Valid(names.config)

BootstrapIsSafe ==
    PublicationIsRecoverable /\ BootstrapIsResumable /\ ConfigurationStands /\ AdmissionIsTrue
=============================================================================

--------------------------- MODULE InspectionGroup ---------------------------
(***************************************************************************)
(* The inspection group of a state root: the queue group in which helper   *)
(* work is inspected, recorded once per supervisor generation.  When the   *)
(* supervisor changes, the group journal is extended by an edge from the   *)
(* old generation to the new one: prepared, then the private supervisor    *)
(* migrates, then the edge is completed.  Commands of several generations  *)
(* run side by side (those of the private supervisor under the bootstrap   *)
(* lock, those of an external one without), and any of them may stop.      *)
(*                                                                         *)
(* The private migration itself is PrivateMigration; here it is one step   *)
(* that moves the chain of published generations, or leaves it pending.    *)
(***************************************************************************)
EXTENDS Naturals, Sequences, FiniteSets, SequencesExt

CONSTANTS ExternalGens, PrivateGens,  \* supervisor bindings of the two kinds
          NoBinding,
          GroupCommands,              \* commands that may run at the same time
          MaxHandovers,               \* bound: private generations published
          MaxGroupFaults              \* bound: commands that stop or fail half way

VARIABLES groupRoot,   \* binding of the root journal's request.json, or NoBinding
          dirs,        \* binding -> its generation's records
          chain,       \* the private supervisor's published generations, oldest first
          halfway,     \* target of a private migration that was left unfinished
          queues,      \* bindings whose daemon has the group
          sent,        \* history: creations sent, by binding
          commands,    \* command -> its progress
          bootLock,    \* the command that holds the bootstrap lock, if any
          groupFaults

groupVars == <<groupRoot, dirs, chain, halfway, queues, sent, commands, bootLock, groupFaults>>

Bindings == ExternalGens \union PrivateGens
Idle == [pc |-> "idle", mode |-> "none", binding |-> NoBinding, head |-> NoBinding]
EmptyDir == [request |-> FALSE, creation |-> FALSE, observed |-> FALSE,
             prepared |-> {}, done |-> NoBinding]

GroupInit ==
    /\ groupRoot = NoBinding
    /\ dirs = [b \in Bindings |-> EmptyDir]
    /\ chain = <<>>
    /\ halfway = NoBinding
    /\ queues = {}
    /\ sent = [b \in Bindings |-> 0]
    /\ commands = [c \in GroupCommands |-> Idle]
    /\ bootLock = {}
    /\ groupFaults = 0

-----------------------------------------------------------------------------
(* What the journal says. *)

MaxHops == Cardinality(Bindings)
(* followGroupMigrationChain: the completed edges, from the root. *)
Followed ==
    LET at[n \in 0 .. MaxHops] == IF n = 0 THEN groupRoot
                         ELSE IF at[n - 1] # NoBinding /\ dirs[at[n - 1]].done # NoBinding
                              THEN dirs[at[n - 1]].done ELSE at[n - 1]
    IN at
(* A chain that comes back to an earlier generation has no head: every reader refuses it. *)
Cyclic == groupRoot # NoBinding /\ dirs[Followed[MaxHops]].done # NoBinding
GroupHead == Followed[MaxHops]
(* groupGenerationPublished: the generations the root's edges lead through. *)
Published == {Followed[n] : n \in 0 .. MaxHops} \ {NoBinding}

(* ResolvePrivateSupervisorSuccessor of a saved binding. *)
Initialized == chain # <<>>
Active == IF Initialized THEN Last(chain) ELSE NoBinding
Connects(b) == \E i \in 1 .. Len(chain) : chain[i] = b

(* Mutant: with no migration pending, the edge is taken for complete. *)
EdgeAssumed(a, b) == halfway = NoBinding
(* PrivateMigrationPredecessorWithLock: the private edge is complete. *)
EdgeComplete(a, b) == halfway = NoBinding /\ Connects(a) /\ Active = b

-----------------------------------------------------------------------------
(* Commands. *)

Go(c, pc) == commands' = [commands EXCEPT ![c].pc = pc]
Me(c) == commands[c].binding
IsPrivate(b) == b \in PrivateGens
Ended(c) ==
    /\ commands' = [commands EXCEPT ![c] = Idle]
    /\ bootLock' = bootLock \ {c}

Begin(c, b, mode) ==
    /\ commands[c] = Idle
    /\ ~Cyclic
    /\ mode = "migrate" => Len(chain) < MaxHandovers
    /\ mode = "historical" => groupRoot # NoBinding
    /\ commands' = [commands EXCEPT ![c] = [pc |-> IF IsPrivate(b) THEN "lock" ELSE "reject",
                                            mode |-> mode, binding |-> b, head |-> NoBinding]]
    /\ UNCHANGED <<groupRoot, dirs, chain, halfway, queues, sent, bootLock, groupFaults>>

(* probeEstablishedInspectionGroup: under the shared lease, which the
   bootstrap lock excludes, everything is already in place. *)
Probe(c) ==
    /\ commands[c].pc = "lock"
    /\ commands[c].mode = "ensure"
    /\ bootLock = {}
    /\ halfway = NoBinding /\ Active = Me(c)
    /\ GroupHead = Me(c) /\ Me(c) \in queues /\ dirs[Me(c)].observed
    /\ Go(c, "ready")
    /\ UNCHANGED <<groupRoot, dirs, chain, halfway, queues, sent, bootLock, groupFaults>>

Lock(c) ==
    /\ commands[c].pc = "lock"
    /\ bootLock = {}
    /\ bootLock' = {c}
    /\ Go(c, IF commands[c].mode = "historical" THEN "historical" ELSE "recover")
    /\ UNCHANGED <<groupRoot, dirs, chain, halfway, queues, sent, groupFaults>>

(* RejectExternalInspectionMigration: nothing is migrated to an external supervisor. *)
Reject(c) ==
    /\ commands[c].pc = "reject"
    /\ IF commands[c].mode = "historical" THEN Go(c, "historical") /\ UNCHANGED bootLock
       ELSE IF ~Cyclic /\ GroupHead \in {NoBinding, Me(c)} THEN Go(c, "open") /\ UNCHANGED bootLock
       ELSE Ended(c)
    /\ UNCHANGED <<groupRoot, dirs, chain, halfway, queues, sent, groupFaults>>

(* CompleteGroupMigration: only the exact edge that was prepared, and only once. *)
MayComplete(a, b) ==
    /\ dirs[a].done \in {NoBinding, b}
    /\ dirs[a].done = NoBinding => b \in dirs[a].prepared

(* RecoverInspectionGroupGenerationWithLock: a private migration that got
   further than its group edge completes the edge, if that one was prepared. *)
Recover(c) ==
    LET head == GroupHead
        b == Me(c)
        authority == IF Connects(b) \/ (head # NoBinding /\ Connects(head)) THEN Active ELSE NoBinding
    IN /\ commands[c].pc = "recover"
       /\ \/ /\ commands[c].mode = "migrate" /\ halfway = b    \* the migration is resumed first
             /\ chain' = Append(chain, b)
             /\ halfway' = NoBinding
             /\ UNCHANGED <<dirs, commands, bootLock>>
          \/ /\ halfway # NoBinding
             /\ commands[c].mode = "ensure" \/ halfway # b
             /\ Ended(c)
             /\ UNCHANGED <<dirs, chain, halfway>>
          \/ /\ halfway = NoBinding
             /\ UNCHANGED <<chain, halfway>>
             /\ IF \/ commands[c].mode = "ensure" /\ authority \notin {NoBinding, b}
                   \/ head # NoBinding /\ ~IsPrivate(head) /\ commands[c].mode = "ensure"
                   \/ head # NoBinding /\ IsPrivate(head) /\ authority \notin {NoBinding, head} /\ ~Connects(head)
                   \/ Cyclic
                THEN Ended(c) /\ UNCHANGED dirs
                ELSE IF head = NoBinding \/ ~IsPrivate(head) \/ authority \in {NoBinding, head}
                     THEN Go(c, "open") /\ UNCHANGED <<dirs, bootLock>>
                     ELSE IF EdgeComplete(head, authority) /\ MayComplete(head, authority)
                          THEN /\ dirs' = [dirs EXCEPT ![head].done = authority]
                               /\ Go(c, "open") /\ UNCHANGED bootLock
                          ELSE Ended(c) /\ UNCHANGED dirs
       /\ UNCHANGED <<groupRoot, queues, sent, groupFaults>>

(* OpenGroupWithMigration: the first request of a root wins; the head opens
   its own journal; another generation needs a migration. *)
Open(c) ==
    LET head == GroupHead
        b == Me(c)
    IN /\ commands[c].pc = "open"
       /\ IF Cyclic
          THEN Ended(c) /\ UNCHANGED <<groupRoot, dirs, chain>>
          ELSE IF head = NoBinding /\ commands[c].mode = "migrate"
          THEN /\ chain' = IF Active = b THEN chain ELSE Append(chain, b)
               /\ Ended(c)
               /\ UNCHANGED <<groupRoot, dirs>>
          ELSE IF head = NoBinding
          THEN Go(c, "found") /\ UNCHANGED <<groupRoot, dirs, chain, bootLock>>
          ELSE IF head = b
          THEN Go(c, "generation") /\ UNCHANGED <<groupRoot, dirs, chain, bootLock>>
          ELSE IF commands[c].mode = "migrate"
          THEN /\ commands' = [commands EXCEPT ![c].pc = IF IsPrivate(head) THEN "prepare" ELSE "handoff",
                                               ![c].head = head]
               /\ UNCHANGED <<groupRoot, dirs, chain, bootLock>>
          ELSE Ended(c) /\ UNCHANGED <<groupRoot, dirs, chain>>
       /\ UNCHANGED <<halfway, queues, sent, groupFaults>>

(* establishGroupRequest of the root journal: put once; who finds another
   binding's request gives up. *)
Found(c) ==
    /\ commands[c].pc = "found"
    /\ IF groupRoot \in {NoBinding, Me(c)}
       THEN /\ groupRoot' = Me(c)
            /\ dirs' = [dirs EXCEPT ![Me(c)].request = TRUE]
            /\ Go(c, "snapshot") /\ UNCHANGED bootLock
       ELSE Ended(c) /\ UNCHANGED <<groupRoot, dirs>>
    /\ UNCHANGED <<chain, halfway, queues, sent, groupFaults>>

(* OpenGroupHistorical: a generation the completed edges lead through. *)
Historical(c) ==
    /\ commands[c].pc = "historical"
    /\ IF Me(c) \in Published THEN Go(c, "generation") /\ UNCHANGED bootLock ELSE Ended(c)
    /\ UNCHANGED <<groupRoot, dirs, chain, halfway, queues, sent, groupFaults>>

(* HandoffExternalInspectionGroup: the private successor must be the one that runs. *)
Handoff(c) ==
    /\ commands[c].pc = "handoff"
    /\ IF Active \in {NoBinding, Me(c)} /\ halfway = NoBinding
       THEN chain' = IF Initialized THEN chain ELSE <<Me(c)>>
       ELSE UNCHANGED chain
    /\ IF Active \in {NoBinding, Me(c)} /\ halfway = NoBinding
       THEN Go(c, "prepareHandoff") /\ UNCHANGED bootLock
       ELSE Ended(c)
    /\ UNCHANGED <<groupRoot, dirs, halfway, queues, sent, groupFaults>>

(* PrepareGroupMigration: the first proposal is the primary record, others
   stand beside it; none is overwritten. *)
Prepare(c) ==
    LET a == commands[c].head
    IN /\ commands[c].pc \in {"prepare", "prepareHandoff"}
       /\ dirs' = [dirs EXCEPT ![a].request = TRUE, ![a].prepared = @ \union {Me(c)}]
       /\ Go(c, IF commands[c].pc = "prepare" THEN "private" ELSE "complete")
       /\ UNCHANGED <<groupRoot, chain, halfway, queues, sent, bootLock, groupFaults>>

(* ensureInspectionPrivateMigration: the predecessor is published if it never
   was, and the supervisor migrates; it may be left half way. *)
MigratePrivate(c) ==
    LET a == commands[c].head
        b == Me(c)
        base == IF Connects(a) THEN chain ELSE Append(chain, a)
    IN /\ commands[c].pc = "private"
       /\ \/ /\ EdgeComplete(a, b)
             /\ Go(c, "complete")
             /\ UNCHANGED <<chain, halfway, bootLock, groupFaults>>
          \/ /\ ~EdgeComplete(a, b)
             /\ Active \in {NoBinding, a}
             /\ halfway \in {NoBinding, b}
             /\ chain' = Append(base, b)
             /\ halfway' = NoBinding
             /\ Go(c, "complete")
             /\ UNCHANGED <<bootLock, groupFaults>>
          \/ /\ ~EdgeComplete(a, b)
             /\ groupFaults < MaxGroupFaults
             /\ groupFaults' = groupFaults + 1
             /\ halfway' \in {halfway, b}
             /\ chain' = base
             /\ Ended(c)
          \/ /\ ~EdgeComplete(a, b)
             /\ Active \notin {NoBinding, a} \/ halfway \notin {NoBinding, b}
             /\ Ended(c)
             /\ UNCHANGED <<chain, halfway, groupFaults>>
       /\ UNCHANGED <<groupRoot, dirs, queues, sent>>

Complete(c) ==
    LET a == commands[c].head
    IN /\ commands[c].pc = "complete"
       /\ IF MayComplete(a, Me(c))
          THEN /\ dirs' = [dirs EXCEPT ![a].done = Me(c)]
               /\ Go(c, "generation") /\ UNCHANGED bootLock
          ELSE Ended(c) /\ UNCHANGED dirs
       /\ UNCHANGED <<groupRoot, chain, halfway, queues, sent, groupFaults>>

(* openGroupGeneration establishes the generation's own request. *)
Generation(c) ==
    /\ commands[c].pc = "generation"
    /\ dirs' = [dirs EXCEPT ![Me(c)].request = TRUE]
    /\ Go(c, "snapshot")
    /\ UNCHANGED <<groupRoot, chain, halfway, queues, sent, bootLock, groupFaults>>

(* ensureInspectionGroupReady: a group that exists is observed; one that does
   not is created by whoever claims its creation, once. *)
Snapshot(c) ==
    /\ commands[c].pc = "snapshot"
    /\ IF Me(c) \in queues
       THEN Go(c, "ready") /\ dirs' = [dirs EXCEPT ![Me(c)].observed = TRUE]
       ELSE Go(c, "claim") /\ UNCHANGED dirs
    /\ UNCHANGED <<groupRoot, chain, halfway, queues, sent, bootLock, groupFaults>>

(* Mutant: a creation that nobody observed is claimed again. *)
MayClaimUnobserved(b) == ~dirs[b].observed
(* ClaimCreate: the creation record is put once. *)
MayClaim(b) == ~dirs[b].creation

ClaimCreate(c) ==
    /\ commands[c].pc = "claim"
    /\ IF MayClaim(Me(c))
       THEN dirs' = [dirs EXCEPT ![Me(c)].creation = TRUE] /\ Go(c, "create") /\ UNCHANGED bootLock
       ELSE Ended(c) /\ UNCHANGED dirs
    /\ UNCHANGED <<groupRoot, chain, halfway, queues, sent, groupFaults>>

(* The answer of the daemon may be lost; the group is looked for in any case. *)
CreateGroup(c) ==
    /\ commands[c].pc = "create"
    /\ sent' = [sent EXCEPT ![Me(c)] = @ + 1]
    /\ queues' \in {queues, queues \union {Me(c)}}
    /\ Go(c, "observe")
    /\ UNCHANGED <<groupRoot, dirs, chain, halfway, bootLock, groupFaults>>

ObserveGroup(c) ==
    /\ commands[c].pc = "observe"
    /\ IF Me(c) \in queues
       THEN Go(c, "ready") /\ dirs' = [dirs EXCEPT ![Me(c)].observed = TRUE] /\ UNCHANGED bootLock
       ELSE Ended(c) /\ UNCHANGED dirs
    /\ UNCHANGED <<groupRoot, chain, halfway, queues, sent, groupFaults>>

Return(c) ==
    /\ commands[c].pc = "ready"
    /\ Ended(c)
    /\ UNCHANGED <<groupRoot, dirs, chain, halfway, queues, sent, groupFaults>>

Stop(c) ==
    /\ commands[c].pc \notin {"idle", "ready"}
    /\ groupFaults < MaxGroupFaults
    /\ groupFaults' = groupFaults + 1
    /\ Ended(c)
    /\ UNCHANGED <<groupRoot, dirs, chain, halfway, queues, sent>>

GroupNext ==
    \E c \in GroupCommands :
        \/ \E b \in Bindings, mode \in {"ensure", "migrate", "historical"} :
               (mode = "migrate" => IsPrivate(b)) /\ Begin(c, b, mode)
        \/ Probe(c) \/ Lock(c) \/ Reject(c) \/ Recover(c) \/ Open(c) \/ Found(c) \/ Historical(c)
        \/ Handoff(c) \/ Prepare(c) \/ MigratePrivate(c) \/ Complete(c) \/ Generation(c)
        \/ Snapshot(c) \/ ClaimCreate(c) \/ CreateGroup(c) \/ ObserveGroup(c) \/ Return(c) \/ Stop(c)

GroupSpec == GroupInit /\ [][GroupNext]_groupVars

-----------------------------------------------------------------------------
(* The states have the shape the code gives them. *)
GroupTypeOK ==
    /\ groupRoot \in Bindings \union {NoBinding}
    /\ \A b \in Bindings : dirs[b].prepared \subseteq Bindings /\ dirs[b].done \in Bindings \union {NoBinding}
    /\ \A i \in 1 .. Len(chain) : chain[i] \in PrivateGens
    /\ queues \subseteq Bindings
    /\ bootLock \subseteq GroupCommands

(* The group of a generation is created by at most one command ever sent,
   however many commands find it missing and whoever of them stops. *)
CreatedOnce == \A b \in Bindings : sent[b] <= 1

(* A completed edge of the group journal is backed by the private supervisor:
   its target has been published, after its source where that is private. *)
EdgeIsBacked ==
    \A a \in Bindings : dirs[a].done # NoBinding =>
        \E i \in 1 .. Len(chain) :
            /\ chain[i] = dirs[a].done
            /\ IsPrivate(a) => \E j \in 1 .. i - 1 : chain[j] = a

(* A command that reports the group ready has it: the queue of its own
   generation holds the group, it was observed, and the generation is one
   the journal leads to (its head, unless it asked for a historical one or
   another command has moved the head since). *)
ReadyIsTrue ==
    \A c \in GroupCommands : commands[c].pc = "ready" =>
        /\ Me(c) \in queues
        /\ dirs[Me(c)].observed
        /\ Me(c) \in Published
        /\ (bootLock = {c} /\ commands[c].mode # "historical") => Cyclic \/ GroupHead = Me(c)

GroupIsTrue == CreatedOnce /\ EdgeIsBacked /\ ReadyIsTrue
=============================================================================

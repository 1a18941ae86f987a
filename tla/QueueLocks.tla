----------------------------- MODULE QueueLocks -----------------------------
(***************************************************************************)
(* The queue identity lock of the private supervisor.  Readers share it,   *)
(* a writer has it alone, and flock knows no order among those who wait.   *)
(* A writer therefore announces itself in the writer intent file, whose    *)
(* lock it holds, before it asks for the gate and then for the identity    *)
(* lock; a reader first waits until no intent is active, passes the gate   *)
(* and looks again.  The intent of a writer that died is recognised by its *)
(* free lock.  A running command inherits its caller's descriptors.        *)
(***************************************************************************)
EXTENDS Naturals, FiniteSets

CONSTANTS Clients,      \* processes that use the queue
          MaxWrites,    \* bound: mutations of the queue
          MaxLockFaults \* bound: crashes of clients

VARIABLES
    intentFile,  \* contents of the writer intent file: "idle" or "waiting"
    intent,      \* holder of the intent file's lock, or NoClient
    gate,        \* [Clients -> mode held on the gate]
    identity,    \* [Clients -> mode held on the identity lock]
    lockPc,      \* [Clients -> step of withPrivateQueueIdentityLease or Mutation]
    writes, lockFaults

lockVars == <<intentFile, intent, gate, identity, lockPc, writes, lockFaults>>

NoClient == 0
ReaderSteps == {"look", "clear", "gate", "recheck", "recheckClear", "share", "reading"}
WriterSteps == {"intent", "announce", "shut", "exclude", "writing", "withdraw", "close"}

LockTypeOK ==
    /\ intentFile \in {"idle", "waiting"}
    /\ intent \in Clients \cup {NoClient}
    /\ gate \in [Clients -> {"free", "SH", "EX"}]
    /\ identity \in [Clients -> {"free", "SH", "EX"}]
    /\ lockPc \in [Clients -> {"idle", "orphan"} \cup ReaderSteps \cup WriterSteps]
    /\ writes \in 0..MaxWrites /\ lockFaults \in 0..MaxLockFaults

LockInit ==
    /\ intentFile = "idle" /\ intent = NoClient
    /\ gate = [c \in Clients |-> "free"] /\ identity = [c \in Clients |-> "free"]
    /\ lockPc = [c \in Clients |-> "idle"]
    /\ writes = 0 /\ lockFaults = 0

\* flock: a shared request waits for an exclusive holder, an exclusive one for any.
Compatible(lock, c, mode) ==
    \A d \in Clients \ {c} : lock[d] = "free" \/ (mode = "SH" /\ lock[d] = "SH")

Step(c, from, to) == lockPc[c] = from /\ lockPc' = [lockPc EXCEPT ![c] = to]

\* A client starts to read or to write.
Begin(c) ==
    /\ \/ Step(c, "idle", "look") /\ UNCHANGED writes
       \/ Step(c, "idle", "intent") /\ writes < MaxWrites /\ writes' = writes + 1
    /\ UNCHANGED <<intentFile, intent, gate, identity, lockFaults>>

-----------------------------------------------------------------------------
(* withPrivateQueueIdentityLease *)

\* Mutant: a reader that does not look at the intent before the gate.
WaitForQueueWriterNot(c) ==
    /\ Step(c, "look", "gate") \/ Step(c, "recheck", "share")
    /\ UNCHANGED <<intentFile, intent, gate, identity, writes, lockFaults>>

\* waitForPrivateQueueWriter, and the look behind the gate: an idle file lets the
\* reader on.  For a waiting one it tries the intent's lock: busy means an active
\* writer, and the reader polls, or leaves the gate and starts over; free means that
\* the writer is gone, and the reader has the lock now to clear the file.
WaitForQueueWriter(c) ==
    /\ \/ /\ intentFile = "idle"
          /\ Step(c, "look", "gate") \/ Step(c, "recheck", "share")
          /\ UNCHANGED <<intent, gate>>
       \/ /\ intentFile = "waiting" /\ intent = NoClient
          /\ Step(c, "look", "clear") \/ Step(c, "recheck", "recheckClear")
          /\ intent' = c
          /\ UNCHANGED gate
       \/ /\ intentFile = "waiting" /\ intent # NoClient
          /\ Step(c, "recheck", "look")
          /\ gate' = [gate EXCEPT ![c] = "free"]
          /\ UNCHANGED intent
    /\ UNCHANGED <<intentFile, identity, writes, lockFaults>>

\* The reader that holds a dead writer's intent writes the idle state and goes on.
ClearStaleIntent(c) ==
    /\ Step(c, "clear", "gate") \/ Step(c, "recheckClear", "share")
    /\ intentFile' = "idle"
    /\ intent' = NoClient
    /\ UNCHANGED <<gate, identity, writes, lockFaults>>

PassGate(c) ==
    /\ Step(c, "gate", "recheck")
    /\ Compatible(gate, c, "SH")
    /\ gate' = [gate EXCEPT ![c] = "SH"]
    /\ UNCHANGED <<intentFile, intent, identity, writes, lockFaults>>

\* The identity lock is taken inside the gate, and the gate left.
ShareIdentity(c) ==
    /\ Step(c, "share", "reading")
    /\ Compatible(identity, c, "SH")
    /\ identity' = [identity EXCEPT ![c] = "SH"]
    /\ gate' = [gate EXCEPT ![c] = "free"]
    /\ UNCHANGED <<intentFile, intent, writes, lockFaults>>

EndReading(c) ==
    /\ Step(c, "reading", "idle")
    /\ identity' = [identity EXCEPT ![c] = "free"]
    /\ UNCHANGED <<intentFile, intent, gate, writes, lockFaults>>

-----------------------------------------------------------------------------
(* withPrivateQueueIdentityMutation *)

TakeIntent(c) ==
    /\ Step(c, "intent", "announce") /\ intent = NoClient
    /\ intent' = c
    /\ UNCHANGED <<intentFile, gate, identity, writes, lockFaults>>

AnnounceIntent(c) ==
    /\ Step(c, "announce", "shut")
    /\ intentFile' = "waiting"
    /\ UNCHANGED <<intent, gate, identity, writes, lockFaults>>

ShutGate(c) ==
    /\ Step(c, "shut", "exclude") /\ Compatible(gate, c, "EX")
    /\ gate' = [gate EXCEPT ![c] = "EX"]
    /\ UNCHANGED <<intentFile, intent, identity, writes, lockFaults>>

ExcludeIdentity(c) ==
    /\ Step(c, "exclude", "writing") /\ Compatible(identity, c, "EX")
    /\ identity' = [identity EXCEPT ![c] = "EX"]
    /\ UNCHANGED <<intentFile, intent, gate, writes, lockFaults>>

\* The callback returns: identity and gate are closed, then the intent is withdrawn.
\* A command still pending keeps all three until it ends, which is part of "writing".
EndWriting(c) ==
    /\ Step(c, "writing", "withdraw")
    /\ identity' = [identity EXCEPT ![c] = "free"]
    /\ gate' = [gate EXCEPT ![c] = "free"]
    /\ UNCHANGED <<intentFile, intent, writes, lockFaults>>

\* finishPrivateQueueWriterIntent: the idle state is written before the lock is closed.
WithdrawIntent(c) ==
    /\ Step(c, "withdraw", "close")
    /\ intentFile' = "idle"
    /\ UNCHANGED <<intent, gate, identity, writes, lockFaults>>

CloseIntent(c) ==
    /\ Step(c, "close", "idle")
    /\ intent' = NoClient
    /\ UNCHANGED <<intentFile, gate, identity, writes, lockFaults>>

-----------------------------------------------------------------------------
(* Crashes.  Locks go with the process, except those a running command holds. *)

Unlock(c) ==
    /\ intent' = IF intent = c THEN NoClient ELSE intent
    /\ gate' = [gate EXCEPT ![c] = "free"]
    /\ identity' = [identity EXCEPT ![c] = "free"]

LockCrash(c) ==
    /\ lockFaults < MaxLockFaults /\ lockPc[c] \notin {"idle", "orphan"}
    /\ lockFaults' = lockFaults + 1
    /\ \/ Unlock(c) /\ lockPc' = [lockPc EXCEPT ![c] = "idle"]
       \/ /\ lockPc[c] \in {"reading", "writing"}
          /\ lockPc' = [lockPc EXCEPT ![c] = "orphan"]
          /\ UNCHANGED <<intent, gate, identity>>
    /\ UNCHANGED <<intentFile, writes>>

\* The command of a dead caller ends and its control owner closes the descriptors.
OrphanEnds(c) ==
    /\ Step(c, "orphan", "idle")
    /\ Unlock(c)
    /\ UNCHANGED <<intentFile, writes, lockFaults>>

-----------------------------------------------------------------------------
Proceed(c) ==
    \/ WaitForQueueWriter(c) \/ ClearStaleIntent(c) \/ PassGate(c) \/ ShareIdentity(c)
    \/ EndReading(c) \/ TakeIntent(c) \/ AnnounceIntent(c) \/ ShutGate(c)
    \/ ExcludeIdentity(c) \/ EndWriting(c) \/ WithdrawIntent(c) \/ CloseIntent(c)
    \/ OrphanEnds(c)

LockNext == \E c \in Clients : Begin(c) \/ Proceed(c) \/ LockCrash(c)

LockSpec == LockInit /\ [][LockNext]_lockVars

\* Every client that can go on does, callbacks and commands end; nobody is obliged to
\* start, and flock favours no one.
LockFairness == \A c \in Clients : WF_lockVars(Proceed(c))

-----------------------------------------------------------------------------
(* Properties. *)

WriterWaits(c) == lockPc[c] = "shut"
WriterServed(c) == lockPc[c] \in {"writing", "idle"}
ReaderWaits(c) == lockPc[c] = "look"
ReaderServed(c) == lockPc[c] \in {"reading", "idle"}

\* Nobody is shut out.  However many readers come and go, a writer that has announced
\* itself gets the identity lock: readers must not overtake it for ever.  And when the
\* writers are done a reader gets it, whatever a writer left in the intent file when it
\* died, and whichever of two readers finds it there.
IdentityIsGranted == \A c \in Clients :
    (WriterWaits(c) ~> WriterServed(c)) /\ (ReaderWaits(c) ~> ReaderServed(c))

\* A reader never uses the queue beside a writer, and a writer at work is announced: no
\* reader has taken it for a dead one and cleared its intent.
WriterExcludes == \A c \in Clients : lockPc[c] = "writing" =>
    /\ \A d \in Clients \ {c} : lockPc[d] \notin {"reading", "writing"} /\ identity[d] = "free"
    /\ intentFile = "waiting"
=============================================================================

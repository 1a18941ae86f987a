------------------------------ MODULE Custody ------------------------------
(***************************************************************************)
(* Disposal of the executables that earlier releases kept in custody.  A   *)
(* pool holds images; a lifetime owns a witness directory with views, hard *)
(* links to images.  Once its closure is proven, the views of a lifetime,  *)
(* then its witness, are removed: by its guardian, by the elected          *)
(* maintenance pass or by a status command, at the same time.  Images      *)
(* without a view are reclaimed under the pool's gate.  The pool's root    *)
(* may be missing or replaced at any moment; a guardian of an ordinary     *)
(* task only leaves a durable wake for the pass.                           *)
(***************************************************************************)
EXTENDS Naturals, FiniteSets

CONSTANTS OwnerIds,       \* lifetimes with a recorded placement in this pool
          Inspected,      \* the lifetimes of inspections; the others are tasks
          Images,         \* images of the pool
          Disposers,      \* processes that release, check or reclaim
          NoOwner, NoDisposer,
          MaxCustodyFaults

VARIABLES
    closed,        \* lifetimes whose closure is proven by their records
    views,         \* [OwnerIds -> images it has a view of]
    witness,       \* owners whose witness directory exists
    linked,        \* [OwnerIds -> the views made in an open lifetime] (history)
    images,        \* images/<digest> that exist
    root,          \* what is at the recorded pool root
    gate,          \* holder of the exclusive gate
    work,          \* [Disposers -> the operation in progress]
    guardians,     \* [OwnerIds -> the guardian of the lifetime]
    fullWake,      \* a full wake is owed: it was requested, and no pass begun since completed
    pass,          \* the elected pass: owners it still visits, and whether it failed
    queued,        \* inspections whose queue row exists
    custodyFaults

custodyVars == <<closed, views, witness, linked, images, root, gate, work, guardians, fullWake,
                 pass, queued, custodyFaults>>
poolVars == <<views, witness, linked, images, root, gate>>
lifeVars == <<closed, guardians, fullWake, pass, queued>>

NoWork == [pc |-> "idle", op |-> "none", owner |-> NoOwner, by |-> "none", todo |-> {}]
NoPass == [active |-> FALSE, todo |-> {}, failed |-> FALSE]

CustodyInit ==
    /\ closed = {} /\ guardians = [o \in OwnerIds |-> "running"]
    /\ views = [o \in OwnerIds |-> {}] /\ witness = {} /\ linked = views
    /\ images = Images /\ root = "ours" /\ gate = NoDisposer
    /\ work = [d \in Disposers |-> NoWork]
    /\ fullWake = FALSE /\ pass = NoPass
    /\ queued = Inspected
    /\ custodyFaults = 0

Doing(d, pc) == work[d].pc = pc
Owner(d) == work[d].owner
Go(d, pc) == work' = [work EXCEPT ![d].pc = pc]

-----------------------------------------------------------------------------
(* The lifetimes, and the earlier release that still runs in them. *)

\* A publisher links a view under the shared gate while its lifetime is open.
LinkView(o, i) ==
    /\ o \notin closed /\ guardians[o] = "running"
    /\ root = "ours" /\ gate = NoDisposer /\ i \in images \ views[o]
    /\ views' = [views EXCEPT ![o] = @ \cup {i}]
    /\ linked' = [linked EXCEPT ![o] = @ \cup {i}]
    /\ witness' = witness \cup {o}
    /\ UNCHANGED <<images, root, gate, lifeVars, work, custodyFaults>>

CloseLifetime(o) ==
    /\ o \notin closed
    /\ closed' = closed \cup {o}
    /\ linked' = [linked EXCEPT ![o] = {}]
    /\ UNCHANGED <<views, witness, images, root, gate, work, guardians, fullWake, pass, queued, custodyFaults>>

\* The pool is moved away, or another one put in its place.
LoseRoot ==
    /\ root = "ours" /\ custodyFaults < MaxCustodyFaults
    /\ root' \in {"absent", "other"}
    /\ custodyFaults' = custodyFaults + 1
    /\ UNCHANGED <<views, witness, linked, images, gate, lifeVars, work>>

\* It comes back only after the operations that missed it have ended.
RestoreRoot ==
    /\ root # "ours" /\ \A d \in Disposers : Doing(d, "idle")
    /\ root' = "ours"
    /\ UNCHANGED <<views, witness, linked, images, gate, lifeVars, work, custodyFaults>>

-----------------------------------------------------------------------------
(* Release and pending check. *)

\* Mutant: the registration alone authorizes the release.
ClosedCustodyAnyway(o) == TRUE

\* closedLifetimeCustody: nothing is released before the closure is proven.
ClosedCustody(o) == o \in closed

\* A release, or the check whether one is pending, on behalf of `by`.
StartOperation(d, o, op, by) ==
    work' = [work EXCEPT ![d] = [NoWork EXCEPT !.pc = "prove", !.op = op, !.owner = o, !.by = by]]

\* The pool guards every operation by the identity recorded at its root.
Identity == root = "ours"

\* The witness is looked for below the root that is there now.
ObserveWitness(o) == Identity /\ o \in witness

\* requireIdentity, before anything is looked at.
ProveIdentity(d) ==
    /\ Doing(d, "prove")
    /\ Go(d, IF Identity THEN "observe" ELSE "fault")
    /\ UNCHANGED <<poolVars, lifeVars, custodyFaults>>

\* Mutant: an absent witness is a closed owner.
AbsentIsReleased == "released"

\* Absence is an answer only from a root that still proves its identity.
Absent == "reprove"

\* A present witness is listed for a release; it is the answer of a check.
Observe(d) ==
    /\ Doing(d, "observe")
    /\ LET o == Owner(d) IN
       IF ~ObserveWitness(o) THEN Go(d, Absent)
       ELSE IF work[d].op = "pending" THEN Go(d, "pending")
       ELSE work' = [work EXCEPT ![d].pc = "views", ![d].todo = views[o]]
    /\ UNCHANGED <<poolVars, lifeVars, custodyFaults>>

Reprove(d) ==
    /\ Doing(d, "reprove")
    /\ Go(d, IF Identity THEN "released" ELSE "fault")
    /\ UNCHANGED <<poolVars, lifeVars, custodyFaults>>

\* One view after another; one that somebody else removed is no fault.
RemoveView(d) ==
    /\ Doing(d, "views") /\ work[d].todo # {}
    /\ \E i \in work[d].todo :
         /\ work' = [work EXCEPT ![d].todo = @ \ {i}]
         /\ views' = IF Identity THEN [views EXCEPT ![Owner(d)] = @ \ {i}] ELSE views
    /\ UNCHANGED <<witness, linked, images, root, gate, lifeVars, custodyFaults>>

\* The witness goes last.  Somebody else may have removed it.
RemoveWitness(d) ==
    /\ Doing(d, "views") /\ work[d].todo = {}
    /\ LET o == Owner(d) IN
       IF ~ObserveWitness(o) THEN Go(d, Absent) /\ UNCHANGED witness
       ELSE IF views[o] # {} THEN Go(d, "fault") /\ UNCHANGED witness
       ELSE Go(d, "released") /\ witness' = witness \ {o}
    /\ UNCHANGED <<views, linked, images, root, gate, lifeVars, custodyFaults>>

\* A view cannot be removed, or the deadline passes.
ReleaseFails(d) ==
    /\ work[d].pc \in {"views", "observe"} /\ custodyFaults < MaxCustodyFaults
    /\ custodyFaults' = custodyFaults + 1
    /\ Go(d, "fault")
    /\ UNCHANGED <<poolVars, lifeVars>>

\* The process dies, the workers of a pass all together; the gate is closed with it.
Die(d) ==
    /\ ~Doing(d, "idle") /\ custodyFaults < MaxCustodyFaults
    /\ custodyFaults' = custodyFaults + 1
    /\ LET dead == IF work[d].by = "pass" THEN {e \in Disposers : work[e].by = "pass"} ELSE {d} IN
       /\ work' = [e \in Disposers |-> IF e \in dead THEN NoWork ELSE work[e]]
       /\ gate' = IF gate \in dead THEN NoDisposer ELSE gate
    /\ guardians' = [o \in OwnerIds |->
         IF work[d].by = "guardian" /\ Owner(d) = o THEN "gone" ELSE guardians[o]]
    /\ pass' = IF work[d].by = "pass" THEN NoPass ELSE pass
    /\ fullWake' = (fullWake \/ work[d].by = "pass")
    /\ UNCHANGED <<views, witness, linked, images, root, closed, queued>>

-----------------------------------------------------------------------------
(* Who asks, and what follows from the answer. *)

\* The guardian's run is over: an ordinary task's guardian only checks and hands over, that
\* of an inspection releases.  Without a proven closure there is nothing to do.
GuardianEnds(d, o) ==
    /\ guardians[o] = "running" /\ Doing(d, "idle")
    /\ IF ClosedCustody(o)
       THEN /\ StartOperation(d, o, IF o \in Inspected THEN "release" ELSE "pending", "guardian")
            /\ guardians' = [guardians EXCEPT ![o] = "asking"]
       ELSE /\ guardians' = [guardians EXCEPT ![o] = "gone"]
            /\ UNCHANGED work
    /\ UNCHANGED <<poolVars, closed, fullWake, pass, queued, custodyFaults>>

\* A full pass serves the requests made before it begins and visits the whole inventory.
BeginPass ==
    /\ fullWake /\ ~pass.active
    /\ fullWake' = FALSE
    /\ pass' = [active |-> TRUE, todo |-> OwnerIds, failed |-> FALSE]
    /\ UNCHANGED <<poolVars, closed, guardians, queued, work, custodyFaults>>

PassVisits(d, o) ==
    /\ pass.active /\ o \in pass.todo /\ Doing(d, "idle")
    /\ pass' = [pass EXCEPT !.todo = @ \ {o}]
    /\ IF ClosedCustody(o) THEN StartOperation(d, o, "release", "pass") ELSE UNCHANGED work
    /\ UNCHANGED <<poolVars, closed, guardians, fullWake, queued, custodyFaults>>

\* Before the row of an ended inspection is removed, its custody must be released.
AuthorizeRemoval(d, o) ==
    /\ o \in queued /\ o \in closed /\ Doing(d, "idle")
    /\ StartOperation(d, o, "pending", "removal")
    /\ UNCHANGED <<poolVars, lifeVars, custodyFaults>>

\* A status command that finds custody of a closed task asks for a pass.
ObserveTask(d, o) ==
    /\ guardians[o] \in {"over", "gone"} /\ ClosedCustody(o) /\ Doing(d, "idle")
    /\ o \in witness /\ ~fullWake /\ ~pass.active
    /\ StartOperation(d, o, "pending", "status")
    /\ UNCHANGED <<poolVars, lifeVars, custodyFaults>>

\* Mutant: the guardian hands over only what it found pending.
HandsOverFound(w) == w.by = "guardian" /\ w.pc = "pending"

\* A guardian asks for a pass when custody remains, and when it could not tell.
HandsOver(w) == w.by = "guardian" /\ w.pc \in {"pending", "fault"}

\* What follows from the answer; a release is followed by the reclaim of idle images.
Conclude(d) ==
    /\ work[d].pc \in {"released", "pending", "fault"}
    /\ LET w == work[d] IN
       /\ fullWake' = \/ fullWake \/ HandsOver(w)
                      \/ w.by = "status" /\ w.pc = "pending"
       /\ pass' = [pass EXCEPT !.failed = @ \/ (w.by = "pass" /\ w.pc = "fault")]
       /\ guardians' = IF w.by = "guardian" THEN [guardians EXCEPT ![w.owner] = "over"]
                       ELSE guardians
       /\ queued' = IF w.by = "removal" /\ w.pc = "released" THEN queued \ {w.owner} ELSE queued
       /\ work' = [work EXCEPT ![d] =
            IF w.op # "release" THEN NoWork
            ELSE [NoWork EXCEPT !.pc = "maintain", !.by = IF w.by = "pass" THEN "pass" ELSE "none"]]
    /\ UNCHANGED <<poolVars, closed, custodyFaults>>

\* A fault leaves what the pass was to serve owed.
EndPass ==
    /\ pass.active /\ pass.todo = {} /\ \A d \in Disposers : work[d].by # "pass"
    /\ pass' = NoPass
    /\ fullWake' = (fullWake \/ pass.failed)
    /\ UNCHANGED <<poolVars, closed, guardians, queued, work, custodyFaults>>

-----------------------------------------------------------------------------
(* Reclaim of idle images, after every release. *)

\* Mutant: the pass does not take the gate.
GateTakenNever(d) == UNCHANGED gate

GateTaken(d) == gate' = d

\* The identity is proven, then the gate taken without waiting.
TakeGate(d) ==
    /\ Doing(d, "maintain")
    /\ IF Identity /\ gate = NoDisposer
       THEN GateTaken(d) /\ Go(d, "gated")
       ELSE work' = [work EXCEPT ![d] = NoWork] /\ UNCHANGED gate
    /\ UNCHANGED <<views, witness, linked, images, root, lifeVars, custodyFaults>>

CloseGate(d) ==
    /\ work' = [work EXCEPT ![d] = NoWork]
    /\ gate' = IF gate = d THEN NoDisposer ELSE gate

\* The identity is proven again under the gate; then the images are listed.
ListImages(d) ==
    /\ Doing(d, "gated")
    /\ IF Identity
       THEN work' = [work EXCEPT ![d].pc = "list", ![d].todo = images] /\ UNCHANGED gate
       ELSE CloseGate(d)
    /\ UNCHANGED <<views, witness, linked, images, root, lifeVars, custodyFaults>>

\* A link count of one: no view links the image.
Idle(i) == \A o \in OwnerIds : i \notin views[o]

StatImage(d) ==
    /\ Doing(d, "list") /\ work[d].todo # {}
    /\ \E i \in work[d].todo :
         work' = [work EXCEPT ![d].pc = IF Idle(i) /\ Identity THEN "unlink" ELSE "list",
                              ![d].todo = IF Idle(i) /\ Identity THEN {i} ELSE @ \ {i}]
    /\ UNCHANGED <<poolVars, lifeVars, custodyFaults>>

\* The pass continues with the images it has not looked at: those still there.
UnlinkImage(d) ==
    /\ Doing(d, "unlink")
    /\ images' = IF Identity THEN images \ work[d].todo ELSE images
    /\ work' = [work EXCEPT ![d].pc = "list", ![d].todo = images \ @]
    /\ UNCHANGED <<views, witness, linked, root, gate, lifeVars, custodyFaults>>

EndReclaim(d) ==
    /\ Doing(d, "list") /\ work[d].todo = {}
    /\ CloseGate(d)
    /\ UNCHANGED <<views, witness, linked, images, root, lifeVars, custodyFaults>>

-----------------------------------------------------------------------------
Dispose(d) ==
    \/ ProveIdentity(d) \/ Observe(d) \/ Reprove(d) \/ RemoveView(d) \/ RemoveWitness(d)
    \/ ReleaseFails(d) \/ Die(d) \/ Conclude(d)
    \/ TakeGate(d) \/ ListImages(d) \/ StatImage(d) \/ UnlinkImage(d) \/ EndReclaim(d)

CustodyNext ==
    \/ \E o \in OwnerIds, i \in Images : LinkView(o, i)
    \/ \E o \in OwnerIds : CloseLifetime(o)
    \/ LoseRoot \/ RestoreRoot \/ BeginPass \/ EndPass
    \/ \E d \in Disposers : Dispose(d)
    \/ \E d \in Disposers, o \in OwnerIds :
         GuardianEnds(d, o) \/ PassVisits(d, o) \/ AuthorizeRemoval(d, o) \/ ObserveTask(d, o)

CustodySpec == CustodyInit /\ [][CustodyNext]_custodyVars

-----------------------------------------------------------------------------
CustodyTypeOK ==
    /\ closed \subseteq OwnerIds /\ witness \subseteq OwnerIds /\ queued \subseteq Inspected
    /\ images \subseteq Images /\ gate \in Disposers \cup {NoDisposer}
    /\ views \in [OwnerIds -> SUBSET Images]

\* No release, whoever makes it, takes a view of a lifetime that may still execute it, and
\* no image goes that a view links, although views are linked while images are reclaimed.
CustodyStands ==
    /\ \A o \in OwnerIds \ closed : views[o] = linked[o]
    /\ \A o \in OwnerIds : views[o] \subseteq images

\* "Released" is only said, and the row of an inspection only removed, when the witness is
\* gone from the recorded pool; a pool that disappears half way is never taken for a
\* released one.
ReleasedIsTrue ==
    /\ \A d \in Disposers : Doing(d, "released") => Owner(d) \notin witness
    /\ \A o \in Inspected \ queued : o \notin witness

\* A guardian that ended after the closure leaves no custody behind that nobody will look
\* at: a wake is owed, or a pass will visit the lifetime, is releasing it or has failed.
NothingStranded ==
    \A o \in OwnerIds : (guardians[o] = "over" /\ o \in witness) =>
        \/ fullWake \/ o \in pass.todo \/ pass.failed
        \/ \E d \in Disposers : Owner(d) = o /\ work[d].op = "release"

CustodyIsSafe == CustodyStands /\ ReleasedIsTrue /\ NothingStranded

=============================================================================

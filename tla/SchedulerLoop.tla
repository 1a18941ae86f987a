---------------------------- MODULE SchedulerLoop ----------------------------
(***************************************************************************)
(* The scheduler's SQLite store and the application loop over it           *)
(* (internal/scheduler/internal/sqlitestore, internal/scheduler/runtime).  *)
(*                                                                         *)
(* The store keeps schedules with their cursors, armed occurrences keyed   *)
(* by task, and skip spans.  Each of its operators is one transaction; it  *)
(* is enabled when the transaction would commit.  What a failed or         *)
(* uncertain commit means is left to the loop, as in the code.  An instant *)
(* is a natural number; a calendar is the set of due times the recurrence  *)
(* package computes from a cron expression and a time zone.                *)
(*                                                                         *)
(* One goroutine owns l; it scans the schedules, claims or skips due       *)
(* times, starts one worker per claim and at most one observation, and     *)
(* records what the workers report.  An action ends where another process, *)
(* another goroutine or the clock can intervene: between two transactions. *)
(*                                                                         *)
(* A store write has three outcomes: it commits; it is refused by its own  *)
(* compare-and-set; its commit fails with an unknown outcome, and then it  *)
(* may or may not have happened.  Unknown outcomes draw on MaxFaults.      *)
(***************************************************************************)
EXTENDS Integers, FiniteSets, Sequences

----------------------------------------------------------------------------
(* The store.                                                              *)

CONSTANTS Schedules,   \* schedule IDs 1..n, compared like the hexadecimal ones
          Tasks,       \* task IDs 1..m, the pool NewTaskID draws from
          Horizon,     \* bound: the last instant the clock reaches
          Calendar     \* Calendar[s]: the due times of schedule s

\* The clock never gets past the last due time, and a least next one exists,
\* which is what recurrence.Next returns.
ASSUME SchedulerAssumption ==
    /\ Schedules \subseteq Nat \ {0}
    /\ Tasks \subseteq Nat \ {0}
    /\ Horizon \in Nat
    /\ Calendar \in [Schedules -> SUBSET Nat]
    /\ \A s \in Schedules, c \in 0..Horizon :
          \E d \in Calendar[s] : d > c /\ \A e \in Calendar[s] : e > c => d <= e

VARIABLES
    sched,   \* [Schedules -> [state, created, cursor]]
    occ,     \* [Tasks -> occurrence row, or NoOccurrence]
    spans    \* [Schedules -> set of (from, to] spans with their reason]

storeVars == <<sched, occ, spans>>

Time == 0..Horizon

States == {"absent", "enabled", "paused", "deleted"}

NoSchedule == [state |-> "absent", created |-> 0, cursor |-> 0]

\* Admission of the cached observation: "none" is a row not observed yet, "unknown"
\* one observed as not, or not known to be, admitted.
Admissions == {"none", "unknown", "admitted"}

Releases == {"none", "not_created", "closed"}

Occurrence == [schedule : Schedules, due : Time, admission : Admissions,
               observedAt : Time, release : Releases]

NoOccurrence == [schedule |-> 0, due |-> 0, admission |-> "none",
                 observedAt |-> 0, release |-> "none"]

SkipReasons == {"overlap_active", "blocked_uncertain", "missed_unavailable",
                "missed_capacity", "paused"}

SkipSpan == [from : Time, to : Time, reason : SkipReasons]

\* The first due time of schedule s strictly after instant c.
NextDue(s, c) ==
    CHOOSE d \in Calendar[s] : d > c /\ \A e \in Calendar[s] : e > c => d <= e

\* The occurrences of s that still hold their reservation.
ActiveTasks(s) == {t \in Tasks : occ[t].schedule = s /\ occ[t].release = "none"}

\* The tasks that hold due time d of s.
ClaimedTasks(s, d) == {t \in Tasks : occ[t].schedule = s /\ occ[t].due = d}

StoreInit ==
    /\ sched = [s \in Schedules |-> NoSchedule]
    /\ occ = [t \in Tasks |-> NoOccurrence]
    /\ spans = [s \in Schedules |-> {}]

----------------------------------------------------------------------------
CreateSchedule(s, createdAt) ==
    /\ sched[s] = NoSchedule
    /\ sched' = [sched EXCEPT ![s] =
                    [state |-> "enabled", created |-> createdAt, cursor |-> createdAt]]
    /\ UNCHANGED <<occ, spans>>

\* The compare-and-set conditions of a claim.  A due time somebody holds is
\* answered with ClaimExisting, which like a conflict authorizes nothing.
ClaimAllowed(s, expected, due) ==
    /\ ClaimedTasks(s, due) = {}
    /\ sched[s].state = "enabled"
    /\ sched[s].cursor = expected
    /\ ActiveTasks(s) = {}

\* Mutant: the occurrence is armed but the cursor stays.
ClaimWithoutCursor(s, t, expected, due) ==
    /\ ClaimAllowed(s, expected, due)
    /\ occ' = [occ EXCEPT ![t] = [NoOccurrence EXCEPT !.schedule = s, !.due = due]]
    /\ UNCHANGED <<sched, spans>>

ClaimAndArm(s, t, expected, due) ==
    /\ ClaimAllowed(s, expected, due)
    /\ occ' = [occ EXCEPT ![t] = [NoOccurrence EXCEPT !.schedule = s, !.due = due]]
    /\ sched' = [sched EXCEPT ![s].cursor = due]
    /\ UNCHANGED spans

\* Mutant: the stored cursor is not compared.
SkipAllowedStale(s, expected) == sched[s].state = "enabled"

SkipAllowed(s, expected) ==
    /\ sched[s].state = "enabled"
    /\ sched[s].cursor = expected

\* insertSkipSpan and the cursor update that follows it.
InsertSkipSpan(s, from, to, reason) ==
    spans' = [spans EXCEPT ![s] = @ \cup {[from |-> from, to |-> to, reason |-> reason]}]

\* Mutant: the span is stored but the cursor stays.
RecordSkipKeepsCursor(s, expected, to, reason) ==
    /\ SkipAllowed(s, expected)
    /\ InsertSkipSpan(s, expected, to, reason)
    /\ UNCHANGED <<sched, occ>>

RecordSkip(s, expected, to, reason) ==
    /\ SkipAllowed(s, expected)
    /\ InsertSkipSpan(s, expected, to, reason)
    /\ sched' = [sched EXCEPT ![s].cursor = to]
    /\ UNCHANGED occ

PermittedTransition(from, to) ==
    \/ from = "enabled" /\ to \in {"paused", "deleted"}
    \/ from = "paused" /\ to \in {"enabled", "deleted"}

\* A state change; resumeTo > expected stands for a change with a Resume.
ChangeAllowed(s, from, to, expected, resumeTo) ==
    /\ sched[s].state = from
    /\ resumeTo > expected => sched[s].cursor = expected

ChangeState(s, from, to, expected, resumeTo) ==
    /\ ChangeAllowed(s, from, to, expected, resumeTo)
    /\ \/ /\ resumeTo > expected
          /\ InsertSkipSpan(s, expected, resumeTo, "paused")
          /\ sched' = [sched EXCEPT ![s].state = to, ![s].cursor = resumeTo]
       \/ /\ resumeTo <= expected
          /\ sched' = [sched EXCEPT ![s].state = to]
          /\ UNCHANGED spans
    /\ UNCHANGED occ

\* Two observations in one model instant are still apart on the real clock, so
\* only a reading taken before a clock rollback is newer than its successor.
RecordObservation(t, admission, at) ==
    /\ occ' = [occ EXCEPT ![t] = IF @.admission = "none" \/ @.observedAt <= at
                                 THEN [@ EXCEPT !.admission = admission, !.observedAt = at]
                                 ELSE @]
    /\ UNCHANGED <<sched, spans>>

\* The first release wins.
ReleaseOccurrence(t, kind) ==
    /\ occ' = [occ EXCEPT ![t].release = IF @ = "none" THEN kind ELSE @]
    /\ UNCHANGED <<sched, spans>>

----------------------------------------------------------------------------
(* The loop.                                                               *)

CONSTANTS AdmissionLimit,   \* unfinished dispatches the loop allows
          ClaimWindow,      \* instants after its due time a claim is still made
          MaxFaults         \* bound: commits of unknown outcome and task faults

ASSUME LoopAssumption ==
    /\ AdmissionLimit \in Nat \ {0}
    /\ ClaimWindow \in Nat \ {0}
    /\ MaxFaults \in Nat

VARIABLES
    now,       \* the wall clock
    l,         \* the loop
    work,      \* the worker goroutines: pairs <<task, "dispatch" or "observe">>
    results,   \* the channel of worker results
    faults     \* unknown outcomes and task faults so far

loopVars == <<now, l, work, results, faults>>

Summary == [id : Schedules, state : States, cursor : Time]

\* A worker's result.  Admission "none" stands for a missing observation, fatal
\* for ErrRootIdentity and ErrTaskCleanupUnresolved.
Result == [task : Tasks, dispatch : BOOLEAN, fatal : BOOLEAN,
           admission : Admissions, at : Time, release : Releases]

NoResult == [task |-> 0, dispatch |-> FALSE, fatal |-> FALSE,
             admission |-> "none", at |-> 0, release |-> "none"]

Claim == [schedule : Schedules, task : Tasks, cursor : Time, due : Time]

NoClaim == [schedule |-> 0, task |-> 0, cursor |-> 0, due |-> 0]

Workers == Tasks \X {"dispatch", "observe"}

LoopPCs == {"down", "idle", "consider", "claim", "readback", "record", "release",
            "stopping"}

LoopState == [
    pc : LoopPCs, startup : Time,
    live : SUBSET Tasks, reconciling : Tasks \cup {0},
    held : [Schedules -> Time],
    selectionAfter : Schedules \cup {0}, idleAfter : Schedules \cup {0},
    observedRound : SUBSET Tasks, observedDue : [Tasks -> Time],
    active : SUBSET Tasks, priority : SUBSET Tasks,
    after : Schedules \cup {0}, second : BOOLEAN,
    page : SUBSET Summary, pass : 0..3,
    claim : Claim \cup {NoClaim}, result : Result \cup {NoResult}, attempt : 1..2]

\* Run starts with empty maps; startup is the instant it read the clock.
NewLoop(pc, startup) == [
    pc |-> pc, startup |-> startup,
    live |-> {}, reconciling |-> 0,
    held |-> [s \in Schedules |-> 0],
    selectionAfter |-> 0, idleAfter |-> 0,
    observedRound |-> {}, observedDue |-> [t \in Tasks |-> 0],
    active |-> {}, priority |-> {},
    after |-> 0, second |-> FALSE,
    page |-> {}, pass |-> 0,
    claim |-> NoClaim, result |-> NoResult, attempt |-> 1]

Up == l.pc \notin {"down", "stopping"}

Stopping == NewLoop("stopping", l.startup)

Faulty == faults < MaxFaults /\ faults' = faults + 1

----------------------------------------------------------------------------
(* Deciding what a schedule's next due time needs.                         *)

\* The occurrence of schedule s in the scan's snapshot, or 0.
Prior(s) ==
    IF \E t \in l.active : occ[t].schedule = s
    THEN CHOOSE t \in l.active : occ[t].schedule = s
    ELSE 0

\* The due time held for summary x; a hold that is no longer ahead of the
\* cursor, or whose schedule is not enabled, is forgotten.
HeldDue(x) ==
    IF x.state = "enabled" /\ l.held[x.id] > x.cursor THEN l.held[x.id] ELSE 0

\* Mutant: the last slot is never used.
SlotFreeExceptLast == Cardinality(l.live) + 1 < AdmissionLimit

SlotFree == Cardinality(l.live) < AdmissionLimit

\* Mutant: every blocker is taken for an admitted task.
BlockerAdmitted(t) == IF t = 0 THEN "missed_unavailable" ELSE "overlap_active"

BlockerReason(t) ==
    IF t = 0 THEN "missed_unavailable"
    ELSE IF occ[t].admission = "admitted" THEN "overlap_active"
    ELSE "blocked_uncertain"

Wait == [kind |-> "wait", due |-> 0, reason |-> "paused"]
Skip(to, reason) == [kind |-> "skip", due |-> to, reason |-> reason]
Hold(due) == [kind |-> "hold", due |-> due, reason |-> "paused"]
Admit(due) == [kind |-> "admit", due |-> due, reason |-> "paused"]

InWindow(due) == due <= now /\ now < due + ClaimWindow

\* Mutant: a due time expires at once.
ExpiredAtOnce(due) == now >= due

\* Mutant: an expired due time that an active occurrence blocks stays open.
ExpiredUnlessHeld(due) == now >= due + ClaimWindow /\ \A s \in Schedules : l.held[s] # due

Expired(due) == now >= due + ClaimWindow

\* Mutant: the instant of the start itself is not skipped.
StrictlyBeforeStartup(due) == due < l.startup

BeforeStartup(due) == due <= l.startup

\* decideTick for summary x.
DecideTick(x) ==
    LET due == NextDue(x.id, x.cursor)
        prior == Prior(x.id)
        noSlot == prior = 0 /\ ~SlotFree
    IN  IF x.state # "enabled" THEN Wait
        ELSE IF BeforeStartup(due) THEN Skip(l.startup, "missed_unavailable")
        ELSE IF due > now THEN Wait
        ELSE IF Expired(due) /\ due = HeldDue(x)
             THEN Skip(due, IF noSlot THEN "missed_capacity" ELSE BlockerReason(prior))
        ELSE IF Expired(due)
             THEN Skip(now - ClaimWindow, "missed_unavailable")
        ELSE IF noSlot THEN Skip(due, "missed_capacity")
        ELSE IF prior # 0 THEN Hold(due) ELSE Admit(due)

----------------------------------------------------------------------------
(* A scan.                                                                 *)

Summaries(ids) ==
    {[id |-> s, state |-> sched[s].state, cursor |-> sched[s].cursor] :
        s \in {i \in ids : sched[i].state # "absent"}}

\* The run loop has drained its results.  A scan reads the active occurrences
\* and the schedules after selectionAfter.  A new observation round begins when
\* IdleInterval has passed since the last one; an instant of the model may be
\* shorter or longer than that.
Scan(fresh) ==
    /\ l.pc = "idle"
    /\ results = <<>>
    /\ LET active == UNION {ActiveTasks(s) : s \in Schedules} IN
       l' = [l EXCEPT
          !.pc = "consider",
          !.active = active,
          !.observedRound = IF fresh THEN {} ELSE @ \cap active,
          !.observedDue = [t \in Tasks |-> IF t \in active THEN @[t] ELSE 0],
          !.after = l.selectionAfter,
          !.page = Summaries({s \in Schedules : s > l.selectionAfter})]
    /\ UNCHANGED <<storeVars, now, work, results, faults>>

\* The second page: the schedules up to selectionAfter.
ScanSecondRange ==
    /\ l.pc = "consider"
    /\ l.page = {}
    /\ ~l.second /\ l.after # 0
    /\ l' = [l EXCEPT !.second = TRUE,
                      !.page = Summaries({s \in Schedules : s <= l.after})]
    /\ UNCHANGED <<storeVars, now, work, results, faults>>

\* The summary consider works on: pages are in schedule ID order.
Considering(x) ==
    /\ l.pc = "consider"
    /\ x \in l.page
    /\ \A y \in l.page : x.id <= y.id

\* consider returns; the scan goes on with the next summary.
NextSummary(m, id) ==
    [m EXCEPT !.pc = "consider", !.page = {y \in @ : y.id # id}, !.pass = 0,
              !.claim = NoClaim, !.attempt = 1]

\* consider forgets a stale hold first.
Forgetting(x) == [l EXCEPT !.held[x.id] = HeldDue(x)]

\* Nothing is due yet, or three spans were recorded in this pass.
ConsiderWaits(x) ==
    /\ Considering(x)
    /\ l.pass = 3 \/ DecideTick(x).kind = "wait"
    /\ l' = NextSummary(Forgetting(x), x.id)
    /\ UNCHANGED <<storeVars, now, work, results, faults>>

\* An active occurrence blocks the due time: hold it and observe the blocker.
HoldTick(x) ==
    /\ Considering(x) /\ l.pass < 3
    /\ LET d == DecideTick(x) IN
       /\ d.kind = "hold"
       /\ l' = NextSummary([l EXCEPT !.held[x.id] = d.due,
                                     !.priority = @ \cup {Prior(x.id)}], x.id)
    /\ UNCHANGED <<storeVars, now, work, results, faults>>

\* The local cursor follows a span only when its transaction committed.
AfterSkip(x, to) ==
    [l EXCEPT !.held[x.id] = 0, !.pass = @ + 1,
              !.page = (@ \ {x}) \cup {[x EXCEPT !.cursor = to]}]

\* After a lost compare-and-set the schedule is left to the next scan.
SkipTick(x) ==
    /\ Considering(x) /\ l.pass < 3
    /\ LET d == DecideTick(x) IN
       /\ d.kind = "skip"
       /\ \/ /\ RecordSkip(x.id, x.cursor, d.due, d.reason)
             /\ l' = AfterSkip(x, d.due)
             /\ UNCHANGED faults
          \/ /\ ~SkipAllowed(x.id, x.cursor)
             /\ l' = NextSummary(Forgetting(x), x.id)
             /\ UNCHANGED <<storeVars, faults>>
          \/ /\ RecordSkip(x.id, x.cursor, d.due, d.reason)
             /\ l' = Stopping
             /\ Faulty
    /\ UNCHANGED <<now, work, results>>

\* prepareCandidate: the schedule is read again, and a fresh task ID is drawn.
PrepareCandidate(x) ==
    /\ Considering(x) /\ l.pass < 3
    /\ LET d == DecideTick(x) IN
       /\ d.kind = "admit"
       /\ \/ /\ sched[x.id].state = "enabled" /\ sched[x.id].cursor = x.cursor
             /\ \E t \in Tasks :
                   /\ occ[t] = NoOccurrence
                   /\ \A u \in Tasks : occ[u] = NoOccurrence => t <= u
                   /\ l' = [Forgetting(x) EXCEPT !.pc = "claim",
                             !.claim = [schedule |-> x.id, task |-> t,
                                        cursor |-> x.cursor, due |-> d.due]]
          \/ /\ sched[x.id].state # "enabled" \/ sched[x.id].cursor # x.cursor
             /\ l' = NextSummary(Forgetting(x), x.id)
    /\ UNCHANGED <<storeVars, now, work, results, faults>>

----------------------------------------------------------------------------
(* Claiming.                                                               *)

\* The clock is read again right before the first attempt.
ClaimTooLate ==
    /\ l.pc = "claim" /\ l.attempt = 1
    /\ ~InWindow(l.claim.due)
    /\ l' = NextSummary(l, l.claim.schedule)
    /\ UNCHANGED <<storeVars, now, work, results, faults>>

Claiming == l.pc = "claim" /\ (l.attempt = 1 => InWindow(l.claim.due))

\* A claim this call committed, and only that, starts a dispatch.
ClaimCommits ==
    /\ Claiming
    /\ LET c == l.claim IN
       /\ ClaimAndArm(c.schedule, c.task, c.cursor, c.due)
       /\ l' = NextSummary([l EXCEPT !.live = @ \cup {c.task},
                                     !.held[c.schedule] = 0,
                                     !.selectionAfter = c.schedule], c.schedule)
       /\ work' = work \cup {<<c.task, "dispatch">>}
    /\ UNCHANGED <<now, results, faults>>

ClaimConflicts ==
    /\ Claiming
    /\ ~ClaimAllowed(l.claim.schedule, l.claim.cursor, l.claim.due)
    /\ l' = NextSummary(l, l.claim.schedule)
    /\ UNCHANGED <<storeVars, now, work, results, faults>>

ClaimUncertain ==
    /\ Claiming
    /\ LET c == l.claim IN
       \/ ClaimAndArm(c.schedule, c.task, c.cursor, c.due)
       \/ UNCHANGED storeVars
    /\ l' = [l EXCEPT !.pc = "readback"]
    /\ Faulty
    /\ UNCHANGED <<now, work, results>>

\* Mutant: the row that was found authorizes a dispatch.
AfterReadbackDispatches(t) == work \cup {<<t, "dispatch">>}

\* The workers after a readback found the claim's row: it starts none.
AfterReadback(t) == work

\* resolveUnknown: a row that is there is left to observation; one that is not
\* is claimed once more, if there is still time.
ClaimReadback ==
    /\ l.pc = "readback"
    /\ LET found == occ[l.claim.task] # NoOccurrence
           retry == l.attempt = 1 /\ InWindow(l.claim.due)
       IN  /\ l' = IF found THEN NextSummary(l, l.claim.schedule)
                   ELSE IF retry THEN [l EXCEPT !.pc = "claim", !.attempt = 2]
                   ELSE Stopping
           /\ work' = IF found THEN AfterReadback(l.claim.task) ELSE work
    /\ UNCHANGED <<storeVars, now, results, faults>>

----------------------------------------------------------------------------
(* Observing.                                                              *)

\* Task t of T is the one whose schedule comes first after idleAfter, cyclically.
FirstInTurn(t, T) ==
    LET later == {u \in T : occ[u].schedule > l.idleAfter}
        S == IF later # {} THEN later ELSE T
    IN  t \in S /\ \A u \in S : occ[t].schedule <= occ[u].schedule

\* Mutant: dispatches in progress are observed too.
ObservableLive(dueOnly) ==
    {t \in l.active :
        /\ dueOnly => t \in l.priority
        /\ \/ t \notin l.observedRound
           \/ dueOnly /\ l.observedDue[t] # l.held[occ[t].schedule]}

\* Tasks startObservation may pick.  A live dispatch is never observed.
Observable(dueOnly) ==
    {t \in l.active :
        /\ t \notin l.live
        /\ dueOnly => t \in l.priority
        /\ \/ t \notin l.observedRound
           \/ dueOnly /\ l.observedDue[t] # l.held[occ[t].schedule]}

\* The scan is over: its snapshot is dropped and run waits.
ScanEnds(m) == [m EXCEPT !.pc = "idle", !.active = {}, !.priority = {},
                         !.after = 0, !.second = FALSE]

\* Mutant: an observation in progress does not stop the next one.
ObserverAlwaysFree == TRUE

\* One observation at a time.
ObserverFree == l.reconciling = 0

StartObservation ==
    /\ l.pc = "consider" /\ l.page = {}
    /\ l.second \/ l.after = 0
    /\ \/ /\ ~ObserverFree \/ Observable(FALSE) \cup Observable(TRUE) = {}
          /\ l' = ScanEnds(l)
          /\ UNCHANGED work
       \/ /\ ObserverFree
          /\ \E dueOnly \in BOOLEAN : \E t \in Observable(dueOnly) :
                /\ ~dueOnly => Observable(TRUE) = {}
                /\ FirstInTurn(t, Observable(dueOnly))
                /\ LET s == occ[t].schedule IN
                   l' = ScanEnds([l EXCEPT
                           !.reconciling = t,
                           !.observedRound = @ \cup {t},
                           !.observedDue[t] = IF dueOnly THEN l.held[s] ELSE @,
                           !.idleAfter = s])
                /\ work' = work \cup {<<t, "observe">>}
    /\ UNCHANGED <<storeVars, now, results, faults>>

\* Mutant: a failed observation keeps its place.
FreedUnlessFailed(r) ==
    IF r.dispatch THEN [l EXCEPT !.live = @ \ {r.task}]
    ELSE IF r.admission = "none" THEN l ELSE [l EXCEPT !.reconciling = 0]

\* What a result frees: its admission slot, or the one observation.
Freed(r) ==
    IF r.dispatch THEN [l EXCEPT !.live = @ \ {r.task}] ELSE [l EXCEPT !.reconciling = 0]

\* finish: the worker's result frees its slot; a fatal fault ends the run, a
\* task error without an observation is dropped.
Finish ==
    /\ l.pc = "idle"
    /\ results # <<>>
    /\ LET r == Head(results) IN
       l' = IF r.fatal THEN Stopping
            ELSE IF r.admission = "none" THEN Freed(r)
            ELSE [Freed(r) EXCEPT !.pc = "record", !.result = r]
    /\ results' = Tail(results)
    /\ UNCHANGED <<storeVars, now, work, faults>>

AfterObservation ==
    IF l.result.release # "none"
    THEN [l EXCEPT !.pc = "release", !.attempt = 1]
    ELSE [l EXCEPT !.pc = "idle", !.attempt = 1, !.result = NoResult]

\* A write that failed is tried once more, and then ends the run.
Retrying == IF l.attempt = 1 THEN [l EXCEPT !.attempt = 2] ELSE Stopping

\* recordObservation.  The readback after an error accepts a row that is at
\* least as new, so an error after the commit changes nothing.
FinishObservation ==
    /\ l.pc = "record"
    /\ \/ /\ RecordObservation(l.result.task, l.result.admission, l.result.at)
          /\ l' = AfterObservation
          /\ UNCHANGED faults
       \/ /\ Faulty
          /\ LET stored == occ[l.result.task] IN
             l' = IF stored.admission # "none" /\ stored.observedAt > l.result.at
                  THEN AfterObservation ELSE Retrying
          /\ UNCHANGED storeVars
    /\ UNCHANGED <<now, work, results>>

\* recordRelease: the first release wins, whoever reported it.
FinishRelease ==
    /\ l.pc = "release"
    /\ \/ /\ ReleaseOccurrence(l.result.task, l.result.release)
          /\ l' = [l EXCEPT !.pc = "idle", !.attempt = 1, !.result = NoResult]
          /\ UNCHANGED faults
       \/ /\ Faulty
          /\ l' = Retrying
          /\ UNCHANGED storeVars
    /\ UNCHANGED <<now, work, results>>

\* The context is cancelled, or a store call without effect fails for good.
RunEnds ==
    /\ Up
    /\ l' = Stopping
    /\ UNCHANGED <<storeVars, now, work, results, faults>>

LoopStep ==
    \/ \E fresh \in BOOLEAN : Scan(fresh)
    \/ ScanSecondRange
    \/ \E x \in l.page :
          ConsiderWaits(x) \/ HoldTick(x) \/ SkipTick(x) \/ PrepareCandidate(x)
    \/ ClaimTooLate \/ ClaimCommits \/ ClaimConflicts \/ ClaimUncertain \/ ClaimReadback
    \/ StartObservation \/ Finish \/ FinishObservation \/ FinishRelease
=============================================================================

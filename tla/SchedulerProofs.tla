-------------------------- MODULE SchedulerProofs --------------------------
(***************************************************************************)
(* Theorems about the recurring scheduler, for every set of schedules and  *)
(* tasks, every calendar, horizon, claim window and admission limit, and   *)
(* any number of faults, commands, clock rollbacks, crashes and restarts:  *)
(* each due time is disposed of once, tasks of one schedule do not         *)
(* overlap, a release is final, what a span or a claim says is true, and   *)
(* the scheduler keeps its contract.                                       *)
(***************************************************************************)
EXTENDS Scheduler, FiniteSetTheorems, TLAPS

--------------------
(* The inductive invariant.                                                *)

InScan == l.pc \in {"consider", "claim", "readback"}
Armed(t) == t \in Tasks /\ occ[t] # NoOccurrence

\* Only armed tasks have workers, results, admission slots or a directory, so
\* the task a claim draws has none of these.
RowsFirst ==
    /\ \A w \in work : Armed(w[1])
    /\ \A i \in DOMAIN results : Armed(results[i].task)
    /\ l.pc \in {"record", "release"} => l.result \in Result /\ Armed(l.result.task)
    /\ \A t \in l.live : Armed(t)
    /\ \A t \in Tasks : job[t] # "none" => Armed(t)

\* A run that is down has joined or lost its workers.
DownIsQuiet == l.pc = "down" => work = {} /\ results = <<>>

\* A task has one worker at a time, and at most one dispatch ever.
OneWorker ==
    /\ \A t \in Tasks : ~(<<t, "dispatch">> \in work /\ <<t, "observe">> \in work)
    /\ \A i \in DOMAIN results : results[i].dispatch => ~Dispatching(results[i].task)

\* Admission slots and dispatches are the same thing to a loop that is up.
SlotsAreDispatches ==
    Up => /\ \A t \in Tasks : Dispatching(t) => t \in l.live
          /\ \A t \in l.live : \/ Dispatching(t)
                               \/ \E i \in DOMAIN results :
                                     results[i].dispatch /\ results[i].task = t

\* Places the loop has given away, against workers and results outstanding.
Observers == IF l.reconciling = 0 THEN 0 ELSE 1
PlacesSuffice ==
    /\ IsFiniteSet(work) /\ IsFiniteSet(l.live)
    /\ Cardinality(l.live) <= AdmissionLimit
    /\ l.pc \in {"claim", "readback"} => Cardinality(l.live) < AdmissionLimit
    /\ Up => Len(results) + Cardinality(work) <= Cardinality(l.live) + Observers
    /\ Len(results) + Cardinality(work) <= AdmissionLimit + 1

\* A claim in progress is for the next due time after the cursor it expects.
ClaimIsNext ==
    /\ l.pc \in {"claim", "readback"} =>
          /\ l.claim \in Claim
          /\ l.claim.due = NextDue(l.claim.schedule, l.claim.cursor)
          /\ l.claim.due > l.startup
          /\ \E x \in l.page : x.id = l.claim.schedule
    /\ l.pc = "claim" => occ[l.claim.task] = NoOccurrence
    /\ l.pc = "readback" => \/ occ[l.claim.task] = NoOccurrence
                            \/ occ[l.claim.task].schedule = l.claim.schedule

\* What has been reported of a task holds of it for good.
SaysTrue(t, admission, release) ==
    /\ release # "none" => ~MayRun(t)
    /\ admission = "admitted" => job[t] \in {"queued", "running", "closed"}
ReportsHold ==
    /\ \A i \in DOMAIN results :
          SaysTrue(results[i].task, results[i].admission, results[i].release)
    /\ l.pc \in {"record", "release"} =>
          SaysTrue(l.result.task, l.result.admission, l.result.release)
    /\ \A t \in Tasks : SaysTrue(t, occ[t].admission, occ[t].release)

\* One reservation per schedule.
OneReservation ==
    \A s \in Schedules : \A t, u \in ActiveTasks(s) : t = u

\* The scan's snapshot is still true of every schedule it has yet to consider.
SnapshotHolds ==
    /\ ~InScan => l.active = {}
    /\ \A t \in l.active : Armed(t) /\ occ[t].release = "none"
    /\ InScan =>
          /\ \A x \in l.page : ActiveTasks(x.id) \subseteq
                l.active \cup (IF l.pc = "readback" THEN {l.claim.task} ELSE {})
          /\ ~l.second =>
                /\ \A x \in l.page : x.id > l.after
                /\ \A s \in Schedules : s <= l.after => ActiveTasks(s) \subseteq l.active

\* DisposedOnce without counting: nothing beyond the cursor, and one task or one
\* span for each due time up to it.
Disposed ==
    /\ \A s \in Schedules : \A d \in Calendar[s] :
          /\ d > sched[s].cursor => ClaimedTasks(s, d) = {} /\ Covering(s, d) = {}
          /\ sched[s].created < d /\ d <= sched[s].cursor =>
                \/ Covering(s, d) = {} /\ \E t \in Tasks : ClaimedTasks(s, d) = {t}
                \/ ClaimedTasks(s, d) = {} /\ \E x \in SkipSpan : Covering(s, d) = {x}
    /\ \A t \in Tasks : Armed(t) =>
          /\ occ[t].due \in Calendar[occ[t].schedule]
          /\ occ[t].due > sched[occ[t].schedule].created
          /\ sched[occ[t].schedule].state # "absent"
    /\ \A s \in Schedules : sched[s].created <= sched[s].cursor
    /\ \A s \in Schedules : sched[s].state = "absent" => sched[s] = NoSchedule

\* A command decides on a transition the state machine has.
CommandIsPermitted == fe # NoCommand => PermittedTransition(fe.from, fe.to)

SchedulerInv ==
    /\ TypeOK /\ RowsFirst /\ DownIsQuiet /\ OneWorker /\ SlotsAreDispatches /\ PlacesSuffice
    /\ ClaimIsNext /\ ReportsHold /\ OneReservation /\ SnapshotHolds /\ Disposed
    /\ CommandIsPermitted

--------------------
(* The operators of the model.                                             *)

\* What recurrence.Next returns: the least due time after an instant.
LEMMA NextDueIsNext ==
  ASSUME NEW s \in Schedules, NEW c \in Time
  PROVE  /\ NextDue(s, c) \in Calendar[s] /\ NextDue(s, c) \in Nat /\ NextDue(s, c) > c
         /\ \A e \in Calendar[s] : e > c => NextDue(s, c) <= e
  BY SchedulerAssumption DEF NextDue, Time

\* Instants are natural numbers, bounded by the last one of the clock and calendars.
LEMMA TimesAreNaturals == /\ Time \subseteq Nat /\ 0 \in Time
                          /\ \A n \in Nat, t \in Time : n <= t => n \in Time
  BY SchedulerAssumption DEF Time

\* The blocker decideTick looks up in the scan's snapshot.
LEMMA PriorIsActive ==
  ASSUME NEW s \in Schedules, l.active \subseteq Tasks
  PROVE  IF Prior(s) = 0 THEN \A t \in l.active : occ[t].schedule # s
         ELSE Prior(s) \in l.active /\ occ[Prior(s)].schedule = s
  <1>0. 0 \notin Tasks
    BY SchedulerAssumption
  <1>1. CASE \E t \in l.active : occ[t].schedule = s
    <2>1. Prior(s) = CHOOSE t \in l.active : occ[t].schedule = s
      BY <1>1 DEF Prior
    <2>2. Prior(s) \in l.active /\ occ[Prior(s)].schedule = s
      BY <1>1, <2>1
    <2> QED BY <1>0, <2>2
  <1>2. CASE ~\E t \in l.active : occ[t].schedule = s BY <1>2 DEF Prior
  <1> QED BY <1>1, <1>2

\* decideTick: a skip moves the cursor forward, at least over the next due
\* time, and blames a blocker or the lack of a slot only when there is one; an
\* admitted due time is the next one, after the start of the run, unblocked and
\* with a free slot.
LEMMA DecisionIsDue ==
  ASSUME TypeOK, NEW x \in Summary
  PROVE  LET d == DecideTick(x)
             due == NextDue(x.id, x.cursor)
         IN  /\ d.kind \in {"wait", "skip", "hold", "admit"}
             /\ d.kind = "skip" =>
                   /\ d.due \in Time /\ due <= d.due
                   /\ d.reason \in SkipReasons \ {"paused"}
                   /\ d.reason \in {"overlap_active", "blocked_uncertain"} => Prior(x.id) # 0
                   /\ d.reason = "overlap_active" => occ[Prior(x.id)].admission = "admitted"
                   /\ d.reason = "missed_capacity" => Prior(x.id) = 0 /\ ~SlotFree
             /\ d.kind = "hold" => d.due \in Time /\ Prior(x.id) # 0
             /\ d.kind = "admit" =>
                   d.due = due /\ due \in Time /\ due > l.startup /\ Prior(x.id) = 0 /\ SlotFree
  <1> DEFINE d == DecideTick(x)
  <1> DEFINE due == NextDue(x.id, x.cursor)
  <1> DEFINE prior == Prior(x.id)
  <1> DEFINE noSlot == prior = 0 /\ ~SlotFree
  <1>t. /\ x.id \in Schedules /\ x.cursor \in Time /\ now \in Time /\ l.startup \in Time
        /\ now \in Nat /\ l.startup \in Nat
    BY TimesAreNaturals DEF TypeOK, Summary, LoopState
  <1>d. due \in Nat
    BY <1>t, NextDueIsNext
  <1>w. ClaimWindow \in Nat
    BY LoopAssumption
  <1>e. due <= now => due \in Time
    BY <1>d, <1>t, TimesAreNaturals
  <1>n. DecideTick(x) =
          IF x.state # "enabled" THEN Wait
          ELSE IF BeforeStartup(due) THEN Skip(l.startup, "missed_unavailable")
          ELSE IF due > now THEN Wait
          ELSE IF Expired(due) /\ due = HeldDue(x)
               THEN Skip(due, IF noSlot THEN "missed_capacity" ELSE BlockerReason(prior))
          ELSE IF Expired(due)
               THEN Skip(now - ClaimWindow, "missed_unavailable")
          ELSE IF noSlot THEN Skip(due, "missed_capacity")
          ELSE IF prior # 0 THEN Hold(due) ELSE Admit(due)
    BY DEF DecideTick
  <1>b. /\ BlockerReason(prior) \in {"missed_unavailable", "overlap_active", "blocked_uncertain"}
        /\ BlockerReason(prior) # "missed_unavailable" => prior # 0
        /\ BlockerReason(prior) = "overlap_active" => occ[prior].admission = "admitted"
    BY DEF BlockerReason
  <1> HIDE DEF due, prior
  <1> USE DEF Wait, Skip, Hold, Admit, SkipReasons
  <1>1. CASE x.state # "enabled" BY <1>1, <1>n DEF due, prior
  <1>2. CASE x.state = "enabled" /\ BeforeStartup(due)
    BY <1>2, <1>n, <1>t DEF BeforeStartup, due, prior
  <1>3. CASE x.state = "enabled" /\ ~BeforeStartup(due) /\ due > now
    BY <1>3, <1>n DEF due, prior
  <1>4. CASE x.state = "enabled" /\ ~BeforeStartup(due) /\ ~(due > now)
    <2>1. due <= now /\ due > l.startup /\ due \in Time
      BY <1>4, <1>d, <1>e, <1>t DEF BeforeStartup
    <2>2. CASE Expired(due) /\ due = HeldDue(x)
      <3>1. d = Skip(due, IF noSlot THEN "missed_capacity" ELSE BlockerReason(prior))
        BY <1>4, <1>n, <2>2
      <3> QED BY <1>b, <1>d, <2>1, <3>1 DEF due, prior
    <2>3. CASE Expired(due) /\ due # HeldDue(x)
      <3>1. d = Skip(now - ClaimWindow, "missed_unavailable")
        BY <1>4, <1>n, <2>3
      <3>2. now - ClaimWindow \in Nat /\ due <= now - ClaimWindow /\ now - ClaimWindow <= now
        BY <1>d, <1>t, <1>w, <2>3 DEF Expired
      <3> QED BY <1>t, <3>1, <3>2, TimesAreNaturals DEF due, prior
    <2>4. CASE ~Expired(due)
      <3>1. d = IF noSlot THEN Skip(due, "missed_capacity")
                ELSE IF prior # 0 THEN Hold(due) ELSE Admit(due)
        BY <1>4, <1>n, <2>4
      <3> QED BY <1>d, <2>1, <3>1 DEF due, prior
    <2> QED BY <2>2, <2>3, <2>4
  <1> QED BY <1>1, <1>2, <1>3, <1>4

\* A run starts, stops and restarts with empty maps.
LEMMA NewLoopFields ==
  ASSUME NEW pc \in LoopPCs, NEW startup \in Time
  PROVE  LET m == NewLoop(pc, startup)
         IN  /\ m \in LoopState /\ m.pc = pc /\ m.startup = startup /\ m.live = {}
             /\ m.reconciling = 0 /\ m.active = {}
  <1>1. 0 \in Time
    BY TimesAreNaturals
  <1> QED BY <1>1 DEF NewLoop, LoopState

\* consider returns.
LEMMA NextSummaryFields ==
  ASSUME NEW m \in LoopState, NEW id
  PROVE  LET n == NextSummary(m, id)
         IN  /\ n \in LoopState /\ n.pc = "consider" /\ n.page = {y \in m.page : y.id # id}
             /\ n.startup = m.startup /\ n.live = m.live /\ n.reconciling = m.reconciling
             /\ n.active = m.active /\ n.after = m.after /\ n.second = m.second
             /\ n.held = m.held /\ n.selectionAfter = m.selectionAfter
  <1> DEFINE page == {y \in m.page : y.id # id}
  <1> DEFINE n == [m EXCEPT !.pc = "consider", !.page = page, !.pass = 0, !.claim = NoClaim,
                            !.attempt = 1]
  <1>1. NextSummary(m, id) = n
    BY DEF NextSummary
  <1>2. page \in SUBSET Summary
    BY DEF LoopState
  <1>p. "consider" \in LoopPCs /\ 0 \in 0..3 /\ 1 \in 1..2 /\ NoClaim \in Claim \cup {NoClaim}
    BY DEF LoopPCs
  <1> HIDE DEF page
  <1>3. n \in LoopState
    BY <1>2, <1>p DEF LoopState
  <1>4. /\ n.pc = "consider" /\ n.page = page
        /\ n.startup = m.startup /\ n.live = m.live /\ n.reconciling = m.reconciling
        /\ n.active = m.active /\ n.after = m.after /\ n.second = m.second
        /\ n.held = m.held /\ n.selectionAfter = m.selectionAfter
    BY DEF LoopState
  <1> HIDE DEF n
  <1> QED BY <1>1, <1>3, <1>4 DEF page

\* Forgetting a held due time that no longer applies changes nothing else.
LEMMA ForgettingFields ==
  ASSUME l \in LoopState, NEW x \in Summary
  PROVE  LET m == Forgetting(x)
         IN  /\ m \in LoopState /\ m.pc = l.pc /\ m.page = l.page
             /\ m.startup = l.startup /\ m.live = l.live /\ m.reconciling = l.reconciling
             /\ m.active = l.active /\ m.after = l.after /\ m.second = l.second
  <1>1. HeldDue(x) \in Time
    BY TimesAreNaturals DEF HeldDue, LoopState, Summary
  <1>2. [l.held EXCEPT ![x.id] = HeldDue(x)] \in [Schedules -> Time]
    BY <1>1 DEF LoopState
  <1>3. Forgetting(x) = [l EXCEPT !.held = [l.held EXCEPT ![x.id] = HeldDue(x)]]
    BY DEF Forgetting
  <1> QED BY <1>2, <1>3 DEF LoopState

--------------------
(* Steps of a scan that touch nothing but the loop's own state.            *)

Others == <<storeVars, now, work, results, faults, job, fe, used>>

\* A loop step that leaves rows of occurrences, workers and results alone.
LEMMA LoopFrame ==
  ASSUME SchedulerInv, Up, UNCHANGED <<occ, now, work, results, job, fe, used>>,
         l'.pc \in {"idle", "consider", "claim", "readback"},
         l'.live = l.live, l'.reconciling = l.reconciling,
         l'.pc \in {"claim", "readback"} => Cardinality(l.live) < AdmissionLimit,
         TypeOK', Disposed', ClaimIsNext', SnapshotHolds'
  PROVE  SchedulerInv'
  <1>2. Up'
    BY DEF Up
  <1>3. \A t : (Armed(t)' <=> Armed(t)) /\ (Dispatching(t)' <=> Dispatching(t))
                 /\ (MayRun(t)' <=> MayRun(t))
    BY DEF Armed, Dispatching, MayRun, Settled
  <1>4. RowsFirst' /\ DownIsQuiet' /\ OneWorker' /\ SlotsAreDispatches'
    BY <1>2, <1>3 DEF SchedulerInv, RowsFirst, DownIsQuiet, OneWorker, SlotsAreDispatches
  <1>5. PlacesSuffice'
    BY <1>2 DEF SchedulerInv, PlacesSuffice, Observers
  <1>6. ReportsHold'
    BY <1>3 DEF SchedulerInv, ReportsHold, SaysTrue
  <1>7. OneReservation'
    BY <1>3 DEF SchedulerInv, OneReservation, ActiveTasks
  <1> QED BY <1>4, <1>5, <1>6, <1>7 DEF SchedulerInv, CommandIsPermitted

\* A loop step that changes only the loop's own state.
LEMMA ScanFrame ==
  ASSUME SchedulerInv, Up, UNCHANGED Others, l' \in LoopState,
         l'.pc \in {"idle", "consider", "claim", "readback"},
         l'.live = l.live, l'.reconciling = l.reconciling,
         l'.pc \in {"claim", "readback"} => Cardinality(l.live) < AdmissionLimit,
         ClaimIsNext', SnapshotHolds'
  PROVE  SchedulerInv'
  <1> USE DEF Others, storeVars
  <1>1. TypeOK'
    BY DEF SchedulerInv, TypeOK
  <1>2. Disposed'
    BY DEF SchedulerInv, Disposed, ClaimedTasks, Covering, Armed
  <1> QED BY <1>1, <1>2, LoopFrame

\* consider returns without having written anything.
LEMMA NextSummaryKeeps ==
  ASSUME SchedulerInv, UNCHANGED Others, NEW m \in LoopState, NEW id,
         l' = NextSummary(m, id),
         m.page = l.page, m.startup = l.startup, m.live = l.live,
         m.reconciling = l.reconciling, m.active = l.active, m.after = l.after,
         m.second = l.second, InScan, l.pc # "consider" => id = l.claim.schedule
  PROVE  SchedulerInv'
  <1>1. /\ l' \in LoopState /\ l'.pc = "consider" /\ l'.page = {y \in l.page : y.id # id}
        /\ l'.live = l.live /\ l'.reconciling = l.reconciling
        /\ l'.active = l.active /\ l'.after = l.after /\ l'.second = l.second
    BY NextSummaryFields
  <1>2. Up
    BY DEF InScan, Up
  <1>3. ClaimIsNext'
    BY <1>1 DEF ClaimIsNext
  <1>4. \A s : ActiveTasks(s)' = ActiveTasks(s)
    BY DEF ActiveTasks, Others, storeVars
  <1>5. \A t : Armed(t)' <=> Armed(t)
    BY DEF Armed, Others, storeVars
  <1>6. \A x \in l.page : x.id # id => ActiveTasks(x.id) \subseteq l.active
    <2> SUFFICES ASSUME NEW x \in l.page, x.id # id PROVE ActiveTasks(x.id) \subseteq l.active
      OBVIOUS
    <2>0. x.id \in Schedules /\ 0 \notin Schedules
      BY SchedulerAssumption DEF SchedulerInv, TypeOK, LoopState, Summary
    <2>1. CASE l.pc = "readback"
      <3>1. occ[l.claim.task] = NoOccurrence \/ occ[l.claim.task].schedule = l.claim.schedule
        BY <2>1 DEF SchedulerInv, ClaimIsNext
      <3>2. l.claim.task \notin ActiveTasks(x.id)
        BY <2>0, <2>1, <3>1 DEF ActiveTasks, NoOccurrence
      <3> QED BY <2>1, <3>2 DEF SchedulerInv, SnapshotHolds
    <2>2. CASE l.pc # "readback" BY <2>2 DEF SchedulerInv, SnapshotHolds
    <2> QED BY <2>1, <2>2
  <1>7. SnapshotHolds'
    <2>1. InScan' /\ l'.pc # "readback"
      BY <1>1 DEF InScan
    <2> QED BY <1>1, <1>4, <1>5, <1>6, <2>1 DEF SchedulerInv, SnapshotHolds, Others, storeVars
  <1> QED BY <1>1, <1>2, <1>3, <1>7, ScanFrame

\* A page of summaries describes the schedules it was read for.
LEMMA SummariesType ==
  ASSUME TypeOK, NEW ids \in SUBSET Schedules
  PROVE  Summaries(ids) \in SUBSET Summary /\ \A x \in Summaries(ids) : x.id \in ids
  BY DEF TypeOK, Summaries, Summary

\* A scan takes its snapshot of reservations and its first page.
LEMMA ScanKeeps ==
  ASSUME SchedulerInv, UNCHANGED <<job, fe, used>>, NEW fresh \in BOOLEAN, Scan(fresh)
  PROVE  SchedulerInv'
  <1> DEFINE active == UNION {ActiveTasks(s) : s \in Schedules}
  <1> DEFINE round == IF fresh THEN {} ELSE l.observedRound \cap active
  <1> DEFINE dues == [t \in Tasks |-> IF t \in active THEN l.observedDue[t] ELSE 0]
  <1> DEFINE page == Summaries({s \in Schedules : s > l.selectionAfter})
  <1>t. TypeOK /\ l \in LoopState
    BY DEF SchedulerInv, TypeOK
  <1>1. /\ l.pc = "idle" /\ UNCHANGED Others
        /\ l' = [l EXCEPT !.pc = "consider", !.active = active, !.observedRound = round,
                          !.observedDue = dues, !.after = l.selectionAfter, !.page = page]
    BY DEF Scan, Others
  <1>2. active \subseteq Tasks /\ \A t \in active : Armed(t) /\ occ[t].release = "none"
    BY SchedulerAssumption DEF ActiveTasks, Armed, NoOccurrence
  <1>3. round \subseteq Tasks
    BY <1>2 DEF TypeOK, SchedulerInv, LoopState
  <1>4. dues \in [Tasks -> Time]
    BY <1>t, TimesAreNaturals DEF LoopState
  <1>5. page \in SUBSET Summary /\ \A x \in page : x.id > l.selectionAfter
    BY <1>t, SummariesType
  <1>6. \A s \in Schedules : ActiveTasks(s) \subseteq active
    OBVIOUS
  <1>p. "consider" \in LoopPCs
    BY DEF LoopPCs
  <1> HIDE DEF active, round, dues, page
  <1>7. l' \in LoopState
    BY <1>1, <1>2, <1>3, <1>4, <1>5, <1>p, <1>t DEF LoopState
  <1>8. /\ l'.pc = "consider" /\ l'.active = active /\ l'.page = page
        /\ l'.after = l.selectionAfter /\ l'.live = l.live /\ l'.reconciling = l.reconciling
    BY <1>1, <1>t DEF LoopState
  <1>9. ClaimIsNext'
    BY <1>8 DEF ClaimIsNext
  <1>10. SnapshotHolds'
    <2>1. \A s : ActiveTasks(s)' = ActiveTasks(s)
      BY <1>1 DEF ActiveTasks, Others, storeVars
    <2>2. \A t : (Armed(t)' <=> Armed(t)) /\ occ' = occ
      BY <1>1 DEF Armed, Others, storeVars
    <2>3. \A x \in page : x.id \in Schedules
      BY <1>5 DEF Summary
    <2> QED BY <1>2, <1>5, <1>6, <1>8, <2>1, <2>2, <2>3 DEF SnapshotHolds, InScan
  <1> QED BY <1>1, <1>7, <1>8, <1>9, <1>10, ScanFrame DEF Up

\* The second range holds the schedules before the one the scan began after.
LEMMA ScanSecondRangeKeeps ==
  ASSUME SchedulerInv, UNCHANGED <<job, fe, used>>, ScanSecondRange
  PROVE  SchedulerInv'
  <1> DEFINE page == Summaries({s \in Schedules : s <= l.after})
  <1>t. TypeOK /\ l \in LoopState
    BY DEF SchedulerInv, TypeOK
  <1>1. /\ l.pc = "consider" /\ ~l.second /\ UNCHANGED Others
        /\ l' = [l EXCEPT !.second = TRUE, !.page = page]
    BY DEF ScanSecondRange, Others
  <1>2. page \in SUBSET Summary /\ \A x \in page : x.id \in Schedules /\ x.id <= l.after
    BY <1>t, SummariesType
  <1> HIDE DEF page
  <1>3. l' \in LoopState
    BY <1>1, <1>2, <1>t DEF LoopState
  <1>4. /\ l'.pc = "consider" /\ l'.second /\ l'.page = page /\ l'.active = l.active
        /\ l'.live = l.live /\ l'.reconciling = l.reconciling
    BY <1>1, <1>t DEF LoopState
  <1>5. ClaimIsNext'
    BY <1>4 DEF ClaimIsNext
  <1>6. SnapshotHolds'
    <2>1. \A s : ActiveTasks(s)' = ActiveTasks(s)
      BY <1>1 DEF ActiveTasks, Others, storeVars
    <2>2. \A t : (Armed(t)' <=> Armed(t)) /\ occ' = occ
      BY <1>1 DEF Armed, Others, storeVars
    <2> QED BY <1>1, <1>2, <1>4, <2>1, <2>2 DEF SchedulerInv, SnapshotHolds, InScan
  <1> QED BY <1>1, <1>3, <1>4, <1>5, <1>6, ScanFrame DEF Up

\* A schedule that is not due is passed over.
LEMMA ConsiderWaitsKeeps ==
  ASSUME SchedulerInv, UNCHANGED <<job, fe, used>>, NEW x \in l.page, ConsiderWaits(x)
  PROVE  SchedulerInv'
  <1>1. /\ l.pc = "consider" /\ UNCHANGED Others /\ l' = NextSummary(Forgetting(x), x.id)
    BY DEF ConsiderWaits, Considering, Others
  <1>2. x \in Summary /\ l \in LoopState
    BY DEF SchedulerInv, TypeOK, LoopState
  <1> QED BY <1>1, <1>2, ForgettingFields, NextSummaryKeeps DEF InScan

\* A due time that is held for an observation changes no row.
LEMMA HoldTickKeeps ==
  ASSUME SchedulerInv, UNCHANGED <<job, fe, used>>, NEW x \in l.page, HoldTick(x)
  PROVE  SchedulerInv'
  <1> DEFINE held == [l.held EXCEPT ![x.id] = DecideTick(x).due]
  <1> DEFINE priority == l.priority \cup {Prior(x.id)}
  <1> DEFINE m == [l EXCEPT !.held = held, !.priority = priority]
  <1>t. TypeOK /\ l \in LoopState /\ x \in Summary /\ x.id \in Schedules
    BY DEF SchedulerInv, TypeOK, LoopState, Summary
  <1>1. /\ l.pc = "consider" /\ UNCHANGED Others /\ DecideTick(x).kind = "hold"
        /\ l' = NextSummary(m, x.id)
    BY DEF HoldTick, Considering, Others
  <1>2. DecideTick(x).due \in Time /\ Prior(x.id) \in Tasks
    BY <1>1, <1>t, DecisionIsDue, PriorIsActive DEF LoopState
  <1>3. held \in [Schedules -> Time] /\ priority \in SUBSET Tasks
    BY <1>2, <1>t DEF LoopState
  <1> HIDE DEF held, priority
  <1>4. m \in LoopState
    BY <1>3, <1>t DEF LoopState
  <1>5. /\ m.page = l.page /\ m.startup = l.startup /\ m.live = l.live
        /\ m.reconciling = l.reconciling /\ m.active = l.active /\ m.after = l.after
        /\ m.second = l.second
    BY <1>t DEF LoopState
  <1> HIDE DEF m
  <1> QED BY <1>1, <1>4, <1>5, NextSummaryKeeps DEF InScan

\* A candidate reads its schedule again and draws a fresh task.
LEMMA PrepareCandidateKeeps ==
  ASSUME SchedulerInv, UNCHANGED <<job, fe, used>>, NEW x \in l.page, PrepareCandidate(x)
  PROVE  SchedulerInv'
  <1>t. TypeOK /\ l \in LoopState /\ x \in Summary /\ x.id \in Schedules /\ x.cursor \in Time
    BY DEF SchedulerInv, TypeOK, LoopState, Summary
  <1>1. l.pc = "consider" /\ UNCHANGED Others /\ DecideTick(x).kind = "admit"
    BY DEF PrepareCandidate, Considering, Others
  <1>2. CASE l' = NextSummary(Forgetting(x), x.id)
    BY <1>1, <1>2, <1>t, ForgettingFields, NextSummaryKeeps DEF InScan
  <1>3. ASSUME NEW t \in Tasks, occ[t] = NoOccurrence,
               l' = [Forgetting(x) EXCEPT !.pc = "claim",
                       !.claim = [schedule |-> x.id, task |-> t, cursor |-> x.cursor,
                                  due |-> DecideTick(x).due]]
        PROVE  SchedulerInv'
    <2> DEFINE c == [schedule |-> x.id, task |-> t, cursor |-> x.cursor,
                     due |-> DecideTick(x).due]
    <2> DEFINE m == Forgetting(x)
    <2>1. /\ m \in LoopState /\ m.page = l.page
          /\ m.startup = l.startup /\ m.live = l.live /\ m.reconciling = l.reconciling
          /\ m.active = l.active /\ m.after = l.after /\ m.second = l.second
      BY <1>t, ForgettingFields
    <2>2. /\ DecideTick(x).due = NextDue(x.id, x.cursor) /\ DecideTick(x).due \in Time
          /\ DecideTick(x).due > l.startup /\ SlotFree
      BY <1>1, <1>t, DecisionIsDue
    <2>3. c \in Claim
      BY <1>t, <2>2 DEF Claim
    <2>4. /\ c.schedule = x.id /\ c.task = t /\ c.cursor = x.cursor
          /\ c.due = NextDue(c.schedule, c.cursor) /\ c.due > l.startup
      BY <2>2
    <2>5. l' = [m EXCEPT !.pc = "claim", !.claim = c]
      BY <1>3
    <2>p. "claim" \in LoopPCs /\ c \in Claim \cup {NoClaim}
      BY <2>3 DEF LoopPCs
    <2> HIDE DEF m, c
    <2>6. l' \in LoopState
      BY <2>1, <2>5, <2>p DEF LoopState
    <2>7. /\ l'.pc = "claim" /\ l'.claim = c /\ l'.page = l.page
          /\ l'.startup = l.startup /\ l'.live = l.live /\ l'.reconciling = l.reconciling
          /\ l'.active = l.active /\ l'.after = l.after /\ l'.second = l.second
      BY <2>1, <2>5 DEF LoopState
    <2>8. ClaimIsNext'
      BY <1>1, <1>3, <2>3, <2>4, <2>7 DEF ClaimIsNext, Others, storeVars
    <2>9. SnapshotHolds'
      <3>1. \A s : ActiveTasks(s)' = ActiveTasks(s)
        BY <1>1 DEF ActiveTasks, Others, storeVars
      <3>2. \A u : (Armed(u)' <=> Armed(u)) /\ occ' = occ
        BY <1>1 DEF Armed, Others, storeVars
      <3> QED BY <1>1, <2>7, <3>1, <3>2 DEF SchedulerInv, SnapshotHolds, InScan
    <2> QED BY <1>1, <2>2, <2>6, <2>7, <2>8, <2>9, ScanFrame DEF Up, SlotFree
  <1> QED BY <1>2, <1>3 DEF PrepareCandidate

--------------------
(* Stopping, and spans.                                                    *)

\* A run that gives up keeps its workers until they are joined.
LEMMA StopKeeps ==
  ASSUME SchedulerInv, Up, UNCHANGED <<occ, now, work, results, job, fe, used>>,
         l' = Stopping, sched' \in [Schedules -> [state : States, created : Time, cursor : Time]],
         spans' \in [Schedules -> SUBSET SkipSpan], faults' \in 0..MaxFaults, Disposed'
  PROVE  SchedulerInv'
  <1>1. l.startup \in Time
    BY DEF SchedulerInv, TypeOK, LoopState
  <1>2. /\ l' \in LoopState /\ l'.pc = "stopping" /\ l'.live = {} /\ l'.active = {}
    BY <1>1, NewLoopFields DEF Stopping, LoopPCs
  <1>3. TypeOK'
    BY <1>2 DEF SchedulerInv, TypeOK
  <1>4. \A t : (Armed(t)' <=> Armed(t)) /\ (Dispatching(t)' <=> Dispatching(t))
                 /\ (MayRun(t)' <=> MayRun(t))
    BY DEF Armed, Dispatching, MayRun, Settled
  <1>5. RowsFirst' /\ DownIsQuiet' /\ OneWorker' /\ SlotsAreDispatches' /\ ClaimIsNext'
    BY <1>2, <1>4 DEF SchedulerInv, RowsFirst, DownIsQuiet, OneWorker, SlotsAreDispatches,
       ClaimIsNext, Up
  <1>6. PlacesSuffice'
    <2>1. IsFiniteSet({}) /\ Cardinality({}) = 0
      BY FS_EmptySet
    <2> QED BY <1>2, <2>1, LoopAssumption DEF SchedulerInv, PlacesSuffice, Up
  <1>7. ReportsHold' /\ SnapshotHolds'
    BY <1>2, <1>4 DEF SchedulerInv, ReportsHold, SaysTrue, SnapshotHolds, InScan
  <1>8. OneReservation'
    BY DEF SchedulerInv, OneReservation, ActiveTasks
  <1> QED BY <1>3, <1>5, <1>6, <1>7, <1>8 DEF SchedulerInv, CommandIsPermitted

\* A run that gives up keeps its workers until they are joined.
LEMMA GiveUpKeeps ==
  ASSUME SchedulerInv, Up, l' = Stopping,
         UNCHANGED <<storeVars, now, work, results, job, fe, used>>,
         faults' \in 0..MaxFaults
  PROVE  SchedulerInv'
  <1> USE DEF storeVars
  <1>1. Disposed'
    BY DEF SchedulerInv, Disposed, ClaimedTasks, Covering, Armed
  <1> QED BY <1>1, StopKeeps DEF SchedulerInv, TypeOK

\* A fault that happens is one of the bounded number.
LEMMA FaultsBounded ==
  ASSUME TypeOK, Faulty
  PROVE  faults' \in 0..MaxFaults
  BY LoopAssumption DEF TypeOK, Faulty

\* A span from the cursor to a later instant disposes of what lies between.
LEMMA SpanDisposes ==
  ASSUME SchedulerInv, NEW s \in Schedules, NEW to \in Time, NEW reason \in SkipReasons,
         to > sched[s].cursor, InsertSkipSpan(s, sched[s].cursor, to, reason), UNCHANGED occ,
         NEW state \in States \ {"absent"}, sched[s].state # "absent",
         sched' = [sched EXCEPT ![s] = [@ EXCEPT !.state = state, !.cursor = to]]
  PROVE  /\ sched' \in [Schedules -> [state : States, created : Time, cursor : Time]]
         /\ spans' \in [Schedules -> SUBSET SkipSpan] /\ Disposed'
  <1> DEFINE x == [from |-> sched[s].cursor, to |-> to, reason |-> reason]
  <1>t. /\ sched \in [Schedules -> [state : States, created : Time, cursor : Time]]
        /\ spans \in [Schedules -> SUBSET SkipSpan]
        /\ sched[s].cursor \in Time
    BY DEF SchedulerInv, TypeOK
  <1>n. /\ \A u \in Schedules : sched[u].cursor \in Nat /\ sched[u].created \in Nat
        /\ \A u \in Schedules : \A d \in Calendar[u] : d \in Nat
        /\ to \in Nat
    BY <1>t, TimesAreNaturals, SchedulerAssumption
  <1>1. sched' \in [Schedules -> [state : States, created : Time, cursor : Time]]
    BY <1>t
  <1>2. /\ \A u \in Schedules : u # s => sched'[u] = sched[u]
        /\ sched'[s].created = sched[s].created /\ sched'[s].cursor = to
        /\ sched'[s].state = state
    BY <1>t
  <1>3. x \in SkipSpan /\ x.from = sched[s].cursor /\ x.to = to
    BY <1>t DEF SkipSpan
  <1>4. spans' = [spans EXCEPT ![s] = spans[s] \cup {x}]
    BY DEF InsertSkipSpan
  <1>5. /\ \A u \in Schedules : u # s => spans'[u] = spans[u]
        /\ spans'[s] = spans[s] \cup {x}
    BY <1>4, <1>t
  <1> HIDE DEF x
  <1>6. spans' \in [Schedules -> SUBSET SkipSpan]
    BY <1>3, <1>4, <1>t
  <1>7. \A u, d : ClaimedTasks(u, d)' = ClaimedTasks(u, d)
    BY DEF ClaimedTasks
  <1>8. \A u \in Schedules, d \in Nat :
           Covering(u, d)' = IF u = s /\ sched[s].cursor < d /\ d <= to
                             THEN Covering(s, d) \cup {x} ELSE Covering(u, d)
    BY <1>3, <1>5 DEF Covering
  <1>9. ASSUME NEW u \in Schedules, NEW d \in Calendar[u]
        PROVE  /\ d > sched'[u].cursor => ClaimedTasks(u, d)' = {} /\ Covering(u, d)' = {}
               /\ sched'[u].created < d /\ d <= sched'[u].cursor =>
                     \/ Covering(u, d)' = {} /\ \E t \in Tasks : ClaimedTasks(u, d)' = {t}
                     \/ ClaimedTasks(u, d)' = {} /\ \E y \in SkipSpan : Covering(u, d)' = {y}
    <2>1. /\ d \in Nat
          /\ d > sched[u].cursor => ClaimedTasks(u, d) = {} /\ Covering(u, d) = {}
          /\ sched[u].created < d /\ d <= sched[u].cursor =>
                \/ Covering(u, d) = {} /\ \E t \in Tasks : ClaimedTasks(u, d) = {t}
                \/ ClaimedTasks(u, d) = {} /\ \E y \in SkipSpan : Covering(u, d) = {y}
      BY <1>9, <1>n DEF SchedulerInv, Disposed
    <2>2. CASE u # s BY <1>2, <1>7, <1>8, <2>1, <2>2
    <2>3. CASE u = s /\ d <= sched[s].cursor
      <3>1. Covering(u, d)' = Covering(u, d)
        BY <1>8, <1>n, <2>1, <2>3
      <3> QED BY <1>2, <1>7, <1>n, <2>1, <2>3, <3>1
    <2>4. CASE u = s /\ sched[s].cursor < d /\ d <= to
      <3>1. Covering(u, d)' = {x} /\ ClaimedTasks(u, d)' = {}
        BY <1>7, <1>8, <1>n, <2>1, <2>4
      <3> QED BY <1>2, <1>3, <1>n, <2>1, <2>4, <3>1
    <2>5. CASE u = s /\ d > to
      <3>1. Covering(u, d)' = Covering(u, d)
        BY <1>8, <1>n, <2>1, <2>5
      <3> QED BY <1>2, <1>7, <1>n, <2>1, <2>5, <3>1
    <2> QED BY <1>n, <2>1, <2>2, <2>3, <2>4, <2>5
  <1>10. ASSUME NEW t \in Tasks, Armed(t)'
         PROVE  /\ occ'[t].due \in Calendar[occ'[t].schedule]
                /\ occ'[t].due > sched'[occ'[t].schedule].created
                /\ sched'[occ'[t].schedule].state # "absent"
    <2>1. Armed(t) /\ occ[t].schedule \in Schedules
      BY <1>10 DEF Armed, SchedulerInv, TypeOK, Occurrence
    <2> QED BY <1>2, <2>1 DEF SchedulerInv, Disposed
  <1>11. /\ \A u \in Schedules : sched'[u].created <= sched'[u].cursor
         /\ \A u \in Schedules : sched'[u].state = "absent" => sched'[u] = NoSchedule
    BY <1>2, <1>n DEF SchedulerInv, Disposed
  <1>12. Disposed'
    BY <1>9, <1>10, <1>11 DEF Disposed
  <1> QED BY <1>1, <1>6, <1>12

\* A span is recorded together with the cursor it moves, or not at all.
LEMMA SkipTickKeeps ==
  ASSUME SchedulerInv, UNCHANGED <<job, fe, used>>, NEW x \in l.page, SkipTick(x)
  PROVE  SchedulerInv'
  <1> DEFINE d == DecideTick(x)
  <1> DEFINE s == x.id
  <1>t. /\ TypeOK /\ l \in LoopState /\ x \in Summary /\ s \in Schedules /\ x.cursor \in Time
        /\ sched[s] \in [state : States, created : Time, cursor : Time]
    BY DEF SchedulerInv, TypeOK, LoopState, Summary
  <1>1. l.pc = "consider" /\ l.pass < 3 /\ d.kind = "skip" /\ UNCHANGED <<now, work, results>>
    BY DEF SkipTick, Considering
  <1>2. /\ d.due \in Time /\ d.reason \in SkipReasons /\ NextDue(s, x.cursor) <= d.due
    BY <1>1, <1>t, DecisionIsDue
  <1>3. d.due > x.cursor
    <2>1. NextDue(s, x.cursor) \in Nat /\ NextDue(s, x.cursor) > x.cursor
      BY <1>t, NextDueIsNext
    <2>2. d.due \in Nat /\ x.cursor \in Nat
      BY <1>2, <1>t, TimesAreNaturals
    <2> HIDE DEF d, s
    <2> QED BY <1>2, <2>1, <2>2
  <1>u. Up /\ InScan
    BY <1>1 DEF Up, InScan
  <1>4. ASSUME RecordSkip(s, x.cursor, d.due, d.reason)
        PROVE  /\ sched' \in [Schedules -> [state : States, created : Time, cursor : Time]]
               /\ spans' \in [Schedules -> SUBSET SkipSpan] /\ Disposed' /\ occ' = occ
    <2> DEFINE to == d.due
    <2> DEFINE reason == d.reason
    <2>1. /\ sched[s].state = "enabled" /\ sched[s].cursor = x.cursor /\ UNCHANGED occ
          /\ InsertSkipSpan(s, sched[s].cursor, to, reason)
          /\ sched' = [sched EXCEPT ![s].cursor = to]
      BY <1>4 DEF RecordSkip, SkipAllowed
    <2>2. "enabled" \in States \ {"absent"} /\ to > sched[s].cursor
      BY <1>3, <2>1 DEF States
    <2> HIDE DEF d, s, to, reason
    <2>3. [sched[s] EXCEPT !.cursor = to] = [sched[s] EXCEPT !.state = "enabled", !.cursor = to]
      BY <1>t, <2>1
    <2>4. sched' = [sched EXCEPT ![s] = [sched[s] EXCEPT !.state = "enabled", !.cursor = to]]
      BY <2>1, <2>3
    <2>5. to \in Time /\ reason \in SkipReasons
      BY <1>2 DEF to, reason
    <2> QED BY <1>t, <2>1, <2>2, <2>4, <2>5, SpanDisposes
  <1>5. CASE /\ RecordSkip(s, x.cursor, d.due, d.reason)
             /\ l' = AfterSkip(x, d.due)
             /\ UNCHANGED faults
    <2> DEFINE held == [l.held EXCEPT ![s] = 0]
    <2> DEFINE pass == l.pass + 1
    <2> DEFINE page == (l.page \ {x}) \cup {[x EXCEPT !.cursor = d.due]}
    <2>1. l' = [l EXCEPT !.held = held, !.pass = pass, !.page = page]
      BY <1>5 DEF AfterSkip
    <2>2. held \in [Schedules -> Time] /\ pass \in 0..3
      BY <1>1, <1>t, TimesAreNaturals DEF LoopState
    <2>3. page \in SUBSET Summary /\ \A y \in page : \E z \in l.page : y.id = z.id
      BY <1>2, <1>t DEF LoopState, Summary
    <2> HIDE DEF held, pass, page, d
    <2>4. l' \in LoopState
      BY <1>t, <2>1, <2>2, <2>3 DEF LoopState
    <2>5. /\ l'.pc = "consider" /\ l'.page = page /\ l'.live = l.live
          /\ l'.reconciling = l.reconciling
          /\ l'.active = l.active /\ l'.after = l.after /\ l'.second = l.second
      BY <1>1, <1>t, <2>1 DEF LoopState
    <2>6. TypeOK'
      BY <1>1, <1>4, <1>5, <1>t, <2>4 DEF TypeOK
    <2>7. ClaimIsNext'
      BY <2>5 DEF ClaimIsNext
    <2>8. SnapshotHolds'
      <3>1. \A u : ActiveTasks(u)' = ActiveTasks(u)
        BY <1>4, <1>5 DEF ActiveTasks
      <3>2. \A t : (Armed(t)' <=> Armed(t)) /\ occ' = occ
        BY <1>4, <1>5 DEF Armed
      <3> QED BY <1>1, <1>u, <2>3, <2>5, <3>1, <3>2 DEF SchedulerInv, SnapshotHolds, InScan
    <2> QED BY <1>1, <1>4, <1>5, <1>u, <2>5, <2>6, <2>7, <2>8, LoopFrame
  <1>6. CASE l' = NextSummary(Forgetting(x), s) /\ UNCHANGED <<storeVars, faults>>
    BY <1>1, <1>6, <1>t, <1>u, ForgettingFields, NextSummaryKeeps DEF Others
  <1>7. CASE RecordSkip(s, x.cursor, d.due, d.reason) /\ l' = Stopping /\ Faulty
    BY <1>1, <1>4, <1>7, <1>t, <1>u, FaultsBounded, StopKeeps
  <1> QED BY <1>5, <1>6, <1>7 DEF SkipTick

--------------------
(* Claims.                                                                 *)

\* The occurrence a claim arms.
Row(c) == [NoOccurrence EXCEPT !.schedule = c.schedule, !.due = c.due]

\* A claim disposes of the next due time and takes the reservation.
LEMMA ClaimArms ==
  ASSUME SchedulerInv, l.pc = "claim", NEW c \in Claim, c = l.claim,
         ClaimAndArm(c.schedule, c.task, c.cursor, c.due)
  PROVE  /\ sched' \in [Schedules -> [state : States, created : Time, cursor : Time]]
         /\ spans' \in [Schedules -> SUBSET SkipSpan]
         /\ occ' \in [Tasks -> Occurrence \cup {NoOccurrence}]
         /\ Disposed'
         /\ occ[c.task] = NoOccurrence /\ occ'[c.task] = Row(c)
         /\ Row(c) \in Occurrence /\ Row(c) # NoOccurrence
         /\ Row(c).schedule = c.schedule /\ Row(c).release = "none" /\ Row(c).admission = "none"
         /\ \A u \in Tasks : u # c.task => occ'[u] = occ[u]
         /\ \A u : Armed(u)' <=> Armed(u) \/ u = c.task
         /\ ActiveTasks(c.schedule) = {} /\ ActiveTasks(c.schedule)' = {c.task}
         /\ \A s \in Schedules : s # c.schedule => ActiveTasks(s)' = ActiveTasks(s)
  <1> DEFINE s == c.schedule
  <1> DEFINE t == c.task
  <1>t. /\ sched \in [Schedules -> [state : States, created : Time, cursor : Time]]
        /\ spans \in [Schedules -> SUBSET SkipSpan]
        /\ occ \in [Tasks -> Occurrence \cup {NoOccurrence}]
        /\ s \in Schedules /\ t \in Tasks /\ c.cursor \in Time /\ c.due \in Time
        /\ 0 \notin Schedules
    BY SchedulerAssumption DEF SchedulerInv, TypeOK, Claim
  <1>n. /\ \A u \in Schedules : sched[u].cursor \in Nat /\ sched[u].created \in Nat
        /\ \A u \in Schedules : \A d \in Calendar[u] : d \in Nat
    BY <1>t, TimesAreNaturals, SchedulerAssumption
  <1>1. /\ ClaimedTasks(s, c.due) = {} /\ sched[s].state = "enabled"
        /\ sched[s].cursor = c.cursor /\ ActiveTasks(s) = {}
        /\ occ' = [occ EXCEPT ![t] = Row(c)]
        /\ sched' = [sched EXCEPT ![s].cursor = c.due]
        /\ spans' = spans
    BY DEF ClaimAndArm, ClaimAllowed, Row
  <1>2. /\ c.due = NextDue(s, c.cursor) /\ occ[t] = NoOccurrence
    BY DEF SchedulerInv, ClaimIsNext
  <1>3. /\ c.due \in Calendar[s] /\ c.due > c.cursor /\ c.due \in Nat
        /\ \A e \in Calendar[s] : e > c.cursor => c.due <= e
    BY <1>2, <1>t, NextDueIsNext
  <1>4. /\ NoOccurrence \in [schedule : Schedules \cup {0}, due : Time, admission : Admissions,
                             observedAt : Time, release : Releases]
        /\ NoOccurrence.schedule = 0 /\ NoOccurrence.release = "none"
        /\ NoOccurrence.admission = "none"
    BY TimesAreNaturals DEF NoOccurrence, Admissions, Releases
  <1>5. /\ Row(c) \in Occurrence /\ Row(c) # NoOccurrence /\ Row(c).schedule = s
        /\ Row(c).due = c.due /\ Row(c).release = "none" /\ Row(c).admission = "none"
    BY <1>4, <1>t DEF Occurrence, Row
  <1>6. /\ occ' \in [Tasks -> Occurrence \cup {NoOccurrence}] /\ occ'[t] = Row(c)
        /\ \A u \in Tasks : u # t => occ'[u] = occ[u]
    BY <1>1, <1>5, <1>t
  <1>7. /\ sched' \in [Schedules -> [state : States, created : Time, cursor : Time]]
        /\ \A u \in Schedules : u # s => sched'[u] = sched[u]
        /\ sched'[s].cursor = c.due /\ sched'[s].created = sched[s].created
        /\ sched'[s].state = "enabled"
    BY <1>1, <1>t
  <1>8. NoOccurrence.schedule = 0
    BY DEF NoOccurrence
  <1>9. \A u : Armed(u)' <=> Armed(u) \/ u = t
    BY <1>5, <1>6, <1>t DEF Armed
  <1>10. ActiveTasks(s)' = {t}
    BY <1>1, <1>2, <1>5, <1>6, <1>t DEF ActiveTasks
  <1>11. \A u \in Schedules : u # s => ActiveTasks(u)' = ActiveTasks(u)
    BY <1>2, <1>5, <1>6, <1>8, <1>t DEF ActiveTasks
  <1>12. \A u \in Schedules : \A d : ClaimedTasks(u, d)' =
            IF u = s /\ d = c.due THEN {t} ELSE ClaimedTasks(u, d)
    BY <1>1, <1>2, <1>5, <1>6, <1>8, <1>t DEF ClaimedTasks
  <1>13. \A u, d : Covering(u, d)' = Covering(u, d)
    BY <1>1 DEF Covering
  <1> HIDE DEF s, t, Row
  <1>14. ASSUME NEW u \in Schedules, NEW d \in Calendar[u]
         PROVE  /\ d > sched'[u].cursor => ClaimedTasks(u, d)' = {} /\ Covering(u, d)' = {}
                /\ sched'[u].created < d /\ d <= sched'[u].cursor =>
                     \/ Covering(u, d)' = {} /\ \E v \in Tasks : ClaimedTasks(u, d)' = {v}
                     \/ ClaimedTasks(u, d)' = {} /\ \E y \in SkipSpan : Covering(u, d)' = {y}
    <2>1. /\ d \in Nat
          /\ d > sched[u].cursor => ClaimedTasks(u, d) = {} /\ Covering(u, d) = {}
          /\ sched[u].created < d /\ d <= sched[u].cursor =>
                \/ Covering(u, d) = {} /\ \E v \in Tasks : ClaimedTasks(u, d) = {v}
                \/ ClaimedTasks(u, d) = {} /\ \E y \in SkipSpan : Covering(u, d) = {y}
      BY <1>n DEF SchedulerInv, Disposed
    <2>2. CASE u # s BY <1>7, <1>12, <1>13, <2>1, <2>2
    <2>3. CASE u = s /\ d = c.due
      <3>1. ClaimedTasks(u, d)' = {t} /\ Covering(u, d)' = Covering(u, d)
        BY <1>12, <1>13, <2>3
      <3>2. sched'[u].cursor = d /\ d > sched[u].cursor
        BY <1>1, <1>3, <1>7, <2>3
      <3> QED BY <1>t, <2>1, <3>1, <3>2
    <2>4. CASE u = s /\ d # c.due
      <3>1. d <= sched[s].cursor \/ d > c.due
        <4>1. d \in Nat /\ c.cursor \in Nat /\ c.due \in Nat
          BY <1>3, <1>t, <2>1, TimesAreNaturals
        <4>2. d > c.cursor => c.due <= d
          BY <1>3, <2>4
        <4> QED BY <1>1, <2>4, <4>1, <4>2
      <3>2. ClaimedTasks(u, d)' = ClaimedTasks(u, d) /\ Covering(u, d)' = Covering(u, d)
        BY <1>12, <1>13, <2>4
      <3> QED BY <1>1, <1>3, <1>7, <1>n, <1>t, <2>1, <2>4, <3>1, <3>2
    <2> QED BY <2>2, <2>3, <2>4
  <1>15. ASSUME NEW u \in Tasks, Armed(u)'
         PROVE  /\ occ'[u].due \in Calendar[occ'[u].schedule]
                /\ occ'[u].due > sched'[occ'[u].schedule].created
                /\ sched'[occ'[u].schedule].state # "absent"
    <2>1. CASE u = t
      <3>1. c.due > sched[s].created
        BY <1>1, <1>3, <1>n, <1>t DEF SchedulerInv, Disposed
      <3> QED BY <1>3, <1>5, <1>6, <1>7, <2>1, <3>1
    <2>2. CASE u # t
      <3>1. Armed(u) /\ occ[u].schedule \in Schedules /\ occ'[u] = occ[u]
        BY <1>6, <1>9, <1>15, <1>t, <2>2 DEF Armed, Occurrence
      <3> QED BY <1>7, <3>1 DEF SchedulerInv, Disposed
    <2> QED BY <2>1, <2>2
  <1>16. /\ \A u \in Schedules : sched'[u].created <= sched'[u].cursor
         /\ \A u \in Schedules : sched'[u].state = "absent" => sched'[u] = NoSchedule
    BY <1>1, <1>3, <1>7, <1>n, <1>t DEF SchedulerInv, Disposed
  <1>17. Disposed'
    BY <1>14, <1>15, <1>16 DEF Disposed
  <1> QED BY <1>1, <1>2, <1>5, <1>6, <1>7, <1>9, <1>10, <1>11, <1>17, <1>t DEF s, t

\* A claim in progress gives up its summary.
LEMMA ClaimReturnsKeeps ==
  ASSUME SchedulerInv, UNCHANGED <<job, fe, used>>, ClaimTooLate \/ ClaimConflicts
  PROVE  SchedulerInv'
  <1>1. /\ l.pc = "claim" /\ UNCHANGED Others /\ l' = NextSummary(l, l.claim.schedule)
    BY DEF ClaimTooLate, ClaimConflicts, Claiming, Others
  <1>2. l \in LoopState
    BY DEF SchedulerInv, TypeOK
  <1> QED BY <1>1, <1>2, NextSummaryKeeps DEF InScan

\* A claim that commits arms a row, takes a slot and starts one worker.
LEMMA ClaimCommitsKeeps ==
  ASSUME SchedulerInv, UNCHANGED <<job, fe, used>>, ClaimCommits
  PROVE  SchedulerInv'
  <1>c. l.pc = "claim" /\ l.claim \in Claim
    BY DEF ClaimCommits, Claiming, SchedulerInv, ClaimIsNext
  <1> PICK c \in Claim : c = l.claim
    BY <1>c
  <1> PICK s \in Schedules, t \in Tasks : s = c.schedule /\ t = c.task
    BY DEF Claim
  <1> DEFINE live == l.live \cup {t}
  <1> DEFINE held == [l.held EXCEPT ![s] = 0]
  <1> DEFINE m == [l EXCEPT !.live = live, !.held = held, !.selectionAfter = s]
  <1>1. /\ l.pc = "claim" /\ ClaimAndArm(s, t, c.cursor, c.due) /\ l' = NextSummary(m, s)
        /\ work' = work \cup {<<t, "dispatch">>} /\ UNCHANGED <<now, results, faults>>
    BY DEF ClaimCommits, Claiming
  <1>t. /\ l \in LoopState /\ c \in Claim /\ s \in Schedules /\ t \in Tasks
        /\ Cardinality(l.live) < AdmissionLimit
    BY <1>1 DEF SchedulerInv, TypeOK, ClaimIsNext, Claim, PlacesSuffice
  <1>2. /\ sched' \in [Schedules -> [state : States, created : Time, cursor : Time]]
        /\ spans' \in [Schedules -> SUBSET SkipSpan]
        /\ occ' \in [Tasks -> Occurrence \cup {NoOccurrence}]
        /\ Disposed'
        /\ occ[t] = NoOccurrence /\ occ'[t] = Row(c)
        /\ Row(c).release = "none" /\ Row(c).admission = "none"
        /\ \A u \in Tasks : u # t => occ'[u] = occ[u]
        /\ \A u : Armed(u)' <=> Armed(u) \/ u = t
        /\ ActiveTasks(s)' = {t}
        /\ \A u \in Schedules : u # s => ActiveTasks(u)' = ActiveTasks(u)
    BY <1>1, <1>t, ClaimArms
  <1>3. ~Armed(t)
    BY <1>2 DEF Armed
  <1>4. live \in SUBSET Tasks /\ held \in [Schedules -> Time]
    BY <1>t, TimesAreNaturals DEF LoopState
  <1> HIDE DEF live, held
  <1>5. m \in LoopState
    BY <1>4, <1>t DEF LoopState
  <1>6. /\ m.page = l.page /\ m.startup = l.startup /\ m.live = live
        /\ m.reconciling = l.reconciling /\ m.active = l.active /\ m.after = l.after
        /\ m.second = l.second
    BY <1>t DEF LoopState
  <1> HIDE DEF m
  <1>7. /\ l' \in LoopState /\ l'.pc = "consider" /\ l'.page = {y \in l.page : y.id # s}
        /\ l'.live = live /\ l'.reconciling = l.reconciling
        /\ l'.active = l.active /\ l'.after = l.after /\ l'.second = l.second
    BY <1>1, <1>5, <1>6, NextSummaryFields
  <1>u. Up /\ Up' /\ InScan /\ InScan'
    BY <1>1, <1>7 DEF Up, InScan
  <1>8. /\ \A u : u # t => (Dispatching(u)' <=> Dispatching(u)) /\ (MayRun(u)' <=> MayRun(u))
        /\ Dispatching(t)' /\ ~Dispatching(t) /\ <<t, "observe">> \notin work
        /\ <<t, "dispatch">> \notin work
    <2>1. \A w \in work : w[1] # t
      BY <1>3 DEF SchedulerInv, RowsFirst
    <2>2. <<t, "observe">> \notin work /\ <<t, "dispatch">> \notin work
      BY <2>1
    <2>3. \A u : u # t => (<<u, "dispatch">> \in work' <=> <<u, "dispatch">> \in work)
      BY <1>1
    <2>4. <<t, "dispatch">> \in work'
      BY <1>1
    <2>5. job' = job
      OBVIOUS
    <2> QED BY <2>2, <2>3, <2>4, <2>5 DEF Dispatching, MayRun, Settled
  <1>9. \A i \in DOMAIN results : results[i].task # t
    BY <1>3 DEF SchedulerInv, RowsFirst
  <1>10. TypeOK'
    <2>1. work' \subseteq Workers
      BY <1>1, <1>t DEF SchedulerInv, TypeOK, Workers
    <2> QED BY <1>1, <1>2, <1>7, <2>1 DEF SchedulerInv, TypeOK
  <1>11. RowsFirst'
    BY <1>1, <1>2, <1>7 DEF SchedulerInv, RowsFirst, live
  <1>12. DownIsQuiet' /\ ClaimIsNext'
    BY <1>7 DEF DownIsQuiet, ClaimIsNext
  <1>13. OneWorker'
    BY <1>1, <1>8, <1>9 DEF SchedulerInv, OneWorker, Dispatching
  <1>14. SlotsAreDispatches'
    <2>1. /\ \A u \in Tasks : Dispatching(u) => u \in l.live
          /\ \A u \in l.live : \/ Dispatching(u)
                               \/ \E i \in DOMAIN results :
                                     results[i].dispatch /\ results[i].task = u
      BY <1>u DEF SchedulerInv, SlotsAreDispatches
    <2>2. \A u \in Tasks : Dispatching(u)' => u \in live
      BY <1>8, <2>1 DEF live
    <2>3. \A u \in live : \/ Dispatching(u)'
                          \/ \E i \in DOMAIN results :
                                results[i].dispatch /\ results[i].task = u
      BY <1>8, <2>1 DEF live
    <2> QED BY <1>1, <1>7, <2>2, <2>3 DEF SlotsAreDispatches
  <1>15. PlacesSuffice'
    <2>1. /\ IsFiniteSet(work) /\ IsFiniteSet(l.live) /\ t \notin l.live
          /\ Len(results) + Cardinality(work) <= Cardinality(l.live) + Observers
      BY <1>3, <1>u DEF SchedulerInv, PlacesSuffice, RowsFirst
    <2>2. /\ IsFiniteSet(live) /\ Cardinality(live) = Cardinality(l.live) + 1
          /\ IsFiniteSet(work') /\ Cardinality(work') = Cardinality(work) + 1
      BY <1>1, <1>8, <2>1, FS_AddElement DEF live
    <2>3. /\ Cardinality(work) \in Nat /\ Cardinality(l.live) \in Nat /\ Len(results) \in Nat
          /\ AdmissionLimit \in Nat
      BY <2>1, FS_CardinalityType, LoopAssumption DEF SchedulerInv, TypeOK
    <2>4. Observers \in 0..1 /\ Observers' = Observers
      BY <1>7 DEF Observers
    <2> QED BY <1>1, <1>7, <1>t, <2>1, <2>2, <2>3, <2>4 DEF PlacesSuffice
  <1>16. ReportsHold'
    <2>1. \A i \in DOMAIN results :
             SaysTrue(results[i].task, results[i].admission, results[i].release)'
      BY <1>1, <1>8, <1>9 DEF SchedulerInv, ReportsHold, SaysTrue
    <2>2. \A u \in Tasks : SaysTrue(u, occ[u].admission, occ[u].release)'
      BY <1>2, <1>8 DEF SchedulerInv, ReportsHold, SaysTrue
    <2> QED BY <1>1, <1>7, <2>1, <2>2 DEF ReportsHold
  <1>17. OneReservation'
    <2> SUFFICES ASSUME NEW u \in Schedules, NEW a \in ActiveTasks(u)', NEW b \in ActiveTasks(u)'
                 PROVE  a = b
      BY DEF OneReservation
    <2>1. CASE u = s BY <1>2, <2>1
    <2>2. CASE u # s BY <1>2, <2>2 DEF SchedulerInv, OneReservation
    <2> QED BY <2>1, <2>2
  <1>18. SnapshotHolds'
    <2>0. \A x \in l.page : x.id \in Schedules
      BY <1>t DEF LoopState, Summary
    <2>1. \A x \in l'.page : x \in l.page /\ ActiveTasks(x.id)' = ActiveTasks(x.id)
      BY <1>2, <1>7, <2>0
    <2>2. \A x \in l.page : ActiveTasks(x.id) \subseteq l.active
      BY <1>1, <1>u DEF SchedulerInv, SnapshotHolds
    <2>3. \A u \in l.active : Armed(u)' /\ occ'[u].release = "none"
      BY <1>2, <1>3 DEF SchedulerInv, SnapshotHolds, Armed
    <2>4. ~l.second => /\ \A x \in l.page : x.id > l.after
                       /\ \A u \in Schedules : u <= l.after => ActiveTasks(u) \subseteq l.active
      BY <1>u DEF SchedulerInv, SnapshotHolds
    <2>5. \E x \in l.page : x.id = s
      BY <1>1 DEF SchedulerInv, ClaimIsNext
    <2>6. l.after \in Nat /\ s \in Nat
      <3>1. l.after \in Schedules \cup {0}
        BY <1>t DEF LoopState
      <3>2. Schedules \subseteq Nat
        BY SchedulerAssumption
      <3> QED BY <1>t, <3>1, <3>2
    <2>7. ~l.second => \A u \in Schedules : u <= l.after => ActiveTasks(u)' \subseteq l.active
      BY <1>2, <2>4, <2>5, <2>6
    <2> QED BY <1>7, <1>u, <2>1, <2>2, <2>3, <2>4, <2>7 DEF SnapshotHolds
  <1> QED BY <1>2, <1>10, <1>11, <1>12, <1>13, <1>14, <1>15, <1>16, <1>17, <1>18
       DEF SchedulerInv, CommandIsPermitted

\* A claim whose outcome is unknown leads to the readback, armed or not.
LEMMA ClaimUncertainKeeps ==
  ASSUME SchedulerInv, UNCHANGED <<job, fe, used>>, ClaimUncertain
  PROVE  SchedulerInv'
  <1>c. l.pc = "claim" /\ l.claim \in Claim
    BY DEF ClaimUncertain, Claiming, SchedulerInv, ClaimIsNext
  <1> PICK c \in Claim : c = l.claim
    BY <1>c
  <1> PICK s \in Schedules, t \in Tasks : s = c.schedule /\ t = c.task
    BY DEF Claim
  <1>1. /\ l' = [l EXCEPT !.pc = "readback"] /\ UNCHANGED <<now, work, results>>
        /\ faults' \in 0..MaxFaults
        /\ ClaimAndArm(s, t, c.cursor, c.due) \/ UNCHANGED storeVars
    BY FaultsBounded DEF ClaimUncertain, SchedulerInv
  <1>t. /\ l \in LoopState /\ Cardinality(l.live) < AdmissionLimit
        /\ c.due = NextDue(s, c.cursor) /\ c.due > l.startup
        /\ occ[t] = NoOccurrence /\ \E x \in l.page : x.id = s
    BY <1>c DEF SchedulerInv, TypeOK, ClaimIsNext, PlacesSuffice
  <1>p. "readback" \in LoopPCs
    BY DEF LoopPCs
  <1>2. /\ l' \in LoopState /\ l'.pc = "readback" /\ l'.page = l.page /\ l'.claim = c
        /\ l'.live = l.live /\ l'.reconciling = l.reconciling /\ l'.startup = l.startup
        /\ l'.active = l.active /\ l'.after = l.after /\ l'.second = l.second
    BY <1>1, <1>p, <1>t DEF LoopState
  <1>u. Up /\ Up' /\ InScan /\ InScan'
    BY <1>2, <1>c DEF Up, InScan
  <1>s. /\ \A x \in l.page : x.id \in Schedules /\ ActiveTasks(x.id) \subseteq l.active
        /\ \A u \in l.active : Armed(u) /\ occ[u].release = "none"
        /\ ~l.second => /\ \A x \in l.page : x.id > l.after
                        /\ \A u \in Schedules : u <= l.after => ActiveTasks(u) \subseteq l.active
    BY <1>c, <1>t, <1>u DEF SchedulerInv, SnapshotHolds, LoopState, Summary
  <1>n. l.after \in Nat /\ s \in Nat
    BY <1>t, SchedulerAssumption DEF LoopState
  <1>3. CASE UNCHANGED storeVars
    <2> USE <1>3 DEF storeVars
    <2>1. TypeOK'
      BY <1>1, <1>2 DEF SchedulerInv, TypeOK
    <2>2. Disposed'
      BY DEF SchedulerInv, Disposed, ClaimedTasks, Covering, Armed
    <2>3. ClaimIsNext'
      BY <1>2, <1>t DEF ClaimIsNext
    <2>4. SnapshotHolds'
      <3>1. \A u : ActiveTasks(u)' = ActiveTasks(u)
        BY DEF ActiveTasks
      <3>2. \A u : (Armed(u)' <=> Armed(u)) /\ occ' = occ
        BY DEF Armed
      <3> QED BY <1>2, <1>s, <1>u, <3>1, <3>2 DEF SnapshotHolds
    <2> QED BY <1>1, <1>2, <1>t, <1>u, <2>1, <2>2, <2>3, <2>4, LoopFrame
  <1>4. CASE ClaimAndArm(s, t, c.cursor, c.due)
    <2>1. /\ sched' \in [Schedules -> [state : States, created : Time, cursor : Time]]
          /\ spans' \in [Schedules -> SUBSET SkipSpan]
          /\ occ' \in [Tasks -> Occurrence \cup {NoOccurrence}]
          /\ Disposed'
          /\ occ'[t] = Row(c) /\ Row(c).schedule = s
          /\ Row(c).release = "none" /\ Row(c).admission = "none"
          /\ \A u \in Tasks : u # t => occ'[u] = occ[u]
          /\ \A u : Armed(u)' <=> Armed(u) \/ u = t
          /\ ActiveTasks(s)' = {t}
          /\ \A u \in Schedules : u # s => ActiveTasks(u)' = ActiveTasks(u)
      BY <1>4, <1>c, ClaimArms
    <2>2. ~Armed(t)
      BY <1>t DEF Armed
    <2>3. \A u : (Dispatching(u)' <=> Dispatching(u)) /\ (MayRun(u)' <=> MayRun(u))
      BY <1>1 DEF Dispatching, MayRun, Settled
    <2>4. TypeOK'
      BY <1>1, <1>2, <2>1 DEF SchedulerInv, TypeOK
    <2>5. RowsFirst' /\ DownIsQuiet' /\ OneWorker' /\ SlotsAreDispatches'
      BY <1>1, <1>2, <1>u, <2>1, <2>3 DEF SchedulerInv, RowsFirst, DownIsQuiet, OneWorker,
         SlotsAreDispatches
    <2>6. PlacesSuffice'
      BY <1>1, <1>2, <1>t, <1>u DEF SchedulerInv, PlacesSuffice, Observers
    <2>7. ClaimIsNext'
      BY <1>2, <1>t, <2>1 DEF ClaimIsNext
    <2>8. ReportsHold'
      <3>1. \A i \in DOMAIN results :
               SaysTrue(results[i].task, results[i].admission, results[i].release)'
        BY <1>1, <2>3 DEF SchedulerInv, ReportsHold, SaysTrue
      <3>2. \A u \in Tasks : SaysTrue(u, occ[u].admission, occ[u].release)'
        BY <2>1, <2>3 DEF SchedulerInv, ReportsHold, SaysTrue
      <3> QED BY <1>1, <1>2, <3>1, <3>2 DEF ReportsHold
    <2>9. OneReservation'
      BY <2>1 DEF SchedulerInv, OneReservation
    <2>10. SnapshotHolds'
      <3>1. \A x \in l.page : ActiveTasks(x.id)' \subseteq l.active \cup {t}
        BY <1>s, <2>1
      <3>2. \A u \in l.active : Armed(u)' /\ occ'[u].release = "none"
        BY <1>s, <2>1, <2>2 DEF Armed
      <3>3. ~l.second => \A u \in Schedules : u <= l.after => ActiveTasks(u)' \subseteq l.active
        BY <1>n, <1>s, <1>t, <2>1
      <3> QED BY <1>2, <1>s, <1>u, <3>1, <3>2, <3>3 DEF SnapshotHolds
    <2> QED BY <2>1, <2>4, <2>5, <2>6, <2>7, <2>8, <2>9, <2>10 DEF SchedulerInv, CommandIsPermitted
  <1> QED BY <1>1, <1>3, <1>4

\* The readback leaves a row it finds to observation, and starts no worker.
LEMMA ClaimReadbackKeeps ==
  ASSUME SchedulerInv, UNCHANGED <<job, fe, used>>, ClaimReadback
  PROVE  SchedulerInv'
  <1>t. l \in LoopState /\ faults \in 0..MaxFaults
    BY DEF SchedulerInv, TypeOK
  <1>1. l.pc = "readback" /\ UNCHANGED Others
    BY DEF ClaimReadback, AfterReadback, Others
  <1>u. Up /\ InScan
    BY <1>1 DEF Up, InScan
  <1>2. CASE occ[l.claim.task] # NoOccurrence
    <2>1. l' = NextSummary(l, l.claim.schedule)
      BY <1>2 DEF ClaimReadback
    <2> QED BY <1>1, <1>t, <1>u, <2>1, NextSummaryKeeps
  <1>3. CASE occ[l.claim.task] = NoOccurrence /\ l.attempt = 1 /\ InWindow(l.claim.due)
    <2>1. l' = [l EXCEPT !.pc = "claim", !.attempt = 2]
      BY <1>3 DEF ClaimReadback
    <2>p. "claim" \in LoopPCs /\ 2 \in 1..2
      BY DEF LoopPCs
    <2>2. /\ l' \in LoopState /\ l'.pc = "claim" /\ l'.page = l.page /\ l'.claim = l.claim
          /\ l'.live = l.live /\ l'.reconciling = l.reconciling /\ l'.startup = l.startup
          /\ l'.active = l.active /\ l'.after = l.after /\ l'.second = l.second
      BY <1>t, <2>1, <2>p DEF LoopState
    <2>3. ClaimIsNext'
      BY <1>1, <1>3, <2>2 DEF SchedulerInv, ClaimIsNext, Others, storeVars
    <2>4. SnapshotHolds'
      <3>1. \A u : ActiveTasks(u)' = ActiveTasks(u)
        BY <1>1 DEF ActiveTasks, Others, storeVars
      <3>2. \A u : (Armed(u)' <=> Armed(u)) /\ occ' = occ
        BY <1>1 DEF Armed, Others, storeVars
      <3>3. InScan' /\ l'.pc # "readback"
        BY <2>2 DEF InScan
      <3>4. \A x \in l.page : l.claim.task \notin ActiveTasks(x.id)
        <4>1. \A x \in l.page : x.id # 0
          BY <1>t, SchedulerAssumption DEF LoopState, Summary
        <4> QED BY <1>3, <4>1 DEF ActiveTasks, NoOccurrence
      <3> QED BY <1>1, <1>u, <2>2, <3>1, <3>2, <3>3, <3>4 DEF SchedulerInv, SnapshotHolds
    <2>5. Cardinality(l.live) < AdmissionLimit
      BY <1>1 DEF SchedulerInv, PlacesSuffice
    <2> QED BY <1>1, <1>u, <2>2, <2>3, <2>4, <2>5, ScanFrame
  <1>4. CASE l' = Stopping BY <1>1, <1>4, <1>t, <1>u, GiveUpKeeps DEF Others
  <1> QED BY <1>2, <1>3, <1>4 DEF ClaimReadback

\* A cancelled run stops.
LEMMA RunEndsKeeps ==
  ASSUME SchedulerInv, UNCHANGED <<job, fe, used>>, RunEnds
  PROVE  SchedulerInv'
  BY GiveUpKeeps DEF RunEnds, SchedulerInv, TypeOK

--------------------
(* Observing.                                                              *)

\* An observation takes the one place of observers, for a task without worker.
LEMMA StartObservationKeeps ==
  ASSUME SchedulerInv, UNCHANGED <<job, fe, used>>, StartObservation
  PROVE  SchedulerInv'
  <1>t. l \in LoopState
    BY DEF SchedulerInv, TypeOK
  <1>1. l.pc = "consider" /\ UNCHANGED <<storeVars, now, results, faults>>
    BY DEF StartObservation
  <1>u. Up /\ InScan
    BY <1>1 DEF Up, InScan
  <1>p. "idle" \in LoopPCs
    BY DEF LoopPCs
  <1>s. ASSUME NEW m \in LoopState
        PROVE  /\ ScanEnds(m) \in LoopState /\ ScanEnds(m).pc = "idle"
               /\ ScanEnds(m).live = m.live /\ ScanEnds(m).reconciling = m.reconciling
               /\ ScanEnds(m).active = {}
    BY <1>p DEF ScanEnds, LoopState
  <1>2. CASE l' = ScanEnds(l) /\ UNCHANGED work
    <2>1. /\ l' \in LoopState /\ l'.pc = "idle" /\ l'.live = l.live
          /\ l'.reconciling = l.reconciling /\ l'.active = {}
      BY <1>2, <1>s, <1>t
    <2>2. ClaimIsNext' /\ SnapshotHolds'
      BY <2>1 DEF ClaimIsNext, SnapshotHolds, InScan
    <2> QED BY <1>1, <1>2, <1>u, <2>1, <2>2, ScanFrame DEF Others
  <1>3. ASSUME ObserverFree, NEW dueOnly \in BOOLEAN, NEW t \in Observable(dueOnly),
               NEW due,
               due = IF dueOnly THEN l.held[occ[t].schedule] ELSE l.observedDue[t],
               l' = ScanEnds([l EXCEPT !.reconciling = t,
                                       !.observedRound = l.observedRound \cup {t},
                                       !.observedDue = [l.observedDue EXCEPT ![t] = due],
                                       !.idleAfter = occ[t].schedule]),
               work' = work \cup {<<t, "observe">>}
        PROVE  SchedulerInv'
    <2>1. t \in l.active /\ t \notin l.live /\ l.reconciling = 0
      BY <1>3 DEF Observable, ObserverFree
    <2>2. t \in Tasks /\ Armed(t)
      BY <2>1 DEF SchedulerInv, SnapshotHolds, Armed
    <2>3. occ[t].schedule \in Schedules
      BY <2>2 DEF SchedulerInv, TypeOK, Armed, Occurrence
    <2>4. due \in Time
      BY <1>3, <1>t, <2>2, <2>3 DEF LoopState
    <2> DEFINE round == l.observedRound \cup {t}
    <2> DEFINE dues == [l.observedDue EXCEPT ![t] = due]
    <2> DEFINE s == occ[t].schedule
    <2> DEFINE m == [l EXCEPT !.reconciling = t, !.observedRound = round, !.observedDue = dues,
                              !.idleAfter = s]
    <2>5. /\ t \in Tasks \cup {0} /\ round \in SUBSET Tasks /\ dues \in [Tasks -> Time]
          /\ s \in Schedules \cup {0}
      BY <1>t, <2>2, <2>3, <2>4 DEF LoopState
    <2>6. l' = ScanEnds(m)
      BY <1>3
    <2> HIDE DEF round, dues, s
    <2>7. m \in LoopState
      BY <1>t, <2>5 DEF LoopState
    <2>8. m.live = l.live /\ m.reconciling = t
      BY <1>t DEF LoopState
    <2> HIDE DEF m
    <2>9. /\ l' \in LoopState /\ l'.pc = "idle" /\ l'.live = l.live
          /\ l'.reconciling = t /\ l'.active = {}
      BY <1>s, <2>6, <2>7, <2>8
    <2>10. Up'
      BY <2>9 DEF Up
    <2>11. /\ \A u : (Dispatching(u)' <=> Dispatching(u)) /\ (MayRun(u)' <=> MayRun(u))
           /\ \A u : Armed(u)' <=> Armed(u)
           /\ ~Dispatching(t)
      BY <1>1, <1>3, <1>u, <2>1, <2>2 DEF Dispatching, MayRun, Settled, Armed, storeVars,
         SchedulerInv, SlotsAreDispatches
    <2>12. TypeOK'
      <3>1. work' \subseteq Workers
        BY <1>3, <2>2 DEF SchedulerInv, TypeOK, Workers
      <3> QED BY <1>1, <2>9, <3>1 DEF SchedulerInv, TypeOK, storeVars
    <2>13. RowsFirst'
      BY <1>1, <1>3, <2>2, <2>9, <2>11 DEF SchedulerInv, RowsFirst
    <2>14. DownIsQuiet' /\ ClaimIsNext' /\ SnapshotHolds'
      BY <2>9 DEF DownIsQuiet, ClaimIsNext, SnapshotHolds, InScan
    <2>15. OneWorker'
      <3>1. \A u \in Tasks : ~(<<u, "dispatch">> \in work' /\ <<u, "observe">> \in work')
        <4> TAKE u \in Tasks
        <4>1. ~(<<u, "dispatch">> \in work /\ <<u, "observe">> \in work)
          BY DEF SchedulerInv, OneWorker
        <4>2. <<u, "dispatch">> \in work' => <<u, "dispatch">> \in work
          BY <1>3
        <4>3. <<u, "observe">> \in work' => <<u, "observe">> \in work \/ u = t
          BY <1>3
        <4>4. <<t, "dispatch">> \notin work
          BY <2>11 DEF Dispatching
        <4> QED BY <4>1, <4>2, <4>3, <4>4
      <3>2. \A i \in DOMAIN results : results[i].dispatch => ~Dispatching(results[i].task)'
        <4> TAKE i \in DOMAIN results
        <4>1. results[i].dispatch => ~Dispatching(results[i].task)
          BY DEF SchedulerInv, OneWorker
        <4> QED BY <1>1, <2>11, <4>1
      <3> QED BY <1>1, <3>1, <3>2 DEF OneWorker
    <2>16. SlotsAreDispatches'
      BY <1>1, <1>u, <2>9, <2>11 DEF SchedulerInv, SlotsAreDispatches
    <2>17. PlacesSuffice'
      <3>1. /\ IsFiniteSet(work) /\ IsFiniteSet(l.live) /\ Cardinality(l.live) <= AdmissionLimit
            /\ Len(results) + Cardinality(work) <= Cardinality(l.live) + Observers
            /\ Observers = 0
        BY <1>u, <2>1 DEF SchedulerInv, PlacesSuffice, Observers
      <3>2. IsFiniteSet(work') /\ (Cardinality(work') = Cardinality(work) + 1 \/ work' = work)
        <4>1. CASE <<t, "observe">> \in work BY <1>3, <3>1, <4>1
        <4>2. CASE <<t, "observe">> \notin work BY <1>3, <3>1, <4>2, FS_AddElement
        <4> QED BY <4>1, <4>2
      <3>3. /\ Cardinality(work) \in Nat /\ Cardinality(l.live) \in Nat /\ Len(results) \in Nat
            /\ AdmissionLimit \in Nat
        BY <3>1, FS_CardinalityType, LoopAssumption DEF SchedulerInv, TypeOK
      <3>4. t # 0
        BY <2>2, SchedulerAssumption
      <3>5. Observers' = 1
        BY <2>9, <3>4 DEF Observers
      <3> QED BY <1>1, <2>9, <3>1, <3>2, <3>3, <3>5 DEF PlacesSuffice
    <2>18. ReportsHold'
      BY <1>1, <2>9, <2>11 DEF SchedulerInv, ReportsHold, SaysTrue, storeVars
    <2>19. OneReservation' /\ Disposed' /\ CommandIsPermitted'
      BY <1>1, <2>11 DEF SchedulerInv, OneReservation, ActiveTasks, Disposed, ClaimedTasks,
         Covering, CommandIsPermitted, storeVars
    <2> QED BY <2>12, <2>13, <2>14, <2>15, <2>16, <2>17, <2>18, <2>19 DEF SchedulerInv
  <1>4. ASSUME ObserverFree, NEW dueOnly \in BOOLEAN, NEW t \in Observable(dueOnly),
               l' = ScanEnds([l EXCEPT
                       !.reconciling = t,
                       !.observedRound = @ \cup {t},
                       !.observedDue[t] = IF dueOnly THEN l.held[occ[t].schedule] ELSE @,
                       !.idleAfter = occ[t].schedule]),
               work' = work \cup {<<t, "observe">>}
        PROVE  SchedulerInv'
    <2> PICK due : due = IF dueOnly THEN l.held[occ[t].schedule] ELSE l.observedDue[t]
      OBVIOUS
    <2> QED BY <1>3, <1>4
  <1> QED BY <1>2, <1>4 DEF StartObservation

\* What remains of the results after the first is taken.
LEMMA TailFields ==
  ASSUME TypeOK, results # <<>>
  PROVE  /\ Head(results) \in Result /\ Head(results) = results[1] /\ 1 \in DOMAIN results
         /\ Tail(results) \in Seq(Result) /\ Len(Tail(results)) = Len(results) - 1
         /\ Len(results) \in Nat
         /\ \A i \in DOMAIN Tail(results) :
               i + 1 \in DOMAIN results /\ Tail(results)[i] = results[i + 1]
         /\ \A i \in DOMAIN results :
               i = 1 \/ (i - 1 \in DOMAIN Tail(results) /\ Tail(results)[i - 1] = results[i])
  <1>1. results \in Seq(Result)
    BY DEF TypeOK
  <1>2. Len(results) \in Nat /\ Len(results) # 0 /\ DOMAIN results = 1..Len(results)
    BY <1>1
  <1>3. DOMAIN Tail(results) = 1..(Len(results) - 1)
    BY <1>1, <1>2
  <1>4. Head(results) \in Result /\ Head(results) = results[1]
    BY <1>1
  <1>5. Tail(results) \in Seq(Result) /\ Len(Tail(results)) = Len(results) - 1
    BY <1>1
  <1>6. \A i \in DOMAIN Tail(results) : Tail(results)[i] = results[i + 1]
    BY <1>1, <1>2, <1>3
  <1>7. ASSUME NEW i \in DOMAIN results, i # 1
        PROVE  i - 1 \in DOMAIN Tail(results) /\ Tail(results)[i - 1] = results[i]
    <2>1. i - 1 \in DOMAIN Tail(results) /\ (i - 1) + 1 = i
      BY <1>2, <1>3, <1>7
    <2> QED BY <1>6, <2>1
  <1>8. 1 \in DOMAIN results /\ \A i \in DOMAIN Tail(results) : i + 1 \in DOMAIN results
    BY <1>2, <1>3
  <1> QED BY <1>2, <1>4, <1>5, <1>6, <1>7, <1>8

\* A result that is taken off the channel frees what it stands for.
LEMMA FinishKeeps ==
  ASSUME SchedulerInv, UNCHANGED <<job, fe, used>>, Finish
  PROVE  SchedulerInv'
  <1>t. TypeOK /\ l \in LoopState
    BY DEF SchedulerInv, TypeOK
  <1>r. results # <<>> /\ l.pc = "idle"
    BY DEF Finish
  <1> PICK r \in Result : r = Head(results)
    BY <1>r, <1>t, TailFields
  <1>1. /\ UNCHANGED <<storeVars, now, work, faults>> /\ results' = Tail(results)
        /\ l' = IF r.fatal THEN Stopping
                ELSE IF r.admission = "none" THEN Freed(r)
                ELSE [Freed(r) EXCEPT !.pc = "record", !.result = r]
    BY DEF Finish
  <1>2. /\ r = results[1] /\ 1 \in DOMAIN results
        /\ results' \in Seq(Result) /\ Len(results') = Len(results) - 1 /\ Len(results) \in Nat
        /\ \A i \in DOMAIN results' : i + 1 \in DOMAIN results /\ results'[i] = results[i + 1]
        /\ \A i \in DOMAIN results :
              i = 1 \/ (i - 1 \in DOMAIN results' /\ results'[i - 1] = results[i])
    BY <1>1, <1>r, <1>t, TailFields
  <1>3. \A u : /\ (Dispatching(u)' <=> Dispatching(u)) /\ (MayRun(u)' <=> MayRun(u))
               /\ (Armed(u)' <=> Armed(u))
    BY <1>1 DEF Dispatching, MayRun, Settled, Armed, storeVars
  <1>4. /\ r.task \in Tasks /\ Armed(r.task) /\ SaysTrue(r.task, r.admission, r.release)
        /\ r.dispatch => ~Dispatching(r.task)
    BY <1>2 DEF SchedulerInv, RowsFirst, ReportsHold, OneWorker, Result
  <1>5. \A i \in DOMAIN results' :
           /\ Armed(results'[i].task)
           /\ SaysTrue(results'[i].task, results'[i].admission, results'[i].release)
           /\ results'[i].dispatch => ~Dispatching(results'[i].task)
    BY <1>2 DEF SchedulerInv, RowsFirst, ReportsHold, OneWorker
  <1>6. OneWorker' /\ OneReservation' /\ Disposed' /\ CommandIsPermitted'
    BY <1>1, <1>3, <1>5 DEF SchedulerInv, OneWorker, OneReservation, ActiveTasks, Disposed,
       ClaimedTasks, Covering, CommandIsPermitted, storeVars
  <1>7. /\ (\A i \in DOMAIN results :
               SaysTrue(results[i].task, results[i].admission, results[i].release))'
        /\ (\A u \in Tasks : SaysTrue(u, occ[u].admission, occ[u].release))'
        /\ SaysTrue(r.task, r.admission, r.release)'
    <2>1. \A u, admission, release :
             SaysTrue(u, admission, release) => SaysTrue(u, admission, release)'
      BY <1>3 DEF SaysTrue
    <2>2. ASSUME NEW i \in DOMAIN results'
          PROVE  SaysTrue(results[i].task, results[i].admission, results[i].release)'
      <3> PICK x : x = results'[i]
        OBVIOUS
      <3>1. SaysTrue(x.task, x.admission, x.release)'
        BY <1>5, <2>1
      <3> QED BY <3>1
    <2>3. ASSUME NEW u \in Tasks PROVE SaysTrue(u, occ[u].admission, occ[u].release)'
      <3> PICK x : x = occ[u]
        OBVIOUS
      <3>1. SaysTrue(u, x.admission, x.release)'
        BY <2>1 DEF SchedulerInv, ReportsHold
      <3>2. x = occ'[u]
        BY <1>1 DEF storeVars
      <3> QED BY <3>1, <3>2
    <2>4. SaysTrue(r.task, r.admission, r.release)'
      BY <1>4, <2>1
    <2> QED BY <2>2, <2>3, <2>4
  <1>8. /\ IsFiniteSet(work) /\ IsFiniteSet(l.live) /\ Cardinality(l.live) <= AdmissionLimit
        /\ Len(results) + Cardinality(work) <= Cardinality(l.live) + Observers
        /\ Len(results) + Cardinality(work) <= AdmissionLimit + 1
        /\ Cardinality(work) \in Nat /\ Cardinality(l.live) \in Nat /\ AdmissionLimit \in Nat
        /\ Observers \in 0..1
    BY <1>r, FS_CardinalityType, LoopAssumption DEF SchedulerInv, PlacesSuffice, Observers, Up
  <1>9. CASE r.fatal
    <2>1. l.startup \in Time
      BY <1>t DEF LoopState
    <2>2. l' \in LoopState /\ l'.pc = "stopping" /\ l'.live = {} /\ l'.active = {}
      BY <1>1, <1>9, <2>1, NewLoopFields DEF Stopping, LoopPCs
    <2>3. TypeOK'
      BY <1>1, <1>2, <2>2 DEF SchedulerInv, TypeOK, storeVars
    <2>4. RowsFirst' /\ DownIsQuiet' /\ SlotsAreDispatches' /\ ClaimIsNext' /\ SnapshotHolds'
      BY <1>1, <1>3, <1>5, <2>2 DEF SchedulerInv, RowsFirst, DownIsQuiet, SlotsAreDispatches,
         ClaimIsNext, SnapshotHolds, InScan, Up
    <2>5. PlacesSuffice'
      <3>1. IsFiniteSet({}) /\ Cardinality({}) = 0
        BY FS_EmptySet
      <3>2. Len(results') + Cardinality(work') <= AdmissionLimit + 1
        BY <1>1, <1>2, <1>8
      <3>3. ~Up' /\ l'.pc \notin {"claim", "readback"}
        BY <2>2 DEF Up
      <3>4. IsFiniteSet(l'.live) /\ Cardinality(l'.live) = 0
        BY <2>2, <3>1
      <3>5. IsFiniteSet(work') /\ 0 <= AdmissionLimit
        BY <1>1, <1>8
      <3> QED BY <3>2, <3>3, <3>4, <3>5 DEF PlacesSuffice
    <2>6. ReportsHold'
      BY <1>7, <2>2 DEF ReportsHold
    <2> QED BY <1>6, <2>3, <2>4, <2>5, <2>6 DEF SchedulerInv
  <1>10. CASE ~r.fatal
    <2> DEFINE live == IF r.dispatch THEN l.live \ {r.task} ELSE l.live
    <2> DEFINE reconciling == IF r.dispatch THEN l.reconciling ELSE 0
    <2>1. live \in SUBSET Tasks /\ reconciling \in Tasks \cup {0}
      BY <1>t DEF LoopState
    <2>2. Freed(r) = [l EXCEPT !.live = live, !.reconciling = reconciling]
      BY <1>t DEF Freed, LoopState
    <2>p. /\ "record" \in LoopPCs /\ r \in Result \cup {NoResult}
      BY DEF LoopPCs
    <2> HIDE DEF live, reconciling
    <2>3. /\ Freed(r) \in LoopState /\ Freed(r).pc = "idle" /\ Freed(r).live = live
          /\ Freed(r).reconciling = reconciling /\ Freed(r).active = l.active
      BY <1>r, <1>t, <2>1, <2>2 DEF LoopState
    <2>4. /\ l' \in LoopState /\ l'.live = live /\ l'.reconciling = reconciling
          /\ l'.active = l.active
          /\ l'.pc = "idle" \/ (l'.pc = "record" /\ l'.result = r)
      <3>1. CASE r.admission = "none" BY <1>1, <1>10, <2>3, <3>1
      <3>2. CASE r.admission # "none"
        <4>1. l' = [Freed(r) EXCEPT !.pc = "record", !.result = r]
          BY <1>1, <1>10, <3>2
        <4> QED BY <2>3, <2>p, <4>1 DEF LoopState
      <3> QED BY <3>1, <3>2
    <2>5. Up /\ Up' /\ ~InScan'
      BY <1>r, <2>4 DEF Up, InScan
    <2>6. TypeOK'
      BY <1>1, <1>2, <2>4 DEF SchedulerInv, TypeOK, storeVars
    <2>7. RowsFirst'
      <3>1. live \subseteq l.live
        BY DEF live
      <3>2. l'.pc \in {"record", "release"} => l'.result = r
        BY <2>4
      <3> QED BY <1>1, <1>3, <1>4, <1>5, <2>4, <3>1, <3>2 DEF SchedulerInv, RowsFirst
    <2>8. DownIsQuiet' /\ ClaimIsNext' /\ SnapshotHolds'
      BY <1>r, <2>4, <2>5 DEF SchedulerInv, DownIsQuiet, ClaimIsNext, SnapshotHolds, InScan
    <2>9. SlotsAreDispatches'
      <3>1. /\ \A u \in Tasks : Dispatching(u) => u \in l.live
            /\ \A u \in l.live : \/ Dispatching(u)
                                 \/ \E i \in DOMAIN results :
                                       results[i].dispatch /\ results[i].task = u
        BY <2>5 DEF SchedulerInv, SlotsAreDispatches
      <3>2. \A u \in Tasks : Dispatching(u)' => u \in live
        BY <1>3, <1>4, <3>1 DEF live
      <3>3. ASSUME NEW u \in live, ~Dispatching(u)'
            PROVE  \E i \in DOMAIN results' : results'[i].dispatch /\ results'[i].task = u
        <4>1. u \in l.live /\ ~Dispatching(u) /\ (r.dispatch => u # r.task)
          BY <1>3, <3>3 DEF live
        <4>2. PICK i \in DOMAIN results : results[i].dispatch /\ results[i].task = u
          BY <3>1, <4>1
        <4>3. i # 1
          BY <1>2, <4>1, <4>2
        <4> QED BY <1>2, <4>2, <4>3
      <3> QED BY <2>4, <3>2, <3>3 DEF SlotsAreDispatches
    <2>10. PlacesSuffice'
      <3>1. /\ IsFiniteSet(live)
            /\ Cardinality(live) = IF r.dispatch /\ r.task \in l.live
                                   THEN Cardinality(l.live) - 1 ELSE Cardinality(l.live)
        BY <1>8, FS_RemoveElement DEF live
      <3>2. Observers' = IF r.dispatch THEN Observers ELSE 0
        BY <2>4 DEF Observers, reconciling
      <3>3. Cardinality(live) \in Nat
        BY <3>1, FS_CardinalityType
      <3>4. Cardinality(live) <= Cardinality(l.live)
        BY <1>8, <3>1, <3>3
      <3>5. Len(results) - 1 + Cardinality(work) <= Cardinality(live) + Observers'
        <4>1. CASE r.dispatch BY <1>2, <1>8, <3>1, <3>2, <3>3, <4>1
        <4>2. CASE ~r.dispatch BY <1>2, <1>8, <3>1, <3>2, <3>3, <4>2
        <4> QED BY <4>1, <4>2
      <3> QED BY <1>1, <1>2, <1>8, <2>4, <3>1, <3>3, <3>4, <3>5 DEF PlacesSuffice
    <2>11. ReportsHold'
      BY <1>7, <2>4 DEF ReportsHold
    <2> QED BY <1>6, <2>6, <2>7, <2>8, <2>9, <2>10, <2>11 DEF SchedulerInv
  <1> QED BY <1>9, <1>10

\* Recording what was reported changes a row's observation and release only.
LEMMA RecordFrame ==
  ASSUME SchedulerInv, l.pc \in {"record", "release"},
         UNCHANGED <<sched, spans, now, work, results, job, fe, used>>,
         faults' \in 0..MaxFaults, occ' \in [Tasks -> Occurrence \cup {NoOccurrence}],
         \A u \in Tasks : /\ occ'[u].schedule = occ[u].schedule /\ occ'[u].due = occ[u].due
                          /\ occ[u].release # "none" => occ'[u].release # "none"
                          /\ Armed(u)' <=> Armed(u)
                          /\ SaysTrue(u, occ'[u].admission, occ'[u].release),
         l' \in LoopState, l'.pc \in {"idle", "record", "release"}, l'.live = l.live,
         l'.reconciling = l.reconciling, l'.active = l.active,
         l'.pc # "idle" => l'.result = l.result
  PROVE  SchedulerInv'
  <1>u. Up /\ Up' /\ ~InScan /\ ~InScan'
    BY DEF Up, InScan
  <1>1. \A u : (Dispatching(u)' <=> Dispatching(u)) /\ (MayRun(u)' <=> MayRun(u))
    BY DEF Dispatching, MayRun, Settled
  <1>2. \A u : Armed(u)' <=> Armed(u)
    BY DEF Armed
  <1>3. TypeOK'
    BY DEF SchedulerInv, TypeOK
  <1>4. RowsFirst' /\ DownIsQuiet' /\ OneWorker' /\ SlotsAreDispatches'
    BY <1>1, <1>2, <1>u DEF SchedulerInv, RowsFirst, DownIsQuiet, OneWorker, SlotsAreDispatches
  <1>5. PlacesSuffice' /\ ClaimIsNext' /\ SnapshotHolds'
    BY <1>u DEF SchedulerInv, PlacesSuffice, Observers, ClaimIsNext, SnapshotHolds, InScan
  <1>6. ReportsHold'
    <2>1. \A u, admission, release :
             SaysTrue(u, admission, release) => SaysTrue(u, admission, release)'
      BY <1>1 DEF SaysTrue
    <2>2. \A i \in DOMAIN results :
             SaysTrue(results[i].task, results[i].admission, results[i].release)'
      BY <1>1 DEF SchedulerInv, ReportsHold, SaysTrue
    <2>3. l'.pc \in {"record", "release"} =>
             SaysTrue(l.result.task, l.result.admission, l.result.release)'
      BY <1>1 DEF SchedulerInv, ReportsHold, SaysTrue
    <2>4. ASSUME NEW u \in Tasks PROVE SaysTrue(u, occ[u].admission, occ[u].release)'
      <3> PICK x : x = occ'[u]
        OBVIOUS
      <3>1. SaysTrue(u, x.admission, x.release)'
        BY <2>1
      <3> QED BY <3>1
    <2> QED BY <2>2, <2>3, <2>4 DEF ReportsHold
  <1>7. OneReservation'
    <2>1. \A s \in Schedules : ActiveTasks(s)' \subseteq ActiveTasks(s)
      BY DEF ActiveTasks
    <2> QED BY <2>1 DEF SchedulerInv, OneReservation
  <1>8. Disposed' /\ CommandIsPermitted'
    <2>1. \A s, d : ClaimedTasks(s, d)' = ClaimedTasks(s, d) /\ Covering(s, d)' = Covering(s, d)
      BY DEF ClaimedTasks, Covering
    <2> QED BY <1>2, <2>1 DEF SchedulerInv, Disposed, CommandIsPermitted
  <1> QED BY <1>3, <1>4, <1>5, <1>6, <1>7, <1>8 DEF SchedulerInv

\* The fields of the loop after a row was written, or is to be written again.
LEMMA AfterRecordFields ==
  ASSUME l \in LoopState, l.pc \in {"record", "release"},
         \/ l' = AfterObservation
         \/ l' = [l EXCEPT !.pc = "idle", !.attempt = 1, !.result = NoResult]
         \/ l' = [l EXCEPT !.attempt = 2]
  PROVE  /\ l' \in LoopState /\ l'.pc \in {"idle", "record", "release"} /\ l'.live = l.live
         /\ l'.reconciling = l.reconciling /\ l'.active = l.active
         /\ l'.pc # "idle" => l'.result = l.result
  <1>p. /\ "idle" \in LoopPCs /\ "release" \in LoopPCs /\ 1 \in 1..2 /\ 2 \in 1..2
        /\ NoResult \in Result \cup {NoResult}
    BY DEF LoopPCs
  <1>1. CASE l' = [l EXCEPT !.pc = "idle", !.attempt = 1, !.result = NoResult]
    BY <1>1, <1>p DEF LoopState
  <1>2. CASE l' = [l EXCEPT !.pc = "release", !.attempt = 1] BY <1>2, <1>p DEF LoopState
  <1>3. CASE l' = [l EXCEPT !.attempt = 2] BY <1>3, <1>p DEF LoopState
  <1> QED BY <1>1, <1>2, <1>3 DEF AfterObservation

\* A row whose observation and release are replaced is still the same row.
LEMMA RowUpdated ==
  ASSUME TypeOK, NEW t \in Tasks, Armed(t), NEW row,
         row \in Occurrence, row.schedule = occ[t].schedule, occ' = [occ EXCEPT ![t] = row]
  PROVE  /\ occ' \in [Tasks -> Occurrence \cup {NoOccurrence}] /\ occ'[t] = row
         /\ \A u \in Tasks : u # t => occ'[u] = occ[u]
         /\ \A u \in Tasks : Armed(u)' <=> Armed(u)
  <1>1. /\ occ' \in [Tasks -> Occurrence \cup {NoOccurrence}] /\ occ'[t] = row
        /\ \A u \in Tasks : u # t => occ'[u] = occ[u]
    BY DEF TypeOK
  <1>2. row # NoOccurrence
    BY SchedulerAssumption DEF Occurrence, NoOccurrence
  <1> QED BY <1>1, <1>2 DEF Armed

\* Recording an observation, with its readback and retry.
LEMMA FinishObservationKeeps ==
  ASSUME SchedulerInv, UNCHANGED <<job, fe, used>>, FinishObservation
  PROVE  SchedulerInv'
  <1>t. TypeOK /\ l \in LoopState /\ faults \in 0..MaxFaults
    BY DEF SchedulerInv, TypeOK
  <1>1. l.pc = "record" /\ UNCHANGED <<now, work, results>>
    BY DEF FinishObservation
  <1>2. /\ l.result \in Result /\ Armed(l.result.task)
        /\ SaysTrue(l.result.task, l.result.admission, l.result.release)
    BY <1>1 DEF SchedulerInv, RowsFirst, ReportsHold
  <1> PICK r \in Result : r = l.result
    BY <1>2
  <1> PICK t \in Tasks : t = r.task
    BY DEF Result
  <1>a. Armed(t) /\ SaysTrue(t, r.admission, r.release) /\ occ[t] \in Occurrence
    BY <1>2, <1>t DEF Armed, TypeOK
  <1>u. Up
    BY <1>1 DEF Up
  <1>3. CASE UNCHANGED <<storeVars, faults>> \/ (UNCHANGED storeVars /\ Faulty)
    <2>1. faults' \in 0..MaxFaults
      BY <1>3, <1>t, FaultsBounded
    <2>2. UNCHANGED storeVars
      BY <1>3
    <2>3. /\ occ' \in [Tasks -> Occurrence \cup {NoOccurrence}]
          /\ \A u \in Tasks : (Armed(u)' <=> Armed(u)) /\ occ'[u] = occ[u]
      BY <1>t, <2>2 DEF TypeOK, Armed, storeVars
    <2>4. \A u \in Tasks : SaysTrue(u, occ'[u].admission, occ'[u].release)
      BY <2>3 DEF SchedulerInv, ReportsHold
    <2>5. CASE l' = AfterObservation \/ l' = [l EXCEPT !.attempt = 2]
      BY <1>1, <1>t, <2>1, <2>2, <2>3, <2>4, <2>5, AfterRecordFields, RecordFrame DEF storeVars
    <2>6. CASE l' = Stopping BY <1>1, <1>u, <2>1, <2>2, <2>6, GiveUpKeeps
    <2>7. \/ l' = AfterObservation \/ l' = [l EXCEPT !.attempt = 2] \/ l' = Stopping
      BY DEF FinishObservation, Retrying
    <2> QED BY <2>5, <2>6, <2>7
  <1>4. CASE /\ RecordObservation(t, r.admission, r.at)
             /\ l' = AfterObservation /\ UNCHANGED faults
    <2> DEFINE stored == occ[t]
    <2> PICK row : row = IF stored.admission = "none" \/ stored.observedAt <= r.at
                         THEN [stored EXCEPT !.admission = r.admission, !.observedAt = r.at]
                         ELSE stored
      OBVIOUS
    <2>1. occ' = [occ EXCEPT ![t] = row] /\ UNCHANGED <<sched, spans>>
      BY <1>4 DEF RecordObservation
    <2>2. /\ row \in Occurrence /\ row.schedule = occ[t].schedule /\ row.due = occ[t].due
          /\ row.release = occ[t].release
          /\ row.admission = r.admission \/ row.admission = occ[t].admission
      BY <1>a DEF Occurrence, Result
    <2>3. /\ occ' \in [Tasks -> Occurrence \cup {NoOccurrence}] /\ occ'[t] = row
          /\ \A u \in Tasks : u # t => occ'[u] = occ[u]
          /\ \A u \in Tasks : Armed(u)' <=> Armed(u)
      BY <1>a, <1>t, <2>1, <2>2, RowUpdated
    <2>4. \A u \in Tasks : SaysTrue(u, occ[u].admission, occ[u].release)
      BY DEF SchedulerInv, ReportsHold
    <2>5. ASSUME NEW u \in Tasks
          PROVE  /\ occ'[u].schedule = occ[u].schedule /\ occ'[u].due = occ[u].due
                 /\ occ[u].release # "none" => occ'[u].release # "none"
                 /\ Armed(u)' <=> Armed(u)
                 /\ SaysTrue(u, occ'[u].admission, occ'[u].release)
      <3>1. CASE u = t
        <4>1. SaysTrue(t, occ[t].admission, occ[t].release)
          BY <2>4
        <4>2. SaysTrue(t, row.admission, row.release)
          BY <1>a, <2>2, <4>1 DEF SaysTrue
        <4>3. occ[t].release # "none" => row.release # "none"
          BY <2>2
        <4> QED BY <2>2, <2>3, <3>1, <4>2, <4>3
      <3>2. CASE u # t BY <2>4, <2>3, <3>2
      <3> QED BY <3>1, <3>2
    <2> QED BY <1>1, <1>4, <1>t, <2>1, <2>3, <2>5, AfterRecordFields, RecordFrame
  <1> QED BY <1>3, <1>4 DEF FinishObservation

\* Recording a release, with its retry.
LEMMA FinishReleaseKeeps ==
  ASSUME SchedulerInv, UNCHANGED <<job, fe, used>>, FinishRelease
  PROVE  SchedulerInv'
  <1>t. TypeOK /\ l \in LoopState /\ faults \in 0..MaxFaults
    BY DEF SchedulerInv, TypeOK
  <1>1. l.pc = "release" /\ UNCHANGED <<now, work, results>>
    BY DEF FinishRelease
  <1>2. /\ l.result \in Result /\ Armed(l.result.task)
        /\ SaysTrue(l.result.task, l.result.admission, l.result.release)
    BY <1>1 DEF SchedulerInv, RowsFirst, ReportsHold
  <1> PICK r \in Result : r = l.result
    BY <1>2
  <1> PICK t \in Tasks : t = r.task
    BY DEF Result
  <1>a. Armed(t) /\ SaysTrue(t, r.admission, r.release) /\ occ[t] \in Occurrence
    BY <1>2, <1>t DEF Armed, TypeOK
  <1>u. Up
    BY <1>1 DEF Up
  <1>s. \A u \in Tasks : SaysTrue(u, occ[u].admission, occ[u].release)
    BY DEF SchedulerInv, ReportsHold
  <1>3. CASE Faulty /\ l' = Retrying /\ UNCHANGED storeVars
    <2>1. faults' \in 0..MaxFaults
      BY <1>3, <1>t, FaultsBounded
    <2>2. /\ occ' \in [Tasks -> Occurrence \cup {NoOccurrence}]
          /\ \A u \in Tasks : (Armed(u)' <=> Armed(u)) /\ occ'[u] = occ[u]
      BY <1>3, <1>t DEF TypeOK, Armed, storeVars
    <2>3. CASE l' = [l EXCEPT !.attempt = 2]
      BY <1>1, <1>3, <1>s, <1>t, <2>1, <2>2, <2>3, AfterRecordFields, RecordFrame DEF storeVars
    <2>4. CASE l' = Stopping BY <1>1, <1>3, <1>u, <2>1, <2>4, GiveUpKeeps
    <2> QED BY <1>3, <2>3, <2>4 DEF Retrying
  <1>4. CASE /\ ReleaseOccurrence(t, r.release)
             /\ l' = [l EXCEPT !.pc = "idle", !.attempt = 1, !.result = NoResult]
             /\ UNCHANGED faults
    <2> PICK kind : kind = IF occ[t].release = "none" THEN r.release ELSE occ[t].release
      OBVIOUS
    <2> PICK row : row = [occ[t] EXCEPT !.release = kind]
      OBVIOUS
    <2>1. occ' = [occ EXCEPT ![t] = row] /\ UNCHANGED <<sched, spans>>
      BY <1>4 DEF ReleaseOccurrence
    <2>2. /\ row \in Occurrence /\ row.schedule = occ[t].schedule /\ row.due = occ[t].due
          /\ row.admission = occ[t].admission /\ row.release = kind
      BY <1>a DEF Occurrence, Result
    <2>3. /\ occ' \in [Tasks -> Occurrence \cup {NoOccurrence}] /\ occ'[t] = row
          /\ \A u \in Tasks : u # t => occ'[u] = occ[u]
          /\ \A u \in Tasks : Armed(u)' <=> Armed(u)
      BY <1>a, <1>t, <2>1, <2>2, RowUpdated
    <2>5. ASSUME NEW u \in Tasks
          PROVE  /\ occ'[u].schedule = occ[u].schedule /\ occ'[u].due = occ[u].due
                 /\ occ[u].release # "none" => occ'[u].release # "none"
                 /\ Armed(u)' <=> Armed(u)
                 /\ SaysTrue(u, occ'[u].admission, occ'[u].release)
      <3>1. CASE u = t
        <4>1. SaysTrue(t, occ[t].admission, occ[t].release)
          BY <1>s
        <4>2. SaysTrue(t, row.admission, row.release)
          BY <1>a, <2>2, <4>1 DEF SaysTrue
        <4>3. occ[t].release # "none" => row.release # "none"
          BY <2>2
        <4> QED BY <2>2, <2>3, <3>1, <4>2, <4>3
      <3>2. CASE u # t BY <1>s, <2>3, <3>2
      <3> QED BY <3>1, <3>2
    <2> QED BY <1>1, <1>4, <1>t, <2>1, <2>3, <2>5, AfterRecordFields, RecordFrame
  <1> QED BY <1>3, <1>4 DEF FinishRelease

--------------------
(* Workers.                                                                *)

\* The task of an armed row gets further.  Nothing that was reported of it
\* becomes false: a release says it can no longer run, and it may still run.
LEMMA JobKeeps ==
  ASSUME SchedulerInv, UNCHANGED <<storeVars, loopVars, fe, used>>, NEW t \in Tasks, Armed(t),
         MayRun(t), NEW j \in Jobs, job' = [job EXCEPT ![t] = j],
         job[t] \in {"queued", "running", "closed"} => j \in {"queued", "running", "closed"}
  PROVE  SchedulerInv'
  <1> USE DEF storeVars, loopVars
  <1>1. /\ job' \in [Tasks -> Jobs] /\ job'[t] = j /\ \A u \in Tasks : u # t => job'[u] = job[u]
    BY DEF SchedulerInv, TypeOK
  <1>2. TypeOK'
    BY <1>1 DEF SchedulerInv, TypeOK
  <1>3. \A u : (Armed(u)' <=> Armed(u)) /\ (Dispatching(u)' <=> Dispatching(u))
    BY DEF Armed, Dispatching
  <1>4. RowsFirst'
    <2>1. \A u \in Tasks : job'[u] # "none" => Armed(u)'
      BY <1>1, <1>3 DEF SchedulerInv, RowsFirst
    <2>2. /\ \A w \in work : Armed(w[1])'
          /\ \A i \in DOMAIN results : Armed(results[i].task)'
          /\ l.pc \in {"record", "release"} => l.result \in Result /\ Armed(l.result.task)'
          /\ \A u \in l.live : Armed(u)'
      BY <1>3 DEF SchedulerInv, RowsFirst
    <2> QED BY <2>1, <2>2 DEF RowsFirst
  <1>5. DownIsQuiet' /\ OneWorker' /\ SlotsAreDispatches' /\ PlacesSuffice' /\ ClaimIsNext'
    BY DEF SchedulerInv, DownIsQuiet, OneWorker, SlotsAreDispatches, PlacesSuffice, ClaimIsNext,
       Observers, Dispatching, Up
  <1>6. OneReservation' /\ SnapshotHolds' /\ Disposed' /\ CommandIsPermitted'
    BY DEF SchedulerInv, OneReservation, SnapshotHolds, Disposed, CommandIsPermitted, ActiveTasks,
       ClaimedTasks, Covering, Armed, InScan
  <1>7. \A u \in Tasks : \A admission, release :
           SaysTrue(u, admission, release) => SaysTrue(u, admission, release)'
    <2> SUFFICES ASSUME NEW u \in Tasks, NEW admission, NEW release,
                        SaysTrue(u, admission, release)
                 PROVE  SaysTrue(u, admission, release)'
      OBVIOUS
    <2>1. CASE u = t BY <1>1, <2>1 DEF SaysTrue
    <2>2. CASE u # t
      <3>1. MayRun(u)' <=> MayRun(u)
        BY <1>1, <1>3, <2>2 DEF MayRun, Settled
      <3> QED BY <1>1, <2>2, <3>1 DEF SaysTrue
    <2> QED BY <2>1, <2>2
  <1>8. ReportsHold'
    <2>1. \A i \in DOMAIN results : results[i].task \in Tasks
      BY DEF SchedulerInv, RowsFirst, Armed
    <2>2. l.pc \in {"record", "release"} => l.result.task \in Tasks
      BY DEF SchedulerInv, RowsFirst, Result
    <2> QED BY <1>7, <2>1, <2>2 DEF SchedulerInv, ReportsHold
  <1> QED BY <1>2, <1>4, <1>5, <1>6, <1>8 DEF SchedulerInv

\* A worker that ends hands its place on to its result.
LEMMA SendKeeps ==
  ASSUME SchedulerInv, UNCHANGED <<storeVars, now, l, fe, used>>, faults' \in 0..MaxFaults,
         NEW w \in work, NEW fatal \in BOOLEAN, NEW admission \in Admissions,
         NEW release \in Releases, Send(w, fatal, admission, release),
         job' \in [Tasks -> Jobs],
         \A u \in Tasks : \/ job'[u] = job[u]
                          \/ u = w[1] /\ job[u] = "created" /\ job'[u] = "fenced",
         release # "none" => job'[w[1]] \in {"none", "closed", "fenced"},
         admission = "admitted" => job'[w[1]] \in {"queued", "running", "closed"}
  PROVE  SchedulerInv'
  <1> USE DEF storeVars
  <1>t. TypeOK /\ results \in Seq(Result) /\ work \subseteq Workers
    BY DEF SchedulerInv, TypeOK
  <1> PICK t \in Tasks, kind \in {"dispatch", "observe"} : w = <<t, kind>>
    BY <1>t DEF Workers
  <1>w. w[1] = t /\ w[2] = kind
    OBVIOUS
  <1> PICK r : r = [task |-> w[1], dispatch |-> w[2] = "dispatch", fatal |-> fatal,
                    admission |-> admission, at |-> now, release |-> release]
    OBVIOUS
  <1>1. work' = work \ {w} /\ results' = Append(results, r)
    BY DEF Send
  <1>2. /\ r \in Result /\ r.task = t /\ (r.dispatch <=> kind = "dispatch")
        /\ r.admission = admission /\ r.release = release
    BY <1>t, <1>w DEF TypeOK, Result
  <1>3. /\ results' \in Seq(Result) /\ Len(results') = Len(results) + 1 /\ Len(results) \in Nat
        /\ \A i \in DOMAIN results : i \in DOMAIN results' /\ results'[i] = results[i]
        /\ results'[Len(results) + 1] = r /\ Len(results) + 1 \in DOMAIN results'
        /\ \A i \in DOMAIN results' :
              results'[i] = r \/ (i \in DOMAIN results /\ results'[i] = results[i])
    BY <1>1, <1>2, <1>t
  <1>4. Armed(t) /\ l.pc # "down"
    BY <1>w DEF SchedulerInv, RowsFirst, DownIsQuiet
  <1>5. \A u : Armed(u)' <=> Armed(u)
    BY DEF Armed
  <1>6. /\ \A u : Dispatching(u)' => Dispatching(u)
        /\ \A u : Dispatching(u) => Dispatching(u)' \/ (u = t /\ kind = "dispatch")
        /\ ~Dispatching(t)'
    <2>1. ~(<<t, "dispatch">> \in work /\ <<t, "observe">> \in work)
      BY DEF SchedulerInv, OneWorker
    <2>2. \A u : <<u, "dispatch">> \in work' => <<u, "dispatch">> \in work
      BY <1>1
    <2>3. \A u : <<u, "dispatch">> = <<t, kind>> => u = t /\ kind = "dispatch"
      OBVIOUS
    <2>4. <<t, "dispatch">> \notin work'
      BY <1>1, <2>1
    <2> QED BY <1>1, <2>2, <2>3, <2>4 DEF Dispatching
  <1>7. TypeOK'
    BY <1>1, <1>3 DEF SchedulerInv, TypeOK
  <1>8. RowsFirst'
    BY <1>1, <1>2, <1>3, <1>4, <1>5 DEF SchedulerInv, RowsFirst
  <1>9. DownIsQuiet' /\ ClaimIsNext' /\ CommandIsPermitted'
    BY <1>4 DEF SchedulerInv, DownIsQuiet, ClaimIsNext, CommandIsPermitted
  <1>10. OneWorker'
    <2>1. \A u \in Tasks : ~(<<u, "dispatch">> \in work' /\ <<u, "observe">> \in work')
      BY <1>1 DEF SchedulerInv, OneWorker
    <2>2. ASSUME NEW i \in DOMAIN results', results'[i].dispatch
          PROVE  ~Dispatching(results[i].task)'
      <3> PICK x : x = results'[i]
        OBVIOUS
      <3>1. ~Dispatching(x.task)'
        <4>1. CASE x = r BY <1>2, <1>6, <4>1
        <4>2. CASE i \in DOMAIN results /\ x = results[i]
          BY <1>6, <2>2, <4>2 DEF SchedulerInv, OneWorker
        <4> QED BY <1>3, <4>1, <4>2
      <3> QED BY <3>1
    <2> QED BY <2>1, <2>2 DEF OneWorker
  <1>11. SlotsAreDispatches'
    <2>1. ASSUME Up
          PROVE  /\ \A u \in Tasks : Dispatching(u)' => u \in l.live
                 /\ \A u \in l.live : \/ Dispatching(u)'
                                      \/ \E i \in DOMAIN results' :
                                            results'[i].dispatch /\ results'[i].task = u
      <3>1. /\ \A u \in Tasks : Dispatching(u) => u \in l.live
            /\ \A u \in l.live : \/ Dispatching(u)
                                 \/ \E i \in DOMAIN results :
                                       results[i].dispatch /\ results[i].task = u
        BY <2>1 DEF SchedulerInv, SlotsAreDispatches
      <3>2. ASSUME NEW u \in l.live, ~Dispatching(u)'
            PROVE  \E i \in DOMAIN results' : results'[i].dispatch /\ results'[i].task = u
        <4>1. CASE Dispatching(u) BY <1>2, <1>3, <1>6, <3>2, <4>1
        <4>2. CASE ~Dispatching(u) BY <1>3, <3>1, <4>2
        <4> QED BY <4>1, <4>2
      <3> QED BY <1>6, <3>1, <3>2
    <2> QED BY <2>1 DEF SlotsAreDispatches, Up
  <1>12. PlacesSuffice'
    <2>1. IsFiniteSet(work) /\ Cardinality(work) \in Nat
      BY FS_CardinalityType DEF SchedulerInv, PlacesSuffice
    <2>2. IsFiniteSet(work') /\ Cardinality(work') = Cardinality(work) - 1
      BY <1>1, <2>1, FS_RemoveElement
    <2>3. Len(results') + Cardinality(work') = Len(results) + Cardinality(work)
      BY <1>3, <2>1, <2>2
    <2>4. Observers' = Observers /\ (Up' <=> Up)
      BY DEF Observers, Up
    <2> QED BY <2>2, <2>3, <2>4 DEF SchedulerInv, PlacesSuffice
  <1>13. \A u \in Tasks : \A a, b : SaysTrue(u, a, b) => SaysTrue(u, a, b)'
    <2> SUFFICES ASSUME NEW u \in Tasks, NEW a, NEW b, SaysTrue(u, a, b)
                 PROVE  SaysTrue(u, a, b)'
      OBVIOUS
    <2>1. ~MayRun(u) => ~MayRun(u)'
      BY <1>6 DEF MayRun, Settled
    <2>2. job[u] \in {"queued", "running", "closed"} => job'[u] \in {"queued", "running", "closed"}
      OBVIOUS
    <2> QED BY <2>1, <2>2 DEF SaysTrue
  <1>14. SaysTrue(r.task, r.admission, r.release)'
    BY <1>2, <1>6, <1>w DEF SaysTrue, MayRun, Settled
  <1>15. ReportsHold'
    <2>1. \A i \in DOMAIN results : results[i].task \in Tasks
      BY DEF SchedulerInv, RowsFirst, Armed
    <2>2. l.pc \in {"record", "release"} => l.result.task \in Tasks
      BY DEF SchedulerInv, RowsFirst, Result
    <2>3. ASSUME NEW i \in DOMAIN results'
          PROVE  SaysTrue(results[i].task, results[i].admission, results[i].release)'
      <3> PICK x : x = results'[i]
        OBVIOUS
      <3>1. SaysTrue(x.task, x.admission, x.release)'
        <4>1. CASE x = r BY <1>14, <4>1
        <4>2. CASE i \in DOMAIN results /\ x = results[i]
          BY <1>13, <2>1, <4>2 DEF SchedulerInv, ReportsHold
        <4> QED BY <1>3, <4>1, <4>2
      <3> QED BY <3>1
    <2>4. l.pc \in {"record", "release"} =>
             SaysTrue(l.result.task, l.result.admission, l.result.release)'
      BY <1>13, <2>2 DEF SchedulerInv, ReportsHold
    <2>5. \A u \in Tasks : SaysTrue(u, occ[u].admission, occ[u].release)'
      BY <1>13 DEF SchedulerInv, ReportsHold
    <2> QED BY <2>3, <2>4, <2>5 DEF ReportsHold
  <1>16. OneReservation' /\ SnapshotHolds' /\ Disposed'
    BY DEF SchedulerInv, OneReservation, SnapshotHolds, Disposed, ActiveTasks, ClaimedTasks,
       Covering, Armed, InScan
  <1> QED BY <1>7, <1>8, <1>9, <1>10, <1>11, <1>12, <1>15, <1>16 DEF SchedulerInv

\* The steps of one worker: dispatch, observation, fence, failure.
LEMMA WorkerStepKeeps ==
  ASSUME SchedulerInv, NEW w \in Workers, WorkerStep(w)
  PROVE  SchedulerInv'
  <1>t. /\ w \in work /\ w[1] \in Tasks /\ Armed(w[1]) /\ job \in [Tasks -> Jobs]
        /\ faults \in 0..MaxFaults
    BY DEF WorkerStep, Workers, SchedulerInv, TypeOK, RowsFirst
  <1> PICK t \in Tasks : t = w[1]
    BY <1>t
  <1>p. /\ "none" \in Admissions /\ "unknown" \in Admissions /\ "admitted" \in Admissions
        /\ "none" \in Releases /\ "not_created" \in Releases /\ "closed" \in Releases
        /\ "created" \in Jobs /\ "queued" \in Jobs /\ "fenced" \in Jobs
    BY DEF Admissions, Releases, Jobs
  <1>1. CASE CreateTask(t)
    <2>1. /\ MayRun(t) /\ job[t] = "none" /\ job' = [job EXCEPT ![t] = "created"]
          /\ UNCHANGED <<storeVars, loopVars, fe, used>>
      BY <1>1 DEF CreateTask, MayRun
    <2> QED BY <1>p, <1>t, <2>1, JobKeeps
  <1>2. CASE SubmitTask(w)
    <2>1. /\ MayRun(t) /\ job[t] = "created" /\ job' = [job EXCEPT ![t] = "queued"]
          /\ UNCHANGED <<storeVars, loopVars, fe, used>>
      BY <1>2 DEF SubmitTask, MayRun, Settled
    <2> QED BY <1>p, <1>t, <2>1, JobKeeps
  <1>3. CASE ObserveAbsent(w)
    <2>1. /\ job[t] = "none" /\ Send(w, FALSE, "unknown", "not_created")
          /\ UNCHANGED <<storeVars, now, l, faults, job, fe, used>>
      BY <1>3 DEF ObserveAbsent
    <2> QED BY <1>p, <1>t, <2>1, SendKeeps
  <1>4. CASE ObserveUnadmitted(w)
    <2>1. job[t] = "created" /\ UNCHANGED <<storeVars, now, l, faults, fe, used>>
      BY <1>4 DEF ObserveUnadmitted
    <2>2. CASE Send(w, FALSE, "unknown", "closed") /\ job' = [job EXCEPT ![t] = "fenced"]
      <3>1. /\ job' \in [Tasks -> Jobs] /\ job'[t] = "fenced"
            /\ \A u \in Tasks : u # t => job'[u] = job[u]
        BY <1>p, <1>t, <2>2
      <3> QED BY <1>p, <1>t, <2>1, <2>2, <3>1, SendKeeps
    <2>3. CASE Send(w, FALSE, "unknown", "none") /\ UNCHANGED job
      BY <1>p, <1>t, <2>1, <2>3, SendKeeps
    <2> QED BY <1>4, <2>2, <2>3 DEF ObserveUnadmitted
  <1>5. CASE ObserveAdmitted(w)
    <2> PICK release : release = ReleaseOfAdmitted(t)
      OBVIOUS
    <2>1. /\ job[t] \in {"queued", "running", "closed"} /\ Send(w, FALSE, "admitted", release)
          /\ UNCHANGED <<storeVars, now, l, faults, job, fe, used>>
      BY <1>5 DEF ObserveAdmitted
    <2>2. release \in Releases /\ (release # "none" => job[t] = "closed")
      BY <1>p DEF ReleaseOfAdmitted
    <2> QED BY <1>p, <1>t, <2>1, <2>2, SendKeeps
  <1>6. CASE ObserveFenced(w)
    <2>1. /\ job[t] = "fenced" /\ Send(w, FALSE, "unknown", "closed")
          /\ UNCHANGED <<storeVars, now, l, faults, job, fe, used>>
      BY <1>6 DEF ObserveFenced
    <2> QED BY <1>p, <1>t, <2>1, SendKeeps
  <1>7. CASE WorkerFails(w)
    <2> PICK fatal \in BOOLEAN : Send(w, fatal, "none", "none")
      BY <1>7 DEF WorkerFails
    <2>1. faults' \in 0..MaxFaults /\ UNCHANGED <<storeVars, now, l, job, fe, used>>
      BY <1>7, FaultsBounded DEF WorkerFails, SchedulerInv
    <2> QED BY <1>p, <1>t, <2>1, SendKeeps
  <1> QED BY <1>1, <1>2, <1>3, <1>4, <1>5, <1>6, <1>7 DEF WorkerStep

\* A task that is on its way goes on, whatever becomes of the scheduler.
LEMMA TaskRunsKeeps ==
  ASSUME SchedulerInv, NEW t \in Tasks, TaskRuns(t)
  PROVE  SchedulerInv'
  <1>1. /\ job[t] \in {"queued", "running"} /\ UNCHANGED <<storeVars, loopVars, fe, used>>
        /\ \E j \in {"running", "closed"} : job' = [job EXCEPT ![t] = j]
    BY DEF TaskRuns
  <1>2. MayRun(t) /\ Armed(t)
    BY <1>1 DEF MayRun, Settled, SchedulerInv, RowsFirst
  <1> PICK j \in {"running", "closed"} : job' = [job EXCEPT ![t] = j]
    BY <1>1
  <1>3. j \in Jobs
    BY DEF Jobs
  <1> QED BY <1>1, <1>2, <1>3, JobKeeps

--------------------
(* Commands, the clock, starts, stops and crashes.                         *)

\* A step that leaves occurrences, loop, workers, results and tasks alone.
LEMMA RowsFrame ==
  ASSUME SchedulerInv, UNCHANGED <<occ, l, work, results, job>>,
         TypeOK', Disposed', CommandIsPermitted'
  PROVE  SchedulerInv'
  <1>1. /\ RowsFirst' /\ DownIsQuiet' /\ OneWorker' /\ SlotsAreDispatches' /\ PlacesSuffice'
        /\ ClaimIsNext'
    BY DEF SchedulerInv, RowsFirst, DownIsQuiet, OneWorker, SlotsAreDispatches, PlacesSuffice,
       ClaimIsNext, Armed, Dispatching, Observers, Up
  <1>2. ReportsHold' /\ OneReservation' /\ SnapshotHolds'
    BY DEF SchedulerInv, ReportsHold, OneReservation, SnapshotHolds, SaysTrue, MayRun, Settled,
       Dispatching, ActiveTasks, Armed, InScan
  <1> QED BY <1>1, <1>2 DEF SchedulerInv

\* A schedule is created with its cursor at the present instant.
LEMMA CreateCommandKeeps ==
  ASSUME SchedulerInv, NEW s \in Schedules, CreateCommand(s)
  PROVE  SchedulerInv'
  <1>t. /\ sched \in [Schedules -> [state : States, created : Time, cursor : Time]]
        /\ occ \in [Tasks -> Occurrence \cup {NoOccurrence}] /\ now \in Time
    BY DEF SchedulerInv, TypeOK
  <1> PICK row : row = [state |-> "enabled", created |-> now, cursor |-> now]
    OBVIOUS
  <1>1. /\ sched[s] = NoSchedule /\ sched' = [sched EXCEPT ![s] = row]
        /\ UNCHANGED <<occ, spans, now, l, work, results, faults, job, fe, used>>
    BY DEF CreateCommand, CreateSchedule, loopVars
  <1>2. /\ row \in [state : States, created : Time, cursor : Time] /\ row.state = "enabled"
        /\ row.created = now /\ row.cursor = now
    BY <1>t DEF States
  <1>3. /\ sched' \in [Schedules -> [state : States, created : Time, cursor : Time]]
        /\ sched'[s] = row /\ \A u \in Schedules : u # s => sched'[u] = sched[u]
    BY <1>1, <1>2, <1>t
  <1>4. TypeOK' /\ CommandIsPermitted'
    BY <1>1, <1>3 DEF SchedulerInv, TypeOK, CommandIsPermitted
  <1>5. \A u, d : ClaimedTasks(u, d)' = ClaimedTasks(u, d) /\ Covering(u, d)' = Covering(u, d)
    BY <1>1 DEF ClaimedTasks, Covering
  <1>6. sched[s].state = "absent" /\ sched[s].cursor = 0 /\ now \in Nat
    BY <1>1, <1>t, TimesAreNaturals DEF NoSchedule
  <1>7. ASSUME NEW u \in Schedules, NEW d \in Calendar[u]
        PROVE  /\ d > sched'[u].cursor => ClaimedTasks(u, d)' = {} /\ Covering(u, d)' = {}
               /\ sched'[u].created < d /\ d <= sched'[u].cursor =>
                     \/ Covering(u, d)' = {} /\ \E t \in Tasks : ClaimedTasks(u, d)' = {t}
                     \/ ClaimedTasks(u, d)' = {} /\ \E y \in SkipSpan : Covering(u, d)' = {y}
    <2>0. d \in Nat
      BY SchedulerAssumption
    <2>1. /\ d > sched[u].cursor => ClaimedTasks(u, d) = {} /\ Covering(u, d) = {}
          /\ sched[u].created < d /\ d <= sched[u].cursor =>
                \/ Covering(u, d) = {} /\ \E t \in Tasks : ClaimedTasks(u, d) = {t}
                \/ ClaimedTasks(u, d) = {} /\ \E y \in SkipSpan : Covering(u, d) = {y}
      BY DEF SchedulerInv, Disposed
    <2>2. CASE u # s BY <1>3, <1>5, <2>1, <2>2
    <2>3. CASE u = s BY <1>2, <1>3, <1>5, <1>6, <2>0, <2>1, <2>3
    <2> QED BY <2>2, <2>3
  <1>8. ASSUME NEW t \in Tasks, Armed(t)'
        PROVE  /\ occ'[t].due \in Calendar[occ'[t].schedule]
               /\ occ'[t].due > sched'[occ'[t].schedule].created
               /\ sched'[occ'[t].schedule].state # "absent"
    <2>1. Armed(t) /\ occ[t].schedule \in Schedules
      BY <1>1, <1>8, <1>t DEF Armed, Occurrence
    <2>2. /\ occ[t].due \in Calendar[occ[t].schedule]
          /\ occ[t].due > sched[occ[t].schedule].created
          /\ sched[occ[t].schedule].state # "absent"
      BY <2>1 DEF SchedulerInv, Disposed
    <2> QED BY <1>1, <1>3, <1>6, <2>1, <2>2
  <1>9. /\ \A u \in Schedules : sched'[u].created <= sched'[u].cursor
        /\ \A u \in Schedules : sched'[u].state = "absent" => sched'[u] = NoSchedule
    BY <1>2, <1>3, <1>6 DEF SchedulerInv, Disposed
  <1>10. Disposed'
    BY <1>7, <1>8, <1>9 DEF Disposed
  <1> QED BY <1>1, <1>4, <1>10, RowsFrame

\* A step that leaves the rows alone.
LEMMA QuietFrame ==
  ASSUME SchedulerInv, UNCHANGED <<storeVars, l, work, results, job>>, TypeOK', CommandIsPermitted'
  PROVE  SchedulerInv'
  <1>1. Disposed'
    BY DEF SchedulerInv, Disposed, ClaimedTasks, Covering, Armed, storeVars
  <1> QED BY <1>1, RowsFrame DEF storeVars

\* A command reads its schedule and decides on a permitted transition.
LEMMA ReadScheduleKeeps ==
  ASSUME SchedulerInv, NEW s \in Schedules, NEW to \in States, ReadSchedule(s, to)
  PROVE  SchedulerInv'
  <1>t. TypeOK /\ sched[s] \in [state : States, created : Time, cursor : Time] /\ now \in Time
    BY DEF SchedulerInv, TypeOK
  <1>1. /\ PermittedTransition(sched[s].state, to) /\ used.commands < MaxCommands
        /\ fe' = [schedule |-> s, from |-> sched[s].state, to |-> to,
                  cursor |-> sched[s].cursor, at |-> now]
        /\ used' = [used EXCEPT !.commands = used.commands + 1]
        /\ UNCHANGED <<storeVars, loopVars, job>>
    BY DEF ReadSchedule
  <1>2. fe' \in Command /\ fe'.from = sched[s].state /\ fe'.to = to
    BY <1>1, <1>t DEF Command
  <1>3. used' \in [runs : 0..MaxRuns, commands : 0..MaxCommands, rollbacks : 0..MaxRollbacks]
    <2>1. used.commands + 1 \in 0..MaxCommands
      BY <1>1, <1>t, SchedulerBounds DEF TypeOK
    <2> QED BY <1>1, <1>t, <2>1 DEF TypeOK
  <1>4. TypeOK' /\ CommandIsPermitted'
    BY <1>1, <1>2, <1>3, <1>t DEF TypeOK, CommandIsPermitted, storeVars, loopVars
  <1> QED BY <1>1, <1>4, QuietFrame DEF loopVars

\* A command's change commits, with the span of a pause that a resume ends.
LEMMA ApplyCommandKeeps ==
  ASSUME SchedulerInv, ApplyCommand
  PROVE  SchedulerInv'
  <1>1. /\ fe # NoCommand /\ fe' = NoCommand /\ UNCHANGED <<loopVars, job, used>>
        /\ ChangeState(fe.schedule, fe.from, fe.to, fe.cursor, ResumeTo)
    BY DEF ApplyCommand
  <1>t. /\ TypeOK /\ fe \in Command
        /\ sched \in [Schedules -> [state : States, created : Time, cursor : Time]]
    BY <1>1 DEF SchedulerInv, TypeOK
  <1> PICK s \in Schedules, from \in States, to \in States, cursor \in Time, end \in Time :
           s = fe.schedule /\ from = fe.from /\ to = fe.to /\ cursor = fe.cursor /\ end = ResumeTo
    BY <1>t DEF Command, ResumeTo
  <1>2. /\ ChangeState(s, from, to, cursor, end) /\ PermittedTransition(from, to)
        /\ end > cursor => to = "enabled"
    <2>1. end > cursor => fe.to = "enabled"
      BY <1>t, TimesAreNaturals DEF ResumeTo
    <2> QED BY <1>1, <2>1 DEF SchedulerInv, CommandIsPermitted
  <1>3. /\ sched[s].state = from /\ from # "absent" /\ to # "absent" /\ UNCHANGED occ
        /\ end > cursor => sched[s].cursor = cursor
    BY <1>2 DEF ChangeState, ChangeAllowed, PermittedTransition
  <1>4. /\ sched' \in [Schedules -> [state : States, created : Time, cursor : Time]]
        /\ spans' \in [Schedules -> SUBSET SkipSpan] /\ Disposed'
    <2>1. CASE /\ end > cursor
               /\ InsertSkipSpan(s, cursor, end, "paused")
               /\ sched' = [sched EXCEPT ![s].state = to, ![s].cursor = end]
      <3>1. sched' = [sched EXCEPT ![s] = [@ EXCEPT !.state = to, !.cursor = end]]
        BY <1>t, <2>1
      <3>2. "paused" \in SkipReasons /\ to \in States \ {"absent"}
        BY <1>3 DEF SkipReasons
      <3>3. end > sched[s].cursor /\ InsertSkipSpan(s, sched[s].cursor, end, "paused")
        BY <1>3, <2>1
      <3> QED BY <1>3, <3>1, <3>2, <3>3, SpanDisposes
    <2>2. CASE end <= cursor /\ sched' = [sched EXCEPT ![s].state = to] /\ UNCHANGED spans
      <3>1. /\ sched' \in [Schedules -> [state : States, created : Time, cursor : Time]]
            /\ \A u \in Schedules : u # s => sched'[u] = sched[u]
            /\ sched'[s].created = sched[s].created /\ sched'[s].cursor = sched[s].cursor
            /\ sched'[s].state = to
        BY <1>t, <2>2
      <3>2. \A u \in Schedules : /\ sched'[u].created = sched[u].created
                                 /\ sched'[u].cursor = sched[u].cursor
                                 /\ sched'[u].state = "absent" => sched'[u] = sched[u]
                                 /\ sched[u].state # "absent" => sched'[u].state # "absent"
        BY <1>3, <3>1
      <3>3. \A u, d : ClaimedTasks(u, d)' = ClaimedTasks(u, d) /\ Covering(u, d)' = Covering(u, d)
        BY <1>3, <2>2 DEF ClaimedTasks, Covering
      <3>4. ASSUME NEW t \in Tasks, Armed(t)'
            PROVE  /\ occ'[t].due \in Calendar[occ'[t].schedule]
                   /\ occ'[t].due > sched'[occ'[t].schedule].created
                   /\ sched'[occ'[t].schedule].state # "absent"
        <4>1. Armed(t) /\ occ' = occ /\ occ[t].schedule \in Schedules
          BY <1>3, <1>t, <3>4 DEF Armed, TypeOK, Occurrence
        <4> QED BY <3>2, <4>1 DEF SchedulerInv, Disposed
      <3>5. \A u \in Schedules : \A d \in Calendar[u] :
               /\ d > sched'[u].cursor => ClaimedTasks(u, d)' = {} /\ Covering(u, d)' = {}
               /\ sched'[u].created < d /\ d <= sched'[u].cursor =>
                     \/ Covering(u, d)' = {} /\ \E t \in Tasks : ClaimedTasks(u, d)' = {t}
                     \/ ClaimedTasks(u, d)' = {} /\ \E y \in SkipSpan : Covering(u, d)' = {y}
        BY <3>2, <3>3 DEF SchedulerInv, Disposed
      <3>6. /\ \A u \in Schedules : sched'[u].created <= sched'[u].cursor
            /\ \A u \in Schedules : sched'[u].state = "absent" => sched'[u] = NoSchedule
        BY <3>2 DEF SchedulerInv, Disposed
      <3>7. Disposed'
        BY <3>4, <3>5, <3>6 DEF Disposed
      <3>8. spans' \in [Schedules -> SUBSET SkipSpan]
        BY <1>t, <2>2 DEF TypeOK
      <3> QED BY <3>1, <3>7, <3>8
    <2> QED BY <1>2, <2>1, <2>2 DEF ChangeState
  <1>5. TypeOK' /\ CommandIsPermitted'
    BY <1>1, <1>3, <1>4, <1>t DEF TypeOK, CommandIsPermitted, loopVars
  <1> QED BY <1>1, <1>3, <1>4, <1>5, RowsFrame DEF loopVars

\* A command that loses its compare-and-set changes nothing.
LEMMA CommandFailsKeeps ==
  ASSUME SchedulerInv, CommandFails
  PROVE  SchedulerInv'
  <1>1. fe' = NoCommand /\ UNCHANGED <<storeVars, loopVars, job, used>>
    BY DEF CommandFails
  <1>2. TypeOK' /\ CommandIsPermitted'
    BY <1>1 DEF SchedulerInv, TypeOK, CommandIsPermitted, storeVars, loopVars
  <1> QED BY <1>1, <1>2, QuietFrame DEF loopVars

\* The clock moves, in either direction.
LEMMA ClockKeeps ==
  ASSUME SchedulerInv, Tick \/ ClockSetBack
  PROVE  SchedulerInv'
  <1>t. /\ now \in Time /\ now \in Nat
        /\ used \in [runs : 0..MaxRuns, commands : 0..MaxCommands, rollbacks : 0..MaxRollbacks]
    BY TimesAreNaturals DEF SchedulerInv, TypeOK
  <1>1. now' \in Time /\ UNCHANGED <<storeVars, l, work, results, faults, job, fe>>
    BY <1>t, SchedulerAssumption DEF Tick, ClockSetBack, Time
  <1>2. used' \in [runs : 0..MaxRuns, commands : 0..MaxCommands, rollbacks : 0..MaxRollbacks]
    <2>1. CASE used' = used BY <1>t, <2>1
    <2>2. CASE /\ used.rollbacks < MaxRollbacks
               /\ used' = [used EXCEPT !.rollbacks = used.rollbacks + 1]
      <3>1. used.rollbacks + 1 \in 0..MaxRollbacks
        BY <1>t, <2>2, SchedulerBounds
      <3> QED BY <1>t, <2>2, <3>1
    <2> QED BY <2>1, <2>2 DEF Tick, ClockSetBack
  <1>3. TypeOK' /\ CommandIsPermitted'
    BY <1>1, <1>2 DEF SchedulerInv, TypeOK, CommandIsPermitted, storeVars
  <1> QED BY <1>1, <1>3, QuietFrame

\* The loop starts afresh, or is gone together with its workers.
LEMMA RestartKeeps ==
  ASSUME SchedulerInv, StartRun \/ RunReturns \/ Crash
  PROVE  SchedulerInv'
  <1>t. /\ now \in Time /\ 0 \in Time
        /\ used \in [runs : 0..MaxRuns, commands : 0..MaxCommands, rollbacks : 0..MaxRollbacks]
    BY TimesAreNaturals DEF SchedulerInv, TypeOK
  <1>p. "down" \in LoopPCs /\ "idle" \in LoopPCs
    BY DEF LoopPCs
  <1>1. /\ work' = {} /\ results' = <<>> /\ UNCHANGED <<storeVars, now, faults, job, fe>>
        /\ l' = NewLoop("idle", now) \/ l' = NewLoop("down", 0)
    BY DEF StartRun, RunReturns, Crash, Joined, SchedulerInv, DownIsQuiet
  <1>2. /\ l' \in LoopState /\ l'.pc \in {"down", "idle"} /\ l'.live = {} /\ l'.active = {}
        /\ l'.reconciling = 0
    BY <1>1, <1>p, <1>t, NewLoopFields
  <1>3. used' \in [runs : 0..MaxRuns, commands : 0..MaxCommands, rollbacks : 0..MaxRollbacks]
    <2>1. CASE used' = used BY <1>t, <2>1
    <2>2. CASE used.runs < MaxRuns /\ used' = [used EXCEPT !.runs = used.runs + 1]
      <3>1. used.runs + 1 \in 0..MaxRuns
        BY <1>t, <2>2, SchedulerBounds
      <3> QED BY <1>t, <2>2, <3>1
    <2> QED BY <2>1, <2>2 DEF StartRun, RunReturns, Crash
  <1>4. TypeOK'
    <2>1. results' \in Seq(Result) /\ work' \subseteq Workers
      BY <1>1
    <2> QED BY <1>1, <1>2, <1>3, <2>1 DEF SchedulerInv, TypeOK, storeVars
  <1>5. /\ \A u : (Armed(u)' <=> Armed(u)) /\ ~Dispatching(u)'
        /\ \A u : MayRun(u)' => MayRun(u)
    BY <1>1 DEF Armed, Dispatching, MayRun, Settled, storeVars
  <1>6. DOMAIN results' = {} /\ Len(results') = 0
    BY <1>1
  <1>7. RowsFirst' /\ DownIsQuiet' /\ OneWorker' /\ SlotsAreDispatches' /\ ClaimIsNext'
    BY <1>1, <1>2, <1>5, <1>6 DEF SchedulerInv, RowsFirst, DownIsQuiet, OneWorker,
       SlotsAreDispatches, ClaimIsNext
  <1>8. PlacesSuffice'
    <2>1. IsFiniteSet({}) /\ Cardinality({}) = 0
      BY FS_EmptySet
    <2>2. Observers' = 0
      BY <1>2 DEF Observers
    <2>3. AdmissionLimit \in Nat
      BY LoopAssumption
    <2>4. l'.pc \notin {"claim", "readback"}
      BY <1>2
    <2>5. /\ IsFiniteSet(work') /\ Cardinality(work') = 0
          /\ IsFiniteSet(l'.live) /\ Cardinality(l'.live) = 0
      BY <1>1, <1>2, <2>1
    <2> QED BY <1>6, <2>2, <2>3, <2>4, <2>5 DEF PlacesSuffice
  <1>9. ReportsHold'
    <2>1. \A u, a, b : SaysTrue(u, a, b) => SaysTrue(u, a, b)'
      BY <1>1, <1>5 DEF SaysTrue
    <2>2. \A u \in Tasks : SaysTrue(u, occ[u].admission, occ[u].release)'
      BY <1>1, <1>5 DEF SchedulerInv, ReportsHold, SaysTrue, storeVars
    <2>3. l'.pc \notin {"record", "release"}
      BY <1>2
    <2> QED BY <1>6, <2>2, <2>3 DEF ReportsHold
  <1>10. OneReservation' /\ SnapshotHolds' /\ Disposed' /\ CommandIsPermitted'
    BY <1>1, <1>2 DEF SchedulerInv, OneReservation, SnapshotHolds, Disposed, CommandIsPermitted,
       ActiveTasks, ClaimedTasks, Covering, Armed, InScan, storeVars
  <1> QED BY <1>4, <1>7, <1>8, <1>9, <1>10 DEF SchedulerInv

--------------------
(* The invariant.                                                          *)

\* The invariant holds of an empty store and a scheduler that is down.
LEMMA SchedulerInvStart == Init => SchedulerInv
  <1> SUFFICES ASSUME Init PROVE SchedulerInv
    OBVIOUS
  <1> USE DEF Init, StoreInit
  <1>z. 0 \in Time /\ 0 \in Nat /\ 0 \notin Schedules
    BY TimesAreNaturals, SchedulerAssumption
  <1>p. "down" \in LoopPCs /\ "none" \in Jobs /\ "absent" \in States
    BY DEF LoopPCs, Jobs, States
  <1>1. /\ l \in LoopState /\ l.pc = "down" /\ l.live = {} /\ l.active = {} /\ l.reconciling = 0
    BY <1>p, <1>z, NewLoopFields
  <1>2. TypeOK
    <2>1. /\ sched \in [Schedules -> [state : States, created : Time, cursor : Time]]
          /\ occ \in [Tasks -> Occurrence \cup {NoOccurrence}]
          /\ spans \in [Schedules -> SUBSET SkipSpan]
      BY <1>p, <1>z DEF NoSchedule
    <2>2. /\ work \subseteq Workers /\ results \in Seq(Result) /\ faults \in 0..MaxFaults
          /\ job \in [Tasks -> Jobs] /\ fe \in Command \cup {NoCommand} /\ now \in Time
          /\ used \in [runs : 0..MaxRuns, commands : 0..MaxCommands, rollbacks : 0..MaxRollbacks]
      BY <1>p, <1>z, LoopAssumption, SchedulerBounds
    <2> QED BY <1>1, <2>1, <2>2 DEF TypeOK
  <1>3. \A t \in Tasks : ~Armed(t) /\ ~MayRun(t)
    BY DEF Armed, MayRun, Dispatching, Settled
  <1>4. DOMAIN results = {} /\ Len(results) = 0
    OBVIOUS
  <1>5. RowsFirst /\ DownIsQuiet /\ OneWorker /\ SlotsAreDispatches /\ ClaimIsNext
    BY <1>1, <1>4 DEF RowsFirst, DownIsQuiet, OneWorker, SlotsAreDispatches, ClaimIsNext, Up
  <1>6. PlacesSuffice
    <2>1. IsFiniteSet({}) /\ Cardinality({}) = 0
      BY FS_EmptySet
    <2>2. Observers = 0 /\ AdmissionLimit \in Nat
      BY <1>1, LoopAssumption DEF Observers
    <2>3. /\ IsFiniteSet(work) /\ Cardinality(work) = 0
          /\ IsFiniteSet(l.live) /\ Cardinality(l.live) = 0
      BY <1>1, <2>1
    <2>4. l.pc \notin {"claim", "readback"}
      BY <1>1
    <2> QED BY <1>4, <2>2, <2>3, <2>4 DEF PlacesSuffice
  <1>7. ReportsHold
    <2>1. \A t \in Tasks : SaysTrue(t, occ[t].admission, occ[t].release)
      BY DEF SaysTrue, NoOccurrence
    <2> QED BY <1>1, <1>4, <2>1 DEF ReportsHold
  <1>8. \A s \in Schedules : ActiveTasks(s) = {}
    BY <1>z DEF ActiveTasks, NoOccurrence
  <1>9. OneReservation /\ SnapshotHolds
    BY <1>1, <1>8 DEF OneReservation, SnapshotHolds, InScan
  <1>10. Disposed
    <2>1. \A s \in Schedules : \A d : ClaimedTasks(s, d) = {} /\ Covering(s, d) = {}
      BY <1>z DEF ClaimedTasks, Covering, NoOccurrence
    <2>2. \A s \in Schedules : /\ sched[s] = NoSchedule
                               /\ sched[s].created = 0 /\ sched[s].cursor = 0
      BY DEF NoSchedule
    <2>3. \A s \in Schedules : \A d \in Calendar[s] : ~(0 < d /\ d <= 0)
      BY SchedulerAssumption
    <2>4. \A s \in Schedules : \A d \in Calendar[s] :
             /\ d > sched[s].cursor => ClaimedTasks(s, d) = {} /\ Covering(s, d) = {}
             /\ ~(sched[s].created < d /\ d <= sched[s].cursor)
      BY <2>1, <2>2, <2>3
    <2>5. \A s \in Schedules : sched[s].created <= sched[s].cursor
      BY <2>2
    <2> QED BY <1>3, <2>2, <2>4, <2>5 DEF Disposed
  <1>11. CommandIsPermitted
    BY DEF CommandIsPermitted
  <1> QED BY <1>2, <1>5, <1>6, <1>7, <1>9, <1>10, <1>11 DEF SchedulerInv

\* Every step preserves the invariant.
LEMMA SchedulerInvStep == SchedulerInv /\ [Next]_vars => SchedulerInv'
  <1> SUFFICES ASSUME SchedulerInv, [Next]_vars PROVE SchedulerInv'
    OBVIOUS
  <1>1. CASE LoopStep /\ UNCHANGED <<job, fe, used>>
    <2>1. CASE \E fresh \in BOOLEAN : Scan(fresh) BY <1>1, <2>1, ScanKeeps
    <2>2. CASE ScanSecondRange BY <1>1, <2>2, ScanSecondRangeKeeps
    <2>3. CASE \E x \in l.page :
                  ConsiderWaits(x) \/ HoldTick(x) \/ SkipTick(x) \/ PrepareCandidate(x)
      BY <1>1, <2>3, ConsiderWaitsKeeps, HoldTickKeeps, SkipTickKeeps, PrepareCandidateKeeps
    <2>4. CASE ClaimTooLate \/ ClaimCommits \/ ClaimConflicts \/ ClaimUncertain \/ ClaimReadback
      BY <1>1, <2>4, ClaimReturnsKeeps, ClaimCommitsKeeps, ClaimUncertainKeeps, ClaimReadbackKeeps
    <2>5. CASE StartObservation \/ Finish \/ FinishObservation \/ FinishRelease
      BY <1>1, <2>5, StartObservationKeeps, FinishKeeps, FinishObservationKeeps, FinishReleaseKeeps
    <2> QED BY <1>1, <2>1, <2>2, <2>3, <2>4, <2>5 DEF LoopStep
  <1>2. CASE RunEnds /\ UNCHANGED <<job, fe, used>>
    BY <1>2, RunEndsKeeps
  <1>3. CASE \E w \in Workers : WorkerStep(w) BY <1>3, WorkerStepKeeps
  <1>4. CASE \E t \in Tasks : TaskRuns(t) BY <1>4, TaskRunsKeeps
  <1>5. CASE \/ \E s \in Schedules : CreateCommand(s)
             \/ \E s \in Schedules, to \in States : ReadSchedule(s, to)
             \/ ApplyCommand \/ CommandFails
    BY <1>5, CreateCommandKeeps, ReadScheduleKeeps, ApplyCommandKeeps, CommandFailsKeeps
  <1>6. CASE Tick \/ ClockSetBack \/ StartRun \/ RunReturns \/ Crash
    BY <1>6, ClockKeeps, RestartKeeps
  <1>7. CASE UNCHANGED vars
    <2> USE <1>7 DEF vars, storeVars, loopVars
    <2>1. TypeOK' /\ CommandIsPermitted'
      BY DEF SchedulerInv, TypeOK, CommandIsPermitted
    <2> QED BY <2>1, QuietFrame
  <1> QED BY <1>1, <1>2, <1>3, <1>4, <1>5, <1>6, <1>7 DEF Next

\* The rows of the store, the loop and its workers, and the tasks agree at every
\* step, whatever crashes, faults, commands and clock changes come between.
THEOREM SchedulerInvariant == Spec => []SchedulerInv
  BY SchedulerInvStart, SchedulerInvStep, PTL DEF Spec

\* Every due time up to a schedule's cursor is disposed of exactly once, tasks of
\* one schedule never overlap, a release is final, and no worker can block on the
\* result channel: for every calendar, limit and number of faults and restarts.
THEOREM SchedulerSoundness == Spec => []SchedulerIsSound
  <1>1. SchedulerInv => SchedulerIsSound
    <2> SUFFICES ASSUME SchedulerInv PROVE SchedulerIsSound
      OBVIOUS
    <2>1. DisposedOnce
      <3> SUFFICES ASSUME NEW s \in Schedules, NEW d \in Calendar[s], d > sched[s].created
                   PROVE  Cardinality(ClaimedTasks(s, d)) + Cardinality(Covering(s, d))
                             = IF d <= sched[s].cursor THEN 1 ELSE 0
        BY DEF DisposedOnce
      <3>1. /\ d \in Nat /\ sched[s].created \in Nat /\ sched[s].cursor \in Nat
        BY SchedulerAssumption, TimesAreNaturals DEF SchedulerInv, TypeOK
      <3>2. Cardinality({}) = 0 /\ \A x : Cardinality({x}) = 1
        BY FS_EmptySet, FS_Singleton
      <3>3. CASE d <= sched[s].cursor
        <4>1. \/ Covering(s, d) = {} /\ \E t \in Tasks : ClaimedTasks(s, d) = {t}
              \/ ClaimedTasks(s, d) = {} /\ \E x \in SkipSpan : Covering(s, d) = {x}
          BY <3>1, <3>3 DEF SchedulerInv, Disposed
        <4>2. \/ Cardinality(Covering(s, d)) = 0 /\ Cardinality(ClaimedTasks(s, d)) = 1
              \/ Cardinality(Covering(s, d)) = 1 /\ Cardinality(ClaimedTasks(s, d)) = 0
          BY <3>2, <4>1
        <4> QED BY <3>3, <4>2
      <3>4. CASE ~(d <= sched[s].cursor)
        <4>1. ClaimedTasks(s, d) = {} /\ Covering(s, d) = {}
          BY <3>1, <3>4 DEF SchedulerInv, Disposed
        <4> QED BY <3>2, <3>4, <4>1
      <3> QED BY <3>3, <3>4
    <2>2. ASSUME NEW t \in Tasks, MayRun(t) PROVE t \in ActiveTasks(occ[t].schedule)
                                                  /\ occ[t].schedule \in Schedules
      <3>1. Armed(t)
        <4>1. <<t, "dispatch">> \in work => Armed(t)
          BY DEF SchedulerInv, RowsFirst
        <4>2. job[t] # "none" => Armed(t)
          BY DEF SchedulerInv, RowsFirst
        <4> QED BY <2>2, <4>1, <4>2 DEF MayRun, Dispatching, Settled
      <3>2. occ[t].release = "none"
        BY <2>2 DEF SchedulerInv, ReportsHold, SaysTrue
      <3>3. occ[t].schedule \in Schedules
        BY <3>1 DEF SchedulerInv, TypeOK, Armed, Occurrence
      <3> QED BY <3>2, <3>3 DEF ActiveTasks
    <2>3. NoOverlap
      BY <2>2 DEF NoOverlap, SchedulerInv, OneReservation
    <2>4. ReleasedIsOver
      BY DEF ReleasedIsOver, SchedulerInv, ReportsHold, SaysTrue
    <2>5. ResultsNeverBlock
      BY DEF ResultsNeverBlock, SchedulerInv, PlacesSuffice
    <2> QED BY <2>1, <2>3, <2>4, <2>5 DEF SchedulerIsSound, SchedulerInv
  <1> QED BY <1>1, SchedulerInvariant, PTL

--------------------
(* What a run writes is true.                                              *)

\* The steps that write to the store.
LEMMA StoreSteps ==
  ASSUME [Next]_vars
  PROVE  \/ UNCHANGED storeVars
         \/ \E s \in Schedules : CreateCommand(s)
         \/ ApplyCommand
         \/ (\E x \in l.page : SkipTick(x)) /\ UNCHANGED <<job, fe, used>>
         \/ (ClaimCommits \/ ClaimUncertain) /\ UNCHANGED <<job, fe, used>>
         \/ (FinishObservation \/ FinishRelease) /\ UNCHANGED <<job, fe, used>>
  <1>1. CASE LoopStep /\ UNCHANGED <<job, fe, used>>
    BY <1>1 DEF LoopStep, Scan, ScanSecondRange, ConsiderWaits, HoldTick, PrepareCandidate,
       ClaimTooLate, ClaimConflicts, ClaimReadback, StartObservation, Finish
  <1>2. CASE RunEnds /\ UNCHANGED <<job, fe, used>>
    BY <1>2 DEF RunEnds
  <1>3. CASE \E w \in Workers : WorkerStep(w)
    BY <1>3 DEF WorkerStep, CreateTask, SubmitTask, ObserveAbsent, ObserveUnadmitted,
       ObserveAdmitted, ObserveFenced, WorkerFails
  <1>4. CASE \E t \in Tasks : TaskRuns(t) BY <1>4 DEF TaskRuns
  <1>5. CASE \/ \E s \in Schedules, to \in States : ReadSchedule(s, to)
             \/ CommandFails
    BY <1>5 DEF ReadSchedule, CommandFails
  <1>6. CASE Tick \/ ClockSetBack \/ StartRun \/ RunReturns \/ Crash
    BY <1>6 DEF Tick, ClockSetBack, StartRun, RunReturns, Crash
  <1>7. CASE UNCHANGED vars BY <1>7 DEF vars
  <1> QED BY <1>1, <1>2, <1>3, <1>4, <1>5, <1>6, <1>7 DEF Next

\* A row that is observed or released is there already.
LEMMA RowsStay ==
  ASSUME SchedulerInv, FinishObservation \/ FinishRelease
  PROVE  \A t \in Tasks : occ[t] = NoOccurrence => occ'[t] = NoOccurrence
  <1>1. Armed(l.result.task) /\ occ \in [Tasks -> Occurrence \cup {NoOccurrence}]
    BY DEF SchedulerInv, TypeOK, RowsFirst, FinishObservation, FinishRelease
  <1> PICK t \in Tasks : t = l.result.task
    BY <1>1 DEF Armed
  <1>2. \A u \in Tasks : u # t => occ'[u] = occ[u]
    BY <1>1 DEF FinishObservation, FinishRelease, RecordObservation, ReleaseOccurrence, storeVars
  <1> QED BY <1>1, <1>2 DEF Armed

\* A due time is claimed only by a claim in progress.
LEMMA RowIsClaimed ==
  ASSUME SchedulerInv, [Next]_vars, NEW t \in Tasks, occ[t] = NoOccurrence, occ'[t] # NoOccurrence
  PROVE  /\ l.pc = "claim" /\ l.claim \in Claim /\ t = l.claim.task
         /\ occ'[t] = Row(l.claim)
         /\ ClaimAndArm(l.claim.schedule, l.claim.task, l.claim.cursor, l.claim.due)
  <1>1. ~UNCHANGED occ
    OBVIOUS
  <1>2. CASE ClaimCommits \/ ClaimUncertain
    <2>1. /\ l.pc = "claim" /\ l.claim \in Claim
          /\ ClaimAndArm(l.claim.schedule, l.claim.task, l.claim.cursor, l.claim.due)
      BY <1>1, <1>2 DEF ClaimCommits, ClaimUncertain, Claiming, storeVars, SchedulerInv, ClaimIsNext
    <2> PICK c \in Claim : c = l.claim
      BY <2>1
    <2>2. /\ occ'[c.task] = Row(c) /\ \A u \in Tasks : u # c.task => occ'[u] = occ[u]
      BY <2>1, ClaimArms
    <2> QED BY <2>1, <2>2
  <1>3. CASE FinishObservation \/ FinishRelease
    BY <1>3, RowsStay
  <1>4. CASE \/ UNCHANGED storeVars
             \/ \E s \in Schedules : CreateCommand(s)
             \/ ApplyCommand
             \/ \E x \in l.page : SkipTick(x)
    BY <1>1, <1>4 DEF storeVars, CreateCommand, CreateSchedule, ApplyCommand, ChangeState, SkipTick,
       RecordSkip
  <1> QED BY <1>2, <1>3, <1>4, StoreSteps

\* A span is written by decideTick, or by a command that resumes a schedule.
LEMMA SpanIsDecided ==
  ASSUME SchedulerInv, [Next]_vars, NEW s \in Schedules, NEW x \in spans'[s], x \notin spans[s]
  PROVE  \/ x.reason = "paused"
         \/ \E y \in l.page : /\ l.pc = "consider" /\ y.id = s
                              /\ DecideTick(y).kind = "skip"
                              /\ x.reason = DecideTick(y).reason
  <1>t. spans \in [Schedules -> SUBSET SkipSpan] /\ \A y \in l.page : y.id \in Schedules
    BY DEF SchedulerInv, TypeOK, LoopState, Summary
  <1>1. spans' # spans
    OBVIOUS
  <1>w. ASSUME NEW u \in Schedules, NEW from, NEW to, NEW reason,
               InsertSkipSpan(u, from, to, reason)
        PROVE  s = u /\ x.reason = reason
    BY <1>t, <1>w DEF InsertSkipSpan
  <1>2. CASE ApplyCommand
    <2>1. fe \in Command
      BY <1>2 DEF ApplyCommand, SchedulerInv, TypeOK
    <2> PICK u \in Schedules : u = fe.schedule
      BY <2>1 DEF Command
    <2>2. InsertSkipSpan(u, fe.cursor, ResumeTo, "paused")
      BY <1>1, <1>2 DEF ApplyCommand, ChangeState
    <2> QED BY <1>w, <2>2
  <1>3. ASSUME NEW y \in l.page, SkipTick(y)
        PROVE  /\ l.pc = "consider" /\ y.id = s /\ DecideTick(y).kind = "skip"
               /\ x.reason = DecideTick(y).reason
    <2> PICK d : d = DecideTick(y)
      OBVIOUS
    <2>1. /\ l.pc = "consider" /\ d.kind = "skip"
          /\ RecordSkip(y.id, y.cursor, d.due, d.reason) \/ UNCHANGED storeVars
      BY <1>3 DEF SkipTick, Considering
    <2>2. InsertSkipSpan(y.id, y.cursor, d.due, d.reason)
      BY <1>1, <2>1 DEF RecordSkip, storeVars
    <2> QED BY <1>t, <1>w, <2>1, <2>2
  <1>4. CASE \/ UNCHANGED storeVars
             \/ \E u \in Schedules : CreateCommand(u)
             \/ ClaimCommits \/ ClaimUncertain
             \/ FinishObservation \/ FinishRelease
    BY <1>1, <1>4 DEF storeVars, CreateCommand, CreateSchedule, ClaimCommits, ClaimUncertain,
       ClaimAndArm, FinishObservation, FinishRelease, RecordObservation, ReleaseOccurrence
  <1> QED BY <1>2, <1>3, <1>4, StoreSteps

\* While a schedule is considered, its blocker in the snapshot is the row that
\* holds its reservation.
LEMMA PriorHoldsReservation ==
  ASSUME SchedulerInv, l.pc = "consider", NEW y \in l.page
  PROVE  IF Prior(y.id) = 0 THEN ActiveTasks(y.id) = {} ELSE Prior(y.id) \in ActiveTasks(y.id)
  <1>1. y.id \in Schedules /\ l.active \subseteq Tasks
    BY DEF SchedulerInv, TypeOK, LoopState, Summary
  <1>2. ActiveTasks(y.id) \subseteq l.active /\ \A t \in l.active : occ[t].release = "none"
    BY DEF SchedulerInv, SnapshotHolds, InScan
  <1> QED BY <1>1, <1>2, PriorIsActive DEF ActiveTasks

\* Every admission slot stands for a dispatch in progress or one whose result is
\* still in the channel.
LEMMA SlotsAreCounted ==
  ASSUME SchedulerInv, Up
  PROVE  Cardinality(l.live) <= Cardinality({t \in Tasks : Dispatching(t)})
                                 + Cardinality({i \in DOMAIN results : results[i].dispatch})
  <1> DEFINE D == {t \in Tasks : Dispatching(t)}
  <1> DEFINE I == {i \in DOMAIN results : results[i].dispatch}
  <1> DEFINE W == l.live \ D
  <1> DEFINE f == [t \in W |-> CHOOSE i \in I : results[i].task = t]
  <1>1. /\ IsFiniteSet(l.live) /\ D \subseteq l.live
        /\ \A t \in l.live : Dispatching(t) \/ \E i \in I : results[i].task = t
    BY DEF SchedulerInv, PlacesSuffice, SlotsAreDispatches
  <1>2. IsFiniteSet(I)
    <2>1. Len(results) \in Nat /\ DOMAIN results = 1..Len(results)
      BY DEF SchedulerInv, TypeOK
    <2>2. IsFiniteSet(1..Len(results))
      BY <2>1, FS_Interval
    <2> QED BY <2>1, <2>2, FS_Subset
  <1>3. \A t \in W : f[t] \in I /\ results[f[t]].task = t
    <2> TAKE t \in W
    <2>1. t \in l.live /\ ~Dispatching(t)
      BY <1>1 DEF SchedulerInv, TypeOK, LoopState
    <2>2. \E i \in I : results[i].task = t
      BY <1>1, <2>1
    <2>3. f[t] = CHOOSE i \in I : results[i].task = t
      OBVIOUS
    <2> HIDE DEF I, f
    <2> QED BY <2>2, <2>3
  <1>4. f \in Injection(W, I)
    <2>1. f = [t \in W |-> f[t]]
      OBVIOUS
    <2> HIDE DEF f, I, W
    <2>2. f \in [W -> I]
      BY <1>3, <2>1
    <2> QED BY <1>3, <2>2 DEF Injection, IsInjective
  <1>5. Cardinality(W) <= Cardinality(I)
    <2> HIDE DEF f, I, W
    <2> QED BY <1>2, <1>4, FS_Injection
  <1>6. Cardinality(W) = Cardinality(l.live) - Cardinality(D)
    <2>1. l.live \cap D = D
      BY <1>1
    <2> HIDE DEF D
    <2>2. Cardinality(l.live \ D) = Cardinality(l.live) - Cardinality(l.live \cap D)
      BY <1>1, FS_Difference
    <2> QED BY <2>1, <2>2
  <1>7. IsFiniteSet(D) /\ Cardinality(D) \in Nat /\ Cardinality(I) \in Nat
        /\ Cardinality(l.live) \in Nat
    <2> HIDE DEF D, I
    <2> QED BY <1>1, <1>2, FS_Subset, FS_CardinalityType
  <1> HIDE DEF D, I, W
  <1>8. Cardinality(l.live) <= Cardinality(D) + Cardinality(I)
    BY <1>5, <1>6, <1>7
  <1> QED BY <1>8 DEF D, I

\* The reason of a new span is true when it is written.
LEMMA BlameStep ==
  ASSUME SchedulerInv, [Next]_vars, NEW s \in Schedules, NEW x \in spans'[s] \ spans[s]
  PROVE  /\ x.reason = "overlap_active" =>
              \E t \in ActiveTasks(s) : job[t] \in {"queued", "running", "closed"}
         /\ x.reason = "blocked_uncertain" => ActiveTasks(s) # {}
         /\ x.reason = "missed_capacity" =>
              /\ ActiveTasks(s) = {}
              /\ Cardinality({t \in Tasks : Dispatching(t)})
                   + Cardinality({i \in DOMAIN results : results[i].dispatch})
                     >= AdmissionLimit
  <1>1. CASE x.reason = "paused" BY <1>1
  <1>2. CASE x.reason # "paused"
    <2> PICK y \in l.page : /\ l.pc = "consider" /\ y.id = s /\ DecideTick(y).kind = "skip"
                            /\ x.reason = DecideTick(y).reason
      BY <1>2, SpanIsDecided
    <2> PICK d : d = DecideTick(y)
      OBVIOUS
    <2> PICK prior : prior = Prior(s)
      OBVIOUS
    <2>t. y \in Summary /\ TypeOK
      BY DEF SchedulerInv, TypeOK, LoopState
    <2>1. /\ d.reason \in {"overlap_active", "blocked_uncertain"} => prior # 0
          /\ d.reason = "overlap_active" => occ[prior].admission = "admitted"
          /\ d.reason = "missed_capacity" => prior = 0 /\ ~SlotFree
      BY <2>t, DecisionIsDue
    <2>2. IF prior = 0 THEN ActiveTasks(s) = {} ELSE prior \in ActiveTasks(s)
      BY PriorHoldsReservation
    <2>3. \A t \in ActiveTasks(s) :
             occ[t].admission = "admitted" => job[t] \in {"queued", "running", "closed"}
      BY DEF ActiveTasks, SchedulerInv, ReportsHold, SaysTrue
    <2>4. ~SlotFree => Cardinality({t \in Tasks : Dispatching(t)})
                         + Cardinality({i \in DOMAIN results : results[i].dispatch})
                           >= AdmissionLimit
      <3> PICK c, k : /\ c = Cardinality({t \in Tasks : Dispatching(t)})
                      /\ k = Cardinality({i \in DOMAIN results : results[i].dispatch})
        OBVIOUS
      <3>1. Cardinality(l.live) <= c + k
        BY SlotsAreCounted DEF Up
      <3> SUFFICES ASSUME ~SlotFree PROVE c + k >= AdmissionLimit
        OBVIOUS
      <3>2. Cardinality(l.live) \in Nat /\ Cardinality(l.live) <= AdmissionLimit
            /\ AdmissionLimit \in Nat
        BY FS_CardinalityType, LoopAssumption DEF SchedulerInv, PlacesSuffice
      <3>3. Cardinality(l.live) = AdmissionLimit
        BY <3>2 DEF SlotFree
      <3> QED BY <3>1, <3>3
    <2> QED BY <2>1, <2>2, <2>3, <2>4
  <1> QED BY <1>1, <1>2

\* A new row is for a due time after the start of the run, of an enabled schedule.
LEMMA NoBacklogStep ==
  ASSUME SchedulerInv, [Next]_vars, NEW t \in Tasks, occ[t] = NoOccurrence, occ'[t] # NoOccurrence
  PROVE  occ'[t].due > l.startup /\ sched[occ'[t].schedule].state = "enabled"
  <1>1. /\ l.pc = "claim" /\ l.claim \in Claim /\ occ'[t] = Row(l.claim)
        /\ ClaimAndArm(l.claim.schedule, l.claim.task, l.claim.cursor, l.claim.due)
    BY RowIsClaimed
  <1> PICK c \in Claim : c = l.claim
    BY <1>1
  <1>2. Row(c).due = c.due /\ Row(c).schedule = c.schedule
    BY DEF Row, NoOccurrence
  <1>3. c.due > l.startup /\ sched[c.schedule].state = "enabled"
    BY <1>1 DEF SchedulerInv, ClaimIsNext, ClaimAndArm, ClaimAllowed
  <1> QED BY <1>1, <1>2, <1>3

\* What a span blames was so when it was written, and a run claims only due times
\* after its own start, of schedules that are enabled at that moment.
THEOREM SchedulerDecisions == Spec => DecisionsAreTrue
  <1>1. SchedulerInv /\ [Next]_vars =>
           [\A s \in Schedules : \A x \in spans'[s] \ spans[s] :
              /\ x.reason = "overlap_active" =>
                    \E t \in ActiveTasks(s) : job[t] \in {"queued", "running", "closed"}
              /\ x.reason = "blocked_uncertain" => ActiveTasks(s) # {}
              /\ x.reason = "missed_capacity" =>
                    /\ ActiveTasks(s) = {}
                    /\ Cardinality({t \in Tasks : Dispatching(t)})
                         + Cardinality({i \in DOMAIN results : results[i].dispatch})
                           >= AdmissionLimit]_vars
    BY BlameStep
  <1>2. SchedulerInv /\ [Next]_vars =>
           [\A t \in Tasks : occ[t] = NoOccurrence /\ occ'[t] # NoOccurrence =>
              /\ occ'[t].due > l.startup
              /\ sched[occ'[t].schedule].state = "enabled"]_vars
    BY NoBacklogStep
  <1>3. Spec => BlameIsTrue
    BY <1>1, SchedulerInvariant, PTL DEF Spec, BlameIsTrue
  <1>4. Spec => NoBacklog
    BY <1>2, SchedulerInvariant, PTL DEF Spec, NoBacklog
  <1> QED BY <1>3, <1>4 DEF DecisionsAreTrue

--------------------
(* The contract.                                                           *)

\* A set of instants that is bounded has a last one.
LEMMA LastInstant ==
  ASSUME NEW S \in SUBSET Nat, NEW n \in Nat, \A d \in S : d <= n, S # {}
  PROVE  \E d \in S : \A e \in S : e <= d
  <1> DEFINE R == {p \in Nat \X Nat : p[1] < p[2]}
  <1> DEFINE T == {n - d : d \in S}
  <1>1. IsWellFoundedOn(R, Nat)
    BY NatLessThanWellFounded DEF OpToRel
  <1>2. T \subseteq Nat /\ T # {}
    <2>1. \A d \in S : n - d \in Nat /\ n - d \in T
      OBVIOUS
    <2> PICK d \in S : TRUE
      OBVIOUS
    <2> QED BY <2>1
  <1>3. \E x \in T : \A y \in T : <<y, x>> \notin R
    <2> HIDE DEF T, R
    <2> QED BY <1>1, <1>2, WFMin
  <1> PICK x \in T : \A y \in T : <<y, x>> \notin R
    BY <1>3
  <1> PICK d \in S : x = n - d
    OBVIOUS
  <1>4. \A e \in S : e <= d
    <2> TAKE e \in S
    <2>1. n - e \in T /\ <<n - e, n - d>> \notin R
      OBVIOUS
    <2>2. n - e \in Nat /\ n - d \in Nat
      OBVIOUS
    <2>3. ~(n - e < n - d)
      BY <2>1, <2>2
    <2> QED BY <2>2, <2>3
  <1> QED BY <1>4

\* What the rows and the tasks say about every due time: the refinement mapping.
FateTable == [s \in Schedules |-> [d \in Calendar[s] |-> Fate(s, d)]]

TaskFate(t) ==
    IF MayRun(t) THEN "running"
    ELSE IF occ[t].release = "none" THEN "settled" ELSE "over"

\* A due time that is claimed has one row, which says its fate.
LEMMA ClaimedFate ==
  ASSUME SchedulerInv, NEW s \in Schedules, NEW d \in Calendar[s],
         NEW t \in ClaimedTasks(s, d)
  PROVE  /\ ClaimedTasks(s, d) = {t} /\ Fate(s, d) = TaskFate(t) /\ Armed(t)
         /\ sched[s].created < d /\ d <= sched[s].cursor
  <1>1. t \in Tasks /\ occ[t].schedule = s /\ occ[t].due = d
    BY DEF ClaimedTasks
  <1>2. Armed(t)
    BY <1>1, SchedulerAssumption DEF Armed, NoOccurrence
  <1>3. sched[s].created < d
    BY <1>1, <1>2 DEF SchedulerInv, Disposed
  <1>n. d \in Nat /\ sched[s].cursor \in Nat
    BY SchedulerAssumption, TimesAreNaturals DEF SchedulerInv, TypeOK
  <1>4. d <= sched[s].cursor
    BY <1>n DEF SchedulerInv, Disposed
  <1>5. ClaimedTasks(s, d) = {t}
    <2>1. \/ \E u \in Tasks : ClaimedTasks(s, d) = {u}
          \/ ClaimedTasks(s, d) = {}
      BY <1>3, <1>4 DEF SchedulerInv, Disposed
    <2> QED BY <2>1
  <1>6. Fate(s, d) = TaskFate(t)
    <2>1. (CHOOSE u \in ClaimedTasks(s, d) : TRUE) = t
      BY <1>5
    <2> QED BY <1>5, <2>1 DEF Fate, TaskFate
  <1> QED BY <1>2, <1>3, <1>4, <1>5, <1>6

\* A due time without a row is open exactly beyond the cursor.
LEMMA UnclaimedFate ==
  ASSUME SchedulerInv, NEW s \in Schedules, NEW d \in Calendar[s]
  PROVE  /\ ClaimedTasks(s, d) = {} => Fate(s, d) \in {"open", "skipped"}
         /\ Fate(s, d) = "open" <=> sched[s].state = "absent" \/ d > sched[s].cursor
         /\ Fate(s, d) = "open" => ClaimedTasks(s, d) = {}
  <1>n. /\ d \in Nat /\ sched[s].cursor \in Nat /\ sched[s].created \in Nat
        /\ sched[s].created <= sched[s].cursor
    BY SchedulerAssumption, TimesAreNaturals DEF SchedulerInv, TypeOK, Disposed
  <1>1. CASE ClaimedTasks(s, d) # {}
    <2> PICK t \in ClaimedTasks(s, d) : TRUE
      BY <1>1
    <2>1. Fate(s, d) = TaskFate(t) /\ Armed(t) /\ d <= sched[s].cursor
      BY ClaimedFate
    <2>2. sched[s].state # "absent"
      BY <2>1 DEF SchedulerInv, Disposed, ClaimedTasks
    <2> QED BY <1>1, <1>n, <2>1, <2>2 DEF TaskFate
  <1>2. CASE ClaimedTasks(s, d) = {}
    <2>1. Fate(s, d) = IF Covering(s, d) # {}
                            \/ (sched[s].state # "absent" /\ d <= sched[s].created)
                       THEN "skipped" ELSE "open"
      BY <1>2 DEF Fate
    <2>2. CASE d > sched[s].cursor
      <3>1. Covering(s, d) = {}
        BY <2>2 DEF SchedulerInv, Disposed
      <3> QED BY <1>2, <1>n, <2>1, <2>2, <3>1
    <2>3. CASE d <= sched[s].cursor /\ sched[s].state = "absent"
      <3>1. d = 0
        BY <1>n, <2>3 DEF SchedulerInv, Disposed, NoSchedule
      <3>2. \A x \in spans[s] : x.from \in Nat
        <4>1. spans[s] \subseteq SkipSpan
          BY DEF SchedulerInv, TypeOK
        <4> QED BY <4>1, TimesAreNaturals DEF SkipSpan
      <3>3. Covering(s, d) = {}
        BY <3>1, <3>2 DEF Covering
      <3> QED BY <1>2, <1>n, <2>1, <2>3, <3>3
    <2>4. CASE d <= sched[s].cursor /\ sched[s].state # "absent"
      <3>1. sched[s].created < d => Covering(s, d) # {}
        BY <1>2, <2>4 DEF SchedulerInv, Disposed
      <3> QED BY <1>2, <1>n, <2>1, <2>4, <3>1
    <2> QED BY <1>n, <2>2, <2>3, <2>4
  <1> QED BY <1>1, <1>2

\* The steps of the contract on the fates of the rows.
LEMMA ContractSkips ==
  ASSUME NEW s \in Schedules, NEW to \in Nat,
         \A u \in Schedules : \A d \in Calendar[u] :
            Fate(u, d)' = IF u = s /\ d <= to /\ Fate(u, d) = "open" THEN "skipped"
                          ELSE Fate(u, d)
  PROVE  [Contract!ContractNext]_FateTable
  <1>1. Calendar[s] \subseteq Nat
    BY SchedulerAssumption
  <1> DEFINE S == {d \in Calendar[s] : d <= to}
  <1>2. CASE S = {}
    <2>1. \A u \in Schedules : \A d \in Calendar[u] : Fate(u, d)' = Fate(u, d)
      BY <1>2
    <2> QED BY <2>1 DEF FateTable
  <1>3. CASE S # {}
    <2>1. S \in SUBSET Nat /\ \A d \in S : d <= to
      BY <1>1
    <2>2. \E d \in S : \A e \in S : e <= d
      <3> HIDE DEF S
      <3> QED BY <1>3, <2>1, LastInstant
    <2> PICK d \in S : \A e \in S : e <= d
      BY <2>2
    <2>3. d \in Calendar[s] /\ d \in Nat /\ \A e \in Calendar[s] : e \in Nat /\ (e <= d <=> e <= to)
      BY <1>1
    <2>4. \A u \in Schedules : \A e \in Calendar[u] :
             Fate(u, e)' = IF u = s /\ e <= d /\ Fate(u, e) = "open" THEN "skipped"
                           ELSE Fate(u, e)
      BY <2>3
    <2>5. FateTable' = [FateTable EXCEPT ![s] = [e \in Calendar[s] |->
             IF e <= d /\ FateTable[s][e] = "open" THEN "skipped" ELSE FateTable[s][e]]]
      BY <2>4 DEF FateTable
    <2>6. Contract!SkipThrough(s, d)
      BY <2>5 DEF Contract!SkipThrough, FateTable
    <2> QED BY <2>3, <2>6 DEF Contract!ContractNext
  <1> QED BY <1>2, <1>3

\* The contract's claim: the first open due time of a schedule without reservation.
LEMMA ContractClaims ==
  ASSUME NEW s \in Schedules, NEW d \in Calendar[s], NEW f \in {"running", "settled"},
         Fate(s, d) = "open", \A e \in Calendar[s] : e < d => Fate(s, e) # "open",
         \A e \in Calendar[s] : Fate(s, e) \notin {"running", "settled"},
         \A u \in Schedules : \A e \in Calendar[u] :
            Fate(u, e)' = IF u = s /\ e = d THEN f ELSE Fate(u, e)
  PROVE  Contract!ContractNext
  <1>1. FateTable' = [FateTable EXCEPT ![s][d] = f]
    BY DEF FateTable
  <1>2. Contract!Claim(s, d, f)
    BY <1>1 DEF Contract!Claim, Contract!Reserved, FateTable
  <1> QED BY <1>2 DEF Contract!ContractNext

\* The contract's release of a settled due time.
LEMMA ContractReleases ==
  ASSUME NEW s \in Schedules, NEW d \in Calendar[s], Fate(s, d) = "settled",
         \A u \in Schedules : \A e \in Calendar[u] :
            Fate(u, e)' = IF u = s /\ e = d THEN "over" ELSE Fate(u, e)
  PROVE  Contract!ContractNext
  <1>1. FateTable' = [FateTable EXCEPT ![s][d] = "over"]
    BY DEF FateTable
  <1>2. Contract!Release(s, d)
    BY <1>1 DEF Contract!Release, FateTable
  <1> QED BY <1>2 DEF Contract!ContractNext

\* The contract's settling of what was running.
LEMMA ContractSettles ==
  ASSUME NEW ended \in SUBSET Schedules,
         \A u \in Schedules : \A e \in Calendar[u] :
            Fate(u, e)' = IF Fate(u, e) = "running" /\ u \in ended THEN "settled" ELSE Fate(u, e)
  PROVE  Contract!ContractNext
  <1>1. FateTable' = [s \in Schedules |-> [d \in Calendar[s] |->
           IF FateTable[s][d] = "running" /\ s \in ended THEN "settled" ELSE FateTable[s][d]]]
    BY DEF FateTable
  <1>2. Contract!Settle(ended)
    BY <1>1 DEF Contract!Settle, FateTable
  <1> QED BY <1>2 DEF Contract!ContractNext

\* A fate and its value in the next state, by what it is derived from.
LEMMA FateByRow ==
  ASSUME NEW s, NEW d, NEW t
  PROVE  /\ ClaimedTasks(s, d) = {t} => Fate(s, d) = TaskFate(t)
         /\ ClaimedTasks(s, d)' = {t} => Fate(s, d)' = TaskFate(t)'
         /\ ClaimedTasks(s, d) = {} =>
               Fate(s, d) = IF Covering(s, d) # {}
                                 \/ (sched[s].state # "absent" /\ d <= sched[s].created)
                            THEN "skipped" ELSE "open"
         /\ ClaimedTasks(s, d)' = {} =>
               Fate(s, d)' = IF Covering(s, d)' # {}
                                  \/ (sched'[s].state # "absent" /\ d <= sched'[s].created)
                             THEN "skipped" ELSE "open"
  <1>1. (CHOOSE u \in {t} : TRUE) = t
    OBVIOUS
  <1>2. ClaimedTasks(s, d) = {t} => Fate(s, d) = TaskFate(t)
    BY <1>1 DEF Fate, TaskFate
  <1>3. ClaimedTasks(s, d)' = {t} => Fate(s, d)' = TaskFate(t)'
    BY <1>1 DEF Fate, TaskFate
  <1> QED BY <1>2, <1>3 DEF Fate

\* A due time whose row, spans and schedule stay keeps its fate.
LEMMA FateStays ==
  ASSUME SchedulerInv, NEW s \in Schedules, NEW d \in Calendar[s],
         ClaimedTasks(s, d)' = ClaimedTasks(s, d),
         \A t \in ClaimedTasks(s, d) : TaskFate(t)' = TaskFate(t),
         ClaimedTasks(s, d) = {} => /\ Covering(s, d)' = {} <=> Covering(s, d) = {}
                                    /\ sched'[s].state = "absent" <=> sched[s].state = "absent"
                                    /\ sched'[s].created = sched[s].created
  PROVE  Fate(s, d)' = Fate(s, d)
  <1>1. CASE ClaimedTasks(s, d) = {} BY <1>1, FateByRow
  <1>2. CASE ClaimedTasks(s, d) # {}
    <2> PICK t \in ClaimedTasks(s, d) : TRUE
      BY <1>2
    <2>1. ClaimedTasks(s, d) = {t}
      BY ClaimedFate
    <2> QED BY <2>1, FateByRow
  <1> QED BY <1>1, <1>2

\* Without a write to the store, tasks can only come to an end.
LEMMA EndsSettle ==
  ASSUME SchedulerInv, UNCHANGED storeVars, \A t \in Tasks : MayRun(t)' => MayRun(t)
  PROVE  Contract!ContractNext
  <1> PICK ended \in SUBSET Schedules :
           \A s \in Schedules : s \in ended <=> \E t \in ActiveTasks(s) : MayRun(t) /\ ~MayRun(t)'
    <2>1. {s \in Schedules : \E t \in ActiveTasks(s) : MayRun(t) /\ ~MayRun(t)'}
             \in SUBSET Schedules
      OBVIOUS
    <2> QED BY <2>1
  <1>1. \A s, d : ClaimedTasks(s, d)' = ClaimedTasks(s, d) /\ Covering(s, d)' = Covering(s, d)
    BY DEF ClaimedTasks, Covering, storeVars
  <1>2. ASSUME NEW s \in Schedules, NEW d \in Calendar[s]
        PROVE  Fate(s, d)' = IF Fate(s, d) = "running" /\ s \in ended THEN "settled"
                             ELSE Fate(s, d)
    <2>1. CASE ClaimedTasks(s, d) = {}
      <3>1. Fate(s, d)' = Fate(s, d)
        BY <1>1, <2>1, FateStays DEF storeVars
      <3>2. Fate(s, d) # "running"
        BY <2>1, UnclaimedFate
      <3> QED BY <3>1, <3>2
    <2>2. CASE ClaimedTasks(s, d) # {}
      <3> PICK t \in ClaimedTasks(s, d) : TRUE
        BY <2>2
      <3>1. /\ ClaimedTasks(s, d) = {t} /\ Fate(s, d) = TaskFate(t) /\ t \in Tasks
            /\ occ[t].schedule = s /\ Fate(s, d)' = TaskFate(t)' /\ occ' = occ
        BY <1>1, ClaimedFate, FateByRow DEF ClaimedTasks, storeVars
      <3>2. occ[t].release # "none" => ~MayRun(t)
        BY <3>1 DEF SchedulerInv, ReportsHold, SaysTrue
      <3>3. MayRun(t) => t \in ActiveTasks(s)
        BY <3>1, <3>2 DEF ActiveTasks
      <3>4. \A u \in ActiveTasks(s) : MayRun(t) => u = t
        BY <3>3 DEF SchedulerInv, OneReservation
      <3>5. MayRun(t) => (s \in ended <=> ~MayRun(t)')
        BY <3>3, <3>4
      <3> QED BY <3>1, <3>2, <3>5 DEF TaskFate
    <2> QED BY <2>1, <2>2
  <1> QED BY <1>2, ContractSettles

\* Only a claim makes a task run that could not run before.
LEMMA MayRunFalls ==
  ASSUME SchedulerInv, [Next]_vars, UNCHANGED storeVars, NEW t \in Tasks, MayRun(t)'
  PROVE  MayRun(t)
  <1>f. ASSUME work' \subseteq work, job'[t] = job[t] \/ ~Settled(t) \/ Dispatching(t)
        PROVE  MayRun(t)
    BY <1>f DEF MayRun, Dispatching, Settled
  <1>j. job \in [Tasks -> Jobs]
    BY DEF SchedulerInv, TypeOK
  <1>1. CASE LoopStep /\ UNCHANGED <<job, fe, used>>
    <2>1. <<t, "dispatch">> \in work' => <<t, "dispatch">> \in work
      <3>1. CASE StartObservation
        <4>1. work' = work \/ \E u : work' = work \cup {<<u, "observe">>}
          BY <3>1 DEF StartObservation
        <4>2. \A u : <<t, "dispatch">> # <<u, "observe">>
          OBVIOUS
        <4> QED BY <4>1, <4>2
      <3>2. CASE ClaimCommits
        <4>1. l.claim \in Claim /\ occ' = [occ EXCEPT ![l.claim.task] = Row(l.claim)]
              /\ occ[l.claim.task] = NoOccurrence /\ l.pc = "claim"
              /\ ClaimAndArm(l.claim.schedule, l.claim.task, l.claim.cursor, l.claim.due)
          BY <3>2 DEF ClaimCommits, Claiming, ClaimAndArm, SchedulerInv, ClaimIsNext, Row
        <4> PICK c \in Claim : c = l.claim
          BY <4>1
        <4>2. occ'[c.task] # occ[c.task]
          BY <4>1, ClaimArms
        <4> QED BY <4>2 DEF storeVars
      <3>3. CASE ~StartObservation /\ ~ClaimCommits
        BY <1>1, <3>3 DEF LoopStep, Scan, ScanSecondRange, ConsiderWaits, HoldTick, SkipTick,
           PrepareCandidate, ClaimTooLate, ClaimConflicts, ClaimUncertain, ClaimReadback,
           AfterReadback, Finish, FinishObservation, FinishRelease
      <3> QED BY <3>1, <3>2, <3>3
    <2> QED BY <1>1, <2>1 DEF MayRun, Dispatching, Settled
  <1>2. CASE \E w \in Workers : WorkerStep(w)
    <2> PICK w \in Workers : WorkerStep(w)
      BY <1>2
    <2>1. CASE CreateTask(w[1]) \/ SubmitTask(w)
      <3> PICK u \in Tasks : u = w[1]
        BY DEF Workers
      <3>1. work' = work /\ (Dispatching(u) \/ job[u] = "created")
            /\ \E j : job' = [job EXCEPT ![u] = j]
        BY <2>1 DEF CreateTask, SubmitTask, loopVars
      <3>2. job'[t] = job[t] \/ t = u
        BY <1>j, <3>1
      <3> QED BY <1>f, <3>1, <3>2 DEF Settled
    <2>2. CASE ObserveUnadmitted(w)
      <3> PICK u \in Tasks : u = w[1]
        BY DEF Workers
      <3>1. work' \subseteq work /\ job[u] = "created"
            /\ (job' = job \/ job' = [job EXCEPT ![u] = "fenced"])
        BY <2>2 DEF ObserveUnadmitted, Send
      <3>2. job'[t] = job[t] \/ t = u
        BY <1>j, <3>1
      <3> QED BY <1>f, <3>1, <3>2 DEF Settled
    <2>3. CASE ObserveAbsent(w) \/ ObserveAdmitted(w) \/ ObserveFenced(w) \/ WorkerFails(w)
      <3>1. work' \subseteq work /\ job' = job
        BY <2>3 DEF ObserveAbsent, ObserveAdmitted, ObserveFenced, WorkerFails, Send
      <3> QED BY <1>f, <3>1
    <2> QED BY <2>1, <2>2, <2>3 DEF WorkerStep
  <1>3. CASE \E u \in Tasks : TaskRuns(u)
    <2> PICK u \in Tasks : TaskRuns(u)
      BY <1>3
    <2>1. work' = work /\ job[u] \in {"queued", "running"} /\ \E j : job' = [job EXCEPT ![u] = j]
      BY DEF TaskRuns, loopVars
    <2>2. job'[t] = job[t] \/ t = u
      BY <1>j, <2>1
    <2> QED BY <1>f, <2>1, <2>2 DEF Settled
  <1>4. CASE \/ RunEnds /\ UNCHANGED <<job, fe, used>>
             \/ \E s \in Schedules : CreateCommand(s)
             \/ \E s \in Schedules, to \in States : ReadSchedule(s, to)
             \/ ApplyCommand \/ CommandFails
             \/ Tick \/ ClockSetBack \/ StartRun \/ RunReturns \/ Crash
             \/ UNCHANGED vars
    <2>1. work' \subseteq work /\ job' = job
      BY <1>4 DEF RunEnds, CreateCommand, ReadSchedule, ApplyCommand, CommandFails, Tick,
         ClockSetBack, StartRun, RunReturns, Crash, vars, loopVars
    <2> QED BY <1>f, <2>1
  <1> QED BY <1>1, <1>2, <1>3, <1>4 DEF Next

\* A span skips what lies between the cursor and its end.
LEMMA SpanSkips ==
  ASSUME SchedulerInv, NEW s \in Schedules, NEW to \in Time, NEW reason \in SkipReasons,
         sched[s].state # "absent", InsertSkipSpan(s, sched[s].cursor, to, reason),
         \A u \in Schedules : /\ sched'[u].created = sched[u].created
                              /\ sched'[u].state = "absent" <=> sched[u].state = "absent",
         UNCHANGED <<occ, work, job>>
  PROVE  [Contract!ContractNext]_FateTable
  <1> PICK x : x = [from |-> sched[s].cursor, to |-> to, reason |-> reason]
    OBVIOUS
  <1>0. x.from = sched[s].cursor /\ x.to = to
    OBVIOUS
  <1>n. /\ to \in Nat /\ sched[s].cursor \in Nat
        /\ \A u \in Schedules : \A d \in Calendar[u] : d \in Nat
    BY SchedulerAssumption, TimesAreNaturals DEF SchedulerInv, TypeOK
  <1>1. \A u \in Schedules : spans'[u] = IF u = s THEN spans[s] \cup {x} ELSE spans[u]
    BY DEF InsertSkipSpan, SchedulerInv, TypeOK
  <1>2. /\ \A u, d : ClaimedTasks(u, d)' = ClaimedTasks(u, d)
        /\ \A t : TaskFate(t)' = TaskFate(t)
    BY DEF ClaimedTasks, TaskFate, MayRun, Dispatching, Settled
  <1>3. \A u \in Schedules, d \in Nat :
           Covering(u, d)' = IF u = s /\ sched[s].cursor < d /\ d <= to
                             THEN Covering(s, d) \cup {x} ELSE Covering(u, d)
    BY <1>0, <1>1 DEF Covering
  <1>4. ASSUME NEW u \in Schedules, NEW d \in Calendar[u]
        PROVE  Fate(u, d)' = IF u = s /\ d <= to /\ Fate(u, d) = "open" THEN "skipped"
                             ELSE Fate(u, d)
    <2>0. d \in Nat
      BY <1>n
    <2>1. CASE u = s /\ d <= to /\ Fate(u, d) = "open"
      <3>1. d > sched[s].cursor /\ ClaimedTasks(u, d) = {}
        BY <2>1, UnclaimedFate
      <3>2. Covering(u, d)' # {}
        BY <1>3, <1>n, <2>0, <2>1, <3>1
      <3> QED BY <1>2, <2>1, <3>1, <3>2, FateByRow
    <2>2. CASE ~(u = s /\ d <= to /\ Fate(u, d) = "open")
      <3>1. CASE ClaimedTasks(u, d) # {} BY <1>2, <2>2, <3>1, FateStays
      <3>2. CASE ClaimedTasks(u, d) = {} /\ ~(u = s /\ sched[s].cursor < d /\ d <= to)
        <4>1. Covering(u, d)' = Covering(u, d)
          BY <1>3, <2>0, <3>2
        <4> QED BY <1>2, <2>2, <3>2, <4>1, FateStays
      <3>3. CASE u = s /\ sched[s].cursor < d /\ d <= to
        BY <1>n, <2>0, <2>2, <3>3, UnclaimedFate
      <3> QED BY <3>1, <3>2, <3>3
    <2> QED BY <2>1, <2>2
  <1> QED BY <1>4, <1>n, ContractSkips

\* A step that changes neither what is claimed or covered nor what a row says.
LEMMA RowsStand ==
  ASSUME SchedulerInv, UNCHANGED <<spans, work, job>>,
         \A t \in Tasks : /\ occ'[t].schedule = occ[t].schedule /\ occ'[t].due = occ[t].due
                          /\ occ'[t].release = occ[t].release,
         \A u \in Schedules : /\ sched'[u].created = sched[u].created
                              /\ sched'[u].state = "absent" <=> sched[u].state = "absent"
  PROVE  UNCHANGED FateTable
  <1>1. /\ \A u, d : ClaimedTasks(u, d)' = ClaimedTasks(u, d)
        /\ \A u, d : Covering(u, d)' = Covering(u, d)
        /\ \A t \in Tasks : TaskFate(t)' = TaskFate(t)
    BY DEF ClaimedTasks, Covering, TaskFate, MayRun, Dispatching, Settled
  <1>2. \A u \in Schedules : \A d \in Calendar[u] : Fate(u, d)' = Fate(u, d)
    BY <1>1, FateStays DEF ClaimedTasks
  <1> QED BY <1>2 DEF FateTable

\* Creation skips what was due before it.
LEMMA CreationSkips ==
  ASSUME SchedulerInv, NEW s \in Schedules, CreateCommand(s)
  PROVE  [Contract!ContractNext]_FateTable
  <1>t. /\ sched \in [Schedules -> [state : States, created : Time, cursor : Time]]
        /\ now \in Time /\ now \in Nat
    BY TimesAreNaturals DEF SchedulerInv, TypeOK
  <1>1. /\ sched[s] = NoSchedule
        /\ sched' = [sched EXCEPT ![s] =
                       [state |-> "enabled", created |-> now, cursor |-> now]]
        /\ UNCHANGED <<occ, spans, work, job>>
    BY DEF CreateCommand, CreateSchedule, loopVars
  <1>2. /\ sched'[s].state = "enabled" /\ sched'[s].created = now
        /\ \A u \in Schedules : u # s => sched'[u] = sched[u]
        /\ sched[s].state = "absent" /\ sched[s].cursor = 0
    BY <1>1, <1>t DEF NoSchedule
  <1>3. /\ \A u, d : ClaimedTasks(u, d)' = ClaimedTasks(u, d)
        /\ \A u, d : Covering(u, d)' = Covering(u, d)
        /\ \A t : TaskFate(t)' = TaskFate(t)
    BY <1>1 DEF ClaimedTasks, Covering, TaskFate, MayRun, Dispatching, Settled
  <1>4. ASSUME NEW u \in Schedules, NEW d \in Calendar[u]
        PROVE  Fate(u, d)' = IF u = s /\ d <= now /\ Fate(u, d) = "open" THEN "skipped"
                             ELSE Fate(u, d)
    <2>0. d \in Nat
      BY SchedulerAssumption
    <2>1. CASE u # s BY <1>2, <1>3, <2>1, FateStays
    <2>2. CASE u = s
      <3>1. Fate(u, d) = "open" /\ ClaimedTasks(u, d) = {}
        BY <1>2, <2>2, UnclaimedFate
      <3>2. d > 0 => Covering(u, d) = {}
        BY <1>2, <2>2 DEF SchedulerInv, Disposed
      <3>3. Fate(u, d)' = IF Covering(u, d) # {} \/ d <= now THEN "skipped" ELSE "open"
        BY <1>2, <1>3, <2>2, <3>1, FateByRow
      <3> QED BY <1>t, <2>0, <2>2, <3>1, <3>2, <3>3
    <2> QED BY <2>1, <2>2
  <1> QED BY <1>4, <1>t, ContractSkips

\* A claim that commits takes the first open due time and the reservation.
LEMMA ClaimClaims ==
  ASSUME SchedulerInv, ClaimCommits \/ ClaimUncertain, UNCHANGED job, ~UNCHANGED storeVars
  PROVE  Contract!ContractNext
  <1>0. /\ l.pc = "claim" /\ l.claim \in Claim
        /\ ClaimAndArm(l.claim.schedule, l.claim.task, l.claim.cursor, l.claim.due)
    BY DEF ClaimCommits, ClaimUncertain, Claiming, SchedulerInv, ClaimIsNext
  <1> PICK c \in Claim : c = l.claim
    BY <1>0
  <1> PICK s \in Schedules, t \in Tasks : s = c.schedule /\ t = c.task
    BY DEF Claim
  <1> PICK due : due = c.due
    OBVIOUS
  <1>1. /\ occ[t] = NoOccurrence /\ occ'[t] = Row(c) /\ Row(c).schedule = s /\ Row(c).due = due
        /\ Row(c).release = "none" /\ \A u \in Tasks : u # t => occ'[u] = occ[u]
        /\ ActiveTasks(s) = {}
    BY <1>0, ClaimArms DEF Row, NoOccurrence
  <1>2. /\ sched[s].state = "enabled" /\ sched[s].cursor = c.cursor /\ UNCHANGED spans
        /\ sched' = [sched EXCEPT ![s].cursor = due] /\ ClaimedTasks(s, due) = {}
        /\ due = NextDue(s, c.cursor)
    BY <1>0 DEF ClaimAndArm, ClaimAllowed, SchedulerInv, ClaimIsNext
  <1>3. /\ due \in Calendar[s] /\ due > c.cursor
        /\ \A e \in Calendar[s] : e > c.cursor => due <= e
    BY <1>2, NextDueIsNext DEF Claim
  <1>n. c.cursor \in Nat /\ \A u \in Schedules : \A e \in Calendar[u] : e \in Nat
    BY SchedulerAssumption, TimesAreNaturals DEF Claim
  <1>4. /\ \A u \in Schedules : /\ sched'[u].created = sched[u].created
                                /\ sched'[u].state = sched[u].state
        /\ \A u, d : Covering(u, d)' = Covering(u, d)
    BY <1>2 DEF SchedulerInv, TypeOK, Covering
  <1>5. ~Armed(t) /\ ~MayRun(t)
    BY <1>1 DEF Armed, MayRun, Dispatching, Settled, SchedulerInv, RowsFirst
  <1>6. /\ \A u \in Tasks : u # t => (MayRun(u)' <=> MayRun(u))
        /\ (MayRun(t)' \/ ~MayRun(t)')
    <2>1. work' = work \/ work' = work \cup {<<t, "dispatch">>}
      BY DEF ClaimCommits, ClaimUncertain
    <2>2. \A u : u # t => (<<u, "dispatch">> \in work' <=> <<u, "dispatch">> \in work)
      BY <2>1
    <2> QED BY <2>2 DEF MayRun, Dispatching, Settled
  <1>7. \A u \in Schedules : \A d : ClaimedTasks(u, d)' =
           IF u = s /\ d = due THEN {t} ELSE ClaimedTasks(u, d)
    <2>1. \A u \in Schedules : \A d : t \notin ClaimedTasks(u, d)
      BY <1>1, SchedulerAssumption DEF ClaimedTasks, NoOccurrence
    <2> SUFFICES ASSUME NEW u \in Schedules, NEW d
                 PROVE  ClaimedTasks(u, d)' = IF u = s /\ d = due THEN {t} ELSE ClaimedTasks(u, d)
      OBVIOUS
    <2>2. \A v : v \in ClaimedTasks(u, d)'
                   <=> v \in Tasks /\ occ'[v].schedule = u /\ occ'[v].due = d
      BY DEF ClaimedTasks
    <2>3. \A v \in Tasks : IF v = t THEN occ'[v].schedule = s /\ occ'[v].due = due
                           ELSE occ'[v] = occ[v]
      BY <1>1
    <2>4. \A v : v \in ClaimedTasks(u, d)
                   <=> v \in Tasks /\ occ[v].schedule = u /\ occ[v].due = d
      BY DEF ClaimedTasks
    <2>5. \A v : v \in ClaimedTasks(u, d)'
                   <=> v \in ClaimedTasks(u, d) \/ (v = t /\ u = s /\ d = due)
      BY <2>1, <2>2, <2>3, <2>4
    <2> QED BY <1>2, <2>5
  <1> PICK f \in {"running", "settled"} : f = TaskFate(t)'
    BY <1>1 DEF TaskFate
  <1>8. ASSUME NEW u \in Schedules, NEW e \in Calendar[u]
        PROVE  Fate(u, e)' = IF u = s /\ e = due THEN f ELSE Fate(u, e)
    <2>1. CASE u = s /\ e = due
      <3>1. ClaimedTasks(u, e)' = {t}
        BY <1>7, <2>1
      <3>2. Fate(u, e)' = TaskFate(t)'
        BY <3>1, FateByRow
      <3> QED BY <2>1, <3>2
    <2>2. CASE ~(u = s /\ e = due)
      <3>1. ClaimedTasks(u, e)' = ClaimedTasks(u, e)
        BY <1>7, <2>2
      <3>2. ASSUME NEW v \in ClaimedTasks(u, e) PROVE TaskFate(v)' = TaskFate(v)
        <4>1. v \in Tasks /\ v # t
          BY <1>5, ClaimedFate DEF ClaimedTasks
        <4> QED BY <1>1, <1>6, <4>1 DEF TaskFate
      <3> QED BY <1>4, <2>2, <3>1, <3>2, FateStays
    <2> QED BY <2>1, <2>2
  <1>9. Fate(s, due) = "open" /\ \A e \in Calendar[s] : e < due => Fate(s, e) # "open"
    <2>1. \A e \in Calendar[s] : e < due => ~(e > c.cursor)
      BY <1>3, <1>n
    <2> QED BY <1>2, <1>3, <2>1, UnclaimedFate
  <1>10. ASSUME NEW e \in Calendar[s], Fate(s, e) \in {"running", "settled"} PROVE FALSE
    <2>1. ClaimedTasks(s, e) # {}
      BY <1>10, UnclaimedFate
    <2> PICK v \in ClaimedTasks(s, e) : TRUE
      BY <2>1
    <2>2. Fate(s, e) = TaskFate(v) /\ v \in Tasks /\ occ[v].schedule = s
      BY ClaimedFate DEF ClaimedTasks
    <2>3. occ[v].release # "none" => ~MayRun(v)
      BY <2>2 DEF SchedulerInv, ReportsHold, SaysTrue
    <2> QED BY <1>1, <1>10, <2>2, <2>3 DEF TaskFate, ActiveTasks
  <1> QED BY <1>3, <1>8, <1>9, <1>10, ContractClaims

\* A decided span skips due times.
LEMMA SkipTickSkips ==
  ASSUME SchedulerInv, UNCHANGED job, NEW x \in l.page, SkipTick(x), ~UNCHANGED storeVars
  PROVE  [Contract!ContractNext]_FateTable
  <1>t. TypeOK /\ x \in Summary /\ x.id \in Schedules /\ x.cursor \in Time
    BY DEF SchedulerInv, TypeOK, LoopState, Summary
  <1> PICK d : d = DecideTick(x)
    OBVIOUS
  <1>1. /\ d.kind = "skip" /\ UNCHANGED work
        /\ RecordSkip(x.id, x.cursor, d.due, d.reason)
    BY DEF SkipTick
  <1> PICK s \in Schedules : s = x.id
    BY <1>t
  <1> PICK to, reason : to = d.due /\ reason = d.reason
    OBVIOUS
  <1>2. to \in Time /\ reason \in SkipReasons
    BY <1>1, <1>t, DecisionIsDue
  <1>3. /\ sched[s].state = "enabled" /\ sched[s].cursor = x.cursor /\ UNCHANGED occ
        /\ InsertSkipSpan(s, sched[s].cursor, to, reason)
        /\ sched' = [sched EXCEPT ![s].cursor = to]
    BY <1>1 DEF RecordSkip, SkipAllowed
  <1>4. \A u \in Schedules : /\ sched'[u].created = sched[u].created
                             /\ sched'[u].state = sched[u].state
    BY <1>3 DEF SchedulerInv, TypeOK
  <1> QED BY <1>1, <1>2, <1>3, <1>4, SpanSkips

\* A command skips the due times of a pause it ends, and decides nothing else.
LEMMA CommandSkips ==
  ASSUME SchedulerInv, ApplyCommand
  PROVE  [Contract!ContractNext]_FateTable
  <1>1. /\ fe # NoCommand /\ UNCHANGED <<loopVars, job>>
        /\ ChangeState(fe.schedule, fe.from, fe.to, fe.cursor, ResumeTo)
    BY DEF ApplyCommand
  <1>t. /\ TypeOK /\ fe \in Command
        /\ sched \in [Schedules -> [state : States, created : Time, cursor : Time]]
    BY <1>1 DEF SchedulerInv, TypeOK
  <1> PICK s \in Schedules, from \in States, to \in States, cursor \in Time, end \in Time :
           s = fe.schedule /\ from = fe.from /\ to = fe.to /\ cursor = fe.cursor /\ end = ResumeTo
    BY <1>t DEF Command, ResumeTo
  <1>2. ChangeState(s, from, to, cursor, end) /\ PermittedTransition(from, to)
    BY <1>1 DEF SchedulerInv, CommandIsPermitted
  <1>3. /\ sched[s].state = from /\ from # "absent" /\ to # "absent" /\ UNCHANGED <<occ, work>>
        /\ end > cursor => sched[s].cursor = cursor
    BY <1>1, <1>2 DEF ChangeState, ChangeAllowed, PermittedTransition, loopVars
  <1>4. CASE /\ end > cursor
             /\ InsertSkipSpan(s, cursor, end, "paused")
             /\ sched' = [sched EXCEPT ![s].state = to, ![s].cursor = end]
    <2>1. \A u \in Schedules : /\ sched'[u].created = sched[u].created
                               /\ sched'[u].state = IF u = s THEN to ELSE sched[u].state
      BY <1>4, <1>t
    <2>2. \A u \in Schedules : /\ sched'[u].created = sched[u].created
                               /\ sched'[u].state = "absent" <=> sched[u].state = "absent"
      BY <1>3, <2>1
    <2>3. "paused" \in SkipReasons /\ InsertSkipSpan(s, sched[s].cursor, end, "paused")
      BY <1>3, <1>4 DEF SkipReasons
    <2> QED BY <1>1, <1>3, <2>2, <2>3, SpanSkips
  <1>5. CASE end <= cursor /\ sched' = [sched EXCEPT ![s].state = to] /\ UNCHANGED spans
    <2>1. \A u \in Schedules : /\ sched'[u].created = sched[u].created
                               /\ sched'[u].state = IF u = s THEN to ELSE sched[u].state
      BY <1>5, <1>t
    <2>2. \A u \in Schedules : /\ sched'[u].created = sched[u].created
                               /\ sched'[u].state = "absent" <=> sched[u].state = "absent"
      BY <1>3, <2>1
    <2> QED BY <1>1, <1>3, <1>5, <2>2, RowsStand
  <1> QED BY <1>2, <1>4, <1>5 DEF ChangeState

\* An observation that is recorded decides nothing.
LEMMA ObservationStands ==
  ASSUME SchedulerInv, UNCHANGED job, FinishObservation, ~UNCHANGED storeVars
  PROVE  UNCHANGED FateTable
  <1>1. l.pc = "record" /\ RecordObservation(l.result.task, l.result.admission, l.result.at)
        /\ UNCHANGED work
    BY DEF FinishObservation
  <1>2. l.result \in Result
    BY <1>1 DEF SchedulerInv, RowsFirst
  <1> PICK t \in Tasks : t = l.result.task
    BY <1>2 DEF Result
  <1> PICK admission, at : admission = l.result.admission /\ at = l.result.at
    OBVIOUS
  <1> PICK row : row = IF occ[t].admission = "none" \/ occ[t].observedAt <= at
                       THEN [occ[t] EXCEPT !.admission = admission, !.observedAt = at]
                       ELSE occ[t]
    OBVIOUS
  <1>t. occ \in [Tasks -> Occurrence \cup {NoOccurrence}]
    BY DEF SchedulerInv, TypeOK
  <1>3. occ' = [occ EXCEPT ![t] = row] /\ UNCHANGED <<sched, spans>>
    BY <1>1 DEF RecordObservation
  <1>a. occ[t] \in Occurrence
    BY <1>1, <1>t DEF SchedulerInv, RowsFirst, Armed
  <1>4. row.schedule = occ[t].schedule /\ row.due = occ[t].due /\ row.release = occ[t].release
    BY <1>a DEF Occurrence
  <1>5. \A u \in Tasks : /\ occ'[u].schedule = occ[u].schedule /\ occ'[u].due = occ[u].due
                         /\ occ'[u].release = occ[u].release
    BY <1>3, <1>4, <1>t
  <1> QED BY <1>1, <1>3, <1>5, RowsStand

\* A release ends a reservation whose task is settled, or repeats one.
LEMMA ReleaseReleases ==
  ASSUME SchedulerInv, UNCHANGED job, FinishRelease, ~UNCHANGED storeVars
  PROVE  [Contract!ContractNext]_FateTable
  <1>1. l.pc = "release" /\ ReleaseOccurrence(l.result.task, l.result.release) /\ UNCHANGED work
    BY DEF FinishRelease
  <1>2. /\ l.result \in Result /\ Armed(l.result.task)
        /\ SaysTrue(l.result.task, l.result.admission, l.result.release)
    BY <1>1 DEF SchedulerInv, RowsFirst, ReportsHold
  <1> PICK t \in Tasks : t = l.result.task
    BY <1>2 DEF Result
  <1> PICK release : release = l.result.release
    OBVIOUS
  <1> PICK kind : kind = IF occ[t].release = "none" THEN release ELSE occ[t].release
    OBVIOUS
  <1>t. occ \in [Tasks -> Occurrence \cup {NoOccurrence}]
    BY DEF SchedulerInv, TypeOK
  <1>a. occ[t] \in Occurrence /\ Armed(t)
    BY <1>2, <1>t DEF Armed
  <1> PICK row : row = [occ[t] EXCEPT !.release = kind]
    OBVIOUS
  <1>3. occ' = [occ EXCEPT ![t] = row] /\ UNCHANGED <<sched, spans>>
    BY <1>1 DEF ReleaseOccurrence
  <1>4. row.schedule = occ[t].schedule /\ row.due = occ[t].due /\ row.release = kind
    BY <1>a DEF Occurrence
  <1>5. \A u \in Tasks : /\ occ'[u].schedule = occ[u].schedule /\ occ'[u].due = occ[u].due
                         /\ occ'[u].release = IF u = t THEN kind ELSE occ[u].release
    BY <1>3, <1>4, <1>t
  <1>6. CASE kind = occ[t].release
    <2>1. \A u \in Tasks : /\ occ'[u].schedule = occ[u].schedule /\ occ'[u].due = occ[u].due
                           /\ occ'[u].release = occ[u].release
      BY <1>5, <1>6
    <2>2. UNCHANGED FateTable
      BY <1>1, <1>3, <2>1, RowsStand
    <2> QED BY <2>2
  <1>7. CASE kind # occ[t].release
    <2>1. occ[t].release = "none" /\ kind # "none" /\ ~MayRun(t)
      BY <1>2, <1>7 DEF SaysTrue
    <2> PICK s \in Schedules : s = occ[t].schedule
      BY <1>a DEF Occurrence
    <2> PICK due \in Calendar[s] : due = occ[t].due
      BY <1>a DEF SchedulerInv, Disposed
    <2>2. t \in ClaimedTasks(s, due)
      BY DEF ClaimedTasks
    <2>3. ClaimedTasks(s, due) = {t} /\ Fate(s, due) = "settled"
      BY <2>1, <2>2, ClaimedFate DEF TaskFate
    <2>4. /\ \A u, d : ClaimedTasks(u, d)' = ClaimedTasks(u, d)
          /\ \A u, d : Covering(u, d)' = Covering(u, d)
          /\ \A u \in Tasks : MayRun(u)' <=> MayRun(u)
      BY <1>1, <1>3, <1>5 DEF ClaimedTasks, Covering, MayRun, Dispatching, Settled
    <2>5. TaskFate(t)' = "over" /\ \A u \in Tasks : u # t => TaskFate(u)' = TaskFate(u)
      BY <1>5, <2>1, <2>4 DEF TaskFate
    <2>6. ASSUME NEW u \in Schedules, NEW e \in Calendar[u]
          PROVE  Fate(u, e)' = IF u = s /\ e = due THEN "over" ELSE Fate(u, e)
      <3>1. CASE u = s /\ e = due
        <4>1. ClaimedTasks(u, e)' = {t}
          BY <2>3, <2>4, <3>1
        <4>2. Fate(u, e)' = TaskFate(t)'
          BY <4>1, FateByRow
        <4> QED BY <2>5, <3>1, <4>2
      <3>2. CASE ~(u = s /\ e = due)
        <4>1. \A v \in ClaimedTasks(u, e) : TaskFate(v)' = TaskFate(v)
          BY <2>5, <3>2 DEF ClaimedTasks
        <4> QED BY <1>3, <2>4, <3>2, <4>1, FateStays
      <3> QED BY <3>1, <3>2
    <2> QED BY <2>3, <2>6, ContractReleases
  <1> QED BY <1>6, <1>7

\* At first every due time is open.
LEMMA ContractStart == Init => Contract!ContractInit
  <1> SUFFICES ASSUME Init PROVE Contract!ContractInit
    OBVIOUS
  <1>1. SchedulerInv
    BY SchedulerInvStart
  <1>2. \A s \in Schedules : \A d \in Calendar[s] : Fate(s, d) = "open"
    BY <1>1, UnclaimedFate DEF Init, StoreInit, NoSchedule
  <1> QED BY <1>2 DEF Contract!ContractInit

\* Every step of the scheduler is a step of its contract.
LEMMA ContractStep == SchedulerInv /\ [Next]_vars => [Contract!ContractNext]_FateTable
  <1> SUFFICES ASSUME SchedulerInv, [Next]_vars PROVE [Contract!ContractNext]_FateTable
    OBVIOUS
  <1>1. CASE UNCHANGED storeVars BY <1>1, EndsSettle, MayRunFalls
  <1>2. CASE \E s \in Schedules : CreateCommand(s) BY <1>2, CreationSkips
  <1>3. CASE ApplyCommand BY <1>3, CommandSkips
  <1>4. CASE ~UNCHANGED storeVars /\ (\E x \in l.page : SkipTick(x)) /\ UNCHANGED <<job, fe, used>>
    BY <1>4, SkipTickSkips
  <1>5. CASE ~UNCHANGED storeVars /\ (ClaimCommits \/ ClaimUncertain) /\ UNCHANGED <<job, fe, used>>
    BY <1>5, ClaimClaims
  <1>6. CASE /\ ~UNCHANGED storeVars
             /\ FinishObservation \/ FinishRelease
             /\ UNCHANGED <<job, fe, used>>
    BY <1>6, ObservationStands, ReleaseReleases
  <1> QED BY <1>1, <1>2, <1>3, <1>4, <1>5, <1>6, StoreSteps

\* The scheduler keeps its contract: due times are decided in order and once, a
\* task is dispatched at most once even across crashes and uncertain commits, and
\* a reservation is released only when its task can no longer run.
THEOREM SchedulerImplementsContract == Spec => ImplementsContract
  <1>1. [Contract!ContractNext]_FateTable
          => [Contract!ContractNext]_([s \in Schedules |-> [d \in Calendar[s] |-> Fate(s, d)]])
    BY DEF FateTable
  <1>2. Spec => []SchedulerInv
    BY SchedulerInvariant
  <1> QED BY <1>1, <1>2, ContractStart, ContractStep, PTL
       DEF Spec, ImplementsContract, Contract!ContractSpec
====

------------------------------ MODULE Scheduler ------------------------------
(***************************************************************************)
(* The recurring scheduler: the loop and its store, the tasks it           *)
(* dispatches and observes through the task lifecycle, the commands a user *)
(* gives meanwhile, the clock, and stops, crashes and restarts.            *)
(*                                                                         *)
(* The owner lease (internal/scheduler) admits one loop at a time: a new   *)
(* run starts only when the previous one has joined its workers or its     *)
(* process is dead.                                                        *)
(***************************************************************************)
EXTENDS SchedulerLoop

CONSTANTS MaxRuns,       \* bound: runs of the scheduler
          MaxCommands,   \* bound: pause, resume and delete commands
          MaxRollbacks   \* bound: times the wall clock is set back

ASSUME SchedulerBounds ==
    MaxRuns \in Nat /\ MaxCommands \in Nat /\ MaxRollbacks \in Nat

VARIABLES
    job,    \* [Tasks -> how far the task has really come]
    fe,     \* the schedule command in progress
    used    \* how much of the bounds is used up

vars == <<storeVars, loopVars, job, fe, used>>

\* "created": the task directory exists.  "queued": the supervisor has it.
\* "closed": its lifetime is closed or its launch refused for good.  "fenced": it
\* was never admitted and never will be.
Jobs == {"none", "created", "queued", "running", "closed", "fenced"}

Settled(t) == job[t] \in {"none", "closed", "fenced"}

\* A state change a command has decided on from the row it read; at is the
\* instant the command started.
Command == [schedule : Schedules, from : States, to : States, cursor : Time, at : Time]

NoCommand == [schedule |-> 0, from |-> "absent", to |-> "absent", cursor |-> 0, at |-> 0]

Init ==
    /\ StoreInit
    /\ now = 0
    /\ l = NewLoop("down", 0)
    /\ work = {}
    /\ results = <<>>
    /\ faults = 0
    /\ job = [t \in Tasks |-> "none"]
    /\ fe = NoCommand
    /\ used = [runs |-> 0, commands |-> 0, rollbacks |-> 0]

----------------------------------------------------------------------------
(* Workers: Tasks.Dispatch and Tasks.Observe.                              *)

Dispatching(t) == <<t, "dispatch">> \in work

\* Dispatch creates the task directory and submits the task.
CreateTask(t) ==
    /\ Dispatching(t) /\ job[t] = "none"
    /\ job' = [job EXCEPT ![t] = "created"]
    /\ UNCHANGED <<storeVars, loopVars, fe, used>>

\* Status, which every worker calls, may complete a staged submission too.
SubmitTask(w) ==
    /\ job[w[1]] = "created"
    /\ job' = [job EXCEPT ![w[1]] = "queued"]
    /\ UNCHANGED <<storeVars, loopVars, fe, used>>

\* Worker w sends its result and ends.
Send(w, fatal, admission, release) ==
    /\ results' = Append(results,
          [task |-> w[1], dispatch |-> w[2] = "dispatch", fatal |-> fatal,
           admission |-> admission, at |-> now, release |-> release])
    /\ work' = work \ {w}

\* Observe finds no task directory.
ObserveAbsent(w) ==
    /\ job[w[1]] = "none"
    /\ Send(w, FALSE, "unknown", "not_created")
    /\ UNCHANGED <<storeVars, now, l, faults, job, fe, used>>

\* Observe finds a task that was never admitted.  It fences the task for good,
\* or leaves it for a later pass.
ObserveUnadmitted(w) ==
    /\ job[w[1]] = "created"
    /\ \/ /\ Send(w, FALSE, "unknown", "closed")
          /\ job' = [job EXCEPT ![w[1]] = "fenced"]
       \/ /\ Send(w, FALSE, "unknown", "none")
          /\ UNCHANGED job
    /\ UNCHANGED <<storeVars, now, l, faults, fe, used>>

\* Mutant: a task that has left the queue counts as closed.
ReleaseOfDequeued(t) == IF job[t] = "queued" THEN "none" ELSE "closed"

\* Only a closure proof releases an admitted task.
ReleaseOfAdmitted(t) == IF job[t] = "closed" THEN "closed" ELSE "none"

ObserveAdmitted(w) ==
    /\ job[w[1]] \in {"queued", "running", "closed"}
    /\ Send(w, FALSE, "admitted", ReleaseOfAdmitted(w[1]))
    /\ UNCHANGED <<storeVars, now, l, faults, job, fe, used>>

\* Observe finds the permanent refusal of a task that was never launched.
ObserveFenced(w) ==
    /\ job[w[1]] = "fenced"
    /\ Send(w, FALSE, "unknown", "closed")
    /\ UNCHANGED <<storeVars, now, l, faults, job, fe, used>>

\* The worker fails without an observation, possibly fatally.
WorkerFails(w) ==
    /\ Faulty
    /\ \E fatal \in BOOLEAN : Send(w, fatal, "none", "none")
    /\ UNCHANGED <<storeVars, now, l, job, fe, used>>

WorkerStep(w) ==
    /\ w \in work
    /\ \/ CreateTask(w[1]) \/ SubmitTask(w)
       \/ ObserveAbsent(w) \/ ObserveUnadmitted(w) \/ ObserveAdmitted(w) \/ ObserveFenced(w)
       \/ WorkerFails(w)

\* The supervisor launches a queued task, or a stop refuses its launch for good;
\* a running task ends some time later.
TaskRuns(t) ==
    /\ \/ job[t] = "queued" /\ \E end \in {"running", "closed"} : job' = [job EXCEPT ![t] = end]
       \/ job[t] = "running" /\ job' = [job EXCEPT ![t] = "closed"]
    /\ UNCHANGED <<storeVars, loopVars, fe, used>>

----------------------------------------------------------------------------
(* Commands.                                                               *)

CreateCommand(s) ==
    /\ CreateSchedule(s, now)
    /\ UNCHANGED <<loopVars, job, fe, used>>

\* changeScheduleState reads the schedule and decides.
ReadSchedule(s, to) ==
    /\ fe = NoCommand
    /\ used.commands < MaxCommands
    /\ PermittedTransition(sched[s].state, to)
    /\ fe' = [schedule |-> s, from |-> sched[s].state, to |-> to,
              cursor |-> sched[s].cursor, at |-> now]
    /\ used' = [used EXCEPT !.commands = @ + 1]
    /\ UNCHANGED <<storeVars, loopVars, job>>

\* The end of the paused span a resume records; nothing when the clock is not
\* past the cursor.
ResumeTo == IF fe.from = "paused" /\ fe.to = "enabled" THEN fe.at ELSE fe.cursor

\* The change commits; the command may still see an error.
ApplyCommand ==
    /\ fe # NoCommand
    /\ ChangeState(fe.schedule, fe.from, fe.to, fe.cursor, ResumeTo)
    /\ fe' = NoCommand
    /\ UNCHANGED <<loopVars, job, used>>

\* The compare-and-set is lost or the transaction fails: the command reports it.
CommandFails ==
    /\ fe # NoCommand
    /\ fe' = NoCommand
    /\ UNCHANGED <<storeVars, loopVars, job, used>>

----------------------------------------------------------------------------
(* Clock, start, stop and crash.                                           *)

Tick ==
    /\ now < Horizon
    /\ now' = now + 1
    /\ UNCHANGED <<storeVars, l, work, results, faults, job, fe, used>>

ClockSetBack ==
    /\ used.rollbacks < MaxRollbacks
    /\ \E t \in Time : t < now /\ now' = t
    /\ used' = [used EXCEPT !.rollbacks = @ + 1]
    /\ UNCHANGED <<storeVars, l, work, results, faults, job, fe>>

StartRun ==
    /\ l.pc = "down"
    /\ used.runs < MaxRuns
    /\ l' = NewLoop("idle", now)
    /\ used' = [used EXCEPT !.runs = @ + 1]
    /\ UNCHANGED <<storeVars, now, work, results, faults, job, fe>>

\* Mutant: Run returns at once and its workers go on.
NotJoined == TRUE

\* Run returns once its workers have been joined.
Joined == work = {}

RunReturns ==
    /\ l.pc = "stopping"
    /\ Joined
    /\ l' = NewLoop("down", 0)
    /\ results' = <<>>
    /\ UNCHANGED <<storeVars, now, work, faults, job, fe, used>>

\* The process dies with its goroutines; tasks live on.
Crash ==
    /\ l.pc # "down"
    /\ l' = NewLoop("down", 0)
    /\ work' = {}
    /\ results' = <<>>
    /\ UNCHANGED <<storeVars, now, faults, job, fe, used>>

Next ==
    \/ LoopStep /\ UNCHANGED <<job, fe, used>>
    \/ RunEnds /\ UNCHANGED <<job, fe, used>>
    \/ \E w \in Workers : WorkerStep(w)
    \/ \E t \in Tasks : TaskRuns(t)
    \/ \E s \in Schedules : CreateCommand(s)
    \/ \E s \in Schedules, to \in States : ReadSchedule(s, to)
    \/ ApplyCommand \/ CommandFails
    \/ Tick \/ ClockSetBack \/ StartRun \/ RunReturns \/ Crash

Spec == Init /\ [][Next]_vars

----------------------------------------------------------------------------
(* Properties.                                                             *)

\* Rows, loop fields, channel and clock keep their types.
TypeOK ==
    /\ sched \in [Schedules -> [state : States, created : Time, cursor : Time]]
    /\ occ \in [Tasks -> Occurrence \cup {NoOccurrence}]
    /\ spans \in [Schedules -> SUBSET SkipSpan]
    /\ now \in Time
    /\ l \in LoopState
    /\ work \subseteq Workers
    /\ results \in Seq(Result)
    /\ faults \in 0..MaxFaults
    /\ job \in [Tasks -> Jobs]
    /\ fe \in Command \cup {NoCommand}
    /\ used \in [runs : 0..MaxRuns, commands : 0..MaxCommands,
                 rollbacks : 0..MaxRollbacks]

Covering(s, d) == {x \in spans[s] : x.from < d /\ d <= x.to}

\* Every due time up to a schedule's cursor was disposed of exactly once: one
\* task claimed it or one span covers it.  Nothing beyond the cursor is disposed
\* of.  Claims, spans, resumes, uncertain commits and a clock set back all move
\* the cursor (SkipSpan and mergeHistory rely on this).
DisposedOnce ==
    \A s \in Schedules : \A d \in Calendar[s] :
        d > sched[s].created =>
            Cardinality(ClaimedTasks(s, d)) + Cardinality(Covering(s, d))
                = IF d <= sched[s].cursor THEN 1 ELSE 0

\* Task t is being dispatched or may be running.
MayRun(t) == Dispatching(t) \/ ~Settled(t)

\* Two tasks of one schedule never overlap: at most one is being dispatched or
\* is not settled, whatever crashed in between (the overlap policy of decideTick,
\* armOccurrence and the unique active index).
NoOverlap ==
    \A t, u \in Tasks :
        MayRun(t) /\ MayRun(u) /\ occ[t].schedule = occ[u].schedule => t = u

\* A released occurrence is over for good: its task is not running, and no
\* dispatch is left that could still create it (Tasks: Release is supplied only
\* after proving absence, closure or a permanent fence).
ReleasedIsOver ==
    \A t \in Tasks : occ[t].release # "none" => ~MayRun(t)

\* The result channel never fills up, so a worker's send cannot block and the
\* join at shutdown ends (results is made with AdmissionLimit + 1 slots).
ResultsNeverBlock ==
    Len(results) + Cardinality(work) <= AdmissionLimit + 1

\* The rows of the store and the tasks they stand for agree: every due time is
\* disposed of once, tasks of one schedule do not overlap, a release is final and
\* no worker can block on its result.
SchedulerIsSound ==
    TypeOK /\ DisposedOnce /\ NoOverlap /\ ReleasedIsOver /\ ResultsNeverBlock

\* A span blames what was really the matter: an overlap is charged only to an
\* admitted task that holds the reservation, lack of capacity only while every
\* admission slot is taken (blockerReason, decideTick).
BlameIsTrue ==
    [][\A s \in Schedules : \A x \in spans'[s] \ spans[s] :
          /\ x.reason = "overlap_active" =>
                \E t \in ActiveTasks(s) : job[t] \in {"queued", "running", "closed"}
          /\ x.reason = "blocked_uncertain" => ActiveTasks(s) # {}
          /\ x.reason = "missed_capacity" =>
                /\ ActiveTasks(s) = {}
                /\ Cardinality({t \in Tasks : Dispatching(t)})
                     + Cardinality({i \in DOMAIN results : results[i].dispatch})
                       >= AdmissionLimit]_vars

\* A run claims only due times after its own start, and only of schedules that
\* are enabled at that moment: nothing missed is made up for (decideTick's
\* startup span).
NoBacklog ==
    [][\A t \in Tasks : occ[t] = NoOccurrence /\ occ'[t] # NoOccurrence =>
          /\ occ'[t].due > l.startup
          /\ sched[occ'[t].schedule].state = "enabled"]_vars

\* Every claim and every span a run writes is one it is entitled to.
DecisionsAreTrue == BlameIsTrue /\ NoBacklog

----------------------------------------------------------------------------
(* Refinement.                                                             *)

\* What the rows and the tasks say about due time d of s.  A due time from
\* before the schedule's creation is skipped by its creation.
Fate(s, d) ==
    IF ClaimedTasks(s, d) # {}
    THEN LET t == CHOOSE u \in ClaimedTasks(s, d) : TRUE IN
         IF MayRun(t) THEN "running"
         ELSE IF occ[t].release = "none" THEN "settled" ELSE "over"
    ELSE IF \/ Covering(s, d) # {}
            \/ sched[s].state # "absent" /\ d <= sched[s].created
         THEN "skipped" ELSE "open"

Contract == INSTANCE SchedulerContract
                WITH fate <- [s \in Schedules |-> [d \in Calendar[s] |-> Fate(s, d)]]

\* The scheduler keeps its contract: due times are decided in order and once, a
\* task is dispatched at most once even across crashes and uncertain commits, and
\* a reservation is released only when its task can no longer run.
ImplementsContract == Contract!ContractSpec

----------------------------------------------------------------------------
(* Liveness.                                                               *)

\* The loop and its workers are goroutines of a live process; time passes, so
\* IdleInterval elapses and a new observation round begins again and again.
\* Nothing is assumed of tasks, commands, stops, crashes or restarts.
FairSpec ==
    /\ Spec
    /\ WF_vars(LoopStep /\ UNCHANGED <<job, fe, used>>)
    /\ SF_vars(Scan(TRUE) /\ UNCHANGED <<job, fe, used>>)
    /\ \A w \in Workers : WF_vars(WorkerStep(w))
    /\ WF_vars(Tick)

\* While the scheduler runs, a due time whose window has passed is decided, even
\* if an earlier task of the schedule never ends: it is claimed or a span covers
\* it (decideTick bounds how long a due time is held).
DueIsDecided ==
    \A s \in Schedules : \A d \in Calendar[s] :
        d + ClaimWindow <= Horizon =>
            (/\ Up /\ sched[s].state = "enabled"
             /\ sched[s].cursor < d /\ d + ClaimWindow <= now)
              ~> (~Up \/ sched[s].state # "enabled" \/ d <= sched[s].cursor)

\* While the scheduler runs, a reservation whose task is settled is released,
\* also after a crash that interrupted its dispatch, so that no schedule stays
\* blocked (startObservation's rounds; the failures it meets are finitely many).
ReservationReleased ==
    \A t \in Tasks :
        (Up /\ occ[t] # NoOccurrence /\ ~MayRun(t))
          ~> (~Up \/ occ[t].release # "none")

\* While the scheduler runs no schedule is stuck: what is due is decided, and what
\* is over is released.
SchedulesMoveOn == DueIsDecided /\ ReservationReleased

-----------------------------------------------------------------------------
(* Calendars for model checking *)

\* Two due times close together, so that one may still be running when the next
\* is due, then one apart.
MixedCalendar == [s \in Schedules |-> {1, 2, Horizon + 1}]

\* One due time that all schedules share, and the next beyond the horizon.
SharedCalendar == [s \in Schedules |-> {1, Horizon + 1}]
=============================================================================

------------------------- MODULE ResourceAdmission -------------------------
(***************************************************************************)
(* The resource check a dispatch takes before it creates a task, and the   *)
(* gate built on it: resourceadmission/checker.go samples the host and the *)
(* cgroup of the process that would run the task once a second, at most    *)
(* four times within a budget, evaluator.go and outcome.go fold the        *)
(* samples into one track per metric, and tasklifecycle's resource gate    *)
(* refuses the dispatch, lets it go on, or checks again just before the    *)
(* task's records are written.  A reading is what it shows: a counter read *)
(* relative to the reading before it, a limit with or without headroom.    *)
(***************************************************************************)
EXTENDS Integers, Sequences, FiniteSetsExt

CONSTANTS Watches,      \* the sets of metrics that are not quiet together
          MaxTargets,   \* bound: execution targets, the caller's own included
          Window,       \* freshnessWindow, in units of preparation delay
          MaxResFaults  \* bound: deadlines, cancellations and failed reads

VARIABLES watched,   \* the metrics whose readings vary in this behaviour
          targeted,  \* observer.usesTarget
          dispatch,  \* where the dispatch is, and what it inherited
          check,     \* the check under way
          gate,      \* resourceGate: the assessment and its age
          present,   \* the task's directory entry exists
          runsIn,    \* the process that would run the task now
          truth,     \* history: what the evidence of the check showed
          resFaults

resourceVars ==
    <<watched, targeted, dispatch, check, gate, present, runsIn, truth, resFaults>>

Metrics == {"hostCPU", "hostMemory", "cgroupCPU", "cgroupMemory"}
CgroupMetrics == {"cgroupCPU", "cgroupMemory"}
requiredStreak == 3
NoTarget == 0

-----------------------------------------------------------------------------
(* Readings *)

\* A reading that failed, for whatever reason, is a gap; "none" is a metric this
\* host does not have.
NoSample(reason) == [path |-> "", reason |-> reason, hidden |-> FALSE,
                     levels |-> <<>>, psi |-> "unread"]
Level(c, m) == [cap |-> c[1], cpu |-> c[2], memory |-> m]
QuietLevel == Level(<<0, "idle">>, "nomax")
LevelCPUs == {<<0, "idle">>, <<1, "unread">>, <<1, "idle">>, <<1, "busy">>,
              <<1, "reset">>, <<2, "busy">>}

\* cgroupReader.sample: the chain of levels from the target's group to the top,
\* each with its limits, the stall counter, and whether ancestors are hidden.
CgroupSamples == [watch \in Watches |->
    LET cpu == IF "cgroupCPU" \in watch THEN LevelCPUs ELSE {<<0, "idle">>}
        memory == IF "cgroupMemory" \in watch
                  THEN {"unread", "nomax", "low", "roomy"} ELSE {"nomax"}
        psi == IF "cgroupMemory" \in watch
               THEN {"unread", "calm", "stalled", "reset"} ELSE {"calm"}
        chains == {<<Level(c, m)>> : c \in cpu, m \in memory}
        tops == {QuietLevel} \cup {Level(c, m) : c \in cpu \cap {<<1, "busy">>},
                                                 m \in memory \cap {"nomax", "low"}}
        Sample(at, h, l, p) == [path |-> at, reason |-> "", hidden |-> h,
                                levels |-> l, psi |-> p]
    IN  {Sample("leaf", FALSE, Append(c, t), p) : c \in chains, t \in tops, p \in psi}
        \cup {Sample("other", h, c, p) : h \in BOOLEAN, c \in chains, p \in psi}
        \cup {NoSample("gap")}]

\* composedObserver.observe: a target that could not be named has no sample.
\* A process identifier that has been reused is read like any other.
Observed(target) ==
    [cpu : IF "hostCPU" \in watched THEN {"unread", "idle", "busy", "reset"} ELSE {"idle"},
     memory : IF "hostMemory" \in watched
              THEN {"unread", "roomy", "low", "critical"} ELSE {"roomy"},
     cgroup : IF ~targeted THEN {NoSample("none")}
              ELSE IF target = NoTarget THEN {NoSample("gap")}
              ELSE IF watched \cap CgroupMetrics = {}
                   THEN {[NoSample("") EXCEPT !.path = "leaf", !.levels = <<QuietLevel>>,
                                              !.psi = "calm"]}
              ELSE CgroupSamples[watched]]

\* Of an earlier sample only what the next is compared with matters.
Kept(s) ==
    [cpu |-> IF s.cpu = "unread" THEN "unread" ELSE "idle",
     memory |-> "roomy",
     cgroup |-> [s.cgroup EXCEPT
        !.hidden = FALSE,
        !.psi = IF @ = "unread" THEN "unread" ELSE "calm",
        !.levels = [i \in DOMAIN @ |->
            [@[i] EXCEPT !.memory = "nomax",
                         !.cpu = IF @ = "unread" THEN "unread" ELSE "idle"]]]]
NoSnapshot == [cpu |-> "none", memory |-> "none", cgroup |-> NoSample("none")]

-----------------------------------------------------------------------------
(* Outcomes: policy.go and outcome.go *)

Outcome(s, r) == [state |-> s, reason |-> r]
Unknown(r) == Outcome("unknown", r)
Decided(hot) == Outcome(IF hot THEN "hot" ELSE "clear", "")

HostMemoryOutcome(reading) ==
    CASE reading = "unread"   -> Unknown("gap")
      [] reading = "critical" -> Outcome("critical", "")
      [] OTHER                -> Decided(reading = "low")

\* Two counter readings; a counter that went backwards measures nothing.
HostCPUOutcome(prev, cur) ==
    IF "unread" \in {prev, cur} \/ cur = "reset"
    THEN Unknown("gap") ELSE Decided(cur = "busy")

\* anyOf: one hot level is enough, and an unknown one hides the clear ones.
AnyOf(outcomes) ==
    LET has(s) == {i \in DOMAIN outcomes : outcomes[i].state = s}
    IN  IF has("hot") # {} THEN Decided(TRUE)
        ELSE IF has("unknown") # {} THEN outcomes[CHOOSE i \in has("unknown") : TRUE]
        ELSE Decided(FALSE)

\* allOf: one clear part clears both, and keeps why the other is unknown.
AllOf(a, b) ==
    LET unknown == IF a.state = "unknown" THEN a ELSE b
        none    == "unknown" \notin {a.state, b.state}
    IN  IF "clear" \in {a.state, b.state}
        THEN IF none THEN Decided(FALSE) ELSE Outcome("clear", unknown.reason)
        ELSE IF none THEN Decided(TRUE) ELSE unknown

\* withCoverage: what is out of sight above the mount may still be hot.
WithCoverage(o, s) ==
    IF s.hidden /\ o = Decided(FALSE) THEN Outcome("clear", "gap") ELSE o

\* cgroupPair: why two samples cannot be compared, if they cannot.
CgroupPair(prev, cur) ==
    IF cur.reason = "none" THEN Outcome("skipped", "")
    ELSE IF \/ "gap" \in {prev.reason, cur.reason}
            \/ prev.path # cur.path
            \/ Len(prev.levels) # Len(cur.levels)
    THEN Unknown("gap")
    ELSE Outcome("comparable", "")

\* levelCPUOutcome: an unlimited level cannot be busy; a capacity that changed
\* between the samples makes them samples of different things.
LevelCPUOutcome(prev, cur) ==
    IF cur.cpu = "unread" THEN Unknown("gap")
    ELSE IF cur.cap = 0 THEN Decided(FALSE)
    ELSE IF prev.cpu = "unread" \/ prev.cap # cur.cap \/ cur.cpu = "reset" THEN Unknown("gap")
    ELSE Decided(cur.cpu = "busy")

CgroupCPUOutcome(prev, cur) ==
    LET pair == CgroupPair(prev, cur)
    IN  IF pair.state # "comparable" THEN pair
        ELSE WithCoverage(AnyOf([i \in DOMAIN cur.levels |->
                            LevelCPUOutcome(prev.levels[i], cur.levels[i])]), cur)

LevelMemoryOutcome(l) ==
    IF l.memory = "unread" THEN Unknown("gap") ELSE Decided(l.memory = "low")

PSIOutcome(prev, cur) ==
    IF "unread" \in {prev, cur} \/ cur = "reset"
    THEN Unknown("gap") ELSE Decided(cur = "stalled")

\* cgroupMemoryOutcome: low headroom counts only while tasks stall for memory.
CgroupMemoryOutcome(prev, cur) ==
    LET pair == CgroupPair(prev, cur)
        levels == [i \in DOMAIN cur.levels |-> LevelMemoryOutcome(cur.levels[i])]
        constrained == \E i \in DOMAIN cur.levels : cur.levels[i].memory # "nomax"
    IN  IF pair.state # "comparable" THEN pair
        ELSE WithCoverage(IF constrained
                          THEN AllOf(AnyOf(levels), PSIOutcome(prev.psi, cur.psi))
                          ELSE Decided(FALSE), cur)

-----------------------------------------------------------------------------
(* Tracks and the evaluator *)

Track == [seen : BOOLEAN, streak : 0 .. requiredStreak, critical : BOOLEAN,
          sustained : BOOLEAN, baselineHot : BOOLEAN,
          unknown : {"", "gap"}]
NewTrack(seen) == [seen |-> seen, streak |-> 0, critical |-> FALSE,
                   sustained |-> FALSE, baselineHot |-> FALSE, unknown |-> ""]

\* track.record
Record(t, o) ==
    CASE o.state = "skipped"  -> t
      [] o.state = "critical" -> [t EXCEPT !.seen = TRUE, !.baselineHot = FALSE, !.critical = TRUE]
      [] o.state = "hot"      -> [t EXCEPT !.seen = TRUE, !.baselineHot = FALSE,
                                  !.streak = @ + 1,
                                  !.sustained = @ \/ t.streak + 1 >= requiredStreak]
      [] OTHER                -> [t EXCEPT !.seen = TRUE, !.baselineHot = FALSE, !.streak = 0,
                                  !.unknown = IF o.reason = "" THEN @ ELSE o.reason]

\* The first sample counted like the others.
BaselineCounts(t, o) == Record(t, o)

\* track.baseline: a hot first sample asks for more, and counts for nothing.
Baseline(t, o) ==
    IF o.state = "hot" THEN [t EXCEPT !.seen = TRUE, !.baselineHot = TRUE] ELSE Record(t, o)

Confirmed(t) == t.critical \/ t.sustained
Pending(t) == ~Confirmed(t) /\ (t.streak > 0 \/ t.baselineHot)
ExpireTrack(t) == IF t.seen /\ ~Confirmed(t) THEN [t EXCEPT !.unknown = "gap"] ELSE t
InvalidateTrack(t) == IF t.seen THEN [NewTrack(TRUE) EXCEPT !.unknown = "gap"] ELSE t

\* evaluator.expect: which metrics this host has at all.
Expect(tracks) ==
    [m \in Metrics |-> [tracks[m] EXCEPT !.seen = m \notin CgroupMetrics \/ targeted]]

\* evaluator.step
StepTracks(tracks, prev, cur) ==
    IF prev = NoSnapshot
    THEN [Expect(tracks) EXCEPT
            !["hostMemory"] = Baseline(@, HostMemoryOutcome(cur.memory))]
    ELSE [m \in Metrics |-> Record(tracks[m],
            CASE m = "hostCPU"      -> HostCPUOutcome(prev.cpu, cur.cpu)
              [] m = "hostMemory"   -> HostMemoryOutcome(cur.memory)
              [] m = "cgroupCPU"    -> CgroupCPUOutcome(prev.cgroup, cur.cgroup)
              [] m = "cgroupMemory" -> CgroupMemoryOutcome(prev.cgroup, cur.cgroup))]

InvalidateTarget(tracks) ==
    [m \in Metrics |-> IF m \in CgroupMetrics THEN InvalidateTrack(tracks[m]) ELSE tracks[m]]

\* evaluator.findings and Assessment.Status
Pressures(tracks) == {m \in Metrics : Confirmed(tracks[m])}
Status(tracks) ==
    IF Pressures(tracks) # {} THEN "pressure"
    ELSE IF \E m \in Metrics : tracks[m].seen /\ tracks[m].unknown # "" THEN "unknown"
    ELSE "clear"

-----------------------------------------------------------------------------
(* The evidence itself, kept beside the tracks *)

Both(prev, cur) == prev.reason = "" /\ cur.reason = "" /\ prev.path = cur.path

\* A limited group was busy, or short of memory and stalling, for the whole of
\* one interval, and it was the group of the process that would run the task.
IsHot(m, prev, cur, genuine) ==
    CASE m = "hostCPU"    -> prev.cpu # "unread" /\ cur.cpu = "busy"
      [] m = "hostMemory" -> cur.memory = "low"
      [] m = "cgroupCPU"  -> /\ genuine /\ Both(prev.cgroup, cur.cgroup)
                             /\ \E i \in DOMAIN cur.cgroup.levels :
                                  LET p == prev.cgroup.levels[i]
                                      c == cur.cgroup.levels[i]
                                  IN p.cpu # "unread" /\ c.cpu = "busy" /\ p.cap = c.cap
      [] OTHER            -> /\ genuine /\ Both(prev.cgroup, cur.cgroup)
                             /\ cur.cgroup.psi = "stalled" /\ prev.cgroup.psi # "unread"
                             /\ \E i \in DOMAIN cur.cgroup.levels :
                                    cur.cgroup.levels[i].memory = "low"

\* The interval's readings settle whether the metric was hot.
IsDecided(m, prev, cur, genuine) ==
    \/ IsHot(m, prev, cur, genuine)
    \/ CASE m = "hostCPU"    -> prev.cpu # "unread" /\ cur.cpu = "idle"
         [] m = "hostMemory" -> cur.memory = "roomy"
         [] m = "cgroupCPU"  -> /\ genuine /\ Both(prev.cgroup, cur.cgroup)
                                /\ ~cur.cgroup.hidden
                                /\ \A i \in DOMAIN cur.cgroup.levels :
                                      cur.cgroup.levels[i].cpu = "idle"
         [] OTHER            -> /\ genuine /\ Both(prev.cgroup, cur.cgroup)
                                /\ ~cur.cgroup.hidden
                                /\ \/ /\ cur.cgroup.psi = "calm"
                                      /\ prev.cgroup.psi # "unread"
                                   \/ \A i \in DOMAIN cur.cgroup.levels :
                                         cur.cgroup.levels[i].memory \in {"nomax", "roomy"}

NoTruth == [hot |-> [m \in Metrics |-> 0], gaps |-> {}, measured |-> FALSE, critical |-> FALSE]

\* genuine: the process sampled is still the one that would run the task.
TruthAfter(prev, cur, genuine) ==
    LET watchable == {m \in Metrics : m \notin CgroupMetrics \/ targeted}
        first == prev = NoSnapshot
        measured == IF first THEN {} ELSE watchable
    IN  [hot |-> [m \in Metrics |->
                    IF m \in measured /\ IsHot(m, prev, cur, genuine)
                    THEN Min({truth.hot[m] + 1, requiredStreak})
                    ELSE IF first THEN truth.hot[m] ELSE 0],
         gaps |-> truth.gaps \cup {m \in measured : ~IsDecided(m, prev, cur, genuine)},
         measured |-> ~first,
         critical |-> truth.critical \/ cur.memory = "critical"]

-----------------------------------------------------------------------------
(* Checker.Check *)

NoCheck == [pc |-> "none", from |-> "none", ended |-> FALSE, target |-> NoTarget,
            prev |-> NoSnapshot, tick |-> 0, path |-> "",
            tracks |-> [m \in Metrics |-> NewTrack(FALSE)]]
NoAssessment == [built |-> FALSE, status |-> "unknown", target |-> NoTarget, path |-> "",
                 by |-> {}]
NoGate == [open |-> FALSE, assessment |-> NoAssessment, age |-> 0]

\* An assessment about to be replaced is consulted no more.
BeginCheck(from) ==
    /\ check' = [NoCheck EXCEPT !.pc = "precheck", !.from = from]
    /\ gate' = [NoGate EXCEPT !.open = gate.open]
    /\ truth' = NoTruth

\* NewAssessment: an empty scope when there was no target to measure.
Assess(c) ==
    /\ gate' = [gate EXCEPT
         !.age = 0,
         !.assessment = [built |-> TRUE, status |-> Status(c.tracks),
                         target |-> c.target, by |-> Pressures(c.tracks),
                         path |-> IF c.target = NoTarget THEN "" ELSE c.path]]
    /\ dispatch' = [dispatch EXCEPT !.pc = "assessed", !.from = c.from]
    /\ check' = NoCheck

\* run.criticalPrecheck: memory that is nearly gone needs no second look.
CriticalPrecheck ==
    /\ check.pc = "precheck"
    /\ \E memory \in IF "hostMemory" \in watched
                     THEN {"unread", "roomy", "low", "critical"} ELSE {"roomy"} :
         IF memory = "critical"
         THEN /\ Assess([check EXCEPT !.tracks["hostMemory"] =
                            Record(@, HostMemoryOutcome(memory))])
              /\ truth' = [truth EXCEPT !.critical = TRUE]
         ELSE /\ check' = [check EXCEPT !.pc = "resolve"]
              /\ UNCHANGED <<gate, dispatch, truth>>
    /\ UNCHANGED <<watched, targeted, present, runsIn, resFaults>>

\* executionTargetResolver.ResolveTarget and Checker.resolve: the daemon or the
\* caller's own process, or nothing when its state is not known in time.
ResolveTarget(c) ==
    {runsIn} \cup IF resFaults < MaxResFaults THEN {NoTarget} ELSE {}

Resolve ==
    /\ check.pc = "resolve"
    /\ \E t \in IF targeted /\ ~check.ended THEN ResolveTarget(check) ELSE {NoTarget} :
         /\ check' = [check EXCEPT !.pc = "sample", !.target = t,
                                   !.tracks = Expect(@)]
         /\ resFaults' = IF targeted /\ ~check.ended /\ t = NoTarget
                         THEN resFaults + 1 ELSE resFaults
    /\ UNCHANGED <<watched, targeted, dispatch, gate, present, runsIn, truth>>

\* run.stop: a spent budget leaves what was not confirmed unknown.
SampleExpires ==
    /\ check.pc = "sample" /\ check.ended
    /\ check' = [check EXCEPT !.pc = "revalidate", !.prev = NoSnapshot, !.tick = 0,
                              !.tracks = [m \in Metrics |-> ExpireTrack(@[m])]]
    /\ UNCHANGED <<watched, targeted, dispatch, gate, present, runsIn, truth, resFaults>>

\* One turn of run.sample: observe, step, and stop as soon as the readings
\* confirm pressure or nothing is left to confirm.
Sample ==
    /\ check.pc = "sample" /\ ~check.ended
    /\ \E cur \in Observed(check.target) :
         LET tracks == StepTracks(check.tracks, check.prev, cur)
             done == \/ \E m \in Metrics : Confirmed(tracks[m])
                     \/ /\ check.prev # NoSnapshot
                        /\ \A m \in Metrics : ~Pending(tracks[m])
                     \/ check.tick = requiredStreak
         IN  /\ check' = [check EXCEPT
                  !.tracks = tracks,
                  !.path = IF @ = "" THEN cur.cgroup.path ELSE @,
                  !.pc = IF done THEN "revalidate" ELSE "sample",
                  !.tick = IF done THEN 0 ELSE @ + 1,
                  !.prev = IF done THEN NoSnapshot ELSE Kept(cur)]
             /\ truth' = TruthAfter(check.prev, cur, check.target = runsIn)
    /\ UNCHANGED <<watched, targeted, dispatch, gate, present, runsIn, resFaults>>

\* Trusting the target the check began with.
RevalidateNot(c, after) == c.tracks

\* run.revalidate: what was measured of another process is measured of nothing.
Revalidated(c, after) ==
    IF c.target # NoTarget /\ (c.ended \/ after # c.target) THEN InvalidateTarget(c.tracks)
    ELSE c.tracks

Revalidate ==
    /\ check.pc = "revalidate"
    /\ \E after \in IF check.target = NoTarget \/ check.ended
                    THEN {NoTarget} ELSE ResolveTarget(check) :
         /\ Assess([check EXCEPT !.tracks = Revalidated(check, after)])
         /\ resFaults' = IF check.target # NoTarget /\ ~check.ended /\ after = NoTarget
                         THEN resFaults + 1 ELSE resFaults
    /\ UNCHANGED <<watched, targeted, present, runsIn, truth>>

\* The four seconds are over.
BudgetEnds ==
    /\ check.pc \in {"resolve", "sample", "revalidate"} /\ ~check.ended
    /\ resFaults < MaxResFaults
    /\ check' = [check EXCEPT !.ended = TRUE]
    /\ resFaults' = resFaults + 1
    /\ UNCHANGED <<watched, targeted, dispatch, gate, present, runsIn, truth>>

\* The caller gives up: the check reports that and assesses nothing.
CallerCancels ==
    /\ check.pc # "none" /\ resFaults < MaxResFaults
    /\ check' = NoCheck
    /\ dispatch' = [pc |-> "failed", from |-> "none"]
    /\ resFaults' = resFaults + 1
    /\ truth' = NoTruth
    /\ UNCHANGED <<watched, targeted, gate, present, runsIn>>

-----------------------------------------------------------------------------
(* The gate of a dispatch *)

\* A dispatch that is refused, that failed, or that ended needs no more of its
\* assessment.
Goto(pc) == dispatch' = [pc |-> pc, from |-> "none"]

\* taskEntryAbsent: only a definite absence counts, and a read can fail.
EntryReads == {present} \cup IF resFaults < MaxResFaults THEN {TRUE} ELSE {}
ReadEntry(r) == resFaults' = IF r # present THEN resFaults + 1 ELSE resFaults

\* openResourceGateContext
OpenGate ==
    /\ dispatch.pc \in {"fresh", "inherited"}
    /\ \E r \in EntryReads :
         /\ ReadEntry(r)
         /\ \/ /\ r
               /\ Goto("prepare")
               /\ gate' = NoGate
               /\ UNCHANGED <<check, truth>>
            \/ /\ ~r /\ dispatch.pc = "inherited"
               /\ Goto("prepare")
               /\ gate' = [gate EXCEPT !.open = TRUE]
               /\ UNCHANGED <<check, truth>>
            \/ /\ ~r /\ dispatch.pc = "fresh"
               /\ Goto("checking")
               /\ check' = [NoCheck EXCEPT !.pc = "precheck", !.from = "open"]
               /\ gate' = [NoGate EXCEPT !.open = TRUE]
               /\ truth' = NoTruth
    /\ UNCHANGED <<watched, targeted, present, runsIn>>

\* checkContinuationResources: the successor has no name yet, so no entry.
ContinuationCheck ==
    /\ dispatch.pc = "continue"
    /\ Goto("checking")
    /\ BeginCheck("continue")
    /\ UNCHANGED <<watched, targeted, present, runsIn, resFaults>>

\* resourceGate.refusal after a check: pressure refuses only what is not there.
Refusal ==
    /\ dispatch.pc = "assessed"
    /\ \E r \in IF dispatch.from = "continue" THEN {FALSE} ELSE EntryReads :
         /\ IF dispatch.from = "continue" THEN resFaults' = resFaults ELSE ReadEntry(r)
         /\ IF gate.assessment.status = "pressure" /\ ~r
            THEN Goto("refused")
            ELSE Goto(CASE dispatch.from = "continue" -> "inherited"
                        [] dispatch.from = "open"     -> "prepare"
                        [] dispatch.from = "refresh"  -> "create")
    /\ truth' = NoTruth
    /\ UNCHANGED <<watched, targeted, check, gate, present, runsIn>>

\* Workspace and provider preparation; then the task is looked up again.
Prepare ==
    /\ dispatch.pc = "prepare"
    /\ Goto(IF present THEN "existing" ELSE "refresh")
    /\ UNCHANGED <<watched, targeted, check, gate, present, runsIn, truth, resFaults>>

ReusableForever(a, age, target, path) == a.built /\ a.target = target /\ a.path = path

\* Assessment.Reusable: young enough, and measured where the task will run.
Reusable(a, age, target, path) ==
    a.built /\ age <= Window /\ a.target = target /\ a.path = path

\* resourceGate.refreshContext, just before the records are written.
Refresh ==
    /\ dispatch.pc = "refresh"
    /\ \E r \in EntryReads :
         /\ \/ /\ r \/ ~gate.open
               /\ Goto("create") /\ ReadEntry(r)
               /\ UNCHANGED <<check, gate, truth>>
            \/ /\ ~r /\ gate.open
               /\ \E t \in IF targeted THEN ResolveTarget(check) ELSE {NoTarget},
                     p \in IF targeted THEN {"leaf", "other", ""} ELSE {""} :
                     /\ t = NoTarget => p = ""
                     /\ resFaults' = IF targeted /\ t = NoTarget
                                     THEN resFaults + 1 ELSE resFaults
                     /\ IF Reusable(gate.assessment, gate.age, t, p)
                        THEN Goto("create") /\ UNCHANGED <<check, gate, truth>>
                        ELSE Goto("checking") /\ BeginCheck("refresh")
    /\ UNCHANGED <<watched, targeted, present, runsIn>>

\* CreateTask: the entry is made once, whoever makes it.
Create ==
    /\ dispatch.pc = "create"
    /\ Goto(IF present THEN "conflict" ELSE "created")
    /\ present' = TRUE
    /\ UNCHANGED <<watched, targeted, check, gate, runsIn, truth, resFaults>>

-----------------------------------------------------------------------------
(* The world around *)

Over == {"refused", "failed", "existing", "conflict", "created"}

\* Another dispatch of the same task writes its entry.
EntryAppears ==
    /\ ~present /\ dispatch.pc \notin Over
    /\ present' = TRUE
    /\ UNCHANGED <<watched, targeted, dispatch, check, gate, runsIn, truth, resFaults>>

\* The private daemon starts, or is replaced: another process runs the task.
TargetChanges ==
    /\ runsIn < MaxTargets /\ dispatch.pc \notin Over
    /\ runsIn' = runsIn + 1
    /\ UNCHANGED <<watched, targeted, dispatch, check, gate, present, truth, resFaults>>

\* Preparation takes its time.
TimePasses ==
    /\ dispatch.pc \in {"inherited", "prepare", "refresh"} /\ gate.age <= Window
    /\ gate' = [gate EXCEPT !.age = @ + 1]
    /\ UNCHANGED <<watched, targeted, dispatch, check, present, runsIn, truth, resFaults>>

-----------------------------------------------------------------------------
ResourceInit ==
    /\ watched \in Watches
    /\ targeted \in BOOLEAN
    /\ dispatch \in {[pc |-> p, from |-> "none"] : p \in {"fresh", "continue"}}
    /\ check = NoCheck
    /\ gate = NoGate
    /\ present \in IF dispatch.pc = "fresh" THEN BOOLEAN ELSE {FALSE}
    /\ runsIn = 1
    /\ truth = NoTruth
    /\ resFaults = 0

ResourceNext ==
    \/ OpenGate \/ ContinuationCheck \/ Refusal \/ Prepare \/ Refresh \/ Create
    \/ CriticalPrecheck \/ Resolve \/ Sample \/ SampleExpires \/ Revalidate
    \/ BudgetEnds \/ CallerCancels
    \/ EntryAppears \/ TargetChanges \/ TimePasses

ResourceSpec == ResourceInit /\ [][ResourceNext]_resourceVars

-----------------------------------------------------------------------------
\* The checker, its tracks and the gate stay within their types.
ResourceTypeOK ==
    /\ check.tracks \in [Metrics -> Track]
    /\ check.tick \in 0 .. requiredStreak
    /\ gate.age \in 0 .. Window + 1
    /\ resFaults \in 0 .. MaxResFaults

Assessed == gate.assessment.built /\ dispatch.pc = "assessed"

\* Pressure is reported only for memory that was nearly gone, or for a metric
\* that was hot in three intervals in a row, each measured between two readable
\* samples of one unchanged group of the process that would run the task.
PressureIsProven ==
    Assessed => \A m \in gate.assessment.by :
        \/ m = "hostMemory" /\ truth.critical
        \/ truth.hot[m] >= requiredStreak

\* Clear is reported only when at least one interval was measured and no metric
\* of this host had an interval its readings left open.
ClearIsProven ==
    (Assessed /\ gate.assessment.status = "clear") =>
        truth.measured /\ truth.gaps = {}

\* A gated dispatch that met no fault creates its task only under an assessment
\* that found no pressure and is no older than the window, even when the
\* assessment was inherited from a continuation and preparation took long.
CreationIsAssessed ==
    (dispatch.pc = "create" /\ ~present /\ resFaults = 0 /\ gate.open) =>
        /\ gate.assessment.built /\ gate.assessment.status # "pressure"
        /\ gate.age <= Window
ResourceIsTrue == PressureIsProven /\ ClearIsProven /\ CreationIsAssessed
=============================================================================

----------------------------- MODULE Recurrence -----------------------------
(***************************************************************************)
(* The next occurrence of a recurring schedule.  The calendar search works *)
(* on nominal wall minutes and knows nothing of zones, and it only looks a *)
(* few years ahead; zone rules skip and repeat wall minutes.  Next goes    *)
(* from one interval of constant offset to the next, searches each of them *)
(* in several probes, and takes a repeated minute at its first realization *)
(* only.  One tick stands for the smallest unit of time.                   *)
(***************************************************************************)
EXTENDS Integers, FiniteSets

CONSTANTS Last,         \* the last supported instant
          Offsets,      \* offsets of a zone, in ticks
          MinuteTicks,  \* ticks of a minute
          Horizon,      \* how far the calendar search looks ahead (five years)
          Stride        \* how far the next probe moves (four years)

VARIABLES
    zone,      \* offsets of the location and the instants where they change
    leapTail,  \* the final day of a leap year that ZoneBounds leaves out, or NoTail
    matching,  \* the nominal wall minutes that the expression matches
    after,     \* the instant asked about
    search,    \* the search in progress
    answer     \* the instant returned

recurrenceVars == <<zone, leapTail, matching, after, search, answer>>

NoTail == [from |-> Last + 1, to |-> Last + 1]
Minutes == {w \in 0..Last : w % MinuteTicks = 0}
Pcs == {"interval", "probe", "found", "none", "done", "exhausted", "fault"}

RecurrenceInit ==
    /\ zone \in [offset : [1..3 -> Offsets], at : {<<a, b>> : a, b \in 1..Last}]
    /\ zone.at[1] < zone.at[2]
    /\ \A k \in 1..2 : zone.offset[k] # zone.offset[k + 1]
    /\ leapTail \in {NoTail} \cup
         {[from |-> zone.at[2] + 1, to |-> zone.at[2] + 2]}
    /\ matching \in {M \in SUBSET Minutes : Cardinality(M) \in 1..2}
    /\ after \in {0, 1}
    /\ search = [pc |-> "interval", cursor |-> after, probe |-> 0, upper |-> 0, candidate |-> 0]
    /\ answer = 0

-----------------------------------------------------------------------------
(* The location. *)

OffsetAt(i) == zone.offset[1 + Cardinality({k \in 1..2 : zone.at[k] <= i})]
WallPoint(i) == i + OffsetAt(i)

\* ZoneBounds: Last + 1 stands for no end.  At the end of a leap year the end it reports
\* is a day too early.
ZoneEnd(i) ==
    LET ends == {zone.at[k] : k \in 1..2} \cup {leapTail.from, Last + 1}
        later == {t \in ends : t > i}
    IN IF leapTail.from <= i /\ i < leapTail.to THEN leapTail.from
       ELSE CHOOSE t \in later : \A u \in later : t <= u

-----------------------------------------------------------------------------
(* The search. *)

\* Mutant: the instant of the transition belongs to the interval that ends there.
IntervalUpperClosed(end) == IF end <= Last THEN end ELSE Last

\* The last instant before the end of the interval, or the last supported one.
IntervalUpper(end) == IF end <= Last THEN end - 1 ELSE Last

\* The end that lies before the probe is corrected only in the tail of a leap year.
Corrected(probe, end) == IF end <= probe /\ end = leapTail.from THEN leapTail.to ELSE end

\* The next interval of constant offset: the nominal search starts at its wall time.
BeginInterval ==
    /\ search.pc = "interval"
    /\ LET probe == search.cursor + 1
           end == Corrected(probe, ZoneEnd(probe))
       IN search' =
            IF search.cursor >= Last THEN [search EXCEPT !.pc = "exhausted"]
            ELSE IF end <= probe THEN [search EXCEPT !.pc = "fault"]
            ELSE [search EXCEPT !.pc = "probe", !.upper = IntervalUpper(end),
                                !.probe = search.cursor + OffsetAt(probe)]
    /\ UNCHANGED <<zone, leapTail, matching, after, answer>>

\* The calendar library finds the first matching minute after the probe, up to its horizon.
Ahead(probe) == {w \in matching : w > probe /\ w <= probe + Horizon}

\* Mutant: the next probe starts where the horizon of the last one ended, and one later.
NextProbeBeyond(probe) == probe + Horizon + 1

\* Probes overlap, so that nothing between two horizons is left out.
NextProbe(probe) == probe + Stride

Offset == OffsetAt(search.cursor + 1)

\* lookupBetween: probes until one finds a minute, which may lie beyond the interval.
LookupBetween ==
    /\ search.pc = "probe"
    /\ search' =
         IF search.probe >= search.upper + Offset THEN [search EXCEPT !.pc = "none"]
         ELSE IF Ahead(search.probe) = {} THEN [search EXCEPT !.probe = NextProbe(@)]
         ELSE LET w == CHOOSE m \in Ahead(search.probe) : \A n \in Ahead(search.probe) : m <= n
              IN IF w <= search.upper + Offset
                 THEN [search EXCEPT !.pc = "found", !.candidate = w - Offset]
                 ELSE [search EXCEPT !.pc = "none"]
    /\ UNCHANGED <<zone, leapTail, matching, after, answer>>

\* Mutant: every realization of a repeated minute counts.
FirstRealizationAny(i) == TRUE

\* The wall minute had no earlier realization, under any offset in force until now.
FirstRealization(i) ==
    \A o \in {OffsetAt(j) : j \in -Last..i} :
        LET earlier == WallPoint(i) - o
        IN ~ (earlier < i /\ WallPoint(earlier) = WallPoint(i))

\* The candidate must be an instant of the interval with that wall time.
Accept ==
    /\ search.pc = "found"
    /\ LET i == search.candidate IN
       IF i <= search.cursor \/ i > search.upper \/ WallPoint(i) # i + Offset
       THEN search' = [search EXCEPT !.pc = "fault"] /\ UNCHANGED answer
       ELSE IF FirstRealization(i)
       THEN search' = [search EXCEPT !.pc = "done"] /\ answer' = i
       ELSE search' = [search EXCEPT !.pc = "interval", !.cursor = i] /\ UNCHANGED answer
    /\ UNCHANGED <<zone, leapTail, matching, after>>

\* Nothing in this interval: the cursor moves to its end.
LeaveInterval ==
    /\ search.pc = "none"
    /\ search' = IF search.upper > search.cursor
                 THEN [search EXCEPT !.pc = "interval", !.cursor = search.upper]
                 ELSE [search EXCEPT !.pc = "fault"]
    /\ UNCHANGED <<zone, leapTail, matching, after, answer>>

RecurrenceNext == BeginInterval \/ LookupBetween \/ Accept \/ LeaveInterval
RecurrenceSpec == RecurrenceInit /\ [][RecurrenceNext]_recurrenceVars

-----------------------------------------------------------------------------
RecurrenceTypeOK ==
    /\ search.pc \in Pcs
    /\ search.cursor \in 0..Last /\ answer \in 0..Last

\* The instants at which the schedule is due: the minute matches, and it did not occur
\* before.  Minutes that a transition skips are no instants at all.
Due(i) == /\ WallPoint(i) \in matching
          /\ ~ \E j \in -Last..(i - 1) : WallPoint(j) = WallPoint(i)

\* Next finds exactly the first instant after the given one at which the schedule is due,
\* whatever transitions lie between, and reports exhaustion only when there is none; its
\* own checks of progress and of the round trip never fail.
NextIsFirst ==
    /\ search.pc # "fault"
    /\ search.pc = "done" =>
         answer > after /\ Due(answer) /\ ~ \E i \in (after + 1)..(answer - 1) : Due(i)
    /\ search.pc = "exhausted" => ~ \E i \in (after + 1)..Last : Due(i)

=============================================================================

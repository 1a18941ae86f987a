-------------------------- MODULE QueueMaintenance --------------------------
(***************************************************************************)
(* Wake-ups of the queue maintenance.  Every row that ends has a callback  *)
(* process.  It notes the row in the terminal event inbox, counts a        *)
(* request and tries to become the one maintainer; if there is one already *)
(* it leaves, and the maintainer must notice the request it left behind.   *)
(* A pass over the inbox alone suffices for events that were noted; a row  *)
(* whose event was not noted needs a full pass.                            *)
(***************************************************************************)
EXTENDS Naturals, FiniteSets

CONSTANTS EndedRows,      \* rows that end, each with its callback process
          MaxRequests,    \* bound: maintenance requests; the code's is 2^64 - 1
          MaxMaintFaults  \* bound: failing passes, state writes and crashes

VARIABLES
    wake,        \* queue-maintenance.json
    inbox,       \* rows in the terminal event inbox
    ended,       \* rows that have ended and are still in the queue
    maintainer,  \* holder of queue-maintenance.lock, or NoMaintainer
    caller,      \* [EndedRows -> local state of the row's callback process]
    maintFaults,
    fullStarts   \* history: requests counted when the last successful full pass began

maintVars == <<wake, inbox, ended, maintainer, caller, maintFaults, fullStarts>>

NoMaintainer == "none"
Counters == 0..MaxRequests
Wake == [requested : Counters, attempted : Counters, completed : Counters,
         fullRequested : Counters, fullCompleted : Counters]
NoWake == [requested |-> 0, attempted |-> 0, completed |-> 0,
           fullRequested |-> 0, fullCompleted |-> 0]

Caller == [at : {"live", "event", "request", "elect", "elected", "begin", "clean", "finish",
                 "unlock", "reread", "done", "dead"},
           noted : BOOLEAN, target : Counters, passTarget : Counters, full : BOOLEAN,
           captured : SUBSET EndedRows, ok : BOOLEAN]
NewCaller == [at |-> "live", noted |-> FALSE, target |-> 0, passTarget |-> 0,
              full |-> FALSE, captured |-> {}, ok |-> TRUE]

MaintTypeOK ==
    /\ wake \in Wake
    /\ inbox \subseteq EndedRows /\ ended \subseteq EndedRows
    /\ maintainer \in EndedRows \cup {NoMaintainer}
    /\ caller \in [EndedRows -> Caller]
    /\ maintFaults \in 0..MaxMaintFaults
    /\ fullStarts \in Counters

MaintInit ==
    /\ wake = NoWake
    /\ inbox = {} /\ ended = {}
    /\ maintainer = NoMaintainer
    /\ caller = [r \in EndedRows |-> NewCaller]
    /\ maintFaults = 0 /\ fullStarts = 0

At(r, at) == caller[r].at = at
Move(r, at) == caller' = [caller EXCEPT ![r].at = at]
Leave(r, at) == caller' = [caller EXCEPT ![r] = [NewCaller EXCEPT !.at = at]]
Fault == maintFaults < MaxMaintFaults /\ maintFaults' = maintFaults + 1

-----------------------------------------------------------------------------
(* RunTerminalEvent: note the event, count a request, try to be the maintainer. *)

RowEnds(r) ==
    /\ At(r, "live")
    /\ ended' = ended \cup {r}
    /\ Move(r, "event")
    /\ UNCHANGED <<wake, inbox, maintainer, maintFaults, fullStarts>>

\* The event is noted, or not: it may have no ticket, or the inbox may fail.
RecordTerminalEvent(r) ==
    /\ At(r, "event")
    /\ \/ /\ inbox' = inbox \cup {r}
          /\ caller' = [caller EXCEPT ![r].at = "request", ![r].noted = TRUE]
       \/ Move(r, "request") /\ UNCHANGED inbox
    /\ UNCHANGED <<wake, ended, maintainer, maintFaults, fullStarts>>

\* Mutant: the scope of the request does not depend on the event.
RequestedCandidates(noted) ==
    [wake EXCEPT !.requested = @ + 1]

\* requestPrivateQueueMaintenanceScope: the counter is the generation of a request; a
\* full one, for an event that was not noted, is remembered under it.
Requested(noted) ==
    [wake EXCEPT !.requested = @ + 1,
                 !.fullRequested = IF noted THEN @ ELSE wake.requested + 1]

RequestMaintenance(r) ==
    /\ At(r, "request") /\ wake.requested < MaxRequests
    /\ wake' = Requested(caller[r].noted)
    /\ Move(r, "elect")
    /\ UNCHANGED <<inbox, ended, maintainer, maintFaults, fullStarts>>

\* The request is not counted: a noted event is still worth a pass, another is not.
RequestFails(r) ==
    /\ At(r, "request") /\ Fault
    /\ IF caller[r].noted THEN Move(r, "elect") ELSE Leave(r, "done")
    /\ UNCHANGED <<wake, inbox, ended, maintainer, fullStarts>>

-----------------------------------------------------------------------------
(* runElectedPrivateQueueMaintenance *)

Needed == wake.requested > wake.attempted \/ inbox # {}

\* tryWithPrivateQueueMaintenance: one try for the lock, and whoever finds it taken leaves.
TryElection(r) ==
    /\ At(r, "elect")
    /\ IF maintainer # NoMaintainer
       THEN Leave(r, "done") /\ UNCHANGED maintainer
       ELSE Move(r, "elected") /\ maintainer' = r
    /\ UNCHANGED <<wake, inbox, ended, maintFaults, fullStarts>>

\* The elected process lets the counters settle, remembers the requests counted so far
\* and maintains if there is a reason to.
RunElectionPass(r) ==
    /\ At(r, "elected")
    /\ caller' = [caller EXCEPT ![r].at = IF Needed THEN "begin" ELSE "unlock",
                                ![r].target = wake.requested, ![r].ok = TRUE]
    /\ UNCHANGED <<wake, inbox, ended, maintainer, maintFaults, fullStarts>>

EndTurn(r, ok) ==
    caller' = [caller EXCEPT ![r] = [NewCaller EXCEPT !.at = "unlock", !.ok = ok,
                                                        !.target = caller[r].target]]

\* The lock is given up after the counters were read for the last time under it.
Unelect(r) ==
    /\ At(r, "unlock") /\ Move(r, "reread")
    /\ maintainer' = NoMaintainer
    /\ UNCHANGED <<wake, inbox, ended, maintFaults, fullStarts>>

\* beginPrivateQueueMaintenancePass
BeginPass(r) ==
    /\ At(r, "begin")
    /\ IF Needed
       THEN /\ caller' = [caller EXCEPT ![r].at = "clean", ![r].passTarget = wake.requested,
                             ![r].full = wake.fullRequested > wake.fullCompleted]
       ELSE EndTurn(r, TRUE)
    /\ UNCHANGED <<wake, inbox, ended, maintainer, maintFaults, fullStarts>>

\* cleanBegunGeneration: capture the ended rows, all of them or those in the inbox, and
\* remove them with their events.  Rows that end after the capture stay.
CaptureRows(r) ==
    /\ At(r, "clean")
    /\ caller' = [caller EXCEPT ![r].at = "finish", ![r].ok = TRUE,
                     ![r].captured = IF caller[r].full THEN ended ELSE inbox \cap ended]
    /\ UNCHANGED <<wake, inbox, ended, maintainer, maintFaults, fullStarts>>

CleaningFails(r) ==
    /\ At(r, "clean") /\ Fault
    /\ caller' = [caller EXCEPT ![r].at = "finish", ![r].ok = FALSE, ![r].captured = {}]
    /\ UNCHANGED <<wake, inbox, ended, maintainer, fullStarts>>

\* Mutant: a pass that ends completes every full request there is by then.
FinishedLate(c) ==
    [wake EXCEPT !.attempted = IF c.passTarget > @ THEN c.passTarget ELSE @,
                 !.completed = IF c.ok /\ c.passTarget > @ THEN c.passTarget ELSE @,
                 !.fullCompleted = IF c.ok /\ c.full THEN wake.fullRequested ELSE @]

\* finishPrivateQueueMaintenancePass: only what was requested before the pass began is
\* attempted or completed by it, and only a full pass completes a full request.
Finished(c) ==
    [wake EXCEPT !.attempted = IF c.passTarget > @ THEN c.passTarget ELSE @,
                 !.completed = IF c.ok /\ c.passTarget > @ THEN c.passTarget ELSE @,
                 !.fullCompleted = IF /\ c.ok /\ c.full
                                      /\ wake.fullRequested <= c.passTarget
                                      /\ wake.fullRequested > @
                                   THEN wake.fullRequested ELSE @]

\* The record is written after the rows are gone.  Requests counted meanwhile make the
\* maintainer go on; an error ends its turn.
FinishPass(r) ==
    /\ At(r, "finish")
    /\ LET c == caller[r]
           after == Finished(c)
       IN  /\ wake' = after
           /\ ended' = ended \ c.captured /\ inbox' = inbox \ c.captured
           /\ fullStarts' = IF c.ok /\ c.full THEN c.passTarget ELSE fullStarts
           /\ IF c.ok /\ after.requested > after.attempted
              THEN Move(r, "begin") ELSE EndTurn(r, c.ok)
    /\ UNCHANGED <<maintainer, maintFaults>>

\* The rows are gone and the record is not written.
FinishFails(r) ==
    /\ At(r, "finish") /\ Fault
    /\ ended' = ended \ caller[r].captured /\ inbox' = inbox \ caller[r].captured
    /\ EndTurn(r, FALSE)
    /\ UNCHANGED <<wake, maintainer, fullStarts>>

\* Mutant: the maintainer leaves without looking back.
RereadNothing(r) ==
    /\ At(r, "reread")
    /\ Leave(r, "done")
    /\ UNCHANGED <<wake, inbox, ended, maintainer, maintFaults, fullStarts>>

\* After the lock is free the counters are read again: a request counted while the
\* lock was held found it busy, and is this process's to serve.
RereadWake(r) ==
    /\ At(r, "reread")
    /\ LET c == caller[r] IN
       IF \/ wake.requested <= wake.attempted
          \/ ~ c.ok /\ wake.attempted < c.target
       THEN Leave(r, "done") ELSE Move(r, "elect")
    /\ UNCHANGED <<wake, inbox, ended, maintainer, maintFaults, fullStarts>>

MaintCrash(r) ==
    /\ caller[r].at \notin {"live", "done", "dead"} /\ Fault
    /\ Leave(r, "dead")
    /\ maintainer' = IF maintainer = r THEN NoMaintainer ELSE maintainer
    /\ UNCHANGED <<wake, inbox, ended, fullStarts>>

MaintNext == \E r \in EndedRows :
    \/ RowEnds(r) \/ RecordTerminalEvent(r) \/ RequestMaintenance(r) \/ RequestFails(r)
    \/ TryElection(r) \/ RunElectionPass(r) \/ BeginPass(r) \/ CaptureRows(r)
    \/ CleaningFails(r) \/ FinishPass(r) \/ FinishFails(r) \/ Unelect(r) \/ RereadWake(r)
    \/ MaintCrash(r)

MaintSpec == MaintInit /\ [][MaintNext]_maintVars

-----------------------------------------------------------------------------
(* Properties. *)

\* No wake-up is lost: when every callback that ran has ended, and nothing failed, no
\* ended row is left, whether its event was noted or not and whoever was maintainer
\* when it asked.
NoWakeLost ==
    (maintFaults = 0 /\ \A r \in EndedRows : caller[r].at \in {"live", "done"}) =>
        ended = {} /\ wake.attempted = wake.requested

\* A full request counts as done only when a full pass that began after it succeeded, so
\* the rows it was for were looked at; and the counters keep the order in which
\* readPrivateQueueMaintenanceRecord accepts them, or the record is refused for ever.
CompletionIsTrue ==
    /\ wake.fullCompleted <= fullStarts
    /\ wake.completed <= wake.attempted /\ wake.attempted <= wake.requested
    /\ wake.fullCompleted <= wake.completed /\ wake.fullRequested <= wake.requested
    /\ wake.fullCompleted <= wake.fullRequested
=============================================================================

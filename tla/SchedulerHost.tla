--------------------------- MODULE SchedulerHost ---------------------------
(***************************************************************************)
(* The process that keeps the recurring-schedule scheduler running         *)
(* (scheduler/host): it holds the host lease H, writes its epoch, starts   *)
(* one resident child at a time over a pair of pipes, restarts it when it  *)
(* exits, and stops for good once a stop record of its epoch is durable.   *)
(* The child runs the scheduler only while it holds the execution lease E  *)
(* and only after its live host confirmed it.  A foreground run takes both *)
(* leases itself.  A stop command follows one epoch's records to the end.  *)
(* Hosts and children die at any point.                                    *)
(***************************************************************************)
EXTENDS Integers, Sequences, FiniteSets

CONSTANTS HostRuns,      \* process runs of "scheduler serve" or "scheduler run"
          NoRun,         \* nobody
          MaxLaunches,   \* bound: children one host starts
          MaxHostFaults  \* bound: crashes, failed writes, failed children

VARIABLES hLease,     \* the run that holds H
          eLease,     \* who holds E: a child, a foreground run or a closing host
          epochs,     \* the journal's epoch records, by sequence number
          fences,     \* the stop record of each epoch, if any
          closures,   \* the epochs with a closed record
          runs,       \* the processes, host or foreground
          residents,  \* the latest child of each host
          stopping,   \* the stop command
          hostFaults

hostVars ==
    <<hLease, eLease, epochs, fences, closures, runs, residents, stopping, hostFaults>>

NoFence == [attempt |-> 0, child |-> "none"]
NewRun == [pc |-> "off", epoch |-> 0, attempt |-> 0, state |-> "starting",
           permanent |-> FALSE, accepted |-> FALSE, intent |-> NoFence,
           timer |-> "none", closeErr |-> FALSE]
NoResident == [pc |-> "none", frames |-> <<>>, input |-> "closed", confirmed |-> FALSE,
               known |-> TRUE, code |-> "ok", doomed |-> FALSE]
NoStop == [pc |-> "idle", epoch |-> 0, host |-> NoRun]

E(kind, r) == [kind |-> kind, run |-> r]
FreeE == E("free", NoRun)

\* A process that is still there: its identity is observed present.
Alive(r) == runs[r].pc \notin {"off", "gone"}
ChildAlive(r) == residents[r].pc \notin {"none", "exited"}
Serving(r) == runs[r].pc = "serving"
Looping(r) == Serving(r) /\ runs[r].attempt > 0  \* the first launch is before the loop

Fail == hostFaults < MaxHostFaults /\ hostFaults' = hostFaults + 1
NoFail == hostFaults' = hostFaults

-----------------------------------------------------------------------------
(* The leases and the epoch *)

\* Serve: H, then the next epoch record, then the loop.
Serve(r) ==
    /\ runs[r].pc = "off" /\ hLease = NoRun
    /\ \/ /\ NoFail
          /\ hLease' = r
          /\ epochs' = Append(epochs, [kind |-> "managed", run |-> r])
          /\ fences' = Append(fences, NoFence)
          /\ runs' = [runs EXCEPT ![r] = [NewRun EXCEPT !.pc = "serving", !.timer = "retry",
                                                        !.epoch = Len(epochs) + 1]]
       \/ /\ Fail  \* the epoch record cannot be written
          /\ runs' = [runs EXCEPT ![r] = [NewRun EXCEPT !.pc = "gone"]]
          /\ UNCHANGED <<hLease, epochs, fences>>
    /\ UNCHANGED <<eLease, closures, residents, stopping>>

\* acquireServeLease gives up after its bounded wait, a foreground run at once.
LeaseBusy(r) ==
    /\ runs[r].pc = "off" /\ hLease # NoRun
    /\ runs' = [runs EXCEPT ![r].pc = "gone"]
    /\ UNCHANGED <<hLease, eLease, epochs, fences, closures, residents, stopping, hostFaults>>

\* runScheduler without a host: H, its own epoch, then E or nothing.
Foreground(r) ==
    /\ runs[r].pc = "off" /\ hLease = NoRun
    /\ NoFail
    /\ epochs' = Append(epochs, [kind |-> "foreground", run |-> r])
    /\ fences' = Append(fences, NoFence)
    /\ IF eLease = FreeE
       THEN /\ hLease' = r
            /\ eLease' = E("foreground", r)
            /\ runs' = [runs EXCEPT ![r] = [NewRun EXCEPT !.pc = "foreground",
                                                          !.epoch = Len(epochs) + 1]]
       ELSE /\ runs' = [runs EXCEPT ![r] = [NewRun EXCEPT !.pc = "gone"]]
            /\ UNCHANGED <<hLease, eLease>>
    /\ UNCHANGED <<closures, residents, stopping>>

\* closeSchedulerRuntimeOwners: E is given up, taken again, and the epoch is
\* recorded finished under it.
ForegroundEnds(r) ==
    /\ runs[r].pc = "foreground" /\ eLease = E("foreground", r)
    /\ eLease' = FreeE
    /\ runs' = [runs EXCEPT ![r].pc = "finishing"]
    /\ UNCHANGED <<hLease, epochs, fences, closures, residents, stopping, hostFaults>>

Finish(r) ==
    /\ runs[r].pc = "finishing"
    /\ \/ /\ eLease = FreeE /\ closures' = closures \cup {runs[r].epoch} /\ NoFail
       \/ /\ Fail /\ UNCHANGED closures  \* E is busy, or the write failed
       \/ /\ eLease # FreeE /\ NoFail /\ UNCHANGED closures
    /\ hLease' = NoRun
    /\ runs' = [runs EXCEPT ![r].pc = "gone"]
    /\ UNCHANGED <<eLease, epochs, fences, residents, stopping>>

-----------------------------------------------------------------------------
(* The host's loop *)

\* service.degrade
Degraded(h) == [h EXCEPT !.permanent = TRUE, !.state = "degraded",
                         !.timer = IF @ = "retry" THEN "none" ELSE @]
Scheduled(h) == [h EXCEPT !.state = "backoff", !.timer = "retry"]

\* service.launch: the intent is recorded, the child started and registered,
\* and its first frame sent; a child that could not be registered hears an end
\* of file instead, and is joined like any other.
Launch(r) ==
    LET h == [runs[r] EXCEPT !.timer = "none", !.attempt = @ + 1]
        child == [NoResident EXCEPT !.pc = "spawned", !.input = "open",
                                    !.doomed = residents[r].doomed]
    IN  /\ Serving(r) /\ runs[r].timer = "retry" /\ runs[r].attempt < MaxLaunches
        /\ IF runs[r].permanent \/ runs[r].accepted
           THEN /\ runs' = [runs EXCEPT ![r].timer = "none"]
                /\ NoFail /\ UNCHANGED residents
           ELSE \/ /\ NoFail
                   /\ runs' = [runs EXCEPT ![r] = [h EXCEPT !.state = "starting",
                                                            !.timer = "readiness"]]
                   /\ residents' = [residents EXCEPT ![r] = child]
                \/ /\ Fail  \* the root or the intent: no child was started
                   /\ runs' = [runs EXCEPT ![r] = Degraded(h)]
                   /\ UNCHANGED residents
                \/ /\ Fail  \* Start failed
                   /\ runs' = [runs EXCEPT ![r] = Scheduled(h)]
                   /\ UNCHANGED residents
                \/ \E k \in BOOLEAN :  \* observing or recording the child failed
                     /\ Fail
                     /\ runs' = [runs EXCEPT ![r] = Degraded(h)]
                     /\ residents' = [residents EXCEPT ![r] =
                            [child EXCEPT !.input = "closed", !.known = k]]
        /\ UNCHANGED <<hLease, eLease, epochs, fences, closures, stopping>>

\* permanentChildFault: the child's last word decides, whichever way it is read.
TerminalFrames(frames) == \E i \in DOMAIN frames : frames[i] \in {"incompatible", "cleanup"}
PermanentFault(h, frames) ==
    IF TerminalFrames(frames) /\ ~h.accepted THEN Degraded(h) ELSE h

\* childEvent: the next frame; a ready one counts unless the host is ending, and is
\* confirmed when the stored state is still the host's and the child can be written to.
ChildEvent(r) ==
    LET c == residents[r]
        f == Head(c.frames)
        ready == f = "ready" /\ ~runs[r].permanent /\ ~runs[r].accepted
        Reads(confirms) == residents' = [residents EXCEPT ![r].frames = Tail(@),
                                                          ![r].confirmed = @ \/ confirms]
    IN  /\ Serving(r) /\ c.frames # <<>>
        /\ \/ /\ f \in {"incompatible", "cleanup"} /\ NoFail /\ Reads(FALSE)
              /\ runs' = [runs EXCEPT ![r] = PermanentFault(@, <<f>>)]
           \/ /\ f = "ready" /\ ~ready /\ NoFail /\ Reads(FALSE)
              /\ UNCHANGED runs
           \/ /\ ready /\ Fail /\ Reads(FALSE)
              /\ runs' = [runs EXCEPT ![r] = Degraded(@)]
           \/ /\ ready /\ c.pc = "exited" /\ NoFail /\ Reads(FALSE)
              /\ runs' = [runs EXCEPT ![r].state = "degraded"]
           \/ /\ ready /\ c.pc # "exited" /\ NoFail /\ Reads(TRUE)
              /\ runs' = [runs EXCEPT ![r].state = "ready", ![r].timer = "none"]
           \/ /\ f = "eof" /\ NoFail /\ Reads(FALSE)
              /\ runs' = [runs EXCEPT ![r].state = IF runs[r].permanent THEN @ ELSE "degraded"]
        /\ UNCHANGED <<hLease, eLease, epochs, fences, closures, stopping>>

\* The exit taken at its word, its last frames unread.
ExitUndrained(h, c) ==
    IF h.permanent \/ h.accepted THEN h ELSE Scheduled(h)

\* exited: the reader is joined and its frames drained before the decision to
\* start another child.
Exited(h, c) ==
    LET drained == PermanentFault(h, c.frames)
        idle == [drained EXCEPT !.timer = IF @ = "readiness" THEN "none" ELSE @]
    IN  IF idle.permanent \/ idle.accepted THEN idle ELSE Scheduled(idle)

ChildWaited(r) ==
    /\ Serving(r) /\ residents[r].pc = "exited"
    /\ \/ /\ NoFail
          /\ runs' = [runs EXCEPT ![r] = Exited(@, residents[r])]
       \/ /\ Fail  \* closing the channel failed
          /\ runs' = [runs EXCEPT ![r] = Degraded(Exited(@, residents[r]))]
    /\ residents' = [residents EXCEPT ![r] = [NoResident EXCEPT !.doomed = residents[r].doomed]]
    /\ UNCHANGED <<hLease, eLease, epochs, fences, closures, stopping>>

\* Ten seconds without a ready frame are shown, and nothing else.
ReadinessExpires(r) ==
    /\ Serving(r) /\ runs[r].timer = "readiness"
    /\ runs' = [runs EXCEPT ![r].timer = "none", ![r].state = "degraded"]
    /\ UNCHANGED <<hLease, eLease, epochs, fences, closures, residents, stopping, hostFaults>>

-----------------------------------------------------------------------------
(* The stop record *)

\* The candidate is fixed by the first attempt to write it.
Intent(r) ==
    IF runs[r].intent # NoFence THEN runs[r].intent
    ELSE [attempt |-> runs[r].attempt,
          child |-> IF residents[r].pc = "none" THEN "none"
                    ELSE IF residents[r].known THEN "known" ELSE "uncertain"]

\* A stop record that may or may not be there, and the loop as it was.
FencedLightly(h, intent, committed) ==
    IF committed THEN [h EXCEPT !.intent = intent, !.accepted = TRUE,
                                !.state = "stopping", !.timer = "none"]
    ELSE [h EXCEPT !.intent = intent]

\* fenceStop: a record whose publication could not be verified may be durable,
\* and no other child is ever started under it.
FenceStop(h, intent, committed) ==
    LET kept == [h EXCEPT !.intent = intent]
    IN  IF committed THEN [kept EXCEPT !.accepted = TRUE, !.state = "stopping", !.timer = "none"]
        ELSE Degraded(kept)

\* publishRecord of the stop record, and where the loop goes from there: out of
\* the loop when it is committed, or when the host itself was told to end.
PublishStop(r, told) ==
    \E stored \in {fences[runs[r].epoch] # NoFence, TRUE}, committed \in BOOLEAN :
        LET h == FenceStop(runs[r], Intent(r), committed)
        IN  /\ IF committed THEN stored /\ NoFail ELSE Fail
            /\ fences' = IF stored THEN [fences EXCEPT ![runs[r].epoch] =
                                            IF @ = NoFence THEN Intent(r) ELSE @]
                         ELSE fences
            /\ runs' = [runs EXCEPT ![r] =
                          IF committed \/ told = "signal" THEN [h EXCEPT !.pc = "joining"] ELSE h]
            /\ residents' = [residents EXCEPT ![r].input =
                               IF committed \/ told = "signal" THEN "closed" ELSE @]

Signalled(r) ==
    /\ Looping(r)
    /\ PublishStop(r, "signal")
    /\ UNCHANGED <<hLease, eLease, epochs, closures, stopping>>

\* close: the child is joined; an exit that was not clean is remembered.
JoinChild(r) ==
    /\ runs[r].pc = "joining" /\ ~ChildAlive(r)
    /\ runs' = [runs EXCEPT ![r].pc = "awaiting",
                            ![r].closeErr = residents[r].code = "failed"]
    /\ residents' = [residents EXCEPT ![r] = NoResident]
    /\ UNCHANGED <<hLease, eLease, epochs, fences, closures, stopping, hostFaults>>

\* Taking the end of an own child for the end of every runtime.
MayCloseAtOnce(r) == TRUE

\* awaitStoppedExecution: E is free only when no earlier runtime is left.
MayClose(r) == eLease = FreeE

CloseEpoch(r) ==
    /\ runs[r].pc = "awaiting" /\ MayClose(r)
    /\ \/ /\ NoFail
          /\ closures' = IF runs[r].accepted /\ ~runs[r].closeErr
                         THEN closures \cup {runs[r].epoch} ELSE closures
       \/ Fail /\ UNCHANGED closures
    /\ runs' = [runs EXCEPT ![r].pc = "releasing"]
    /\ eLease' = IF eLease = FreeE THEN E("host", r) ELSE eLease
    /\ UNCHANGED <<hLease, epochs, fences, residents, stopping>>

\* The endpoint is closed, E and then H released, and the process ends.
HostEnds(r) ==
    /\ runs[r].pc = "releasing"
    /\ runs' = [runs EXCEPT ![r].pc = "gone"]
    /\ eLease' = IF eLease = E("host", r) THEN FreeE ELSE eLease
    /\ hLease' = NoRun
    /\ UNCHANGED <<epochs, fences, closures, residents, stopping, hostFaults>>

-----------------------------------------------------------------------------
(* The resident child *)

Ended(c, code, last) == [c EXCEPT !.pc = "exited", !.code = code,
                                  !.frames = @ \o last \o <<"eof">>,
                                  !.doomed = @ \/ last # <<>>, !.confirmed = FALSE]

ExitWith(r, code, last) ==
    /\ residents' = [residents EXCEPT ![r] = Ended(@, code, last)]
    /\ eLease' = IF eLease = E("child", r) THEN FreeE ELSE eLease

\* runScheduler as a resident: E, or the exit code that says it is busy.
TakeExecution(r) ==
    /\ residents[r].pc = "spawned"
    /\ IF eLease = FreeE
       THEN /\ eLease' = E("child", r)
            /\ residents' = [residents EXCEPT ![r].pc = "owning"]
       ELSE ExitWith(r, "busy", <<>>)
    /\ UNCHANGED <<hLease, epochs, fences, closures, runs, stopping, hostFaults>>

\* confirmHost up to the ready frame: the host must be the live one that sent
\* the hello, and the stored definitions must be ones this build can run.
ConfirmHost(r) ==
    /\ residents[r].pc = "owning"
    /\ \/ /\ residents[r].input = "open" /\ Alive(r) /\ NoFail
          /\ residents' = [residents EXCEPT ![r].pc = "waiting", ![r].frames = Append(@, "ready")]
          /\ UNCHANGED eLease
       \/ /\ residents[r].input = "open" /\ Alive(r) /\ Fail
          /\ ExitWith(r, "failed", <<"incompatible">>)
       \/ /\ residents[r].input = "open" /\ ~Alive(r) /\ NoFail
          /\ ExitWith(r, "failed", <<>>)
       \/ /\ residents[r].input = "closed" \/ ~Alive(r)
          /\ NoFail /\ ExitWith(r, "ok", <<>>)
    /\ UNCHANGED <<hLease, epochs, fences, closures, runs, stopping>>

EndOfInput(r) == residents[r].input = "closed" \/ ~Alive(r)

\* The confirmation, or the end of the host, whichever is taken first.
AwaitConfirmation(r) ==
    /\ residents[r].pc = "waiting"
    /\ \/ /\ residents[r].confirmed
          /\ residents' = [residents EXCEPT ![r].pc = "running"]
          /\ UNCHANGED eLease
       \/ /\ EndOfInput(r)
          /\ ExitWith(r, "ok", <<>>)
    /\ UNCHANGED <<hLease, epochs, fences, closures, runs, stopping, hostFaults>>

\* The runtime ends because the host did, or by itself; a task it could not
\* clean up after is the last thing it tells its host.
RuntimeEnds(r) ==
    /\ residents[r].pc = "running"
    /\ \/ EndOfInput(r) /\ NoFail /\ ExitWith(r, "ok", <<>>)
       \/ Fail /\ ExitWith(r, "failed", <<>>)
       \/ Fail /\ ExitWith(r, "failed", <<"cleanup">>)
    /\ UNCHANGED <<hLease, epochs, fences, closures, runs, stopping>>

-----------------------------------------------------------------------------
(* Crashes *)

ChildDies(r) ==
    /\ ChildAlive(r) /\ Fail
    /\ ExitWith(r, "failed", <<>>)
    /\ UNCHANGED <<hLease, epochs, fences, closures, runs, stopping>>

RunDies(r) ==
    /\ Alive(r) /\ Fail
    /\ runs' = [runs EXCEPT ![r].pc = "gone"]
    /\ hLease' = IF hLease = r THEN NoRun ELSE hLease
    /\ eLease' = IF eLease.run = r /\ eLease.kind # "child" THEN FreeE ELSE eLease
    /\ UNCHANGED <<epochs, fences, closures, residents, stopping>>

-----------------------------------------------------------------------------
(* The stop command *)

StopStep(from, to) == /\ stopping.pc = from
                      /\ stopping' = [stopping EXCEPT !.pc = to]
                      /\ UNCHANGED <<hLease, eLease, epochs, closures, hostFaults>>

\* Stop: one exact generation, the latest when the command began.
ReadLatest ==
    /\ stopping.pc = "idle" /\ epochs # <<>>
    /\ stopping' = [pc |-> IF epochs[Len(epochs)].kind = "managed" THEN "asking" ELSE "pending",
                    epoch |-> Len(epochs), host |-> epochs[Len(epochs)].run]
    /\ UNCHANGED <<hLease, eLease, epochs, fences, closures, runs, residents, hostFaults>>

\* contact and service.control: the reply may be lost, the record is what counts.
AskStop ==
    LET r == stopping.host
    IN  /\ stopping.pc = "asking"
        /\ stopping' = [stopping EXCEPT !.pc = "fence"]
        /\ Serving(r) => Looping(r)
        /\ IF Serving(r)
           THEN PublishStop(r, "request")
           ELSE UNCHANGED <<fences, runs, residents, hostFaults>>
        /\ UNCHANGED <<hLease, eLease, epochs, closures>>

AskLost == StopStep("asking", "fence") /\ UNCHANGED <<fences, runs, residents>>

\* readStoppedFence and awaitStoppedFence, until the closed record is there.
NoFenceFound ==
    /\ stopping.pc = "fence" /\ fences[stopping.epoch] = NoFence
    /\ StopStep("fence", "pending") /\ UNCHANGED <<fences, runs, residents>>

FenceClosed ==
    /\ stopping.pc = "fence" /\ fences[stopping.epoch] # NoFence
    /\ stopping.epoch \in closures
    /\ StopStep("fence", "leaving") /\ UNCHANGED <<fences, runs, residents>>

StopTimesOut ==
    /\ stopping.pc \in {"fence", "leaving"}
    /\ StopStep(stopping.pc, "pending") /\ UNCHANGED <<fences, runs, residents>>

\* finishStop: the host's process and, when its name is known, the child's.
FinishStop ==
    /\ stopping.pc = "leaving" /\ ~Alive(stopping.host)
    /\ fences[stopping.epoch].child = "known" => ~ChildAlive(stopping.host)
    /\ StopStep("leaving", "stopped") /\ UNCHANGED <<fences, runs, residents>>

-----------------------------------------------------------------------------
HostInit ==
    /\ hLease = NoRun /\ eLease = FreeE
    /\ epochs = <<>> /\ fences = <<>> /\ closures = {}
    /\ runs = [r \in HostRuns |-> NewRun]
    /\ residents = [r \in HostRuns |-> NoResident]
    /\ stopping = NoStop
    /\ hostFaults = 0

HostStep(r) ==
    \/ Serve(r) \/ LeaseBusy(r) \/ Foreground(r) \/ ForegroundEnds(r) \/ Finish(r)
    \/ Launch(r) \/ ChildEvent(r) \/ ChildWaited(r) \/ ReadinessExpires(r)
    \/ Signalled(r) \/ JoinChild(r) \/ CloseEpoch(r) \/ HostEnds(r) \/ RunDies(r)

ResidentStep(r) ==
    \/ TakeExecution(r) \/ ConfirmHost(r) \/ AwaitConfirmation(r)
    \/ RuntimeEnds(r) \/ ChildDies(r)

StopCommand ==
    \/ ReadLatest \/ AskStop \/ AskLost \/ NoFenceFound \/ FenceClosed
    \/ StopTimesOut \/ FinishStop

HostNext ==
    \/ \E r \in HostRuns : HostStep(r) \/ ResidentStep(r)
    \/ StopCommand

HostSpec == HostInit /\ [][HostNext]_hostVars

-----------------------------------------------------------------------------
\* Leases, journal, processes and the stop command stay within their types.
HostTypeOK ==
    /\ hLease \in HostRuns \cup {NoRun}
    /\ eLease.kind \in {"free", "child", "foreground", "host"}
    /\ Len(fences) = Len(epochs) /\ closures \subseteq DOMAIN epochs
    /\ \A r \in HostRuns : runs[r].attempt \in 0 .. MaxLaunches
    /\ hostFaults \in 0 .. MaxHostFaults

\* "Stopped" is reported only when the epoch's host and every child it started
\* are gone; and the closed record is written only when no runtime at all was
\* left, the orphan of an earlier host that died included.
StoppedIsQuiet ==
    /\ stopping.pc = "stopped" =>
         ~Alive(stopping.host) /\ ~ChildAlive(stopping.host)
    /\ \A r \in HostRuns : runs[r].pc = "releasing" /\ runs[r].epoch \in closures
         => \A o \in HostRuns : residents[o].pc # "running" /\ runs[o].pc # "foreground"

\* Once an epoch's stop record is on disk, verified or not, its host starts no
\* other child.
FenceHolds ==
    \A e \in DOMAIN epochs :
        fences[e] # NoFence => runs[epochs[e].run].attempt = fences[e].attempt

\* A child that said it could not clean up, or that it cannot run what is
\* stored, is the last one of its host, even when its exit is seen first.
LastWordCounts ==
    \A r \in HostRuns :
        Serving(r) /\ residents[r].doomed => runs[r].timer # "retry"

\* A host that shows itself ready has a child that holds E and was confirmed,
\* or whose end it has not seen yet; and there is at most one runtime.
ReadyIsTrue ==
    /\ \A r \in HostRuns : Serving(r) /\ runs[r].state = "ready" =>
         \/ residents[r].pc = "exited"
         \/ residents[r].pc \in {"waiting", "running"} /\ residents[r].confirmed
    /\ \A r \in HostRuns : residents[r].pc = "running" => eLease = E("child", r)

HostIsSafe == StoppedIsQuiet /\ FenceHolds /\ LastWordCounts /\ ReadyIsTrue
=============================================================================

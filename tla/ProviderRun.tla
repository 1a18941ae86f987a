---------------------------- MODULE ProviderRun ----------------------------
(***************************************************************************)
(* One run of a provider by its worker.  Seven goroutines share it: the    *)
(* runner, the budget's observer, the capture of the provider's output,    *)
(* the protocol that answers it, the writer and the closer of its input,   *)
(* and the waiter.  They are joined by bounded channels and pipes, and the *)
(* provider on the other end reads and writes as it likes, so each place   *)
(* where one of them blocks has to have someone who will free it.          *)
(***************************************************************************)
EXTENDS Naturals, Sequences, FiniteSets

CONSTANTS Messages,       \* messages a user may send to the running provider
          MaxFrames,      \* bound: frames of output the provider produces
          Capacity,       \* slots of each channel and pipe; the code's channels have 16
          MaxRunFaults    \* bound: failing writes, parsers and stop records

VARIABLES
    mode,        \* "plain", "machine" or "interactive", and whether there is a lifetime
    main,      \* position in Run
    startErr,    \* the provider was not started
    failed,      \* Result.Error is set: nothing is sealed
    expired,     \* the deadline has passed
    budget,      \* budgetOwner
    observer,    \* position of budgetOwner.observe
    provider,    \* "none", "running", "exited"
    orphan,      \* a descendant of the provider still holds its output
    killed,      \* the stop request, or the end of the lifetime, reached the provider
    emitted,     \* frames the provider has written
    stdout,      \* frames in the output pipe
    copier,      \* position of capture.run
    chunks,      \* frames in the channel to the protocol
    chunksClosed,
    protocol,    \* position of interactiveInvocation.run
    finished,    \* the protocol has said Done
    fault,       \* the protocol ended with an error
    outbound,    \* frames queued for the provider's input: a message, or Machine
    outClosed,
    writer,      \* position of writeFrames and the frame it holds
    stdin,       \* frames in the input pipe
    inputClosed,
    written,     \* channel of message identities that were written
    closer,      \* closeOnCompletion is done
    delivery,    \* [Messages -> state in the interaction journal]
    journalClosed,
    runFaults,
    sends        \* history: [Messages -> how often it was written to the provider]

runVars == <<mode, main, startErr, failed, expired, budget, observer, provider, orphan,
             killed, emitted, stdout, copier, chunks, chunksClosed, protocol, finished,
             fault, outbound, outClosed, writer, stdin, inputClosed, written, closer,
             delivery, journalClosed, runFaults, sends>>

ownerVars == <<mode, main, startErr, failed>>
budgetVars == <<expired, budget, observer>>
childVars == <<provider, orphan, killed, emitted>>
outputVars == <<stdout, copier, chunks, chunksClosed>>
protocolVars == <<protocol, finished, fault>>
inputVars == <<outbound, outClosed, writer, stdin, inputClosed, written, closer>>
journalVars == <<delivery, journalClosed, sends>>

Machine == "machine"
Interactive == mode.protocol = "interactive"
Plain == mode.protocol = "plain"

Budget == [completed : BOOLEAN, expired : BOOLEAN, prepared : BOOLEAN, wake : BOOLEAN,
           cancelled : BOOLEAN]
Deliveries == {"none", "queued", "unknown", "submitted", "rejected"}
Runner == {"preflight", "start", "startWait", "starting", "parents", "wait", "finish",
           "captures", "complete1", "identity", "complete2", "await", "close", "journal",
           "seal", "awaitLast", "returned"}
Frames == Messages \cup {Machine}

RunTypeOK ==
    /\ mode \in [protocol : {"plain", "machine", "interactive"}, lifetime : BOOLEAN]
    /\ main \in Runner /\ {startErr, failed, expired} \subseteq BOOLEAN
    /\ budget \in Budget /\ observer \in {"select", "expiry", "request", "done"}
    /\ provider \in {"none", "running", "exited"} /\ {orphan, killed} \subseteq BOOLEAN
    /\ emitted \in 0..MaxFrames /\ stdout \in 0..Capacity /\ chunks \in 0..Capacity
    /\ copier \in {"read", "observe", "drain", "closed"} /\ chunksClosed \in BOOLEAN
    /\ protocol \in {"none", "start", "loop", "ending", "done"}
    /\ {finished, fault, outClosed, inputClosed, closer, journalClosed} \subseteq BOOLEAN
    /\ outbound \in Seq(Frames) /\ Len(outbound) <= Capacity
    /\ writer \in [at : {"none", "take", "write", "report", "done"}, frame : Frames]
    /\ stdin \in 0..Capacity /\ written \subseteq Messages
    /\ delivery \in [Messages -> Deliveries] /\ sends \in [Messages -> 0..2]
    /\ runFaults \in 0..MaxRunFaults

RunInit ==
    /\ mode \in [protocol : {"plain", "machine", "interactive"}, lifetime : BOOLEAN]
    /\ main = "preflight" /\ startErr = FALSE /\ failed = FALSE /\ expired = FALSE
    /\ budget = [completed |-> FALSE, expired |-> FALSE, prepared |-> FALSE,
                 wake |-> FALSE, cancelled |-> FALSE]
    /\ observer = "select"
    /\ provider = "none" /\ orphan = FALSE /\ killed = FALSE /\ emitted = 0
    /\ stdout = 0 /\ copier = "read" /\ chunks = 0 /\ chunksClosed = FALSE
    /\ protocol = "none" /\ finished = FALSE /\ fault = FALSE
    /\ outbound = <<>> /\ outClosed = FALSE
    /\ writer = [at |-> "none", frame |-> Machine]
    /\ stdin = 0 /\ inputClosed = FALSE /\ written = {} /\ closer = FALSE
    /\ delivery = [m \in Messages |-> "none"] /\ journalClosed = FALSE
    /\ runFaults = 0 /\ sends = [m \in Messages |-> 0]

Faulty == runFaults < MaxRunFaults /\ runFaults' = runFaults + 1
ProtocolDone == protocol \in {"ending", "done"}

\* The processes that hold the write end of stdout: the worker until it has closed its
\* copy, the provider, and what the provider has left.
OutputOpen ==
    main \in {"preflight", "start", "startWait", "starting", "parents"}
        \/ provider = "running" \/ orphan

-----------------------------------------------------------------------------
(* The budget *)

DeadlinePasses ==
    /\ ~ expired /\ expired' = TRUE
    /\ UNCHANGED <<ownerVars, budget, observer, childVars, outputVars, protocolVars,
                   inputVars, journalVars, runFaults>>

Expire(b) == [b EXCEPT !.expired = TRUE, !.cancelled = TRUE,
                       !.wake = b.wake \/ ~ b.prepared]

\* observe: the timer, a wake-up or the end of the work.  The timer is stopped with it.
Observe ==
    /\ observer = "select"
    /\ \/ budget.completed /\ observer' = "done"
       \/ /\ (expired /\ ~ budget.completed) \/ budget.wake
          /\ observer' = "expiry"
    /\ UNCHANGED <<ownerVars, expired, budget, childVars, outputVars, protocolVars,
                   inputVars, journalVars, runFaults>>

\* prepareExpiry: the stop is recorded under the lock, once, unless the work ended first.
PrepareExpiry ==
    /\ observer = "expiry"
    /\ IF budget.completed \/ budget.prepared
       THEN observer' = "done" /\ UNCHANGED <<budget, runFaults>>
       ELSE /\ budget' = [budget EXCEPT !.expired = TRUE, !.cancelled = TRUE,
                                        !.prepared = TRUE]
            /\ \/ observer' = "request" /\ UNCHANGED runFaults
               \/ observer' = "done" /\ Faulty
    /\ UNCHANGED <<ownerVars, expired, childVars, outputVars, protocolVars, inputVars,
                   journalVars>>

\* The request ends the provider and all it has started.
RequestStop ==
    /\ observer = "request"
    /\ observer' = "done" /\ killed' = TRUE /\ orphan' = FALSE
    /\ UNCHANGED <<ownerVars, expired, budget, provider, emitted, outputVars, protocolVars,
                   inputVars, journalVars, runFaults>>

\* authorize: past the deadline, no start; and the caller does not go on before the stop
\* is recorded.
Authorize(ok) ==
    IF budget.expired \/ budget.prepared \/ expired
    THEN /\ budget' = Expire(budget)
         /\ main' = "startWait" /\ startErr' = TRUE
    ELSE main' = ok /\ UNCHANGED <<budget, startErr>>

\* Mutant: the end of the work does not wait for a stop that is being recorded.
CompleteAtOnce(then) ==
    /\ budget' = [budget EXCEPT !.completed = TRUE, !.cancelled = TRUE]
    /\ main' = then

\* complete: a deadline that has passed by now counts as passed before the work ended.
Complete(then) ==
    IF ~ budget.completed /\ ~ budget.expired /\ expired
    THEN budget' = Expire(budget) /\ UNCHANGED main
    ELSE /\ budget.completed \/ (budget.expired => budget.prepared)
         /\ budget' = [budget EXCEPT !.completed = TRUE, !.cancelled = TRUE]
         /\ main' = then

-----------------------------------------------------------------------------
(* Run *)

\* prepareLaunchPlan: the inputs of the launch are made and the runtime is looked at.
Preflight ==
    /\ main = "preflight"
    /\ \/ Authorize("start")
       \/ main' = "parents" /\ startErr' = TRUE /\ UNCHANGED budget
    /\ UNCHANGED <<mode, failed, expired, observer, childVars, outputVars, protocolVars,
                   inputVars, journalVars, runFaults>>

AuthorizeStart ==
    /\ main = "start"
    /\ Authorize("starting")
    /\ UNCHANGED <<mode, failed, expired, observer, childVars, outputVars, protocolVars,
                   inputVars, journalVars, runFaults>>

AwaitPrepared ==
    /\ main = "startWait" /\ budget.prepared
    /\ main' = "parents"
    /\ UNCHANGED <<mode, startErr, failed, budgetVars, childVars, outputVars, protocolVars,
                   inputVars, journalVars, runFaults>>

\* The start itself runs outside the lock: the deadline may pass meanwhile.
StartProvider ==
    /\ main = "starting"
    /\ \/ provider' = "running" /\ UNCHANGED startErr
       \/ startErr' = TRUE /\ UNCHANGED provider
    /\ main' = "parents"
    /\ UNCHANGED <<mode, failed, budgetVars, orphan, killed, emitted, outputVars,
                   protocolVars, inputVars, journalVars, runFaults>>

\* closeParents, recordStart and the start of the protocol's goroutines.
CloseParents ==
    /\ main = "parents"
    /\ IF Plain
       THEN UNCHANGED <<protocol, writer>>
       ELSE /\ protocol' = IF startErr THEN "ending" ELSE "start"
            /\ writer' = [writer EXCEPT !.at = "take"]
    /\ IF ~ Plain /\ startErr
       THEN inputClosed' = TRUE /\ outClosed' = TRUE
       ELSE UNCHANGED <<inputClosed, outClosed>>
    /\ main' = IF startErr THEN "captures" ELSE "wait"
    /\ UNCHANGED <<mode, startErr, failed, budgetVars, childVars, outputVars, finished,
                   fault, outbound, stdin, written, closer, journalVars, runFaults>>

Wait ==
    /\ main = "wait" /\ provider = "exited"
    /\ main' = "finish"
    /\ UNCHANGED <<mode, startErr, failed, budgetVars, childVars, outputVars, protocolVars,
                   inputVars, journalVars, runFaults>>

\* Lifetime.FinishCommand ends what the provider has left behind.
FinishCommand ==
    /\ main = "finish"
    /\ orphan' = IF mode.lifetime THEN FALSE ELSE orphan
    /\ main' = "captures"
    /\ UNCHANGED <<mode, startErr, failed, budgetVars, provider, killed, emitted,
                   outputVars, protocolVars, inputVars, journalVars, runFaults>>

JoinCaptures ==
    /\ main = "captures" /\ copier = "closed"
    /\ main' = IF Plain THEN "complete1" ELSE "identity"
    /\ UNCHANGED <<mode, startErr, failed, budgetVars, childVars, outputVars, protocolVars,
                   inputVars, journalVars, runFaults>>

CompleteBudget ==
    /\ main \in {"complete1", "complete2"}
    /\ Complete(IF mode.lifetime THEN "await" ELSE "journal")
    /\ UNCHANGED <<mode, startErr, failed, expired, observer, childVars, outputVars,
                   protocolVars, inputVars, journalVars, runFaults>>

\* interactiveInvocation.Complete: no more output, then the protocol's goroutines are
\* joined and the last writes are noted.
CompleteIdentity ==
    /\ main = "identity"
    /\ IF ~ chunksClosed
       THEN chunksClosed' = TRUE /\ UNCHANGED <<main, delivery, written>>
       ELSE /\ protocol = "done"
            /\ delivery' = [m \in Messages |->
                  IF m \in written /\ delivery[m] = "unknown" /\ ~ journalClosed
                  THEN "submitted" ELSE delivery[m]]
            /\ written' = {}
            /\ main' = "complete2"
            /\ UNCHANGED chunksClosed
    /\ UNCHANGED <<mode, startErr, failed, budgetVars, childVars, stdout, copier, chunks,
                   protocolVars, outbound, outClosed, writer, stdin, inputClosed, closer,
                   journalClosed, runFaults, sends>>

\* With a lifetime the stop is over, and the lifetime closed, before anything is sealed.
AwaitStop ==
    /\ main = "await" /\ observer = "done"
    /\ main' = "close"
    /\ UNCHANGED <<mode, startErr, failed, budgetVars, childVars, outputVars, protocolVars,
                   inputVars, journalVars, runFaults>>
CloseTask ==
    /\ main = "close"
    /\ killed' = TRUE /\ orphan' = FALSE
    /\ main' = "journal"
    /\ UNCHANGED <<mode, startErr, failed, budgetVars, provider, emitted, outputVars,
                   protocolVars, inputVars, journalVars, runFaults>>

SealInteraction ==
    /\ main = "journal"
    /\ journalClosed' = (journalClosed \/ Interactive)
    /\ main' = IF failed THEN "awaitLast" ELSE "seal"
    /\ UNCHANGED <<mode, startErr, failed, budgetVars, childVars, outputVars, protocolVars,
                   inputVars, delivery, runFaults, sends>>
SealAndPublish ==
    /\ main = "seal"
    /\ main' = "awaitLast"
    /\ UNCHANGED <<mode, startErr, failed, budgetVars, childVars, outputVars, protocolVars,
                   inputVars, journalVars, runFaults>>
ReturnResult ==
    /\ main = "awaitLast" /\ observer = "done"
    /\ main' = "returned"
    /\ UNCHANGED <<mode, startErr, failed, budgetVars, childVars, outputVars, protocolVars,
                   inputVars, journalVars, runFaults>>

-----------------------------------------------------------------------------
(* The provider *)

Emit ==
    /\ provider = "running" /\ emitted < MaxFrames /\ stdout < Capacity
    /\ emitted' = emitted + 1 /\ stdout' = stdout + 1
    /\ UNCHANGED <<ownerVars, budgetVars, provider, orphan, killed, copier, chunks,
                   chunksClosed, protocolVars, inputVars, journalVars, runFaults>>

ReadInput ==
    /\ provider = "running" /\ stdin > 0
    /\ stdin' = stdin - 1
    /\ UNCHANGED <<ownerVars, budgetVars, childVars, outputVars, protocolVars, outbound,
                   outClosed, writer, inputClosed, written, closer, journalVars, runFaults>>

Exit ==
    /\ provider = "running"
    /\ provider' = "exited"
    /\ orphan' \in IF killed THEN {FALSE} ELSE BOOLEAN
    /\ UNCHANGED <<ownerVars, budgetVars, killed, emitted, outputVars, protocolVars,
                   inputVars, journalVars, runFaults>>

-----------------------------------------------------------------------------
(* capture.run *)

\* The bytes are saved before the protocol sees them.  If they cannot be saved the pipe
\* is still emptied, so that the provider is not blocked.
CopyOutput ==
    /\ copier \in {"read", "drain"} /\ stdout > 0
    /\ stdout' = stdout - 1
    /\ \/ copier' = (IF copier = "drain" \/ Plain THEN copier ELSE "observe")
          /\ UNCHANGED <<failed, runFaults>>
       \/ copier = "read" /\ copier' = "drain" /\ failed' = TRUE /\ Faulty
    /\ UNCHANGED <<mode, main, startErr, budgetVars, childVars, chunks, chunksClosed,
                   protocolVars, inputVars, journalVars>>

\* Mutant: the capture waits for the protocol alone.
ObserveChunkBlocking ==
    /\ copier = "observe" /\ chunks < Capacity
    /\ chunks' = chunks + 1 /\ copier' = "read"
    /\ UNCHANGED <<ownerVars, budgetVars, childVars, stdout, chunksClosed, protocolVars,
                   inputVars, journalVars, runFaults>>

\* Observe: into the channel, or nowhere once the protocol has ended.
ObserveChunk ==
    /\ copier = "observe"
    /\ \/ chunks < Capacity /\ chunks' = chunks + 1
       \/ ProtocolDone /\ UNCHANGED chunks
    /\ copier' = "read"
    /\ UNCHANGED <<ownerVars, budgetVars, childVars, stdout, chunksClosed, protocolVars,
                   inputVars, journalVars, runFaults>>

EndOutput ==
    /\ copier \in {"read", "drain"} /\ stdout = 0 /\ ~ OutputOpen
    /\ copier' = "closed"
    /\ UNCHANGED <<ownerVars, budgetVars, childVars, stdout, chunks, chunksClosed,
                   protocolVars, inputVars, journalVars, runFaults>>

-----------------------------------------------------------------------------
(* The protocol: interactiveInvocation *)

\* The goroutine ends: protocolDone is closed, the input too unless the protocol has
\* finished properly, and no frame follows.
EndProtocol(withFault) ==
    /\ protocol' = "ending" /\ fault' = withFault
    /\ inputClosed' = (inputClosed \/ withFault \/ ~ finished)
    /\ outClosed' = TRUE

\* queue never blocks: a full channel ends the protocol.
Queue(frame) ==
    IF ~ finished /\ ~ outClosed /\ Len(outbound) < Capacity /\ writer.at # "done"
    THEN /\ outbound' = Append(outbound, frame)
         /\ UNCHANGED <<protocol, fault, inputClosed, outClosed>>
    ELSE EndProtocol(TRUE) /\ UNCHANGED outbound

StartProtocol ==
    /\ protocol = "start"
    /\ outbound' = <<Machine>>
    /\ protocol' = "loop"
    /\ UNCHANGED <<ownerVars, budgetVars, childVars, outputVars, finished, fault, outClosed,
                   writer, stdin, inputClosed, written, closer, journalVars, runFaults>>

Noted == [m \in Messages |->
            IF m \in written /\ delivery[m] = "unknown" /\ ~ journalClosed
            THEN "submitted" ELSE delivery[m]]

\* consume and apply: a frame may be answered, may end the conversation or may be wrong.
\* An interactive conversation that ends notes what was written, closes its journal and
\* the input; a machine's lets the writer empty its queue.
ConsumeFrame ==
    /\ protocol = "loop" /\ chunks > 0
    /\ chunks' = chunks - 1
    /\ \/ UNCHANGED <<protocolVars, inputVars, journalVars, runFaults>>
       \/ /\ Queue(Machine)
          /\ UNCHANGED <<finished, writer, stdin, written, closer, journalVars, runFaults>>
       \/ /\ ~ finished /\ finished' = TRUE
          /\ IF Interactive
             THEN /\ delivery' = Noted /\ written' = {} /\ journalClosed' = TRUE
                  /\ inputClosed' = TRUE /\ UNCHANGED outClosed
             ELSE outClosed' = TRUE /\ UNCHANGED <<delivery, written, journalClosed,
                                                   inputClosed>>
          /\ UNCHANGED <<protocol, fault, outbound, writer, stdin, closer, runFaults, sends>>
       \/ /\ Faulty
          /\ EndProtocol(TRUE)
          /\ UNCHANGED <<finished, outbound, writer, stdin, written, closer, journalVars>>
    /\ UNCHANGED <<ownerVars, budgetVars, childVars, stdout, copier, chunksClosed>>

\* The work is cancelled, or the output has ended and every frame of it was consumed.
LeaveLoop ==
    /\ protocol = "loop"
    /\ \/ budget.cancelled /\ EndProtocol(TRUE)
       \/ chunksClosed /\ chunks = 0 /\ EndProtocol(FALSE)
    /\ UNCHANGED <<ownerVars, budgetVars, childVars, outputVars, finished, outbound, writer,
                   stdin, written, closer, journalVars, runFaults>>

\* recordSent
NoteWritten ==
    /\ protocol = "loop" /\ written # {}
    /\ \E m \in written :
         /\ written' = written \ {m}
         /\ delivery' = [delivery EXCEPT ![m] =
               IF @ = "unknown" /\ ~ journalClosed THEN "submitted" ELSE @]
    /\ UNCHANGED <<ownerVars, budgetVars, childVars, outputVars, protocolVars, outbound,
                   outClosed, writer, stdin, inputClosed, closer, journalClosed, runFaults,
                   sends>>

\* Mutant: the attempt is journalled when the provider has the message, not before.
AttemptedLate(m) == delivery

\* NextInteraction: the attempt is journalled before the message leaves the journal.
Attempted(m) == [delivery EXCEPT ![m] = "unknown"]

\* pollInbox and deliver: a queued message goes out, or cannot be encoded.
Deliver ==
    /\ protocol = "loop" /\ Interactive /\ ~ finished /\ ~ journalClosed
    /\ ~ expired
    /\ \E m \in Messages :
         /\ delivery[m] = "queued"
         /\ \/ /\ delivery' = Attempted(m)
               /\ Queue(m)
            \/ /\ delivery' = [delivery EXCEPT ![m] = "rejected"]
               /\ UNCHANGED <<protocol, fault, inputClosed, outClosed, outbound>>
    /\ UNCHANGED <<ownerVars, budgetVars, childVars, outputVars, finished, writer, stdin,
                   written, closer, journalClosed, runFaults, sends>>

\* Past the deadline the inbox is closed, and with it the input; or the deadline passed
\* between the look at the journal and the look at the clock, and the attempt stays.
DeliverLate ==
    /\ protocol = "loop" /\ Interactive /\ ~ finished /\ ~ journalClosed
    /\ expired
    /\ \/ /\ finished' = TRUE /\ inputClosed' = TRUE
          /\ UNCHANGED <<budget, delivery, protocol, fault, outClosed>>
       \/ /\ \E m \in Messages : delivery[m] = "queued" /\ delivery' = Attempted(m)
          /\ budget' = Expire(budget)
          /\ EndProtocol(TRUE)
          /\ UNCHANGED finished
    /\ UNCHANGED <<ownerVars, expired, observer, childVars, outputVars, outbound, writer,
                   stdin, written, closer, journalClosed, runFaults, sends>>

\* SubmitInteraction, by another process, while the run is open to messages.
SubmitMessage(m) ==
    /\ Interactive /\ delivery[m] = "none" /\ ~ journalClosed /\ ~ expired
    /\ provider # "none"
    /\ delivery' = [delivery EXCEPT ![m] = "queued"]
    /\ UNCHANGED <<ownerVars, budgetVars, childVars, outputVars, protocolVars, inputVars,
                   journalClosed, runFaults, sends>>

JoinProtocol ==
    /\ protocol = "ending" /\ writer.at = "done" /\ closer
    /\ protocol' = "done"
    /\ UNCHANGED <<ownerVars, budgetVars, childVars, outputVars, finished, fault, inputVars,
                   journalVars, runFaults>>

-----------------------------------------------------------------------------
(* writeFrames and closeOnCompletion *)

TakeFrame ==
    /\ writer.at = "take"
    /\ \/ /\ outbound # <<>>
          /\ writer' = [at |-> "write", frame |-> Head(outbound)]
          /\ outbound' = Tail(outbound)
       \/ /\ outbound = <<>> /\ outClosed
          /\ writer' = [writer EXCEPT !.at = "done"]
          /\ UNCHANGED outbound
    /\ UNCHANGED <<ownerVars, budgetVars, childVars, outputVars, protocolVars, outClosed,
                   stdin, inputClosed, written, closer, journalVars, runFaults>>

\* The write blocks while the pipe is full, and fails once either end is closed.
WriteFrame ==
    /\ writer.at = "write"
    /\ LET m == writer.frame IN
       \/ /\ ~ inputClosed /\ provider = "running" /\ stdin < Capacity
          /\ stdin' = stdin + 1
          /\ writer' = [writer EXCEPT !.at = IF m = Machine THEN "take" ELSE "report"]
          /\ sends' = IF m = Machine THEN sends ELSE [sends EXCEPT ![m] = @ + 1]
       \/ /\ inputClosed \/ (provider = "exited" /\ ~ orphan)
          /\ writer' = [writer EXCEPT !.at = "done"]
          /\ UNCHANGED <<stdin, sends>>
    /\ UNCHANGED <<ownerVars, budgetVars, childVars, outputVars, protocolVars, outbound,
                   outClosed, inputClosed, written, closer, delivery, journalClosed,
                   runFaults>>

ReportWritten ==
    /\ writer.at = "report"
    /\ \/ /\ Cardinality(written) < Capacity
          /\ written' = written \cup {writer.frame} /\ writer' = [writer EXCEPT !.at = "take"]
       \/ /\ ProtocolDone
          /\ writer' = [writer EXCEPT !.at = "take"] /\ UNCHANGED written
       \/ /\ budget.cancelled
          /\ writer' = [writer EXCEPT !.at = "done"] /\ UNCHANGED written
    /\ UNCHANGED <<ownerVars, budgetVars, childVars, outputVars, protocolVars, outbound,
                   outClosed, stdin, inputClosed, closer, journalVars, runFaults>>

CloseInput ==
    /\ writer.at # "none" /\ ~ closer
    /\ budget.cancelled \/ writer.at = "done"
    /\ closer' = TRUE /\ inputClosed' = TRUE
    /\ UNCHANGED <<ownerVars, budgetVars, childVars, outputVars, protocolVars, outbound,
                   outClosed, writer, stdin, written, journalVars, runFaults>>

-----------------------------------------------------------------------------
RunnerStep ==
    \/ Preflight \/ AuthorizeStart \/ AwaitPrepared \/ StartProvider \/ CloseParents
    \/ Wait \/ FinishCommand \/ JoinCaptures \/ CompleteBudget \/ CompleteIdentity
    \/ AwaitStop \/ CloseTask \/ SealInteraction \/ SealAndPublish \/ ReturnResult
ObserverStep == Observe \/ PrepareExpiry \/ RequestStop
CopierStep == CopyOutput \/ ObserveChunk \/ EndOutput
ProtocolStep ==
    \/ StartProtocol \/ ConsumeFrame \/ LeaveLoop \/ NoteWritten \/ Deliver \/ DeliverLate
    \/ JoinProtocol
WriterStep == TakeFrame \/ WriteFrame \/ ReportWritten

RunNext ==
    \/ RunnerStep \/ ObserverStep \/ CopierStep \/ ProtocolStep \/ WriterStep
    \/ CloseInput \/ DeadlinePasses
    \/ Emit \/ ReadInput \/ Exit
    \/ \E m \in Messages : SubmitMessage(m)

\* Goroutines are scheduled, the deadline comes and a stopped provider ends.  Nothing is
\* assumed of a provider that was not stopped: it may hang, not read and not exit.
\* A provider that was killed ends.
KilledExits == killed /\ Exit

RunFairness ==
    /\ WF_runVars(RunnerStep) /\ WF_runVars(ObserverStep) /\ WF_runVars(CopierStep)
    /\ WF_runVars(ProtocolStep) /\ WF_runVars(WriterStep) /\ WF_runVars(CloseInput)
    /\ WF_runVars(DeadlinePasses) /\ WF_runVars(KilledExits)

RunSpec == RunInit /\ [][RunNext]_runVars /\ RunFairness

-----------------------------------------------------------------------------
(* Properties *)

\* What is sealed is complete and still: the output is captured, the goroutines that
\* could add to it are joined, and a deadline that was observed has its stop recorded.
\* With a lifetime no stop is in flight and nothing of the provider is left.
SealIsQuiet ==
    main \in {"seal", "awaitLast", "returned"} =>
        /\ copier = "closed" /\ provider # "running"
        /\ ~ Plain => protocol = "done" /\ writer.at = "done" /\ closer /\ inputClosed
        /\ budget.completed /\ (budget.expired => budget.prepared)
        /\ mode.lifetime => observer = "done" /\ ~ orphan

\* A message reaches the provider at most once, never without the journal saying that it
\* may have, and the journal says that it did only when it did.
DeliveredOnce ==
    \A m \in Messages :
        /\ sends[m] <= 1
        /\ sends[m] = 1 => delivery[m] \in {"unknown", "submitted"}
        /\ delivery[m] = "submitted" => sends[m] = 1

RunIsSafe == SealIsQuiet /\ DeliveredOnce

Returned == main = "returned" \/ (budget.prepared /\ observer = "done" /\ ~ killed)

\* The run comes to an end, whatever the provider does, unless the stop could not be
\* recorded.
RunReturns == <>Returned
=============================================================================

---------------------------- MODULE ClaudeStream ----------------------------
(***************************************************************************)
(* What the adapter makes of the event stream of a Claude process, under   *)
(* the completion policy recorded with current tasks.  One parser decides, *)
(* from the sealed output, whether the run is committed and with which     *)
(* answer: the caller's own result, or the answer of a later cycle that a  *)
(* background agent's notification started.  The interaction machine reads *)
(* the same events while the process runs, carries questions and replies,  *)
(* and must see the conversation settled before its input may be closed.   *)
(* Events are abstracted to what both of them tell apart.                  *)
(***************************************************************************)
EXTENDS Integers, FiniteSets

CONSTANTS Agents,       \* background agents the process may start
          Questions,    \* native question requests
          MaxResults    \* bound: result events that carry an index

VARIABLES
    parser,    \* eventState with its completionAttribution
    machine,   \* claudeInteraction
    said,      \* what the process really said, for the properties
    ended      \* end of the stream

claudeVars == <<parser, machine, said, ended>>

NoIndex == -1
Indexes == NoIndex..MaxResults
Own == 1
Other == 2
Sessions == {Own, Other}

\* What a result event states: an answer, nothing after no turn at all, nothing after some
\* turns, a failure, or an answer while turns are still queued.
Statements == {"answer", "empty-zero", "empty", "failed", "queued"}
Origins == {"absent", "human", "task-notification", "task-notification/sub"}
Scopes == {"root", "nested", "invalid"}
Stages == {"start", "acknowledged", "reinitialized", "rooted"}
Faults == {"none", "empty", "failed", "incomplete"}

ClaudeTypeOK ==
    /\ parser \in [err : BOOLEAN, session : {0} \cup Sessions, init : {0} \cup Sessions,
                   result : {"none"} \cup Statements, stage : Stages, indexed : BOOLEAN,
                   next : 0..(MaxResults + 1), open : BOOLEAN, cycleInit : BOOLEAN,
                   cycleMessages : BOOLEAN, batch : BOOLEAN, principal : Faults, fault : Faults,
                   selected : Indexes]
    /\ machine \in [fault : BOOLEAN, initialized : BOOLEAN, state : {"", "idle", "running"},
                    result : BOOLEAN, finished : BOOLEAN, agents : SUBSET Agents,
                    pending : [Questions -> {"none", "asked", "answered"}]]
    /\ said.newest \in Indexes /\ ended \in BOOLEAN

Blank == [err |-> FALSE, session |-> 0, init |-> 0, result |-> "none", stage |-> "start",
          indexed |-> FALSE, next |-> 0, open |-> FALSE, cycleInit |-> FALSE,
          cycleMessages |-> FALSE, batch |-> FALSE, principal |-> "none", fault |-> "none",
          selected |-> NoIndex]
Fresh == [fault |-> FALSE, initialized |-> FALSE, state |-> "", result |-> FALSE,
          finished |-> FALSE, agents |-> {}, pending |-> [q \in Questions |-> "none"]]

ClaudeInit ==
    /\ parser = Blank /\ machine = Fresh
    /\ said = [newest |-> NoIndex, faulty |-> FALSE, unanswered |-> FALSE, owed |-> FALSE]
    /\ ended = FALSE

-----------------------------------------------------------------------------
(* The parser: one operator per kind of event *)

\* markSemantic: an error is final, and nothing else matters after it.
Bad(p) == [Blank EXCEPT !.err = TRUE]
Faulted(m) == [Fresh EXCEPT !.fault = TRUE]

\* bindClaudeCurrentSession: the first identity binds all that follow.
Binds(p, s) == (p.session # 0 => p.session = s) /\ (p.init # 0 => p.init = s)
Bound(p, s) == [p EXCEPT !.session = s]

ResultSeen(p) == p.result # "none"

\* resultFault and statedFault
StatedFault(kind) == CASE kind = "answer" -> "none"
                       [] kind \in {"empty", "empty-zero"} -> "empty"
                       [] kind = "failed" -> "failed"
                       [] kind = "queued" -> "incomplete"
CompletionFault(kind) == IF kind = "queued" THEN "incomplete" ELSE "none"
ResultRefusal(kind) == IF kind = "queued" THEN "none" ELSE StatedFault(kind)

\* recordFollowUpFault: the first fault is the one that is kept.
FaultKept(p, fault) == IF p.fault = "none" THEN fault ELSE p.fault


\* decodeInit, sameInit, applyClaudeCurrentSystem, acceptLeadingInit, acceptFollowUpInit
ApplyInit(p, s, same) ==
    IF ~ Binds(p, s) THEN Bad(p)
    ELSE IF ResultSeen(p)
    THEN IF p.cycleInit \/ p.cycleMessages \/ ~ same THEN Bad(p)
         ELSE [Bound(p, s) EXCEPT !.open = TRUE, !.cycleInit = TRUE]
    ELSE IF p.init = 0 THEN [Bound(p, s) EXCEPT !.init = s]
    ELSE IF p.stage # "acknowledged" \/ ~ same THEN Bad(p)
    ELSE [p EXCEPT !.stage = "reinitialized"]

\* applyClaudeCurrentMessageEvent, acceptFollowUpMessage; an ill-formed message is an error
\* wherever it stands.
ApplyMessage(p, scope, wellFormed) ==
    IF scope = "invalid" \/ ~ wellFormed \/ p.init = 0 THEN Bad(p)
    ELSE IF scope = "nested" THEN p
    ELSE IF ResultSeen(p) THEN [p EXCEPT !.open = TRUE, !.cycleMessages = TRUE]
    ELSE [p EXCEPT !.stage = "rooted"]

\* acceptLeadingAcknowledgement: a notification answered before the caller's own turn.
ApplyLeading(p, origin, index, kind) ==
    IF p.init = 0 \/ p.stage = "rooted" \/ origin = "task-notification/sub" \/ index # p.next
       \/ kind \in {"answer", "empty"} THEN Bad(p)
    ELSE [p EXCEPT !.indexed = TRUE, !.next = @ + 1, !.stage = "acknowledged",
             !.fault = IF kind = "empty-zero" THEN p.fault ELSE FaultKept(p, StatedFault(kind))]

\* acceptPrincipal
ApplyPrincipal(p, origin, index, kind) ==
    IF p.init = 0 \/ origin \notin {"absent", "human"} THEN Bad(p)
    ELSE IF p.indexed /\ index # p.next THEN Bad(p)
    ELSE IF ~ p.indexed /\ index \notin {NoIndex, 0} THEN Bad(p)
    ELSE LET counted == p.indexed \/ index = 0
             next == IF p.indexed THEN p.next + 1 ELSE IF index = 0 THEN 1 ELSE 0
         IN [p EXCEPT !.result = kind, !.indexed = counted, !.next = next,
                !.stage = "start", !.principal = CompletionFault(kind),
                !.selected = next - 1]

\* acceptFollowUp: an empty result of no turns belongs to a batch whose answer is still to come.
ApplyFollowUpAnyway(p, origin, index, kind) ==
    IF ~ p.indexed \/ index # p.next \/ origin # "task-notification" THEN Bad(p)
    ELSE IF kind = "empty-zero" THEN [p EXCEPT !.next = @ + 1]
    ELSE [p EXCEPT !.next = @ + 1, !.open = FALSE, !.cycleInit = FALSE,
            !.cycleMessages = FALSE, !.batch = FALSE,
            !.fault = CASE kind = "answer" -> @
                        [] kind = "empty" -> FaultKept(p, "incomplete")
                        [] OTHER -> FaultKept(p, StatedFault(kind)),
            !.selected = IF kind = "answer" THEN p.next ELSE @]
ApplyFollowUp(p, origin, index, kind) ==
    IF ~ p.indexed \/ index # p.next \/ origin # "task-notification" THEN Bad(p)
    ELSE IF kind = "empty-zero" THEN [p EXCEPT !.next = @ + 1, !.batch = TRUE]
    ELSE [p EXCEPT !.next = @ + 1, !.open = FALSE, !.cycleInit = FALSE,
            !.cycleMessages = FALSE, !.batch = FALSE,
            !.fault = CASE kind = "answer" -> @
                        [] kind = "empty" -> FaultKept(p, "incomplete")
                        [] OTHER -> FaultKept(p, StatedFault(kind)),
            !.selected = IF kind = "answer" THEN p.next ELSE @]

\* applyClaudeCompletionEvent routes a result to the place it may have in the stream.
ApplyResult(p, origin, index, kind) ==
    IF ResultSeen(p) THEN ApplyFollowUp(p, origin, index, kind)
    ELSE IF origin \in {"task-notification", "task-notification/sub"}
    THEN ApplyLeading(p, origin, index, kind)
    ELSE ApplyPrincipal(p, origin, index, kind)

\* completionAttribution.finish
AtEndOfStream(p) ==
    IF p.err \/ ~ ResultSeen(p) THEN p
    ELSE IF p.open THEN Bad(p)
    ELSE IF p.batch THEN [p EXCEPT !.fault = FaultKept(p, "incomplete")] ELSE p

\* refusalForProvider, for a process that ended well
Refusal(p) ==
    IF p.err \/ p.init = 0 THEN "invalid-output"
    ELSE IF p.init # Own THEN "identity-mismatch"
    ELSE IF ~ ResultSeen(p) THEN IF p.fault # "none" THEN p.fault ELSE "incomplete"
    ELSE IF ResultRefusal(p.result) # "none" THEN ResultRefusal(p.result)
    ELSE IF p.principal # "none" THEN p.principal ELSE p.fault
Committed(p) == Refusal(p) = "none"

-----------------------------------------------------------------------------
(* The interaction machine *)

Pending(m) == {q \in Questions : m.pending[q] # "none"}

\* isFinished
Settled(p, m) == /\ m.result /\ ~ p.open /\ ~ p.batch /\ m.agents = {} /\ Pending(m) = {}
                 /\ m.state \in {"", "idle"}
Finish(p, m) == [m EXCEPT !.finished = @ \/ Settled(p, m)]

\* observeCurrentEvent: nothing is tracked of an event that the parser refused.
Observe(p, m) == IF p.err \/ m.fault THEN Faulted(m) ELSE Finish(p, m)

\* settleAgent: the report of an agent that settled is still to come.
SettleOnly(m, a) == [m EXCEPT !.agents = @ \ {a}]
SettleAgent(m, a) == IF a \in m.agents THEN [m EXCEPT !.agents = @ \ {a}, !.result = FALSE] ELSE m

\* resolveCurrentToolResults and cancelNativeQuestion
Resolve(m, q) == [m EXCEPT !.pending[q] = "none"]

\* Complete and interactionStreamComplete
InteractionComplete(p, m) == ~ m.fault /\ m.finished /\ m.result /\ ~ p.err /\ Settled(p, m)

-----------------------------------------------------------------------------
(* Events *)

Reading == ~ ended /\ ~ parser.err
Listening == Reading /\ ~ machine.fault

\* initializeResponse: the brief is sent when the process has answered the handshake.
ReceiveInitialized ==
    /\ Listening
    /\ machine' = IF machine.initialized THEN Faulted(machine)
                  ELSE [machine EXCEPT !.initialized = TRUE]
    /\ UNCHANGED <<parser, said, ended>>

ReceiveInit(s, same) ==
    /\ Reading
    /\ parser' = ApplyInit(parser, s, same)
    /\ machine' = LET m == Observe(parser', machine) IN
                  IF parser.init = 0 /\ parser'.init = Other THEN Faulted(m) ELSE m
    /\ said' = [said EXCEPT !.unanswered = @ \/ ResultSeen(parser)]
    /\ UNCHANGED ended

ReceiveMessage(scope, wellFormed) ==
    /\ Reading
    /\ parser' = ApplyMessage(parser, scope, wellFormed)
    /\ machine' = Observe(parser', machine)
    /\ said' = [said EXCEPT !.unanswered = @ \/ (scope = "root" /\ ResultSeen(parser))]
    /\ UNCHANGED ended

\* A tool result of the root conversation resolves the question it answers.
ReceiveToolResult(q, scope) ==
    /\ Reading
    /\ parser' = ApplyMessage(parser, scope, TRUE)
    /\ machine' = Observe(parser', IF scope = "root" THEN Resolve(machine, q) ELSE machine)
    /\ said' = [said EXCEPT !.unanswered = @ \/ (scope = "root" /\ ResultSeen(parser))]
    /\ UNCHANGED ended

ReceiveResult(origin, index, kind) ==
    /\ Reading /\ parser.next <= MaxResults
    /\ parser' = ApplyResult(parser, origin, index, kind)
    /\ machine' = Observe(parser', [machine EXCEPT !.result = @ \/ ResultSeen(parser')])
    /\ said' = LET whole == kind \in {"answer", "failed", "queued", "empty"} IN
               [newest |-> IF kind = "answer" THEN parser'.next - 1 ELSE said.newest,
                faulty |-> said.faulty \/ kind \in {"failed", "queued", "empty"}
                             \/ (kind = "empty-zero" /\ ~ ResultSeen(parser) /\ origin \in {"absent", "human"}),
                unanswered |-> ~ whole /\ (said.unanswered \/ ResultSeen(parser)),
                owed |-> FALSE]
    /\ UNCHANGED ended

\* trackCurrentSystem
ReceiveSessionState(state) ==
    /\ Listening
    /\ machine' = Finish(parser, [machine EXCEPT !.state = state])
    /\ UNCHANGED <<parser, said, ended>>

ReceiveAgentStarted(a) ==
    /\ Listening
    /\ machine' = [machine EXCEPT !.agents = @ \cup {a}]
    /\ UNCHANGED <<parser, said, ended>>

ReceiveAgentSettled(a) ==
    /\ Listening
    /\ machine' = Finish(parser, SettleAgent(machine, a))
    /\ said' = [said EXCEPT !.owed = @ \/ a \in machine.agents]
    /\ UNCHANGED <<parser, ended>>

\* questionRequestValue; any other control request is denied without a trace.
ReceiveQuestion(q) ==
    /\ Listening
    /\ machine' = IF parser.init = 0 \/ machine.finished \/ machine.pending[q] # "none"
                  THEN Faulted(machine)
                  ELSE [machine EXCEPT !.pending[q] = "asked"]
    /\ UNCHANGED <<parser, said, ended>>

ReceiveCancel(q) ==
    /\ Listening
    /\ machine' = Resolve(machine, q)
    /\ UNCHANGED <<parser, said, ended>>

\* Encode
EncodeReply(q) ==
    /\ Listening /\ ~ machine.finished /\ machine.pending[q] # "none"
    /\ machine' = [machine EXCEPT !.pending[q] = "answered"]
    /\ UNCHANGED <<parser, said, ended>>

\* A top-level error, an unknown lifecycle event, a line that is no event.
ReceiveAmbiguous ==
    /\ Reading
    /\ parser' = Bad(parser) /\ machine' = Faulted(machine)
    /\ UNCHANGED <<said, ended>>

EndOfStream ==
    /\ ~ ended
    /\ ended' = TRUE /\ parser' = AtEndOfStream(parser)
    /\ UNCHANGED <<machine, said>>

ClaudeNext ==
    \/ ReceiveInitialized \/ ReceiveAmbiguous \/ EndOfStream
    \/ \E s \in Sessions, same \in BOOLEAN : ReceiveInit(s, same)
    \/ \E scope \in Scopes, wellFormed \in BOOLEAN : ReceiveMessage(scope, wellFormed)
    \/ \E q \in Questions, scope \in {"root", "nested"} : ReceiveToolResult(q, scope)
    \/ \E origin \in Origins, index \in Indexes, kind \in Statements : ReceiveResult(origin, index, kind)
    \/ \E state \in {"idle", "running"} : ReceiveSessionState(state)
    \/ \E a \in Agents : ReceiveAgentStarted(a) \/ ReceiveAgentSettled(a)
    \/ \E q \in Questions : ReceiveQuestion(q) \/ ReceiveCancel(q) \/ EncodeReply(q)

ClaudeSpec == ClaudeInit /\ [][ClaudeNext]_claudeVars

-----------------------------------------------------------------------------
(* Properties *)

\* A run is committed only if the process stated no failure anywhere in its output, left no
\* turn and no notified agent without a result, and the answer that is kept is the last one it gave.
CommitIsWhole ==
    (ended /\ Committed(parser)) =>
        /\ ~ said.faulty /\ ~ said.unanswered
        /\ parser.indexed => parser.selected = said.newest
        /\ parser.session = Own

\* An interactive run is committed only when nothing is left to wait for: no agent works, no
\* question is open, and every agent that settled was followed by a result.
ConversationSettled ==
    (ended /\ Committed(parser) /\ InteractionComplete(parser, machine)) =>
        machine.agents = {} /\ Pending(machine) = {} /\ ~ said.owed

ClaudeIsTrue == CommitIsWhole /\ ConversationSettled
=============================================================================

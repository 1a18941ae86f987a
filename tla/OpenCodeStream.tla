--------------------------- MODULE OpenCodeStream ---------------------------
(***************************************************************************)
(* What the adapter makes of the output of an OpenCode process.  A task    *)
(* speaks the Agent Client Protocol with it: one reducer follows the       *)
(* frames live, sending the next request, and is replayed over the sealed  *)
(* frames without sending anything.  Older tasks ran `opencode run`, whose *)
(* events are only read once sealed, by one of four revisions.  In both    *)
(* the answer is copied in a later pass over the stream than the one that  *)
(* accepted it, so that what is copied must be found again by position.    *)
(***************************************************************************)
EXTENDS Integers, SequencesExt

CONSTANTS MessageIds,   \* identities of root answer messages
          Settings,     \* number of session settings a task asks for
          MaxChunks,    \* bound: chunks of an answer
          MaxEvents     \* bound: events of a run

VARIABLES
    dialect,    \* "acp" or "run"
    expected,   \* session to be resumed, 0 for a new one
    agent,      \* the live acpSession
    replayed,   \* acpSession of the interpreter
    steps,      \* eventState of each revision of `opencode run`
    log,        \* root chunks of the prompt, or the events: what a second pass reads
    recorded,   \* session identity recorded while the task ran
    uttered,    \* what the process really did, for the properties
    outcome     \* provider exit record, once written

openCodeVars == <<dialect, expected, agent, replayed, steps, log, recorded, uttered, outcome>>

Sessions == {1, 2}
Absent == "absent"
MalformedId == "malformed"
RunRevisions == {"historical", "strict", "v4", "current"}

\* newACPSession and begin: the first request is out.  nextID is always pending + 1 until the end.
NewSession == [fault |-> "", phase |-> "initializing", pending |-> 1, applied |-> 0,
               terminal |-> "none", session |-> 0]
\* eventState
NewSteps == [bad |-> FALSE, session |-> 0, started |-> FALSE, active |-> FALSE, had |-> FALSE,
             terminal |-> FALSE, fail |-> FALSE, text |-> "none", final |-> "none",
             start |-> 0, first |-> 0, last |-> 0]

OpenCodeInit ==
    /\ dialect \in {"acp", "run"} /\ expected \in {0, 1}
    /\ agent = NewSession /\ replayed = NewSession
    /\ steps = [v \in RunRevisions |-> NewSteps]
    /\ log = <<>> /\ recorded = 0
    /\ uttered = [over |-> FALSE, failed |-> FALSE]
    /\ outcome = "open"

OpenCodeTypeOK ==
    /\ \A s \in {agent, replayed} :
          /\ s.phase \in {"initializing", "opening", "configuring", "prompting", "terminal"}
          /\ s.pending \in 0..(Settings + 3) /\ s.applied \in 0..Settings
          /\ s.session \in {0} \cup Sessions
    /\ \A v \in RunRevisions : steps[v].last \in 0..MaxEvents /\ steps[v].text \in {"none", "blank", "word"}
    /\ Len(log) <= (IF dialect = "acp" THEN MaxChunks ELSE MaxEvents) /\ recorded \in {0} \cup Sessions
    /\ outcome \in {"open", "success", "failure"}

-----------------------------------------------------------------------------
(* The reducer of the Agent Client Protocol *)

Faulted(why) == [NewSession EXCEPT !.fault = why]

AcpSend(s, phase) == [s EXCEPT !.phase = phase, !.pending = @ + 1]
AcpFinish(s, terminal) == [s EXCEPT !.phase = "terminal", !.terminal = terminal, !.pending = 0]

\* response: only the outstanding request can be answered
AcpResponse(s, id, failed, handled) ==
    IF id # s.pending THEN Faulted("protocol")
    ELSE IF failed THEN AcpFinish(s, "native") ELSE handled

Initialized(s, version, resume) ==
    IF ~ version \/ (expected # 0 /\ ~ resume) THEN Faulted("protocol") ELSE AcpSend(s, "opening")

Advance(s) == AcpSend(s, IF s.applied < Settings THEN "configuring" ELSE "prompting")
Opened(s, named, recordFails) ==
    LET id == IF named # 0 THEN named ELSE expected IN
    IF id = 0 THEN Faulted("protocol")
    ELSE IF expected # 0 /\ id # expected THEN Faulted("identity")
    ELSE IF recordFails THEN Faulted("record")
    ELSE Advance([s EXCEPT !.session = id])

\* configured: a response must acknowledge every setting applied so far, and none twice
Configured(s, acknowledged, twice) ==
    IF twice THEN Faulted("protocol")
    ELSE IF ~ (1..(s.applied + 1) \subseteq acknowledged) THEN AcpFinish(s, "unacknowledged")
    ELSE Advance([s EXCEPT !.applied = @ + 1])

Prompted(s, ended) == AcpFinish(s, IF ended THEN "end_turn" ELSE "stopped")

\* notification and rootText
AcpUpdate(s, session, child) ==
    IF s.session = 0 \/ session # s.session THEN Faulted("identity")
    ELSE IF ~ child /\ s.phase # "prompting" THEN Faulted("protocol") ELSE s

\* agentRequest and permission: a write task must be able to allow, a read-only one cancels
AcpRequest(s, permission, session, allowable) ==
    IF s.phase = "terminal" THEN Faulted("protocol")
    ELSE IF ~ permission THEN s
    ELSE IF s.phase # "prompting" THEN Faulted("protocol")
    ELSE IF session # s.session THEN Faulted("identity")
    ELSE IF ~ allowable THEN Faulted("protocol") ELSE s

AcpCompletion(s) == s.fault = "" /\ s.terminal = "end_turn"
IdentityMatches(session) ==
    session # 0 /\ expected \in {0, session} /\ recorded \in {0, session}

-----------------------------------------------------------------------------
(* Selection of the answer: acpMessageRuns over the chunks of the prompt *)

NoRuns == [runs |-> 0, last |-> Absent, nonblank |-> FALSE, unavailable |-> FALSE,
           malformed |-> FALSE, repeated |-> FALSE, streamed |-> <<>>]

\* observe: a run is a maximal block of chunks with one identity
ObserveForgetful(f, id, target) ==
    IF f.runs > 0 /\ id = f.last THEN f
    ELSE [f EXCEPT !.runs = @ + 1, !.last = id, !.nonblank = FALSE]
Observe(f, id, target) ==
    IF f.runs > 0 /\ id = f.last THEN f
    ELSE [f EXCEPT !.runs = @ + 1, !.last = id, !.nonblank = FALSE,
                   !.repeated = @ \/ (f.runs + 1 < target.runs /\ id = target.final)]
Message(f, id, target) ==
    CASE id = Absent -> [f EXCEPT !.unavailable = TRUE]
      [] id = MalformedId -> [f EXCEPT !.malformed = TRUE]
      [] OTHER -> Observe(f, id, target)
Streams(f, target) == target.scope = "whole" \/ (target.scope = "run" /\ f.runs = target.runs)
AddText(f, position, text, target) ==
    IF text = "none" THEN f
    ELSE [f EXCEPT !.nonblank = @ \/ text = "word",
                   !.streamed = IF Streams(f, target) THEN Append(@, position) ELSE @]

\* One pass over the chunks, replayFinalRun
Pass(target) ==
    FoldLeft(LAMBDA f, p : AddText(Message(f, log[p].id, target), p, log[p].text, target),
             NoRuns, [p \in 1..Len(log) |-> p])

SurveyTarget == [runs |-> 0, final |-> Absent, scope |-> "none"]
Survey == Pass(SurveyTarget)
CheckTarget == [runs |-> Survey.runs, final |-> Survey.last, scope |-> "none"]
AcpSelectAnswer(f) == IF f.unavailable \/ f.repeated THEN "whole" ELSE "run"
AnyWord == \E p \in DOMAIN log : log[p].text = "word"

\* evaluateFinalRun, where <<>> stands for a refusal, and evaluateWholeTurn
FinalRun ==
    LET check == Pass(CheckTarget)
        scope == AcpSelectAnswer(check)
        nonblank == IF scope = "whole" THEN AnyWord ELSE check.nonblank
    IN IF Survey.malformed \/ ~ nonblank THEN <<>> ELSE Pass([CheckTarget EXCEPT !.scope = scope]).streamed
WholeTurn == IF AnyWord THEN SelectSeq([p \in 1..Len(log) |-> p], LAMBDA p : log[p].text # "none") ELSE <<>>

AcpTurn == outcome = "success" /\ AcpCompletion(replayed) /\ IdentityMatches(replayed.session)
AcpCommitted == AcpTurn /\ FinalRun # <<>>
AcpV1Committed == AcpTurn /\ WholeTurn # <<>>

-----------------------------------------------------------------------------
(* Events of `opencode run` *)

BadSteps == [NewSteps EXCEPT !.bad = TRUE]
AfterTerminal(v) == v \in {"v4", "current"}
EmptyRestart(v) == v = "current"

\* applyOpenCodeCurrentEvent, applyEvent
OnSession(v, r, session, handled) ==
    IF (r.terminal /\ ~ AfterTerminal(v)) \/ r.session \notin {0, session} THEN BadSteps
    ELSE [handled EXCEPT !.session = IF handled.bad THEN @ ELSE session]

StepStartSticky(v, r, at) ==
    IF r.active /\ (r.had \/ ~ EmptyRestart(v)) THEN BadSteps
    ELSE [r EXCEPT !.started = TRUE, !.active = TRUE, !.had = FALSE, !.text = "none", !.start = at]
StepStart(v, r, at) ==
    IF r.active /\ (r.had \/ ~ EmptyRestart(v)) THEN BadSteps
    ELSE [r EXCEPT !.started = TRUE, !.active = TRUE, !.terminal = FALSE, !.had = FALSE,
                   !.text = "none", !.start = at]
StepText(r, text) ==
    IF ~ r.active THEN BadSteps
    ELSE [r EXCEPT !.had = TRUE, !.text = IF text = "word" \/ @ = "none" THEN text ELSE @]
StepOther(r) == IF ~ r.active THEN BadSteps ELSE [r EXCEPT !.had = TRUE]

\* Usage that cannot be read is fatal to the historical revision only.
StepFinish(v, r, stop, usage, at) ==
    IF ~ r.active \/ (v = "historical" /\ ~ usage) THEN BadSteps
    ELSE IF ~ stop THEN [r EXCEPT !.active = FALSE]
    ELSE [r EXCEPT !.active = FALSE, !.terminal = TRUE, !.final = r.text, !.first = r.start, !.last = at]

\* An error without details is an error to the later revisions only.
StepError(v, r, named) == IF v = "historical" /\ ~ named THEN BadSteps ELSE [r EXCEPT !.fail = TRUE]

\* refusalFor
RunCommitted(v) ==
    LET r == steps[v] IN
    /\ outcome = "success" /\ ~ r.bad /\ ~ r.fail /\ r.started /\ IdentityMatches(r.session)
    /\ r.terminal /\ r.final = "word"

\* copyOpenCodeCurrentAnswer copies the step; the historical revision wrote all it had gathered.
CopyAnswer(v) ==
    SelectSeq([p \in 1..Len(log) |-> p],
              LAMBDA p : /\ log[p] \in {"word", "blank"} /\ p <= steps[v].last
                         /\ v = "historical" \/ p >= steps[v].first)

-----------------------------------------------------------------------------
(* The stream *)

\* receive: the first fault of a session is final, and a stream with a fault is never read again
Receive(Apply(_), chunk) ==
    /\ dialect = "acp" /\ outcome = "open" /\ replayed.fault = ""
    /\ agent' = IF agent.fault = "" THEN Apply(agent) ELSE agent
    /\ replayed' = Apply(replayed)
    /\ log' = IF replayed'.fault = "" THEN log \o chunk ELSE <<>>
    /\ UNCHANGED <<dialect, expected, steps, outcome>>

Respond(id, failed, Apply(_)) == Receive(LAMBDA s : AcpResponse(s, id, failed, Apply(s)), <<>>)

InPhase(phase) == replayed.phase = phase
AnswerInitialize(id, failed, version, resume) ==
    /\ InPhase("initializing")
    /\ Respond(id, failed, LAMBDA s : Initialized(s, version, resume))
    /\ UNCHANGED <<recorded, uttered>>

\* The identity is recorded by the live session only, before its next request.
AnswerOpen(id, failed, named, recordFails) ==
    LET after == AcpResponse(agent, id, failed, Opened(agent, named, recordFails)) IN
    /\ InPhase("opening") /\ dialect = "acp" /\ outcome = "open" /\ replayed.fault = ""
    /\ agent' = IF agent.fault = "" THEN after ELSE agent
    /\ replayed' = AcpResponse(replayed, id, failed, Opened(replayed, named, FALSE))
    /\ recorded' = IF agent.fault = "" THEN after.session ELSE recorded
    /\ UNCHANGED <<dialect, expected, steps, log, uttered, outcome>>

AnswerSetting(id, failed, acknowledged, twice) ==
    /\ InPhase("configuring")
    /\ Respond(id, failed, LAMBDA s : Configured(s, acknowledged, twice))
    /\ uttered' = [uttered EXCEPT !.failed = @ \/ failed \/ ~ (1..(replayed.applied + 1) \subseteq acknowledged)]
    /\ UNCHANGED recorded

AnswerPrompt(id, failed, ended) ==
    /\ InPhase("prompting")
    /\ Respond(id, failed, LAMBDA s : Prompted(s, ended))
    /\ uttered' = [over |-> TRUE, failed |-> uttered.failed \/ failed \/ ~ ended]
    /\ UNCHANGED recorded

\* A response when nothing was asked.
AnswerNothing(id) ==
    /\ InPhase("terminal")
    /\ Respond(id, FALSE, LAMBDA s : s)
    /\ UNCHANGED <<recorded, uttered>>

UpdateSession(session, child, id, text) ==
    /\ Len(log) < MaxChunks
    /\ Receive(LAMBDA s : AcpUpdate(s, session, child), IF child THEN <<>> ELSE <<[id |-> id, text |-> text]>>)
    /\ uttered' = [uttered EXCEPT !.failed = @ \/ (uttered.over /\ ~ child)]
    /\ UNCHANGED recorded

RequestOf(permission, session, allowable) ==
    /\ Receive(LAMBDA s : AcpRequest(s, permission, session, allowable), <<>>)
    /\ UNCHANGED <<recorded, uttered>>

\* A line that is no frame, or a frame that is not well formed.
NoFrame == Receive(LAMBDA s : Faulted("protocol"), <<>>) /\ UNCHANGED <<recorded, uttered>>

\* One event is read by every revision; the identity observer records the first session.
ReadEvent(session, entry, Apply(_, _)) ==
    /\ dialect = "run" /\ outcome = "open" /\ Len(log) < MaxEvents
    /\ \E v \in RunRevisions : ~ steps[v].bad
    /\ steps' = [v \in RunRevisions |-> IF steps[v].bad THEN steps[v]
                                        ELSE OnSession(v, steps[v], session, Apply(v, steps[v]))]
    /\ log' = Append(log, entry)
    /\ recorded' = IF log = <<>> /\ expected \in {0, session} THEN session ELSE recorded
    /\ UNCHANGED <<dialect, expected, agent, replayed, outcome>>

ReadStepStart(session) ==
    /\ ReadEvent(session, "-", LAMBDA v, r : StepStart(v, r, Len(log) + 1))
    /\ uttered' = [uttered EXCEPT !.over = FALSE]
ReadText(session, text) ==
    ReadEvent(session, text, LAMBDA v, r : StepText(r, text)) /\ UNCHANGED uttered
ReadOther(session) == ReadEvent(session, "-", LAMBDA v, r : StepOther(r)) /\ UNCHANGED uttered
ReadStepFinish(session, stop, usage) ==
    /\ ReadEvent(session, "-", LAMBDA v, r : StepFinish(v, r, stop, usage, Len(log) + 1))
    /\ uttered' = [uttered EXCEPT !.over = stop]
ReadRunError(session, named) ==
    /\ ReadEvent(session, "-", LAMBDA v, r : StepError(v, r, named))
    /\ uttered' = [uttered EXCEPT !.failed = TRUE]
ReadNoEvent == ReadEvent(1, "-", LAMBDA v, r : BadSteps) /\ UNCHANGED uttered

OpenCodeSeal(success) ==
    /\ outcome = "open"
    /\ outcome' = IF success THEN "success" ELSE "failure"
    /\ UNCHANGED <<dialect, expected, agent, replayed, steps, log, recorded, uttered>>

Ids == {replayed.pending, 1}

OpenCodeNext ==
    \/ \E id \in Ids, failed \in BOOLEAN :
          \/ \E version, resume \in BOOLEAN : AnswerInitialize(id, failed, version, resume)
          \/ \E named \in {0} \cup Sessions, recordFails \in BOOLEAN : AnswerOpen(id, failed, named, recordFails)
          \/ \E acknowledged \in SUBSET (1..Settings), twice \in BOOLEAN :
                AnswerSetting(id, failed, acknowledged, twice)
          \/ \E ended \in BOOLEAN : AnswerPrompt(id, failed, ended)
    \/ AnswerNothing(1)
    \/ \E session \in Sessions, child \in BOOLEAN, id \in MessageIds \cup {Absent, MalformedId},
          text \in {"none", "blank", "word"} : UpdateSession(session, child, id, text)
    \/ \E permission, allowable \in BOOLEAN, session \in Sessions : RequestOf(permission, session, allowable)
    \/ NoFrame
    \/ \E session \in Sessions :
          \/ ReadStepStart(session) \/ ReadOther(session)
          \/ \E text \in {"blank", "word"} : ReadText(session, text)
          \/ \E stop, usage \in BOOLEAN : ReadStepFinish(session, stop, usage)
          \/ \E named \in BOOLEAN : ReadRunError(session, named)
    \/ ReadNoEvent
    \/ \E success \in BOOLEAN : OpenCodeSeal(success)

OpenCodeSpec == OpenCodeInit /\ [][OpenCodeNext]_openCodeVars

-----------------------------------------------------------------------------
(* Properties *)

\* What a reader of the chunks would call the last message: the chunks after the last one that
\* bears another identity.
LastMessage == {p \in DOMAIN log : \A q \in p..Len(log) : log[q].id = log[Len(log)].id}
Unclear == \/ \E p \in DOMAIN log : log[p].id = Absent
           \/ \E p \in DOMAIN log \ LastMessage : log[p].id = log[Len(log)].id
Texts(positions) == {p \in positions : log[p].text # "none"}

\* The three passes of acp-v2 over the stream copy exactly the last message, in order, or all
\* root text when the chunks do not tell which that is; and acp-v1 committed whatever it commits.
SelectionIsTrue ==
    (dialect = "acp" /\ AcpCommitted) =>
        /\ ToSet(FinalRun) = Texts(IF Unclear THEN DOMAIN log ELSE LastMessage)
        /\ \A i, j \in DOMAIN FinalRun : i < j => FinalRun[i] < FinalRun[j]
        /\ \E p \in ToSet(FinalRun) : log[p].text = "word"
        /\ AcpV1Committed

\* A turn is committed only if the prompt was answered once, all settings held, and nothing was
\* said after the end; a live session that met no fault of its own judged the turn alike.
TurnIsWhole ==
    /\ (dialect = "acp" /\ AcpCommitted) => uttered.over /\ ~ uttered.failed /\ replayed.applied = Settings
    /\ (dialect = "acp" /\ agent.fault # "record") =>
          (AcpCompletion(agent) <=> AcpCompletion(replayed)) /\ agent.session = replayed.session

\* A run is committed only in the last step that was started, if that stopped and no error was
\* reported, with the text of that step; later revisions commit what earlier ones did, and copy
\* the same text, but for the oldest, whose answer only ends with that text.
RunIsTrue ==
    dialect = "run" =>
        /\ \A v \in RunRevisions : RunCommitted(v) =>
              /\ uttered.over /\ ~ uttered.failed
              /\ \E p \in ToSet(CopyAnswer(v)) : log[p] = "word"
              /\ \A w \in RunRevisions \ {"historical"} : RunCommitted(w) => IsSuffix(CopyAnswer(w), CopyAnswer(v))
        /\ RunCommitted("historical") => RunCommitted("strict")
        /\ RunCommitted("strict") => RunCommitted("v4")
        /\ RunCommitted("v4") => RunCommitted("current")

OpenCodeIsTrue == SelectionIsTrue /\ TurnIsWhole /\ RunIsTrue
=============================================================================

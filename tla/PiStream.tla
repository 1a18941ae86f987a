------------------------------ MODULE PiStream ------------------------------
(***************************************************************************)
(* What the adapter makes of the event stream of a Pi process, read once   *)
(* it is sealed.  A process works in cycles, each of turns, each of        *)
(* messages; when a cycle fails Pi may retry it by itself, and a follow-up *)
(* may start another.  The answer is the last turn of the last cycle, so   *)
(* what is said after a cycle's end decides whether there is an answer.    *)
(* Two revisions read the stream: the current one also reads the outcome   *)
(* fields of Pi, and may recover what the earlier one refused.             *)
(***************************************************************************)
EXTENDS Integers

CONSTANTS Texts         \* nonblank assistant texts

VARIABLES
    parsers,    \* eventState of each revision
    told,       \* what the process really said, for the properties
    exit        \* provider exit record, once written

piVars == <<parsers, told, exit>>

Versions == {"prior", "outcome"}
BlankText == "blank"
NoText == "none"
AllTexts == Texts \cup {BlankText}
Stops == {"stop", "toolUse", "failed"}
\* An outcome field of Pi: absent or without a failure, a stated failure, or neither (it is no
\* boolean, is given twice or under another spelling)
Says == {"well", "failed", "malformed"}

\* What beginPiCurrentCycle resets
NewCycle == [agent |-> "none", turn |-> "none", open |-> FALSE, last |-> NoText, lastStop |-> "",
             text |-> NoText, stop |-> "", error |-> FALSE, answer |-> NoText,
             fail |-> FALSE, retry |-> FALSE, refused |-> FALSE]
NewParser == [bad |-> FALSE, session |-> FALSE, sticky |-> FALSE, settled |-> FALSE, cycle |-> NewCycle]

PiInit ==
    /\ parsers = [v \in Versions |-> NewParser]
    /\ told = [newest |-> NoText, ended |-> FALSE, error |-> FALSE, failure |-> FALSE,
               outcome |-> FALSE, malformed |-> FALSE, waiting |-> FALSE, info |-> FALSE]
    /\ exit = "open"

PiTypeOK ==
    /\ \A v \in Versions :
          /\ parsers[v].cycle.agent \in {"none", "started", "ended"}
          /\ parsers[v].cycle.turn \in {"none", "started", "ended"}
          /\ parsers[v].cycle.answer \in AllTexts \cup {NoText}
          /\ parsers[v].bad \in BOOLEAN /\ parsers[v].settled \in BOOLEAN
    /\ exit \in {"open", "success", "failure"}

-----------------------------------------------------------------------------
(* One operator per event: the parser it leaves *)

Broken == [NewParser EXCEPT !.bad = TRUE]

\* applyPiCurrentEvent: after agent_settled there is nothing to say, and after agent_end only
\* another agent_start begins a cycle.
Accept(p, outside, inside) ==
    IF p.settled THEN Broken ELSE IF p.cycle.agent = "ended" THEN outside ELSE inside
InCycle(p, allowed, next) == Accept(p, Broken, IF allowed THEN [p EXCEPT !.cycle = next] ELSE Broken)

\* The first cycle and each further one need a session.
SessionRead(p) == Accept(p, Broken, IF p.session \/ p.cycle.agent # "none" THEN Broken
                                    ELSE [p EXCEPT !.session = TRUE])
AgentStart(p) ==
    LET begun == [NewCycle EXCEPT !.agent = "started", !.fail = p.sticky] IN
    Accept(p, [p EXCEPT !.cycle = begun],
           IF ~ p.session \/ p.cycle.agent # "none" THEN Broken
           ELSE [p EXCEPT !.cycle.agent = "started"])

TurnStart(p) ==
    LET c == p.cycle
        again == [c EXCEPT !.text = NoText, !.stop = "", !.error = FALSE, !.last = NoText, !.lastStop = ""]
    IN InCycle(p, c.agent = "started" /\ c.turn # "started",
               [(IF c.turn = "ended" THEN again ELSE c) EXCEPT !.turn = "started"])

MessageStart(p) == InCycle(p, p.cycle.turn = "started" /\ ~ p.cycle.open, [p.cycle EXCEPT !.open = TRUE])
MessageUpdate(p) == InCycle(p, p.cycle.turn = "started", p.cycle)
MessageEnd(p, assistant, text, stop, error) ==
    LET c == p.cycle IN
    InCycle(p, c.turn = "started" /\ c.open,
            IF ~ assistant THEN [c EXCEPT !.open = FALSE]
            ELSE [c EXCEPT !.open = FALSE, !.fail = @ \/ error \/ stop = "failed",
                           !.last = text, !.lastStop = stop])

\* A turn must end as its last message did.
TurnEnd(p, text, stop, error) ==
    LET c == p.cycle IN
    InCycle(p, c.turn = "started" /\ ~ c.open /\ c.last \in {NoText, text} /\ c.lastStop \in {"", stop},
            [c EXCEPT !.turn = "ended", !.text = text, !.stop = stop, !.error = error,
                      !.fail = @ \/ error \/ stop = "failed"])

\* A cycle must end as its last turn did.
AgentEndUnchecked(p, text, stop, error) ==
    LET c == p.cycle IN
    InCycle(p, c.turn = "ended" /\ stop # "toolUse",
            [c EXCEPT !.agent = "ended", !.fail = @ \/ error \/ stop = "failed",
                      !.answer = IF stop = "stop" THEN text ELSE @])
AgentEnd(p, text, stop, error) ==
    LET c == p.cycle IN
    InCycle(p, c.turn = "ended" /\ stop = c.stop /\ text = c.text /\ error = c.error /\ stop # "toolUse",
            [c EXCEPT !.agent = "ended", !.fail = @ \/ error \/ stop = "failed",
                      !.answer = IF stop = "stop" THEN text ELSE @])

RetryStart(p) ==
    Accept(p, IF p.cycle.retry THEN Broken ELSE [p EXCEPT !.cycle.retry = TRUE], Broken)

\* applyPiCurrentRetryOutcome and applyPiCurrentSettledOutcome read what Pi says of itself: the
\* earlier revision does not select the field, the current one refuses a malformed one.
Outcome(v, p, said) ==
    IF v = "outcome" /\ said = "malformed" THEN Broken
    ELSE [p EXCEPT !.cycle.refused = @ \/ (v = "outcome" /\ said = "failed")]
RetryEnd(v, p, said) ==
    Accept(p, IF ~ p.cycle.fail /\ ~ p.cycle.retry THEN Broken ELSE Outcome(v, p, said),
           IF p.cycle.agent # "started" THEN Broken ELSE Outcome(v, p, said))
SettledRead(v, p, said) == Accept(p, Outcome(v, [p EXCEPT !.settled = TRUE], said), Broken)

\* An error of the process is remembered over its cycles.
ErrorForgotten(p) == IF p.settled THEN Broken ELSE [p EXCEPT !.cycle.fail = TRUE]
ErrorRead(p) == IF p.settled THEN Broken ELSE [p EXCEPT !.cycle.fail = TRUE, !.sticky = TRUE]

\* piCurrentObservationalEvent
SessionInfo(v, p) == IF v = "outcome" THEN p ELSE Broken

\* refusalFor and refusalForCompletedCycle; the identity matched when it was observed.
PiCommitted(p) ==
    /\ exit = "success" /\ ~ p.bad /\ ~ p.cycle.fail
    /\ p.session /\ p.cycle.agent = "ended" /\ p.cycle.turn = "ended"
    /\ ~ p.cycle.retry /\ ~ p.cycle.refused
    /\ p.cycle.text \in Texts /\ p.cycle.answer \in Texts

-----------------------------------------------------------------------------
(* The stream *)

ReadAll(Apply(_, _)) ==
    /\ exit = "open"
    /\ parsers' = [v \in Versions |-> IF parsers[v].bad THEN parsers[v] ELSE Apply(v, parsers[v])]
    /\ UNCHANGED exit

ReadSession == ReadAll(LAMBDA v, p : SessionRead(p)) /\ UNCHANGED told
ReadAgentStart ==
    /\ ReadAll(LAMBDA v, p : AgentStart(p))
    /\ told' = [told EXCEPT !.failure = FALSE, !.outcome = FALSE, !.waiting = FALSE, !.ended = FALSE,
                            !.newest = NoText]
ReadTurnStart ==
    /\ ReadAll(LAMBDA v, p : TurnStart(p))
    /\ told' = [told EXCEPT !.newest = NoText]
ReadMessageStart == ReadAll(LAMBDA v, p : MessageStart(p)) /\ UNCHANGED told
ReadMessageUpdate == ReadAll(LAMBDA v, p : MessageUpdate(p)) /\ UNCHANGED told
ReadMessageEnd(assistant, text, stop, error) ==
    /\ ReadAll(LAMBDA v, p : MessageEnd(p, assistant, text, stop, error))
    /\ told' = [told EXCEPT !.failure = @ \/ (assistant /\ (error \/ stop = "failed"))]
ReadTurnEnd(text, stop, error) ==
    /\ ReadAll(LAMBDA v, p : TurnEnd(p, text, stop, error))
    /\ told' = [told EXCEPT !.newest = text, !.failure = @ \/ error \/ stop = "failed"]
ReadAgentEnd(text, stop, error) ==
    /\ ReadAll(LAMBDA v, p : AgentEnd(p, text, stop, error))
    /\ told' = [told EXCEPT !.ended = TRUE, !.failure = @ \/ error \/ stop = "failed",
                            !.newest = IF @ = text THEN @ ELSE NoText]
ReadRetryStart ==
    /\ ReadAll(LAMBDA v, p : RetryStart(p))
    /\ told' = [told EXCEPT !.waiting = TRUE]
Say(said) == told' = [told EXCEPT !.outcome = @ \/ said = "failed", !.malformed = @ \/ said = "malformed"]
ReadRetryEnd(said) == ReadAll(LAMBDA v, p : RetryEnd(v, p, said)) /\ Say(said)
ReadSettled(said) == ReadAll(LAMBDA v, p : SettledRead(v, p, said)) /\ Say(said)
ReadError ==
    /\ ReadAll(LAMBDA v, p : ErrorRead(p))
    /\ told' = [told EXCEPT !.error = TRUE]
ReadSessionInfo ==
    /\ ReadAll(LAMBDA v, p : SessionInfo(v, p))
    /\ told' = [told EXCEPT !.info = TRUE]

\* An unknown lifecycle event, a line that is no event, a session of another conversation.
ReadUnknown == ReadAll(LAMBDA v, p : Broken) /\ UNCHANGED told

PiSeal(success) ==
    /\ exit = "open"
    /\ exit' = IF success THEN "success" ELSE "failure"
    /\ UNCHANGED <<parsers, told>>

PiNext ==
    \/ ReadSession \/ ReadAgentStart \/ ReadTurnStart \/ ReadMessageStart \/ ReadMessageUpdate
    \/ ReadRetryStart \/ ReadError \/ ReadSessionInfo \/ ReadUnknown
    \/ \E text \in AllTexts, stop \in Stops, error \in BOOLEAN :
          \/ \E assistant \in BOOLEAN : ReadMessageEnd(assistant, text, stop, error)
          \/ ReadTurnEnd(text, stop, error) \/ ReadAgentEnd(text, stop, error)
    \/ \E said \in Says : ReadRetryEnd(said) \/ ReadSettled(said)
    \/ \E success \in BOOLEAN : PiSeal(success)

PiSpec == PiInit /\ [][PiNext]_piVars

-----------------------------------------------------------------------------
(* Properties *)

\* A run is committed only with the text in which the last turn and the last cycle ended, only
\* if no error of the process was ever reported, and only if its last cycle neither failed, nor
\* was stated to have failed, nor waits to be retried, and nothing stated was unreadable.
PiAnswerStands ==
    PiCommitted(parsers["outcome"]) =>
        /\ parsers["outcome"].cycle.answer = told.newest /\ told.ended
        /\ ~ told.error /\ ~ told.failure /\ ~ told.outcome /\ ~ told.waiting
        /\ ~ told.malformed

\* Where both revisions commit they give the same answer; the current one commits nothing the
\* earlier one refused but for an event that only it knows, and refuses nothing the earlier one
\* committed but for an outcome that Pi itself stated, or that could not be read
\* (current_outcome.go): the earlier one commits past both.
PiRevisionsAgree ==
    LET prior == parsers["prior"]
        current == parsers["outcome"]
    IN /\ PiCommitted(prior) /\ PiCommitted(current) => prior.cycle.answer = current.cycle.answer
       /\ PiCommitted(current) /\ ~ told.info => PiCommitted(prior)
       /\ PiCommitted(prior) /\ ~ told.outcome /\ ~ told.malformed => PiCommitted(current)

PiIsTrue == PiAnswerStands /\ PiRevisionsAgree
=============================================================================

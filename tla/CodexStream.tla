---------------------------- MODULE CodexStream ----------------------------
(***************************************************************************)
(* What the adapter makes of the output of a Codex process.  A task runs   *)
(* `codex exec`, whose event lines are read once they are sealed, or an    *)
(* app server, whose messages a live protocol machine follows while the    *)
(* process runs and an interpreter reads again when they are sealed.  The  *)
(* interpreter is a revision recorded with the task; later revisions read  *)
(* what earlier ones refused.  Every revision reads the same stream here.  *)
(***************************************************************************)
EXTENDS Integers, FiniteSets

CONSTANTS Items,        \* identities of agent messages
          Inputs,       \* native input requests
          Steers,       \* steering messages of the caller
          MaxFinals     \* bound: agent messages with an answer

VARIABLES
    program,    \* "exec" or "server"
    readers,    \* the state of each revision that reads the stream
    live,       \* appServerProtocol of the running task
    observed,   \* identity the observer recorded
    said,       \* what the process really said, for the properties
    sealed      \* provider exit record, once written

codexVars == <<program, readers, live, observed, said, sealed>>

Own == 1
Foreign == 2
Threads == {Own, Foreign}
Turns == {1, 2}
Unnamed == 0    \* an identity that is the empty string
Addresses == {<<Own, 1>>, <<Own, 2>>, <<Own, Unnamed>>, <<Foreign, 1>>, <<Unnamed, Unnamed>>, <<Unnamed, 1>>}
NoAnswer == 0
Blank == -1
Answers == Blank..MaxFinals

ExecRevisions == {"runtime", "started", "current"}
ServerRevisions == {"strict", "current"}
Revisions == IF program = "exec" THEN ExecRevisions ELSE ServerRevisions

NewItem == [type |-> "none", started |-> FALSE, completed |-> FALSE]
\* newEventState, newCurrentEventState
NewReader == [err |-> FALSE, thread |-> 0, turn |-> "none", final |-> NoAnswer,
              items |-> [i \in Items |-> NewItem]]
\* newAppServerProtocol, after Start
NewProtocol == [err |-> FALSE, phase |-> 1, turn |-> 0, completed |-> FALSE, failed |-> FALSE,
                final |-> NoAnswer, items |-> {}, requests |-> {}, steering |-> {}]

CodexInit ==
    /\ program \in {"exec", "server"}
    /\ readers = [v \in Revisions |-> IF program = "exec" THEN NewReader ELSE NewProtocol]
    /\ live = NewProtocol /\ observed = 0
    /\ said = [answers |-> 0, newest |-> NoAnswer, failed |-> FALSE, mixed |-> FALSE]
    /\ sealed = "open"

CodexTypeOK ==
    /\ program \in {"exec", "server"} /\ DOMAIN readers = Revisions
    /\ \A v \in Revisions : readers[v].err \in BOOLEAN /\ readers[v].final \in Answers
    /\ live.requests \subseteq Inputs /\ live.steering \subseteq Steers /\ live.phase \in 1..3
    /\ observed \in {0} \cup Threads /\ sealed \in {"open", "success", "failure"}
    /\ said.answers \in 0..MaxFinals /\ said.newest \in Answers

-----------------------------------------------------------------------------
(* codex exec: one operator per event, applied by every revision *)

BadReader == [NewReader EXCEPT !.err = TRUE]
BadProtocol == [NewProtocol EXCEPT !.err = TRUE]

Over(r) == r.turn \in {"completed", "failed", "interrupted"}
Active(r) == r.thread # 0 /\ r.turn = "started"

ThreadStarted(r, t) == IF r.thread # 0 THEN BadReader ELSE [r EXCEPT !.thread = t]
TurnStarted(r) == IF r.thread = 0 \/ r.turn # "none" THEN BadReader ELSE [r EXCEPT !.turn = "started"]

\* Usage that cannot be read is fatal to the oldest revision only.
TurnCompleted(v, r, status, usage) ==
    IF ~ Active(r) THEN BadReader
    ELSE IF status # "completed" THEN [r EXCEPT !.turn = "interrupted"]
    ELSE IF v = "runtime" /\ ~ usage THEN BadReader
    ELSE [r EXCEPT !.turn = "completed"]
TurnFailed(r) == IF ~ Active(r) THEN BadReader ELSE [r EXCEPT !.turn = "failed"]
TurnInterrupted(r) == IF ~ Active(r) THEN BadReader ELSE [r EXCEPT !.turn = "interrupted"]
ErrorEvent(r) == IF r.turn = "completed" THEN BadReader ELSE r

\* transitionItem, transitionCurrentItem
Refused(v, item, step) ==
    CASE step = "started" -> item.started \/ item.completed
      [] step = "updated" -> item.completed \/ (v # "runtime" /\ ~ item.started)
      [] step = "completed" -> item.completed \/ (v = "started" /\ ~ item.started)
Advanced(item, step) == [item EXCEPT !.started = @ \/ step = "started",
                                     !.completed = @ \/ step = "completed"]

\* currentItemEvent and applyItemEvent: only agent messages are tracked by the later revisions.
ItemEvent(v, r, step, type, i, answer) ==
    LET item == r.items[i]
        tracked == type = "agent" \/ v = "runtime"
        advanced == [Advanced(item, step) EXCEPT !.type = type]
    IN IF r.thread # 0 /\ r.turn = "none" /\ step = "completed" /\ type = "error" THEN r
       ELSE IF ~ Active(r) THEN BadReader
       ELSE IF ~ tracked THEN r
       ELSE IF (v = "runtime" /\ item.type \notin {"none", type}) \/ Refused(v, item, step)
       THEN BadReader
       ELSE [r EXCEPT !.items[i] = advanced,
                !.final = IF type = "agent" /\ step = "completed" THEN answer ELSE @]

\* currentRefusalFor, refusalFor and the comparison with the output artifact
ExecCommitted(r, artifact) ==
    /\ sealed = "success" /\ ~ r.err
    /\ r.turn = "completed" /\ r.thread = Own /\ observed \in {0, Own}
    /\ r.final \notin {NoAnswer, Blank}
    /\ artifact \in {NoAnswer, r.final}

-----------------------------------------------------------------------------
(* The app server protocol: one operator per message *)

\* threadID: empty until the thread response names it.  A message whose thread is the empty
\* string is taken for the root thread's till then, and one with an empty turn for the turn's
\* till the turn is known.
ThreadOf(p) == IF p.phase = 3 THEN Own ELSE Unnamed
OnThread(p, t) == t = ThreadOf(p)

StartThread(p) == IF p.phase # 1 THEN BadProtocol ELSE [p EXCEPT !.phase = 2]
StartTurn(p, t) == IF p.phase # 2 \/ t # Own THEN BadProtocol ELSE [p EXCEPT !.phase = 3]
ActivateTurn(p, u) ==
    IF p.phase # 3 \/ u = Unnamed \/ p.turn \notin {Unnamed, u} THEN BadProtocol ELSE [p EXCEPT !.turn = u]
ServerTurnStarted(p, t, u) ==
    IF ~ OnThread(p, t) THEN p ELSE IF p.completed THEN BadProtocol ELSE ActivateTurn(p, u)
ServerTurnCompleted(p, t, u, failed) ==
    IF ~ OnThread(p, t) THEN p
    ELSE IF p.turn = Unnamed \/ p.turn # u \/ p.completed THEN BadProtocol
    ELSE [p EXCEPT !.completed = TRUE, !.failed = @ \/ failed]

\* currentItemCompleted: a message may come without an identity, and then is not tracked.
ItemCompleted(p, t, u, ids, commentary, answer) ==
    IF ~ OnThread(p, t) THEN p
    ELSE IF p.turn # u \/ p.completed \/ ids \cap p.items # {} THEN BadProtocol
    ELSE [p EXCEPT !.items = @ \cup ids, !.final = IF commentary THEN @ ELSE answer]

RequestInput(p, q, t, u, named) ==
    IF ~ OnThread(p, t) THEN p
    ELSE IF p.completed \/ p.turn # u \/ ~ named \/ q \in p.requests THEN BadProtocol
    ELSE [p EXCEPT !.requests = @ \cup {q}]
RequestResolved(p, q, t) == IF OnThread(p, t) THEN [p EXCEPT !.requests = @ \ {q}] ELSE p
ServerError(p, t, u, willRetry) ==
    IF ~ OnThread(p, t) THEN p
    ELSE IF p.turn # u THEN BadProtocol ELSE [p EXCEPT !.failed = @ \/ ~ willRetry]

\* currentSteerResponse: a sealed stream is read without the messages that were sent.
SteerAnswered(p, m, accepted, u) ==
    IF m \notin p.steering \/ (accepted /\ u # p.turn) THEN BadProtocol
    ELSE [p EXCEPT !.steering = @ \ {m}]
SteerUnchecked(p, m) == IF m \in p.steering THEN p ELSE BadProtocol
SteerReplayed(p, m) == p

\* classifyEnvelope: the current revision denies a request, whatever its method, and refuses an
\* envelope whose id is no id; the strict one looks at the method alone.
Classified(v, p, id, q, handled) ==
    IF v = "strict" THEN handled
    ELSE IF id = "malformed" \/ (id = "absent" /\ q # {}) THEN BadProtocol
    ELSE IF id = "named" /\ q = {} THEN p ELSE handled

\* unrecognizedMethod: the strict revision refuses the lifecycle namespaces, the current one what
\* carries a result or an error
Unrecognized(v, p, id, lifecycle, carries) ==
    IF id = "absent" /\ (IF v = "strict" THEN lifecycle ELSE carries) THEN BadProtocol ELSE p

\* Complete and evaluateCurrentInteractionAgainst
Complete(p) == ~ p.err /\ p.completed /\ ~ p.failed
ServerCommitted(p) == sealed = "success" /\ Complete(p) /\ p.final \notin {NoAnswer, Blank}

-----------------------------------------------------------------------------
(* The stream.  A reader that met an error reads nothing more. *)

Open(kind) == sealed = "open" /\ program = kind

\* Read and ReadBoth hand an event to every revision, and to the live machine.
Read(Apply(_, _)) ==
    readers' = [v \in Revisions |-> IF readers[v].err THEN readers[v] ELSE Apply(v, readers[v])]
ReadBoth(Apply(_, _)) ==
    /\ Read(Apply)
    /\ live' = IF live.err THEN live ELSE Apply("current", live)

ExecThreadStarted(t) ==
    /\ Open("exec")
    /\ Read(LAMBDA v, r : ThreadStarted(r, t))
    /\ observed' = IF observed = 0 /\ t = Own THEN t ELSE observed
    /\ UNCHANGED <<program, live, said, sealed>>

ExecTurnStarted ==
    /\ Open("exec")
    /\ Read(LAMBDA v, r : TurnStarted(r))
    /\ UNCHANGED <<program, live, observed, said, sealed>>

ExecTurnCompleted(status, usage) ==
    /\ Open("exec")
    /\ Read(LAMBDA v, r : TurnCompleted(v, r, status, usage))
    /\ said' = [said EXCEPT !.failed = @ \/ status # "completed"]
    /\ UNCHANGED <<program, live, observed, sealed>>

ExecTurnEnded(how) ==
    /\ Open("exec")
    /\ Read(LAMBDA v, r : IF how = "failed" THEN TurnFailed(r) ELSE TurnInterrupted(r))
    /\ said' = [said EXCEPT !.failed = TRUE]
    /\ UNCHANGED <<program, live, observed, sealed>>

ExecError ==
    /\ Open("exec")
    /\ Read(LAMBDA v, r : ErrorEvent(r))
    /\ UNCHANGED <<program, live, observed, said, sealed>>

\* The text of the n-th answer is n.
Spoken(blank) == IF blank THEN Blank ELSE said.answers + 1
Said(blank) == [said EXCEPT !.answers = IF blank THEN @ ELSE @ + 1, !.newest = Spoken(blank)]

ExecItem(step, type, i, blank) ==
    /\ Open("exec") /\ said.answers < MaxFinals
    /\ Read(LAMBDA v, r : ItemEvent(v, r, step, type, i, Spoken(blank)))
    /\ said' = IF type = "agent" /\ step = "completed" THEN Said(blank) ELSE said
    /\ UNCHANGED <<program, live, observed, sealed>>

\* An unknown event of the thread or the turn, or a line that is no event.
Malformed ==
    /\ sealed = "open"
    /\ readers' = [v \in Revisions |-> IF program = "exec" THEN BadReader ELSE BadProtocol]
    /\ live' = BadProtocol
    /\ UNCHANGED <<program, observed, said, sealed>>

Respond(what, t, u) ==
    /\ Open("server")
    /\ ReadBoth(LAMBDA v, p : CASE what = "initialized" -> StartThread(p)
                                [] what = "thread" -> StartTurn(p, t)
                                [] what = "turn" -> ActivateTurn(p, u)
                                [] what = "rejected" -> BadProtocol)
    /\ UNCHANGED <<program, observed, said, sealed>>

\* An unknown notification is "failed" if it carries a result or an error.
Notify(what, t, u, id, failed) ==
    /\ Open("server")
    /\ ReadBoth(LAMBDA v, p : Classified(v, p, id, {},
                    CASE what = "started" -> ServerTurnStarted(p, t, u)
                      [] what = "completed" -> ServerTurnCompleted(p, t, u, failed)
                      [] what = "error" -> ServerError(p, t, u, ~ failed)
                      [] what = "lifecycle" -> Unrecognized(v, p, id, TRUE, failed)
                      [] what = "unknown" -> Unrecognized(v, p, id, FALSE, failed)))
    /\ said' = [said EXCEPT
          !.failed = @ \/ (failed /\ what \in {"completed", "error"} /\ id = "absent"
                             /\ OnThread(readers["current"], t)),
          !.mixed = @ \/ id # "absent" \/ (failed /\ what \in {"lifecycle", "unknown"})]
    /\ UNCHANGED <<program, observed, sealed>>

NotifyItem(t, u, id, ids, commentary, blank) ==
    /\ Open("server") /\ said.answers < MaxFinals
    /\ ReadBoth(LAMBDA v, p : Classified(v, p, id, {},
                    ItemCompleted(p, t, u, ids, commentary, Spoken(blank))))
    /\ said' = [(IF OnThread(readers["current"], t) /\ id = "absent" /\ ~ commentary
                 THEN Said(blank) ELSE said) EXCEPT !.mixed = @ \/ id # "absent"]
    /\ UNCHANGED <<program, observed, sealed>>

AskInput(q, t, u, id) ==
    /\ Open("server")
    /\ ReadBoth(LAMBDA v, p : Classified(v, p, id, {q}, RequestInput(p, q, t, u, id # "absent")))
    /\ said' = [said EXCEPT !.mixed = @ \/ id # "named"]
    /\ UNCHANGED <<program, observed, sealed>>

ResolveInput(q, t) ==
    /\ Open("server")
    /\ ReadBoth(LAMBDA v, p : RequestResolved(p, q, t))
    /\ UNCHANGED <<program, observed, said, sealed>>

AnswerSteer(m, accepted, u) ==
    /\ Open("server")
    /\ Read(LAMBDA v, p : SteerReplayed(p, m))
    /\ live' = IF live.err THEN live ELSE SteerAnswered(live, m, accepted, u)
    /\ UNCHANGED <<program, observed, said, sealed>>

\* Encode of a steering message; a reply changes nothing.
EncodeSteer(m) ==
    /\ Open("server") /\ ~ live.err /\ ~ live.completed /\ live.turn # 0
    /\ live' = [live EXCEPT !.steering = @ \cup {m}]
    /\ UNCHANGED <<program, readers, observed, said, sealed>>

Seal(success) ==
    /\ sealed = "open"
    /\ sealed' = IF success THEN "success" ELSE "failure"
    /\ UNCHANGED <<program, readers, live, observed, said>>

CodexNext ==
    \/ \E t \in Threads : ExecThreadStarted(t)
    \/ ExecTurnStarted \/ ExecError \/ Malformed
    \/ \E status \in {"completed", "other"}, usage \in BOOLEAN : ExecTurnCompleted(status, usage)
    \/ \E how \in {"failed", "interrupted"} : ExecTurnEnded(how)
    \/ \E step \in {"started", "updated", "completed"}, type \in {"agent", "error", "other"},
          i \in Items, blank \in BOOLEAN : ExecItem(step, type, i, blank)
    \/ \E what \in {"initialized", "thread", "turn", "rejected"}, a \in Addresses : Respond(what, a[1], a[2])
    \/ \E what \in {"started", "completed", "error", "lifecycle", "unknown"}, a \in Addresses,
          id \in {"absent", "named", "malformed"}, failed \in BOOLEAN : Notify(what, a[1], a[2], id, failed)
    \/ \E a \in Addresses, id \in {"absent", "named"}, ids \in {{}} \cup {{i} : i \in Items},
          commentary, blank \in BOOLEAN : NotifyItem(a[1], a[2], id, ids, commentary, blank)
    \/ \E q \in Inputs, a \in Addresses, id \in {"absent", "named", "malformed"} : AskInput(q, a[1], a[2], id)
    \/ \E q \in Inputs, t \in {Unnamed} \cup Threads : ResolveInput(q, t)
    \/ \E m \in Steers, accepted \in BOOLEAN, u \in Turns : AnswerSteer(m, accepted, u)
    \/ \E m \in Steers : EncodeSteer(m)
    \/ \E success \in BOOLEAN : Seal(success)

CodexSpec == CodexInit /\ [][CodexNext]_codexVars

-----------------------------------------------------------------------------
(* Properties *)

Artifacts == {NoAnswer} \cup 1..MaxFinals

\* A run is committed by the current revision only with the last answer its own turn gave, and
\* only if the process stated no failure of that turn; a message that leaves the names out counts
\* as its own as long as the names are not known.
CommitIsSaid ==
    /\ program = "exec" => \A a \in Artifacts :
          ExecCommitted(readers["current"], a) =>
             ~ said.failed /\ readers["current"].final = said.newest
    /\ (program = "server" /\ ServerCommitted(readers["current"])) =>
          ~ said.failed /\ readers["current"].final = said.newest

\* The revisions that commit a stream agree on its answer, and what an earlier revision commits
\* the revision that may recover it commits too; the oldest revision of codex exec knew fewer
\* rules.  Set aside are messages that mix two forms, which the current revision treats otherwise:
\* requests with the name of a notification, and unknown notifications with a result or an error.
RevisionsAgree ==
    /\ program = "exec" => \A a \in Artifacts :
          /\ \A v, w \in ExecRevisions :
                ExecCommitted(readers[v], a) /\ ExecCommitted(readers[w], a) =>
                   readers[v].final = readers[w].final
          /\ ExecCommitted(readers["started"], a) => ExecCommitted(readers["current"], a)
    /\ (program = "server" /\ ServerCommitted(readers["strict"]) /\ ~ said.mixed) =>
          ServerCommitted(readers["current"])
             /\ readers["current"].final = readers["strict"].final

\* What the live machine followed to the end without a fault is what the sealed stream shows.
LiveAgrees ==
    (program = "server" /\ sealed = "success" /\ ~ live.err) =>
        /\ Complete(live) <=> Complete(readers["current"])
        /\ live.final = readers["current"].final

CodexIsTrue == CommitIsSaid /\ RevisionsAgree /\ LiveAgrees
=============================================================================

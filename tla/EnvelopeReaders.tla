--------------------------- MODULE EnvelopeReaders ---------------------------
(***************************************************************************)
(* The one JSON document an Antigravity process prints, and its three      *)
(* readers: a scanner that follows the bytes while the process runs and    *)
(* records the conversation as soon as it is named; the envelope parser of *)
(* the older revisions, which knows every key; and the record reader of    *)
(* the later ones, which selects the fields it needs from any document.    *)
(* They are written three times over and must understand the same text.    *)
(* Standard error is searched, chunk by chunk, for the mark of a timeout.  *)
(***************************************************************************)
EXTENDS Integers, Sequences, SequencesExt

CONSTANTS MaxNesting,   \* bound: containers open at once
          Marker,       \* TimeoutMarker, as a sequence of 0 and 1
          MaxStderr     \* bound: bytes of standard error

VARIABLES
    channel,        \* the stream this behaviour is about, the two are read independently
    conversation,   \* expected conversation, "" for a new one
    scanner,        \* identityScanner
    envelope,       \* jsonParser
    document,       \* providerjson.Value, read for its fields
    noted,          \* conversation recorded by the scanner
    ending,         \* provider exit record, once written
    stderr,         \* bytes so far, for the properties
    matcher         \* timeoutMatcher

envelopeVars == <<channel, conversation, scanner, envelope, document, noted, ending, stderr, matcher>>

Authority == {"status", "conversation_id", "response", "error"}
Keys == Authority \cup {"usage"}
Required == {"status", "conversation_id", "response"}
Folded == "Conversation_ID"
Identities == {"id1", "id2"}
Contents == Keys \cup Identities \cup {Folded, "SUCCESS", "ERROR", "blank", "word"}
\* A string is written in units: characters and their escapes, the two halves of a surrogate
\* pair, or what no string may hold.  How it is written does not change what it says.
Units == {"rune", "high", "low", "invalid"}
Writings == UNION {[1..n -> Units] : n \in 0..2}
Plain == <<"rune">>
Text(content, written, large) == [kind |-> "string", content |-> content, written |-> written, large |-> large]
Mark(kind) == [kind |-> kind, content |-> "", written |-> <<>>, large |-> FALSE]
Strings == {Text(c, Plain, FALSE) : c \in Contents} \cup {Text("word", Plain, TRUE)}
              \cup {Text(c, w, FALSE) : c \in {"conversation_id", "id1"}, w \in Writings}
Tokens == Strings \cup {Mark(k) : k \in {"{", "}", "[", "]", ",", ":", "number"}}
Missing == "missing"

-----------------------------------------------------------------------------
(* Decoding of strings, once in every reader *)

\* feedDecodedStringByte: an escape state is carried from unit to unit
ScannerDecodes(w) ==
    "none" = FoldLeft(LAMBDA state, unit :
                         CASE state = "none" /\ unit = "rune" -> "none"
                           [] state = "none" /\ unit = "high" -> "lowSlash"
                           [] state = "lowSlash" /\ unit = "low" -> "none"
                           [] OTHER -> "stopped", "none", w)
\* readEscape and readUnicodeEscape: the second half is read together with the first
ParserDecodes(w) ==
    /\ "invalid" \notin ToSet(w)
    /\ \A i \in DOMAIN w : w[i] = "high" => i < Len(w) /\ w[i + 1] = "low"
    /\ \A i \in DOMAIN w : w[i] = "low" => i > 1 /\ w[i - 1] = "high"
\* stringRune, escape and unicode
ValueDecodes(w) ==
    /\ "invalid" \notin ToSet(w) /\ (w = <<>> \/ Last(w) # "high")
    /\ \A i \in DOMAIN w : w[i] = "low" <=> i > 1 /\ w[i - 1] = "high"

\* Value.String and readSmallString have the limit of a control field
Small(t) == t.kind = "string" /\ ~ t.large

\* What the interpretation can tell of the value of a field.
Kept(key, t) ==
    CASE key \in {"status", "conversation_id"} ->
            IF ~ Small(t) THEN "wrong"
            ELSE IF t.content \in (IF key = "status" THEN {"SUCCESS", "ERROR"} ELSE Identities)
            THEN t.content ELSE "unknown"
      [] key = "response" -> IF t.kind # "string" THEN "wrong" ELSE IF t.content = "blank" THEN "blank" ELSE "nonblank"
      [] key = "error" -> IF t.kind # "string" THEN "wrong" ELSE "present"

-----------------------------------------------------------------------------
(* providerjson: the grammar of a JSON value *)

NewGrammar == [pc |-> "value", stack |-> <<>>]
Malformed == [pc |-> "malformed", stack |-> <<>>]

Closed(stack) == [pc |-> IF stack = <<>> THEN "done" ELSE "separator", stack |-> stack]
Opened(g, kind) == [pc |-> IF kind = "{" THEN "firstKey" ELSE "firstValue", stack |-> Append(g.stack, kind)]
Closes(g, kind) == g.stack # <<>> /\ kind = IF Last(g.stack) = "{" THEN "}" ELSE "]"

\* value, container, member, separator and finish
GrammarStep(g, t) ==
    CASE g.pc \in {"value", "firstValue"} /\ t.kind \in {"string", "number"} ->
            IF ~ ValueDecodes(t.written) THEN Malformed ELSE Closed(g.stack)
      [] g.pc \in {"value", "firstValue"} /\ t.kind \in {"{", "["} -> Opened(g, t.kind)
      [] g.pc \in {"firstValue", "firstKey", "separator"} /\ Closes(g, t.kind) -> Closed(Front(g.stack))
      [] g.pc \in {"key", "firstKey"} /\ t.kind = "string" /\ ValueDecodes(t.written) ->
            [g EXCEPT !.pc = "colon"]
      [] g.pc = "colon" /\ t.kind = ":" -> [g EXCEPT !.pc = "value"]
      [] g.pc = "separator" /\ t.kind = "," -> [g EXCEPT !.pc = IF Last(g.stack) = "{" THEN "key" ELSE "value"]
      [] OTHER -> Malformed

AtKey(g) == g.pc \in {"key", "firstKey"}
AtValue(g) == g.pc = "value"

-----------------------------------------------------------------------------
(* recordEnvelope: Object selects the fields of the top level, those with authority in one pass *)
(* and the accounting in another *)

NewDocument ==
    [grammar |-> NewGrammar, key |-> "", fields |-> [k \in Authority |-> Missing], usage |-> Missing, bad |-> FALSE]
BadDocument == [NewDocument EXCEPT !.bad = TRUE]
Top(d) == Len(d.grammar.stack) = 1

\* selectField: a field may come once, and only under its exact name; a key too long to keep is
\* no field.  The pass for the accounting alone minds a second usage.
DocumentKey(d, t) ==
    IF t.large THEN [d EXCEPT !.key = ""]
    ELSE IF t.content = Folded \/ (t.content \in Authority /\ d.fields[t.content] # Missing) THEN BadDocument
    ELSE IF t.content = "usage" /\ d.usage # Missing THEN [d EXCEPT !.usage = "unavailable"]
    ELSE [d EXCEPT !.key = IF t.content \in Keys THEN t.content ELSE ""]
DocumentValue(d, t) ==
    CASE d.key \in Authority -> [d EXCEPT !.fields[d.key] = Kept(d.key, t), !.key = ""]
      [] d.key = "usage" -> [d EXCEPT !.usage = IF t.kind = "{" THEN "open" ELSE "unavailable", !.key = ""]
      [] OTHER -> d

\* recordUsage and recordUsageCounters: other counters are skipped, those it knows come once
InUsage(d) == Len(d.grammar.stack) = 2 /\ d.usage \in {"open", "counted"}
CounterKey(d, t) ==
    IF t.large \/ t.content # "word" THEN d
    ELSE IF d.usage = "counted" THEN [d EXCEPT !.usage = "unavailable"] ELSE [d EXCEPT !.key = "counter"]
CounterValue(d, t) ==
    IF d.key = "" THEN d
    ELSE [d EXCEPT !.usage = IF t.kind = "number" THEN "counted" ELSE "unavailable", !.key = ""]

DocumentStep(d, t) ==
    LET g == GrammarStep(d.grammar, t)
        read == IF Top(d) /\ AtKey(d.grammar) /\ t.kind = "string" THEN DocumentKey(d, t)
                ELSE IF Top(d) /\ AtValue(d.grammar) THEN DocumentValue(d, t)
                ELSE IF InUsage(d) /\ AtKey(d.grammar) /\ t.kind = "string" THEN CounterKey(d, t)
                ELSE IF InUsage(d) /\ AtValue(d.grammar) THEN CounterValue(d, t)
                ELSE IF InUsage(d) /\ t.kind = "}" THEN [d EXCEPT !.usage = "present"] ELSE d
    IN IF d.bad \/ g = Malformed \/ (d.grammar = NewGrammar /\ t.kind # "{") \/ read.bad
       THEN BadDocument ELSE [read EXCEPT !.grammar = g]

\* recordEnvelope and recordOptionalUsage: usage that cannot be read is left out
DocumentEnvelope(d) ==
    [semantic |-> \/ d.bad \/ d.grammar.pc # "done"
                  \/ \E k \in Required : d.fields[k] = Missing
                  \/ \E k \in Authority : d.fields[k] = "wrong",
     fields |-> d.fields, usage |-> d.usage]

-----------------------------------------------------------------------------
(* jsonParser: parseEnvelope *)

NewEnvelope == [pc |-> "start", key |-> "", fields |-> [k \in Keys |-> Missing]]
BadEnvelope == [NewEnvelope EXCEPT !.pc = "bad"]

\* parseTopField and readUsage; what follows a value is read by finishObjectEntry
Decoded(t) == t.kind = "string" /\ ParserDecodes(t.written)
TopField(e, t) ==
    CASE e.key = "usage" /\ t.kind = "{" ->
            [e EXCEPT !.pc = "firstCounter", !.fields["usage"] = "present", !.key = ""]
      [] e.key \in {"status", "conversation_id"} /\ Decoded(t) /\ Small(t) ->
            [e EXCEPT !.pc = "separator", !.fields[e.key] = Kept(e.key, t), !.key = ""]
      [] e.key \in {"response", "error"} /\ Decoded(t) ->
            [e EXCEPT !.pc = "separator", !.fields[e.key] = Kept(e.key, t), !.key = ""]
      [] OTHER -> BadEnvelope

\* parseTopObject: every key is known, and comes once.  The counters of usage have names the
\* parser knows too; one of them stands for all, and comes once.
EnvelopeStep(e, t) ==
    CASE e.pc = "start" /\ t.kind = "{" -> [e EXCEPT !.pc = "firstKey"]
      [] e.pc \in {"key", "firstKey"} /\ Decoded(t) /\ Small(t) /\ t.content \in Keys /\ e.fields[t.content] = Missing ->
            [e EXCEPT !.pc = "colon", !.key = t.content]
      [] e.pc = "colon" /\ t.kind = ":" -> [e EXCEPT !.pc = "value"]
      [] e.pc = "value" -> TopField(e, t)
      [] e.pc = "separator" /\ t.kind = "," -> [e EXCEPT !.pc = "key"]
      [] e.pc \in {"separator", "firstKey"} /\ t.kind = "}" -> [e EXCEPT !.pc = "done"]
      [] e.pc = "firstCounter" /\ Decoded(t) /\ Small(t) /\ t.content = "word" -> [e EXCEPT !.pc = "counterColon"]
      [] e.pc = "counterColon" /\ t.kind = ":" -> [e EXCEPT !.pc = "counter"]
      [] e.pc = "counter" /\ t.kind = "number" -> [e EXCEPT !.pc = "lastCounter"]
      [] e.pc \in {"firstCounter", "lastCounter"} /\ t.kind = "}" -> [e EXCEPT !.pc = "separator"]
      [] OTHER -> BadEnvelope

\* requiredFields
EnvelopeRead(e) ==
    [semantic |-> e.pc # "done" \/ \E k \in Required : e.fields[k] = Missing,
     fields |-> [k \in Authority |-> e.fields[k]], usage |-> e.fields["usage"]]

-----------------------------------------------------------------------------
(* identityScanner *)

NewScanner == [started |-> FALSE, depth |-> 0, expecting |-> "nothing", key |-> "", seen |-> FALSE, stopped |-> FALSE]
Stopped == [NewScanner EXCEPT !.stopped = TRUE]

\* feedKeyStart and the end of a key
ScanKey(s, t) ==
    IF t.kind # "string" \/ s.depth # 1 \/ ~ ScannerDecodes(t.written) THEN Stopped
    ELSE [s EXCEPT !.expecting = "colon",
                   !.key = IF t.large \/ t.content # "conversation_id" THEN "" ELSE t.content]
ScanColon(s, t) ==
    IF t.kind # ":" THEN Stopped
    ELSE [s EXCEPT !.key = "", !.expecting = IF s.key = "conversation_id" THEN "conversation" ELSE "nothing"]
ScanConversation(s, t) ==
    IF ~ Small(t) \/ ~ ScannerDecodes(t.written) \/ s.seen THEN Stopped ELSE [s EXCEPT !.expecting = "nothing", !.seen = TRUE]
\* feedStructuralValueByte, feedOtherStringByte
ScanAnywhere(s, t) ==
    CASE t.kind \in {"{", "["} -> [s EXCEPT !.depth = @ + 1]
      [] t.kind = "," -> [s EXCEPT !.expecting = "key"]
      [] t.kind \in {"}", "]"} -> IF s.depth = 0 \/ (t.kind = "}" /\ s.depth = 1) THEN Stopped ELSE [s EXCEPT !.depth = @ - 1]
      [] OTHER -> s
ScanValue(s, t) ==
    CASE t.kind \in {"{", "["} -> [s EXCEPT !.depth = @ + 1]
      [] t.kind = "," -> IF s.depth = 1 THEN [s EXCEPT !.expecting = "key"] ELSE s
      [] t.kind \in {"}", "]"} -> IF s.depth = 0 \/ (t.kind = "}" /\ s.depth = 1) THEN Stopped ELSE [s EXCEPT !.depth = @ - 1]
      [] OTHER -> s
ScanStep(s, t) ==
    IF s.stopped THEN s
    ELSE IF ~ s.started
    THEN IF t.kind = "{" THEN [s EXCEPT !.started = TRUE, !.depth = 1, !.expecting = "key"] ELSE Stopped
    ELSE CASE s.expecting = "colon" -> ScanColon(s, t)
           [] s.expecting = "conversation" -> ScanConversation(s, t)
           [] s.expecting = "key" -> ScanKey(s, t)
           [] s.expecting = "nothing" -> ScanValue(s, t)

\* finishString: an identity the task can have is recorded at once
Records(s, t) ==
    /\ ~ s.stopped /\ s.expecting = "conversation" /\ Small(t) /\ ScannerDecodes(t.written) /\ ~ s.seen
    /\ t.content \in Identities /\ conversation \in {"", t.content}

-----------------------------------------------------------------------------
(* timeoutMatcher *)

Occurs(bytes) == \E i \in 1..Len(bytes) : i + Len(Marker) - 1 <= Len(bytes) /\ SubSeq(bytes, i, i + Len(Marker) - 1) = Marker
Suffix(bytes, n) == IF Len(bytes) <= n THEN bytes ELSE SubSeq(bytes, Len(bytes) - n + 1, Len(bytes))
FeedShort(m, chunk) ==
    LET combined == m.tail \o chunk IN
    IF m.found THEN m ELSE IF Occurs(combined) THEN [m EXCEPT !.found = TRUE]
    ELSE [m EXCEPT !.tail = Suffix(combined, Len(Marker) - 2)]
Feed(m, chunk) ==
    LET combined == m.tail \o chunk IN
    IF m.found THEN m ELSE IF Occurs(combined) THEN [m EXCEPT !.found = TRUE]
    ELSE [m EXCEPT !.tail = Suffix(combined, Len(Marker) - 1)]

-----------------------------------------------------------------------------
(* The streams *)

EnvelopeInit ==
    /\ channel \in {"stdout", "stderr"} /\ conversation \in {"", "id1"}
    /\ scanner = NewScanner /\ envelope = NewEnvelope /\ document = NewDocument
    /\ noted = "" /\ ending = "open"
    /\ stderr = <<>> /\ matcher = [tail |-> <<>>, found |-> FALSE]

EnvelopeTypeOK ==
    /\ noted \in {""} \cup Identities /\ scanner.depth \in 0..(MaxNesting + 1)
    /\ Len(document.grammar.stack) <= MaxNesting /\ Len(matcher.tail) < Len(Marker)
    /\ ending \in {"open", "success", "failure"}

Alive == ~ document.bad \/ envelope.pc # "bad"
PrintToken(t) ==
    /\ channel = "stdout" /\ ending = "open" /\ Alive
    /\ t.kind \in {"{", "["} => Len(document.grammar.stack) < MaxNesting
    /\ scanner' = ScanStep(scanner, t)
    /\ envelope' = IF envelope.pc = "bad" THEN envelope ELSE EnvelopeStep(envelope, t)
    /\ document' = DocumentStep(document, t)
    /\ noted' = IF Records(scanner, t) THEN t.content ELSE noted
    /\ UNCHANGED <<channel, conversation, ending, stderr, matcher>>

Complain(chunk) ==
    /\ channel = "stderr" /\ ending = "open" /\ Len(stderr) + Len(chunk) <= MaxStderr
    /\ stderr' = stderr \o chunk
    /\ matcher' = Feed(matcher, chunk)
    /\ UNCHANGED <<channel, conversation, scanner, envelope, document, noted, ending>>

EnvelopeSeal(success) ==
    /\ ending = "open"
    /\ ending' = IF success THEN "success" ELSE "failure"
    /\ UNCHANGED <<channel, conversation, scanner, envelope, document, noted, stderr, matcher>>

EnvelopeNext ==
    \/ \E t \in Tokens : PrintToken(t)
    \/ \E n \in 1..Len(Marker) : \E chunk \in [1..n -> {0, 1}] : Complain(chunk)
    \/ \E success \in BOOLEAN : EnvelopeSeal(success)

EnvelopeSpec == EnvelopeInit /\ [][EnvelopeNext]_envelopeVars

-----------------------------------------------------------------------------
(* Interpretation *)

\* validateConversation
ValidConversation(id) == id \in Identities /\ conversation \in {"", id} /\ noted \in {"", id}

\* interpretEnvelopeWithOptions; the base revision alone looks at the identity before the error.
Interpret(read, errorFirst) ==
    IF ending # "success" THEN "failed"
    ELSE IF read.semantic \/ read.fields["status"] = "unknown" THEN "invalid"
    ELSE IF errorFirst /\ read.fields["status"] = "ERROR" THEN "failed"
    ELSE IF ~ ValidConversation(read.fields["conversation_id"]) THEN "mismatch"
    ELSE IF read.fields["status"] = "ERROR" THEN "failed"
    ELSE IF read.fields["error"] # Missing THEN "invalid"
    ELSE IF read.fields["response"] = "blank" THEN "incomplete"
    ELSE "committed"

-----------------------------------------------------------------------------
(* Properties *)

\* A document that either reader accepts, and that names a conversation the task can have, was
\* understood alike by the scanner: that conversation, and no other, is the one recorded.
IdentityIsRecorded ==
    \A read \in {EnvelopeRead(envelope), DocumentEnvelope(document)} :
        (channel = "stdout" /\ ~ read.semantic) =>
            noted = IF read.fields["conversation_id"] \in Identities /\ conversation \in {"", read.fields["conversation_id"]}
                    THEN read.fields["conversation_id"] ELSE ""

\* What an earlier revision accepts, the record revisions accept too, with the same fields and
\* without loss of its accounting, so that a task recovered under them keeps its verdict; the
\* base revision differs in no commit.
ReadersAgree ==
    LET strict == EnvelopeRead(envelope)
        lenient == DocumentEnvelope(document)
    IN /\ ~ strict.semantic => strict = lenient
       /\ \A first \in BOOLEAN :
             Interpret(strict, first) = "committed" => Interpret(lenient, TRUE) = "committed"

\* The mark is found if and only if standard error holds it, however it was cut into chunks.
TimeoutIsFound == matcher.found <=> Occurs(stderr)

EnvelopeIsTrue == IdentityIsRecorded /\ ReadersAgree /\ TimeoutIsFound
=============================================================================

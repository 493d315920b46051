-------------------------------- MODULE Turn --------------------------------
(***************************************************************************)
(* One sentence put to a model and its answer read back: the loop of       *)
(* src/internal/converse/converse.go, the scanner of stream.go that shows  *)
(* the answer while it is written, the client of src/internal/provider/    *)
(* qwen, and the request that relays the prose (handleAskStream of         *)
(* src/internal/api/converse.go).                                          *)
(*                                                                         *)
(* An answer is a document: a sequence of fields, each a name and a value. *)
(* It travels as symbols, cut into frames wherever the network likes.  The *)
(* symbols are the ones the scanner tells apart; what JSON writes as an    *)
(* escape is written as one.  A character outside the basic plane, which   *)
(* the scanner shows as two replacement characters, is left out.           *)
(***************************************************************************)
EXTENDS Naturals, Sequences, FiniteSets

CONSTANTS
  Document,      \* the answers a model may give: sequences of [name, value], or Prose
  Capability,    \* the intents; Spending \subseteq Capability, AxisOfIntent
  AxisOfIntent,  \* the axis a capability is about, or ""
  AxisName,      \* the axes there are
  MaxCalls, MaxCostMicroCents,
  CallCost,      \* what one call costs
  DeltaCap,      \* places in the channel to the browser
  MaxChunk,      \* bound: symbols in one frame
  MaxThoughts    \* bound: frames that carry only reasoning

\* Bounds.Valid, which DefaultBounds satisfies.
ASSUME TurnAssumption ==
  /\ MaxCalls \in Nat \ {0} /\ MaxCostMicroCents \in Nat \ {0} /\ CallCost \in Nat
  /\ DeltaCap \in Nat /\ MaxChunk \in Nat \ {0} /\ MaxThoughts \in Nat

VARIABLES
  turn,      \* where the turn is: [step, calls, cost, streamed]
  doc,       \* what the model is answering
  sent,      \* symbols of it that arrived
  wire,      \* the frames so far: [any, priced, thoughts]
  scan,      \* the scanner: [state, buf, pending]
  deltas,    \* the channel to the request's goroutine
  shown,     \* what the browser drew
  outcome,
  emitted,   \* ghost: all the scanner handed on
  dropped    \* ghost: the channel was full once

turnVars == <<turn, doc, sent, wire, scan, deltas, shown, outcome, emitted, dropped>>

Quote == "\""
Backslash == "\\"
Space == " "
Opening == "{"
Comma == ","
Closing == "}"
Prose == << >>          \* an answer that is no document
Null == <<"null">>      \* a value that is no string

\* What is written as it is; "quote" is a character, Quote the symbol that ends a string.
Plain == STRING \ {Quote, Backslash, "newline", "quote", "eacute"}
DocumentField == [name : Seq(Plain), value : Seq(STRING \ {Quote, Backslash}) \cup {Null}, gap : Seq({Space})]

\* Every name is given once, and is one of those a document has: nothing in it is escaped.
ASSUME DocumentAssumption ==
  /\ Document \subseteq Seq(DocumentField) \ {Prose}
  /\ \A d \in Document : \A i, j \in DOMAIN d : d[i].name = d[j].name => i = j

-----------------------------------------------------------------------------
\* How a provider writes a document

Written(ch) ==
  CASE ch = "newline" -> <<Backslash, "n">>
    [] ch = "quote"   -> <<Backslash, Quote>>
    [] ch = "eacute"  -> <<Backslash, "u", "0", "0", "e", "9">>
    [] OTHER          -> <<ch>>

\* The parts of a sequence of sequences, one after the other.
Joining(ss) == LET joined[k \in 0..Len(ss)] == IF k = 0 THEN << >> ELSE joined[k - 1] \o ss[k] IN joined
Joined(ss) == Joining(ss)[Len(ss)]

WrittenText(v) == Joined([i \in DOMAIN v |-> Written(v[i])])
WrittenString(v) == <<Quote>> \o WrittenText(v) \o <<Quote>>
WrittenValue(v) == IF v = Null THEN <<"null">> ELSE WrittenString(v)
WrittenField(f) ==
  (<<Quote>> \o f.name \o <<Quote>>) \o (f.gap \o <<":">> \o f.gap) \o WrittenValue(f.value)
WrittenFields(d) == Joined([i \in DOMAIN d |-> <<IF i = 1 THEN Opening ELSE Comma>> \o WrittenField(d[i])])
Symbols(d) == IF d = Prose THEN <<"s", "o">> ELSE WrittenFields(d) \o <<Closing>>

\* json.Unmarshal of a whole document into wire: an absent field and a null are empty.
Wire(d, name) ==
  LET at == {i \in DOMAIN d : d[i].name = name /\ d[i].value # Null} IN
  IF at = {} THEN << >> ELSE d[CHOOSE i \in at : TRUE].value

TextName == <<"te", "xt">>
TextOf(d) == IF d = Prose THEN << >> ELSE Wire(d, TextName)

-----------------------------------------------------------------------------
\* The scanner

key == <<Quote>> \o TextName \o <<Quote>>
Fresh == [state |-> "seekingKey", buf |-> << >>, pending |-> << >>]

KeyAt(s) == {i \in DOMAIN s : i + Len(key) - 1 <= Len(s) /\ \A j \in DOMAIN key : s[i + j - 1] = key[j]}
First(S) == CHOOSE i \in S : \A j \in S : i <= j
From(s, i) == SubSeq(s, i, Len(s))
SkipSpace(s, i) == First({j \in i..(Len(s) + 1) : j > Len(s) \/ (j >= i /\ s[j] # Space)} \cup {Len(s) + 1})

decodeHex4(h) == IF h = <<"0", "0", "e", "9">> THEN "eacute" ELSE "replacement"
Unescaped(e) == CASE e = "n" -> "newline" [] e = Quote -> "quote" [] OTHER -> e

\* One symbol of the value: [out, pending, closed].
ReadSymbol(acc, c) ==
  LET held == Append(acc.pending, c) IN
  IF acc.closed THEN acc ELSE
  CASE acc.pending = << >> /\ c = Quote -> [acc EXCEPT !.closed = TRUE]
    [] acc.pending = << >> /\ c = Backslash -> [acc EXCEPT !.pending = held]
    [] acc.pending = << >> /\ c \notin {Quote, Backslash} -> [acc EXCEPT !.out = Append(@, c)]
    [] acc.pending = <<Backslash>> /\ c # "u" ->
         [acc EXCEPT !.out = Append(@, Unescaped(c)), !.pending = << >>]
    [] acc.pending # << >> /\ (Len(acc.pending) > 1 \/ c = "u") /\ Len(held) < 6 ->
         [acc EXCEPT !.pending = held]
    [] acc.pending # << >> /\ Len(held) = 6 ->
         [acc EXCEPT !.out = Append(@, decodeHex4(From(held, 3))), !.pending = << >>]

Reading(t, s) ==
  LET read[k \in 0..Len(s)] ==
        IF k = 0 THEN [out |-> << >>, pending |-> t.pending, closed |-> FALSE] ELSE ReadSymbol(read[k - 1], s[k])
  IN read
ReadAll(t, s) == Reading(t, s)[Len(s)]

\* mutant: a partial escape is handed on at the end of a chunk
ConsumeEager(t, s) ==
  LET r == ReadAll(t, s) IN
  [t |-> [state |-> IF r.closed THEN "finished" ELSE "inValue", buf |-> << >>, pending |-> << >>],
   out |-> r.out \o r.pending]

\* consume: decodes what is complete and holds back a partial escape.
consume(t, s) ==
  LET r == ReadAll(t, s) IN
  [t |-> [state |-> IF r.closed THEN "finished" ELSE "inValue", buf |-> << >>,
          pending |-> IF r.closed THEN << >> ELSE r.pending],
   out |-> r.out]

Silent(t) == [t |-> t, out |-> << >>]

\* Write: looks for the key, then for the colon and the opening quote behind it.
Seek(t, chunk) ==
  LET s == t.buf \o chunk
      keep == IF Len(s) > Len(key) THEN From(s, Len(s) - Len(key) + 1) ELSE s
      i == First(KeyAt(s))
      rest == From(s, i + Len(key))
      colon == SkipSpace(rest, 1)
      open == SkipSpace(rest, colon + 1)
  IN CASE KeyAt(s) = {} -> Silent([t EXCEPT !.buf = keep])
       [] KeyAt(s) # {} /\ colon > Len(rest) -> Silent([t EXCEPT !.buf = From(s, i)])
       [] KeyAt(s) # {} /\ colon <= Len(rest) /\ rest[colon] # ":" -> Silent([t EXCEPT !.buf = rest])
       [] KeyAt(s) # {} /\ colon <= Len(rest) /\ rest[colon] = ":" /\ open > Len(rest) ->
            Silent([t EXCEPT !.buf = From(s, i)])
       [] KeyAt(s) # {} /\ open <= Len(rest) /\ rest[colon] = ":" /\ rest[open] # Quote ->
            Silent([t EXCEPT !.state = "finished"])
       [] OTHER -> consume([t EXCEPT !.state = "inValue", !.buf = << >>], From(rest, open + 1))

Write(t, chunk) ==
  CASE t.state = "finished"   -> Silent(t)
    [] t.state = "seekingKey" -> Seek(t, chunk)
    [] t.state = "inValue"    -> consume(t, chunk)

-----------------------------------------------------------------------------
\* What the answer amounts to

Decided(o) == [kind |-> o, text |-> << >>, capability |-> "none", axis |-> "", why |-> FALSE]
ErrUnavailable == Decided("unavailable")
ErrUnusable == Decided("unusable")

TrimSpace(v) ==
  LET ink == {i \in DOMAIN v : v[i] \notin {Space, "newline"}} IN
  IF ink = {} THEN << >> ELSE SubSeq(v, First(ink), CHOOSE i \in ink : \A j \in ink : j <= i)

\* The scope of a capability that is about an axis is its own; an axis there is not is no axis.
axisFor(c, named) ==
  CASE AxisOfIntent[c] # "" -> AxisOfIntent[c]
    [] AxisOfIntent[c] = "" /\ \E a \in AxisName : named = <<a>> -> named[1]
    [] OTHER -> ""

\* apply: every field is checked, and none is trusted.
apply(d) ==
  LET action == Wire(d, <<"action">>)  text == TrimSpace(Wire(d, TextName))
      chosen == Wire(d, <<"capability">>) IN
  CASE action \in {<<"say">>, <<"ask">>} /\ text # << >> -> [Decided(action[1]) EXCEPT !.text = text]
    [] action = <<"do">> /\ \E c \in Capability : chosen = <<c>> ->
         [Decided("do") EXCEPT !.capability = chosen[1], !.axis = axisFor(chosen[1], Wire(d, <<"axis">>)),
                               !.why = Wire(d, <<"why">>) # << >>]
    [] OTHER -> ErrUnusable

\* Truncation is told apart first; what was cut or is no object does not parse.
Interpret(finish) ==
  IF finish = "length" \/ doc = Prose \/ sent < Len(Symbols(doc)) THEN ErrUnusable ELSE apply(doc)

\* classify, and the class of a failure that never had a status.
classify(status) ==
  CASE status \in {401, 403} -> "auth"
    [] status = 429          -> "rate limited"
    [] status \in {400, 413} -> "request"
    [] OTHER                 -> "upstream"
Retryable(class) == class \in {"rate limited", "upstream", "deadline"}

-----------------------------------------------------------------------------
TurnInit ==
  /\ turn = [step |-> "deciding", calls |-> 0, cost |-> 0, streamed |-> FALSE]
  /\ doc = Prose /\ sent = 0
  /\ wire = [any |-> FALSE, priced |-> FALSE, thoughts |-> 0]
  /\ scan = Fresh /\ deltas = << >> /\ shown = << >>
  /\ outcome = Decided("none") /\ emitted = << >> /\ dropped = FALSE

End(o, cost) ==
  /\ turn' = [turn EXCEPT !.step = "decided", !.cost = @ + cost]
  /\ outcome' = o

\* The ceilings are looked at before the call, and the scanner is a fresh one.  apply decides or
\* fails, so a turn is one call, whatever MaxCalls allows.
BeginCall ==
  /\ turn.step = "deciding" /\ turn.calls < MaxCalls /\ turn.cost < MaxCostMicroCents
  /\ \E d \in Document \cup {Prose}, streamed \in BOOLEAN :
       /\ doc' = d
       /\ turn' = [turn EXCEPT !.step = "calling", !.calls = @ + 1, !.streamed = streamed]
  /\ sent' = 0 /\ scan' = Fresh /\ wire' = [any |-> FALSE, priced |-> FALSE, thoughts |-> 0]
  /\ UNCHANGED <<deltas, shown, outcome, emitted, dropped>>

\* No answer: the provider refuses, cannot be reached, or the 30 seconds of the turn are over.
Refused ==
  /\ turn.step = "calling"
  /\ \E class \in {classify(s) : s \in {401, 429, 400, 500}} \cup {"deadline"} : End(ErrUnavailable, 0)
  /\ UNCHANGED <<doc, sent, wire, scan, deltas, shown, emitted, dropped>>

\* Complete: the answer in one piece, priced by the model that gave it.
CompleteCall ==
  /\ turn.step = "calling" /\ ~turn.streamed
  /\ \E n \in {Len(Symbols(doc)), Len(Symbols(doc)) \div 2} :
       /\ sent' = n
       /\ End(IF doc = Prose \/ n < Len(Symbols(doc)) THEN ErrUnusable ELSE apply(doc), CallCost)
  /\ UNCHANGED <<doc, wire, scan, deltas, shown, emitted, dropped>>

\* A frame with text: it is added to the content and shown to the scanner, and what the scanner
\* hands on is offered to a channel nobody waits for.
TextFrame ==
  \E n \in 1..MaxChunk :
    LET raw == Symbols(doc)
        r == Write(scan, SubSeq(raw, sent + 1, sent + n)) IN
    /\ turn.step = "calling" /\ turn.streamed /\ sent + n <= Len(raw)
    /\ sent' = sent + n
    /\ scan' = r.t
    /\ wire' = [wire EXCEPT !.any = TRUE]
    /\ emitted' = emitted \o r.out
    /\ deltas' = IF r.out # << >> /\ Len(deltas) < DeltaCap THEN Append(deltas, r.out) ELSE deltas
    /\ dropped' = (dropped \/ (r.out # << >> /\ Len(deltas) >= DeltaCap))
    /\ UNCHANGED <<turn, doc, shown, outcome>>

\* Reasoning is no text, and is not shown.
ThinkingFrame ==
  /\ turn.step = "calling" /\ turn.streamed /\ wire.thoughts < MaxThoughts
  /\ wire' = [wire EXCEPT !.any = TRUE, !.thoughts = @ + 1]
  /\ UNCHANGED <<turn, doc, sent, scan, deltas, shown, outcome, emitted, dropped>>

\* The last frame has no choices and the usage.
UsageFrame ==
  /\ turn.step = "calling" /\ turn.streamed /\ sent = Len(Symbols(doc))
  /\ wire' = [wire EXCEPT !.any = TRUE, !.priced = TRUE]
  /\ UNCHANGED <<turn, doc, sent, scan, deltas, shown, outcome, emitted, dropped>>

\* An error frame after a 200, one that does not decode, or a connection that breaks.
BadFrame ==
  /\ turn.step = "calling" /\ turn.streamed
  /\ End(ErrUnavailable, 0)
  /\ UNCHANGED <<doc, sent, wire, scan, deltas, shown, emitted, dropped>>

\* [DONE], or a connection closed in order: the content is what came, and no frame at all is an
\* error.  What no usage was reported for costs nothing.
StreamEnds ==
  /\ turn.step = "calling" /\ turn.streamed
  /\ \E finish \in {"stop", "length"} :
       IF wire.any THEN End(Interpret(finish), IF wire.priced THEN CallCost ELSE 0) ELSE End(ErrUnavailable, 0)
  /\ UNCHANGED <<doc, sent, wire, scan, deltas, shown, emitted, dropped>>

\* The request's goroutine writes a delta to the browser, also after the channel was closed.
SendDelta ==
  /\ deltas # << >> /\ turn.step \in {"calling", "decided"}
  /\ shown' = shown \o Head(deltas) /\ deltas' = Tail(deltas)
  /\ UNCHANGED <<turn, doc, sent, wire, scan, outcome, emitted, dropped>>

\* final: once the channel is drained, the answer replaces what was drawn.
SendFinal ==
  /\ turn.step = "decided" /\ deltas = << >>
  /\ turn' = [turn EXCEPT !.step = "final"]
  /\ shown' = outcome.text
  /\ UNCHANGED <<doc, sent, wire, scan, deltas, outcome, emitted, dropped>>

TurnNext ==
  \/ BeginCall \/ Refused \/ CompleteCall
  \/ TextFrame \/ ThinkingFrame \/ UsageFrame \/ BadFrame \/ StreamEnds
  \/ SendDelta \/ SendFinal

TurnSpec == TurnInit /\ [][TurnNext]_turnVars

-----------------------------------------------------------------------------
\* Properties

SpellsTheKey(d) == \E i \in DOMAIN d : d[i].value # Null /\ KeyAt(WrittenString(d[i].value)) # {}

\* What is shown while an answer is written is the answer, however the network cuts it: at any
\* moment a beginning of the text, decoded, and the whole of it when the turn is decided ("if this
\* scanner misreads ... the turn still lands correctly", src/internal/converse/stream.go) -- unless
\* a value spells the key, which can hide the text, never change it.
StreamedIsTheAnswer ==
  /\ \E n \in 0..Len(TextOf(doc)) : emitted = SubSeq(TextOf(doc), 1, n)
  /\ turn.step = "decided" /\ turn.streamed /\ outcome.kind \in {"say", "ask"} /\ ~SpellsTheKey(doc)
       => emitted = TextOf(doc)
  /\ ~dropped /\ turn.step # "final" => shown \o Joined(deltas) = emitted
=============================================================================

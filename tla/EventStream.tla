----------------------------- MODULE EventStream -----------------------------
(***************************************************************************)
(* An event stream on its way from the upstream to the client, line by     *)
(* line (src/response.go, src/sse_write.go).  Without hooks that change    *)
(* events the lines are passed on as they come and assembled on the side   *)
(* for whoever observes them; with one, whole blocks are parsed and        *)
(* written anew.                                                           *)
(*                                                                         *)
(* A line is a field with a value, or blank.  A field's value is what      *)
(* follows the colon and the one space the format allows there: a text, of *)
(* a small set with "" among them, and perhaps more white space around it. *)
(* Of the text of several data lines the model keeps the sequence of their *)
(* values, as joining them with newlines and splitting again gives them    *)
(* back.  Lines the code takes for no field of these, comments and retry,  *)
(* are one kind; field names without a colon, which the format allows and  *)
(* the code does not know, are left out.                                   *)
(***************************************************************************)
EXTENDS Integers, Sequences, FiniteSets, SequencesExt

CONSTANTS
    Texts,      \* texts a field's value may have, "" among them
    MaxLines    \* bound: lines the upstream sends

ASSUME TextsAssumption == "" \in Texts /\ MaxLines \in Nat

VARIABLES
    mode,      \* "passthrough", or "transform" when TransformSSE or FilterSSE is set
    stream,    \* the upstream's side: still going, ended or broken
    read,      \* lines read so far
    out,       \* lines written to the client
    pending,   \* the lines of the unfinished event
    observed,  \* events OnSSE was called with
    plain      \* have the hooks left every event as it was

streamVars == <<mode, stream, read, out, pending, observed, plain>>

\* The k-th of a set of positions, and what is found at them, in order.
Nth(S, k) == CHOOSE i \in S : Cardinality({j \in S : j <= i}) = k
Picked(s, S) == [k \in 1..Cardinality(S) |-> s[Nth(S, k)]]

Values == [text : Texts, padded : BOOLEAN]
Empty  == [text |-> "", padded |-> FALSE]

TrimSpace(value) == [value EXCEPT !.padded = FALSE]

Blank == [field |-> "blank", value |-> Empty]
Lines == [field : {"event", "data", "id"}, value : Values]
           \cup {Blank, [field |-> "comment", value |-> Empty]}

-----------------------------------------------------------------------------
(* Events as blocks of lines, as the code has them.                        *)

NoEvent == [event |-> Empty, id |-> Empty, data |-> <<>>]

\* Mutant: of several data lines the last is kept.
AddLineLastData(event, line) ==
    CASE line.field = "event" -> [event EXCEPT !.event = TrimSpace(line.value)]
      [] line.field = "id"    -> [event EXCEPT !.id = TrimSpace(line.value)]
      [] line.field = "data"  -> [event EXCEPT !.data = <<TrimSpace(line.value)>>]
      [] OTHER                -> event

AddLine(event, line) ==
    CASE line.field = "event" -> [event EXCEPT !.event = TrimSpace(line.value)]
      [] line.field = "id"    -> [event EXCEPT !.id = TrimSpace(line.value)]
      [] line.field = "data"  -> [event EXCEPT !.data = Append(@, TrimSpace(line.value))]
      [] OTHER                -> event

\* A single data line with nothing but space is no data.
ParseSSEBlock(lines) ==
    LET event == FoldLeft(AddLine, NoEvent, lines)
    IN  IF event.data = <<Empty>> THEN [event EXCEPT !.data = <<>>] ELSE event

IsSeen(event) == event.event # Empty \/ event.data # <<>>

Seen(events) == Picked(events, {i \in DOMAIN events : IsSeen(events[i])})

Field(name, value) == IF value = Empty THEN <<>> ELSE <<[field |-> name, value |-> value]>>

\* Mutant: the data is written as one line and cut at its end.
SSELinesOneData(event) ==
    Field("event", event.event) \o Field("id", event.id)
      \o (IF event.data = <<>> THEN <<>> ELSE <<[field |-> "data", value |-> event.data[1]]>>)
      \o <<Blank>>

\* WriteSSEEvent.
SSELines(event) ==
    Field("event", event.event) \o Field("id", event.id)
      \o [i \in DOMAIN event.data |-> [field |-> "data", value |-> event.data[i]]]
      \o <<Blank>>

-----------------------------------------------------------------------------

StreamInit ==
    /\ mode \in {"passthrough", "transform"}
    /\ stream = "going"
    /\ read = <<>> /\ out = <<>> /\ pending = <<>> /\ observed = <<>>
    /\ plain = TRUE

Observe(events) == observed' = observed \o Seen(events)

\* A line is passed on at once; a blank one completes the event.
PassLine ==
    /\ mode = "passthrough" /\ stream = "going" /\ Len(read) < MaxLines
    /\ \E line \in Lines :
         /\ read' = Append(read, line)
         /\ out' = Append(out, line)
         /\ IF line = Blank
            THEN pending' = <<>> /\ Observe(<<ParseSSEBlock(pending)>>)
            ELSE pending' = Append(pending, line) /\ UNCHANGED observed
    /\ UNCHANGED <<mode, stream, plain>>

HoldLine ==
    /\ mode = "transform" /\ stream = "going" /\ Len(read) < MaxLines
    /\ \E line \in Lines \ {Blank} :
         /\ read' = Append(read, line)
         /\ pending' = Append(pending, line)
    /\ UNCHANGED <<mode, stream, out, observed, plain>>

\* What TransformSSE and FilterSSE may make of an event: they keep it, drop it,
\* or send it twice.  An empty list of the transformer's counts as no change.
Hooked(event) == {<<event>>, <<>>, <<event, event>>}

Written(events) ==
    CASE Len(events) = 0 -> <<>>
      [] Len(events) = 1 -> SSELines(events[1])
      [] OTHER           -> SSELines(events[1]) \o SSELines(events[2])

\* A blank line completes the block.  One that holds no event, id or data goes
\* out as it came.
FlushBlock ==
    /\ mode = "transform" /\ stream = "going" /\ Len(read) < MaxLines
    /\ read' = Append(read, Blank)
    /\ pending' = <<>>
    /\ LET event == ParseSSEBlock(pending)
       IN  \/ /\ ~IsSeen(event) /\ event.id = Empty
              /\ out' = out \o Append(pending, Blank)
              /\ UNCHANGED <<observed, plain>>
           \/ /\ IsSeen(event) \/ event.id # Empty
              /\ \E events \in Hooked(event) :
                   /\ out' = out \o Written(events)
                   /\ Observe(events)
                   /\ plain' = (plain /\ events = <<event>>)
    /\ UNCHANGED <<mode, stream>>

\* The upstream is through, breaks off, or sends a line beyond the scanner's
\* limit.  What is pending is still shown to the observers of a passthrough; a
\* transformed stream drops it.
EndStream ==
    /\ stream = "going"
    /\ stream' \in {"ended", "broken"}
    /\ IF mode = "passthrough" THEN Observe(<<ParseSSEBlock(pending)>>) ELSE UNCHANGED observed
    /\ UNCHANGED <<mode, read, out, pending, plain>>

StreamStep == PassLine \/ HoldLine \/ FlushBlock \/ EndStream

-----------------------------------------------------------------------------
(* What the client makes of it, by the definition of the format: a blank   *)
(* line dispatches an event if there was a data line since the last one,   *)
(* be it empty, and else none, be there a name.                            *)

\* The last line of a field wins.
LastValue(lines, field) ==
    LET of == {i \in DOMAIN lines : lines[i].field = field}
    IN  IF of = {} THEN Empty ELSE lines[CHOOSE i \in of : \A j \in of : j <= i].value

\* Data lines are put together.
DataOf(lines) ==
    LET data == Picked(lines, {i \in DOMAIN lines : lines[i].field = "data"})
    IN  [i \in DOMAIN data |-> data[i].value]

EventOf(lines) ==
    [event |-> LastValue(lines, "event"), id |-> LastValue(lines, "id"), data |-> DataOf(lines)]

\* The complete blocks of a text: the lines between one blank and the next.
Blocks(lines) ==
    LET blanks   == {i \in DOMAIN lines : lines[i] = Blank}
        start(k) == IF k = 1 THEN 1 ELSE Nth(blanks, k - 1) + 1
    IN  [k \in 1..Cardinality(blanks) |-> SubSeq(lines, start(k), Nth(blanks, k) - 1)]

\* The events dispatched at a client that reads these lines.
EventsIn(lines) ==
    LET blocks == Blocks(lines)
        events == [k \in DOMAIN blocks |-> EventOf(blocks[k])]
    IN  Picked(events, {k \in DOMAIN events : events[k].data # <<>>})

-----------------------------------------------------------------------------
(* What the code does with the space around a value, and with an event that *)
(* says nothing, is not what the format does.  The properties are about the *)
(* rest: the events with a text, but for the space around it.               *)

Stripped(event) ==
    [event |-> TrimSpace(event.event), id |-> TrimSpace(event.id),
     data |-> [i \in DOMAIN event.data |-> TrimSpace(event.data[i])]]

HasText(event) == event.data \notin {<<>>, <<Empty>>}

WithText(events) ==
    LET stripped == [i \in DOMAIN events |-> Stripped(events[i])]
    IN  Picked(stripped, {i \in DOMAIN events : HasText(stripped[i])})

\* Whoever observes the stream sees the events with a text the client gets, and
\* no others, in either mode, at any moment, through comments, ids, empty and
\* repeated fields; but for an event a passthrough was left with at the end,
\* which no blank completes.  Not so the others: a lone blank data line is an
\* event at the client and observed at most for its name, and a name without
\* data is observed and none.
ObservedIsSent ==
    \/ WithText(observed) = WithText(EventsIn(out))
    \/ /\ stream # "going" /\ mode = "passthrough"
       /\ WithText(observed) = WithText(Append(EventsIn(out), EventOf(pending)))

\* Parsing and writing anew loses no text: hooks that change no event leave the
\* client with the events with a text that the upstream completed.  What does get
\* lost is the space around values, an empty id, and with a name or an id the
\* lone blank data line, and with it an event at the client (WriteSSEEvent).
NothingLostInRewriting == plain => WithText(EventsIn(out)) = WithText(EventsIn(read))
=============================================================================

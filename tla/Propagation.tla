---------------------------- MODULE Propagation ----------------------------
(***************************************************************************)
(* A trace that travels: processes with the extension, and callers of      *)
(* other makes, send each other requests with headers and messages with a  *)
(* context behind the payload.  A script extracts, starts a span for what  *)
(* it handles, and injects its spans into what it sends, on top of what it *)
(* received.  Requests and messages may be handled twice and in any order; *)
(* a request whose sampling decision is no number ends the worker.         *)
(***************************************************************************)
EXTENDS TextCarrier

CONSTANTS
    Processes,   \* workers with the extension
    NewIds,      \* what Helper::generateId returns
    Callers,     \* the contexts of spans of other makes that send requests
    Percents,    \* the sampler of every process
    Payloads,    \* the texts of messages, some with bars of their own
    MaxSpans     \* bound on the spans of a behaviour

ASSUME PropagationAssumption ==
    /\ NewIds \subseteq Word
    /\ Callers \subseteq ContextType
    /\ Percents \in 0..100
    /\ <<>> \notin Payloads
    /\ MaxSpans \in Nat

VARIABLES
    headerFlag,   \* Tracer::header_flag of each process
    spans,        \* every span made, each with its caller, its process, the
                  \* carriers its script received (or the string it begins
                  \* with) and, a history, the payload of that string
    inFlight      \* what was sent: a carrier and the span it was injected for

vars == <<headerFlag, spans, inFlight>>

Outside == "outside"   \* the process of a caller of another make
NoCaller == 0

Span(c, caller, process, map, string, payload) ==
    [context |-> c, caller |-> caller, process |-> process,
     map |-> map, string |-> string, payload |-> payload]

\* Ids are random, so a new one is not in use.
UsedIds  == {spans[i].context.span : i \in DOMAIN spans}
FreshIds == NewIds \ UsedIds

Init ==
    /\ headerFlag = [p \in Processes |-> 0]
    /\ spans = <<>>
    /\ inFlight = {}

\* A caller of another make: 16 or 32 digits for the trace, capitalized names,
\* no parent if it is a root, and perhaps no decision.
ForeignMap(c, decided) ==
    LET high == IF c.high = 0 THEN <<>> ELSE Padded(Numeral(c.high, 16))
    IN [small |-> NoHeaders,
        capital |->
          [h \in Headers |->
            CASE h = "traceid" -> {high \o Padded(Numeral(c.low, 16))}
              [] h = "spanid" -> {Padded(Numeral(c.span, 16))}
              [] h = "parentspanid" -> IF c.parent = 0 THEN {} ELSE {Padded(Numeral(c.parent, 16))}
              [] h = "sampled" -> IF decided THEN {Numeral(c.flags, 10)} ELSE {}]]

\* ... or one in words, as older callers write it.
InWords(map) == [map EXCEPT !.capital["sampled"] = {<<29>>}]

ForeignMaps(c) == {ForeignMap(c, FALSE), ForeignMap(c, TRUE), InWords(ForeignMap(c, TRUE))}

Message(i, map, string) == [from |-> i, map |-> map, string |-> string]

CallFromOutside(c, map) ==
    /\ Len(spans) < MaxSpans
    /\ c.span \notin UsedIds
    /\ spans' = Append(spans, Span(c, NoCaller, Outside, EmptyMap, <<>>, <<>>))
    /\ inFlight' = inFlight \cup {Message(Len(spans) + 1, map, <<>>)}
    /\ UNCHANGED headerFlag

\* JaegerTracer::startSpan of a root.
RootFlags(flag) ==
    IF flag # 0 THEN {flag}
    ELSE {f \in {0, 1} : (f = 1 => Percents > 0) /\ (f = 0 => Percents < 100)}

RootContexts(flag) ==
    {[high |-> high, low |-> id, span |-> id, parent |-> 0, flags |-> f] :
        high \in NewIds, id \in FreshIds, f \in RootFlags(flag)}

\* JaegerTracer::startSpan with a context.
Child(c, id) == [c EXCEPT !.span = id, !.parent = c.span]

StartRoot(p) ==
    /\ Len(spans) < MaxSpans
    /\ \E c \in RootContexts(headerFlag[p]), payload \in Payloads :
          spans' = Append(spans, Span(c, NoCaller, p, EmptyMap, payload, payload))
    /\ UNCHANGED <<headerFlag, inFlight>>

\* The span of a script that handles m and extracted these contexts, one or none.
Handle(p, m, contexts, string, payload) ==
    LET Made(c, caller) == Span(c, caller, p, m.map, string, payload)
    IN /\ Len(spans) < MaxSpans
       /\ IF contexts = {}
          THEN \E c \in RootContexts(headerFlag'[p]) : spans' = Append(spans, Made(c, NoCaller))
          ELSE \E c \in contexts, id \in FreshIds :
                  spans' = Append(spans, Made(Child(c, id), m.from))
       /\ UNCHANGED inFlight

HandleRequest(p, m) ==
    /\ m.string = <<>>
    /\ ~FlagThrows(m.map)
    /\ headerFlag' = [headerFlag EXCEPT ![p] = HeaderFlag(m.map, @)]
    /\ \E payload \in Payloads : Handle(p, m, ExtractMap(m.map), payload, payload)

\* The exception is none of PHP's: it leaves the extension and ends the worker.
\* The next one starts with no flag.
EndByRequest(p, m) ==
    /\ m.string = <<>>
    /\ FlagThrows(m.map)
    /\ headerFlag' = [headerFlag EXCEPT ![p] = 0]
    /\ UNCHANGED <<spans, inFlight>>

HandleMessage(p, m) ==
    /\ m.string # <<>>
    /\ UNCHANGED headerFlag
    /\ Handle(p, m, ExtractString(m.string), m.string, spans[m.from].payload)

\* A span's script injects it into headers: new ones, or those it received.
SendRequest(i, map) ==
    /\ spans[i].process # Outside
    /\ inFlight' = inFlight \cup {Message(i, InjectMap(spans[i].context, map), <<>>)}
    /\ UNCHANGED <<headerFlag, spans>>

\* ... or behind its payload, in the place of the context it received there.
SendMessage(i) ==
    /\ spans[i].process # Outside
    /\ inFlight' = inFlight \cup
          {Message(i, EmptyMap, InjectString(spans[i].context, spans[i].string))}
    /\ UNCHANGED <<headerFlag, spans>>

Next ==
    \/ \E c \in Callers : \E map \in ForeignMaps(c) : CallFromOutside(c, map)
    \/ \E p \in Processes : StartRoot(p)
    \/ \E p \in Processes, m \in inFlight :
          HandleRequest(p, m) \/ EndByRequest(p, m) \/ HandleMessage(p, m)
    \/ \E i \in DOMAIN spans : SendMessage(i)
    \/ \E i \in DOMAIN spans : \E map \in {EmptyMap, spans[i].map} : SendRequest(i, map)

Spec == Init /\ [][Next]_vars

-----------------------------------------------------------------------------
(* What carriers must do for one hop. *)

Ids      == {0} \cup NewIds \cup UNION {{c.high, c.low, c.span, c.parent} : c \in Callers}
Flags    == {0, 1} \cup {c.flags : c \in Callers}
Contexts == [high : Ids, low : Ids, span : Ids, parent : Ids, flags : Flags]

\* What was injected into new headers, or as a text, is what is extracted;
\* of what other makes send, everything or nothing.
CarriersRead ==
    \A c \in Contexts :
        /\ Parse(ContextText(c)) = {c}
        /\ ExtractMap(InjectMap(c, EmptyMap)) = {c}
        /\ Stoul(Numeral(c.flags, 10), 10) = {c.flags}
        /\ \A decided \in BOOLEAN : ExtractMap(ForeignMap(c, decided)) \subseteq {c}
        /\ c.parent # 0 => ExtractMap(ForeignMap(c, TRUE)) = {c}

-----------------------------------------------------------------------------
(* Properties *)

\* Over any number of hops, through headers and messages, new ones and reused
\* ones with the headers of an earlier hop still in them, a span continues the
\* trace of the span that was injected, under the same sampling decision, and
\* its parent is that span.
TraceSurvives ==
    \A i \in DOMAIN spans : spans[i].caller # NoCaller =>
        LET c == spans[i].context
            k == spans[spans[i].caller].context
        IN /\ c.high = k.high /\ c.low = k.low /\ c.flags = k.flags
           /\ c.parent = k.span

\* A request that has all four headers, and a message that was injected into,
\* is never handled as the start of a new trace.
NeverStartsAnew ==
    \A i \in DOMAIN spans :
        /\ spans[i].process # Outside
        /\ \/ \A h \in Headers : Lowercase(spans[i].map)[h] # {}
           \/ spans[i].string # spans[i].payload
        => spans[i].caller # NoCaller

\* However often a message is handled and sent on, it is the payload that its first
\* sender began with, up to that payload's own first bar, and behind it one context,
\* that of its last sender.  (TextCarrier::inject takes a bar of the payload for its
\* own: the first hop loses what is behind it, no later hop loses more.)
PayloadKept ==
    \A m \in inFlight : m.string # <<>> =>
        m.string = <<Head(spans[m.from].payload), ContextText(spans[m.from].context)>>
=============================================================================

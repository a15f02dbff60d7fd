------------------------------ MODULE SpanData ------------------------------
(***************************************************************************)
(* What scripts put into spans: Tracer::addTags, addLogs and print, and    *)
(* startExternalTracing, which makes and tags a span for an uri, unless    *)
(* the ini settings exempt its host.  Every call prints to the debug log   *)
(* on its way and may stop there, with an exception or for ever: a call is *)
(* the list of its steps, and an exception drops the rest of them.  Lines  *)
(* printed one right after the other are one step.                         *)
(***************************************************************************)
EXTENDS ExternalUri, Printer

CONSTANTS
    Spans,     \* the spans of one request, in the order they are made
    TagLists,  \* what scripts pass to addTags
    LogSizes,  \* the numbers of fields they pass to addLogs
    MaxLogs,   \* bounds the logs of a span
    Uris,      \* what they pass to startExternalTracing
    Inis       \* what the two ini settings may be, [none, empty]

ASSUME SpanDataAssumption ==
    /\ Spans \subseteq Nat \ {0}
    /\ TagLists \subseteq Seq([key : STRING, value : STRING, text : BOOLEAN])
    /\ LogSizes \subseteq Nat
    /\ Inis \subseteq [none : Seq(STRING), empty : Seq(STRING)]

VARIABLES
    tracer,  \* *Tracer::global_tracer: none, noop, jaeger; deleted, if it dangles
    udp,     \* Tracer::udp_transport
    active,  \* _activeSpans, of which the last is current
    made,    \* how many spans the request has made
    tags,    \* _tags of each span
    logs,    \* _logs of each span: their numbers of fields
    steps,   \* what is left of the call under way
    ini,     \* the settings of the request
    loaded,  \* what the process has read of them, once
    call     \* what the last call was asked to do, for the properties

spanVars == <<active, made, tags, logs>>
vars     == <<printerVars, tracer, udp, spanVars, steps, ini, loaded, call>>

-----------------------------------------------------------------------------
(* Steps *)

Line(skip)      == [do |-> "line", skip |-> skip]
FatalLine       == [do |-> "fatal"]    \* in a destructor or in onIdle
ScriptLine      == [do |-> "print"]
DeleteTracer    == [do |-> "delete"]
MakeTracer(k)   == [do |-> "make", kind |-> k]
Store(s)        == [do |-> "store", span |-> s]
AddTag(s, tag)  == [do |-> "tag", span |-> s, tag |-> tag]
AddLog(s, size) == [do |-> "log", span |-> s, size |-> size]
Forget          == [do |-> "forget"]

Tag(key, value, text) == [key |-> key, value |-> value, text |-> text]

\* JaegerSpan::addTags, JaegerSpan::addLogs
TagSteps(s, list) ==
    <<Line(TRUE)>> \o (IF udp THEN [i \in DOMAIN list |-> AddTag(s, list[i])] ELSE <<>>)

LogSteps(s, size) ==
    <<Line(TRUE)>> \o (IF udp THEN [i \in 1 .. size |-> Line(TRUE)] \o <<AddLog(s, size)>> ELSE <<>>)

\* createCurlTagParamsList
CurlTags(uri) == <<Tag("is_external", "1", FALSE), Tag("http.uri", uri, TRUE),
                   Tag("caller", "c", TRUE), Tag("type", "t", TRUE)>>

Current == IF active = <<>> THEN 0 ELSE Last(active)

NotLoaded == [none |-> <<"-">>, empty |-> <<"-">>]
NoCall    == [name |-> "none"]

Init ==
    /\ PrinterInit
    /\ tracer = "none" /\ udp = TRUE
    /\ active = <<>> /\ made = 0
    /\ tags = [s \in Spans |-> <<>>] /\ logs = [s \in Spans |-> <<>>]
    /\ steps = <<>>
    /\ ini \in Inis /\ loaded = NotLoaded
    /\ call = NoCall

-----------------------------------------------------------------------------
(* Calls *)

Idle == steps = <<>> /\ ~hung

Begin(asked, list) == Idle /\ call' = asked /\ steps' = list

\* Tracer::init and initInternal.
InitTracer(kind, debug, transport) ==
    /\ tracer # "deleted"
    /\ Begin(NoCall, (IF tracer = "none" THEN <<>> ELSE <<FatalLine, DeleteTracer>>)
                     \o <<Line(kind = "jaeger"), MakeTracer(kind), Line(FALSE)>>)
    /\ enabled' = debug /\ udp' = transport
    /\ UNCHANGED <<locked, bad, threw, hung, tracer, spanVars, ini, loaded>>

Asked(asked, list) ==
    Begin(asked, list) /\ UNCHANGED <<printerVars, tracer, udp, spanVars, ini, loaded>>

StartSpan(s) ==
    /\ tracer = "jaeger" /\ s = made + 1
    /\ Asked(NoCall, <<Line(TRUE), Store(s)>>)

FinishSpan ==
    /\ tracer = "jaeger" /\ Current # 0
    /\ Begin(NoCall, <<>>)
    /\ active' = Front(active)
    /\ UNCHANGED <<printerVars, tracer, udp, made, tags, logs, ini, loaded>>

addTags(list) ==
    \/ /\ tracer = "jaeger" /\ Current # 0
       /\ Asked([name |-> "addTags", span |-> Current, before |-> tags[Current],
                 list |-> IF udp THEN list ELSE <<>>, threw |-> FALSE],
                TagSteps(Current, list))
    \/ tracer = "noop" /\ Asked(NoCall, <<Line(FALSE)>>)

addLogs(size) ==
    /\ tracer = "jaeger" /\ Current # 0 => Len(logs[Current]) < MaxLogs
    /\ tracer # "deleted"
    /\ Asked(NoCall, <<Line(TRUE)>> \o (IF tracer = "jaeger" /\ Current # 0
                                        THEN LogSteps(Current, size) ELSE <<>>))

print == Asked(NoCall, <<ScriptLine>>)

\* startExternalTracing reads the settings the first time it is called.
Ini == IF loaded = NotLoaded THEN ini ELSE loaded

Skipped(uri) == ~hostsFilterPassed(Stripped(uri), parseHostsStr(Ini.none))
Tagged(uri)  == hostsFilterPassed(Stripped(uri), parseHostsStr(Ini.empty))

External(uri, s) == [name |-> "external", uri |-> uri, span |-> s, threw |-> FALSE]

SkipExternal(uri) ==
    /\ Skipped(uri)
    /\ loaded' = Ini
    /\ Begin(External(uri, 0), <<Line(TRUE)>>)
    /\ UNCHANGED <<printerVars, tracer, udp, spanVars, ini>>

ExternalSteps(s, uri) ==
    <<Store(s)>> \o (IF Tagged(uri) THEN TagSteps(s, CurlTags(Stripped(uri))) ELSE <<>>)
    \o <<Line(TRUE)>>

ExternalInTrace(s, uri) ==
    /\ tracer = "jaeger" /\ Current # 0 /\ s = made + 1
    /\ ~Skipped(uri)
    /\ loaded' = Ini
    /\ Begin(External(uri, s), <<Line(FALSE), Line(TRUE)>> \o ExternalSteps(s, uri))
    /\ UNCHANGED <<printerVars, tracer, udp, spanVars, ini>>

\* Without a span to attach it to, in a tracer of its own, which turns debugging off.
ExternalAlone(s, uri) ==
    /\ tracer \in {"none", "jaeger"} /\ Current = 0 /\ s = made + 1
    /\ ~Skipped(uri)
    /\ loaded' = Ini
    /\ enabled' = FALSE /\ udp' = TRUE /\ tracer' = "jaeger"
    /\ Begin(External(uri, s), <<Line(TRUE), Store(s)>>
             \o (IF Tagged(uri) THEN [i \in 1 .. 4 |-> AddTag(s, CurlTags(Stripped(uri))[i])]
                 ELSE <<>>))
    /\ UNCHANGED <<locked, bad, threw, hung, spanVars, ini>>

ExternalNoop(uri) ==
    /\ tracer = "noop" /\ ~Skipped(uri)
    /\ loaded' = Ini
    /\ Begin(NoCall, <<Line(FALSE)>>)
    /\ UNCHANGED <<printerVars, tracer, udp, spanVars, ini>>

\* The end of a request.
OnIdle ==
    /\ tracer # "deleted"
    /\ Asked(NoCall, (IF tracer = "none" THEN <<>> ELSE <<FatalLine, DeleteTracer>>) \o <<Forget>>)

-----------------------------------------------------------------------------
(* The steps of the call under way. *)

Step(kind) == steps # <<>> /\ ~hung /\ Head(steps).do = kind

DoLine ==
    /\ Step("line") /\ PrintLine(Head(steps).skip)
    /\ steps' = Tail(steps)
    /\ UNCHANGED <<tracer, udp, spanVars, ini, loaded, call>>

DoOtherLine ==
    /\ Step("fatal") \/ Step("print")
    /\ PrintLine(FALSE)
    /\ steps' = Tail(steps)
    /\ UNCHANGED <<tracer, udp, spanVars, ini, loaded, call>>

DoDelete ==
    /\ Step("delete")
    /\ tracer' = "deleted" /\ active' = <<>>
    /\ steps' = Tail(steps)
    /\ UNCHANGED <<printerVars, udp, made, tags, logs, ini, loaded, call>>

DoMake ==
    /\ Step("make")
    /\ tracer' = Head(steps).kind /\ active' = <<>>
    /\ steps' = Tail(steps)
    /\ UNCHANGED <<printerVars, udp, made, tags, logs, ini, loaded, call>>

DoStore ==
    /\ Step("store")
    /\ active' = Append(active, Head(steps).span) /\ made' = Head(steps).span
    /\ steps' = Tail(steps)
    /\ UNCHANGED <<printerVars, tracer, udp, tags, logs, ini, loaded, call>>

HasKey(s, key) == \E i \in DOMAIN tags[s] : tags[s][i].key = key

DoTagOverwrites ==   \* mutant: a key that the span has gets the new value
    /\ Step("tag")
    /\ LET s == Head(steps).span
           tag == Head(steps).tag
       IN /\ IF tag.text THEN PrintLine(TRUE) ELSE UNCHANGED printerVars
          /\ tags' = [tags EXCEPT ![s] = Append(SelectSeq(@, LAMBDA t : t.key # tag.key), tag)]
    /\ steps' = Tail(steps)
    /\ UNCHANGED <<tracer, udp, active, made, logs, ini, loaded, call>>

\* A key that the span has keeps its value, and no Tag is made; a Tag with a text prints.
DoTag ==
    /\ Step("tag")
    /\ LET s == Head(steps).span
           tag == Head(steps).tag
       IN \/ HasKey(s, tag.key) /\ UNCHANGED <<printerVars, tags>>
          \/ /\ ~HasKey(s, tag.key)
             /\ IF tag.text THEN PrintLine(TRUE) ELSE UNCHANGED printerVars
             /\ tags' = [tags EXCEPT ![s] = Append(@, tag)]
    /\ steps' = Tail(steps)
    /\ UNCHANGED <<tracer, udp, active, made, logs, ini, loaded, call>>

DoLog ==
    /\ Step("log")
    /\ logs' = [logs EXCEPT ![Head(steps).span] = Append(@, Head(steps).size)]
    /\ steps' = Tail(steps)
    /\ UNCHANGED <<printerVars, tracer, udp, active, made, tags, ini, loaded, call>>

\* The request is over; the next one has its own settings.
NewRequest ==
    /\ tracer' = "none" /\ active' = <<>> /\ made' = 0
    /\ tags' = [s \in Spans |-> <<>>] /\ logs' = [s \in Spans |-> <<>>]
    /\ steps' = <<>> /\ ini' \in Inis /\ call' = NoCall

DoForget == Step("forget") /\ NewRequest /\ UNCHANGED <<printerVars, udp, loaded>>

\* A new process in the place of one that died.
Respawn ==
    /\ NewRequest
    /\ enabled' = FALSE /\ locked' = FALSE /\ bad' = FALSE /\ threw' = FALSE /\ hung' = FALSE
    /\ udp' = TRUE /\ loaded' = NotLoaded

Prints ==
    \/ Step("line") \/ Step("print")
    \/ Step("tag") /\ Head(steps).tag.text /\ ~HasKey(Head(steps).span, Head(steps).tag.key)

\* The script gets the exception, or Tracer::print drops it.
Throw ==
    /\ Prints /\ PrintThrows
    /\ steps' = <<>>
    /\ call' = IF call = NoCall THEN call ELSE [call EXCEPT !.threw = TRUE]
    /\ UNCHANGED <<tracer, udp, spanVars, ini, loaded>>

\* An exception that leaves a destructor or a callback of the engine ends the process.
Terminate == Step("fatal") /\ Throws /\ Respawn

Hang ==
    /\ Prints \/ Step("fatal")
    /\ PrintHangs
    /\ UNCHANGED <<tracer, udp, spanVars, steps, ini, loaded, call>>

\* A call finds the pointer to a tracer that was deleted: one of the things that
\* may happen, the one that is modelled, is that the process crashes.
UseDeleted == Idle /\ tracer = "deleted" /\ Respawn

-----------------------------------------------------------------------------
Calls ==
    \/ \E kind \in {"noop", "jaeger"}, debug \in BOOLEAN, transport \in BOOLEAN :
          InitTracer(kind, debug, transport)
    \/ \E s \in Spans : StartSpan(s)
    \/ FinishSpan
    \/ \E list \in TagLists : addTags(list)
    \/ \E size \in LogSizes : addLogs(size)
    \/ print
    \/ \E uri \in Uris : SkipExternal(uri) \/ ExternalNoop(uri)
    \/ \E uri \in Uris, s \in Spans : ExternalInTrace(s, uri) \/ ExternalAlone(s, uri)
    \/ OnIdle

Steps ==
    \/ DoLine \/ DoOtherLine \/ DoDelete \/ DoMake \/ DoStore \/ DoTag \/ DoLog \/ DoForget
    \/ Throw \/ Terminate \/ Hang

Next == Calls \/ Steps \/ UseDeleted

Spec == Init /\ [][Next]_vars

-----------------------------------------------------------------------------
(* Properties. *)

\* One of the texts between the semicolons of the setting is how the uri begins; the
\* text after a last semicolon counts, and is how every uri begins.
Listed(setting, uri) ==
    \E i \in 1 .. Len(setting) + 1, j \in 0 .. Len(setting) :
        /\ setting # <<>>
        /\ i = 1 \/ (i > 1 /\ setting[i - 1] = ";")
        /\ j = Len(setting) \/ (j < Len(setting) /\ setting[j + 1] = ";")
        /\ j >= i - 1 /\ \A k \in i .. j : setting[k] # ";"
        /\ IsPrefix(SubSeq(setting, i, j), uri)

\* startExternalTracing made a span just if no_spans_for_hosts does not list the host,
\* and tagged it just if empty_spans_for_hosts does not, in the settings that were in
\* force when this process read them.
ExternalAsListed ==
    call.name = "external" /\ steps = <<>> /\ ~call.threw =>
        /\ call.span = 0 <=> Listed(loaded.none, Stripped(call.uri))
        /\ call.span # 0 /\ udp =>
               (HasKey(call.span, "is_external") <=> ~Listed(loaded.empty, Stripped(call.uri)))

Keys(list) == {list[i].key : i \in DOMAIN list}

\* Where list has the key for the first time.
First(list, key) ==
    CHOOSE i \in DOMAIN list : list[i].key = key /\ \A j \in 1 .. i - 1 : list[j].key # key

\* held is before and then the first tag of each key among the first n of list that
\* before does not have, in the order of list.
Extends(held, before, list, n) ==
    LET new   == Len(before) + 1 .. Len(held)
        at(i) == First(list, held[i].key)
    IN /\ IsPrefix(before, held)
       /\ Keys(held) = Keys(before) \cup {list[i].key : i \in 1 .. n}
       /\ \A i \in new : held[i].key \notin Keys(before) /\ held[i] = list[at(i)]
       /\ \A i, j \in new : i < j => at(i) < at(j)

\* addTags "keeps the order of tags": the first value of each key stays, new keys follow
\* in the order of the call; an exception on the way leaves the first few of them.
TagsAsGiven ==
    call.name = "addTags" =>
        \E n \in 0 .. Len(call.list) :
            /\ Extends(tags[call.span], call.before, call.list, n)
            /\ steps = <<>> /\ ~call.threw => n = Len(call.list)

\* A process hangs on its own mutex, or keeps a pointer to a tracer that is deleted,
\* only after PrintLine has thrown: as long as the log can be written or at least
\* opened, debugging stops nothing.
StuckOnlyAfterThrow ==
    hung \/ (steps = <<>> /\ tracer = "deleted") => threw
=============================================================================

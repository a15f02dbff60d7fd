----------------------------- MODULE Jaegerize -----------------------------
(***************************************************************************)
(* Helper::jaegerizeTracer and what it calls: from the extension's objects *)
(* to the structs Thrift writes.  A struct is a function from the ids of   *)
(* its fields to their values; a field that is not in the domain is one    *)
(* whose __isset is false.  Texts are sequences of bytes; the wording of   *)
(* the notes is left out.                                                  *)
(***************************************************************************)
EXTENDS Integers, SequencesExt

TagType == [STRING |-> 0, DOUBLE |-> 1, BOOL |-> 2, LONG |-> 3, BINARY |-> 4]

ValueFieldBinary ==   \* mutant: texts are set as binary values, vType says text
    [STRING |-> 7, DOUBLE |-> 4, BOOL |-> 5]

\* The field of a thrift Tag that holds a value of that type.
ValueField == [STRING |-> 3, DOUBLE |-> 4, BOOL |-> 5]

JaegerTag(tag) ==
    [id \in {1, 2, ValueField[tag.type]} |->
        CASE id = 1 -> tag.key [] id = 2 -> <<TagType[tag.type]>> [] OTHER -> tag.value]

JaegerTags(tags) == [i \in DOMAIN tags |-> JaegerTag(tags[i])]

JaegerLog(log) == <<<<log.timestamp>>, JaegerTags(log.fields)>>

JaegerProcess(process) == <<process.serviceName, JaegerTags(process.tags)>>

Info(text) == <<[key |-> <<105>>, type |-> "STRING", value |-> text]>>
PartText(part) == <<80, part>>
OmittedText == <<79>>

\* What flush asks for: logs indStart + 1 to indStart + indCount, as a part; badLog
\* leaves them out; generateId gives freshId, and the clock now.
Partial(span, ask) ==
    \/ ask.limit = "WHOLE" /\ Len(span.logs) # ask.start + ask.count
    \/ ask.start # 0
    \/ ask.count # Len(span.logs)

KeepId(span, ask) == ask.part # 1 /\ Len(span.logs) = ask.start + ask.count

NotesAtTheTime(span, ask) ==   \* mutant: the notes do not come before the logs
    LET time == span.logs[ask.start + 1].timestamp
        omitted == [timestamp |-> time, fields |-> Info(OmittedText)]
    IN <<[timestamp |-> time, fields |-> Info(PartText(ask.part))]>>
       \o (IF ask.badLog THEN <<omitted>> ELSE <<>>)

Notes(span, ask) ==
    LET time == span.logs[ask.start + 1].timestamp - 1
        omitted == [timestamp |-> time + 1, fields |-> Info(OmittedText)]
    IN <<[timestamp |-> time, fields |-> Info(PartText(ask.part))]>>
       \o (IF ask.badLog THEN <<omitted>> ELSE <<>>)

Logs(span, ask) ==
    (IF ask.badLog THEN <<>> ELSE SubSeq(span.logs, ask.start + 1, ask.start + ask.count))
    \o (IF Partial(span, ask) THEN Notes(span, ask) ELSE <<>>)

IsPart(span, ask) == span.logs # <<>> /\ Partial(span, ask)

Reference(context) ==
    <<context.refType, <<context.traceIdLow>>, <<context.traceIdHigh>>, <<context.parentId>>>>

\* The fields a span has only if there is something to say.
Optional(span) ==
    {id \in {6, 10, 11} :
        \/ id = 6 /\ span.context.refType # <<>> /\ span.context.traceIdLow # span.context.spanId
        \/ id = 10 /\ span.tags # <<>>
        \/ id = 11 /\ span.logs # <<>>}

SpanStruct(span, spanId, startTime, now, logs) ==
    LET c == span.context
        duration == (IF span.endTime # 0 THEN span.endTime ELSE now) - span.startTime
    IN [id \in 1..5 \union 7..9 \union Optional(span) |->
           CASE id = 1  -> <<c.traceIdLow>>
             [] id = 2  -> <<c.traceIdHigh>>
             [] id = 3  -> <<spanId>>
             [] id = 4  -> <<c.parentId>>
             [] id = 5  -> span.operationName
             [] id = 6  -> <<Reference(c)>>
             [] id = 7  -> <<c.flags>>
             [] id = 8  -> <<startTime>>
             [] id = 9  -> <<duration>>
             [] id = 10 -> JaegerTags(span.tags)
             [] id = 11 -> [i \in DOMAIN logs |-> JaegerLog(logs[i])]]

\* Version 2: a range of the logs.
JaegerSpan(span, ask) ==
    LET otherId == IsPart(span, ask) /\ ~KeepId(span, ask)
        later == IsPart(span, ask) /\ ask.part # 1
    IN SpanStruct(span, IF otherId THEN ask.freshId ELSE span.context.spanId,
                  span.startTime + (IF later THEN ask.part ELSE 0), ask.now, Logs(span, ask))

\* Version 1, as flush over TSocket uses it: all logs, the latest first.
WholeSpan(span, now) ==
    SpanStruct(span, span.context.spanId, span.startTime, now, Reverse(span.logs))

\* isSampled or isDebug
Reportable(flags) == flags % 4 # 0

JaegerBatch(process, span, ask) ==
    <<JaegerProcess(process),
      IF Reportable(span.context.flags) THEN <<JaegerSpan(span, ask)>> ELSE <<>>>>

ToReport(spans) ==
    LET kept[n \in 0..Len(spans)] ==
            IF n = 0 THEN <<>>
            ELSE IF Reportable(spans[n].context.flags) THEN Append(kept[n - 1], spans[n])
            ELSE kept[n - 1]
    IN kept[Len(spans)]

\* All spans of the tracer.
WholeBatch(process, spans, now) ==
    <<JaegerProcess(process),
      [i \in DOMAIN ToReport(spans) |-> WholeSpan(ToReport(spans)[i], now)]>>
=============================================================================

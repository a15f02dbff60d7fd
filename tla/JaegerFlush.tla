---------------------------- MODULE JaegerFlush ----------------------------
(***************************************************************************)
(* JaegerTracer::flush: every span the tracer stores is turned into one or *)
(* more Thrift batches, each meant to fit a UDP packet; the batches are    *)
(* handed to the reporter and the spans are dropped.  A span whose logs do *)
(* not fit one packet is cut into parts by a search over fractions of the  *)
(* logs that are left.                                                     *)
(*                                                                         *)
(* Bytes are abstracted: a span has a size of its own (tags, process,      *)
(* context) and a size per log, and a batch costs their sum.               *)
(***************************************************************************)
EXTENDS Integers, Sequences, Functions

CONSTANTS
    Spans,        \* the spans of one tracer (JaegerTracer::_spans)
    Shapes,       \* what a span may hold: [sampled, base, logs]
    Reporters,    \* the kinds of IReporter the tracer may be built with
    MaxSpanBytes, \* MAXSPANBYTES, what a packet may carry
    UdpLimit,     \* the largest datagram sendto accepts
    EmptyBytes,   \* a batch with its process and no span
    NoteBytes,    \* one of the two "info" logs flush adds to a part
    NoSpan,       \* no span is being parsed
    NoBatch       \* nothing has been jaegerized yet

(* enum class LogCount, with the numbers the loop computes with. *)

ERROR      == -1
ONE        == 0
WHOLE      == 4
UPPERBOUND == 5
PARTIAL    == 6
LogCount   == ERROR..PARTIAL

\* The arguments of a jaegerizeTracer call.
Batch == [span : Spans, logLimit : LogCount, indStart : Nat, indCount : Nat,
          part : Nat, badLog : BOOLEAN]

ASSUME SizesAssumption ==
    /\ {MaxSpanBytes, UdpLimit, EmptyBytes, NoteBytes} \subseteq Nat
    /\ EmptyBytes <= MaxSpanBytes
    /\ MaxSpanBytes <= UdpLimit

ASSUME ShapesAssumption ==
    /\ Shapes \subseteq [sampled : BOOLEAN, base : Nat, logs : Seq(Nat)]
    /\ NoSpan \notin Spans
    /\ NoBatch \notin Batch
    /\ Reporters \subseteq {"UdpReporter", "FileReporter"}

VARIABLES
    shape,        \* the stored spans and what each holds
    isSampled,    \* JaegerTracer::_isSampled
    udpTransport, \* Tracer::udp_transport
    reporter,     \* _reporter->_name()
    stored,       \* the spans still in _spans
    pc,           \* where flush stands
    todo,         \* the spans the loop has not reached
    cur,          \* the span being parsed
    indexStart, indexCount, incLogs, part, skipBadLog,  \* the loop's locals
    batch,        \* the arguments of the last jaegerizeTracer call
    data,         \* the vector of serialized batches
    emitted,      \* how many of them the reporter was given
    sent          \* the indexes of data that left through the socket

tracer   == <<shape, isSampled, udpTransport, reporter>>
position == <<indexStart, indexCount, incLogs, part, skipBadLog>>
vars     == <<tracer, stored, pc, todo, cur, position, batch, data, emitted, sent>>

-----------------------------------------------------------------------------
LogsOf(s)    == shape[s].logs
LogNumber(s) == Len(LogsOf(s))

(* jaegerizeTracer and jaegerizeSpan, as functions of their arguments. *)

\* The range of logs asked for is not the whole list: the part is labelled.
Partial(b) ==
    /\ LogNumber(b.span) > 0
    /\ \/ b.logLimit = WHOLE /\ LogNumber(b.span) # b.indStart + b.indCount
       \/ b.indStart # 0
       \/ b.indCount # LogNumber(b.span)

\* The last of several parts keeps the span's id.
KeepId(b) ==
    /\ LogNumber(b.span) > 0
    /\ b.part # 1
    /\ LogNumber(b.span) = b.indStart + b.indCount

\* FALSE: the batch carries an id from Helper::generateId.
HasOwnId(b) == ~Partial(b) \/ KeepId(b)

\* The "One log was ommited due its size" note.
HasOmission(b) == Partial(b) /\ b.badLog

\* The logs the batch stands for, by position (from 0), and those it carries.
Covered(b) == b.indStart .. (b.indStart + b.indCount - 1)
Carried(b) == IF b.badLog THEN {} ELSE Covered(b)

\* batchData.length().  A read outside _logs would be undefined; RangeInLogs
\* excludes it.
Bytes(b) ==
    IF ~shape[b.span].sampled THEN EmptyBytes
    ELSE EmptyBytes + shape[b.span].base
         + SumFunctionOnSet(LogsOf(b.span),
                            {i \in DOMAIN LogsOf(b.span) : i - 1 \in Carried(b)})
         + (IF Partial(b) THEN NoteBytes ELSE 0)
         + (IF HasOmission(b) THEN NoteBytes ELSE 0)

Fits(b) == Bytes(b) <= MaxSpanBytes

\* One iteration of the search: the share of the m logs that are left, rounded
\* to the nearest number; at least one log if the span has any.
Share(m, inc) == (m * inc + 2) \div 4
CountOfAllLogs(s, start, inc) ==   \* mutant: the logs already sent count too
    LET c == Share(LogNumber(s), inc) IN IF c <= 1 /\ LogNumber(s) # 0 THEN 1 ELSE c

Count(s, start, inc) ==
    LET c == Share(LogNumber(s) - start, inc)
    IN IF c <= 1 /\ LogNumber(s) # 0 THEN 1 ELSE c

IndexEnd == IF indexStart + indexCount <= 0 THEN 0
            ELSE indexStart + indexCount - 1

-----------------------------------------------------------------------------

\* A sampled span has marked its tracer (TracerWorker!SampledSpanMarksTracer).
Init ==
    /\ shape \in [Spans -> Shapes]
    /\ isSampled \in BOOLEAN
    /\ (\E s \in Spans : shape[s].sampled) => isSampled
    /\ udpTransport \in BOOLEAN
    /\ reporter \in Reporters
    /\ stored = Spans
    /\ pc = "flush"
    /\ todo = {}
    /\ cur = NoSpan
    /\ indexStart = 0 /\ indexCount = 0 /\ incLogs = UPPERBOUND
    /\ part = 1 /\ skipBadLog = FALSE
    /\ batch = NoBatch
    /\ data = <<>>
    /\ emitted = 0
    /\ sent = {}

\* flush() without anything to do: not sampled, or no UDP transport.
Return ==
    /\ pc = "flush"
    /\ ~isSampled \/ ~udpTransport
    /\ pc' = "done"
    /\ UNCHANGED <<tracer, stored, todo, cur, position, batch, data, emitted, sent>>

\* The UDP reporter parses the spans, the file reporter has no code for it.
Begin ==
    /\ pc = "flush"
    /\ isSampled /\ udpTransport
    /\ pc' = "span"
    /\ todo' = IF reporter = "UdpReporter" THEN stored ELSE {}
    /\ UNCHANGED <<tracer, stored, cur, position, batch, data, emitted, sent>>

NextSpanSkipsWhole(s) ==   \* mutant: the search starts one share too low
    /\ pc = "span" /\ s \in todo
    /\ cur' = s /\ todo' = todo \ {s} /\ pc' = "try"
    /\ indexStart' = 0 /\ indexCount' = 0 /\ part' = 1
    /\ incLogs' = WHOLE /\ skipBadLog' = FALSE
    /\ UNCHANGED <<tracer, stored, batch, data, emitted, sent>>

NextSpanKeepsIndex(s) ==   \* mutant: indexStart declared outside the loop
    /\ pc = "span" /\ s \in todo
    /\ cur' = s /\ todo' = todo \ {s} /\ pc' = "try"
    /\ indexCount' = 0 /\ part' = 1 /\ incLogs' = UPPERBOUND /\ skipBadLog' = FALSE
    /\ UNCHANGED <<tracer, stored, indexStart, batch, data, emitted, sent>>

\* for (auto& iter : _spans), in the order of an unordered_map.
NextSpan(s) ==
    /\ pc = "span"
    /\ s \in todo
    /\ cur' = s
    /\ todo' = todo \ {s}
    /\ indexStart' = 0 /\ indexCount' = 0 /\ part' = 1
    /\ incLogs' = UPPERBOUND /\ skipBadLog' = FALSE
    /\ pc' = "try"
    /\ UNCHANGED <<tracer, stored, batch, data, emitted, sent>>

\* One pass of the inner do-while with the share inc of the logs left.
Jaegerize(inc, bad) ==
    LET count == Count(cur, indexStart, inc)
        b == [span |-> cur, logLimit |-> inc, indStart |-> indexStart,
              indCount |-> count, part |-> part, badLog |-> bad]
    IN /\ incLogs' = inc
       /\ skipBadLog' = bad
       /\ indexCount' = count
       /\ batch' = b
       /\ pc' = IF Fits(b) THEN "push" ELSE "try"

AttemptWithoutEnd ==   \* mutant: no test for LogCount::ERROR
    /\ pc = "try"
    /\ Jaegerize(incLogs - 1, skipBadLog)
    /\ UNCHANGED <<tracer, stored, todo, cur, indexStart, part, data, emitted, sent>>

Attempt ==
    /\ pc = "try"
    /\ incLogs > ONE
    /\ Jaegerize(incLogs - 1, skipBadLog)
    /\ UNCHANGED <<tracer, stored, todo, cur, indexStart, part, data, emitted, sent>>

SkipBadLogForgetsFlag ==   \* mutant: skipBadLog is not set
    /\ pc = "try"
    /\ incLogs = ONE /\ ~skipBadLog
    /\ Jaegerize(ONE, FALSE)
    /\ UNCHANGED <<tracer, stored, todo, cur, indexStart, part, data, emitted, sent>>

\* One log alone was too large: the same range again, without the log.
SkipBadLog ==
    /\ pc = "try"
    /\ incLogs = ONE /\ ~skipBadLog
    /\ Jaegerize(ONE, TRUE)
    /\ UNCHANGED <<tracer, stored, todo, cur, indexStart, part, data, emitted, sent>>

GiveUpAtOnce ==   \* mutant: the log that is too large is not dropped
    /\ pc = "try"
    /\ incLogs = ONE
    /\ incLogs' = ERROR /\ skipBadLog' = FALSE /\ pc' = "push"
    /\ UNCHANGED <<tracer, stored, todo, cur, indexStart, indexCount, part,
                   batch, data, emitted, sent>>

\* Even that was too large: leave the search with the oversized batch.
GiveUp ==
    /\ pc = "try"
    /\ incLogs = ONE /\ skipBadLog
    /\ incLogs' = ERROR
    /\ skipBadLog' = FALSE
    /\ pc' = "push"
    /\ UNCHANGED <<tracer, stored, todo, cur, indexStart, indexCount, part,
                   batch, data, emitted, sent>>

PushedByIndexEnd ==   \* mutant: the next part starts at the last log sent
    /\ data' = Append(data, batch)
    /\ indexStart' = IndexEnd
    /\ UNCHANGED <<tracer, stored, todo, batch, emitted, sent>>

\* data.push_back(batchData) and the decision how to go on with the span.
Pushed ==
    /\ data' = Append(data, batch)
    /\ indexStart' = indexStart + indexCount
    /\ UNCHANGED <<tracer, stored, todo, batch, emitted, sent>>

\* The search of the next part starts afresh.
NextPart(p) ==
    /\ pc' = "try"
    /\ part' = p
    /\ incLogs' = UPPERBOUND
    /\ skipBadLog' = FALSE
    /\ UNCHANGED <<cur, indexCount>>

LeaveSpan ==
    /\ pc' = "span"
    /\ cur' = NoSpan
    /\ UNCHANGED <<indexCount, incLogs, part, skipBadLog>>

MorePartsLeft == LogNumber(cur) # IndexEnd + 1 /\ IndexEnd # 0

PushAndSplit ==
    /\ pc = "push"
    /\ MorePartsLeft
    /\ Pushed
    /\ NextPart(part + 1)

PushLastAlways ==   \* mutant: no way back after a first part of one log
    /\ pc = "push"
    /\ ~MorePartsLeft
    /\ Pushed
    /\ LeaveSpan

PushLast ==
    /\ pc = "push"
    /\ ~MorePartsLeft
    /\ \/ LogNumber(cur) = indexStart + indexCount
       \/ incLogs \in {WHOLE, ERROR}
    /\ Pushed
    /\ LeaveSpan

\* The part was the first log alone (IndexEnd is 0): around again, and the
\* part number stays.
PushAndRepeat ==
    /\ pc = "push"
    /\ ~MorePartsLeft
    /\ LogNumber(cur) # indexStart + indexCount
    /\ incLogs \notin {WHOLE, ERROR}
    /\ Pushed
    /\ NextPart(part)

Parsed ==
    /\ pc = "span"
    /\ todo = {}
    /\ pc' = "send"
    /\ UNCHANGED <<tracer, stored, todo, cur, position, batch, data, emitted,
                   sent>>

\* UdpReporter::flush for the next batch : it leaves through the socket, or
\* socket() or sendto() fails and nobody is told.
Send ==
    /\ pc = "send"
    /\ emitted < Len(data)
    /\ emitted' = emitted + 1
    /\ \/ /\ Bytes(data[emitted']) <= UdpLimit
          /\ sent' = sent \cup {emitted'}
       \/ UNCHANGED sent
    /\ UNCHANGED <<tracer, stored, pc, todo, cur, position, batch, data>>

ClearSpansEarly ==   \* mutant: the spans go before the packets
    /\ pc = "send"
    /\ stored' = {}
    /\ pc' = "done"
    /\ UNCHANGED <<tracer, todo, cur, position, batch, data, emitted, sent>>

\* data.clear() and clearSpans().  data is kept here as a history.
ClearSpans ==
    /\ pc = "send"
    /\ emitted = Len(data)
    /\ stored' = {}
    /\ pc' = "done"
    /\ UNCHANGED <<tracer, todo, cur, position, batch, data, emitted, sent>>

\* The script goes on: flush has returned.
Done ==
    /\ pc = "done"
    /\ UNCHANGED vars

Next ==
    \/ Return \/ Begin
    \/ \E s \in Spans : NextSpan(s)
    \/ Attempt \/ SkipBadLog \/ GiveUp
    \/ PushAndSplit \/ PushLast \/ PushAndRepeat
    \/ Parsed \/ Send \/ ClearSpans
    \/ Done

Spec == Init /\ [][Next]_vars /\ WF_vars(Next)

-----------------------------------------------------------------------------
(* Properties *)

TypeOK ==
    /\ shape \in [Spans -> Shapes]
    /\ isSampled \in BOOLEAN /\ udpTransport \in BOOLEAN
    /\ reporter \in Reporters
    /\ stored \in SUBSET Spans
    /\ pc \in {"flush", "span", "try", "push", "send", "done"}
    /\ todo \in SUBSET Spans
    /\ cur \in Spans \cup {NoSpan}
    /\ indexStart \in Nat /\ indexCount \in Nat
    /\ incLogs \in LogCount
    /\ part \in Nat
    /\ skipBadLog \in BOOLEAN
    /\ batch \in Batch \cup {NoBatch}
    /\ data \in Seq(Batch)
    /\ emitted \in Nat
    /\ sent \in SUBSET Nat

\* jaegerizeSpan reads _logs[indStart .. indStart + indCount - 1] without a
\* check of its own, and _logs[indStart] for the omission note: whatever range
\* the search asks for, and however often it is cut, it stays inside the
\* vector.
RangeInLogs ==
    batch # NoBatch =>
        /\ batch.indStart + batch.indCount <= LogNumber(batch.span)
        /\ HasOmission(batch) => batch.indStart < LogNumber(batch.span)

SameSpan(i, j) == data[i].span = data[j].span

\* No log of a span is in two packets, and no packet skips one: each batch
\* starts where the batch before it, of the same span, ended.
EachLogOnceInOrder ==
    \A j \in DOMAIN data :
        IF \E i \in 1..(j-1) : SameSpan(i, j)
        THEN /\ SameSpan(j - 1, j)
             /\ data[j].indStart = data[j-1].indStart + data[j-1].indCount
        ELSE data[j].indStart = 0

\* What a part costs whatever logs are in it.
Overhead(s) == EmptyBytes + shape[s].base + 2 * NoteBytes

\* When the tags of a span leave room for the notes, every packet fits.
PacketFits ==
    \A i \in DOMAIN data :
        Overhead(data[i].span) <= MaxSpanBytes => Fits(data[i])

\* The same spans lose no log on the way to the reporter ("all logs should
\* exist", Helper.cpp): once the packets are sent and the spans dropped, each
\* log of a sampled span is in a packet, unless it is too large for one.
LogInPacket(s, i) ==
    \E k \in DOMAIN data :
        /\ data[k].span = s
        /\ i \in Covered(data[k])
        /\ i \notin Carried(data[k]) =>
               Overhead(s) - NoteBytes + LogsOf(s)[i + 1] > MaxSpanBytes

AllLogsExist ==
    stored = {} /\ reporter = "UdpReporter" =>
        \A s \in Spans :
            Overhead(s) <= MaxSpanBytes /\ shape[s].sampled =>
                \A i \in 0 .. (LogNumber(s) - 1) : LogInPacket(s, i)

\* A span is cut only when it has to be: if all of it fits a packet, that
\* packet is the only one, and it carries the span's own id and no note.
CutOnlyIfNeeded ==
    \A i \in DOMAIN data :
        LET s == data[i].span
            whole == [span |-> s, logLimit |-> WHOLE, indStart |-> 0,
                      indCount |-> LogNumber(s), part |-> 1, badLog |-> FALSE]
        IN Fits(whole) => data[i] = whole

\* flush comes to an end, whatever the sizes: every search shrinks to one log,
\* then drops the log, then gives up, and every push moves on.
Termination == <>(pc = "done")

\* flush keeps the promise of LogDelivery: a log counts as reported when a
\* batch stands for it, and a span is open until the loop over _spans leaves it.
Reported(s) == UNION {Covered(data[i]) : i \in {k \in DOMAIN data : data[k].span = s}}
OpenSpans == CASE pc = "flush" -> Spans
               [] pc \in {"span", "try", "push"} -> todo \cup ({cur} \ {NoSpan})
               [] pc = "send" -> {}
               [] pc = "done" -> stored

Delivery == INSTANCE LogDelivery WITH
                size <- [s \in Spans |-> LogNumber(s)],
                reported <- [s \in Spans |-> Reported(s)],
                open <- OpenSpans,
                packets <- Len(data)

ImplementsDelivery == Delivery!Spec

-----------------------------------------------------------------------------
(* What the documents say of the parts, and the code does not do.          *)

\* "different spans with the same id" (Helper.cpp), "identical spans" (README).  No two
\* parts of a span share an id (PartsDiffer), so this reads as little as keepId
\* suggests: one part has the id of the span, and its children still have a parent.
SpanIdKept ==
    pc = "send" =>
        \A i \in DOMAIN data :
            \E j \in DOMAIN data : SameSpan(i, j) /\ HasOwnId(data[j])

\* "One log was ommited due its size": a log that is left out is announced.
OmissionAnnounced ==
    \A i \in DOMAIN data : data[i].badLog => HasOmission(data[i])
=============================================================================

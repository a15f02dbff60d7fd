----------------------------- MODULE EmitBatch -----------------------------
(***************************************************************************)
(* AgentClient: emitBatch for the batches that jaegerizeTracer makes, and  *)
(* emitZipkinBatch, which the client offers as well.  The generated write  *)
(* functions call the protocol, field after field: the compact one, whose  *)
(* bytes become a datagram, or the binary one, which no build uses and for *)
(* which the branch of flush for TBinary is written.  The agent at the     *)
(* other end is the generated read functions; an older agent does not know *)
(* some fields, which it skips.                                            *)
(***************************************************************************)
EXTENDS CompactWriter, ThriftProtocols, Jaegerize

CONSTANTS Reports,   \* for each protocol, the calls of the client and what they are given
          Agents     \* for each agent, the fields it does not know: struct and id

VARIABLES protocol,   \* the one the client writes with; the other variables of the
                      \* writer are the compact protocol's
          todo,       \* the write functions that are running, the innermost last
          report,     \* what the batch was made from
          datagram    \* the bytes handed to the transport

emitVars == <<writer, protocol, todo, report, datagram>>

-----------------------------------------------------------------------------
(* The structs: for each the fields in the order they are written. *)

F(id, type, of) == [id |-> id, type |-> type, of |-> of]
P(id, type) == F(id, type, "none")

TagFields == <<P(1, "STRING"), P(2, "I32"), P(3, "STRING"), P(4, "DOUBLE"),
               P(5, "BOOL"), P(6, "I64"), P(7, "STRING")>>
LogFields == <<P(1, "I64"), F(2, "LIST", "Tag")>>
SpanRefFields == <<P(1, "I32"), P(2, "I64"), P(3, "I64"), P(4, "I64")>>
SpanFields == <<P(1, "I64"), P(2, "I64"), P(3, "I64"), P(4, "I64"),
                P(5, "STRING"), F(6, "LIST", "SpanRef"), P(7, "I32"), P(8, "I64"),
                P(9, "I64"), F(10, "LIST", "Tag"), F(11, "LIST", "Log")>>
ProcessFields == <<P(1, "STRING"), F(2, "LIST", "Tag")>>
BatchFields == <<F(1, "STRUCT", "Process"), F(2, "LIST", "Span")>>
ArgsFields == <<F(1, "STRUCT", "Batch")>>

EndpointFields == <<P(1, "I32"), P(2, "I16"), P(3, "STRING"), P(4, "STRING")>>
AnnotationFields == <<P(1, "I64"), P(2, "STRING"), F(3, "STRUCT", "Endpoint")>>
BinaryAnnotationFields ==
    <<P(1, "STRING"), P(2, "STRING"), P(3, "I32"), F(4, "STRUCT", "Endpoint")>>
ZipkinSpanFields == <<P(1, "I64"), P(3, "STRING"), P(4, "I64"), P(5, "I64"),
                      F(6, "LIST", "Annotation"), F(8, "LIST", "BinaryAnnotation"),
                      P(9, "BOOL"), P(10, "I64"), P(11, "I64"), P(12, "I64")>>
ZipkinArgsFields == <<F(1, "LIST", "ZipkinSpan")>>

Fields == [Tag |-> TagFields, Log |-> LogFields, SpanRef |-> SpanRefFields,
           Span |-> SpanFields, Process |-> ProcessFields, Batch |-> BatchFields,
           Args |-> ArgsFields,
           Endpoint |-> EndpointFields, Annotation |-> AnnotationFields,
           BinaryAnnotation |-> BinaryAnnotationFields, ZipkinSpan |-> ZipkinSpanFields,
           ZipkinArgs |-> ZipkinArgsFields]

IdsOf(of) == {Fields[of][i].id : i \in DOMAIN Fields[of]}

\* The fields with an __isset; the others are always written.
Isset == [Tag |-> 3..7, Log |-> {}, SpanRef |-> {}, Span |-> {6, 10, 11}, Process |-> {2},
          Batch |-> {}, Args |-> {},
          Endpoint |-> {4}, Annotation |-> {3}, BinaryAnnotation |-> {4},
          ZipkinSpan |-> {5} \union 9..12, ZipkinArgs |-> {}]

IsSet(of, v, i) == LET id == Fields[of][i].id IN id \notin Isset[of] \/ id \in DOMAIN v

\* The struct with the arguments of a call, and the name in its message.
ArgsOf == [emitBatch |-> "Args", emitZipkinBatch |-> "ZipkinArgs"]
NameOf == [emitBatch |-> <<101>>, emitZipkinBatch |-> <<122>>]

-----------------------------------------------------------------------------
(* What the client is given. *)

IsList(v) ==
    /\ v = [i \in DOMAIN v |-> v[i]]
    /\ Len(v) \in Nat /\ DOMAIN v = 1..Len(v) /\ Len(v) \div 65536 < 32768

ProperStruct(of, v, Part(_, _)) ==
    /\ v = [id \in DOMAIN v |-> v[id]]
    /\ IdsOf(of) \ Isset[of] \subseteq DOMAIN v /\ DOMAIN v \subseteq IdsOf(of)
    /\ \A i \in DOMAIN Fields[of] :
          LET f == Fields[of][i]
          IN f.id \in DOMAIN v =>
             CASE f.type = "STRUCT" -> Part(f.of, v[f.id])
               [] f.type = "LIST"   -> /\ IsList(v[f.id])
                                       /\ \A j \in DOMAIN v[f.id] : Part(f.of, v[f.id][j])
               [] OTHER             -> Held(f.type, v[f.id])

\* A struct of C++, and those in it: they are in each other five deep at most.
Proper(of, v) ==
    LET fifth(o, x)  == ProperStruct(o, x, LAMBDA p, y : FALSE)
        fourth(o, x) == ProperStruct(o, x, fifth)
        third(o, x)  == ProperStruct(o, x, fourth)
        second(o, x) == ProperStruct(o, x, third)
    IN ProperStruct(of, v, second)

Batch(p, r) ==
    IF p = "compact" THEN JaegerBatch(r.process, r.spans[1], r.ask)
    ELSE WholeBatch(r.process, r.spans, r.now)

Args(p, r) == <<IF r.call = "emitBatch" THEN Batch(p, r) ELSE r.spans>>

ASSUME ReportsAssumption ==
    /\ DOMAIN Reports \subseteq {"compact", "binary"}
    /\ \A p \in DOMAIN Reports : \A r \in Reports[p] :
          r.call \in DOMAIN ArgsOf /\ Proper(ArgsOf[r.call], Args(p, r))

\* What a tracer has stored: of a span its tags, and its logs in the order of time.
StoredTag(tag) ==
    tag.type \in DOMAIN ValueField /\ tag = [key |-> tag.key, type |-> tag.type, value |-> tag.value]

Stored(span) ==
    /\ IsList(span.tags) /\ \A j \in DOMAIN span.tags : StoredTag(span.tags[j])
    /\ IsList(span.logs)
    /\ \A i \in DOMAIN span.logs : span.logs[i].timestamp \in Int
    /\ \A i, j \in DOMAIN span.logs : i <= j => span.logs[i].timestamp <= span.logs[j].timestamp
    /\ span.context.flags \in Int

\* What flush asks for: logs the span has, and to leave out only one that is alone.
Asked(span, ask) ==
    /\ ask.start \in Nat /\ ask.count \in Nat /\ ask.start + ask.count <= Len(span.logs)
    /\ ask.badLog \in BOOLEAN /\ (ask.badLog => ask.count = 1)

ASSUME SpansAssumption ==
    \A p \in DOMAIN Reports : \A r \in Reports[p] :
        r.call = "emitBatch" =>
            /\ IsList(r.spans) /\ \A i \in DOMAIN r.spans : Stored(r.spans[i])
            /\ p = "compact" => Len(r.spans) = 1 /\ Asked(r.spans[1], r.ask)

-----------------------------------------------------------------------------
(* Writing. *)

\* How far a write function has come with what it writes.
Message == [call |-> "message", type |-> "none", of |-> "none", value |-> <<>>, next |-> 0]
Value(type, of, v) == [call |-> "value", type |-> type, of |-> of, value |-> v, next |-> 0]
Struct(of, v) == [call |-> "struct", type |-> "STRUCT", of |-> of, value |-> v, next |-> 1]
List(of, v) == [call |-> "list", type |-> "LIST", of |-> of, value |-> v, next |-> 1]

Current == todo[Len(todo)]
Below == SubSeq(todo, 1, Len(todo) - 1)
Advanced == [Current EXCEPT !.next = @ + 1]

Comes(call) == todo # <<>> /\ Current.call = call
Then(items) == todo' = Below \o items /\ UNCHANGED <<protocol, report, datagram>>

EmitInit ==
    /\ NewWriter /\ todo = <<>> /\ datagram = <<>>
    /\ protocol \in DOMAIN Reports
    /\ report \in Reports[protocol]

EmitBatch(r) ==
    /\ todo = <<>> /\ wire = <<>>
    /\ report' = r
    /\ todo' = <<Value("STRUCT", ArgsOf[r.call], Args(protocol, r)), Message>>
    /\ datagram' = <<>>
    /\ UNCHANGED <<writer, protocol>>

\* A call of the protocol: what the compact one does, or the bytes the binary one writes.
Writes(compact, binary) ==
    \/ protocol = "compact" /\ compact
    \/ protocol = "binary" /\ Put(binary)

WriteMessage ==
    /\ Comes("message")
    /\ Writes(WriteMessageBegin(NameOf[report.call], "ONEWAY", 0),
              Binary!MessageHeader(NameOf[report.call], "ONEWAY", 0))
    /\ Then(<<>>)

\* The next field, if it is set.
WriteField ==
    /\ Comes("struct") /\ Current.next \in DOMAIN Fields[Current.of]
    /\ LET f == Fields[Current.of][Current.next]
       IN \/ /\ IsSet(Current.of, Current.value, Current.next)
             /\ Writes(WriteFieldBegin(f.type, f.id), Binary!FieldHeader(f.type, f.id))
             /\ Then(<<Advanced, Value(f.type, f.of, Current.value[f.id])>>)
          \/ /\ ~IsSet(Current.of, Current.value, Current.next)
             /\ UNCHANGED writer
             /\ Then(<<Advanced>>)

WriteValue ==
    /\ Comes("value")
    /\ \/ /\ Current.type = "STRUCT"
          /\ Writes(WriteStructBegin, <<>>)
          /\ Then(<<Struct(Current.of, Current.value)>>)
       \/ /\ Current.type = "LIST"
          /\ Writes(WriteCollectionBegin("STRUCT", Len(Current.value)),
                    Binary!CollectionHeader("STRUCT", Len(Current.value)))
          /\ Then(<<List(Current.of, Current.value)>>)
       \/ /\ Current.type \in Scalar
          /\ Writes(WriteScalar(Current.type, Current.value), Binary!Encoded(Current.type, Current.value))
          /\ Then(<<>>)

\* The write function of the next element, or writeListEnd.
WriteElement ==
    /\ Comes("list")
    /\ \/ /\ Current.next \in DOMAIN Current.value
          /\ Writes(WriteStructBegin, <<>>)
          /\ Then(<<Advanced, Struct(Current.of, Current.value[Current.next])>>)
       \/ Current.next \notin DOMAIN Current.value /\ UNCHANGED writer /\ Then(<<>>)

WriteStop ==
    /\ Comes("struct") /\ Current.next = Len(Fields[Current.of]) + 1
    /\ Writes(WriteFieldStop, Binary!Stop)
    /\ Then(<<Advanced>>)

WriteEnd ==
    /\ Comes("struct") /\ Current.next = Len(Fields[Current.of]) + 2
    /\ Writes(WriteStructEnd, <<>>)
    /\ Then(<<>>)

\* getBufferAsString and resetBuffer; TFramedTransport::flush with the binary protocol
TakeBuffer ==
    /\ todo = <<>> /\ wire # <<>>
    /\ datagram' = wire
    /\ wire' = <<>>
    /\ UNCHANGED <<lastField, lastFieldId, booleanField, protocol, todo, report>>

EmitNext ==
    \/ \E r \in Reports[protocol] : EmitBatch(r)
    \/ WriteMessage \/ WriteField \/ WriteValue \/ WriteElement \/ WriteStop \/ WriteEnd
    \/ TakeBuffer

EmitSpec == EmitInit /\ [][EmitNext]_emitVars

-----------------------------------------------------------------------------
(* The agent. *)

\* A struct of the kind Nothing is one that is skipped: no field of it is known.
Nothing == "nothing"

Known(of, unknown, id, type) ==
    IF of = Nothing THEN {}
    ELSE {f \in Range(Fields[of]) : f.id = id /\ f.type = type /\ <<of, id>> \notin unknown}

\* recursion_limit_: read functions and calls of skip inside each other.
RecursionLimit == 64

\* What a read function finds: the fields after this one, and this one if it is known.
WithField(known, id, v, later) ==
    IF ~known THEN later
    ELSE [i \in DOMAIN later \union {id} |-> IF i \in DOMAIN later THEN later[i] ELSE v]

\* A field whose header is read: what is known of it says what its value is; if it is
\* not known, or not with this type, it is skipped.
FieldIs(value, of, unknown, f, later) ==
    UNION {LET known == Known(of, unknown, f.id, t)
               inner == IF known = {} THEN Nothing ELSE (CHOOSE d \in known : TRUE).of
           IN UNION {{[value |-> WithField(known # {}, f.id, x.value, y.value), rest |-> y.rest] :
                         y \in later[f.id][x.rest]} : x \in value[t][inner][f.code][f.rest]} :
           t \in f.types}

\* A pass of the loop of a read function or of skip; later is the rest of the loop.
Pass(p, value, of, unknown, later, s, last) ==
    UNION {IF f.types = {} THEN {[value |-> <<>>, rest |-> f.rest]}
           ELSE FieldIs(value, of, unknown, f, later) : f \in NextField(p, s, last)}

\* At most k passes: each takes a byte.
FieldsAt(p, value, of, unknown) ==
    LET from[k \in Nat] ==
            [last \in Int |-> [s \in Seq(Int) |->
                IF k = 0 THEN {} ELSE Pass(p, value, of, unknown, from[k - 1], s, last)]]
    IN from

StructAt(p, value, of, unknown, s) == FieldsAt(p, value, of, unknown)[Len(s)][0][s]

Element(element, later, s) ==
    UNION {{[value |-> <<x.value>> \o y.value, rest |-> y.rest] : y \in later[x.rest]} :
           x \in element[s]}

\* The n elements of a list.
ListAt(element) ==
    LET from[n \in Nat] ==
            [s \in Seq(Int) |-> IF n = 0 THEN {[value |-> <<>>, rest |-> s]}
                                ELSE Element(element, from[n - 1], s)]
    IN from

StructKinds == DOMAIN Fields \union {Nothing, "none"}

\* A value of a known field, or one that is skipped: of the struct or the elements of the
\* kind of.  Elements of a known list are read as the structs they should be.  A struct,
\* and every call of skip, is a level of its own.
ValueAt(p, unknown, levels, below, type, of, code, s) ==
    LET element == [t \in Seq(Int) |->
                       IF levels = 0 THEN {} ELSE StructAt(p, below, of, unknown, t)]
        skipped(u) == [t \in Seq(Int) |-> below[u][Nothing][0][t]]
    IN IF of = Nothing /\ levels = 0 THEN {}
       ELSE IF type = "BOOL" /\ code # 0
       THEN {[value |-> IF code = BoolCode(<<1>>) THEN <<1>> ELSE <<0>>, rest |-> s]}
       ELSE IF type = "STRUCT" THEN element[s]
       ELSE IF type \in Collection
       THEN UNION {ListAt(IF of = Nothing THEN skipped(h.types[1]) ELSE element)[h.size][h.rest] :
                   h \in NextCollection(p, s)}
       ELSE NextScalar(p, type, s)

\* Where so many levels are left.
Reader(p, unknown) ==
    LET value[levels \in Nat] ==
            [type \in Types |-> [of \in StructKinds |-> [code \in Nat |-> [s \in Seq(Int) |->
                ValueAt(p, unknown, levels, value[levels - 1], type, of, code, s)]]]]
    IN value

\* What an agent finds in the bytes: the arguments of the call, unless it throws.
ReceivedIn(bytes, unknown) ==
    LET args == ArgsOf[report.call]
        reader == Reader(protocol, unknown)[RecursionLimit - 1]
        messages == {m \in NextMessage(protocol, bytes) :
                        m.name = NameOf[report.call] /\ m.type = MessageType.ONEWAY}
    IN {x.value : x \in {x \in UNION {StructAt(protocol, reader, args, unknown, m.rest) :
                                      m \in messages} : x.rest = <<>>}}

Received(unknown) == ReceivedIn(datagram, unknown)

\* A struct without the fields an agent does not know.
Without(of, unknown, v, Part(_, _)) ==
    [id \in {i \in IdsOf(of) \intersect DOMAIN v : <<of, i>> \notin unknown} |->
        LET f == CHOOSE f \in Range(Fields[of]) : f.id = id
        IN CASE f.type = "STRUCT" -> Part(f.of, v[id])
             [] f.type = "LIST"   -> [i \in DOMAIN v[id] |-> Part(f.of, v[id][i])]
             [] OTHER             -> v[id]]

\* What is left of a struct, and of those in it, for an agent without the unknown fields.
Visible(of, unknown, v) ==
    LET fifth(o, x)  == Without(o, unknown, x, LAMBDA p, y : y)
        fourth(o, x) == Without(o, unknown, x, fifth)
        third(o, x)  == Without(o, unknown, x, fourth)
        second(o, x) == Without(o, unknown, x, third)
    IN Without(of, unknown, v, second)

-----------------------------------------------------------------------------
(* Properties. *)

\* Every agent reads the whole datagram or frame and finds in it what the call was
\* given, without the fields it does not know and with all the others, the later ones
\* included.
AgentReads ==
    datagram # <<>> =>
        \A unknown \in Agents :
            Received(unknown) = {Visible(ArgsOf[report.call], unknown, Args(protocol, report))}

\* The batches an agent of today finds.
Batches == {args[1] : args \in Received({})}

\* What vType says is where the agent looks for the value.
Meaning(tag) ==
    {[key |-> tag[1], type |-> type, value |-> tag[TagType[type] + 3]] :
        type \in {t \in DOMAIN TagType : <<TagType[t]>> = tag[2] /\ TagType[t] + 3 \in DOMAIN tag}}

Says(log, text, timestamp) ==
    log[1] = <<timestamp>> /\ \E tag \in Meaning(log[2][1]) : tag.value = text

TagsFound(span) == IF 10 \in DOMAIN span THEN [j \in DOMAIN span[10] |-> Meaning(span[10][j])] ELSE <<>>

\* The agent finds the spans that are sampled or debugged, in their order, each with the
\* tags the script added, under their keys, types and values.
TagsSurvive ==
    datagram # <<>> /\ report.call = "emitBatch" =>
        LET spans == report.spans
            sampled == {i \in DOMAIN spans : spans[i].context.flags % 4 # 0}
            place(i) == Cardinality({j \in sampled : j <= i})
        IN \A batch \in Batches :
               /\ DOMAIN batch[2] = 1..Cardinality(sampled)
               /\ \A i \in sampled : TagsFound(batch[2][place(i)])
                                  = [j \in DOMAIN spans[i].tags |-> {spans[i].tags[j]}]

\* "The first one log should contain information if logs were splitted": ordered
\* by time, the note about the part comes before all logs of the part, and the
\* note about a log that is left out is at that log's place.
NotesComeFirst ==
    datagram # <<>> /\ report.call = "emitBatch" /\ protocol = "compact" =>
        LET span == report.spans[1]
            ask == report.ask
        IN \A s \in UNION {Range(batch[2]) : batch \in Batches} : \A i \in DOMAIN span.logs :
               LET time == span.logs[i].timestamp
                   inRange == i \in (ask.start + 1)..(ask.start + ask.count)
               IN inRange /\ IsPart(span, ask) =>
                      /\ \E n \in Range(s[11]) :
                            n[1][1] < time /\ Says(n, PartText(ask.part), n[1][1])
                      /\ ask.badLog => \E n \in Range(s[11]) : Says(n, OmittedText, time)
=============================================================================

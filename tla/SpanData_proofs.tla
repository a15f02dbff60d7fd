-------------------------- MODULE SpanData_proofs --------------------------
(***************************************************************************)
(* Proofs about SpanData, for any spans, tags, uris and settings and any   *)
(* number of requests and processes: what a process is stuck on, what      *)
(* addTags leaves of the tags it was given, and which external calls are   *)
(* traced and tagged.  Whether a tracer that is deleted is followed by a   *)
(* new one, and which tags a span has so far, depend on the steps that are *)
(* left of a call, so the invariants are about these lists.                *)
(***************************************************************************)
EXTENDS SpanData, SequenceTheorems, TLAPS

Numbers == INSTANCE ThriftProtocols_proofs   \* least numbers, functions by recursion

-----------------------------------------------------------------------------
(* Types. *)

Tags == (UNION {{list[i] : i \in DOMAIN list} : list \in TagLists})
          \cup {CurlTags(Stripped(uri))[i] : uri \in Uris, i \in 1 .. 4}

PlainStep ==
         [do : {"line"}, skip : BOOLEAN]
    \cup [do : {"print"}]
    \cup [do : {"store"}, span : Spans]
    \cup [do : {"tag"}, span : Spans, tag : Tags]
    \cup [do : {"log"}, span : Spans, size : LogSizes]

\* What only init and the end of a request do.
LifeStep == [do : {"fatal", "delete", "forget"}] \cup [do : {"make"}, kind : {"noop", "jaeger"}]

StepType == PlainStep \cup LifeStep

SpanDataTypes ==
    /\ enabled \in BOOLEAN /\ locked \in BOOLEAN /\ bad \in BOOLEAN
    /\ threw \in BOOLEAN /\ hung \in BOOLEAN
    /\ tracer \in {"none", "noop", "jaeger", "deleted"}
    /\ udp \in BOOLEAN
    /\ active \in Seq(Spans)
    /\ made \in Spans \cup {0}
    /\ tags \in [Spans -> Seq(Tags)]
    /\ logs \in [Spans -> Seq(LogSizes)]
    /\ steps \in Seq(StepType)

\* A step after which there is no pointer to a deleted tracer.
Replaces(step) == step.do \in {"make", "forget"}

\* Every deletion in a list of steps is followed by such a step.
Repaired(list) ==
    \A i \in DOMAIN list : list[i].do = "delete" =>
        \E j \in DOMAIN list : j > i /\ Replaces(list[j])

\* As long as nothing has thrown, the mutex is free between two lines, and
\* what is left of a call replaces the tracer it has deleted or will delete.
Sound ==
    ~threw =>
        /\ ~locked /\ ~hung
        /\ Repaired(steps)
        /\ tracer = "deleted" => \E j \in DOMAIN steps : Replaces(steps[j])

IInv == SpanDataTypes /\ Sound

-----------------------------------------------------------------------------
(* Lists of steps. *)

\* Every step the operations put on a list is a step.
LEMMA Members ==
    /\ \A b \in BOOLEAN : Line(b) \in PlainStep
    /\ ScriptLine \in PlainStep
    /\ \A s \in Spans : Store(s) \in PlainStep
    /\ \A s \in Spans, t \in Tags : AddTag(s, t) \in PlainStep
    /\ \A s \in Spans, n \in LogSizes : AddLog(s, n) \in PlainStep
    /\ FatalLine \in LifeStep /\ DeleteTracer \in LifeStep /\ Forget \in LifeStep
    /\ \A k \in {"noop", "jaeger"} : MakeTracer(k) \in LifeStep
    BY DEF Line, ScriptLine, Store, AddTag, AddLog, FatalLine, DeleteTracer, Forget,
           MakeTracer, PlainStep, LifeStep

\* Lists of at most two elements.
LEMMA ShortLists ==
    ASSUME NEW S, NEW x \in S, NEW y \in S
    PROVE  <<>> \in Seq(S) /\ <<x>> \in Seq(S) /\ <<x, y>> \in Seq(S)
    OBVIOUS

\* Two elements and one more.
LEMMA TwoAndOne == \A v, w, x : <<v, w>> \o <<x>> = <<v, w, x>>
<1> TAKE v, w, x
<1> DEFINE S == {v, w, x}
<1>1. <<v, w>> \in Seq(S) /\ <<x>> \in Seq(S) /\ <<v, w, x>> \in Seq(S)
    OBVIOUS
<1> HIDE DEF S
<1>2. <<v, w>> \o <<x>> \in Seq(S) /\ Len(<<v, w>> \o <<x>>) = 3
    BY <1>1, ConcatProperties
<1>3. \A i \in 1 .. 3 : (<<v, w>> \o <<x>>)[i] = <<v, w, x>>[i]
    BY <1>1, ConcatProperties
<1>4. QED  BY <1>1, <1>2, <1>3, SeqEqual

\* Two elements and three more.
LEMMA TwoAndThree == \A v, w, x, y, z : <<v, w>> \o <<x, y, z>> = <<v, w, x, y, z>>
<1> TAKE v, w, x, y, z
<1> DEFINE S == {v, w, x, y, z}
<1>1. <<v, w>> \in Seq(S) /\ <<x, y, z>> \in Seq(S) /\ <<v, w, x, y, z>> \in Seq(S)
    OBVIOUS
<1> HIDE DEF S
<1>2. <<v, w>> \o <<x, y, z>> \in Seq(S) /\ Len(<<v, w>> \o <<x, y, z>>) = 5
    BY <1>1, ConcatProperties
<1>3. \A i \in 1 .. 5 : (<<v, w>> \o <<x, y, z>>)[i] = <<v, w, x, y, z>>[i]
    BY <1>1, ConcatProperties
<1>4. QED  BY <1>1, <1>2, <1>3, SeqEqual

\* A list without deletions has none to repair.
LEMMA PlainIsRepaired ==
    ASSUME NEW list \in Seq(PlainStep)
    PROVE  list \in Seq(StepType) /\ Repaired(list)
<1>1. \A i \in DOMAIN list : list[i] \in PlainStep
    BY ElementOfSeq
<1>2. \A step \in PlainStep : step.do # "delete"
    BY DEF PlainStep
<1>3. list \in Seq(StepType)
    BY DEF StepType
<1>4. QED  BY <1>1, <1>2, <1>3 DEF Repaired

\* The first step is done.
LEMMA RestIsRepaired ==
    ASSUME NEW list \in Seq(StepType), list # <<>>, Repaired(list)
    PROVE  /\ Tail(list) \in Seq(StepType)
           /\ Repaired(Tail(list))
           /\ Head(list).do = "delete" =>
                  \E j \in DOMAIN Tail(list) : Replaces(Tail(list)[j])
           /\ ~Replaces(Head(list)) /\ (\E j \in DOMAIN list : Replaces(list[j])) =>
                  \E j \in DOMAIN Tail(list) : Replaces(Tail(list)[j])
<1>1. /\ Len(list) \in Nat /\ Len(list) > 0 /\ DOMAIN list = 1 .. Len(list)
      /\ Tail(list) \in Seq(StepType) /\ Head(list) = list[1]
      /\ DOMAIN Tail(list) = 1 .. (Len(list) - 1)
      /\ \A j \in DOMAIN Tail(list) : Tail(list)[j] = list[j + 1]
    BY EmptySeq, LenProperties, HeadTailProperties
<1>2. ASSUME NEW j \in DOMAIN list, j > 1
      PROVE  j - 1 \in DOMAIN Tail(list) /\ Tail(list)[j - 1] = list[j]
    BY <1>1, <1>2
<1>3. Repaired(Tail(list))
    <2> SUFFICES ASSUME NEW i \in DOMAIN Tail(list), Tail(list)[i].do = "delete"
                 PROVE  \E j \in DOMAIN Tail(list) : j > i /\ Replaces(Tail(list)[j])
        BY DEF Repaired
    <2>1. i + 1 \in DOMAIN list /\ list[i + 1].do = "delete" /\ i \in Nat
        BY <1>1
    <2>2. PICK j \in DOMAIN list : j > i + 1 /\ Replaces(list[j])
        BY <2>1 DEF Repaired
    <2>3. j - 1 > i /\ j > 1
        BY <1>1, <2>1, <2>2
    <2>4. QED  BY <1>2, <2>2, <2>3
<1>4. ASSUME Head(list).do = "delete"
      PROVE  \E j \in DOMAIN Tail(list) : Replaces(Tail(list)[j])
    <2>1. PICK j \in DOMAIN list : j > 1 /\ Replaces(list[j])
        BY <1>1, <1>4 DEF Repaired
    <2>2. QED  BY <1>2, <2>1
<1>5. ASSUME ~Replaces(Head(list)), NEW j \in DOMAIN list, Replaces(list[j])
      PROVE  \E k \in DOMAIN Tail(list) : Replaces(Tail(list)[k])
    <2>1. j > 1
        BY <1>1, <1>5
    <2>2. QED  BY <1>2, <1>5, <2>1
<1>6. QED  BY <1>1, <1>3, <1>4, <1>5

\* The lists of the calls.
LEMMA GivenTags ==
    ASSUME NEW list \in TagLists
    PROVE  list \in Seq(Tags)
<1>1. list \in Seq([key : STRING, value : STRING, text : BOOLEAN])
    BY SpanDataAssumption DEF SpanDataAssumption
<1>2. \A i \in 1 .. Len(list) : list[i] \in Tags
    BY <1>1 DEF Tags
<1>3. Len(list) \in Nat /\ list = [i \in 1 .. Len(list) |-> list[i]]
    BY <1>1
<1>4. QED  BY <1>2, <1>3, IsASeq

\* An external call tags its span with four tags (CURL, the uri's parts).
LEMMA UriTags ==
    ASSUME NEW uri \in Uris
    PROVE  /\ CurlTags(Stripped(uri)) \in Seq(Tags)
           /\ Len(CurlTags(Stripped(uri))) = 4
<1> DEFINE u == Stripped(uri)
<1>1. \A i \in 1 .. 4 : CurlTags(u)[i] \in Tags
    BY DEF Tags
<1> HIDE DEF u
<1>2. Len(CurlTags(u)) = 4 /\ CurlTags(u) = [i \in 1 .. 4 |-> CurlTags(u)[i]]
    BY DEF CurlTags
<1>3. QED  BY <1>1, <1>2, IsASeq DEF u

\* A list of one line.
LEMMA OneLine == \A b \in BOOLEAN : <<Line(b)>> \in Seq(PlainStep)
BY Members, ShortLists

\* addTags deletes nothing.
LEMMA TagStepsPlain ==
    ASSUME NEW s \in Spans, NEW list \in Seq(Tags)
    PROVE  TagSteps(s, list) \in Seq(PlainStep)
<1> DEFINE adds == [i \in DOMAIN list |-> AddTag(s, list[i])]
<1>1. adds \in Seq(PlainStep)
    <2>1. Len(list) \in Nat /\ DOMAIN list = 1 .. Len(list) /\ \A i \in 1 .. Len(list) : list[i] \in Tags
        OBVIOUS
    <2>2. \A i \in 1 .. Len(list) : AddTag(s, list[i]) \in PlainStep
        BY <2>1, Members
    <2>3. QED  BY <2>1, <2>2, IsASeq
<1>2. <<Line(TRUE)>> \in Seq(PlainStep) /\ <<>> \in Seq(PlainStep)
    BY Members, ShortLists
<1> HIDE DEF adds
<1>3. \A q \in Seq(PlainStep) : <<Line(TRUE)>> \o q \in Seq(PlainStep)
    BY <1>2, ConcatProperties
<1>4. TagSteps(s, list) = <<Line(TRUE)>> \o (IF udp THEN adds ELSE <<>>)
    BY DEF TagSteps, adds
<1>5. QED  BY <1>1, <1>2, <1>3, <1>4

\* addLogs deletes nothing.
LEMMA LogStepsPlain ==
    ASSUME NEW s \in Spans, NEW size \in LogSizes, size \in Nat
    PROVE  LogSteps(s, size) \in Seq(PlainStep)
<1> DEFINE lines == [i \in 1 .. size |-> Line(TRUE)]
<1>1. lines \in Seq(PlainStep)
    <2>1. \A i \in 1 .. size : Line(TRUE) \in PlainStep
        BY Members
    <2>2. lines \in [1 .. size -> PlainStep]
        BY <2>1
    <2>3. QED  BY <2>2, SeqDef
<1>2. <<Line(TRUE)>> \in Seq(PlainStep) /\ <<>> \in Seq(PlainStep)
      /\ <<AddLog(s, size)>> \in Seq(PlainStep)
    BY Members, ShortLists
<1> HIDE DEF lines
<1>3. lines \o <<AddLog(s, size)>> \in Seq(PlainStep)
    BY <1>1, <1>2, ConcatProperties
<1>4. \A q \in Seq(PlainStep) : <<Line(TRUE)>> \o q \in Seq(PlainStep)
    BY <1>2, ConcatProperties
<1>5. LogSteps(s, size) = <<Line(TRUE)>> \o
          (IF udp THEN lines \o <<AddLog(s, size)>> ELSE <<>>)
    BY DEF LogSteps, lines
<1>6. QED  BY <1>2, <1>3, <1>4, <1>5

\* startExternalTracing deletes nothing on its way to the tags.
LEMMA ExternalStepsPlain ==
    ASSUME NEW s \in Spans, NEW uri \in Uris
    PROVE  /\ <<Line(FALSE), Line(TRUE)>> \o ExternalSteps(s, uri) \in Seq(PlainStep)
           /\ <<Line(TRUE), Store(s)>>
                 \o (IF Tagged(uri) THEN [i \in 1 .. 4 |-> AddTag(s, CurlTags(Stripped(uri))[i])]
                     ELSE <<>>) \in Seq(PlainStep)
<1> DEFINE tagSteps == TagSteps(s, CurlTags(Stripped(uri)))
           adds == [i \in 1 .. 4 |-> AddTag(s, CurlTags(Stripped(uri))[i])]
<1>1. tagSteps \in Seq(PlainStep)
    BY UriTags, TagStepsPlain
<1>2. adds \in Seq(PlainStep)
    <2>1. \A i \in 1 .. 4 : CurlTags(Stripped(uri))[i] \in Tags
        BY DEF Tags
    <2>2. \A i \in 1 .. 4 : AddTag(s, CurlTags(Stripped(uri))[i]) \in PlainStep
        BY <2>1, Members
    <2>3. QED  BY <2>2, IsASeq
<1>3. /\ <<>> \in Seq(PlainStep) /\ <<Line(TRUE)>> \in Seq(PlainStep)
      /\ <<Store(s)>> \in Seq(PlainStep) /\ <<Line(FALSE), Line(TRUE)>> \in Seq(PlainStep)
      /\ <<Line(TRUE), Store(s)>> \in Seq(PlainStep)
    BY Members, ShortLists
<1>4. ExternalSteps(s, uri) = (<<Store(s)>> \o (IF Tagged(uri) THEN tagSteps ELSE <<>>)) \o <<Line(TRUE)>>
    BY DEF ExternalSteps
<1> HIDE DEF tagSteps, adds
<1>5. \A q, r \in Seq(PlainStep) : q \o r \in Seq(PlainStep)
    BY ConcatProperties
<1>6. (IF Tagged(uri) THEN tagSteps ELSE <<>>) \in Seq(PlainStep)
      /\ (IF Tagged(uri) THEN adds ELSE <<>>) \in Seq(PlainStep)
    BY <1>1, <1>2, <1>3
<1>7. ExternalSteps(s, uri) \in Seq(PlainStep)
    <2>1. <<Store(s)>> \o (IF Tagged(uri) THEN tagSteps ELSE <<>>) \in Seq(PlainStep)
        BY <1>3, <1>5, <1>6
    <2>2. QED  BY <1>3, <1>4, <1>5, <2>1
<1>8. QED  BY <1>3, <1>5, <1>6, <1>7 DEF adds

\* init and the end of a request delete the tracer, and then replace it.
LEMMA LifeLists ==
    ASSUME NEW kind \in {"noop", "jaeger"}, NEW old \in {<<>>, <<FatalLine, DeleteTracer>>}
    PROVE  /\ old \o <<Line(kind = "jaeger"), MakeTracer(kind), Line(FALSE)>> \in Seq(StepType)
           /\ Repaired(old \o <<Line(kind = "jaeger"), MakeTracer(kind), Line(FALSE)>>)
           /\ old \o <<Forget>> \in Seq(StepType)
           /\ Repaired(old \o <<Forget>>)
<1> DEFINE a == Line(kind = "jaeger")
           b == Line(FALSE)
<1>1. /\ a \in StepType /\ b \in StepType /\ MakeTracer(kind) \in StepType
      /\ FatalLine \in StepType /\ DeleteTracer \in StepType /\ Forget \in StepType
    BY Members DEF StepType
<1>2. /\ a.do = "line" /\ b.do = "line" /\ FatalLine.do = "fatal"
      /\ Replaces(MakeTracer(kind)) /\ Replaces(Forget) /\ MakeTracer(kind).do = "make"
      /\ Forget.do = "forget"
    BY DEF Line, MakeTracer, Forget, FatalLine, Replaces
<1> HIDE DEF a, b
<1> DEFINE m == MakeTracer(kind)
<1>3. CASE old = <<>>
    <2>1. old \o <<a, m, b>> = <<a, m, b>> /\ old \o <<Forget>> = <<Forget>>
        BY <1>1, <1>3, ConcatEmptySeq
    <2>2. <<a, m, b>> \in Seq(StepType) /\ <<Forget>> \in Seq(StepType)
        BY <1>1
    <2>3. Repaired(<<a, m, b>>) /\ Repaired(<<Forget>>)
        BY <1>2 DEF Repaired
    <2>4. QED  BY <2>1, <2>2, <2>3, Zenon DEF a, b
<1>4. CASE old = <<FatalLine, DeleteTracer>>
    <2>1. old \o <<a, m, b>> = <<FatalLine, DeleteTracer, a, m, b>>
          /\ old \o <<Forget>> = <<FatalLine, DeleteTracer, Forget>>
        <3>1. <<FatalLine, DeleteTracer>> \o <<a, m, b>> = <<FatalLine, DeleteTracer, a, m, b>>
            BY TwoAndThree, Zenon
        <3>2. <<FatalLine, DeleteTracer>> \o <<Forget>> = <<FatalLine, DeleteTracer, Forget>>
            BY TwoAndOne, Zenon
        <3>3. QED  BY <1>4, <3>1, <3>2, Zenon
    <2>2. <<FatalLine, DeleteTracer, a, m, b>> \in Seq(StepType)
          /\ <<FatalLine, DeleteTracer, Forget>> \in Seq(StepType)
        BY <1>1
    <2>3. Repaired(<<FatalLine, DeleteTracer, a, m, b>>)
        BY <1>2 DEF Repaired
    <2>4. Repaired(<<FatalLine, DeleteTracer, Forget>>)
        BY <1>2 DEF Repaired
    <2>5. QED  BY <2>1, <2>2, <2>3, <2>4, Zenon DEF a, b
<1>5. QED  BY <1>3, <1>4

-----------------------------------------------------------------------------
(* Calls. *)

\* A new process is stuck on nothing.
LEMMA InitSound == Init => IInv
<1> SUFFICES ASSUME Init PROVE IInv
    OBVIOUS
<1>1. <<>> \in Seq(StepType) /\ <<>> \in Seq(Spans) /\ <<>> \in Seq(Tags) /\ <<>> \in Seq(LogSizes)
    OBVIOUS
<1>2. SpanDataTypes
    BY <1>1 DEF Init, PrinterInit, SpanDataTypes
<1>3. steps = <<>> /\ Repaired(<<>>) /\ ~locked /\ ~hung /\ tracer # "deleted"
    BY DEF Init, PrinterInit, Repaired
<1>4. QED  BY <1>2, <1>3 DEF IInv, Sound

\* A call leaves a list of steps, and the mutex and the tracer as they were or the
\* tracer new.
Asks ==
    /\ Idle
    /\ steps' \in Seq(StepType) /\ Repaired(steps')
    /\ locked' = locked /\ hung' = hung /\ threw' = threw
    /\ tracer' = tracer \/ tracer' = "jaeger"

\* A call that begins with a list of repaired steps is stuck on nothing.
LEMMA AskSound ==
    ASSUME IInv, Asks
    PROVE  Sound'
<1>1. steps = <<>> /\ DOMAIN <<>> = {}
    BY DEF Asks, Idle
<1>2. ~threw => tracer # "deleted" /\ ~locked /\ ~hung
    BY <1>1 DEF IInv, Sound
<1>3. QED  BY <1>2 DEF Asks, Sound

\* The current span is one, and so are those below it.
LEMMA CurrentIsSpan ==
    ASSUME SpanDataTypes, Current # 0
    PROVE  Current \in Spans /\ Front(active) \in Seq(Spans)
<1>1. active # <<>> /\ Current = active[Len(active)]
    BY DEF Current, Last
<1>2. Len(active) \in Nat /\ Len(active) > 0 /\ active \in Seq(Spans)
    BY <1>1, EmptySeq, LenProperties DEF SpanDataTypes
<1>3. Front(active) = SubSeq(active, 1, Len(active) - 1)
    BY DEF Front
<1>4. Len(active) \in 1 .. Len(active) /\ \A i \in 1 .. Len(active) - 1 : active[i] \in Spans
    BY <1>2
<1>5. QED  BY <1>1, <1>2, <1>3, <1>4

\* Every call of the extension begins with a list that is repaired.
LEMMA CallsSound ==
    ASSUME IInv, Calls
    PROVE  IInv'
<1>0. SpanDataTypes /\ <<>> \in Seq(StepType) /\ Repaired(<<>>)
    BY DEF IInv, Repaired
<1>1. ASSUME NEW kind \in {"noop", "jaeger"}, NEW debug \in BOOLEAN, NEW transport \in BOOLEAN,
             InitTracer(kind, debug, transport)
      PROVE  IInv'
    <2>1. Asks
        BY <1>1, LifeLists DEF InitTracer, Begin, Asks
    <2>2. SpanDataTypes'
        BY <1>0, <1>1, <2>1 DEF InitTracer, Asks, SpanDataTypes, spanVars
    <2>3. QED  BY <2>1, <2>2, AskSound DEF IInv
\* A call of which the steps are all plain, or none.
<1>2. ASSUME NEW asked, NEW list \in Seq(PlainStep), Asked(asked, list)
      PROVE  IInv'
    <2>1. list \in Seq(StepType) /\ Repaired(list)
        BY PlainIsRepaired
    <2>2. Asks
        BY <1>2, <2>1 DEF Asked, Begin, Asks, printerVars
    <2>3. SpanDataTypes'
        BY <1>0, <1>2, <2>2 DEF Asked, Asks, SpanDataTypes, spanVars, printerVars
    <2>4. QED  BY <2>2, <2>3, AskSound DEF IInv
<1>3. ASSUME NEW s \in Spans, StartSpan(s) PROVE IInv'
    <2>1. <<Line(TRUE), Store(s)>> \in Seq(PlainStep)
        BY Members, ShortLists
    <2>2. QED  BY <1>2, <1>3, <2>1 DEF StartSpan
<1>4. CASE FinishSpan
    <2>1. Asks
        BY <1>0, <1>4 DEF FinishSpan, Begin, Asks, printerVars
    <2>2. SpanDataTypes'
        BY <1>0, <1>4, <2>1, CurrentIsSpan DEF FinishSpan, Asks, SpanDataTypes, printerVars
    <2>3. QED  BY <2>1, <2>2, AskSound DEF IInv
<1>5. ASSUME NEW list \in TagLists, addTags(list) PROVE IInv'
    <2>1. CASE tracer = "jaeger" /\ Current # 0
        <3>1. TagSteps(Current, list) \in Seq(PlainStep)
            BY <1>0, <2>1, CurrentIsSpan, GivenTags, TagStepsPlain
        <3>2. QED  BY <1>2, <1>5, <2>1, <3>1 DEF addTags
    <2>2. CASE ~(tracer = "jaeger" /\ Current # 0)
        BY <1>2, <1>5, <2>2, OneLine DEF addTags
    <2>3. QED  BY <2>1, <2>2
<1>6. ASSUME NEW size \in LogSizes, addLogs(size) PROVE IInv'
    <2>1. <<>> \in Seq(PlainStep) /\ size \in Nat
        BY SpanDataAssumption DEF SpanDataAssumption
    <2>2. (IF tracer = "jaeger" /\ Current # 0 THEN LogSteps(Current, size) ELSE <<>>)
              \in Seq(PlainStep)
        BY <1>0, <2>1, CurrentIsSpan, LogStepsPlain
    <2>3. <<Line(TRUE)>> \o (IF tracer = "jaeger" /\ Current # 0
                             THEN LogSteps(Current, size) ELSE <<>>) \in Seq(PlainStep)
        BY <2>2, OneLine, ConcatProperties
    <2>4. QED  BY <1>2, <1>6, <2>3 DEF addLogs
<1>7. CASE print
    <2>1. <<ScriptLine>> \in Seq(PlainStep)
        BY Members, ShortLists
    <2>2. QED  BY <1>2, <1>7, <2>1 DEF print
<1>8. ASSUME NEW uri \in Uris, SkipExternal(uri) \/ ExternalNoop(uri) PROVE IInv'
    <2>1. \A b \in BOOLEAN : <<Line(b)>> \in Seq(StepType) /\ Repaired(<<Line(b)>>)
        BY OneLine, PlainIsRepaired
    <2>2. Asks
        BY <1>8, <2>1 DEF SkipExternal, ExternalNoop, Begin, Asks, printerVars
    <2>3. SpanDataTypes'
        BY <1>0, <1>8, <2>2 DEF SkipExternal, ExternalNoop, Asks, SpanDataTypes, spanVars, printerVars
    <2>4. QED  BY <2>2, <2>3, AskSound DEF IInv
<1>9. ASSUME NEW uri \in Uris, NEW s \in Spans,
             ExternalInTrace(s, uri) \/ ExternalAlone(s, uri)
      PROVE  IInv'
    <2>1. Asks
        BY <1>9, ExternalStepsPlain, PlainIsRepaired
           DEF ExternalInTrace, ExternalAlone, Begin, Asks, printerVars
    <2>2. SpanDataTypes'
        BY <1>0, <1>9, <2>1
           DEF ExternalInTrace, ExternalAlone, Asks, SpanDataTypes, spanVars, printerVars
    <2>3. QED  BY <2>1, <2>2, AskSound DEF IInv
<1>10. CASE OnIdle
    <2>1. Asks
        BY <1>10, LifeLists DEF OnIdle, Asked, Begin, Asks, printerVars
    <2>2. SpanDataTypes'
        BY <1>0, <1>10, <2>1 DEF OnIdle, Asked, Asks, SpanDataTypes, spanVars, printerVars
    <2>3. QED  BY <2>1, <2>2, AskSound DEF IInv
<1>11. QED  BY <1>1, <1>3, <1>4, <1>5, <1>6, <1>7, <1>8, <1>9, <1>10 DEF Calls

-----------------------------------------------------------------------------
(* Steps. *)

\* The next line is printed or the next step done, and nothing has thrown.
Proceeds ==
    /\ steps # <<>> /\ steps' = Tail(steps)
    /\ locked' = locked /\ hung' = hung /\ threw' = threw
    /\ \/ tracer' = tracer /\ ~Replaces(Head(steps))
       \/ tracer' = "deleted" /\ Head(steps).do = "delete"
       \/ tracer' \in {"noop", "jaeger"}

\* What is left after a step is repaired when the whole was.
LEMMA ProceedSound ==
    ASSUME IInv, Proceeds
    PROVE  Sound' /\ steps' \in Seq(StepType)
<1>1. steps \in Seq(StepType)
    BY DEF IInv, SpanDataTypes
<1>2. Tail(steps) \in Seq(StepType)
    BY <1>1 DEF Proceeds
<1>3. ASSUME ~threw
      PROVE  /\ ~locked' /\ ~hung' /\ Repaired(steps')
             /\ tracer' = "deleted" => \E j \in DOMAIN steps' : Replaces(steps'[j])
    <2>1. ~locked /\ ~hung /\ Repaired(steps)
          /\ (tracer = "deleted" => \E j \in DOMAIN steps : Replaces(steps[j]))
        BY <1>3 DEF IInv, Sound
    <2>2. QED  BY <1>1, <2>1, RestIsRepaired DEF Proceeds
<1>4. QED  BY <1>2, <1>3 DEF Proceeds, Sound

\* A request or a process begins with nothing left of a call.
LEMMA NextRequestSound ==
    ASSUME IInv, NewRequest, locked' = locked \/ ~locked', hung' = hung \/ ~hung',
           threw' = threw \/ (~threw' /\ ~locked' /\ ~hung')
    PROVE  Sound'
<1>1. Repaired(<<>>)
    BY DEF Repaired
<1>2. QED  BY <1>1 DEF IInv, Sound, NewRequest

\* What a new request finds has its type.
LEMMA NewRequestTypes ==
    ASSUME NewRequest
    PROVE  /\ tracer' \in {"none", "noop", "jaeger", "deleted"}
           /\ active' \in Seq(Spans) /\ made' \in Spans \cup {0}
           /\ tags' \in [Spans -> Seq(Tags)] /\ logs' \in [Spans -> Seq(LogSizes)]
           /\ steps' \in Seq(StepType)
<1>1. <<>> \in Seq(StepType) /\ <<>> \in Seq(Spans) /\ <<>> \in Seq(Tags) /\ <<>> \in Seq(LogSizes)
    OBVIOUS
<1>2. QED  BY <1>1 DEF NewRequest

\* A process that replaces a dead one is sound.
LEMMA RespawnSound ==
    ASSUME IInv, Respawn
    PROVE  IInv'
<1>1. SpanDataTypes'
    BY NewRequestTypes DEF Respawn, SpanDataTypes
<1>2. Sound'
    BY NextRequestSound DEF Respawn
<1>3. QED  BY <1>1, <1>2 DEF IInv

\* The next step of a call is a step.
LEMMA HeadType ==
    ASSUME SpanDataTypes, steps # <<>>
    PROVE  Head(steps) \in StepType
BY DEF SpanDataTypes

\* What the step of a kind holds.
LEMMA HeadFields ==
    ASSUME SpanDataTypes, steps # <<>>
    PROVE  LET step == Head(steps)
           IN /\ step.do = "line" => step.skip \in BOOLEAN
              /\ step.do = "store" => step.span \in Spans
              /\ step.do = "tag" => step.span \in Spans /\ step.tag \in Tags
              /\ step.do = "log" => step.span \in Spans /\ step.size \in LogSizes
              /\ step.do = "make" => step.kind \in {"noop", "jaeger"}
BY HeadType DEF StepType, PlainStep, LifeStep

\* Every step of a call keeps the invariant.
LEMMA StepsSound ==
    ASSUME IInv, Steps \/ UseDeleted
    PROVE  IInv'
<1>0. SpanDataTypes
    BY DEF IInv
<1>1. CASE DoLine \/ DoOtherLine
    <2>1. Proceeds /\ tracer' = tracer
        BY <1>1 DEF DoLine, DoOtherLine, Step, PrintLine, printerVars, Proceeds, Replaces
    <2>2. bad' \in BOOLEAN /\ enabled' = enabled
        BY <1>0, <1>1 DEF DoLine, DoOtherLine, PrintLine, printerVars, SpanDataTypes
    <2>3. UNCHANGED <<tracer, udp, spanVars>>
        BY <1>1 DEF DoLine, DoOtherLine
    <2>4. SpanDataTypes'
        BY <1>0, <2>1, <2>2, <2>3, ProceedSound DEF Proceeds, SpanDataTypes, spanVars
    <2>5. QED  BY <2>1, <2>4, ProceedSound DEF IInv
<1>2. CASE DoDelete \/ DoMake \/ DoStore
    <2>1. Proceeds
        BY <1>0, <1>2, HeadFields
           DEF DoDelete, DoMake, DoStore, Step, printerVars, Proceeds, Replaces
    <2>2. <<>> \in Seq(Spans) /\ \A s \in Spans : Append(active, s) \in Seq(Spans)
        BY <1>0 DEF SpanDataTypes
    <2>3. SpanDataTypes'
        <3>1. CASE DoDelete
            BY <1>0, <2>1, <3>1, ProceedSound, HeadFields
               DEF DoDelete, Step, SpanDataTypes, printerVars
        <3>2. CASE DoMake
            BY <1>0, <2>1, <3>2, ProceedSound, HeadFields
               DEF DoMake, Step, SpanDataTypes, printerVars
        <3>3. CASE DoStore
            BY <1>0, <2>1, <2>2, <3>3, ProceedSound, HeadFields
               DEF DoStore, Step, SpanDataTypes, printerVars
        <3>4. QED  BY <1>2, <3>1, <3>2, <3>3
    <2>4. QED  BY <2>1, <2>3, ProceedSound DEF IInv
<1>3. CASE DoTag
    <2>1. PrintLine(TRUE) \/ UNCHANGED printerVars
        BY <1>3 DEF DoTag
    <2>2. /\ locked' = locked /\ hung' = hung /\ threw' = threw /\ bad' \in BOOLEAN
          /\ enabled' = enabled
        BY <1>0, <2>1 DEF PrintLine, printerVars, SpanDataTypes
    <2>3. Proceeds
        BY <1>3, <2>2 DEF DoTag, Step, Proceeds, Replaces
    <2>4. tags' \in [Spans -> Seq(Tags)]
        <3>1. Head(steps).span \in Spans /\ Head(steps).tag \in Tags
            BY <1>0, <1>3, HeadFields DEF DoTag, Step
        <3>2. PICK s \in Spans, t \in Tags : s = Head(steps).span /\ t = Head(steps).tag
            BY <3>1
        <3>3. tags' = tags \/ tags' = [tags EXCEPT ![s] = Append(tags[s], t)]
            BY <1>3, <3>2 DEF DoTag
        <3>4. tags \in [Spans -> Seq(Tags)] /\ Append(tags[s], t) \in Seq(Tags)
            BY <1>0, <3>2 DEF SpanDataTypes
        <3>5. QED  BY <3>2, <3>3, <3>4
    <2>5. SpanDataTypes'
        BY <1>0, <1>3, <2>2, <2>3, <2>4, ProceedSound DEF DoTag, SpanDataTypes
    <2>6. QED  BY <2>3, <2>5, ProceedSound DEF IInv
<1>4. CASE DoLog
    <2>1. Proceeds
        BY <1>4 DEF DoLog, Step, printerVars, Proceeds, Replaces
    <2>2. Head(steps).span \in Spans /\ Head(steps).size \in LogSizes
        BY <1>0, <1>4, HeadFields DEF DoLog, Step
    <2>3. logs' \in [Spans -> Seq(LogSizes)]
        BY <1>0, <1>4, <2>2 DEF DoLog, SpanDataTypes
    <2>4. SpanDataTypes'
        BY <1>0, <1>4, <2>1, <2>3, ProceedSound DEF DoLog, SpanDataTypes, printerVars
    <2>5. QED  BY <2>1, <2>4, ProceedSound DEF IInv
<1>5. CASE DoForget
    <2>1. SpanDataTypes'
        BY <1>0, <1>5, NewRequestTypes DEF DoForget, SpanDataTypes, printerVars
    <2>2. Sound'
        BY <1>5, NextRequestSound DEF DoForget, printerVars
    <2>3. QED  BY <2>1, <2>2 DEF IInv
<1>6. CASE Throw
    <2>1. threw' /\ <<>> \in Seq(StepType)
        BY <1>6 DEF Throw, PrintThrows
    <2>2. SpanDataTypes'
        BY <1>0, <1>6, <2>1 DEF Throw, PrintThrows, SpanDataTypes, spanVars
    <2>3. QED  BY <2>1, <2>2 DEF IInv, Sound
<1>7. CASE Terminate \/ UseDeleted
    BY <1>7, RespawnSound DEF Terminate, UseDeleted
<1>8. CASE Hang
    <2>1. threw
        BY <1>8 DEF Hang, PrintHangs, IInv, Sound
    <2>2. threw' = threw
        BY <1>8 DEF Hang, PrintHangs
    <2>3. SpanDataTypes'
        BY <1>0, <1>8 DEF Hang, PrintHangs, SpanDataTypes, spanVars
    <2>4. QED  BY <2>1, <2>2, <2>3 DEF IInv, Sound
<1>9. QED  BY <1>1, <1>2, <1>3, <1>4, <1>5, <1>6, <1>7, <1>8 DEF Steps

-----------------------------------------------------------------------------
(* The theorems. *)

\* The inductive invariant: types, and every deletion is followed by a new tracer.
THEOREM SpanDataInvariant == Spec => []IInv
<1>1. IInv /\ [Next]_vars => IInv'
    <2> SUFFICES ASSUME IInv, [Next]_vars PROVE IInv'
        OBVIOUS
    <2>1. CASE Next
        BY <2>1, CallsSound, StepsSound DEF Next
    <2>2. CASE UNCHANGED vars
        BY <2>2 DEF IInv, SpanDataTypes, Sound, vars, printerVars, spanVars
    <2>3. QED  BY <2>1, <2>2
<1>2. QED  BY <1>1, InitSound, PTL DEF Spec

\* Tags and logs stay lists of each span, whatever the calls and wherever they
\* are broken off, and what is left of a call is always a list of steps.
THEOREM SpanDataTypeCorrect == Spec => []SpanDataTypes
<1>1. IInv => SpanDataTypes
    BY DEF IInv
<1>2. QED  BY <1>1, SpanDataInvariant, PTL

\* A process waits for its own mutex, or keeps a pointer to a deleted tracer,
\* only after a line of the debug log has thrown (Printer::PrintLine).
THEOREM StuckOnlyByLog == Spec => []StuckOnlyAfterThrow
<1>1. IInv => StuckOnlyAfterThrow
    <2>1. DOMAIN <<>> = {}
        OBVIOUS
    <2>2. QED  BY <2>1 DEF IInv, Sound, StuckOnlyAfterThrow
<1>2. QED  BY <1>1, SpanDataInvariant, PTL

-----------------------------------------------------------------------------
(* The tags of a call.  An exception and a new call need to know what a    *)
(* call record has, so its type is part of the invariant.                  *)

CallType ==
         {NoCall}
    \cup [name : {"external"}, uri : Uris, span : Spans \cup {0}, threw : BOOLEAN]
    \cup [name : {"addTags"}, span : Spans, before : Seq(Tags), list : Seq(Tags), threw : BOOLEAN]

\* What addTags still does after n tags.
TagsLeft(s, list, n) == [i \in 1 .. (Len(list) - n) |-> AddTag(s, list[n + i])]

\* No tag was taken from behind the first n.
Within(held, before, list, n) ==
    \A i \in Len(before) + 1 .. Len(held) : First(list, held[i].key) \in 1 .. n

GivenUpTo(n) ==
    /\ Extends(tags[call.span], call.before, call.list, n)
    /\ Within(tags[call.span], call.before, call.list, n)
    /\ \/ call.threw /\ steps = <<>>
       \/ ~call.threw /\ steps = TagsLeft(call.span, call.list, n)
       \/ ~call.threw /\ n = 0 /\ steps = <<Line(TRUE)>> \o TagsLeft(call.span, call.list, 0)

GivenInv ==
    /\ call \in CallType
    /\ call.name = "addTags" => \E n \in 0 .. Len(call.list) : GivenUpTo(n)

TagAdds(s) == {AddTag(s, t) : t \in Tags}

\* The steps that are left are a list, of which the first is the next tag.
LEMMA TagsLeftRest ==
    ASSUME NEW s, NEW list \in Seq(Tags), NEW n \in 0 .. Len(list)
    PROVE  /\ TagsLeft(s, list, n) \in Seq(TagAdds(s))
           /\ n = Len(list) <=> TagsLeft(s, list, n) = <<>>
           /\ n < Len(list) => /\ Head(TagsLeft(s, list, n)) = AddTag(s, list[n + 1])
                               /\ Tail(TagsLeft(s, list, n)) = TagsLeft(s, list, n + 1)
<1>1. Len(list) \in Nat /\ \A i \in 1 .. Len(list) : list[i] \in Tags
    BY LenProperties, ElementOfSeq
<1> DEFINE S == TagAdds(s)
           left(m) == TagsLeft(s, list, m)
<1>2. ASSUME NEW m \in 0 .. Len(list)
      PROVE  /\ left(m) \in Seq(S) /\ Len(left(m)) = Len(list) - m
             /\ \A i \in 1 .. (Len(list) - m) : left(m)[i] = AddTag(s, list[m + i])
    <2>1. \A i \in 1 .. (Len(list) - m) : AddTag(s, list[m + i]) \in S
        <3> TAKE i \in 1 .. (Len(list) - m)
        <3>1. m + i \in 1 .. Len(list)
            BY <1>1
        <3>2. list[m + i] \in Tags
            BY <1>1, <3>1
        <3> QED
            BY <3>2 DEF TagAdds
    <2>2. PICK k \in Nat : k = Len(list) - m
        BY <1>1
    <2>3. left(m) = [i \in 1 .. k |-> AddTag(s, list[m + i])]
        BY <2>2 DEF TagsLeft
    <2> HIDE DEF S
    <2>4. left(m) \in [1 .. k -> S]
        BY <2>1, <2>2, <2>3
    <2>5. left(m) \in Seq(S) /\ Len(left(m)) = k
        BY <2>3, <2>4
    <2> QED
        BY <2>2, <2>3, <2>5
<1> HIDE DEF left, S
<1>3. n = Len(list) <=> left(n) = <<>>
    BY <1>1, <1>2, EmptySeq
<1>4. ASSUME n < Len(list)
      PROVE  Head(left(n)) = AddTag(s, list[n + 1]) /\ Tail(left(n)) = left(n + 1)
    <2>1. n + 1 \in 0 .. Len(list) /\ 1 \in 1 .. (Len(list) - n) /\ left(n) # <<>>
        BY <1>1, <1>3, <1>4
    <2>2. Head(left(n)) = left(n)[1] /\ Tail(left(n)) \in Seq(S) /\ Len(Tail(left(n))) = Len(left(n)) - 1
          /\ \A i \in 1 .. Len(Tail(left(n))) : Tail(left(n))[i] = left(n)[i + 1]
        BY <1>2, <2>1, HeadTailProperties
    <2>3. Len(Tail(left(n))) = Len(list) - (n + 1) /\ Len(left(n + 1)) = Len(list) - (n + 1)
        BY <1>1, <1>2, <2>1, <2>2
    <2>4. \A i \in 1 .. Len(left(n + 1)) : Tail(left(n))[i] = left(n + 1)[i]
        <3> TAKE i \in 1 .. Len(left(n + 1))
        <3>1. i + 1 \in 1 .. (Len(list) - n) /\ i \in 1 .. (Len(list) - (n + 1)) /\ n + (i + 1) = (n + 1) + i
            BY <1>1, <2>3
        <3>2. Tail(left(n))[i] = AddTag(s, list[n + (i + 1)])
            BY <1>2, <2>2, <2>3, <3>1
        <3>3. left(n + 1)[i] = AddTag(s, list[(n + 1) + i])
            BY <1>2, <2>1, <3>1
        <3> QED
            BY <3>1, <3>2, <3>3
    <2>5. Tail(left(n)) = left(n + 1)
        BY <1>2, <2>1, <2>2, <2>3, <2>4, SeqEqual
    <2> QED
        BY <1>2, <2>1, <2>2, <2>5
<1> QED
    BY <1>2, <1>3, <1>4 DEF left, S

\* A key that the first n tags of list do not have is at n + 1 for the first time.
LEMMA FirstIs ==
    ASSUME NEW list \in Seq(Tags), NEW n \in 1 .. Len(list),
           \A j \in 1 .. (n - 1) : list[j].key # list[n].key
    PROVE  First(list, list[n].key) = n
<1>1. DOMAIN list = 1 .. Len(list) /\ Len(list) \in Nat
    BY LenProperties
<1>2. PICK key : key = list[n].key
    OBVIOUS
<1>3. \A i \in DOMAIN list : (list[i].key = key /\ \A j \in 1 .. i - 1 : list[j].key # key) <=> i = n
    <2> TAKE i \in DOMAIN list
    <2>1. i < n \/ i = n \/ i > n
        BY <1>1
    <2>2. i < n => i \in 1 .. (n - 1)
        BY <1>1
    <2>3. i > n => n \in 1 .. (i - 1)
        BY <1>1
    <2> QED
        BY <1>2, <2>1, <2>2, <2>3
<1>4. First(list, key) = n
    BY <1>1, <1>3 DEF First
<1> QED
    BY <1>2, <1>4

\* Being a prefix, element by element.
LEMMA PrefixIs ==
    ASSUME NEW S, NEW s \in Seq(S), NEW t \in Seq(S)
    PROVE  IsPrefix(s, t) <=> Len(s) <= Len(t) /\ \A i \in 1 .. Len(s) : s[i] = t[i]
<1>1. Len(s) \in Nat /\ Len(t) \in Nat
    BY LenProperties
<1>2. SubSeq(s, 1, Len(s)) = s
    BY <1>1
<1>3. CASE Len(s) <= Len(t)
    <2>1. \A i \in 1 .. Len(s) : t[i] \in S
        BY <1>1, <1>3
    <2>2. /\ SubSeq(t, 1, Len(s)) \in Seq(S) /\ Len(SubSeq(t, 1, Len(s))) = Len(s)
          /\ \A i \in 1 .. Len(s) : SubSeq(t, 1, Len(s))[i] = t[i]
        BY <1>1, <1>3, <2>1, SubSeqProperties
    <2>3. (SubSeq(t, 1, Len(s)) = s) <=> \A i \in 1 .. Len(s) : s[i] = t[i]
        BY <2>2, SeqEqual
    <2> QED
        BY <1>2, <1>3, <2>3 DEF IsPrefix
<1> QED
    BY <1>3 DEF IsPrefix

\* A key that is held already adds nothing.
LEMMA OldKey ==
    ASSUME NEW held \in Seq(Tags), NEW before \in Seq(Tags), NEW list \in Seq(Tags),
           NEW n \in 0 .. Len(list), n < Len(list), list[n + 1].key \in Keys(held),
           Extends(held, before, list, n), Within(held, before, list, n)
    PROVE  Extends(held, before, list, n + 1) /\ Within(held, before, list, n + 1)
<1>1. Len(list) \in Nat /\ n + 1 \in Nat /\ \A i : i \in 1 .. (n + 1) <=> i \in 1 .. n \/ i = n + 1
    BY LenProperties
<1>2. Keys(held) = Keys(before) \cup {list[i].key : i \in 1 .. n}
    BY DEF Extends
<1>3. {list[i].key : i \in 1 .. (n + 1)} = {list[i].key : i \in 1 .. n} \cup {list[n + 1].key}
    BY <1>1
<1>4. Keys(held) = Keys(before) \cup {list[i].key : i \in 1 .. (n + 1)}
    BY <1>2, <1>3
<1>5. Extends(held, before, list, n + 1)
    BY <1>4 DEF Extends
<1>6. Within(held, before, list, n + 1)
    BY <1>1 DEF Within
<1> QED
    BY <1>5, <1>6

\* A new key is held after all others.
LEMMA NewKey ==
    ASSUME NEW held \in Seq(Tags), NEW before \in Seq(Tags), NEW list \in Seq(Tags),
           NEW n \in 0 .. Len(list), n < Len(list), list[n + 1].key \notin Keys(held),
           Extends(held, before, list, n), Within(held, before, list, n)
    PROVE  /\ Extends(Append(held, list[n + 1]), before, list, n + 1)
           /\ Within(Append(held, list[n + 1]), before, list, n + 1)
<1>1. /\ Len(list) \in Nat /\ Len(held) \in Nat /\ Len(before) \in Nat /\ n + 1 \in 1 .. Len(list)
      /\ DOMAIN held = 1 .. Len(held) /\ n \in Nat
    BY LenProperties
<1>2. PICK tag \in Tags : tag = list[n + 1]
    BY <1>1, ElementOfSeq
<1>3. PICK h : h = Append(held, tag)
    OBVIOUS
<1>4. /\ h \in Seq(Tags) /\ Len(h) = Len(held) + 1 /\ h[Len(held) + 1] = tag
      /\ \A i \in 1 .. Len(held) : h[i] = held[i]
    BY <1>3, AppendProperties
<1>5. /\ Len(before) <= Len(held) /\ \A i \in 1 .. Len(before) : before[i] = held[i]
      /\ Keys(held) = Keys(before) \cup {list[i].key : i \in 1 .. n}
    BY PrefixIs DEF Extends
<1>6. IsPrefix(before, h)
    <2>1. Len(before) <= Len(h)
        BY <1>1, <1>4, <1>5
    <2>2. \A i \in 1 .. Len(before) : before[i] = h[i]
        BY <1>1, <1>4, <1>5
    <2> QED
        BY <1>4, <2>1, <2>2, PrefixIs
<1>7. Keys(h) = Keys(held) \cup {tag.key}
    <2>1. DOMAIN h = 1 .. Len(h) /\ \A i : i \in 1 .. Len(h) <=> i \in 1 .. Len(held) \/ i = Len(held) + 1
        BY <1>1, <1>4, LenProperties
    <2>2. \A i \in 1 .. Len(held) : h[i].key = held[i].key
        BY <1>4
    <2> QED
        BY <1>1, <1>4, <2>1, <2>2 DEF Keys
<1>8. \A i : i \in 1 .. (n + 1) <=> i \in 1 .. n \/ i = n + 1
    BY <1>1
<1>9. Keys(h) = Keys(before) \cup {list[i].key : i \in 1 .. (n + 1)}
    <2>1. {list[i].key : i \in 1 .. (n + 1)} = {list[i].key : i \in 1 .. n} \cup {list[n + 1].key}
        BY <1>8
    <2> QED
        BY <1>2, <1>5, <1>7, <2>1
<1>10. First(list, tag.key) = n + 1
    <2>1. \A j \in 1 .. n : list[j].key # tag.key
        BY <1>2, <1>5
    <2>2. PICK m \in 1 .. Len(list) : m = n + 1 /\ m - 1 = n
        BY <1>1
    <2>3. First(list, list[m].key) = m
        BY <1>2, <2>1, <2>2, FirstIs
    <2> QED
        BY <1>2, <2>2, <2>3
<1>11. \A i : i \in Len(before) + 1 .. Len(h) <=>
                 i \in Len(before) + 1 .. Len(held) \/ i = Len(held) + 1
    BY <1>1, <1>4, <1>5
<1>12. \A i \in Len(before) + 1 .. Len(held) :
         /\ h[i] = held[i] /\ held[i].key \notin Keys(before)
         /\ held[i] = list[First(list, held[i].key)] /\ First(list, held[i].key) \in 1 .. n
    <2> TAKE i \in Len(before) + 1 .. Len(held)
    <2>1. i \in 1 .. Len(held)
        BY <1>1
    <2> QED
        BY <1>4, <2>1 DEF Extends, Within
<1>13. tag.key \notin Keys(before)
    BY <1>2, <1>5
<1>14. \A i \in Len(before) + 1 .. Len(h) :
          h[i].key \notin Keys(before) /\ h[i] = list[First(list, h[i].key)]
    BY <1>2, <1>4, <1>10, <1>11, <1>12, <1>13
<1>15. ASSUME NEW i \in Len(before) + 1 .. Len(h), NEW j \in Len(before) + 1 .. Len(h), i < j
       PROVE  First(list, h[i].key) < First(list, h[j].key)
    <2>1. i \in Len(before) + 1 .. Len(held)
        BY <1>1, <1>4, <1>15
    <2>2. First(list, h[i].key) = First(list, held[i].key) /\ First(list, held[i].key) \in 1 .. n
        BY <1>12, <2>1
    <2>3. CASE j \in Len(before) + 1 .. Len(held)
        <3>1. First(list, held[i].key) < First(list, held[j].key)
            BY <1>15, <2>1, <2>3 DEF Extends
        <3> QED
            BY <1>12, <2>2, <2>3, <3>1
    <2>4. CASE j = Len(held) + 1
        <3>1. First(list, h[j].key) = n + 1
            BY <1>4, <1>10, <2>4
        <3> QED
            BY <1>1, <2>2, <3>1
    <2> QED
        BY <1>11, <2>3, <2>4
<1>16. Extends(h, before, list, n + 1)
    BY <1>6, <1>9, <1>14, <1>15 DEF Extends
<1>17. Within(h, before, list, n + 1)
    <2> SUFFICES ASSUME NEW i \in Len(before) + 1 .. Len(h)
                 PROVE  First(list, h[i].key) \in 1 .. (n + 1)
        BY DEF Within
    <2>1. CASE i \in Len(before) + 1 .. Len(held)
        BY <1>8, <1>12, <2>1
    <2>2. CASE i = Len(held) + 1
        BY <1>4, <1>8, <1>10, <2>2
    <2> QED
        BY <1>11, <2>1, <2>2
<1> QED
    BY <1>2, <1>3, <1>16, <1>17

\* The first and the rest of one element and a sequence.
LEMMA HeadTailOne ==
    ASSUME NEW S, NEW x \in S, NEW q \in Seq(S)
    PROVE  Head(<<x>> \o q) = x /\ Tail(<<x>> \o q) = q
<1>1. <<x>> \in Seq(S) /\ Len(<<x>>) = 1 /\ <<x>>[1] = x /\ Len(q) \in Nat
    BY LenProperties
<1>2. PICK r : r = <<x>> \o q
    OBVIOUS
<1>3. /\ r \in Seq(S) /\ Len(r) = 1 + Len(q)
      /\ \A i \in 1 .. (1 + Len(q)) : r[i] = IF i <= 1 THEN <<x>>[i] ELSE q[i - 1]
    BY <1>1, <1>2, ConcatProperties
<1>4. r # <<>> /\ r[1] = x
    BY <1>1, <1>3
<1>5. Tail(r) \in Seq(S) /\ Len(Tail(r)) = Len(q) /\ \A i \in 1 .. Len(q) : Tail(r)[i] = r[i + 1]
    BY <1>1, <1>3, <1>4, HeadTailProperties
<1>6. \A i \in 1 .. Len(q) : Tail(r)[i] = q[i]
    <2> TAKE i \in 1 .. Len(q)
    <2>1. i + 1 \in 1 .. (1 + Len(q)) /\ ~(i + 1 <= 1) /\ (i + 1) - 1 = i
        BY <1>1
    <2> QED
        BY <1>3, <1>5, <2>1
<1>7. Tail(r) = q
    BY <1>5, <1>6, SeqEqual
<1> QED
    BY <1>2, <1>3, <1>4, <1>7

\* What is left of addTags begins with a line or with the next tag.
LEMMA GivenHead ==
    ASSUME SpanDataTypes, GivenInv, call.name = "addTags", steps # <<>>,
           NEW n \in 0 .. Len(call.list), GivenUpTo(n)
    PROVE  /\ ~call.threw /\ call.span \in Spans /\ call.list \in Seq(Tags) /\ call.before \in Seq(Tags)
           /\ \/ /\ n = 0 /\ Head(steps).do = "line"
                 /\ Tail(steps) = TagsLeft(call.span, call.list, 0)
              \/ /\ n < Len(call.list) /\ Head(steps) = AddTag(call.span, call.list[n + 1])
                 /\ Tail(steps) = TagsLeft(call.span, call.list, n + 1)
<1>1. call.span \in Spans /\ call.list \in Seq(Tags) /\ call.before \in Seq(Tags)
    BY DEF GivenInv, CallType, NoCall
<1>2. PICK s \in Spans, list \in Seq(Tags) : s = call.span /\ list = call.list
    BY <1>1
<1>6. Len(list) \in Nat
    BY LenProperties
<1>7. n \in 0 .. Len(list) /\ 0 \in 0 .. Len(list)
    BY <1>2, <1>6
<1>3. /\ ~call.threw
      /\ steps = TagsLeft(s, list, n) \/ (n = 0 /\ steps = <<Line(TRUE)>> \o TagsLeft(s, list, 0))
    BY <1>2 DEF GivenUpTo
<1>4. CASE steps = TagsLeft(s, list, n)
    <2>1. n = Len(list) <=> TagsLeft(s, list, n) = <<>>
        BY <1>7, TagsLeftRest
    <2>2. n < Len(list)
        BY <1>4, <1>6, <1>7, <2>1
    <2>3. /\ Head(TagsLeft(s, list, n)) = AddTag(s, list[n + 1])
          /\ Tail(TagsLeft(s, list, n)) = TagsLeft(s, list, n + 1)
        BY <1>7, <2>2, TagsLeftRest
    <2> QED
        BY <1>1, <1>2, <1>3, <1>4, <2>2, <2>3
<1>5. CASE n = 0 /\ steps = <<Line(TRUE)>> \o TagsLeft(s, list, 0)
    <2>1. TagsLeft(s, list, 0) \in Seq(TagAdds(s))
        BY <1>7, TagsLeftRest
    <2>2. PICK S : Line(TRUE) \in S /\ TagsLeft(s, list, 0) \in Seq(S)
        <3>1. TagsLeft(s, list, 0) \in Seq(TagAdds(s) \cup {Line(TRUE)})
            BY <2>1, SeqMonotonic
        <3> QED
            BY <3>1
    <2>3. Head(steps) = Line(TRUE) /\ Tail(steps) = TagsLeft(s, list, 0)
        BY <1>5, <2>2, HeadTailOne
    <2> QED
        BY <1>1, <1>2, <1>3, <1>5, <2>3 DEF Line
<1> QED
    BY <1>3, <1>4, <1>5

\* addTags begins with nothing added.
LEMMA GivenStarts ==
    ASSUME SpanDataTypes, NEW list \in TagLists, addTags(list)
    PROVE  GivenInv'
<1>1. CASE call' = NoCall
    BY <1>1 DEF GivenInv, CallType, NoCall
<1>2. CASE tracer = "jaeger" /\ Current # 0 /\ call' # NoCall
    <2>1. PICK s \in Spans, given \in Seq(Tags) :
              s = Current /\ given = (IF udp THEN list ELSE <<>>)
        <3>1. list \in Seq(Tags) /\ <<>> \in Seq(Tags)
            BY GivenTags
        <3>2. Current \in Spans
            BY <1>2, CurrentIsSpan
        <3> QED
            BY <3>1, <3>2
    <2>2. /\ call' = [name |-> "addTags", span |-> s, before |-> tags[s], list |-> given,
                      threw |-> FALSE]
          /\ steps' = TagSteps(s, list) /\ tags' = tags
        BY <1>1, <1>2, <2>1 DEF addTags, Asked, Begin, spanVars
    <2>3. tags[s] \in Seq(Tags)
        BY DEF SpanDataTypes
    <2>4. call' \in CallType
        BY <2>2, <2>3 DEF CallType
    <2>5. steps' = <<Line(TRUE)>> \o TagsLeft(s, given, 0)
        <3>1. Len(list) \in Nat /\ DOMAIN list = 1 .. Len(list)
            BY GivenTags, LenProperties
        <3>2. [i \in DOMAIN list |-> AddTag(s, list[i])] = TagsLeft(s, list, 0)
            BY <3>1 DEF TagsLeft
        <3>3. TagsLeft(s, <<>>, 0) = <<>>
            BY DEF TagsLeft
        <3> QED
            BY <2>1, <2>2, <3>2, <3>3 DEF TagSteps
    <2>6. Extends(tags[s], tags[s], given, 0) /\ Within(tags[s], tags[s], given, 0)
        <3>1. PICK n \in Nat : n = Len(tags[s])
            BY <2>3, LenProperties
        <3>2. IsPrefix(tags[s], tags[s])
            BY <2>3, <3>1 DEF IsPrefix
        <3>3. n + 1 .. n = {} /\ 1 .. 0 = {}
            BY <3>1
        <3> QED
            BY <3>1, <3>2, <3>3 DEF Extends, Within
    <2>7. /\ call'.name = "addTags" /\ call'.span = s /\ call'.before = tags[s]
          /\ call'.list = given /\ call'.threw = FALSE
        BY <2>2
    <2>8. GivenUpTo(0)'
        BY <2>2, <2>5, <2>6, <2>7 DEF GivenUpTo
    <2>9. 0 \in 0 .. Len(given)
        BY <2>1, LenProperties
    <2> QED
        BY <2>4, <2>7, <2>8, <2>9 DEF GivenInv
<1> QED
    BY <1>1, <1>2 DEF addTags, Asked, Begin

\* Every other call has no tags to give.
LEMMA OtherCalls ==
    ASSUME Calls, \A list \in TagLists : ~addTags(list)
    PROVE  GivenInv'
<1>1. call' = NoCall \/ \E uri \in Uris, s \in Spans \cup {0} : call' = External(uri, s)
    BY DEF Calls, InitTracer, StartSpan, FinishSpan, addLogs, print, SkipExternal, ExternalNoop,
           ExternalInTrace, ExternalAlone, OnIdle, Asked, Begin
<1>2. call'.name # "addTags"
    BY <1>1 DEF External, NoCall
<1>3. call' \in CallType
    <2>1. \A uri \in Uris, s \in Spans \cup {0} : External(uri, s) \in CallType
        BY DEF External, CallType
    <2> QED
        BY <1>1, <2>1 DEF CallType
<1> QED
    BY <1>2, <1>3 DEF GivenInv

\* The record of a call that was broken off.
BrokenOff == [call EXCEPT !.threw = TRUE]

\* It differs in nothing else.
LEMMA Broken ==
    ASSUME GivenInv, call # NoCall
    PROVE  /\ BrokenOff \in CallType /\ BrokenOff.name = call.name
           /\ call.name = "addTags" =>
                 /\ BrokenOff.threw /\ BrokenOff.span = call.span
                 /\ BrokenOff.before = call.before /\ BrokenOff.list = call.list
<1> USE DEF BrokenOff
<1>1. CASE call \in [name : {"external"}, uri : Uris, span : Spans \cup {0}, threw : BOOLEAN]
    <2>1. BrokenOff
             \in [name : {"external"}, uri : Uris, span : Spans \cup {0}, threw : BOOLEAN]
        BY <1>1
    <2>2. BrokenOff.name = call.name /\ call.name = "external"
        BY <1>1
    <2> QED
        BY <2>1, <2>2 DEF CallType
<1>2. CASE call \in [name : {"addTags"}, span : Spans, before : Seq(Tags), list : Seq(Tags),
                     threw : BOOLEAN]
    <2>1. BrokenOff \in [name : {"addTags"}, span : Spans, before : Seq(Tags), list : Seq(Tags),
                      threw : BOOLEAN]
        BY <1>2
    <2>2. BrokenOff.name = call.name
        BY <1>2
    <2>3. /\ BrokenOff.threw /\ BrokenOff.span = call.span
          /\ BrokenOff.before = call.before /\ BrokenOff.list = call.list
        BY <1>2
    <2>4. BrokenOff \in CallType
        BY <2>1 DEF CallType
    <2> QED
        BY <2>2, <2>3, <2>4
<1> QED
    BY <1>1, <1>2 DEF GivenInv, CallType

\* A tag of the call is added or is not, when its key is held.
LEMMA TagGiven ==
    ASSUME SpanDataTypes, GivenInv, call.name = "addTags", steps # <<>>, DoTag,
           NEW n \in 0 .. Len(call.list), GivenUpTo(n)
    PROVE  GivenInv'
<1>1. /\ ~call.threw /\ call.span \in Spans /\ call.list \in Seq(Tags) /\ call.before \in Seq(Tags)
      /\ n < Len(call.list) /\ Head(steps) = AddTag(call.span, call.list[n + 1])
      /\ Tail(steps) = TagsLeft(call.span, call.list, n + 1)
    BY GivenHead DEF DoTag, Step
<1>2. PICK s \in Spans, list \in Seq(Tags), before \in Seq(Tags) :
          s = call.span /\ list = call.list /\ before = call.before
    BY <1>1
<1>3. Len(list) \in Nat /\ n \in 0 .. Len(list) /\ n < Len(list) /\ n + 1 \in 1 .. Len(list)
    BY <1>1, <1>2, LenProperties
<1>4. PICK tag \in Tags : tag = list[n + 1]
    BY <1>3, ElementOfSeq
<1>5. Head(steps).span = s /\ Head(steps).tag = tag
    BY <1>1, <1>2, <1>4 DEF AddTag
<1>6. tags \in [Spans -> Seq(Tags)] /\ tags[s] \in Seq(Tags)
    BY DEF SpanDataTypes
<1>7. Extends(tags[s], before, list, n) /\ Within(tags[s], before, list, n)
    BY <1>2 DEF GivenUpTo
<1>8. HasKey(s, tag.key) <=> tag.key \in Keys(tags[s])
    BY DEF HasKey, Keys
<1>9. Extends(tags'[s], before, list, n + 1) /\ Within(tags'[s], before, list, n + 1)
    <2>1. CASE tag.key \in Keys(tags[s])
        <3>1. tags' = tags
            BY <1>5, <1>8, <2>1 DEF DoTag
        <3> QED
            BY <1>3, <1>4, <1>6, <1>7, <2>1, <3>1, OldKey
    <2>2. CASE tag.key \notin Keys(tags[s])
        <3>1. tags' = [tags EXCEPT ![s] = Append(tags[s], tag)]
            BY <1>5, <1>8, <2>2 DEF DoTag
        <3>2. tags'[s] = Append(tags[s], tag)
            BY <1>6, <3>1
        <3>3. /\ Extends(Append(tags[s], tag), before, list, n + 1)
              /\ Within(Append(tags[s], tag), before, list, n + 1)
            BY <1>3, <1>4, <1>6, <1>7, <2>2, NewKey
        <3> QED
            BY <3>2, <3>3
    <2> QED
        BY <2>1, <2>2
<1>10. call' = call /\ steps' = TagsLeft(s, list, n + 1)
    BY <1>1, <1>2 DEF DoTag
<1>11. GivenUpTo(n + 1)'
    BY <1>1, <1>2, <1>9, <1>10 DEF GivenUpTo
<1>12. n + 1 \in 0 .. Len(call'.list)
    BY <1>2, <1>3, <1>10
<1> QED
    BY <1>10, <1>11, <1>12 DEF GivenInv

\* Every step keeps what is left of addTags, an exception in the debug log included.
LEMMA GivenStays ==
    ASSUME SpanDataTypes, GivenInv, [Next]_vars
    PROVE  GivenInv'
<1>1. CASE Calls
    BY <1>1, GivenStarts, OtherCalls
<1>2. CASE call' = NoCall
    BY <1>2 DEF GivenInv, CallType, NoCall
<1>3. CASE UNCHANGED <<call, steps, tags>>
    BY <1>3 DEF GivenInv, GivenUpTo
<1>4. CASE /\ steps # <<>> /\ steps' = Tail(steps) /\ UNCHANGED <<call, tags>>
           /\ Head(steps).do # "tag"
    <2>1. CASE call.name # "addTags"
        BY <1>4, <2>1 DEF GivenInv
    <2>2. CASE call.name = "addTags"
        <3>1. PICK n \in 0 .. Len(call.list) : GivenUpTo(n)
            BY <2>2 DEF GivenInv
        <3>2. ~call.threw /\ n = 0 /\ Tail(steps) = TagsLeft(call.span, call.list, 0)
            BY <1>4, <2>2, <3>1, GivenHead DEF AddTag
        <3>3. GivenUpTo(0)'
            BY <1>4, <3>1, <3>2 DEF GivenUpTo
        <3> QED
            BY <1>4, <3>1, <3>2, <3>3 DEF GivenInv
    <2> QED
        BY <2>1, <2>2
<1>5. CASE DoTag
    <2>1. CASE call.name # "addTags"
        BY <1>5, <2>1 DEF GivenInv, DoTag
    <2>2. CASE call.name = "addTags"
        BY <1>5, <2>2, TagGiven DEF GivenInv, DoTag, Step
    <2> QED
        BY <2>1, <2>2
<1>6. CASE Throw
    <2>1. steps' = <<>> /\ tags' = tags /\ (call # NoCall => call' = BrokenOff)
        BY <1>6 DEF Throw, spanVars, BrokenOff
    <2>2. CASE call # NoCall
        <3>1. call' \in CallType /\ call'.name = call.name
            BY <2>1, <2>2, Broken, Zenon
        <3>2. CASE call.name # "addTags"
            BY <3>1, <3>2 DEF GivenInv
        <3>3. CASE call.name = "addTags"
            <4>1. PICK n \in 0 .. Len(call.list) : GivenUpTo(n)
                BY <3>3 DEF GivenInv
            <4>2. /\ call'.threw /\ call'.span = call.span
                  /\ call'.before = call.before /\ call'.list = call.list
                BY <2>1, <2>2, <3>3, Broken, Zenon
            <4>3. GivenUpTo(n)'
                BY <2>1, <4>1, <4>2 DEF GivenUpTo
            <4>4. n \in 0 .. Len(call'.list)
                BY <4>1, <4>2
            <4> QED
                BY <3>1, <4>3, <4>4 DEF GivenInv
        <3> QED
            BY <3>2, <3>3
    <2>3. CASE call = NoCall
        BY <1>2, <1>6, <2>3 DEF Throw
    <2> QED
        BY <2>2, <2>3
<1>7. CASE Steps
    <2>1. DoLine \/ DoOtherLine \/ DoDelete \/ DoMake \/ DoStore \/ DoLog =>
             /\ steps # <<>> /\ steps' = Tail(steps) /\ UNCHANGED <<call, tags>>
             /\ Head(steps).do # "tag"
        BY DEF DoLine, DoOtherLine, DoDelete, DoMake, DoStore, DoLog, Step, spanVars
    <2>2. DoForget \/ Terminate => call' = NoCall
        BY DEF DoForget, Terminate, Respawn, NewRequest
    <2>3. Hang => UNCHANGED <<call, steps, tags>>
        BY DEF Hang, spanVars
    <2> QED
        BY <1>2, <1>3, <1>4, <1>5, <1>6, <1>7, <2>1, <2>2, <2>3 DEF Steps
<1>8. CASE UseDeleted
    BY <1>2, <1>8 DEF UseDeleted, Respawn, NewRequest
<1>9. CASE UNCHANGED vars
    BY <1>3, <1>9 DEF vars, spanVars
<1> QED
    BY <1>1, <1>7, <1>8, <1>9 DEF Next

\* A new process has no call.
LEMMA GivenFirst == Init => GivenInv
BY DEF Init, GivenInv, CallType, NoCall

\* When nothing is left and nothing threw, all the tags were given.
LEMMA GivenAgrees == SpanDataTypes /\ GivenInv => TagsAsGiven
<1> SUFFICES ASSUME SpanDataTypes, GivenInv, call.name = "addTags" PROVE
        \E n \in 0 .. Len(call.list) :
            /\ Extends(tags[call.span], call.before, call.list, n)
            /\ steps = <<>> /\ ~call.threw => n = Len(call.list)
    BY DEF TagsAsGiven
<1>1. PICK n \in 0 .. Len(call.list) : GivenUpTo(n)
    BY DEF GivenInv
<1>2. PICK s \in Spans, list \in Seq(Tags) : s = call.span /\ list = call.list
    BY DEF GivenInv, CallType, NoCall
<1>3. TagsLeft(s, list, n) = <<>> => n = Len(list)
    <2>1. n \in 0 .. Len(list)
        BY <1>2
    <2> QED
        BY <2>1, TagsLeftRest
<1>4. <<Line(TRUE)>> \o TagsLeft(s, list, 0) # <<>>
    <2>1. PICK S : Line(TRUE) \in S /\ TagsLeft(s, list, 0) \in Seq(S)
        <3>1. 0 \in 0 .. Len(list)
            BY LenProperties
        <3>2. TagsLeft(s, list, 0) \in Seq(TagAdds(s) \cup {Line(TRUE)})
            BY <3>1, TagsLeftRest, SeqMonotonic
        <3> QED
            BY <3>2
    <2>2. PICK x \in S, left \in Seq(S) : x = Line(TRUE) /\ left = TagsLeft(s, list, 0)
        BY <2>1
    <2>3. <<x>> \in Seq(S) /\ Len(<<x>>) = 1
        OBVIOUS
    <2>4. Len(left) \in Nat
        BY LenProperties
    <2>5. <<x>> \o left \in Seq(S) /\ Len(<<x>> \o left) = 1 + Len(left)
        BY <2>3, <2>4, ConcatProperties
    <2>6. <<x>> \o left # <<>>
        BY <2>4, <2>5, EmptySeq
    <2> QED
        BY <2>2, <2>6
<1>5. steps = <<>> /\ ~call.threw => n = Len(call.list)
    BY <1>1, <1>2, <1>3, <1>4 DEF GivenUpTo
<1> QED
    BY <1>1, <1>5 DEF GivenUpTo

\* addTags keeps the first value of each key and the order of the tags, for any list of
\* tags and wherever an exception of the debug log ends it (JaegerSpan::addTags).
THEOREM TagsGiven == Spec => []TagsAsGiven
<1>1. SpanDataTypes /\ GivenInv /\ [Next]_vars => GivenInv'
    BY GivenStays
<1>2. SpanDataTypes /\ GivenInv => TagsAsGiven
    BY GivenAgrees
<1> QED
    BY <1>1, <1>2, GivenFirst, SpanDataTypeCorrect, PTL DEF Spec

-----------------------------------------------------------------------------
(* The hosts of a setting. *)

\* A sequence of one element.
LEMMA OneElement ==
    ASSUME NEW S, NEW x \in S
    PROVE  <<x>> \in Seq(S) /\ Len(<<x>>) = 1 /\ <<x>>[1] = x
OBVIOUS

\* A text begins with a letter just if this is its first.
LEMMA BeginsWith ==
    ASSUME NEW S, NEW h \in Seq(S), NEW x \in S, NEW k \in 1 .. Len(h)
    PROVE  IsPrefix(<<x>>, SubSeq(h, k, Len(h))) <=> h[k] = x
<1>1. PICK n \in Nat : n = Len(h)
    BY LenProperties
<1>2. k \in 1 .. n /\ n \in 1 .. n
    BY <1>1
<1>3. \A j \in k .. n : h[j] \in S
    BY <1>1, <1>2, ElementOfSeq
<1>4. PICK q : q = SubSeq(h, k, n)
    OBVIOUS
<1>5. q \in Seq(S) /\ Len(q) = n - k + 1 /\ \A j \in 1 .. n - k + 1 : q[j] = h[k + j - 1]
    BY <1>1, <1>2, <1>3, <1>4, SubSeqProperties
<1>6. 1 <= Len(q) /\ q[1] = h[k]
    BY <1>2, <1>5
<1>7. PICK p : p = <<x>>
    OBVIOUS
<1>8. p \in Seq(S) /\ Len(p) = 1 /\ p[1] = x
    BY <1>7, OneElement
<1>9. IsPrefix(p, q) <=> Len(p) <= Len(q) /\ \A j \in 1 .. Len(p) : p[j] = q[j]
    <2>1. p \in Seq(S) /\ q \in Seq(S)
        BY <1>5, <1>8
    <2> QED
        BY <2>1, PrefixIs
<1>10. \A j : j \in 1 .. 1 <=> j = 1
    OBVIOUS
<1> QED
    BY <1>1, <1>4, <1>6, <1>7, <1>8, <1>9, <1>10

\* find returns the next place of a letter, or 0 if there is none.
FirstFrom(h, x, i, pos) ==
    /\ pos = 0 => \A k \in i .. Len(h) : h[k] # x
    /\ pos # 0 => pos \in i .. Len(h) /\ h[pos] = x /\ \A k \in i .. pos - 1 : h[k] # x

\* That is what Find does for a text of one letter.
LEMMA NextLetter ==
    ASSUME NEW S, NEW h \in Seq(S), NEW x \in S, NEW i \in 1 .. Len(h) + 1
    PROVE  FirstFrom(h, x, i, Find(h, <<x>>, i))
<1>1. PICK n \in Nat : n = Len(h)
    BY LenProperties
<1>2. i \in Nat /\ i > 0 /\ i <= n + 1
    BY <1>1
<1>3. ASSUME NEW k \in i .. n
      PROVE  IsPrefix(<<x>>, SubSeq(h, k, n)) <=> h[k] = x
    <2>1. k \in 1 .. n
        BY <1>2
    <2> QED
        BY <1>1, <2>1, BeginsWith
<1>4. PICK F : F = Found(h, <<x>>, i)
    OBVIOUS
<1>5. F = {k \in i .. n : h[k] = x}
    BY <1>1, <1>3, <1>4 DEF Found
<1>6. CASE F = {}
    <2>1. Find(h, <<x>>, i) = 0
        BY <1>4, <1>6 DEF Find
    <2> QED
        BY <1>1, <1>5, <1>6, <2>1 DEF FirstFrom
<1>7. CASE F # {}
    <2>1. F \in SUBSET Nat
        <3>1. \A k \in i .. n : k \in Nat
            BY <1>2
        <3> QED
            BY <1>5, <3>1
    <2>2. \E v \in F : \A y \in F : v <= y
        BY <1>7, <2>1, Numbers!LeastNumber
    <2>3. PICK pos : pos = Find(h, <<x>>, i)
        OBVIOUS
    <2>4. pos = CHOOSE v \in F : \A y \in F : v <= y
        BY <1>4, <1>7, <2>3 DEF Find
    <2>5. pos \in F /\ \A y \in F : pos <= y
        BY <2>2, <2>4
    <2>6. pos \in i .. n /\ h[pos] = x
        BY <1>5, <2>5
    <2>7. pos # 0
        BY <1>2, <2>6
    <2>8. \A k \in i .. pos - 1 : h[k] # x
        <3> TAKE k \in i .. pos - 1
        <3>1. k \in i .. n /\ ~(pos <= k)
            BY <1>2, <2>6
        <3> QED
            BY <1>5, <2>5, <3>1
    <2> QED
        BY <1>1, <2>3, <2>6, <2>7, <2>8 DEF FirstFrom
<1> QED
    BY <1>6, <1>7

\* The letter parseHostsStr looks for.
LEMMA NextSemicolon ==
    ASSUME NEW h \in Seq(STRING), NEW i \in 1 .. Len(h) + 1
    PROVE  FirstFrom(h, ";", i, Find(h, <<";">>, i))
<1>1. PICK x : x = ";"
    OBVIOUS
<1>2. h \in Seq(STRING \cup {x}) /\ x \in STRING \cup {x}
    OBVIOUS
<1>3. FirstFrom(h, x, i, Find(h, <<x>>, i))
    BY <1>2, NextLetter
<1> QED
    BY <1>1, <1>3, Zenon

\* The hosts from a place of the setting on, and how parseHostsStr defines them.
HostsAt(h, f, i) ==
    LET pos == Find(h, <<";">>, i)
    IN IF pos = 0 THEN <<SubSeq(h, i, Len(h))>> ELSE <<SubSeq(h, i, pos - 1)>> \o f[pos + 1]

Hosts(h) == CHOOSE f : f = [i \in 1 .. Len(h) + 1 |-> HostsAt(h, f, i)]

\* parseHostsStr begins at the first place, unless the setting is empty.
LEMMA HostsParsed ==
    \A h : parseHostsStr(h) = IF h = <<>> THEN <<>> ELSE Hosts(h)[1]
BY DEF parseHostsStr, Hosts, HostsAt

\* The texts of a setting are texts.
LEMMA PartIsText ==
    ASSUME NEW h \in Seq(STRING), NEW i \in 1 .. Len(h) + 1, NEW j \in 0 .. Len(h)
    PROVE  SubSeq(h, i, j) \in Seq(STRING)
<1>1. Len(h) \in Nat /\ \A k \in 1 .. Len(h) : h[k] \in STRING
    BY LenProperties, ElementOfSeq
<1>2. \A k \in i .. j : h[k] \in STRING
    BY <1>1
<1> QED
    BY <1>1, <1>2, SubSeqProperties

\* find returns a place of the setting, or 0.
LEMMA NextPlace ==
    ASSUME NEW h \in Seq(STRING), NEW i \in 1 .. Len(h) + 1
    PROVE  Find(h, <<";">>, i) = 0 \/ Find(h, <<";">>, i) \in i .. Len(h)
BY NextSemicolon DEF FirstFrom

\* What the recursion of parseHostsStr starts from and goes on with, counted from the end
\* of the setting.
Place(n, k)  == IF k <= n THEN n + 1 - k ELSE 1
HostAt(h, i) == SubSeq(h, i, IF Find(h, <<";">>, i) = 0 THEN Len(h) ELSE Find(h, <<";">>, i) - 1)
Texts        == Seq(Seq(STRING))

LastHosts(h) == [k \in Nat |-> <<HostAt(h, Place(Len(h), k))>>]
MoreHosts(h) == [k \in Nat |-> [v \in Texts |->
                    IF Find(h, <<";">>, Place(Len(h), k)) = 0 THEN <<HostAt(h, Place(Len(h), k))>>
                    ELSE <<HostAt(h, Place(Len(h), k))>> \o v]]
Behind(h)    == [k \in Nat |->
                    IF k > Len(h) \/ Find(h, <<";">>, Place(Len(h), k)) = 0 THEN 0
                    ELSE Len(h) - Find(h, <<";">>, Place(Len(h), k))]

\* One turn of the recursion.
LEMMA BehindIs ==
    ASSUME NEW h \in Seq(STRING), NEW k \in Nat, k <= Len(h)
    PROVE  LET pos == Find(h, <<";">>, Place(Len(h), k))
           IN Behind(h)[k] = IF pos = 0 THEN 0 ELSE Len(h) - pos
<1>1. PICK n \in Nat : n = Len(h)
    BY LenProperties
<1>2. ~(k > n)
    BY <1>1
<1> QED
    BY <1>1, <1>2 DEF Behind

\* They have the types recursion asks for, and it comes nearer to the end.
LEMMA HostsRecur ==
    ASSUME NEW h \in Seq(STRING)
    PROVE  Numbers!Recursion(Texts, 1, LastHosts(h), MoreHosts(h), Behind(h))
<1>1. PICK n \in Nat : n = Len(h)
    BY LenProperties
<1>2. \A k \in Nat : Place(n, k) \in 1 .. n + 1
    BY DEF Place
<1>3. \A i \in 1 .. n + 1 : <<HostAt(h, i)>> \in Texts
    <2> TAKE i \in 1 .. n + 1
    <2>1. PICK pos : pos = Find(h, <<";">>, i)
        OBVIOUS
    <2>2. pos = 0 \/ pos \in i .. n
        BY <1>1, <2>1, NextPlace
    <2>3. PICK j : j = IF pos = 0 THEN n ELSE pos - 1
        OBVIOUS
    <2>4. j \in 0 .. n
        BY <2>2, <2>3
    <2>5. HostAt(h, i) \in Seq(STRING)
        BY <1>1, <2>1, <2>3, <2>4, PartIsText DEF HostAt
    <2> QED
        BY <2>5 DEF Texts
<1>4. \A q, v \in Texts : q \o v \in Texts
    BY ConcatProperties DEF Texts
<1>5. LastHosts(h) \in [Nat -> Texts]
    BY <1>1, <1>2, <1>3 DEF LastHosts
<1>6. ASSUME NEW k \in Nat
      PROVE  MoreHosts(h)[k] \in [Texts -> Texts]
    <2>1. PICK q \in Texts : q = <<HostAt(h, Place(Len(h), k))>>
        BY <1>1, <1>2, <1>3
    <2>2. MoreHosts(h)[k] = [v \in Texts |-> IF Find(h, <<";">>, Place(Len(h), k)) = 0 THEN q ELSE q \o v]
        BY <2>1 DEF MoreHosts
    <2> QED
        BY <1>4, <2>1, <2>2
<1>7. MoreHosts(h) \in [Nat -> [Texts -> Texts]]
    BY <1>6 DEF MoreHosts
<1>8. ASSUME NEW k \in Nat
      PROVE  Behind(h)[k] \in Nat /\ (k >= 1 => Behind(h)[k] < k)
    <2>1. CASE k > n
        BY <1>1, <2>1 DEF Behind
    <2>2. CASE k <= n
        <3>1. PICK pos : pos = Find(h, <<";">>, n + 1 - k)
            OBVIOUS
        <3>2. n + 1 - k \in 1 .. n + 1 /\ Place(n, k) = n + 1 - k
            BY <2>2 DEF Place
        <3>3. pos = 0 \/ pos \in n + 1 - k .. n
            BY <1>1, <3>1, <3>2, NextPlace
        <3>4. Behind(h)[k] = IF pos = 0 THEN 0 ELSE n - pos
            BY <1>1, <2>2, <3>1, <3>2, BehindIs
        <3> QED
            BY <2>2, <3>3, <3>4
    <2> QED
        BY <2>1, <2>2
<1>9. Behind(h) \in [Nat -> Nat]
    BY <1>8 DEF Behind
<1> QED
    BY <1>5, <1>7, <1>8, <1>9 DEF Numbers!Recursion

\* There are such hosts for each place.
LEMMA HostsDefined ==
    ASSUME NEW h \in Seq(STRING)
    PROVE  Hosts(h) = [i \in 1 .. Len(h) + 1 |-> HostsAt(h, Hosts(h), i)]
<1>1. PICK n \in Nat : n = Len(h)
    BY LenProperties
<1>2. PICK F \in [Nat -> Texts] : Numbers!Recurs(F, 1, LastHosts(h), MoreHosts(h), Behind(h))
    BY HostsRecur, Numbers!FunctionExists
<1>3. \A k \in Nat : F[k] = IF k < 1 THEN LastHosts(h)[k] ELSE MoreHosts(h)[k][F[Behind(h)[k]]]
    BY <1>2 DEF Numbers!Recurs
<1>4. PICK f : f = [i \in 1 .. n + 1 |-> F[n + 1 - i]]
    OBVIOUS
<1>5. ASSUME NEW i \in 1 .. n + 1
      PROVE  f[i] = HostsAt(h, f, i)
    <2>1. PICK k \in 0 .. n : k = n + 1 - i
        OBVIOUS
    <2>2. Place(n, k) = i /\ f[i] = F[k]
        BY <1>4, <2>1 DEF Place
    <2>3. PICK pos : pos = Find(h, <<";">>, i)
        OBVIOUS
    <2>4. pos = 0 \/ pos \in i .. n
        BY <1>1, <2>3, NextPlace
    <2>5. CASE k = 0
        <3>1. pos = 0
            BY <2>1, <2>4, <2>5
        <3>2. F[k] = <<HostAt(h, i)>>
            BY <1>1, <1>3, <2>2, <2>5 DEF LastHosts
        <3> QED
            BY <1>1, <2>2, <2>3, <3>1, <3>2 DEF HostsAt, HostAt
    <2>6. CASE k # 0
        <3>1. F[k] = MoreHosts(h)[k][F[Behind(h)[k]]] /\ k \in Nat /\ k <= n
            BY <1>3, <2>6
        <3>2. Behind(h)[k] = IF pos = 0 THEN 0 ELSE n - pos
            BY <1>1, <2>2, <2>3, <3>1, BehindIs
        <3>3. Behind(h)[k] \in Nat
            BY <2>4, <3>2
        <3>4. PICK v \in Texts : v = F[Behind(h)[k]]
            BY <1>2, <3>3
        <3>5. F[k] = IF pos = 0 THEN <<HostAt(h, i)>> ELSE <<HostAt(h, i)>> \o v
            BY <1>1, <2>2, <2>3, <3>1, <3>4 DEF MoreHosts
        <3>6. CASE pos = 0
            BY <1>1, <2>2, <2>3, <3>5, <3>6 DEF HostsAt, HostAt
        <3>7. CASE pos # 0
            <4>1. pos + 1 \in 1 .. n + 1 /\ n + 1 - (pos + 1) = n - pos
                BY <2>4, <3>7
            <4>2. f[pos + 1] = v
                BY <1>4, <3>2, <3>4, <3>7, <4>1
            <4> QED
                BY <1>1, <2>2, <2>3, <3>5, <3>7, <4>2 DEF HostsAt, HostAt
        <3> QED
            BY <3>6, <3>7
    <2> QED
        BY <2>5, <2>6
<1>6. f = [i \in 1 .. Len(h) + 1 |-> HostsAt(h, f, i)]
    BY <1>1, <1>4, <1>5
<1> QED
    BY <1>6 DEF Hosts

\* A host of the setting from i on, with x between the hosts, is how u begins.
IsHost(h, x, i, a, b) ==
    /\ a = i \/ (a > i /\ h[a - 1] = x)
    /\ b = Len(h) \/ (b < Len(h) /\ h[b + 1] = x)
    /\ b >= a - 1 /\ \A k \in a .. b : h[k] # x

ListedFrom(h, x, u, i) ==
    \E a \in i .. Len(h) + 1, b \in 0 .. Len(h) :
        IsHost(h, x, i, a, b) /\ IsPrefix(SubSeq(h, a, b), u)

\* The hosts from i on are the first of them and those behind it.
LEMMA HostsSplit ==
    ASSUME NEW S, NEW h \in Seq(S), NEW x, NEW u, NEW i \in 1 .. Len(h) + 1, NEW pos,
           FirstFrom(h, x, i, pos)
    PROVE  /\ pos = 0 => (ListedFrom(h, x, u, i) <=> IsPrefix(SubSeq(h, i, Len(h)), u))
           /\ pos # 0 => /\ pos + 1 \in 1 .. Len(h) + 1
                         /\ ListedFrom(h, x, u, i) <=>
                                \/ IsPrefix(SubSeq(h, i, pos - 1), u)
                                \/ ListedFrom(h, x, u, pos + 1)
<1>1. PICK n \in Nat : n = Len(h)
    BY LenProperties
<1>2. i \in Nat /\ i > 0 /\ i <= n + 1
    BY <1>1
<1>3. CASE pos = 0
    <2>1. \A k \in i .. n : h[k] # x
        BY <1>1, <1>3 DEF FirstFrom
    <2>2. ASSUME NEW a \in i .. n + 1, NEW b \in 0 .. n, IsHost(h, x, i, a, b)
          PROVE  a = i /\ b = n
        <3>1. a \in Nat /\ a >= i /\ a <= n + 1
            BY <1>2
        <3>2. a > i => a - 1 \in i .. n
            BY <1>2, <3>1
        <3>3. a = i
            BY <1>2, <2>1, <2>2, <3>1, <3>2 DEF IsHost
        <3>4. b < n /\ b >= a - 1 => b + 1 \in i .. n
            BY <1>2, <3>3
        <3>5. b = n
            BY <1>1, <2>1, <2>2, <3>4 DEF IsHost
        <3> QED
            BY <3>3, <3>5
    <2>3. i \in i .. n + 1 /\ n \in 0 .. n /\ n >= i - 1
        BY <1>2
    <2>4. IsHost(h, x, i, i, n)
        BY <1>1, <2>1, <2>3 DEF IsHost
    <2>5. ListedFrom(h, x, u, i) <=> IsPrefix(SubSeq(h, i, n), u)
        BY <1>1, <2>2, <2>3, <2>4 DEF ListedFrom
    <2> QED
        BY <1>1, <1>3, <2>5
<1>4. CASE pos # 0
    <2>1. pos \in i .. n /\ h[pos] = x /\ \A k \in i .. pos - 1 : h[k] # x
        BY <1>1, <1>4 DEF FirstFrom
    <2>2. pos \in Nat /\ pos >= i /\ pos <= n /\ pos + 1 \in 1 .. n + 1
        BY <1>2, <2>1
    <2>3. ASSUME NEW a \in i .. n + 1, NEW b \in 0 .. n, IsHost(h, x, i, a, b)
          PROVE  \/ a = i /\ b = pos - 1
                 \/ a \in pos + 1 .. n + 1 /\ IsHost(h, x, pos + 1, a, b)
        <3>1. a \in Nat /\ a >= i /\ a <= n + 1
            BY <1>2
        <3>2. CASE a = i
            <4>1. b >= pos => pos \in a .. b
                BY <2>2, <3>2
            <4>2. b < pos
                BY <2>1, <2>2, <2>3, <4>1 DEF IsHost
            <4>3. h[b + 1] = x /\ b >= i - 1
                BY <1>1, <2>2, <2>3, <3>2, <4>2 DEF IsHost
            <4>4. b + 1 < pos => b + 1 \in i .. pos - 1
                BY <1>2, <2>2, <4>3
            <4>5. b = pos - 1
                BY <2>1, <2>2, <4>2, <4>3, <4>4
            <4> QED
                BY <3>2, <4>5
        <3>3. CASE a # i
            <4>1. a > i /\ h[a - 1] = x
                BY <1>2, <2>3, <3>1, <3>3 DEF IsHost
            <4>2. a - 1 < pos => a - 1 \in i .. pos - 1
                BY <1>2, <2>2, <3>1, <4>1
            <4>3. a \in pos + 1 .. n + 1
                BY <2>1, <2>2, <3>1, <4>1, <4>2
            <4>4. a = pos + 1 \/ a > pos + 1
                BY <2>2, <4>3
            <4>5. IsHost(h, x, pos + 1, a, b)
                BY <2>3, <4>1, <4>4 DEF IsHost
            <4> QED
                BY <4>3, <4>5
        <3> QED
            BY <3>2, <3>3
    <2>4. i \in i .. n + 1 /\ pos - 1 \in 0 .. n /\ pos - 1 < n /\ (pos - 1) + 1 = pos /\ pos - 1 >= i - 1
        BY <1>2, <2>2
    <2>5. IsHost(h, x, i, i, pos - 1)
        BY <1>1, <2>1, <2>4 DEF IsHost
    <2>6. ASSUME NEW a \in pos + 1 .. n + 1, NEW b \in 0 .. n, IsHost(h, x, pos + 1, a, b)
          PROVE  a \in i .. n + 1 /\ IsHost(h, x, i, a, b)
        <3>1. a \in Nat /\ a >= pos + 1 /\ a <= n + 1 /\ a > i
            BY <1>2, <2>2
        <3>2. a \in i .. n + 1
            BY <1>2, <3>1
        <3>3. h[a - 1] = x
            <4>1. CASE a = pos + 1
                <5>1. a - 1 = pos
                    BY <2>2, <4>1
                <5> QED
                    BY <2>1, <5>1
            <4>2. CASE a # pos + 1
                BY <2>6, <4>2 DEF IsHost
            <4> QED
                BY <4>1, <4>2
        <3> QED
            BY <2>6, <3>1, <3>2, <3>3 DEF IsHost
    <2>7. ASSUME ListedFrom(h, x, u, i)
          PROVE  IsPrefix(SubSeq(h, i, pos - 1), u) \/ ListedFrom(h, x, u, pos + 1)
        <3>1. PICK a \in i .. n + 1, b \in 0 .. n : IsHost(h, x, i, a, b) /\ IsPrefix(SubSeq(h, a, b), u)
            BY <1>1, <2>7 DEF ListedFrom
        <3> QED
            BY <1>1, <2>3, <3>1 DEF ListedFrom
    <2>8. ASSUME IsPrefix(SubSeq(h, i, pos - 1), u)
          PROVE  ListedFrom(h, x, u, i)
        BY <1>1, <2>4, <2>5, <2>8 DEF ListedFrom
    <2>9. ASSUME ListedFrom(h, x, u, pos + 1)
          PROVE  ListedFrom(h, x, u, i)
        <3>1. PICK a \in pos + 1 .. n + 1, b \in 0 .. n :
                  IsHost(h, x, pos + 1, a, b) /\ IsPrefix(SubSeq(h, a, b), u)
            BY <1>1, <2>9 DEF ListedFrom
        <3> QED
            BY <1>1, <2>6, <3>1 DEF ListedFrom
    <2> QED
        BY <1>1, <1>4, <2>2, <2>7, <2>8, <2>9
<1> QED
    BY <1>3, <1>4

\* The filter passes what begins with none of the hosts.
LEMMA FilterSplit ==
    ASSUME NEW u, NEW t \in Seq(STRING), NEW v \in Texts
    PROVE  /\ <<t>> \in Texts /\ <<t>> \o v \in Texts
           /\ hostsFilterPassed(u, <<t>>) <=> ~IsPrefix(t, u)
           /\ hostsFilterPassed(u, <<t>> \o v) <=> ~IsPrefix(t, u) /\ hostsFilterPassed(u, v)
<1> DEFINE S == Seq(STRING)
<1>1. <<t>> \in Seq(S) /\ Len(<<t>>) = 1 /\ <<t>>[1] = t
    BY OneElement
<1>2. PICK p : p = <<t>>
    OBVIOUS
<1> HIDE DEF S
<1>3. v \in Seq(S)
    BY DEF Texts, S
<1>4. PICK m \in Nat : m = Len(v)
    BY <1>3, LenProperties
<1>5. PICK q : q = p \o v
    OBVIOUS
<1>6. p \in Seq(S) /\ Len(p) = 1 /\ p[1] = t
    BY <1>1, <1>2
<1>7. q \in Seq(S) /\ Len(q) = 1 + m /\ \A i \in 1 .. 1 + m : q[i] = IF i <= 1 THEN p[i] ELSE v[i - 1]
    <2>1. /\ p \o v \in Seq(S) /\ Len(p \o v) = Len(p) + Len(v)
          /\ \A i \in 1 .. Len(p) + Len(v) : (p \o v)[i] = IF i <= Len(p) THEN p[i] ELSE v[i - Len(p)]
        BY <1>3, <1>6, ConcatProperties
    <2> QED
        BY <1>4, <1>5, <1>6, <2>1
<1>8. DOMAIN p = 1 .. 1 /\ DOMAIN q = 1 .. 1 + m /\ DOMAIN v = 1 .. m
    BY <1>3, <1>4, <1>6, <1>7, LenProperties
<1>9. hostsFilterPassed(u, p) <=> ~IsPrefix(t, u)
    <2>1. \A i : i \in 1 .. 1 <=> i = 1
        OBVIOUS
    <2> QED
        BY <1>6, <1>8, <2>1 DEF hostsFilterPassed
<1>10. q[1] = t /\ 1 \in 1 .. 1 + m
    BY <1>6, <1>7
<1>11. \A i \in 1 .. m : i + 1 \in 1 .. 1 + m /\ q[i + 1] = v[i]
    <2> TAKE i \in 1 .. m
    <2>1. i + 1 \in 1 .. 1 + m /\ ~(i + 1 <= 1) /\ (i + 1) - 1 = i
        OBVIOUS
    <2> QED
        BY <1>7, <2>1
<1>12. \A i \in 1 .. 1 + m : i = 1 \/ i - 1 \in 1 .. m
    OBVIOUS
<1>13. \A i \in 1 .. 1 + m : i # 1 => q[i] = v[i - 1]
    <2> TAKE i \in 1 .. 1 + m
    <2>1. i # 1 => ~(i <= 1)
        OBVIOUS
    <2> QED
        BY <1>7, <2>1
<1>14. hostsFilterPassed(u, q) <=> ~IsPrefix(t, u) /\ hostsFilterPassed(u, v)
    BY <1>8, <1>10, <1>11, <1>12, <1>13 DEF hostsFilterPassed
<1> QED
    BY <1>2, <1>5, <1>6, <1>7, <1>9, <1>14 DEF Texts, S

IsSemicolon(x) == x = ";"

\* From every place on, the filter passes just what is not listed.
LEMMA FilterFrom ==
    ASSUME NEW h \in Seq(STRING), NEW u, NEW x, IsSemicolon(x)
    PROVE  \A i \in 1 .. Len(h) + 1 :
              /\ Hosts(h)[i] \in Texts
              /\ hostsFilterPassed(u, Hosts(h)[i]) <=> ~ListedFrom(h, x, u, i)
<1>1. PICK n \in Nat : n = Len(h)
    BY LenProperties
<1>2. PICK f : f = Hosts(h)
    OBVIOUS
<1>3. \A i \in 1 .. n + 1 : f[i] = HostsAt(h, f, i)
    BY <1>1, <1>2, HostsDefined
<1> DEFINE Decided(i) == f[i] \in Texts /\ (hostsFilterPassed(u, f[i]) <=> ~ListedFrom(h, x, u, i))
           T == {k \in 0 .. n : ~Decided(n + 1 - k)}
<1>4. ASSUME NEW i \in 1 .. n + 1, \A j \in i + 1 .. n + 1 : Decided(j)
      PROVE  Decided(i)
    <2>1. PICK pos : pos = Find(h, <<";">>, i)
        OBVIOUS
    <2>2. FirstFrom(h, x, i, pos)
        <3>1. i \in 1 .. Len(h) + 1
            BY <1>1
        <3>2. FirstFrom(h, ";", i, Find(h, <<";">>, i))
            BY <3>1, NextSemicolon, Zenon
        <3> QED
            BY <2>1, <3>2, Zenon DEF IsSemicolon
    <2>3. PICK t : t = SubSeq(h, i, IF pos = 0 THEN n ELSE pos - 1)
        OBVIOUS
    <2>4. pos = 0 \/ pos \in i .. n
        BY <1>1, <2>2 DEF FirstFrom
    <2>5. t \in Seq(STRING)
        <3>1. PICK j : j = IF pos = 0 THEN n ELSE pos - 1
            OBVIOUS
        <3>2. j \in 0 .. n
            BY <2>4, <3>1
        <3> QED
            BY <1>1, <2>3, <3>1, <3>2, PartIsText
    <2>6. f[i] = HostsAt(h, f, i)
        BY <1>3
    <2>7. CASE pos = 0
        <3>1. f[i] = <<t>> /\ t = SubSeq(h, i, n)
            BY <1>1, <2>1, <2>3, <2>6, <2>7, Zenon DEF HostsAt
        <3>2. ListedFrom(h, x, u, i) <=> IsPrefix(t, u)
            BY <1>1, <2>2, <2>7, <3>1, HostsSplit
        <3>3. <<>> \in Texts
            BY DEF Texts
        <3> QED
            BY <2>5, <3>1, <3>2, <3>3, FilterSplit
    <2>8. CASE pos # 0
        <3>1. pos + 1 \in i + 1 .. n + 1
            BY <2>4, <2>8
        <3>2. PICK v \in Texts : v = f[pos + 1]
            BY <1>4, <3>1
        <3>3. hostsFilterPassed(u, v) <=> ~ListedFrom(h, x, u, pos + 1)
            BY <1>4, <3>1, <3>2
        <3>4. f[i] = <<t>> \o v /\ t = SubSeq(h, i, pos - 1)
            BY <1>1, <2>1, <2>3, <2>6, <2>8, <3>2, Zenon DEF HostsAt
        <3>5. ListedFrom(h, x, u, i) <=> IsPrefix(t, u) \/ ListedFrom(h, x, u, pos + 1)
            BY <1>1, <2>2, <2>8, <3>4, HostsSplit
        <3>6. /\ <<t>> \o v \in Texts
              /\ hostsFilterPassed(u, <<t>> \o v) <=> ~IsPrefix(t, u) /\ hostsFilterPassed(u, v)
            BY <2>5, FilterSplit
        <3> QED
            BY <3>3, <3>4, <3>5, <3>6, Zenon
    <2> QED
        BY <2>7, <2>8
<1> HIDE DEF Decided
<1>5. ASSUME T # {} PROVE FALSE
    <2>1. T \in SUBSET Nat
        OBVIOUS
    <2>2. PICK k \in T : \A l \in T : k <= l
        <3> HIDE DEF T
        <3> QED
            BY <1>5, <2>1, Numbers!LeastNumber
    <2>3. k \in 0 .. n /\ ~Decided(n + 1 - k) /\ n + 1 - k \in 1 .. n + 1
        OBVIOUS
    <2>4. ASSUME NEW j \in (n + 1 - k) + 1 .. n + 1
          PROVE  Decided(j)
        <3>1. n + 1 - j \in 0 .. n /\ ~(k <= n + 1 - j) /\ n + 1 - (n + 1 - j) = j
            BY <2>3
        <3>2. n + 1 - j \notin T
            BY <2>2, <3>1
        <3> QED
            BY <3>1, <3>2
    <2> QED
        BY <1>4, <2>3, <2>4
<1>6. \A i \in 1 .. n + 1 : n + 1 - i \in 0 .. n /\ n + 1 - (n + 1 - i) = i
    OBVIOUS
<1>7. \A i \in 1 .. n + 1 : Decided(i)
    BY <1>5, <1>6
<1> QED
    BY <1>1, <1>2, <1>7 DEF Decided

\* The filter of a setting passes just what the setting does not list.
LEMMA FilterDecides ==
    ASSUME NEW h \in Seq(STRING), NEW u
    PROVE  hostsFilterPassed(u, parseHostsStr(h)) <=> ~Listed(h, u)
<1>1. PICK n \in Nat : n = Len(h)
    BY LenProperties
<1>2. CASE h = <<>>
    <2>1. parseHostsStr(h) = <<>>
        BY <1>2, HostsParsed
    <2>2. DOMAIN <<>> = {}
        OBVIOUS
    <2> QED
        BY <1>2, <2>1, <2>2, Zenon DEF hostsFilterPassed, Listed
<1>3. CASE h # <<>>
    <2>1. PICK x : IsSemicolon(x)
        BY Zenon DEF IsSemicolon
    <2>2. parseHostsStr(h) = Hosts(h)[1]
        BY <1>3, HostsParsed
    <2>3. 1 \in 1 .. n + 1
        OBVIOUS
    <2>4. hostsFilterPassed(u, Hosts(h)[1]) <=> ~ListedFrom(h, x, u, 1)
        BY <1>1, <2>1, <2>3, FilterFrom, Zenon
    <2>5. ListedFrom(h, x, u, 1) <=> Listed(h, u)
        BY <1>3, <2>1, Zenon DEF ListedFrom, IsHost, Listed, IsSemicolon
    <2> QED
        BY <2>2, <2>4, <2>5
<1> QED
    BY <1>2, <1>3

-----------------------------------------------------------------------------
(* External calls.  Whether a span has the tag of an external call depends *)
(* on what it had before: nothing, as long as a span that is stored is a   *)
(* new one.                                                                *)

\* Steps that concern no span of their own.
QuietStep == {step \in StepType : step.do \notin {"store", "tag"}}

\* Steps of a call about the span s.
OwnStep(s) == QuietStep \cup {Store(s)} \cup TagAdds(s)

\* With n spans made, a list of steps stores no other span than one new one, and tags spans
\* that are made or that it has stored.
PlacedAt(places, list, n) ==
    /\ \A i \in places : list[i].do = "store" => list[i].span >= n
    /\ \A i, j \in places :
           list[i].do = "store" /\ list[j].do = "store" => list[i].span = list[j].span
    /\ \A i \in places : list[i].do = "tag" =>
           \/ list[i].span <= n
           \/ \E j \in places : j < i /\ list[j].do = "store" /\ list[j].span = list[i].span

Placed(list, n) == PlacedAt(DOMAIN list, list, n)

Fresh ==
    /\ \A s \in Spans : s > made => tags[s] = <<>>
    /\ \A i \in DOMAIN active : active[i] <= made
    /\ Placed(steps, made)

\* Spans are numbered from one on.
LEMMA SpansAreNumbers == Spans \subseteq Nat \ {0}
BY SpanDataAssumption, Zenon DEF SpanDataAssumption

\* What a step holds.
LEMMA StepFields ==
    \A step \in StepType : step.do \in {"store", "tag"} => step.span \in Spans /\ step.span \in Nat
<1>1. \A step \in StepType : step.do \in {"store", "tag"} => step.span \in Spans
    BY DEF StepType, PlainStep, LifeStep
<1> QED
    BY <1>1, SpansAreNumbers

\* The first step is done, and with it, if it stores a span, this one is made.
LEMMA RestIsPlaced ==
    ASSUME NEW list \in Seq(StepType), list # <<>>, NEW n \in Nat, Placed(list, n)
    PROVE  /\ Head(list).do = "tag" => Head(list).span <= n
           /\ Head(list).do = "store" => Head(list).span >= n /\ Placed(Tail(list), Head(list).span)
           /\ Head(list).do # "store" => Placed(Tail(list), n)
<1>1. /\ Len(list) \in Nat /\ Len(list) > 0 /\ DOMAIN list = 1 .. Len(list)
      /\ Tail(list) \in Seq(StepType) /\ Head(list) = list[1]
      /\ DOMAIN Tail(list) = 1 .. (Len(list) - 1)
      /\ \A j \in DOMAIN Tail(list) : Tail(list)[j] = list[j + 1]
    BY EmptySeq, LenProperties, HeadTailProperties
<1>2. PICK rest, first, m : rest = Tail(list) /\ first = list[1] /\ m = Len(list)
    OBVIOUS
<1>3. /\ m \in Nat /\ m > 0 /\ DOMAIN list = 1 .. m /\ DOMAIN rest = 1 .. m - 1
      /\ \A j \in 1 .. m - 1 : rest[j] = list[j + 1] /\ j + 1 \in 1 .. m
      /\ 1 \in 1 .. m
    BY <1>1, <1>2
<1>4. \A i \in 1 .. m : list[i].do \in {"store", "tag"} => list[i].span \in Nat
    BY <1>3, StepFields, ElementOfSeq, LenProperties
<1>5. first.do = "tag" => first.span <= n
    <2>1. ~\E j \in 1 .. m : j < 1
        OBVIOUS
    <2> QED
        BY <1>2, <1>3, <2>1 DEF Placed, PlacedAt
<1>6. first.do = "store" => first.span >= n
    BY <1>2, <1>3 DEF Placed, PlacedAt
<1>7. ASSUME NEW k \in Nat, k >= n, first.do = "store" => k = first.span
      PROVE  Placed(rest, k) \/ (first.do # "store" /\ k # n)
    <2> SUFFICES ASSUME first.do = "store" \/ k = n
                 PROVE  Placed(rest, k)
        OBVIOUS
    <2>1. \A i \in 1 .. m - 1 : rest[i].do = "store" => rest[i].span >= k
        <3> TAKE i \in 1 .. m - 1
        <3>1. rest[i].do = "store" => rest[i].span >= n
            BY <1>3 DEF Placed, PlacedAt
        <3>2. rest[i].do = "store" /\ first.do = "store" => rest[i].span = first.span /\ rest[i].span \in Nat
            BY <1>2, <1>3, <1>4 DEF Placed, PlacedAt
        <3> QED
            BY <1>7, <3>1, <3>2
    <2>2. \A i, j \in 1 .. m - 1 : rest[i].do = "store" /\ rest[j].do = "store" => rest[i].span = rest[j].span
        <3> TAKE i, j \in 1 .. m - 1
        <3>1. rest[i] = list[i + 1] /\ rest[j] = list[j + 1] /\ i + 1 \in 1 .. m /\ j + 1 \in 1 .. m
            BY <1>3
        <3>2. \A v, w \in 1 .. m :
                 list[v].do = "store" /\ list[w].do = "store" => list[v].span = list[w].span
            BY <1>3 DEF Placed, PlacedAt
        <3> QED
            BY <3>1, <3>2
    <2>3. ASSUME NEW i \in 1 .. m - 1, rest[i].do = "tag"
          PROVE  \/ rest[i].span <= k
                 \/ \E j \in 1 .. m - 1 : j < i /\ rest[j].do = "store" /\ rest[j].span = rest[i].span
        <3>1. rest[i] = list[i + 1] /\ i + 1 \in 1 .. m /\ rest[i].span \in Nat
            BY <1>3, <1>4, <2>3
        <3>2. CASE rest[i].span <= n
            BY <1>7, <3>1, <3>2
        <3>3. CASE ~(rest[i].span <= n)
            <4>1. PICK j \in 1 .. m : j < i + 1 /\ list[j].do = "store" /\ list[j].span = rest[i].span
                BY <1>3, <2>3, <3>1, <3>3 DEF Placed, PlacedAt
            <4>2. CASE j = 1
                <5>1. rest[i].span = k
                    BY <1>2, <1>7, <4>1, <4>2
                <5> QED
                    BY <3>1, <5>1
            <4>3. CASE j # 1
                <5>1. j - 1 \in 1 .. m - 1 /\ j - 1 < i /\ (j - 1) + 1 = j
                    BY <1>3, <4>1, <4>3
                <5>2. rest[j - 1] = list[j]
                    BY <1>3, <5>1
                <5> QED
                    BY <4>1, <5>1, <5>2
            <4> QED
                BY <4>2, <4>3
        <3> QED
            BY <3>2, <3>3
    <2>4. PlacedAt(1 .. m - 1, rest, k)
        BY <2>1, <2>2, <2>3 DEF PlacedAt
    <2>5. DOMAIN rest = 1 .. m - 1
        BY <1>3
    <2> QED
        BY <2>4, <2>5, Zenon DEF Placed
<1>8. first.do = "store" => Placed(rest, first.span)
    <2>1. first.do = "store" => first.span \in Nat
        BY <1>2, <1>3, <1>4
    <2> QED
        BY <1>6, <1>7, <2>1
<1>9. first.do # "store" => Placed(rest, n)
    <2>1. n >= n
        OBVIOUS
    <2> QED
        BY <1>7, <2>1
<1> QED
    BY <1>1, <1>2, <1>5, <1>6, <1>8, <1>9

\* Quiet steps place nothing.
LEMMA QuietPlaced ==
    ASSUME NEW list \in Seq(QuietStep), NEW n
    PROVE  Placed(list, n)
<1>1. \A i \in DOMAIN list : list[i].do \notin {"store", "tag"}
    BY ElementOfSeq, LenProperties DEF QuietStep
<1> QED
    BY <1>1 DEF Placed, PlacedAt

\* A step about s is quiet, stores s or tags it.
LEMMA OwnFields ==
    ASSUME NEW s, NEW step \in OwnStep(s)
    PROVE  /\ step.do \in {"store", "tag"} => step.span = s
           /\ step.do = "tag" => step \in TagAdds(s)
BY DEF OwnStep, QuietStep, TagAdds, AddTag, Store

\* A call tags a span that is made.
LEMMA TagsPlaced ==
    ASSUME NEW s, NEW list \in Seq(QuietStep \cup TagAdds(s)), NEW n, s <= n
    PROVE  Placed(list, n)
<1>1. \A i \in DOMAIN list : list[i].do # "store" /\ (list[i].do = "tag" => list[i].span = s)
    BY ElementOfSeq, LenProperties DEF QuietStep, TagAdds, AddTag
<1> QED
    BY <1>1 DEF Placed, PlacedAt

\* A call stores a new span and tags it.
LEMMA StorePlaced ==
    ASSUME NEW s, NEW list \in Seq(OwnStep(s)), NEW n, n <= s, s >= n,
           NEW k \in DOMAIN list, list[k] = Store(s), \A i \in DOMAIN list : i < k => list[i].do # "tag"
    PROVE  Placed(list, n)
<1>1. \A i \in DOMAIN list : list[i].do \in {"store", "tag"} => list[i].span = s
    BY ElementOfSeq, LenProperties, OwnFields
<1>2. list[k].do = "store" /\ list[k].span = s
    BY DEF Store
<1>3. \A i \in DOMAIN list : list[i].do = "tag" => k < i
    <2> TAKE i \in DOMAIN list
    <2>1. i \in Nat /\ k \in Nat
        BY LenProperties
    <2>2. i = k => list[i].do # "tag"
        BY <1>2
    <2> QED
        BY <2>1, <2>2
<1> QED
    BY <1>1, <1>2, <1>3 DEF Placed, PlacedAt

\* The elements of two lists one behind the other.
Follows(t, S, q, r) ==
    /\ t \in Seq(S)
    /\ \A i \in DOMAIN q : i \in DOMAIN t /\ t[i] = q[i]
    /\ \A i \in DOMAIN r : Len(q) + i \in DOMAIN t /\ t[Len(q) + i] = r[i]

\* It is what concatenation makes.
LEMMA Joined ==
    ASSUME NEW S, NEW q \in Seq(S), NEW r \in Seq(S)
    PROVE  Follows(q \o r, S, q, r)
<1>1. PICK m, n \in Nat : m = Len(q) /\ n = Len(r)
    BY LenProperties
<1>2. PICK t : t = q \o r
    OBVIOUS
<1>3. /\ t \in Seq(S) /\ Len(t) = m + n
      /\ \A i \in 1 .. m + n : t[i] = IF i <= m THEN q[i] ELSE r[i - m]
    BY <1>1, <1>2, ConcatProperties
<1>4. DOMAIN q = 1 .. m /\ DOMAIN r = 1 .. n /\ DOMAIN t = 1 .. m + n
    BY <1>1, <1>3, LenProperties
<1>5. \A i \in 1 .. m : i \in 1 .. m + n /\ t[i] = q[i]
    <2> TAKE i \in 1 .. m
    <2>1. i \in 1 .. m + n /\ i <= m
        OBVIOUS
    <2> QED
        BY <1>3, <2>1
<1>6. \A i \in 1 .. n : m + i \in 1 .. m + n /\ t[m + i] = r[i]
    <2> TAKE i \in 1 .. n
    <2>1. m + i \in 1 .. m + n /\ ~(m + i <= m) /\ (m + i) - m = i
        OBVIOUS
    <2> QED
        BY <1>3, <2>1
<1> QED
    BY <1>1, <1>2, <1>3, <1>4, <1>5, <1>6 DEF Follows

\* Steps that are quiet.
LEMMA QuietMembers ==
    /\ \A b \in BOOLEAN : Line(b) \in QuietStep
    /\ ScriptLine \in QuietStep
    /\ \A s \in Spans, n \in LogSizes : AddLog(s, n) \in QuietStep
    /\ FatalLine \in QuietStep /\ DeleteTracer \in QuietStep /\ Forget \in QuietStep
    /\ \A k \in {"noop", "jaeger"} : MakeTracer(k) \in QuietStep
BY Members DEF StepType, QuietStep, Line, ScriptLine, AddLog, FatalLine, DeleteTracer, Forget, MakeTracer

\* init and the end of a request are quiet.
LEMMA LifeQuiet ==
    ASSUME NEW kind \in {"noop", "jaeger"}, NEW old \in {<<>>, <<FatalLine, DeleteTracer>>}
    PROVE  /\ old \o <<Line(kind = "jaeger"), MakeTracer(kind), Line(FALSE)>> \in Seq(QuietStep)
           /\ old \o <<Forget>> \in Seq(QuietStep)
<1>1. PICK a \in QuietStep, b \in QuietStep, m \in QuietStep, f \in QuietStep :
          a = Line(kind = "jaeger") /\ m = MakeTracer(kind) /\ b = Line(FALSE) /\ f = Forget
    BY QuietMembers
<1>2. <<a, m, b>> \in Seq(QuietStep) /\ <<f>> \in Seq(QuietStep)
    OBVIOUS
<1>3. old \in Seq(QuietStep)
    <2>1. PICK v \in QuietStep, w \in QuietStep : v = FatalLine /\ w = DeleteTracer
        BY QuietMembers
    <2>2. <<>> \in Seq(QuietStep) /\ <<v, w>> \in Seq(QuietStep)
        OBVIOUS
    <2> QED
        BY <2>1, <2>2
<1>4. old \o <<a, m, b>> \in Seq(QuietStep) /\ old \o <<f>> \in Seq(QuietStep)
    BY <1>2, <1>3, ConcatProperties
<1> QED
    BY <1>1, <1>4, Zenon

\* addLogs is quiet.
LEMMA LogsQuiet ==
    ASSUME NEW s \in Spans, NEW size \in LogSizes, size \in Nat
    PROVE  LogSteps(s, size) \in Seq(QuietStep)
<1>1. PICK x \in QuietStep, y \in QuietStep : x = Line(TRUE) /\ y = AddLog(s, size)
    BY QuietMembers
<1>2. PICK lines : lines = [i \in 1 .. size |-> x]
    OBVIOUS
<1>3. lines \in Seq(QuietStep)
    <2>1. lines \in [1 .. size -> QuietStep]
        BY <1>2
    <2> QED
        BY <2>1, SeqDef
<1>4. <<x>> \in Seq(QuietStep) /\ <<y>> \in Seq(QuietStep) /\ <<>> \in Seq(QuietStep)
    OBVIOUS
<1>5. lines \o <<y>> \in Seq(QuietStep)
    BY <1>3, <1>4, ConcatProperties
<1>6. <<x>> \o (IF udp THEN lines \o <<y>> ELSE <<>>) \in Seq(QuietStep)
    BY <1>4, <1>5, ConcatProperties
<1>7. LogSteps(s, size) = <<x>> \o (IF udp THEN lines \o <<y>> ELSE <<>>)
    BY <1>1, <1>2 DEF LogSteps
<1> QED
    BY <1>6, <1>7

\* What addTags adds to a span is quiet or a tag of it.
LEMMA AddsOwn ==
    ASSUME NEW s, NEW list \in Seq(Tags)
    PROVE  /\ [i \in DOMAIN list |-> AddTag(s, list[i])] \in Seq(TagAdds(s))
           /\ TagSteps(s, list) \in Seq(QuietStep \cup TagAdds(s))
<1>1. Len(list) \in Nat /\ DOMAIN list = 1 .. Len(list) /\ \A i \in 1 .. Len(list) : list[i] \in Tags
    BY LenProperties, ElementOfSeq
<1>2. PICK adds : adds = [i \in DOMAIN list |-> AddTag(s, list[i])]
    OBVIOUS
<1>3. adds \in Seq(TagAdds(s))
    <2>1. adds \in [1 .. Len(list) -> TagAdds(s)]
        BY <1>1, <1>2 DEF TagAdds
    <2> QED
        BY <1>1, <2>1, SeqDef
<1>4. PICK S : S = QuietStep \cup TagAdds(s)
    OBVIOUS
<1>5. PICK x \in S : x = Line(TRUE)
    BY <1>4, QuietMembers
<1>6. adds \in Seq(S) /\ <<x>> \in Seq(S) /\ <<>> \in Seq(S)
    BY <1>3, <1>4, SeqMonotonic
<1>7. <<x>> \o (IF udp THEN adds ELSE <<>>) \in Seq(S)
    BY <1>6, ConcatProperties
<1>8. TagSteps(s, list) = <<x>> \o (IF udp THEN adds ELSE <<>>)
    BY <1>2, <1>5 DEF TagSteps
<1> QED
    BY <1>2, <1>3, <1>4, <1>7, <1>8

\* A list stores s before it tags it.
Opens(list, s) ==
    /\ list \in Seq(OwnStep(s))
    /\ \E k \in DOMAIN list : /\ list[k] = Store(s)
                              /\ \A i \in DOMAIN list : i < k => list[i].do # "tag"

\* Such a list is placed when s is new.
LEMMA OpensPlaced ==
    ASSUME NEW s, NEW list, Opens(list, s), NEW n, n <= s, s >= n
    PROVE  Placed(list, n)
BY StorePlaced DEF Opens

\* A mark of the span s.
Marks(step, s) == step.do = "tag" /\ step.span = s /\ step.tag.key = "is_external"

\* The tags of an external call begin with the mark.
LEMMA MarkFirst ==
    ASSUME NEW s \in Spans, NEW uri \in Uris
    PROVE  LET list == CurlTags(Stripped(uri))
           IN /\ list \in Seq(Tags) /\ DOMAIN list = 1 .. 4
              /\ Marks(AddTag(s, list[1]), s)
<1>1. CurlTags(Stripped(uri)) \in Seq(Tags) /\ DOMAIN CurlTags(Stripped(uri)) = 1 .. 4
    BY UriTags, LenProperties
<1>2. CurlTags(Stripped(uri))[1].key = "is_external"
    BY DEF CurlTags, Tag
<1> QED
    BY <1>1, <1>2 DEF Marks, AddTag

\* The k-th step of a list stores s, none before it is a tag, and those of more follow it.
StoredAt(list, k, s, T, more) ==
    /\ list \in Seq(T) /\ k \in DOMAIN list /\ list[k] = Store(s)
    /\ \A i \in DOMAIN list : i < k => list[i].do # "tag"
    /\ \A i \in DOMAIN more : k + i \in DOMAIN list /\ list[k + i] = more[i]

\* Behind a list of one element.
LEMMA JoinedOne ==
    ASSUME NEW S, NEW x, x \in S, NEW r, r \in Seq(S), NEW t, t = <<x>> \o r
    PROVE  /\ t \in Seq(S) /\ 1 \in DOMAIN t /\ t[1] = x
           /\ \A i \in DOMAIN r : 1 + i \in DOMAIN t /\ t[1 + i] = r[i]
<1>1. PICK q : q = <<x>>
    OBVIOUS
<1>2. q \in Seq(S) /\ Len(q) = 1 /\ 1 \in DOMAIN q /\ q[1] = x
    BY <1>1
<1>3. Follows(q \o r, S, q, r)
    BY <1>2, Joined
<1>4. Follows(t, S, q, r)
    BY <1>1, <1>3
<1> QED
    BY <1>2, <1>4 DEF Follows

\* Behind a list of two elements.
FollowsTwo(t, S, x, y, r) ==
    /\ t \in Seq(S) /\ 1 \in DOMAIN t /\ t[1] = x /\ 2 \in DOMAIN t /\ t[2] = y
    /\ \A i \in DOMAIN r : 2 + i \in DOMAIN t /\ t[2 + i] = r[i]

\* It is what concatenation makes.
LEMMA JoinedTwo ==
    ASSUME NEW S, NEW x, x \in S, NEW y, y \in S, NEW r, r \in Seq(S), NEW t, t = <<x, y>> \o r
    PROVE  FollowsTwo(t, S, x, y, r)
<1>1. PICK q : q = <<x, y>>
    OBVIOUS
<1>2. q \in Seq(S) /\ Len(q) = 2 /\ 1 \in DOMAIN q /\ q[1] = x /\ 2 \in DOMAIN q /\ q[2] = y
    BY <1>1
<1>3. Follows(q \o r, S, q, r)
    BY <1>2, Joined
<1>4. Follows(t, S, q, r)
    BY <1>1, <1>3
<1> QED
    BY <1>2, <1>4 DEF Follows, FollowsTwo

\* Two quiet lines, the store, something more and a line.
LEMMA StoreThird ==
    ASSUME NEW s, NEW T, QuietStep \subseteq T, Store(s) \in T, NEW more \in Seq(T),
           NEW list, list = <<Line(FALSE), Line(TRUE)>> \o ((<<Store(s)>> \o more) \o <<Line(TRUE)>>)
    PROVE  StoredAt(list, 3, s, T, more)
<1>1. PICK x \in QuietStep, y \in QuietStep, z \in {Store(s)} : x = Line(FALSE) /\ y = Line(TRUE) /\ z = Store(s)
    BY QuietMembers
<1>2. x \in T /\ y \in T /\ z \in T /\ x.do # "tag" /\ y.do # "tag"
    BY <1>1 DEF QuietStep
<1>3. PICK e : e = <<y>>
    OBVIOUS
<1>4. e \in Seq(T)
    BY <1>2, <1>3
<1>5. PICK p, q : p = <<z>> \o more /\ q = p \o e
    OBVIOUS
<1>6. list = <<x, y>> \o q
    BY <1>1, <1>3, <1>5, Zenon
<1>7. /\ p \in Seq(T) /\ 1 \in DOMAIN p /\ p[1] = z
      /\ \A i \in DOMAIN more : 1 + i \in DOMAIN p /\ p[1 + i] = more[i]
    BY <1>2, <1>5, JoinedOne
<1>8. /\ q \in Seq(T) /\ \A i \in DOMAIN p : i \in DOMAIN q /\ q[i] = p[i]
    <2>1. Follows(p \o e, T, p, e)
        BY <1>4, <1>7, Joined
    <2> QED
        BY <1>5, <2>1 DEF Follows
<1>9. /\ list \in Seq(T) /\ 1 \in DOMAIN list /\ list[1] = x /\ 2 \in DOMAIN list /\ list[2] = y
      /\ \A i \in DOMAIN q : 2 + i \in DOMAIN list /\ list[2 + i] = q[i]
    <2>1. x \in T /\ y \in T /\ q \in Seq(T)
        BY <1>2, <1>8
    <2>2. FollowsTwo(list, T, x, y, q)
        BY <1>6, <2>1, JoinedTwo
    <2> QED
        BY <2>2 DEF FollowsTwo
<1>10. 3 \in DOMAIN list /\ list[3] = z
    <2>1. 2 + 1 = 3
        OBVIOUS
    <2>2. 1 \in DOMAIN q /\ q[1] = z
        BY <1>7, <1>8
    <2>3. 2 + 1 \in DOMAIN list /\ list[2 + 1] = z
        BY <1>9, <2>2
    <2> QED
        BY <2>1, <2>3
<1>11. \A i \in DOMAIN list : i < 3 => list[i].do # "tag"
    <2> TAKE i \in DOMAIN list
    <2>1. i \in Nat /\ i >= 1
        BY <1>9, LenProperties
    <2>2. i < 3 => i = 1 \/ i = 2
        BY <2>1
    <2> QED
        BY <1>2, <1>9, <2>2
<1>12. \A i \in DOMAIN more : 3 + i \in DOMAIN list /\ list[3 + i] = more[i]
    <2> TAKE i \in DOMAIN more
    <2>1. i \in Nat /\ 2 + (1 + i) = 3 + i
        BY LenProperties
    <2>2. 1 + i \in DOMAIN p /\ p[1 + i] = more[i]
        BY <1>7
    <2>3. 1 + i \in DOMAIN q /\ q[1 + i] = more[i]
        BY <1>8, <2>2
    <2>4. 2 + (1 + i) \in DOMAIN list /\ list[2 + (1 + i)] = more[i]
        BY <1>9, <2>3
    <2> QED
        BY <2>1, <2>4
<1> QED
    BY <1>1, <1>9, <1>10, <1>11, <1>12 DEF StoredAt

\* A quiet line, the store and something more.
LEMMA StoreSecond ==
    ASSUME NEW s, NEW T, QuietStep \subseteq T, Store(s) \in T, NEW more \in Seq(T),
           NEW list, list = <<Line(TRUE), Store(s)>> \o more
    PROVE  StoredAt(list, 2, s, T, more)
<1>1. PICK y \in QuietStep, z \in {Store(s)} : y = Line(TRUE) /\ z = Store(s)
    BY QuietMembers
<1>2. y \in T /\ z \in T /\ y.do # "tag"
    BY <1>1 DEF QuietStep
<1>3. list = <<y, z>> \o more
    BY <1>1
<1>4. /\ list \in Seq(T) /\ 1 \in DOMAIN list /\ list[1] = y /\ 2 \in DOMAIN list /\ list[2] = z
      /\ \A i \in DOMAIN more : 2 + i \in DOMAIN list /\ list[2 + i] = more[i]
    <2>1. y \in T /\ z \in T
        BY <1>2
    <2>2. FollowsTwo(list, T, y, z, more)
        BY <1>3, <2>1, JoinedTwo
    <2> QED
        BY <2>2 DEF FollowsTwo
<1>5. \A i \in DOMAIN list : i < 2 => list[i].do # "tag"
    <2> TAKE i \in DOMAIN list
    <2>1. i \in Nat /\ i >= 1
        BY <1>4, LenProperties
    <2>2. i < 2 => i = 1
        BY <2>1
    <2> QED
        BY <1>2, <1>4, <2>2
<1> QED
    BY <1>1, <1>4, <1>5 DEF StoredAt

\* What startExternalTracing does to a new span: it is stored, it is marked if its host is to
\* have tags and they are seen, and it gets no tag if its host is not to have any.
Traces(list, s, tagged, seen) ==
    /\ Opens(list, s)
    /\ tagged /\ seen => \E i \in DOMAIN list : Marks(list[i], s)
    /\ ~tagged => \A i \in DOMAIN list : list[i].do # "tag"

\* A store and what is behind it.
LEMMA StoredTraces ==
    ASSUME NEW s, NEW list, NEW k, NEW more \in Seq(OwnStep(s)),
           StoredAt(list, k, s, OwnStep(s), more), NEW seen \in BOOLEAN,
           seen => \E i \in DOMAIN more : Marks(more[i], s)
    PROVE  Traces(list, s, TRUE, seen)
<1>1. Opens(list, s)
    BY DEF StoredAt, Opens
<1>2. seen => \E i \in DOMAIN list : Marks(list[i], s)
    <2> SUFFICES ASSUME seen PROVE \E i \in DOMAIN list : Marks(list[i], s)
        OBVIOUS
    <2>1. PICK i \in DOMAIN more : Marks(more[i], s)
        OBVIOUS
    <2>2. k + i \in DOMAIN list /\ list[k + i] = more[i]
        BY DEF StoredAt
    <2> QED
        BY <2>1, <2>2
<1> QED
    BY <1>1, <1>2 DEF Traces

\* A store and nothing but quiet steps.
LEMMA BareTraces ==
    ASSUME NEW s, NEW list, NEW k, NEW more, NEW seen,
           StoredAt(list, k, s, QuietStep \cup {Store(s)}, more)
    PROVE  Traces(list, s, FALSE, seen)
<1>1. list \in Seq(QuietStep \cup {Store(s)}) /\ k \in DOMAIN list /\ list[k] = Store(s)
    BY DEF StoredAt
<1>2. \A i \in DOMAIN list : list[i].do # "tag"
    BY <1>1, ElementOfSeq, LenProperties DEF QuietStep, Store
<1>3. QuietStep \cup {Store(s)} \subseteq OwnStep(s)
    BY DEF OwnStep
<1>4. list \in Seq(OwnStep(s))
    BY <1>1, <1>3, SeqMonotonic
<1> QED
    BY <1>1, <1>2, <1>4 DEF Traces, Opens

\* The steps that tag an external call.
LEMMA MarkedAdds ==
    ASSUME NEW s \in Spans, NEW uri \in Uris, NEW adds,
           adds = [i \in DOMAIN CurlTags(Stripped(uri)) |-> AddTag(s, CurlTags(Stripped(uri))[i])]
    PROVE  /\ adds \in Seq(OwnStep(s)) /\ DOMAIN adds = 1 .. 4
           /\ \E i \in DOMAIN adds : Marks(adds[i], s)
<1>1. PICK given \in Seq(Tags) : given = CurlTags(Stripped(uri))
    BY MarkFirst
<1>2. DOMAIN given = 1 .. 4 /\ Marks(AddTag(s, given[1]), s)
    BY <1>1, MarkFirst
<1>3. adds = [i \in DOMAIN given |-> AddTag(s, given[i])]
    BY <1>1, Zenon
<1>4. adds \in Seq(TagAdds(s))
    BY <1>3, AddsOwn
<1>5. TagAdds(s) \subseteq OwnStep(s)
    BY DEF OwnStep
<1>6. adds \in Seq(OwnStep(s))
    BY <1>4, <1>5, SeqMonotonic
<1>7. 1 \in 1 .. 4
    OBVIOUS
<1>8. DOMAIN adds = 1 .. 4 /\ adds[1] = AddTag(s, given[1])
    BY <1>2, <1>3, <1>7
<1> QED
    BY <1>2, <1>6, <1>7, <1>8

\* The span of an external call in a trace.
LEMMA TracesInTrace ==
    ASSUME NEW s \in Spans, NEW uri \in Uris, udp \in BOOLEAN,
           NEW list, list = <<Line(FALSE), Line(TRUE)>> \o ExternalSteps(s, uri)
    PROVE  Traces(list, s, Tagged(uri), udp)
<1>1. CASE Tagged(uri)
    <2>1. PICK more : more = TagSteps(s, CurlTags(Stripped(uri)))
        OBVIOUS
    <2>2. QuietStep \subseteq OwnStep(s) /\ Store(s) \in OwnStep(s)
        BY DEF OwnStep
    <2>3. PICK adds : adds = [i \in DOMAIN CurlTags(Stripped(uri)) |->
                                 AddTag(s, CurlTags(Stripped(uri))[i])]
        OBVIOUS
    <2>4. adds \in Seq(OwnStep(s)) /\ \E i \in DOMAIN adds : Marks(adds[i], s)
        BY <2>3, MarkedAdds
    <2>5. PICK x \in OwnStep(s) : x = Line(TRUE)
        BY <2>2, QuietMembers
    <2>6. more = <<x>> \o (IF udp THEN adds ELSE <<>>)
        BY <2>1, <2>3, <2>5, Zenon DEF TagSteps
    <2>7. more \in Seq(OwnStep(s)) /\ (udp => \E i \in DOMAIN more : Marks(more[i], s))
        <3>1. CASE udp
            <4>1. more = <<x>> \o adds
                BY <2>6, <3>1
            <4>2. /\ more \in Seq(OwnStep(s))
                  /\ \A i \in DOMAIN adds : 1 + i \in DOMAIN more /\ more[1 + i] = adds[i]
                BY <2>4, <4>1, JoinedOne
            <4> QED
                BY <2>4, <4>2
        <3>2. CASE ~udp
            <4>1. more = <<x>> \o <<>> /\ <<>> \in Seq(OwnStep(s))
                BY <2>6, <3>2
            <4>2. more \in Seq(OwnStep(s))
                BY <4>1, JoinedOne
            <4> QED
                BY <3>2, <4>2
        <3> QED
            BY <3>1, <3>2
    <2>8. list = <<Line(FALSE), Line(TRUE)>> \o ((<<Store(s)>> \o more) \o <<Line(TRUE)>>)
        BY <1>1, <2>1, Zenon DEF ExternalSteps
    <2>9. StoredAt(list, 3, s, OwnStep(s), more)
        BY <2>2, <2>7, <2>8, StoreThird
    <2>10. Traces(list, s, TRUE, udp)
        BY <2>7, <2>9, StoredTraces
    <2> QED
        BY <1>1, <2>10 DEF Traces
<1>2. CASE ~Tagged(uri)
    <2>1. PICK T : T = QuietStep \cup {Store(s)}
        OBVIOUS
    <2>2. QuietStep \subseteq T /\ Store(s) \in T
        BY <2>1
    <2>3. PICK more : more = <<>>
        OBVIOUS
    <2>4. more \in Seq(T)
        BY <2>3
    <2>5. list = <<Line(FALSE), Line(TRUE)>> \o ((<<Store(s)>> \o more) \o <<Line(TRUE)>>)
        BY <1>2, <2>3, Zenon DEF ExternalSteps
    <2>6. StoredAt(list, 3, s, T, more)
        BY <2>2, <2>4, <2>5, StoreThird
    <2>7. Traces(list, s, FALSE, udp)
        BY <2>1, <2>6, BareTraces
    <2> QED
        BY <1>2, <2>7 DEF Traces
<1> QED
    BY <1>1, <1>2

\* The span of an external call on its own.
LEMMA TracesAlone ==
    ASSUME NEW s \in Spans, NEW uri \in Uris,
           NEW list, list = <<Line(TRUE), Store(s)>>
               \o (IF Tagged(uri) THEN [i \in 1 .. 4 |-> AddTag(s, CurlTags(Stripped(uri))[i])]
                   ELSE <<>>)
    PROVE  Traces(list, s, Tagged(uri), TRUE)
<1>1. CASE Tagged(uri)
    <2>1. PICK adds : adds = [i \in 1 .. 4 |-> AddTag(s, CurlTags(Stripped(uri))[i])]
        OBVIOUS
    <2>2. DOMAIN CurlTags(Stripped(uri)) = 1 .. 4
        BY MarkFirst
    <2>3. adds = [i \in DOMAIN CurlTags(Stripped(uri)) |-> AddTag(s, CurlTags(Stripped(uri))[i])]
        BY <2>1, <2>2, Zenon
    <2>4. adds \in Seq(OwnStep(s)) /\ \E i \in DOMAIN adds : Marks(adds[i], s)
        BY <2>3, MarkedAdds
    <2>5. QuietStep \subseteq OwnStep(s) /\ Store(s) \in OwnStep(s)
        BY DEF OwnStep
    <2>6. list = <<Line(TRUE), Store(s)>> \o adds
        BY <1>1, <2>1, Zenon
    <2>7. StoredAt(list, 2, s, OwnStep(s), adds)
        BY <2>4, <2>5, <2>6, StoreSecond
    <2>8. Traces(list, s, TRUE, TRUE)
        BY <2>4, <2>7, StoredTraces
    <2> QED
        BY <1>1, <2>8 DEF Traces
<1>2. CASE ~Tagged(uri)
    <2>1. PICK T : T = QuietStep \cup {Store(s)}
        OBVIOUS
    <2>2. QuietStep \subseteq T /\ Store(s) \in T
        BY <2>1
    <2>3. PICK more : more = <<>>
        OBVIOUS
    <2>4. more \in Seq(T)
        BY <2>3
    <2>5. list = <<Line(TRUE), Store(s)>> \o more
        BY <1>2, <2>3, Zenon
    <2>6. StoredAt(list, 2, s, T, more)
        BY <2>2, <2>4, <2>5, StoreSecond
    <2>7. Traces(list, s, FALSE, TRUE)
        BY <2>1, <2>6, BareTraces
    <2> QED
        BY <1>2, <2>7 DEF Traces
<1> QED
    BY <1>1, <1>2

\* The numbers of spans.
LEMMA MadeIsNumber ==
    ASSUME SpanDataTypes
    PROVE  made \in Nat /\ \A s \in Spans : s \in Nat
BY SpansAreNumbers DEF SpanDataTypes

\* A call that does not touch the spans, but for the current one that is closed, leaves them
\* fresh, if its steps are placed.
LEMMA CallFresh ==
    ASSUME SpanDataTypes, Fresh, tags' = tags, made' = made,
           active' = active \/ (Current # 0 /\ active' = Front(active)),
           Placed(steps', made)
    PROVE  Fresh'
<1>1. \A i \in DOMAIN active' : active'[i] <= made'
    <2>1. CASE active' = active
        BY <2>1 DEF Fresh
    <2>2. CASE Current # 0 /\ active' = Front(active)
        <3>1. active # <<>> /\ active \in Seq(Spans)
            BY <2>2 DEF Current, SpanDataTypes
        <3>2. PICK n \in Nat : n = Len(active) /\ n > 0
            BY <3>1, EmptySeq, LenProperties
        <3>3. active' = SubSeq(active, 1, n - 1)
            BY <2>2, <3>2 DEF Front
        <3>4. DOMAIN active = 1 .. n /\ DOMAIN active' = 1 .. n - 1
              /\ \A i \in 1 .. n - 1 : active'[i] = active[i]
            BY <3>1, <3>2, <3>3
        <3> QED
            BY <3>2, <3>4 DEF Fresh
    <2> QED
        BY <2>1, <2>2
<1> QED
    BY <1>1 DEF Fresh

\* What addLogs prints.
LEMMA LogsPlaced ==
    ASSUME SpanDataTypes, NEW size \in LogSizes
    PROVE  <<Line(TRUE)>> \o (IF tracer = "jaeger" /\ Current # 0
                              THEN LogSteps(Current, size) ELSE <<>>) \in Seq(QuietStep)
<1>1. size \in Nat
    BY SpanDataAssumption, Zenon DEF SpanDataAssumption
<1>2. PICK more : more = IF tracer = "jaeger" /\ Current # 0 THEN LogSteps(Current, size) ELSE <<>>
    OBVIOUS
<1>3. <<>> \in Seq(QuietStep)
    OBVIOUS
<1>4. more \in Seq(QuietStep)
    <2>1. CASE tracer = "jaeger" /\ Current # 0
        <3>1. Current \in Spans
            BY <2>1, CurrentIsSpan
        <3> QED
            BY <1>1, <1>2, <2>1, <3>1, LogsQuiet
    <2>2. CASE ~(tracer = "jaeger" /\ Current # 0)
        BY <1>2, <1>3, <2>2
    <2> QED
        BY <2>1, <2>2
<1>5. PICK x \in QuietStep : x = Line(TRUE)
    BY QuietMembers
<1>6. PICK q : q = <<x>>
    OBVIOUS
<1>7. q \in Seq(QuietStep)
    BY <1>6
<1>8. q \o more \in Seq(QuietStep)
    BY <1>4, <1>7, ConcatProperties
<1> QED
    BY <1>2, <1>5, <1>6, <1>8, Zenon

\* Nothing that is not current and not new is tagged or stored by a call.
LEMMA CallPlaced ==
    ASSUME SpanDataTypes, Fresh, Calls
    PROVE  Placed(steps', made)
<1>0. made \in Nat /\ \A s \in Spans : s \in Nat
    BY MadeIsNumber
<1>1. ASSUME NEW kind \in {"noop", "jaeger"}, NEW debug \in BOOLEAN, NEW transport \in BOOLEAN,
             InitTracer(kind, debug, transport)
      PROVE  Placed(steps', made)
    <2>1. PICK old \in {<<>>, <<FatalLine, DeleteTracer>>} :
              old = IF tracer = "none" THEN <<>> ELSE <<FatalLine, DeleteTracer>>
        OBVIOUS
    <2>2. steps' = old \o <<Line(kind = "jaeger"), MakeTracer(kind), Line(FALSE)>>
        BY <1>1, <2>1 DEF InitTracer, Begin
    <2>3. steps' \in Seq(QuietStep)
        BY <2>2, LifeQuiet
    <2> QED
        BY <2>3, QuietPlaced
<1>2. ASSUME NEW s \in Spans, StartSpan(s) PROVE Placed(steps', made)
    <2>1. steps' = <<Line(TRUE), Store(s)>> /\ s = made + 1
        BY <1>2 DEF StartSpan, Asked, Begin
    <2>2. PICK more : more = <<>>
        OBVIOUS
    <2>3. more \in Seq(OwnStep(s)) /\ QuietStep \subseteq OwnStep(s) /\ Store(s) \in OwnStep(s)
        BY <2>2 DEF OwnStep
    <2>4. PICK x \in OwnStep(s), z \in OwnStep(s) : x = Line(TRUE) /\ z = Store(s)
        BY <2>3, QuietMembers
    <2>5. PICK list : list = <<x, z>>
        OBVIOUS
    <2>6. list = list \o more
        <3>1. list \in Seq(OwnStep(s))
            BY <2>5
        <3> QED
            BY <2>2, <3>1, ConcatEmptySeq
    <2>7. list = <<Line(TRUE), Store(s)>> \o more
        BY <2>4, <2>5, <2>6, Zenon
    <2>8. StoredAt(list, 2, s, OwnStep(s), more)
        BY <2>3, <2>7, StoreSecond
    <2>9. Opens(list, s)
        BY <2>8 DEF StoredAt, Opens
    <2>10. made <= s /\ s >= made
        BY <1>0, <2>1
    <2> QED
        BY <2>1, <2>4, <2>5, <2>9, <2>10, OpensPlaced
<1>3. CASE FinishSpan
    <2>1. steps' = <<>> /\ <<>> \in Seq(QuietStep)
        BY <1>3 DEF FinishSpan, Begin
    <2> QED
        BY <2>1, QuietPlaced
<1>4. \A b \in BOOLEAN : steps' = <<Line(b)>> => Placed(steps', made)
    <2> TAKE b \in BOOLEAN
    <2>1. PICK x \in QuietStep : x = Line(b)
        BY QuietMembers
    <2>2. <<x>> \in Seq(QuietStep)
        OBVIOUS
    <2> QED
        BY <2>1, <2>2, QuietPlaced
<1>5. ASSUME NEW list \in TagLists, addTags(list) PROVE Placed(steps', made)
    <2>1. CASE tracer = "noop"
        BY <1>4, <1>5, <2>1 DEF addTags, Asked, Begin
    <2>2. CASE tracer = "jaeger" /\ Current # 0
        <3>1. PICK s \in Spans : s = Current
            BY <2>2, CurrentIsSpan
        <3>2. s <= made
            <4>1. active # <<>> /\ Current = active[Len(active)] /\ active \in Seq(Spans)
                BY <2>2 DEF Current, Last, SpanDataTypes
            <4>2. Len(active) \in DOMAIN active
                BY <4>1, EmptySeq, LenProperties
            <4> QED
                BY <3>1, <4>1, <4>2 DEF Fresh
        <3>3. steps' = TagSteps(s, list)
            BY <1>5, <2>2, <3>1 DEF addTags, Asked, Begin
        <3>4. TagSteps(s, list) \in Seq(QuietStep \cup TagAdds(s))
            BY GivenTags, AddsOwn
        <3> QED
            BY <3>2, <3>3, <3>4, TagsPlaced
    <2> QED
        BY <1>5, <2>1, <2>2 DEF addTags
<1>6. ASSUME NEW size \in LogSizes, addLogs(size) PROVE Placed(steps', made)
    <2>1. steps' \in Seq(QuietStep)
        BY <1>6, LogsPlaced DEF addLogs, Asked, Begin
    <2> QED
        BY <2>1, QuietPlaced
<1>7. CASE print
    <2>1. PICK x \in QuietStep : x = ScriptLine
        BY QuietMembers
    <2>2. steps' = <<x>>
        BY <1>7, <2>1 DEF print, Asked, Begin
    <2>3. <<x>> \in Seq(QuietStep)
        OBVIOUS
    <2> QED
        BY <2>2, <2>3, QuietPlaced
<1>8. ASSUME NEW uri \in Uris, SkipExternal(uri) \/ ExternalNoop(uri) PROVE Placed(steps', made)
    BY <1>4, <1>8 DEF SkipExternal, ExternalNoop, Begin
<1>9. ASSUME NEW uri \in Uris, NEW s \in Spans, ExternalInTrace(s, uri) \/ ExternalAlone(s, uri)
      PROVE  Placed(steps', made)
    <2>1. s = made + 1 /\ made <= s /\ s >= made
        <3>1. s = made + 1
            BY <1>9 DEF ExternalInTrace, ExternalAlone
        <3> QED
            BY <1>0, <3>1
    <2>2. Opens(steps', s)
        <3>1. CASE ExternalInTrace(s, uri)
            <4>1. steps' = <<Line(FALSE), Line(TRUE)>> \o ExternalSteps(s, uri)
                BY <3>1 DEF ExternalInTrace, Begin
            <4>2. udp \in BOOLEAN
                BY DEF SpanDataTypes
            <4> QED
                BY <4>1, <4>2, TracesInTrace DEF Traces
        <3>2. CASE ExternalAlone(s, uri)
            <4>1. steps' = <<Line(TRUE), Store(s)>>
                      \o (IF Tagged(uri) THEN [i \in 1 .. 4 |-> AddTag(s, CurlTags(Stripped(uri))[i])]
                          ELSE <<>>)
                BY <3>2 DEF ExternalAlone, Begin
            <4> QED
                BY <4>1, TracesAlone DEF Traces
        <3> QED
            BY <1>9, <3>1, <3>2
    <2> QED
        BY <2>1, <2>2, OpensPlaced
<1>10. CASE OnIdle
    <2>1. PICK old \in {<<>>, <<FatalLine, DeleteTracer>>} :
              old = IF tracer = "none" THEN <<>> ELSE <<FatalLine, DeleteTracer>>
        OBVIOUS
    <2>2. steps' = old \o <<Forget>>
        BY <1>10, <2>1 DEF OnIdle, Asked, Begin
    <2>3. steps' \in Seq(QuietStep)
        BY <2>2, LifeQuiet
    <2> QED
        BY <2>3, QuietPlaced
<1> QED
    BY <1>1, <1>2, <1>3, <1>5, <1>6, <1>7, <1>8, <1>9, <1>10 DEF Calls

\* The spans and tags that a call begins with are those that were there.
LEMMA CallsKeep ==
    ASSUME Calls
    PROVE  /\ tags' = tags /\ made' = made
           /\ active' = active \/ (Current # 0 /\ active' = Front(active))
BY DEF Calls, InitTracer, StartSpan, FinishSpan, addTags, addLogs, print, SkipExternal, ExternalNoop,
       ExternalInTrace, ExternalAlone, OnIdle, Asked, spanVars

\* Nothing of a request that is over is left.
LEMMA NoneFresh ==
    ASSUME active' = <<>>, made' = 0, tags' = [s \in Spans |-> <<>>], steps' = <<>>
    PROVE  Fresh'
<1>1. DOMAIN <<>> = {}
    OBVIOUS
<1> QED
    BY <1>1 DEF Fresh, Placed, PlacedAt

\* A step stores a span that is new, or tags one that is made.
LEMMA StepFresh ==
    ASSUME SpanDataTypes, Fresh, steps # <<>>, steps' = Tail(steps),
           DoLine \/ DoOtherLine \/ DoDelete \/ DoMake \/ DoStore \/ DoTag \/ DoLog
    PROVE  Fresh'
<1>1. steps \in Seq(StepType) /\ made \in Nat /\ (\A s \in Spans : s \in Nat) /\ Placed(steps, made)
    BY MadeIsNumber DEF SpanDataTypes, Fresh
<1>2. /\ Head(steps).do = "tag" => Head(steps).span <= made
      /\ Head(steps).do = "store" =>
            Head(steps).span >= made /\ Placed(Tail(steps), Head(steps).span)
      /\ Head(steps).do # "store" => Placed(Tail(steps), made)
    BY <1>1, RestIsPlaced
<1>3. CASE DoStore
    <2>1. PICK s \in Spans : s = Head(steps).span
        BY <1>3, HeadFields DEF DoStore, Step
    <2>2. s >= made /\ Placed(steps', s) /\ made' = s /\ tags' = tags /\ active' = Append(active, s)
        BY <1>2, <1>3, <2>1 DEF DoStore, Step
    <2>3. \A r \in Spans : r > s => tags[r] = <<>>
        BY <1>1, <2>2 DEF Fresh
    <2>4. \A i \in DOMAIN active' : active'[i] <= s
        <3>1. active \in Seq(Spans)
            BY DEF SpanDataTypes
        <3>2. PICK n \in Nat : n = Len(active)
            BY <3>1, LenProperties
        <3>3. /\ DOMAIN active = 1 .. n /\ DOMAIN active' = 1 .. n + 1
              /\ active'[n + 1] = s /\ \A i \in 1 .. n : active'[i] = active[i]
            BY <2>2, <3>1, <3>2
        <3>4. \A i \in 1 .. n : active[i] <= made /\ active[i] \in Nat
            BY <1>1, <3>1, <3>2, <3>3, ElementOfSeq DEF Fresh
        <3>5. \A i \in 1 .. n : active[i] <= s
            BY <1>1, <2>2, <3>4
        <3>6. \A i \in 1 .. n + 1 : i \in 1 .. n \/ i = n + 1
            BY <3>2
        <3>7. s <= s
            BY <1>1
        <3> QED
            BY <3>3, <3>5, <3>6, <3>7
    <2> QED
        BY <2>2, <2>3, <2>4 DEF Fresh
<1>4. CASE ~DoStore
    <2>1. Head(steps).do # "store" /\ made' = made
        BY <1>4 DEF DoLine, DoOtherLine, DoDelete, DoMake, DoTag, DoLog, Step, spanVars
    <2>2. active' = active \/ active' = <<>>
        BY <1>4 DEF DoLine, DoOtherLine, DoDelete, DoMake, DoTag, DoLog, Step, spanVars
    <2>3. \A i \in DOMAIN active' : active'[i] <= made
        <3>1. DOMAIN <<>> = {}
            OBVIOUS
        <3> QED
            BY <2>2, <3>1 DEF Fresh
    <2>4. \A r \in Spans : r > made => tags'[r] = <<>>
        <3>1. CASE tags' = tags
            BY <3>1 DEF Fresh
        <3>2. CASE DoTag /\ tags' # tags
            <4>1. PICK s \in Spans : s = Head(steps).span /\ s <= made
                BY <1>2, <3>2, HeadFields DEF DoTag, Step
            <4>2. PICK t : t = Append(tags[s], Head(steps).tag)
                OBVIOUS
            <4>3. tags' = [tags EXCEPT ![s] = t] /\ tags \in [Spans -> Seq(Tags)]
                BY <3>2, <4>1, <4>2 DEF DoTag, SpanDataTypes
            <4>4. \A r \in Spans : r > made => r # s
                BY <1>1, <4>1
            <4>5. \A r \in Spans : r # s => tags'[r] = tags[r]
                BY <4>3
            <4> QED
                BY <4>4, <4>5 DEF Fresh
        <3> QED
            BY <1>4, <3>1, <3>2 DEF DoLine, DoOtherLine, DoDelete, DoMake, DoLog, spanVars
    <2> QED
        BY <1>2, <2>1, <2>3, <2>4 DEF Fresh
<1> QED
    BY <1>3, <1>4

\* A span that is stored is a new one, whatever the script and the log do.
LEMMA FreshStays ==
    ASSUME SpanDataTypes, Fresh, [Next]_vars
    PROVE  Fresh'
<1>1. CASE Calls
    BY <1>1, CallsKeep, CallPlaced, CallFresh
<1>2. CASE DoLine \/ DoOtherLine \/ DoDelete \/ DoMake \/ DoStore \/ DoTag \/ DoLog
    <2>1. steps # <<>> /\ steps' = Tail(steps)
        BY <1>2 DEF DoLine, DoOtherLine, DoDelete, DoMake, DoStore, DoTag, DoLog, Step
    <2> QED
        BY <1>2, <2>1, StepFresh
<1>3. CASE DoForget \/ Terminate \/ UseDeleted
    <2>1. active' = <<>> /\ made' = 0 /\ tags' = [s \in Spans |-> <<>>] /\ steps' = <<>>
        BY <1>3 DEF DoForget, Terminate, UseDeleted, Respawn, NewRequest
    <2> QED
        BY <2>1, NoneFresh
<1>4. CASE Throw
    <2>1. steps' = <<>> /\ tags' = tags /\ made' = made /\ active' = active
        BY <1>4 DEF Throw, spanVars
    <2>2. <<>> \in Seq(QuietStep)
        OBVIOUS
    <2>3. Placed(<<>>, made)
        BY <2>2, QuietPlaced
    <2> QED
        BY <2>1, <2>3, CallFresh
<1>5. CASE Hang \/ UNCHANGED vars
    <2>1. UNCHANGED <<steps, tags, made, active>>
        BY <1>5 DEF Hang, vars, spanVars
    <2> QED
        BY <2>1 DEF Fresh
<1> QED
    BY <1>1, <1>2, <1>3, <1>4, <1>5 DEF Next, Steps

\* A new process has no spans.
LEMMA FreshFirst == Init => Fresh
<1>1. DOMAIN <<>> = {}
    OBVIOUS
<1> QED
    BY <1>1 DEF Init, Fresh, Placed, PlacedAt

\* The settings that are in force, and those that were read.
SettingsType == ini \in Inis /\ loaded \in Inis \cup {NotLoaded}

\* What becomes of the mark of a span: a host that is listed gets none, any other one has it or
\* will have it, unless the call is broken off.
Marked(s, listed) ==
    /\ listed => ~HasKey(s, "is_external") /\ \A i \in DOMAIN steps : steps[i].do # "tag"
    /\ ~listed => call.threw \/ HasKey(s, "is_external") \/ \E i \in DOMAIN steps : Marks(steps[i], s)

ExternalInv ==
    call.name = "external" =>
        /\ call.span = 0 <=> Listed(loaded.none, Stripped(call.uri))
        /\ call.span # 0 /\ udp => Marked(call.span, Listed(loaded.empty, Stripped(call.uri)))

\* Settings are read from those there are.
LEMMA SettingsStay ==
    ASSUME SettingsType, [Next]_vars
    PROVE  SettingsType'
<1>1. Ini \in Inis
    BY DEF Ini, SettingsType
<1>2. ini' \in Inis
    BY DEF SettingsType, Next, Calls, Steps, InitTracer, StartSpan, FinishSpan, addTags, addLogs, print,
           SkipExternal, ExternalNoop, ExternalInTrace, ExternalAlone, OnIdle, Asked, DoLine,
           DoOtherLine, DoDelete, DoMake, DoStore, DoTag, DoLog, DoForget, Throw, Terminate, Hang,
           UseDeleted, Respawn, NewRequest, vars
<1>3. loaded' \in {loaded, Ini, NotLoaded}
    BY DEF Next, Calls, Steps, InitTracer, StartSpan, FinishSpan, addTags, addLogs, print,
           SkipExternal, ExternalNoop, ExternalInTrace, ExternalAlone, OnIdle, Asked, DoLine,
           DoOtherLine, DoDelete, DoMake, DoStore, DoTag, DoLog, DoForget, Throw, Terminate, Hang,
           UseDeleted, Respawn, NewRequest, vars
<1> QED
    BY <1>1, <1>2, <1>3 DEF SettingsType

\* startExternalTracing decides by the lists of the settings.
LEMMA Decided ==
    ASSUME SettingsType, NEW uri
    PROVE  /\ Skipped(uri) <=> Listed(Ini.none, Stripped(uri))
           /\ Tagged(uri) <=> ~Listed(Ini.empty, Stripped(uri))
<1>1. Ini \in Inis
    BY DEF Ini, SettingsType
<1>2. Inis \subseteq [none : Seq(STRING), empty : Seq(STRING)]
    BY SpanDataAssumption, Zenon DEF SpanDataAssumption
<1>3. PICK none \in Seq(STRING), empty \in Seq(STRING) : none = Ini.none /\ empty = Ini.empty
    BY <1>1, <1>2
<1>4. PICK u : u = Stripped(uri)
    OBVIOUS
<1>5. hostsFilterPassed(u, parseHostsStr(none)) <=> ~Listed(none, u)
    BY FilterDecides
<1>6. hostsFilterPassed(u, parseHostsStr(empty)) <=> ~Listed(empty, u)
    BY FilterDecides
<1>7. Skipped(uri) <=> ~hostsFilterPassed(u, parseHostsStr(none))
    BY <1>3, <1>4, Zenon DEF Skipped
<1>8. Tagged(uri) <=> hostsFilterPassed(u, parseHostsStr(empty))
    BY <1>3, <1>4, Zenon DEF Tagged
<1> QED
    BY <1>3, <1>4, <1>5, <1>6, <1>7, <1>8, Zenon

\* An external call whose host is listed makes no span.
LEMMA SkipListed ==
    ASSUME SettingsType, NEW uri, SkipExternal(uri)
    PROVE  ExternalInv'
<1>1. /\ call'.name = "external" /\ call'.span = 0 /\ call'.uri = uri
      /\ loaded' = Ini /\ Skipped(uri)
    BY DEF SkipExternal, Begin, External
<1>2. PICK settings : settings = Ini
    OBVIOUS
<1>3. Listed(settings.none, Stripped(uri))
    BY <1>1, <1>2, Decided, Zenon
<1>4. Listed(loaded'.none, Stripped(call'.uri))
    BY <1>1, <1>2, <1>3, Zenon
<1> QED
    BY <1>1, <1>4, Zenon DEF ExternalInv

\* Any other one makes a new span, and marks it just if its host is not listed.
LEMMA TraceListed ==
    ASSUME SpanDataTypes, Fresh, SettingsType, NEW uri \in Uris, NEW s \in Spans,
           ExternalInTrace(s, uri) \/ ExternalAlone(s, uri)
    PROVE  ExternalInv'
<1>1. /\ call' = External(uri, s) /\ loaded' = Ini /\ ~Skipped(uri) /\ s = made + 1 /\ tags' = tags
    BY DEF ExternalInTrace, ExternalAlone, Begin, spanVars
<1>2. call'.name = "external" /\ call'.span = s /\ call'.uri = uri
    BY <1>1 DEF External
<1>3. s # 0 /\ tags[s] = <<>>
    <2>1. s \in Nat /\ made \in Nat
        BY MadeIsNumber
    <2> QED
        BY <1>1, <2>1 DEF Fresh
<1>4. PICK none, empty, u : none = Ini.none /\ empty = Ini.empty /\ u = Stripped(uri)
    OBVIOUS
<1>5. ~Listed(none, u) /\ (Tagged(uri) <=> ~Listed(empty, u))
    BY <1>1, <1>4, Decided, Zenon
<1>6. PICK seen \in BOOLEAN : seen = udp' /\ Traces(steps', s, Tagged(uri), seen)
    <2>1. CASE ExternalInTrace(s, uri)
        <3>1. steps' = <<Line(FALSE), Line(TRUE)>> \o ExternalSteps(s, uri) /\ udp' = udp
            BY <2>1 DEF ExternalInTrace, Begin
        <3>2. udp \in BOOLEAN
            BY DEF SpanDataTypes
        <3> QED
            BY <3>1, <3>2, TracesInTrace
    <2>2. CASE ExternalAlone(s, uri)
        <3>1. steps' = <<Line(TRUE), Store(s)>>
                  \o (IF Tagged(uri) THEN [i \in 1 .. 4 |-> AddTag(s, CurlTags(Stripped(uri))[i])]
                      ELSE <<>>)
            BY <2>2 DEF ExternalAlone, Begin
        <3>2. udp' = TRUE
            BY <2>2 DEF ExternalAlone
        <3> QED
            BY <3>1, <3>2, TracesAlone
    <2> QED
        BY <2>1, <2>2
<1>7. HasKey(s, "is_external")' <=> FALSE
    <2>1. tags'[s] = <<>> /\ DOMAIN <<>> = {}
        BY <1>1, <1>3
    <2> QED
        BY <2>1 DEF HasKey
<1>8. /\ ~Listed(empty, u) /\ udp' => \E i \in DOMAIN steps' : Marks(steps'[i], s)
      /\ Listed(empty, u) => \A i \in DOMAIN steps' : steps'[i].do # "tag"
    BY <1>5, <1>6, Zenon DEF Traces
<1>9. udp' => Marked(s, Listed(empty, u))'
    BY <1>7, <1>8, Zenon DEF Marked
<1>10. loaded'.none = none /\ loaded'.empty = empty /\ Stripped(call'.uri) = u
    BY <1>1, <1>2, <1>4, Zenon
<1>11. call'.span = 0 <=> Listed(loaded'.none, Stripped(call'.uri))
    BY <1>2, <1>3, <1>5, <1>10, Zenon
<1>12. (udp => Marked(call.span, Listed(loaded.empty, Stripped(call.uri))))'
    BY <1>2, <1>9, <1>10, Zenon
<1> QED
    BY <1>11, <1>12, Zenon DEF ExternalInv

\* The rest of a list of steps.
LEMMA RestSteps ==
    ASSUME SpanDataTypes, steps # <<>>
    PROVE  /\ \A i \in DOMAIN Tail(steps) : \E j \in DOMAIN steps : Tail(steps)[i] = steps[j]
           /\ \A j \in DOMAIN steps : steps[j] = Head(steps)
                                       \/ \E i \in DOMAIN Tail(steps) : Tail(steps)[i] = steps[j]
           /\ \E j \in DOMAIN steps : steps[j] = Head(steps)
<1>1. steps \in Seq(StepType)
    BY DEF SpanDataTypes
<1>2. PICK n \in Nat : n = Len(steps) /\ n > 0
    BY <1>1, EmptySeq, LenProperties
<1>3. PICK rest, first : rest = Tail(steps) /\ first = Head(steps)
    OBVIOUS
<1>4. /\ DOMAIN steps = 1 .. n /\ DOMAIN rest = 1 .. n - 1 /\ first = steps[1]
      /\ \A i \in 1 .. n - 1 : rest[i] = steps[i + 1]
    BY <1>1, <1>2, <1>3, LenProperties, HeadTailProperties
<1>5. \A i \in 1 .. n - 1 : \E j \in 1 .. n : rest[i] = steps[j]
    <2> TAKE i \in 1 .. n - 1
    <2>1. i + 1 \in 1 .. n
        BY <1>2
    <2> QED
        BY <1>4, <2>1
<1>6. \A j \in 1 .. n : steps[j] = first \/ \E i \in 1 .. n - 1 : rest[i] = steps[j]
    <2> TAKE j \in 1 .. n
    <2>1. CASE j = 1
        BY <1>4, <2>1
    <2>2. CASE j # 1
        <3>1. j - 1 \in 1 .. n - 1 /\ (j - 1) + 1 = j
            BY <1>2, <2>2
        <3>2. rest[j - 1] = steps[j]
            BY <1>4, <3>1
        <3> QED
            BY <3>1, <3>2
    <2> QED
        BY <2>1, <2>2
<1>7. 1 \in 1 .. n
    BY <1>2
<1> QED
    BY <1>3, <1>4, <1>5, <1>6, <1>7

\* A step that tags nothing leaves the mark where it is.
LEMMA MarkedByRest ==
    ASSUME SpanDataTypes, NEW s, NEW listed \in BOOLEAN, Marked(s, listed),
           steps # <<>>, steps' = Tail(steps), Head(steps).do # "tag", UNCHANGED <<call, tags>>
    PROVE  Marked(s, listed)'
<1>1. HasKey(s, "is_external")' <=> HasKey(s, "is_external")
    BY DEF HasKey
<1>2. (\A i \in DOMAIN steps : steps[i].do # "tag") => \A i \in DOMAIN steps' : steps'[i].do # "tag"
    BY RestSteps
<1>3. (\E i \in DOMAIN steps : Marks(steps[i], s)) => \E i \in DOMAIN steps' : Marks(steps'[i], s)
    <2> SUFFICES ASSUME NEW j \in DOMAIN steps, Marks(steps[j], s)
                 PROVE  \E i \in DOMAIN steps' : Marks(steps'[i], s)
        OBVIOUS
    <2>1. steps[j] # Head(steps)
        BY DEF Marks
    <2>2. PICK i \in DOMAIN steps' : steps'[i] = steps[j]
        BY <2>1, RestSteps
    <2> QED
        BY <2>2
<1> QED
    BY <1>1, <1>2, <1>3 DEF Marked

\* A key stays, and the one of the tag that is done is there.
LEMMA TagHeld ==
    ASSUME SpanDataTypes, DoTag
    PROVE  /\ \A s \in Spans : \A key : HasKey(s, key) => HasKey(s, key)'
           /\ \E r \in Spans : \E key : r = Head(steps).span /\ key = Head(steps).tag.key /\ HasKey(r, key)'
<1>1. PICK r \in Spans, t \in Tags : r = Head(steps).span /\ t = Head(steps).tag
    BY HeadFields DEF DoTag, Step
<1>2. CASE HasKey(r, t.key) /\ tags' = tags
    <2>1. \A s \in Spans : \A key : HasKey(s, key) => HasKey(s, key)'
        BY <1>2 DEF HasKey
    <2> QED
        BY <1>1, <1>2, <2>1
<1>3. CASE tags' = [tags EXCEPT ![r] = Append(tags[r], t)]
    <2>1. tags \in [Spans -> Seq(Tags)] /\ tags[r] \in Seq(Tags)
        BY DEF SpanDataTypes
    <2>2. PICK held \in Seq(Tags), n \in Nat : held = tags[r] /\ n = Len(held)
        BY <2>1, LenProperties
    <2>3. PICK more : more = Append(held, t)
        OBVIOUS
    <2>4. /\ DOMAIN held = 1 .. n /\ DOMAIN more = 1 .. n + 1 /\ more[n + 1] = t
          /\ \A i \in 1 .. n : more[i] = held[i]
        BY <2>2, <2>3
    <2>5. tags'[r] = more /\ \A s \in Spans : s # r => tags'[s] = tags[s]
        BY <1>3, <2>1, <2>2, <2>3
    <2>6. n + 1 \in 1 .. n + 1 /\ \A i \in 1 .. n : i \in 1 .. n + 1
        BY <2>2
    <2>7. \A key : HasKey(r, key) => HasKey(r, key)'
        <3> SUFFICES ASSUME NEW key, HasKey(r, key) PROVE HasKey(r, key)'
            OBVIOUS
        <3>1. PICK i \in DOMAIN held : held[i].key = key
            BY <2>2 DEF HasKey
        <3>2. i \in DOMAIN more /\ more[i].key = key
            BY <2>4, <2>6, <3>1
        <3> QED
            BY <2>5, <3>2 DEF HasKey
    <2>8. HasKey(r, t.key)'
        <3>1. n + 1 \in DOMAIN more /\ more[n + 1].key = t.key
            BY <2>4, <2>6
        <3> QED
            BY <2>5, <3>1 DEF HasKey
    <2>9. \A s \in Spans : \A key : HasKey(s, key) => HasKey(s, key)'
        <3> TAKE s \in Spans
        <3> TAKE key
        <3>1. CASE s = r
            BY <2>7, <3>1
        <3>2. CASE s # r
            BY <2>5, <3>2 DEF HasKey
        <3> QED
            BY <3>1, <3>2
    <2> QED
        BY <1>1, <2>8, <2>9
<1>4. (HasKey(r, t.key) /\ tags' = tags) \/ tags' = [tags EXCEPT ![r] = Append(tags[r], t)]
    BY <1>1 DEF DoTag
<1> QED
    BY <1>2, <1>3, <1>4

\* A tag that is done is not one of a host that is listed, and may be the mark.
LEMMA MarkedByTag ==
    ASSUME SpanDataTypes, NEW s \in Spans, NEW listed \in BOOLEAN, Marked(s, listed), DoTag
    PROVE  Marked(s, listed)'
<1>1. steps # <<>> /\ steps' = Tail(steps) /\ call' = call /\ Head(steps).do = "tag"
    BY DEF DoTag, Step
<1>2. ~listed
    <2>1. PICK j \in DOMAIN steps : steps[j] = Head(steps)
        BY <1>1, RestSteps
    <2> QED
        BY <1>1, <2>1 DEF Marked
<1>3. CASE call.threw
    BY <1>1, <1>2, <1>3 DEF Marked
<1>4. CASE HasKey(s, "is_external")
    <2>1. HasKey(s, "is_external")'
        BY <1>4, TagHeld
    <2> QED
        BY <1>2, <2>1 DEF Marked
<1>5. CASE \E j \in DOMAIN steps : Marks(steps[j], s)
    <2>1. PICK j \in DOMAIN steps : Marks(steps[j], s)
        BY <1>5
    <2>2. CASE steps[j] = Head(steps)
        <3>1. Head(steps).span = s /\ Head(steps).tag.key = "is_external"
            BY <2>1, <2>2 DEF Marks
        <3>2. PICK r, key :
                  r = Head(steps).span /\ key = Head(steps).tag.key /\ HasKey(r, key)'
            BY TagHeld
        <3>3. HasKey(s, "is_external")'
            <4>1. r = s /\ key = "is_external"
                BY <3>1, <3>2
            <4> QED
                BY <3>2, <4>1
        <3> QED
            BY <1>2, <3>3 DEF Marked
    <2>3. CASE steps[j] # Head(steps)
        <3>1. PICK i \in DOMAIN steps' : steps'[i] = steps[j]
            BY <1>1, <2>3, RestSteps
        <3> QED
            BY <1>2, <2>1, <3>1 DEF Marked
    <2> QED
        BY <2>2, <2>3
<1> QED
    BY <1>2, <1>3, <1>4, <1>5 DEF Marked

\* An external call that is broken off owes no mark, and none is left to come.
LEMMA MarkedByThrow ==
    ASSUME NEW s, NEW listed \in BOOLEAN, Marked(s, listed), tags' = tags, steps' = <<>>, call'.threw
    PROVE  Marked(s, listed)'
<1>1. DOMAIN <<>> = {}
    OBVIOUS
<1>2. HasKey(s, "is_external")' <=> HasKey(s, "is_external")
    BY DEF HasKey
<1> QED
    BY <1>1, <1>2 DEF Marked

\* The record of an external call that is broken off is otherwise as it was.
LEMMA BrokenExternal ==
    ASSUME GivenInv, call.name = "external"
    PROVE  /\ call # NoCall /\ call.span \in Spans \cup {0}
           /\ BrokenOff.threw /\ BrokenOff.span = call.span /\ BrokenOff.uri = call.uri
<1>1. call \in [name : {"external"}, uri : Uris, span : Spans \cup {0}, threw : BOOLEAN]
    BY DEF GivenInv, CallType, NoCall
<1>2. call # NoCall
    BY DEF NoCall
<1> QED
    BY <1>1, <1>2 DEF BrokenOff

\* The mark of an external call follows it.
LEMMA ExternalStays ==
    ASSUME SpanDataTypes, GivenInv, Fresh, SettingsType, ExternalInv, [Next]_vars
    PROVE  ExternalInv'
<1>1. CASE call'.name # "external"
    BY <1>1 DEF ExternalInv
<1>2. CASE call' = NoCall
    BY <1>1, <1>2 DEF NoCall
<1>3. CASE UNCHANGED <<call, steps, tags, udp, loaded>>
    BY <1>3 DEF ExternalInv, Marked, HasKey
<1>4. CASE Calls
    <2>1. CASE \E uri \in Uris : SkipExternal(uri)
        BY <2>1, SkipListed
    <2>2. CASE \E uri \in Uris, s \in Spans : ExternalInTrace(s, uri) \/ ExternalAlone(s, uri)
        BY <2>2, TraceListed
    <2>3. CASE /\ ~\E uri \in Uris : SkipExternal(uri)
               /\ ~\E uri \in Uris, s \in Spans : ExternalInTrace(s, uri) \/ ExternalAlone(s, uri)
        <3>1. call' = NoCall \/ call'.name = "addTags"
            <4>1. ASSUME NEW list \in TagLists, addTags(list)
                  PROVE  call' = NoCall \/ call'.name = "addTags"
                <5>1. PICK given, before, s :
                          /\ given = (IF udp THEN list ELSE <<>>)
                          /\ before = tags[Current] /\ s = Current
                    OBVIOUS
                <5>2. \/ call' = NoCall
                      \/ call' = [name |-> "addTags", span |-> s, before |-> before,
                                  list |-> given, threw |-> FALSE]
                    BY <4>1, <5>1, Zenon DEF addTags, Asked, Begin
                <5> QED
                    BY <5>2
            <4>2. CASE \A list \in TagLists : ~addTags(list)
                BY <1>4, <2>3, <4>2 DEF Calls, InitTracer, StartSpan, FinishSpan, addLogs, print,
                       ExternalNoop, OnIdle, Asked, Begin
            <4> QED
                BY <4>1, <4>2
        <3> QED
            BY <1>1, <1>2, <3>1
    <2> QED
        BY <2>1, <2>2, <2>3
\* A step keeps the settings and the record, and the mark where it is.
<1>5. ASSUME call.name = "external", UNCHANGED <<udp, loaded>>,
             call'.name = call.name, call'.span = call.span, call'.uri = call.uri,
             \A listed \in BOOLEAN : call.span # 0 /\ Marked(call.span, listed) =>
                 \E s : s = call'.span /\ Marked(s, listed)'
      PROVE  ExternalInv'
    <2>1. PICK s, uri : s = call.span /\ uri = call.uri
        OBVIOUS
    <2>2. PICK none \in BOOLEAN, empty \in BOOLEAN :
              none = Listed(loaded.none, Stripped(uri)) /\ empty = Listed(loaded.empty, Stripped(uri))
        BY DEF Listed
    <2>3. (s = 0 <=> none) /\ (s # 0 /\ udp => Marked(s, empty))
        BY <1>5, <2>1, <2>2 DEF ExternalInv
    <2>4. s # 0 /\ udp' => Marked(s, empty)'
        BY <1>5, <2>1, <2>3
    <2>5. none = Listed(loaded'.none, Stripped(uri)) /\ empty = Listed(loaded'.empty, Stripped(uri))
          /\ call'.span = s /\ call'.uri = uri
        BY <1>5, <2>1, <2>2
    <2>6. (call.span = 0 <=> Listed(loaded.none, Stripped(call.uri)))'
        BY <2>3, <2>5
    <2>7. (call.span # 0 /\ udp => Marked(call.span, Listed(loaded.empty, Stripped(call.uri))))'
        BY <2>4, <2>5
    <2> QED
        BY <2>6, <2>7 DEF ExternalInv
<1>6. CASE /\ steps # <<>> /\ steps' = Tail(steps) /\ UNCHANGED <<call, tags, udp, loaded>>
           /\ Head(steps).do # "tag"
    BY <1>1, <1>5, <1>6, MarkedByRest
<1>7. CASE DoTag
    <2>1. CASE call.name = "external"
        <3>1. UNCHANGED <<call, udp, loaded>>
            BY <1>7 DEF DoTag
        <3>2. call.span \in Spans \cup {0}
            BY <2>1, BrokenExternal
        <3> QED
            BY <1>5, <1>7, <2>1, <3>1, <3>2, MarkedByTag
    <2>2. CASE call.name # "external"
        BY <1>1, <1>7, <2>2 DEF DoTag
    <2> QED
        BY <2>1, <2>2
<1>8. CASE Throw
    <2>1. steps' = <<>> /\ UNCHANGED <<tags, udp, loaded>> /\ (call # NoCall => call' = BrokenOff)
        BY <1>8 DEF Throw, spanVars, BrokenOff
    <2>2. CASE call.name = "external"
        <3>1. call' = BrokenOff /\ call # NoCall
            BY <2>1, <2>2, BrokenExternal
        <3>2. call'.threw /\ call'.span = call.span /\ call'.uri = call.uri
            BY <2>2, <3>1, BrokenExternal
        <3>3. call'.name = call.name
            BY <3>1, Broken
        <3> QED
            BY <1>5, <2>1, <2>2, <3>2, <3>3, MarkedByThrow
    <2>3. CASE call.name # "external"
        <3>1. CASE call = NoCall
            BY <1>2, <1>8, <3>1 DEF Throw
        <3>2. CASE call # NoCall
            BY <1>1, <2>1, <2>3, <3>2, Broken
        <3> QED
            BY <3>1, <3>2
    <2> QED
        BY <2>2, <2>3
<1>9. CASE Steps
    <2>1. DoLine \/ DoOtherLine \/ DoDelete \/ DoMake \/ DoStore \/ DoLog =>
             /\ steps # <<>> /\ steps' = Tail(steps) /\ UNCHANGED <<call, tags, udp, loaded>>
             /\ Head(steps).do # "tag"
        BY DEF DoLine, DoOtherLine, DoDelete, DoMake, DoStore, DoLog, Step, spanVars
    <2>2. DoForget \/ Terminate => call' = NoCall
        BY DEF DoForget, Terminate, Respawn, NewRequest
    <2>3. Hang => UNCHANGED <<call, steps, tags, udp, loaded>>
        BY DEF Hang, spanVars
    <2> QED
        BY <1>2, <1>3, <1>6, <1>7, <1>8, <1>9, <2>1, <2>2, <2>3 DEF Steps
<1>10. CASE UseDeleted
    BY <1>2, <1>10 DEF UseDeleted, Respawn, NewRequest
<1>11. CASE UNCHANGED vars
    BY <1>3, <1>11 DEF vars, spanVars
<1> QED
    BY <1>4, <1>9, <1>10, <1>11 DEF Next

\* A new process has read no settings and was asked nothing.
LEMMA ExternalFirst == Init => SettingsType /\ ExternalInv
BY DEF Init, SettingsType, ExternalInv, NoCall

\* When nothing is left and nothing threw, the span has the mark or never gets it.
LEMMA ExternalAgrees == ExternalInv => ExternalAsListed
<1>1. DOMAIN <<>> = {}
    OBVIOUS
<1> QED
    BY <1>1 DEF ExternalInv, ExternalAsListed, Marked

\* startExternalTracing makes a span just if no_spans_for_hosts does not list the host, and
\* tags it just if empty_spans_for_hosts does not, for any settings and any uri
\* (Tracer::startExternalTracing, parseHostsStr, hostsFilterPassed).
THEOREM ExternalDecided == Spec => []ExternalAsListed
<1>1. SpanDataTypes /\ GivenInv /\ [Next]_vars => GivenInv'
    BY GivenStays
<1>2. SpanDataTypes /\ Fresh /\ [Next]_vars => Fresh'
    BY FreshStays
<1>3. SettingsType /\ [Next]_vars => SettingsType'
    BY SettingsStay
<1>4. SpanDataTypes /\ GivenInv /\ Fresh /\ SettingsType /\ ExternalInv /\ [Next]_vars => ExternalInv'
    BY ExternalStays
<1>5. Init => GivenInv /\ Fresh /\ SettingsType /\ ExternalInv
    BY GivenFirst, FreshFirst, ExternalFirst
<1>6. ExternalInv => ExternalAsListed
    BY ExternalAgrees
<1> QED
    BY <1>1, <1>2, <1>3, <1>4, <1>5, <1>6, SpanDataTypeCorrect, PTL DEF Spec
=============================================================================

---------------------------- MODULE MCEmitBatch ----------------------------
(* EmitBatch with spans that have every kind of field, cuts of their logs, and both protocols. *)
EXTENDS EmitBatch

Key == <<107>>
Double == <<0, 0, 0, 0, 0, 0, 240, 63>>
MCTags == <<[key |-> Key, type |-> "STRING", value |-> <<>>],
            [key |-> Key, type |-> "BOOL", value |-> <<0>>],
            [key |-> Key, type |-> "DOUBLE", value |-> Double],
            [key |-> Key, type |-> "BOOL", value |-> <<1>>]>>

MCProcess == [serviceName |-> <<115>>,
              tags |-> <<[key |-> <<104>>, type |-> "STRING", value |-> <<104>>]>>]

\* Logs one microsecond apart, or at the same time.
MCLogs(n) == [i \in 1..n |-> [timestamp |-> 100 + (i \div 2), fields |-> SubSeq(MCTags, 1, i - 1)]]

Context(flags, refType, parent) ==
    [traceIdLow |-> 70, traceIdHigh |-> -1, spanId |-> IF parent = 0 THEN 70 ELSE 8200,
     parentId |-> parent, flags |-> flags, refType |-> refType]

MCSpans ==
    {[context |-> c, operationName |-> <<111, 112>>, startTime |-> 90, endTime |-> e,
      tags |-> SubSeq(MCTags, 1, t), logs |-> MCLogs(n)] :
        c \in {Context(1, <<>>, 0), Context(3, <<0>>, 70), Context(2, <<1>>, 70), Context(0, <<>>, 0)},
        e \in {0, 300}, t \in {0, 4}, n \in {0, 1, 3}}

\* Ranges as flush takes them: some logs, of a whole span or of a part.
Asks(n) ==
    {a \in [limit : {"WHOLE", "PARTIAL"}, start : 0..2, count : 0..3, part : {1, 2},
            badLog : BOOLEAN, freshId : {9000}, now : {200}] :
        /\ a.start + a.count <= n
        /\ a.count = 0 <=> n = 0
        /\ a.badLog => a.count = 1
        /\ a.part = 1 \/ a.start > 0}

MCPartial ==
    UNION {{[call |-> "emitBatch", process |-> MCProcess, spans |-> <<s>>, ask |-> a] :
               a \in Asks(Len(s.logs))} : s \in MCSpans}

\* What a tracer may have stored: no span, one, two, some of them not sampled.
MCFew == {s \in MCSpans : s.endTime = 300 /\ Len(s.logs) # 1 /\ (s.tags = <<>> <=> s.logs = <<>>)}
MCWhole ==
    {[call |-> "emitBatch", process |-> MCProcess, spans |-> spans, now |-> 200] :
        spans \in UNION {[1..n -> MCFew] : n \in {0, 2}} \union [{1} -> MCSpans]}

Endpoint == (1 :> <<-1062731775>>) @@ (2 :> <<-6405>>) @@ (3 :> <<115>>)
MCEndpoints == {Endpoint, Endpoint @@ (4 :> <<254, 128>>)}
MCAnnotations == {(1 :> <<100>>) @@ (2 :> <<97>>)} \union
                 {(1 :> <<100>>) @@ (2 :> <<97>>) @@ (3 :> e) : e \in MCEndpoints}
MCBinaryAnnotations == {(1 :> Key) @@ (2 :> <<1>>) @@ (3 :> <<0>>) @@ (4 :> e) : e \in MCEndpoints}
                       \union {(1 :> Key) @@ (2 :> <<>>) @@ (3 :> <<6>>)}

\* debug is set unless it is taken away: its __isset is true from the start.
MCZipkinSpans ==
    {(1 :> <<70>>) @@ (3 :> <<111>>) @@ (4 :> <<8200>>) @@ parent @@ (6 :> a) @@ (8 :> b)
     @@ (9 :> debug) @@ times :
        parent \in {<<>>, 5 :> <<-2>>}, a \in {<<>>} \union {<<x>> : x \in MCAnnotations},
        b \in {<<>>} \union {<<x>> : x \in MCBinaryAnnotations}, debug \in {<<0>>, <<1>>},
        times \in {<<>>, (10 :> <<90>>) @@ (11 :> <<300>>) @@ (12 :> <<-1>>)}}

MCZipkin == {[call |-> "emitZipkinBatch", spans |-> <<s>>] : s \in MCZipkinSpans}

MCReports == [compact |-> MCPartial \union MCZipkin, binary |-> MCWhole \union MCZipkin]

\* An agent of today, one without references, hosts and the high half of trace ids,
\* one without logs, binary annotations and vBool.
MCAgents == {{}, {<<"Span", 6>>, <<"Annotation", 3>>, <<"BinaryAnnotation", 4>>, <<"ZipkinSpan", 12>>},
             {<<"Span", 11>>, <<"Tag", 5>>, <<"Process", 2>>, <<"ZipkinSpan", 8>>}}
=============================================================================

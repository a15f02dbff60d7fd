------------------------ MODULE TracerWorker_proofs ------------------------
(***************************************************************************)
(* Proofs about TracerWorker, for any number of spans, services, sampler   *)
(* settings and flags, over any number of requests.                        *)
(***************************************************************************)
EXTENDS TracerWorker, SequenceTheorems, TLAPS

\* What the script and the tracer refer to was made, and a tracer that is not
\* a JaegerTracer stores nothing.
Stored ==
    /\ tracer.spans \subseteq Made
    /\ handles \subseteq Made
    /\ ~IsJaeger => tracer.spans = {} /\ tracer.active = <<>>

Inv ==
    /\ TypeOK
    /\ Stored
    /\ ActiveSpansStored
    /\ SampledSpanMarksTracer
    /\ ReportedOnce
    /\ OneDecisionPerTrace

-----------------------------------------------------------------------------
(* The operators the actions are built from. *)

SettingsType ==
    [enabled : BOOLEAN, udp : BOOLEAN, reporter : {"udp", "file"}, percents : 0..100]

\* A new tracer has its kind and no spans.
LEMMA NewTracerProperties ==
    ASSUME NEW kind \in {"none", "noop", "jaeger"},
           NEW service \in Services \cup {External},
           NEW reporter \in {"udp", "file"}, NEW percents \in 0..100
    PROVE  /\ NewTracer(kind, service, reporter, percents) \in TracerType
           /\ NewTracer(kind, service, reporter, percents).kind = kind
           /\ NewTracer(kind, service, reporter, percents).spans = {}
           /\ NewTracer(kind, service, reporter, percents).active = <<>>
           /\ NewTracer(kind, service, reporter, percents).isSampled = FALSE
<1>1. <<>> \in Seq(SpanIds)
  BY EmptySeq
<1>2. QED  BY <1>1 DEF NewTracer, TracerType

\* No tracer and a NoopTracer hold no spans.
LEMMA IdleTracers ==
    /\ NoTracer \in TracerType /\ NoopTracer \in TracerType
    /\ NoTracer.spans = {} /\ NoopTracer.spans = {}
    /\ NoTracer.active = <<>> /\ NoopTracer.active = <<>>
<1>1. 0 \in 0..100 /\ External \in Services \cup {External} /\ <<>> \in Seq(SpanIds)
  BY EmptySeq
<1>2. NoTracer \in TracerType /\ NoTracer.spans = {} /\ NoTracer.active = <<>>
  BY <1>1 DEF NoTracer, NewTracer, TracerType
<1>3. NoopTracer \in TracerType /\ NoopTracer.spans = {} /\ NoopTracer.active = <<>>
  BY <1>1 DEF NoopTracer, NewTracer, TracerType
<1>4. QED  BY <1>2, <1>3

\* startSpan adds the span and may set the tracer's sampling.
LEMMA StartedProperties ==
    ASSUME NEW t \in TracerType, NEW s \in SpanIds, NEW flags
    PROVE  /\ Started(t, s, flags) \in TracerType
           /\ Started(t, s, flags).spans = t.spans \cup {s}
           /\ Started(t, s, flags).active = Append(t.active, s)
           /\ Started(t, s, flags).isSampled = (t.isSampled \/ Bit(flags, 1) \/ Bit(flags, 2))
           /\ Started(t, s, flags).kind = t.kind
<1>1. Append(t.active, s) \in Seq(SpanIds)
  BY AppendProperties DEF TracerType
<1>2. (t.isSampled \/ Bit(flags, 1) \/ Bit(flags, 2)) \in BOOLEAN
  BY DEF TracerType, Bit
<1>3. QED  BY <1>1, <1>2 DEF Started, TracerType

\* A flush that runs leaves no spans behind, another one all of them.
LEMMA FlushedProperties ==
    ASSUME NEW t \in TracerType, NEW udp \in BOOLEAN
    PROVE  /\ Flushed(t, udp) \in TracerType
           /\ Flushed(t, udp).kind = t.kind
           /\ Flushed(t, udp).isSampled = t.isSampled
           /\ FlushRuns(t, udp) => Flushed(t, udp).spans = {} /\ Flushed(t, udp).active = <<>>
           /\ ~FlushRuns(t, udp) => Flushed(t, udp) = t
<1>1. <<>> \in Seq(SpanIds)
  BY EmptySeq
<1>2. QED  BY <1>1 DEF Flushed, TracerType

\* The number of times spans were reported stays a number.
LEMMA AfterFlushType ==
    ASSUME NEW count \in [SpanIds -> Nat], NEW t, NEW udp
    PROVE  AfterFlush(count, t, udp) \in [SpanIds -> Nat]
BY DEF AfterFlush

\* Every way to set up a tracer gives settings.
LEMMA SettingsTypes ==
    ASSUME TypeOK
    PROVE  /\ DefaultSettings \in SettingsType
           /\ CurlSettings \in SettingsType
           /\ NullSettings \in SettingsType
           /\ ArraySettings \subseteq SettingsType
<1>0. Percents \subseteq 0..100
  BY WorkerAssumption, Zenon DEF WorkerAssumption
<1>1. 1 \in 0..100 /\ 100 \in 0..100 /\ Percents \subseteq 0..100
  BY <1>0
<1>2. ASSUME NEW e \in BOOLEAN, NEW u \in BOOLEAN, NEW r \in {"udp", "file"}, NEW p \in 0..100
      PROVE  Settings(e, u, r, p) \in SettingsType
  BY DEF Settings, SettingsType
<1>3. udpTransport \in BOOLEAN /\ userSettings.reporter \in {"udp", "file"}
  BY DEF TypeOK
<1>4. DefaultSettings \in SettingsType
  BY <1>1, <1>2, <1>3 DEF DefaultSettings
<1>5. CurlSettings \in SettingsType
  <2>1. Settings(TRUE, TRUE, userSettings.reporter, 100) \in SettingsType
    BY <1>1, <1>2, <1>3, Zenon
  <2>2. QED  BY <2>1 DEF CurlSettings
<1>6. NullSettings \in SettingsType
  BY <1>1, <1>2 DEF NullSettings
<1>7. ArraySettings \subseteq SettingsType
  BY <1>1, <1>2 DEF ArraySettings
<1>8. QED  BY <1>4, <1>5, <1>6, <1>7

\* Tracer::init replaces the tracer by one without spans.
LEMMA InitInternalType ==
    ASSUME TypeOK, NEW service \in Services \cup {External},
           NEW settings \in SettingsType, InitInternal(service, settings)
    PROVE  /\ tracer' \in TracerType
           /\ tracer'.spans = {} /\ tracer'.active = <<>>
           /\ udpTransport' \in BOOLEAN
           /\ reports' \in [SpanIds -> Nat]
           /\ reports' = AfterFlush(reports, tracer, udpTransport')
<1>1. settings.percents \in 0..100 /\ settings.reporter \in {"udp", "file"} /\ settings.udp \in BOOLEAN
  BY DEF SettingsType
<1>2. reports' \in [SpanIds -> Nat]
  BY AfterFlushType DEF InitInternal, TypeOK
<1>3. CASE settings.enabled
  <2>1. tracer' = NewTracer("jaeger", service, settings.reporter, settings.percents)
    BY <1>3 DEF InitInternal
  <2>2. tracer' \in TracerType
    <3>1. ASSUME NEW r \in {"udp", "file"}, NEW p \in 0..100
          PROVE  NewTracer("jaeger", service, r, p) \in TracerType
      BY NewTracerProperties
    <3>2. QED  BY <1>1, <2>1, <3>1
  <2>3. tracer'.spans = {} /\ tracer'.active = <<>>
    BY <2>1 DEF NewTracer
  <2>4. QED  BY <1>1, <1>2, <2>2, <2>3 DEF InitInternal
<1>4. CASE ~settings.enabled
  BY <1>1, <1>2, <1>4, IdleTracers DEF InitInternal
<1>5. QED  BY <1>3, <1>4

\* A root's flags are a header's or the sampler's.
LEMMA RootFlagsType ==
    ASSUME TypeOK, NEW percents, NEW f \in RootFlags(percents)
    PROVE  f \in Nat
BY DEF RootFlags, TypeOK

\* A context is one.
LEMMA ContextIsType ==
    ASSUME NEW trace \in SpanIds \cup {Remote},
           NEW parent \in SpanIds \cup {Remote, None}, NEW f \in Nat
    PROVE  Context(trace, parent, f) \in ContextType
BY DEF Context, ContextType

\* A span that was made has a context.
LEMMA MadeType ==
    ASSUME TypeOK, NEW p \in Made
    PROVE  p \in SpanIds /\ span[p] \in ContextType
BY DEF Made, TypeOK

\* A child of a span has a context.
LEMMA ChildContextType ==
    ASSUME TypeOK, NEW p \in Made
    PROVE  ChildContext(p) \in ContextType
<1>1. p \in SpanIds /\ span[p] \in ContextType
  BY MadeType
<1>2. QED  BY <1>1, ContextIsType DEF ChildContext, ContextType

-----------------------------------------------------------------------------
(* Taking the first occurrence of an element out of a sequence. *)

Distinct(q) == \A i, j \in DOMAIN q : q[i] = q[j] => i = j

\* Removing what is not there changes nothing.
LEMMA RemoveAbsent ==
    ASSUME NEW S, NEW q \in Seq(S), NEW e, \A i \in 1..Len(q) : q[i] # e
    PROVE  RemoveFirst(q, e) = q
BY DEF RemoveFirst

\* Removing what is there once removes its place.
LEMMA RemovePresent ==
    ASSUME NEW S, NEW q \in Seq(S), Distinct(q), NEW k \in 1..Len(q)
    PROVE  RemoveFirst(q, q[k]) = RemoveAt(q, k)
<1> DEFINE I == {i \in 1..Len(q) : q[i] = q[k]}
<1>1. I = {k}
  BY DEF Distinct
<1>2. (CHOOSE x \in I : \A y \in I : x <= y) = k
  BY <1>1
<1>3. QED  BY <1>1, <1>2 DEF RemoveFirst, SelectInSeq, SelectInSubSeq, Min

\* A sequence without one of its places.
LEMMA RemoveAtProperties ==
    ASSUME NEW S, NEW q \in Seq(S), NEW k \in 1..Len(q)
    PROVE  /\ RemoveAt(q, k) \in Seq(S)
           /\ Len(RemoveAt(q, k)) = Len(q) - 1
           /\ \A i \in 1..(Len(q) - 1) : RemoveAt(q, k)[i] = q[IF i < k THEN i ELSE i + 1]
<1> DEFINE a == SubSeq(q, 1, k - 1)
           b == SubSeq(q, k + 1, Len(q))
<1>0. Len(q) \in Nat
  BY LenProperties
<1>1. a \in Seq(S) /\ Len(a) = k - 1 /\ \A i \in 1..(k - 1) : a[i] = q[i]
  BY <1>0, SubSeqProperties
<1>2. b \in Seq(S) /\ Len(b) = Len(q) - k /\ \A i \in 1..(Len(q) - k) : b[i] = q[k + i]
  BY <1>0, SubSeqProperties
<1> HIDE DEF a, b
<1>3. /\ a \o b \in Seq(S) /\ Len(a \o b) = Len(q) - 1
      /\ \A i \in 1..(Len(q) - 1) : (a \o b)[i] = IF i <= k - 1 THEN a[i] ELSE b[i - (k - 1)]
  <2>1. Len(a) + Len(b) = Len(q) - 1
    BY <1>0, <1>1, <1>2
  <2>2. /\ a \o b \in Seq(S) /\ Len(a \o b) = Len(a) + Len(b)
        /\ \A i \in 1..(Len(a) + Len(b)) :
              (a \o b)[i] = IF i <= Len(a) THEN a[i] ELSE b[i - Len(a)]
    BY <1>1, <1>2, ConcatProperties, Zenon
  <2>3. QED  BY <1>1, <2>1, <2>2
<1>4. ASSUME NEW i \in 1..(Len(q) - 1)
      PROVE  (a \o b)[i] = q[IF i < k THEN i ELSE i + 1]
  <2>1. CASE i < k
    BY <2>1, <1>0, <1>1, <1>3
  <2>2. CASE ~(i < k)
    <3>1. i - (k - 1) \in 1..(Len(q) - k)
      BY <2>2, <1>0
    <3>2. k + (i - (k - 1)) = i + 1
      BY <1>0
    <3>3. b[i - (k - 1)] = q[i + 1]
      BY <3>1, <3>2, <1>2
    <3>4. ~(i <= k - 1)
      BY <2>2, <1>0
    <3>5. (a \o b)[i] = b[i - (k - 1)]
      BY <3>4, <1>3
    <3>6. QED  BY <2>2, <3>3, <3>5
  <2>3. QED  BY <2>1, <2>2
<1>5. RemoveAt(q, k) = a \o b
  BY DEF RemoveAt, a, b
<1>6. QED  BY <1>3, <1>4, <1>5

\* A sequence of distinct elements without one of them.
LEMMA RemoveFirstProperties ==
    ASSUME NEW S, NEW q \in Seq(S), Distinct(q), NEW e \in S
    PROVE  /\ RemoveFirst(q, e) \in Seq(S)
           /\ Distinct(RemoveFirst(q, e))
           /\ \A p \in S :
                 (\E i \in DOMAIN RemoveFirst(q, e) : RemoveFirst(q, e)[i] = p)
                     <=> p # e /\ (\E i \in DOMAIN q : q[i] = p)
<1>0. Len(q) \in Nat /\ DOMAIN q = 1..Len(q)
  BY LenProperties
<1>1. CASE \A i \in 1..Len(q) : q[i] # e
  <2>1. RemoveFirst(q, e) = q
    BY <1>1, RemoveAbsent
  <2>2. QED  BY <1>0, <1>1, <2>1
<1>2. CASE \E i \in 1..Len(q) : q[i] = e
  <2>1. PICK k \in 1..Len(q) : q[k] = e
    BY <1>2
  <2> DEFINE r == RemoveAt(q, k)
  <2>2. RemoveFirst(q, e) = r
    BY <2>1, RemovePresent
  <2>3. /\ r \in Seq(S) /\ Len(r) = Len(q) - 1
        /\ \A i \in 1..(Len(q) - 1) : r[i] = q[IF i < k THEN i ELSE i + 1]
    BY RemoveAtProperties
  <2> HIDE DEF r
  <2>4. DOMAIN r = 1..(Len(q) - 1)
    BY <2>3, LenProperties
  <2>5. Distinct(r)
    <3>1. ASSUME NEW i \in DOMAIN r, NEW j \in DOMAIN r, r[i] = r[j]
          PROVE  i = j
      <4> DEFINE f(x) == IF x < k THEN x ELSE x + 1
      <4>1. f(i) \in DOMAIN q /\ f(j) \in DOMAIN q
        BY <1>0, <2>4
      <4>2. q[f(i)] = q[f(j)]
        BY <2>3, <2>4, <3>1
      <4>3. f(i) = f(j)
        BY <4>1, <4>2 DEF Distinct
      <4>4. QED  BY <1>0, <2>4, <4>3
    <3>2. QED  BY <3>1 DEF Distinct
  <2>6. ASSUME NEW p \in S
        PROVE  (\E i \in DOMAIN r : r[i] = p) <=> p # e /\ (\E i \in DOMAIN q : q[i] = p)
    <3>1. ASSUME NEW i \in DOMAIN r, r[i] = p
          PROVE  p # e /\ (\E j \in DOMAIN q : q[j] = p)
      <4> DEFINE f == IF i < k THEN i ELSE i + 1
      <4>1. f \in DOMAIN q /\ f # k
        BY <1>0, <2>4
      <4>2. q[f] = p
        BY <2>3, <2>4, <3>1
      <4>3. QED  BY <1>0, <2>1, <4>1, <4>2 DEF Distinct
    <3>2. ASSUME p # e, NEW j \in DOMAIN q, q[j] = p
          PROVE  \E i \in DOMAIN r : r[i] = p
      <4>1. CASE j < k
        <5>1. j \in DOMAIN r /\ r[j] = q[j]
          BY <1>0, <2>3, <2>4, <4>1
        <5>2. QED  BY <3>2, <5>1
      <4>2. CASE j > k
        <5>1. j - 1 \in DOMAIN r /\ ~(j - 1 < k) /\ (j - 1) + 1 = j
          BY <1>0, <2>4, <4>2
        <5>2. r[j - 1] = q[j]
          BY <2>3, <2>4, <5>1
        <5>3. QED  BY <3>2, <5>1, <5>2
      <4>3. j # k
        BY <2>1, <3>2
      <4>4. QED  BY <1>0, <4>1, <4>2, <4>3
    <3>3. QED  BY <3>1, <3>2
  <2>7. QED  BY <2>2, <2>3, <2>5, <2>6
<1>3. QED  BY <1>1, <1>2

-----------------------------------------------------------------------------
(* What a step does to the tracer and its spans: one of four things.  The   *)
(* lemmas about the actions say which, and the preservation of Inv is then   *)
(* proved once for each of the four.                                         *)

\* Nothing.
Kept ==
    /\ UNCHANGED <<tracer, span, reports>>
    /\ handles' \subseteq handles

\* A span of a live tracer gets its end and is no longer active.
Finished ==
    /\ IsJaeger
    /\ \E s \in handles :
          /\ span' = [span EXCEPT ![s].ended = TRUE]
          /\ tracer' = [tracer EXCEPT !.active = RemoveFirst(@, s)]
    /\ reports' = reports
    /\ handles' \subseteq handles

\* The tracer is flushed as the transport says that the call leaves on, if the
\* process is not gone.
Reporting ==
    \E udp \in BOOLEAN :
        /\ reports' = AfterFlush(reports, tracer, udp)
        /\ udpTransport' /\ ~crashed => udp

\* Every span leaves the tracer, perhaps after one got its end.
Emptied ==
    /\ tracer' \in TracerType /\ tracer'.spans = {} /\ tracer'.active = <<>>
    /\ span' = span \/ \E s \in handles : span' = [span EXCEPT ![s].ended = TRUE]
    /\ Reporting
    /\ handles' \subseteq handles

\* The decision of a new span is its own or that of a span of its trace.
Inherits(s, c) ==
    \/ c.trace = s
    \/ c.trace = Remote
    \/ \E p \in Made : c.trace = span[p].trace /\ c.flags = span[p].flags

\* A span is added to the tracer, or to a new one that replaces it.
Grown ==
    \E s \in SpanIds, c \in ContextType, t \in TracerType :
        /\ span[s] = NoSpan /\ ~c.ended /\ Inherits(s, c)
        /\ span' = [span EXCEPT ![s] = c]
        /\ tracer' = Started(t, s, c.flags)
        /\ t.kind = "jaeger"
        /\ \/ t = tracer /\ reports' = reports
           \/ /\ t.spans = {} /\ t.active = <<>>
              /\ Reporting
        /\ handles' = handles \cup {s}

StepClass == Kept \/ Finished \/ Emptied \/ Grown
StaticsTyped ==
    /\ headerFlag' \in Nat
    /\ udpTransport' \in BOOLEAN /\ singleExtCall' \in BOOLEAN
    /\ userSettings' \in [given : BOOLEAN, service : Services \cup {External},
                          reporter : {"udp", "file"}]
    /\ noopHandle' \in BOOLEAN
    /\ contexts' \in SUBSET Flags
    /\ crashed' \in BOOLEAN

\* Tracer::init flushes the old tracer and empties everything.
LEMMA InitInternalEmpties ==
    ASSUME TypeOK, NEW service \in Services \cup {External},
           NEW settings \in SettingsType, InitInternal(service, settings),
           span' = span \/ \E s \in handles : span' = [span EXCEPT ![s].ended = TRUE],
           handles' \subseteq handles
    PROVE  Emptied
<1>1. tracer' \in TracerType /\ tracer'.spans = {} /\ tracer'.active = <<>>
  BY InitInternalType
<1>2. udpTransport' \in BOOLEAN /\ reports' = AfterFlush(reports, tracer, udpTransport')
  BY InitInternalType
<1>3. Reporting
  BY <1>2 DEF Reporting
<1>4. QED  BY <1>1, <1>3 DEF Emptied

\* Without a flush nothing is reported.
LEMMA NoFlush ==
    ASSUME TypeOK
    PROVE  reports = AfterFlush(reports, tracer, FALSE)
BY DEF AfterFlush, FlushRuns, TypeOK

\* A second flush finds nothing to report.
LEMMA FlushTwice ==
    ASSUME TypeOK, NEW udp \in BOOLEAN
    PROVE  AfterFlush(AfterFlush(reports, tracer, udp), Flushed(tracer, udp), udp)
             = AfterFlush(reports, tracer, udp)
<1>1. AfterFlush(reports, tracer, udp) \in [SpanIds -> Nat]
  BY AfterFlushType DEF TypeOK
<1>2. CASE FlushRuns(tracer, udp)
  <2>1. Flushed(tracer, udp).spans = {}
    BY <1>2, FlushedProperties DEF TypeOK
  <2>2. QED  BY <1>1, <2>1 DEF AfterFlush
<1>3. CASE ~FlushRuns(tracer, udp)
  <2>1. Flushed(tracer, udp) = tracer
    BY <1>3, FlushedProperties DEF TypeOK
  <2>2. QED  BY <1>1, <1>3, <2>1 DEF AfterFlush
<1>4. QED  BY <1>2, <1>3

-----------------------------------------------------------------------------
(* Which of the four each action is. *)

\* The current span was made.
LEMMA CurrentSpanMade ==
    ASSUME Inv, tracer.active # <<>>
    PROVE  tracer.active[Len(tracer.active)] \in Made
<1>1. tracer.active \in Seq(SpanIds)
  BY DEF Inv, TypeOK, TracerType
<1>2. Len(tracer.active) \in DOMAIN tracer.active /\ tracer.active[Len(tracer.active)] \in SpanIds
  BY <1>1
<1>3. tracer.active[Len(tracer.active)] \in tracer.spans
  BY <1>2 DEF Inv, ActiveSpansStored
<1>4. QED  BY <1>3 DEF Inv, Stored

\* Every init is a step of one of the four kinds.
LEMMA InitClass ==
    ASSUME Inv, NEW service \in Services,
           InitDefault(service) \/ InitArray(service) \/ InitOther(service)
    PROVE  StepClass /\ StaticsTyped
<1>0. TypeOK /\ service \in Services \cup {External}
  BY DEF Inv
<1>1. CASE InitDefault(service)
  <2>1. InitInternal(service, DefaultSettings) /\ DefaultSettings \in SettingsType
    BY <1>0, <1>1, SettingsTypes DEF InitDefault
  <2>2. Emptied
    BY <1>0, <1>1, <2>1, InitInternalEmpties DEF InitDefault, script
  <2>3. udpTransport' \in BOOLEAN
    BY <1>0, <2>1, InitInternalType
  <2>4. StaticsTyped
    BY <1>0, <1>1, <2>3 DEF InitDefault, StaticsTyped, TypeOK, script
  <2>5. QED  BY <2>2, <2>4 DEF StepClass
<1>2. CASE InitArray(service)
  <2>0. PICK settings \in ArraySettings :
            /\ InitInternal(service, settings)
            /\ userSettings' = [given |-> TRUE, service |-> service,
                                reporter |-> settings.reporter]
            /\ UNCHANGED <<headerFlag, singleExtCall, span, script, crashed>>
    BY <1>2 DEF InitArray
  <2>1. settings \in SettingsType
    BY <1>0, SettingsTypes
  <2>2. Emptied
    BY <1>0, <2>0, <2>1, InitInternalEmpties DEF script
  <2>3. udpTransport' \in BOOLEAN
    BY <1>0, <2>0, <2>1, InitInternalType
  <2>4. settings.reporter \in {"udp", "file"}
    BY <2>1 DEF SettingsType
  <2>5. StaticsTyped
    BY <1>0, <2>0, <2>3, <2>4 DEF StaticsTyped, TypeOK, script
  <2>6. QED  BY <2>2, <2>5 DEF StepClass
<1>3. CASE InitOther(service)
  <2>1. InitInternal(service, NullSettings) /\ NullSettings \in SettingsType
    BY <1>0, <1>3, SettingsTypes DEF InitOther
  <2>2. Emptied
    BY <1>0, <1>3, <2>1, InitInternalEmpties DEF InitOther, script
  <2>3. udpTransport' \in BOOLEAN
    BY <1>0, <2>1, InitInternalType
  <2>4. StaticsTyped
    BY <1>0, <1>3, <2>3 DEF InitOther, StaticsTyped, TypeOK, script
  <2>5. QED  BY <2>2, <2>4 DEF StepClass
<1>4. QED  BY <1>1, <1>2, <1>3

\* A new span of a tracer that inherits from its trace.
LEMMA NewSpanGrows ==
    ASSUME Inv, NEW s \in SpanIds, NEW c \in ContextType, NEW t \in TracerType,
           NewSpan(t, s, c), ~c.ended, Inherits(s, c), t.kind = "jaeger",
           \/ t = tracer /\ reports' = reports
           \/ /\ t.spans = {} /\ t.active = <<>>
              /\ Reporting
    PROVE  Grown
BY DEF NewSpan, Grown

\* A child has the trace and the sampling of its parent.
LEMMA ChildInherits ==
    ASSUME Inv, NEW s, NEW p \in Made
    PROVE  /\ ChildContext(p) \in ContextType /\ ~ChildContext(p).ended
           /\ Inherits(s, ChildContext(p))
<1>1. ChildContext(p) \in ContextType
  BY ChildContextType DEF Inv
<1>2. /\ ChildContext(p).trace = span[p].trace /\ ChildContext(p).flags = span[p].flags
      /\ ~ChildContext(p).ended
  BY DEF ChildContext, Context
<1>3. QED  BY <1>1, <1>2 DEF Inherits

\* A start adds one span, to the tracer or to a new one, or changes no span.
LEMMA StartClass ==
    ASSUME Inv, NEW s \in SpanIds, Start(s)
    PROVE  StepClass /\ StaticsTyped
<1>0. TypeOK /\ tracer \in TracerType
  BY DEF Inv, TypeOK
<1>1. CASE StartRoot(s)
  <2>1. PICK f \in RootFlags(tracer.percents) : NewSpan(tracer, s, Context(s, None, f))
    BY <1>1 DEF StartRoot
  <2>2. Context(s, None, f) \in ContextType
    BY <1>0, RootFlagsType, ContextIsType
  <2>3. ~Context(s, None, f).ended /\ Inherits(s, Context(s, None, f))
    BY DEF Context, Inherits
  <2>4. Grown
    BY <1>0, <1>1, <2>1, <2>2, <2>3, NewSpanGrows DEF StartRoot, IsJaeger
  <2>5. StaticsTyped
    BY <1>0, <1>1 DEF StartRoot, StaticsTyped, TypeOK, statics
  <2>6. QED  BY <2>4, <2>5 DEF StepClass
<1>2. ASSUME NEW p \in SpanIds, StartChild(s, p)
      PROVE  StepClass /\ StaticsTyped
  <2>1. p \in Made
    BY <1>2 DEF StartChild, Inv, Stored
  <2>2. /\ ChildContext(p) \in ContextType /\ ~ChildContext(p).ended
        /\ Inherits(s, ChildContext(p))
    BY <2>1, ChildInherits
  <2>3. Grown
    BY <1>0, <1>2, <2>2, NewSpanGrows DEF StartChild, IsJaeger
  <2>4. StaticsTyped
    BY <1>0, <1>2 DEF StartChild, StaticsTyped, TypeOK, statics
  <2>5. QED  BY <2>3, <2>4 DEF StepClass
<1>3. ASSUME NEW f \in Flags, StartRemote(s, f)
      PROVE  StepClass /\ StaticsTyped
  <2>1. f \in Nat
    BY WorkerAssumption, Zenon DEF WorkerAssumption
  <2>2. Context(Remote, Remote, f) \in ContextType
    BY <2>1, ContextIsType
  <2>3. ~Context(Remote, Remote, f).ended /\ Inherits(s, Context(Remote, Remote, f))
    BY DEF Context, Inherits
  <2>4. Grown
    BY <1>0, <1>3, <2>2, <2>3, NewSpanGrows DEF StartRemote, IsJaeger
  <2>5. StaticsTyped
    BY <1>0, <1>3 DEF StartRemote, StaticsTyped, TypeOK, statics
  <2>6. QED  BY <2>4, <2>5 DEF StepClass
<1>4. CASE ExternalInTrace(s)
  <2> DEFINE p == tracer.active[Len(tracer.active)]
  <2>1. p \in Made
    BY <1>4, CurrentSpanMade DEF ExternalInTrace
  <2>2. /\ ChildContext(p) \in ContextType /\ ~ChildContext(p).ended
        /\ Inherits(s, ChildContext(p))
    BY <2>1, ChildInherits
  <2>3. Grown
    BY <1>0, <1>4, <2>2, NewSpanGrows DEF ExternalInTrace, IsJaeger
  <2>4. StaticsTyped
    BY <1>0, <1>4 DEF ExternalInTrace, StaticsTyped, TypeOK
  <2>5. QED  BY <2>3, <2>4 DEF StepClass
<1>5. CASE ExternalAlone(s)
  <2> DEFINE t == NewTracer("jaeger", External, CurlSettings.reporter, CurlSettings.percents)
  <2>1. t \in TracerType
    <3>1. ASSUME NEW sv \in Services \cup {External}, NEW r \in {"udp", "file"}, NEW n \in 0..100
          PROVE  NewTracer("jaeger", sv, r, n) \in TracerType
      BY NewTracerProperties
    <3>2. CurlSettings.reporter \in {"udp", "file"} /\ CurlSettings.percents \in 0..100
      BY <1>0, SettingsTypes DEF SettingsType
    <3>3. QED  BY <3>1, <3>2
  <2>2. t.kind = "jaeger" /\ t.spans = {} /\ t.active = <<>>
    BY DEF NewTracer
  <2>3. CurlSettings.udp \in BOOLEAN
    BY <1>0, SettingsTypes DEF SettingsType
  <2>4. PICK f \in RootFlags(t.percents) : NewSpan(t, s, Context(s, None, f))
    BY <1>5 DEF ExternalAlone
  <2>5. Context(s, None, f) \in ContextType
    BY <1>0, RootFlagsType, ContextIsType
  <2>6. ~Context(s, None, f).ended /\ Inherits(s, Context(s, None, f))
    BY DEF Context, Inherits
  <2>7. Reporting
    BY <1>5, <2>3 DEF ExternalAlone, Reporting
  <2> HIDE DEF t
  <2>8. Grown
    BY <2>1, <2>2, <2>4, <2>5, <2>6, <2>7, NewSpanGrows
  <2>9. StaticsTyped
    BY <1>0, <1>5, <2>3 DEF ExternalAlone, StaticsTyped, TypeOK
  <2>10. QED  BY <2>8, <2>9 DEF StepClass
<1>6. QED  BY <1>1, <1>2, <1>3, <1>4, <1>5 DEF Start

\* The end of an external call restores the settings and empties the tracer.
LEMMA RestoreClass ==
    ASSUME Inv, InitInternal(userSettings.service, CurlSettings), singleExtCall' = FALSE,
           span' = span \/ \E s \in handles : span' = [span EXCEPT ![s].ended = TRUE],
           UNCHANGED <<headerFlag, userSettings, script, crashed>>
    PROVE  StepClass /\ StaticsTyped
<1>0. TypeOK
  BY DEF Inv
<1>1. userSettings.service \in Services \cup {External} /\ CurlSettings \in SettingsType
  BY <1>0, SettingsTypes DEF TypeOK
<1>2. Emptied
  BY <1>0, <1>1, InitInternalEmpties DEF script
<1>3. udpTransport' \in BOOLEAN
  BY <1>0, <1>1, InitInternalType
<1>4. StaticsTyped
  BY <1>0, <1>3 DEF StaticsTyped, TypeOK, script
<1>5. QED  BY <1>2, <1>4 DEF StepClass

\* finishSpan ends a span of the tracer, or ends an external call.
LEMMA FinishClass ==
    ASSUME Inv, NEW s \in SpanIds, FinishSpan(s)
    PROVE  StepClass /\ StaticsTyped
<1>0. TypeOK /\ s \in handles
  BY DEF Inv, FinishSpan
<1>1. span' = IF IsJaeger THEN [span EXCEPT ![s].ended = TRUE] ELSE span
  BY DEF FinishSpan
<1>2. CASE singleExtCall /\ userSettings.given
  <2>1. span' = span \/ \E h \in handles : span' = [span EXCEPT ![h].ended = TRUE]
    BY <1>0, <1>1
  <2>2. QED  BY <1>2, <2>1, RestoreClass DEF FinishSpan
<1>3. CASE ~(singleExtCall /\ userSettings.given)
  <2>1. /\ tracer' = IF IsJaeger THEN [tracer EXCEPT !.active = RemoveFirst(@, s)] ELSE tracer
        /\ UNCHANGED <<udpTransport, singleExtCall, reports, headerFlag, userSettings,
                       handles, noopHandle, contexts, crashed>>
    BY <1>3 DEF FinishSpan, script
  <2>2. Finished \/ Kept
    BY <1>0, <1>1, <2>1 DEF Finished, Kept
  <2>3. StaticsTyped
    BY <1>0, <2>1 DEF StaticsTyped, TypeOK
  <2>4. QED  BY <2>2, <2>3 DEF StepClass
<1>4. QED  BY <1>2, <1>3

\* A flush of the script is a step of one of the four kinds.
LEMMA FlushClass ==
    ASSUME Inv, Flush
    PROVE  StepClass /\ StaticsTyped
<1>0. TypeOK /\ udpTransport \in BOOLEAN /\ tracer \in TracerType
  BY DEF Inv, TypeOK
<1>1. StaticsTyped
  BY <1>0 DEF Flush, StaticsTyped, TypeOK, statics, script
<1>2. CASE FlushRuns(tracer, udpTransport)
  <2>1. /\ tracer' \in TracerType /\ tracer'.spans = {} /\ tracer'.active = <<>>
        /\ reports' = AfterFlush(reports, tracer, udpTransport)
    BY <1>0, <1>2, FlushedProperties DEF Flush
  <2>2. Emptied
    BY <1>0, <2>1 DEF Emptied, Reporting, Flush, statics, script
  <2>3. QED  BY <1>1, <2>2 DEF StepClass
<1>3. CASE ~FlushRuns(tracer, udpTransport)
  <2>1. tracer' = tracer
    BY <1>0, <1>3, FlushedProperties DEF Flush
  <2>2. reports' = reports
    BY <1>0, <1>3 DEF Flush, AfterFlush, TypeOK
  <2>3. Kept
    BY <2>1, <2>2 DEF Kept, Flush, script
  <2>4. QED  BY <1>1, <2>3 DEF StepClass
<1>4. QED  BY <1>2, <1>3

\* The end of a request is a step of one of the four kinds.
LEMMA OnIdleClass ==
    ASSUME Inv, OnIdle
    PROVE  StepClass /\ StaticsTyped
<1>0. TypeOK /\ udpTransport \in BOOLEAN
  BY DEF Inv, TypeOK
<1>1. reports' = AfterFlush(reports, tracer, udpTransport)
  BY <1>0, FlushTwice DEF OnIdle
<1>2. Emptied
  BY <1>0, <1>1, IdleTracers DEF OnIdle, Emptied, Reporting, statics
<1>3. StaticsTyped
  BY <1>0 DEF OnIdle, StaticsTyped, TypeOK, statics
<1>4. QED  BY <1>2, <1>3 DEF StepClass

\* The start of a new process is a step of one of the four kinds.
LEMMA RespawnClass ==
    ASSUME Inv, Respawn
    PROVE  StepClass /\ StaticsTyped
<1>0. TypeOK /\ reports = AfterFlush(reports, tracer, FALSE)
  BY NoFlush DEF Inv
<1>1. Emptied
  BY <1>0, IdleTracers DEF Respawn, Emptied, Reporting
<1>2. StaticsTyped
  BY <1>0 DEF Respawn, NoUserSettings, StaticsTyped, TypeOK
<1>3. QED  BY <1>1, <1>2 DEF StepClass

\* Every step keeps the spans, ends one, empties the tracer or adds one.
LEMMA StepClasses ==
    ASSUME Inv, [Next]_vars
    PROVE  StepClass /\ StaticsTyped
<1>0. TypeOK
  BY DEF Inv
<1>1. CASE GetNoopSpan \/ UseNoopSpan \/ ExtractNoNumber
  <2>1. Kept
    BY <1>1 DEF GetNoopSpan, UseNoopSpan, ExtractNoNumber, Kept, script
  <2>2. StaticsTyped
    BY <1>0, <1>1 DEF GetNoopSpan, UseNoopSpan, ExtractNoNumber, StaticsTyped, TypeOK, statics, script
  <2>3. QED  BY <2>1, <2>2 DEF StepClass
<1>2. CASE ExternalNoop
  <2>1. Kept
    BY <1>2 DEF ExternalNoop, Kept
  <2>2. StaticsTyped
    BY <1>0, <1>2 DEF ExternalNoop, StaticsTyped, TypeOK
  <2>3. QED  BY <2>1, <2>2 DEF StepClass
<1>3. CASE FinishNoopSpan
  BY <1>3, RestoreClass DEF FinishNoopSpan
<1>4. ASSUME NEW f \in Flags,
             ExtractArray(f, TRUE) \/ ExtractArray(f, FALSE) \/ ExtractString(f)
      PROVE  StepClass /\ StaticsTyped
  <2>1. f \in Nat
    BY WorkerAssumption, Zenon DEF WorkerAssumption
  <2>2. Kept
    BY <1>4 DEF ExtractArray, ExtractString, Kept, statics
  <2>3. StaticsTyped
    BY <1>0, <1>4, <2>1 DEF ExtractArray, ExtractString, StaticsTyped, TypeOK, statics
  <2>4. QED  BY <2>2, <2>3 DEF StepClass
<1>5. CASE UNCHANGED vars
  <2>1. Kept
    BY <1>5 DEF vars, script, Kept
  <2>2. StaticsTyped
    BY <1>0, <1>5 DEF vars, statics, script, StaticsTyped, TypeOK
  <2>3. QED  BY <2>1, <2>2 DEF StepClass
<1>6. QED
  BY <1>1, <1>2, <1>3, <1>4, <1>5, InitClass, StartClass, FinishClass, FlushClass,
     OnIdleClass, RespawnClass DEF Next, Call

-----------------------------------------------------------------------------
(* Each of the four preserves Inv. *)

\* No span loses its place, its trace or its decision.
SameSpans ==
    /\ span' \in [SpanIds -> ContextType \cup {NoSpan}]
    /\ Made' = Made
    /\ \A p \in Made : span'[p].trace = span[p].trace /\ span'[p].flags = span[p].flags

\* The end of a span leaves its trace and its sampling.
LEMMA EndKeepsSpans ==
    ASSUME Inv,
           span' = span \/ \E s \in handles : span' = [span EXCEPT ![s].ended = TRUE]
    PROVE  SameSpans
<1>1. CASE span' = span
  BY <1>1 DEF Inv, TypeOK, SameSpans, Made
<1>2. ASSUME NEW s \in handles, span' = [span EXCEPT ![s].ended = TRUE]
      PROVE  SameSpans
  <2>1. s \in Made /\ s \in SpanIds /\ span[s] \in ContextType
    BY <1>2, MadeType DEF Inv, Stored
  <2>2. [span[s] EXCEPT !.ended = TRUE] \in ContextType
    BY <2>1 DEF ContextType
  <2>3. span \in [SpanIds -> ContextType \cup {NoSpan}]
    BY DEF Inv, TypeOK
  <2>4. span'[s] = [span[s] EXCEPT !.ended = TRUE] /\ \A p \in SpanIds \ {s} : span'[p] = span[p]
    BY <1>2, <2>1, <2>3
  <2>5. NoSpan \notin ContextType
    BY WorkerAssumption, Zenon DEF WorkerAssumption
  <2>6. span' \in [SpanIds -> ContextType \cup {NoSpan}]
    BY <1>2, <2>1, <2>2, <2>3
  <2>7. span'[s] # NoSpan /\ span[s] # NoSpan
    BY <2>1, <2>2, <2>4, <2>5
  <2>8. Made' = Made
    BY <2>4, <2>7 DEF Made
  <2>9. /\ span'[s].trace = span[s].trace /\ span'[s].flags = span[s].flags
    BY <2>1, <2>4 DEF ContextType
  <2>10. QED  BY <2>4, <2>6, <2>8, <2>9 DEF SameSpans, Made
<1>3. QED  BY <1>1, <1>2

\* The decisions about traces stay with the spans.
LEMMA SameDecisions ==
    ASSUME Inv, SameSpans
    PROVE  /\ OneDecisionPerTrace'
           /\ \A s \in Made : Reportable(s)' <=> Reportable(s)
<1>1. \A s \in Made : Reportable(s)' <=> Reportable(s)
  BY DEF SameSpans, Reportable, IsDebug, IsSampled
<1>2. OneDecisionPerTrace'
  BY DEF Inv, OneDecisionPerTrace, SameSpans
<1>3. QED  BY <1>1, <1>2

\* A step that keeps spans and tracer keeps the invariant.
LEMMA KeptPreserves ==
    ASSUME Inv, Kept, StaticsTyped
    PROVE  Inv'
<1>1. TypeOK'
  BY DEF Inv, Kept, StaticsTyped, TypeOK
<1>2. Stored'
  BY DEF Inv, Kept, Stored, IsJaeger, Made
<1>3. ActiveSpansStored'
  BY DEF Inv, Kept, ActiveSpansStored
<1>4. SampledSpanMarksTracer' /\ ReportedOnce' /\ OneDecisionPerTrace'
  BY DEF Inv, Kept, SampledSpanMarksTracer, ReportedOnce, OneDecisionPerTrace,
         Made, Reportable, IsDebug, IsSampled
<1>5. QED  BY <1>1, <1>2, <1>3, <1>4 DEF Inv

\* A step that empties the tracer keeps the invariant.
LEMMA EmptiedPreserves ==
    ASSUME Inv, Emptied, StaticsTyped
    PROVE  Inv'
<1>0. /\ tracer' \in TracerType /\ tracer'.spans = {} /\ tracer'.active = <<>>
      /\ handles' \subseteq handles
  BY DEF Emptied
<1>1. PICK udp \in BOOLEAN : reports' = AfterFlush(reports, tracer, udp)
  BY DEF Emptied, Reporting
<1>2. SameSpans
  BY EndKeepsSpans DEF Emptied
<1>3. TypeOK'
  <2>1. reports' \in [SpanIds -> Nat]
    BY <1>1, AfterFlushType DEF Inv, TypeOK
  <2>2. handles' \in SUBSET SpanIds
    BY <1>0 DEF Inv, TypeOK
  <2>3. QED  BY <1>0, <1>2, <2>1, <2>2 DEF TypeOK, StaticsTyped, SameSpans
<1>4. Stored'
  BY <1>0, <1>2 DEF Inv, Stored, SameSpans
<1>5. ActiveSpansStored'
  BY <1>0 DEF ActiveSpansStored
<1>6. SampledSpanMarksTracer'
  BY <1>0 DEF SampledSpanMarksTracer
<1>7. ReportedOnce'
  <2> SUFFICES ASSUME NEW s \in SpanIds
               PROVE  /\ reports'[s] <= 1
                      /\ reports'[s] = 1 => s \in Made' /\ s \notin tracer'.spans /\ Reportable(s)'
    BY DEF ReportedOnce
  <2>1. /\ reports[s] \in Nat /\ reports[s] <= 1
        /\ reports[s] = 1 => s \in Made /\ s \notin tracer.spans /\ Reportable(s)
    BY DEF Inv, TypeOK, ReportedOnce
  <2>2. \/ reports'[s] = reports[s]
        \/ reports'[s] = reports[s] + 1 /\ s \in tracer.spans /\ Reportable(s)
    BY <1>1 DEF AfterFlush
  <2>3. tracer.spans \subseteq Made /\ Made' = Made
    BY <1>2 DEF Inv, Stored, SameSpans
  <2>4. s \in Made => (Reportable(s)' <=> Reportable(s))
    BY <1>2, SameDecisions
  <2>5. CASE reports'[s] = reports[s]
    BY <1>0, <2>1, <2>3, <2>4, <2>5
  <2>6. CASE reports'[s] = reports[s] + 1 /\ s \in tracer.spans /\ Reportable(s)
    <3>1. reports[s] = 0
      BY <2>1, <2>6
    <3>2. QED  BY <1>0, <3>1, <2>3, <2>4, <2>6
  <2>7. QED  BY <2>2, <2>5, <2>6
<1>8. OneDecisionPerTrace'
  BY <1>2, SameDecisions
<1>9. QED  BY <1>3, <1>4, <1>5, <1>6, <1>7, <1>8 DEF Inv

\* A step that ends spans keeps the invariant.
LEMMA FinishedPreserves ==
    ASSUME Inv, Finished, StaticsTyped
    PROVE  Inv'
<1>0. PICK s \in handles :
          /\ span' = [span EXCEPT ![s].ended = TRUE]
          /\ tracer' = [tracer EXCEPT !.active = RemoveFirst(@, s)]
  BY DEF Finished
<1> DEFINE q == tracer.active
<1>1. /\ tracer \in TracerType /\ q \in Seq(SpanIds) /\ Distinct(q)
      /\ s \in SpanIds /\ s \in Made
  BY DEF Inv, TypeOK, TracerType, ActiveSpansStored, Distinct, Stored
<1>2. SameSpans
  BY <1>0, EndKeepsSpans
<1>3. /\ RemoveFirst(q, s) \in Seq(SpanIds)
      /\ Distinct(RemoveFirst(q, s))
      /\ \A p \in SpanIds :
            (\E i \in DOMAIN RemoveFirst(q, s) : RemoveFirst(q, s)[i] = p)
                <=> p # s /\ (\E i \in DOMAIN q : q[i] = p)
  BY <1>1, RemoveFirstProperties
<1>4. /\ tracer' \in TracerType
      /\ tracer'.active = RemoveFirst(q, s)
      /\ tracer'.spans = tracer.spans /\ tracer'.isSampled = tracer.isSampled
      /\ tracer'.kind = tracer.kind
  BY <1>0, <1>1, <1>3 DEF TracerType
<1>5. /\ span'[s].ended
      /\ \A p \in SpanIds \ {s} : span'[p] = span[p]
  <2>1. span \in [SpanIds -> ContextType \cup {NoSpan}] /\ span[s] \in ContextType
    BY <1>1, MadeType DEF Inv, TypeOK
  <2>2. span'[s] = [span[s] EXCEPT !.ended = TRUE]
    BY <1>0, <1>1, <2>1
  <2>3. QED  BY <1>0, <1>1, <2>1, <2>2 DEF ContextType
<1>6. reports' = reports /\ handles' \subseteq handles /\ IsJaeger
  BY DEF Finished
<1> HIDE DEF q
<1>7. TypeOK'
  BY <1>2, <1>4, <1>6 DEF Inv, TypeOK, StaticsTyped, SameSpans
<1>8. Stored'
  BY <1>2, <1>4, <1>6 DEF Inv, Stored, SameSpans, IsJaeger
<1>9. ActiveSpansStored'
  <2>1. \A i, j \in DOMAIN tracer'.active : tracer'.active[i] = tracer'.active[j] => i = j
    BY <1>3, <1>4 DEF Distinct
  <2>2. ASSUME NEW p \in SpanIds
        PROVE  (\E i \in DOMAIN tracer'.active : tracer'.active[i] = p)
                 <=> p \in tracer'.spans /\ ~span'[p].ended
    <3>1. (\E i \in DOMAIN q : q[i] = p) <=> p \in tracer.spans /\ ~span[p].ended
      BY DEF Inv, ActiveSpansStored, q
    <3>2. CASE p = s
      BY <3>2, <1>3, <1>4, <1>5
    <3>3. CASE p # s
      BY <3>1, <3>3, <1>3, <1>4, <1>5
    <3>4. QED  BY <3>2, <3>3
  <2>3. QED  BY <2>1, <2>2 DEF ActiveSpansStored
<1>10. tracer.spans \subseteq Made /\ \A p \in Made : Reportable(p)' <=> Reportable(p)
  BY <1>2, SameDecisions DEF Inv, Stored
<1>11. SampledSpanMarksTracer'
  BY <1>4, <1>10 DEF Inv, SampledSpanMarksTracer
<1>12. ReportedOnce'
  BY <1>2, <1>4, <1>6, <1>10 DEF Inv, ReportedOnce, SameSpans
<1>13. OneDecisionPerTrace'
  BY <1>2, SameDecisions
<1>14. QED  BY <1>7, <1>8, <1>9, <1>11, <1>12, <1>13 DEF Inv

\* A step that adds a span keeps the invariant.
LEMMA GrownPreserves ==
    ASSUME Inv, Grown, StaticsTyped
    PROVE  Inv'
<1>0. PICK s \in SpanIds, c \in ContextType, t \in TracerType :
        /\ span[s] = NoSpan /\ ~c.ended /\ Inherits(s, c)
        /\ span' = [span EXCEPT ![s] = c]
        /\ tracer' = Started(t, s, c.flags)
        /\ t.kind = "jaeger"
        /\ \/ t = tracer /\ reports' = reports
           \/ /\ t.spans = {} /\ t.active = <<>>
              /\ Reporting
        /\ handles' = handles \cup {s}
  BY DEF Grown
<1>1. /\ span \in [SpanIds -> ContextType \cup {NoSpan}] /\ s \notin Made
      /\ NoSpan \notin ContextType /\ tracer \in TracerType
  BY <1>0, WorkerAssumption, Zenon DEF Inv, TypeOK, Made, WorkerAssumption
<1>2. /\ span' \in [SpanIds -> ContextType \cup {NoSpan}]
      /\ span'[s] = c /\ \A p \in SpanIds \ {s} : span'[p] = span[p]
  BY <1>0, <1>1
<1>3. Made' = Made \cup {s}
  BY <1>1, <1>2 DEF Made
<1>4. /\ tracer' \in TracerType /\ tracer'.spans = t.spans \cup {s}
      /\ tracer'.active = Append(t.active, s) /\ tracer'.kind = "jaeger"
      /\ tracer'.isSampled = (t.isSampled \/ Bit(c.flags, 1) \/ Bit(c.flags, 2))
  BY <1>0, StartedProperties
<1>5. \* t stores what was made before, and only what is not finished is active
      /\ t.spans \subseteq Made
      /\ Distinct(t.active)
      /\ \A p \in SpanIds : (\E i \in DOMAIN t.active : t.active[i] = p)
                                <=> p \in t.spans /\ ~span[p].ended
      /\ (\E p \in t.spans : Reportable(p)) => t.isSampled
  <2>1. CASE t = tracer
    BY <2>1 DEF Inv, Stored, ActiveSpansStored, Distinct, SampledSpanMarksTracer
  <2>2. CASE t.spans = {} /\ t.active = <<>>
    BY <2>2 DEF Distinct
  <2>3. QED  BY <1>0, <2>1, <2>2
<1>6. TypeOK'
  <2>1. reports' \in [SpanIds -> Nat]
    BY <1>0, AfterFlushType DEF Inv, TypeOK, Reporting
  <2>2. handles' \in SUBSET SpanIds
    BY <1>0 DEF Inv, TypeOK
  <2>3. QED  BY <1>2, <1>4, <2>1, <2>2 DEF TypeOK, StaticsTyped
<1>7. Stored'
  BY <1>0, <1>3, <1>4, <1>5 DEF Inv, Stored, IsJaeger
<1>8. ActiveSpansStored'
  <2>1. /\ t.active \in Seq(SpanIds) /\ Len(t.active) \in Nat
        /\ DOMAIN Append(t.active, s) = 1..(Len(t.active) + 1)
        /\ \A i \in 1..Len(t.active) : Append(t.active, s)[i] = t.active[i]
        /\ Append(t.active, s)[Len(t.active) + 1] = s
        /\ DOMAIN t.active = 1..Len(t.active)
    BY AppendProperties DEF TracerType
  <2>2. s \notin t.spans
    BY <1>1, <1>5
  <2>3. \A i \in DOMAIN t.active : t.active[i] # s
    BY <1>5, <2>2
  <2>4. Distinct(Append(t.active, s))
    BY <1>5, <2>1, <2>3 DEF Distinct
  <2>5. ASSUME NEW p \in SpanIds
        PROVE  (\E i \in DOMAIN Append(t.active, s) : Append(t.active, s)[i] = p)
                 <=> p \in t.spans \cup {s} /\ ~span'[p].ended
    <3>1. CASE p = s
      BY <1>0, <1>2, <2>1, <3>1
    <3>2. CASE p # s
      <4>1. (\E i \in DOMAIN Append(t.active, s) : Append(t.active, s)[i] = p)
              <=> (\E i \in DOMAIN t.active : t.active[i] = p)
        BY <2>1, <3>2
      <4>2. QED  BY <1>2, <1>5, <3>2, <4>1
    <3>3. QED  BY <3>1, <3>2
  <2>6. QED  BY <1>4, <2>4, <2>5 DEF ActiveSpansStored, Distinct
<1>9. /\ Reportable(s)' => Bit(c.flags, 1) \/ Bit(c.flags, 2)
      /\ \A p \in SpanIds \ {s} : Reportable(p)' <=> Reportable(p)
  BY <1>2 DEF Reportable, IsDebug, IsSampled
<1>10. SampledSpanMarksTracer'
  BY <1>4, <1>5, <1>9 DEF SampledSpanMarksTracer, Made
<1>11. ReportedOnce'
  <2> SUFFICES ASSUME NEW p \in SpanIds
               PROVE  /\ reports'[p] <= 1
                      /\ reports'[p] = 1 => p \in Made' /\ p \notin tracer'.spans /\ Reportable(p)'
    BY DEF ReportedOnce
  <2>1. /\ reports[p] \in Nat /\ reports[p] <= 1
        /\ reports[p] = 1 => p \in Made /\ p \notin tracer.spans /\ Reportable(p)
    BY DEF Inv, TypeOK, ReportedOnce
  <2>2. CASE t = tracer /\ reports' = reports
    BY <2>1, <2>2, <1>1, <1>3, <1>4, <1>9
  <2>3. CASE t.spans = {} /\ Reporting
    <3>1. \/ reports'[p] = reports[p]
          \/ reports'[p] = reports[p] + 1 /\ p \in tracer.spans /\ Reportable(p)
      BY <2>3 DEF AfterFlush, Reporting
    <3>2. tracer.spans \subseteq Made
      BY DEF Inv, Stored
    <3>3. CASE reports'[p] = reports[p]
      BY <3>3, <2>1, <2>3, <1>1, <1>3, <1>4, <1>9
    <3>4. CASE reports'[p] = reports[p] + 1 /\ p \in tracer.spans /\ Reportable(p)
      <4>1. reports[p] = 0
        BY <2>1, <3>4
      <4>2. QED  BY <4>1, <3>2, <3>4, <2>3, <1>1, <1>3, <1>4, <1>9
    <3>5. QED  BY <3>1, <3>3, <3>4
  <2>4. QED  BY <1>0, <2>2, <2>3
<1>12. OneDecisionPerTrace'
  <2> SUFFICES ASSUME NEW p \in Made', span'[p].trace # Remote
               PROVE  /\ span'[p].trace \in Made'
                      /\ span'[p].flags = span'[span'[p].trace].flags
    BY DEF OneDecisionPerTrace
  <2>1. ASSUME NEW r \in Made, span[r].trace # Remote
        PROVE  /\ span[r].trace \in Made /\ span[r].trace # s /\ span[r].trace \in SpanIds
               /\ span[r].flags = span[span[r].trace].flags
    BY <1>1, <2>1 DEF Inv, OneDecisionPerTrace, Made
  <2>2. CASE p # s
    BY <1>2, <1>3, <2>1, <2>2 DEF Made
  <2>3. CASE p = s
    <3>1. CASE c.trace = s
      BY <1>2, <1>3, <2>3, <3>1
    <3>2. ASSUME NEW r \in Made, c.trace = span[r].trace, c.flags = span[r].flags
          PROVE  /\ span'[p].trace \in Made' /\ span'[p].flags = span'[span'[p].trace].flags
      BY <1>2, <1>3, <2>1, <2>3, <3>2
    <3>3. QED  BY <1>0, <1>2, <2>3, <3>1, <3>2 DEF Inherits
  <2>4. QED  BY <2>2, <2>3
<1>13. QED  BY <1>6, <1>7, <1>8, <1>10, <1>11, <1>12 DEF Inv

-----------------------------------------------------------------------------

\* A new process has no spans.
LEMMA InitInv == Init => Inv
<1> SUFFICES ASSUME Init PROVE Inv
  OBVIOUS
<1>1. Made = {}
  BY DEF Init, Made
<1>2. tracer \in TracerType /\ tracer.spans = {} /\ tracer.active = <<>>
  BY IdleTracers DEF Init
<1>3. TypeOK
  BY <1>2 DEF Init, TypeOK, NoUserSettings
<1>4. Stored
  BY <1>2 DEF Init, Stored
<1>5. ActiveSpansStored /\ SampledSpanMarksTracer
  BY <1>2 DEF ActiveSpansStored, SampledSpanMarksTracer
<1>6. ReportedOnce /\ OneDecisionPerTrace
  BY <1>1 DEF Init, ReportedOnce, OneDecisionPerTrace
<1>7. QED  BY <1>3, <1>4, <1>5, <1>6 DEF Inv

\* Inv is inductive.
THEOREM WorkerInvariant == Spec => []Inv
<1>1. Inv /\ [Next]_vars => Inv'
  BY StepClasses, KeptPreserves, FinishedPreserves, EmptiedPreserves, GrownPreserves
  DEF StepClass
<1>2. QED  BY InitInv, <1>1, PTL DEF Spec

\* The values of the statics, the tracer and the spans keep their types.
THEOREM WorkerTypeCorrect == Spec => []TypeOK
BY WorkerInvariant, PTL DEF Inv

\* Whatever is finished, flushed or re-initialized in whatever order, an active
\* id always has a span: getCurrentSpan and flush never meet a null one.
THEOREM CurrentSpanIsStored == Spec => []ActiveSpansStored
BY WorkerInvariant, PTL DEF Inv

\* No sampled span sits in a tracer whose flush would leave at once.
THEOREM SampledTracerFlushes == Spec => []SampledSpanMarksTracer
BY WorkerInvariant, PTL DEF Inv

\* flush, ~JaegerTracer and onIdle never report a span twice, or one that is
\* not sampled.
THEOREM NoSpanReportedTwice == Spec => []ReportedOnce
BY WorkerInvariant, PTL DEF Inv

\* A trace that starts in this process has one sampling decision.
THEOREM TraceDecidedOnce == Spec => []OneDecisionPerTrace
BY WorkerInvariant, PTL DEF Inv

-----------------------------------------------------------------------------
(* What a flush takes from a tracer, it reports. *)

\* A flush over UDP reports a span that can be reported once.
LEMMA FlushReports ==
    ASSUME Inv, Reporting, udpTransport', ~crashed, tracer.reporter = "udp",
           NEW s \in tracer.spans, Reportable(s)
    PROVE  reports'[s] = 1
<1>1. PICK udp \in BOOLEAN : reports' = AfterFlush(reports, tracer, udp) /\ udp
  BY DEF Reporting
<1>2. s \in SpanIds /\ tracer.kind = "jaeger" /\ tracer.isSampled
  BY DEF Inv, Stored, Made, IsJaeger, SampledSpanMarksTracer
<1>3. reports[s] = 0
  BY <1>2 DEF Inv, ReportedOnce, TypeOK
<1>4. QED  BY <1>1, <1>2, <1>3 DEF AfterFlush, FlushRuns

\* Spans leave the tracer by the reporter only.
LEMMA StepLosesNothing ==
    ASSUME Inv, StepClass, udpTransport'
    PROVE  LeavesByReporter
<1> SUFFICES ASSUME NEW s \in tracer.spans \ tracer'.spans,
                    Reportable(s), tracer.reporter = "udp", ~crashed
             PROVE  reports'[s] = 1
  BY DEF LeavesByReporter
<1>1. CASE Kept
  BY <1>1 DEF Kept
<1>2. CASE Finished
  BY <1>2 DEF Finished, Inv, TypeOK, TracerType
<1>3. CASE Emptied
  BY <1>3, FlushReports DEF Emptied
<1>4. CASE Grown
  <2>1. PICK r \in SpanIds, c \in ContextType, t \in TracerType :
            /\ tracer' = Started(t, r, c.flags)
            /\ t = tracer \/ Reporting
    BY <1>4 DEF Grown
  <2>2. t # tracer
    BY <2>1, StartedProperties
  <2>3. QED  BY <2>1, <2>2, FlushReports
<1>5. QED  BY <1>1, <1>2, <1>3, <1>4 DEF StepClass

\* However many calls flush, replace or forget a tracer: none of them takes a
\* sampled span from a UDP tracer without reporting it, unless it switches the
\* transport off or the process is gone.
THEOREM NothingLostSilently == Spec => NoSilentLoss
<1>1. Inv /\ [Next]_vars => [udpTransport' => LeavesByReporter]_vars
  BY StepClasses, StepLosesNothing
<1>2. QED  BY WorkerInvariant, <1>1, PTL DEF Spec, NoSilentLoss

-----------------------------------------------------------------------------
(* The refinement of SpanLifecycle. *)

\* The abstract specification, in the state of the worker.
LEMMA LifecycleNames ==
    /\ Lifecycle!Init <=> Life = [s \in SpanIds |-> "new"]
    /\ Lifecycle!Spec <=> Lifecycle!Init /\ [][Lifecycle!Move]_Life
BY DEF Lifecycle!Init, Lifecycle!Spec

\* Where a span is, by what is known of it.
Stage(s) ==
    IF s \notin Made THEN "new"
    ELSE IF reports[s] > 0 THEN "reported"
    ELSE IF s \notin tracer.spans THEN "dropped"
    ELSE IF span[s].ended THEN "ended" ELSE "open"

\* The stages of the spans, one by one.
LEMMA LifeIsStage ==
    ASSUME Inv
    PROVE  Life = [s \in SpanIds |-> Stage(s)]
<1>1. ASSUME NEW s \in SpanIds
      PROVE  (CASE s \notin Made -> "new"
                [] s \in Made /\ reports[s] > 0 -> "reported"
                [] s \in tracer.spans /\ reports[s] = 0 ->
                      IF span[s].ended THEN "ended" ELSE "open"
                [] OTHER -> "dropped") = Stage(s)
  <2>1. reports[s] \in Nat /\ tracer.spans \subseteq Made
    BY DEF Inv, TypeOK, Stored
  <2>2. QED  BY <2>1 DEF Stage
<1>2. QED  BY <1>1 DEF Life

\* A step moves every span on, or leaves it.
MovesOn(s) ==
    Stage(s)' # Stage(s) => Stage(s)' \in Lifecycle!After(Stage(s))

\* What is known of every span before a step.
LEMMA StageFacts ==
    ASSUME Inv, NEW s \in SpanIds
    PROVE  /\ reports[s] \in Nat
           /\ s \notin Made => reports[s] = 0
           /\ s \in tracer.spans => s \in Made /\ reports[s] = 0
BY DEF Inv, TypeOK, Stored, ReportedOnce

\* Reports never decrease, and grow for spans of the tracer only.
LEMMA ReportingCounts ==
    ASSUME Inv, Reporting, NEW s \in SpanIds
    PROVE  /\ reports'[s] \in Nat /\ reports'[s] >= reports[s]
           /\ s \notin tracer.spans => reports'[s] = reports[s]
<1>1. PICK udp \in BOOLEAN : reports' = AfterFlush(reports, tracer, udp)
  BY DEF Reporting
<1>2. reports[s] \in Nat
  BY DEF Inv, TypeOK
<1>3. QED  BY <1>1, <1>2 DEF AfterFlush

\* A span whose tracer was flushed and is gone.
LEMMA LeavesTracer ==
    ASSUME Inv, Reporting, NEW s \in Made, s \in Made', s \notin tracer'.spans
    PROVE  MovesOn(s)
<1>0. s \in SpanIds
  BY DEF Made
<1>1. /\ reports[s] \in Nat /\ reports'[s] \in Nat /\ reports'[s] >= reports[s]
      /\ s \notin tracer.spans => reports'[s] = reports[s]
      /\ s \in tracer.spans => reports[s] = 0
  BY <1>0, StageFacts, ReportingCounts
<1>2. Stage(s)' = IF reports'[s] > 0 THEN "reported" ELSE "dropped"
  BY DEF Stage
<1>3. CASE s \in tracer.spans
  <2>1. Stage(s) \in {"open", "ended"}
    BY <1>1, <1>3 DEF Stage
  <2>2. QED  BY <1>2, <2>1 DEF MovesOn, Lifecycle!After
<1>4. CASE s \notin tracer.spans
  BY <1>1, <1>2, <1>4 DEF MovesOn, Stage
<1>5. QED  BY <1>3, <1>4

\* A step that keeps the spans moves none back.
LEMMA KeptMovesOn ==
    ASSUME Inv, Kept, NEW s \in SpanIds
    PROVE  MovesOn(s)
BY DEF Kept, MovesOn, Stage, Made

\* The end of spans moves none back.
LEMMA FinishedMovesOn ==
    ASSUME Inv, Finished, NEW s \in SpanIds
    PROVE  MovesOn(s)
<1>1. PICK e \in handles :
          /\ span' = [span EXCEPT ![e].ended = TRUE]
          /\ tracer' = [tracer EXCEPT !.active = RemoveFirst(@, e)]
  BY DEF Finished
<1>2. /\ tracer'.spans = tracer.spans /\ reports' = reports
      /\ span \in [SpanIds -> ContextType \cup {NoSpan}]
      /\ e \in SpanIds /\ span[e] \in ContextType
  <2>1. e \in Made
    BY DEF Inv, Stored
  <2>2. QED  BY <1>1, <2>1, MadeType DEF Finished, Inv, TypeOK, TracerType
<1>3. Made' = Made
  BY <1>1, EndKeepsSpans DEF SameSpans
<1>4. CASE s # e
  <2>1. span'[s] = span[s]
    BY <1>1, <1>2, <1>4
  <2>2. QED  BY <1>2, <1>3, <2>1 DEF MovesOn, Stage
<1>5. CASE s = e
  <2>1. span'[s].ended
    BY <1>1, <1>2, <1>5 DEF ContextType
  <2>2. CASE Stage(s) = "open"
    <3>1. Stage(s)' = "ended"
      BY <1>2, <1>3, <2>1, <2>2 DEF Stage
    <3>2. QED  BY <2>2, <3>1 DEF MovesOn, Lifecycle!After
  <2>3. CASE Stage(s) # "open"
    <3>1. Stage(s)' = Stage(s)
      BY <1>2, <1>3, <2>1, <2>3 DEF Stage
    <3>2. QED  BY <3>1 DEF MovesOn
  <2>4. QED  BY <2>2, <2>3
<1>6. QED  BY <1>4, <1>5

\* An emptied tracer moves its spans on.
LEMMA EmptiedMovesOn ==
    ASSUME Inv, Emptied, NEW s \in SpanIds
    PROVE  MovesOn(s)
<1>1. Made' = Made
  BY EndKeepsSpans DEF Emptied, SameSpans
<1>2. Reporting /\ tracer'.spans = {}
  BY DEF Emptied
<1>3. CASE s \in Made
  BY <1>1, <1>2, <1>3, LeavesTracer
<1>4. CASE s \notin Made
  BY <1>1, <1>4 DEF MovesOn, Stage
<1>5. QED  BY <1>3, <1>4

\* A new span moves from new to its first stage.
LEMMA GrownMovesOn ==
    ASSUME Inv, Grown, NEW s \in SpanIds
    PROVE  MovesOn(s)
<1>0. PICK r \in SpanIds, c \in ContextType, t \in TracerType :
        /\ span[r] = NoSpan /\ ~c.ended
        /\ span' = [span EXCEPT ![r] = c]
        /\ tracer' = Started(t, r, c.flags)
        /\ \/ t = tracer /\ reports' = reports
           \/ t.spans = {} /\ Reporting
  BY DEF Grown
<1>1. /\ span'[r] = c /\ \A p \in SpanIds \ {r} : span'[p] = span[p]
      /\ r \notin Made /\ c # NoSpan
  BY <1>0, WorkerAssumption, Zenon DEF Inv, TypeOK, Made, WorkerAssumption
<1>2. Made' = Made \cup {r}
  BY <1>1 DEF Made
<1>3. tracer'.spans = t.spans \cup {r}
  BY <1>0, StartedProperties
<1>4. CASE s = r
  <2>1. s \notin tracer.spans /\ reports[s] = 0
    BY <1>1, <1>4, StageFacts
  <2>2. reports'[s] = 0
    BY <1>0, <2>1, ReportingCounts
  <2>3. Stage(s) = "new" /\ Stage(s)' = "open"
    BY <1>0, <1>1, <1>2, <1>3, <1>4, <2>2 DEF Stage
  <2>4. QED  BY <2>3 DEF MovesOn, Lifecycle!After
<1>5. CASE s # r /\ t = tracer /\ reports' = reports
  <2>1. span'[s] = span[s] /\ (s \in Made' <=> s \in Made)
        /\ (s \in tracer'.spans <=> s \in tracer.spans)
    BY <1>1, <1>2, <1>3, <1>5
  <2>2. Stage(s)' = Stage(s)
    BY <1>5, <2>1 DEF Stage
  <2>3. QED  BY <2>2 DEF MovesOn
<1>6. CASE s # r /\ t.spans = {} /\ Reporting
  <2>1. CASE s \in Made
    BY <1>2, <1>3, <1>6, <2>1, LeavesTracer
  <2>2. CASE s \notin Made
    BY <1>2, <1>6, <2>2 DEF MovesOn, Stage
  <2>3. QED  BY <2>1, <2>2
<1>7. QED  BY <1>0, <1>4, <1>5, <1>6

\* Every step is one of the abstract specification, or none.
LEMMA StepMovesLife ==
    ASSUME Inv, Inv', [Next]_vars
    PROVE  [Lifecycle!Move]_Life
<1>1. \A s \in SpanIds : MovesOn(s)
  BY StepClasses, KeptMovesOn, FinishedMovesOn, EmptiedMovesOn, GrownMovesOn DEF StepClass
<1>2. Life = [s \in SpanIds |-> Stage(s)]
  BY LifeIsStage
<1>3. Life' = [s \in SpanIds |-> Stage(s)']
  <2>1. Inv => Life = [s \in SpanIds |-> Stage(s)]
    BY LifeIsStage
  <2>2. (Inv => Life = [s \in SpanIds |-> Stage(s)])'
    BY LifeIsStage, PTL
  <2>3. QED  BY <2>2
<1>4. \A s \in SpanIds : Stage(s)' \in Lifecycle!Stages
  BY DEF Stage, Lifecycle!Stages
<1>5. \A s \in SpanIds : Life[s] = Stage(s) /\ Life'[s] = Stage(s)'
  BY <1>2, <1>3
<1>6. Life' \in [SpanIds -> Lifecycle!Stages]
  BY <1>3, <1>4
<1>7. \A s \in SpanIds : Life'[s] # Life[s] => Life'[s] \in Lifecycle!After(Life[s])
  BY <1>1, <1>5 DEF MovesOn
<1>8. QED  BY <1>6, <1>7 DEF Lifecycle!Move

\* All spans are new at first.
LEMMA LifeStartsNew == Init => Lifecycle!Init
<1> SUFFICES ASSUME Init PROVE Lifecycle!Init
  OBVIOUS
<1>1. Made = {}
  BY DEF Init, Made
<1>2. Life = [s \in SpanIds |-> Stage(s)]
  BY InitInv, LifeIsStage
<1>3. \A s \in SpanIds : Stage(s) = "new"
  BY <1>1 DEF Stage
<1>4. QED  BY <1>2, <1>3, LifecycleNames

\* The calls of a process, with all their flushes and re-initializations, treat
\* every span as SpanLifecycle promises: what ended does not go on, and what
\* was reported or dropped stays so.
THEOREM WorkerImplementsLifecycle == Spec => ImplementsLifecycle
<1>1. Spec => Lifecycle!Init
  BY LifeStartsNew DEF Spec
<1>2. Inv /\ Inv' /\ [Next]_vars => [Lifecycle!Move]_Life
  BY StepMovesLife
<1>3. Spec => [][Lifecycle!Move]_Life
  BY WorkerInvariant, <1>2, PTL DEF Spec
<1>4. QED  BY <1>1, <1>3, LifecycleNames DEF ImplementsLifecycle
=============================================================================

---------------------------- MODULE TracerWorker ----------------------------
(***************************************************************************)
(* One PHP worker process: the static members of class Tracer, which       *)
(* outlive the requests the worker serves, the global tracer they point    *)
(* to, and the calls a script makes.  A call runs to its end before the    *)
(* next one, so every action is a whole call.  What a flush does to the    *)
(* logs of a span is JaegerFlush; here a flush moves whole spans.          *)
(***************************************************************************)
EXTENDS Integers, Sequences, SequencesExt

CONSTANTS
    SpanIds,   \* the ids Helper::generateId may return
    Services,  \* the service names scripts pass to Tracer::init
    Percents,  \* the sampler settings they pass
    Flags,     \* x-b3-sampled of a remote caller, which becomes span flags
    NoSpan,    \* a span id not in use
    Remote,    \* the trace and the span of a remote caller
    None       \* no parent

\* The SpanContext of a span, and whether finishSpan gave it an end time.
ContextType ==
    [trace : SpanIds \cup {Remote}, parent : SpanIds \cup {Remote, None},
     flags : Nat, ended : BOOLEAN]

ASSUME WorkerAssumption ==
    /\ Percents \subseteq 0..100
    /\ Flags \subseteq Nat
    /\ "curl external" \notin Services
    /\ Remote \notin SpanIds /\ None \notin SpanIds /\ Remote # None
    /\ NoSpan \notin ContextType

VARIABLES
    tracer,         \* *Tracer::global_tracer
    headerFlag,     \* Tracer::header_flag
    udpTransport,   \* Tracer::udp_transport
    singleExtCall,  \* Tracer::single_ext_call
    userSettings,   \* Tracer::userTracerSettings
    span,           \* the context and the end of every span made so far
    handles,        \* the JaegerSpan objects the script of this request holds
    noopHandle,     \* it holds a NoopSpan
    contexts,       \* the flags of the SpanContext objects it extracted
    reports,        \* how often each span was handed to the UDP reporter
    crashed         \* a null pointer was dereferenced, or an exception left
                    \* the extension: the process is gone

statics == <<headerFlag, udpTransport, singleExtCall, userSettings>>
script  == <<handles, noopHandle, contexts>>
vars    == <<tracer, statics, span, script, reports, crashed>>

-----------------------------------------------------------------------------

Bit(flags, b) == (flags \div b) % 2 = 1
IsSampled(s)  == Bit(span[s].flags, 1)    \* SAMPLED_FLAG
IsDebug(s)    == Bit(span[s].flags, 2)    \* DEBUG_FLAG

\* What jaegerizeTracer puts into a batch.
Reportable(s) == IsDebug(s) \/ IsSampled(s)

External == "curl external"

(* Tracers.  The fields of a tracer that is not a JaegerTracer are idle. *)

NewTracer(kind, service, reporter, percents) ==
    [kind |-> kind, service |-> service, reporter |-> reporter,
     percents |-> percents, isSampled |-> FALSE, spans |-> {}, active |-> <<>>]

NoTracer   == NewTracer("none", External, "udp", 0)
NoopTracer == NewTracer("noop", External, "udp", 0)

IsJaeger == tracer.kind = "jaeger"

\* The settings initInternal is called with.
Settings(enabled, udp, reporter, percents) ==
    [enabled |-> enabled, udp |-> udp, reporter |-> reporter, percents |-> percents]

\* createDefaultParamsList, createCurlParamsList, and an argument that is not
\* an array: every setting reads as null.
DefaultSettings == Settings(FALSE, udpTransport, "udp", 1)
CurlSettings    == Settings(TRUE, TRUE, userSettings.reporter, 100)
NullSettings    == Settings(FALSE, FALSE, "udp", 1)

\* The settings a script passes, merged over the defaults.
ArraySettings ==
    {Settings(e, u, r, p) : e \in BOOLEAN, u \in BOOLEAN,
                            r \in {"udp", "file"}, p \in Percents}

(* JaegerTracer::flush on a tracer, with a value of udp_transport. *)

FlushRuns(t, udp) == t.kind = "jaeger" /\ t.isSampled /\ udp

FlushedKeepsActive(t, udp) ==   \* mutant: _activeSpans is not cleared
    IF FlushRuns(t, udp) THEN [t EXCEPT !.spans = {}] ELSE t

FlushedKeepsSpans(t, udp) == t   \* mutant: no clearSpans

\* clearSpans at the end of it.
Flushed(t, udp) ==
    IF FlushRuns(t, udp) THEN [t EXCEPT !.spans = {}, !.active = <<>>] ELSE t

\* What the reporter gets from it.
AfterFlush(count, t, udp) ==
    [s \in SpanIds |->
        IF FlushRuns(t, udp) /\ t.reporter = "udp" /\ s \in t.spans /\ Reportable(s)
        THEN count[s] + 1 ELSE count[s]]

InitInternalDrops(service, settings) ==   \* mutant: the old tracer is not flushed
    /\ udpTransport' = settings.udp
    /\ UNCHANGED reports
    /\ tracer' = IF settings.enabled
                 THEN NewTracer("jaeger", service, settings.reporter, settings.percents)
                 ELSE NoopTracer

\* initInternal: udp_transport is assigned first, then the old tracer is
\* deleted, which flushes it, then the new one is made.
InitInternal(service, settings) ==
    /\ udpTransport' = settings.udp
    /\ reports' = AfterFlush(reports, tracer, settings.udp)
    /\ tracer' = IF settings.enabled
                 THEN NewTracer("jaeger", service, settings.reporter, settings.percents)
                 ELSE NoopTracer

(* JaegerTracer::startSpan. *)

Context(trace, parent, flags) ==
    [trace |-> trace, parent |-> parent, flags |-> flags, ended |-> FALSE]

\* The flags of a root span: the header of the last remote caller, if it was
\* not 0, otherwise the sampler's decision.
RootFlags(percents) ==
    IF headerFlag # 0 THEN {headerFlag}
    ELSE {f \in {0, 1} : (f = 1 => percents > 0) /\ (f = 0 => percents < 100)}

StartedUnmarks(t, s, flags) ==   \* mutant: the last span decides
    [t EXCEPT !.spans = @ \cup {s}, !.active = Append(@, s), !.isSampled = Bit(flags, 1)]

\* The span is stored, becomes the current one and may mark its tracer.
Started(t, s, flags) ==
    [t EXCEPT !.spans = @ \cup {s},
              !.active = Append(@, s),
              !.isSampled = @ \/ Bit(flags, 1) \/ Bit(flags, 2)]

NewSpanUnderParentId(t, s, c) ==   \* mutant: stored under the parent's id
    /\ span[s] = NoSpan
    /\ span' = [span EXCEPT ![s] = c]
    /\ tracer' = Started(t, c.parent, c.flags)
    /\ handles' = handles \cup {s}

NewSpanOldId(t, s, c) ==   \* mutant: the id may be in use
    /\ span' = [span EXCEPT ![s] = c]
    /\ tracer' = Started(t, s, c.flags)
    /\ handles' = handles \cup {s}

\* A new span s with the context c in tracer t; the script gets the object.
NewSpan(t, s, c) ==
    /\ span[s] = NoSpan
    /\ span' = [span EXCEPT ![s] = c]
    /\ tracer' = Started(t, s, c.flags)
    /\ handles' = handles \cup {s}

ChildContextByHeader(p) == Context(span[p].trace, p, headerFlag)   \* mutant

ChildContext(p) == Context(span[p].trace, p, span[p].flags)

-----------------------------------------------------------------------------
(* The process starts with the initializers of PageViewHandler.cpp. *)

NoUserSettings == [given |-> FALSE, service |-> External, reporter |-> "udp"]

Init ==
    /\ tracer = NoTracer
    /\ headerFlag = 0 /\ udpTransport = TRUE /\ singleExtCall = FALSE
    /\ userSettings = NoUserSettings
    /\ span = [s \in SpanIds |-> NoSpan]
    /\ handles = {} /\ noopHandle = FALSE /\ contexts = {}
    /\ reports = [s \in SpanIds |-> 0]
    /\ crashed = FALSE

\* Tracer::init(service): the defaults leave tracing off.
InitDefault(service) ==
    /\ InitInternal(service, DefaultSettings)
    /\ UNCHANGED <<headerFlag, singleExtCall, userSettings, span, script, crashed>>

\* Tracer::init(service, [...])
InitArray(service) ==
    \E settings \in ArraySettings :
        /\ InitInternal(service, settings)
        /\ userSettings' = [given |-> TRUE, service |-> service,
                            reporter |-> settings.reporter]
        /\ UNCHANGED <<headerFlag, singleExtCall, span, script, crashed>>

\* Tracer::init(service, ''), as at the end of test/index.php.
InitOther(service) ==
    /\ InitInternal(service, NullSettings)
    /\ UNCHANGED <<headerFlag, singleExtCall, userSettings, span, script, crashed>>

\* startSpan and getCurrentSpan without a tracer or with a NoopTracer.
GetNoopSpan ==
    /\ ~IsJaeger
    /\ noopHandle' = TRUE
    /\ UNCHANGED <<tracer, statics, span, handles, contexts, reports, crashed>>

StartRoot(s) ==
    /\ IsJaeger
    /\ \E f \in RootFlags(tracer.percents) : NewSpan(tracer, s, Context(s, None, f))
    /\ UNCHANGED <<statics, noopHandle, contexts, reports, crashed>>

\* childOf or followsFrom a span of this request, whatever became of it.
StartChild(s, p) ==
    /\ IsJaeger
    /\ p \in handles
    /\ NewSpan(tracer, s, ChildContext(p))
    /\ UNCHANGED <<statics, noopHandle, contexts, reports, crashed>>

\* childOf or followsFrom an extracted context.
StartRemote(s, f) ==
    /\ IsJaeger
    /\ f \in contexts
    /\ NewSpan(tracer, s, Context(Remote, Remote, f))
    /\ UNCHANGED <<statics, noopHandle, contexts, reports, crashed>>

\* startSpan, inject, getCurrentSpanId or getCurrentParentId of a JaegerTracer
\* with a NoopSpan: dynamic_cast<JaegerSpan*> is null and is dereferenced.
UseNoopSpan ==
    /\ IsJaeger
    /\ noopHandle
    /\ crashed' = TRUE
    /\ UNCHANGED <<tracer, statics, span, script, reports>>

\* JaegerTracer::finishSpan, then the service name from before an external
\* call is restored.
FinishSpan(s) ==
    LET t == IF IsJaeger THEN [tracer EXCEPT !.active = RemoveFirst(@, s)] ELSE tracer
    IN /\ s \in handles
       /\ span' = IF IsJaeger THEN [span EXCEPT ![s].ended = TRUE] ELSE span
       /\ IF singleExtCall /\ userSettings.given
          THEN /\ InitInternal(userSettings.service, CurlSettings)
               /\ singleExtCall' = FALSE
          ELSE /\ tracer' = t
               /\ UNCHANGED <<udpTransport, singleExtCall, reports>>
       /\ UNCHANGED <<headerFlag, userSettings, script, crashed>>

\* finishSpan(NoopSpan) finishes nothing, but restores all the same.
FinishNoopSpan ==
    /\ noopHandle
    /\ singleExtCall /\ userSettings.given
    /\ InitInternal(userSettings.service, CurlSettings)
    /\ singleExtCall' = FALSE
    /\ UNCHANGED <<headerFlag, userSettings, span, script, crashed>>

\* startExternalTracing for a host that is traced, with a span to attach to:
\* the current one, or the NoopSpan of a NoopTracer.
ExternalInTrace(s) ==
    /\ IsJaeger
    /\ tracer.active # <<>>
    /\ NewSpan(tracer, s, ChildContext(tracer.active[Len(tracer.active)]))
    /\ singleExtCall' = FALSE
    /\ UNCHANGED <<headerFlag, udpTransport, userSettings, noopHandle, contexts,
                   reports, crashed>>

ExternalNoop ==
    /\ tracer.kind = "noop"
    /\ singleExtCall' = FALSE
    /\ noopHandle' = TRUE
    /\ UNCHANGED <<tracer, headerFlag, udpTransport, userSettings, span, handles,
                   contexts, reports, crashed>>

\* ... and without: a tracer is made for the call.  Its sampler takes every
\* span, unless a header decides.
ExternalAlone(s) ==
    LET t == NewTracer("jaeger", External, CurlSettings.reporter, CurlSettings.percents)
    IN /\ tracer.kind # "noop" /\ tracer.active = <<>>
       /\ udpTransport' = CurlSettings.udp
       /\ reports' = AfterFlush(reports, tracer, CurlSettings.udp)
       /\ \E f \in RootFlags(t.percents) : NewSpan(t, s, Context(s, None, f))
       /\ singleExtCall' = TRUE
       /\ UNCHANGED <<headerFlag, userSettings, noopHandle, contexts, crashed>>

\* Tracer::flush
Flush ==
    /\ IsJaeger
    /\ tracer' = Flushed(tracer, udpTransport)
    /\ reports' = AfterFlush(reports, tracer, udpTransport)
    /\ UNCHANGED <<statics, span, script, crashed>>

\* Tracer::extract of an array with x-b3-sampled f: the flag is kept, whether
\* or not the other headers make a context.
ExtractArray(f, wellFormed) ==
    /\ IsJaeger
    /\ headerFlag' = f
    /\ contexts' = IF wellFormed THEN contexts \cup {f} ELSE contexts
    /\ UNCHANGED <<tracer, udpTransport, singleExtCall, userSettings, span,
                   handles, noopHandle, reports, crashed>>

\* Tracer::extract of a string: the flag goes to the context only.
ExtractString(f) ==
    /\ IsJaeger
    /\ contexts' = contexts \cup {f}
    /\ UNCHANGED <<tracer, statics, span, handles, noopHandle, reports, crashed>>

\* Tracer::extract of an array whose x-b3-sampled is no number: what stoul
\* throws is not the out_of_range that extract catches, and nothing else does.
ExtractNoNumber ==
    /\ IsJaeger
    /\ crashed' = TRUE
    /\ UNCHANGED <<tracer, statics, span, script, reports>>

OnIdleForgets ==   \* mutant: the pointer is reset, the tracer is not deleted
    /\ tracer' = NoTracer
    /\ handles' = {} /\ noopHandle' = FALSE /\ contexts' = {}
    /\ UNCHANGED <<statics, span, reports, crashed>>

\* The request is over, or the worker is told to stop: onIdle, onShutDown.
\* The tracer is flushed, flushed once more by its destructor, and gone.
OnIdle ==
    /\ reports' = AfterFlush(AfterFlush(reports, tracer, udpTransport),
                             Flushed(tracer, udpTransport), udpTransport)
    /\ tracer' = NoTracer
    /\ handles' = {} /\ noopHandle' = FALSE /\ contexts' = {}
    /\ UNCHANGED <<statics, span, crashed>>

\* A worker that crashed is replaced by a new process.
Respawn ==
    /\ crashed
    /\ crashed' = FALSE
    /\ tracer' = NoTracer
    /\ headerFlag' = 0 /\ udpTransport' = TRUE /\ singleExtCall' = FALSE
    /\ userSettings' = NoUserSettings
    /\ handles' = {} /\ noopHandle' = FALSE /\ contexts' = {}
    /\ UNCHANGED <<span, reports>>

Start(s) ==
    \/ StartRoot(s) \/ ExternalInTrace(s) \/ ExternalAlone(s)
    \/ \E p \in SpanIds : StartChild(s, p)
    \/ \E f \in Flags : StartRemote(s, f)

Call ==
    \/ \E service \in Services :
          InitDefault(service) \/ InitArray(service) \/ InitOther(service)
    \/ GetNoopSpan \/ UseNoopSpan \/ ExternalNoop
    \/ \E s \in SpanIds : Start(s) \/ FinishSpan(s)
    \/ FinishNoopSpan
    \/ Flush
    \/ \E f \in Flags : ExtractArray(f, TRUE) \/ ExtractArray(f, FALSE) \/ ExtractString(f)
    \/ ExtractNoNumber
    \/ OnIdle

Next == (~crashed /\ Call) \/ Respawn

Spec == Init /\ [][Next]_vars

\* A request ends (PHP bounds its time), and PHP then calls onIdle.
RequestsEnd == WF_vars(~crashed /\ OnIdle)
FairSpec == Spec /\ RequestsEnd

-----------------------------------------------------------------------------
(* Properties *)

Made == {s \in SpanIds : span[s] # NoSpan}

TracerType ==
    [kind : {"none", "noop", "jaeger"}, service : Services \cup {External},
     reporter : {"udp", "file"}, percents : 0..100, isSampled : BOOLEAN,
     spans : SUBSET SpanIds, active : Seq(SpanIds)]

TypeOK ==
    /\ tracer \in TracerType
    /\ headerFlag \in Nat
    /\ udpTransport \in BOOLEAN /\ singleExtCall \in BOOLEAN
    /\ userSettings \in [given : BOOLEAN, service : Services \cup {External},
                         reporter : {"udp", "file"}]
    /\ span \in [SpanIds -> ContextType \cup {NoSpan}]
    /\ handles \in SUBSET SpanIds /\ noopHandle \in BOOLEAN
    /\ contexts \in SUBSET Flags
    /\ reports \in [SpanIds -> Nat]
    /\ crashed \in BOOLEAN

\* getCurrentSpan looks the last active id up with _spans[id], which would
\* store a null span under an id that is not there, and flush would then
\* dereference it.  The active ids are the stored spans that are not finished,
\* each once, across finishes out of order, flushes and re-initializations.
ActiveSpansStored ==
    /\ \A s \in SpanIds :
          (\E i \in DOMAIN tracer.active : tracer.active[i] = s)
              <=> s \in tracer.spans /\ ~span[s].ended
    /\ \A i, j \in DOMAIN tracer.active :
          tracer.active[i] = tracer.active[j] => i = j

\* flush leaves at once unless the tracer is marked as sampled, so a stored
\* span that should be reported has marked it, however the decision came:
\* from the sampler, a header, a parent or an extracted context.
SampledSpanMarksTracer ==
    (\E s \in tracer.spans : Reportable(s)) => tracer.isSampled

\* A tracer is flushed by the script, by onIdle, by its destructor and before
\* it is replaced: no span is reported by two of them, none after it left the
\* tracer, and none that was not sampled.
ReportedOnce ==
    \A s \in SpanIds :
        /\ reports[s] <= 1
        /\ reports[s] = 1 => s \in Made /\ s \notin tracer.spans /\ Reportable(s)

\* The spans of one trace agree on the sampling decision, so that a trace is
\* reported whole or not at all, also when a header or another request changed
\* header_flag or the sampler between two of its spans.
OneDecisionPerTrace ==
    \A s \in Made : span[s].trace # Remote =>
        /\ span[s].trace \in Made
        /\ span[s].flags = span[span[s].trace].flags

\* A span that should be reported leaves the tracer in no other way than to the
\* reporter, as long as the UDP transport is not switched off by that call.
LeavesByReporter ==
    \A s \in tracer.spans \ tracer'.spans :
        Reportable(s) /\ tracer.reporter = "udp" /\ ~crashed => reports'[s] = 1

NoSilentLoss == [][udpTransport' => LeavesByReporter]_vars

\* With the transport on and no crash, every sampled span of a UDP tracer is
\* reported in the end, finished or not, flushed by the script or not.
EventuallyReported ==
    [](udpTransport /\ ~crashed) =>
        \A s \in SpanIds :
            (s \in tracer.spans /\ Reportable(s) /\ tracer.reporter = "udp")
                ~> reports[s] = 1

\* The calls keep the promise of SpanLifecycle for every span.
Life ==
    [s \in SpanIds |->
        CASE s \notin Made -> "new"
          [] s \in Made /\ reports[s] > 0 -> "reported"
          [] s \in tracer.spans /\ reports[s] = 0 ->
                IF span[s].ended THEN "ended" ELSE "open"
          [] OTHER -> "dropped"]

Lifecycle == INSTANCE SpanLifecycle WITH Span <- SpanIds, life <- Life

ImplementsLifecycle == Lifecycle!Spec

-----------------------------------------------------------------------------
(* What the documents say, and the code does not do. *)

\* "restore previous Tracer service name for process" (Tracer.cpp): once every
\* span of an external call is finished, the user's service is back.
ServiceRestored ==
    (/\ IsJaeger /\ tracer.spans # {}
     /\ userSettings.given
     /\ \A s \in tracer.spans : span[s].ended) => tracer.service # External
=============================================================================

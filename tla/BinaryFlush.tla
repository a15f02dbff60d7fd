---------------------------- MODULE BinaryFlush ----------------------------
(***************************************************************************)
(* JaegerTracer::flush as its branch for TBinary is written, a branch that *)
(* no build of the repository contains: the tracer's spans go to the agent *)
(* in one batch, as one frame on a TCP connection of its own, while the    *)
(* agent reads, hangs up, stops and starts again.  Nothing catches what    *)
(* the socket throws: it reaches the script that called flush, or, out of  *)
(* onIdle or a destructor, ends the worker.                                *)
(***************************************************************************)
EXTENDS TSocketWriter, FramedReader

VARIABLES
    alive,    \* there is a global tracer
    marked,   \* its _isSampled
    stored,   \* its _spans, which are all sampled
    started,  \* the spans that were ever started
    lost,     \* the spans that were stored when their worker ended
    caller,   \* who called flush
    batch,    \* the spans of the batch flush made
    wbuf,     \* the payload bytes in the write buffer of the framed transport
    flushes   \* how often that transport was flushed

tracerVars == <<alive, marked, stored, started, lost>>
frameVars  == <<batch, wbuf, flushes>>
vars == <<pc, socketVars, out, conns, readerVars, tracerVars, caller, frameVars>>

Callers == {"script", "onIdle", "destructor", "init"}

NothingWritten == batch' = {} /\ wbuf' = 0 /\ flushes' = 0

Init ==
    /\ conns = <<>>
    /\ pc = "script" /\ socket = NoSocket /\ fds = {} /\ peer = 0
    /\ linger = FALSE /\ addresses = 0 /\ out = 0
    /\ listening = TRUE /\ serving = 0 /\ recvTimeout = 0
    /\ nth = 1 /\ got = 0 /\ retries = 0 /\ accepted = <<>>
    /\ alive = FALSE /\ marked = FALSE
    /\ stored = {} /\ started = {} /\ lost = {}
    /\ caller = "script"
    /\ batch = {} /\ wbuf = 0 /\ flushes = 0

-----------------------------------------------------------------------------
(* The script, between two flushes. *)

ScriptOnly == UNCHANGED <<socketVars, out, conns, readerVars, frameVars>>

\* Tracer::init without a tracer to delete.
NewTracer ==
    /\ pc = "script" /\ ~alive
    /\ alive' = TRUE
    /\ UNCHANGED <<pc, marked, stored, started, lost, caller>>
    /\ ScriptOnly

\* The ids are drawn at random; here the spans are numbered as they start.
StartSpan(s) ==
    /\ pc = "script" /\ alive
    /\ s \notin started /\ \A r \in Spans \ started : s <= r
    /\ stored' = stored \cup {s}
    /\ started' = started \cup {s}
    /\ marked' = TRUE
    /\ UNCHANGED <<pc, alive, lost, caller>>
    /\ ScriptOnly

\* Tracer::flush, onIdle, or the delete of initInternal.  flush returns at
\* once for a tracer that is not marked.
CallFlush(who) ==
    /\ pc = "script" /\ alive
    /\ caller' = who
    /\ pc' = IF marked THEN "open" ELSE "returned"
    /\ UNCHANGED tracerVars
    /\ ScriptOnly

-----------------------------------------------------------------------------
(* flush *)

EmitBatchClears ==   \* mutant: the spans leave the tracer with the batch
    /\ pc = "opened"
    /\ batch' = stored
    /\ stored' = {}
    /\ wbuf' = PayloadOf[stored]
    /\ UNCHANGED flushes
    /\ pc' = "frame"
    /\ UNCHANGED <<socketVars, out, conns, readerVars, alive, marked, started, lost, caller>>

\* jaegerizeTracer with all spans, also with none, and AgentClient::emitBatch
\* up to the flush of its transport.
EmitBatch ==
    /\ pc = "opened"
    /\ batch' = stored
    /\ wbuf' = PayloadOf[stored]
    /\ UNCHANGED flushes
    /\ pc' = "frame"
    /\ UNCHANGED <<socketVars, out, conns, readerVars, tracerVars, caller>>

\* A frame is written to the connection.
Begun == IF peer = 0 THEN conns ELSE [conns EXCEPT ![peer].frames = Append(@, batch)]

FrameFlushKeeps ==   \* mutant: wBase_ is not reset
    /\ pc = "frame"
    /\ flushes < 3 /\ flushes' = flushes + 1
    /\ wbuf > 0
    /\ out' = HeaderBytes + wbuf
    /\ conns' = Begun
    /\ pc' = "write"
    /\ UNCHANGED <<socketVars, readerVars, tracerVars, caller, batch, wbuf>>

\* TFramedTransport::flush with something in the buffer, which is emptied
\* before the write.  emitBatch flushes, flush does, and close once more.
FrameFlush ==
    /\ pc = "frame"
    /\ flushes < 3 /\ flushes' = flushes + 1
    /\ wbuf > 0
    /\ wbuf' = 0
    /\ out' = HeaderBytes + wbuf
    /\ conns' = Begun
    /\ pc' = "write"
    /\ UNCHANGED <<socketVars, readerVars, tracerVars, caller, batch>>

\* ... with nothing.
FrameFlushNothing ==
    /\ pc = "frame"
    /\ flushes < 3 /\ flushes' = flushes + 1
    /\ wbuf = 0
    /\ UNCHANGED <<pc, socketVars, out, conns, readerVars, tracerVars, caller, batch, wbuf>>

\* The end of TFramedTransport::close and clearSpans.
CloseAndClear ==
    /\ pc = "frame"
    /\ flushes = 3
    /\ Close
    /\ stored' = {}
    /\ NothingWritten
    /\ pc' = "returned"
    /\ UNCHANGED <<addresses, out, readerVars, alive, marked, started, lost, caller>>

\* flush has returned.
ReturnToScript ==
    /\ pc = "returned"
    /\ caller = "script"
    /\ pc' = "script"
    /\ UNCHANGED <<tracerVars, caller>>
    /\ ScriptOnly

\* onIdle deletes the tracer, whose destructor flushes again.
ReturnToOnIdle ==
    /\ pc = "returned"
    /\ caller = "onIdle"
    /\ caller' = "destructor"
    /\ pc' = IF marked THEN "open" ELSE "returned"
    /\ UNCHANGED tracerVars
    /\ ScriptOnly

\* The tracer is gone; initInternal makes a new one.
ReturnToDelete ==
    /\ pc = "returned"
    /\ caller \in {"destructor", "init"}
    /\ pc' = "script" /\ caller' = "script"
    /\ alive' = (caller = "init")
    /\ marked' = FALSE
    /\ stored' = {}
    /\ UNCHANGED <<started, lost>>
    /\ ScriptOnly

\* Tracer::flush lets the exception through to the script; the transports go,
\* ~TSocket closes the socket, and the spans stay.
ThrowToScript ==
    /\ pc = "thrown"
    /\ caller = "script"
    /\ Close
    /\ NothingWritten
    /\ out' = 0 /\ addresses' = 0
    /\ pc' = "script"
    /\ UNCHANGED <<tracerVars, caller, readerVars>>

\* Out of onIdle or a destructor it ends the process, and another is forked.
WorkerDies ==
    /\ pc = "thrown"
    /\ caller # "script"
    /\ socket' = NoSocket /\ fds' = {} /\ peer' = 0 /\ linger' = FALSE
    /\ HangUpWorker(peer, linger)
    /\ NothingWritten
    /\ out' = 0 /\ addresses' = 0
    /\ pc' = "script" /\ caller' = "script"
    /\ alive' = FALSE /\ marked' = FALSE
    /\ stored' = {}
    /\ lost' = lost \cup stored
    /\ UNCHANGED <<started, readerVars>>

-----------------------------------------------------------------------------
FlushStep ==
    \/ SocketStep(listening)
       /\ UNCHANGED <<readerVars, tracerVars, caller, frameVars>>
    \/ EmitBatch
    \/ FrameFlush \/ FrameFlushNothing \/ CloseAndClear
    \/ ReturnToScript \/ ReturnToOnIdle \/ ReturnToDelete \/ ThrowToScript \/ WorkerDies

Script ==
    \/ NewTracer
    \/ \E s \in Spans : StartSpan(s)
    \/ \E who \in {"script", "onIdle", "init"} : CallFlush(who)

WorkerIdle == UNCHANGED <<pc, socketVars, out, tracerVars, caller, frameVars>>

AgentStep  == ReaderStep /\ WorkerIdle
AgentFails == (ReaderErrors \/ AgentStops \/ AgentStarts) /\ WorkerIdle

Signal == SendInterrupted /\ UNCHANGED <<readerVars, tracerVars, caller, frameVars>>

Next == Script \/ FlushStep \/ Signal \/ AgentStep \/ AgentFails

Spec == Init /\ [][Next]_vars

\* A system call that can return does, and an agent that runs goes on reading.
\* Nothing is assumed of the script, of signals and errors, nor that the agent
\* ever stops or starts.
FairSpec ==
    /\ Spec
    /\ WF_vars(FlushStep)
    /\ WF_vars(AgentStep)

-----------------------------------------------------------------------------
(* Properties *)

PcType == {"script", "open", "socket", "connect", "poll", "connected", "opened",
           "failed", "frame", "write", "returned", "thrown"}

TypeOK ==
    /\ conns \in Seq(ConnType)
    /\ pc \in PcType
    /\ socket \in Descriptors \cup {NoSocket} /\ fds \in SUBSET Descriptors
    /\ peer \in 0 .. Len(conns) /\ linger \in BOOLEAN
    /\ addresses \in 0 .. MaxAddresses /\ out \in Nat
    /\ listening \in BOOLEAN /\ serving \in 0 .. Len(conns)
    /\ recvTimeout \in RecvTimeouts \cup {0}
    /\ nth \in Nat \ {0} /\ got \in Nat
    /\ retries \in 0 .. MaxRecvRetries
    /\ accepted \in Seq(Batches)
    /\ alive \in BOOLEAN /\ marked \in BOOLEAN
    /\ stored \in Batches /\ started \in Batches /\ lost \in Batches
    /\ caller \in Callers
    /\ batch \in Batches /\ wbuf \in Nat /\ flushes \in 0 .. 3

\* A worker lives through many requests and makes a connection with every
\* flush, most of which may fail at any system call: it holds the descriptor of
\* the socket it is using, and none once flush is over, returned or thrown.
NoDescriptorLeaks ==
    /\ fds = IF IsOpen THEN {socket} ELSE {}
    /\ pc \in {"script", "open", "returned"} => ~IsOpen

\* Whatever was cut off, tried again, or reset: the agent reads only batches
\* the tracer flushed, whole ones, and no span in two of them.
AcceptedOnce ==
    /\ \A i \in DOMAIN accepted : accepted[i] \subseteq started
    /\ \A i, j \in DOMAIN accepted : i # j => accepted[i] \cap accepted[j] = {}

\* The bytes of the frame a connection carries were all given to the kernel.
SentWhole(c) ==
    /\ conns[c].frames # <<>>
    /\ conns[c].sent = FrameBytes(conns[c].frames[1])

\* A flush that throws loses nothing: a span leaves the tracer only after its
\* frame was sent whole, or with a worker that an exception ended.
SpansKeptUntilSent ==
    \A s \in started :
        \/ s \in stored \/ s \in lost
        \/ \E c \in DOMAIN conns : SentWhole(c) /\ s \in conns[c].frames[1]

\* flush ends, with or without an exception, although every call it makes may
\* block and it sets no timeout: the agent reads on or hangs up.
FlushEnds == pc # "script" ~> pc = "script"
=============================================================================

# Jaeger client for PHP: a TLA+ model

The repository is a PHP extension (C++, PHP-CPP) that implements the
OpenTracing calls for PHP scripts and sends spans to a Jaeger agent over UDP
with Thrift's compact protocol.  Its source also has a branch of `flush` for `TBinary`,
over TCP with the binary protocol in frames, which no build contains: to define
`TBinary` at `JaegerTracer.cpp:2` is not enough, as `TMemory` stays defined
and `trans`, `proto` and `agent` would be declared twice in one scope (342-345,
485-489), `AgentClient` and `::Batch` do not resolve there,
`TBufferTransports.h:27` has a define of its own, and `TSocket.cpp` is not among the
`SOURCES` of the Makefile (104-130).  Four modules (`Loopback`, `TSocketWriter`,
`FramedReader`, `BinaryFlush`) and the binary half of `EmitBatch` follow the text of that branch; what
they show is about that text, not about a worker somebody runs.
This directory holds TLA+ modules of the parts that carry its logic, TLC
configurations that check them on small instances, and TLAPS proofs about them.
Paths below are relative to the root of the repository.

## 1. Inventory

| Component | State | Operations | What must hold |
|---|---|---|---|
| Tracer facade (`src/Tracer.cpp`, `src/PageViewHandler.cpp`, `src/main.cpp`) | static members of class `Tracer`: the global tracer, `header_flag`, `udp_transport`, `single_ext_call`, the user's settings; they outlive a request | `init`, `startSpan`, `finishSpan`, `inject`, `extract`, `flush`, `startExternalTracing`, `onIdle`, `onShutDown` | a re-initialization never loses or repeats spans; one request does not spoil the next |
| JaegerTracer, spans, contexts (`src/JaegerTracer.cpp`, `src/JaegerSpan.cpp`, `src/SpanContext.cpp`) | `_spans`, `_activeSpans`, `_isSampled`; per span its context, tags, logs, end time | `startSpan`, `getCurrentSpan`, `finishSpan`, `flush`, `clearSpans` | an active id always has a span; one sampling decision per trace |
| Flush and splitting (`src/JaegerTracer.cpp`, `src/Helper.cpp`) | locals of `flush`: the batch, the part, the range of logs, the share | `jaegerizeTracer`, `jaegerizeSpan`, the search for a range of logs that fits | each log is sent once, in order; a packet fits; the loops end |
| NoopTracer, NoopSpan | none | every call, doing nothing | they never mix with the real ones |
| Flush over a socket (`src/JaegerTracer.cpp`, the branch for `TBinary`, in no build) | the tracer's spans, the frame being sent | open, emit, flush three times, close, clear | a span leaves the tracer only when it was sent, or with the process |
| Reporters, sampler (`src/UdpReporter.cpp`, `src/FileReporter.cpp`, `src/PercentageSampler.cpp`) | none | send, do nothing; decide | no retry, so nothing is sent twice |
| Context propagation (`src/TextCarrier.cpp`, `SpanContext`) | none | write and read the B3 headers or a `uber-trace-id` string | what is extracted is what was injected |
| External calls (`src/Tracer.cpp` from line 420) | the two lists of hosts in the ini file, read once per process | strip an uri, match a host, tag the span | the lists decide which calls are traced and which are tagged |
| Debug printer (`src/Printer.cpp`) | a mutex shared by all printers, the log file | `PrintLine` | a failed write never blocks the next |
| Thrift buffer (`src/thrift-lib/transport`) | a buffer, its read and write positions | write, read, grow | no byte is lost or invented when it grows |
| Thrift compact protocol (`src/thrift-lib/protocol`) | stack of the last field ids, the pending boolean field | write and read structs, lists, numbers | reading returns what was written |
| Thrift binary protocol, socket and frames (`TBinaryProtocol.tcc`, `TSocket.cpp`, `TFramedTransport`, used by that branch only) | `socket_`, its timeouts; the frame buffers | open, read, write, close; frame by frame | no descriptor leaks; a frame is read whole or not at all |
| Generated types (`src/thrift-gen`) | the fields | `write`, `read` | every reader finds what the writer wrote, an older one what it knows |
| Clock, host, tags, logs (`src/Process.cpp`, `src/Helper.cpp`, `src/Tag.cpp`, `src/Log.cpp`) | none | system calls | - |

**Interaction.** A PHP worker calls the facade; the facade owns one tracer at a
time and deletes it in `initInternal` and `onIdle`; deleting a JaegerTracer
flushes it; a flush turns spans into Thrift structures, writes these into a
memory buffer to learn their size, and hands batches to the reporter, which
writes each into one datagram.  Every call runs to its end on the thread of the
request, so there is no preemption inside the extension.  What is hard is the
order of calls: statics that survive a request, objects a script keeps after
the tracer that made them is gone, external calls that swap the tracer in the
middle of a request, the size driven search in `flush`, and the
exceptions the debug log throws on the way of every call.  Over UDP a send may
fail, nothing is retried, and the spans are cleared either way.  In the branch for
`TBinary` every system call may fail, what fails would be thrown through `flush`, and the
agent may hang up, stop and start again at any moment.

`PROJECT.json` lists each hazard at its line with the properties that cover it.

## 2. Modules

### JaegerFlush, LogDelivery

`JaegerFlush` is one call of `JaegerTracer::flush`.  Its variables are the
locals of the function and what leaves it:

| Variable | Code |
|---|---|
| `shape`, `isSampled`, `udpTransport`, `reporter` | the spans (flags, size, logs with sizes), `_isSampled`, `Tracer::udp_transport`, `_reporter->_name()` |
| `stored` | the spans still in `_spans` |
| `pc` | the place in the loops |
| `todo`, `cur` | the iteration over `_spans` |
| `indexStart`, `indexCount`, `incLogs`, `part`, `skipBadLog` | the locals of the same name |
| `batch`, `data` | the arguments of the last `jaegerizeTracer` call, the vector of batches pushed so far |
| `emitted`, `sent` | how many batches the reporter was given, and which of them left through the socket |

Actions follow the loop: `Return` and `Begin` are the guards at the top, `NextSpan`
enters the loop; `Attempt`, `SkipBadLog` and `GiveUp` are the passes of the inner
loop (each but the last one builds a batch, the shared `Jaegerize`, and tests its
size); `PushAndSplit`, `PushLast` and `PushAndRepeat` are the three ways to go on after
`push_back`; `Parsed`, `Send` and `ClearSpans` are the end of `flush`.

Bytes are units: a log has a size, a span a size of its own (`base`), an empty
batch `EmptyBytes`, a note about a part or an omission `NoteBytes`; the packet limit
is `MaxSpanBytes` and the operating system's limit `UdpLimit`.

`LogDelivery` is what a flush promises: the logs of a span are reported front to
back, none twice, a closed span is not taken up again, packets leave only when every
span is closed, and the spans are forgotten only when every packet had its chance.
`JaegerFlush` implements it (`ImplementsDelivery`): a log is reported when a batch
stands for it, and a span is open until the loop over `_spans` leaves it.

### TracerWorker, SpanLifecycle

`TracerWorker` is one PHP worker process over any number of requests.  One
action is one whole call, with everything it calls.  `InitInternal` is shared by
`init` (with defaults, an array, anything else), by `finishSpan` when it
restores the user's service, and, inlined, by the external call that needs a
tracer of its own; its order (assign `udp_transport`, delete and so flush the
old tracer, make the new one) is kept.  `handles` is what the script holds: a
span object stays usable after its tracer is gone.  `span` and `reports` are
histories: the context of every span ever made, and how often the reporter got
it.  `UseNoopSpan` dereferences a null pointer and `ExtractNoNumber` lets an exception
that is none of PHP's out of the extension; both set `crashed`, and the pool then
starts a new process (`Respawn`), with the initial statics.

`SpanLifecycle` is the promise for one span: new, open, ended, then reported or
dropped for good.  `TracerWorker` implements it (`ImplementsLifecycle`).

### TextCarrier, Propagation

`TextCarrier` holds the pure part: `inject` and `extract` for a map of B3 headers
and for a string, the text form of a context and its parsing, with the digits
and the padding that tell the two words of a trace id apart.  Numerals are
sequences of digits, in the base the code prints and the base it parses.  A string
carrier is the sequence of the pieces between its bars, each the list of items between its
colons: a payload may have bars of its own, `InjectString` replaces all behind the first one, and
`ExtractString` parses all behind it as one text (`Joined`).
`Propagation` has several processes that start roots and children, send requests
(map) and messages (string) with new or reused carriers, and handle what arrives,
also from callers of another make (`ForeignMaps`, outside this repository), some of which
write the sampling decision in words: such a request ends the worker (`EndByRequest`).
The field `payload` of a span is a history: what the first sender of a message began with.

### ByteQueue, MemoryBuffer

`MemoryBuffer` is `TMemoryBuffer` with owned memory: `rBase`, `rBound`, `wBase`,
`wBound`, `bufferSize`, `maxBufferSize` are the fields `rBase_`, `rBound_`,
`wBase_`, `wBound_`, `bufferSize_`, `maxBufferSize_`, as offsets; `mem` is the
memory, in which a cell that was never written holds `Garbage`.  One action is
one call; the growth by doubling of a `Width`-bit size is part of the write.
`ByteQueue` is what a transport promises: bytes leave in the order in which they
came, or a call throws.

### ThriftTypes, CompactCode, CompactWriter, CompactReader, CompactStream

`ThriftTypes` has what the two protocols share: types, values, and what it is to
run out of bytes.  `CompactCode` gives the bytes of `TCompactProtocolT`: pure encoders, and
decoders that give the set of what is found at the start of some bytes, empty
where the code throws.  `CompactWriter` and `CompactReader` are the object as a writer
and as a reader: the stack `lastField_`, `lastFieldId_`, the boolean field that
waits (`booleanField_`) and the boolean read ahead (`boolValue_`).  Their
operators are not a specification of their own: each is one call, for the
modules that use them.  `CompactStream` composes the two: any well-formed
client (`open` is what it must still write), a datagram that is received whole
or cut, and `TProtocol::skip` as the reader (`expect` is what it must still read,
learned from the bytes alone, and `nesting` says for each of it how many calls of `skip`
it is read in; more than `SkipLimit` throw).  `told` and `heard` are the calls made and the
calls read.  One writer object serves all datagrams, as in `flush`.

### BinaryCode, ThriftProtocols, Jaegerize, EmitBatch

`BinaryCode` gives the bytes of `TBinaryProtocolT` under the names `CompactCode`
uses, so that one client can be written for both; `ThriftProtocols` puts the two side by
side: the values the C++ types can hand to either (`Held`), and what the reader of either finds.
`Jaegerize` is the data half of `Helper::jaegerizeTracer`: from spans to the Thrift
structs, as functions from field ids to values (a field outside the domain is
one whose `__isset` is false).  `Partial` batches hold the range of logs `flush`
asks for, with the notes; `WholeBatch` is version 1, which the branch for `TBinary`
calls: all sampled spans, whole, with the latest log first.
`EmitBatch` is `AgentClient::emitBatch` and `emitZipkinBatch` above `CompactWriter` or
`BinaryCode`.  `todo` is the stack of the generated `write` functions that are running, each with
the struct or list it writes and the place it has come to; the fields are in a table
for each struct, with those that have an `__isset`.  One action is one call of the protocol, or
one `if` of a field that is not set.  `Received` is the generated `read` of an agent; an
older agent is one that does not know some fields, and skips them.  A read function
is a recursive function of the bytes: `Pass` is one pass of its loop, `ValueAt` one value, and `Reader` goes
down through the structs and the calls of `skip` inside each other, of which there may be
64 (`RecursionLimit`).  `Proper` is a struct as the C++ types allow it, `Stored` a span as the tracer keeps it.
The extension never calls `emitZipkinBatch`; it is the client's other call.

### Loopback, TSocketWriter, FramedReader, BinaryFlush

`BinaryFlush` is a worker as the branch for `TBinary` is written (no build contains it):
`flush` opens a `TSocket`, sends all spans as one frame and closes it.

| Module | Models |
|---|---|
| `Loopback` (external) | the connections as the kernel keeps them: bytes sent, read, and what is left when an end is closed; a full window blocks the sender |
| `TSocketWriter` | `open` (every address, with its `catch`), `openConnection`, `write`, `write_partial`, `close`; each system call may fail |
| `FramedReader` | `TFramedTransport::readFrame` over `TSocket::read` with its retries; the reader is the agent, as a server of this library |
| `BinaryFlush` | the tracer, `flush` step by step, who called it, and where an exception ends: in the script, or with the process |

One action is the code between two system calls, so the agent acts in between.  The
worker is one thread and has no other concurrency.  Bytes are counted; a batch is its
set of spans with the length `PayloadOf` gives it.  With `SO_LINGER` on and a time
of 0, which `setLinger(1, 0)` asks for, `close` resets the connection and the kernel
drops what it has not transmitted: `Cuts` leaves the agent all or nothing of the unread
rest.

### Printer, ExternalUri, SpanData

`Printer` is the debug log: one mutex, one stream that may be bad, and the fact that
a failed open of a bad stream throws with the mutex locked.  `ExternalUri` holds the
pure part of external calls.  `SpanData` composes both with `addTags`, `addLogs`,
`print`, `init`, `startExternalTracing` and the end of a request.  A call is the list
of its steps (`steps`), most of them printed lines; an exception drops the rest of
the list, in a destructor or in `onIdle` it ends the process (`Terminate`), and a line
that meets its own mutex never returns (`Hang`).  `call` is a history of what the
call was asked.

## 3. Runs

| Run | What it checks | Bounds |
|---|---|---|
| `flush` | ranges stay inside the logs, each log once and in order, packets fit, no log is lost, a span that fits is not cut; `flush` implements `LogDelivery` and ends | two spans, flushed in either order, each with up to 3 logs of sizes 4 and 20, or 5 logs of which one is 1, 5 or 20; bases of 1, 8, 20 units; a packet of 12; both reporters |
| `worker_safety` | all sequences of calls of a process: active ids, sampling mark, single report, one decision, nothing lost silently | 3 span ids (interchangeable), one service, a 50% sampler |
| `worker_life` | every sampled span is reported in the end; the refinement of `SpanLifecycle` | 2 span ids, remote flags with the debug bit |
| `propagation` | a span continues the trace and the decision of the span it was called from, through any sequence of requests and messages; a payload is cut at its own first bar, once, and nowhere else | 2 processes and callers of other makes, words of 2 digits, 3 new ids, 3 spans, payloads with and (after a hop) without a bar |
| `memory_buffer` | the buffer is a queue of bytes, its positions stay in order, nothing unwritten is read, it refuses writes only near its maximum | a width of 3 bits for the size, buffers of 0, 3 and 5 bytes with a maximum of 3 or 6 (so also one larger than its maximum), writes of a few bytes |
| `compact_stream` | what `skip` reads is what was written, whole datagrams are read, cut ones and too deep ones refused, the stacks follow the structs, for one batch after another | 8 calls that open something; ids 1, 16, 17; sizes 0, 1, 2, 14, 15; at most 3 calls of `skip` inside each other |
| `emit_batch` | agents, today's and older ones, find the batch, each tag with its type and value, and the notes in front of the logs, in both protocols | spans with 0, 1, 3 logs, 0 or 4 tags, four contexts, every range of logs; whole batches of 0, 1, 2 spans; Zipkin spans with and without each optional field |
| `binary_flush` | no descriptor leaks, the agent accepts whole batches and no span twice, a span stays stored until its frame was sent, and `flush` ends, while any system call fails and the agent hangs up, stops and starts | 2 spans, 2 connections, a window of 6 bytes, batches of 1 to 3 bytes of which the longest is refused, 2 addresses, one retry |
| `span_data` | tags keep their first value and their order, the ini lists decide about external calls, and a process gets stuck only after the log threw | 2 spans, one log each; lists with repeated keys; lists of hosts with and without a trailing `;` |
| `flush_span_id`, `flush_omission`, `worker_service` | a statement of a document or a comment that the code does not keep; TLC shows the sequence | as above, with one span or two |

**Why these bounds.**  The sizes are chosen by what they do: a log of 1 unit
shares a packet with others, 4 and 5 make a packet hold two, 20 fits nowhere; bases of
1, 8 and 20 units leave room for many logs, for one, for none.  With five logs the
shares (all, three quarters, half, a quarter, one) differ from each other, a span is cut
more than twice, a first part of one log occurs, and an oversized log stands at the
start, in the middle and at the end.  The second span, of any of these shapes, finds
whatever the first left in the locals.  Three spans
give a parent, a child and a span of another trace or tracer; ids are only
compared, so they are symmetric (`worker_life` checks liveness and has no
symmetry).  A 50% sampler lets either decision happen.  The values of the header
flag that matter are 0 (no header), 1 (sampled) and 2 (debug).  Differences of
field ids change their form between 15 and 16, sizes between 14 and 15, and varints
between 127 and 128; `MCCompactStream` has values on both sides of each.  Eight
calls are enough for a field after a nested struct, a collection of collections
and a boolean next to each kind of field.  A `SkipLimit` of 3 stands for the 64 of
`TProtocol.h:202`, so that eight calls reach both sides of it.  Two connections are enough for a flush
that fails, another span, and a second flush of both (a batch that grew), and for the
second flush that `onIdle` makes; a frame of 5 to 7 bytes needs two sends, and the
longest does not fit the window, so that the worker waits for the agent.  In `span_data`
two spans give a current span and one under it, and a call after an exception is what
the mutex is about.

**Fairness.**  `JaegerFlush` assumes weak fairness of its next step: it is
sequential code that is always scheduled.  `TracerWorker` assumes it only of the
end of a request: PHP bounds the time of a request and calls `onIdle` after it.
A command line script that runs for ever does not satisfy this, and for it
`EventuallyReported` says nothing.  `BinaryFlush` assumes it of `FlushStep` (a system
call that can return does) and of `AgentStep` (an agent that runs goes on reading what
is there).  Nothing is assumed of the script, of signals and errors, nor that the agent
ever stops or starts; a stopped agent resets its connections, which is what frees a
blocked `send`.  An agent that runs but reads no more would block `flush`, which sets
no send timeout, for ever.

Deadlock is checked in every run but `span_data`: there a process that waits for
its own mutex has really stopped (`StuckOnlyAfterThrow` says when).

## 4. Proofs

`JaegerFlush_proofs`: `FlushTypeCorrect` and `RangesStayInLogs`, for every
finite set of spans, every number and size of logs and every limit.  `RangeInLogs`
(no call of `jaegerizeSpan` reads outside `_logs`) is not inductive: it
speaks of the last batch only.  The invariant `SearchInLogs` adds where the search
stands: `indexStart` is within the logs while a span is searched, and `indexStart +
indexCount` is as well once a batch was built for this position; `ShareBound` and `CountBound`
are the arithmetic it rests on (the clamped, rounded share of *n* remaining logs lies between 1
and *n*).

The same module goes on, again for every set of spans, every
shape and every size, with `LogsInOrder`, `PacketsFit`, `CutsAreNeeded`, `OneOwnId` (two parts
of a span never share its id: `PartsDiffer`, which no run checks), `NoLogLost` and the refinement `FlushImplementsDelivery`.  The invariant is `Parts`.
`EachLogOnceInOrder` needs to know where the last part of the current span ended
and that spans left to do have no packet yet (`Position`); `PacketFits` needs what the search knows of
its batch, that it fits or the span fits nowhere (`BatchHere`), which also says that a log
is left out only when it is too large; `CutOnlyIfNeeded` needs that a span that
fits is taken whole at the first try (`WholeFirst`); `PartsDiffer` needs that a part that ends with the
last log is the last (`OnlyLastEnds`); `AllLogsExist`, which speaks of the
end, needs how far it has come (`LogsSoFar`), as does the refinement (`ReportedSoFar`).
With regard to the packets a step does one of five things: none of this (`Elsewhere`),
take a span, go on searching, keep a batch and go on with the span, or keep it and
leave the span.  Of sums of sizes only the empty one and that of one log occur in the
argument: `flush` trusts the size it measured and nothing else.

`TracerWorker_proofs`: the five invariants of `worker_safety` for any number of
spans, services, sampler settings and flags.  None of them is inductive alone.
`ActiveSpansStored` needs that a new id is not among the stored ones, and so that
whatever the tracer stores has been made (`Stored`); `ReportedOnce` needs the same to
know that a new span was not reported before; `TypeOK` needs the active ids to
be distinct, for the effect of erasing one.  `Inv` is their conjunction.  Every
action does one of four things to the tracer: nothing, finish one span, empty it, add
one span (`StepClasses`), and `Inv` is shown to be preserved by each of the four.
The assumption is `WorkerAssumption`: percentages are percentages, flags are
naturals, the constants that stand for "no span", "none" and "remote" are not span ids, and
"curl external" is not a service of the user.

`NothingLostSilently` proves the action property `NoSilentLoss` from the same classes: a span
leaves only when the tracer is emptied, and then it was flushed with the transport
the call leaves on (`Reporting`).  `WorkerImplementsLifecycle` proves the refinement of
`SpanLifecycle`: `Stage` is the place of a span in its life, and every class moves it
on or leaves it.

`MemoryBuffer_proofs`: `TypeOK`, `PositionsInBuffer`, `WrittenBeforeRead` and the
refinement of `ByteQueue`, for every width, size and sequence of calls.  The
three invariants are proved together.  A call does one of three things, and each
has a lemma: it stores bytes (and grows), it moves the reading positions on, or
it empties the buffer; the refinement follows the same cases, with the waiting
bytes as a sequence (`PieceIsSequence`).  `RefusedNearMaximum` proves `RefusedOnlyNearMaximum`: a size
the loop of `ensureCanWrite` tries is twice one it tried before or twice the old size (`HalfWasTried`), and
doubling never ends below the largest number (`LastDoubling`).

`ThriftProtocols_proofs`: what the write calls of the compact protocol encode, the read calls give
back, whatever follows it, and of a part of it they read nothing: `ScalarsReadBack`,
`FieldHeadersReadBack`, `CollectionsReadBack` and `MapsReadBack`, for every type, value, id and size,
with `ZigZagUndone` and `ZigZagFits` for the integers and `ShortHeaderRead` for the one-byte header.
The hypotheses are those of the C++ types: a value is `Carried`, a size or an id is
`Short`, that is, its varint fits the ten bytes of the buffer in `readVarint64`.  `WordsAreShort` shows that
every number of 64 bits does, so nothing the program can pass is left out.  `Varint` and `Number` are
recursive functions, and the induction theorems of the library cannot be used; in their place
`LeastNumber` finds the least number without a property, and `FunctionExists` shows that a recursion on the naturals that
goes down defines a function, so that the equations of `Varint` and `Number` hold
(`VarintDef`, `NumberDef`).  The rest follows the decoders from one byte to the next: `Agrees(s, e)` says
that `s` begins with `e` as far as it goes, and each decoder gets one lemma for an `s` that agrees
with an encoding (`VarintFound`, `TextFound`, `HeaderFound` and so on).
For the binary protocol the same is proved of what `EmitBatch` uses of it: a number of one to
eight bytes comes back from its big-endian form with its sign (`SignedBack`), and so do values, headers
and sizes (`BinaryScalar`, `BinaryHeader`, `BinaryCollection`).  `HeldIsCarried` says that the values of the
C++ types meet the hypotheses of both, and `HeadersAreGood` puts both protocols into one statement.

`CompactWriter_proofs`, first part: all three invariants of `compact_stream`, for every client and
every cut.  `ProtocolNests` proves `NestingMatches`; `NestInv`
adds what the property leaves out: the elements of the two stacks are
sequences, the outermost element is 0 (`lastField[1] = 0`), a boolean waits only inside a
struct, and nothing is open once a datagram is sent.  `PushItem`, `PopItem`
and `AddElements` say how the work lists change the depth, which is a
cardinality.

`HeardAsTold` and `CutIsThrown` prove `HeardIsTold` and `WholeOrThrown`.  Neither is inductive: they compare
two lists of calls and say nothing of the bytes between them.  `StreamInv` does: while a datagram is
written there is a trace (`Tells`), a state of the protocol object for every call told, such
that each call leads from one state to the next and puts its own bytes at its own place in `wire`
(`Link`, `Turn`).  Once the datagram is sent the trace stays what it is, and the reader's object is in the
state of the trace that belongs to the calls heard so far, its bytes being those that are left
(`Followed`).  A read call then finds the bytes of the next call (`Ahead`), decodes it by the lemmas of
`ThriftProtocols_proofs` and moves on by one (`Hears`, one lemma for each read call); where
the bytes end too early it finds nothing (`MessageMissing` and its like), and `EndReading` throws,
as it does where `skip` is too deep (`TooDeep`).
A boolean field is the hard case: header and value are one byte, two calls of the client
and two of the reader, so the invariant allows one call to be told while its byte is
not written (`OneWaits`, `BoolComes`).  `StreamAssumption` is what the types
of the interface give: ids, values and sizes are `Short` or `Carried`.

`CompactWriter_proofs`, second part: the three invariants of `emit_batch`, in both protocols.
`AgentsRead` proves `AgentReads` for every batch of values the C++ types can hold (`ReportsAssumption`) and every
agent, whichever fields it does not know.  There are two halves.  The first is about bytes: an encoding
is *good* if every agent, with whatever bytes behind it, finds there what it knows of the value and
goes on after it, and if `skip` goes on after it as well (`ValueGood`, `FieldsGood`).  A scalar's encoding
is good by `ThriftProtocols_proofs`; a field in front of good fields is good (`FieldGood`), an unset one adds nothing
(`NoFieldGood`), the stop is good (`StopGood`), good fields make a good struct (`StructGood`) and good
elements a good list (`ElemsNext`, `ListEnds`).  Since `Rank` goes down from a struct to those in it, the
nesting stays below `RecursionLimit`.  The second half is about the writer, which makes these encodings from front to
back: `EmitInvariant` says that while a write function runs, what is written followed by any good
completion of the functions on `todo` is a good call.  A completion is made frame by frame: the
`Tails` of a frame are the bytes that may follow once the frames above it are done (`Chained`, `Busy`).  With
the compact protocol the completions depend on the ids, so a ghost stack `S` of them follows the structs
(`Stack`), which is `lastField_` with `lastFieldId_` on top; between the two calls of a boolean its header
is not written yet (`WaitsFor`).  Each call has one lemma on frames and one on `Busy` (`StructFollows`,
`StructBusy` and so on).  `EmitInv` quantifies over all bytes that might follow, so TLC cannot evaluate it; what
it checks is `AgentReads`.

`TagsAreFound` and `NotesAreFound` prove `TagsSurvive` and `NotesComeFirst` from `AgentsRead`.  An agent that
knows every field finds a proper struct whole (`VisibleWhole`), hence the one batch that `Jaegerize` made
(`BatchFound`).  `ToReportIs` says which spans are in it: the loop of `jaegerizeTracer` keeps the *k*-th
sampled or debugged span at place *k*; the loop is a recursion over the list (`LoopIs`), and its
places are cardinalities.  The notes stand one unit of time before, or at, the time of the
first log of the part, and the logs are in the order of time.  Both rest on `SpansAssumption`: tags have the types
`addTags` gives them; the logs of a span are in order of time, since `addLogs` stamps
each with the clock of the call (so the wall clock must not go back between two of them); and `flush`
asks for ranges of logs the span has, which `RangesStayInLogs` proves of it.

`BinaryFlush_proofs`: all four invariants of `binary_flush`, for any number of
spans, addresses, connections and retries and any lengths of batches.
That no span is read twice (`NothingAcceptedTwice`) rests on both ends: the frames that
were sent whole have no span in common, because `flush` sends what is stored and clears it
once its frame is out (`FlushInv`, `SentApart`); and the agent accepts the frame of a connection
once, because it is read past it or has hung up afterwards (`ConnInv`, `AcceptedInv`).
`ReaderInv` says where in a frame the agent is.  A step of the worker leaves the
reader's variables alone and changes no frame that is whole (`Unread`), a step of the
agent leaves the frames and what was sent (`Kept`), so each part of the invariant has one lemma for
each side.  The assumptions are those of the modules: a batch has bytes, the window is not empty,
and the timeouts are naturals.

`Propagation_proofs` goes from digits to traces.  A number is read back from its digits, whatever the
base and however many zeros stand in front (`NumeralSpells`, `PaddedSpells`), and a word of sixteen digits is
neither longer nor out of the reach of `stoul` (`WordFits`, `StoulReads`), so a trace id is told apart
into its two words by its length (`LongTrace`, `ShortTrace`).  That gives one hop, for every context:
`StringCarrierRead`, `MapCarrierRead` and `ForeignMapRead`.  A context that is read has all its ids; through the
string carrier it has its flags just if they are below ten (they are written in
hexadecimal and read in decimal), which `CarriersReadFlags` states for all carriers together.
Over hops, `PayloadCutOnce` proves `PayloadKept` and `IdsKept` that ids survive, with no hypothesis;
`TraceKept` and `TraceContinued` prove `TraceSurvives` and `NeverStartsAnew` for any number of processes,
spans and hops, where callers send flags below ten.  `TraceInv` is the invariant: headers of an earlier hop that
are still in a map, or a context behind the payload, never get in the way (`Injected`, `Carries`,
`MessageInv`), and the flag a process remembers is one some caller sent (`FlagKnown`).

`SpanData_proofs`: `StuckOnlyByLog` proves `StuckOnlyAfterThrow`.  Whether a deleted tracer is
followed by a new one depends on what is left of the call, so the invariant (`Sound`) speaks of the list
`steps`: every deletion in it is followed by a step that replaces the tracer
(`Repaired`), which holds of the list each call makes and of the rest of such a list
(`RestIsRepaired`).  `SpanDataTypeCorrect` is the type invariant this needs.
`TagsGiven` proves `TagsAsGiven` for lists of any length.  Its invariant (`GivenInv`) says that
for some `n` the span holds what the first `n` tags of the call leave of it and the steps are the tags after
these (`TagsLeft`), or none at all once an exception broke the call off.  A tag whose key
is held changes neither (`OldKey`); a new one stands last and is the first of its key in
the list (`NewKey`).  An exception reads and changes the record of the call, so what a record can be
(`CallType`) is part of the invariant.
`ExternalDecided` proves `ExternalAsListed` for any settings and uris (`SpanDataAssumption`: texts
are sequences, spans are numbered from one on).  `parseHostsStr` recurs over the places of
the setting.  That such a function exists (`HostsDefined`) comes from `ThriftProtocols_proofs`, as for
`Varint`; that it yields the hosts which `Listed` describes by their place between two
semicolons (`FilterDecides`) is shown of the place nearest to the end where it would not
(`FilterFrom`).  The rest is about the list `steps` again.  A span that is stored is a
new one and has no tags yet (`Fresh`, with `Placed` about the stores and tags that are left), and the
mark of an external call is on the span or still in `steps`, unless an exception broke the
call off, and is in neither when the host is listed (`Marked`).

Only model-checked: liveness (`Termination`, `EventuallyReported`, `FlushEnds`) and what is enabled, which are out
of the prover's reach.  Every other property of a passing run is stated by a theorem.

One caution for who extends the proofs: tlapm computes products of literals in machine integers, so
that 65536^4 becomes 0.  No obligation here contains such a product: `WordsAreShort` is arranged
in steps of sixteen bits, and `Word` divides instead.

## 5. What the code does otherwise than it says

`PROJECT.json` ("findings") quotes the lines; each has a run that shows it.

- A first part of exactly one log leaves the part number at 1, so the span's own
  id may be kept by no part at all (`SpanIdKept`); the same slip labels two packets
  "PART 1".
- The only log of a span, when too large, is dropped without a note (`OmissionAnnounced`).
- Nested external calls leave the process under the name "curl external" (`ServiceRestored`).

Observed without a run of their own:

- The parts of a span never share its id, while `src/Helper.cpp:257` says "this could be in
  different spans with the same id" and the README (line 166) "multiple identical
  spans": a part gets a random id unless it is the last one (`Helper.cpp:428`, 439).  That is
  proved (`OneOwnId`); `SpanIdKept` shows that even the last may not have it.
- A second `init` that switches UDP off drops the open spans of the first, which the
  README (line 120) says are flushed: `udp_transport` is assigned (`Tracer.cpp:88`) before the old
  tracer is deleted and flushed.  `NoSilentLoss` and `EventuallyReported` make the exception.
- `flush` on a trace that is not sampled returns before `clearSpans` (`JaegerTracer.cpp:327`), so a
  long running script that flushes "to avoid memory burst" (README, line 122) keeps its spans.
- An external call without `init` makes a tracer that records (`Tracer.cpp:504`), where
  the README (line 30) says that "all consequent calls will operate as noop".
- A trailing `;` in an ini list is an empty host (`Tracer.cpp:631`), and every uri starts with
  it; `Listed` in `SpanData` counts it, as the code does, so `ExternalAsListed` does not object.
- A request without the sampling header is decided by the header of an earlier request of the
  same worker (`TextCarrier.cpp:83`, `RootFlags`).
- A bar of the payload itself is taken for the delimiter: `inject` replaces what is behind it
  (`TextCarrier.cpp:41-42`), so the first hop cuts such a payload.  Later hops cut no more
  (`PayloadKept`).  A message with bars to which nothing was injected is parsed behind the first.
- A sampling header that starts with no digit ends the worker: `stoul` throws `invalid_argument`, and
  `extract` catches only `out_of_range` (`TextCarrier.cpp:83-87`; `ExtractNoNumber`, `EndByRequest`).
- In the branch for `TBinary`, `flush` leaves `_isSampled` as it is, so the delete in `onIdle` sends
  a second, empty batch over a second connection; if that fails, the worker dies.
- Whatever the socket throws in `onIdle` or in a destructor would end the process
  (`WorkerDies` in `BinaryFlush`), and so does the debug log there (`Terminate` in `SpanData`).
- `TSocket.cpp:418` says that the EAGAIN threshold ensures "that the read timeout is
  not exceeded".  The retries may last a timeout each, so they can exceed it; the time they
  add up to is not modelled.
- `write_partial` announces at `TSocket.cpp:548` that it closes the socket on EPIPE and does
  not; `flush` abandons it to the destructor.  `write` does not try again after EINTR, as `read` does.
- A `connect` that gives EWOULDBLOCK is polled and may be taken for connected
  although nobody is: the first `send` finds out.
- With `setLinger(1, 0)` a frame that was sent whole and closed may still be dropped by the kernel,
  so a span that left the tracer need not arrive (`SpansKeptUntilSent` promises no more than the send).
- `initInternal` deletes the old tracer before it stores a new pointer
  (`Tracer.cpp:97-108`): a line that throws in between leaves `global_tracer`
  dangling, and the next call uses it (`UseDeleted`).
- `Tracer::print` swallows the exception of the log, so that a script may first notice a
  bad log when its next line hangs.
- An exception at the last line of `startExternalTracing` leaves the span active though the
  script never gets it; `startExternalTracing` without a tracer turns debugging off.
- An uri without a scheme that has `://` in its query is stripped to what follows.
- With `udp_transport` off `addTags` and `addLogs` store nothing and say nothing.
- If a span does not fit even without its logs, the search gives up with the
  oversized batch and sends it (`GiveUp` in `JaegerFlush`; `PacketFits` allows for it).
- A `NoopSpan` kept across `init` and passed to the new tracer is a null pointer
  dereference (`UseNoopSpan` in `TracerWorker`).
- The string carrier writes flags in hexadecimal and reads them in decimal; the map
  carrier writes and reads decimal.  Flags of this code are below 4, and below ten nothing
  is lost (`StringCarrierRead`).
- Without the B3 headers `extract` starts a new trace.
- The bytes `flush` reserves for the message header are counted although the size it
  compares already includes that header: packets end a little early.
- This copy of `TBufferBase` has no `borrow`, so `borrowSlow` has no caller and the
  fast path of `readVarint64` is never taken; both paths read the same.
- `addTags` keeps the first value of a key.

## 6. Not modelled, and why

- Collisions of random 63-bit ids: a new span takes an id that is not in use.
- Host names, addresses, the clock (`Process`): system calls without state.
- The names of external spans and the wording of debug lines; the lines the socket prints.
- The destructors PHP runs on objects of `NoopSpan`: they have no state.
- In the socket: peek, the setters and getters, the interrupt listener and Unix
  domain paths, none of which `flush` uses; and the limit of 2 GB of a buffer.  The agent's host is a
  literal address, so `getaddrinfo` returns one; the loop over addresses is checked with two.
- How long a read of the socket lasts in all: only how long one try waited, which decides whether there is another.
- The branch for `TBinary` ignores the reporter's address and port.  The batch it
  leaks when `flush` throws is memory, and not counted.
- In the compact protocol: the limits on strings and containers (they are not set) and the
  writer's limit on nesting (its structs are five deep), the truncation of an over-long varint to 64 or 32 bits (no writer makes one),
  and the bits of a double, which is its eight bytes.  In the binary protocol: headers of maps
  (no struct has one), replies (`emitBatch` is oneway), limits on sizes and the historical type codes.
- `TBufferedTransport` and the other transports of Thrift: not used.
- The file reporter writes nothing.

## 7. Plan

Done, in this order: `JaegerFlush` with `LogDelivery`; `TracerWorker` with
`SpanLifecycle`; `Propagation`; the Thrift layers from the buffer (`ByteQueue`) over the
two protocols to the generated types; the flush over a socket, with an agent that
comes and goes; the data of spans with the debug log; the proofs of section 4.

Left, the most useful first:

1. The composition of `TracerWorker` with `JaegerFlush`, with the refinement that a call of
   `Flush` in the first is a run of the second; both are checked apart today, with
   the sending of a span as the interface.
2. The buffered transport and the interrupt listener of the socket, if the extension comes to use them.

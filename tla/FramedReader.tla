---------------------------- MODULE FramedReader ----------------------------
(***************************************************************************)
(* The receiving half: TFramedTransport::readFrame over TSocket::read.     *)
(* The worker only writes; what reads is the agent, here a server that     *)
(* uses this library and serves one connection after the other.  An        *)
(* exception ends a connection.                                            *)
(***************************************************************************)
EXTENDS Loopback

CONSTANTS
    RecvTimeouts,    \* milliseconds, the arguments of setRecvTimeout
    MaxRecvRetries,  \* maxRecvRetries_
    MaxFrameSize,    \* maxFrameSize_
    Waits            \* microseconds a recv may last before it fails

ASSUME ReaderAssumption ==
    /\ RecvTimeouts \subseteq Nat
    /\ MaxRecvRetries \in Nat
    /\ MaxFrameSize \in Nat
    /\ Waits \subseteq Nat

VARIABLES
    listening,    \* the agent runs
    serving,      \* the connection it reads, 0 if none
    recvTimeout,  \* recvTimeout_ of its socket
    nth,          \* which frame of the connection is read
    got,          \* the bytes of that frame that were read
    retries,      \* the local of TSocket::read
    accepted      \* the batches the agent has read

readerVars == <<listening, serving, recvTimeout, nth, got, retries, accepted>>

\* The time after which EAGAIN is taken for a timeout.
EagainThreshold ==
    (recvTimeout * 1000) \div (IF MaxRecvRetries > 0 THEN MaxRecvRetries ELSE 2)

Frame == conns[serving].frames[nth]

\* readFrame asks for the rest of the size, then for the rest of the payload.
Want == IF got < HeaderBytes THEN HeaderBytes - got ELSE FrameBytes(Frame) - got

\* The server takes the next connection: setSocketFD, setRecvTimeout.
Serve(c) ==
    /\ listening
    /\ serving = 0
    /\ conns[c].agent = "queued"
    /\ conns' = [conns EXCEPT ![c].agent = "served"]
    /\ serving' = c
    /\ recvTimeout' \in RecvTimeouts
    /\ nth' = 1 /\ got' = 0
    /\ retries' = 0
    /\ UNCHANGED <<listening, accepted>>

\* read returned 0, or threw, and the server closes the socket.
HangUp ==
    /\ conns' = Dropped({serving})
    /\ serving' = 0
    /\ nth' = 1 /\ got' = 0
    /\ recvTimeout' = 0 /\ retries' = 0
    /\ UNCHANGED <<listening, accepted>>

\* k bytes are returned; the next read starts.
Received(k) ==
    /\ conns' = [conns EXCEPT ![serving].taken = @ + k]
    /\ retries' = 0
    /\ UNCHANGED <<listening, serving, recvTimeout>>

ReadSome(k) ==
    /\ got + k < FrameBytes(Frame)
    /\ got + k = HeaderBytes => PayloadOf[Frame] <= MaxFrameSize
    /\ got' = got + k
    /\ Received(k)
    /\ UNCHANGED <<nth, accepted>>

\* The payload is complete.
ReadTheRest(k) ==
    /\ got + k = FrameBytes(Frame)
    /\ accepted' = Append(accepted, Frame)
    /\ got' = 0 /\ nth' = nth + 1
    /\ Received(k)

\* Received an oversized frame.
ReadOversized(k) ==
    /\ got + k = HeaderBytes
    /\ PayloadOf[Frame] > MaxFrameSize
    /\ HangUp

\* recv returns what is there, and no more than was asked for.
RecvData ==
    /\ serving # 0
    /\ Available(serving) > 0
    /\ LET k == IF Available(serving) < Want THEN Available(serving) ELSE Want
       IN ReadSome(k) \/ ReadTheRest(k) \/ ReadOversized(k)

\* The end of the data, or ECONNRESET, for which read returns 0 as well.
\* readFrame returns false before a frame and throws inside one.
RecvEnd ==
    /\ serving # 0
    /\ Available(serving) = 0
    /\ conns[serving].worker # "open"
    /\ HangUp

RetryOnceMore ==   \* mutant: <= for <
    /\ retries <= MaxRecvRetries
    /\ retries' = retries + 1
    /\ UNCHANGED <<listening, serving, recvTimeout, nth, got, accepted, conns>>

\* recv is tried again, as long as retries lasts.
Retry ==
    /\ retries < MaxRecvRetries
    /\ retries' = retries + 1
    /\ UNCHANGED <<listening, serving, recvTimeout, nth, got, accepted, conns>>

\* recv waits when there is nothing to return, and no longer than the timeout
\* the socket has.
RecvWaits(w) ==
    /\ serving # 0
    /\ Available(serving) = 0
    /\ conns[serving].worker = "open"
    /\ recvTimeout > 0 => w <= recvTimeout * 1000

\* EINTR
Interrupted(w) ==
    /\ RecvWaits(w)
    /\ Retry \/ (retries = MaxRecvRetries /\ HangUp)

\* EAGAIN: no timeout is set, the timeout is over, or there are no resources,
\* which it pauses for.
Again(w) ==
    /\ RecvWaits(w)
    /\ IF recvTimeout # 0 /\ (EagainThreshold = 0 \/ w < EagainThreshold)
       THEN Retry \/ (retries = MaxRecvRetries /\ HangUp)
       ELSE HangUp

\* ENOTCONN, ETIMEDOUT, and every other error.
RecvFails == serving # 0 /\ HangUp

\* What an agent that runs does, and what may happen to it.
ReaderStep   == (\E c \in DOMAIN conns : Serve(c)) \/ RecvData \/ RecvEnd
ReaderErrors == RecvFails \/ \E w \in Waits : Interrupted(w) \/ Again(w)

\* The agent stops, and its connections with it; it starts again.
AgentStops ==
    /\ listening
    /\ listening' = FALSE
    /\ conns' = Dropped(DOMAIN conns)
    /\ serving' = 0
    /\ nth' = 1 /\ got' = 0
    /\ recvTimeout' = 0 /\ retries' = 0
    /\ UNCHANGED accepted

AgentStarts ==
    /\ ~listening
    /\ listening' = TRUE
    /\ UNCHANGED <<serving, recvTimeout, nth, got, retries, accepted, conns>>
=============================================================================

------------------------------ MODULE Loopback ------------------------------
(***************************************************************************)
(* The TCP connections between a PHP worker and the Jaeger agent, as the   *)
(* kernel keeps them.  Bytes are counted; what they say is known from the  *)
(* batches whose frames were written to the connection.                    *)
(***************************************************************************)
EXTENDS Integers, Sequences

CONSTANTS
    Spans,      \* the spans of one worker, by number
    PayloadOf,  \* how long a batch is when it is serialized
    MaxConns,   \* bound: connections in one behaviour
    Window      \* how many bytes the kernel holds for a reader

Batches == SUBSET Spans

ASSUME LoopbackAssumption ==
    /\ Spans \subseteq Nat
    /\ PayloadOf \in [Batches -> Nat \ {0}]
    /\ MaxConns \in Nat
    /\ Window \in Nat \ {0}

VARIABLE conns  \* every connection that was ever established

ConnType ==
    [frames : Seq(Batches),                 \* what the worker began to write
     sent   : Nat,                          \* bytes send accepted
     taken  : Nat,                          \* bytes recv returned
     cut    : Nat,                          \* bytes there are, once it is closed
     worker : {"open", "closed"},           \* the worker's end
     agent  : {"queued", "served", "closed"}]

NewConn == [frames |-> <<>>, sent |-> 0, taken |-> 0, cut |-> 0,
            worker |-> "open", agent |-> "queued"]

HeaderBytes == 4   \* sizeof(sz)
FrameBytes(b) == HeaderBytes + PayloadOf[b]

\* The bytes that are somewhere between send and recv are limited.  The first
\* bytes for a peer that is gone are taken too; its answer is an error.
Room(c) ==
    IF conns[c].agent = "closed" THEN Window
    ELSE Window - (conns[c].sent - conns[c].taken)

\* What the agent can still read.
Available(c) ==
    (IF conns[c].worker = "open" THEN conns[c].sent ELSE conns[c].cut) - conns[c].taken

\* What may be left when the worker's end is closed.  With SO_LINGER on and a
\* linger time of 0 the kernel resets the connection and drops what it has not
\* transmitted: here nothing, or all that the agent has not read so far.
Cuts(c, linger) ==
    IF conns[c].agent = "closed" THEN {0}
    ELSE IF linger THEN {conns[c].taken, conns[c].sent}
    ELSE {conns[c].sent}

HangUpWorker(c, linger) ==
    IF c = 0 THEN UNCHANGED conns
    ELSE \E cut \in Cuts(c, linger) :
            conns' = [conns EXCEPT ![c].worker = "closed", ![c].cut = cut]

\* The agent's end of some connections is closed, and what is there is dropped.
Dropped(cs) ==
    [c \in DOMAIN conns |->
        IF c \in cs THEN [conns[c] EXCEPT !.agent = "closed", !.taken = 0, !.cut = 0]
        ELSE conns[c]]
=============================================================================

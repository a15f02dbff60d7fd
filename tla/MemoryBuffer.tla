---------------------------- MODULE MemoryBuffer ----------------------------
(***************************************************************************)
(* TMemoryBuffer: the memory a batch is serialized into before it becomes  *)
(* a datagram.  It grows by doubling; two positions say where reading and  *)
(* writing go on.  rBound, the end of what the fast path may read, is a    *)
(* copy of wBase that the code refreshes only now and then.  Positions     *)
(* are offsets from buffer_.  An action is one call of the public          *)
(* interface.  Every buffer here is owned: the constructors and the reset  *)
(* for foreign memory are commented out in the source.                     *)
(***************************************************************************)
EXTENDS Integers, Sequences

CONSTANTS Bytes,     \* the values of a byte
          Garbage,   \* the content of memory nothing was written to
          Width,     \* bits of a uint32_t
          Sizes,     \* sizes a buffer is made with
          Maxima,    \* arguments of setMaxBufferSize
          Writes,    \* what callers write
          Lengths    \* how much callers ask for

TwoTo[k \in Nat] == IF k = 0 THEN 1 ELSE 2 * TwoTo[k - 1]

Limit == TwoTo[Width] - 1

ASSUME BufferAssumption ==
    /\ Garbage \notin Bytes
    /\ Width \in Nat
    /\ Limit \in Nat
    /\ Sizes \subseteq 0..Limit
    /\ Maxima \subseteq 0..Limit
    /\ Writes \subseteq Seq(Bytes)
    /\ Lengths \subseteq Nat

VARIABLES mem,             \* the allocated cells
          bufferSize, maxBufferSize,
          rBase, rBound,   \* read from here, and to here without a check
          wBase, wBound,   \* write from here, to here
          reply            \* what the last call was given and returned

vars == <<mem, bufferSize, maxBufferSize, rBase, rBound, wBase, wBound, reply>>

Returned(s) == [given |-> <<>>, thrown |-> FALSE, bytes |-> s]
Accepted(s) == [given |-> s, thrown |-> FALSE, bytes |-> <<>>]
Thrown == [given |-> <<>>, thrown |-> TRUE, bytes |-> <<>>]

\* The cells after the positions from and up to to.
Piece(from, to) == [i \in 1..(to - from) |-> mem[from + i]]

-----------------------------------------------------------------------------
(* Construction and growth. *)

Construct(size) ==
    /\ mem' = [i \in 1..size |-> Garbage]
    /\ bufferSize' = size
    /\ rBase' = 0 /\ rBound' = 0
    /\ wBase' = 0 /\ wBound' = size

Init ==
    \E size \in Sizes :
        /\ mem = [i \in 1..size |-> Garbage]
        /\ bufferSize = size /\ maxBufferSize = Limit
        /\ rBase = 0 /\ rBound = 0
        /\ wBase = 0 /\ wBound = size
        /\ reply = Returned(<<>>)

DoublingsOfZero ==   \* mutant: an empty buffer is doubled as well
    {bufferSize * TwoTo[k] : k \in 1..(Width + 1)}

\* The sizes the loop of ensureCanWrite tries.
Doublings ==
    IF bufferSize = 0 THEN {TwoTo[k] : k \in 0..(Width + 1)}
    ELSE {bufferSize * TwoTo[k] : k \in 1..(Width + 1)}

EnoughUnchecked(len) == Doublings   \* mutant: doubles once and does not look again

Enough(len) == {n \in Doublings : len <= (wBound - wBase) + (n - bufferSize)}

GrowthUnlimited(len) ==   \* mutant: the maximum is not checked
    IF len <= wBound - wBase THEN {bufferSize}
    ELSE {n \in Enough(len) : \A m \in Enough(len) : n <= m}

\* The size after ensureCanWrite(len); none if it throws.
Growth(len) ==
    IF len <= wBound - wBase THEN {bufferSize}
    ELSE {n \in Enough(len) \cap 0..maxBufferSize : \A m \in Enough(len) : n <= m}

\* realloc
Grow(n) ==
    /\ bufferSize' = n
    /\ wBound' = IF n > bufferSize THEN n ELSE wBound

CellFresh(i) == Garbage   \* mutant: allocates and forgets to copy

Cell(i) == IF i <= bufferSize THEN mem[i] ELSE Garbage

\* A call that throws before it changes anything.
Refuse ==
    /\ reply' = Thrown
    /\ UNCHANGED <<mem, bufferSize, maxBufferSize, rBase, rBound, wBase, wBound>>

-----------------------------------------------------------------------------
(* Writing. *)

\* write, by its fast path or by writeSlow.
Write(s) ==
    \/ \E n \in Growth(Len(s)) :
           /\ Grow(n)
           /\ mem' = [i \in 1..n |-> IF i \in (wBase + 1)..(wBase + Len(s))
                                      THEN s[i - wBase] ELSE Cell(i)]
           /\ wBase' = wBase + Len(s)
           /\ reply' = Accepted(s)
           /\ UNCHANGED <<maxBufferSize, rBase, rBound>>
    \/ Growth(Len(s)) = {} /\ Refuse

GetWritePtr(len) ==
    \/ \E n \in Growth(len) :
           /\ Grow(n)
           /\ mem' = [i \in 1..n |-> Cell(i)]
           /\ reply' = Returned(<<>>)
           /\ UNCHANGED <<maxBufferSize, rBase, rBound, wBase>>
    \/ Growth(len) = {} /\ Refuse

\* The caller has stored s where getWritePtr told it to, and says so.
WroteBytes(s) ==
    \/ /\ Len(s) <= wBound - wBase
       /\ mem' = [i \in 1..bufferSize |-> IF i \in (wBase + 1)..(wBase + Len(s))
                                           THEN s[i - wBase] ELSE mem[i]]
       /\ wBase' = wBase + Len(s)
       /\ reply' = Accepted(s)
       /\ UNCHANGED <<bufferSize, maxBufferSize, rBase, rBound, wBound>>
    \/ Len(s) > wBound - wBase /\ Refuse

-----------------------------------------------------------------------------
(* Reading. *)

\* The fast path of read and readAll.
FastRead(len) ==
    /\ rBase + len <= rBound
    /\ reply' = Returned(Piece(rBase, rBase + len))
    /\ rBase' = rBase + len
    /\ UNCHANGED <<mem, bufferSize, maxBufferSize, rBound, wBase, wBound>>

\* computeRead and the copy after it; also readAppendToString.
ComputeRead(len) ==
    LET give == IF len < wBase - rBase THEN len ELSE wBase - rBase
    IN /\ rBound' = wBase
       /\ reply' = Returned(Piece(rBase, rBase + give))
       /\ rBase' = rBase + give
       /\ UNCHANGED <<mem, bufferSize, maxBufferSize, wBase, wBound>>

Read(len) == FastRead(len) \/ (rBase + len > rBound /\ ComputeRead(len))

\* The loop of readAll ends with an exception when a read gives nothing; what
\* the reads before it gave is consumed.
ReadAll(len) ==
    \/ FastRead(len)
    \/ rBase + len > rBound /\ len <= wBase - rBase /\ ComputeRead(len)
    \/ /\ rBase + len > rBound /\ len > wBase - rBase
       /\ rBound' = wBase /\ rBase' = wBase
       /\ reply' = Thrown
       /\ UNCHANGED <<mem, bufferSize, maxBufferSize, wBase, wBound>>

\* getBuffer, getBufferAsString, appendBufferToString
GetBuffer ==
    /\ reply' = Returned(Piece(rBase, wBase))
    /\ UNCHANGED <<mem, bufferSize, maxBufferSize, rBase, rBound, wBase, wBound>>

-----------------------------------------------------------------------------
(* Resetting. *)

ResetKeepsBound ==   \* mutant: the fast path may read on to the old end
    /\ rBase' = 0 /\ wBase' = 0
    /\ UNCHANGED <<mem, bufferSize, maxBufferSize, rBound, wBound>>

Reset ==
    /\ rBase' = 0 /\ rBound' = 0 /\ wBase' = 0
    /\ UNCHANGED <<mem, bufferSize, maxBufferSize, wBound>>

ResetBuffer == Reset /\ reply' = Returned(<<>>)

\* resetBuffer(sz): swap leaves the maximum where it is.
ResetBufferTo(size) ==
    Construct(size) /\ reply' = Returned(<<>>) /\ UNCHANGED maxBufferSize

ReadEnd ==
    /\ IF rBase = wBase THEN Reset
       ELSE UNCHANGED <<mem, bufferSize, maxBufferSize, rBase, rBound, wBase, wBound>>
    /\ reply' = Returned(<<>>)

SetMaxBufferSize(size) ==
    \/ /\ size >= bufferSize
       /\ maxBufferSize' = size
       /\ reply' = Returned(<<>>)
       /\ UNCHANGED <<mem, bufferSize, rBase, rBound, wBase, wBound>>
    \/ size < bufferSize /\ Refuse

Next ==
    \/ \E s \in Writes : Write(s) \/ WroteBytes(s)
    \/ \E len \in Lengths : GetWritePtr(len) \/ Read(len) \/ ComputeRead(len) \/ ReadAll(len)
    \/ GetBuffer \/ ResetBuffer \/ ReadEnd
    \/ \E size \in Sizes : ResetBufferTo(size)
    \/ \E size \in Maxima : SetMaxBufferSize(size)

Spec == Init /\ [][Next]_vars

-----------------------------------------------------------------------------
(* Properties. *)

TypeOK ==
    /\ bufferSize \in 0..Limit /\ maxBufferSize \in 0..Limit
    /\ mem \in [1..bufferSize -> Bytes \union {Garbage}]
    /\ {rBase, rBound, wBase, wBound} \subseteq Nat
    /\ reply \in [given : Seq(Bytes), thrown : BOOLEAN, bytes : Seq(Bytes \union {Garbage})]

\* The four pointers stay in the buffer and in order, whatever grew, was reset
\* or was read in between: the fast paths of read and write check nothing else.
PositionsInBuffer ==
    rBase <= rBound /\ rBound <= wBase /\ wBase <= wBound /\ wBound = bufferSize

\* Between the read and the write position lies only what was written: no byte
\* of fresh or moved memory is ever handed out as data.
WrittenBeforeRead == \A i \in (rBase + 1)..wBase : mem[i] \in Bytes

\* ensureCanWrite gives up when doubling would pass the maximum, which it may do
\* although the bytes would have fitted; but never while they fit in half of it.
RefusedOnlyNearMaximum ==
    [][\A s \in Writes :
          Write(s) /\ reply'.thrown => 2 * (wBase + Len(s)) > maxBufferSize]_vars

\* The buffer is a queue of bytes (ByteQueue): in the order they were written,
\* each once, across growth, resets and both paths of a read.
Queue == INSTANCE ByteQueue WITH queue <- Piece(rBase, wBase), reply <- reply
ImplementsQueue == Queue!Spec

=============================================================================

------------------------ MODULE MemoryBuffer_proofs ------------------------
(***************************************************************************)
(* Proofs about MemoryBuffer, for every width, every size and every        *)
(* sequence of calls: the positions stay in the buffer, nothing but what   *)
(* was written is read, the buffer implements ByteQueue, and it refuses a  *)
(* write only near its maximum.  A call does one of three things, and each *)
(* has a lemma: it stores bytes (and grows), it moves the reading          *)
(* positions on, or it empties the buffer.                                 *)
(***************************************************************************)
EXTENDS MemoryBuffer, SequenceTheorems, TLAPS

Numbers == INSTANCE ThriftProtocols_proofs

Inv == TypeOK /\ PositionsInBuffer /\ WrittenBeforeRead

ReplyType == [given : Seq(Bytes), thrown : BOOLEAN, bytes : Seq(Bytes \union {Garbage})]

Data == Piece(rBase, wBase)

DataFacts ==
    /\ Data \in Seq(Bytes)
    /\ Len(Data) = wBase - rBase
    /\ \A i \in 1..(wBase - rBase) : Data[i] = mem[rBase + i]

-----------------------------------------------------------------------------
(* Pieces of the memory are sequences. *)

\* A sequence written as a function is one, and has the length it shows.
LEMMA FunctionIsSequence ==
    ASSUME NEW S, NEW n \in Nat, NEW f \in [1..n -> S]
    PROVE  f \in Seq(S) /\ Len(f) = n
<1>1. f \in Seq(S)
    BY SeqDef
<1> QED
    BY <1>1, LenProperties

\* Positions are in order, so the piece between them has their distance.
LEMMA PieceIsSequence ==
    ASSUME NEW S, NEW from \in Nat, NEW to \in Nat, from <= to,
           \A i \in (from + 1)..to : mem[i] \in S
    PROVE  /\ Piece(from, to) \in Seq(S)
           /\ Len(Piece(from, to)) = to - from
           /\ \A i \in 1..(to - from) : Piece(from, to)[i] = mem[from + i]
<1>1. to - from \in Nat /\ Piece(from, to) \in [1..(to - from) -> S]
    BY DEF Piece
<1> QED
    BY <1>1, FunctionIsSequence DEF Piece

\* What waits in the buffer are bytes.
LEMMA DataIsSequence == Inv => DataFacts
<1> SUFFICES ASSUME Inv PROVE DataFacts
    OBVIOUS
<1>1. rBase \in Nat /\ wBase \in Nat /\ rBase <= wBase
    BY DEF Inv, TypeOK, PositionsInBuffer
<1>2. \A i \in (rBase + 1)..wBase : mem[i] \in Bytes
    BY DEF Inv, WrittenBeforeRead
<1> QED
    BY <1>1, <1>2, PieceIsSequence DEF Data, DataFacts

\* A piece between rBase and wBase is a part of what waits.
LEMMA PieceOfData ==
    ASSUME Inv, NEW k \in 0..(wBase - rBase)
    PROVE  /\ Piece(rBase, rBase + k) = SubSeq(Data, 1, k)
           /\ Piece(rBase + k, wBase) = SubSeq(Data, k + 1, Len(Data))
           /\ Piece(rBase, rBase + k) \in Seq(Bytes)
<1>1. rBase \in Nat /\ wBase \in Nat /\ rBase <= wBase
    BY DEF Inv, TypeOK, PositionsInBuffer
<1>2. \A i \in (rBase + 1)..wBase : mem[i] \in Bytes
    BY DEF Inv, WrittenBeforeRead
<1>3. /\ Data \in Seq(Bytes) /\ Len(Data) = wBase - rBase
      /\ \A i \in 1..(wBase - rBase) : Data[i] = mem[rBase + i]
    BY DataIsSequence DEF DataFacts
<1>4. /\ Piece(rBase, rBase + k) \in Seq(Bytes)
      /\ Len(Piece(rBase, rBase + k)) = k
      /\ \A i \in 1..k : Piece(rBase, rBase + k)[i] = mem[rBase + i]
    <2> DEFINE to == rBase + k
    <2>1. to \in Nat /\ rBase <= to /\ to - rBase = k
        BY <1>1
    <2>2. \A i \in (rBase + 1)..to : mem[i] \in Bytes
        BY <1>1, <1>2
    <2> HIDE DEF to
    <2>3. /\ Piece(rBase, to) \in Seq(Bytes)
          /\ Len(Piece(rBase, to)) = to - rBase
          /\ \A i \in 1..(to - rBase) : Piece(rBase, to)[i] = mem[rBase + i]
        BY <1>1, <2>1, <2>2, PieceIsSequence
    <2> QED
        BY <2>1, <2>3 DEF to
<1>5. /\ Piece(rBase + k, wBase) \in Seq(Bytes)
      /\ Len(Piece(rBase + k, wBase)) = wBase - (rBase + k)
      /\ \A i \in 1..(wBase - (rBase + k)) : Piece(rBase + k, wBase)[i] = mem[rBase + k + i]
    <2> DEFINE from == rBase + k
    <2>1. from \in Nat /\ from <= wBase
        BY <1>1
    <2>2. \A i \in (from + 1)..wBase : mem[i] \in Bytes
        BY <1>1, <1>2
    <2> HIDE DEF from
    <2>3. /\ Piece(from, wBase) \in Seq(Bytes)
          /\ Len(Piece(from, wBase)) = wBase - from
          /\ \A i \in 1..(wBase - from) : Piece(from, wBase)[i] = mem[from + i]
        BY <1>1, <2>1, <2>2, PieceIsSequence
    <2> QED
        BY <2>3 DEF from
<1>6. /\ SubSeq(Data, 1, k) \in Seq(Bytes)
      /\ Len(SubSeq(Data, 1, k)) = k
      /\ \A i \in 1..k : SubSeq(Data, 1, k)[i] = Data[i]
    <2>1. \A i \in 1..k : Data[i] \in Bytes
        BY <1>1, <1>3, ElementOfSeq
    <2> QED
        BY <1>1, <2>1, SubSeqProperties
<1>7. /\ SubSeq(Data, k + 1, Len(Data)) \in Seq(Bytes)
      /\ Len(SubSeq(Data, k + 1, Len(Data))) = wBase - (rBase + k)
      /\ \A i \in 1..(wBase - (rBase + k)) : SubSeq(Data, k + 1, Len(Data))[i] = Data[k + i]
    <2>1. \A i \in (k + 1)..Len(Data) : Data[i] \in Bytes
        BY <1>1, <1>3, ElementOfSeq
    <2> QED
        BY <1>1, <1>3, <2>1, SubSeqProperties
<1>8. Piece(rBase, rBase + k) = SubSeq(Data, 1, k)
    <2>1. \A i \in 1..k : Piece(rBase, rBase + k)[i] = SubSeq(Data, 1, k)[i]
        BY <1>1, <1>3, <1>4, <1>6
    <2> QED
        BY <1>4, <1>6, <2>1, SeqEqual
<1>9. Piece(rBase + k, wBase) = SubSeq(Data, k + 1, Len(Data))
    <2>1. \A i \in 1..(wBase - (rBase + k)) :
             Piece(rBase + k, wBase)[i] = SubSeq(Data, k + 1, Len(Data))[i]
        BY <1>1, <1>3, <1>5, <1>7
    <2> QED
        BY <1>5, <1>7, <2>1, SeqEqual
<1> QED
    BY <1>4, <1>8, <1>9

-----------------------------------------------------------------------------
(* The three things a call does. *)

\* A size ensureCanWrite settles on is not smaller and has room.
LEMMA GrowthHasRoom ==
    ASSUME Inv, NEW len \in Nat, NEW n \in Growth(len)
    PROVE  n \in 0..Limit /\ bufferSize <= n /\ wBase + len <= n
<1>1. /\ bufferSize \in 0..Limit /\ maxBufferSize \in 0..Limit /\ Limit \in Nat
      /\ wBase \in Nat /\ wBound = bufferSize
    <2>1. Limit \in Nat
        BY BufferAssumption, Zenon DEF BufferAssumption
    <2> QED
        BY <2>1 DEF Inv, TypeOK, PositionsInBuffer
<1>2. CASE len <= wBound - wBase
    BY <1>1, <1>2 DEF Growth
<1>3. CASE ~(len <= wBound - wBase)
    <2>1. n \in Enough(len) /\ n \in 0..maxBufferSize
        BY <1>3 DEF Growth
    <2>2. len <= (wBound - wBase) + (n - bufferSize)
        BY <2>1 DEF Enough
    <2> QED
        BY <1>1, <1>3, <2>1, <2>2
<1> QED
    BY <1>2, <1>3

\* Storing s behind what waits appends it, whatever memory was added.
LEMMA Store ==
    ASSUME Inv, NEW s \in Seq(Bytes), NEW n \in 0..Limit,
           bufferSize <= n, wBase + Len(s) <= n,
           bufferSize' = n, wBound' = n,
           mem' = [i \in 1..n |-> IF i \in (wBase + 1)..(wBase + Len(s))
                                   THEN s[i - wBase] ELSE Cell(i)],
           wBase' = wBase + Len(s),
           UNCHANGED <<maxBufferSize, rBase, rBound>>,
           reply' \in ReplyType
    PROVE  Inv' /\ Data' = Data \o s
<1>1. /\ rBase \in Nat /\ rBound \in Nat /\ wBase \in Nat /\ Limit \in Nat
      /\ bufferSize \in 0..Limit /\ maxBufferSize \in 0..Limit
      /\ rBase <= rBound /\ rBound <= wBase /\ wBase <= bufferSize
    <2>1. Limit \in Nat
        BY BufferAssumption, Zenon DEF BufferAssumption
    <2> QED
        BY <2>1 DEF Inv, TypeOK, PositionsInBuffer
<1>2. Len(s) \in Nat /\ \A i \in 1..Len(s) : s[i] \in Bytes
    BY LenProperties, ElementOfSeq
<1>3. \A i \in 1..bufferSize : mem[i] \in Bytes \union {Garbage}
    BY DEF Inv, TypeOK
<1>4. \A i \in (rBase + 1)..wBase : mem[i] \in Bytes
    BY DEF Inv, WrittenBeforeRead
<1>5. \A i \in 1..n : /\ i \in (wBase + 1)..(wBase + Len(s)) => mem'[i] = s[i - wBase]
                      /\ i <= wBase => mem'[i] = mem[i]
    BY <1>1, <1>2 DEF Cell
<1>6. TypeOK'
    <2>1. mem' \in [1..n -> Bytes \union {Garbage}]
        <3>1. ASSUME NEW i \in 1..n
              PROVE  (IF i \in (wBase + 1)..(wBase + Len(s)) THEN s[i - wBase] ELSE Cell(i))
                        \in Bytes \union {Garbage}
            BY <1>1, <1>2, <1>3, <3>1 DEF Cell
        <3> QED
            BY <3>1
    <2> QED
        BY <1>1, <1>2, <2>1 DEF TypeOK, ReplyType
<1>7. PositionsInBuffer'
    BY <1>1, <1>2 DEF PositionsInBuffer
<1>8. WrittenBeforeRead'
    <2>1. ASSUME NEW i \in (rBase + 1)..(wBase + Len(s)) PROVE mem'[i] \in Bytes
        <3>1. CASE i <= wBase
            BY <1>1, <1>2, <1>4, <1>5, <3>1
        <3>2. CASE ~(i <= wBase)
            <4>1. i \in 1..n /\ i \in (wBase + 1)..(wBase + Len(s)) /\ i - wBase \in 1..Len(s)
                BY <1>1, <1>2, <3>2
            <4> QED
                BY <1>2, <1>5, <4>1
        <3> QED
            BY <3>1, <3>2
    <2>2. rBase' = rBase /\ wBase' = wBase + Len(s)
        OBVIOUS
    <2> QED
        BY <2>1, <2>2 DEF WrittenBeforeRead
<1>9. Inv'
    BY <1>6, <1>7, <1>8 DEF Inv
<1>10. /\ Data \in Seq(Bytes) /\ Len(Data) = wBase - rBase
       /\ \A i \in 1..(wBase - rBase) : Data[i] = mem[rBase + i]
    BY DataIsSequence DEF DataFacts
<1>11. /\ Data' \in Seq(Bytes) /\ Len(Data') = wBase' - rBase'
       /\ \A i \in 1..(wBase' - rBase') : Data'[i] = mem'[rBase' + i]
    <2>1. DataFacts'
        BY <1>9, DataIsSequence, PTL
    <2> QED
        BY <2>1 DEF DataFacts
<1>12. /\ Data \o s \in Seq(Bytes) /\ Len(Data \o s) = Len(Data) + Len(s)
       /\ \A i \in 1..(Len(Data) + Len(s)) :
             (Data \o s)[i] = IF i <= Len(Data) THEN Data[i] ELSE s[i - Len(Data)]
    BY <1>10, ConcatProperties
<1>13. \A i \in 1..Len(Data') : Data'[i] = (Data \o s)[i]
    <2>1. ASSUME NEW i \in 1..Len(Data') PROVE Data'[i] = (Data \o s)[i]
        <3>1. /\ i \in 1..(wBase' - rBase') /\ Data'[i] = mem'[rBase + i]
              /\ i \in 1..(Len(Data) + Len(s)) /\ rBase + i \in 1..n
              /\ i \in Nat /\ 1 <= i /\ i <= wBase + Len(s) - rBase
            <4>1. i \in 1..(wBase' - rBase')
                BY <1>11
            <4>2. rBase' = rBase /\ wBase' = wBase + Len(s)
                OBVIOUS
            <4>3. Data'[i] = mem'[rBase + i]
                BY <1>11, <4>1, <4>2
            <4>4. i \in 1..(Len(Data) + Len(s))
                BY <1>1, <1>2, <1>10, <4>1, <4>2
            <4>5. i \in Nat /\ 1 <= i /\ i <= wBase + Len(s) - rBase
                BY <1>1, <1>2, <4>1, <4>2
            <4>6. rBase + i \in 1..n
                BY <1>1, <1>2, <4>5
            <4> QED
                BY <4>1, <4>3, <4>4, <4>5, <4>6
        <3>2. CASE i <= Len(Data)
            <4>1. i \in 1..(wBase - rBase) /\ rBase + i <= wBase
                BY <1>1, <1>10, <3>1, <3>2
            <4>2. mem'[rBase + i] = mem[rBase + i]
                BY <1>5, <3>1, <4>1
            <4>3. Data[i] = mem[rBase + i]
                BY <1>10, <4>1
            <4> QED
                BY <1>12, <3>1, <3>2, <4>2, <4>3
        <3>3. CASE ~(i <= Len(Data))
            <4>1. wBase - rBase < i
                <5>1. Len(Data) = wBase - rBase /\ Len(Data) \in Nat /\ i \in Nat
                    BY <1>1, <1>10, <3>1
                <5> QED
                    BY <3>3, <5>1
            <4>2. rBase + i \in (wBase + 1)..(wBase + Len(s))
                BY <1>1, <1>2, <3>1, <4>1
            <4>3. rBase + i - wBase = i - Len(Data)
                BY <1>1, <1>10, <3>1
            <4>4. mem'[rBase + i] = s[rBase + i - wBase]
                BY <1>1, <1>2, <3>1, <4>2
            <4> QED
                BY <1>12, <3>1, <3>3, <4>3, <4>4
        <3> QED
            BY <3>2, <3>3
    <2> QED
        BY <2>1
<1>14. Len(Data') = Len(Data \o s)
    BY <1>1, <1>2, <1>10, <1>11, <1>12
<1> QED
    BY <1>9, <1>11, <1>12, <1>13, <1>14, SeqEqual

\* Reading on takes away the front.
LEMMA MoveOn ==
    ASSUME Inv, NEW k \in 0..(wBase - rBase),
           rBase' = rBase + k, rBound' \in Nat, rBase' <= rBound', rBound' <= wBase,
           UNCHANGED <<mem, bufferSize, wBase, wBound>>,
           maxBufferSize' \in 0..Limit,
           reply' \in ReplyType
    PROVE  Inv' /\ Data' = SubSeq(Data, k + 1, Len(Data))
<1>1. /\ {rBase, rBound, wBase, wBound} \subseteq Nat
      /\ rBase <= rBound /\ rBound <= wBase /\ wBase <= wBound /\ wBound = bufferSize
    BY DEF Inv, TypeOK, PositionsInBuffer
<1>2. TypeOK'
    <2>1. rBase' \in Nat
        BY <1>1
    <2>2. {rBase', rBound', wBase', wBound'} \subseteq Nat
        BY <1>1, <2>1
    <2>3. mem' \in [1..bufferSize' -> Bytes \union {Garbage}] /\ bufferSize' \in 0..Limit
        BY DEF Inv, TypeOK
    <2> QED
        BY <2>2, <2>3 DEF TypeOK, ReplyType
<1>3. PositionsInBuffer' /\ WrittenBeforeRead'
    BY <1>1 DEF Inv, PositionsInBuffer, WrittenBeforeRead
<1>4. Data' = Piece(rBase + k, wBase)
    BY DEF Data, Piece
<1>5. Piece(rBase + k, wBase) = SubSeq(Data, k + 1, Len(Data))
    BY PieceOfData
<1> QED
    BY <1>2, <1>3, <1>4, <1>5 DEF Inv

\* A call that only looks changes nothing.
LEMMA Stay ==
    ASSUME Inv, UNCHANGED <<mem, bufferSize, rBase, rBound, wBase, wBound>>,
           maxBufferSize' \in 0..Limit, reply' \in ReplyType
    PROVE  Inv' /\ Data' = Data
    BY DEF Inv, TypeOK, PositionsInBuffer, WrittenBeforeRead, ReplyType, Data, Piece

\* Both resets leave an empty buffer.
LEMMA Empty ==
    ASSUME Inv, bufferSize' \in 0..Limit, mem' \in [1..bufferSize' -> Bytes \union {Garbage}],
           rBase' = 0, rBound' = 0, wBase' = 0, wBound' = bufferSize',
           UNCHANGED maxBufferSize, reply' \in ReplyType
    PROVE  Inv' /\ Data' = <<>>
<1>1. Limit \in Nat
    BY BufferAssumption, Zenon DEF BufferAssumption
<1>2. Inv'
    BY <1>1 DEF Inv, TypeOK, PositionsInBuffer, WrittenBeforeRead, ReplyType
<1>3. /\ Data' \in Seq(Bytes) /\ Len(Data') = wBase' - rBase'
    <2>1. DataFacts'
        BY <1>2, DataIsSequence, PTL
    <2> QED
        BY <2>1 DEF DataFacts
<1> QED
    BY <1>2, <1>3, EmptySeq

-----------------------------------------------------------------------------
(* What ensureCanWrite refuses. *)

\* Doubling starts at one, doubles each time and never gives zero.
LEMMA TwoToDef ==
    /\ TwoTo[0] = 1
    /\ \A k \in Nat \ {0} : TwoTo[k] = 2 * TwoTo[k - 1]
    /\ \A k \in Nat : TwoTo[k] \in Nat \ {0}
<1> DEFINE S == Nat
           a == [m \in Nat |-> 1]
           h == [m \in Nat |-> [v \in Nat |-> 2 * v]]
           g == [m \in Nat |-> IF m = 0 THEN 0 ELSE m - 1]
           Def(f) == [k \in Nat |-> IF k = 0 THEN 1 ELSE 2 * f[k - 1]]
<1>1. /\ a \in [Nat -> Nat] /\ h \in [Nat -> [Nat -> Nat]]
      /\ g \in [Nat -> Nat] /\ \A m \in Nat : m >= 1 => g[m] < m
    OBVIOUS
<1>2. PICK f \in [Nat -> Nat] : Numbers!Recurs(f, 1, a, h, g)
    <2> HIDE DEF a, g, h
    <2>1. 1 \in Nat \ {0}
        OBVIOUS
    <2>2. Numbers!Recursion(Nat, 1, a, h, g)
        BY <1>1, <2>1, Zenon DEF Numbers!Recursion
    <2> QED
        BY <2>2, Numbers!FunctionExists
<1>3. f = Def(f)
    <2>1. \A m \in Nat : (IF m < 1 THEN a[m] ELSE h[m][f[g[m]]])
                          = (IF m = 0 THEN 1 ELSE 2 * f[m - 1])
        OBVIOUS
    <2> HIDE DEF a, h, g
    <2>2. \A m \in Nat : f[m] = IF m < 1 THEN a[m] ELSE h[m][f[g[m]]]
        BY <1>2 DEF Numbers!Recurs
    <2>3. f = [m \in Nat |-> f[m]]
        OBVIOUS
    <2>4. \A m \in Nat : f[m] = IF m = 0 THEN 1 ELSE 2 * f[m - 1]
        BY <2>1, <2>2, Zenon
    <2> QED
        BY <2>3, <2>4, Zenon
<1>4. TwoTo = CHOOSE e : e = Def(e)
    BY DEF TwoTo
<1> DEFINE At(k) == IF k = 0 THEN 1 ELSE 2 * TwoTo[k - 1]
<1>5. \A k \in Nat : TwoTo[k] = At(k)
    <2>1. TwoTo = Def(TwoTo)
        <3> HIDE DEF Def
        <3> QED
            BY <1>3, <1>4
    <2>2. Def(TwoTo) = [k \in Nat |-> At(k)]
        OBVIOUS
    <2> HIDE DEF Def, At
    <2>3. TwoTo = [k \in Nat |-> At(k)]
        BY <2>1, <2>2
    <2> QED
        BY <2>3
<1>6. \A k \in Nat : (k = 0 => TwoTo[k] = 1) /\ (k # 0 => TwoTo[k] = 2 * TwoTo[k - 1])
    BY <1>5
<1> DEFINE Bad == {k \in Nat : TwoTo[k] \notin Nat \ {0}}
<1>7. ASSUME Bad # {} PROVE FALSE
    <2>1. Bad \in SUBSET Nat
        OBVIOUS
    <2>2. PICK x \in Bad : \A y \in Bad : x <= y
        BY <1>7, <2>1, Numbers!LeastNumber
    <2>3. x \in Nat /\ x # 0 /\ x - 1 \in Nat /\ ~(x <= x - 1)
        BY <1>6
    <2>4. x - 1 \notin Bad
        BY <2>2, <2>3
    <2> QED
        BY <1>6, <2>3, <2>4
<1> QED
    BY <1>6, <1>7

\* The last size the loop could try is twice beyond every size there is.
LEMMA LastDoubling ==
    ASSUME Inv
    PROVE  \E n \in Doublings : n > Limit
<1>1. Width \in Nat /\ Limit \in Nat
    BY BufferAssumption, Zenon DEF BufferAssumption
<1> DEFINE last == TwoTo[Width + 1]
<1>2. last \in Nat /\ last > Limit
    <2>1. Width + 1 \in Nat \ {0} /\ (Width + 1) - 1 = Width
        BY <1>1
    <2>2. TwoTo[Width + 1] = 2 * TwoTo[Width] /\ TwoTo[Width] \in Nat
        BY <1>1, <2>1, TwoToDef
    <2> QED
        BY <1>1, <2>2 DEF Limit
<1> HIDE DEF last
<1>3. bufferSize \in Nat
    BY <1>1 DEF Inv, TypeOK
<1>4. Width + 1 \in 1..(Width + 1) /\ Width + 1 \in 0..(Width + 1)
    BY <1>1
<1>5. CASE bufferSize = 0
    <2>1. last \in Doublings
        BY <1>4, <1>5 DEF Doublings, last
    <2> QED
        BY <1>2, <2>1
<1>6. CASE bufferSize # 0
    <2>1. bufferSize * last \in Doublings
        BY <1>4, <1>6 DEF Doublings, last
    <2>2. bufferSize * last >= last
        <3>1. \A i, j \in Nat : i # 0 => i * j >= j
            OBVIOUS
        <3> QED
            BY <1>2, <1>3, <1>6, <3>1
    <2>3. bufferSize * last \in Nat
        BY <1>2, <1>3
    <2>4. bufferSize * last > Limit
        BY <1>1, <1>2, <2>2, <2>3
    <2> QED
        BY <2>1, <2>4
<1> QED
    BY <1>5, <1>6

\* A size the loop tries is the double of one it tried before, or of what there was,
\* or the first byte.
LEMMA HalfWasTried ==
    ASSUME Inv, NEW n \in Doublings
    PROVE  /\ n \in Nat
           /\ \/ n = 1 /\ bufferSize = 0
              \/ n = 2 * bufferSize
              \/ \E m \in Doublings : m \in Nat /\ n = 2 * m /\ m < n
<1>1. Width \in Nat /\ bufferSize \in Nat
    <2>1. Width \in Nat /\ Limit \in Nat
        BY BufferAssumption, Zenon DEF BufferAssumption
    <2> QED
        BY <2>1 DEF Inv, TypeOK
<1>2. CASE bufferSize = 0
    <2>1. PICK k \in 0..(Width + 1) : n = TwoTo[k]
        BY <1>2 DEF Doublings
    <2>2. CASE k = 0
        BY <1>2, <2>1, <2>2, TwoToDef
    <2>3. CASE k # 0
        <3>1. k \in Nat \ {0} /\ k - 1 \in Nat /\ k - 1 \in 0..(Width + 1)
            BY <1>1, <2>1, <2>3
        <3> DEFINE m == TwoTo[k - 1]
        <3>2. m \in Doublings
            BY <1>2, <3>1 DEF Doublings
        <3>3. n = 2 * m /\ m \in Nat \ {0}
            BY <2>1, <3>1, TwoToDef
        <3> HIDE DEF m
        <3>4. n \in Nat /\ m < n /\ m \in Nat
            BY <3>3
        <3> QED
            BY <3>2, <3>3, <3>4
    <2> QED
        BY <2>2, <2>3
<1>3. CASE bufferSize # 0
    <2>1. PICK k \in 1..(Width + 1) : n = bufferSize * TwoTo[k]
        BY <1>3 DEF Doublings
    <2>2. k \in Nat \ {0} /\ k - 1 \in Nat
        BY <1>1, <2>1
    <2> DEFINE half == TwoTo[k - 1]
               m == bufferSize * half
    <2>3. n = bufferSize * (2 * half) /\ half \in Nat \ {0}
        BY <2>1, <2>2, TwoToDef
    <2>4. CASE k = 1
        <3>1. half = 1
            BY <2>4, TwoToDef
        <3> HIDE DEF half
        <3>2. n = 2 * bufferSize
            BY <1>1, <2>3, <3>1
        <3> QED
            BY <1>1, <3>2
    <2>5. CASE k # 1
        <3>1. k - 1 \in 1..(Width + 1)
            BY <1>1, <2>1, <2>5
        <3>2. m \in Doublings
            BY <1>3, <3>1 DEF Doublings
        <3> HIDE DEF half
        <3>3. \A i, j \in Nat \ {0} : /\ i * j \in Nat \ {0}
                                      /\ i * (2 * j) = 2 * (i * j)
            OBVIOUS
        <3>4. m \in Nat \ {0} /\ n = 2 * m
            BY <1>1, <1>3, <2>3, <3>3
        <3> HIDE DEF m
        <3>5. n \in Nat /\ m < n /\ m \in Nat
            BY <3>4
        <3> QED
            BY <3>2, <3>4, <3>5
    <2> QED
        BY <2>4, <2>5
<1> QED
    BY <1>2, <1>3

\* When no size will do, half the maximum would not have held the bytes.
LEMMA NoGrowth ==
    ASSUME Inv, NEW len \in Nat, Growth(len) = {}
    PROVE  2 * (wBase + len) > maxBufferSize
<1> DEFINE need == wBase + len
<1>1. /\ bufferSize \in Nat /\ maxBufferSize \in Nat /\ maxBufferSize <= Limit
      /\ Limit \in Nat /\ wBase \in Nat /\ wBound = bufferSize /\ need \in Nat
    <2>1. Limit \in Nat
        BY BufferAssumption, Zenon DEF BufferAssumption
    <2> QED
        BY <2>1 DEF Inv, TypeOK, PositionsInBuffer
<1>2. ~(len <= wBound - wBase)
    <2>1. len <= wBound - wBase => bufferSize \in Growth(len)
        BY DEF Growth
    <2> QED
        BY <2>1
<1>3. need > bufferSize
    BY <1>1, <1>2
<1>4. \A n \in Doublings : n \in Enough(len) <=> need <= n
    <2> SUFFICES ASSUME NEW n \in Doublings PROVE n \in Enough(len) <=> need <= n
        OBVIOUS
    <2>1. n \in Nat
        BY HalfWasTried
    <2>2. n \in Enough(len) <=> len <= (wBound - wBase) + (n - bufferSize)
        BY DEF Enough
    <2> QED
        BY <1>1, <2>1, <2>2
<1> HIDE DEF need
<1>5. CASE Enough(len) = {}
    <2>1. PICK n \in Doublings : n > Limit
        BY LastDoubling
    <2>2. n \in Nat /\ ~(need <= n)
        BY <1>4, <1>5, HalfWasTried
    <2>3. 2 * need > maxBufferSize
        BY <1>1, <2>1, <2>2
    <2> QED
        BY <2>3 DEF need
<1>6. CASE Enough(len) # {}
    <2>1. Enough(len) \in SUBSET Nat /\ Enough(len) \subseteq Doublings
        BY HalfWasTried DEF Enough
    <2>2. PICK n \in Enough(len) : \A m \in Enough(len) : n <= m
        BY <1>6, <2>1, Numbers!LeastNumber
    <2>3. n \in Doublings /\ n \in Nat
        BY <2>1
    <2>4. n > maxBufferSize
        <3>1. n \in 0..maxBufferSize => n \in Growth(len)
            BY <1>2, <2>2 DEF Growth
        <3> QED
            BY <1>1, <2>3, <3>1
    <2>5. CASE n = 1 /\ bufferSize = 0
        <3>1. 2 * need > maxBufferSize
            BY <1>1, <1>3, <2>4, <2>5
        <3> QED
            BY <3>1 DEF need
    <2>6. CASE n = 2 * bufferSize
        <3>1. 2 * need > maxBufferSize
            BY <1>1, <1>3, <2>4, <2>6
        <3> QED
            BY <3>1 DEF need
    <2>7. CASE \E m \in Doublings : m \in Nat /\ n = 2 * m /\ m < n
        <3>1. PICK m \in Doublings : m \in Nat /\ n = 2 * m /\ m < n
            BY <2>7
        <3>2. m \notin Enough(len)
            <4>1. m \in Enough(len) => n <= m
                BY <2>2
            <4> QED
                BY <2>3, <3>1, <4>1
        <3>3. ~(need <= m)
            BY <1>4, <3>1, <3>2
        <3>4. 2 * need > maxBufferSize
            BY <1>1, <2>3, <2>4, <3>1, <3>3
        <3> QED
            BY <3>4 DEF need
    <2> QED
        BY <2>3, <2>5, <2>6, <2>7, HalfWasTried
<1> QED
    BY <1>5, <1>6

-----------------------------------------------------------------------------
(* The invariant. *)

\* A call of the interface, as one step of the queue, from a state with the
\* invariant to one with it.
QueueStep == Queue!Next \/ UNCHANGED <<Data, reply>>

\* Every reply is one.
LEMMA ReplyTypes ==
    ASSUME NEW s \in Seq(Bytes)
    PROVE  Returned(s) \in ReplyType /\ Accepted(s) \in ReplyType /\ Thrown \in ReplyType
<1>1. s \in Seq(Bytes \union {Garbage}) /\ <<>> \in Seq(Bytes) /\ <<>> \in Seq(Bytes \union {Garbage})
    BY SeqMonotonic, EmptySeq
<1> QED
    BY <1>1 DEF Returned, Accepted, Thrown, ReplyType

\* The names of the queue that have the same meaning here.
LEMMA Names ==
    /\ \A s : Queue!Returned(s) = Returned(s) /\ Queue!Accepted(s) = Accepted(s)
    /\ Queue!Thrown = Thrown
    BY DEF Queue!Returned, Queue!Accepted, Queue!Thrown, Returned, Accepted, Thrown

\* A refused call changes nothing.
LEMMA RefuseStep ==
    ASSUME Inv, Refuse
    PROVE  Inv' /\ Queue!Refuse
<1>1. maxBufferSize' \in 0..Limit /\ reply' \in ReplyType
    BY EmptySeq, ReplyTypes DEF Inv, TypeOK, Refuse
<1>2. Inv' /\ Data' = Data
    BY <1>1, Stay DEF Refuse
<1> QED
    BY <1>2, Names DEF Refuse, Queue!Refuse, Data

\* TMemoryBuffer::write appends or is refused.
LEMMA WriteStep ==
    ASSUME Inv, NEW s \in Writes, Write(s)
    PROVE  Inv' /\ (Queue!Put(s) \/ Queue!Refuse)
<1>1. s \in Seq(Bytes) /\ Len(s) \in Nat
    BY LenProperties, BufferAssumption DEF BufferAssumption
<1>2. CASE Growth(Len(s)) = {} /\ Refuse
    BY <1>2, RefuseStep
<1>3. CASE \E n \in Growth(Len(s)) :
              /\ Grow(n)
              /\ mem' = [i \in 1..n |-> IF i \in (wBase + 1)..(wBase + Len(s))
                                         THEN s[i - wBase] ELSE Cell(i)]
              /\ wBase' = wBase + Len(s)
              /\ reply' = Accepted(s)
              /\ UNCHANGED <<maxBufferSize, rBase, rBound>>
    <2>1. PICK n \in Growth(Len(s)) :
              /\ Grow(n)
              /\ mem' = [i \in 1..n |-> IF i \in (wBase + 1)..(wBase + Len(s))
                                         THEN s[i - wBase] ELSE Cell(i)]
              /\ wBase' = wBase + Len(s)
              /\ reply' = Accepted(s)
              /\ UNCHANGED <<maxBufferSize, rBase, rBound>>
        BY <1>3
    <2>2. n \in 0..Limit /\ bufferSize <= n /\ wBase + Len(s) <= n
        BY <1>1, GrowthHasRoom
    <2>3. wBound = bufferSize /\ bufferSize \in Int
        BY DEF Inv, TypeOK, PositionsInBuffer
    <2>4. bufferSize' = n /\ wBound' = n
        BY <2>1, <2>2, <2>3 DEF Grow
    <2>5. reply' \in ReplyType
        BY <1>1, <2>1, ReplyTypes
    <2>6. Inv' /\ Data' = Data \o s
        BY <1>1, <2>1, <2>2, <2>4, <2>5, Store
    <2> QED
        BY <2>1, <2>6, Names DEF Queue!Put, Data
<1> QED
    BY <1>2, <1>3 DEF Write

\* TMemoryBuffer::wroteBytes appends or is refused.
LEMMA WroteBytesStep ==
    ASSUME Inv, NEW s \in Writes, WroteBytes(s)
    PROVE  Inv' /\ (Queue!Put(s) \/ Queue!Refuse)
<1>1. s \in Seq(Bytes) /\ Len(s) \in Nat
    BY LenProperties, BufferAssumption DEF BufferAssumption
<1>2. CASE Len(s) > wBound - wBase /\ Refuse
    BY <1>2, RefuseStep
<1>3. CASE ~(Len(s) > wBound - wBase /\ Refuse)
    <2>1. /\ Len(s) <= wBound - wBase
          /\ mem' = [i \in 1..bufferSize |-> IF i \in (wBase + 1)..(wBase + Len(s))
                                              THEN s[i - wBase] ELSE mem[i]]
          /\ wBase' = wBase + Len(s) /\ reply' = Accepted(s)
          /\ UNCHANGED <<bufferSize, maxBufferSize, rBase, rBound, wBound>>
        BY <1>3 DEF WroteBytes
    <2>2. bufferSize \in 0..Limit /\ bufferSize <= bufferSize /\ wBase + Len(s) <= bufferSize
          /\ bufferSize' = bufferSize /\ wBound' = bufferSize
        BY <1>1, <2>1 DEF Inv, TypeOK, PositionsInBuffer
    <2>3. mem' = [i \in 1..bufferSize |-> IF i \in (wBase + 1)..(wBase + Len(s))
                                           THEN s[i - wBase] ELSE Cell(i)]
        BY <2>1, <2>2 DEF Cell
    <2>4. reply' \in ReplyType
        BY <1>1, <2>1, ReplyTypes
    <2>5. Inv' /\ Data' = Data \o s
        BY <1>1, <2>1, <2>2, <2>3, <2>4, Store
    <2> QED
        BY <2>1, <2>5, Names DEF Queue!Put, Data
<1> QED
    BY <1>2, <1>3

\* TMemoryBuffer::getWritePtr makes room and changes no data.
LEMMA GetWritePtrStep ==
    ASSUME Inv, NEW len \in Lengths, GetWritePtr(len)
    PROVE  Inv' /\ (Queue!Wait \/ Queue!Refuse)
<1>1. len \in Nat /\ <<>> \in Seq(Bytes) /\ Len(<<>>) = 0
    BY EmptySeq, BufferAssumption DEF BufferAssumption
<1>2. CASE Growth(len) = {} /\ Refuse
    BY <1>2, RefuseStep
<1>3. CASE ~(Growth(len) = {} /\ Refuse)
    <2>1. PICK n \in Growth(len) :
              /\ Grow(n)
              /\ mem' = [i \in 1..n |-> Cell(i)]
              /\ reply' = Returned(<<>>)
              /\ UNCHANGED <<maxBufferSize, rBase, rBound, wBase>>
        BY <1>3 DEF GetWritePtr
    <2>2. n \in 0..Limit /\ bufferSize <= n /\ wBase + len <= n
        BY <1>1, GrowthHasRoom
    <2>3. wBound = bufferSize /\ bufferSize \in Int /\ wBase \in Nat /\ n \in Int
        BY <2>2 DEF Inv, TypeOK, PositionsInBuffer
    <2>4. bufferSize' = n /\ wBound' = n
        BY <2>1, <2>2, <2>3 DEF Grow
    <2>5. /\ wBase + Len(<<>>) <= n /\ wBase' = wBase + Len(<<>>)
          /\ \A i \in 1..n : i \notin (wBase + 1)..(wBase + Len(<<>>))
        BY <1>1, <2>1, <2>2, <2>3
    <2>6. mem' = [i \in 1..n |-> IF i \in (wBase + 1)..(wBase + Len(<<>>))
                                  THEN <<>>[i - wBase] ELSE Cell(i)]
        BY <2>1, <2>5
    <2>7. reply' \in ReplyType
        BY <1>1, <2>1, ReplyTypes
    <2>8. Inv' /\ Data' = Data \o <<>>
        BY <1>1, <2>1, <2>2, <2>4, <2>5, <2>6, <2>7, Store
    <2>9. Data \o <<>> = Data
        BY DataIsSequence, ConcatEmptySeq DEF DataFacts
    <2> QED
        BY <2>1, <2>8, <2>9, Names DEF Queue!Wait, Data
<1> QED
    BY <1>2, <1>3

\* FastRead, ComputeRead: the first k bytes that wait are handed out.
LEMMA TakeStep ==
    ASSUME Inv, NEW k \in 0..(wBase - rBase),
           rBase' = rBase + k, rBound' \in {rBound, wBase}, rBase' <= rBound',
           UNCHANGED <<mem, bufferSize, maxBufferSize, wBase, wBound>>,
           reply' = Returned(Piece(rBase, rBase + k))
    PROVE  Inv' /\ (\E j \in 0..Len(Data) : Queue!Take(j))
<1>1. /\ rBound' \in Nat /\ rBound' <= wBase /\ maxBufferSize' \in 0..Limit
      /\ rBase \in Nat /\ wBase \in Nat
    BY DEF Inv, TypeOK, PositionsInBuffer
<1>2. /\ Piece(rBase, rBase + k) \in Seq(Bytes)
      /\ Piece(rBase, rBase + k) = SubSeq(Data, 1, k)
    BY PieceOfData
<1>3. reply' \in ReplyType
    BY <1>2, ReplyTypes
<1>4. Inv' /\ Data' = SubSeq(Data, k + 1, Len(Data))
    BY <1>1, <1>3, MoveOn
<1>5. k \in 0..Len(Data)
    BY <1>1, DataIsSequence DEF DataFacts
<1>6. Queue!Take(k)
    BY <1>2, <1>4, Names DEF Queue!Take, Data
<1> QED
    BY <1>4, <1>5, <1>6

\* A read that the buffer's slack serves takes from the front.
LEMMA FastReadStep ==
    ASSUME Inv, NEW len \in Nat, FastRead(len)
    PROVE  Inv' /\ (\E j \in 0..Len(Data) : Queue!Take(j))
<1>1. len \in 0..(wBase - rBase) /\ rBound' \in {rBound, wBase} /\ rBase' <= rBound'
    BY DEF FastRead, Inv, TypeOK, PositionsInBuffer
<1> QED
    BY <1>1, TakeStep DEF FastRead

\* TMemoryBuffer::computeRead takes from the front what there is.
LEMMA ComputeReadStep ==
    ASSUME Inv, NEW len \in Nat, ComputeRead(len)
    PROVE  Inv' /\ (\E j \in 0..Len(Data) : Queue!Take(j))
<1> DEFINE give == IF len < wBase - rBase THEN len ELSE wBase - rBase
<1>1. give \in 0..(wBase - rBase) /\ rBase + give <= wBase
    BY DEF Inv, TypeOK, PositionsInBuffer
<1>2. /\ rBound' = wBase /\ rBase' = rBase + give
      /\ reply' = Returned(Piece(rBase, rBase + give))
      /\ UNCHANGED <<mem, bufferSize, maxBufferSize, wBase, wBound>>
    BY DEF ComputeRead
<1> HIDE DEF give
<1> QED
    BY <1>1, <1>2, TakeStep

\* readAll takes all that was asked for, or throws.
LEMMA ReadAllStep ==
    ASSUME Inv, NEW len \in Nat, ReadAll(len)
    PROVE  Inv' /\ (Queue!Insist \/ \E j \in 0..Len(Data) : Queue!Take(j))
<1>1. CASE FastRead(len)
    BY <1>1, FastReadStep
<1>2. CASE ComputeRead(len)
    BY <1>2, ComputeReadStep
<1>3. CASE ~FastRead(len) /\ ~ComputeRead(len)
    <2>1. /\ rBound' = wBase /\ rBase' = wBase /\ reply' = Thrown
          /\ UNCHANGED <<mem, bufferSize, maxBufferSize, wBase, wBound>>
        BY <1>3 DEF ReadAll
    <2>2. /\ wBase - rBase \in 0..(wBase - rBase) /\ rBase' = rBase + (wBase - rBase)
          /\ rBound' \in Nat /\ rBase' <= rBound' /\ rBound' <= wBase
          /\ maxBufferSize' \in 0..Limit
        BY <2>1 DEF Inv, TypeOK, PositionsInBuffer
    <2>3. reply' \in ReplyType
        BY <2>1, EmptySeq, ReplyTypes
    <2>4. Inv' /\ Data' = SubSeq(Data, (wBase - rBase) + 1, Len(Data))
        BY <2>1, <2>2, <2>3, MoveOn
    <2>5. SubSeq(Data, (wBase - rBase) + 1, Len(Data)) = <<>>
        <3>1. Len(Data) = wBase - rBase /\ Len(Data) \in Nat
            BY DataIsSequence, LenProperties DEF DataFacts
        <3>2. Len(Data) + 1 \in Int /\ Len(Data) \in Int /\ Len(Data) < Len(Data) + 1
            BY <3>1
        <3> QED
            BY <3>1, <3>2, SubSeqEmpty
    <2> QED
        BY <2>1, <2>4, <2>5, Names DEF Queue!Insist, Data
<1> QED
    BY <1>1, <1>2, <1>3

\* TMemoryBuffer::resetBuffer empties the queue.
LEMMA ResetStep ==
    ASSUME Inv, Reset, reply' = Returned(<<>>)
    PROVE  Inv' /\ Queue!Clear
<1>1. reply' \in ReplyType
    BY EmptySeq, ReplyTypes
<1>2. /\ bufferSize' \in 0..Limit /\ mem' \in [1..bufferSize' -> Bytes \union {Garbage}]
      /\ rBase' = 0 /\ rBound' = 0 /\ wBase' = 0 /\ wBound' = bufferSize'
      /\ UNCHANGED maxBufferSize
    BY DEF Reset, Inv, TypeOK, PositionsInBuffer
<1>3. Inv' /\ Data' = <<>>
    BY <1>1, <1>2, Empty
<1> QED
    BY <1>3, Names DEF Queue!Clear, Data

\* The first state.
LEMMA InitInv == Init => Inv /\ Queue!Init
<1> SUFFICES ASSUME Init PROVE Inv /\ Queue!Init
    OBVIOUS
<1>1. PICK size \in Sizes :
        /\ mem = [i \in 1..size |-> Garbage]
        /\ bufferSize = size /\ maxBufferSize = Limit
        /\ rBase = 0 /\ rBound = 0 /\ wBase = 0 /\ wBound = size
        /\ reply = Returned(<<>>)
    BY DEF Init
<1>2. size \in 0..Limit
    BY BufferAssumption, Zenon DEF BufferAssumption
<1>3. Limit \in Nat
    BY BufferAssumption, Zenon DEF BufferAssumption
<1>4. reply \in ReplyType
    BY <1>1, EmptySeq, ReplyTypes
<1>5. Inv
    BY <1>1, <1>2, <1>3, <1>4 DEF Inv, TypeOK, PositionsInBuffer, WrittenBeforeRead, ReplyType
<1>6. Data = <<>>
    BY <1>1, <1>5, DataIsSequence, EmptySeq DEF DataFacts
<1> QED
    BY <1>1, <1>5, <1>6, Names DEF Queue!Init, Data

\* Every call keeps the invariant and is a step of the queue.
LEMMA NextStep ==
    ASSUME Inv, Next
    PROVE  Inv' /\ Queue!Next
<1>1. ASSUME NEW s \in Writes, Write(s) \/ WroteBytes(s) PROVE Inv' /\ Queue!Next
    BY <1>1, WriteStep, WroteBytesStep DEF Queue!Next
<1>2. ASSUME NEW len \in Lengths, GetWritePtr(len) \/ Read(len) \/ ComputeRead(len) \/ ReadAll(len)
      PROVE Inv' /\ Queue!Next
    <2>1. len \in Nat
        BY BufferAssumption, Zenon DEF BufferAssumption
    <2>2. CASE GetWritePtr(len)
        BY <2>2, GetWritePtrStep DEF Queue!Next
    <2>3. CASE Read(len)
        <3>1. FastRead(len) \/ ComputeRead(len)
            BY <2>3 DEF Read
        <3>2. Inv' /\ (\E j \in 0..Len(Data) : Queue!Take(j))
            BY <2>1, <3>1, FastReadStep, ComputeReadStep
        <3> QED
            BY <3>2 DEF Queue!Next, Data
    <2>4. CASE ComputeRead(len)
        <3>1. Inv' /\ (\E j \in 0..Len(Data) : Queue!Take(j))
            BY <2>1, <2>4, ComputeReadStep
        <3> QED
            BY <3>1 DEF Queue!Next, Data
    <2>5. CASE ReadAll(len)
        <3>1. Inv' /\ (Queue!Insist \/ \E j \in 0..Len(Data) : Queue!Take(j))
            BY <2>1, <2>5, ReadAllStep
        <3> QED
            BY <3>1 DEF Queue!Next, Data
    <2> QED
        BY <1>2, <2>2, <2>3, <2>4, <2>5
<1>3. CASE GetBuffer
    <2>1. wBase - rBase \in 0..(wBase - rBase) /\ rBase + (wBase - rBase) = wBase
        BY DEF Inv, TypeOK, PositionsInBuffer
    <2>2. Data \in Seq(Bytes)
        BY DataIsSequence DEF DataFacts
    <2>3. reply' = Returned(Data) /\ reply' \in ReplyType
        BY <1>3, <2>2, ReplyTypes DEF GetBuffer, Data
    <2>4. maxBufferSize' \in 0..Limit
        BY <1>3 DEF GetBuffer, Inv, TypeOK
    <2>5. Inv' /\ Data' = Data
        BY <1>3, <2>3, <2>4, Stay DEF GetBuffer
    <2> QED
        BY <2>3, <2>5, Names DEF Queue!Next, Queue!Look, Data
<1>4. CASE ResetBuffer
    BY <1>4, ResetStep DEF ResetBuffer, Queue!Next
<1>5. CASE ReadEnd
    <2>1. CASE rBase = wBase
        BY <1>5, <2>1, ResetStep DEF ReadEnd, Queue!Next
    <2>2. CASE rBase # wBase
        <3>1. maxBufferSize' \in 0..Limit /\ reply' \in ReplyType
            BY <1>5, <2>2, EmptySeq, ReplyTypes DEF ReadEnd, Inv, TypeOK
        <3>2. Inv' /\ Data' = Data
            BY <1>5, <2>2, <3>1, Stay DEF ReadEnd
        <3> QED
            BY <1>5, <3>2, Names DEF ReadEnd, Queue!Next, Queue!Wait, Data
    <2> QED
        BY <2>1, <2>2
<1>6. ASSUME NEW size \in Sizes, ResetBufferTo(size) PROVE Inv' /\ Queue!Next
    <2>1. size \in 0..Limit
        BY BufferAssumption, Zenon DEF BufferAssumption
    <2>2. reply' \in ReplyType
        BY <1>6, EmptySeq, ReplyTypes DEF ResetBufferTo
    <2>3. /\ bufferSize' \in 0..Limit /\ mem' \in [1..bufferSize' -> Bytes \union {Garbage}]
          /\ rBase' = 0 /\ rBound' = 0 /\ wBase' = 0 /\ wBound' = bufferSize'
          /\ UNCHANGED maxBufferSize
        BY <1>6, <2>1 DEF ResetBufferTo, Construct
    <2>4. Inv' /\ Data' = <<>>
        BY <2>2, <2>3, Empty
    <2> QED
        BY <1>6, <2>4, Names DEF ResetBufferTo, Queue!Next, Queue!Clear, Data
<1>7. ASSUME NEW size \in Maxima, SetMaxBufferSize(size) PROVE Inv' /\ Queue!Next
    <2>1. size \in 0..Limit
        BY BufferAssumption, Zenon DEF BufferAssumption
    <2>2. CASE Refuse
        BY <2>2, RefuseStep DEF Queue!Next
    <2>3. CASE ~Refuse
        <3>1. maxBufferSize' \in 0..Limit /\ reply' = Returned(<<>>) /\ reply' \in ReplyType
              /\ UNCHANGED <<mem, bufferSize, rBase, rBound, wBase, wBound>>
            BY <1>7, <2>1, <2>3, EmptySeq, ReplyTypes DEF SetMaxBufferSize
        <3>2. Inv' /\ Data' = Data
            BY <3>1, Stay
        <3> QED
            BY <3>1, <3>2, Names DEF Queue!Next, Queue!Wait, Data
    <2> QED
        BY <2>2, <2>3
<1> QED
    BY <1>1, <1>2, <1>3, <1>4, <1>5, <1>6, <1>7 DEF Next

\* A step that changes nothing.
LEMMA StutterStep ==
    ASSUME Inv, UNCHANGED vars
    PROVE  Inv' /\ UNCHANGED <<Data, reply>>
    BY DEF vars, Inv, TypeOK, PositionsInBuffer, WrittenBeforeRead, Data, Piece

-----------------------------------------------------------------------------
(* The theorems. *)

\* All properties of a state together, the inductive invariant.
THEOREM BufferInvariant == Spec => []Inv
<1>1. Init => Inv
    BY InitInv
<1>2. Inv /\ [Next]_vars => Inv'
    BY NextStep, StutterStep
<1> QED
    BY <1>1, <1>2, PTL DEF Spec

\* Sizes fit into their type, and every answer is a sequence of cells.
THEOREM BufferTypeCorrect == Spec => []TypeOK
<1>1. Inv => TypeOK
    BY DEF Inv
<1> QED
    BY <1>1, BufferInvariant, PTL

\* No call makes TMemoryBuffer read or write outside the memory it allocated.
THEOREM PositionsStayInBuffer == Spec => []PositionsInBuffer
<1>1. Inv => PositionsInBuffer
    BY DEF Inv
<1> QED
    BY <1>1, BufferInvariant, PTL

\* No call hands out memory that nothing was written to.
THEOREM OnlyWrittenIsRead == Spec => []WrittenBeforeRead
<1>1. Inv => WrittenBeforeRead
    BY DEF Inv
<1> QED
    BY <1>1, BufferInvariant, PTL

\* ensureCanWrite refuses a write only when half the maximum would not have held it.
THEOREM RefusedNearMaximum == Spec => RefusedOnlyNearMaximum
<1> DEFINE Refused ==
              \A s \in Writes :
                 Write(s) /\ reply'.thrown => 2 * (wBase + Len(s)) > maxBufferSize
<1>1. ASSUME Inv PROVE Refused
    <2> SUFFICES ASSUME NEW s \in Writes, Write(s), reply'.thrown
                 PROVE  2 * (wBase + Len(s)) > maxBufferSize
        OBVIOUS
    <2>1. Len(s) \in Nat
        BY LenProperties, BufferAssumption, Zenon DEF BufferAssumption
    <2>2. reply' # Accepted(s)
        BY DEF Accepted
    <2>3. Growth(Len(s)) = {}
        BY <2>2, Zenon DEF Write
    <2> QED
        BY <1>1, <2>1, <2>3, NoGrowth
<1>2. Inv /\ [Next]_vars => [Refused]_vars
    BY <1>1
<1> QED
    BY <1>2, BufferInvariant, PTL DEF Spec, RefusedOnlyNearMaximum

\* TMemoryBuffer implements a queue of bytes.
THEOREM BufferIsQueue == Spec => ImplementsQueue
<1>1. Init => Queue!Init
    BY InitInv
<1>2. Inv /\ [Next]_vars => [Queue!Next]_<<Data, reply>>
    BY NextStep, StutterStep
<1> QED
    BY <1>1, <1>2, BufferInvariant, PTL DEF Spec, ImplementsQueue, Queue!Spec, Data

=============================================================================

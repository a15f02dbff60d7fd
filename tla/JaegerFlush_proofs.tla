------------------------- MODULE JaegerFlush_proofs -------------------------
(***************************************************************************)
(* Proofs about JaegerFlush, for every set of spans, every shape and every *)
(* size: the types of its variables; that no part of a span ever reads     *)
(* outside the span's logs; that the parts follow each other, cover the    *)
(* logs and each fit a packet; and that flush implements LogDelivery.      *)
(***************************************************************************)
EXTENDS JaegerFlush, SequenceTheorems, TLAPS

\* Rounding a share of the logs that are left never asks for more of them than
\* there are, whatever the fraction (0/4 to 4/4).
LEMMA ShareBound ==
    ASSUME NEW m \in Nat, NEW inc \in ONE..WHOLE
    PROVE  Share(m, inc) \in 0..m
<1>1. CASE inc = 0  BY <1>1 DEF Share
<1>2. CASE inc = 1  BY <1>2 DEF Share
<1>3. CASE inc = 2  BY <1>3 DEF Share
<1>4. CASE inc = 3  BY <1>4 DEF Share
<1>5. CASE inc = 4  BY <1>5 DEF Share
<1>6. QED  BY <1>1, <1>2, <1>3, <1>4, <1>5 DEF ONE, WHOLE

\* The number of logs of a span is a natural number.
LEMMA LogNumberType ==
    ASSUME shape \in [Spans -> Shapes], NEW s \in Spans
    PROVE  LogNumber(s) \in Nat
<1>1. shape[s] \in [sampled : BOOLEAN, base : Nat, logs : Seq(Nat)]
  BY ShapesAssumption
<1>2. shape[s].logs \in Seq(Nat)
  BY <1>1
<1>3. QED  BY <1>2, LenProperties DEF LogNumber, LogsOf

\* The search asks for at least one log as long as one is left, and for no
\* more than are left.
LEMMA CountBound ==
    ASSUME shape \in [Spans -> Shapes], NEW s \in Spans,
           NEW start \in Nat, NEW inc \in ONE..WHOLE,
           start <= LogNumber(s),
           LogNumber(s) # 0 => start < LogNumber(s)
    PROVE  /\ Count(s, start, inc) \in Nat
           /\ start + Count(s, start, inc) <= LogNumber(s)
           /\ LogNumber(s) # 0 => Count(s, start, inc) > 0
<1> DEFINE n == LogNumber(s)
           c == Share(n - start, inc)
<1>1. n \in Nat /\ n - start \in Nat
  BY LogNumberType
<1>2. c \in 0..(n - start)
  BY <1>1, ShareBound
<1> HIDE DEF n, c
<1>3. Count(s, start, inc) = IF c <= 1 /\ n # 0 THEN 1 ELSE c
  BY DEF Count, n, c
<1>4. n # 0 => start < n
  BY DEF n
<1>5. QED  BY <1>1, <1>2, <1>3, <1>4 DEF n

-----------------------------------------------------------------------------

\* Inside the loop over the parts of a span the position is inside its logs;
\* a search that succeeded, or gave up, has looked at the current position.
SearchInLogs ==
    pc \in {"try", "push"} =>
        /\ cur \in Spans
        /\ indexStart <= LogNumber(cur)
        /\ LogNumber(cur) # 0 => indexStart < LogNumber(cur)
        /\ pc = "try" => incLogs \in ONE..UPPERBOUND
        /\ pc = "push" \/ incLogs # UPPERBOUND =>
              /\ batch \in Batch
              /\ indexStart + indexCount <= LogNumber(cur)
              /\ LogNumber(cur) # 0 => indexCount > 0

IInv == TypeOK /\ SearchInLogs /\ RangeInLogs

\* The values LogCount is set to are in the enumeration.
LEMMA UpperBoundIsLogCount == UPPERBOUND \in LogCount /\ ERROR \in LogCount
BY DEF LogCount, ERROR, UPPERBOUND, PARTIAL

\* No flush has begun.
LEMMA InitIInv == Init => IInv
<1> SUFFICES ASSUME Init PROVE IInv
  OBVIOUS
<1>1. TypeOK
  <2>1. /\ 0 \in Nat /\ 1 \in Nat
        /\ <<>> \in Seq(Batch)
    BY EmptySeq
  <2>2. QED  BY <2>1, UpperBoundIsLogCount DEF Init, TypeOK
<1>2. SearchInLogs
  BY DEF Init, SearchInLogs
<1>3. RangeInLogs
  BY DEF Init, RangeInLogs
<1>4. QED  BY <1>1, <1>2, <1>3 DEF IInv

\* One pass of the search, from a position inside the logs.
LEMMA JaegerizeIInv ==
    ASSUME IInv, pc = "try",
           NEW inc \in ONE..WHOLE, NEW bad \in BOOLEAN,
           Jaegerize(inc, bad),
           UNCHANGED <<tracer, stored, todo, cur, indexStart, part, data, emitted, sent>>
    PROVE  IInv'
<1> DEFINE count == Count(cur, indexStart, inc)
           b == [span |-> cur, logLimit |-> inc, indStart |-> indexStart,
                 indCount |-> count, part |-> part, badLog |-> bad]
<1> USE DEF IInv
<1>1. /\ cur \in Spans
      /\ indexStart \in Nat
      /\ part \in Nat
      /\ shape \in [Spans -> Shapes]
      /\ indexStart <= LogNumber(cur)
      /\ LogNumber(cur) # 0 => indexStart < LogNumber(cur)
  BY DEF TypeOK, SearchInLogs
<1>2. /\ count \in Nat
      /\ indexStart + count <= LogNumber(cur)
      /\ LogNumber(cur) # 0 => count > 0
  BY <1>1, CountBound
<1> HIDE DEF count
<1>3. /\ inc \in LogCount
      /\ inc # UPPERBOUND
  BY DEF LogCount, ERROR, PARTIAL, ONE, WHOLE, UPPERBOUND
<1>4. b \in Batch
  BY <1>1, <1>2, <1>3 DEF Batch
<1>5. /\ incLogs' = inc
      /\ skipBadLog' = bad
      /\ indexCount' = count
      /\ batch' = b
      /\ pc' \in {"push", "try"}
  BY DEF Jaegerize, count
<1>6. LogNumber(cur)' = LogNumber(cur) /\ cur' = cur
  BY DEF LogNumber, LogsOf, tracer
<1>7. TypeOK'
  BY <1>2, <1>3, <1>4, <1>5 DEF TypeOK, tracer
<1>8. SearchInLogs'
  <2>1. inc \in ONE..UPPERBOUND
    BY DEF ONE, WHOLE, UPPERBOUND
  <2>2. QED  BY <1>1, <1>2, <1>3, <1>4, <1>5, <1>6, <2>1 DEF SearchInLogs
<1>9. RangeInLogs'
  <2>1. LogNumber(batch.span)' = LogNumber(cur)
    BY <1>5, <1>6 DEF LogNumber, LogsOf, tracer
  <2>2. batch'.indStart + batch'.indCount <= LogNumber(cur)
    BY <1>2, <1>5
  <2>3. HasOmission(batch)' => LogNumber(cur) > 0
    BY <2>1 DEF HasOmission, Partial
  <2>4. LogNumber(cur) > 0 => batch'.indStart < LogNumber(cur)
    BY <1>1, <1>5, LogNumberType
  <2>5. QED  BY <2>1, <2>2, <2>3, <2>4 DEF RangeInLogs
<1>10. QED  BY <1>7, <1>8, <1>9

\* A batch stays inside its logs as long as neither changes.
LEMMA SameBatch ==
    ASSUME RangeInLogs, shape' = shape, batch' = batch
    PROVE  RangeInLogs'
BY DEF RangeInLogs, HasOmission, Partial, LogNumber, LogsOf

\* Every step of a flush keeps the types of what it holds.
LEMMA NextIInv == IInv /\ [Next]_vars => IInv'
<1> SUFFICES ASSUME IInv, [Next]_vars PROVE IInv'
  OBVIOUS
<1> USE DEF IInv
<1>1. CASE Return
  BY <1>1, SameBatch DEF Return, TypeOK, SearchInLogs, tracer, position
<1>2. CASE Begin
  BY <1>2, SameBatch DEF Begin, TypeOK, SearchInLogs, tracer, position
<1>3. ASSUME NEW s \in Spans, NextSpan(s) PROVE IInv'
  <2>1. TypeOK'
    BY <1>3, UpperBoundIsLogCount DEF NextSpan, TypeOK, tracer
  <2>2. LogNumber(s) \in Nat /\ LogNumber(s)' = LogNumber(s)
    BY <1>3, LogNumberType DEF TypeOK, NextSpan, tracer, LogNumber, LogsOf
  <2>3. SearchInLogs'
    BY <1>3, <2>2 DEF NextSpan, SearchInLogs, LogNumber, LogsOf, tracer, ONE, UPPERBOUND
  <2>4. QED  BY <1>3, <2>1, <2>3, SameBatch DEF NextSpan, tracer
<1>4. CASE Attempt
  <2>1. incLogs - 1 \in ONE..WHOLE
    BY <1>4 DEF Attempt, SearchInLogs, ONE, WHOLE, UPPERBOUND
  <2>2. skipBadLog \in BOOLEAN
    BY DEF TypeOK
  <2>3. QED  BY <1>4, <2>1, <2>2, JaegerizeIInv DEF Attempt
<1>5. CASE SkipBadLog
  <2>1. ONE \in ONE..WHOLE
    BY DEF ONE, WHOLE
  <2>2. QED  BY <1>5, <2>1, JaegerizeIInv DEF SkipBadLog
<1>6. CASE GiveUp
  <2>1. TypeOK'
    BY <1>6, UpperBoundIsLogCount DEF GiveUp, TypeOK, tracer
  <2>2. LogNumber(cur)' = LogNumber(cur) /\ cur' = cur
    BY <1>6 DEF GiveUp, LogNumber, LogsOf, tracer
  <2>3. incLogs # UPPERBOUND
    BY <1>6 DEF GiveUp, ONE, UPPERBOUND
  <2>4. SearchInLogs'
    BY <1>6, <2>2, <2>3 DEF GiveUp, SearchInLogs
  <2>5. QED  BY <1>6, <2>1, <2>4, SameBatch DEF GiveUp, tracer
<1>7. CASE PushAndSplit \/ PushLast \/ PushAndRepeat
  <2> USE <1>7 DEF PushAndSplit, PushLast, PushAndRepeat
  <2>1. /\ pc = "push"
        /\ Pushed
        /\ cur \in Spans /\ batch \in Batch
        /\ indexStart + indexCount <= LogNumber(cur)
        /\ indexStart \in Nat /\ indexCount \in Nat
        /\ LogNumber(cur) \in Nat
    BY LogNumberType DEF SearchInLogs, TypeOK
  <2>2. RangeInLogs'
    BY <2>1, SameBatch DEF Pushed, tracer
  <2>3. data' \in Seq(Batch) /\ indexStart' \in Nat
    BY <2>1, AppendProperties DEF Pushed, TypeOK
  <2>4. CASE PushLast
    <3>1. TypeOK'
      BY <2>1, <2>3, <2>4 DEF Pushed, LeaveSpan, TypeOK, tracer
    <3>2. SearchInLogs'
      BY <2>4 DEF LeaveSpan, SearchInLogs
    <3>3. QED  BY <2>2, <3>1, <3>2
  <2>5. ASSUME NEW p \in {part, part + 1}, NextPart(p),
               LogNumber(cur) # indexStart + indexCount
        PROVE  IInv'
    <3>0. p \in Nat
      BY DEF TypeOK
    <3>1. TypeOK'
      BY <2>1, <2>3, <2>5, <3>0, UpperBoundIsLogCount
      DEF Pushed, NextPart, TypeOK, tracer
    <3>2. LogNumber(cur)' = LogNumber(cur)
      BY <2>1, <2>5 DEF Pushed, NextPart, LogNumber, LogsOf, tracer
    <3>3. SearchInLogs'
      BY <2>1, <2>5, <3>2
      DEF Pushed, NextPart, SearchInLogs, ONE, UPPERBOUND
    <3>4. QED  BY <2>2, <3>1, <3>3
  <2>6. CASE PushAndSplit
    <3>1. LogNumber(cur) # indexStart + indexCount
      BY <2>1, <2>6 DEF MorePartsLeft, IndexEnd
    <3>2. NextPart(part + 1)
      BY <2>6
    <3>3. QED  BY <2>5, <3>1, <3>2
  <2>7. CASE PushAndRepeat
    BY <2>5, <2>7
  <2>8. QED  BY <2>4, <2>6, <2>7
<1>8. CASE Parsed
  BY <1>8, SameBatch DEF Parsed, TypeOK, SearchInLogs, tracer, position
<1>9. CASE Send
  <2>1. /\ emitted' \in Nat
        /\ sent' = sent \/ sent' = sent \cup {emitted'}
    BY <1>9 DEF Send, TypeOK
  <2>2. TypeOK'
    BY <1>9, <2>1 DEF Send, TypeOK, tracer, position
  <2>3. SearchInLogs'
    BY <1>9 DEF Send, SearchInLogs
  <2>4. QED  BY <1>9, <2>2, <2>3, SameBatch DEF Send, tracer
<1>10. CASE ClearSpans
  BY <1>10, SameBatch DEF ClearSpans, TypeOK, SearchInLogs, tracer, position
<1>11. CASE UNCHANGED vars
  BY <1>11, SameBatch
  DEF vars, TypeOK, SearchInLogs, LogNumber, LogsOf, tracer, position
<1>12. QED
  BY <1>1, <1>2, <1>3, <1>4, <1>5, <1>6, <1>7, <1>8, <1>9, <1>10, <1>11
  DEF Next, Done

\* The variables keep their types: the share of logs a part asks for stays a
\* natural number, and LogCount never runs below ERROR.
THEOREM FlushTypeCorrect == Spec => []TypeOK
<1>1. IInv => TypeOK
  BY DEF IInv
<1>2. QED  BY <1>1, InitIInv, NextIInv, PTL DEF Spec

\* Whatever the sizes of the logs and however often a span is cut, no
\* jaegerizeSpan call reads outside _logs.
THEOREM RangesStayInLogs == Spec => []RangeInLogs
<1>1. IInv => RangeInLogs
  BY DEF IInv
<1>2. QED  BY <1>1, InitIInv, NextIInv, PTL DEF Spec

-----------------------------------------------------------------------------
(* Sizes.  A sum over no index or one is all that is needed of sums.        *)

\* The empty sum.
LEMMA SumOfNone ==
    ASSUME NEW f
    PROVE  SumFunctionOnSet(f, {}) = 0
<1> DEFINE Sums(it) == it = [s \in SUBSET {} |->
                IF s = {} THEN 0 ELSE LET x == CHOOSE x \in s : TRUE IN f[x] + it[s \ {x}]]
           iter == CHOOSE it : Sums(it)
<1>1. Sums([s \in SUBSET {} |-> 0])
  OBVIOUS
<1>2. Sums(iter)
  BY <1>1
<1>3. iter[{}] = 0
  BY <1>2
<1>4. SumFunctionOnSet(f, {}) = iter[{}]
  BY DEF SumFunctionOnSet, FoldFunctionOnSet, MapThenFoldSet
<1>5. QED  BY <1>3, <1>4

\* A sum of one number.
LEMMA SumOfOne ==
    ASSUME NEW f, NEW e, f[e] \in Nat
    PROVE  SumFunctionOnSet(f, {e}) = f[e]
<1> DEFINE Sums(it) == it = [s \in SUBSET {e} |->
                IF s = {} THEN 0 ELSE LET x == CHOOSE x \in s : TRUE IN f[x] + it[s \ {x}]]
           iter == CHOOSE it : Sums(it)
           g == [s \in SUBSET {e} |-> IF s = {} THEN 0 ELSE f[e]]
<1>1. Sums(g)
  <2>1. ASSUME NEW s \in SUBSET {e}
        PROVE  g[s] = IF s = {} THEN 0
                      ELSE LET x == CHOOSE x \in s : TRUE IN f[x] + g[s \ {x}]
    <3>1. CASE s = {}
      BY <3>1
    <3>2. CASE s # {}
      <4>1. s = {e}
        BY <3>2
      <4>2. (CHOOSE x \in s : TRUE) = e
        BY <4>1
      <4>3. s \ {e} = {} /\ {} \in SUBSET {e}
        BY <4>1
      <4>4. g[{}] = 0 /\ g[s] = f[e]
        BY <4>1
      <4>5. QED  BY <4>1, <4>2, <4>3, <4>4
    <3>3. QED  BY <3>1, <3>2
  <2>2. QED  BY <2>1
<1>2. Sums(iter)
  BY <1>1
<1>3. iter[{e}] = f[e]
  <2> HIDE DEF iter
  <2>1. {e} \in SUBSET {e} /\ {} \in SUBSET {e}
    OBVIOUS
  <2>2. iter[{}] = 0
    BY <1>2, <2>1
  <2>3. (CHOOSE x \in {e} : TRUE) = e /\ {e} \ {e} = {}
    OBVIOUS
  <2>4. iter[{e}] = f[e] + iter[{}]
    BY <1>2, <2>1, <2>3
  <2>5. QED  BY <2>2, <2>4
<1>4. SumFunctionOnSet(f, {e}) = iter[{e}]
  BY DEF SumFunctionOnSet, FoldFunctionOnSet, MapThenFoldSet
<1>5. QED  BY <1>3, <1>4

\* The sizes of a span and of its logs are natural numbers.
LEMMA ShapeType ==
    ASSUME shape \in [Spans -> Shapes], NEW s \in Spans
    PROVE  /\ shape[s].base \in Nat /\ shape[s].sampled \in BOOLEAN
           /\ LogsOf(s) \in Seq(Nat) /\ DOMAIN LogsOf(s) = 1..LogNumber(s)
           /\ LogNumber(s) \in Nat
           /\ \A i \in 1..LogNumber(s) : LogsOf(s)[i] \in Nat
<1>1. shape[s] \in [sampled : BOOLEAN, base : Nat, logs : Seq(Nat)]
  BY ShapesAssumption
<1>2. shape[s].logs \in Seq(Nat)
  BY <1>1
<1>3. QED  BY <1>1, <1>2, LenProperties, ElementOfSeq DEF LogsOf, LogNumber

\* The sizes of a packet are natural numbers and an empty one fits.
LEMMA SizeTypes ==
    /\ MaxSpanBytes \in Nat /\ EmptyBytes \in Nat /\ NoteBytes \in Nat
    /\ EmptyBytes <= MaxSpanBytes
BY SizesAssumption, Zenon DEF SizesAssumption

\* What a span costs beside its logs is a natural number.
LEMMA OverheadType ==
    ASSUME shape \in [Spans -> Shapes], NEW s \in Spans
    PROVE  Overhead(s) \in Nat /\ Overhead(s) = EmptyBytes + shape[s].base + 2 * NoteBytes
BY ShapeType, SizeTypes DEF Overhead

\* Without logs of its own a batch costs its overhead at most.
LEMMA BadLogFits ==
    ASSUME shape \in [Spans -> Shapes], NEW b \in Batch, b.badLog,
           Overhead(b.span) <= MaxSpanBytes
    PROVE  Fits(b)
<1> DEFINE noLogs == {i \in DOMAIN LogsOf(b.span) : i - 1 \in Carried(b)}
           sum == SumFunctionOnSet(LogsOf(b.span), noLogs)
<1>1. b.span \in Spans
  BY DEF Batch
<1>2. sum = 0
  <2>1. noLogs = {}
    BY DEF Carried
  <2>2. QED  BY <2>1, SumOfNone
<1> HIDE DEF sum
<1>3. /\ shape[b.span].base \in Nat
      /\ Overhead(b.span) = EmptyBytes + shape[b.span].base + 2 * NoteBytes
  BY <1>1, ShapeType, OverheadType
<1>4. Bytes(b) = IF ~shape[b.span].sampled THEN EmptyBytes
                 ELSE EmptyBytes + shape[b.span].base + sum
                      + (IF Partial(b) THEN NoteBytes ELSE 0)
                      + (IF HasOmission(b) THEN NoteBytes ELSE 0)
  BY DEF Bytes, sum
<1>5. QED  BY <1>2, <1>3, <1>4, SizeTypes DEF Fits

\* One log that does not fit is larger than what the overhead leaves.
LEMMA OneLogTooLarge ==
    ASSUME shape \in [Spans -> Shapes], NEW b \in Batch, ~b.badLog, b.indCount = 1,
           b.indStart + 1 <= LogNumber(b.span), shape[b.span].sampled, ~Fits(b)
    PROVE  Overhead(b.span) - NoteBytes + LogsOf(b.span)[b.indStart + 1] > MaxSpanBytes
<1> DEFINE one == {i \in DOMAIN LogsOf(b.span) : i - 1 \in Carried(b)}
           sum == SumFunctionOnSet(LogsOf(b.span), one)
           log == LogsOf(b.span)[b.indStart + 1]
<1>1. b.span \in Spans /\ b.indStart \in Nat
  BY DEF Batch
<1>2. /\ DOMAIN LogsOf(b.span) = 1..LogNumber(b.span) /\ LogNumber(b.span) \in Nat
      /\ log \in Nat
  BY <1>1, ShapeType
<1>3. sum = log
  <2>1. one = {b.indStart + 1}
    BY <1>1, <1>2 DEF Carried, Covered
  <2>2. QED  BY <1>2, <2>1, SumOfOne
<1> HIDE DEF sum
<1>4. /\ shape[b.span].base \in Nat
      /\ Overhead(b.span) = EmptyBytes + shape[b.span].base + 2 * NoteBytes
  BY <1>1, ShapeType, OverheadType
<1>5. Bytes(b) = EmptyBytes + shape[b.span].base + sum + (IF Partial(b) THEN NoteBytes ELSE 0)
  <2>1. ~HasOmission(b)
    BY DEF HasOmission
  <2>2. Bytes(b) = EmptyBytes + shape[b.span].base + sum
                   + (IF Partial(b) THEN NoteBytes ELSE 0) + 0
    BY <2>1 DEF Bytes, sum
  <2>3. sum \in Nat
    BY <1>2, <1>3
  <2>4. ASSUME NEW e \in Nat, NEW d \in Nat, NEW l \in Nat, NEW x \in Nat
        PROVE  e + d + l + x + 0 = e + d + l + x
    BY <2>4
  <2>5. EmptyBytes \in Nat /\ shape[b.span].base \in Nat
        /\ (IF Partial(b) THEN NoteBytes ELSE 0) \in Nat
    BY <1>4, SizeTypes
  <2>6. QED  BY <2>2, <2>3, <2>4, <2>5
<1> HIDE DEF log
<1>6. Bytes(b) <= EmptyBytes + shape[b.span].base + log + NoteBytes /\ Bytes(b) \in Nat
  <2>1. ASSUME NEW e \in Nat, NEW d \in Nat, NEW l \in Nat, NEW n \in Nat, NEW x \in {0, n}
        PROVE  e + d + l + x <= e + d + l + n /\ e + d + l + x \in Nat
    <3>1. CASE x = 0
      BY <2>1, <3>1
    <3>2. CASE x = n
      BY <2>1, <3>2
    <3>3. QED  BY <3>1, <3>2
  <2>2. PICK x \in {0, NoteBytes} : Bytes(b) = EmptyBytes + shape[b.span].base + log + x
    <3>1. CASE Partial(b)
      BY <1>3, <1>5, <3>1
    <3>2. CASE ~Partial(b)
      BY <1>3, <1>5, <3>2
    <3>3. QED  BY <3>1, <3>2
  <2>3. EmptyBytes \in Nat /\ NoteBytes \in Nat /\ shape[b.span].base \in Nat /\ log \in Nat
    BY <1>2, <1>4, SizeTypes
  <2>4. QED  BY <2>1, <2>2, <2>3
<1>7. Bytes(b) > MaxSpanBytes
  BY <1>6, SizeTypes DEF Fits
<1>8. ASSUME NEW e \in Nat, NEW d \in Nat, NEW n \in Nat, NEW l \in Nat, NEW m \in Nat,
             NEW y \in Nat, y <= e + d + l + n, y > m
      PROVE  (e + d + 2 * n) - n + l > m
  BY <1>8
<1>9. Overhead(b.span) - NoteBytes + log > MaxSpanBytes
  BY <1>2, <1>4, <1>6, <1>7, <1>8, SizeTypes
<1>10. QED  BY <1>9 DEF log

\* Nothing of a span is in a batch that is not sampled.
LEMMA NotSampledFits ==
    ASSUME NEW b, ~shape[b.span].sampled
    PROVE  Fits(b)
BY SizeTypes DEF Fits, Bytes

-----------------------------------------------------------------------------
(* Where the loop stands, and what the batch in hand is.                    *)

InLoop == pc \in {"try", "push"}
End(b) == b.indStart + b.indCount

\* What one log alone would cost with its note.
TooLarge(s, i) == Overhead(s) - NoteBytes + LogsOf(s)[i + 1] > MaxSpanBytes

\* After its first pass the search has a batch for the current position; it is
\* too large while the search goes on, and one log when a log is left out.
BatchHere ==
    /\ pc = "try" /\ skipBadLog => incLogs = ONE
    /\ InLoop /\ (pc = "push" \/ incLogs # UPPERBOUND) =>
           /\ batch.span = cur /\ batch.indStart = indexStart /\ batch.indCount = indexCount
           /\ pc = "try" => ~Fits(batch) /\ batch.badLog = skipBadLog
           /\ pc = "push" => Fits(batch) \/ Overhead(cur) > MaxSpanBytes
           /\ pc = "push" /\ incLogs = WHOLE => End(batch) = LogNumber(cur)
           /\ pc = "push" /\ incLogs = ERROR => Overhead(cur) > MaxSpanBytes
           /\ incLogs = ONE /\ LogNumber(cur) # 0 => indexCount = 1
           /\ batch.badLog /\ shape[cur].sampled /\ LogNumber(cur) # 0 =>
                 indexCount = 1 /\ TooLarge(cur, indexStart)

\* No span is taken twice, and the batches of the current one are the last.
Position ==
    /\ ~InLoop => cur = NoSpan
    /\ pc = "flush" => data = <<>>
    /\ pc \in {"flush", "send", "done"} => todo = {}
    /\ stored = Spans \/ (pc = "done" /\ stored = {})
    /\ cur \notin todo
    /\ \A i \in DOMAIN data : data[i].span \notin todo
    /\ InLoop =>
          IF \E i \in DOMAIN data : data[i].span = cur
          THEN data[Len(data)].span = cur /\ End(data[Len(data)]) = indexStart
          ELSE indexStart = 0

\* What the search for a whole span has found so far.
WholeSpan(s) ==
    [span |-> s, logLimit |-> WHOLE, indStart |-> 0,
     indCount |-> LogNumber(s), part |-> 1, badLog |-> FALSE]

WholeFirst ==
    InLoop /\ Fits(WholeSpan(cur)) =>
        /\ indexStart = 0 /\ part = 1
        /\ pc = "try" => incLogs = UPPERBOUND /\ ~skipBadLog
        /\ pc = "push" => batch = WholeSpan(cur)

\* Of the batches of a span only the last one reaches the end of its logs.
OnlyLastEnds ==
    /\ \A i \in DOMAIN data : End(data[i]) <= LogNumber(data[i].span)
    /\ \A i, j \in DOMAIN data :
          i < j /\ SameSpan(i, j) => End(data[i]) # LogNumber(data[i].span)
    /\ \A i \in DOMAIN data :
          InLoop /\ data[i].span = cur => End(data[i]) # LogNumber(cur)

\* The logs before the position, and those of the spans left, are in packets.
Parsing == reporter = "UdpReporter" /\ pc # "flush" /\ (pc = "done" => stored = {})
MustFit(s) == Overhead(s) <= MaxSpanBytes /\ shape[s].sampled

LogsSoFar ==
    Parsing =>
        \A s \in Spans \ todo : MustFit(s) =>
            \A i \in 0..(LogNumber(s) - 1) :
                (s = cur => i < indexStart) => LogInPacket(s, i)

\* What the batches of the current span report.
ReportedSoFar == InLoop => \A s \in Spans : s = cur => Reported(s) = 0..(indexStart - 1)

Parts ==
    /\ IInv
    /\ BatchHere /\ Position /\ WholeFirst
    /\ EachLogOnceInOrder /\ OnlyLastEnds /\ PacketFits /\ CutOnlyIfNeeded
    /\ LogsSoFar /\ ReportedSoFar

-----------------------------------------------------------------------------
(* What a step does to the batches made so far: one of five things.         *)

SameSpans == UNCHANGED tracer

\* Outside the loop over the parts of a span, no batch is made.
Elsewhere ==
    /\ SameSpans /\ data' = data
    /\ ~InLoop /\ ~InLoop' /\ cur' = cur
    /\ \/ /\ pc = "flush" /\ pc' = "done"
          /\ UNCHANGED <<stored, todo, emitted>>
       \/ /\ pc = "flush" /\ pc' = "span"
          /\ todo' = IF reporter = "UdpReporter" THEN stored ELSE {}
          /\ UNCHANGED <<stored, emitted>>
       \/ /\ pc = "span" /\ pc' = "send" /\ todo = {}
          /\ UNCHANGED <<stored, todo, emitted>>
       \/ /\ pc = "send" /\ pc' = "send" /\ emitted < Len(data) /\ emitted' = emitted + 1
          /\ UNCHANGED <<stored, todo>>
       \/ /\ pc = "send" /\ pc' = "done" /\ emitted = Len(data) /\ stored' = {}
          /\ UNCHANGED <<todo, emitted>>
       \/ UNCHANGED <<pc, stored, todo, emitted>>

\* The loop takes a span.
Takes ==
    /\ SameSpans /\ UNCHANGED <<data, stored, emitted>>
    /\ pc = "span" /\ pc' = "try"
    /\ \E s \in todo : cur' = s /\ todo' = todo \ {s}
    /\ indexStart' = 0 /\ part' = 1 /\ incLogs' = UPPERBOUND /\ skipBadLog' = FALSE

\* The search for a range of logs goes on.
Searches ==
    /\ SameSpans /\ UNCHANGED <<data, stored, emitted, todo, cur, indexStart, part>>
    /\ InLoop /\ InLoop'

\* The batch is kept, and the next part is looked for ...
Adds ==
    /\ SameSpans /\ UNCHANGED <<stored, emitted, todo, batch>>
    /\ pc = "push"
    /\ data' = Append(data, batch)
    /\ indexStart' = indexStart + indexCount

Continues ==
    /\ Adds
    /\ cur' = cur /\ pc' = "try" /\ incLogs' = UPPERBOUND /\ skipBadLog' = FALSE
    /\ End(batch) # LogNumber(cur)

\* ... or the span is done with.
Leaves ==
    /\ Adds
    /\ cur' = NoSpan /\ pc' = "span"
    /\ End(batch) = LogNumber(cur) \/ Overhead(cur) > MaxSpanBytes

\* The batch that is kept covers the range that was chosen.
LEMMA InPush ==
    ASSUME IInv, BatchHere, pc = "push"
    PROVE  /\ cur \in Spans /\ batch \in Batch
           /\ indexStart \in Nat /\ indexCount \in Nat /\ LogNumber(cur) \in Nat
           /\ indexStart + indexCount <= LogNumber(cur)
           /\ batch.span = cur /\ batch.indStart = indexStart /\ batch.indCount = indexCount
           /\ End(batch) = indexStart + indexCount
<1>1. /\ cur \in Spans /\ batch \in Batch /\ indexStart + indexCount <= LogNumber(cur)
      /\ shape \in [Spans -> Shapes] /\ indexStart \in Nat /\ indexCount \in Nat
  BY DEF IInv, SearchInLogs, TypeOK
<1>2. batch.span = cur /\ batch.indStart = indexStart /\ batch.indCount = indexCount
  BY DEF BatchHere, InLoop
<1>3. QED  BY <1>1, <1>2, LogNumberType DEF End

\* A step is elsewhere, takes a span, searches, or keeps a batch and goes on or leaves.
LEMMA PartsStepClasses ==
    ASSUME IInv, BatchHere, [Next]_vars
    PROVE  Elsewhere \/ Takes \/ Searches \/ Continues \/ Leaves
<1>1. CASE Return \/ Begin
  BY <1>1 DEF Return, Begin, Elsewhere, SameSpans, InLoop
<1>2. ASSUME NEW s \in Spans, NextSpan(s) PROVE Takes
  BY <1>2 DEF NextSpan, Takes, SameSpans
<1>3. CASE Attempt \/ SkipBadLog
  BY <1>3 DEF Attempt, SkipBadLog, Jaegerize, Searches, SameSpans, InLoop
<1>4. CASE GiveUp
  BY <1>4 DEF GiveUp, Searches, SameSpans, InLoop
<1>5. CASE PushAndSplit \/ PushLast \/ PushAndRepeat
  <2>1. pc = "push" /\ Pushed
    BY <1>5 DEF PushAndSplit, PushLast, PushAndRepeat
  <2>2. Adds
    BY <2>1 DEF Pushed, Adds, SameSpans
  <2>3. /\ indexStart \in Nat /\ indexCount \in Nat /\ LogNumber(cur) \in Nat
        /\ End(batch) = indexStart + indexCount
    BY <2>1, InPush
  <2>4. CASE PushAndSplit
    <3>1. LogNumber(cur) # indexStart + indexCount
      BY <2>3, <2>4 DEF PushAndSplit, MorePartsLeft, IndexEnd
    <3>2. QED  BY <2>2, <2>3, <2>4, <3>1 DEF PushAndSplit, NextPart, Continues
  <2>5. CASE PushAndRepeat
    BY <2>2, <2>3, <2>5 DEF PushAndRepeat, NextPart, Continues
  <2>6. CASE PushLast
    <3>1. LogNumber(cur) = End(batch) \/ Overhead(cur) > MaxSpanBytes
      <4>1. CASE LogNumber(cur) = indexStart + indexCount
        BY <2>3, <4>1
      <4>2. CASE incLogs \in {WHOLE, ERROR}
        BY <2>1, <4>2 DEF BatchHere, InLoop
      <4>3. QED  BY <2>6, <4>1, <4>2 DEF PushLast
    <3>2. QED  BY <2>2, <2>6, <3>1 DEF PushLast, LeaveSpan, Leaves
  <2>7. QED  BY <1>5, <2>4, <2>5, <2>6
<1>6. CASE Parsed \/ Send \/ ClearSpans
  BY <1>6 DEF Parsed, Send, ClearSpans, Elsewhere, SameSpans, InLoop
<1>7. CASE UNCHANGED vars
  BY <1>7 DEF vars, position, Elsewhere, Searches, SameSpans, InLoop
<1>8. QED
  BY <1>1, <1>2, <1>3, <1>4, <1>5, <1>6, <1>7 DEF Next, Done

-----------------------------------------------------------------------------
(* The spans do not change, and so neither does what a batch costs.         *)

\* When spans stay as they are, so does what depends on them.
LEMMA SameShape ==
    ASSUME SameSpans
    PROVE  /\ shape' = shape /\ reporter' = reporter
           /\ \A s : /\ LogsOf(s)' = LogsOf(s) /\ LogNumber(s)' = LogNumber(s)
                     /\ Overhead(s)' = Overhead(s) /\ (MustFit(s)' <=> MustFit(s))
                     /\ WholeSpan(s)' = WholeSpan(s)
BY DEF SameSpans, tracer, LogsOf, LogNumber, Overhead, MustFit, WholeSpan

\* When spans stay as they are, what fits does.
LEMMA SameCost ==
    ASSUME SameSpans
    PROVE  \A b : Fits(b)' <=> Fits(b)
<1>1. shape' = shape
  BY DEF SameSpans, tracer
<1>2. QED
  BY <1>1 DEF Fits, Bytes, Partial, HasOmission, Carried, Covered, LogsOf, LogNumber

\* The same batch fits as before.
LEMMA CostOfBatch ==
    ASSUME SameSpans, NEW b, batch' = b
    PROVE  Fits(batch)' <=> Fits(b)
<1>1. shape' = shape
  BY DEF SameSpans, tracer
<1>2. QED
  BY <1>1 DEF Fits, Bytes, Partial, HasOmission, Carried, Covered, LogsOf, LogNumber

-----------------------------------------------------------------------------
(* The batch in hand. *)

\* The whole of the logs that are left is all of them, the smallest share is
\* one log.
LEMMA CountOfShare ==
    ASSUME shape \in [Spans -> Shapes], NEW s \in Spans, NEW start \in Nat,
           start <= LogNumber(s), LogNumber(s) # 0 => start < LogNumber(s)
    PROVE  /\ start + Count(s, start, WHOLE) = LogNumber(s)
           /\ LogNumber(s) # 0 => Count(s, start, ONE) = 1
<1>1. LogNumber(s) \in Nat
  BY LogNumberType
<1>2. ASSUME NEW m \in Nat
      PROVE  Share(m, WHOLE) = m /\ Share(m, ONE) = 0
  BY DEF Share, WHOLE, ONE
<1>3. LogNumber(s) - start \in Nat
  BY <1>1
<1>4. Share(LogNumber(s) - start, WHOLE) = LogNumber(s) - start
      /\ Share(LogNumber(s) - start, ONE) = 0
  BY <1>2, <1>3
<1>5. QED  BY <1>1, <1>4 DEF Count

\* A batch that was just made is that of the current span and range.
LEMMA JaegerizeHere ==
    ASSUME IInv, pc = "try",
           NEW inc \in ONE..WHOLE, NEW bad \in BOOLEAN,
           Jaegerize(inc, bad),
           UNCHANGED <<tracer, stored, todo, cur, indexStart, part, data, emitted, sent>>,
           bad => inc = ONE,
           bad /\ shape[cur].sampled /\ LogNumber(cur) # 0 => TooLarge(cur, indexStart)
    PROVE  BatchHere'
<1> DEFINE count == Count(cur, indexStart, inc)
           b == [span |-> cur, logLimit |-> inc, indStart |-> indexStart,
                 indCount |-> count, part |-> part, badLog |-> bad]
<1>1. /\ cur \in Spans /\ indexStart \in Nat /\ shape \in [Spans -> Shapes]
      /\ indexStart <= LogNumber(cur)
      /\ LogNumber(cur) # 0 => indexStart < LogNumber(cur)
  BY DEF IInv, TypeOK, SearchInLogs
<1>2. /\ inc = WHOLE => indexStart + count = LogNumber(cur)
      /\ inc = ONE /\ LogNumber(cur) # 0 => count = 1
  BY <1>1, CountOfShare
<1> HIDE DEF count
<1>3. /\ incLogs' = inc /\ skipBadLog' = bad /\ indexCount' = count /\ batch' = b
      /\ pc' = IF Fits(b) THEN "push" ELSE "try"
  BY DEF Jaegerize, count
<1>4. SameSpans /\ cur' = cur /\ indexStart' = indexStart
  BY DEF SameSpans
<1>5. Fits(batch)' <=> Fits(b)
  BY <1>3, <1>4, CostOfBatch
<1>6. LogNumber(cur)' = LogNumber(cur) /\ shape' = shape /\ TooLarge(cur, indexStart)' = TooLarge(cur, indexStart)
  BY <1>4 DEF SameSpans, tracer, LogNumber, LogsOf, TooLarge, Overhead
<1>7. inc # ERROR /\ inc # UPPERBOUND
  BY DEF ONE, WHOLE, ERROR, UPPERBOUND
<1>8. b.span = cur /\ b.indStart = indexStart /\ b.indCount = count /\ b.badLog = bad
  OBVIOUS
<1>9. End(batch)' = indexStart + count
  BY <1>3, <1>8 DEF End
<1> HIDE DEF b
<1>10. QED
  BY <1>2, <1>3, <1>4, <1>5, <1>6, <1>7, <1>8, <1>9 DEF BatchHere, InLoop

\* The batch at hand stays that of the current span and range.
LEMMA BatchHereNext ==
    ASSUME IInv, BatchHere, [Next]_vars
    PROVE  BatchHere'
<1>0. TypeOK /\ SearchInLogs
  BY DEF IInv
<1>1. CASE Attempt
  <2>1. incLogs - 1 \in ONE..WHOLE /\ skipBadLog \in BOOLEAN /\ ~skipBadLog
    BY <1>0, <1>1 DEF Attempt, SearchInLogs, BatchHere, TypeOK, ONE, WHOLE, UPPERBOUND
  <2>2. QED  BY <1>1, <2>1, JaegerizeHere DEF Attempt
<1>2. CASE SkipBadLog
  <2>1. /\ pc = "try" /\ incLogs = ONE /\ ~skipBadLog /\ ONE # UPPERBOUND
        /\ ONE \in ONE..WHOLE
    BY <1>2 DEF SkipBadLog, ONE, UPPERBOUND, WHOLE
  <2>2. /\ batch.span = cur /\ batch.indStart = indexStart /\ batch.indCount = indexCount
        /\ ~Fits(batch) /\ batch.badLog = skipBadLog
        /\ LogNumber(cur) # 0 => indexCount = 1
    BY <2>1 DEF BatchHere, InLoop
  <2>3. /\ batch \in Batch /\ cur \in Spans /\ shape \in [Spans -> Shapes]
        /\ indexStart \in Nat /\ LogNumber(cur) \in Nat
        /\ LogNumber(cur) # 0 => indexStart < LogNumber(cur)
    BY <1>0, <2>1, LogNumberType DEF TypeOK, SearchInLogs
  <2>4. ASSUME shape[cur].sampled, LogNumber(cur) # 0
        PROVE  TooLarge(cur, indexStart)
    <3>1. batch.indStart + 1 <= LogNumber(batch.span)
      BY <2>2, <2>3, <2>4
    <3>2. QED  BY <2>1, <2>2, <2>3, <2>4, <3>1, OneLogTooLarge DEF TooLarge
  <2>5. QED  BY <1>2, <2>1, <2>4, JaegerizeHere DEF SkipBadLog
<1>3. CASE GiveUp
  <2>1. /\ pc = "try" /\ incLogs = ONE /\ skipBadLog /\ ONE # UPPERBOUND
        /\ ERROR # ONE /\ ERROR # WHOLE
    BY <1>3 DEF GiveUp, ONE, UPPERBOUND, ERROR, WHOLE
  <2>2. /\ batch.span = cur /\ batch.indStart = indexStart /\ batch.indCount = indexCount
        /\ ~Fits(batch) /\ batch.badLog
        /\ shape[cur].sampled /\ LogNumber(cur) # 0 =>
              indexCount = 1 /\ TooLarge(cur, indexStart)
    BY <2>1 DEF BatchHere, InLoop
  <2>3. batch \in Batch /\ cur \in Spans /\ shape \in [Spans -> Shapes]
    BY <1>0, <2>1 DEF TypeOK, SearchInLogs
  <2>4. Overhead(cur) > MaxSpanBytes
    BY <2>2, <2>3, BadLogFits, OverheadType, SizeTypes
  <2>5. /\ SameSpans /\ batch' = batch /\ cur' = cur /\ pc' = "push" /\ incLogs' = ERROR
        /\ indexStart' = indexStart /\ indexCount' = indexCount
    BY <1>3 DEF GiveUp, SameSpans
  <2>6. /\ LogNumber(cur)' = LogNumber(cur) /\ Overhead(cur)' = Overhead(cur) /\ shape' = shape
        /\ TooLarge(cur, indexStart)' = TooLarge(cur, indexStart)
    BY <2>5 DEF SameSpans, tracer, LogNumber, LogsOf, TooLarge, Overhead
  <2>7. QED  BY <2>1, <2>2, <2>4, <2>5, <2>6 DEF BatchHere
<1>4. CASE UNCHANGED vars
  <2>1. SameSpans /\ batch' = batch
    BY <1>4 DEF vars, SameSpans
  <2>2. Fits(batch)' <=> Fits(batch)
    BY <2>1, CostOfBatch
  <2>3. /\ LogNumber(cur)' = LogNumber(cur) /\ Overhead(cur)' = Overhead(cur)
        /\ TooLarge(cur, indexStart)' = TooLarge(cur, indexStart) /\ End(batch)' = End(batch)
    BY <1>4 DEF vars, position, tracer, LogNumber, LogsOf, TooLarge, Overhead, End
  <2>4. QED  BY <1>4, <2>2, <2>3 DEF vars, position, tracer, BatchHere, InLoop
<1>5. CASE \/ Return \/ Begin \/ Parsed \/ Send \/ ClearSpans \/ PushLast
           \/ PushAndSplit \/ PushAndRepeat \/ \E s \in Spans : NextSpan(s)
  BY <1>5 DEF Return, Begin, Parsed, Send, ClearSpans, PushLast, PushAndSplit, PushAndRepeat,
     NextSpan, NextPart, LeaveSpan, BatchHere, InLoop
<1>6. QED  BY <1>1, <1>2, <1>3, <1>4, <1>5 DEF Next, Done

-----------------------------------------------------------------------------
(* The batches made so far, with one more. *)

\* The batches kept so far have the types of batches.
LEMMA DataType ==
    ASSUME IInv
    PROVE  /\ Len(data) \in Nat /\ DOMAIN data = 1..Len(data)
           /\ \A i \in DOMAIN data : data[i] \in Batch /\ data[i].span \in Spans
                                     /\ data[i].indStart \in Nat /\ data[i].indCount \in Nat
<1>1. data \in Seq(Batch)
  BY DEF IInv, TypeOK
<1>2. Len(data) \in Nat /\ DOMAIN data = 1..Len(data) /\ \A i \in DOMAIN data : data[i] \in Batch
  BY <1>1, LenProperties, ElementOfSeq
<1>3. QED  BY <1>2 DEF Batch

\* Keeping a batch appends one.
LEMMA OneMore ==
    ASSUME IInv, BatchHere, Adds
    PROVE  /\ Len(data) \in Nat /\ DOMAIN data = 1..Len(data)
           /\ Len(data') = Len(data) + 1 /\ DOMAIN data' = 1..(Len(data) + 1)
           /\ \A i \in DOMAIN data : data'[i] = data[i]
           /\ data'[Len(data) + 1] = batch
<1>1. data \in Seq(Batch) /\ batch \in Batch
  BY InPush DEF Adds, IInv, TypeOK
<1>2. /\ Append(data, batch) \in Seq(Batch)
      /\ Len(Append(data, batch)) = Len(data) + 1
      /\ \A i \in 1..Len(data) : Append(data, batch)[i] = data[i]
      /\ Append(data, batch)[Len(data) + 1] = batch
  BY <1>1, AppendProperties
<1>3. Len(data) \in Nat /\ DOMAIN data = 1..Len(data)
      /\ DOMAIN Append(data, batch) = 1..Len(Append(data, batch))
  BY <1>1, <1>2, LenProperties
<1>4. QED  BY <1>2, <1>3 DEF Adds

\* The next log of the current span stays where its last batch ends.
LEMMA PositionNext ==
    ASSUME IInv, BatchHere, Position, Elsewhere \/ Takes \/ Searches \/ Continues \/ Leaves,
           NoSpan \notin Spans
    PROVE  Position'
<1>0. TypeOK
  BY DEF IInv
<1>1. CASE Elsewhere
  <2>1. /\ cur' = cur /\ cur = NoSpan /\ data' = data /\ ~InLoop'
    BY <1>1 DEF Elsewhere, Position
  <2>2. todo' \subseteq Spans
    BY <1>0, <1>1 DEF Elsewhere, TypeOK
  <2>3. \A i \in DOMAIN data' : data'[i].span \notin todo'
    <3>1. CASE pc = "flush"
      BY <3>1, <2>1 DEF Position
    <3>2. CASE pc # "flush"
      BY <3>2, <1>1, <2>1 DEF Position, Elsewhere
    <3>3. QED  BY <3>1, <3>2
  <2>4. pc' = "flush" => data' = <<>>
    BY <1>1, <2>1 DEF Position, Elsewhere
  <2>5. pc' \in {"flush", "send", "done"} => todo' = {}
    BY <1>1 DEF Position, Elsewhere
  <2>6. stored' = Spans \/ (pc' = "done" /\ stored' = {})
    BY <1>1 DEF Position, Elsewhere
  <2>7. QED  BY <2>1, <2>2, <2>3, <2>4, <2>5, <2>6 DEF Position
<1>2. CASE Takes
  <2>1. PICK s \in todo : cur' = s /\ todo' = todo \ {s}
    BY <1>2 DEF Takes
  <2>2. QED  BY <1>2, <2>1 DEF Takes, Position, InLoop
<1>3. CASE Searches
  BY <1>3 DEF Searches, Position, InLoop, End
<1>4. CASE Continues \/ Leaves
  <2>1. /\ Adds /\ pc = "push" /\ pc' \in {"try", "span"} /\ todo' = todo
        /\ pc' = "try" => cur' = cur
        /\ pc' = "span" => cur' = NoSpan
    BY <1>4 DEF Continues, Leaves, Adds
  <2>2. /\ Len(data) \in Nat /\ DOMAIN data = 1..Len(data)
        /\ Len(data') = Len(data) + 1 /\ DOMAIN data' = 1..(Len(data) + 1)
        /\ \A i \in DOMAIN data : data'[i] = data[i]
        /\ data'[Len(data) + 1] = batch
    BY <2>1, OneMore
  <2>3. batch.span = cur /\ cur \notin todo /\ End(batch) = indexStart + indexCount
    BY <2>1, InPush DEF Position
  <2>4. \A i \in DOMAIN data' : data'[i].span \notin todo'
    <3>1. ASSUME NEW i \in DOMAIN data'
          PROVE  data'[i].span \notin todo
      <4>1. CASE i = Len(data) + 1
        BY <4>1, <2>2, <2>3
      <4>2. CASE i # Len(data) + 1
        BY <4>2, <2>2 DEF Position
      <4>3. QED  BY <4>1, <4>2
    <3>2. QED  BY <2>1, <3>1
  <2>5. cur' \notin todo'
    BY <1>0, <2>1, <2>3 DEF TypeOK
  <2>6. ASSUME InLoop'
        PROVE  /\ \E i \in DOMAIN data' : data'[i].span = cur'
               /\ data'[Len(data')].span = cur' /\ End(data[Len(data)])' = indexStart'
    <3>1. cur' = cur /\ Len(data) + 1 \in DOMAIN data' /\ data'[Len(data')] = batch
      BY <2>1, <2>2, <2>6 DEF InLoop
    <3>2. End(data[Len(data)])' = End(batch)
      BY <3>1 DEF End
    <3>3. QED  BY <2>1, <2>2, <2>3, <3>1, <3>2 DEF Adds
  <2>7. QED  BY <2>1, <2>4, <2>5, <2>6 DEF Position, InLoop, Adds
<1>5. QED  BY <1>1, <1>2, <1>3, <1>4

\* The first search asks for the whole span.
LEMMA WholeFirstNext ==
    ASSUME IInv, BatchHere, WholeFirst, [Next]_vars
    PROVE  WholeFirst'
<1>0. TypeOK /\ SearchInLogs
  BY DEF IInv
<1>1. CASE Takes
  BY <1>1 DEF Takes, WholeFirst
<1>2. CASE pc = "try" /\ (Attempt \/ SkipBadLog \/ GiveUp)
  <2>0. SameSpans /\ cur' = cur /\ pc = "try" /\ InLoop
    BY <1>2 DEF Attempt, SkipBadLog, GiveUp, SameSpans, InLoop
  <2> SUFFICES ASSUME Fits(WholeSpan(cur))'
               PROVE  indexStart' = 0 /\ part' = 1 /\ pc' = "push" /\ batch' = WholeSpan(cur)'
    BY DEF WholeFirst
  <2>1. Fits(WholeSpan(cur)) /\ WholeSpan(cur)' = WholeSpan(cur)
    BY <2>0 DEF SameSpans, tracer, Fits, Bytes, Partial, HasOmission, Carried, Covered,
                LogsOf, LogNumber, WholeSpan
  <2>2. indexStart = 0 /\ part = 1 /\ incLogs = UPPERBOUND /\ ~skipBadLog /\ skipBadLog \in BOOLEAN
    BY <2>0, <2>1, <1>0 DEF WholeFirst, TypeOK
  <2>3. Jaegerize(WHOLE, FALSE) /\ indexStart' = indexStart /\ part' = part
    <3>1. incLogs # ONE /\ incLogs - 1 = WHOLE /\ skipBadLog = FALSE
      BY <2>2 DEF ONE, WHOLE, UPPERBOUND
    <3>2. Attempt
      BY <1>2, <3>1 DEF SkipBadLog, GiveUp
    <3>3. Jaegerize(incLogs - 1, skipBadLog)
      BY <3>2 DEF Attempt
    <3>4. QED  BY <3>1, <3>2, <3>3 DEF Attempt
  <2>4. Count(cur, indexStart, WHOLE) = LogNumber(cur)
    <3>1. /\ cur \in Spans /\ shape \in [Spans -> Shapes] /\ 0 \in Nat /\ 0 <= LogNumber(cur)
          /\ LogNumber(cur) # 0 => 0 < LogNumber(cur)
      BY <1>0, <2>0, LogNumberType DEF TypeOK, SearchInLogs
    <3>2. /\ 0 + Count(cur, 0, WHOLE) = LogNumber(cur)
          /\ 0 \in ONE..WHOLE
          /\ WHOLE \in ONE..WHOLE
      BY <3>1, CountOfShare DEF ONE, WHOLE
    <3>3. Count(cur, 0, WHOLE) \in Nat
      BY <3>1, <3>2, CountBound
    <3>4. QED  BY <2>2, <3>2, <3>3
  <2>5. batch' = WholeSpan(cur) /\ pc' = IF Fits(WholeSpan(cur)) THEN "push" ELSE "try"
    BY <2>2, <2>3, <2>4 DEF Jaegerize, WholeSpan
  <2>6. QED  BY <2>1, <2>2, <2>3, <2>5
<1>3. CASE Continues
  <2> SUFFICES ASSUME Fits(WholeSpan(cur))' PROVE FALSE
    BY DEF WholeFirst
  <2>1. SameSpans /\ cur' = cur /\ pc = "push" /\ End(batch) # LogNumber(cur) /\ InLoop
    BY <1>3 DEF Continues, Adds, InLoop
  <2>2. Fits(WholeSpan(cur))
    BY <2>1 DEF SameSpans, tracer, Fits, Bytes, Partial, HasOmission, Carried, Covered,
                LogsOf, LogNumber, WholeSpan
  <2>3. batch = WholeSpan(cur)
    BY <2>1, <2>2 DEF WholeFirst
  <2>4. cur \in Spans /\ LogNumber(cur) \in Nat
    BY <2>1, InPush
  <2>5. QED  BY <2>1, <2>3, <2>4 DEF End, WholeSpan
<1>4. CASE ~InLoop'
  BY <1>4 DEF WholeFirst
<1>5. CASE UNCHANGED vars
  <2>1. Fits(WholeSpan(cur))' <=> Fits(WholeSpan(cur))
    BY <1>5 DEF vars, tracer, Fits, Bytes, Partial, HasOmission, Carried, Covered,
                LogsOf, LogNumber, WholeSpan
  <2>2. WholeSpan(cur)' = WholeSpan(cur)
    BY <1>5 DEF vars, tracer, LogsOf, LogNumber, WholeSpan
  <2>3. QED  BY <1>5, <2>1, <2>2 DEF vars, position, WholeFirst, InLoop
<1>6. CASE Return \/ Begin \/ Parsed \/ Send \/ ClearSpans \/ \E s \in Spans : NextSpan(s)
  BY <1>6, <1>1, <1>4 DEF Return, Begin, Parsed, Send, ClearSpans, NextSpan, Takes, SameSpans, InLoop
<1>7. CASE PushAndSplit \/ PushLast \/ PushAndRepeat
  <2>1. pc = "push" /\ (pc' = "span" \/ pc' = "try") /\ data' = Append(data, batch)
    BY <1>7 DEF PushAndSplit, PushLast, PushAndRepeat, NextPart, LeaveSpan, Pushed
  <2>2. Len(data') # Len(data)
    <3>1. data \in Seq(Batch) /\ batch \in Batch
      BY <1>0, <2>1, InPush DEF TypeOK
    <3>2. QED  BY <2>1, <3>1, AppendProperties, LenProperties
  <2>3. Continues \/ Leaves
    BY <2>1, <2>2, PartsStepClasses DEF Elsewhere, Takes, Searches
  <2>4. QED  BY <1>3, <1>4, <2>3 DEF Leaves, InLoop
<1>8. CASE Attempt \/ SkipBadLog \/ GiveUp
  BY <1>2, <1>8 DEF Attempt, SkipBadLog, GiveUp
<1>9. QED  BY <1>5, <1>6, <1>7, <1>8 DEF Next, Done

-----------------------------------------------------------------------------
(* What holds of the batches made so far. *)

\* The steps that make none.
DataKept == SameSpans /\ data' = data

\* Batches follow in the order of the logs, each log once.
LEMMA OrderNext ==
    ASSUME IInv, BatchHere, Position, EachLogOnceInOrder,
           DataKept \/ Continues \/ Leaves
    PROVE  EachLogOnceInOrder'
<1>1. CASE DataKept
  BY <1>1 DEF DataKept, EachLogOnceInOrder, SameSpan
<1>2. CASE Continues \/ Leaves
  <2>1. Adds /\ pc = "push" /\ InLoop
    BY <1>2 DEF Continues, Leaves, Adds, InLoop
  <2>2. /\ Len(data) \in Nat /\ DOMAIN data = 1..Len(data)
        /\ Len(data') = Len(data) + 1 /\ DOMAIN data' = 1..(Len(data) + 1)
        /\ \A i \in DOMAIN data : data'[i] = data[i]
        /\ data'[Len(data) + 1] = batch
    BY <2>1, OneMore
  <2>3. batch.span = cur /\ batch.indStart = indexStart
    BY <2>1, InPush
  <2> SUFFICES ASSUME NEW j \in 1..(Len(data) + 1)
               PROVE  IF \E i \in 1..(j - 1) : data'[i].span = data'[j].span
                      THEN /\ data'[j - 1].span = data'[j].span
                           /\ data'[j].indStart = data'[j - 1].indStart + data'[j - 1].indCount
                      ELSE data'[j].indStart = 0
    BY <2>2 DEF EachLogOnceInOrder, SameSpan
  <2>4. CASE j \in DOMAIN data
    <3>1. IF \E i \in 1..(j - 1) : data[i].span = data[j].span
          THEN /\ data[j - 1].span = data[j].span
               /\ data[j].indStart = data[j - 1].indStart + data[j - 1].indCount
          ELSE data[j].indStart = 0
      BY <2>4 DEF EachLogOnceInOrder, SameSpan
    <3>2. data'[j] = data[j] /\ \A i \in 1..(j - 1) : data'[i] = data[i]
      BY <2>2, <2>4
    <3>3. CASE \E i \in 1..(j - 1) : data[i].span = data[j].span
      <4>1. j - 1 \in 1..(j - 1)
        BY <3>3, <2>4
      <4>2. QED  BY <3>1, <3>2, <3>3, <4>1
    <3>4. CASE ~\E i \in 1..(j - 1) : data[i].span = data[j].span
      BY <3>1, <3>2, <3>4
    <3>5. QED  BY <3>3, <3>4
  <2>5. CASE j = Len(data) + 1
    <3>1. data'[j] = batch /\ j - 1 = Len(data) /\ \A i \in 1..(j - 1) : data'[i] = data[i]
      BY <2>2, <2>5
    <3>2. CASE \E i \in DOMAIN data : data[i].span = cur
      <4>1. data[Len(data)].span = cur /\ End(data[Len(data)]) = indexStart
        BY <2>1, <3>2 DEF Position
      <4>2. Len(data) \in 1..(j - 1)
        BY <2>2, <3>1, <3>2
      <4>3. data'[j - 1] = data[Len(data)]
        BY <3>1, <4>2
      <4>4. QED  BY <2>2, <2>3, <3>1, <3>2, <4>1, <4>2, <4>3 DEF End
    <3>3. CASE ~\E i \in DOMAIN data : data[i].span = cur
      <4>1. indexStart = 0
        BY <2>1, <3>3 DEF Position
      <4>2. ~\E i \in 1..(j - 1) : data'[i].span = data'[j].span
        BY <2>2, <2>3, <3>1, <3>3
      <4>3. QED  BY <2>3, <3>1, <4>1, <4>2
    <3>4. QED  BY <3>2, <3>3
  <2>6. QED  BY <2>2, <2>4, <2>5
<1>3. QED  BY <1>1, <1>2

\* Only the last batch of a span carries its end.
LEMMA OnlyLastEndsNext ==
    ASSUME IInv, BatchHere, Position, OnlyLastEnds,
           Elsewhere \/ Takes \/ Searches \/ Continues \/ Leaves
    PROVE  OnlyLastEnds'
<1>1. CASE Elsewhere \/ Takes \/ Searches
  <2>1. SameSpans /\ data' = data
    BY <1>1 DEF Elsewhere, Takes, Searches
  <2>2. \A s : LogNumber(s)' = LogNumber(s)
    BY <2>1, SameShape
  <2>3. \A i, j \in DOMAIN data' :
           i < j /\ SameSpan(i, j)' => End(data[i])' # LogNumber(data[i].span)'
    BY <2>1 DEF OnlyLastEnds, SameSpan, End, SameSpans, tracer, LogNumber, LogsOf
  <2>4. ASSUME NEW i \in DOMAIN data', InLoop', data'[i].span = cur'
        PROVE  End(data[i])' # LogNumber(cur)'
    <3>1. InLoop /\ cur' = cur
      <4>1. CASE Elsewhere
        BY <4>1, <2>4 DEF Elsewhere
      <4>2. CASE Takes
        BY <4>2, <2>1, <2>4 DEF Takes, Position
      <4>3. CASE Searches
        BY <4>3 DEF Searches
      <4>4. QED  BY <1>1, <4>1, <4>2, <4>3
    <3>2. End(data[i])' = End(data[i]) /\ LogNumber(cur)' = LogNumber(cur)
      BY <2>1, <3>1 DEF End, SameSpans, tracer, LogNumber, LogsOf
    <3>3. QED  BY <2>1, <2>4, <3>1, <3>2 DEF OnlyLastEnds
  <2>5. \A i \in DOMAIN data' : End(data[i])' <= LogNumber(data[i].span)'
    BY <2>1 DEF OnlyLastEnds, End, SameSpans, tracer, LogNumber, LogsOf
  <2>6. QED  BY <2>3, <2>4, <2>5 DEF OnlyLastEnds
<1>2. CASE Continues \/ Leaves
  <2>1. Adds /\ pc = "push" /\ InLoop /\ shape' = shape
    BY <1>2 DEF Continues, Leaves, Adds, InLoop, SameSpans, tracer
  <2>2. /\ Len(data) \in Nat /\ DOMAIN data = 1..Len(data)
        /\ DOMAIN data' = 1..(Len(data) + 1)
        /\ \A i \in DOMAIN data : data'[i] = data[i]
        /\ data'[Len(data) + 1] = batch
    BY <2>1, OneMore
  <2>3. batch.span = cur
    BY <2>1, InPush
  <2>4. ASSUME NEW i \in DOMAIN data', NEW j \in DOMAIN data', i < j,
               data'[i].span = data'[j].span
        PROVE  End(data[i])' # LogNumber(data[i].span)'
    <3>1. i \in DOMAIN data /\ data'[i] = data[i]
      BY <2>2, <2>4
    <3>2. End(data[i])' = End(data[i]) /\ LogNumber(data[i].span)' = LogNumber(data[i].span)
      BY <2>1, <3>1 DEF End, LogNumber, LogsOf
    <3>3. CASE j \in DOMAIN data
      BY <2>2, <2>4, <3>1, <3>2, <3>3 DEF OnlyLastEnds, SameSpan
    <3>4. CASE j = Len(data) + 1
      <4>1. data[i].span = cur
        BY <2>2, <2>3, <2>4, <3>1, <3>4
      <4>2. QED  BY <2>1, <3>1, <3>2, <4>1 DEF OnlyLastEnds
    <3>5. QED  BY <2>2, <3>3, <3>4
  <2>5. ASSUME NEW i \in DOMAIN data', InLoop', data'[i].span = cur'
        PROVE  End(data[i])' # LogNumber(cur)'
    <3>1. cur' = cur /\ End(batch) # LogNumber(cur)
      BY <1>2, <2>5 DEF Continues, Leaves, InLoop
    <3>2. LogNumber(cur)' = LogNumber(cur)
      BY <2>1, <3>1 DEF LogNumber, LogsOf
    <3>3. CASE i \in DOMAIN data
      <4>1. data'[i] = data[i] /\ End(data[i])' = End(data[i])
        BY <2>2, <3>3 DEF End
      <4>2. QED  BY <2>1, <2>5, <3>1, <3>2, <3>3, <4>1 DEF OnlyLastEnds
    <3>4. CASE i = Len(data) + 1
      <4>1. End(data[i])' = End(batch)
        BY <2>2, <3>4 DEF End
      <4>2. QED  BY <3>1, <3>2, <4>1
    <3>5. QED  BY <2>2, <3>3, <3>4
  <2>6. ASSUME NEW i \in DOMAIN data'
        PROVE  End(data[i])' <= LogNumber(data[i].span)'
    <3>1. CASE i \in DOMAIN data
      <4>1. End(data[i])' = End(data[i]) /\ LogNumber(data[i].span)' = LogNumber(data[i].span)
        BY <2>1, <2>2, <3>1 DEF End, LogNumber, LogsOf
      <4>2. QED  BY <3>1, <4>1 DEF OnlyLastEnds
    <3>2. CASE i = Len(data) + 1
      <4>1. End(data[i])' = End(batch) /\ LogNumber(data[i].span)' = LogNumber(cur)
        BY <2>1, <2>2, <2>3, <3>2 DEF End, LogNumber, LogsOf
      <4>2. QED  BY <2>1, <4>1, InPush
    <3>3. QED  BY <2>2, <3>1, <3>2
  <2>7. QED  BY <2>4, <2>5, <2>6 DEF OnlyLastEnds, SameSpan
<1>3. QED  BY <1>1, <1>2

\* Two facts of a batch, its fitting and its being whole, once it is made.
LEMMA FitsAndWholeNext ==
    ASSUME IInv, BatchHere, WholeFirst, PacketFits, CutOnlyIfNeeded,
           DataKept \/ Continues \/ Leaves
    PROVE  PacketFits' /\ CutOnlyIfNeeded'
<1>0. SameSpans /\ shape' = shape
  BY DEF DataKept, Continues, Leaves, Adds, SameSpans, tracer
<1>1. \A b : Fits(b)' <=> Fits(b)
  BY <1>0, SameCost
<1>2. \A s : Overhead(s)' = Overhead(s) /\ WholeSpan(s)' = WholeSpan(s)
  BY <1>0, SameShape
<1>3. ASSUME NEW b, Overhead(b.span) <= MaxSpanBytes => Fits(b),
             Fits(WholeSpan(b.span)) => b = WholeSpan(b.span),
             NEW i \in DOMAIN data', data'[i] = b
      PROVE  /\ Overhead(data[i].span)' <= MaxSpanBytes => Fits(data[i])'
             /\ Fits(WholeSpan(data[i].span))' => data'[i] = WholeSpan(data[i].span)'
  <2>1. /\ Overhead(data[i].span)' = Overhead(b.span)
        /\ WholeSpan(data[i].span)' = WholeSpan(b.span)
    BY <1>0, <1>3 DEF Overhead, WholeSpan, LogNumber, LogsOf
  <2>2. /\ Fits(data[i])' <=> Fits(b)
        /\ Fits(WholeSpan(data[i].span))' <=> Fits(WholeSpan(b.span))
    BY <1>0, <1>3 DEF Fits, Bytes, Partial, HasOmission, Carried, Covered, LogsOf, LogNumber,
                      WholeSpan
  <2>3. QED  BY <1>3, <2>1, <2>2
<1>4. ASSUME NEW i \in DOMAIN data
      PROVE  /\ Overhead(data[i].span) <= MaxSpanBytes => Fits(data[i])
             /\ Fits(WholeSpan(data[i].span)) => data[i] = WholeSpan(data[i].span)
  BY DEF PacketFits, CutOnlyIfNeeded, WholeSpan
<1>5. ASSUME NEW i \in DOMAIN data'
      PROVE  /\ Overhead(data[i].span)' <= MaxSpanBytes => Fits(data[i])'
             /\ Fits(WholeSpan(data[i].span))' => data'[i] = WholeSpan(data[i].span)'
  <2>1. CASE DataKept
    BY <2>1, <1>3, <1>4, <1>5 DEF DataKept
  <2>2. CASE Continues \/ Leaves
    <3>1. Adds /\ pc = "push" /\ InLoop
      BY <2>2 DEF Continues, Leaves, Adds, InLoop
    <3>2. /\ Len(data) \in Nat /\ DOMAIN data = 1..Len(data)
          /\ DOMAIN data' = 1..(Len(data) + 1)
          /\ \A k \in DOMAIN data : data'[k] = data[k]
          /\ data'[Len(data) + 1] = batch
      BY <3>1, OneMore
    <3>3. CASE i \in DOMAIN data
      BY <1>3, <1>4, <1>5, <3>2, <3>3
    <3>4. CASE i = Len(data) + 1
      <4>1. batch.span = cur /\ cur \in Spans /\ shape \in [Spans -> Shapes]
        BY <3>1, InPush DEF IInv, TypeOK
      <4>2. Overhead(batch.span) <= MaxSpanBytes => Fits(batch)
        BY <3>1, <4>1, OverheadType, SizeTypes DEF BatchHere
      <4>3. Fits(WholeSpan(batch.span)) => batch = WholeSpan(batch.span)
        BY <3>1, <4>1 DEF WholeFirst
      <4>4. QED  BY <1>3, <1>5, <3>2, <3>4, <4>2, <4>3
    <3>5. QED  BY <3>2, <3>3, <3>4
  <2>3. QED  BY <2>1, <2>2
<1>6. PacketFits' /\ CutOnlyIfNeeded'
  BY <1>5 DEF PacketFits, CutOnlyIfNeeded, WholeSpan
<1>7. QED  BY <1>6

-----------------------------------------------------------------------------
(* No log is lost. *)

\* A log that is in a batch stays in one.
LEMMA InPacketStays ==
    ASSUME IInv, DataKept \/ (BatchHere /\ Adds), NEW s, NEW i, LogInPacket(s, i)
    PROVE  LogInPacket(s, i)'
<1>1. shape' = shape
  BY DEF DataKept, Adds, SameSpans, tracer
<1>2. PICK k \in DOMAIN data :
          /\ data[k].span = s /\ i \in Covered(data[k])
          /\ i \notin Carried(data[k]) => Overhead(s) - NoteBytes + LogsOf(s)[i + 1] > MaxSpanBytes
  BY DEF LogInPacket
<1>3. k \in DOMAIN data' /\ data'[k] = data[k]
  BY OneMore DEF DataKept
<1>4. /\ Overhead(s)' = Overhead(s) /\ LogsOf(s)' = LogsOf(s)
      /\ (i \in Covered(data[k]))' <=> i \in Covered(data[k])
      /\ (i \in Carried(data[k]))' <=> i \in Carried(data[k])
  BY <1>1, <1>3 DEF Overhead, LogsOf, Covered, Carried
<1>5. QED  BY <1>2, <1>3, <1>4 DEF LogInPacket

\* The batch in hand stands for the logs from the position on.
LEMMA BatchTakesLogs ==
    ASSUME IInv, BatchHere, Adds, MustFit(cur), NEW c, c = cur,
           NEW i \in indexStart..(indexStart + indexCount - 1)
    PROVE  LogInPacket(c, i)'
<1>1. PICK k : k \in DOMAIN data' /\ data'[k] = batch
  BY OneMore
<1>2. /\ cur \in Spans /\ batch \in Batch /\ batch.span = cur
      /\ indexStart \in Nat /\ indexCount \in Nat /\ LogNumber(cur) \in Nat
      /\ batch.indStart = indexStart /\ batch.indCount = indexCount
      /\ indexStart + indexCount <= LogNumber(cur)
      /\ pc = "push"
  BY InPush DEF Adds
<1>3. shape' = shape
  BY DEF Adds, SameSpans, tracer
<1>4. /\ (i \in Covered(data[k]))' <=> i \in Covered(batch)
      /\ (i \in Carried(data[k]))' <=> i \in Carried(batch)
  BY <1>1 DEF Covered, Carried
<1>5. i \in Covered(batch)
  BY <1>2 DEF Covered
<1>6. ASSUME i \notin Carried(batch)
      PROVE  Overhead(cur) - NoteBytes + LogsOf(cur)[i + 1] > MaxSpanBytes
  <2>1. batch.badLog /\ LogNumber(cur) # 0
    BY <1>2, <1>5, <1>6 DEF Carried
  <2>2. indexCount = 1 /\ TooLarge(cur, indexStart)
    BY <1>2, <2>1 DEF BatchHere, InLoop, MustFit
  <2>3. i = indexStart
    BY <1>2, <2>2
  <2>4. QED  BY <2>2, <2>3 DEF TooLarge
<1>7. Overhead(c)' = Overhead(c) /\ LogsOf(c)' = LogsOf(c)
  BY <1>3 DEF Overhead, LogsOf
<1>8. QED  BY <1>1, <1>2, <1>4, <1>5, <1>6, <1>7 DEF LogInPacket

\* The logs before the position are in batches, as far as they must be.
LEMMA LogsSoFarNext ==
    ASSUME IInv, BatchHere, Position, LogsSoFar, NoSpan \notin Spans,
           Elsewhere \/ Takes \/ Searches \/ Continues \/ Leaves
    PROVE  LogsSoFar'
<1> SUFFICES ASSUME Parsing', NEW s \in Spans \ todo', MustFit(s)',
                    NEW i \in 0..(LogNumber(s)' - 1), s = cur' => i < indexStart'
             PROVE  LogInPacket(s, i)'
  BY DEF LogsSoFar
<1>0. SameSpans
  BY DEF Elsewhere, Takes, Searches, Continues, Leaves, Adds
<1>1. reporter' = reporter /\ LogNumber(s)' = LogNumber(s) /\ MustFit(s)
  BY <1>0, SameShape
<1>2. i \in 0..(LogNumber(s) - 1) /\ LogNumber(s) \in Nat
  BY <1>1, LogNumberType DEF IInv, TypeOK
<1>3. CASE Elsewhere
  <2>1. data' = data /\ cur = NoSpan
    BY <1>3 DEF Elsewhere, Position
  <2>2. s # cur
    BY <2>1
  <2>3. CASE pc = "flush"
    <3>1. stored = Spans /\ todo = {}
      BY <2>3 DEF Position
    <3>2. CASE pc' = "done"
      BY <1>3, <2>3, <3>1, <3>2 DEF Elsewhere, Parsing
    <3>3. CASE pc' # "done"
      BY <1>1, <1>3, <2>3, <3>1, <3>3 DEF Elsewhere, Parsing
    <3>4. QED  BY <3>2, <3>3
  <2>4. CASE pc # "flush"
    <3>1. Parsing /\ s \notin todo
      BY <1>1, <1>3, <2>4 DEF Elsewhere, Parsing
    <3>2. LogInPacket(s, i)
      BY <1>1, <1>2, <2>2, <3>1 DEF LogsSoFar
    <3>3. QED  BY <1>0, <2>1, <3>2, InPacketStays DEF DataKept
  <2>5. QED  BY <2>3, <2>4
<1>4. CASE Takes
  <2>1. PICK r \in todo : cur' = r /\ todo' = todo \ {r}
    BY <1>4 DEF Takes
  <2>2. data' = data /\ indexStart' = 0 /\ cur = NoSpan /\ Parsing
    BY <1>1, <1>4 DEF Takes, Position, InLoop, Parsing
  <2>3. s # r
    BY <1>2, <2>1, <2>2
  <2>4. s \notin todo /\ s # cur
    BY <2>1, <2>2, <2>3
  <2>5. LogInPacket(s, i)
    BY <1>1, <1>2, <2>2, <2>4 DEF LogsSoFar
  <2>6. QED  BY <1>0, <2>2, <2>5, InPacketStays DEF DataKept
<1>5. CASE Searches
  <2>1. data' = data /\ todo' = todo /\ cur' = cur /\ indexStart' = indexStart /\ Parsing
    BY <1>1, <1>5 DEF Searches, InLoop, Parsing
  <2>2. LogInPacket(s, i)
    BY <1>1, <1>2, <2>1 DEF LogsSoFar
  <2>3. QED  BY <1>0, <2>1, <2>2, InPacketStays DEF DataKept
<1>6. CASE Continues \/ Leaves
  <2>1. /\ Adds /\ pc = "push" /\ todo' = todo
        /\ indexStart' = indexStart + indexCount
    BY <1>6 DEF Continues, Leaves, Adds
  <2>2. Parsing
    BY <1>1, <2>1 DEF Parsing
  <2>3. /\ indexStart \in Nat /\ indexCount \in Nat /\ LogNumber(cur) \in Nat
        /\ End(batch) = indexStart + indexCount
    BY <2>1, InPush
  <2>4. CASE s # cur \/ i < indexStart
    <3>1. LogInPacket(s, i)
      BY <1>1, <1>2, <2>1, <2>2, <2>4 DEF LogsSoFar
    <3>2. QED  BY <2>1, <3>1, InPacketStays
  <2>5. CASE s = cur /\ ~(i < indexStart)
    <3>1. i < indexStart + indexCount
      <4>1. CASE Continues
        BY <2>1, <2>5, <4>1 DEF Continues
      <4>2. CASE Leaves
        <5>1. ~(Overhead(cur) > MaxSpanBytes)
          <6>1. Overhead(s) <= MaxSpanBytes /\ Overhead(s) \in Nat
            BY <1>1, OverheadType DEF MustFit, IInv, TypeOK
          <6>2. QED  BY <2>5, <6>1, SizeTypes
        <5>2. LogNumber(cur) = indexStart + indexCount
          BY <2>3, <4>2, <5>1 DEF Leaves
        <5>3. QED  BY <1>2, <2>5, <5>2
      <4>3. QED  BY <1>6, <4>1, <4>2
    <3>2. i \in indexStart..(indexStart + indexCount - 1)
      BY <1>2, <2>3, <2>5, <3>1
    <3>3. MustFit(cur)
      BY <1>1, <2>5
    <3>4. QED  BY <2>1, <2>5, <3>2, <3>3, BatchTakesLogs
  <2>6. QED  BY <2>4, <2>5
<1>7. QED  BY <1>3, <1>4, <1>5, <1>6

-----------------------------------------------------------------------------
(* What the batches report. *)

\* A log is reported when a batch of its span covers it.
LEMMA ReportedElement ==
    \A s, x : x \in Reported(s) <=>
                  \E k \in DOMAIN data : data[k].span = s /\ x \in Covered(data[k])
BY DEF Reported

\* The same batches report the same logs.
LEMMA SameReported ==
    ASSUME data' = data
    PROVE  \A s : Reported(s)' = Reported(s)
BY DEF Reported, Covered

\* Keeping a batch reports the logs of its range.
LEMMA ReportedAdds ==
    ASSUME IInv, BatchHere, Adds, NEW s
    PROVE  Reported(s)' = Reported(s)
               \cup (IF s = cur THEN indexStart..(indexStart + indexCount - 1) ELSE {})
<1>1. /\ Len(data) \in Nat /\ DOMAIN data = 1..Len(data)
      /\ DOMAIN data' = 1..(Len(data) + 1)
      /\ \A i \in DOMAIN data : data'[i] = data[i]
      /\ data'[Len(data) + 1] = batch
  BY OneMore
<1>2. /\ batch.span = cur
      /\ Covered(batch) = indexStart..(indexStart + indexCount - 1)
  BY InPush DEF Adds, Covered
<1>3. ASSUME NEW x
      PROVE  x \in Reported(s)' <=>
                 x \in Reported(s) \/ (s = cur /\ x \in Covered(batch))
  <2>1. x \in Reported(s)' <=>
            \E k \in DOMAIN data' : data'[k].span = s /\ x \in Covered(data[k])'
    BY DEF Reported
  <2>2. ASSUME NEW k \in DOMAIN data
        PROVE  Covered(data[k])' = Covered(data[k])
    BY <1>1, <2>2 DEF Covered
  <2>3. ASSUME NEW k, k = Len(data) + 1
        PROVE  Covered(data[k])' = Covered(batch)
    BY <1>1, <2>3 DEF Covered
  <2>4. ASSUME x \in Reported(s)'
        PROVE  x \in Reported(s) \/ (s = cur /\ x \in Covered(batch))
    <3>1. PICK k \in DOMAIN data' : data'[k].span = s /\ x \in Covered(data[k])'
      BY <2>1, <2>4
    <3>2. CASE k \in DOMAIN data
      BY <1>1, <2>2, <3>1, <3>2, ReportedElement
    <3>3. CASE k = Len(data) + 1
      BY <1>1, <1>2, <2>3, <3>1, <3>3
    <3>4. QED  BY <1>1, <3>2, <3>3
  <2>5. ASSUME x \in Reported(s)
        PROVE  x \in Reported(s)'
    <3>1. PICK k \in DOMAIN data : data[k].span = s /\ x \in Covered(data[k])
      BY <2>5, ReportedElement
    <3>2. k \in DOMAIN data' /\ data'[k] = data[k]
      BY <1>1
    <3>3. QED  BY <2>1, <2>2, <3>1, <3>2
  <2>6. ASSUME s = cur, x \in Covered(batch)
        PROVE  x \in Reported(s)'
    <3>1. PICK k : k = Len(data) + 1
      OBVIOUS
    <3>2. k \in DOMAIN data' /\ data'[k] = batch
      BY <1>1, <3>1
    <3>3. QED  BY <1>2, <2>1, <2>3, <2>6, <3>1, <3>2
  <2>7. QED  BY <2>4, <2>5, <2>6
<1>4. QED  BY <1>2, <1>3

\* The logs before the position, and no other, are reported.
LEMMA ReportedNext ==
    ASSUME IInv, BatchHere, Position, ReportedSoFar,
           Elsewhere \/ Takes \/ Searches \/ Continues \/ Leaves
    PROVE  ReportedSoFar'
<1> SUFFICES ASSUME InLoop', NEW s \in Spans, s = cur'
             PROVE  Reported(s)' = 0..(indexStart' - 1)
  BY DEF ReportedSoFar
<1>1. CASE Takes
  <2>1. data' = data /\ s \in todo /\ indexStart' = 0
    BY <1>1 DEF Takes
  <2>2. Reported(s) = {}
    BY <2>1 DEF Position, Reported
  <2>3. QED  BY <2>1, <2>2, SameReported
<1>2. CASE Searches
  BY <1>2, SameReported DEF Searches, ReportedSoFar
<1>3. CASE Continues
  <2>1. /\ Adds /\ cur' = cur /\ InLoop /\ pc = "push"
        /\ indexStart' = indexStart + indexCount
    BY <1>3 DEF Continues, Adds, InLoop
  <2>2. Reported(s) = 0..(indexStart - 1) /\ indexStart \in Nat /\ indexCount \in Nat
    BY <2>1, InPush DEF ReportedSoFar
  <2>3. Reported(s)' = Reported(s) \cup indexStart..(indexStart + indexCount - 1)
    BY <2>1, ReportedAdds
  <2>4. ASSUME NEW a \in Nat, NEW c \in Nat
        PROVE  (0..(a - 1)) \cup (a..(a + c - 1)) = 0..(a + c - 1)
    OBVIOUS
  <2>5. Reported(s)' = 0..(indexStart + indexCount - 1)
    BY <2>2, <2>3, <2>4
  <2>6. QED  BY <2>1, <2>2, <2>5
<1>4. CASE Elsewhere \/ Leaves
  BY <1>4 DEF Elsewhere, Leaves, InLoop
<1>5. QED  BY <1>1, <1>2, <1>3, <1>4

-----------------------------------------------------------------------------
(* The invariant. *)

\* No span is not a span.
LEMMA SpansAreSpans == NoSpan \notin Spans
BY ShapesAssumption, Zenon DEF ShapesAssumption

\* No batch has been made at first.
LEMMA InitParts == Init => Parts
<1> SUFFICES ASSUME Init PROVE Parts
  OBVIOUS
<1>1. IInv
  BY InitIInv
<1>2. ~InLoop /\ data = <<>> /\ DOMAIN data = {} /\ pc = "flush" /\ cur = NoSpan /\ todo = {}
      /\ stored = Spans /\ ~skipBadLog
  BY DEF Init, InLoop
<1>3. BatchHere /\ Position /\ WholeFirst
  <2>1. BatchHere
    BY <1>2 DEF BatchHere
  <2>2. Position
    <3>1. cur \notin todo /\ \A i \in DOMAIN data : data[i].span \notin todo
      BY <1>2
    <3>2. /\ pc = "flush" => data = <<>>
          /\ pc \in {"flush", "send", "done"} => todo = {}
          /\ stored = Spans \/ (pc = "done" /\ stored = {})
          /\ ~InLoop => cur = NoSpan
      BY <1>2
    <3>3. InLoop =>
             IF \E i \in DOMAIN data : data[i].span = cur
             THEN data[Len(data)].span = cur /\ End(data[Len(data)]) = indexStart
             ELSE indexStart = 0
      BY <1>2
    <3>4. QED  BY <3>1, <3>2, <3>3, Zenon DEF Position
  <2>3. WholeFirst
    BY <1>2 DEF WholeFirst
  <2>4. QED  BY <2>1, <2>2, <2>3
<1>4. EachLogOnceInOrder /\ OnlyLastEnds /\ PacketFits /\ CutOnlyIfNeeded
  BY <1>2 DEF EachLogOnceInOrder, OnlyLastEnds, PacketFits, CutOnlyIfNeeded
<1>5. LogsSoFar /\ ReportedSoFar
  BY <1>2 DEF LogsSoFar, ReportedSoFar, Parsing
<1>6. QED  BY <1>1, <1>3, <1>4, <1>5 DEF Parts

\* Every step keeps what is known of the batches.
LEMMA NextParts ==
    ASSUME Parts, [Next]_vars
    PROVE  Parts'
<1> USE DEF Parts
<1>1. Elsewhere \/ Takes \/ Searches \/ Continues \/ Leaves
  BY PartsStepClasses
<1>2. DataKept \/ Continues \/ Leaves
  BY <1>1 DEF Elsewhere, Takes, Searches, DataKept
<1>3. IInv'
  BY NextIInv
<1>4. BatchHere' /\ Position' /\ WholeFirst'
  BY <1>1, SpansAreSpans, BatchHereNext, PositionNext, WholeFirstNext
<1>5. EachLogOnceInOrder' /\ OnlyLastEnds' /\ PacketFits' /\ CutOnlyIfNeeded'
  BY <1>1, <1>2, OrderNext, OnlyLastEndsNext, FitsAndWholeNext
<1>6. LogsSoFar' /\ ReportedSoFar'
  BY <1>1, SpansAreSpans, LogsSoFarNext, ReportedNext
<1>7. QED  BY <1>3, <1>4, <1>5, <1>6

\* Parts is inductive.
THEOREM PartsInvariant == Spec => []Parts
<1>1. Parts /\ [Next]_vars => Parts'
  BY NextParts
<1>2. QED  BY InitParts, <1>1, PTL DEF Spec

\* Each batch starts where the batch before it, of the same span, ended.
THEOREM LogsInOrder == Spec => []EachLogOnceInOrder
<1>1. Parts => EachLogOnceInOrder
  BY DEF Parts
<1>2. QED  BY <1>1, PartsInvariant, PTL

\* A packet fits unless the tags of its span leave no room for the notes.
THEOREM PacketsFit == Spec => []PacketFits
<1>1. Parts => PacketFits
  BY DEF Parts
<1>2. QED  BY <1>1, PartsInvariant, PTL

\* A span that fits a packet is sent whole.
THEOREM CutsAreNeeded == Spec => []CutOnlyIfNeeded
<1>1. Parts => CutOnlyIfNeeded
  BY DEF Parts
<1>2. QED  BY <1>1, PartsInvariant, PTL

\* Two parts of a span never have the same id: one of them, or both, have a new one.
PartsDiffer ==
    \A i, j \in DOMAIN data : SameSpan(i, j) /\ i # j => ~(HasOwnId(data[i]) /\ HasOwnId(data[j]))

\* Of the parts of a span at most one keeps its id, so two parts are never the
\* "identical spans" of the README, nor the "different spans with the same id" of
\* Helper.cpp.
THEOREM OneOwnId == Spec => []PartsDiffer
<1>1. ASSUME Parts PROVE PartsDiffer
  <2>1. ASSUME NEW i \in DOMAIN data, HasOwnId(data[i])
        PROVE  End(data[i]) = LogNumber(data[i].span)
    <3>1. /\ data[i].span \in Spans /\ data[i].indStart \in Nat /\ data[i].indCount \in Nat
          /\ End(data[i]) <= LogNumber(data[i].span)
          /\ LogNumber(data[i].span) \in Nat
      BY <1>1, DataType, LogNumberType DEF Parts, OnlyLastEnds, IInv, TypeOK
    <3>2. QED  BY <2>1, <3>1 DEF HasOwnId, Partial, KeepId, End
  <2>2. ASSUME NEW i \in DOMAIN data, NEW j \in DOMAIN data, i < j, SameSpan(i, j),
               HasOwnId(data[i])
        PROVE  FALSE
    BY <1>1, <2>1, <2>2 DEF Parts, OnlyLastEnds
  <2>3. ASSUME NEW i \in DOMAIN data, NEW j \in DOMAIN data, SameSpan(i, j),
               HasOwnId(data[i]), HasOwnId(data[j]), i # j
        PROVE  FALSE
    <3>1. i < j \/ j < i
      BY <1>1, <2>3, DataType DEF Parts
    <3>2. SameSpan(j, i)
      BY <2>3 DEF SameSpan
    <3>3. QED  BY <2>2, <2>3, <3>1, <3>2
  <2>4. QED  BY <2>3 DEF PartsDiffer
<1>2. QED  BY <1>1, PartsInvariant, PTL

\* When the spans are forgotten, each log of a sampled span whose tags leave
\* room for the notes is in a packet, or is too large for one.
THEOREM NoLogLost == Spec => []AllLogsExist
<1>1. ASSUME Parts PROVE AllLogsExist
  <2> SUFFICES ASSUME stored = {}, reporter = "UdpReporter", NEW s \in Spans,
                      Overhead(s) <= MaxSpanBytes, shape[s].sampled,
                      NEW i \in 0..(LogNumber(s) - 1)
               PROVE  LogInPacket(s, i)
    BY DEF AllLogsExist
  <2>1. pc = "done" /\ todo = {} /\ cur = NoSpan
    BY <1>1 DEF Parts, Position, InLoop
  <2>2. Parsing /\ MustFit(s) /\ s # cur
    BY <2>1, SpansAreSpans DEF Parsing, MustFit
  <2>3. QED  BY <1>1, <2>1, <2>2 DEF Parts, LogsSoFar
<1>2. QED  BY <1>1, PartsInvariant, PTL

-----------------------------------------------------------------------------
(* The refinement of LogDelivery. *)

Sizes        == [s \in Spans |-> LogNumber(s)]
ReportedLogs == [s \in Spans |-> Reported(s)]

\* The abstract specification, in the state of the flush.
LEMMA DeliveryNames ==
    /\ Delivery!Init <=> /\ Sizes \in [Spans -> Nat]
                         /\ ReportedLogs = [s \in Spans |-> {}]
                         /\ OpenSpans = Spans
                         /\ Len(data) = 0 /\ emitted = 0 /\ stored = Spans
    /\ Delivery!vars = <<Sizes, ReportedLogs, OpenSpans, Len(data), emitted, stored>>
    /\ Delivery!Spec <=> Delivery!Init /\ [][Delivery!Next]_(Delivery!vars)
BY DEF Delivery!Init, Delivery!vars, Delivery!Spec, Sizes, ReportedLogs

\* Its actions, in the state of the flush.
LEMMA DeliveryMoves ==
    /\ \A s, upto :
         Delivery!Report(s, upto) <=>
            /\ s \in OpenSpans
            /\ upto \in 0..Sizes[s]
            /\ ReportedLogs' = [ReportedLogs EXCEPT ![s] = 0..(upto - 1)]
            /\ ReportedLogs[s] \subseteq ReportedLogs'[s]
            /\ ReportedLogs[s] = ReportedLogs'[s] => Sizes[s] = 0
            /\ Len(data)' = Len(data) + 1
            /\ OpenSpans' \in {OpenSpans, OpenSpans \ {s}}
            /\ Sizes' = Sizes /\ emitted' = emitted /\ stored' = stored
    /\ Delivery!Skip <=>
            /\ OpenSpans = Spans /\ Len(data) = 0 /\ OpenSpans' = {}
            /\ Sizes' = Sizes /\ ReportedLogs' = ReportedLogs /\ Len(data)' = Len(data)
            /\ emitted' = emitted /\ stored' = stored
    /\ Delivery!Emit <=>
            /\ OpenSpans = {} /\ emitted < Len(data) /\ emitted' = emitted + 1
            /\ Sizes' = Sizes /\ ReportedLogs' = ReportedLogs /\ OpenSpans' = OpenSpans
            /\ Len(data)' = Len(data) /\ stored' = stored
    /\ Delivery!Forget <=>
            /\ OpenSpans = {} /\ emitted = Len(data) /\ stored' = {}
            /\ Sizes' = Sizes /\ ReportedLogs' = ReportedLogs /\ OpenSpans' = OpenSpans
            /\ Len(data)' = Len(data) /\ emitted' = emitted
BY DEF Delivery!Report, Delivery!Skip, Delivery!Emit, Delivery!Forget, Sizes, ReportedLogs

\* What LogDelivery sees is unchanged when each of its variables is.
LEMMA Stutters ==
    ASSUME Sizes' = Sizes, ReportedLogs' = ReportedLogs, OpenSpans' = OpenSpans,
           Len(data)' = Len(data), emitted' = emitted, stored' = stored
    PROVE  UNCHANGED Delivery!vars
BY DEF Delivery!vars, Sizes, ReportedLogs

\* Where no batch is made nothing is reported.
LEMMA SameMapping ==
    ASSUME SameSpans, data' = data
    PROVE  Sizes' = Sizes /\ ReportedLogs' = ReportedLogs /\ Len(data)' = Len(data)
<1>1. \A s : LogNumber(s)' = LogNumber(s)
  BY SameShape
<1>2. \A s : Reported(s)' = Reported(s)
  BY SameReported
<1>3. QED  BY <1>1, <1>2 DEF Sizes, ReportedLogs

\* A step outside the loop is a step of the abstract specification, or none.
LEMMA ElsewhereDelivers ==
    ASSUME Parts, Elsewhere
    PROVE  Delivery!Next \/ UNCHANGED Delivery!vars
<1>0. /\ Sizes' = Sizes /\ ReportedLogs' = ReportedLogs /\ Len(data)' = Len(data)
      /\ cur = NoSpan /\ cur' = NoSpan
  BY SameMapping DEF Elsewhere, Parts, Position
<1>1. CASE pc = "flush" /\ pc' = "done"
  <2>1. stored' = stored /\ stored = Spans /\ emitted' = emitted
    BY <1>1 DEF Elsewhere, Parts, Position
  <2>2. OpenSpans = Spans /\ OpenSpans' = Spans
    BY <1>1, <2>1 DEF OpenSpans
  <2>3. QED  BY <1>0, <2>1, <2>2, Stutters
<1>2. CASE pc = "flush" /\ pc' = "span"
  <2>1. /\ stored' = stored /\ stored = Spans /\ emitted' = emitted /\ data = <<>>
        /\ todo' = IF reporter = "UdpReporter" THEN stored ELSE {}
    BY <1>2 DEF Elsewhere, Parts, Position
  <2>2. OpenSpans = Spans /\ OpenSpans' = todo'
    BY <1>0, <1>2 DEF OpenSpans
  <2>3. CASE OpenSpans' = Spans
    BY <1>0, <2>1, <2>2, <2>3, Stutters
  <2>4. CASE OpenSpans' = {}
    <3>1. Delivery!Skip
      BY <1>0, <2>1, <2>2, <2>4, DeliveryMoves
    <3>2. QED  BY <3>1 DEF Delivery!Next
  <2>5. QED  BY <2>1, <2>2, <2>3, <2>4
<1>3. CASE pc = "span" /\ pc' = "send"
  <2>1. OpenSpans = {} /\ OpenSpans' = {} /\ stored' = stored /\ emitted' = emitted
    BY <1>0, <1>3 DEF OpenSpans, Elsewhere
  <2>2. QED  BY <1>0, <2>1, Stutters
<1>4. CASE pc = "send" /\ pc' = "send"
  <2>1. OpenSpans = {} /\ OpenSpans' = {} /\ stored' = stored
    BY <1>4 DEF OpenSpans, Elsewhere
  <2>2. CASE emitted < Len(data) /\ emitted' = emitted + 1
    <3>1. Delivery!Emit
      BY <1>0, <2>1, <2>2, DeliveryMoves
    <3>2. QED  BY <3>1 DEF Delivery!Next
  <2>3. CASE emitted' = emitted
    BY <1>0, <2>1, <2>3, Stutters
  <2>4. QED  BY <1>4, <2>2, <2>3 DEF Elsewhere
<1>5. CASE pc = "send" /\ pc' = "done"
  <2>1. emitted = Len(data) /\ emitted' = emitted /\ stored' = {}
    BY <1>5 DEF Elsewhere
  <2>2. OpenSpans = {} /\ OpenSpans' = {}
    BY <1>5, <2>1 DEF OpenSpans
  <2>3. Delivery!Forget
    BY <1>0, <2>1, <2>2, DeliveryMoves
  <2>4. QED  BY <2>3 DEF Delivery!Next
<1>6. CASE UNCHANGED <<pc, stored, todo, emitted>>
  <2>1. OpenSpans' = OpenSpans
    BY <1>0, <1>6 DEF OpenSpans
  <2>2. QED  BY <1>0, <1>6, <2>1, Stutters
<1>7. QED  BY <1>1, <1>2, <1>3, <1>4, <1>5, <1>6 DEF Elsewhere

\* Taking a span and searching open and close none.
LEMMA SearchDelivers ==
    ASSUME Parts, Takes \/ Searches
    PROVE  UNCHANGED Delivery!vars
<1>1. /\ Sizes' = Sizes /\ ReportedLogs' = ReportedLogs /\ Len(data)' = Len(data)
      /\ stored' = stored /\ emitted' = emitted
  BY SameMapping DEF Takes, Searches
<1>2. todo \subseteq Spans
  BY DEF Parts, IInv, TypeOK
<1>3. CASE Takes
  <2>1. PICK s \in todo : cur' = s /\ todo' = todo \ {s}
    BY <1>3 DEF Takes
  <2>2. cur = NoSpan /\ s # NoSpan /\ pc = "span" /\ pc' = "try"
    BY <1>2, <1>3, SpansAreSpans DEF Parts, Position, InLoop, Takes
  <2>3. OpenSpans = todo /\ OpenSpans' = todo' \cup {s}
    BY <2>1, <2>2 DEF OpenSpans
  <2>4. QED  BY <1>1, <2>1, <2>3, Stutters
<1>4. CASE Searches
  <2>1. OpenSpans' = OpenSpans
    BY <1>4 DEF Searches, InLoop, OpenSpans
  <2>2. QED  BY <1>1, <2>1, Stutters
<1>5. QED  BY <1>3, <1>4

\* Keeping a batch is a report of the abstract specification.
LEMMA AddDelivers ==
    ASSUME Parts, Continues \/ Leaves
    PROVE  Delivery!Next
<1> DEFINE upto == indexStart + indexCount
<1>0. Adds /\ pc = "push" /\ InLoop /\ IInv /\ BatchHere
  BY DEF Continues, Leaves, Adds, InLoop, Parts
<1>1. /\ cur \in Spans /\ indexStart \in Nat /\ indexCount \in Nat /\ LogNumber(cur) \in Nat
      /\ indexStart + indexCount <= LogNumber(cur)
      /\ LogNumber(cur) # 0 => indexCount > 0
  BY <1>0, InPush DEF IInv, SearchInLogs
<1>2. Sizes' = Sizes /\ Sizes[cur] = LogNumber(cur) /\ emitted' = emitted /\ stored' = stored
  <2>1. \A s : LogNumber(s)' = LogNumber(s)
    BY <1>0, SameShape DEF Adds
  <2>2. QED  BY <1>0, <1>1, <2>1 DEF Sizes, Adds
<1>3. Len(data)' = Len(data) + 1
  BY <1>0, OneMore
<1>4. PICK c \in Spans : c = cur
  BY <1>1
<1>5. Reported(c) = 0..(indexStart - 1) /\ Reported(c)' = 0..(upto - 1)
  <2>1. Reported(c) = 0..(indexStart - 1)
    BY <1>0, <1>4 DEF Parts, ReportedSoFar
  <2>2. Reported(c)' = Reported(c) \cup indexStart..(indexStart + indexCount - 1)
    BY <1>0, <1>4, ReportedAdds
  <2>3. ASSUME NEW a \in Nat, NEW n \in Nat
        PROVE  (0..(a - 1)) \cup (a..(a + n - 1)) = 0..(a + n - 1)
    OBVIOUS
  <2>4. QED  BY <1>1, <2>1, <2>2, <2>3
<1>6. \A s \in Spans \ {c} : Reported(s)' = Reported(s)
  BY <1>0, <1>4, ReportedAdds
<1>7. upto \in 0..Sizes[c]
  BY <1>1, <1>2, <1>4
<1> HIDE DEF upto
<1>8. /\ ReportedLogs[c] = 0..(indexStart - 1) /\ ReportedLogs'[c] = 0..(upto - 1)
      /\ ReportedLogs' = [ReportedLogs EXCEPT ![c] = 0..(upto - 1)]
  BY <1>5, <1>6 DEF ReportedLogs
<1>9. /\ ReportedLogs[c] \subseteq ReportedLogs'[c]
      /\ ReportedLogs[c] = ReportedLogs'[c] => Sizes[c] = 0
  <2>1. ASSUME NEW a \in Nat, NEW n \in Nat
        PROVE  /\ 0..(a - 1) \subseteq 0..(a + n - 1)
               /\ n > 0 => a \in 0..(a + n - 1) /\ a \notin 0..(a - 1)
    OBVIOUS
  <2>2. /\ 0..(indexStart - 1) \subseteq 0..(upto - 1)
        /\ indexCount > 0 => 0..(indexStart - 1) # 0..(upto - 1)
    BY <1>1, <2>1 DEF upto
  <2>3. QED  BY <1>1, <1>2, <1>4, <1>8, <2>2
<1>10. c \in OpenSpans /\ OpenSpans' \in {OpenSpans, OpenSpans \ {c}}
  <2>1. todo' = todo /\ cur \notin todo /\ cur # NoSpan /\ OpenSpans = todo \cup {cur}
    BY <1>0, <1>1, SpansAreSpans DEF Adds, OpenSpans, Parts, Position
  <2>2. CASE Continues
    BY <1>4, <2>1, <2>2 DEF Continues, OpenSpans
  <2>3. CASE Leaves
    <3>1. OpenSpans' = todo
      BY <2>1, <2>3 DEF Leaves, OpenSpans
    <3>2. QED  BY <1>4, <2>1, <3>1
  <2>4. QED  BY <2>2, <2>3
<1>11. Delivery!Report(c, upto)
  BY <1>2, <1>3, <1>7, <1>8, <1>9, <1>10, DeliveryMoves
<1>12. LogNumber(c) = Sizes[c]
  BY DEF Sizes
<1>13. QED  BY <1>7, <1>11, <1>12 DEF Delivery!Next, Sizes

\* A flush begins where the abstract one does.
LEMMA StartsDelivery == Init => Delivery!Init
<1> SUFFICES ASSUME Init PROVE Delivery!Init
  OBVIOUS
<1>1. /\ shape \in [Spans -> Shapes] /\ data = <<>> /\ pc = "flush"
      /\ emitted = 0 /\ stored = Spans
  BY DEF Init
<1>2. Sizes \in [Spans -> Nat]
  BY <1>1, LogNumberType DEF Sizes
<1>3. ReportedLogs = [s \in Spans |-> {}] /\ OpenSpans = Spans /\ Len(data) = 0
  BY <1>1 DEF ReportedLogs, Reported, OpenSpans
<1>4. QED  BY <1>1, <1>2, <1>3, DeliveryNames

\* However the spans are cut, flush reports the logs of each front to back and
\* none twice, takes up no span again, sends only when every span is done with,
\* and forgets the spans only when every packet had its chance.
THEOREM FlushImplementsDelivery == Spec => ImplementsDelivery
<1>1. Parts /\ [Next]_vars => [Delivery!Next]_(Delivery!vars)
  BY PartsStepClasses, ElsewhereDelivers, SearchDelivers, AddDelivers DEF Parts
<1>2. QED  BY <1>1, StartsDelivery, PartsInvariant, PTL
               DEF Spec, ImplementsDelivery, Delivery!Spec

=============================================================================

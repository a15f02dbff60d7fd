------------------------ MODULE CompactWriter_proofs ------------------------
(***************************************************************************)
(* Proofs about the two specifications built on CompactWriter.             *)
(*                                                                         *)
(* CompactStream, the protocol under any client.  Whatever a client writes *)
(* and wherever a datagram is cut, the two stacks of field ids follow the  *)
(* structs, no boolean is left waiting, and the reader hears the calls of  *)
(* the client one after the other until the bytes end.                     *)
(*                                                                         *)
(* EmitBatch, the protocol under the generated write functions.  Whatever  *)
(* is in a batch of proper structs, an agent that knows any part of the    *)
(* fields reads the whole datagram, and finds in it what it knows; the     *)
(* tags of the script and the notes about parts of spans are among it.     *)
(***************************************************************************)
EXTENDS CompactStream, EmitBatch, ThriftProtocols_proofs, FiniteSetTheorems

Level == {"fields", "end"}

\* The positions Depth counts.
Levels(list) == {i \in 1..Len(list) : list[i] \in Level}

Ids == FieldIds \union {0}

\* A field, and so a boolean that waits, is inside a struct; the outermost struct
\* has no id around it.
WriterInv ==
    /\ open \in Seq(Pending)
    /\ lastField \in Seq(Ids) /\ lastFieldId \in Ids /\ booleanField \subseteq Ids
    /\ Len(lastField) = Depth(open)
    /\ booleanField # {} => Waits(open, "BOOL") /\ lastField # <<>>
    /\ lastField # <<>> => lastField[1] = 0
    /\ lastField = <<>> => lastFieldId = 0

\* What the ids on the reader's stack are is of no importance.
ReaderInv ==
    /\ expect \in Seq(Pending)
    /\ \E S : rLastField \in Seq(S)
    /\ Len(rLastField) = Depth(expect)
    /\ boolValue # {} => Waits(expect, "BOOL")

\* A datagram is sent when nothing is left to write.
PhaseInv == phase # "writing" => open = <<>>

-----------------------------------------------------------------------------
(* Work lists. *)

\* All but the last element.
LEMMA FrontOfSeq ==
    ASSUME NEW S, NEW s \in Seq(S), Len(s) \in Nat \ {0}
    PROVE  /\ SubSeq(s, 1, Len(s) - 1) \in Seq(S)
           /\ Len(SubSeq(s, 1, Len(s) - 1)) = Len(s) - 1
           /\ \A i \in 1..(Len(s) - 1) : SubSeq(s, 1, Len(s) - 1)[i] = s[i]
<1>1. PICK n \in Nat : Len(s) = n + 1
    <2>1. \A len \in Nat \ {0} : len - 1 \in Nat /\ len = (len - 1) + 1
        OBVIOUS
    <2> QED
        BY <2>1
<1>2. \A i \in 1..n : s[i] \in S
    BY <1>1, ElementOfSeq
<1>3. Len(s) - 1 = n /\ (n = 0 \/ 1 <= n)
    BY <1>1
<1>4. /\ SubSeq(s, 1, n) \in Seq(S)
      /\ Len(SubSeq(s, 1, n)) = IF 1 <= n THEN n - 1 + 1 ELSE 0
      /\ \A i \in 1..(n - 1 + 1) : SubSeq(s, 1, n)[i] = s[1 + i - 1]
    BY <1>2, SubSeqProperties
<1>5. \A i \in 1..n : SubSeq(s, 1, n)[i] = s[i]
    BY <1>4
<1>6. Len(SubSeq(s, 1, n)) = n
    BY <1>3, <1>4
<1> QED
    BY <1>3, <1>4, <1>5, <1>6

\* Only positions of a finite list are counted.
LEMMA DepthType ==
    ASSUME NEW list \in Seq(Pending)
    PROVE  /\ IsFiniteSet(Levels(list))
           /\ Depth(list) = Cardinality(Levels(list)) /\ Depth(list) \in Nat
<1>1. Len(list) \in Nat
    BY LenProperties
<1>2. IsFiniteSet(1..Len(list))
    BY <1>1, FS_Interval
<1>3. IsFiniteSet(Levels(list))
    BY <1>2, FS_Subset DEF Levels
<1>4. Depth(list) = Cardinality(Levels(list))
    BY DEF Depth, Levels, Level
<1> QED
    BY <1>3, <1>4, FS_CardinalityType

\* The empty list is in no struct, nor is a message that has not begun.
LEMMA DepthStart == Depth(<<>>) = 0 /\ Depth(<<"message">>) = 0
<1>1. Levels(<<>>) = {} /\ Levels(<<"message">>) = {}
    BY DEF Levels, Level
<1>2. <<>> \in Seq(Pending) /\ <<"message">> \in Seq(Pending)
    BY DEF Pending
<1> QED
    BY <1>1, <1>2, DepthType, FS_EmptySet

\* One more item.
LEMMA PushItem ==
    ASSUME NEW list \in Seq(Pending), NEW item \in Pending
    PROVE  /\ Append(list, item) \in Seq(Pending)
           /\ Waits(Append(list, item), item)
           /\ item \in Level => Depth(Append(list, item)) = Depth(list) + 1
           /\ item \notin Level => Depth(Append(list, item)) = Depth(list)
<1> DEFINE longer == Append(list, item)
<1>1. /\ longer \in Seq(Pending) /\ longer # <<>>
      /\ Len(longer) = Len(list) + 1 /\ Len(list) \in Nat
      /\ \A i \in 1..Len(list) : longer[i] = list[i]
      /\ longer[Len(list) + 1] = item
    BY AppendProperties, LenProperties
<1>2. Waits(longer, item)
    BY <1>1 DEF Waits, Top
<1> HIDE DEF longer
<1>3. ASSUME item \in Level PROVE Depth(longer) = Depth(list) + 1
    <2>1. Levels(longer) = Levels(list) \union {Len(list) + 1}
        BY <1>1, <1>3 DEF Levels
    <2>2. Len(list) + 1 \notin Levels(list)
        BY <1>1 DEF Levels
    <2>3. Cardinality(Levels(list) \union {Len(list) + 1}) = Cardinality(Levels(list)) + 1
        BY <2>2, DepthType, FS_AddElement
    <2> QED
        BY <1>1, <2>1, <2>3, DepthType
<1>4. ASSUME item \notin Level PROVE Depth(longer) = Depth(list)
    <2>1. Levels(longer) = Levels(list)
        BY <1>1, <1>4 DEF Levels
    <2> QED
        BY <1>1, <2>1, DepthType
<1> QED
    BY <1>1, <1>2, <1>3, <1>4 DEF longer

\* One item less.
LEMMA PopItem ==
    ASSUME NEW list \in Seq(Pending), list # <<>>
    PROVE  /\ Done(list) \in Seq(Pending) /\ Top(list) \in Pending
           /\ Top(list) \in Level => Depth(list) = Depth(Done(list)) + 1
           /\ Top(list) \notin Level => Depth(list) = Depth(Done(list))
<1>1. Len(list) \in Nat \ {0}
    BY EmptySeq
<1>3. Top(list) \in Pending
    BY <1>1, ElementOfSeq DEF Top
<1>4. /\ Done(list) \in Seq(Pending)
      /\ Len(Done(list)) = Len(list) - 1
      /\ \A i \in 1..(Len(list) - 1) : Done(list)[i] = list[i]
    BY <1>1, FrontOfSeq DEF Done
<1>5. list = Append(Done(list), Top(list))
    <2>1. /\ Append(Done(list), Top(list)) \in Seq(Pending)
          /\ Len(Append(Done(list), Top(list))) = Len(list)
          /\ \A i \in 1..Len(list) : Append(Done(list), Top(list))[i] = list[i]
        BY <1>1, <1>3, <1>4, AppendProperties DEF Top
    <2> QED
        BY <2>1, SeqEqual
<1> QED
    BY <1>3, <1>4, <1>5, PushItem

\* Another item in its place.
LEMMA ReplaceItem ==
    ASSUME NEW list \in Seq(Pending), list # <<>>, NEW item \in Pending
    PROVE  /\ Instead(list, item) \in Seq(Pending)
           /\ item \in Level => Depth(Instead(list, item)) = Depth(Done(list)) + 1
           /\ item \notin Level => Depth(Instead(list, item)) = Depth(Done(list))
BY PopItem, PushItem DEF Instead

\* The elements of a collection or map in its place; they are no levels yet.
LEMMA AddElements ==
    ASSUME NEW list \in Seq(Pending), NEW n \in Nat, NEW types \in Seq(Types)
    PROVE  /\ list \o Copies(types, n) \in Seq(Pending)
           /\ Depth(list \o Copies(types, n)) = Depth(list)
<1> DEFINE copies == Copies(types, n)
           k == n * Len(types)
<1>1. Len(types) \in Nat /\ k \in Nat
    BY LenProperties
<1>2. copies \in Seq(Types) /\ Len(copies) = k
    <2>1. \A i \in 1..k : ((i - 1) % Len(types)) + 1 \in 1..Len(types)
        <3>1. CASE Len(types) = 0
            BY <3>1
        <3>2. CASE Len(types) > 0
            BY <1>1, <3>2
        <3> QED
            BY <1>1, <3>1, <3>2
    <2>2. copies \in [1..k -> Types]
        BY <2>1, ElementOfSeq DEF Copies
    <2> HIDE DEF copies, k
    <2>3. copies \in Seq(Types)
        BY <1>1, <2>2, SeqDef
    <2> QED
        BY <1>1, <2>2, <2>3, LenProperties
<1> HIDE DEF copies, k
<1>3. Types \subseteq Pending /\ Types \intersect Level = {}
    BY DEF Pending, Types, Level
<1>4. copies \in Seq(Pending)
    BY <1>2, <1>3, SeqMonotonic
<1>5. /\ list \o copies \in Seq(Pending)
      /\ Len(list \o copies) = Len(list) + k
      /\ \A i \in 1..(Len(list) + k) :
            (list \o copies)[i] = IF i <= Len(list) THEN list[i] ELSE copies[i - Len(list)]
    BY <1>2, <1>4, ConcatProperties
<1>6. Len(list) \in Nat
    BY LenProperties
<1>7. \A i \in 1..k : copies[i] \notin Level
    BY <1>2, <1>3, ElementOfSeq
<1>8. Levels(list \o copies) = Levels(list)
    <2>1. \A i \in (Len(list) + 1)..(Len(list) + k) : (list \o copies)[i] \notin Level
        BY <1>1, <1>5, <1>6, <1>7
    <2> QED
        BY <1>1, <1>5, <1>6, <2>1 DEF Levels
<1> QED
    BY <1>5, <1>8, DepthType DEF copies

-----------------------------------------------------------------------------
(* The writer. *)

\* Top(open) is of no level, so a call that ends with it leaves the depth.
LEMMA WriterTop ==
    ASSUME WriterInv, open # <<>>
    PROVE  /\ Top(open) \in Pending /\ Done(open) \in Seq(Pending)
           /\ Top(open) # "BOOL" => booleanField = {}
           /\ Top(open) \in Level => lastField # <<>> /\ Depth(open) = Depth(Done(open)) + 1
           /\ Top(open) \notin Level => Depth(open) = Depth(Done(open))
<1>1. open \in Seq(Pending) /\ lastField \in Seq(Ids) /\ Len(lastField) = Depth(open)
    BY DEF WriterInv
<1>2. /\ Done(open) \in Seq(Pending) /\ Top(open) \in Pending
      /\ Top(open) \in Level => Depth(open) = Depth(Done(open)) + 1
      /\ Top(open) \notin Level => Depth(open) = Depth(Done(open))
    BY <1>1, PopItem
<1>3. Top(open) \in Level => lastField # <<>>
    <2>1. Depth(Done(open)) \in Nat
        BY <1>2, DepthType
    <2>2. Top(open) \in Level => Len(lastField) # 0
        BY <1>1, <1>2, <2>1
    <2> QED
        BY <2>2, EmptySeq
<1>4. Top(open) # "BOOL" => booleanField = {}
    BY DEF WriterInv, Waits
<1> QED
    BY <1>2, <1>3, <1>4

\* A call that leaves the stack and the last field id alone and replaces the top item.
LEMMA WriterKeeps ==
    ASSUME WriterInv, open' \in Seq(Pending), Depth(open') = Depth(open),
           UNCHANGED <<lastField, lastFieldId>>, booleanField' = {}
    PROVE  WriterInv'
BY DEF WriterInv

\* The header of a field, inside a struct.
LEMMA WriterField ==
    ASSUME WriterInv, lastField # <<>>,
           NEW code, NEW id \in Ids, PutField(code, id),
           open' \in Seq(Pending), Depth(open') = Depth(open), booleanField' = {}
    PROVE  WriterInv'
BY DEF WriterInv, PutField

\* A write call keeps the stack of field ids as deep as the open structs.
LEMMA WriterStep == ASSUME WriterInv, Writing PROVE WriterInv'
<1>0. {"message", "STRUCT", "fields", "end", "BOOL", "MAP"} \subseteq Pending
    BY DEF Pending, Types
<1>1. ASSUME TellMessage PROVE WriterInv'
    <2>1. Waits(open, "message") /\ open' = Instead(open, "STRUCT")
          /\ UNCHANGED <<lastField, lastFieldId, booleanField>>
        BY <1>1 DEF TellMessage, WriteMessageBegin, Put, Tell
    <2>2. Depth(open') = Depth(open) /\ open' \in Seq(Pending)
        BY <1>0, <2>1, WriterTop, ReplaceItem DEF WriterInv, Waits, Level
    <2> QED
        BY <2>1, <2>2, WriterTop, WriterKeeps DEF Waits
<1>2. ASSUME TellStruct PROVE WriterInv'
    <2>1. /\ Waits(open, "STRUCT") /\ open' = Instead(open, "fields")
          /\ lastField' = Append(lastField, lastFieldId) /\ lastFieldId' = 0
          /\ booleanField' = booleanField
        BY <1>2 DEF TellStruct, WriteStructBegin, Tell
    <2>2. Depth(open') = Depth(open) + 1 /\ open' \in Seq(Pending)
        BY <1>0, <2>1, WriterTop, ReplaceItem DEF WriterInv, Waits, Level
    <2>3. booleanField' = {}
        BY <2>1, WriterTop DEF Waits
    <2>4. lastField \in Seq(Ids) /\ lastFieldId \in Ids /\ Len(lastField) \in Nat
        BY LenProperties DEF WriterInv
    <2>5. /\ lastField' \in Seq(Ids) /\ lastField' # <<>>
          /\ Len(lastField') = Len(lastField) + 1
          /\ \A i \in 1..Len(lastField) : lastField'[i] = lastField[i]
          /\ lastField'[Len(lastField) + 1] = lastFieldId
        BY <2>1, <2>4, AppendProperties
    <2>6. lastField'[1] = 0
        <3>1. CASE lastField = <<>>
            <4>1. Len(lastField) = 0 /\ lastFieldId = 0
                BY <3>1, EmptySeq DEF WriterInv
            <4> QED
                BY <2>5, <4>1
        <3>2. CASE lastField # <<>>
            <4>1. Len(lastField) \in Nat \ {0} /\ lastField[1] = 0
                BY <2>4, <3>2, EmptySeq DEF WriterInv
            <4> QED
                BY <2>5, <4>1
        <3> QED
            BY <3>1, <3>2
    <2>7. Len(lastField') = Depth(open')
        BY <2>2, <2>5 DEF WriterInv
    <2> QED
        BY <2>1, <2>2, <2>3, <2>5, <2>6, <2>7 DEF WriterInv, Ids
<1>3. ASSUME NEW type \in FieldTypes, NEW id \in FieldIds, TellField(type, id) PROVE WriterInv'
    <2>1. Waits(open, "fields") /\ open' = Append(open, type) /\ WriteFieldBegin(type, id)
        BY <1>3 DEF TellField, Tell
    <2>2. type \in Types /\ type \in Pending /\ type \notin Level
        BY StreamAssumption DEF Pending, Types, Level
    <2>3. open' \in Seq(Pending) /\ Waits(open', type) /\ Depth(open') = Depth(open)
        BY <2>1, <2>2, PushItem DEF WriterInv
    <2>4. booleanField = {} /\ lastField # <<>>
        BY <2>1, WriterTop DEF Waits, Level
    <2>5. CASE type = "BOOL"
        <3>1. booleanField' = {id} /\ UNCHANGED <<lastField, lastFieldId>>
            BY <2>1, <2>5 DEF WriteFieldBegin
        <3> QED
            BY <2>3, <2>4, <2>5, <3>1 DEF WriterInv, Ids
    <2>6. CASE type # "BOOL"
        <3>1. PutField(CType[type], id) /\ booleanField' = {}
            BY <2>1, <2>4, <2>6 DEF WriteFieldBegin
        <3> QED
            BY <2>3, <2>4, <3>1, WriterField DEF Ids
    <2> QED
        BY <2>5, <2>6
<1>4. ASSUME TellStop PROVE WriterInv'
    <2>1. /\ Waits(open, "fields") /\ open' = Instead(open, "end")
          /\ UNCHANGED <<lastField, lastFieldId, booleanField>>
        BY <1>4 DEF TellStop, WriteFieldStop, Put, Tell
    <2>2. Depth(open') = Depth(open) /\ open' \in Seq(Pending)
        BY <1>0, <2>1, WriterTop, ReplaceItem DEF WriterInv, Waits, Level
    <2> QED
        BY <2>1, <2>2, WriterTop, WriterKeeps DEF Waits
<1>5. ASSUME TellStructEnd PROVE WriterInv'
    <2>1. /\ Waits(open, "end") /\ open' = Done(open)
          /\ lastFieldId' = lastField[Len(lastField)]
          /\ lastField' = SubSeq(lastField, 1, Len(lastField) - 1)
          /\ booleanField' = booleanField
        BY <1>5 DEF TellStructEnd, WriteStructEnd, Tell
    <2>2. /\ open' \in Seq(Pending) /\ Depth(open) = Depth(open') + 1
          /\ lastField # <<>> /\ booleanField' = {}
        BY <2>1, WriterTop DEF Waits, Level
    <2>3. lastField \in Seq(Ids) /\ Len(lastField) \in Nat \ {0}
        BY <2>2, EmptySeq DEF WriterInv
    <2>4. lastFieldId' \in Ids
        BY <2>1, <2>3, ElementOfSeq
    <2>5. /\ lastField' \in Seq(Ids) /\ Len(lastField') = Len(lastField) - 1
          /\ \A i \in 1..(Len(lastField) - 1) : lastField'[i] = lastField[i]
        BY <2>1, <2>3, FrontOfSeq
    <2>6. lastField' # <<>> => lastField'[1] = 0
        <3>1. lastField' # <<>> => Len(lastField) - 1 \in Nat \ {0}
            BY <2>3, <2>5, EmptySeq
        <3> QED
            BY <2>2, <2>5, <3>1 DEF WriterInv
    <2>7. lastField' = <<>> => lastFieldId' = 0
        <3>1. lastField' = <<>> => Len(lastField) = 1
            BY <2>3, <2>5, EmptySeq
        <3> QED
            BY <2>1, <2>2, <3>1 DEF WriterInv
    <2>8. Len(lastField') = Depth(open')
        <3>1. Depth(open') \in Nat
            BY <2>2, DepthType
        <3> QED
            BY <2>2, <2>3, <2>5, <3>1 DEF WriterInv
    <2> QED
        BY <2>2, <2>4, <2>5, <2>6, <2>7, <2>8 DEF WriterInv
<1>6. ASSUME NEW type \in Scalar, NEW v, TellScalar(type, v) PROVE WriterInv'
    <2>1. Waits(open, type) /\ open' = Done(open) /\ WriteScalar(type, v)
        BY <1>6 DEF TellScalar, Tell
    <2>2. open' \in Seq(Pending) /\ Depth(open') = Depth(open)
        BY <2>1, WriterTop DEF Waits, Level, Scalar, Types
    <2>3. CASE Put(Encoded(type, v)) /\ (type # "BOOL" \/ booleanField = {})
        <3>1. booleanField' = {} /\ UNCHANGED <<lastField, lastFieldId>>
            BY <2>1, <2>3, WriterTop DEF Put, Waits
        <3> QED
            BY <2>2, <3>1, WriterKeeps
    <2>4. ASSUME NEW id \in booleanField, PutField(BoolCode(v), id), booleanField' = {}
          PROVE  WriterInv'
        <3>1. id \in Ids /\ lastField # <<>>
            BY <2>4 DEF WriterInv
        <3> QED
            BY <2>2, <2>4, <3>1, WriterField
    <2> QED
        BY <2>1, <2>3, <2>4 DEF WriteScalar, WriteBool
<1>7. ASSUME NEW kind \in Collection, NEW c \in Collections, TellCollection(kind, c[1], c[2])
      PROVE  WriterInv'
    <2>1. /\ Waits(open, kind) /\ open' = Done(open) \o Copies(<<c[1]>>, c[2])
          /\ UNCHANGED <<lastField, lastFieldId, booleanField>>
        BY <1>7 DEF TellCollection, WriteCollectionBegin, Put, Tell
    <2>2. c[2] \in Nat /\ <<c[1]>> \in Seq(Types)
        BY StreamAssumption
    <2>3. /\ kind # "BOOL" /\ kind \notin Level
          /\ Done(open) \in Seq(Pending) /\ Depth(open) = Depth(Done(open)) /\ booleanField = {}
        BY <2>1, WriterTop DEF Waits, Level, Collection
    <2>4. open' \in Seq(Pending) /\ Depth(open') = Depth(open)
        BY <2>1, <2>2, <2>3, AddElements
    <2> QED
        BY <2>1, <2>3, <2>4, WriterKeeps
<1>8. ASSUME NEW m \in Maps, TellMap(m[1], m[2], m[3]) PROVE WriterInv'
    <2>1. /\ Waits(open, "MAP") /\ open' = Done(open) \o Copies(<<m[2], m[1]>>, m[3])
          /\ UNCHANGED <<lastField, lastFieldId, booleanField>>
        BY <1>8 DEF TellMap, WriteMapBegin, Put, Tell
    <2>2. m[3] \in Nat /\ <<m[2], m[1]>> \in Seq(Types)
        BY StreamAssumption
    <2>3. Done(open) \in Seq(Pending) /\ Depth(open) = Depth(Done(open)) /\ booleanField = {}
        BY <2>1, WriterTop DEF Waits, Level
    <2>4. open' \in Seq(Pending) /\ Depth(open') = Depth(open)
        BY <2>1, <2>2, <2>3, AddElements
    <2> QED
        BY <2>1, <2>3, <2>4, WriterKeeps
<1> QED
    BY <1>1, <1>2, <1>3, <1>4, <1>5, <1>6, <1>7, <1>8 DEF Writing

-----------------------------------------------------------------------------
(* The reader. *)

\* As WriterTop.
LEMMA ReaderTop ==
    ASSUME ReaderInv, expect # <<>>
    PROVE  /\ Top(expect) \in Pending /\ Done(expect) \in Seq(Pending)
           /\ Top(expect) # "BOOL" => boolValue = {}
           /\ Top(expect) \in Level => Depth(expect) = Depth(Done(expect)) + 1
           /\ Top(expect) \notin Level => Depth(expect) = Depth(Done(expect))
<1>1. expect \in Seq(Pending)
    BY DEF ReaderInv
<1>2. Top(expect) # "BOOL" => boolValue = {}
    BY DEF ReaderInv, Waits
<1> QED
    BY <1>1, <1>2, PopItem

\* A call that leaves the stack alone.
LEMMA ReaderKeeps ==
    ASSUME ReaderInv, expect' \in Seq(Pending), Depth(expect') = Depth(expect),
           rLastField' = rLastField, boolValue' = {}
    PROVE  ReaderInv'
BY DEF ReaderInv

\* Field headers give one type, or none.
LEMMA FieldTypesFound ==
    ASSUME NEW s, NEW last, NEW f \in FieldAt(s, last)
    PROVE  f.types = {} \/ \E t \in Types : f.types = {t}
<1> DEFINE Found(x) ==
              LET code == x.value[1] % 16
                  delta == x.value[1] \div 16
              IN IF code = 0
                 THEN {[types |-> {}, code |-> code, id |-> last, rest |-> x.rest]}
                 ELSE IF delta # 0
                 THEN {[types |-> {t}, code |-> code, id |-> last + delta, rest |-> x.rest] :
                          t \in TypesOf(code)}
                 ELSE {[types |-> {t}, code |-> code, id |-> y.value[1], rest |-> y.rest] :
                          t \in TypesOf(code), y \in Decoded("I16", x.rest)}
<1>1. FieldAt(s, last) = UNION {Found(x) : x \in BytesAt(s, 1)}
    BY DEF FieldAt
<1>2. \A x : f \in Found(x) => f.types = {} \/ \E t \in Types : f.types = {t}
    BY DEF TypesOf
<1> HIDE DEF Found
<1> QED
    BY <1>1, <1>2

\* The header of a collection or map gives known types, and a size that is natural.
LEMMA CollectionFound ==
    ASSUME NEW s, NEW h \in CollectionAt(s)
    PROVE  h.types \in Seq(Types) /\ h.size \in Nat
<1> DEFINE Shown(x) == IF x.value[1] \div 16 = 15 THEN VarintAt(x.rest)
                       ELSE {[value |-> <<x.value[1] \div 16>>, rest |-> x.rest]}
           Found(x) == {[types |-> <<t>>, size |-> y.value[1], rest |-> y.rest] :
                           t \in TypesOf(x.value[1] % 16), y \in Sizes(Shown(x))}
<1>1. CollectionAt(s) = UNION {Found(x) : x \in BytesAt(s, 1)}
    BY DEF CollectionAt
<1> HIDE DEF Shown
<1>2. ASSUME NEW x, h \in Found(x) PROVE h.types \in Seq(Types) /\ h.size \in Nat
    <2>1. PICK t \in TypesOf(x.value[1] % 16), y \in Sizes(Shown(x)) :
             h = [types |-> <<t>>, size |-> y.value[1], rest |-> y.rest]
        BY <1>2
    <2>2. y.value[1] \in Nat /\ t \in Types
        BY DEF TypesOf, Sizes
    <2>3. h.types = <<t>> /\ h.size = y.value[1]
        BY <2>1
    <2> QED
        BY <2>2, <2>3
<1> HIDE DEF Found
<1> QED
    BY <1>1, <1>2

\* The types found in the header of a map are types.
LEMMA MapFound ==
    ASSUME NEW s, NEW h \in MapAt(s), h.size > 0
    PROVE  <<h.types[2], h.types[1]>> \in Seq(Types) /\ h.size \in Nat
<1> DEFINE Pairs(x, y) ==
              {[types |-> <<k, v>>, size |-> x.value[1], rest |-> y.rest] :
                  k \in TypesOf(y.value[1] \div 16), v \in TypesOf(y.value[1] % 16)}
           Found(x) ==
              IF x.value = <<0>> THEN {[types |-> <<>>, size |-> 0, rest |-> x.rest]}
              ELSE UNION {Pairs(x, y) : y \in BytesAt(x.rest, 1)}
<1>1. MapAt(s) = UNION {Found(x) : x \in Sizes(VarintAt(s))}
    BY DEF MapAt
<1>2. \A x, y : h \in Pairs(x, y) =>
          h.size = x.value[1] /\ <<h.types[2], h.types[1]>> \in Seq(Types)
    BY DEF TypesOf
<1> HIDE DEF Pairs
<1>3. \A x : h \in Found(x) => \E y : h \in Pairs(x, y)
    OBVIOUS
<1> HIDE DEF Found
<1>4. PICK x \in Sizes(VarintAt(s)) : h \in Found(x)
    BY <1>1
<1> QED
    BY <1>2, <1>3, <1>4 DEF Sizes

\* A read call keeps the stack of field ids as deep as the structs it is in.
LEMMA ReaderStep == ASSUME ReaderInv, Reading PROVE ReaderInv'
<1>0. {"message", "STRUCT", "fields", "end", "BOOL", "MAP"} \subseteq Pending
    BY DEF Pending, Types
<1>1. ASSUME HearMessage PROVE ReaderInv'
    <2>1. /\ Waits(expect, "message") /\ expect' = Instead(expect, "STRUCT")
          /\ rLastField' = rLastField /\ boolValue' = boolValue
        BY <1>1 DEF HearMessage, ReadMessageBegin, Get, Hear
    <2>2. Depth(expect') = Depth(expect) /\ expect' \in Seq(Pending)
        BY <1>0, <2>1, ReaderTop, ReplaceItem DEF ReaderInv, Waits, Level
    <2> QED
        BY <2>1, <2>2, ReaderTop, ReaderKeeps DEF Waits
<1>2. ASSUME HearStruct PROVE ReaderInv'
    <2>1. /\ Waits(expect, "STRUCT") /\ expect' = Instead(expect, "fields")
          /\ rLastField' = Append(rLastField, rLastFieldId) /\ boolValue' = boolValue
        BY <1>2 DEF HearStruct, ReadStructBegin, Hear
    <2>2. Depth(expect') = Depth(expect) + 1 /\ expect' \in Seq(Pending)
        BY <1>0, <2>1, ReaderTop, ReplaceItem DEF ReaderInv, Waits, Level
    <2>3. boolValue' = {}
        BY <2>1, ReaderTop DEF Waits
    <2>4. PICK S : rLastField \in Seq(S)
        BY DEF ReaderInv
    <2> DEFINE more == S \union {rLastFieldId}
    <2>5. rLastField \in Seq(more) /\ rLastFieldId \in more
        BY <2>4, SeqMonotonic
    <2> HIDE DEF more
    <2>6. rLastField' \in Seq(more) /\ Len(rLastField') = Len(rLastField) + 1
        BY <2>1, <2>5, AppendProperties
    <2> QED
        BY <2>2, <2>3, <2>6 DEF ReaderInv
<1>3. ASSUME HearField PROVE ReaderInv'
    <2>1. PICK f \in FieldAt(rest, rLastFieldId) :
             /\ ReadFieldBegin(f)
             /\ \/ f.types = {} /\ expect' = Instead(expect, "end")
                \/ \E t \in f.types : expect' = Append(expect, t)
        BY <1>3 DEF HearField, Hear
    <2>2. /\ Waits(expect, "fields") /\ rLastField' = rLastField
          /\ "BOOL" \notin f.types => boolValue' = boolValue
        BY <1>3, <2>1 DEF HearField, ReadFieldBegin
    <2>3. boolValue = {} /\ expect \in Seq(Pending) /\ expect # <<>>
        BY <2>2, ReaderTop DEF Waits, ReaderInv
    <2>4. CASE f.types = {}
        <3>1. expect' = Instead(expect, "end") /\ boolValue' = {}
            BY <2>1, <2>2, <2>3, <2>4
        <3>2. Depth(expect') = Depth(expect) /\ expect' \in Seq(Pending)
            BY <1>0, <2>2, <2>3, <3>1, ReaderTop, ReplaceItem DEF Waits, Level
        <3> QED
            BY <2>2, <3>1, <3>2, ReaderKeeps
    <2>5. ASSUME NEW t \in Types, f.types = {t} PROVE ReaderInv'
        <3>1. expect' = Append(expect, t)
            BY <2>1, <2>5
        <3>2. t \in Pending /\ t \notin Level
            BY DEF Pending, Types, Level
        <3>3. expect' \in Seq(Pending) /\ Waits(expect', t) /\ Depth(expect') = Depth(expect)
            BY <2>3, <3>1, <3>2, PushItem
        <3>4. t # "BOOL" => boolValue' = {}
            BY <2>2, <2>3, <2>5
        <3> QED
            BY <2>2, <3>3, <3>4 DEF ReaderInv
    <2> QED
        BY <2>4, <2>5, FieldTypesFound
<1>4. ASSUME HearStructEnd PROVE ReaderInv'
    <2>1. /\ Waits(expect, "end") /\ expect' = Done(expect)
          /\ rLastField' = SubSeq(rLastField, 1, Len(rLastField) - 1) /\ boolValue' = boolValue
        BY <1>4 DEF HearStructEnd, ReadStructEnd, Hear
    <2>2. /\ expect' \in Seq(Pending) /\ Depth(expect) = Depth(expect') + 1
          /\ boolValue' = {}
        BY <2>1, ReaderTop DEF Waits, Level
    <2>3. PICK S : rLastField \in Seq(S)
        BY DEF ReaderInv
    <2>4. Depth(expect') \in Nat
        BY <2>2, DepthType
    <2>5. Len(rLastField) = Depth(expect') + 1
        BY <2>2 DEF ReaderInv
    <2>6. Len(rLastField) \in Nat \ {0}
        BY <2>4, <2>5
    <2>7. rLastField' \in Seq(S) /\ Len(rLastField') = Len(rLastField) - 1
        BY <2>1, <2>3, <2>6, FrontOfSeq
    <2>8. Len(rLastField') = Depth(expect')
        BY <2>4, <2>5, <2>7
    <2> QED
        BY <2>2, <2>7, <2>8 DEF ReaderInv
<1>5. ASSUME NEW type \in Scalar, HearScalar(type) PROVE ReaderInv'
    <2>1. PICK v \in ScalarsAt(type) : ReadScalar(type, v)
        BY <1>5 DEF HearScalar
    <2>2. Waits(expect, type) /\ expect' = Done(expect)
        BY <1>5 DEF HearScalar, Hear
    <2>3. expect' \in Seq(Pending) /\ Depth(expect') = Depth(expect)
        BY <2>2, ReaderTop DEF Waits, Level, Scalar, Types
    <2>4. rLastField' = rLastField /\ (boolValue' = {} \/ boolValue' = boolValue)
        BY <2>1 DEF ReadScalar, ReadBool, Get
    <2>5. boolValue' = {}
        <3>1. CASE type = "BOOL"
            BY <2>1, <3>1 DEF ReadScalar, ReadBool, Get
        <3>2. CASE type # "BOOL"
            BY <2>2, <2>4, <3>2, ReaderTop DEF Waits
        <3> QED
            BY <3>1, <3>2
    <2> QED
        BY <2>3, <2>4, <2>5, ReaderKeeps
<1>6. ASSUME NEW kind \in Collection, HearCollection(kind) PROVE ReaderInv'
    <2>1. PICK h \in CollectionAt(rest) :
             ReadCollectionBegin(h) /\ expect' = Done(expect) \o Copies(h.types, h.size)
        BY <1>6 DEF HearCollection, Hear
    <2>2. Waits(expect, kind) /\ rLastField' = rLastField /\ boolValue' = boolValue
        BY <1>6, <2>1 DEF HearCollection, ReadCollectionBegin, Get
    <2>3. /\ Done(expect) \in Seq(Pending) /\ Depth(expect) = Depth(Done(expect))
          /\ boolValue = {}
        BY <2>2, ReaderTop DEF Waits, Level, Collection
    <2>4. expect' \in Seq(Pending) /\ Depth(expect') = Depth(expect)
        BY <2>1, <2>3, CollectionFound, AddElements
    <2> QED
        BY <2>2, <2>3, <2>4, ReaderKeeps
<1>7. ASSUME HearMap PROVE ReaderInv'
    <2>1. PICK h \in MapAt(rest) :
             /\ ReadMapBegin(h)
             /\ \/ h.size = 0 /\ expect' = Done(expect)
                \/ h.size > 0 /\ expect' = Done(expect) \o Copies(<<h.types[2], h.types[1]>>, h.size)
        BY <1>7 DEF HearMap, Hear
    <2>2. Waits(expect, "MAP") /\ rLastField' = rLastField /\ boolValue' = boolValue
        BY <1>7, <2>1 DEF HearMap, ReadMapBegin, Get
    <2>3. /\ Done(expect) \in Seq(Pending) /\ Depth(expect) = Depth(Done(expect))
          /\ boolValue = {}
        BY <2>2, ReaderTop DEF Waits, Level
    <2>4. expect' \in Seq(Pending) /\ Depth(expect') = Depth(expect)
        <3>2. CASE h.size = 0 /\ expect' = Done(expect)
            BY <2>3, <3>2
        <3>3. CASE h.size > 0 /\ expect' = Done(expect) \o Copies(<<h.types[2], h.types[1]>>, h.size)
            <4>1. h.size \in Nat /\ <<h.types[2], h.types[1]>> \in Seq(Types)
                BY <3>3, MapFound
            <4> QED
                BY <2>3, <3>3, <4>1, AddElements
        <3> QED
            BY <2>1, <3>2, <3>3
    <2> QED
        BY <2>2, <2>3, <2>4, ReaderKeeps
<1> QED
    BY <1>1, <1>2, <1>3, <1>4, <1>5, <1>6, <1>7 DEF Reading

-----------------------------------------------------------------------------
(* Both. *)

NestInv == WriterInv /\ ReaderInv /\ PhaseInv

\* The invariant of the nesting holds at the start, where nothing is open.
LEMMA NestsFirst == Init => NestInv
<1> USE DEF NestInv
<1> SUFFICES ASSUME Init PROVE NestInv
    OBVIOUS
<1>1. /\ open = <<"message">> /\ lastField = <<>> /\ lastFieldId = 0 /\ booleanField = {}
      /\ expect = <<>> /\ rLastField = <<>> /\ boolValue = {}
    BY DEF Init, NewWriter
<1>2. <<"message">> \in Seq(Pending)
    BY DEF Pending
<1>3. WriterInv
    BY <1>1, <1>2, DepthStart, EmptySeq DEF WriterInv, Ids
<1>4. ReaderInv
    BY <1>1, DepthStart, EmptySeq DEF ReaderInv
<1> QED
    BY <1>3, <1>4 DEF PhaseInv, Init

\* It is kept by write and read calls, by a datagram sent and by the next one begun.
LEMMA NestsStays == NestInv /\ [Next]_vars => NestInv'
<1> USE DEF NestInv
<1> SUFFICES ASSUME NestInv, [Next]_vars PROVE NestInv'
    OBVIOUS
<1>0. /\ UNCHANGED <<writer, open>> => WriterInv'
      /\ UNCHANGED <<reader, expect>> => ReaderInv'
    BY DEF WriterInv, ReaderInv, writer, reader, Depth
<1>1. CASE Writing
    <2>1. UNCHANGED <<reader, expect>> /\ phase = "writing" /\ phase' = phase
        BY <1>1 DEF Writing, TellMessage, TellStruct, TellField, TellStop, TellStructEnd,
                    TellScalar, TellCollection, TellMap, Tell
    <2> QED
        BY <1>0, <1>1, <2>1, WriterStep DEF PhaseInv
<1>2. CASE Reading
    <2>1. UNCHANGED <<writer, open, phase>>
        BY <1>2 DEF Reading, HearMessage, HearStruct, HearField, HearStructEnd, HearMap,
                    HearScalar, HearCollection, Hear
    <2> QED
        BY <1>0, <1>2, <2>1, ReaderStep DEF PhaseInv
<1>3. ASSUME NEW n \in 0..Len(wire), Send(n) PROVE NestInv'
    <2>1. /\ UNCHANGED <<lastField, lastFieldId, booleanField, open>>
          /\ expect' = <<"message">> /\ rLastField' = <<>> /\ boolValue' = {}
        BY <1>3 DEF Send, NewReader
    <2>2. WriterInv'
        BY <2>1 DEF WriterInv, Depth
    <2>3. <<"message">> \in Seq(Pending)
        BY DEF Pending
    <2>4. ReaderInv'
        BY <2>1, <2>3, DepthStart, EmptySeq DEF ReaderInv
    <2>5. PhaseInv'
        BY <1>3 DEF Send, PhaseInv
    <2> QED
        BY <2>2, <2>4, <2>5
<1>4. CASE EndReading
    BY <1>0, <1>4 DEF EndReading, PhaseInv
<1>5. CASE NextDatagram
    <2>1. /\ UNCHANGED writer /\ open' = <<"message">>
          /\ expect' = <<>> /\ rLastField' = <<>> /\ boolValue' = {}
        BY <1>5 DEF NextDatagram, NewReader
    <2>2. open = <<>>
        BY <1>5 DEF NextDatagram, PhaseInv
    <2>3. booleanField = {} /\ lastField \in Seq(Ids) /\ Len(lastField) = 0
        BY <2>2, DepthStart DEF WriterInv, Waits
    <2>4. <<"message">> \in Seq(Pending)
        BY DEF Pending
    <2>5. WriterInv'
        BY <2>1, <2>3, <2>4, DepthStart DEF WriterInv, writer
    <2>6. ReaderInv'
        BY <2>1, DepthStart, EmptySeq DEF ReaderInv
    <2>7. PhaseInv'
        BY <1>5 DEF NextDatagram, PhaseInv
    <2> QED
        BY <2>5, <2>6, <2>7
<1>6. CASE UNCHANGED vars
    BY <1>0, <1>6 DEF vars, PhaseInv
<1> QED
    BY <1>1, <1>2, <1>3, <1>4, <1>5, <1>6 DEF Next

\* It says what NestingMatches asks of both stacks.
LEMMA NestsMatch == NestInv => NestingMatches
<1> USE DEF NestInv
<1> SUFFICES ASSUME NestInv PROVE NestingMatches
    OBVIOUS
<1>1. open = <<>> => lastFieldId = 0
    <2>1. open = <<>> => Len(lastField) = 0
        BY DepthStart DEF WriterInv
    <2> QED
        BY <2>1, EmptySeq DEF WriterInv
<1> QED
    BY <1>1 DEF NestingMatches, WriterInv, ReaderInv

\* In every reachable state the stacks follow the structs, no boolean is left, and
\* between two datagrams the protocol object is as good as new.
THEOREM ProtocolNests == Spec => []NestingMatches
BY NestsFirst, NestsStays, NestsMatch, PTL DEF Spec

-----------------------------------------------------------------------------
(* What a client did: the states of the writer between its calls, and the bytes of each. *)

Calls == [call : Types \union {"message", "field", "stop", "end"}, data : Seq(Int)]

States == [open : Seq(Pending), stack : Seq(Int), id : Int, bool : SUBSET Int, pos : Nat]

Fresh == [open |-> <<"message">>, stack |-> <<>>, id |-> 0, bool |-> {}, pos |-> 0]

\* Only a value changes neither the stack nor the last id.
Same(a, b) == b.stack = a.stack /\ b.id = a.id

ById(id) == id \in Int /\ Short(ZigZag(id))

MessageStep(a, c, b, e) ==
    /\ Top(a.open) = "message" /\ b.open = Instead(a.open, "STRUCT") /\ Same(a, b) /\ b.bool = {}
    /\ c = Call("message", <<MessageType.ONEWAY, 0, 101>>)
    /\ e = MessageHeader(<<101>>, "ONEWAY", 0)

StructStep(a, c, b, e) ==
    /\ Top(a.open) = "STRUCT" /\ b.open = Instead(a.open, "fields")
    /\ b.stack = Append(a.stack, a.id) /\ b.id = 0 /\ b.bool = {}
    /\ c = Call("STRUCT", <<>>) /\ e = <<>>

FieldStep(a, c, b, e) ==
    \E type \in Types \ {"BOOL"}, id \in Int :
       /\ ById(id)
       /\ Top(a.open) = "fields" /\ b.open = Append(a.open, type)
       /\ b.stack = a.stack /\ b.id = id /\ b.bool = {}
       /\ c = Call("field", <<CType[type], id>>) /\ e = FieldHeader(CType[type], id, a.id)

BoolFieldStep(a, c, b, e) ==
    \E id \in Int :
       /\ ById(id)
       /\ Top(a.open) = "fields" /\ b.open = Append(a.open, "BOOL") /\ Same(a, b) /\ b.bool = {id}
       /\ c = Call("field", <<CType["BOOL"], id>>) /\ e = <<>>

StopStep(a, c, b, e) ==
    /\ Top(a.open) = "fields" /\ b.open = Instead(a.open, "end") /\ Same(a, b) /\ b.bool = {}
    /\ c = Call("stop", <<>>) /\ e = <<0>>

EndStep(a, c, b, e) ==
    /\ Top(a.open) = "end" /\ b.open = Done(a.open)
    /\ b.stack = SubSeq(a.stack, 1, Len(a.stack) - 1) /\ b.id = a.stack[Len(a.stack)] /\ b.bool = {}
    /\ c = Call("end", <<>>) /\ e = <<>>

ScalarStep(a, c, b, e) ==
    \E type \in Scalar : \E v \in Seq(Int) :
       /\ Carried(type, v)
       /\ Top(a.open) = type /\ b.open = Done(a.open) /\ Same(a, b) /\ b.bool = {}
       /\ c = Call(type, v) /\ e = Encoded(type, v)

\* The value of a boolean field: the header is written now.
BoolStep(a, c, b, e) ==
    \E id \in Int, v \in {<<0>>, <<1>>} :
       /\ ById(id) /\ a.bool = {id}
       /\ Top(a.open) = "BOOL" /\ b.open = Done(a.open)
       /\ b.stack = a.stack /\ b.id = id /\ b.bool = {}
       /\ c = Call("BOOL", v) /\ e = FieldHeader(BoolCode(v), id, a.id)

CollectionStep(a, c, b, e) ==
    \E kind \in Collection, type \in Types, size \in Nat :
       /\ Short(size)
       /\ Top(a.open) = kind /\ b.open = Done(a.open) \o Copies(<<type>>, size)
       /\ Same(a, b) /\ b.bool = {}
       /\ c = Call(kind, <<CType[type], size>>) /\ e = CollectionHeader(type, size)

MapStep(a, c, b, e) ==
    \E key \in Types, val \in Types, size \in Nat :
       /\ Short(size)
       /\ Top(a.open) = "MAP" /\ b.open = Done(a.open) \o Copies(<<val, key>>, size)
       /\ Same(a, b) /\ b.bool = {}
       /\ c = Call("MAP", IF size = 0 THEN <<0>> ELSE <<CType[key], CType[val], size>>)
       /\ e = MapHeader(key, val, size)

Step(a, c, b, e) ==
    /\ a.open # <<>>
    /\ \/ BoolStep(a, c, b, e)
       \/ /\ a.bool = {}
          /\ \/ MessageStep(a, c, b, e) \/ StructStep(a, c, b, e)
             \/ FieldStep(a, c, b, e) \/ BoolFieldStep(a, c, b, e)
             \/ StopStep(a, c, b, e) \/ EndStep(a, c, b, e) \/ ScalarStep(a, c, b, e)
             \/ CollectionStep(a, c, b, e) \/ MapStep(a, c, b, e)

\* A step whose bytes are among the bytes of the datagram.
Link(a, c, b, bytes) ==
    \E e \in Seq(Int) :
       /\ Step(a, c, b, e)
       /\ b.pos = a.pos + Len(e)
       /\ \A i \in 1..Len(e) : bytes[a.pos + i] = e[i]

Trace(T, calls, bytes) ==
    /\ T \in [0..Len(calls) -> States] /\ T[0] = Fresh
    /\ \A k \in 0..Len(calls) : T[k].pos <= Len(bytes)
    /\ T[Len(calls)].pos = Len(bytes)
    /\ \A k \in 0..(Len(calls) - 1) : Link(T[k], calls[k + 1], T[k + 1], bytes)

-----------------------------------------------------------------------------

\* Bytes that are sent later change nothing.
LEMMA LinkStays ==
    ASSUME NEW a \in States, NEW c, NEW b \in States, NEW bytes \in Seq(Int), NEW more \in Seq(Int),
           Link(a, c, b, bytes), b.pos <= Len(bytes)
    PROVE  Link(a, c, b, bytes \o more)
<1>1. PICK e \in Seq(Int) : /\ Step(a, c, b, e) /\ b.pos = a.pos + Len(e)
                            /\ \A i \in 1..Len(e) : bytes[a.pos + i] = e[i]
    BY DEF Link
<1>2. PICK p \in Nat : p = a.pos
    BY DEF States
<1>3. Len(e) \in Nat /\ Len(bytes) \in Nat /\ Len(more) \in Nat
    BY LenProperties
<1>4. \A i \in 1..Len(e) : (bytes \o more)[a.pos + i] = e[i]
    <2> TAKE i \in 1..Len(e)
    <2>1. p + Len(e) <= Len(bytes)
        BY <1>1, <1>2
    <2>2. PICK j \in 1..(Len(bytes) + Len(more)) : j = a.pos + i /\ j <= Len(bytes)
        <3>1. p + i \in 1..(Len(bytes) + Len(more)) /\ p + i <= Len(bytes)
            BY <1>3, <2>1
        <3> QED
            BY <1>2, <3>1
    <2>3. (bytes \o more)[j] = bytes[j]
        BY <2>2, ConcatProperties
    <2> QED
        BY <1>1, <2>2, <2>3
<1> QED
    BY <1>1, <1>4 DEF Link

\* One more call.
LEMMA TraceGrows ==
    ASSUME NEW T, NEW calls \in Seq(Calls), NEW bytes \in Seq(Int), Trace(T, calls, bytes),
           NEW c \in Calls, NEW b \in States, NEW e \in Seq(Int),
           Step(T[Len(calls)], c, b, e), b.pos = Len(bytes \o e)
    PROVE  \E U : /\ Trace(U, Append(calls, c), bytes \o e)
                  /\ U[Len(Append(calls, c))] = b
<1>1. PICK n \in Nat : n = Len(calls)
    BY LenProperties
<1>2. PICK m \in Nat : m = n + 1 /\ n = m - 1
    OBVIOUS
<1>3. PICK more : more = Append(calls, c)
    OBVIOUS
<1>4. /\ Len(more) = m /\ more \in Seq(Calls) /\ more[m] = c
      /\ \A i \in 1..n : more[i] = calls[i]
    BY <1>1, <1>2, <1>3, AppendProperties
<1>5. PICK full : full = bytes \o e
    OBVIOUS
<1>6. /\ full \in Seq(Int) /\ Len(full) = Len(bytes) + Len(e)
      /\ Len(bytes) \in Nat /\ Len(e) \in Nat
      /\ \A i \in 1..(Len(bytes) + Len(e)) :
            full[i] = IF i <= Len(bytes) THEN bytes[i] ELSE e[i - Len(bytes)]
    BY <1>5, ConcatProperties, LenProperties
<1>7. PICK U : U = [k \in 0..m |-> IF k = m THEN b ELSE T[k]]
    OBVIOUS
<1>8. /\ T \in [0..n -> States] /\ T[0] = Fresh /\ T[n].pos = Len(bytes)
      /\ \A k \in 0..n : T[k].pos <= Len(bytes)
      /\ \A k \in 0..(n - 1) : Link(T[k], calls[k + 1], T[k + 1], bytes)
    BY <1>1 DEF Trace
<1>9. /\ U \in [0..m -> States] /\ U[0] = Fresh /\ U[m] = b /\ U[n] = T[n]
      /\ \A k \in 0..n : U[k] = T[k]
    <2>1. \A k \in 0..n : k \in 0..m /\ k # m
        BY <1>2
    <2>2. \A k \in 0..m : k = m \/ k \in 0..n
        BY <1>2
    <2>3. 0 \in 0..n /\ n \in 0..n /\ m \in 0..m
        OBVIOUS
    <2> QED
        BY <1>7, <1>8, <2>1, <2>2, <2>3
<1>10. \A k \in 0..m : U[k].pos <= Len(full)
    <2>1. TAKE k \in 0..m
    <2>2. CASE k \in 0..n
        <3>1. T[k].pos \in Nat /\ T[k].pos <= Len(bytes)
            BY <1>8, <2>2 DEF States
        <3> QED
            BY <1>6, <1>9, <2>2, <3>1
    <2>3. CASE k = m
        BY <1>5, <1>6, <1>9, <2>3
    <2> QED
        BY <1>2, <2>2, <2>3
<1>11. Link(T[n], c, b, full)
    <2>1. T[n].pos = Len(bytes) /\ b.pos = T[n].pos + Len(e)
        BY <1>5, <1>6, <1>8
    <2>2. \A i \in 1..Len(e) : full[T[n].pos + i] = e[i]
        <3>1. TAKE i \in 1..Len(e)
        <3>2. PICK j \in 1..(Len(bytes) + Len(e)) :
                 j = Len(bytes) + i /\ ~(j <= Len(bytes)) /\ j - Len(bytes) = i
            <4>1. Len(bytes) \in Nat /\ Len(e) \in Nat
                BY <1>6
            <4>2. /\ Len(bytes) + i \in 1..(Len(bytes) + Len(e))
                  /\ ~(Len(bytes) + i <= Len(bytes)) /\ Len(bytes) + i - Len(bytes) = i
                BY <4>1
            <4> QED
                BY <4>2
        <3>3. full[j] = e[j - Len(bytes)]
            BY <1>6, <3>2
        <3> QED
            BY <2>1, <3>2, <3>3
    <2>3. Step(T[n], c, b, e)
        BY <1>1
    <2> QED
        BY <2>1, <2>2, <2>3 DEF Link
<1>12. ASSUME NEW k \in 0..(m - 1) PROVE Link(U[k], more[k + 1], U[k + 1], full)
    <2>1. CASE k = n
        <3>1. k + 1 = m /\ U[k] = T[n]
            BY <1>2, <1>9, <2>1
        <3> QED
            BY <1>4, <1>9, <1>11, <3>1
    <2>2. CASE k # n
        <3>1. PICK j \in 1..n : j = k + 1 /\ k \in 0..(n - 1) /\ k \in 0..n /\ j \in 0..n
            BY <1>2, <2>2
        <3>2. T[k] \in States /\ T[j] \in States /\ T[j].pos <= Len(bytes)
            BY <1>8, <3>1
        <3>3. Link(T[k], calls[j], T[j], bytes)
            BY <1>8, <3>1
        <3>4. Link(T[k], calls[j], T[j], full)
            BY <1>5, <3>2, <3>3, LinkStays
        <3>5. U[k] = T[k] /\ U[j] = T[j] /\ more[j] = calls[j]
            BY <1>4, <1>9, <3>1
        <3> QED
            BY <3>1, <3>4, <3>5
    <2> QED
        BY <2>1, <2>2
<1>13. Trace(U, more, full)
    BY <1>4, <1>5, <1>9, <1>10, <1>12 DEF Trace
<1> QED
    BY <1>3, <1>4, <1>5, <1>9, <1>13

\* Every encoding agrees with no bytes: a cut at the start tells nothing.
LEMMA NothingAgrees == <<>> \in Seq(Int) /\ \A e : Agrees(<<>>, e)
BY EmptySeq DEF Agrees

\* Zero, the sequence number, and one, the length of a name, fit.
LEMMA SmallIsShort == Short(0) /\ Short(1)
<1>1. ASSUME NEW n \in 0..127 PROVE Short(n)
    <2>1. n \in Nat /\ n < 128
        OBVIOUS
    <2>2. Varint[n] = <<n>>
        BY <2>1, VarintDef
    <2>3. Len(<<n>>) = 1
        OBVIOUS
    <2> QED
        BY <2>2, <2>3 DEF Short
<1> QED
    BY <1>1

\* The name of the one message is short enough to be carried.
LEMMA OneName ==
    /\ <<101>> \in Seq(Int) /\ Short(Len(<<101>>))
    /\ MessageType["ONEWAY"] = 4 /\ 4 \in 1..4 /\ 0 \in Nat /\ Short(0)
<1>1. Len(<<101>>) = 1 /\ <<101>> \in Seq(Int)
    OBVIOUS
<1>2. MessageType["ONEWAY"] = 4
    BY DEF MessageType
<1> QED
    BY <1>1, <1>2, SmallIsShort

\* The header of the message is a sequence of bytes.
LEMMA MessageBytes == MessageHeader(<<101>>, "ONEWAY", 0) \in Seq(Int)
<1>1. MessageType["ONEWAY"] \in 1..4
    BY OneName
<1> QED
    BY <1>1, OneName, NothingAgrees, MessageReadBack

\* So is the header of a field.
LEMMA FieldBytes ==
    ASSUME NEW id, ById(id), NEW last \in Int
    PROVE  /\ \A t \in Types : FieldHeader(CType[t], id, last) \in Seq(Int)
           /\ \A v : FieldHeader(BoolCode(v), id, last) \in Seq(Int)
<1>1. ASSUME NEW c \in 1..12, NEW t, OnlyType(c, t)
      PROVE  FieldHeader(c, id, last) \in Seq(Int)
    BY <1>1, NothingAgrees, HeaderFound DEF ById
<1> QED
    BY <1>1, TypeCodes

\* So is the encoding of a carried value.
LEMMA ScalarBytes ==
    ASSUME NEW type \in Scalar, NEW v, Carried(type, v)
    PROVE  Encoded(type, v) \in Seq(Int) /\ v \in Seq(Int)
<1>1. Encoded(type, v) \in Seq(Int)
    BY NothingAgrees, ScalarFound
<1>2. v \in Seq(Int)
    <2>1. CASE type \in Integer
        <3>1. PICK n \in Int : v = <<n>>
            BY <2>1 DEF Carried, Integer
        <3> QED
            BY <3>1
    <2>2. CASE type = "BOOL"
        <3>1. v \in {<<0>>, <<1>>}
            BY <2>2 DEF Carried, Integer
        <3>2. <<0>> \in Seq(Int) /\ <<1>> \in Seq(Int)
            OBVIOUS
        <3> QED
            BY <3>1, <3>2
    <2>3. CASE type = "BYTE"
        <3>1. PICK n \in -128..127 : v = <<n>>
            BY <2>3 DEF Carried, Integer
        <3> QED
            BY <3>1
    <2>4. CASE type \in {"STRING", "DOUBLE"}
        BY <2>4 DEF Carried, Integer
    <2> QED
        BY <2>1, <2>2, <2>3, <2>4 DEF Scalar, Types, Integer, Collection
<1> QED
    BY <1>1, <1>2

\* So is the varint of a size.
LEMMA SizeBytes ==
    ASSUME NEW size \in Nat, Short(size)
    PROVE  /\ \A type \in Types : CollectionHeader(type, size) \in Seq(Int)
           /\ \A key, val \in Types : MapHeader(key, val, size) \in Seq(Int)
BY NothingAgrees, CollectionReadBack, MapReadBack

-----------------------------------------------------------------------------
(* What was told is a trace. *)

Now == [open |-> open, stack |-> lastField, id |-> lastFieldId, bool |-> booleanField,
        pos |-> Len(wire)]

\* The fields of the protocol object that writes have their types.
LEMMA NowType ==
    ASSUME WriterInv, wire \in Seq(Int)
    PROVE  Now \in States
<1>1. Ids \subseteq Int
    <2>1. FieldIds \subseteq Int
        BY StreamAssumption, Zenon DEF StreamAssumption
    <2> QED
        BY <2>1 DEF Ids
<1>2. lastField \in Seq(Int) /\ lastFieldId \in Int /\ booleanField \subseteq Int
    BY <1>1, SeqMonotonic DEF WriterInv
<1>3. Len(wire) \in Nat
    BY LenProperties
<1> QED
    BY <1>2, <1>3 DEF WriterInv, Now, States

\* The call that a step of the client makes.
Told ==
    \E c \in Calls, e \in Seq(Int) :
       told' = Append(told, c) /\ wire' = wire \o e /\ Step(Now, c, Now', e)

\* Now holds the fields of the protocol object one by one.
LEMMA NowParts ==
    /\ Now.open = open /\ Now.stack = lastField /\ Now.id = lastFieldId /\ Now.bool = booleanField
    /\ Now'.open = open' /\ Now'.stack = lastField' /\ Now'.id = lastFieldId'
    /\ Now'.bool = booleanField'
BY DEF Now

\* The codes of the types are integers.
LEMMA CodesAreInts == \A t \in Types : CType[t] \in Int
BY TypeCodes

\* The field ids of the client fit a varint of ten bytes.
LEMMA AllById == \A i \in Ids : ById(i)
<1>1. FieldIds \subseteq Int /\ \A i \in FieldIds : Short(ZigZag(i))
    BY StreamAssumption, Zenon DEF StreamAssumption
<1>2. ZigZag(0) = 0
    BY DEF ZigZag
<1> QED
    BY <1>1, <1>2, SmallIsShort DEF Ids, ById

\* One field waits at most.
OneWaits == \A i, j \in booleanField : i = j

\* Every write call is a Step from the state before it to the one after it, and appends
\* the bytes of that step: a boolean field waits for its value and nothing else does.
LEMMA WritingTells == ASSUME WriterInv, OneWaits, wire \in Seq(Int), Writing PROVE Told /\ OneWaits'
<1> USE NowParts
<1>0. <<>> \in Seq(Int) /\ wire \o <<>> = wire
    BY EmptySeq, ConcatEmptySeq
<1>1. ASSUME TellMessage PROVE Told
    <2>1. /\ Waits(open, "message") /\ open' = Instead(open, "STRUCT")
          /\ UNCHANGED <<lastField, lastFieldId, booleanField>>
          /\ wire' = wire \o MessageHeader(<<101>>, "ONEWAY", 0)
          /\ told' = Append(told, Call("message", <<MessageType.ONEWAY, 0, 101>>))
        BY <1>1 DEF TellMessage, WriteMessageBegin, Put, Tell
    <2>2. booleanField = {} /\ open # <<>> /\ Top(open) = "message"
        BY <2>1, WriterTop DEF Waits
    <2>3. Step(Now, Call("message", <<MessageType.ONEWAY, 0, 101>>), Now',
               MessageHeader(<<101>>, "ONEWAY", 0))
        BY <2>1, <2>2 DEF Step, MessageStep, Same
    <2>4. Call("message", <<MessageType.ONEWAY, 0, 101>>) \in Calls
        <3>1. <<MessageType.ONEWAY, 0, 101>> \in Seq(Int)
            BY DEF MessageType
        <3> QED
            BY <3>1 DEF Calls, Call, Types
    <2> QED
        BY <2>1, <2>3, <2>4, MessageBytes DEF Told
<1>2. ASSUME TellStruct PROVE Told
    <2>1. /\ Waits(open, "STRUCT") /\ open' = Instead(open, "fields")
          /\ lastField' = Append(lastField, lastFieldId) /\ lastFieldId' = 0
          /\ UNCHANGED <<wire, booleanField>>
          /\ told' = Append(told, Call("STRUCT", <<>>))
        BY <1>2 DEF TellStruct, WriteStructBegin, Tell
    <2>2. booleanField = {} /\ open # <<>> /\ Top(open) = "STRUCT"
        BY <2>1, WriterTop DEF Waits
    <2>3. Step(Now, Call("STRUCT", <<>>), Now', <<>>)
        BY <2>1, <2>2 DEF Step, StructStep
    <2>4. Call("STRUCT", <<>>) \in Calls
        BY <1>0 DEF Calls, Call, Types
    <2> QED
        BY <1>0, <2>1, <2>3, <2>4 DEF Told
<1>3. ASSUME NEW type \in FieldTypes, NEW id \in FieldIds, TellField(type, id) PROVE Told
    <2>1. type \in Types /\ id \in Int /\ ById(id)
        <3>1. FieldTypes \subseteq Types
            BY StreamAssumption, Zenon DEF StreamAssumption
        <3> QED
            BY <3>1, AllById DEF ById, Ids
    <2>2. /\ Waits(open, "fields") /\ open' = Append(open, type)
          /\ told' = Append(told, Call("field", <<CType[type], id>>))
          /\ WriteFieldBegin(type, id)
        BY <1>3 DEF TellField, Tell
    <2>3. booleanField = {} /\ open # <<>> /\ Top(open) = "fields"
        BY <2>2, WriterTop DEF Waits
    <2>4. Call("field", <<CType[type], id>>) \in Calls
        <3>1. <<CType[type], id>> \in Seq(Int)
            BY <2>1, CodesAreInts
        <3> QED
            BY <3>1 DEF Calls, Call, Types
    <2>5. CASE type = "BOOL"
        <3>1. UNCHANGED <<wire, lastField, lastFieldId>> /\ booleanField' = {id}
            BY <2>2, <2>5 DEF WriteFieldBegin
        <3>2. BoolFieldStep(Now, Call("field", <<CType[type], id>>), Now', <<>>)
            BY <2>1, <2>2, <2>3, <2>5, <3>1 DEF BoolFieldStep, Same
        <3>3. Step(Now, Call("field", <<CType[type], id>>), Now', <<>>)
            BY <2>3, <3>2 DEF Step
        <3> QED
            BY <1>0, <2>2, <2>4, <3>1, <3>3 DEF Told
    <2>6. CASE type # "BOOL"
        <3> DEFINE e == FieldHeader(CType[type], id, lastFieldId)
        <3>1. /\ wire' = wire \o e /\ lastFieldId' = id /\ lastField' = lastField
              /\ booleanField' = {}
            BY <2>2, <2>3, <2>6 DEF WriteFieldBegin, PutField
        <3>2. e \in Seq(Int)
            <4>1. lastFieldId \in Int
                BY NowType DEF States
            <4> QED
                BY <2>1, <4>1, FieldBytes
        <3>3. FieldStep(Now, Call("field", <<CType[type], id>>), Now', e)
            BY <2>1, <2>2, <2>3, <2>6, <3>1 DEF FieldStep
        <3> HIDE DEF e
        <3>4. Step(Now, Call("field", <<CType[type], id>>), Now', e)
            BY <2>3, <3>3 DEF Step
        <3> QED
            BY <2>2, <2>4, <3>1, <3>2, <3>4 DEF Told
    <2> QED
        BY <2>5, <2>6
<1>4. ASSUME TellStop PROVE Told
    <2>1. /\ Waits(open, "fields") /\ open' = Instead(open, "end")
          /\ UNCHANGED <<lastField, lastFieldId, booleanField>>
          /\ wire' = wire \o <<0>> /\ told' = Append(told, Call("stop", <<>>))
        BY <1>4 DEF TellStop, WriteFieldStop, Put, Tell
    <2>2. booleanField = {} /\ open # <<>> /\ Top(open) = "fields"
        BY <2>1, WriterTop DEF Waits
    <2>3. Step(Now, Call("stop", <<>>), Now', <<0>>)
        BY <2>1, <2>2 DEF Step, StopStep, Same
    <2>4. Call("stop", <<>>) \in Calls /\ <<0>> \in Seq(Int)
        BY <1>0 DEF Calls, Call, Types
    <2> QED
        BY <2>1, <2>3, <2>4 DEF Told
<1>5. ASSUME TellStructEnd PROVE Told
    <2>1. /\ Waits(open, "end") /\ open' = Done(open)
          /\ lastFieldId' = lastField[Len(lastField)]
          /\ lastField' = SubSeq(lastField, 1, Len(lastField) - 1)
          /\ UNCHANGED <<wire, booleanField>> /\ told' = Append(told, Call("end", <<>>))
        BY <1>5 DEF TellStructEnd, WriteStructEnd, Tell
    <2>2. booleanField = {} /\ open # <<>> /\ Top(open) = "end"
        BY <2>1, WriterTop DEF Waits
    <2>3. Step(Now, Call("end", <<>>), Now', <<>>)
        BY <2>1, <2>2 DEF Step, EndStep
    <2>4. Call("end", <<>>) \in Calls
        BY <1>0 DEF Calls, Call, Types
    <2> QED
        BY <1>0, <2>1, <2>3, <2>4 DEF Told
<1>6. ASSUME NEW type \in Scalar, NEW v \in ValuesOf[type], TellScalar(type, v) PROVE Told
    <2>1. Carried(type, v)
        BY StreamAssumption, Zenon DEF StreamAssumption
    <2>2. /\ Waits(open, type) /\ open' = Done(open)
          /\ WriteScalar(type, v) /\ told' = Append(told, Call(type, v))
        BY <1>6 DEF TellScalar, Tell
    <2>3. open # <<>> /\ Top(open) = type
        BY <2>2 DEF Waits
    <2>4. Encoded(type, v) \in Seq(Int) /\ v \in Seq(Int)
        BY <2>1, ScalarBytes
    <2>5. Call(type, v) \in Calls
        BY <2>4 DEF Calls, Call, Scalar
    <2>6. CASE type # "BOOL" \/ booleanField = {}
        <3>1. /\ wire' = wire \o Encoded(type, v)
              /\ UNCHANGED <<lastField, lastFieldId, booleanField>> /\ booleanField = {}
            BY <2>2, <2>3, <2>6, WriterTop DEF WriteScalar, WriteBool, Put
        <3>2. ScalarStep(Now, Call(type, v), Now', Encoded(type, v))
            BY <2>1, <2>2, <2>3, <2>4, <3>1 DEF ScalarStep, Same
        <3>3. Step(Now, Call(type, v), Now', Encoded(type, v))
            BY <2>3, <3>1, <3>2 DEF Step
        <3> QED
            BY <2>2, <2>4, <2>5, <3>1, <3>3 DEF Told
    <2>7. CASE type = "BOOL" /\ booleanField # {}
        <3>1. PICK id \in booleanField : PutField(BoolCode(v), id) /\ booleanField' = {}
            BY <2>2, <2>7 DEF WriteScalar, WriteBool
        <3> DEFINE e == FieldHeader(BoolCode(v), id, lastFieldId)
        <3>2. wire' = wire \o e /\ lastFieldId' = id /\ lastField' = lastField
            BY <3>1 DEF PutField
        <3>3. booleanField = {id} /\ ById(id) /\ lastFieldId \in Int
            <4>1. \A i \in Ids : ById(i)
                BY AllById
            <4> QED
                BY <3>1, <4>1, NowType DEF WriterInv, OneWaits, States
        <3>4. v \in {<<0>>, <<1>>}
            BY <2>1, <2>7 DEF Carried, Integer
        <3>5. e \in Seq(Int)
            BY <3>3, FieldBytes
        <3>6. BoolStep(Now, Call("BOOL", v), Now', e)
            BY <2>2, <2>3, <2>7, <3>1, <3>2, <3>3, <3>4 DEF BoolStep, ById
        <3> HIDE DEF e
        <3>7. Step(Now, Call(type, v), Now', e)
            BY <2>3, <2>7, <3>6 DEF Step
        <3> QED
            BY <2>2, <2>5, <3>2, <3>5, <3>7 DEF Told
    <2> QED
        BY <2>6, <2>7
<1>7. ASSUME NEW kind \in Collection, NEW c \in Collections, TellCollection(kind, c[1], c[2])
      PROVE  Told
    <2>1. PICK type \in Types, size \in Nat : type = c[1] /\ size = c[2] /\ Short(size)
        <3>1. Collections \subseteq Types \X Nat /\ \A d \in Collections : Short(d[2])
            BY StreamAssumption, Zenon DEF StreamAssumption
        <3> QED
            BY <3>1
    <2>2. /\ Waits(open, kind) /\ open' = Done(open) \o Copies(<<type>>, size)
          /\ UNCHANGED <<lastField, lastFieldId, booleanField>>
          /\ wire' = wire \o CollectionHeader(type, size)
          /\ told' = Append(told, Call(kind, <<CType[type], size>>))
        BY <1>7, <2>1 DEF TellCollection, WriteCollectionBegin, Put, Tell
    <2>3. booleanField = {} /\ open # <<>> /\ Top(open) = kind
        BY <2>2, WriterTop DEF Waits, Collection
    <2> DEFINE e == CollectionHeader(type, size)
    <2>4. CollectionStep(Now, Call(kind, <<CType[type], size>>), Now', e)
        BY <2>1, <2>2, <2>3 DEF CollectionStep, Same
    <2>5. e \in Seq(Int)
        BY <2>1, SizeBytes
    <2>6. Call(kind, <<CType[type], size>>) \in Calls
        <3>1. <<CType[type], size>> \in Seq(Int)
            BY CodesAreInts
        <3> QED
            BY <3>1 DEF Calls, Call, Collection, Types
    <2>7. wire' = wire \o e /\ told' = Append(told, Call(kind, <<CType[type], size>>))
        BY <2>2
    <2> HIDE DEF e
    <2>8. Step(Now, Call(kind, <<CType[type], size>>), Now', e)
        BY <2>3, <2>4 DEF Step
    <2> QED
        BY <2>5, <2>6, <2>7, <2>8 DEF Told
<1>8. ASSUME NEW m \in Maps, TellMap(m[1], m[2], m[3]) PROVE Told
    <2>1. PICK key \in Types, val \in Types, size \in Nat :
             key = m[1] /\ val = m[2] /\ size = m[3] /\ Short(size)
        <3>1. Maps \subseteq Types \X Types \X Nat /\ \A d \in Maps : Short(d[3])
            BY StreamAssumption, Zenon DEF StreamAssumption
        <3> QED
            BY <3>1
    <2> DEFINE e == MapHeader(key, val, size)
               data == IF size = 0 THEN <<0>> ELSE <<CType[key], CType[val], size>>
    <2>2. /\ Waits(open, "MAP") /\ open' = Done(open) \o Copies(<<val, key>>, size)
          /\ UNCHANGED <<lastField, lastFieldId, booleanField>>
          /\ wire' = wire \o e /\ told' = Append(told, Call("MAP", data))
        BY <1>8, <2>1 DEF TellMap, WriteMapBegin, Put, Tell
    <2>3. booleanField = {} /\ open # <<>> /\ Top(open) = "MAP"
        BY <2>2, WriterTop DEF Waits
    <2>4. MapStep(Now, Call("MAP", data), Now', e)
        BY <2>1, <2>2, <2>3 DEF MapStep, Same
    <2>5. e \in Seq(Int)
        BY <2>1, SizeBytes
    <2>6. Call("MAP", data) \in Calls
        <3>1. <<0>> \in Seq(Int) /\ <<CType[key], CType[val], size>> \in Seq(Int)
            BY CodesAreInts
        <3> QED
            BY <3>1 DEF Calls, Call, Types
    <2> HIDE DEF e, data
    <2>7. Step(Now, Call("MAP", data), Now', e)
        BY <2>3, <2>4 DEF Step
    <2> QED
        BY <2>2, <2>5, <2>6, <2>7 DEF Told
<1>9. OneWaits'
    BY DEF OneWaits, Writing, TellMessage, TellStruct, TellField, TellStop, TellStructEnd,
           TellScalar, TellCollection, TellMap, WriteMessageBegin, WriteStructBegin,
           WriteFieldBegin, WriteFieldStop, WriteStructEnd, WriteScalar, WriteBool,
           WriteCollectionBegin, WriteMapBegin, Put, PutField
<1> QED
    BY <1>1, <1>2, <1>3, <1>4, <1>5, <1>6, <1>7, <1>8, <1>9 DEF Writing

-----------------------------------------------------------------------------
(* The reader follows the trace. *)

\* The bytes r that are left of the first n of a datagram begin with e, as far as they go.
Reads(r, e, b, full, n) ==
    /\ Agrees(r, e)
    /\ Len(e) <= Len(r) <=> b.pos <= n
    /\ Len(e) <= Len(r) => After(r, Len(e)) = After(SubSeq(full, 1, n), b.pos)

\* While the reader stands before a call that was told, the bytes that are left begin with
\* those of that call, as far as they arrived.
LEMMA Ahead ==
    ASSUME NEW full \in Seq(Int), NEW n \in 0..Len(full), NEW a \in States, NEW b \in States,
           NEW c, Link(a, c, b, full), a.pos <= n, b.pos <= Len(full),
           NEW r, r = After(SubSeq(full, 1, n), a.pos)
    PROVE  /\ r \in Seq(Int)
           /\ \E e \in Seq(Int) : /\ Step(a, c, b, e) /\ Reads(r, e, b, full, n)
                                  /\ e = <<>> => b.pos = a.pos
<1>1. PICK e \in Seq(Int) : /\ Step(a, c, b, e) /\ b.pos = a.pos + Len(e)
                            /\ \A i \in 1..Len(e) : full[a.pos + i] = e[i]
    BY DEF Link
<1>2. PICK p \in Nat, q \in Nat : p = a.pos /\ q = b.pos
    BY DEF States
<1>3. PICK f : f = SubSeq(full, 1, n)
    OBVIOUS
<1>4. Len(full) \in Nat /\ Len(e) \in Nat /\ n \in Nat /\ n <= Len(full)
    BY LenProperties
<1>5. f \in Seq(Int) /\ Len(f) = n /\ \A i \in 1..n : f[i] = full[i]
    BY <1>3, <1>4, FirstIs
<1>6. p <= n /\ q = p + Len(e) /\ q <= Len(full)
    BY <1>1, <1>2
<1>7. r \in Seq(Int) /\ Len(r) = n - p /\ \A i \in 1..(n - p) : r[i] = f[p + i]
    <2>1. p <= Len(f)
        BY <1>5, <1>6
    <2>2. /\ After(f, p) \in Seq(Int) /\ Len(After(f, p)) = Len(f) - p
          /\ \A i \in 1..(Len(f) - p) : After(f, p)[i] = f[p + i]
        BY <1>5, <2>1, AfterIs
    <2>3. r = After(f, p)
        BY <1>2, <1>3
    <2> QED
        BY <1>5, <2>2, <2>3
<1>8. Agrees(r, e)
    <2>1. ASSUME NEW i \in 1..Len(e), i <= Len(r) PROVE r[i] = e[i]
        <3>1. PICK j \in 1..n : j = p + i
            <4>1. p + i \in 1..n
                BY <1>4, <1>6, <1>7, <2>1
            <4> QED
                BY <4>1
        <3>2. i \in 1..(n - p)
            BY <1>4, <1>7, <2>1
        <3>3. r[i] = f[j] /\ f[j] = full[j] /\ full[j] = e[i]
            BY <1>1, <1>2, <1>5, <1>7, <3>1, <3>2
        <3> QED
            BY <3>3
    <2> QED
        BY <2>1 DEF Agrees
<1>9. Len(e) <= Len(r) <=> q <= n
    BY <1>4, <1>6, <1>7
<1>10. Len(e) <= Len(r) => After(r, Len(e)) = After(f, q)
    <2>1. ASSUME Len(e) <= Len(r) PROVE p + Len(e) <= Len(f)
        BY <1>4, <1>5, <1>6, <1>7, <2>1
    <2>2. PICK l \in Nat : l = Len(e)
        BY <1>4
    <2>3. ASSUME l <= Len(r) PROVE After(After(f, p), l) = After(f, p + l)
        BY <1>5, <2>1, <2>2, <2>3, AfterAfter
    <2>4. r = After(f, p) /\ q = p + l
        BY <1>2, <1>3, <1>6, <2>2
    <2> QED
        BY <2>2, <2>3, <2>4
<1>11. e = <<>> => q = p
    BY <1>6, EmptySeq
<1> QED
    BY <1>1, <1>2, <1>3, <1>7, <1>8, <1>9, <1>10, <1>11 DEF Reads

\* The reader is where the writer was after a.
At(a, full, n) ==
    a.pos <= n /\ rLastFieldId = a.id /\ rest = After(SubSeq(full, 1, n), a.pos)

Followed(full, T, n) ==
    /\ full \in Seq(Int) /\ n \in 0..Len(full)
    /\ Trace(T, told, full) /\ T[Len(told)].open = <<>> /\ T[Len(told)].bool = {}
    /\ cut = (n < Len(full))
    /\ told \in Seq(Calls) /\ heard \in Seq(Calls) /\ Len(heard) <= Len(told)
    /\ \A i \in 1..Len(heard) : heard[i] = told[i]
    /\ expect = T[Len(heard)].open /\ rLastField = T[Len(heard)].stack
    /\ T[Len(heard)].bool = {} => At(T[Len(heard)], full, n) /\ boolValue = {}
    /\ T[Len(heard)].bool # {} =>
          /\ Len(heard) < Len(told)
          /\ At(T[Len(heard) + 1], full, n) /\ boolValue = {told[Len(heard) + 1].data}
    /\ phase = "heard" => expect = <<>>
    /\ phase = "thrown" => cut \/ TooDeep

\* The next call of the client: from a to b by c.
Coming(full, T, n, a, b, c) ==
    /\ a \in States /\ b \in States /\ c \in Calls
    /\ Len(heard) < Len(told)
    /\ a = T[Len(heard)] /\ b = T[Len(heard) + 1] /\ c = told[Len(heard) + 1]
    /\ a.open = expect /\ a.stack = rLastField
    /\ Link(a, c, b, full) /\ b.pos <= Len(full)

\* A reader that has not heard every call stands before one.
LEMMA SomethingComes ==
    ASSUME NEW full, NEW T, NEW n, Followed(full, T, n), expect # <<>>
    PROVE  \E a, b, c : Coming(full, T, n, a, b, c)
<1>1. PICK k \in Nat, m \in Nat : k = Len(heard) /\ m = Len(told) /\ k <= m
    BY LenProperties DEF Followed
<1>2. k # m
    BY <1>1 DEF Followed
<1>3. PICK j \in 1..m : j = k + 1 /\ k \in 0..m /\ k \in 0..(m - 1) /\ j \in 0..m /\ k < m
    <2>1. k + 1 \in 1..m /\ k \in 0..m /\ k \in 0..(m - 1) /\ k + 1 \in 0..m /\ k < m
        BY <1>1, <1>2
    <2> QED
        BY <2>1
<1>4. T[k] \in States /\ T[j] \in States /\ T[j].pos <= Len(full) /\ Link(T[k], told[j], T[j], full)
    BY <1>1, <1>3 DEF Followed, Trace
<1>5. told[j] \in Calls
    BY <1>1, ElementOfSeq DEF Followed
<1>6. T[k].open = expect /\ T[k].stack = rLastField
    BY <1>1 DEF Followed
<1>7. Coming(full, T, n, T[k], T[j], told[j])
    BY <1>1, <1>3, <1>4, <1>5, <1>6 DEF Coming
<1> QED
    BY <1>7

\* What the reader finds, unless it has read a boolean ahead.
LEMMA NextBytes ==
    ASSUME NEW full, NEW T, NEW n, Followed(full, T, n),
           NEW a, NEW b, NEW c, Coming(full, T, n, a, b, c), a.bool = {}
    PROVE  /\ rest \in Seq(Int) /\ rLastFieldId = a.id /\ boolValue = {}
           /\ \E e \in Seq(Int) : /\ Step(a, c, b, e) /\ Reads(rest, e, b, full, n)
                                  /\ e = <<>> => b.pos = a.pos
<1>1. full \in Seq(Int) /\ n \in 0..Len(full) /\ At(a, full, n) /\ boolValue = {}
    BY DEF Followed, Coming
<1> QED
    BY <1>1, Ahead DEF At, Coming

\* The reader hears the next call.
LEMMA Hears ==
    ASSUME NEW full, NEW T, NEW n, Followed(full, T, n),
           NEW a, NEW b, NEW c, Coming(full, T, n, a, b, c),
           Hear(c, b.open), rLastField' = b.stack,
           b.bool = {} => At(b, full, n)' /\ boolValue' = {},
           NEW d, NEW g,
           b.bool # {} => /\ Len(heard) + 1 < Len(told)
                          /\ d = T[Len(heard) + 2] /\ g = told[Len(heard) + 2]
                          /\ At(d, full, n)' /\ boolValue' = {g.data}
    PROVE  Followed(full, T, n)'
<1>1. PICK k \in Nat : k = Len(heard)
    BY LenProperties DEF Followed
<1>2. PICK j \in Nat : j = k + 1 /\ j + 1 = k + 2
    OBVIOUS
<1>3. PICK more : more = Append(heard, c)
    OBVIOUS
<1>4. heard' = more /\ more \in Seq(Calls) /\ Len(more) = j /\ more[j] = c
      /\ \A i \in 1..k : more[i] = heard[i]
    BY <1>1, <1>2, <1>3, AppendProperties DEF Followed, Coming, Hear
<1>5. c = told[j] /\ b = T[j] /\ j <= Len(told)
    <2>1. Len(told) \in Nat
        BY LenProperties DEF Followed
    <2> QED
        BY <1>1, <1>2, <2>1 DEF Coming
<1>6. \A i \in 1..j : more[i] = told[i]
    <2>1. \A i \in 1..j : i = j \/ i \in 1..k
        BY <1>2
    <2> QED
        BY <1>1, <1>4, <1>5, <2>1 DEF Followed
<1>7. UNCHANGED <<told, cut, phase>> /\ phase = "reading" /\ expect' = b.open
    BY DEF Hear
<1>8. /\ T[j].bool = {} => At(T[j], full, n)' /\ boolValue' = {}
      /\ T[j].bool # {} => /\ j < Len(told)
                           /\ d = T[j + 1] /\ g = told[j + 1]
                           /\ At(d, full, n)' /\ boolValue' = {g.data}
    <2>1. Len(heard) + 1 = j /\ Len(heard) + 2 = j + 1
        BY <1>1, <1>2
    <2> QED
        BY <1>5, <2>1
<1>9. /\ Len(heard') = j /\ expect' = T[j].open /\ rLastField' = T[j].stack
      /\ told' = told /\ cut' = cut /\ phase' = "reading"
    BY <1>4, <1>5, <1>7
<1>10. (T[j].bool # {} => At(T[j + 1], full, n))' /\ (T[j].bool = {} => At(T[j], full, n))'
    BY <1>8 DEF At
<1> QED
    BY <1>4, <1>5, <1>6, <1>8, <1>9, <1>10 DEF Followed

\* The call that comes is the one the reader expects: what is pending tells its kind.
LEMMA Kinds ==
    ASSUME NEW a, NEW b, NEW c, NEW e, Step(a, c, b, e)
    PROVE  /\ a.bool # {} => BoolStep(a, c, b, e)
           /\ Top(a.open) # "BOOL" => a.bool = {}
           /\ Top(a.open) = "message" => MessageStep(a, c, b, e)
           /\ Top(a.open) = "STRUCT" => StructStep(a, c, b, e)
           /\ Top(a.open) = "fields" =>
                 FieldStep(a, c, b, e) \/ BoolFieldStep(a, c, b, e) \/ StopStep(a, c, b, e)
           /\ Top(a.open) = "end" => EndStep(a, c, b, e)
           /\ Top(a.open) \in Scalar /\ a.bool = {} => ScalarStep(a, c, b, e)
           /\ Top(a.open) \in Collection => CollectionStep(a, c, b, e)
           /\ Top(a.open) = "MAP" => MapStep(a, c, b, e)
<1> DEFINE t == Top(a.open)
<1>1. /\ MessageStep(a, c, b, e) => t = "message"
      /\ StructStep(a, c, b, e) => t = "STRUCT"
      /\ FieldStep(a, c, b, e) => t = "fields"
      /\ BoolFieldStep(a, c, b, e) => t = "fields"
      /\ StopStep(a, c, b, e) => t = "fields"
      /\ EndStep(a, c, b, e) => t = "end"
      /\ ScalarStep(a, c, b, e) => t \in Scalar
      /\ BoolStep(a, c, b, e) => t = "BOOL" /\ a.bool # {}
      /\ CollectionStep(a, c, b, e) => t \in Collection
      /\ MapStep(a, c, b, e) => t = "MAP"
    BY DEF MessageStep, StructStep, FieldStep, BoolFieldStep, StopStep, EndStep, ScalarStep,
           BoolStep, CollectionStep, MapStep
<1> HIDE DEF t
<1>2. /\ t \in Scalar => t \notin {"message", "STRUCT", "fields", "end", "LIST", "SET", "MAP"}
      /\ t \in Collection => t \in {"LIST", "SET"}
    BY DEF Scalar, Types, Collection
<1>3. \/ BoolStep(a, c, b, e)
      \/ /\ a.bool = {}
         /\ \/ MessageStep(a, c, b, e) \/ StructStep(a, c, b, e)
            \/ FieldStep(a, c, b, e) \/ BoolFieldStep(a, c, b, e)
            \/ StopStep(a, c, b, e) \/ EndStep(a, c, b, e) \/ ScalarStep(a, c, b, e)
            \/ CollectionStep(a, c, b, e) \/ MapStep(a, c, b, e)
    BY DEF Step
<1> QED
    BY <1>1, <1>2, <1>3 DEF t

\* The bytes of a call are there, or there are none.
LEMMA Moves ==
    ASSUME NEW full, NEW n, NEW b, NEW e, Reads(rest, e, b, full, n),
           Len(e) <= Len(rest), rest' = After(rest, Len(e)), rLastFieldId' = b.id
    PROVE  At(b, full, n)'
<1>1. b.pos <= n /\ rest' = After(SubSeq(full, 1, n), b.pos)
    BY DEF Reads
<1> QED
    BY <1>1 DEF At

\* With nothing waiting, the reader stands where the next state of the trace does as soon as
\* the bytes left and the last field id are those of that state.
LEMMA Stays ==
    ASSUME NEW full, NEW T, NEW n, Followed(full, T, n),
           NEW a, NEW b, NEW c, Coming(full, T, n, a, b, c), a.bool = {},
           b.pos = a.pos, rest' = rest, rLastFieldId' = b.id
    PROVE  At(b, full, n)'
<1>1. At(a, full, n)
    BY DEF Followed, Coming
<1> QED
    BY <1>1 DEF At

\* A pair and one more are three.
LEMMA PairAndOne == \A v, w, x : <<v, w>> \o <<x>> = <<v, w, x>>
<1> TAKE v, w, x
<1> DEFINE S == {v, w, x}
<1>1. <<v, w>> \in Seq(S) /\ <<x>> \in Seq(S) /\ <<v, w, x>> \in Seq(S)
    OBVIOUS
<1>2. /\ <<v, w>> \o <<x>> \in Seq(S) /\ Len(<<v, w>> \o <<x>>) = 3
      /\ \A i \in 1..3 : (<<v, w>> \o <<x>>)[i] = IF i <= 2 THEN <<v, w>>[i] ELSE <<x>>[i - 2]
    BY <1>1, ConcatProperties
<1>3. \A i \in 1..3 : (<<v, w>> \o <<x>>)[i] = <<v, w, x>>[i]
    BY <1>2
<1> QED
    BY <1>1, <1>2, <1>3, SeqEqual

\* There is one header of the message that comes, the one that was written.
LEMMA OneMessage ==
    ASSUME NEW s \in Seq(Int), NEW e, e = MessageHeader(<< 101 >>, "ONEWAY", 0), Agrees(s, e)
    PROVE  MessageAt(s) = MessageRead(s, e, <<101>>, 4, 0)
<1>1. MessageType["ONEWAY"] \in 1..4
    BY OneName
<1>2. PICK name, type, zero : name = <<101>> /\ type = "ONEWAY" /\ zero = 0
    OBVIOUS
<1>3. /\ name \in Seq(Int) /\ Short(Len(name)) /\ zero \in Nat /\ Short(zero)
      /\ MessageType[type] \in 1..4 /\ Agrees(s, MessageHeader(name, type, zero))
    BY <1>1, <1>2, OneName
<1>4. MessageAt(s) = MessageRead(s, MessageHeader(name, type, zero), name, MessageType[type], zero)
    BY <1>3, MessageReadBack
<1> QED
    BY <1>2, <1>4, OneName

\* readMessageBegin hears the message that was told.
LEMMA HearMessageFollows ==
    ASSUME NEW full, NEW T, NEW n, Followed(full, T, n), HearMessage
    PROVE  Followed(full, T, n)'
<1>1. PICK m \in MessageAt(rest) :
         /\ rest' = m.rest /\ UNCHANGED <<rLastField, rLastFieldId, boolValue>>
         /\ Hear(Call("message", <<m.type, m.seqid>> \o m.name), Instead(expect, "STRUCT"))
    BY DEF HearMessage, ReadMessageBegin, Get
<1>2. expect # <<>> /\ Top(expect) = "message"
    BY DEF HearMessage, Waits
<1>3. PICK a, b, c : Coming(full, T, n, a, b, c)
    BY <1>2, SomethingComes
<1>4. a.open = expect /\ a.stack = rLastField
    BY <1>3 DEF Coming
<1>5. a.bool = {}
    BY <1>2, <1>3, <1>4, Kinds DEF Coming, Link
<1>6. rest \in Seq(Int) /\ rLastFieldId = a.id /\ boolValue = {}
    BY <1>3, <1>5, NextBytes
<1>7. PICK e \in Seq(Int) : Step(a, c, b, e) /\ Reads(rest, e, b, full, n)
    BY <1>3, <1>5, NextBytes
<1>8. MessageStep(a, c, b, e)
    BY <1>2, <1>4, <1>7, Kinds
<1>9. /\ e = MessageHeader(<<101>>, "ONEWAY", 0) /\ b.open = Instead(expect, "STRUCT")
      /\ b.stack = rLastField /\ b.id = rLastFieldId /\ b.bool = {}
      /\ c = Call("message", <<4, 0, 101>>)
    BY <1>4, <1>6, <1>8, OneName DEF MessageStep, Same
<1>10. MessageAt(rest) = MessageRead(rest, e, <<101>>, 4, 0)
    <2>1. Agrees(rest, e)
        BY <1>7 DEF Reads
    <2> QED
        BY <1>6, <1>9, <2>1, OneMessage
<1>11. /\ Len(e) <= Len(rest)
       /\ m = [name |-> <<101>>, seqid |-> 0, type |-> 4, rest |-> After(rest, Len(e))]
    BY <1>10 DEF MessageRead
<1>12. <<m.type, m.seqid>> \o m.name = <<4, 0, 101>>
    BY <1>11, PairAndOne
<1>13. At(b, full, n)' /\ boolValue' = {} /\ rLastField' = b.stack
    <2>1. rest' = After(rest, Len(e)) /\ rLastFieldId' = b.id
        BY <1>1, <1>9, <1>11
    <2> QED
        BY <1>1, <1>6, <1>7, <1>9, <1>11, <2>1, Moves
<1>14. Hear(c, b.open)
    BY <1>1, <1>9, <1>12
<1> QED
    BY <1>3, <1>9, <1>13, <1>14, Hears

\* readStructEnd hears the end of the struct that was told.
LEMMA HearStructFollows ==
    ASSUME NEW full, NEW T, NEW n, Followed(full, T, n), HearStruct \/ HearStructEnd
    PROVE  Followed(full, T, n)'
<1>1. /\ expect # <<>> /\ Top(expect) \in {"STRUCT", "end"}
      /\ UNCHANGED <<rest, boolValue>>
    BY DEF HearStruct, HearStructEnd, Waits, ReadStructBegin, ReadStructEnd
<1>2. PICK a, b, c : Coming(full, T, n, a, b, c)
    BY <1>1, SomethingComes
<1>3. a.open = expect /\ a.stack = rLastField
    BY <1>2 DEF Coming
<1>4. a.bool = {}
    BY <1>1, <1>2, <1>3, Kinds DEF Coming, Link
<1>5. rLastFieldId = a.id /\ boolValue = {}
    BY <1>2, <1>4, NextBytes
<1>6. PICK e \in Seq(Int) : Step(a, c, b, e) /\ (e = <<>> => b.pos = a.pos)
    BY <1>2, <1>4, NextBytes
<1>7. CASE HearStruct
    <2>1. /\ Top(expect) = "STRUCT" /\ Hear(Call("STRUCT", <<>>), Instead(expect, "fields"))
          /\ rLastField' = Append(rLastField, rLastFieldId) /\ rLastFieldId' = 0
        BY <1>7 DEF HearStruct, Waits, ReadStructBegin
    <2>2. StructStep(a, c, b, e)
        BY <1>3, <1>6, <2>1, Kinds
    <2>3. /\ e = <<>> /\ b.bool = {} /\ rLastFieldId' = b.id /\ rLastField' = b.stack
          /\ Hear(c, b.open)
        BY <1>3, <1>5, <2>1, <2>2 DEF StructStep
    <2>4. At(b, full, n)'
        BY <1>1, <1>2, <1>4, <1>6, <2>3, Stays
    <2> QED
        BY <1>1, <1>2, <1>5, <2>3, <2>4, Hears
<1>8. CASE HearStructEnd
    <2>1. /\ Top(expect) = "end" /\ Hear(Call("end", <<>>), Done(expect))
          /\ rLastFieldId' = rLastField[Len(rLastField)]
          /\ rLastField' = SubSeq(rLastField, 1, Len(rLastField) - 1)
        BY <1>8 DEF HearStructEnd, Waits, ReadStructEnd
    <2>2. EndStep(a, c, b, e)
        BY <1>3, <1>6, <2>1, Kinds
    <2>3. /\ e = <<>> /\ b.bool = {} /\ rLastFieldId' = b.id /\ rLastField' = b.stack
          /\ Hear(c, b.open)
        BY <1>3, <1>5, <2>1, <2>2 DEF EndStep
    <2>4. At(b, full, n)'
        BY <1>1, <1>2, <1>4, <1>6, <2>3, Stays
    <2> QED
        BY <1>1, <1>2, <1>5, <2>3, <2>4, Hears
<1> QED
    BY <1>7, <1>8

\* The header of a field of a told id gives back code, types and id.
LEMMA HeaderGivesId ==
    ASSUME NEW s \in Seq(Int), NEW last \in Int, NEW id \in Int, ById(id),
           NEW c \in 1..12, NEW t \in Types, OnlyType(c, t), Agrees(s, FieldHeader(c, id, last))
    PROVE  /\ FieldHeader(c, id, last) \in Seq(Int)
           /\ FieldAt(s, last) = FieldRead(s, FieldHeader(c, id, last), {t}, c, id)
<1>1. Short(ZigZag(id))
    BY DEF ById
<1>2. FieldHeader(c, id, last) \in Seq(Int)
    BY <1>1, HeaderFound
<1>3. FieldAt(s, last) = FieldRead(s, FieldHeader(c, id, last), {t}, c, id)
    BY <1>1, HeaderFound
<1> QED
    BY <1>2, <1>3

\* The header of a field that is no boolean gives back its type.
LEMMA TypeHeaderFound ==
    ASSUME NEW s \in Seq(Int), NEW last \in Int, NEW id \in Int, ById(id), NEW t \in Types,
           Agrees(s, FieldHeader(CType[t], id, last))
    PROVE  FieldAt(s, last) = FieldRead(s, FieldHeader(CType[t], id, last), {t}, CType[t], id)
<1>1. PICK c : c = CType[t]
    OBVIOUS
<1>4. c \in 1..12 /\ OnlyType(c, t)
    BY <1>1, TypeCodes
<1>2. Short(ZigZag(id)) /\ Agrees(s, FieldHeader(c, id, last))
    BY <1>1 DEF ById
<1>3. FieldAt(s, last) = FieldRead(s, FieldHeader(c, id, last), {t}, c, id)
    BY <1>2, <1>4, HeaderFound
<1> QED
    BY <1>1, <1>3

\* The header of a boolean field gives back the code of its value.
LEMMA BoolHeaderFound ==
    ASSUME NEW s \in Seq(Int), NEW last \in Int, NEW id \in Int, ById(id), NEW v,
           Agrees(s, FieldHeader(BoolCode(v), id, last))
    PROVE  /\ FieldHeader(BoolCode(v), id, last) \in Seq(Int)
           /\ FieldAt(s, last)
                 = FieldRead(s, FieldHeader(BoolCode(v), id, last), {"BOOL"}, BoolCode(v), id)
<1>1. PICK c, t : c = BoolCode(v) /\ t = "BOOL"
    OBVIOUS
<1>4. c \in 1..12 /\ OnlyType(c, t)
    BY <1>1, TypeCodes
<1>5. t \in Types
    BY <1>1 DEF Types
<1>2. Agrees(s, FieldHeader(c, id, last))
    BY <1>1
<1>3. /\ FieldHeader(c, id, last) \in Seq(Int)
      /\ FieldAt(s, last) = FieldRead(s, FieldHeader(c, id, last), {t}, c, id)
    <2>1. FieldHeader(c, id, last) \in Seq(Int)
        BY <1>2, <1>4, <1>5, HeaderGivesId
    <2>2. FieldAt(s, last) = FieldRead(s, FieldHeader(c, id, last), {t}, c, id)
        BY <1>2, <1>4, <1>5, HeaderGivesId
    <2> QED
        BY <2>1, <2>2
<1> QED
    BY <1>1, <1>3

\* The call after the next one, from b to d by g: the value v of the boolean field id.
ValueNext(full, T, n, b, d, g, id, v) ==
    /\ d \in States /\ g \in Calls /\ Len(heard) + 1 < Len(told)
    /\ d = T[Len(heard) + 2] /\ g = told[Len(heard) + 2]
    /\ id \in Int /\ ById(id) /\ v \in {<<0>>, <<1>>} /\ b.bool = {id}
    /\ d.id = id /\ d.bool = {} /\ g.data = v /\ d.pos <= Len(full)
    /\ Reads(rest, FieldHeader(BoolCode(v), id, b.id), d, full, n)

\* The boolean whose field was told comes at once, and its header has the value.
LEMMA BooleanComes ==
    ASSUME NEW full, NEW T, NEW n, Followed(full, T, n),
           NEW a, NEW b, NEW c, Coming(full, T, n, a, b, c), a.bool = {},
           b.bool # {}, b.open # <<>>, b.pos = a.pos
    PROVE  \E d, g, id, v : ValueNext(full, T, n, b, d, g, id, v)
<1>1. PICK k \in Nat, m \in Nat : k = Len(heard) /\ m = Len(told)
    BY LenProperties DEF Followed
<1>2. k < m /\ b = T[k + 1] /\ a = T[k] /\ b \in States
    BY <1>1 DEF Coming
<1>3. k + 1 # m
    BY <1>1, <1>2 DEF Followed
<1>4. PICK i \in 0..(m - 1), j \in 1..m : i = k + 1 /\ j = i + 1 /\ j = k + 2 /\ j \in 0..m
    <2>1. k + 1 \in 0..(m - 1) /\ k + 2 \in 1..m /\ k + 2 \in 0..m /\ k + 2 = (k + 1) + 1
        BY <1>2, <1>3
    <2> QED
        BY <2>1
<1>5. PICK d, g : d = T[j] /\ g = told[j]
    OBVIOUS
<1>6. d \in States /\ d.pos <= Len(full) /\ Link(b, g, d, full)
    BY <1>1, <1>2, <1>4, <1>5 DEF Followed, Trace
<1>7. g \in Calls
    BY <1>1, <1>4, <1>5, ElementOfSeq DEF Followed
<1>8. full \in Seq(Int) /\ n \in 0..Len(full) /\ At(a, full, n)
    BY DEF Followed, Coming
<1>9. b.pos <= n /\ rest = After(SubSeq(full, 1, n), b.pos)
    BY <1>8 DEF At
<1>10. PICK e \in Seq(Int) : Step(b, g, d, e) /\ Reads(rest, e, d, full, n)
    BY <1>2, <1>6, <1>8, <1>9, Ahead
<1>11. BoolStep(b, g, d, e)
    BY <1>10, Kinds
<1>12. PICK id \in Int, v \in {<<0>>, <<1>>} :
          /\ ById(id) /\ b.bool = {id} /\ d.id = id /\ d.bool = {}
          /\ g = Call("BOOL", v) /\ e = FieldHeader(BoolCode(v), id, b.id)
    BY <1>11 DEF BoolStep
<1>13. g.data = v
    BY <1>12 DEF Call
<1>14. Len(heard) + 1 < Len(told) /\ d = T[Len(heard) + 2] /\ g = told[Len(heard) + 2]
    <2>1. k + 1 < m
        BY <1>2, <1>3
    <2> QED
        BY <1>1, <1>4, <1>5, <2>1
<1>15. ValueNext(full, T, n, b, d, g, id, v)
    BY <1>6, <1>7, <1>10, <1>12, <1>13, <1>14 DEF ValueNext
<1> QED
    BY <1>15

StopComes(full, n, a, b, c, e) ==
    /\ Reads(rest, e, b, full, n) /\ b.bool = {} /\ b.id = a.id
    /\ b.open = Instead(expect, "end") /\ c = Call("stop", <<>>)
    /\ FieldAt(rest, a.id) = FieldRead(rest, e, {}, 0, a.id)

HeaderComes(full, n, a, b, c, e, t) ==
    /\ Reads(rest, e, b, full, n) /\ b.bool = {}
    /\ t \in Types \ {"BOOL"}
    /\ b.open = Append(expect, t) /\ c = Call("field", <<CType[t], b.id>>)
    /\ FieldAt(rest, a.id) = FieldRead(rest, e, {t}, CType[t], b.id)

BoolComes(full, T, n, a, b, c, e, d, g, id, v) ==
    /\ ValueNext(full, T, n, b, d, g, id, v) /\ e = FieldHeader(BoolCode(v), id, a.id)
    /\ b.id = a.id
    /\ b.open = Append(expect, "BOOL") /\ c = Call("field", <<CType["BOOL"], id>>)
    /\ FieldAt(rest, a.id) = FieldRead(rest, e, {"BOOL"}, BoolCode(v), id)

\* What readFieldBegin finds, by the call that comes.
LEMMA FieldComes ==
    ASSUME NEW full, NEW T, NEW n, Followed(full, T, n), Waits(expect, "fields")
    PROVE  \E a, b, c :
              /\ Coming(full, T, n, a, b, c) /\ a.bool = {} /\ boolValue = {} /\ rLastFieldId = a.id
              /\ b.stack = a.stack
              /\ \/ \E e : StopComes(full, n, a, b, c, e)
                 \/ \E e, t : HeaderComes(full, n, a, b, c, e, t)
                 \/ \E e, d, g, id, v : BoolComes(full, T, n, a, b, c, e, d, g, id, v)
<1>1. expect # <<>> /\ Top(expect) = "fields"
    BY DEF Waits
<1>2. PICK a, b, c : Coming(full, T, n, a, b, c)
    BY <1>1, SomethingComes
<1>3. a.open = expect /\ a.stack = rLastField /\ a \in States /\ b \in States
    BY <1>2 DEF Coming
<1>4. a.bool = {}
    BY <1>1, <1>2, <1>3, Kinds DEF Coming, Link
<1>5. rest \in Seq(Int) /\ rLastFieldId = a.id /\ boolValue = {} /\ a.id \in Int
    BY <1>2, <1>3, <1>4, NextBytes DEF States
<1>6. PICK e \in Seq(Int) :
         Step(a, c, b, e) /\ Reads(rest, e, b, full, n) /\ (e = <<>> => b.pos = a.pos)
    BY <1>2, <1>4, NextBytes
<1>7. Agrees(rest, e)
    BY <1>6 DEF Reads
<1>8. FieldStep(a, c, b, e) \/ BoolFieldStep(a, c, b, e) \/ StopStep(a, c, b, e)
    BY <1>1, <1>3, <1>6, Kinds
<1>9. CASE StopStep(a, c, b, e)
    <2>1. /\ e = <<0>> /\ b.open = Instead(expect, "end") /\ Same(a, b) /\ b.bool = {}
          /\ c = Call("stop", <<>>)
        BY <1>3, <1>9 DEF StopStep
    <2>2. FieldAt(rest, a.id) = FieldRead(rest, e, {}, 0, a.id)
        BY <1>5, <1>7, <2>1, StopFound
    <2>3. StopComes(full, n, a, b, c, e) /\ b.stack = a.stack
        BY <1>6, <2>1, <2>2 DEF Same, StopComes
    <2> QED
        BY <1>2, <1>4, <1>5, <2>3
<1>10. CASE FieldStep(a, c, b, e)
    <2>1. PICK t \in Types \ {"BOOL"}, id \in Int :
             /\ ById(id) /\ b.open = Append(expect, t) /\ b.stack = a.stack /\ b.id = id
             /\ b.bool = {} /\ c = Call("field", <<CType[t], id>>)
             /\ e = FieldHeader(CType[t], id, a.id)
        BY <1>3, <1>10 DEF FieldStep
    <2>2. FieldAt(rest, a.id) = FieldRead(rest, e, {t}, CType[t], id)
        <3>1. PICK last \in Int : last = a.id
            BY <1>5
        <3>2. PICK s \in Seq(Int) : s = rest
            BY <1>5
        <3>3. e = FieldHeader(CType[t], id, last) /\ Agrees(s, e)
            BY <1>7, <2>1, <3>1, <3>2
        <3>4. t \in Types /\ ById(id) /\ Agrees(s, FieldHeader(CType[t], id, last))
            BY <2>1, <3>3
        <3>5. FieldAt(s, last) = FieldRead(s, FieldHeader(CType[t], id, last), {t}, CType[t], id)
            BY <3>4, TypeHeaderFound
        <3> QED
            BY <3>1, <3>2, <3>3, <3>5
    <2>3. HeaderComes(full, n, a, b, c, e, t)
        BY <1>6, <2>1, <2>2 DEF HeaderComes
    <2> QED
        BY <1>2, <1>4, <1>5, <2>1, <2>3
<1>11. CASE BoolFieldStep(a, c, b, e)
    <2>1. PICK id \in Int :
             /\ b.open = Append(expect, "BOOL") /\ Same(a, b) /\ b.bool = {id}
             /\ c = Call("field", <<CType["BOOL"], id>>) /\ e = <<>>
        BY <1>3, <1>11 DEF BoolFieldStep
    <2>2. b.open # <<>> /\ b.pos = a.pos /\ b.bool # {}
        <3>1. expect \in Seq(Pending) /\ "BOOL" \in Pending
            BY <1>3 DEF States, Pending, Types
        <3>2. Waits(Append(expect, "BOOL"), "BOOL")
            BY <3>1, PushItem
        <3> QED
            BY <1>6, <2>1, <3>2 DEF Waits
    <2>3. PICK d, g, jd, v : ValueNext(full, T, n, b, d, g, jd, v)
        BY <1>2, <1>4, <2>2, BooleanComes
    <2>4. jd = id /\ b.id = a.id /\ b.stack = a.stack
        BY <2>1, <2>3 DEF Same, ValueNext
    <2>5. PICK h : h = FieldHeader(BoolCode(v), id, a.id)
        OBVIOUS
    <2>6. Reads(rest, h, d, full, n) /\ Agrees(rest, h)
        BY <2>3, <2>4, <2>5 DEF Reads, ValueNext
    <2>7. ById(id)
        BY <2>3, <2>4 DEF ValueNext
    <2>8. FieldAt(rest, a.id) = FieldRead(rest, h, {"BOOL"}, BoolCode(v), id)
        BY <1>5, <2>5, <2>6, <2>7, BoolHeaderFound
    <2>9. BoolComes(full, T, n, a, b, c, h, d, g, jd, v)
        BY <2>1, <2>3, <2>4, <2>5, <2>8 DEF BoolComes
    <2> QED
        BY <1>2, <1>4, <1>5, <2>4, <2>9
<1> QED
    BY <1>8, <1>9, <1>10, <1>11

\* What readFieldBegin finds before a told field is that field.
LEMMA FieldGot ==
    ASSUME NEW s, NEW e, NEW types, NEW code, NEW id, NEW f \in FieldRead(s, e, types, code, id)
    PROVE  /\ Len(e) <= Len(s) /\ f.types = types /\ f.code = code /\ f.id = id
           /\ f.rest = After(s, Len(e))
BY DEF FieldRead

\* The code of a boolean's header tells its value.
LEMMA BoolBack ==
    ASSUME NEW v \in {<< 0 >>, << 1 >>}
    PROVE  (IF BoolCode(v) = BoolCode(<<1>>) THEN <<1>> ELSE <<0>>) = v
<1>1. <<0>> # <<1>>
    OBVIOUS
<1>2. BoolCode(<<1>>) = 1 /\ BoolCode(<<0>>) = 2
    BY <1>1 DEF BoolCode
<1> QED
    BY <1>2

\* readFieldBegin hears the field that was told, a boolean with its value still to come.
LEMMA HearFieldFollows ==
    ASSUME NEW full, NEW T, NEW n, Followed(full, T, n), HearField
    PROVE  Followed(full, T, n)'
<1>1. PICK f \in FieldAt(rest, rLastFieldId) :
         /\ ReadFieldBegin(f)
         /\ \/ f.types = {} /\ Hear(Call("stop", <<>>), Instead(expect, "end"))
            \/ \E t \in f.types : Hear(Call("field", <<CType[t], f.id>>), Append(expect, t))
    BY DEF HearField
<1>2. /\ rest' = f.rest /\ rLastFieldId' = f.id /\ UNCHANGED rLastField
      /\ boolValue' = IF "BOOL" \in f.types
                      THEN {IF f.code = BoolCode(<<1>>) THEN <<1>> ELSE <<0>>} ELSE boolValue
    BY <1>1 DEF ReadFieldBegin
<1>3. Waits(expect, "fields")
    BY DEF HearField
<1>4. PICK a, b, c :
         /\ Coming(full, T, n, a, b, c) /\ a.bool = {} /\ boolValue = {} /\ rLastFieldId = a.id
         /\ b.stack = a.stack
         /\ \/ \E e : StopComes(full, n, a, b, c, e)
            \/ \E e, t : HeaderComes(full, n, a, b, c, e, t)
            \/ \E e, d, g, id, v : BoolComes(full, T, n, a, b, c, e, d, g, id, v)
    BY <1>3, FieldComes
<1>5. rLastField' = b.stack
    BY <1>2, <1>4 DEF Coming
<1>6. CASE \E e : StopComes(full, n, a, b, c, e)
    <2>1. PICK e : StopComes(full, n, a, b, c, e)
        BY <1>6
    <2>2. Reads(rest, e, b, full, n) /\ b.bool = {}
        BY <2>1 DEF StopComes
    <2>3. /\ Len(e) <= Len(rest) /\ f.types = {} /\ f.id = a.id
          /\ f.rest = After(rest, Len(e))
        <3>1. f \in FieldRead(rest, e, {}, 0, a.id)
            BY <1>1, <1>4, <2>1 DEF StopComes
        <3> QED
            BY <3>1, FieldGot
    <2>4. Hear(c, b.open)
        BY <1>1, <2>1, <2>3 DEF StopComes
    <2>5. rest' = After(rest, Len(e)) /\ rLastFieldId' = b.id /\ boolValue' = {}
        BY <1>2, <1>4, <2>1, <2>3 DEF StopComes
    <2>6. At(b, full, n)'
        BY <2>2, <2>3, <2>5, Moves
    <2> QED
        BY <1>4, <1>5, <2>2, <2>4, <2>5, <2>6, Hears
<1>7. CASE \E e, t : HeaderComes(full, n, a, b, c, e, t)
    <2>1. PICK e, t : HeaderComes(full, n, a, b, c, e, t)
        BY <1>7
    <2>2. Reads(rest, e, b, full, n) /\ b.bool = {}
        BY <2>1 DEF HeaderComes
    <2>3. /\ Len(e) <= Len(rest) /\ f.types = {t} /\ f.id = b.id
          /\ f.rest = After(rest, Len(e))
        <3>1. f \in FieldRead(rest, e, {t}, CType[t], b.id)
            BY <1>1, <1>4, <2>1 DEF HeaderComes
        <3> QED
            BY <3>1, FieldGot
    <2>4. Hear(c, b.open)
        BY <1>1, <2>1, <2>3 DEF HeaderComes
    <2>5. rest' = After(rest, Len(e)) /\ rLastFieldId' = b.id /\ boolValue' = {}
        BY <1>2, <1>4, <2>1, <2>3 DEF HeaderComes
    <2>6. At(b, full, n)'
        BY <2>2, <2>3, <2>5, Moves
    <2> QED
        BY <1>4, <1>5, <2>2, <2>4, <2>5, <2>6, Hears
<1>8. CASE \E e, d, g, id, v : BoolComes(full, T, n, a, b, c, e, d, g, id, v)
    <2>1. PICK e, d, g, id, v : BoolComes(full, T, n, a, b, c, e, d, g, id, v)
        BY <1>8
    <2>2. /\ Len(heard) + 1 < Len(told) /\ d = T[Len(heard) + 2] /\ g = told[Len(heard) + 2]
          /\ v \in {<<0>>, <<1>>} /\ b.bool = {id} /\ d.id = id /\ g.data = v
          /\ Reads(rest, e, d, full, n)
        BY <2>1 DEF BoolComes, ValueNext
    <2>3. /\ Len(e) <= Len(rest) /\ f.types = {"BOOL"} /\ f.id = id /\ f.code = BoolCode(v)
          /\ f.rest = After(rest, Len(e))
        <3>1. f \in FieldRead(rest, e, {"BOOL"}, BoolCode(v), id)
            BY <1>1, <1>4, <2>1 DEF BoolComes
        <3> QED
            BY <3>1, FieldGot
    <2>4. Hear(c, b.open)
        <3>1. b.open = Append(expect, "BOOL") /\ c = Call("field", <<CType["BOOL"], id>>)
            BY <2>1 DEF BoolComes
        <3>2. \E t \in f.types : Hear(Call("field", <<CType[t], f.id>>), Append(expect, t))
            BY <1>1, <2>3
        <3> QED
            BY <2>3, <3>1, <3>2
    <2>5. rest' = After(rest, Len(e)) /\ rLastFieldId' = d.id
        BY <1>2, <2>2, <2>3
    <2>6. boolValue' = {g.data}
        <3>1. boolValue' = {IF BoolCode(v) = BoolCode(<<1>>) THEN <<1>> ELSE <<0>>}
            BY <1>2, <2>3
        <3> QED
            BY <2>2, <3>1, BoolBack
    <2>7. At(d, full, n)'
        BY <2>2, <2>3, <2>5, Moves
    <2>8. b.bool # {}
        BY <2>2
    <2> QED
        BY <1>4, <1>5, <2>2, <2>4, <2>6, <2>7, <2>8, Hears
<1> QED
    BY <1>4, <1>6, <1>7, <1>8

\* What is read before a told value is that value.
LEMMA ValueGot ==
    ASSUME NEW s, NEW e, NEW v, NEW x \in Read(s, e, v)
    PROVE  Len(e) <= Len(s) /\ x.value = v /\ x.rest = After(s, Len(e))
BY DEF Read

\* A read call of a value hears the value that was told.
LEMMA HearScalarFollows ==
    ASSUME NEW full, NEW T, NEW n, Followed(full, T, n), NEW type \in Scalar, HearScalar(type)
    PROVE  Followed(full, T, n)'
<1>1. PICK v : ReadScalar(type, v) /\ Hear(Call(type, v), Done(expect))
    BY DEF HearScalar
<1>2. expect # <<>> /\ Top(expect) = type
    BY DEF HearScalar, Waits
<1>3. PICK a, b, c : Coming(full, T, n, a, b, c)
    BY <1>2, SomethingComes
<1>4. a.open = expect /\ a.stack = rLastField
    BY <1>3 DEF Coming
<1>5. CASE a.bool = {}
    <2>1. rest \in Seq(Int) /\ rLastFieldId = a.id /\ boolValue = {}
        BY <1>3, <1>5, NextBytes
    <2>2. PICK e \in Seq(Int) : Step(a, c, b, e) /\ Reads(rest, e, b, full, n)
        BY <1>3, <1>5, NextBytes
    <2>3. ScalarStep(a, c, b, e)
        BY <1>2, <1>4, <1>5, <2>2, Kinds
    <2>4. PICK w \in Seq(Int) :
             /\ Carried(type, w) /\ b.open = Done(expect) /\ Same(a, b) /\ b.bool = {}
             /\ c = Call(type, w) /\ e = Encoded(type, w)
        BY <1>2, <1>4, <2>3 DEF ScalarStep
    <2>5. Decoded(type, rest) = Read(rest, e, w)
        <3>1. Agrees(rest, e)
            BY <2>2 DEF Reads
        <3>2. Agrees(rest, Encoded(type, w))
            BY <2>4, <3>1
        <3>3. Decoded(type, rest) = Read(rest, Encoded(type, w), w)
            BY <2>1, <2>4, <3>2, ScalarFound
        <3> QED
            BY <2>4, <3>3
    <2>6. PICK x \in Decoded(type, rest) : v = x.value /\ Get(x.rest)
        BY <1>1, <2>1 DEF ReadScalar, ReadBool
    <2>7. v = w /\ Len(e) <= Len(rest) /\ x.rest = After(rest, Len(e))
        BY <2>5, <2>6, ValueGot
    <2>8. /\ rest' = After(rest, Len(e)) /\ rLastFieldId' = b.id /\ rLastField' = b.stack
          /\ boolValue' = {}
        BY <1>4, <2>1, <2>4, <2>6, <2>7 DEF Same, Get
    <2>9. At(b, full, n)'
        BY <2>2, <2>7, <2>8, Moves
    <2>10. Hear(c, b.open)
        BY <1>1, <2>4, <2>7
    <2> QED
        BY <1>3, <2>4, <2>8, <2>9, <2>10, Hears
<1>6. CASE a.bool # {}
    <2>1. At(b, full, n) /\ boolValue = {c.data}
        BY <1>3, <1>6 DEF Followed, Coming
    <2>2. PICK e \in Seq(Int) : BoolStep(a, c, b, e)
        BY <1>3, <1>6, Kinds DEF Coming, Link
    <2>3. PICK w : /\ type = "BOOL" /\ b.open = Done(expect) /\ b.stack = a.stack /\ b.bool = {}
                   /\ c = Call("BOOL", w)
        BY <1>2, <1>4, <2>2 DEF BoolStep
    <2>4. boolValue = {w}
        BY <2>1, <2>3 DEF Call
    <2>5. v = w /\ boolValue' = {} /\ UNCHANGED <<rest, rLastField, rLastFieldId>>
        BY <1>1, <2>3, <2>4 DEF ReadScalar, ReadBool
    <2>6. At(b, full, n)'
        BY <2>1, <2>5 DEF At
    <2>7. Hear(c, b.open) /\ rLastField' = b.stack
        BY <1>1, <1>4, <2>3, <2>5
    <2> QED
        BY <1>3, <2>3, <2>5, <2>6, <2>7, Hears
<1> QED
    BY <1>5, <1>6

\* What is read before a told list or set is its header.
LEMMA HeaderGot ==
    ASSUME NEW s, NEW e, NEW types, NEW size, NEW h \in SizedRead(s, e, types, size)
    PROVE  /\ Len(e) <= Len(s) /\ h.types = types /\ h.size = size
           /\ h.rest = After(s, Len(e))
BY DEF SizedRead

\* readListBegin and readSetBegin hear the collection that was told.
LEMMA HearCollectionFollows ==
    ASSUME NEW full, NEW T, NEW n, Followed(full, T, n), NEW kind \in Collection,
           HearCollection(kind)
    PROVE  Followed(full, T, n)'
<1>1. PICK h \in CollectionAt(rest) :
         /\ Get(h.rest)
         /\ Hear(Call(kind, <<CType[h.types[1]], h.size>>), Done(expect) \o Copies(h.types, h.size))
    BY DEF HearCollection, ReadCollectionBegin
<1>2. expect # <<>> /\ Top(expect) = kind
    BY DEF HearCollection, Waits
<1>3. PICK a, b, c : Coming(full, T, n, a, b, c)
    BY <1>2, SomethingComes
<1>4. a.open = expect /\ a.stack = rLastField
    BY <1>3 DEF Coming
<1>5. a.bool = {}
    <2>1. kind # "BOOL"
        BY DEF Collection
    <2> QED
        BY <1>2, <1>3, <1>4, <2>1, Kinds DEF Coming, Link
<1>6. rest \in Seq(Int) /\ rLastFieldId = a.id /\ boolValue = {}
    BY <1>3, <1>5, NextBytes
<1>7. PICK e \in Seq(Int) : Step(a, c, b, e) /\ Reads(rest, e, b, full, n)
    BY <1>3, <1>5, NextBytes
<1>8. CollectionStep(a, c, b, e)
    BY <1>2, <1>4, <1>7, Kinds
<1>9. PICK type \in Types, size \in Nat :
         /\ Short(size) /\ b.open = Done(expect) \o Copies(<<type>>, size) /\ Same(a, b)
         /\ b.bool = {} /\ c = Call(kind, <<CType[type], size>>)
         /\ e = CollectionHeader(type, size)
    BY <1>2, <1>4, <1>8 DEF CollectionStep
<1>10. CollectionAt(rest) = SizedRead(rest, e, <<type>>, size)
    <2>1. Agrees(rest, e)
        BY <1>7 DEF Reads
    <2>2. Agrees(rest, CollectionHeader(type, size))
        BY <1>9, <2>1
    <2>3. CollectionAt(rest) = SizedRead(rest, CollectionHeader(type, size), <<type>>, size)
        BY <1>6, <1>9, <2>2, CollectionReadBack
    <2> QED
        BY <1>9, <2>3
<1>11. /\ Len(e) <= Len(rest) /\ h.types = <<type>> /\ h.size = size
       /\ h.rest = After(rest, Len(e))
    BY <1>1, <1>10, HeaderGot
<1>12. /\ rest' = After(rest, Len(e)) /\ rLastFieldId' = b.id /\ rLastField' = b.stack
       /\ boolValue' = {}
    BY <1>1, <1>4, <1>6, <1>9, <1>11 DEF Same, Get
<1>13. At(b, full, n)'
    BY <1>7, <1>11, <1>12, Moves
<1>14. Hear(c, b.open)
    BY <1>1, <1>9, <1>11
<1> QED
    BY <1>3, <1>9, <1>12, <1>13, <1>14, Hears

\* readMapBegin hears the map that was told.
LEMMA HearMapFollows ==
    ASSUME NEW full, NEW T, NEW n, Followed(full, T, n), HearMap
    PROVE  Followed(full, T, n)'
<1>1. PICK h \in MapAt(rest) :
         /\ Get(h.rest)
         /\ \/ h.size = 0 /\ Hear(Call("MAP", <<0>>), Done(expect))
            \/ /\ h.size > 0
               /\ Hear(Call("MAP", <<CType[h.types[1]], CType[h.types[2]], h.size>>),
                       Done(expect) \o Copies(<<h.types[2], h.types[1]>>, h.size))
    BY DEF HearMap, ReadMapBegin
<1>2. expect # <<>> /\ Top(expect) = "MAP"
    BY DEF HearMap, Waits
<1>3. PICK a, b, c : Coming(full, T, n, a, b, c)
    BY <1>2, SomethingComes
<1>4. a.open = expect /\ a.stack = rLastField /\ a \in States
    BY <1>3 DEF Coming
<1>5. a.bool = {}
    BY <1>2, <1>3, <1>4, Kinds DEF Coming, Link
<1>6. rest \in Seq(Int) /\ rLastFieldId = a.id /\ boolValue = {}
    BY <1>3, <1>5, NextBytes
<1>7. PICK e \in Seq(Int) : Step(a, c, b, e) /\ Reads(rest, e, b, full, n)
    BY <1>3, <1>5, NextBytes
<1>8. MapStep(a, c, b, e)
    BY <1>2, <1>4, <1>7, Kinds
<1>9. PICK key \in Types, val \in Types, size \in Nat :
         /\ Short(size) /\ b.open = Done(expect) \o Copies(<<val, key>>, size) /\ Same(a, b)
         /\ b.bool = {}
         /\ c = Call("MAP", IF size = 0 THEN <<0>> ELSE <<CType[key], CType[val], size>>)
         /\ e = MapHeader(key, val, size)
    BY <1>4, <1>8 DEF MapStep
<1>10. MapAt(rest) = SizedRead(rest, e, IF size = 0 THEN <<>> ELSE <<key, val>>, size)
    <2>1. Agrees(rest, e)
        BY <1>7 DEF Reads
    <2>2. Agrees(rest, MapHeader(key, val, size))
        BY <1>9, <2>1
    <2>3. MapAt(rest) = SizedRead(rest, MapHeader(key, val, size),
                                  IF size = 0 THEN <<>> ELSE <<key, val>>, size)
        BY <1>6, <1>9, <2>2, MapReadBack
    <2> QED
        BY <1>9, <2>3
<1>11. /\ Len(e) <= Len(rest) /\ h.types = (IF size = 0 THEN <<>> ELSE <<key, val>>)
       /\ h.size = size /\ h.rest = After(rest, Len(e))
    BY <1>1, <1>10, HeaderGot
<1>12. /\ rest' = After(rest, Len(e)) /\ rLastFieldId' = b.id /\ rLastField' = b.stack
       /\ boolValue' = {}
    BY <1>1, <1>4, <1>6, <1>9, <1>11 DEF Same, Get
<1>13. At(b, full, n)'
    BY <1>7, <1>11, <1>12, Moves
<1>14. Hear(c, b.open)
    <2>1. CASE size = 0
        <3>1. Done(expect) \o Copies(<<val, key>>, 0) = Done(expect)
            <4>1. Copies(<<val, key>>, 0) = <<>>
                BY DEF Copies
            <4>2. Done(expect) \in Seq(Pending)
                BY <1>2, <1>4, PopItem DEF States
            <4> QED
                BY <4>1, <4>2, ConcatEmptySeq
        <3>2. b.open = Done(expect) \o Copies(<<val, key>>, 0)
            BY <1>9, <2>1
        <3>3. b.open = Done(expect)
            BY <3>1, <3>2
        <3>4. c = Call("MAP", <<0>>)
            BY <1>9, <2>1
        <3>5. ~(h.size > 0)
            BY <1>11, <2>1
        <3> QED
            BY <1>1, <3>3, <3>4, <3>5
    <2>2. CASE size # 0
        <3>1. h.types[1] = key /\ h.types[2] = val /\ ~(h.size = 0)
            BY <1>11, <2>2
        <3> QED
            BY <1>1, <1>9, <1>11, <2>2, <3>1
    <2> QED
        BY <2>1, <2>2
<1> QED
    BY <1>3, <1>9, <1>12, <1>13, <1>14, Hears

\* What the reader needs is missing only if the datagram was cut.
LEMMA Missing ==
    ASSUME NEW full, NEW T, NEW n, Followed(full, T, n), NEW b \in States, b.pos <= Len(full),
           NEW e, Reads(rest, e, b, full, n), ~(Len(e) <= Len(rest))
    PROVE  cut
<1>1. PICK p \in Nat, l \in Nat, m \in Nat : p = b.pos /\ l = Len(full) /\ m = n
    BY LenProperties DEF States, Followed
<1>2. ~(p <= m) /\ p <= l
    BY <1>1 DEF Reads
<1>3. m < l
    BY <1>2
<1> QED
    BY <1>1, <1>3 DEF Followed

\* Nothing is read of a message header that was cut.
LEMMA MessageMissing ==
    ASSUME NEW full, NEW T, NEW n, Followed(full, T, n), Waits(expect, "message"),
           MessageAt(rest) = {}
    PROVE  cut
<1>2. expect # <<>> /\ Top(expect) = "message"
    BY DEF Waits
<1>3. PICK a, b, c : Coming(full, T, n, a, b, c)
    BY <1>2, SomethingComes
<1>4. a.open = expect /\ b \in States /\ b.pos <= Len(full)
    BY <1>3 DEF Coming
<1>5. a.bool = {}
    BY <1>2, <1>3, <1>4, Kinds DEF Coming, Link
<1>6. rest \in Seq(Int)
    BY <1>3, <1>5, NextBytes
<1>7. PICK e \in Seq(Int) : Step(a, c, b, e) /\ Reads(rest, e, b, full, n)
    BY <1>3, <1>5, NextBytes
<1>8. MessageStep(a, c, b, e)
    BY <1>2, <1>4, <1>7, Kinds
<1>9. e = MessageHeader(<<101>>, "ONEWAY", 0) /\ Agrees(rest, e)
    BY <1>7, <1>8 DEF MessageStep, Reads
<1>10. MessageAt(rest) = MessageRead(rest, e, <<101>>, 4, 0)
    BY <1>6, <1>9, OneMessage
<1>11. ~(Len(e) <= Len(rest))
    BY <1>10 DEF MessageRead
<1> QED
    BY <1>4, <1>7, <1>11, Missing

\* Nothing is read of a field header that was cut.
LEMMA FieldMissing ==
    ASSUME NEW full, NEW T, NEW n, Followed(full, T, n), Waits(expect, "fields"),
           FieldAt(rest, rLastFieldId) = {}
    PROVE  cut
<1>1. PICK a, b, c :
         /\ Coming(full, T, n, a, b, c) /\ rLastFieldId = a.id
         /\ \/ \E e : StopComes(full, n, a, b, c, e)
            \/ \E e, t : HeaderComes(full, n, a, b, c, e, t)
            \/ \E e, d, g, id, v : BoolComes(full, T, n, a, b, c, e, d, g, id, v)
    BY FieldComes
<1>2. b \in States /\ b.pos <= Len(full) /\ FieldAt(rest, a.id) = {}
    BY <1>1 DEF Coming
<1>3. CASE \E e : StopComes(full, n, a, b, c, e)
    <2>1. PICK e : StopComes(full, n, a, b, c, e)
        BY <1>3
    <2>2. Reads(rest, e, b, full, n) /\ FieldRead(rest, e, {}, 0, a.id) = {}
        BY <1>2, <2>1 DEF StopComes
    <2>3. ~(Len(e) <= Len(rest))
        BY <2>2 DEF FieldRead
    <2> QED
        BY <1>2, <2>2, <2>3, Missing
<1>4. CASE \E e, t : HeaderComes(full, n, a, b, c, e, t)
    <2>1. PICK e, t : HeaderComes(full, n, a, b, c, e, t)
        BY <1>4
    <2>2. Reads(rest, e, b, full, n) /\ FieldRead(rest, e, {t}, CType[t], b.id) = {}
        BY <1>2, <2>1 DEF HeaderComes
    <2>3. ~(Len(e) <= Len(rest))
        BY <2>2 DEF FieldRead
    <2> QED
        BY <1>2, <2>2, <2>3, Missing
<1>5. CASE \E e, d, g, id, v : BoolComes(full, T, n, a, b, c, e, d, g, id, v)
    <2>1. PICK e, d, g, id, v : BoolComes(full, T, n, a, b, c, e, d, g, id, v)
        BY <1>5
    <2>2. /\ Reads(rest, e, d, full, n) /\ FieldRead(rest, e, {"BOOL"}, BoolCode(v), id) = {}
          /\ d \in States /\ d.pos <= Len(full)
        BY <1>2, <2>1 DEF BoolComes, ValueNext
    <2>3. ~(Len(e) <= Len(rest))
        BY <2>2 DEF FieldRead
    <2> QED
        BY <2>2, <2>3, Missing
<1> QED
    BY <1>1, <1>3, <1>4, <1>5

\* Nothing is read of a value that was cut.
LEMMA ScalarMissing ==
    ASSUME NEW full, NEW T, NEW n, Followed(full, T, n), NEW type \in Scalar,
           Waits(expect, type), ScalarsAt(type) = {}
    PROVE  cut
<1>2. expect # <<>> /\ Top(expect) = type
    BY DEF Waits
<1>3. PICK a, b, c : Coming(full, T, n, a, b, c)
    BY <1>2, SomethingComes
<1>4. a.open = expect /\ b \in States /\ b.pos <= Len(full)
    BY <1>3 DEF Coming
<1>5. a.bool = {}
    <2>1. ASSUME a.bool # {} PROVE boolValue # {} /\ type = "BOOL"
        <3>1. boolValue = {c.data}
            BY <1>3, <2>1 DEF Followed, Coming
        <3>2. PICK e \in Seq(Int) : BoolStep(a, c, b, e)
            BY <1>3, <2>1, Kinds DEF Coming, Link
        <3> QED
            BY <1>2, <1>4, <3>1, <3>2 DEF BoolStep
    <2> QED
        BY <2>1 DEF ScalarsAt
<1>6. rest \in Seq(Int) /\ boolValue = {}
    BY <1>3, <1>5, NextBytes
<1>7. PICK e \in Seq(Int) : Step(a, c, b, e) /\ Reads(rest, e, b, full, n)
    BY <1>3, <1>5, NextBytes
<1>8. ScalarStep(a, c, b, e)
    BY <1>2, <1>4, <1>5, <1>7, Kinds
<1>9. PICK w \in Seq(Int) : Carried(type, w) /\ e = Encoded(type, w)
    BY <1>2, <1>4, <1>8 DEF ScalarStep
<1>10. Agrees(rest, Encoded(type, w))
    BY <1>7, <1>9 DEF Reads
<1>11. Decoded(type, rest) = Read(rest, Encoded(type, w), w)
    BY <1>6, <1>9, <1>10, ScalarFound
<1>12. Decoded(type, rest) = {}
    BY <1>6 DEF ScalarsAt
<1>13. ~(Len(e) <= Len(rest))
    BY <1>9, <1>11, <1>12 DEF Read
<1> QED
    BY <1>4, <1>7, <1>13, Missing

\* Nothing is read of a collection header that was cut.
LEMMA CollectionMissing ==
    ASSUME NEW full, NEW T, NEW n, Followed(full, T, n), NEW kind \in Collection,
           Waits(expect, kind), CollectionAt(rest) = {}
    PROVE  cut
<1>2. expect # <<>> /\ Top(expect) = kind
    BY DEF Waits
<1>3. PICK a, b, c : Coming(full, T, n, a, b, c)
    BY <1>2, SomethingComes
<1>4. a.open = expect /\ b \in States /\ b.pos <= Len(full)
    BY <1>3 DEF Coming
<1>5. a.bool = {}
    <2>1. kind # "BOOL"
        BY DEF Collection
    <2> QED
        BY <1>2, <1>3, <1>4, <2>1, Kinds DEF Coming, Link
<1>6. rest \in Seq(Int)
    BY <1>3, <1>5, NextBytes
<1>7. PICK e \in Seq(Int) : Step(a, c, b, e) /\ Reads(rest, e, b, full, n)
    BY <1>3, <1>5, NextBytes
<1>8. CollectionStep(a, c, b, e)
    BY <1>2, <1>4, <1>7, Kinds
<1>9. PICK type \in Types, size \in Nat : Short(size) /\ e = CollectionHeader(type, size)
    BY <1>8 DEF CollectionStep
<1>10. Agrees(rest, CollectionHeader(type, size))
    BY <1>7, <1>9 DEF Reads
<1>11. CollectionAt(rest) = SizedRead(rest, CollectionHeader(type, size), <<type>>, size)
    BY <1>6, <1>9, <1>10, CollectionReadBack
<1>12. ~(Len(e) <= Len(rest))
    BY <1>9, <1>11 DEF SizedRead
<1> QED
    BY <1>4, <1>7, <1>12, Missing

\* Nothing is read of a map header that was cut.
LEMMA MapMissing ==
    ASSUME NEW full, NEW T, NEW n, Followed(full, T, n), Waits(expect, "MAP"), MapAt(rest) = {}
    PROVE  cut
<1>2. expect # <<>> /\ Top(expect) = "MAP"
    BY DEF Waits
<1>3. PICK a, b, c : Coming(full, T, n, a, b, c)
    BY <1>2, SomethingComes
<1>4. a.open = expect /\ b \in States /\ b.pos <= Len(full)
    BY <1>3 DEF Coming
<1>5. a.bool = {}
    BY <1>2, <1>3, <1>4, Kinds DEF Coming, Link
<1>6. rest \in Seq(Int)
    BY <1>3, <1>5, NextBytes
<1>7. PICK e \in Seq(Int) : Step(a, c, b, e) /\ Reads(rest, e, b, full, n)
    BY <1>3, <1>5, NextBytes
<1>8. MapStep(a, c, b, e)
    BY <1>2, <1>4, <1>7, Kinds
<1>9. PICK key \in Types, val \in Types, size \in Nat :
         Short(size) /\ e = MapHeader(key, val, size)
    BY <1>8 DEF MapStep
<1>10. Agrees(rest, MapHeader(key, val, size))
    BY <1>7, <1>9 DEF Reads
<1>11. MapAt(rest) = SizedRead(rest, MapHeader(key, val, size),
                               IF size = 0 THEN <<>> ELSE <<key, val>>, size)
    BY <1>6, <1>9, <1>10, MapReadBack
<1>12. ~(Len(e) <= Len(rest))
    BY <1>9, <1>11 DEF SizedRead
<1> QED
    BY <1>4, <1>7, <1>12, Missing

\* The reader throws at a cut only: before a whole call it finds something to read.
LEMMA ThrowsCut ==
    ASSUME NEW full, NEW T, NEW n, Followed(full, T, n), Throws
    PROVE  cut
<1>1. /\ Waits(expect, "message") /\ MessageAt(rest) = {} => cut
      /\ Waits(expect, "fields") /\ FieldAt(rest, rLastFieldId) = {} => cut
      /\ \A t \in Scalar : Waits(expect, t) /\ ScalarsAt(t) = {} => cut
      /\ \A t \in Collection : Waits(expect, t) /\ CollectionAt(rest) = {} => cut
      /\ Waits(expect, "MAP") /\ MapAt(rest) = {} => cut
    BY MessageMissing, FieldMissing, ScalarMissing, CollectionMissing, MapMissing
<1> QED
    BY <1>1 DEF Throws

\* A reader that ends has heard every call.
LEMMA EndFollows ==
    ASSUME NEW full, NEW T, NEW n, Followed(full, T, n), EndReading
    PROVE  Followed(full, T, n)'
<1>1. /\ UNCHANGED <<rest, rLastField, rLastFieldId, boolValue, told, cut, expect, nesting, heard>>
      /\ phase' = "heard" => expect = <<>>
      /\ phase' = "thrown" => cut \/ TooDeep
    BY ThrowsCut DEF EndReading, reader
<1>2. TooDeep' = TooDeep
    BY <1>1 DEF TooDeep, Top
<1> QED
    BY <1>1, <1>2 DEF Followed, At

\* Every read call follows the trace of the calls that were told.
LEMMA ReadingFollows ==
    ASSUME NEW full, NEW T, NEW n, Followed(full, T, n), Reading
    PROVE  Followed(full, T, n)'
<1>1. HearMessage => Followed(full, T, n)'
    BY HearMessageFollows
<1>2. HearStruct \/ HearStructEnd => Followed(full, T, n)'
    BY HearStructFollows
<1>3. HearField => Followed(full, T, n)'
    BY HearFieldFollows
<1>4. \A t \in Scalar : HearScalar(t) => Followed(full, T, n)'
    BY HearScalarFollows
<1>5. \A k \in Collection : HearCollection(k) => Followed(full, T, n)'
    BY HearCollectionFollows
<1>6. HearMap => Followed(full, T, n)'
    BY HearMapFollows
<1> QED
    BY <1>1, <1>2, <1>3, <1>4, <1>5, <1>6 DEF Reading

\* Calls that are equal one by one to the first ones of a list are its beginning.
LEMMA FirstCalls ==
    ASSUME NEW s \in Seq(Calls), NEW t \in Seq(Calls), Len(t) <= Len(s),
           \A i \in 1..Len(t) : t[i] = s[i]
    PROVE  t = SubSeq(s, 1, Len(t))
<1>1. PICK n \in Nat : n = Len(t)
    BY LenProperties
<1>2. Len(s) \in Nat /\ \A i \in 1..n : s[i] \in Calls
    <2>1. \A i \in 1..n : t[i] = s[i] /\ t[i] \in Calls
        BY <1>1, ElementOfSeq
    <2> QED
        BY <2>1, LenProperties
<1>3. /\ SubSeq(s, 1, n) \in Seq(Calls)
      /\ Len(SubSeq(s, 1, n)) = IF 1 <= n THEN n - 1 + 1 ELSE 0
      /\ \A i \in 1..(n - 1 + 1) : SubSeq(s, 1, n)[i] = s[1 + i - 1]
    BY <1>2, SubSeqProperties
<1>4. Len(SubSeq(s, 1, n)) = n
    BY <1>3
<1>5. \A i \in 1..n : SubSeq(s, 1, n)[i] = t[i]
    <2>1. \A i \in 1..n : i \in 1..(n - 1 + 1) /\ 1 + i - 1 = i
        OBVIOUS
    <2> QED
        BY <1>1, <1>3, <2>1
<1> QED
    BY <1>1, <1>3, <1>4, <1>5, SeqEqual

\* While the client writes, its calls are a trace that ends where it is now.
Tells ==
    phase = "writing" =>
       /\ heard = <<>> /\ wire \in Seq(Int) /\ told \in Seq(Calls)
       /\ \E T : Trace(T, told, wire) /\ T[Len(told)] = Now

\* Once the datagram was sent, the reader follows the trace.
Follows == phase # "writing" => wire = <<>> /\ \E full, T, n : Followed(full, T, n)

StreamInv == NestInv /\ OneWaits /\ Tells /\ Follows

\* A fresh protocol object begins a trace.
LEMMA NewTrace ==
    ASSUME open = <<"message">>, lastField = <<>>, lastFieldId = 0, booleanField = {},
           wire = <<>>
    PROVE  \E T : Trace(T, <<>>, wire) /\ T[0] = Now
<1>1. Now = Fresh
    BY DEF Now, Fresh
<1>2. Fresh \in States
    <2>1. <<"message">> \in Seq(Pending)
        BY DEF Pending
    <2> QED
        BY <2>1 DEF Fresh, States
<1>3. PICK T : T = [k \in 0..0 |-> Fresh]
    OBVIOUS
<1>4. T \in [0..0 -> States] /\ T[0] = Fresh /\ \A k \in 0..0 : T[k] = Fresh
    BY <1>2, <1>3
<1>5. Len(wire) = 0 /\ Fresh.pos = 0 /\ Len(<<>>) = 0
    BY DEF Fresh
<1>6. Trace(T, <<>>, wire)
    <2>1. \A k \in 0..(0 - 1) : FALSE
        OBVIOUS
    <2> QED
        BY <1>4, <1>5, <2>1 DEF Trace
<1> QED
    BY <1>1, <1>4, <1>6

\* The invariant of the stream holds at the start.
LEMMA StreamStarts == Init => StreamInv
<1> SUFFICES ASSUME Init PROVE StreamInv
    OBVIOUS
<1>1. /\ wire = <<>> /\ lastField = <<>> /\ lastFieldId = 0 /\ booleanField = {}
      /\ open = <<"message">> /\ told = <<>> /\ heard = <<>> /\ phase = "writing"
    BY DEF Init, NewWriter
<1>2. Len(told) = 0 /\ wire \in Seq(Int) /\ told \in Seq(Calls)
    BY <1>1, EmptySeq
<1>3. Tells
    BY <1>1, <1>2, NewTrace DEF Tells
<1> QED
    BY <1>1, <1>3, NestsFirst DEF StreamInv, OneWaits, Follows

\* A write call makes the trace longer by one step.
LEMMA WritingStays == ASSUME StreamInv, Writing PROVE OneWaits' /\ Tells' /\ Follows'
<1>1. phase = "writing" /\ UNCHANGED <<phase, heard>>
    BY DEF Writing, TellMessage, TellStruct, TellField, TellStop, TellStructEnd,
           TellScalar, TellCollection, TellMap, Tell
<1>2. /\ heard = <<>> /\ wire \in Seq(Int) /\ told \in Seq(Calls)
    BY <1>1 DEF StreamInv, Tells
<1>3. PICK T : Trace(T, told, wire) /\ T[Len(told)] = Now
    BY <1>1 DEF StreamInv, Tells
<1>4. Told /\ OneWaits'
    BY <1>2, WritingTells DEF StreamInv, NestInv
<1>5. PICK c \in Calls, e \in Seq(Int) :
         told' = Append(told, c) /\ wire' = wire \o e /\ Step(Now, c, Now', e)
    BY <1>4 DEF Told
<1>6. wire' \in Seq(Int) /\ told' \in Seq(Calls)
    BY <1>2, <1>5, AppendProperties, ConcatProperties
<1>7. Now' \in States
    <2>1. WriterInv'
        BY WriterStep DEF StreamInv, NestInv
    <2>2. (WriterInv /\ wire \in Seq(Int) => Now \in States)'
        BY NowType, PTL
    <2> QED
        BY <1>6, <2>1, <2>2
<1>8. PICK now, w : now = Now' /\ w = wire'
    OBVIOUS
<1>9. now.pos = Len(w)
    BY <1>8 DEF Now
<1>10. \E U : Trace(U, Append(told, c), wire \o e) /\ U[Len(Append(told, c))] = now
    <2>1. Step(T[Len(told)], c, now, e)
        BY <1>3, <1>5, <1>8
    <2>2. now.pos = Len(wire \o e)
        BY <1>5, <1>8, <1>9
    <2>3. now \in States
        BY <1>7, <1>8
    <2> QED
        BY <1>2, <1>3, <2>1, <2>2, <2>3, TraceGrows
<1>11. (\E U : Trace(U, told, wire) /\ U[Len(told)] = Now)'
    BY <1>5, <1>8, <1>10
<1> QED
    BY <1>1, <1>2, <1>4, <1>6, <1>11 DEF Tells, Follows

\* A datagram that was sent, whole or cut, is the one the reader begins to follow.
LEMMA SendFollows ==
    ASSUME StreamInv, NEW n \in 0..Len(wire), Send(n)
    PROVE  OneWaits' /\ Tells' /\ Follows'
<1>1. /\ phase = "writing" /\ open = <<>> /\ phase' = "reading" /\ cut' = (n < Len(wire))
      /\ rest' = SubSeq(wire, 1, n) /\ rLastField' = <<>> /\ rLastFieldId' = 0 /\ boolValue' = {}
      /\ expect' = <<"message">> /\ wire' = <<>> /\ UNCHANGED <<booleanField, told, heard>>
    BY DEF Send, NewReader
<1>2. /\ heard = <<>> /\ wire \in Seq(Int) /\ told \in Seq(Calls)
    BY <1>1 DEF StreamInv, Tells
<1>3. PICK T : Trace(T, told, wire) /\ T[Len(told)] = Now
    BY <1>1 DEF StreamInv, Tells
<1>4. booleanField = {}
    BY <1>1 DEF StreamInv, NestInv, WriterInv, Waits
<1>5. PICK full \in Seq(Int) : full = wire
    BY <1>2
<1>6. Len(full) \in Nat /\ n \in Nat /\ n <= Len(full)
    BY <1>5, LenProperties
<1>7. T[Len(told)].open = <<>> /\ T[Len(told)].bool = {}
    BY <1>1, <1>3, <1>4 DEF Now
<1>8. T[0] = Fresh /\ Trace(T, told, full)
    BY <1>3, <1>5 DEF Trace
<1>9. At(Fresh, full, n)'
    <2>1. PICK f : f = SubSeq(full, 1, n)
        OBVIOUS
    <2>2. f \in Seq(Int)
        BY <1>6, <2>1, FirstIs
    <2>3. After(f, 0) = f
        <3>1. Len(f) \in Nat /\ 0 <= Len(f)
            BY <2>2, LenProperties
        <3>2. /\ After(f, 0) \in Seq(Int) /\ Len(After(f, 0)) = Len(f) - 0
              /\ \A i \in 1..(Len(f) - 0) : After(f, 0)[i] = f[0 + i]
            BY <2>2, <3>1, AfterIs
        <3>3. Len(f) - 0 = Len(f) /\ \A i \in 1..Len(f) : 0 + i = i
            BY <3>1
        <3> QED
            BY <2>2, <3>2, <3>3, SeqEqual
    <2>4. Fresh.pos = 0 /\ Fresh.id = 0
        BY DEF Fresh
    <2>5. rest' = After(SubSeq(full, 1, n), 0)
        BY <1>1, <1>5, <2>1, <2>3
    <2> QED
        BY <1>1, <1>6, <2>4, <2>5 DEF At
<1>10. Len(heard) = 0 /\ heard \in Seq(Calls) /\ Len(told) \in Nat
    BY <1>2, EmptySeq, LenProperties
<1>11. Fresh.open = <<"message">> /\ Fresh.stack = <<>> /\ Fresh.bool = {}
    BY DEF Fresh
<1>12. Followed(full, T, n)'
    BY <1>1, <1>2, <1>5, <1>6, <1>7, <1>8, <1>9, <1>10, <1>11 DEF Followed
<1> QED
    BY <1>1, <1>4, <1>12 DEF Tells, Follows, OneWaits

\* The next datagram begins with fresh protocol objects.
LEMMA DatagramStarts ==
    ASSUME StreamInv, NextDatagram
    PROVE  OneWaits' /\ Tells' /\ Follows'
<1>1. /\ phase # "writing" /\ phase' = "writing" /\ open' = <<"message">> /\ told' = <<>>
      /\ heard' = <<>> /\ UNCHANGED <<wire, lastField, lastFieldId, booleanField>>
    BY DEF NextDatagram, writer
<1>2. open = <<>> /\ wire = <<>>
    BY <1>1 DEF StreamInv, NestInv, PhaseInv, Follows
<1>3. booleanField = {} /\ lastField = <<>> /\ lastFieldId = 0
    <2>1. booleanField = {} /\ lastField \in Seq(Ids) /\ Len(lastField) = 0
        BY <1>2, DepthStart DEF StreamInv, NestInv, WriterInv, Waits
    <2>2. lastField = <<>>
        BY <2>1, EmptySeq
    <2> QED
        BY <2>1, <2>2 DEF StreamInv, NestInv, WriterInv
<1>4. (open = <<"message">> /\ lastField = <<>> /\ lastFieldId = 0 /\ booleanField = {} /\ wire = <<>>
       => \E T : Trace(T, <<>>, wire) /\ T[0] = Now)'
    BY NewTrace, PTL
<1>5. (\E T : Trace(T, <<>>, wire) /\ T[0] = Now)'
    BY <1>1, <1>2, <1>3, <1>4
<1>6. Len(told') = 0 /\ wire' \in Seq(Int) /\ told' \in Seq(Calls)
    BY <1>1, <1>2, EmptySeq
<1> QED
    BY <1>1, <1>3, <1>5, <1>6 DEF Tells, Follows, OneWaits

\* The invariant of the stream is kept by every step.
LEMMA StreamStays == StreamInv /\ [Next]_vars => StreamInv'
<1> SUFFICES ASSUME StreamInv, [Next]_vars PROVE OneWaits' /\ Tells' /\ Follows'
    BY NestsStays DEF StreamInv
<1>1. CASE Writing
    BY <1>1, WritingStays
<1>2. ASSUME NEW n \in 0..Len(wire), Send(n) PROVE OneWaits' /\ Tells' /\ Follows'
    BY <1>2, SendFollows
<1>3. CASE Reading
    <2>1. /\ phase = "reading" /\ phase' = phase
          /\ UNCHANGED <<wire, booleanField>>
        BY <1>3 DEF Reading, HearMessage, HearStruct, HearField, HearStructEnd, HearMap,
                    HearScalar, HearCollection, Hear, writer
    <2>2. PICK full, T, n : Followed(full, T, n)
        BY <2>1 DEF StreamInv, Follows
    <2>3. Followed(full, T, n)'
        BY <1>3, <2>2, ReadingFollows
    <2> QED
        BY <2>1, <2>3 DEF StreamInv, Tells, Follows, OneWaits
<1>4. CASE EndReading
    <2>1. phase = "reading" /\ phase' # "writing" /\ UNCHANGED <<wire, booleanField>>
        BY <1>4 DEF EndReading, writer
    <2>2. PICK full, T, n : Followed(full, T, n)
        BY <2>1 DEF StreamInv, Follows
    <2>3. Followed(full, T, n)'
        BY <1>4, <2>2, EndFollows
    <2> QED
        BY <2>1, <2>3 DEF StreamInv, Tells, Follows, OneWaits
<1>5. CASE NextDatagram
    BY <1>5, DatagramStarts
<1>6. CASE UNCHANGED vars
    <2>1. /\ UNCHANGED <<wire, lastField, lastFieldId, booleanField, rest, rLastField,
                         rLastFieldId, boolValue, phase, open, told, cut, expect, nesting, heard>>
        BY <1>6 DEF vars, writer, reader
    <2>2. OneWaits' /\ Tells'
        BY <2>1 DEF StreamInv, OneWaits, Tells, Now
    <2>3. Follows'
        <3>1. CASE phase = "writing"
            BY <2>1, <3>1 DEF Follows
        <3>2. CASE phase # "writing"
            <4>1. PICK full, T, n : Followed(full, T, n)
                BY <3>2 DEF StreamInv, Follows
            <4>2. TooDeep' = TooDeep
                BY <2>1 DEF TooDeep, Top
            <4>3. Followed(full, T, n)'
                BY <2>1, <4>1, <4>2 DEF Followed, At
            <4> QED
                BY <2>1, <3>2, <4>3 DEF StreamInv, Follows
        <3> QED
            BY <3>1, <3>2
    <2> QED
        BY <2>2, <2>3
<1> QED
    BY <1>1, <1>2, <1>3, <1>4, <1>5, <1>6 DEF Next

\* The end of the reading is the end of the trace.
LEMMA AllHeard ==
    ASSUME NEW full, NEW T, NEW n, Followed(full, T, n), expect = <<>>
    PROVE  heard = told /\ rest = <<>> /\ ~cut
<1>1. PICK k \in Nat, m \in Nat : k = Len(heard) /\ m = Len(told) /\ k <= m
    BY LenProperties DEF Followed
<1>2. k = m
    <2>1. ASSUME k # m PROVE FALSE
        <3>1. PICK i \in 0..(m - 1) : i = k
            BY <1>1, <2>1
        <3>2. Link(T[k], told[k + 1], T[k + 1], full)
            BY <1>1, <3>1 DEF Followed, Trace
        <3>3. T[k].open = <<>>
            BY <1>1 DEF Followed
        <3> QED
            BY <3>2, <3>3 DEF Link, Step
    <2> QED
        BY <2>1
<1>3. heard = told
    BY <1>1, <1>2, SeqEqual DEF Followed
<1>4. At(T[m], full, n) /\ T[m].pos = Len(full) /\ full \in Seq(Int) /\ n \in 0..Len(full)
    BY <1>1, <1>2 DEF Followed, Trace
<1>5. PICK l \in Nat : l = Len(full)
    BY <1>4, LenProperties
<1>6. l = n /\ rest = After(SubSeq(full, 1, l), l)
    <2>1. l <= n /\ n \in 0..l
        BY <1>4, <1>5 DEF At
    <2>2. l = n
        BY <2>1
    <2> QED
        BY <1>4, <1>5, <2>2 DEF At
<1>7. rest = <<>>
    <2>1. PICK f : f = SubSeq(full, 1, l)
        OBVIOUS
    <2>2. f \in Seq(Int) /\ Len(f) = l
        BY <1>4, <1>5, <2>1, FirstIs
    <2>3. After(f, l) \in Seq(Int) /\ Len(After(f, l)) = Len(f) - l
        BY <2>2, AfterIs
    <2>4. Len(f) - l = 0
        BY <2>2
    <2> QED
        BY <1>6, <2>1, <2>3, <2>4, EmptySeq
<1>8. ~cut
    <2>1. cut = (n < Len(full))
        BY DEF Followed
    <2>2. ~(l < l)
        BY <1>5
    <2>3. ~(n < Len(full))
        BY <1>5, <1>6, <2>2
    <2> QED
        BY <2>1, <2>3
<1> QED
    BY <1>3, <1>7, <1>8

\* What was heard is a prefix of what was told; a cut datagram is thrown, a whole one is not
\* unless it nests too deep.
LEMMA StreamAgrees == StreamInv => HeardIsTold /\ WholeOrThrown
<1> SUFFICES ASSUME StreamInv PROVE HeardIsTold /\ WholeOrThrown
    OBVIOUS
<1>1. CASE phase = "writing"
    <2>1. heard = <<>> /\ told \in Seq(Calls)
        BY <1>1 DEF StreamInv, Tells
    <2>2. heard \in Seq(Calls) /\ Len(heard) = 0 /\ Len(told) \in Nat
        BY <2>1, EmptySeq, LenProperties
    <2>3. heard = SubSeq(told, 1, Len(heard))
        BY <2>1, <2>2, FirstCalls
    <2> QED
        BY <1>1, <2>2, <2>3 DEF HeardIsTold, WholeOrThrown
<1>2. CASE phase # "writing"
    <2>1. PICK full, T, n : Followed(full, T, n)
        BY <1>2 DEF StreamInv, Follows
    <2>2. Len(heard) <= Len(told) /\ heard = SubSeq(told, 1, Len(heard))
        BY <2>1, FirstCalls DEF Followed
    <2>3. phase = "heard" => heard = told /\ rest = <<>> /\ ~cut
        BY <2>1, AllHeard DEF Followed
    <2>4. phase = "thrown" => cut \/ TooDeep
        BY <2>1 DEF Followed
    <2> QED
        BY <2>2, <2>3, <2>4 DEF HeardIsTold, WholeOrThrown
<1> QED
    BY <1>1, <1>2

\* What the agent's read calls return is what the client's write calls were given, call for
\* call, for every sequence of write calls that TProtocol allows, every value of the C++
\* types and every cut of the datagram: TCompactProtocol has no second meaning for its bytes.
THEOREM HeardAsTold == Spec => []HeardIsTold
BY StreamStarts, StreamStays, StreamAgrees, PTL DEF Spec

\* A datagram that lost bytes makes a read call throw before the message ends, and only such
\* a datagram does, or one that makes skip call itself more often than it allows: readVarint64
\* and the transport never let a cut value pass for a whole one.
THEOREM CutIsThrown == Spec => []WholeOrThrown
BY StreamStarts, StreamStays, StreamAgrees, PTL DEF Spec

-----------------------------------------------------------------------------
(* The recursive functions of the agent are the ones their definitions say. *)

\* What FieldsAt has for k passes, when later is what it has for one less.
Passes(p, value, of, unknown, k, later) ==
    [last \in Int |-> [s \in Seq(Int) |->
        IF k = 0 THEN {} ELSE Pass(p, value, of, unknown, later, s, last)]]

\* The loop of a read function is its first pass and what comes after it.
LEMMA FieldsAtDef ==
    ASSUME NEW p, NEW value, NEW of, NEW unknown, NEW k \in Nat
    PROVE  FieldsAt(p, value, of, unknown)[k] = Passes(p, value, of, unknown, k, FieldsAt(p, value, of, unknown)[k - 1])
<1> DEFINE Turn(i, later) == Passes(p, value, of, unknown, i, later)
           Up(f, n) == \A i \in 0..n : f[i] = Turn(i, f[i - 1])
           Some(n) == CHOOSE f : Up(f, n)
           Def(f) == [i \in Nat |->
               [last \in Int |-> [s \in Seq(Int) |->
                   IF i = 0 THEN {} ELSE Pass(p, value, of, unknown, f[i - 1], s, last)]]]
           g == [n \in Nat |-> Some(n)[n]]
<1>0. \A x, y : Turn(0, x) = Turn(0, y)
    BY DEF Passes
<1> HIDE DEF Turn
<1>1. \A n \in Nat : \E f : Up(f, n)
    <2> DEFINE T == {n \in Nat : ~\E f : Up(f, n)}
    <2>1. ASSUME T # {} PROVE FALSE
        <3>1. PICK x \in T : \A y \in T : x <= y
            <4>1. T \in SUBSET Nat
                OBVIOUS
            <4> HIDE DEF T
            <4> QED
                BY <2>1, <4>1, LeastNumber
        <3>2. CASE x = 0
            <4> DEFINE f == [i \in {0} |-> Turn(0, 0)]
            <4>1. f[0] = Turn(0, f[0 - 1])
                BY <1>0
            <4>2. Up(f, 0)
                BY <4>1
            <4> HIDE DEF f
            <4> QED
                BY <3>1, <3>2, <4>2
        <3>3. CASE x # 0
            <4>1. x - 1 \in Nat /\ x \in Nat /\ ~(x <= x - 1)
                BY <3>1, <3>3
            <4>2. PICK e : Up(e, x - 1)
                BY <3>1, <4>1
            <4> DEFINE f == [i \in 0..x |-> IF i = x THEN Turn(x, e[x - 1]) ELSE e[i]]
            <4>3. f[x] = Turn(x, f[x - 1])
                BY <4>1
            <4>4. \A i \in 0..(x - 1) : f[i] = Turn(i, f[i - 1])
                <5> TAKE i \in 0..(x - 1)
                <5>1. f[i] = e[i] /\ e[i] = Turn(i, e[i - 1])
                    BY <4>1, <4>2
                <5>2. CASE i = 0
                    BY <5>1, <5>2, <1>0
                <5>3. CASE i # 0
                    <6>1. f[i - 1] = e[i - 1]
                        BY <4>1, <5>3
                    <6> QED
                        BY <5>1, <6>1
                <5> QED
                    BY <5>2, <5>3
            <4> HIDE DEF f
            <4>5. Up(f, x)
                <5>1. \A i \in 0..x : i = x \/ i \in 0..(x - 1)
                    BY <4>1
                <5> QED
                    BY <5>1, <4>3, <4>4
            <4> HIDE DEF Up
            <4> QED
                BY <3>1, <4>5
        <3> QED
            BY <3>2, <3>3
    <2> QED
        BY <2>1
<1>2. \A n \in Nat : \A e, f : Up(e, n) /\ Up(f, n) => e[n] = f[n]
    <2> DEFINE T == {n \in Nat : ~\A e, f : Up(e, n) /\ Up(f, n) => e[n] = f[n]}
    <2>1. ASSUME T # {} PROVE FALSE
        <3>1. PICK x \in T : \A y \in T : x <= y
            <4>1. T \in SUBSET Nat
                OBVIOUS
            <4> HIDE DEF T
            <4> QED
                BY <2>1, <4>1, LeastNumber
        <3>2. PICK e, f : Up(e, x) /\ Up(f, x) /\ e[x] # f[x]
            BY <3>1
        <3>3. e[x] = Turn(x, e[x - 1]) /\ f[x] = Turn(x, f[x - 1])
            BY <3>1, <3>2
        <3>4. CASE x = 0
            BY <3>2, <3>3, <3>4, <1>0
        <3>5. CASE x # 0
            <4>1. x - 1 \in Nat /\ ~(x <= x - 1)
                BY <3>1, <3>5
            <4>2. Up(e, x - 1) /\ Up(f, x - 1)
                BY <3>1, <3>2, <4>1
            <4>3. e[x - 1] = f[x - 1]
                BY <3>1, <4>1, <4>2
            <4> QED
                BY <3>2, <3>3, <4>3
        <3> QED
            BY <3>4, <3>5
    <2> QED
        BY <2>1
<1>3. \A n \in Nat : Up(Some(n), n)
    BY <1>1
<1>4. \A n \in Nat : g[n] = Turn(n, g[n - 1])
    <2> TAKE n \in Nat
    <2>1. g[n] = Some(n)[n] /\ Some(n)[n] = Turn(n, Some(n)[n - 1])
        BY <1>3
    <2>2. CASE n = 0
        BY <2>1, <2>2, <1>0
    <2>3. CASE n # 0
        <3>1. n - 1 \in Nat
            BY <2>3
        <3>2. Up(Some(n), n - 1) /\ Up(Some(n - 1), n - 1)
            BY <1>3, <3>1
        <3> HIDE DEF Up, Some
        <3>3. Some(n)[n - 1] = Some(n - 1)[n - 1]
            BY <1>2, <3>1, <3>2
        <3>4. g[n - 1] = Some(n - 1)[n - 1]
            BY <3>1
        <3> QED
            BY <2>1, <3>3, <3>4
    <2> QED
        BY <2>2, <2>3
<1>5. g = Def(g)
    <2>1. \A n \in Nat : Turn(n, g[n - 1]) = Def(g)[n]
        BY DEF Turn, Passes
    <2>2. g = [n \in Nat |-> g[n]]
        OBVIOUS
    <2>3. Def(g) = [n \in Nat |-> Def(g)[n]]
        OBVIOUS
    <2> HIDE DEF g, Def
    <2>4. \A n \in Nat : g[n] = Def(g)[n]
        BY <1>4, <2>1, Zenon
    <2> QED
        BY <2>2, <2>3, <2>4
<1> HIDE DEF g
<1>6. FieldsAt(p, value, of, unknown) = CHOOSE f : f = Def(f)
    BY DEF FieldsAt
<1>7. FieldsAt(p, value, of, unknown) = Def(FieldsAt(p, value, of, unknown))
    <2> HIDE DEF Def
    <2> QED
        BY <1>5, <1>6, Zenon
<1>8. PICK from : from = FieldsAt(p, value, of, unknown)
    OBVIOUS
<1>9. Def(from)[k] = Passes(p, value, of, unknown, k, from[k - 1])
    BY DEF Passes
<1> HIDE DEF Def
<1>10. from = Def(from)
    BY <1>7, <1>8, Zenon
<1> QED
    BY <1>8, <1>9, <1>10, Zenon

\* What ListAt has for n elements, when later is what it has for one less.
Elements(element, n, later) ==
    [s \in Seq(Int) |-> IF n = 0 THEN {[value |-> <<>>, rest |-> s]}
                        ELSE Element(element, later, s)]

\* A list is its first element and the rest of it.
LEMMA ListAtDef ==
    ASSUME NEW element, NEW k \in Nat
    PROVE  ListAt(element)[k] = Elements(element, k, ListAt(element)[k - 1])
<1> DEFINE Turn(i, later) == Elements(element, i, later)
           Up(f, n) == \A i \in 0..n : f[i] = Turn(i, f[i - 1])
           Some(n) == CHOOSE f : Up(f, n)
           Def(f) == [i \in Nat |->
               [s \in Seq(Int) |-> IF i = 0 THEN {[value |-> <<>>, rest |-> s]}
                                   ELSE Element(element, f[i - 1], s)]]
           g == [n \in Nat |-> Some(n)[n]]
<1>0. \A x, y : Turn(0, x) = Turn(0, y)
    BY DEF Elements
<1> HIDE DEF Turn
<1>1. \A n \in Nat : \E f : Up(f, n)
    <2> DEFINE T == {n \in Nat : ~\E f : Up(f, n)}
    <2>1. ASSUME T # {} PROVE FALSE
        <3>1. PICK x \in T : \A y \in T : x <= y
            <4>1. T \in SUBSET Nat
                OBVIOUS
            <4> HIDE DEF T
            <4> QED
                BY <2>1, <4>1, LeastNumber
        <3>2. CASE x = 0
            <4> DEFINE f == [i \in {0} |-> Turn(0, 0)]
            <4>1. f[0] = Turn(0, f[0 - 1])
                BY <1>0
            <4>2. Up(f, 0)
                BY <4>1
            <4> HIDE DEF f
            <4> QED
                BY <3>1, <3>2, <4>2
        <3>3. CASE x # 0
            <4>1. x - 1 \in Nat /\ x \in Nat /\ ~(x <= x - 1)
                BY <3>1, <3>3
            <4>2. PICK e : Up(e, x - 1)
                BY <3>1, <4>1
            <4> DEFINE f == [i \in 0..x |-> IF i = x THEN Turn(x, e[x - 1]) ELSE e[i]]
            <4>3. f[x] = Turn(x, f[x - 1])
                BY <4>1
            <4>4. \A i \in 0..(x - 1) : f[i] = Turn(i, f[i - 1])
                <5> TAKE i \in 0..(x - 1)
                <5>1. f[i] = e[i] /\ e[i] = Turn(i, e[i - 1])
                    BY <4>1, <4>2
                <5>2. CASE i = 0
                    BY <5>1, <5>2, <1>0
                <5>3. CASE i # 0
                    <6>1. f[i - 1] = e[i - 1]
                        BY <4>1, <5>3
                    <6> QED
                        BY <5>1, <6>1
                <5> QED
                    BY <5>2, <5>3
            <4> HIDE DEF f
            <4>5. Up(f, x)
                <5>1. \A i \in 0..x : i = x \/ i \in 0..(x - 1)
                    BY <4>1
                <5> QED
                    BY <5>1, <4>3, <4>4
            <4> HIDE DEF Up
            <4> QED
                BY <3>1, <4>5
        <3> QED
            BY <3>2, <3>3
    <2> QED
        BY <2>1
<1>2. \A n \in Nat : \A e, f : Up(e, n) /\ Up(f, n) => e[n] = f[n]
    <2> DEFINE T == {n \in Nat : ~\A e, f : Up(e, n) /\ Up(f, n) => e[n] = f[n]}
    <2>1. ASSUME T # {} PROVE FALSE
        <3>1. PICK x \in T : \A y \in T : x <= y
            <4>1. T \in SUBSET Nat
                OBVIOUS
            <4> HIDE DEF T
            <4> QED
                BY <2>1, <4>1, LeastNumber
        <3>2. PICK e, f : Up(e, x) /\ Up(f, x) /\ e[x] # f[x]
            BY <3>1
        <3>3. e[x] = Turn(x, e[x - 1]) /\ f[x] = Turn(x, f[x - 1])
            BY <3>1, <3>2
        <3>4. CASE x = 0
            BY <3>2, <3>3, <3>4, <1>0
        <3>5. CASE x # 0
            <4>1. x - 1 \in Nat /\ ~(x <= x - 1)
                BY <3>1, <3>5
            <4>2. Up(e, x - 1) /\ Up(f, x - 1)
                BY <3>1, <3>2, <4>1
            <4>3. e[x - 1] = f[x - 1]
                BY <3>1, <4>1, <4>2
            <4> QED
                BY <3>2, <3>3, <4>3
        <3> QED
            BY <3>4, <3>5
    <2> QED
        BY <2>1
<1>3. \A n \in Nat : Up(Some(n), n)
    BY <1>1
<1>4. \A n \in Nat : g[n] = Turn(n, g[n - 1])
    <2> TAKE n \in Nat
    <2>1. g[n] = Some(n)[n] /\ Some(n)[n] = Turn(n, Some(n)[n - 1])
        BY <1>3
    <2>2. CASE n = 0
        BY <2>1, <2>2, <1>0
    <2>3. CASE n # 0
        <3>1. n - 1 \in Nat
            BY <2>3
        <3>2. Up(Some(n), n - 1) /\ Up(Some(n - 1), n - 1)
            BY <1>3, <3>1
        <3> HIDE DEF Up, Some
        <3>3. Some(n)[n - 1] = Some(n - 1)[n - 1]
            BY <1>2, <3>1, <3>2
        <3>4. g[n - 1] = Some(n - 1)[n - 1]
            BY <3>1
        <3> QED
            BY <2>1, <3>3, <3>4
    <2> QED
        BY <2>2, <2>3
<1>5. g = Def(g)
    <2>1. \A n \in Nat : Turn(n, g[n - 1]) = Def(g)[n]
        BY DEF Turn, Elements
    <2>2. g = [n \in Nat |-> g[n]]
        OBVIOUS
    <2>3. Def(g) = [n \in Nat |-> Def(g)[n]]
        OBVIOUS
    <2> HIDE DEF g, Def
    <2>4. \A n \in Nat : g[n] = Def(g)[n]
        BY <1>4, <2>1, Zenon
    <2> QED
        BY <2>2, <2>3, <2>4
<1> HIDE DEF g
<1>6. ListAt(element) = CHOOSE f : f = Def(f)
    BY DEF ListAt
<1>7. ListAt(element) = Def(ListAt(element))
    <2> HIDE DEF Def
    <2> QED
        BY <1>5, <1>6, Zenon
<1>8. PICK from : from = ListAt(element)
    OBVIOUS
<1>9. Def(from)[k] = Elements(element, k, from[k - 1])
    BY DEF Elements
<1> HIDE DEF Def
<1>10. from = Def(from)
    BY <1>7, <1>8, Zenon
<1> QED
    BY <1>8, <1>9, <1>10, Zenon

\* A reader, when below is the one for a level less.
OneLevel(p, unknown, levels, below) ==
    [type \in Types |-> [of \in StructKinds |-> [code \in Nat |-> [s \in Seq(Int) |->
        ValueAt(p, unknown, levels, below, type, of, code, s)]]]]

\* A reader is one level on the reader below.
LEMMA ReaderDef ==
    ASSUME NEW p, NEW unknown, NEW k \in Nat
    PROVE  Reader(p, unknown)[k] = OneLevel(p, unknown, k, Reader(p, unknown)[k - 1])
<1> DEFINE Turn(i, later) == OneLevel(p, unknown, i, later)
           Up(f, n) == \A i \in 0..n : f[i] = Turn(i, f[i - 1])
           Some(n) == CHOOSE f : Up(f, n)
           Def(f) == [i \in Nat |->
               [type \in Types |-> [of \in StructKinds |-> [code \in Nat |-> [s \in Seq(Int) |->
                   ValueAt(p, unknown, i, f[i - 1], type, of, code, s)]]]]]
           g == [n \in Nat |-> Some(n)[n]]
<1>0. \A x, y : Turn(0, x) = Turn(0, y)
    <2> TAKE x, y
    <2>1. ASSUME NEW type \in Types, NEW of \in StructKinds, NEW code \in Nat, NEW s \in Seq(Int)
          PROVE  ValueAt(p, unknown, 0, x, type, of, code, s) = ValueAt(p, unknown, 0, y, type, of, code, s)
        <3>1. CASE of = Nothing
            BY <3>1 DEF ValueAt
        <3>2. CASE of # Nothing
            <4> DEFINE None(b) == [t \in Seq(Int) |-> IF 0 = 0 THEN {} ELSE StructAt(p, b, of, unknown, t)]
            <4>1. None(x) = None(y)
                OBVIOUS
            <4>2. \A b : ValueAt(p, unknown, 0, b, type, of, code, s)
                           = IF type = "BOOL" /\ code # 0
                             THEN {[value |-> IF code = BoolCode(<<1>>) THEN <<1>> ELSE <<0>>, rest |-> s]}
                             ELSE IF type = "STRUCT" THEN None(b)[s]
                             ELSE IF type \in Collection
                             THEN UNION {ListAt(None(b))[h.size][h.rest] : h \in NextCollection(p, s)}
                             ELSE NextScalar(p, type, s)
                BY <3>2 DEF ValueAt
            <4> HIDE DEF None
            <4> QED
                BY <4>1, <4>2
        <3> QED
            BY <3>1, <3>2
    <2> QED
        BY <2>1 DEF OneLevel
<1> HIDE DEF Turn
<1>1. \A n \in Nat : \E f : Up(f, n)
    <2> DEFINE T == {n \in Nat : ~\E f : Up(f, n)}
    <2>1. ASSUME T # {} PROVE FALSE
        <3>1. PICK x \in T : \A y \in T : x <= y
            <4>1. T \in SUBSET Nat
                OBVIOUS
            <4> HIDE DEF T
            <4> QED
                BY <2>1, <4>1, LeastNumber
        <3>2. CASE x = 0
            <4> DEFINE f == [i \in {0} |-> Turn(0, 0)]
            <4>1. f[0] = Turn(0, f[0 - 1])
                BY <1>0
            <4>2. Up(f, 0)
                BY <4>1
            <4> HIDE DEF f
            <4> QED
                BY <3>1, <3>2, <4>2
        <3>3. CASE x # 0
            <4>1. x - 1 \in Nat /\ x \in Nat /\ ~(x <= x - 1)
                BY <3>1, <3>3
            <4>2. PICK e : Up(e, x - 1)
                BY <3>1, <4>1
            <4> DEFINE f == [i \in 0..x |-> IF i = x THEN Turn(x, e[x - 1]) ELSE e[i]]
            <4>3. f[x] = Turn(x, f[x - 1])
                BY <4>1
            <4>4. \A i \in 0..(x - 1) : f[i] = Turn(i, f[i - 1])
                <5> TAKE i \in 0..(x - 1)
                <5>1. f[i] = e[i] /\ e[i] = Turn(i, e[i - 1])
                    BY <4>1, <4>2
                <5>2. CASE i = 0
                    BY <5>1, <5>2, <1>0
                <5>3. CASE i # 0
                    <6>1. f[i - 1] = e[i - 1]
                        BY <4>1, <5>3
                    <6> QED
                        BY <5>1, <6>1
                <5> QED
                    BY <5>2, <5>3
            <4> HIDE DEF f
            <4>5. Up(f, x)
                <5>1. \A i \in 0..x : i = x \/ i \in 0..(x - 1)
                    BY <4>1
                <5> QED
                    BY <5>1, <4>3, <4>4
            <4> HIDE DEF Up
            <4> QED
                BY <3>1, <4>5
        <3> QED
            BY <3>2, <3>3
    <2> QED
        BY <2>1
<1>2. \A n \in Nat : \A e, f : Up(e, n) /\ Up(f, n) => e[n] = f[n]
    <2> DEFINE T == {n \in Nat : ~\A e, f : Up(e, n) /\ Up(f, n) => e[n] = f[n]}
    <2>1. ASSUME T # {} PROVE FALSE
        <3>1. PICK x \in T : \A y \in T : x <= y
            <4>1. T \in SUBSET Nat
                OBVIOUS
            <4> HIDE DEF T
            <4> QED
                BY <2>1, <4>1, LeastNumber
        <3>2. PICK e, f : Up(e, x) /\ Up(f, x) /\ e[x] # f[x]
            BY <3>1
        <3>3. e[x] = Turn(x, e[x - 1]) /\ f[x] = Turn(x, f[x - 1])
            BY <3>1, <3>2
        <3>4. CASE x = 0
            BY <3>2, <3>3, <3>4, <1>0
        <3>5. CASE x # 0
            <4>1. x - 1 \in Nat /\ ~(x <= x - 1)
                BY <3>1, <3>5
            <4>2. Up(e, x - 1) /\ Up(f, x - 1)
                BY <3>1, <3>2, <4>1
            <4>3. e[x - 1] = f[x - 1]
                BY <3>1, <4>1, <4>2
            <4> QED
                BY <3>2, <3>3, <4>3
        <3> QED
            BY <3>4, <3>5
    <2> QED
        BY <2>1
<1>3. \A n \in Nat : Up(Some(n), n)
    BY <1>1
<1>4. \A n \in Nat : g[n] = Turn(n, g[n - 1])
    <2> TAKE n \in Nat
    <2>1. g[n] = Some(n)[n] /\ Some(n)[n] = Turn(n, Some(n)[n - 1])
        BY <1>3
    <2>2. CASE n = 0
        BY <2>1, <2>2, <1>0
    <2>3. CASE n # 0
        <3>1. n - 1 \in Nat
            BY <2>3
        <3>2. Up(Some(n), n - 1) /\ Up(Some(n - 1), n - 1)
            BY <1>3, <3>1
        <3> HIDE DEF Up, Some
        <3>3. Some(n)[n - 1] = Some(n - 1)[n - 1]
            BY <1>2, <3>1, <3>2
        <3>4. g[n - 1] = Some(n - 1)[n - 1]
            BY <3>1
        <3> QED
            BY <2>1, <3>3, <3>4
    <2> QED
        BY <2>2, <2>3
<1>5. g = Def(g)
    <2>1. \A n \in Nat : Turn(n, g[n - 1]) = Def(g)[n]
        BY DEF Turn, OneLevel
    <2>2. g = [n \in Nat |-> g[n]]
        OBVIOUS
    <2>3. Def(g) = [n \in Nat |-> Def(g)[n]]
        OBVIOUS
    <2> HIDE DEF g, Def
    <2>4. \A n \in Nat : g[n] = Def(g)[n]
        BY <1>4, <2>1, Zenon
    <2> QED
        BY <2>2, <2>3, <2>4
<1> HIDE DEF g
<1>6. Reader(p, unknown) = CHOOSE f : f = Def(f)
    BY DEF Reader
<1>7. Reader(p, unknown) = Def(Reader(p, unknown))
    <2> HIDE DEF Def
    <2> QED
        BY <1>5, <1>6, Zenon
<1>8. PICK from : from = Reader(p, unknown)
    OBVIOUS
<1>9. Def(from)[k] = OneLevel(p, unknown, k, from[k - 1])
    BY DEF OneLevel
<1> HIDE DEF Def
<1>10. from = Def(from)
    BY <1>7, <1>8, Zenon
<1> QED
    BY <1>8, <1>9, <1>10, Zenon

-----------------------------------------------------------------------------
(* The fields of the structs. *)

\* How deep the structs in a struct go.
Rank == [Tag |-> 0, SpanRef |-> 0, Endpoint |-> 0,
         Log |-> 1, Process |-> 1, Annotation |-> 1, BinaryAnnotation |-> 1,
         Span |-> 2, ZipkinSpan |-> 2, Batch |-> 3, ZipkinArgs |-> 3, Args |-> 4]

\* A field has a number or a text, or structs that are less deep than this one.
FieldOk(of, f) ==
    /\ f.id \in 1..12
    /\ f.type \in {"I16", "I32", "I64", "BOOL", "DOUBLE", "STRING"} \union Nested
    /\ IF f.type \in Nested THEN f.of \in DOMAIN Fields /\ Rank[f.of] < Rank[of] ELSE f.of = "none"

StructOk(of) ==
    /\ Rank[of] \in 0..4
    /\ DOMAIN Fields[of] = 1..Len(Fields[of]) /\ Len(Fields[of]) \in Nat
    /\ \A i \in DOMAIN Fields[of] : FieldOk(of, Fields[of][i])
    /\ \A i, j \in DOMAIN Fields[of] : Fields[of][i].id = Fields[of][j].id => i = j

\* A field with a number or a text.
LEMMA PlainField ==
    ASSUME NEW of, NEW id \in 1..12,
           NEW type \in {"I16", "I32", "I64", "BOOL", "DOUBLE", "STRING"}
    PROVE  FieldOk(of, F(id, type, "none")) /\ F(id, type, "none").id = id
BY DEF FieldOk, F, Nested

\* A field with structs.
LEMMA NestedField ==
    ASSUME NEW of, NEW id \in 1..12, NEW type \in Nested, NEW inner \in DOMAIN Fields,
           Rank[inner] < Rank[of]
    PROVE  FieldOk(of, F(id, type, inner)) /\ F(id, type, inner).id = id
BY DEF FieldOk, F, Nested

\* The ranks are numbers.
LEMMA Ranks ==
    /\ DOMAIN Fields = DOMAIN Rank
    /\ \A of \in DOMAIN Fields : Rank[of] \in 0..4
BY DEF Fields, Rank

\* The fields of Tag.
LEMMA TagOk == StructOk("Tag")
<1>1. Fields["Tag"] = TagFields /\ Rank["Tag"] \in 0..4
    BY DEF Fields, Rank
<1>2. DOMAIN TagFields = 1..7 /\ Len(TagFields) = 7
    BY DEF TagFields
<1>3. /\ TagFields[1] = F(1, "STRING", "none")
      /\ TagFields[2] = F(2, "I32", "none")
      /\ TagFields[3] = F(3, "STRING", "none")
      /\ TagFields[4] = F(4, "DOUBLE", "none")
      /\ TagFields[5] = F(5, "BOOL", "none")
      /\ TagFields[6] = F(6, "I64", "none")
      /\ TagFields[7] = F(7, "STRING", "none")
    BY DEF TagFields, P
<1>4. /\ FieldOk("Tag", TagFields[1]) /\ TagFields[1].id = 1
      /\ FieldOk("Tag", TagFields[2]) /\ TagFields[2].id = 2
      /\ FieldOk("Tag", TagFields[3]) /\ TagFields[3].id = 3
      /\ FieldOk("Tag", TagFields[4]) /\ TagFields[4].id = 4
      /\ FieldOk("Tag", TagFields[5]) /\ TagFields[5].id = 5
      /\ FieldOk("Tag", TagFields[6]) /\ TagFields[6].id = 6
      /\ FieldOk("Tag", TagFields[7]) /\ TagFields[7].id = 7
    <2>1. FieldOk("Tag", TagFields[1]) /\ TagFields[1].id = 1
        BY <1>3, PlainField
    <2>2. FieldOk("Tag", TagFields[2]) /\ TagFields[2].id = 2
        BY <1>3, PlainField
    <2>3. FieldOk("Tag", TagFields[3]) /\ TagFields[3].id = 3
        BY <1>3, PlainField
    <2>4. FieldOk("Tag", TagFields[4]) /\ TagFields[4].id = 4
        BY <1>3, PlainField
    <2>5. FieldOk("Tag", TagFields[5]) /\ TagFields[5].id = 5
        BY <1>3, PlainField
    <2>6. FieldOk("Tag", TagFields[6]) /\ TagFields[6].id = 6
        BY <1>3, PlainField
    <2>7. FieldOk("Tag", TagFields[7]) /\ TagFields[7].id = 7
        BY <1>3, PlainField
    <2> QED
        BY <2>1, <2>2, <2>3, <2>4, <2>5, <2>6, <2>7
<1>5. \A i \in 1..7 : FieldOk("Tag", TagFields[i])
    BY <1>4
<1>6. \A i, j \in 1..7 : TagFields[i].id = TagFields[j].id => i = j
    BY <1>4
<1> QED
    BY <1>1, <1>2, <1>5, <1>6 DEF StructOk

\* The fields of Log.
LEMMA LogOk == StructOk("Log")
<1>1. Fields["Log"] = LogFields /\ Rank["Log"] \in 0..4
    BY DEF Fields, Rank
<1>2. DOMAIN LogFields = 1..2 /\ Len(LogFields) = 2
    BY DEF LogFields
<1>3. /\ LogFields[1] = F(1, "I64", "none")
      /\ LogFields[2] = F(2, "LIST", "Tag")
    BY DEF LogFields, P
<1>4. /\ FieldOk("Log", LogFields[1]) /\ LogFields[1].id = 1
      /\ FieldOk("Log", LogFields[2]) /\ LogFields[2].id = 2
    <2>1. FieldOk("Log", LogFields[1]) /\ LogFields[1].id = 1
        BY <1>3, PlainField
    <2>2. FieldOk("Log", LogFields[2]) /\ LogFields[2].id = 2
        <3>1. "Tag" \in DOMAIN Fields /\ Rank["Tag"] < Rank["Log"] /\ "LIST" \in Nested
            BY DEF Fields, Rank, Nested
        <3> QED
            BY <1>3, <3>1, NestedField
    <2> QED
        BY <2>1, <2>2
<1>5. \A i \in 1..2 : FieldOk("Log", LogFields[i])
    BY <1>4
<1>6. \A i, j \in 1..2 : LogFields[i].id = LogFields[j].id => i = j
    BY <1>4
<1> QED
    BY <1>1, <1>2, <1>5, <1>6 DEF StructOk

\* The fields of SpanRef.
LEMMA SpanRefOk == StructOk("SpanRef")
<1>1. Fields["SpanRef"] = SpanRefFields /\ Rank["SpanRef"] \in 0..4
    BY DEF Fields, Rank
<1>2. DOMAIN SpanRefFields = 1..4 /\ Len(SpanRefFields) = 4
    BY DEF SpanRefFields
<1>3. /\ SpanRefFields[1] = F(1, "I32", "none")
      /\ SpanRefFields[2] = F(2, "I64", "none")
      /\ SpanRefFields[3] = F(3, "I64", "none")
      /\ SpanRefFields[4] = F(4, "I64", "none")
    BY DEF SpanRefFields, P
<1>4. /\ FieldOk("SpanRef", SpanRefFields[1]) /\ SpanRefFields[1].id = 1
      /\ FieldOk("SpanRef", SpanRefFields[2]) /\ SpanRefFields[2].id = 2
      /\ FieldOk("SpanRef", SpanRefFields[3]) /\ SpanRefFields[3].id = 3
      /\ FieldOk("SpanRef", SpanRefFields[4]) /\ SpanRefFields[4].id = 4
    <2>1. FieldOk("SpanRef", SpanRefFields[1]) /\ SpanRefFields[1].id = 1
        BY <1>3, PlainField
    <2>2. FieldOk("SpanRef", SpanRefFields[2]) /\ SpanRefFields[2].id = 2
        BY <1>3, PlainField
    <2>3. FieldOk("SpanRef", SpanRefFields[3]) /\ SpanRefFields[3].id = 3
        BY <1>3, PlainField
    <2>4. FieldOk("SpanRef", SpanRefFields[4]) /\ SpanRefFields[4].id = 4
        BY <1>3, PlainField
    <2> QED
        BY <2>1, <2>2, <2>3, <2>4
<1>5. \A i \in 1..4 : FieldOk("SpanRef", SpanRefFields[i])
    BY <1>4
<1>6. \A i, j \in 1..4 : SpanRefFields[i].id = SpanRefFields[j].id => i = j
    BY <1>4
<1> QED
    BY <1>1, <1>2, <1>5, <1>6 DEF StructOk

\* The fields of Span.
LEMMA SpanOk == StructOk("Span")
<1>1. Fields["Span"] = SpanFields /\ Rank["Span"] \in 0..4
    BY DEF Fields, Rank
<1>2. DOMAIN SpanFields = 1..11 /\ Len(SpanFields) = 11
    BY DEF SpanFields
<1>3. /\ SpanFields[1] = F(1, "I64", "none")
      /\ SpanFields[2] = F(2, "I64", "none")
      /\ SpanFields[3] = F(3, "I64", "none")
      /\ SpanFields[4] = F(4, "I64", "none")
      /\ SpanFields[5] = F(5, "STRING", "none")
      /\ SpanFields[6] = F(6, "LIST", "SpanRef")
      /\ SpanFields[7] = F(7, "I32", "none")
      /\ SpanFields[8] = F(8, "I64", "none")
      /\ SpanFields[9] = F(9, "I64", "none")
      /\ SpanFields[10] = F(10, "LIST", "Tag")
      /\ SpanFields[11] = F(11, "LIST", "Log")
    BY DEF SpanFields, P
<1>4. /\ FieldOk("Span", SpanFields[1]) /\ SpanFields[1].id = 1
      /\ FieldOk("Span", SpanFields[2]) /\ SpanFields[2].id = 2
      /\ FieldOk("Span", SpanFields[3]) /\ SpanFields[3].id = 3
      /\ FieldOk("Span", SpanFields[4]) /\ SpanFields[4].id = 4
      /\ FieldOk("Span", SpanFields[5]) /\ SpanFields[5].id = 5
      /\ FieldOk("Span", SpanFields[6]) /\ SpanFields[6].id = 6
      /\ FieldOk("Span", SpanFields[7]) /\ SpanFields[7].id = 7
      /\ FieldOk("Span", SpanFields[8]) /\ SpanFields[8].id = 8
      /\ FieldOk("Span", SpanFields[9]) /\ SpanFields[9].id = 9
      /\ FieldOk("Span", SpanFields[10]) /\ SpanFields[10].id = 10
      /\ FieldOk("Span", SpanFields[11]) /\ SpanFields[11].id = 11
    <2>1. FieldOk("Span", SpanFields[1]) /\ SpanFields[1].id = 1
        BY <1>3, PlainField
    <2>2. FieldOk("Span", SpanFields[2]) /\ SpanFields[2].id = 2
        BY <1>3, PlainField
    <2>3. FieldOk("Span", SpanFields[3]) /\ SpanFields[3].id = 3
        BY <1>3, PlainField
    <2>4. FieldOk("Span", SpanFields[4]) /\ SpanFields[4].id = 4
        BY <1>3, PlainField
    <2>5. FieldOk("Span", SpanFields[5]) /\ SpanFields[5].id = 5
        BY <1>3, PlainField
    <2>6. FieldOk("Span", SpanFields[6]) /\ SpanFields[6].id = 6
        <3>1. "SpanRef" \in DOMAIN Fields /\ Rank["SpanRef"] < Rank["Span"] /\ "LIST" \in Nested
            BY DEF Fields, Rank, Nested
        <3> QED
            BY <1>3, <3>1, NestedField
    <2>7. FieldOk("Span", SpanFields[7]) /\ SpanFields[7].id = 7
        BY <1>3, PlainField
    <2>8. FieldOk("Span", SpanFields[8]) /\ SpanFields[8].id = 8
        BY <1>3, PlainField
    <2>9. FieldOk("Span", SpanFields[9]) /\ SpanFields[9].id = 9
        BY <1>3, PlainField
    <2>10. FieldOk("Span", SpanFields[10]) /\ SpanFields[10].id = 10
        <3>1. "Tag" \in DOMAIN Fields /\ Rank["Tag"] < Rank["Span"] /\ "LIST" \in Nested
            BY DEF Fields, Rank, Nested
        <3> QED
            BY <1>3, <3>1, NestedField
    <2>11. FieldOk("Span", SpanFields[11]) /\ SpanFields[11].id = 11
        <3>1. "Log" \in DOMAIN Fields /\ Rank["Log"] < Rank["Span"] /\ "LIST" \in Nested
            BY DEF Fields, Rank, Nested
        <3> QED
            BY <1>3, <3>1, NestedField
    <2> QED
        BY <2>1, <2>2, <2>3, <2>4, <2>5, <2>6, <2>7, <2>8, <2>9, <2>10, <2>11
<1>5. \A i \in 1..11 : FieldOk("Span", SpanFields[i])
    BY <1>4
<1>6. \A i, j \in 1..11 : SpanFields[i].id = SpanFields[j].id => i = j
    BY <1>4
<1> QED
    BY <1>1, <1>2, <1>5, <1>6 DEF StructOk

\* The fields of Process.
LEMMA ProcessOk == StructOk("Process")
<1>1. Fields["Process"] = ProcessFields /\ Rank["Process"] \in 0..4
    BY DEF Fields, Rank
<1>2. DOMAIN ProcessFields = 1..2 /\ Len(ProcessFields) = 2
    BY DEF ProcessFields
<1>3. /\ ProcessFields[1] = F(1, "STRING", "none")
      /\ ProcessFields[2] = F(2, "LIST", "Tag")
    BY DEF ProcessFields, P
<1>4. /\ FieldOk("Process", ProcessFields[1]) /\ ProcessFields[1].id = 1
      /\ FieldOk("Process", ProcessFields[2]) /\ ProcessFields[2].id = 2
    <2>1. FieldOk("Process", ProcessFields[1]) /\ ProcessFields[1].id = 1
        BY <1>3, PlainField
    <2>2. FieldOk("Process", ProcessFields[2]) /\ ProcessFields[2].id = 2
        <3>1. "Tag" \in DOMAIN Fields /\ Rank["Tag"] < Rank["Process"] /\ "LIST" \in Nested
            BY DEF Fields, Rank, Nested
        <3> QED
            BY <1>3, <3>1, NestedField
    <2> QED
        BY <2>1, <2>2
<1>5. \A i \in 1..2 : FieldOk("Process", ProcessFields[i])
    BY <1>4
<1>6. \A i, j \in 1..2 : ProcessFields[i].id = ProcessFields[j].id => i = j
    BY <1>4
<1> QED
    BY <1>1, <1>2, <1>5, <1>6 DEF StructOk

\* The fields of Batch.
LEMMA BatchOk == StructOk("Batch")
<1>1. Fields["Batch"] = BatchFields /\ Rank["Batch"] \in 0..4
    BY DEF Fields, Rank
<1>2. DOMAIN BatchFields = 1..2 /\ Len(BatchFields) = 2
    BY DEF BatchFields
<1>3. /\ BatchFields[1] = F(1, "STRUCT", "Process")
      /\ BatchFields[2] = F(2, "LIST", "Span")
    BY DEF BatchFields, P
<1>4. /\ FieldOk("Batch", BatchFields[1]) /\ BatchFields[1].id = 1
      /\ FieldOk("Batch", BatchFields[2]) /\ BatchFields[2].id = 2
    <2>1. FieldOk("Batch", BatchFields[1]) /\ BatchFields[1].id = 1
        <3>1. "Process" \in DOMAIN Fields /\ Rank["Process"] < Rank["Batch"] /\ "STRUCT" \in Nested
            BY DEF Fields, Rank, Nested
        <3> QED
            BY <1>3, <3>1, NestedField
    <2>2. FieldOk("Batch", BatchFields[2]) /\ BatchFields[2].id = 2
        <3>1. "Span" \in DOMAIN Fields /\ Rank["Span"] < Rank["Batch"] /\ "LIST" \in Nested
            BY DEF Fields, Rank, Nested
        <3> QED
            BY <1>3, <3>1, NestedField
    <2> QED
        BY <2>1, <2>2
<1>5. \A i \in 1..2 : FieldOk("Batch", BatchFields[i])
    BY <1>4
<1>6. \A i, j \in 1..2 : BatchFields[i].id = BatchFields[j].id => i = j
    BY <1>4
<1> QED
    BY <1>1, <1>2, <1>5, <1>6 DEF StructOk

\* The fields of Args.
LEMMA ArgsOk == StructOk("Args")
<1>1. Fields["Args"] = ArgsFields /\ Rank["Args"] \in 0..4
    BY DEF Fields, Rank
<1>2. DOMAIN ArgsFields = 1..1 /\ Len(ArgsFields) = 1
    BY DEF ArgsFields
<1>3. /\ ArgsFields[1] = F(1, "STRUCT", "Batch")
    BY DEF ArgsFields, P
<1>4. /\ FieldOk("Args", ArgsFields[1]) /\ ArgsFields[1].id = 1
    <2>1. FieldOk("Args", ArgsFields[1]) /\ ArgsFields[1].id = 1
        <3>1. "Batch" \in DOMAIN Fields /\ Rank["Batch"] < Rank["Args"] /\ "STRUCT" \in Nested
            BY DEF Fields, Rank, Nested
        <3> QED
            BY <1>3, <3>1, NestedField
    <2> QED
        BY <2>1
<1>5. \A i \in 1..1 : FieldOk("Args", ArgsFields[i])
    BY <1>4
<1>6. \A i, j \in 1..1 : ArgsFields[i].id = ArgsFields[j].id => i = j
    BY <1>4
<1> QED
    BY <1>1, <1>2, <1>5, <1>6 DEF StructOk

\* The fields of Endpoint.
LEMMA EndpointOk == StructOk("Endpoint")
<1>1. Fields["Endpoint"] = EndpointFields /\ Rank["Endpoint"] \in 0..4
    BY DEF Fields, Rank
<1>2. DOMAIN EndpointFields = 1..4 /\ Len(EndpointFields) = 4
    BY DEF EndpointFields
<1>3. /\ EndpointFields[1] = F(1, "I32", "none")
      /\ EndpointFields[2] = F(2, "I16", "none")
      /\ EndpointFields[3] = F(3, "STRING", "none")
      /\ EndpointFields[4] = F(4, "STRING", "none")
    BY DEF EndpointFields, P
<1>4. /\ FieldOk("Endpoint", EndpointFields[1]) /\ EndpointFields[1].id = 1
      /\ FieldOk("Endpoint", EndpointFields[2]) /\ EndpointFields[2].id = 2
      /\ FieldOk("Endpoint", EndpointFields[3]) /\ EndpointFields[3].id = 3
      /\ FieldOk("Endpoint", EndpointFields[4]) /\ EndpointFields[4].id = 4
    <2>1. FieldOk("Endpoint", EndpointFields[1]) /\ EndpointFields[1].id = 1
        BY <1>3, PlainField
    <2>2. FieldOk("Endpoint", EndpointFields[2]) /\ EndpointFields[2].id = 2
        BY <1>3, PlainField
    <2>3. FieldOk("Endpoint", EndpointFields[3]) /\ EndpointFields[3].id = 3
        BY <1>3, PlainField
    <2>4. FieldOk("Endpoint", EndpointFields[4]) /\ EndpointFields[4].id = 4
        BY <1>3, PlainField
    <2> QED
        BY <2>1, <2>2, <2>3, <2>4
<1>5. \A i \in 1..4 : FieldOk("Endpoint", EndpointFields[i])
    BY <1>4
<1>6. \A i, j \in 1..4 : EndpointFields[i].id = EndpointFields[j].id => i = j
    BY <1>4
<1> QED
    BY <1>1, <1>2, <1>5, <1>6 DEF StructOk

\* The fields of Annotation.
LEMMA AnnotationOk == StructOk("Annotation")
<1>1. Fields["Annotation"] = AnnotationFields /\ Rank["Annotation"] \in 0..4
    BY DEF Fields, Rank
<1>2. DOMAIN AnnotationFields = 1..3 /\ Len(AnnotationFields) = 3
    BY DEF AnnotationFields
<1>3. /\ AnnotationFields[1] = F(1, "I64", "none")
      /\ AnnotationFields[2] = F(2, "STRING", "none")
      /\ AnnotationFields[3] = F(3, "STRUCT", "Endpoint")
    BY DEF AnnotationFields, P
<1>4. /\ FieldOk("Annotation", AnnotationFields[1]) /\ AnnotationFields[1].id = 1
      /\ FieldOk("Annotation", AnnotationFields[2]) /\ AnnotationFields[2].id = 2
      /\ FieldOk("Annotation", AnnotationFields[3]) /\ AnnotationFields[3].id = 3
    <2>1. FieldOk("Annotation", AnnotationFields[1]) /\ AnnotationFields[1].id = 1
        BY <1>3, PlainField
    <2>2. FieldOk("Annotation", AnnotationFields[2]) /\ AnnotationFields[2].id = 2
        BY <1>3, PlainField
    <2>3. FieldOk("Annotation", AnnotationFields[3]) /\ AnnotationFields[3].id = 3
        <3>1. "Endpoint" \in DOMAIN Fields /\ Rank["Endpoint"] < Rank["Annotation"] /\ "STRUCT" \in Nested
            BY DEF Fields, Rank, Nested
        <3> QED
            BY <1>3, <3>1, NestedField
    <2> QED
        BY <2>1, <2>2, <2>3
<1>5. \A i \in 1..3 : FieldOk("Annotation", AnnotationFields[i])
    BY <1>4
<1>6. \A i, j \in 1..3 : AnnotationFields[i].id = AnnotationFields[j].id => i = j
    BY <1>4
<1> QED
    BY <1>1, <1>2, <1>5, <1>6 DEF StructOk

\* The fields of BinaryAnnotation.
LEMMA BinaryAnnotationOk == StructOk("BinaryAnnotation")
<1>1. Fields["BinaryAnnotation"] = BinaryAnnotationFields /\ Rank["BinaryAnnotation"] \in 0..4
    BY DEF Fields, Rank
<1>2. DOMAIN BinaryAnnotationFields = 1..4 /\ Len(BinaryAnnotationFields) = 4
    BY DEF BinaryAnnotationFields
<1>3. /\ BinaryAnnotationFields[1] = F(1, "STRING", "none")
      /\ BinaryAnnotationFields[2] = F(2, "STRING", "none")
      /\ BinaryAnnotationFields[3] = F(3, "I32", "none")
      /\ BinaryAnnotationFields[4] = F(4, "STRUCT", "Endpoint")
    BY DEF BinaryAnnotationFields, P
<1>4. /\ FieldOk("BinaryAnnotation", BinaryAnnotationFields[1]) /\ BinaryAnnotationFields[1].id = 1
      /\ FieldOk("BinaryAnnotation", BinaryAnnotationFields[2]) /\ BinaryAnnotationFields[2].id = 2
      /\ FieldOk("BinaryAnnotation", BinaryAnnotationFields[3]) /\ BinaryAnnotationFields[3].id = 3
      /\ FieldOk("BinaryAnnotation", BinaryAnnotationFields[4]) /\ BinaryAnnotationFields[4].id = 4
    <2>1. FieldOk("BinaryAnnotation", BinaryAnnotationFields[1]) /\ BinaryAnnotationFields[1].id = 1
        BY <1>3, PlainField
    <2>2. FieldOk("BinaryAnnotation", BinaryAnnotationFields[2]) /\ BinaryAnnotationFields[2].id = 2
        BY <1>3, PlainField
    <2>3. FieldOk("BinaryAnnotation", BinaryAnnotationFields[3]) /\ BinaryAnnotationFields[3].id = 3
        BY <1>3, PlainField
    <2>4. FieldOk("BinaryAnnotation", BinaryAnnotationFields[4]) /\ BinaryAnnotationFields[4].id = 4
        <3>1. "Endpoint" \in DOMAIN Fields /\ Rank["Endpoint"] < Rank["BinaryAnnotation"] /\ "STRUCT" \in Nested
            BY DEF Fields, Rank, Nested
        <3> QED
            BY <1>3, <3>1, NestedField
    <2> QED
        BY <2>1, <2>2, <2>3, <2>4
<1>5. \A i \in 1..4 : FieldOk("BinaryAnnotation", BinaryAnnotationFields[i])
    BY <1>4
<1>6. \A i, j \in 1..4 : BinaryAnnotationFields[i].id = BinaryAnnotationFields[j].id => i = j
    BY <1>4
<1> QED
    BY <1>1, <1>2, <1>5, <1>6 DEF StructOk

\* The fields of ZipkinSpan.
LEMMA ZipkinSpanOk == StructOk("ZipkinSpan")
<1>1. Fields["ZipkinSpan"] = ZipkinSpanFields /\ Rank["ZipkinSpan"] \in 0..4
    BY DEF Fields, Rank
<1>2. DOMAIN ZipkinSpanFields = 1..10 /\ Len(ZipkinSpanFields) = 10
    BY DEF ZipkinSpanFields
<1>3. /\ ZipkinSpanFields[1] = F(1, "I64", "none")
      /\ ZipkinSpanFields[2] = F(3, "STRING", "none")
      /\ ZipkinSpanFields[3] = F(4, "I64", "none")
      /\ ZipkinSpanFields[4] = F(5, "I64", "none")
      /\ ZipkinSpanFields[5] = F(6, "LIST", "Annotation")
      /\ ZipkinSpanFields[6] = F(8, "LIST", "BinaryAnnotation")
      /\ ZipkinSpanFields[7] = F(9, "BOOL", "none")
      /\ ZipkinSpanFields[8] = F(10, "I64", "none")
      /\ ZipkinSpanFields[9] = F(11, "I64", "none")
      /\ ZipkinSpanFields[10] = F(12, "I64", "none")
    BY DEF ZipkinSpanFields, P
<1>4. /\ FieldOk("ZipkinSpan", ZipkinSpanFields[1]) /\ ZipkinSpanFields[1].id = 1
      /\ FieldOk("ZipkinSpan", ZipkinSpanFields[2]) /\ ZipkinSpanFields[2].id = 3
      /\ FieldOk("ZipkinSpan", ZipkinSpanFields[3]) /\ ZipkinSpanFields[3].id = 4
      /\ FieldOk("ZipkinSpan", ZipkinSpanFields[4]) /\ ZipkinSpanFields[4].id = 5
      /\ FieldOk("ZipkinSpan", ZipkinSpanFields[5]) /\ ZipkinSpanFields[5].id = 6
      /\ FieldOk("ZipkinSpan", ZipkinSpanFields[6]) /\ ZipkinSpanFields[6].id = 8
      /\ FieldOk("ZipkinSpan", ZipkinSpanFields[7]) /\ ZipkinSpanFields[7].id = 9
      /\ FieldOk("ZipkinSpan", ZipkinSpanFields[8]) /\ ZipkinSpanFields[8].id = 10
      /\ FieldOk("ZipkinSpan", ZipkinSpanFields[9]) /\ ZipkinSpanFields[9].id = 11
      /\ FieldOk("ZipkinSpan", ZipkinSpanFields[10]) /\ ZipkinSpanFields[10].id = 12
    <2>1. FieldOk("ZipkinSpan", ZipkinSpanFields[1]) /\ ZipkinSpanFields[1].id = 1
        BY <1>3, PlainField
    <2>2. FieldOk("ZipkinSpan", ZipkinSpanFields[2]) /\ ZipkinSpanFields[2].id = 3
        BY <1>3, PlainField
    <2>3. FieldOk("ZipkinSpan", ZipkinSpanFields[3]) /\ ZipkinSpanFields[3].id = 4
        BY <1>3, PlainField
    <2>4. FieldOk("ZipkinSpan", ZipkinSpanFields[4]) /\ ZipkinSpanFields[4].id = 5
        BY <1>3, PlainField
    <2>5. FieldOk("ZipkinSpan", ZipkinSpanFields[5]) /\ ZipkinSpanFields[5].id = 6
        <3>1. "Annotation" \in DOMAIN Fields /\ Rank["Annotation"] < Rank["ZipkinSpan"] /\ "LIST" \in Nested
            BY DEF Fields, Rank, Nested
        <3> QED
            BY <1>3, <3>1, NestedField
    <2>6. FieldOk("ZipkinSpan", ZipkinSpanFields[6]) /\ ZipkinSpanFields[6].id = 8
        <3>1. "BinaryAnnotation" \in DOMAIN Fields /\ Rank["BinaryAnnotation"] < Rank["ZipkinSpan"] /\ "LIST" \in Nested
            BY DEF Fields, Rank, Nested
        <3> QED
            BY <1>3, <3>1, NestedField
    <2>7. FieldOk("ZipkinSpan", ZipkinSpanFields[7]) /\ ZipkinSpanFields[7].id = 9
        BY <1>3, PlainField
    <2>8. FieldOk("ZipkinSpan", ZipkinSpanFields[8]) /\ ZipkinSpanFields[8].id = 10
        BY <1>3, PlainField
    <2>9. FieldOk("ZipkinSpan", ZipkinSpanFields[9]) /\ ZipkinSpanFields[9].id = 11
        BY <1>3, PlainField
    <2>10. FieldOk("ZipkinSpan", ZipkinSpanFields[10]) /\ ZipkinSpanFields[10].id = 12
        BY <1>3, PlainField
    <2> QED
        BY <2>1, <2>2, <2>3, <2>4, <2>5, <2>6, <2>7, <2>8, <2>9, <2>10
<1>5. \A i \in 1..10 : FieldOk("ZipkinSpan", ZipkinSpanFields[i])
    BY <1>4
<1>6. \A i, j \in 1..10 : ZipkinSpanFields[i].id = ZipkinSpanFields[j].id => i = j
    BY <1>4
<1> QED
    BY <1>1, <1>2, <1>5, <1>6 DEF StructOk

\* The fields of ZipkinArgs.
LEMMA ZipkinArgsOk == StructOk("ZipkinArgs")
<1>1. Fields["ZipkinArgs"] = ZipkinArgsFields /\ Rank["ZipkinArgs"] \in 0..4
    BY DEF Fields, Rank
<1>2. DOMAIN ZipkinArgsFields = 1..1 /\ Len(ZipkinArgsFields) = 1
    BY DEF ZipkinArgsFields
<1>3. /\ ZipkinArgsFields[1] = F(1, "LIST", "ZipkinSpan")
    BY DEF ZipkinArgsFields, P
<1>4. /\ FieldOk("ZipkinArgs", ZipkinArgsFields[1]) /\ ZipkinArgsFields[1].id = 1
    <2>1. FieldOk("ZipkinArgs", ZipkinArgsFields[1]) /\ ZipkinArgsFields[1].id = 1
        <3>1. "ZipkinSpan" \in DOMAIN Fields /\ Rank["ZipkinSpan"] < Rank["ZipkinArgs"] /\ "LIST" \in Nested
            BY DEF Fields, Rank, Nested
        <3> QED
            BY <1>3, <3>1, NestedField
    <2> QED
        BY <2>1
<1>5. \A i \in 1..1 : FieldOk("ZipkinArgs", ZipkinArgsFields[i])
    BY <1>4
<1>6. \A i, j \in 1..1 : ZipkinArgsFields[i].id = ZipkinArgsFields[j].id => i = j
    BY <1>4
<1> QED
    BY <1>1, <1>2, <1>5, <1>6 DEF StructOk

\* What is to be known of every field of every struct.
LEMMA StructsOk == \A of \in DOMAIN Fields : StructOk(of)
BY TagOk, LogOk, SpanRefOk, SpanOk, ProcessOk, BatchOk, ArgsOk, EndpointOk, AnnotationOk,
   BinaryAnnotationOk, ZipkinSpanOk, ZipkinArgsOk DEF Fields

\* The field of a struct that has this id.
FieldOf(of, id) == CHOOSE f \in Range(Fields[of]) : f.id = id

\* The struct has one field with the id.
LEMMA FieldOfIs ==
    ASSUME NEW of \in DOMAIN Fields
    PROVE  /\ \A id \in IdsOf(of) : FieldOk(of, FieldOf(of, id)) /\ FieldOf(of, id).id = id
           /\ \A i \in DOMAIN Fields[of] : /\ Fields[of][i].id \in IdsOf(of)
                                           /\ FieldOf(of, Fields[of][i].id) = Fields[of][i]
<1>1. StructOk(of)
    BY StructsOk
<1>2. Range(Fields[of]) = {Fields[of][i] : i \in DOMAIN Fields[of]}
    BY DEF Range
<1>3. ASSUME NEW i \in DOMAIN Fields[of]
      PROVE  FieldOf(of, Fields[of][i].id) = Fields[of][i] /\ FieldOk(of, Fields[of][i])
    <2>1. \A f \in Range(Fields[of]) : f.id = Fields[of][i].id => f = Fields[of][i]
        BY <1>1, <1>2 DEF StructOk
    <2>2. Fields[of][i] \in Range(Fields[of])
        BY <1>2
    <2>3. FieldOk(of, Fields[of][i])
        BY <1>1 DEF StructOk
    <2> QED
        BY <2>1, <2>2, <2>3 DEF FieldOf
<1> QED
    BY <1>3 DEF IdsOf

\* What is left of the value of a field that an agent knows, when Part is what is left of a struct.
Left(f, v, Part(_, _)) ==
    CASE f.type = "STRUCT" -> Part(f.of, v)
      [] f.type = "LIST"   -> [i \in DOMAIN v |-> Part(f.of, v[i])]
      [] OTHER             -> v

Fifth(o, unknown, x) == Without(o, unknown, x, LAMBDA d, y : y)
Fourth(o, unknown, x) == Without(o, unknown, x, LAMBDA d, y : Fifth(d, unknown, y))
Third(o, unknown, x) == Without(o, unknown, x, LAMBDA d, y : Fourth(d, unknown, y))
Second(o, unknown, x) == Without(o, unknown, x, LAMBDA d, y : Third(d, unknown, y))

Kept(of, unknown, v) == {i \in IdsOf(of) \intersect DOMAIN v : <<of, i>> \notin unknown}

\* What is left of the value of a field that an agent knows.
VisibleIn(f, unknown, v) == Left(f, v, LAMBDA d, y : Visible(d, unknown, y))

\* Structs in structs, to the depth that the fields have.
LEMMA VisibleDef ==
    ASSUME NEW of \in DOMAIN Fields, NEW unknown, NEW v
    PROVE  Visible(of, unknown, v)
               = [id \in Kept(of, unknown, v) |-> VisibleIn(FieldOf(of, id), unknown, v[id])]
<1> DEFINE S5(d, y) == Fifth(d, unknown, y)
           S4(d, y) == Fourth(d, unknown, y)
           S3(d, y) == Third(d, unknown, y)
           S2(d, y) == Second(d, unknown, y)
           S1(d, y) == Visible(d, unknown, y)
           L5(f, x) == Left(f, x, LAMBDA d, y : y)
           L4(f, x) == Left(f, x, S5)
           L3(f, x) == Left(f, x, S4)
           L2(f, x) == Left(f, x, S3)
           L1(f, x) == Left(f, x, S2)
           L0(f, x) == Left(f, x, S1)
<1>1. ASSUME NEW o, NEW x
      PROVE  /\ S5(o, x) = [id \in Kept(o, unknown, x) |-> L5(FieldOf(o, id), x[id])]
             /\ S4(o, x) = [id \in Kept(o, unknown, x) |-> L4(FieldOf(o, id), x[id])]
             /\ S3(o, x) = [id \in Kept(o, unknown, x) |-> L3(FieldOf(o, id), x[id])]
             /\ S2(o, x) = [id \in Kept(o, unknown, x) |-> L2(FieldOf(o, id), x[id])]
             /\ S1(o, x) = [id \in Kept(o, unknown, x) |-> L1(FieldOf(o, id), x[id])]
    BY DEF Visible, Fifth, Fourth, Third, Second, Without, Left, FieldOf, Kept
<1>2. ASSUME NEW f, f.type \notin Nested, NEW x
      PROVE  /\ L5(f, x) = x /\ L4(f, x) = x /\ L3(f, x) = x
             /\ L2(f, x) = x /\ L1(f, x) = x /\ L0(f, x) = x
    BY <1>2 DEF Left, Nested
<1>3. ASSUME NEW f
      PROVE  /\ (\A y : S5(f.of, y) = S4(f.of, y)) => \A x : L4(f, x) = L3(f, x)
             /\ (\A y : S4(f.of, y) = S3(f.of, y)) => \A x : L3(f, x) = L2(f, x)
             /\ (\A y : S3(f.of, y) = S2(f.of, y)) => \A x : L2(f, x) = L1(f, x)
             /\ (\A y : S2(f.of, y) = S1(f.of, y)) => \A x : L1(f, x) = L0(f, x)
    BY DEF Left
<1>4. \A o \in DOMAIN Fields : \A x : \A id \in Kept(o, unknown, x) :
          FieldOk(o, FieldOf(o, id))
    BY FieldOfIs DEF Kept
<1>6. \A f, x : VisibleIn(f, unknown, x) = L0(f, x)
    BY DEF VisibleIn
<1> HIDE DEF S5, S4, S3, S2, L5, L4, L3, L2, L1, L0
<1>7. \A o \in DOMAIN Fields : \A x : Rank[o] <= 0 => S5(o, x) = S4(o, x)
    <2> TAKE o \in DOMAIN Fields
    <2> TAKE x
    <2> HAVE Rank[o] <= 0
    <2>1. ASSUME NEW id \in Kept(o, unknown, x)
          PROVE  L5(FieldOf(o, id), x[id]) = L4(FieldOf(o, id), x[id])
        <3>1. PICK f : f = FieldOf(o, id) /\ FieldOk(o, f)
            BY <1>4
        <3>2. f.type \notin Nested
            BY <3>1, Ranks DEF FieldOk
        <3> QED
            BY <3>1, <3>2, <1>2
    <2> QED
        BY <1>1, <2>1
<1>8. \A o \in DOMAIN Fields : \A x : Rank[o] <= 1 => S4(o, x) = S3(o, x)
    <2> TAKE o \in DOMAIN Fields
    <2> TAKE x
    <2> HAVE Rank[o] <= 1
    <2>1. ASSUME NEW id \in Kept(o, unknown, x)
          PROVE  L4(FieldOf(o, id), x[id]) = L3(FieldOf(o, id), x[id])
        <3>1. PICK f : f = FieldOf(o, id) /\ FieldOk(o, f)
            BY <1>4
        <3>2. f.type \in Nested => \A y : S5(f.of, y) = S4(f.of, y)
            BY <3>1, <1>7, Ranks DEF FieldOk
        <3> QED
            BY <3>1, <3>2, <1>2, <1>3
    <2> QED
        BY <1>1, <2>1
<1>9. \A o \in DOMAIN Fields : \A x : Rank[o] <= 2 => S3(o, x) = S2(o, x)
    <2> TAKE o \in DOMAIN Fields
    <2> TAKE x
    <2> HAVE Rank[o] <= 2
    <2>1. ASSUME NEW id \in Kept(o, unknown, x)
          PROVE  L3(FieldOf(o, id), x[id]) = L2(FieldOf(o, id), x[id])
        <3>1. PICK f : f = FieldOf(o, id) /\ FieldOk(o, f)
            BY <1>4
        <3>2. f.type \in Nested => \A y : S4(f.of, y) = S3(f.of, y)
            BY <3>1, <1>8, Ranks DEF FieldOk
        <3> QED
            BY <3>1, <3>2, <1>2, <1>3
    <2> QED
        BY <1>1, <2>1
<1>10. \A o \in DOMAIN Fields : \A x : Rank[o] <= 3 => S2(o, x) = S1(o, x)
    <2> TAKE o \in DOMAIN Fields
    <2> TAKE x
    <2> HAVE Rank[o] <= 3
    <2>1. ASSUME NEW id \in Kept(o, unknown, x)
          PROVE  L2(FieldOf(o, id), x[id]) = L1(FieldOf(o, id), x[id])
        <3>1. PICK f : f = FieldOf(o, id) /\ FieldOk(o, f)
            BY <1>4
        <3>2. f.type \in Nested => \A y : S3(f.of, y) = S2(f.of, y)
            BY <3>1, <1>9, Ranks DEF FieldOk
        <3> QED
            BY <3>1, <3>2, <1>2, <1>3
    <2> QED
        BY <1>1, <2>1
<1>11. ASSUME NEW id \in Kept(of, unknown, v)
       PROVE  L1(FieldOf(of, id), v[id]) = L0(FieldOf(of, id), v[id])
    <2>1. PICK f : f = FieldOf(of, id) /\ FieldOk(of, f)
        BY <1>4
    <2>2. f.type \in Nested => \A y : S2(f.of, y) = S1(f.of, y)
        BY <2>1, <1>10, Ranks DEF FieldOk
    <2> QED
        BY <2>1, <2>2, <1>2, <1>3
<1> QED
    BY <1>1, <1>6, <1>11

\* The value of a field that is set, when Part is what a struct has to be.
Fit(f, v, Part(_, _)) ==
    CASE f.type = "STRUCT" -> Part(f.of, v)
      [] f.type = "LIST"   -> IsList(v) /\ \A j \in DOMAIN v : Part(f.of, v[j])
      [] OTHER             -> Held(f.type, v)

FifthOk(o, x) == ProperStruct(o, x, LAMBDA d, y : FALSE)
FourthOk(o, x) == ProperStruct(o, x, LAMBDA d, y : FifthOk(d, y))
ThirdOk(o, x) == ProperStruct(o, x, LAMBDA d, y : FourthOk(d, y))
SecondOk(o, x) == ProperStruct(o, x, LAMBDA d, y : ThirdOk(d, y))

\* The value of a field that is set.
ProperIn(f, v) == Fit(f, v, LAMBDA d, y : Proper(d, y))

\* A struct as a function from the ids of its fields.
Complete(of, v) ==
    /\ v = [id \in DOMAIN v |-> v[id]]
    /\ IdsOf(of) \ Isset[of] \subseteq DOMAIN v /\ DOMAIN v \subseteq IdsOf(of)

\* What structs are in a proper one.
LEMMA ProperDef ==
    ASSUME NEW of \in DOMAIN Fields, NEW v, Proper(of, v)
    PROVE  /\ Complete(of, v)
           /\ \A i \in DOMAIN Fields[of] :
                 Fields[of][i].id \in DOMAIN v => ProperIn(Fields[of][i], v[Fields[of][i].id])
<1> DEFINE S5(d, y) == FifthOk(d, y)
           S4(d, y) == FourthOk(d, y)
           S3(d, y) == ThirdOk(d, y)
           S2(d, y) == SecondOk(d, y)
           S1(d, y) == Proper(d, y)
           L5(f, x) == Fit(f, x, LAMBDA d, y : FALSE)
           L4(f, x) == Fit(f, x, S5)
           L3(f, x) == Fit(f, x, S4)
           L2(f, x) == Fit(f, x, S3)
           L1(f, x) == Fit(f, x, S2)
           L0(f, x) == Fit(f, x, S1)
<1>1. ASSUME NEW o, NEW x
      PROVE  /\ S5(o, x) <=> Complete(o, x) /\ \A i \in DOMAIN Fields[o] :
                               Fields[o][i].id \in DOMAIN x => L5(Fields[o][i], x[Fields[o][i].id])
             /\ S4(o, x) <=> Complete(o, x) /\ \A i \in DOMAIN Fields[o] :
                               Fields[o][i].id \in DOMAIN x => L4(Fields[o][i], x[Fields[o][i].id])
             /\ S3(o, x) <=> Complete(o, x) /\ \A i \in DOMAIN Fields[o] :
                               Fields[o][i].id \in DOMAIN x => L3(Fields[o][i], x[Fields[o][i].id])
             /\ S2(o, x) <=> Complete(o, x) /\ \A i \in DOMAIN Fields[o] :
                               Fields[o][i].id \in DOMAIN x => L2(Fields[o][i], x[Fields[o][i].id])
             /\ S1(o, x) <=> Complete(o, x) /\ \A i \in DOMAIN Fields[o] :
                               Fields[o][i].id \in DOMAIN x => L1(Fields[o][i], x[Fields[o][i].id])
    <2>1. S5(o, x) <=> Complete(o, x) /\ \A i \in DOMAIN Fields[o] :
                               Fields[o][i].id \in DOMAIN x => L5(Fields[o][i], x[Fields[o][i].id])
        BY DEF FifthOk, ProperStruct, Fit, Complete
    <2>2. S4(o, x) <=> Complete(o, x) /\ \A i \in DOMAIN Fields[o] :
                               Fields[o][i].id \in DOMAIN x => L4(Fields[o][i], x[Fields[o][i].id])
        BY DEF FourthOk, ProperStruct, Fit, Complete
    <2>3. S3(o, x) <=> Complete(o, x) /\ \A i \in DOMAIN Fields[o] :
                               Fields[o][i].id \in DOMAIN x => L3(Fields[o][i], x[Fields[o][i].id])
        BY DEF ThirdOk, ProperStruct, Fit, Complete
    <2>4. S2(o, x) <=> Complete(o, x) /\ \A i \in DOMAIN Fields[o] :
                               Fields[o][i].id \in DOMAIN x => L2(Fields[o][i], x[Fields[o][i].id])
        BY DEF SecondOk, ProperStruct, Fit, Complete
    <2>5. S1(o, x) <=> Complete(o, x) /\ \A i \in DOMAIN Fields[o] :
                               Fields[o][i].id \in DOMAIN x => L1(Fields[o][i], x[Fields[o][i].id])
        BY DEF Proper, FifthOk, FourthOk, ThirdOk, SecondOk, ProperStruct, Fit, Complete
    <2> QED
        BY <2>1, <2>2, <2>3, <2>4, <2>5
<1>2. ASSUME NEW f, f.type \notin Nested, NEW x
      PROVE  /\ L5(f, x) <=> Held(f.type, x)
             /\ L4(f, x) <=> Held(f.type, x)
    BY <1>2 DEF Fit, Nested
<1>3. ASSUME NEW f
      PROVE  /\ (\A y : S5(f.of, y) => S4(f.of, y)) => \A x : L4(f, x) => L3(f, x)
             /\ (\A y : S4(f.of, y) => S3(f.of, y)) => \A x : L3(f, x) => L2(f, x)
             /\ (\A y : S3(f.of, y) => S2(f.of, y)) => \A x : L2(f, x) => L1(f, x)
             /\ (\A y : S2(f.of, y) => S1(f.of, y)) => \A x : L1(f, x) => L0(f, x)
    BY DEF Fit
<1>4. ASSUME NEW f, f.type \notin Nested, NEW x
      PROVE  /\ L3(f, x) <=> Held(f.type, x)
             /\ L2(f, x) <=> Held(f.type, x)
             /\ L1(f, x) <=> Held(f.type, x)
             /\ L0(f, x) <=> Held(f.type, x)
    BY <1>4 DEF Fit, Nested
<1>5. \A o \in DOMAIN Fields : \A i \in DOMAIN Fields[o] : FieldOk(o, Fields[o][i])
    BY StructsOk DEF StructOk
<1>6. \A f, x : ProperIn(f, x) <=> L0(f, x)
    BY DEF ProperIn
<1> HIDE DEF S5, S4, S3, S2, L5, L4, L3, L2, L1, L0
<1>7. \A o \in DOMAIN Fields : \A x : Rank[o] <= 0 => (S5(o, x) => S4(o, x))
    <2> TAKE o \in DOMAIN Fields
    <2> TAKE x
    <2> HAVE Rank[o] <= 0
    <2>1. ASSUME NEW i \in DOMAIN Fields[o], NEW y
          PROVE  L5(Fields[o][i], y) => L4(Fields[o][i], y)
        <3>1. PICK f : f = Fields[o][i] /\ FieldOk(o, f)
            BY <1>5
        <3>2. f.type \notin Nested
            BY <3>1, Ranks DEF FieldOk
        <3> QED
            BY <3>1, <3>2, <1>2, <1>4
    <2> QED
        BY <1>1, <2>1
<1>8. \A o \in DOMAIN Fields : \A x : Rank[o] <= 1 => (S4(o, x) => S3(o, x))
    <2> TAKE o \in DOMAIN Fields
    <2> TAKE x
    <2> HAVE Rank[o] <= 1
    <2>1. ASSUME NEW i \in DOMAIN Fields[o], NEW y
          PROVE  L4(Fields[o][i], y) => L3(Fields[o][i], y)
        <3>1. PICK f : f = Fields[o][i] /\ FieldOk(o, f)
            BY <1>5
        <3>2. f.type \in Nested => \A z : S5(f.of, z) => S4(f.of, z)
            BY <3>1, <1>7, Ranks DEF FieldOk
        <3> QED
            BY <3>1, <3>2, <1>2, <1>3, <1>4
    <2> QED
        BY <1>1, <2>1
<1>9. \A o \in DOMAIN Fields : \A x : Rank[o] <= 2 => (S3(o, x) => S2(o, x))
    <2> TAKE o \in DOMAIN Fields
    <2> TAKE x
    <2> HAVE Rank[o] <= 2
    <2>1. ASSUME NEW i \in DOMAIN Fields[o], NEW y
          PROVE  L3(Fields[o][i], y) => L2(Fields[o][i], y)
        <3>1. PICK f : f = Fields[o][i] /\ FieldOk(o, f)
            BY <1>5
        <3>2. f.type \in Nested => \A z : S4(f.of, z) => S3(f.of, z)
            BY <3>1, <1>8, Ranks DEF FieldOk
        <3> QED
            BY <3>1, <3>2, <1>2, <1>3, <1>4
    <2> QED
        BY <1>1, <2>1
<1>10. \A o \in DOMAIN Fields : \A x : Rank[o] <= 3 => (S2(o, x) => S1(o, x))
    <2> TAKE o \in DOMAIN Fields
    <2> TAKE x
    <2> HAVE Rank[o] <= 3
    <2>1. ASSUME NEW i \in DOMAIN Fields[o], NEW y
          PROVE  L2(Fields[o][i], y) => L1(Fields[o][i], y)
        <3>1. PICK f : f = Fields[o][i] /\ FieldOk(o, f)
            BY <1>5
        <3>2. f.type \in Nested => \A z : S3(f.of, z) => S2(f.of, z)
            BY <3>1, <1>9, Ranks DEF FieldOk
        <3> QED
            BY <3>1, <3>2, <1>2, <1>3, <1>4
    <2> QED
        BY <1>1, <2>1
<1>11. ASSUME NEW i \in DOMAIN Fields[of], NEW y
       PROVE  L1(Fields[of][i], y) => L0(Fields[of][i], y)
    <2>1. PICK f : f = Fields[of][i] /\ FieldOk(of, f)
        BY <1>5
    <2>2. f.type \in Nested => \A x : S2(f.of, x) => S1(f.of, x)
        BY <2>1, <1>10, Ranks DEF FieldOk
    <2> QED
        BY <2>1, <2>2, <1>3, <1>4
<1> QED
    BY <1>1, <1>6, <1>11

-----------------------------------------------------------------------------
(* Steps of the agent. *)

\* As what kind of struct a field is read, and what is found when its value is x and the
\* later fields are y.
Kind(of, unknown, id, type) ==
    IF Known(of, unknown, id, type) = {} THEN Nothing
    ELSE (CHOOSE d \in Known(of, unknown, id, type) : TRUE).of
Found(of, unknown, id, type, x, y) == WithField(Known(of, unknown, id, type) # {}, id, x, y)

\* One field of known header and known value, before the fields that are later.
LEMMA OneField ==
    ASSUME NEW value, NEW of, NEW unknown, NEW later, NEW f, NEW type, Is(f.types, type),
           NEW x, Is(value[type][Kind(of, unknown, f.id, type)][f.code][f.rest], x),
           NEW y, Is(later[f.id][x.rest], y)
    PROVE  Is(FieldIs(value, of, unknown, f, later),
              [value |-> Found(of, unknown, f.id, type, x.value, y.value), rest |-> y.rest])
<1> DEFINE Kn(t) == Known(of, unknown, f.id, t)
           Inner(t) == IF Kn(t) = {} THEN Nothing ELSE (CHOOSE d \in Kn(t) : TRUE).of
           One(t, a, b) == [value |-> WithField(Kn(t) # {}, f.id, a.value, b.value), rest |-> b.rest]
           Some(t, S) == UNION {{One(t, a, b) : b \in later[f.id][a.rest]} : a \in S}
           All(t) == Some(t, value[t][Inner(t)][f.code][f.rest])
<1>1. FieldIs(value, of, unknown, f, later) = UNION {All(t) : t \in f.types}
    BY DEF FieldIs
<1>2. Inner(type) = Kind(of, unknown, f.id, type)
    BY DEF Kind
<1> HIDE DEF One, Inner
<1>3. Some(type, {x}) = {One(type, x, y)}
    <2>1. later[f.id][x.rest] = {y}
        BY DEF Is
    <2> QED
        BY <2>1
<1> HIDE DEF Some
<1>4. All(type) = {One(type, x, y)} /\ f.types = {type}
    BY <1>2, <1>3 DEF Is
<1> HIDE DEF All
<1>5. FieldIs(value, of, unknown, f, later) = {One(type, x, y)}
    BY <1>1, <1>4
<1> QED
    BY <1>5 DEF One, Is, Found

\* A pass of a loop that finds a field.
LEMMA PassField ==
    ASSUME NEW p, NEW value, NEW of, NEW unknown, NEW later, NEW s, NEW last, NEW f,
           Is(NextField(p, s, last), f), f.types # {}
    PROVE  Pass(p, value, of, unknown, later, s, last) = FieldIs(value, of, unknown, f, later)
BY DEF Pass, Is

\* A pass of a loop that finds the stop.
LEMMA PassStop ==
    ASSUME NEW p, NEW value, NEW of, NEW unknown, NEW later, NEW s, NEW last, NEW f,
           Is(NextField(p, s, last), f), f.types = {}
    PROVE  Is(Pass(p, value, of, unknown, later, s, last), [value |-> <<>>, rest |-> f.rest])
BY DEF Pass, Is

\* The passes that are left, where there is one at least.
LEMMA FieldsAtIs ==
    ASSUME NEW p, NEW value, NEW of, NEW unknown, NEW k \in Nat \ {0},
           NEW last \in Int, NEW s \in Seq(Int)
    PROVE  FieldsAt(p, value, of, unknown)[k][last][s]
               = Pass(p, value, of, unknown, FieldsAt(p, value, of, unknown)[k - 1], s, last)
<1>1. PICK later : later = FieldsAt(p, value, of, unknown)[k - 1]
    OBVIOUS
<1>2. FieldsAt(p, value, of, unknown)[k] = Passes(p, value, of, unknown, k, later)
    BY <1>1, FieldsAtDef
<1>3. Passes(p, value, of, unknown, k, later)[last][s] = Pass(p, value, of, unknown, later, s, last)
    BY DEF Passes
<1> QED
    BY <1>1, <1>2, <1>3

\* What an agent knows of a field: at most the one of the table.
LEMMA KnownField ==
    ASSUME NEW of \in DOMAIN Fields, NEW i \in DOMAIN Fields[of], NEW unknown
    PROVE  Known(of, unknown, Fields[of][i].id, Fields[of][i].type)
               = IF <<of, Fields[of][i].id>> \in unknown THEN {} ELSE {Fields[of][i]}
<1>1. StructOk(of)
    BY StructsOk
<1>2. Range(Fields[of]) = {Fields[of][j] : j \in DOMAIN Fields[of]}
    BY DEF Range
<1>3. of # Nothing
    BY DEF Fields, Nothing
<1> QED
    BY <1>1, <1>2, <1>3 DEF StructOk, Known

\* Levels an agent needs to read or skip the fields of a struct.
LevelsOf(of) == 2 * Rank[of] + 1

\* The fields from the i-th on, and what an agent sees of them.
From(of, i) == {Fields[of][j].id : j \in {j \in DOMAIN Fields[of] : i <= j}}
Seen(of, unknown, v, i) ==
    [id \in Kept(of, unknown, v) \intersect From(of, i) |-> VisibleIn(FieldOf(of, id), unknown, v[id])]

\* What the next field adds.
LEMMA SeenNext ==
    ASSUME NEW of \in DOMAIN Fields, NEW unknown, NEW v, NEW i \in DOMAIN Fields[of],
           NEW id, id = Fields[of][i].id
    PROVE  /\ <<of, id>> \in unknown \/ id \notin DOMAIN v
                  => Seen(of, unknown, v, i) = Seen(of, unknown, v, i + 1)
           /\ <<of, id>> \notin unknown /\ id \in DOMAIN v
                  => Seen(of, unknown, v, i)
                         = WithField(TRUE, id, VisibleIn(Fields[of][i], unknown, v[id]),
                                     Seen(of, unknown, v, i + 1))
<1>1. StructOk(of) /\ i \in Int
    BY StructsOk DEF StructOk
<1>2. From(of, i) = From(of, i + 1) \union {id} /\ id \notin From(of, i + 1)
    <2>1. \A j \in DOMAIN Fields[of] : j \in Int /\ (i <= j <=> i + 1 <= j \/ i = j)
        BY <1>1 DEF StructOk
    <2> QED
        BY <1>1, <2>1 DEF From, StructOk
<1>3. id \in IdsOf(of) /\ FieldOf(of, id) = Fields[of][i]
    BY FieldOfIs
<1>4. id \in Kept(of, unknown, v) <=> <<of, id>> \notin unknown /\ id \in DOMAIN v
    BY <1>3 DEF Kept
<1> DEFINE K == Kept(of, unknown, v)
           value(x) == VisibleIn(FieldOf(of, x), unknown, v[x])
           next == Seen(of, unknown, v, i + 1)
<1>5. /\ Seen(of, unknown, v, i) = [x \in K \intersect From(of, i) |-> value(x)]
      /\ next = [x \in K \intersect From(of, i + 1) |-> value(x)]
    BY DEF Seen
<1>6. value(id) = VisibleIn(Fields[of][i], unknown, v[id])
    BY <1>3
<1>7. ASSUME id \notin K PROVE K \intersect From(of, i) = K \intersect From(of, i + 1)
    BY <1>2, <1>7
<1>8. WithField(TRUE, id, value(id), next)
          = [x \in DOMAIN next \union {id} |-> IF x \in DOMAIN next THEN next[x] ELSE value(id)]
    BY DEF WithField
<1> HIDE DEF K, value, next
<1>9. ASSUME id \in K
      PROVE  Seen(of, unknown, v, i) = WithField(TRUE, id, value(id), next)
    <2>1. DOMAIN next = K \intersect From(of, i + 1) /\ \A x \in DOMAIN next : next[x] = value(x)
        BY <1>5
    <2>2. DOMAIN next \union {id} = K \intersect From(of, i) /\ id \notin DOMAIN next
        BY <1>2, <1>9, <2>1
    <2>3. \A x \in DOMAIN next \union {id} :
              (IF x \in DOMAIN next THEN next[x] ELSE value(id)) = value(x)
        BY <2>1
    <2> QED
        BY <1>5, <1>8, <2>2, <2>3
<1> QED
    BY <1>4, <1>5, <1>6, <1>7, <1>9 DEF K, next

\* The fields after the last one are none.
LEMMA SeenLast ==
    ASSUME NEW of \in DOMAIN Fields, NEW unknown, NEW v
    PROVE  Seen(of, unknown, v, Len(Fields[of]) + 1) = <<>>
<1>1. From(of, Len(Fields[of]) + 1) = {}
    BY StructsOk DEF From, StructOk
<1> QED
    BY <1>1 DEF Seen

\* The fields from the first one on are all.
LEMMA SeenFirst ==
    ASSUME NEW of \in DOMAIN Fields, NEW unknown, NEW v
    PROVE  Seen(of, unknown, v, 1) = Visible(of, unknown, v)
<1>1. From(of, 1) = IdsOf(of)
    BY StructsOk DEF From, IdsOf, StructOk
<1>2. Kept(of, unknown, v) \intersect IdsOf(of) = Kept(of, unknown, v)
    BY DEF Kept
<1>3. Kept(of, unknown, v) \intersect From(of, 1) = Kept(of, unknown, v)
    BY <1>1, <1>2
<1>4. Visible(of, unknown, v) = [id \in Kept(of, unknown, v) |-> VisibleIn(FieldOf(of, id), unknown, v[id])]
    BY VisibleDef
<1> QED
    BY <1>3, <1>4 DEF Seen

\* A loop that finds a field reads the field and goes on.
LEMMA LoopField ==
    ASSUME NEW p, NEW value, NEW of, NEW unknown, NEW k \in Nat \ {0},
           NEW last \in Int, NEW s \in Seq(Int), NEW f, Is(NextField(p, s, last), f), f.types # {}
    PROVE  FieldsAt(p, value, of, unknown)[k][last][s]
               = FieldIs(value, of, unknown, f, FieldsAt(p, value, of, unknown)[k - 1])
<1> DEFINE later == FieldsAt(p, value, of, unknown)[k - 1]
<1>1. FieldsAt(p, value, of, unknown)[k][last][s] = Pass(p, value, of, unknown, later, s, last)
    BY FieldsAtIs
<1> HIDE DEF later
<1>2. Pass(p, value, of, unknown, later, s, last) = FieldIs(value, of, unknown, f, later)
    BY PassField
<1> QED
    BY <1>1, <1>2 DEF later

\* A loop that finds a field, when the value of the field and the later fields are found.
LEMMA FieldFound ==
    ASSUME NEW p, NEW value, NEW of, NEW unknown, NEW k \in Nat \ {0},
           NEW last \in Int, NEW s \in Seq(Int), NEW f, Is(NextField(p, s, last), f),
           NEW type, Is(f.types, type), 
           NEW x, Is(value[type][Kind(of, unknown, f.id, type)][f.code][f.rest], x),
           NEW y, Is(FieldsAt(p, value, of, unknown)[k - 1][f.id][x.rest], y)
    PROVE  Is(FieldsAt(p, value, of, unknown)[k][last][s],
              [value |-> Found(of, unknown, f.id, type, x.value, y.value), rest |-> y.rest])
<1> DEFINE later == FieldsAt(p, value, of, unknown)[k - 1]
<1>1. FieldsAt(p, value, of, unknown)[k][last][s] = FieldIs(value, of, unknown, f, later)
    <2>1. f.types # {}
        BY DEF Is
    <2> HIDE DEF later
    <2> QED
        BY <2>1, LoopField, SMTT(60) DEF later
<1>3. Is(later[f.id][x.rest], y)
    OBVIOUS
<1> HIDE DEF later
<1>4. Is(FieldIs(value, of, unknown, f, later),
         [value |-> Found(of, unknown, f.id, type, x.value, y.value), rest |-> y.rest])
    BY <1>3, OneField
<1> QED
    BY <1>1, <1>4

\* A loop that finds the stop.
LEMMA StopIs ==
    ASSUME NEW p, NEW value, NEW of, NEW unknown, NEW k \in Nat \ {0},
           NEW last \in Int, NEW s \in Seq(Int), NEW f, Is(NextField(p, s, last), f), f.types = {}
    PROVE  Is(FieldsAt(p, value, of, unknown)[k][last][s], [value |-> <<>>, rest |-> f.rest])
<1> DEFINE later == FieldsAt(p, value, of, unknown)[k - 1]
<1>1. FieldsAt(p, value, of, unknown)[k][last][s] = Pass(p, value, of, unknown, later, s, last)
    BY FieldsAtIs
<1> HIDE DEF later
<1>2. Is(Pass(p, value, of, unknown, later, s, last), [value |-> <<>>, rest |-> f.rest])
    BY PassStop
<1> QED
    BY <1>1, <1>2

-----------------------------------------------------------------------------
(* Bytes that an agent reads as the value they should be, whatever it knows, whatever    *)
(* comes after them, and also when it skips them.                                        *)

\* The value of a field, with the code in its header.
ValueRead(p, f, v, c, b, unknown, l, t) ==
    /\ Is(Reader(p, unknown)[l][f.type][f.of][c][b \o t], Gives(VisibleIn(f, unknown, v), t))
    /\ \E w : Is(Reader(p, unknown)[l][f.type][Nothing][c][b \o t], Gives(w, t))
ValueGood(p, f, v, c, levels, b) ==
    /\ b \in Seq(Int)
    /\ \A unknown : \A l \in Nat, t \in Seq(Int) :
          levels <= l => ValueRead(p, f, v, c, b, unknown, l, t)

\* The fields from the i-th on, and the stop.
FieldsRead(p, of, v, i, last, b, unknown, l, k, t) ==
    /\ Is(FieldsAt(p, Reader(p, unknown)[l], of, unknown)[k][last][b \o t],
          Gives(Seen(of, unknown, v, i), t))
    /\ Is(FieldsAt(p, Reader(p, unknown)[l], Nothing, unknown)[k][last][b \o t], Gives(<<>>, t))
FieldsGood(p, of, v, i, last, b) ==
    /\ b \in Seq(Int)
    /\ \A unknown : \A l, k \in Nat, t \in Seq(Int) :
          LevelsOf(of) <= l /\ Len(b) <= k => FieldsRead(p, of, v, i, last, b, unknown, l, k, t)

\* A loop that finds a header, a value and the later fields.
LEMMA LoopRead ==
    ASSUME NEW p, NEW value, NEW of, NEW unknown, NEW k \in Nat \ {0},
           NEW last \in Int, NEW s \in Seq(Int), NEW type, NEW c, NEW id, NEW r1,
           Is(NextField(p, s, last), Opening(type, c, id, r1)),
           NEW x, NEW r2, Is(value[type][Kind(of, unknown, id, type)][c][r1], Gives(x, r2)),
           NEW y, NEW r3, Is(FieldsAt(p, value, of, unknown)[k - 1][id][r2], Gives(y, r3))
    PROVE  Is(FieldsAt(p, value, of, unknown)[k][last][s], Gives(Found(of, unknown, id, type, x, y), r3))
<1>1. PICK f : f = Opening(type, c, id, r1)
    BY Zenon
<1>2. Is(f.types, type) /\ f.code = c /\ f.id = id /\ f.rest = r1
    BY <1>1 DEF Opening, Is
<1>3. PICK a, b : a = Gives(x, r2) /\ b = Gives(y, r3)
    BY Zenon
<1>4. a.value = x /\ a.rest = r2 /\ b.value = y /\ b.rest = r3
    BY <1>3 DEF Gives
<1>5. Is(NextField(p, s, last), f)
    BY <1>1
<1>6. Is(value[type][Kind(of, unknown, f.id, type)][f.code][f.rest], a)
    BY <1>2, <1>3
<1>7. Is(FieldsAt(p, value, of, unknown)[k - 1][f.id][a.rest], b)
    BY <1>2, <1>3, <1>4
<1>8. PICK z : z = [value |-> Found(of, unknown, f.id, type, a.value, b.value), rest |-> b.rest]
    OBVIOUS
<1>9. z = Gives(Found(of, unknown, id, type, x, y), r3)
    BY <1>2, <1>4, <1>8 DEF Gives
<1>10. Is(FieldsAt(p, value, of, unknown)[k][last][s], z)
    BY <1>2, <1>5, <1>6, <1>7, <1>8, FieldFound
<1> QED
    BY <1>9, <1>10

\* What is read of a field that is not known.
LEMMA KindOfUnknown ==
    ASSUME NEW of, NEW unknown, NEW id, NEW type, Known(of, unknown, id, type) = {}
    PROVE  Kind(of, unknown, id, type) = Nothing /\ \A x, y : Found(of, unknown, id, type, x, y) = y
BY DEF Kind, Found, WithField

\* What is read of a field that is known.
LEMMA KindOfKnown ==
    ASSUME NEW of, NEW unknown, NEW id, NEW type, NEW f, Is(Known(of, unknown, id, type), f)
    PROVE  /\ Kind(of, unknown, id, type) = f.of
           /\ \A x, y : Found(of, unknown, id, type, x, y) = WithField(TRUE, id, x, y)
<1>1. Known(of, unknown, id, type) = {f} /\ (Known(of, unknown, id, type) # {}) = TRUE
    BY DEF Is
<1> QED
    BY <1>1 DEF Kind, Found

\* A header, a value and the later fields are the fields from this one on.
LEMMA FieldGood ==
    ASSUME NEW p, NEW of \in DOMAIN Fields, NEW v, NEW i \in DOMAIN Fields[of],
           NEW f, f = Fields[of][i], f.id \in DOMAIN v, NEW last \in Int,
           NEW h, NEW c, HeaderGood(p, h, last, f.type, c, f.id),
           NEW e, ValueGood(p, f, v[f.id], c, LevelsOf(of), e),
           NEW b, FieldsGood(p, of, v, i + 1, f.id, b),
           NEW eb, Joins(eb, e, b), NEW w, Joins(w, h, eb)
    PROVE  FieldsGood(p, of, v, i, last, w)
<1>1. /\ h \in Seq(Int) /\ Len(h) \in Nat \ {0} /\ f.id \in Int
      /\ e \in Seq(Int) /\ b \in Seq(Int)
    BY DEF HeaderGood, ValueGood, FieldsGood
<1>2. /\ w \in Seq(Int) /\ Len(e) \in Nat /\ Len(b) \in Nat
      /\ Len(w) = Len(h) + (Len(e) + Len(b))
    <2>1. eb \in Seq(Int) /\ Len(eb) = Len(e) + Len(b)
        BY <1>1, JoinedTwo
    <2>2. w \in Seq(Int) /\ Len(w) = Len(h) + Len(eb)
        BY <1>1, <2>1, JoinedTwo
    <2> QED
        BY <1>1, <2>1, <2>2, LenProperties
<1>3. ASSUME NEW unknown, NEW l \in Nat, NEW k \in Nat, NEW t \in Seq(Int),
             LevelsOf(of) <= l, Len(w) <= k
      PROVE  FieldsRead(p, of, v, i, last, w, unknown, l, k, t)
    <2>1. k \in Nat \ {0} /\ k - 1 \in Nat /\ Len(b) <= k - 1
        BY <1>1, <1>2, <1>3
    <2>2. PICK r2 : Joins(r2, b, t)
        BY DEF Joins
    <2>3. PICK r1 : Joins(r1, e, r2)
        BY DEF Joins
    <2>4. PICK s : Joins(s, w, t)
        BY DEF Joins
    <2>5. r2 \in Seq(Int) /\ r1 \in Seq(Int) /\ s \in Seq(Int) /\ Joins(s, h, r1)
        BY <1>1, <2>2, <2>3, <2>4, Joined
    <2>6. PICK value : value = Reader(p, unknown)[l]
        OBVIOUS
    <2>7. Is(NextField(p, s, last), Opening(f.type, c, f.id, r1))
        BY <2>5 DEF HeaderGood, Joins
    <2>8. /\ Is(value[f.type][f.of][c][r1], Gives(VisibleIn(f, unknown, v[f.id]), r2))
          /\ \E z : Is(value[f.type][Nothing][c][r1], Gives(z, r2))
        <3>1. ValueRead(p, f, v[f.id], c, e, unknown, l, r2)
            BY <1>3, <2>5 DEF ValueGood
        <3> QED
            BY <3>1, <2>3, <2>6 DEF ValueRead, Joins
    <2>9. /\ Is(FieldsAt(p, value, of, unknown)[k - 1][f.id][r2], Gives(Seen(of, unknown, v, i + 1), t))
          /\ Is(FieldsAt(p, value, Nothing, unknown)[k - 1][f.id][r2], Gives(<<>>, t))
        <3>1. FieldsRead(p, of, v, i + 1, f.id, b, unknown, l, k - 1, t)
            BY <1>3, <2>1 DEF FieldsGood
        <3> QED
            BY <3>1, <2>2, <2>6 DEF FieldsRead, Joins
    <2>10. PICK z : Is(value[f.type][Nothing][c][r1], Gives(z, r2))
        BY <2>8
    <2>11. ASSUME NEW o, Known(o, unknown, f.id, f.type) = {},
                  NEW y, Is(FieldsAt(p, value, o, unknown)[k - 1][f.id][r2], Gives(y, t))
           PROVE  Is(FieldsAt(p, value, o, unknown)[k][last][s], Gives(y, t))
        <3>1. Kind(o, unknown, f.id, f.type) = Nothing /\ Found(o, unknown, f.id, f.type, z, y) = y
            BY <2>11 DEF Kind, Found, WithField
        <3>2. Is(value[f.type][Kind(o, unknown, f.id, f.type)][c][r1], Gives(z, r2))
            BY <3>1, <2>10
        <3>3. Is(FieldsAt(p, value, o, unknown)[k][last][s], Gives(Found(o, unknown, f.id, f.type, z, y), t))
            BY <2>1, <2>5, <2>7, <2>11, <3>2, <1>1, LoopRead
        <3> QED
            BY <3>1, <3>3
    <2>12. Is(FieldsAt(p, value, Nothing, unknown)[k][last][s], Gives(<<>>, t))
        <3>1. Known(Nothing, unknown, f.id, f.type) = {}
            BY DEF Known
        <3> QED
            BY <2>9, <2>11, <3>1
    <2>13. Is(FieldsAt(p, value, of, unknown)[k][last][s], Gives(Seen(of, unknown, v, i), t))
        <3>1. CASE <<of, f.id>> \in unknown
            <4>1. Known(of, unknown, f.id, f.type) = {}
                BY <3>1, KnownField
            <4>2. Seen(of, unknown, v, i) = Seen(of, unknown, v, i + 1)
                BY <3>1, SeenNext
            <4> QED
                BY <2>9, <2>11, <4>1, <4>2
        <3>2. CASE <<of, f.id>> \notin unknown
            <4>1. Is(Known(of, unknown, f.id, f.type), f)
                BY <3>2, KnownField DEF Is
            <4>2. PICK x, y : x = VisibleIn(f, unknown, v[f.id]) /\ y = Seen(of, unknown, v, i + 1)
                OBVIOUS
            <4>3. /\ Kind(of, unknown, f.id, f.type) = f.of
                  /\ Found(of, unknown, f.id, f.type, x, y) = WithField(TRUE, f.id, x, y)
                BY <4>1 DEF Is, Kind, Found
            <4>4. Seen(of, unknown, v, i) = WithField(TRUE, f.id, x, y)
                BY <3>2, <4>2, SeenNext
            <4>5. Is(value[f.type][Kind(of, unknown, f.id, f.type)][c][r1], Gives(x, r2))
                BY <4>2, <4>3, <2>8
            <4>6. Is(FieldsAt(p, value, of, unknown)[k - 1][f.id][r2], Gives(y, t))
                BY <4>2, <2>9
            <4>7. Is(FieldsAt(p, value, of, unknown)[k][last][s], Gives(Found(of, unknown, f.id, f.type, x, y), t))
                BY <2>1, <2>5, <2>7, <4>5, <4>6, <1>1, LoopRead
            <4> QED
                BY <4>3, <4>4, <4>7
        <3> QED
            BY <3>1, <3>2
    <2> QED
        BY <2>4, <2>6, <2>12, <2>13 DEF FieldsRead, Joins
<1> QED
    BY <1>2, <1>3 DEF FieldsGood

\* A field that is not set has no bytes.
LEMMA NoFieldGood ==
    ASSUME NEW p, NEW of \in DOMAIN Fields, NEW v, NEW i \in DOMAIN Fields[of],
           Fields[of][i].id \notin DOMAIN v, NEW last, NEW b,
           FieldsGood(p, of, v, i + 1, last, b)
    PROVE  FieldsGood(p, of, v, i, last, b)
<1>1. \A unknown : Seen(of, unknown, v, i) = Seen(of, unknown, v, i + 1)
    BY SeenNext
<1>2. \A unknown, l, k, t : FieldsRead(p, of, v, i + 1, last, b, unknown, l, k, t)
                               => FieldsRead(p, of, v, i, last, b, unknown, l, k, t)
    BY <1>1 DEF FieldsRead
<1> QED
    BY <1>2 DEF FieldsGood

\* The stop ends the fields.
LEMMA StopGood ==
    ASSUME NEW p, NEW of \in DOMAIN Fields, NEW v, NEW last \in Int, NEW h, StopIsGood(p, h, last)
    PROVE  FieldsGood(p, of, v, Len(Fields[of]) + 1, last, h)
<1>1. h \in Seq(Int) /\ Len(h) \in Nat \ {0}
    BY DEF StopIsGood
<1>2. ASSUME NEW unknown, NEW l \in Nat, NEW k \in Nat, NEW t \in Seq(Int), Len(h) <= k
      PROVE  FieldsRead(p, of, v, Len(Fields[of]) + 1, last, h, unknown, l, k, t)
    <2>1. k \in Nat \ {0}
        BY <1>1, <1>2
    <2>2. PICK s \in Seq(Int) : s = h \o t
        BY <1>1, ConcatProperties
    <2>3. PICK f : f.types = {} /\ f.rest = t /\ Is(NextField(p, s, last), f)
        BY <2>2 DEF StopIsGood
    <2>4. ASSUME NEW o
          PROVE  Is(FieldsAt(p, Reader(p, unknown)[l], o, unknown)[k][last][s], Gives(<<>>, t))
        BY <2>1, <2>3, StopIs DEF Gives
    <2>5. Seen(of, unknown, v, Len(Fields[of]) + 1) = <<>>
        BY SeenLast
    <2> QED
        BY <2>2, <2>4, <2>5 DEF FieldsRead
<1> QED
    BY <1>1, <1>2 DEF FieldsGood

\* A reader reads a value with the reader below it.
LEMMA ReaderIs ==
    ASSUME NEW p, NEW unknown, NEW l \in Nat, NEW type \in Types, NEW of \in StructKinds, NEW c \in Nat,
           NEW s \in Seq(Int)
    PROVE  Reader(p, unknown)[l][type][of][c][s]
               = ValueAt(p, unknown, l, Reader(p, unknown)[l - 1], type, of, c, s)
<1>1. PICK below : below = Reader(p, unknown)[l - 1]
    OBVIOUS
<1>2. Reader(p, unknown)[l] = OneLevel(p, unknown, l, below)
    BY <1>1, ReaderDef
<1>3. OneLevel(p, unknown, l, below)[type][of][c][s] = ValueAt(p, unknown, l, below, type, of, c, s)
    BY DEF OneLevel
<1> QED
    BY <1>1, <1>2, <1>3

\* All fields and the stop are the struct.
LEMMA StructRead ==
    ASSUME NEW p, NEW of \in DOMAIN Fields, NEW v, NEW b, FieldsGood(p, of, v, 1, 0, b),
           NEW unknown, NEW l \in Nat, LevelsOf(of) <= l, NEW t \in Seq(Int)
    PROVE  /\ b \o t \in Seq(Int)
           /\ Is(StructAt(p, Reader(p, unknown)[l], of, unknown, b \o t), Gives(Visible(of, unknown, v), t))
           /\ Is(StructAt(p, Reader(p, unknown)[l], Nothing, unknown, b \o t), Gives(<<>>, t))
<1>1. b \in Seq(Int) /\ Len(b) \in Nat
    BY LenProperties DEF FieldsGood
<1>2. PICK s : Joins(s, b, t)
    BY DEF Joins
<1>3. s \in Seq(Int) /\ Len(s) = Len(b) + Len(t) /\ Len(t) \in Nat
    BY <1>1, <1>2, JoinedTwo, LenProperties
<1>4. Len(s) \in Nat /\ Len(b) <= Len(s)
    BY <1>1, <1>3
<1>5. FieldsRead(p, of, v, 1, 0, b, unknown, l, Len(s), t)
    BY <1>4 DEF FieldsGood
<1>6. b \o t = s
    BY <1>2 DEF Joins
<1>7. Seen(of, unknown, v, 1) = Visible(of, unknown, v)
    BY SeenFirst
<1> QED
    BY <1>3, <1>5, <1>6, <1>7 DEF FieldsRead, StructAt

\* The kinds of values.
LEMMA KindsOk == DOMAIN Fields \subseteq StructKinds /\ Nothing \in StructKinds /\ "none" \in StructKinds
BY DEF StructKinds

\* A struct in a field.
LEMMA StructGood ==
    ASSUME NEW p, NEW f, f.type = "STRUCT", f.of \in DOMAIN Fields, NEW v, NEW c \in Nat,
           NEW b, FieldsGood(p, f.of, v, 1, 0, b), NEW levels \in Nat, LevelsOf(f.of) + 2 <= levels
    PROVE  ValueGood(p, f, v, c, levels, b)
<1>1. PICK o \in DOMAIN Fields : o = f.of
    OBVIOUS
<1>2. b \in Seq(Int)
    BY DEF FieldsGood
<1>3. LevelsOf(o) \in Nat
    BY Ranks DEF LevelsOf
<1>4. ASSUME NEW unknown, NEW l \in Nat, NEW t \in Seq(Int), levels <= l
      PROVE  ValueRead(p, f, v, c, b, unknown, l, t)
    <2>1. l # 0 /\ l - 1 \in Nat /\ LevelsOf(o) <= l - 1
        BY <1>1, <1>3, <1>4
    <2>2. PICK s : s = b \o t
        OBVIOUS
    <2>3. /\ s \in Seq(Int)
          /\ Is(StructAt(p, Reader(p, unknown)[l - 1], o, unknown, s), Gives(Visible(o, unknown, v), t))
          /\ Is(StructAt(p, Reader(p, unknown)[l - 1], Nothing, unknown, s), Gives(<<>>, t))
        BY <1>1, <2>1, <2>2, StructRead
    <2>4. ASSUME NEW k \in StructKinds
          PROVE  Reader(p, unknown)[l]["STRUCT"][k][c][s] = StructAt(p, Reader(p, unknown)[l - 1], k, unknown, s)
        <3>1. "STRUCT" \in Types
            BY DEF Types
        <3>2. PICK below : below = Reader(p, unknown)[l - 1]
            OBVIOUS
        <3>3. Reader(p, unknown)[l]["STRUCT"][k][c][s] = ValueAt(p, unknown, l, below, "STRUCT", k, c, s)
            <4>1. Reader(p, unknown)[l]["STRUCT"][k][c][s]
                      = ValueAt(p, unknown, l, Reader(p, unknown)[l - 1], "STRUCT", k, c, s)
                BY <2>3, <3>1, ReaderIs
            <4> QED
                BY <3>2, <4>1
        <3>4. ValueAt(p, unknown, l, below, "STRUCT", k, c, s) = StructAt(p, below, k, unknown, s)
            BY <2>1, <2>3 DEF ValueAt
        <3> QED
            BY <3>2, <3>3, <3>4
    <2>5. VisibleIn(f, unknown, v) = Visible(o, unknown, v)
        BY <1>1 DEF VisibleIn, Left
    <2>6. o \in StructKinds /\ Nothing \in StructKinds
        BY KindsOk
    <2> QED
        BY <1>1, <2>2, <2>3, <2>4, <2>5, <2>6 DEF ValueRead
<1> QED
    BY <1>2, <1>4 DEF ValueGood

\* A number or a text in a field.
LEMMA ScalarGood ==
    ASSUME NEW p, NEW f, f.type \in Scalar, f.of = "none", NEW v, NEW c \in Nat,
           f.type = "BOOL" => c = 0, NEW e, ScalarIsGood(p, f.type, v, e), NEW levels \in Nat \ {0}
    PROVE  ValueGood(p, f, v, c, levels, e)
<1>1. PICK type \in Scalar : type = f.type
    OBVIOUS
<1>2. type \in Types /\ type # "STRUCT" /\ type # "LIST" /\ type \notin Collection
    BY DEF Scalar, Types, Collection
<1>3. e \in Seq(Int)
    BY DEF ScalarIsGood
<1>4. ASSUME NEW unknown, NEW l \in Nat, NEW t \in Seq(Int), levels <= l
      PROVE  ValueRead(p, f, v, c, e, unknown, l, t)
    <2>1. l # 0
        BY <1>4
    <2>2. PICK s \in Seq(Int) : s = e \o t
        BY <1>3, ConcatProperties
    <2>3. Is(NextScalar(p, type, s), Gives(v, t))
        BY <1>1, <2>2 DEF ScalarIsGood
    <2>4. ASSUME NEW k \in StructKinds
          PROVE  Reader(p, unknown)[l][type][k][c][s] = NextScalar(p, type, s)
        <3>2. PICK below : below = Reader(p, unknown)[l - 1]
            OBVIOUS
        <3>3. Reader(p, unknown)[l][type][k][c][s] = ValueAt(p, unknown, l, below, type, k, c, s)
            <4>1. Reader(p, unknown)[l][type][k][c][s]
                      = ValueAt(p, unknown, l, Reader(p, unknown)[l - 1], type, k, c, s)
                BY <1>2, ReaderIs
            <4> QED
                BY <3>2, <4>1
        <3>4. ValueAt(p, unknown, l, below, type, k, c, s) = NextScalar(p, type, s)
            BY <1>1, <1>2, <2>1 DEF ValueAt
        <3> QED
            BY <3>3, <3>4
    <2>5. VisibleIn(f, unknown, v) = v
        BY <1>1, <1>2 DEF VisibleIn, Left
    <2> QED
        BY <1>1, <2>2, <2>3, <2>4, <2>5, KindsOk DEF ValueRead
<1> QED
    BY <1>3, <1>4 DEF ValueGood

\* A boolean that is in its header.
LEMMA BoolGood ==
    ASSUME NEW p, NEW f, f.type = "BOOL", f.of = "none", NEW v \in {<< 0 >>, << 1 >>},
           NEW levels \in Nat \ {0}
    PROVE  ValueGood(p, f, v, BoolCode(v), levels, <<>>)
<1>1. PICK c \in Nat : c = BoolCode(v) /\ c # 0
    BY DEF BoolCode
<1>2. v = IF c = BoolCode(<<1>>) THEN <<1>> ELSE <<0>>
    BY <1>1 DEF BoolCode
<1>3. ASSUME NEW unknown, NEW l \in Nat, NEW t \in Seq(Int), levels <= l
      PROVE  ValueRead(p, f, v, c, <<>>, unknown, l, t)
    <2>1. l # 0
        BY <1>3
    <2>2. <<>> \o t = t
        OBVIOUS
    <2>4. ASSUME NEW k \in StructKinds
          PROVE  Is(Reader(p, unknown)[l]["BOOL"][k][c][t], Gives(v, t))
        <3>1. "BOOL" \in Types
            BY DEF Types
        <3>2. PICK below : below = Reader(p, unknown)[l - 1]
            OBVIOUS
        <3>3. Reader(p, unknown)[l]["BOOL"][k][c][t] = ValueAt(p, unknown, l, below, "BOOL", k, c, t)
            <4>1. Reader(p, unknown)[l]["BOOL"][k][c][t]
                      = ValueAt(p, unknown, l, Reader(p, unknown)[l - 1], "BOOL", k, c, t)
                BY <3>1, ReaderIs
            <4> QED
                BY <3>2, <4>1
        <3>4. PICK x : x = IF c = BoolCode(<<1>>) THEN <<1>> ELSE <<0>>
            OBVIOUS
        <3>5. ValueAt(p, unknown, l, below, "BOOL", k, c, t) = {[value |-> x, rest |-> t]}
            BY <1>1, <2>1, <3>4 DEF ValueAt
        <3>6. x = v
            BY <1>2, <3>4
        <3> QED
            BY <3>3, <3>5, <3>6 DEF Is, Gives
    <2>5. VisibleIn(f, unknown, v) = v
        BY DEF VisibleIn, Left
    <2> QED
        BY <2>2, <2>4, <2>5, KindsOk DEF ValueRead
<1>4. <<>> \in Seq(Int)
    OBVIOUS
<1> QED
    BY <1>1, <1>3, <1>4 DEF ValueGood

\* How an element of a list is read, and how it is skipped.
ReadElement(p, of, unknown, l) ==
    [t \in Seq(Int) |-> IF l = 0 THEN {} ELSE StructAt(p, Reader(p, unknown)[l - 1], of, unknown, t)]
SkipElement(p, unknown, l) == [t \in Seq(Int) |-> Reader(p, unknown)[l - 1]["STRUCT"][Nothing][0][t]]

\* What an agent finds in the elements from the j-th on.
Elems(of, unknown, v, j) == [i \in 1..(Len(v) + 1 - j) |-> Visible(of, unknown, v[i + j - 1])]

\* The elements from the j-th on.
ListRead(p, of, v, j, b, unknown, l, t) ==
    /\ Is(ListAt(ReadElement(p, of, unknown, l))[Len(v) + 1 - j][b \o t],
          Gives(Elems(of, unknown, v, j), t))
    /\ \E w : Is(ListAt(SkipElement(p, unknown, l))[Len(v) + 1 - j][b \o t], Gives(w, t))
ListGood(p, of, v, j, b) ==
    /\ b \in Seq(Int)
    /\ \A unknown : \A l \in Nat, t \in Seq(Int) :
          LevelsOf(of) + 2 <= l => ListRead(p, of, v, j, b, unknown, l, t)

\* A list that is found begins with its first element.
LEMMA ListFound ==
    ASSUME NEW element, NEW n \in Nat \ {0}, NEW s \in Seq(Int),
           NEW x, NEW r, Is(element[s], Gives(x, r)), r \in Seq(Int),
           NEW y, NEW t, Is(ListAt(element)[n - 1][r], Gives(y, t))
    PROVE  Is(ListAt(element)[n][s], Gives(<<x>> \o y, t))
<1>1. PICK later : later = ListAt(element)[n - 1]
    OBVIOUS
<1>2. ListAt(element)[n] = Elements(element, n, later)
    BY <1>1, ListAtDef
<1>3. Elements(element, n, later)[s] = Element(element, later, s)
    BY DEF Elements
<1>4. PICK a, z : a = Gives(x, r) /\ z = Gives(y, t)
    OBVIOUS
<1>5. a.value = x /\ a.rest = r /\ z.value = y /\ z.rest = t
    BY <1>4 DEF Gives
<1>6. element[s] = {a} /\ later[a.rest] = {z}
    BY <1>1, <1>4, <1>5 DEF Is
<1> DEFINE One(d, e) == [value |-> <<d.value>> \o e.value, rest |-> e.rest]
           Some(S) == UNION {{One(d, e) : e \in later[d.rest]} : d \in S}
<1>7. Element(element, later, s) = Some(element[s])
    BY DEF Element
<1>8. One(a, z) = Gives(<<x>> \o y, t)
    BY <1>5 DEF Gives
<1> HIDE DEF One
<1>9. Some({a}) = {One(a, z)}
    BY <1>6
<1> HIDE DEF Some
<1>10. Is(ListAt(element)[n][s], One(a, z))
    BY <1>2, <1>3, <1>6, <1>7, <1>9 DEF Is
<1> QED
    BY <1>8, <1>10

\* An element and then the others are what is found from this one on.
LEMMA ElemsNext ==
    ASSUME NEW of, NEW unknown, NEW v, Len(v) \in Nat, NEW j \in 1..Len(v)
    PROVE  <<Visible(of, unknown, v[j])>> \o Elems(of, unknown, v, j + 1) = Elems(of, unknown, v, j)
<1>1. PICK n \in Nat : n = Len(v) - j
    OBVIOUS
<1> DEFINE D(i) == Visible(of, unknown, v[i])
<1>2. /\ Elems(of, unknown, v, j + 1) = [i \in 1..n |-> D(i + (j + 1) - 1)]
      /\ Elems(of, unknown, v, j) = [i \in 1..(n + 1) |-> D(i + j - 1)]
    <2>1. Len(v) + 1 - (j + 1) = n /\ Len(v) + 1 - j = n + 1
        BY <1>1
    <2> QED
        BY <2>1 DEF Elems
<1> HIDE DEF D
<1>3. PICK y : y = [i \in 1..n |-> D(i + (j + 1) - 1)]
    OBVIOUS
<1>4. Len(y) = n /\ \A i \in 1..n : y[i] = D(i + j)
    BY <1>3
<1>5. <<D(j)>> \o y = [i \in 1..(n + 1) |-> D(i + j - 1)]
    <2>1. <<D(j)>> \o y = [i \in 1..(Len(<<D(j)>>) + Len(y)) |->
                              IF i <= Len(<<D(j)>>) THEN <<D(j)>>[i] ELSE y[i - Len(<<D(j)>>)]]
        OBVIOUS
    <2>2. ASSUME NEW i \in 1..(n + 1)
          PROVE  (IF i <= 1 THEN <<D(j)>>[i] ELSE y[i - 1]) = D(i + j - 1)
        <3>1. CASE i = 1
            <4>1. i + j - 1 = j
                BY <3>1
            <4> QED
                BY <3>1, <4>1
        <3>2. CASE i # 1
            <4>1. i - 1 \in 1..n /\ (i - 1) + j = i + j - 1
                BY <3>2
            <4>2. y[i - 1] = D(i + j - 1)
                BY <1>4, <4>1
            <4> QED
                BY <3>2, <4>2
        <3> QED
            BY <3>1, <3>2
    <2>3. Len(<<D(j)>>) = 1 /\ 1 + n = n + 1
        OBVIOUS
    <2> QED
        BY <1>4, <2>1, <2>2, <2>3
<1> QED
    BY <1>2, <1>3, <1>5 DEF D

\* A list has its elements, one after the other.
LEMMA ListNext ==
    ASSUME NEW p, NEW of \in DOMAIN Fields, NEW v, Len(v) \in Nat, NEW j \in 1..Len(v),
           NEW e, FieldsGood(p, of, v[j], 1, 0, e), NEW b, ListGood(p, of, v, j + 1, b),
           NEW w, Joins(w, e, b)
    PROVE  ListGood(p, of, v, j, w)
<1>1. e \in Seq(Int) /\ b \in Seq(Int) /\ w \in Seq(Int)
    BY JoinedTwo DEF FieldsGood, ListGood
<1>2. LevelsOf(of) \in Nat
    BY Ranks DEF LevelsOf
<1>3. PICK n \in Nat \ {0} : n = Len(v) + 1 - j /\ n - 1 = Len(v) + 1 - (j + 1)
    OBVIOUS
<1>4. ASSUME NEW unknown, NEW l \in Nat, NEW t \in Seq(Int), LevelsOf(of) + 2 <= l
      PROVE  ListRead(p, of, v, j, w, unknown, l, t)
    <2>1. /\ l # 0 /\ l - 1 \in Nat /\ LevelsOf(of) <= l - 1
          /\ l - 1 # 0 /\ (l - 1) - 1 \in Nat /\ LevelsOf(of) <= (l - 1) - 1
        BY <1>2, <1>4
    <2>2. PICK r : Joins(r, b, t)
        BY DEF Joins
    <2>3. PICK s : Joins(s, w, t)
        BY DEF Joins
    <2>4. r \in Seq(Int) /\ s \in Seq(Int) /\ Joins(s, e, r)
        BY <1>1, <2>2, <2>3, JoinedTwo, JoinedThree
    <2>5. ListRead(p, of, v, j + 1, b, unknown, l, t)
        BY <1>4 DEF ListGood
    <2>6. Is(ReadElement(p, of, unknown, l)[s], Gives(Visible(of, unknown, v[j]), r))
        <3>1. Is(StructAt(p, Reader(p, unknown)[l - 1], of, unknown, s), Gives(Visible(of, unknown, v[j]), r))
            BY <2>1, <2>4, StructRead DEF Joins
        <3>2. ReadElement(p, of, unknown, l)[s] = StructAt(p, Reader(p, unknown)[l - 1], of, unknown, s)
            BY <2>1, <2>4 DEF ReadElement
        <3> QED
            BY <3>1, <3>2
    <2>7. Is(SkipElement(p, unknown, l)[s], Gives(<<>>, r))
        <3>1. PICK l2 \in Nat : l2 = (l - 1) - 1 /\ LevelsOf(of) <= l2
            BY <2>1
        <3>2. Is(StructAt(p, Reader(p, unknown)[l2], Nothing, unknown, s), Gives(<<>>, r))
            BY <3>1, <2>4, StructRead DEF Joins
        <3>3. SkipElement(p, unknown, l)[s] = Reader(p, unknown)[l - 1]["STRUCT"][Nothing][0][s]
            BY <2>4 DEF SkipElement
        <3>4. PICK below : below = Reader(p, unknown)[l2]
            OBVIOUS
        <3>5. Reader(p, unknown)[l - 1]["STRUCT"][Nothing][0][s]
                  = ValueAt(p, unknown, l - 1, below, "STRUCT", Nothing, 0, s)
            <4>1. PICK m \in Nat : m = l - 1
                BY <2>1
            <4>2. "STRUCT" \in Types
                BY DEF Types
            <4>3. Reader(p, unknown)[m]["STRUCT"][Nothing][0][s]
                      = ValueAt(p, unknown, m, Reader(p, unknown)[m - 1], "STRUCT", Nothing, 0, s)
                BY <2>4, <4>2, ReaderIs, KindsOk
            <4> QED
                BY <3>1, <3>4, <4>1, <4>3
        <3>6. ValueAt(p, unknown, l - 1, below, "STRUCT", Nothing, 0, s) = StructAt(p, below, Nothing, unknown, s)
            BY <2>1, <2>4 DEF ValueAt
        <3> QED
            BY <3>2, <3>3, <3>4, <3>5, <3>6
    <2>8. Is(ListAt(ReadElement(p, of, unknown, l))[n - 1][r], Gives(Elems(of, unknown, v, j + 1), t))
        BY <1>3, <2>2, <2>5 DEF ListRead, Joins
    <2>9. PICK y : Is(ListAt(SkipElement(p, unknown, l))[n - 1][r], Gives(y, t))
        BY <1>3, <2>2, <2>5 DEF ListRead, Joins
    <2>10. PICK x, z : x = Visible(of, unknown, v[j]) /\ z = Elems(of, unknown, v, j + 1)
        OBVIOUS
    <2>11. <<x>> \o z = Elems(of, unknown, v, j)
        BY <2>10, ElemsNext
    <2>12. Is(ListAt(ReadElement(p, of, unknown, l))[n][s], Gives(<<x>> \o z, t))
        BY <2>4, <2>6, <2>8, <2>10, ListFound
    <2>13. Is(ListAt(SkipElement(p, unknown, l))[n][s], Gives(<<<<>>>> \o y, t))
        BY <2>4, <2>7, <2>9, ListFound
    <2> QED
        BY <1>3, <2>3, <2>11, <2>12, <2>13 DEF ListRead, Joins
<1> QED
    BY <1>1, <1>4 DEF ListGood

\* After the last element there is nothing.
LEMMA ListEnds ==
    ASSUME NEW p, NEW of, NEW v, Len(v) \in Nat
    PROVE  ListGood(p, of, v, Len(v) + 1, <<>>)
<1>1. \A unknown : Elems(of, unknown, v, Len(v) + 1) = <<>>
    BY DEF Elems
<1>2. ASSUME NEW element, NEW t \in Seq(Int)
      PROVE  Is(ListAt(element)[0][t], Gives(<<>>, t))
    <2>1. PICK later : later = ListAt(element)[0 - 1]
        OBVIOUS
    <2>2. ListAt(element)[0] = Elements(element, 0, later)
        BY <2>1, ListAtDef
    <2>3. Elements(element, 0, later)[t] = {[value |-> <<>>, rest |-> t]}
        BY DEF Elements
    <2> QED
        BY <2>2, <2>3 DEF Is, Gives
<1>3. \A t \in Seq(Int) : <<>> \o t = t
    OBVIOUS
<1>4. <<>> \in Seq(Int) /\ Len(v) + 1 - (Len(v) + 1) = 0
    OBVIOUS
<1>5. ASSUME NEW unknown, NEW l, NEW t \in Seq(Int)
      PROVE  ListRead(p, of, v, Len(v) + 1, <<>>, unknown, l, t)
    BY <1>1, <1>2, <1>3, <1>4 DEF ListRead
<1> QED
    BY <1>4, <1>5 DEF ListGood

\* A list in a field.
LEMMA ListFieldGood ==
    ASSUME NEW p, NEW f, f.type = "LIST", f.of \in DOMAIN Fields, NEW v, IsList(v), NEW c \in Nat,
           NEW h, CollectionIsGood(p, h, Len(v)), NEW b, ListGood(p, f.of, v, 1, b),
           NEW w, Joins(w, h, b), NEW levels \in Nat, LevelsOf(f.of) + 2 <= levels
    PROVE  ValueGood(p, f, v, c, levels, w)
<1>1. PICK o \in DOMAIN Fields : o = f.of
    OBVIOUS
<1>2. b \in Seq(Int) /\ h \in Seq(Int) /\ w \in Seq(Int)
    BY JoinedTwo DEF ListGood, CollectionIsGood
<1>3. LevelsOf(o) \in Nat
    BY Ranks DEF LevelsOf
<1>4. PICK n \in Nat : n = Len(v) /\ DOMAIN v = 1..n
    BY DEF IsList
<1>5. ASSUME NEW unknown, NEW l \in Nat, NEW t \in Seq(Int), levels <= l
      PROVE  ValueRead(p, f, v, c, w, unknown, l, t)
    <2>1. l # 0 /\ LevelsOf(o) + 2 <= l
        BY <1>1, <1>3, <1>5
    <2>2. PICK r : Joins(r, b, t)
        BY DEF Joins
    <2>3. PICK s : Joins(s, w, t)
        BY DEF Joins
    <2>4. r \in Seq(Int) /\ s \in Seq(Int) /\ Joins(s, h, r)
        BY <1>2, <2>2, <2>3, JoinedTwo, JoinedThree
    <2>5. PICK g : g = [types |-> <<"STRUCT">>, size |-> n, rest |-> r]
        OBVIOUS
    <2>6. g.types[1] = "STRUCT" /\ g.size = n /\ g.rest = r
        BY <2>5
    <2>7. NextCollection(p, s) = {g}
        BY <1>4, <2>4, <2>5 DEF CollectionIsGood, Joins, Is
    <2>8. ASSUME NEW k \in StructKinds, NEW element,
                 element = IF k = Nothing THEN SkipElement(p, unknown, l)
                           ELSE ReadElement(p, k, unknown, l)
          PROVE  Reader(p, unknown)[l]["LIST"][k][c][s] = ListAt(element)[n][r]
        <3>1. "LIST" \in Types
            BY DEF Types
        <3>2. PICK below : below = Reader(p, unknown)[l - 1]
            OBVIOUS
        <3>3. Reader(p, unknown)[l]["LIST"][k][c][s] = ValueAt(p, unknown, l, below, "LIST", k, c, s)
            <4>1. Reader(p, unknown)[l]["LIST"][k][c][s]
                      = ValueAt(p, unknown, l, Reader(p, unknown)[l - 1], "LIST", k, c, s)
                BY <2>4, <3>1, ReaderIs
            <4> QED
                BY <3>2, <4>1
        <3> DEFINE skipped(u) == [q \in Seq(Int) |-> below[u][Nothing][0][q]]
                   known == [q \in Seq(Int) |-> IF l = 0 THEN {} ELSE StructAt(p, below, k, unknown, q)]
                   Of(x) == ListAt(IF k = Nothing THEN skipped(x.types[1]) ELSE known)[x.size][x.rest]
        <3>4. ValueAt(p, unknown, l, below, "LIST", k, c, s) = UNION {Of(x) : x \in NextCollection(p, s)}
            BY <2>1 DEF ValueAt, Collection
        <3>5. Of(g) = ListAt(element)[n][r]
            <4>1. (IF k = Nothing THEN skipped(g.types[1]) ELSE known) = element
                BY <2>6, <2>8, <3>2 DEF SkipElement, ReadElement
            <4> HIDE DEF skipped, known
            <4> QED
                BY <2>6, <4>1
        <3> HIDE DEF Of
        <3>6. UNION {Of(x) : x \in {g}} = Of(g)
            OBVIOUS
        <3> QED
            BY <2>7, <3>3, <3>4, <3>5, <3>6
    <2>9. ListRead(p, o, v, 1, b, unknown, l, t)
        BY <1>1, <2>1 DEF ListGood
    <2>10. Is(ListAt(ReadElement(p, o, unknown, l))[n][r], Gives(Elems(o, unknown, v, 1), t))
        BY <1>4, <2>2, <2>9 DEF ListRead, Joins
    <2>11. PICK y : Is(ListAt(SkipElement(p, unknown, l))[n][r], Gives(y, t))
        BY <1>4, <2>2, <2>9 DEF ListRead, Joins
    <2>12. Is(Reader(p, unknown)[l]["LIST"][o][c][s], Gives(Elems(o, unknown, v, 1), t))
        <3>1. o \in StructKinds /\ o # Nothing
            BY KindsOk DEF Fields, Nothing
        <3>2. PICK element : element = ReadElement(p, o, unknown, l)
            OBVIOUS
        <3>3. element = IF o = Nothing THEN SkipElement(p, unknown, l) ELSE ReadElement(p, o, unknown, l)
            BY <3>1, <3>2
        <3> QED
            BY <2>8, <2>10, <3>1, <3>2, <3>3
    <2>13. Is(Reader(p, unknown)[l]["LIST"][Nothing][c][s], Gives(y, t))
        <3>1. PICK element : element = SkipElement(p, unknown, l)
            OBVIOUS
        <3>2. element = IF Nothing = Nothing THEN SkipElement(p, unknown, l)
                        ELSE ReadElement(p, Nothing, unknown, l)
            BY <3>1
        <3> QED
            BY <2>8, <2>11, <3>1, <3>2, KindsOk
    <2>14. VisibleIn(f, unknown, v) = Elems(o, unknown, v, 1)
        <3>1. VisibleIn(f, unknown, v) = [i \in 1..n |-> Visible(o, unknown, v[i])]
            BY <1>1, <1>4 DEF VisibleIn, Left
        <3>2. n + 1 - 1 = n /\ \A i \in 1..n : i + 1 - 1 = i
            OBVIOUS
        <3>3. Elems(o, unknown, v, 1) = [i \in 1..n |-> Visible(o, unknown, v[i])]
            BY <1>4, <3>2 DEF Elems
        <3> QED
            BY <3>1, <3>3
    <2> QED
        BY <1>1, <2>3, <2>12, <2>13, <2>14 DEF ValueRead, Joins
<1> QED
    BY <1>2, <1>5 DEF ValueGood

\* What an agent finds in the bytes w of a call.
ReadIn(p, call, unknown, w) ==
    {x.value : x \in {x \in UNION {StructAt(p, Reader(p, unknown)[RecursionLimit - 1], ArgsOf[call], unknown, m.rest) :
                                   m \in {m \in NextMessage(p, w) : m.name = NameOf[call]
                                                                    /\ m.type = MessageType.ONEWAY}} :
                      x.rest = <<>>}}

\* The bytes before the arguments of a call.
MessageIsGood(p, call, h) ==
    /\ h \in Seq(Int) /\ Len(h) \in Nat \ {0}
    /\ \A t \in Seq(Int) : \E m : /\ m.name = NameOf[call] /\ m.type = MessageType.ONEWAY /\ m.rest = t
                                  /\ Is(NextMessage(p, h \o t), m)

\* The bytes of a whole call: every agent finds the arguments and no bytes after them.
CallGood(p, call, v, w) ==
    /\ w # <<>>
    /\ \A unknown : Is(ReadIn(p, call, unknown, w), Visible(ArgsOf[call], unknown, v))

\* A message and its arguments are a call.
LEMMA MessageGood ==
    ASSUME NEW p, NEW call \in DOMAIN ArgsOf, NEW h, MessageIsGood(p, call, h),
           NEW v, NEW b, FieldsGood(p, ArgsOf[call], v, 1, 0, b), NEW w, Joins(w, h, b)
    PROVE  CallGood(p, call, v, w)
<1>1. PICK o \in DOMAIN Fields : o = ArgsOf[call] /\ LevelsOf(o) <= 63
    BY DEF ArgsOf, Fields, LevelsOf, Rank
<1>2. b \in Seq(Int) /\ h \in Seq(Int) /\ Len(h) \in Nat \ {0}
    BY DEF FieldsGood, MessageIsGood
<1>3. PICK t \in Seq(Int) : t = <<>>
    BY EmptySeq
<1>4. PICK m : /\ m.name = NameOf[call] /\ m.type = MessageType.ONEWAY /\ m.rest = b
               /\ Is(NextMessage(p, w), m)
    BY <1>2 DEF MessageIsGood, Joins
<1>5. b \o t = b
    BY <1>2, <1>3
<1>6. ASSUME NEW unknown
      PROVE  Is(ReadIn(p, call, unknown, w), Visible(ArgsOf[call], unknown, v))
    <2>1. PICK l \in Nat : l = RecursionLimit - 1 /\ l = 63
        BY DEF RecursionLimit
    <2>2. Is(StructAt(p, Reader(p, unknown)[l], o, unknown, b), Gives(Visible(o, unknown, v), t))
        <3>1. Is(StructAt(p, Reader(p, unknown)[l], o, unknown, b \o t), Gives(Visible(o, unknown, v), t))
            <4>1. LevelsOf(o) <= l /\ FieldsGood(p, o, v, 1, 0, b)
                BY <1>1, <2>1
            <4> QED
                BY <1>3, <4>1, StructRead
        <3> QED
            BY <1>5, <3>1
    <2>3. PICK x : x = Gives(Visible(o, unknown, v), t)
        OBVIOUS
    <2>4. x.value = Visible(o, unknown, v) /\ x.rest = <<>>
        BY <1>3, <2>3 DEF Gives
    <2> DEFINE Answers(q) == StructAt(p, Reader(p, unknown)[RecursionLimit - 1], ArgsOf[call], unknown, q.rest)
               Matching == {q \in NextMessage(p, w) : q.name = NameOf[call] /\ q.type = MessageType.ONEWAY}
               All == UNION {Answers(q) : q \in Matching}
    <2>5. Matching = {m}
        BY <1>4 DEF Is
    <2>6. Answers(m) = {x}
        BY <1>1, <1>4, <2>1, <2>2, <2>3 DEF Is
    <2> HIDE DEF Answers, Matching
    <2>7. All = {x}
        BY <2>5, <2>6
    <2>8. ReadIn(p, call, unknown, w) = {y.value : y \in {y \in All : y.rest = <<>>}}
        BY DEF ReadIn, Answers, Matching
    <2> HIDE DEF All
    <2> QED
        BY <1>1, <2>4, <2>7, <2>8 DEF Is
<1>7. w # <<>>
    <2>1. Len(w) # 0
        BY <1>2, JoinedTwo, LenProperties
    <2> QED
        BY <2>1
<1> QED
    BY <1>6, <1>7 DEF CallGood

-----------------------------------------------------------------------------
(* The message at the beginning of a call. *)

\* The beginning of a message.
LEMMA CompactMessage ==
    ASSUME NEW call \in DOMAIN ArgsOf
    PROVE  MessageIsGood("compact", call, MessageHeader(NameOf[call], "ONEWAY", 0))
<1>1. PICK h : h = MessageHeader(NameOf[call], "ONEWAY", 0)
    OBVIOUS
<1>2. /\ NameOf[call] \in Seq(Int) /\ Len(NameOf[call]) = 1
      /\ Short(1) /\ Short(0) /\ MessageType["ONEWAY"] = 4
    <2>1. NameOf[call] = <<101>> \/ NameOf[call] = <<122>>
        BY DEF NameOf, ArgsOf
    <2>2. <<101>> \in Seq(Int) /\ <<122>> \in Seq(Int)
        OBVIOUS
    <2>3. 1 \in 0..255 /\ 0 \in 0..255
        OBVIOUS
    <2> QED
        BY <2>1, <2>2, <2>3, SmallIds DEF MessageType
<1>3. ASSUME NEW s \in Seq(Int), Agrees(s, h)
      PROVE  h \in Seq(Int) /\ MessageAt(s) = MessageRead(s, h, NameOf[call], 4, 0)
    <2>1. Agrees(s, MessageHeader(NameOf[call], "ONEWAY", 0))
        BY <1>1, <1>3
    <2>2. Short(Len(NameOf[call])) /\ MessageType["ONEWAY"] \in 1..4
        BY <1>2
    <2>3. PICK name, type : name = NameOf[call] /\ type = "ONEWAY"
        OBVIOUS
    <2>4. /\ MessageHeader(name, type, 0) \in Seq(Int)
          /\ MessageAt(s) = MessageRead(s, MessageHeader(name, type, 0), name, MessageType[type], 0)
        BY <1>2, <2>1, <2>2, <2>3, MessageReadBack
    <2> QED
        BY <1>1, <1>2, <2>3, <2>4
<1>4. h \in Seq(Int)
    <2>1. <<>> \in Seq(Int) /\ Agrees(<<>>, h)
        BY EmptySeq DEF Agrees
    <2> QED
        BY <1>3, <2>1
<1>5. ASSUME NEW t \in Seq(Int)
      PROVE  \E m : /\ m.name = NameOf[call] /\ m.type = MessageType.ONEWAY /\ m.rest = t
                    /\ Is(NextMessage("compact", h \o t), m)
    <2>1. PICK s \in Seq(Int) : s = h \o t /\ Agrees(s, h) /\ Len(h) <= Len(s) /\ After(s, Len(h)) = t
        BY <1>4, WithTail
    <2>2. PICK m : m = [name |-> NameOf[call], seqid |-> 0, type |-> 4, rest |-> t]
        OBVIOUS
    <2>3. m.name = NameOf[call] /\ m.type = MessageType.ONEWAY /\ m.rest = t
        BY <2>2 DEF MessageType
    <2>4. MessageAt(s) = {m}
        BY <1>3, <2>1, <2>2 DEF MessageRead
    <2>5. Is(NextMessage("compact", h \o t), m)
        BY <2>1, <2>4 DEF NextMessage, Is
    <2> QED
        BY <2>3, <2>5
<1>6. Len(h) \in Nat \ {0}
    <2>1. PICK m : m = 32 * MessageType["ONEWAY"] + Version /\ m \in Int
        BY DEF MessageType, Version
    <2>2. PICK a : a = <<ProtocolId, m>>
        OBVIOUS
    <2>3. a \in Seq(Int) /\ Len(a) = 2
        BY <2>1, <2>2 DEF ProtocolId
    <2>4. PICK e, w : e = Varint[0] /\ w = Text(NameOf[call])
        OBVIOUS
    <2>5. e \in Seq(Int) /\ w \in Seq(Int)
        <3>1. Varint[0] \in Seq(Int) /\ Varint[1] \in Seq(Int)
            BY VarintType, SeqMonotonic
        <3>2. Text(NameOf[call]) = Varint[1] \o NameOf[call]
            BY <1>2 DEF Text
        <3> QED
            BY <1>2, <2>4, <3>1, <3>2, ConcatProperties
    <2>6. PICK d : Joins(d, a, e)
        BY DEF Joins
    <2>7. d \in Seq(Int) /\ Len(d) = 2 + Len(e) /\ Len(e) \in Nat
        BY <2>3, <2>5, <2>6, JoinedTwo, LenProperties
    <2>8. Joins(h, d, w)
        BY <1>1, <2>1, <2>2, <2>4, <2>6 DEF MessageHeader, Joins
    <2>9. Len(h) = Len(d) + Len(w) /\ Len(w) \in Nat
        BY <2>5, <2>7, <2>8, JoinedTwo, LenProperties
    <2> QED
        BY <2>7, <2>9
<1> QED
    BY <1>1, <1>4, <1>5, <1>6 DEF MessageIsGood
\* The beginning of a message.
LEMMA BinaryMessage ==
    ASSUME NEW call \in DOMAIN ArgsOf
    PROVE  MessageIsGood("binary", call, Binary!MessageHeader(NameOf[call], "ONEWAY", 0))
<1>1. PICK name : name = NameOf[call] /\ name \in Seq(Int) /\ Len(name) = 1
    <2>1. NameOf[call] = <<101>> \/ NameOf[call] = <<122>>
        BY DEF NameOf, ArgsOf
    <2>2. <<101>> \in Seq(Int) /\ <<122>> \in Seq(Int) /\ Len(<<101>>) = 1 /\ Len(<<122>>) = 1
        OBVIOUS
    <2>3. NameOf[call] \in Seq(Int) /\ Len(NameOf[call]) = 1
        BY <2>1, <2>2
    <2> QED
        BY <2>3
<1>2. Wide(4, 1) /\ Wide(4, 0) /\ Wide(4, Len(name))
    <2>1. Int16(1 \div 65536) /\ Int16(0 \div 65536)
        BY DEF Int16
    <2>2. Wide(4, 1)
        BY <2>1, WideFour
    <2>3. Wide(4, 0)
        BY <2>1, WideFour
    <2> QED
        BY <1>1, <2>2, <2>3
<1>3. PICK z \in Seq(Int), l \in Seq(Int) :
          z = Binary!BigEndian(4, 0) /\ l = Binary!BigEndian(4, Len(name))
    <2>1. Binary!BigEndian(4, 0) \in Seq(Int)
        BY <1>2, SignedBack
    <2>2. Binary!BigEndian(4, 1) \in Seq(Int)
        BY <1>2, SignedBack
    <2> QED
        BY <1>1, <2>1, <2>2
<1>4. PICK a \in Seq(Int) : a = <<128, 1, 0, 4>> /\ Len(a) = 4
    <2>1. <<128, 1, 0, 4>> \in Seq(Int) /\ Len(<<128, 1, 0, 4>>) = 4
        OBVIOUS
    <2> QED
        BY <2>1
<1>5. PICK e : Joins(e, l, name)
    BY DEF Joins
<1>6. e \in Seq(Int)
    BY <1>1, <1>5, JoinedTwo
<1>7. PICK ae : Joins(ae, a, e)
    BY DEF Joins
<1>8. ae \in Seq(Int) /\ Len(ae) = 4 + Len(e) /\ Len(e) \in Nat
    BY <1>4, <1>6, <1>7, JoinedTwo, LenProperties
<1>9. PICK h : Joins(h, ae, z)
    BY DEF Joins
<1>10. h \in Seq(Int) /\ Len(h) = Len(ae) + Len(z) /\ Len(z) \in Nat
    BY <1>3, <1>8, <1>9, JoinedTwo, LenProperties
<1>11. h = Binary!MessageHeader(name, "ONEWAY", 0)
    <2>1. Binary!Version1 \o <<Binary!MessageType["ONEWAY"]>> = a
        <3>1. PICK v \in Seq(Int) : v = Binary!Version1 /\ Len(v) = 3 /\ v[1] = 128 /\ v[2] = 1 /\ v[3] = 0
            <4>1. <<128, 1, 0>> \in Seq(Int) /\ Len(<<128, 1, 0>>) = 3
                OBVIOUS
            <4> QED
                BY <4>1 DEF Binary!Version1
        <3>2. PICK u \in Seq(Int) : u = <<Binary!MessageType["ONEWAY"]>> /\ Len(u) = 1 /\ u[1] = 4
            <4>1. <<4>> \in Seq(Int) /\ Len(<<4>>) = 1
                OBVIOUS
            <4> QED
                BY <4>1 DEF Binary!MessageType
        <3>3. v \o u \in Seq(Int) /\ Len(v \o u) = 4
              /\ \A i \in 1..4 : (v \o u)[i] = IF i <= 3 THEN v[i] ELSE u[i - 3]
            <4>1. /\ v \o u \in Seq(Int) /\ Len(v \o u) = Len(v) + Len(u)
                  /\ \A i \in 1..(Len(v) + Len(u)) : (v \o u)[i] = IF i <= Len(v) THEN v[i] ELSE u[i - Len(v)]
                BY ConcatProperties
            <4>2. Len(v) = 3 /\ Len(u) = 1 /\ 3 + 1 = 4
                BY <3>1, <3>2
            <4> QED
                BY <4>1, <4>2
        <3>4. a[1] = 128 /\ a[2] = 1 /\ a[3] = 0 /\ a[4] = 4
            BY <1>4
        <3>5. \A i \in 1..4 : (v \o u)[i] = a[i]
            BY <3>1, <3>2, <3>3, <3>4, SMTT(60)
        <3>6. Len(a) = 4
            BY <1>4
        <3>7. v \o u = a
            BY <3>3, <3>5, <3>6, SeqEqual
        <3> QED
            BY <3>1, <3>2, <3>7
    <2>2. Binary!Encoded("STRING", name) = e
        BY <1>3, <1>5 DEF Binary!Encoded, Binary!Width, Joins
    <2>3. PICK vt : vt = Binary!Version1 \o <<Binary!MessageType["ONEWAY"]>>
        OBVIOUS
    <2>4. Binary!MessageHeader(name, "ONEWAY", 0) = (vt \o Binary!Encoded("STRING", name)) \o Binary!BigEndian(4, 0)
        BY <2>3 DEF Binary!MessageHeader
    <2>5. vt \o Binary!Encoded("STRING", name) = ae
        BY <1>7, <2>1, <2>2, <2>3 DEF Joins
    <2> QED
        BY <1>3, <1>9, <2>4, <2>5 DEF Joins
<1>12. ASSUME NEW t \in Seq(Int)
       PROVE  \E m : /\ m.name = name /\ m.type = MessageType.ONEWAY /\ m.rest = t
                     /\ Is(NextMessage("binary", h \o t), m)
    <2>1. PICK s : Joins(s, h, t) /\ s = h \o t
        BY DEF Joins
    <2>2. PICK zt : Joins(zt, z, t)
        BY DEF Joins
    <2>3. zt \in Seq(Int)
        BY <2>2, JoinedTwo
    <2>4. Joins(s, ae, zt)
        BY <1>3, <1>8, <1>9, <2>1, <2>2, JoinedThree
    <2>5. PICK ez : Joins(ez, e, zt)
        BY DEF Joins
    <2>6. ez \in Seq(Int)
        BY <1>6, <2>3, <2>5, JoinedTwo
    <2>7. Joins(s, a, ez)
        BY <1>6, <1>7, <2>3, <2>4, <2>5, JoinedThree
    <2>8. /\ s \in Seq(Int) /\ Agrees(s, a) /\ Len(a) <= Len(s) /\ After(s, Len(a)) = ez
          /\ Is(Binary!BytesAt(s, Len(a)), Gives(a, ez))
        <3>1. s \in Seq(Int) /\ Is(Binary!BytesAt(s, Len(a)), Gives(a, ez))
            BY <2>6, <2>7, BytesTaken
        <3>2. s = a \o ez
            BY <2>7 DEF Joins
        <3> QED
            BY <2>6, <3>1, <3>2, WithTail
    <2>9. Is(Binary!TextOf(Binary!NumberAt(4, ez)), Gives(name, zt))
        <3>1. Joins(e, Binary!BigEndian(4, Len(name)), name)
            BY <1>3, <1>5
        <3> QED
            BY <1>1, <1>2, <2>3, <2>5, <3>1, TextTaken
    <2>10. Is(Binary!NumberAt(4, zt), Gives(<<0>>, t))
        <3>1. Joins(zt, Binary!BigEndian(4, 0), t)
            BY <1>3, <2>2
        <3>2. PICK n \in Int : n = 0
            OBVIOUS
        <3> QED
            BY <1>2, <3>1, <3>2, NumberTaken
    <2>11. s[4] = 4 /\ Binary!After(s, 4) = ez
        <3>1. 4 \in 1..Len(a) /\ 4 <= Len(s) /\ a[4] = 4
            BY <1>4, <2>8
        <3>2. s[4] = 4
            BY <2>8, <3>1 DEF Agrees
        <3> QED
            BY <1>4, <2>8, <3>2 DEF After, Binary!After
    <2>12. PICK x, y, q : x = Gives(a, ez) /\ y = Gives(name, zt) /\ q = Gives(<<0>>, t)
        OBVIOUS
    <2>13. x.value = a /\ y.value = name /\ y.rest = zt /\ q.value[1] = 0 /\ q.rest = t
        BY <2>12 DEF Gives
    <2>14. PICK m : m = [name |-> name, seqid |-> 0, type |-> 4, rest |-> t]
        OBVIOUS
    <2>15. m.name = name /\ m.type = MessageType.ONEWAY /\ m.rest = t
        BY <2>14 DEF MessageType
    <2>16. Binary!NewMessageAt(s) = {m}
        <3> DEFINE Whole(n, r) == [name |-> n.value, seqid |-> r.value[1], type |-> s[4], rest |-> r.rest]
                   Rest(n) == {Whole(n, r) : r \in Binary!NumberAt(4, n.rest)}
        <3>1. Binary!NewMessageAt(s) = UNION {Rest(n) : n \in Binary!TextOf(Binary!NumberAt(4, Binary!After(s, 4)))}
            BY DEF Binary!NewMessageAt
        <3>2. Whole(y, q) = m
            BY <2>11, <2>13, <2>14
        <3> HIDE DEF Whole
        <3>3. Rest(y) = {m}
            BY <2>10, <2>12, <2>13, <3>2 DEF Is
        <3> HIDE DEF Rest
        <3> QED
            BY <2>9, <2>11, <2>12, <3>1, <3>3 DEF Is
    <2>17. SubSeq(a, 1, 2) = SubSeq(Binary!Version1, 1, 2)
        <3>1. PICK v \in Seq(Int) : v = Binary!Version1 /\ v = <<128, 1, 0>> /\ Len(v) = 3
            <4>1. <<128, 1, 0>> \in Seq(Int) /\ Len(<<128, 1, 0>>) = 3
                OBVIOUS
            <4> QED
                BY <4>1 DEF Binary!Version1
        <3>2. SubSeq(a, 1, 2) \in Seq(Int) /\ Len(SubSeq(a, 1, 2)) = 2 /\ \A i \in 1..2 : SubSeq(a, 1, 2)[i] = a[i]
            BY <1>4, FirstIs
        <3>3. SubSeq(v, 1, 2) \in Seq(Int) /\ Len(SubSeq(v, 1, 2)) = 2 /\ \A i \in 1..2 : SubSeq(v, 1, 2)[i] = v[i]
            BY <3>1, FirstIs
        <3>4. \A i \in 1..2 : a[i] = v[i]
            BY <1>4, <3>1
        <3>5. SubSeq(a, 1, 2) = SubSeq(v, 1, 2)
            BY <3>2, <3>3, <3>4, SeqEqual
        <3> QED
            BY <3>1, <3>5
    <2>18. Binary!MessageAt(s) = {m}
        <3> DEFINE Some(r) == IF r.value[1] < 128 THEN Binary!OldMessageAt(s)
                              ELSE IF SubSeq(r.value, 1, 2) = SubSeq(Binary!Version1, 1, 2)
                              THEN Binary!NewMessageAt(s) ELSE {}
        <3>1. Binary!MessageAt(s) = UNION {Some(r) : r \in Binary!BytesAt(s, 4)}
            BY DEF Binary!MessageAt
        <3>2. a[1] = 128 /\ ~(a[1] < 128)
            BY <1>4
        <3>3. Some(x) = {m}
            BY <2>13, <2>16, <2>17, <3>2
        <3>4. Binary!BytesAt(s, 4) = {x}
            <4>1. Len(a) = 4
                BY <1>4
            <4> QED
                BY <2>8, <2>12, <4>1 DEF Is
        <3> HIDE DEF Some
        <3> QED
            BY <3>1, <3>3, <3>4
    <2> QED
        BY <2>1, <2>15, <2>18 DEF NextMessage, Is
<1>13. Len(h) \in Nat \ {0}
    BY <1>8, <1>10
<1> QED
    BY <1>1, <1>10, <1>11, <1>12, <1>13 DEF MessageIsGood

\* The two protocols.
Protocols == {"compact", "binary"}

\* The scalar types of the structs.
ScalarTypes == {"I16", "I32", "I64", "BOOL", "STRING", "DOUBLE"}

-----------------------------------------------------------------------------
(* What the writer still has to write, and that it would be read. *)

\* What a write function writes for a value.
PartGood(p, type, of, v, b) ==
    /\ type = "STRUCT" => FieldsGood(p, of, v, 1, 0, b)
    /\ type = "LIST" => \E h, e : CollectionIsGood(p, h, Len(v)) /\ ListGood(p, of, v, 1, e) /\ Joins(b, h, e)
    /\ type \notin Nested => ScalarIsGood(p, type, v, b)

\* In a field of a struct it is read as its value.
LEMMA PartIsValue ==
    ASSUME NEW p, NEW of \in DOMAIN Fields, NEW f, FieldOk(of, f), NEW v, ProperIn(f, v),
           NEW e, PartGood(p, f.type, f.of, v, e), NEW c \in Nat, f.type = "BOOL" => c = 0
    PROVE  ValueGood(p, f, v, c, LevelsOf(of), e)
<1>1. PICK n \in Nat \ {0} : n = LevelsOf(of)
    BY Ranks DEF LevelsOf
<1>2. CASE f.type = "STRUCT"
    <2>1. f.of \in DOMAIN Fields /\ LevelsOf(f.of) + 2 <= n
        BY <1>1, <1>2, Ranks DEF FieldOk, Nested, LevelsOf
    <2>2. FieldsGood(p, f.of, v, 1, 0, e)
        BY <1>2 DEF PartGood
    <2> QED
        BY <1>1, <1>2, <2>1, <2>2, StructGood
<1>3. CASE f.type = "LIST"
    <2>1. f.of \in DOMAIN Fields /\ LevelsOf(f.of) + 2 <= n
        BY <1>1, <1>3, Ranks DEF FieldOk, Nested, LevelsOf
    <2>2. IsList(v)
        BY <1>3 DEF ProperIn, Fit
    <2>3. PICK h, b : CollectionIsGood(p, h, Len(v)) /\ ListGood(p, f.of, v, 1, b) /\ Joins(e, h, b)
        BY <1>3 DEF PartGood
    <2> QED
        BY <1>1, <1>3, <2>1, <2>2, <2>3, ListFieldGood
<1>4. CASE f.type \notin Nested
    <2>1. f.type \in Scalar /\ f.of = "none"
        BY <1>4 DEF FieldOk, Nested, Scalar, Types, Collection
    <2>2. ScalarIsGood(p, f.type, v, e)
        BY <1>4 DEF PartGood
    <2> QED
        BY <1>1, <2>1, <2>2, ScalarGood
<1> QED
    BY <1>2, <1>3, <1>4 DEF Nested

\* A frame of the work list that can be there.
FrameOk(x) ==
    /\ x = [call |-> x.call, type |-> x.type, of |-> x.of, value |-> x.value, next |-> x.next]
    /\ x.call \in {"message", "value", "struct", "list"}
    /\ x.call = "value" => /\ x.type \in TypesInUse /\ ProperIn(x, x.value)
                           /\ x.type \in Nested => x.of \in DOMAIN Fields
    /\ x.call = "struct" => /\ x.of \in DOMAIN Fields /\ Proper(x.of, x.value)
                            /\ x.next \in 1..(Len(Fields[x.of]) + 2)
    /\ x.call = "list" => /\ x.of \in DOMAIN Fields /\ IsList(x.value)
                          /\ \A j \in DOMAIN x.value : Proper(x.of, x.value[j])
                          /\ x.next \in 1..(Len(x.value) + 1)

\* The bytes that would end it; last is the last id of a struct.
FrameGood(p, call, x, last, b) ==
    /\ b \in Seq(Int)
    /\ x.call = "message" => MessageIsGood(p, call, b)
    /\ x.call = "value" => PartGood(p, x.type, x.of, x.value, b)
    /\ x.call = "list" => ListGood(p, x.of, x.value, x.next, b)
    /\ x.call = "struct" => IF x.next <= Len(Fields[x.of]) + 1
                            THEN FieldsGood(p, x.of, x.value, x.next, last, b) ELSE b = <<>>

\* With the ids S on the stack, a struct takes the last one with it.
Outer(x, S) == IF x.call = "struct" THEN SubSeq(S, 1, Len(S) - 1) ELSE S
Deep(x) == IF x.call = "struct" THEN 1 ELSE 0

\* The stack and the bytes that end a frame and the ones below it; U are those that end
\* the ones below it.
Ends(p, call, x, U, S, w) ==
    \E b, r : /\ r \in Seq(Int) /\ Joins(w, b, r) /\ FrameGood(p, call, x, S[Len(S)], b)
              /\ <<Outer(x, S), r>> \in U
Tails(p, call, x, U) == {y \in Seq(Int) \X Seq(Int) : Ends(p, call, x, U, y[1], y[2])}
NoFrame == Seq(Int) \X {<<>>}

\* T and D are the tails and the number of structs for each length of the work list q.
Chained(p, call, q, T, D) ==
    /\ T[0] = NoFrame /\ D[0] = 0
    /\ \A i \in 1..Len(q) : /\ FrameOk(q[i])
                            /\ T[i] = Tails(p, call, q[i], T[i - 1])
                            /\ D[i] = D[i - 1] + Deep(q[i])
    /\ \A i \in 0..Len(q) : D[i] \in Nat

Frames(p, call, q, U, d) ==
    /\ \E X : q \in Seq(X)
    /\ \E T, D : Chained(p, call, q, T, D) /\ U = T[Len(q)] /\ d = D[Len(q)]

\* An empty work list.
LEMMA NoFrames ==
    ASSUME NEW p, NEW call
    PROVE  /\ Frames(p, call, <<>>, NoFrame, 0)
           /\ \A U, d : Frames(p, call, <<>>, U, d) => U = NoFrame /\ d = 0
<1>1. <<>> \in Seq({}) /\ Len(<<>>) = 0
    BY EmptySeq
<1>2. PICK T, D : T = [i \in {0} |-> NoFrame] /\ D = [i \in {0} |-> 0]
    OBVIOUS
<1>3. Chained(p, call, <<>>, T, D) /\ T[0] = NoFrame /\ D[0] = 0
    BY <1>1, <1>2 DEF Chained
<1>4. \A U, d : Frames(p, call, <<>>, U, d) => U = NoFrame /\ d = 0
    BY <1>1 DEF Frames, Chained
<1> QED
    BY <1>1, <1>3, <1>4 DEF Frames

\* One frame more.
LEMMA Pushed ==
    ASSUME NEW p, NEW call, NEW q, NEW U, NEW d, Frames(p, call, q, U, d), NEW x, FrameOk(x)
    PROVE  Frames(p, call, Append(q, x), Tails(p, call, x, U), d + Deep(x))
<1>1. PICK X, T, D : q \in Seq(X) /\ Chained(p, call, q, T, D) /\ U = T[Len(q)] /\ d = D[Len(q)]
    BY DEF Frames
<1>2. PICK n \in Nat : n = Len(q)
    BY <1>1, LenProperties
<1>3. PICK r : r = Append(q, x)
    OBVIOUS
<1>4. /\ r \in Seq(X \union {x}) /\ Len(r) = n + 1 /\ r[n + 1] = x
      /\ \A i \in 1..n : r[i] = q[i]
    <2>1. q \in Seq(X \union {x})
        <3>1. PICK Y : Y = X \union {x} /\ X \subseteq Y
            OBVIOUS
        <3> QED
            BY <1>1, <3>1, SeqMonotonic
    <2>2. PICK Y : Y = X \union {x} /\ q \in Seq(Y) /\ x \in Y
        BY <2>1
    <2>3. /\ Append(q, x) \in Seq(Y) /\ Len(Append(q, x)) = Len(q) + 1 /\ Append(q, x)[Len(q) + 1] = x
          /\ \A i \in 1..Len(q) : Append(q, x)[i] = q[i]
        BY <2>2, AppendProperties
    <2> QED
        BY <1>2, <1>3, <2>2, <2>3
<1>5. PICK T2, D2 : /\ T2 = [i \in 0..(n + 1) |-> IF i <= n THEN T[i] ELSE Tails(p, call, x, U)]
                    /\ D2 = [i \in 0..(n + 1) |-> IF i <= n THEN D[i] ELSE d + Deep(x)]
    OBVIOUS
<1>6. /\ \A i \in 0..n : T2[i] = T[i] /\ D2[i] = D[i]
      /\ T2[n + 1] = Tails(p, call, x, U) /\ D2[n + 1] = d + Deep(x)
    <2>1. n + 1 \in 0..(n + 1) /\ ~(n + 1 <= n) /\ \A i \in 0..n : i \in 0..(n + 1) /\ i <= n
        OBVIOUS
    <2> QED
        BY <1>5, <2>1
<1>7. \A i \in 1..n : /\ FrameOk(q[i])
                      /\ T[i] = Tails(p, call, q[i], T[i - 1])
                      /\ D[i] = D[i - 1] + Deep(q[i])
    BY <1>1, <1>2 DEF Chained
<1>8. \A i \in 0..n : D[i] \in Nat
    BY <1>1, <1>2 DEF Chained
<1>9. T2[0] = NoFrame /\ D2[0] = 0
    BY <1>1, <1>6 DEF Chained
<1>10. ASSUME NEW i \in 1..(n + 1)
       PROVE  /\ FrameOk(r[i])
              /\ T2[i] = Tails(p, call, r[i], T2[i - 1])
              /\ D2[i] = D2[i - 1] + Deep(r[i])
    <2>1. CASE i = n + 1
        <3>1. i - 1 = n /\ n \in 0..n
            BY <2>1
        <3>2. T2[i - 1] = U /\ D2[i - 1] = d
            BY <1>1, <1>2, <1>6, <3>1
        <3> QED
            BY <1>4, <1>6, <2>1, <3>2
    <2>2. CASE i # n + 1
        <3>1. i \in 1..n /\ i \in 0..n /\ i - 1 \in 0..n
            BY <2>2
        <3> QED
            BY <1>4, <1>6, <1>7, <3>1
    <2> QED
        BY <2>1, <2>2
<1>11. ASSUME NEW i \in 0..(n + 1) PROVE D2[i] \in Nat
    <2>1. CASE i = n + 1
        <3>1. d \in Nat /\ Deep(x) \in Nat
            <4>1. n \in 0..n
                OBVIOUS
            <4> QED
                BY <1>1, <1>2, <1>8, <4>1 DEF Deep
        <3> QED
            BY <1>6, <2>1, <3>1
    <2>2. CASE i # n + 1
        <3>1. i \in 0..n
            BY <2>2
        <3> QED
            BY <1>6, <1>8, <3>1
    <2> QED
        BY <2>1, <2>2
<1>12. Chained(p, call, r, T2, D2)
    BY <1>4, <1>9, <1>10, <1>11 DEF Chained
<1> QED
    BY <1>3, <1>4, <1>6, <1>12 DEF Frames

\* One frame less.
LEMMA Popped ==
    ASSUME NEW p, NEW call, NEW q, q # <<>>, NEW U, NEW d, Frames(p, call, q, U, d)
    PROVE  \E V, e : /\ Frames(p, call, SubSeq(q, 1, Len(q) - 1), V, e)
                     /\ FrameOk(q[Len(q)]) /\ U = Tails(p, call, q[Len(q)], V)
                     /\ d = e + Deep(q[Len(q)]) /\ e \in Nat
<1>1. PICK X, T, D : q \in Seq(X) /\ Chained(p, call, q, T, D) /\ U = T[Len(q)] /\ d = D[Len(q)]
    BY DEF Frames
<1>2. PICK n \in Nat : n + 1 = Len(q)
    <2>1. Len(q) \in Nat /\ Len(q) # 0
        BY <1>1, LenProperties, EmptySeq
    <2>2. Len(q) - 1 \in Nat /\ (Len(q) - 1) + 1 = Len(q)
        BY <2>1
    <2> QED
        BY <2>2
<1>3. PICK r : r = SubSeq(q, 1, Len(q) - 1)
    OBVIOUS
<1>4. r \in Seq(X) /\ Len(r) = n /\ \A i \in 1..n : r[i] = q[i]
    <2>1. Len(q) - 1 = n /\ \A i \in 1..n : q[i] \in X
        BY <1>1, <1>2, ElementOfSeq
    <2>2. /\ SubSeq(q, 1, n) \in Seq(X)
          /\ Len(SubSeq(q, 1, n)) = IF 1 <= n THEN n - 1 + 1 ELSE 0
          /\ \A i \in 1..(n - 1 + 1) : SubSeq(q, 1, n)[i] = q[1 + i - 1]
        BY <1>1, <2>1, SubSeqProperties
    <2>3. Len(SubSeq(q, 1, n)) = n
        BY <2>2
    <2>4. ASSUME NEW i \in 1..n PROVE SubSeq(q, 1, n)[i] = q[i]
        <3>1. i \in 1..(n - 1 + 1) /\ 1 + i - 1 = i
            OBVIOUS
        <3> QED
            BY <2>2, <3>1
    <2> QED
        BY <1>3, <2>1, <2>2, <2>3, <2>4
<1>5. \A i \in 1..(n + 1) : /\ FrameOk(q[i])
                            /\ T[i] = Tails(p, call, q[i], T[i - 1])
                            /\ D[i] = D[i - 1] + Deep(q[i])
    BY <1>1, <1>2 DEF Chained
<1>6. \A i \in 0..(n + 1) : D[i] \in Nat
    BY <1>1, <1>2 DEF Chained
<1>7. T[0] = NoFrame /\ D[0] = 0
    BY <1>1 DEF Chained
<1>8. \A i \in 1..n : i \in 1..(n + 1)
    OBVIOUS
<1>9. \A i \in 0..n : i \in 0..(n + 1)
    OBVIOUS
<1>10. Chained(p, call, r, T, D)
    BY <1>4, <1>5, <1>6, <1>7, <1>8, <1>9 DEF Chained
<1>11. Frames(p, call, r, T[n], D[n])
    BY <1>4, <1>10 DEF Frames
<1>12. n + 1 \in 1..(n + 1) /\ (n + 1) - 1 = n /\ n \in 0..(n + 1)
    OBVIOUS
<1>13. FrameOk(q[n + 1]) /\ U = Tails(p, call, q[n + 1], T[n]) /\ d = D[n] + Deep(q[n + 1]) /\ D[n] \in Nat
    BY <1>1, <1>2, <1>5, <1>6, <1>12
<1> QED
    BY <1>2, <1>3, <1>11, <1>13

-----------------------------------------------------------------------------
(* The stack of ids. *)

\* The ids of the structs around and of this one: what the compact protocol keeps, and
\* what the binary one could keep.
Stack(p, S, d, lf, last) ==
    /\ S \in Seq(Int) /\ Len(S) = d + 1
    /\ p = "compact" => S = Append(lf, last)

Under(q) == SubSeq(q, 1, Len(q) - 1)

\* Under what was appended there is what was there.
LEMMA UnderAppended ==
    ASSUME NEW S \in Seq(Int), NEW a \in Int
    PROVE  /\ Append(S, a) \in Seq(Int) /\ Len(Append(S, a)) = Len(S) + 1
           /\ Under(Append(S, a)) = S
           /\ Append(S, a)[Len(Append(S, a))] = a
<1>1. PICK n \in Nat : n = Len(S)
    BY LenProperties
<1>2. PICK A : A = Append(S, a)
    OBVIOUS
<1>3. A \in Seq(Int) /\ Len(A) = n + 1 /\ A[n + 1] = a /\ \A i \in 1..n : A[i] = S[i]
    BY <1>1, <1>2, AppendProperties
<1>4. Len(A) - 1 = n
    BY <1>3
<1>5. \A i \in 1..n : A[i] \in Int
    BY <1>1, <1>3, ElementOfSeq
<1>6. /\ SubSeq(A, 1, n) \in Seq(Int)
      /\ Len(SubSeq(A, 1, n)) = IF 1 <= n THEN n - 1 + 1 ELSE 0
      /\ \A i \in 1..(n - 1 + 1) : SubSeq(A, 1, n)[i] = A[1 + i - 1]
    BY <1>5, SubSeqProperties
<1>7. Len(SubSeq(A, 1, n)) = n
    BY <1>6
<1>8. ASSUME NEW i \in 1..n PROVE SubSeq(A, 1, n)[i] = S[i]
    <2>1. i \in 1..(n - 1 + 1) /\ 1 + i - 1 = i
        OBVIOUS
    <2> QED
        BY <1>3, <1>6, <2>1
<1>9. SubSeq(A, 1, n) = S
    BY <1>1, <1>6, <1>7, <1>8, SeqEqual
<1>10. Under(A) = S
    BY <1>4, <1>9 DEF Under
<1> QED
    BY <1>1, <1>2, <1>3, <1>10

\* What is under the top of a stack, and the top.
LEMMA UnderType ==
    ASSUME NEW S \in Seq(Int), NEW d \in Nat, Len(S) = d + 1
    PROVE  Under(S) \in Seq(Int) /\ Len(Under(S)) = d /\ S[Len(S)] \in Int
<1>1. Len(S) - 1 = d /\ d + 1 \in 1..Len(S)
    OBVIOUS
<1>2. \A i \in 1..Len(S) : S[i] \in Int
    BY ElementOfSeq
<1>3. \A i \in 1..d : S[i] \in Int
    <2>1. \A i \in 1..d : i \in 1..Len(S)
        OBVIOUS
    <2> QED
        BY <1>2, <2>1
<1>4. SubSeq(S, 1, d) \in Seq(Int) /\ Len(SubSeq(S, 1, d)) = IF 1 <= d THEN d - 1 + 1 ELSE 0
    BY <1>3, SubSeqProperties
<1>5. Len(SubSeq(S, 1, d)) = d
    BY <1>4
<1> QED
    BY <1>1, <1>2, <1>4, <1>5 DEF Under

\* A struct begins.
LEMMA StackBegun ==
    ASSUME NEW p, NEW S, NEW d \in Nat, NEW lf, NEW last, Stack(p, S, d, lf, last),
           NEW lf2, NEW last2, p = "compact" => lf2 = Append(lf, last) /\ last2 = 0
    PROVE  Stack(p, Append(S, 0), d + 1, lf2, last2)
<1>1. PICK z \in Int : z = 0
    OBVIOUS
<1>2. Append(S, z) \in Seq(Int) /\ Len(Append(S, z)) = Len(S) + 1
    BY UnderAppended DEF Stack
<1> QED
    BY <1>1, <1>2 DEF Stack

\* A field.
LEMMA StackSet ==
    ASSUME NEW p, NEW S, NEW d \in Nat, NEW lf \in Seq(Int), NEW last \in Int, Stack(p, S, d, lf, last),
           NEW id \in Int, NEW last2, p = "compact" => last2 = id
    PROVE  Stack(p, Append(Under(S), id), d, lf, last2)
<1>1. Under(S) \in Seq(Int) /\ Len(Under(S)) = d
    BY UnderType DEF Stack
<1>2. Append(Under(S), id) \in Seq(Int) /\ Len(Append(Under(S), id)) = d + 1
    BY <1>1, UnderAppended
<1>3. ASSUME p = "compact" PROVE Append(Under(S), id) = Append(lf, last2)
    <2>1. S = Append(lf, last) /\ Under(Append(lf, last)) = lf
        BY <1>3, UnderAppended DEF Stack
    <2> QED
        BY <1>3, <2>1
<1> QED
    BY <1>2, <1>3 DEF Stack

\* A struct ends.
LEMMA StackEnded ==
    ASSUME NEW p, NEW S, NEW d \in Nat, NEW lf \in Seq(Int), NEW last \in Int, Stack(p, S, d + 1, lf, last),
           NEW lf2, NEW last2, p = "compact" => lf2 = Under(lf) /\ last2 = lf[Len(lf)]
    PROVE  /\ Stack(p, Under(S), d, lf2, last2)
           /\ p = "compact" => lf2 \in Seq(Int) /\ last2 \in Int
<1>1. d + 1 \in Nat
    OBVIOUS
<1>2. Under(S) \in Seq(Int) /\ Len(Under(S)) = d + 1
    BY <1>1, UnderType DEF Stack
<1>3. ASSUME p = "compact"
      PROVE  Under(S) = Append(lf2, last2) /\ lf2 \in Seq(Int) /\ last2 \in Int
    <2>1. S = Append(lf, last) /\ Under(Append(lf, last)) = lf
        BY <1>3, UnderAppended DEF Stack
    <2>2. Under(S) = lf /\ Len(lf) = d + 1
        BY <1>2, <2>1
    <2>3. lf2 \in Seq(Int) /\ Len(lf2) = d /\ last2 \in Int
        BY <1>3, <2>2, UnderType
    <2>4. PICK A : A = Append(lf2, last2)
        OBVIOUS
    <2>5. A \in Seq(Int) /\ Len(A) = d + 1 /\ A[d + 1] = last2 /\ \A i \in 1..d : A[i] = lf2[i]
        BY <2>3, <2>4, AppendProperties
    <2>6. \A i \in 1..d : lf2[i] = lf[i]
        <3>1. Len(lf) - 1 = d /\ \A i \in 1..d : i \in 1..Len(lf)
            BY <2>2
        <3>2. \A i \in 1..d : lf[i] \in Int
            BY <3>1, ElementOfSeq
        <3>3. \A i \in 1..(d - 1 + 1) : SubSeq(lf, 1, d)[i] = lf[1 + i - 1]
            BY <3>2, SubSeqProperties
        <3>4. lf2 = SubSeq(lf, 1, d)
            BY <1>3, <3>1 DEF Under
        <3> TAKE i \in 1..d
        <3>5. i \in 1..(d - 1 + 1) /\ 1 + i - 1 = i
            OBVIOUS
        <3> QED
            BY <3>3, <3>4, <3>5
    <2>7. \A i \in 1..(d + 1) : A[i] = lf[i]
        <3> TAKE i \in 1..(d + 1)
        <3>1. CASE i = d + 1
            BY <1>3, <2>2, <2>5, <3>1
        <3>2. CASE i # d + 1
            <4>1. i \in 1..d
                BY <3>2
            <4> QED
                BY <2>5, <2>6, <4>1
        <3> QED
            BY <3>1, <3>2
    <2>8. A = lf
        BY <2>2, <2>5, <2>7, SeqEqual
    <2> QED
        BY <2>2, <2>3, <2>4, <2>8
<1> QED
    BY <1>2, <1>3 DEF Stack

-----------------------------------------------------------------------------
(* What a call adds to the bytes, it takes from what is left to write. *)

\* The stack and the bytes that would end the work list make a call of what is written.
Good(p, call, v, w, S, U) ==
    \A y, z : <<S, y>> \in U /\ Joins(z, w, y) => CallGood(p, call, v, z)

\* The writer between two calls.
Busy(p, call, v, w, lf, last, q) ==
    \E U, d, S : Frames(p, call, q, U, d) /\ Stack(p, S, d, lf, last) /\ Good(p, call, v, w, S, U)

\* The tails are pairs.
LEMMA TailsType ==
    ASSUME NEW p, NEW call, NEW q, NEW U, NEW d, Frames(p, call, q, U, d)
    PROVE  U \subseteq Seq(Int) \X Seq(Int) /\ d \in Nat
<1>1. CASE q = <<>>
    <2>1. U = NoFrame /\ d = 0
        BY <1>1, NoFrames
    <2>2. <<>> \in Seq(Int)
        BY EmptySeq
    <2>3. PICK E : E = {<<>>} /\ E \subseteq Seq(Int)
        BY <2>2
    <2>4. Seq(Int) \X E \subseteq Seq(Int) \X Seq(Int)
        BY <2>3
    <2> QED
        BY <2>1, <2>3, <2>4 DEF NoFrame
<1>2. CASE q # <<>>
    <2>1. PICK V, e : U = Tails(p, call, q[Len(q)], V) /\ d = e + Deep(q[Len(q)]) /\ e \in Nat
        BY <1>2, Popped
    <2> QED
        BY <2>1 DEF Tails, Deep
<1> QED
    BY <1>1, <1>2

\* A frame's bytes before those of the frames below it.
LEMMA TailMade ==
    ASSUME NEW p, NEW call, NEW x, NEW U, NEW S \in Seq(Int), NEW b, FrameGood(p, call, x, S[Len(S)], b),
           NEW r \in Seq(Int), <<Outer(x, S), r>> \in U, NEW w, Joins(w, b, r)
    PROVE  <<S, w>> \in Tails(p, call, x, U)
<1>1. b \in Seq(Int)
    BY DEF FrameGood
<1>2. w \in Seq(Int)
    BY <1>1, JoinedTwo
<1>3. Ends(p, call, x, U, S, w)
    BY DEF Ends
<1>4. <<S, w>> \in Seq(Int) \X Seq(Int)
    BY <1>2
<1>5. PICK y : y = <<S, w>> /\ y[1] = S /\ y[2] = w
    <2>1. \A a, c : <<a, c>>[1] = a /\ <<a, c>>[2] = c
        OBVIOUS
    <2>2. PICK y : y = <<S, w>>
        OBVIOUS
    <2> QED
        BY <2>1, <2>2, Zenon
<1>6. Ends(p, call, x, U, y[1], y[2])
    BY <1>3, <1>5
<1>7. y \in Tails(p, call, x, U)
    BY <1>4, <1>5, <1>6 DEF Tails
<1> QED
    BY <1>5, <1>7

\* And back.
LEMMA TailOpened ==
    ASSUME NEW p, NEW call, NEW x, NEW U, NEW S, NEW w, <<S, w>> \in Tails(p, call, x, U)
    PROVE  /\ S \in Seq(Int) /\ w \in Seq(Int)
           /\ \E b, r : /\ b \in Seq(Int) /\ r \in Seq(Int) /\ Joins(w, b, r)
                        /\ FrameGood(p, call, x, S[Len(S)], b) /\ <<Outer(x, S), r>> \in U
<1>1. PICK y : y = <<S, w>> /\ y[1] = S /\ y[2] = w
    OBVIOUS
<1>2. y \in Seq(Int) \X Seq(Int) /\ Ends(p, call, x, U, y[1], y[2])
    BY <1>1 DEF Tails
<1>3. Ends(p, call, x, U, S, w)
    BY <1>1, <1>2
<1>4. PICK b, r : /\ r \in Seq(Int) /\ Joins(w, b, r)
                  /\ FrameGood(p, call, x, S[Len(S)], b) /\ <<Outer(x, S), r>> \in U
    BY <1>3 DEF Ends
<1>5. b \in Seq(Int)
    BY <1>4 DEF FrameGood
<1> QED
    BY <1>1, <1>2, <1>4, <1>5

\* A call adds h: each end of what is left after it, with h before it, was an end of what
\* was left.
Leads(S, U, h, S2, U2) == \A y : <<S2, y>> \in U2 => \E x : <<S, x>> \in U /\ Joins(x, h, y)

\* Then what is written is still the start of a call.
LEMMA Carry ==
    ASSUME NEW p, NEW call, NEW v, NEW w \in Seq(Int), NEW S, NEW U, Good(p, call, v, w, S, U),
           NEW h \in Seq(Int), NEW w2, Joins(w2, w, h),
           NEW S2, NEW U2, U2 \subseteq Seq(Int) \X Seq(Int), Leads(S, U, h, S2, U2)
    PROVE  Good(p, call, v, w2, S2, U2)
<1> SUFFICES ASSUME NEW y, NEW z, <<S2, y>> \in U2, Joins(z, w2, y)
             PROVE  CallGood(p, call, v, z)
    BY DEF Good
<1>1. y \in Seq(Int)
    OBVIOUS
<1>2. PICK x : <<S, x>> \in U /\ Joins(x, h, y)
    BY DEF Leads
<1>3. Joins(z, w, x)
    BY <1>1, <1>2, JoinedThree
<1> QED
    BY <1>2, <1>3 DEF Good

\* A call that writes nothing.
LEMMA NothingAdded ==
    ASSUME NEW w \in Seq(Int)
    PROVE  Joins(w, w, <<>>) /\ Joins(w, <<>>, w) /\ <<>> \in Seq(Int)
BY ConcatEmptySeq, EmptySeq DEF Joins

-----------------------------------------------------------------------------
(* The work list after a call. *)

\* Nothing, a frame or two in place of the top.
LEMMA FramesThen ==
    ASSUME NEW p, NEW call, NEW q, NEW U, NEW d, Frames(p, call, q, U, d)
    PROVE  /\ Frames(p, call, q \o <<>>, U, d)
           /\ \A x : FrameOk(x) => Frames(p, call, q \o <<x>>, Tails(p, call, x, U), d + Deep(x))
           /\ \A x, y : FrameOk(x) /\ FrameOk(y) =>
                 Frames(p, call, q \o <<x, y>>, Tails(p, call, y, Tails(p, call, x, U)),
                        (d + Deep(x)) + Deep(y))
<1>1. PICK X : q \in Seq(X)
    BY DEF Frames
<1>2. q \o <<>> = q
    BY <1>1, ConcatEmptySeq
<1>3. ASSUME NEW x PROVE q \o <<x>> = Append(q, x)
    <2>1. PICK Y : X \subseteq Y /\ x \in Y
        <3>1. PICK Y : Y = X \union {x}
            OBVIOUS
        <3> QED
            BY <3>1
    <2>2. q \in Seq(Y)
        BY <1>1, <2>1, SeqMonotonic
    <2> QED
        BY <2>1, <2>2, AppendIsConcat
<1>4. ASSUME NEW x, NEW y PROVE q \o <<x, y>> = Append(Append(q, x), y)
    <2>1. PICK Y : X \subseteq Y /\ x \in Y /\ y \in Y
        <3>1. PICK Y : Y = X \union {x, y}
            OBVIOUS
        <3> QED
            BY <3>1
    <2>2. q \in Seq(Y)
        BY <1>1, <2>1, SeqMonotonic
    <2>3. PICK A : A = Append(q, x)
        OBVIOUS
    <2>4. A \in Seq(Y) /\ Len(A) = Len(q) + 1 /\ A[Len(q) + 1] = x /\ \A i \in 1..Len(q) : A[i] = q[i]
        BY <2>1, <2>2, <2>3, AppendProperties
    <2>5. PICK B : B = Append(A, y)
        OBVIOUS
    <2>6. B \in Seq(Y) /\ Len(B) = Len(A) + 1 /\ B[Len(A) + 1] = y /\ \A i \in 1..Len(A) : B[i] = A[i]
        BY <2>1, <2>4, <2>5, AppendProperties
    <2>7. PICK t : t = <<x, y>> /\ Len(t) = 2 /\ t[1] = x /\ t[2] = y /\ t \in Seq(Y)
        <3>1. /\ Len(<<x, y>>) = 2 /\ <<x, y>>[1] = x /\ <<x, y>>[2] = y
            OBVIOUS
        <3>2. <<x, y>> \in Seq(Y)
            BY <2>1
        <3> QED
            BY <3>1, <3>2
    <2>8. /\ q \o t \in Seq(Y) /\ Len(q \o t) = Len(q) + Len(t)
          /\ \A i \in 1..(Len(q) + Len(t)) : (q \o t)[i] = IF i <= Len(q) THEN q[i] ELSE t[i - Len(q)]
        BY <2>2, <2>7, ConcatProperties
    <2>9. PICK n \in Nat : n = Len(q)
        BY <2>2, LenProperties
    <2>10. Len(q \o t) = Len(B)
        BY <2>4, <2>6, <2>7, <2>8, <2>9
    <2>11. ASSUME NEW i \in 1..(n + 2) PROVE (q \o t)[i] = B[i]
        <3>1. CASE i <= n
            <4>1. i \in 1..n /\ i \in 1..(n + 1)
                BY <3>1
            <4> QED
                BY <2>4, <2>6, <2>7, <2>8, <2>9, <3>1, <4>1
        <3>2. CASE i = n + 1
            <4>1. ~(i <= n) /\ i - n = 1 /\ i \in 1..(n + 1)
                BY <3>2
            <4> QED
                BY <2>4, <2>6, <2>7, <2>8, <2>9, <3>2, <4>1
        <3>3. CASE i = n + 2
            <4>1. ~(i <= n) /\ i - n = 2 /\ i = (n + 1) + 1
                BY <3>3
            <4> QED
                BY <2>4, <2>6, <2>7, <2>8, <2>9, <4>1
        <3>4. i <= n \/ i = n + 1 \/ i = n + 2
            BY <2>9
        <3> QED
            BY <3>1, <3>2, <3>3, <3>4
    <2>12. Len(q \o t) = n + 2
        BY <2>7, <2>8, <2>9
    <2>13. q \o t = B
        BY <2>6, <2>8, <2>10, <2>11, <2>12, SeqEqual
    <2> QED
        BY <2>3, <2>5, <2>7, <2>13
<1>5. ASSUME NEW x, FrameOk(x)
      PROVE  Frames(p, call, Append(q, x), Tails(p, call, x, U), d + Deep(x))
    BY <1>5, Pushed
<1>6. ASSUME NEW x, FrameOk(x), NEW y, FrameOk(y)
      PROVE  Frames(p, call, Append(Append(q, x), y), Tails(p, call, y, Tails(p, call, x, U)),
                    (d + Deep(x)) + Deep(y))
    <2>1. PICK A, V, e : /\ A = Append(q, x) /\ V = Tails(p, call, x, U) /\ e = d + Deep(x)
                         /\ Frames(p, call, A, V, e)
        BY <1>5, <1>6
    <2>2. Frames(p, call, Append(A, y), Tails(p, call, y, V), e + Deep(y))
        BY <1>6, <2>1, Pushed
    <2> QED
        BY <2>1, <2>2
<1> QED
    BY <1>2, <1>3, <1>4, <1>5, <1>6

-----------------------------------------------------------------------------
(* What each call writes. *)

\* A message, or a scalar: what its frame asks for.
LEMMA WrittenFollows ==
    ASSUME NEW p, NEW call, NEW x, x.call # "struct", NEW V, V \subseteq Seq(Int) \X Seq(Int),
           NEW S \in Seq(Int), NEW h, FrameGood(p, call, x, S[Len(S)], h)
    PROVE  Leads(S, Tails(p, call, x, V), h, S, V)
<1> SUFFICES ASSUME NEW y, <<S, y>> \in V
             PROVE  \E z : <<S, z>> \in Tails(p, call, x, V) /\ Joins(z, h, y)
    BY DEF Leads
<1>1. y \in Seq(Int)
    OBVIOUS
<1>2. PICK z : Joins(z, h, y)
    BY DEF Joins
<1>3. Outer(x, S) = S
    BY DEF Outer
<1> QED
    BY <1>1, <1>2, <1>3, TailMade

\* A struct begins.
LEMMA StructFollows ==
    ASSUME NEW p, NEW call, NEW of \in DOMAIN Fields, NEW v, NEW V,
           NEW x, x.call = "value", x.type = "STRUCT", x.of = of, x.value = v, NEW S \in Seq(Int)
    PROVE  Leads(S, Tails(p, call, x, V), <<>>, Append(S, 0), Tails(p, call, Struct(of, v), V))
<1> SUFFICES ASSUME NEW y, <<Append(S, 0), y>> \in Tails(p, call, Struct(of, v), V)
             PROVE  \E z : <<S, z>> \in Tails(p, call, x, V) /\ Joins(z, <<>>, y)
    BY DEF Leads
<1>1. PICK s : /\ s.call = "struct" /\ s.of = of /\ s.value = v /\ s.next = 1
               /\ s = Struct(of, v)
    BY DEF Struct
<1>2. PICK S2 : S2 = Append(S, 0) /\ Under(S2) = S /\ S2[Len(S2)] = 0
    <2>1. PICK o \in Int : o = 0
        OBVIOUS
    <2>2. Under(Append(S, o)) = S /\ Append(S, o)[Len(Append(S, o))] = o
        BY UnderAppended
    <2> QED
        BY <2>1, <2>2
<1>3. <<S2, y>> \in Tails(p, call, s, V)
    BY <1>1, <1>2
<1>4. /\ y \in Seq(Int)
      /\ \E b, r : /\ b \in Seq(Int) /\ r \in Seq(Int) /\ Joins(y, b, r)
                   /\ FrameGood(p, call, s, S2[Len(S2)], b) /\ <<Outer(s, S2), r>> \in V
    BY <1>3, TailOpened
<1>5. PICK b, r : /\ b \in Seq(Int) /\ r \in Seq(Int) /\ Joins(y, b, r)
                  /\ FrameGood(p, call, s, 0, b) /\ <<Outer(s, S2), r>> \in V
    BY <1>2, <1>4
<1>6. Outer(s, S2) = S /\ Outer(x, S) = S
    BY <1>1, <1>2 DEF Outer, Under
<1>7. FieldsGood(p, of, v, 1, 0, b)
    <2>1. Len(Fields[of]) \in Nat
        BY StructsOk DEF StructOk
    <2>2. 1 <= Len(Fields[of]) + 1
        BY <2>1
    <2> QED
        BY <1>1, <1>5, <2>2 DEF FrameGood
<1>8. FrameGood(p, call, x, S[Len(S)], b)
    BY <1>5, <1>7 DEF FrameGood, PartGood, Nested
<1>9. <<S, y>> \in Tails(p, call, x, V)
    BY <1>5, <1>6, <1>8, TailMade
<1>10. Joins(y, <<>>, y)
    BY <1>4, NothingAdded
<1> QED
    BY <1>9, <1>10

\* A list begins.
LEMMA ListFollows ==
    ASSUME NEW p, NEW call, NEW of, NEW v, NEW V,
           NEW x, x.call = "value", x.type = "LIST", x.of = of, x.value = v, NEW S \in Seq(Int),
           NEW h, CollectionIsGood(p, h, Len(v))
    PROVE  Leads(S, Tails(p, call, x, V), h, S, Tails(p, call, List(of, v), V))
<1> SUFFICES ASSUME NEW y, <<S, y>> \in Tails(p, call, List(of, v), V)
             PROVE  \E z : <<S, z>> \in Tails(p, call, x, V) /\ Joins(z, h, y)
    BY DEF Leads
<1>1. PICK l : l.call = "list" /\ l.of = of /\ l.value = v /\ l.next = 1 /\ l = List(of, v)
    BY DEF List
<1>2. <<S, y>> \in Tails(p, call, l, V)
    BY <1>1
<1>3. PICK b, r : /\ b \in Seq(Int) /\ r \in Seq(Int) /\ Joins(y, b, r)
                  /\ FrameGood(p, call, l, S[Len(S)], b) /\ <<Outer(l, S), r>> \in V
    BY <1>2, TailOpened
<1>4. Outer(l, S) = S /\ Outer(x, S) = S
    BY <1>1 DEF Outer
<1>5. ListGood(p, of, v, 1, b)
    BY <1>1, <1>3 DEF FrameGood
<1>6. PICK e : Joins(e, h, b)
    BY DEF Joins
<1>7. PICK z : Joins(z, h, y)
    BY DEF Joins
<1>8. h \in Seq(Int)
    BY DEF CollectionIsGood
<1>9. e \in Seq(Int) /\ Joins(z, e, r)
    BY <1>3, <1>6, <1>7, <1>8, JoinedTwo, JoinedThree
<1>10. FrameGood(p, call, x, S[Len(S)], e)
    BY <1>5, <1>6, <1>9 DEF FrameGood, PartGood, Nested
<1>11. <<S, z>> \in Tails(p, call, x, V)
    BY <1>3, <1>4, <1>9, <1>10, TailMade
<1> QED
    BY <1>7, <1>11

\* The next element of a list.
LEMMA ElementFollows ==
    ASSUME NEW p, NEW call, NEW of \in DOMAIN Fields, NEW v, Len(v) \in Nat, NEW j \in 1..Len(v), NEW V,
           NEW x, x.call = "list", x.of = of, x.value = v, x.next = j,
           NEW x2, x2.call = "list", x2.of = of, x2.value = v, x2.next = j + 1, NEW S \in Seq(Int)
    PROVE  Leads(S, Tails(p, call, x, V), <<>>, Append(S, 0),
                   Tails(p, call, Struct(of, v[j]), Tails(p, call, x2, V)))
<1>1. PICK s : /\ s.call = "struct" /\ s.of = of /\ s.value = v[j] /\ s.next = 1
               /\ s = Struct(of, v[j])
    BY DEF Struct
<1>2. PICK S2 : S2 = Append(S, 0) /\ Under(S2) = S /\ S2[Len(S2)] = 0
    <2>1. PICK o \in Int : o = 0
        OBVIOUS
    <2>2. Under(Append(S, o)) = S /\ Append(S, o)[Len(Append(S, o))] = o
        BY UnderAppended
    <2> QED
        BY <2>1, <2>2
<1>3. SUFFICES ASSUME NEW y, <<S2, y>> \in Tails(p, call, s, Tails(p, call, x2, V))
               PROVE  \E z : <<S, z>> \in Tails(p, call, x, V) /\ Joins(z, <<>>, y)
    BY <1>1, <1>2 DEF Leads
<1>4. /\ y \in Seq(Int)
      /\ \E b, r : /\ b \in Seq(Int) /\ r \in Seq(Int) /\ Joins(y, b, r)
                   /\ FrameGood(p, call, s, S2[Len(S2)], b) /\ <<Outer(s, S2), r>> \in Tails(p, call, x2, V)
    BY <1>3, TailOpened
<1>5. PICK e, r : /\ e \in Seq(Int) /\ r \in Seq(Int) /\ Joins(y, e, r)
                  /\ FrameGood(p, call, s, 0, e) /\ <<Outer(s, S2), r>> \in Tails(p, call, x2, V)
    BY <1>2, <1>4
<1>6. Outer(s, S2) = S /\ Outer(x, S) = S /\ Outer(x2, S) = S
    BY <1>1, <1>2 DEF Outer, Under
<1>7. <<S, r>> \in Tails(p, call, x2, V)
    BY <1>5, <1>6
<1>8. PICK b, r2 : /\ b \in Seq(Int) /\ r2 \in Seq(Int) /\ Joins(r, b, r2)
                   /\ FrameGood(p, call, x2, S[Len(S)], b) /\ <<S, r2>> \in V
    BY <1>6, <1>7, TailOpened
<1>9. FieldsGood(p, of, v[j], 1, 0, e)
    <2>1. Len(Fields[of]) \in Nat
        BY StructsOk DEF StructOk
    <2>2. 1 <= Len(Fields[of]) + 1
        BY <2>1
    <2> QED
        BY <1>1, <1>5, <2>2 DEF FrameGood
<1>10. ListGood(p, of, v, j + 1, b)
    BY <1>8 DEF FrameGood
<1>11. PICK w : Joins(w, e, b)
    BY DEF Joins
<1>12. w \in Seq(Int) /\ Joins(y, w, r2)
    BY <1>5, <1>8, <1>11, JoinedTwo, JoinedThree
<1>13. ListGood(p, of, v, j, w)
    BY <1>9, <1>10, <1>11, ListNext
<1>14. FrameGood(p, call, x, S[Len(S)], w)
    BY <1>12, <1>13 DEF FrameGood
<1>15. <<S, y>> \in Tails(p, call, x, V)
    BY <1>6, <1>8, <1>12, <1>14, TailMade
<1>16. Joins(y, <<>>, y)
    BY <1>4, NothingAdded
<1> QED
    BY <1>15, <1>16

\* A list ends.
LEMMA ListEndFollows ==
    ASSUME NEW p, NEW call, NEW of, NEW v, Len(v) \in Nat, NEW V, V \subseteq Seq(Int) \X Seq(Int),
           NEW x, x.call = "list", x.of = of, x.value = v, x.next = Len(v) + 1, NEW S \in Seq(Int)
    PROVE  Leads(S, Tails(p, call, x, V), <<>>, S, V)
<1>1. ListGood(p, of, v, Len(v) + 1, <<>>)
    BY ListEnds
<1>2. PICK h \in Seq(Int) : h = <<>>
    BY EmptySeq
<1>3. FrameGood(p, call, x, S[Len(S)], h)
    BY <1>1, <1>2 DEF FrameGood
<1>4. Leads(S, Tails(p, call, x, V), h, S, V)
    BY <1>3, WrittenFollows
<1> QED
    BY <1>2, <1>4

\* A field that is not set.
LEMMA SkippedFollows ==
    ASSUME NEW p, NEW call, NEW of \in DOMAIN Fields, NEW v, NEW i \in DOMAIN Fields[of],
           Fields[of][i].id \notin DOMAIN v, NEW V,
           NEW x, x.call = "struct", x.of = of, x.value = v, x.next = i,
           NEW x2, x2.call = "struct", x2.of = of, x2.value = v, x2.next = i + 1, NEW S \in Seq(Int)
    PROVE  Leads(S, Tails(p, call, x, V), <<>>, S, Tails(p, call, x2, V))
<1> SUFFICES ASSUME NEW y, <<S, y>> \in Tails(p, call, x2, V)
             PROVE  \E z : <<S, z>> \in Tails(p, call, x, V) /\ Joins(z, <<>>, y)
    BY DEF Leads
<1>1. y \in Seq(Int)
    BY TailOpened
<1>2. PICK b, r : /\ b \in Seq(Int) /\ r \in Seq(Int) /\ Joins(y, b, r)
                  /\ FrameGood(p, call, x2, S[Len(S)], b) /\ <<Outer(x2, S), r>> \in V
    BY TailOpened
<1>3. Outer(x2, S) = Outer(x, S)
    BY DEF Outer
<1>4. i + 1 <= Len(Fields[of]) + 1 /\ i <= Len(Fields[of]) + 1
    BY StructsOk DEF StructOk
<1>5. FieldsGood(p, of, v, i + 1, S[Len(S)], b)
    BY <1>2, <1>4 DEF FrameGood
<1>6. FieldsGood(p, of, v, i, S[Len(S)], b)
    BY <1>5, NoFieldGood
<1>7. FrameGood(p, call, x, S[Len(S)], b)
    BY <1>2, <1>4, <1>6 DEF FrameGood
<1>8. <<S, y>> \in Tails(p, call, x, V)
    BY <1>2, <1>3, <1>7, TailMade
<1>9. Joins(y, <<>>, y)
    BY <1>1, NothingAdded
<1> QED
    BY <1>8, <1>9

\* The stop.
LEMMA StopFollows ==
    ASSUME NEW p, NEW call, NEW of \in DOMAIN Fields, NEW v, NEW V,
           NEW x, x.call = "struct", x.of = of, x.value = v, x.next = Len(Fields[of]) + 1,
           NEW x2, x2.call = "struct", x2.of = of, x2.value = v, x2.next = Len(Fields[of]) + 2,
           NEW S \in Seq(Int), S[Len(S)] \in Int, NEW h, StopIsGood(p, h, S[Len(S)])
    PROVE  Leads(S, Tails(p, call, x, V), h, S, Tails(p, call, x2, V))
<1> SUFFICES ASSUME NEW y, <<S, y>> \in Tails(p, call, x2, V)
             PROVE  \E z : <<S, z>> \in Tails(p, call, x, V) /\ Joins(z, h, y)
    BY DEF Leads
<1>1. y \in Seq(Int)
    BY TailOpened
<1>2. PICK b, r : /\ b \in Seq(Int) /\ r \in Seq(Int) /\ Joins(y, b, r)
                  /\ FrameGood(p, call, x2, S[Len(S)], b) /\ <<Outer(x2, S), r>> \in V
    BY TailOpened
<1>3. Outer(x2, S) = Outer(x, S)
    BY DEF Outer
<1>4. Len(Fields[of]) \in Nat
    BY StructsOk DEF StructOk
<1>5. ~(Len(Fields[of]) + 2 <= Len(Fields[of]) + 1) /\ Len(Fields[of]) + 1 <= Len(Fields[of]) + 1
    BY <1>4
<1>6. b = <<>>
    BY <1>2, <1>5 DEF FrameGood
<1>7. y = r
    <2>1. Joins(r, <<>>, r)
        BY <1>2, NothingAdded
    <2> QED
        BY <1>2, <1>6, <2>1 DEF Joins
<1>8. PICK last \in Int : last = S[Len(S)]
    OBVIOUS
<1>9. FieldsGood(p, of, v, Len(Fields[of]) + 1, last, h)
    BY <1>8, StopGood
<1>10. FrameGood(p, call, x, S[Len(S)], h)
    BY <1>5, <1>8, <1>9 DEF FrameGood, FieldsGood
<1>11. PICK z : Joins(z, h, y)
    BY DEF Joins
<1>12. <<S, z>> \in Tails(p, call, x, V)
    BY <1>2, <1>3, <1>7, <1>10, <1>11, TailMade
<1> QED
    BY <1>11, <1>12

\* A struct ends.
LEMMA StructEndFollows ==
    ASSUME NEW p, NEW call, NEW of \in DOMAIN Fields, NEW V, V \subseteq Seq(Int) \X Seq(Int),
           NEW x, x.call = "struct", x.of = of, x.next = Len(Fields[of]) + 2, NEW S \in Seq(Int)
    PROVE  Leads(S, Tails(p, call, x, V), <<>>, Under(S), V)
<1> SUFFICES ASSUME NEW y, <<Under(S), y>> \in V
             PROVE  \E z : <<S, z>> \in Tails(p, call, x, V) /\ Joins(z, <<>>, y)
    BY DEF Leads
<1>1. y \in Seq(Int)
    OBVIOUS
<1>2. PICK h \in Seq(Int) : h = <<>>
    BY EmptySeq
<1>3. Len(Fields[of]) \in Nat
    BY StructsOk DEF StructOk
<1>4. ~(Len(Fields[of]) + 2 <= Len(Fields[of]) + 1)
    BY <1>3
<1>5. FrameGood(p, call, x, S[Len(S)], h)
    BY <1>2, <1>4 DEF FrameGood
<1>6. Joins(y, h, y)
    BY <1>1, <1>2, NothingAdded
<1>7. <<Outer(x, S), y>> \in V
    BY DEF Outer, Under
<1>8. <<S, y>> \in Tails(p, call, x, V)
    BY <1>1, <1>5, <1>6, <1>7, TailMade
<1> QED
    BY <1>2, <1>6, <1>8

\* A struct that has come as far as its i-th field; its field.
Reached(x, of, v, i) == x.call = "struct" /\ x.of = of /\ x.value = v /\ x.next = i
IsField(of, i, f, id) == f = Fields[of][i] /\ id = f.id /\ id \in Int

\* A struct before its i-th field, with its header, and after it.
FieldTaken(p, of, v, i, f, id, x, x2, S, h, c) ==
    /\ of \in DOMAIN Fields /\ i \in DOMAIN Fields[of] /\ IsField(of, i, f, id) /\ id \in DOMAIN v
    /\ Reached(x, of, v, i) /\ Reached(x2, of, v, i + 1)
    /\ S \in Seq(Int) /\ S[Len(S)] \in Int /\ Under(S) \in Seq(Int)
    /\ HeaderGood(p, h, S[Len(S)], f.type, c, id)

\* A value and the rest of the fields.
Rest(p, call, of, v, f, id, V, x2, S, c, y) ==
    \E e, r : /\ ValueGood(p, f, v[id], c, LevelsOf(of), e) /\ Joins(y, e, r)
              /\ <<Append(Under(S), id), r>> \in Tails(p, call, x2, V)

\* A header and a value, before the rest of the fields.
LEMMA FieldTail ==
    ASSUME NEW p, NEW call, NEW of, NEW v, NEW i, NEW f, NEW id, NEW V, NEW x, NEW x2, NEW S,
           NEW h, NEW c, FieldTaken(p, of, v, i, f, id, x, x2, S, h, c),
           NEW y, Rest(p, call, of, v, f, id, V, x2, S, c, y)
    PROVE  \E z : <<S, z>> \in Tails(p, call, x, V) /\ Joins(z, h, y)
<1> USE DEF FieldTaken
<1>0. PICK e, r : /\ ValueGood(p, f, v[id], c, LevelsOf(of), e) /\ Joins(y, e, r)
                  /\ <<Append(Under(S), id), r>> \in Tails(p, call, x2, V)
    BY DEF Rest
<1>1. PICK S2 : S2 = Append(Under(S), id) /\ Under(S2) = Under(S) /\ S2[Len(S2)] = id
    <2>1. id \in Int
        BY DEF IsField
    <2> QED
        BY <2>1, UnderAppended
<1>2. /\ r \in Seq(Int)
      /\ \E b, t : /\ b \in Seq(Int) /\ t \in Seq(Int) /\ Joins(r, b, t)
                   /\ FrameGood(p, call, x2, S2[Len(S2)], b) /\ <<Outer(x2, S2), t>> \in V
    BY <1>0, <1>1, TailOpened
<1>3. PICK b, t : /\ b \in Seq(Int) /\ t \in Seq(Int) /\ Joins(r, b, t)
                  /\ FrameGood(p, call, x2, id, b) /\ <<Outer(x2, S2), t>> \in V
    BY <1>1, <1>2
<1>4. Outer(x2, S2) = Under(S) /\ Outer(x, S) = Under(S)
    BY <1>1 DEF Outer, Under, Reached
<1>5. i + 1 <= Len(Fields[of]) + 1 /\ i <= Len(Fields[of]) + 1
    BY StructsOk DEF StructOk
<1>6. FieldsGood(p, of, v, i + 1, f.id, b)
    BY <1>3, <1>5 DEF FrameGood, Reached, IsField
<1>7. h \in Seq(Int) /\ e \in Seq(Int)
    BY <1>0 DEF HeaderGood, ValueGood
<1>8. PICK eb : Joins(eb, e, b)
    BY DEF Joins
<1>9. PICK w : Joins(w, h, eb)
    BY DEF Joins
<1>10. PICK z : Joins(z, h, y)
    BY DEF Joins
<1>11. eb \in Seq(Int) /\ Joins(y, eb, t)
    BY <1>0, <1>3, <1>7, <1>8, JoinedTwo, JoinedThree
<1>12. w \in Seq(Int) /\ Joins(z, w, t)
    BY <1>3, <1>7, <1>9, <1>10, <1>11, JoinedTwo, JoinedThree
<1>13. PICK last \in Int : last = S[Len(S)]
    OBVIOUS
<1>14. FieldsGood(p, of, v, i, last, w)
    <2>1. HeaderGood(p, h, last, f.type, c, f.id)
        BY <1>13 DEF IsField
    <2>2. ValueGood(p, f, v[f.id], c, LevelsOf(of), e) /\ f.id \in DOMAIN v /\ f = Fields[of][i]
        BY <1>0 DEF IsField
    <2> QED
        BY <1>6, <1>8, <1>9, <2>1, <2>2, FieldGood
<1>15. FrameGood(p, call, x, S[Len(S)], w)
    BY <1>5, <1>12, <1>13, <1>14 DEF FrameGood, Reached
<1>16. <<S, z>> \in Tails(p, call, x, V)
    BY <1>3, <1>4, <1>12, <1>15, TailMade
<1> QED
    BY <1>10, <1>16

\* A field whose value comes next.
LEMMA FieldFollows ==
    ASSUME NEW p, NEW call, NEW of, NEW v, NEW i, NEW f, NEW id, NEW V, NEW x, NEW x2, NEW S,
           NEW h, NEW c, FieldTaken(p, of, v, i, f, id, x, x2, S, h, c),
           FieldOk(of, f), ProperIn(f, v[id]), f.type = "BOOL" => c = 0
    PROVE  Leads(S, Tails(p, call, x, V), h, Append(Under(S), id),
                   Tails(p, call, Value(f.type, f.of, v[id]), Tails(p, call, x2, V)))
<1>1. PICK u : /\ u.call = "value" /\ u.type = f.type /\ u.of = f.of /\ u.value = v[id]
               /\ u = Value(f.type, f.of, v[id])
    BY DEF Value
<1>2. SUFFICES ASSUME NEW y, <<Append(Under(S), id), y>> \in Tails(p, call, u, Tails(p, call, x2, V))
               PROVE  \E z : <<S, z>> \in Tails(p, call, x, V) /\ Joins(z, h, y)
    BY <1>1 DEF Leads
<1>3. PICK S2 : S2 = Append(Under(S), id)
    OBVIOUS
<1>4. PICK e, r : /\ e \in Seq(Int) /\ r \in Seq(Int) /\ Joins(y, e, r)
                  /\ FrameGood(p, call, u, S2[Len(S2)], e) /\ <<Outer(u, S2), r>> \in Tails(p, call, x2, V)
    BY <1>2, <1>3, TailOpened
<1>5. Outer(u, S2) = S2
    BY <1>1 DEF Outer
<1>6. PartGood(p, f.type, f.of, v[id], e)
    BY <1>1, <1>4 DEF FrameGood
<1>7. c \in Nat /\ of \in DOMAIN Fields
    BY DEF HeaderGood, FieldTaken
<1>8. ValueGood(p, f, v[id], c, LevelsOf(of), e)
    BY <1>6, <1>7, PartIsValue
<1>9. <<Append(Under(S), id), r>> \in Tails(p, call, x2, V)
    BY <1>3, <1>4, <1>5
<1>10. Joins(y, e, r)
    BY <1>4
<1> QED
    <2>1. Rest(p, call, of, v, f, id, V, x2, S, c, y)
        BY <1>8, <1>9, <1>10 DEF Rest
    <2> QED
        BY <2>1, FieldTail

BoolHead(f, b, c) == f.type = "BOOL" /\ f.of = "none" /\ b \in {<<0>>, <<1>>} /\ c = BoolCode(b)

\* A boolean field whose value is in its header.
LEMMA BoolFollows ==
    ASSUME NEW p, NEW call, NEW of, NEW v, NEW i, NEW f, NEW id, NEW V, NEW x, NEW x2, NEW S,
           NEW h, NEW c, FieldTaken(p, of, v, i, f, id, x, x2, S, h, c),
           BoolHead(f, v[id], c)
    PROVE  Leads(S, Tails(p, call, x, V), h, Append(Under(S), id), Tails(p, call, x2, V))
<1> SUFFICES ASSUME NEW y, <<Append(Under(S), id), y>> \in Tails(p, call, x2, V)
             PROVE  \E z : <<S, z>> \in Tails(p, call, x, V) /\ Joins(z, h, y)
    BY DEF Leads
<1>1. PICK S2 : S2 = Append(Under(S), id)
    OBVIOUS
<1>2. <<S2, y>> \in Tails(p, call, x2, V)
    BY <1>1
<1>3. y \in Seq(Int)
    BY <1>2, TailOpened
<1>4. PICK n \in Nat \ {0} : n = LevelsOf(of)
    <2>1. of \in DOMAIN Fields
        BY DEF FieldTaken
    <2>3. Rank[of] \in Nat
        BY <2>1, Ranks
    <2>2. LevelsOf(of) \in Nat \ {0}
        BY <2>3 DEF LevelsOf
    <2> QED
        BY <2>2
<1>5. PICK u \in {<< 0 >>, << 1 >>} : u = v[id]
    BY DEF BoolHead
<1>6. ValueGood(p, f, v[id], BoolCode(v[id]), LevelsOf(of), <<>>)
    <2>1. f.type = "BOOL" /\ f.of = "none"
        BY DEF BoolHead
    <2> QED
        BY <1>4, <1>5, <2>1, BoolGood
<1>7. PICK e : e = <<>> /\ ValueGood(p, f, v[id], BoolCode(v[id]), LevelsOf(of), e) /\ Joins(y, e, y)
    BY <1>3, <1>6, NothingAdded
<1>8. of \in DOMAIN Fields
    BY DEF FieldTaken
<1>9. ValueGood(p, f, v[id], c, LevelsOf(of), e)
    BY <1>7 DEF BoolHead
<1>10. Joins(y, e, y)
    BY <1>7
<1>11. <<Append(Under(S), id), y>> \in Tails(p, call, x2, V)
    BY <1>1, <1>2
<1>12. Rest(p, call, of, v, f, id, V, x2, S, c, y)
    BY <1>9, <1>10, <1>11 DEF Rest
<1> QED
    BY <1>12, FieldTail

-----------------------------------------------------------------------------
(* The frames of the work list. *)

\* A frame after one more of its parts.
Further(x) == [x EXCEPT !.next = @ + 1]

\* It is otherwise the same.
LEMMA FurtherIs ==
    ASSUME NEW x, FrameOk(x)
    PROVE  /\ Further(x).call = x.call /\ Further(x).type = x.type /\ Further(x).of = x.of
           /\ Further(x).value = x.value /\ Further(x).next = x.next + 1
           /\ LET y == Further(x)
              IN y = [call |-> y.call, type |-> y.type, of |-> y.of, value |-> y.value, next |-> y.next]
<1>1. PICK a, b, c, d, e : x = [call |-> a, type |-> b, of |-> c, value |-> d, next |-> e]
    BY DEF FrameOk
<1>2. Further(x) = [call |-> a, type |-> b, of |-> c, value |-> d, next |-> e + 1]
    BY <1>1 DEF Further
<1> QED
    BY <1>1, <1>2

\* The fields of a struct are 1..Len.
LEMMA FieldsSeq ==
    ASSUME NEW of \in DOMAIN Fields
    PROVE  /\ Len(Fields[of]) \in Nat /\ DOMAIN Fields[of] = 1..Len(Fields[of])
           /\ \A i \in DOMAIN Fields[of] : FieldOk(of, Fields[of][i])
BY StructsOk DEF StructOk

\* What a frame becomes can be there.
LEMMA FurtherOk ==
    ASSUME NEW x, FrameOk(x)
    PROVE  /\ x.call = "struct" /\ x.next <= Len(Fields[x.of]) + 1 => FrameOk(Further(x))
           /\ x.call = "list" /\ x.next <= Len(x.value) => FrameOk(Further(x))
<1>1. PICK y : y = Further(x)
    OBVIOUS
<1>2. /\ y.call = x.call /\ y.type = x.type /\ y.of = x.of /\ y.value = x.value /\ y.next = x.next + 1
      /\ y = [call |-> y.call, type |-> y.type, of |-> y.of, value |-> y.value, next |-> y.next]
    BY <1>1, FurtherIs
<1>3. ASSUME x.call = "struct", x.next <= Len(Fields[x.of]) + 1 PROVE FrameOk(y)
    <2>1. x.of \in DOMAIN Fields /\ Proper(x.of, x.value) /\ x.next \in 1..(Len(Fields[x.of]) + 2)
        BY <1>3 DEF FrameOk
    <2>2. Len(Fields[x.of]) \in Nat
        BY <2>1, FieldsSeq
    <2>3. x.next + 1 \in 1..(Len(Fields[x.of]) + 2)
        BY <1>3, <2>1, <2>2
    <2> QED
        BY <1>2, <1>3, <2>1, <2>3 DEF FrameOk
<1>4. ASSUME x.call = "list", x.next <= Len(x.value) PROVE FrameOk(y)
    <2>1. /\ x.of \in DOMAIN Fields /\ IsList(x.value)
          /\ \A j \in DOMAIN x.value : Proper(x.of, x.value[j])
          /\ x.next \in 1..(Len(x.value) + 1)
        BY <1>4 DEF FrameOk
    <2>2. Len(x.value) \in Nat
        BY <2>1 DEF IsList
    <2>3. x.next + 1 \in 1..(Len(x.value) + 1)
        BY <1>4, <2>1, <2>2
    <2> QED
        BY <1>2, <1>4, <2>1, <2>3 DEF FrameOk
<1> QED
    BY <1>1, <1>3, <1>4

\* The parts of a frame.
LEMMA AFrame ==
    ASSUME NEW x, NEW a, NEW b, NEW c, NEW d, NEW e,
           x = [call |-> a, type |-> b, of |-> c, value |-> d, next |-> e]
    PROVE  /\ x.call = a /\ x.type = b /\ x.of = c /\ x.value = d /\ x.next = e
           /\ x = [call |-> x.call, type |-> x.type, of |-> x.of, value |-> x.value, next |-> x.next]
<1>1. x.call = a /\ x.type = b /\ x.of = c /\ x.value = d /\ x.next = e
    OBVIOUS
<1> QED
    BY <1>1

\* A struct, a list and a value that can be there.
LEMMA NewFramesOk ==
    /\ \A of \in DOMAIN Fields : \A v : Proper(of, v) => FrameOk(Struct(of, v))
    /\ \A of \in DOMAIN Fields : \A v :
          IsList(v) /\ (\A j \in DOMAIN v : Proper(of, v[j])) => FrameOk(List(of, v))
    /\ \A of \in DOMAIN Fields : \A i \in DOMAIN Fields[of] : \A f, v :
          f = Fields[of][i] /\ ProperIn(f, v) => FrameOk(Value(f.type, f.of, v))
    /\ FrameOk(Message)
<1>1. ASSUME NEW of \in DOMAIN Fields, NEW v, Proper(of, v) PROVE FrameOk(Struct(of, v))
    <2>1. PICK y : /\ y = Struct(of, v) /\ y.call = "struct" /\ y.of = of /\ y.value = v /\ y.next = 1
                   /\ y = [call |-> y.call, type |-> y.type, of |-> y.of, value |-> y.value, next |-> y.next]
        <3>1. PICK y : y = Struct(of, v)
            OBVIOUS
        <3> QED
            BY <3>1, AFrame DEF Struct
    <2>2. Len(Fields[of]) \in Nat
        BY FieldsSeq
    <2>3. 1 \in 1..(Len(Fields[of]) + 2)
        BY <2>2
    <2> QED
        BY <1>1, <2>1, <2>3 DEF FrameOk
<1>2. ASSUME NEW of \in DOMAIN Fields, NEW v, IsList(v), \A j \in DOMAIN v : Proper(of, v[j])
      PROVE  FrameOk(List(of, v))
    <2>1. PICK y : /\ y = List(of, v) /\ y.call = "list" /\ y.of = of /\ y.value = v /\ y.next = 1
                   /\ y = [call |-> y.call, type |-> y.type, of |-> y.of, value |-> y.value, next |-> y.next]
        <3>1. PICK y : y = List(of, v)
            OBVIOUS
        <3> QED
            BY <3>1, AFrame DEF List
    <2>2. Len(v) \in Nat
        BY <1>2 DEF IsList
    <2>3. 1 \in 1..(Len(v) + 1)
        BY <2>2
    <2> QED
        BY <1>2, <2>1, <2>3 DEF FrameOk
<1>3. ASSUME NEW of \in DOMAIN Fields, NEW i \in DOMAIN Fields[of], NEW f, f = Fields[of][i],
             NEW v, ProperIn(f, v)
      PROVE  FrameOk(Value(f.type, f.of, v))
    <2>1. PICK y : /\ y = Value(f.type, f.of, v) /\ y.call = "value" /\ y.type = f.type /\ y.of = f.of
                   /\ y.value = v
                   /\ y = [call |-> y.call, type |-> y.type, of |-> y.of, value |-> y.value, next |-> y.next]
        <3>1. PICK y : y = Value(f.type, f.of, v)
            OBVIOUS
        <3> QED
            BY <3>1, AFrame DEF Value
    <2>2. FieldOk(of, f)
        BY <1>3, FieldsSeq
    <2>3. f.type \in TypesInUse /\ (f.type \in Nested => f.of \in DOMAIN Fields)
        BY <2>2 DEF FieldOk, TypesInUse
    <2>4. ProperIn(y, y.value)
        <3>1. CASE f.type = "STRUCT"
            <4>1. Proper(f.of, v)
                BY <1>3, <3>1 DEF ProperIn, Fit
            <4> QED
                BY <2>1, <3>1, <4>1 DEF ProperIn, Fit
        <3>2. CASE f.type = "LIST"
            <4>1. IsList(v) /\ \A j \in DOMAIN v : Proper(f.of, v[j])
                BY <1>3, <3>2 DEF ProperIn, Fit
            <4> QED
                BY <2>1, <3>2, <4>1 DEF ProperIn, Fit
        <3>3. CASE f.type \notin Nested
            <4>1. Held(f.type, v)
                BY <1>3, <3>3 DEF ProperIn, Fit, Nested
            <4> QED
                BY <2>1, <3>3, <4>1 DEF ProperIn, Fit, Nested
        <3> QED
            BY <3>1, <3>2, <3>3 DEF Nested
    <2> QED
        BY <2>1, <2>3, <2>4 DEF FrameOk
<1>4. FrameOk(Message)
    <2>1. PICK y : /\ y = Message /\ y.call = "message"
                   /\ y = [call |-> y.call, type |-> y.type, of |-> y.of, value |-> y.value, next |-> y.next]
        <3>1. PICK y : y = Message
            OBVIOUS
        <3> QED
            BY <3>1, AFrame DEF Message
    <2> QED
        BY <2>1 DEF FrameOk
<1> QED
    BY <1>1, <1>2, <1>3, <1>4

-----------------------------------------------------------------------------
(* A writer between two calls, before and after a call. *)

\* The top of the work list, what is left to write under it, and the stack.
Opens(p, call, v, w, lf, last, q, x, V, e, S) ==
    /\ x = q[Len(q)] /\ FrameOk(x)
    /\ Frames(p, call, Under(q), V, e) /\ e \in Nat /\ V \subseteq Seq(Int) \X Seq(Int)
    /\ Stack(p, S, e + Deep(x), lf, last) /\ Good(p, call, v, w, S, Tails(p, call, x, V))
    /\ S \in Seq(Int) /\ S[Len(S)] \in Int /\ Under(S) \in Seq(Int)
    /\ p = "compact" => S[Len(S)] = last

\* While there is something to do.
LEMMA BusyOpens ==
    ASSUME NEW p, NEW call, NEW v, NEW w, NEW lf \in Seq(Int), NEW last \in Int, NEW q, q # <<>>,
           Busy(p, call, v, w, lf, last, q)
    PROVE  \E x, V, e, S : Opens(p, call, v, w, lf, last, q, x, V, e, S)
<1>1. PICK U, d, S : Frames(p, call, q, U, d) /\ Stack(p, S, d, lf, last) /\ Good(p, call, v, w, S, U)
    BY DEF Busy
<1>2. PICK x : x = q[Len(q)]
    OBVIOUS
<1>3. PICK V, e : /\ Frames(p, call, Under(q), V, e) /\ FrameOk(x) /\ U = Tails(p, call, x, V)
                  /\ d = e + Deep(x) /\ e \in Nat
    <2>1. \E V, e : /\ Frames(p, call, SubSeq(q, 1, Len(q) - 1), V, e)
                    /\ FrameOk(q[Len(q)]) /\ U = Tails(p, call, q[Len(q)], V)
                    /\ d = e + Deep(q[Len(q)]) /\ e \in Nat
        BY <1>1, Popped
    <2> QED
        BY <1>2, <2>1 DEF Under
<1>4. V \subseteq Seq(Int) \X Seq(Int)
    BY <1>3, TailsType
<1>5. d \in Nat
    BY <1>3 DEF Deep
<1>6. S \in Seq(Int) /\ S[Len(S)] \in Int /\ Under(S) \in Seq(Int)
    BY <1>1, <1>5, UnderType DEF Stack
<1>7. ASSUME p = "compact" PROVE S[Len(S)] = last
    <2>1. S = Append(lf, last)
        BY <1>1, <1>7 DEF Stack
    <2>2. Append(lf, last)[Len(Append(lf, last))] = last
        BY UnderAppended
    <2> QED
        BY <2>1, <2>2
<1>8. Stack(p, S, e + Deep(x), lf, last) /\ Good(p, call, v, w, S, Tails(p, call, x, V))
    BY <1>1, <1>3
<1> QED
    BY <1>2, <1>3, <1>4, <1>6, <1>7, <1>8 DEF Opens

\* A call, from such a state to such a state.
LEMMA BusyNext ==
    ASSUME NEW p, NEW call, NEW v, NEW w \in Seq(Int), NEW S, NEW U, Good(p, call, v, w, S, U),
           NEW h \in Seq(Int), NEW w2, Joins(w2, w, h),
           NEW S2, NEW U2, Leads(S, U, h, S2, U2),
           NEW q2, NEW d2, Frames(p, call, q2, U2, d2),
           NEW lf2, NEW last2, Stack(p, S2, d2, lf2, last2)
    PROVE  Busy(p, call, v, w2, lf2, last2, q2)
<1>1. U2 \subseteq Seq(Int) \X Seq(Int)
    BY TailsType
<1>2. Good(p, call, v, w2, S2, U2)
    BY <1>1, Carry
<1> QED
    BY <1>2 DEF Busy

\* A message or a scalar.
LEMMA WrittenBusy ==
    ASSUME NEW p, NEW call, NEW v, NEW w \in Seq(Int), NEW lf, NEW last, NEW q, NEW x, NEW V, NEW e, NEW S,
           Opens(p, call, v, w, lf, last, q, x, V, e, S), x.call # "struct",
           NEW h \in Seq(Int), NEW w2, Joins(w2, w, h), FrameGood(p, call, x, S[Len(S)], h)
    PROVE  Busy(p, call, v, w2, lf, last, Under(q) \o <<>>)
<1>1. Good(p, call, v, w, S, Tails(p, call, x, V)) /\ S \in Seq(Int)
    BY DEF Opens
<1>2. Frames(p, call, Under(q) \o <<>>, V, e)
    <2>1. Frames(p, call, Under(q), V, e)
        BY DEF Opens
    <2> QED
        BY <2>1, FramesThen
<1>3. Leads(S, Tails(p, call, x, V), h, S, V)
    BY WrittenFollows DEF Opens
<1>4. Stack(p, S, e, lf, last)
    <2>1. Deep(x) = 0 /\ e + 0 = e
        BY DEF Deep, Opens
    <2> QED
        BY <2>1 DEF Opens
<1> QED
    BY <1>1, <1>2, <1>3, <1>4, BusyNext

\* A struct begins.
LEMMA StructBusy ==
    ASSUME NEW p, NEW call, NEW v, NEW w \in Seq(Int), NEW lf, NEW last, NEW q, NEW x, NEW V, NEW e, NEW S,
           Opens(p, call, v, w, lf, last, q, x, V, e, S), x.call = "value", x.type = "STRUCT",
           NEW lf2, NEW last2, p = "compact" => lf2 = Append(lf, last) /\ last2 = 0
    PROVE  Busy(p, call, v, w, lf2, last2, Under(q) \o <<Struct(x.of, x.value)>>)
<1>1. Good(p, call, v, w, S, Tails(p, call, x, V)) /\ S \in Seq(Int) /\ FrameOk(x)
    BY DEF Opens
<1>2. PICK s : /\ s = Struct(x.of, x.value) /\ s.call = "struct"
    <2>1. PICK s : s = Struct(x.of, x.value)
        OBVIOUS
    <2> QED
        BY <2>1, AFrame DEF Struct
<1>3. x.of \in DOMAIN Fields /\ Proper(x.of, x.value)
    BY <1>1 DEF FrameOk, Nested, ProperIn, Fit
<1>4. FrameOk(s)
    BY <1>2, <1>3, NewFramesOk
<1>5. Frames(p, call, Under(q) \o <<s>>, Tails(p, call, s, V), e + 1)
    <2>1. Frames(p, call, Under(q), V, e)
        BY DEF Opens
    <2>2. Frames(p, call, Under(q) \o <<s>>, Tails(p, call, s, V), e + Deep(s))
        BY <1>4, <2>1, FramesThen
    <2>3. Deep(s) = 1
        BY <1>2 DEF Deep
    <2> QED
        BY <2>2, <2>3
<1>6. PICK S2 : S2 = Append(S, 0)
    OBVIOUS
<1>7. Leads(S, Tails(p, call, x, V), <<>>, S2, Tails(p, call, s, V))
    BY <1>1, <1>2, <1>3, <1>6, StructFollows
<1>8. Stack(p, S2, e + 1, lf2, last2)
    <2>1. Deep(x) = 0 /\ e + 0 = e /\ e \in Nat
        BY DEF Deep, Opens
    <2>2. Stack(p, S, e, lf, last)
        BY <2>1 DEF Opens
    <2> QED
        BY <1>6, <2>1, <2>2, StackBegun
<1>9. Joins(w, w, <<>>) /\ <<>> \in Seq(Int)
    BY NothingAdded
<1>10. PICK h \in Seq(Int) : h = <<>> /\ Joins(w, w, h) /\ Leads(S, Tails(p, call, x, V), h, S2, Tails(p, call, s, V))
    BY <1>7, <1>9
<1>11. Joins(w, w, h) /\ Leads(S, Tails(p, call, x, V), h, S2, Tails(p, call, s, V))
    BY <1>10
<1>12. Busy(p, call, v, w, lf2, last2, Under(q) \o <<s>>)
    BY <1>1, <1>5, <1>8, <1>11, BusyNext
<1> QED
    BY <1>2, <1>12

\* A list begins.
LEMMA ListBusy ==
    ASSUME NEW p, NEW call, NEW v, NEW w \in Seq(Int), NEW lf, NEW last, NEW q, NEW x, NEW V, NEW e, NEW S,
           Opens(p, call, v, w, lf, last, q, x, V, e, S), x.call = "value", x.type = "LIST",
           NEW h \in Seq(Int), NEW w2, Joins(w2, w, h), CollectionIsGood(p, h, Len(x.value))
    PROVE  Busy(p, call, v, w2, lf, last, Under(q) \o <<List(x.of, x.value)>>)
<1>1. Good(p, call, v, w, S, Tails(p, call, x, V)) /\ S \in Seq(Int) /\ FrameOk(x)
    BY DEF Opens
<1>2. PICK s : /\ s = List(x.of, x.value) /\ s.call = "list"
    <2>1. PICK s : s = List(x.of, x.value)
        OBVIOUS
    <2> QED
        BY <2>1, AFrame DEF List
<1>3. x.of \in DOMAIN Fields /\ IsList(x.value) /\ \A j \in DOMAIN x.value : Proper(x.of, x.value[j])
    BY <1>1 DEF FrameOk, Nested, ProperIn, Fit
<1>4. FrameOk(s)
    BY <1>2, <1>3, NewFramesOk
<1>5. Frames(p, call, Under(q) \o <<s>>, Tails(p, call, s, V), e)
    <2>1. Frames(p, call, Under(q), V, e) /\ e \in Nat
        BY DEF Opens
    <2>2. Frames(p, call, Under(q) \o <<s>>, Tails(p, call, s, V), e + Deep(s))
        BY <1>4, <2>1, FramesThen
    <2>3. Deep(s) = 0 /\ e + 0 = e
        BY <1>2, <2>1 DEF Deep
    <2> QED
        BY <2>2, <2>3
<1>6. Leads(S, Tails(p, call, x, V), h, S, Tails(p, call, s, V))
    BY <1>1, <1>2, ListFollows
<1>7. Stack(p, S, e, lf, last)
    <2>1. Deep(x) = 0 /\ e + 0 = e
        BY DEF Deep, Opens
    <2> QED
        BY <2>1 DEF Opens
<1>8. Busy(p, call, v, w2, lf, last, Under(q) \o <<s>>)
    BY <1>1, <1>5, <1>6, <1>7, BusyNext
<1> QED
    BY <1>2, <1>8

\* The next element of a list.
LEMMA ElementBusy ==
    ASSUME NEW p, NEW call, NEW v, NEW w \in Seq(Int), NEW lf, NEW last, NEW q, NEW x, NEW V, NEW e, NEW S,
           Opens(p, call, v, w, lf, last, q, x, V, e, S), x.call = "list", x.next \in DOMAIN x.value,
           NEW lf2, NEW last2, p = "compact" => lf2 = Append(lf, last) /\ last2 = 0
    PROVE  Busy(p, call, v, w, lf2, last2, Under(q) \o <<Further(x), Struct(x.of, x.value[x.next])>>)
<1>1. Good(p, call, v, w, S, Tails(p, call, x, V)) /\ S \in Seq(Int) /\ FrameOk(x)
    BY DEF Opens
<1>2. PICK s : s = Struct(x.of, x.value[x.next]) /\ s.call = "struct"
    <2>1. PICK s : s = Struct(x.of, x.value[x.next])
        OBVIOUS
    <2> QED
        BY <2>1, AFrame DEF Struct
<1>3. PICK y : /\ y = Further(x) /\ y.call = "list" /\ y.of = x.of /\ y.value = x.value
               /\ y.next = x.next + 1
    BY <1>1, FurtherIs
<1>4. /\ x.of \in DOMAIN Fields /\ IsList(x.value) /\ \A j \in DOMAIN x.value : Proper(x.of, x.value[j])
      /\ Len(x.value) \in Nat /\ x.next \in 1..Len(x.value)
    BY <1>1 DEF FrameOk, IsList
<1>5. FrameOk(s) /\ FrameOk(y)
    <2>1. x.next <= Len(x.value)
        BY <1>4
    <2> QED
        BY <1>1, <1>2, <1>3, <1>4, <2>1, NewFramesOk, FurtherOk
<1>6. Frames(p, call, Under(q) \o <<y, s>>, Tails(p, call, s, Tails(p, call, y, V)), e + 1)
    <2>1. Frames(p, call, Under(q), V, e) /\ e \in Nat
        BY DEF Opens
    <2>2. Frames(p, call, Under(q) \o <<y, s>>, Tails(p, call, s, Tails(p, call, y, V)),
                 (e + Deep(y)) + Deep(s))
        BY <1>5, <2>1, FramesThen
    <2>3. Deep(s) = 1 /\ Deep(y) = 0 /\ (e + 0) + 1 = e + 1
        BY <1>2, <1>3, <2>1 DEF Deep
    <2> QED
        BY <2>2, <2>3
<1>7. PICK S2 : S2 = Append(S, 0)
    OBVIOUS
<1>8. Leads(S, Tails(p, call, x, V), <<>>, S2, Tails(p, call, s, Tails(p, call, y, V)))
    BY <1>1, <1>2, <1>3, <1>4, <1>7, ElementFollows
<1>9. Stack(p, S2, e + 1, lf2, last2)
    <2>1. Deep(x) = 0 /\ e + 0 = e /\ e \in Nat
        BY DEF Deep, Opens
    <2>2. Stack(p, S, e, lf, last)
        BY <2>1 DEF Opens
    <2> QED
        BY <1>7, <2>1, <2>2, StackBegun
<1>10. Joins(w, w, <<>>) /\ <<>> \in Seq(Int)
    BY NothingAdded
<1>11. PICK h \in Seq(Int) : /\ h = <<>> /\ Joins(w, w, h)
                             /\ Leads(S, Tails(p, call, x, V), h, S2, Tails(p, call, s, Tails(p, call, y, V)))
    BY <1>8, <1>10
<1>12. Joins(w, w, h) /\ Leads(S, Tails(p, call, x, V), h, S2, Tails(p, call, s, Tails(p, call, y, V)))
    BY <1>11
<1>13. Busy(p, call, v, w, lf2, last2, Under(q) \o <<y, s>>)
    BY <1>1, <1>6, <1>9, <1>12, BusyNext
<1> QED
    BY <1>2, <1>3, <1>13

\* The end of a list.
LEMMA ListEndBusy ==
    ASSUME NEW p, NEW call, NEW v, NEW w \in Seq(Int), NEW lf, NEW last, NEW q, NEW x, NEW V, NEW e, NEW S,
           Opens(p, call, v, w, lf, last, q, x, V, e, S), x.call = "list", x.next \notin DOMAIN x.value
    PROVE  Busy(p, call, v, w, lf, last, Under(q) \o <<>>)
<1>1. Good(p, call, v, w, S, Tails(p, call, x, V)) /\ S \in Seq(Int) /\ FrameOk(x)
    BY DEF Opens
<1>2. Len(x.value) \in Nat /\ x.next = Len(x.value) + 1
    <2>1. /\ Len(x.value) \in Nat /\ DOMAIN x.value = 1..Len(x.value)
          /\ x.next \in 1..(Len(x.value) + 1)
        BY <1>1 DEF FrameOk, IsList
    <2> QED
        BY <2>1
<1>3. Frames(p, call, Under(q) \o <<>>, V, e)
    <2>1. Frames(p, call, Under(q), V, e)
        BY DEF Opens
    <2> QED
        BY <2>1, FramesThen
<1>4. PICK S2 : S2 = S
    OBVIOUS
<1>5. Leads(S, Tails(p, call, x, V), <<>>, S, V)
    BY <1>1, <1>2, ListEndFollows DEF Opens
<1>6. Stack(p, S, e, lf, last)
    <2>1. Deep(x) = 0 /\ e + 0 = e
        BY DEF Deep, Opens
    <2> QED
        BY <2>1 DEF Opens
<1>7. PICK h \in Seq(Int) : h = <<>> /\ Joins(w, w, h) /\ Leads(S, Tails(p, call, x, V), h, S, V)
    BY <1>5, NothingAdded
<1>8. Joins(w, w, h) /\ Leads(S, Tails(p, call, x, V), h, S, V)
    BY <1>7
<1> QED
    BY <1>1, <1>3, <1>6, <1>8, BusyNext

\* A struct that has come as far as a field.
LEMMA FieldOpens ==
    ASSUME NEW x, FrameOk(x), x.call = "struct", x.next \in DOMAIN Fields[x.of],
           NEW f, f = Fields[x.of][x.next]
    PROVE  /\ x.of \in DOMAIN Fields /\ FieldOk(x.of, f) /\ f.id \in Int /\ f.id \in 1..12
           /\ f.type \in TypesInUse
           /\ FrameOk(Further(x)) /\ IsField(x.of, x.next, f, f.id)
           /\ Reached(x, x.of, x.value, x.next) /\ Reached(Further(x), x.of, x.value, x.next + 1)
           /\ f.id \in DOMAIN x.value => ProperIn(f, x.value[f.id])
           /\ IsSet(x.of, x.value, x.next) <=> f.id \in DOMAIN x.value
<1>1. x.of \in DOMAIN Fields /\ Proper(x.of, x.value)
    BY DEF FrameOk
<1>2. /\ Len(Fields[x.of]) \in Nat /\ DOMAIN Fields[x.of] = 1..Len(Fields[x.of]) /\ FieldOk(x.of, f)
    BY <1>1, FieldsSeq
<1>3. f.id \in Int /\ f.id \in 1..12 /\ f.type \in TypesInUse
    BY <1>2 DEF FieldOk, TypesInUse
<1>4. x.next <= Len(Fields[x.of]) + 1
    BY <1>2
<1>5. FrameOk(Further(x))
    BY <1>4, FurtherOk
<1>6. Reached(Further(x), x.of, x.value, x.next + 1)
    BY FurtherIs DEF Reached
<1>7. Complete(x.of, x.value) /\ (f.id \in DOMAIN x.value => ProperIn(f, x.value[f.id]))
    BY <1>1, ProperDef
<1>8. f.id \in IdsOf(x.of)
    BY <1>1, FieldOfIs
<1>9. IsSet(x.of, x.value, x.next) <=> f.id \in DOMAIN x.value
    BY <1>7, <1>8 DEF IsSet, Complete
<1> QED
    BY <1>1, <1>2, <1>3, <1>5, <1>6, <1>7, <1>9 DEF IsField, Reached

\* A field that is not set.
LEMMA SkippedBusy ==
    ASSUME NEW p, NEW call, NEW v, NEW w \in Seq(Int), NEW lf, NEW last, NEW q, NEW x, NEW V, NEW e, NEW S,
           Opens(p, call, v, w, lf, last, q, x, V, e, S),
           x.call = "struct", x.next \in DOMAIN Fields[x.of], ~IsSet(x.of, x.value, x.next)
    PROVE  Busy(p, call, v, w, lf, last, Under(q) \o <<Further(x)>>)
<1>1. Good(p, call, v, w, S, Tails(p, call, x, V)) /\ S \in Seq(Int) /\ FrameOk(x)
    BY DEF Opens
<1>2. PICK f : f = Fields[x.of][x.next]
    OBVIOUS
<1>3. PICK y : y = Further(x)
    OBVIOUS
<1>4. /\ x.of \in DOMAIN Fields /\ FrameOk(y) /\ f.id \notin DOMAIN x.value
      /\ Reached(y, x.of, x.value, x.next + 1)
    BY <1>1, <1>2, <1>3, FieldOpens
<1>5. y.call = "struct"
    BY <1>4 DEF Reached
<1>6. Frames(p, call, Under(q) \o <<y>>, Tails(p, call, y, V), e + Deep(x))
    <2>1. Frames(p, call, Under(q), V, e)
        BY DEF Opens
    <2>2. Frames(p, call, Under(q) \o <<y>>, Tails(p, call, y, V), e + Deep(y))
        BY <1>4, <2>1, FramesThen
    <2>3. Deep(y) = Deep(x)
        BY <1>5 DEF Deep
    <2> QED
        BY <2>2, <2>3
<1>7. Leads(S, Tails(p, call, x, V), <<>>, S, Tails(p, call, y, V))
    <2>1. Fields[x.of][x.next].id \notin DOMAIN x.value
        BY <1>2, <1>4
    <2> QED
        BY <1>1, <1>4, <2>1, SkippedFollows DEF Reached
<1>8. Stack(p, S, e + Deep(x), lf, last)
    BY DEF Opens
<1>9. PICK h \in Seq(Int) : h = <<>> /\ Joins(w, w, h) /\ Leads(S, Tails(p, call, x, V), h, S, Tails(p, call, y, V))
    BY <1>7, NothingAdded
<1>10. Joins(w, w, h) /\ Leads(S, Tails(p, call, x, V), h, S, Tails(p, call, y, V))
    BY <1>9
<1>11. Busy(p, call, v, w, lf, last, Under(q) \o <<y>>)
    BY <1>1, <1>6, <1>8, <1>10, BusyNext
<1> QED
    BY <1>3, <1>11

\* A field that is set, before its value.
LEMMA FieldBusy ==
    ASSUME NEW p, NEW call, NEW v, NEW w \in Seq(Int), NEW lf \in Seq(Int), NEW last \in Int,
           NEW q, NEW x, NEW V, NEW e, NEW S,
           Opens(p, call, v, w, lf, last, q, x, V, e, S),
           x.call = "struct", x.next \in DOMAIN Fields[x.of], IsSet(x.of, x.value, x.next),
           NEW f, IsField(x.of, x.next, f, f.id),
           NEW h, NEW c, HeaderGood(p, h, S[Len(S)], f.type, c, f.id), f.type = "BOOL" => c = 0,
           NEW w2, Joins(w2, w, h), NEW last2, p = "compact" => last2 = f.id
    PROVE  Busy(p, call, v, w2, lf, last2,
                Under(q) \o <<Further(x), Value(f.type, f.of, x.value[f.id])>>)
<1>0. f = Fields[x.of][x.next]
    BY DEF IsField
<1>1. /\ Good(p, call, v, w, S, Tails(p, call, x, V)) /\ S \in Seq(Int) /\ FrameOk(x)
      /\ S[Len(S)] \in Int /\ Under(S) \in Seq(Int)
    BY DEF Opens
<1>2. PICK y : y = Further(x)
    OBVIOUS
<1>3. PICK id \in Int : id = f.id
    BY <1>0, <1>1, FieldOpens
<1>4. /\ x.of \in DOMAIN Fields /\ FrameOk(y) /\ id \in DOMAIN x.value /\ FieldOk(x.of, f)
      /\ Reached(x, x.of, x.value, x.next) /\ Reached(y, x.of, x.value, x.next + 1)
      /\ IsField(x.of, x.next, f, id) /\ ProperIn(f, x.value[id])
    BY <1>0, <1>1, <1>2, <1>3, FieldOpens
<1>5. PICK u : u = Value(f.type, f.of, x.value[id]) /\ u.call = "value"
    <2>1. PICK u : u = Value(f.type, f.of, x.value[id])
        OBVIOUS
    <2> QED
        BY <2>1, AFrame DEF Value
<1>6. FrameOk(u)
    BY <1>0, <1>4, <1>5, NewFramesOk
<1>7. PICK S2 : S2 = Append(Under(S), id)
    OBVIOUS
<1>8. PICK U2 : U2 = Tails(p, call, u, Tails(p, call, y, V))
    OBVIOUS
<1>9. Frames(p, call, Under(q) \o <<y, u>>, U2, e + 1)
    <2>1. Frames(p, call, Under(q), V, e) /\ e \in Nat
        BY DEF Opens
    <2>2. Frames(p, call, Under(q) \o <<y, u>>, Tails(p, call, u, Tails(p, call, y, V)),
                 (e + Deep(y)) + Deep(u))
        BY <1>4, <1>6, <2>1, FramesThen
    <2>3. Deep(u) = 0 /\ Deep(y) = 1 /\ (e + 1) + 0 = e + 1
        BY <1>4, <1>5, <2>1 DEF Deep, Reached
    <2> QED
        BY <1>8, <2>2, <2>3
<1>10. FieldTaken(p, x.of, x.value, x.next, f, id, x, y, S, h, c)
    BY <1>1, <1>3, <1>4 DEF FieldTaken
<1>11. Leads(S, Tails(p, call, x, V), h, S2, U2)
    <2>1. Leads(S, Tails(p, call, x, V), h, Append(Under(S), id),
                  Tails(p, call, Value(f.type, f.of, x.value[id]), Tails(p, call, y, V)))
        BY <1>4, <1>10, FieldFollows
    <2> QED
        BY <1>5, <1>7, <1>8, <2>1
<1>12. Stack(p, S2, e + 1, lf, last2)
    <2>1. PICK d \in Nat : d = e + 1
        BY DEF Opens
    <2>2. Stack(p, S, d, lf, last)
        BY <2>1 DEF Opens, Deep
    <2>3. p = "compact" => last2 = id
        BY <1>3
    <2>4. Stack(p, Append(Under(S), id), d, lf, last2)
        BY <2>2, <2>3, StackSet
    <2> QED
        BY <1>7, <2>1, <2>4
<1>13. h \in Seq(Int)
    BY DEF HeaderGood
<1>14. Busy(p, call, v, w2, lf, last2, Under(q) \o <<y, u>>)
    BY <1>1, <1>9, <1>11, <1>12, <1>13, BusyNext
<1> QED
    BY <1>2, <1>3, <1>5, <1>14

\* The stop.
LEMMA StopBusy ==
    ASSUME NEW p, NEW call, NEW v, NEW w \in Seq(Int), NEW lf, NEW last, NEW q, NEW x, NEW V, NEW e, NEW S,
           Opens(p, call, v, w, lf, last, q, x, V, e, S),
           x.call = "struct", x.next = Len(Fields[x.of]) + 1,
           NEW h, StopIsGood(p, h, S[Len(S)]), NEW w2, Joins(w2, w, h)
    PROVE  Busy(p, call, v, w2, lf, last, Under(q) \o <<Further(x)>>)
<1>1. /\ Good(p, call, v, w, S, Tails(p, call, x, V)) /\ S \in Seq(Int) /\ FrameOk(x)
      /\ S[Len(S)] \in Int
    BY DEF Opens
<1>2. PICK y : y = Further(x)
    OBVIOUS
<1>3. x.of \in DOMAIN Fields
    BY <1>1 DEF FrameOk
<1>4. Len(Fields[x.of]) \in Nat
    BY <1>3, FieldsSeq
<1>5. FrameOk(y) /\ y.call = "struct" /\ y.of = x.of /\ y.value = x.value
    BY <1>1, <1>2, <1>4, FurtherOk, FurtherIs
<1>6. y.next = Len(Fields[x.of]) + 2
    <2>1. y.next = x.next + 1
        BY <1>1, <1>2, FurtherIs
    <2> QED
        BY <1>4, <2>1
<1>7. Frames(p, call, Under(q) \o <<y>>, Tails(p, call, y, V), e + Deep(x))
    <2>1. Frames(p, call, Under(q), V, e)
        BY DEF Opens
    <2>2. Frames(p, call, Under(q) \o <<y>>, Tails(p, call, y, V), e + Deep(y))
        BY <1>5, <2>1, FramesThen
    <2>3. Deep(y) = Deep(x)
        BY <1>5 DEF Deep
    <2> QED
        BY <2>2, <2>3
<1>8. Leads(S, Tails(p, call, x, V), h, S, Tails(p, call, y, V))
    BY <1>1, <1>3, <1>5, <1>6, StopFollows
<1>9. Stack(p, S, e + Deep(x), lf, last)
    BY DEF Opens
<1>10. h \in Seq(Int)
    BY DEF StopIsGood
<1>11. Busy(p, call, v, w2, lf, last, Under(q) \o <<y>>)
    BY <1>1, <1>7, <1>8, <1>9, <1>10, BusyNext
<1> QED
    BY <1>2, <1>11

\* A struct ends.
LEMMA StructEndBusy ==
    ASSUME NEW p, NEW call, NEW v, NEW w \in Seq(Int), NEW lf \in Seq(Int), NEW last \in Int,
           NEW q, NEW x, NEW V, NEW e, NEW S,
           Opens(p, call, v, w, lf, last, q, x, V, e, S),
           x.call = "struct", x.next = Len(Fields[x.of]) + 2,
           NEW lf2, NEW last2, p = "compact" => lf2 = Under(lf) /\ last2 = lf[Len(lf)]
    PROVE  /\ Busy(p, call, v, w, lf2, last2, Under(q) \o <<>>)
           /\ p = "compact" => lf2 \in Seq(Int) /\ last2 \in Int
<1>1. /\ Good(p, call, v, w, S, Tails(p, call, x, V)) /\ S \in Seq(Int) /\ FrameOk(x)
      /\ V \subseteq Seq(Int) \X Seq(Int) /\ e \in Nat
    BY DEF Opens
<1>2. x.of \in DOMAIN Fields
    BY <1>1 DEF FrameOk
<1>3. Frames(p, call, Under(q) \o <<>>, V, e)
    <2>1. Frames(p, call, Under(q), V, e)
        BY DEF Opens
    <2> QED
        BY <2>1, FramesThen
<1>4. PICK S2 : S2 = Under(S)
    OBVIOUS
<1>5. Leads(S, Tails(p, call, x, V), <<>>, S2, V)
    BY <1>1, <1>2, <1>4, StructEndFollows
<1>6. Stack(p, S, e + 1, lf, last)
    BY DEF Opens, Deep
<1>7. Stack(p, S2, e, lf2, last2) /\ (p = "compact" => lf2 \in Seq(Int) /\ last2 \in Int)
    BY <1>1, <1>4, <1>6, StackEnded
<1>8. PICK h \in Seq(Int) : h = <<>> /\ Joins(w, w, h) /\ Leads(S, Tails(p, call, x, V), h, S2, V)
    BY <1>5, NothingAdded
<1>9. Joins(w, w, h) /\ Leads(S, Tails(p, call, x, V), h, S2, V)
    BY <1>8
<1> QED
    BY <1>1, <1>3, <1>7, <1>9, BusyNext

\* Two frames more, without the last of them.
LEMMA WithoutLast ==
    ASSUME NEW X, NEW q \in Seq(X), NEW x, NEW y
    PROVE  LET r == q \o <<x, y>>
           IN r # <<>> /\ r[Len(r)] = y /\ Under(r) = q \o <<x>> /\ Under(r) \o <<>> = q \o <<x>>
<1>1. PICK Y : X \subseteq Y /\ x \in Y /\ y \in Y
    <2>1. PICK Y : Y = X \union {x, y}
        OBVIOUS
    <2> QED
        BY <2>1
<1>2. q \in Seq(Y)
    BY <1>1, SeqMonotonic
<1>3. PICK n \in Nat : n = Len(q)
    BY <1>2, LenProperties
<1>4. PICK t : t = <<x, y>> /\ Len(t) = 2 /\ t[1] = x /\ t[2] = y /\ t \in Seq(Y)
    <2>1. Len(<<x, y>>) = 2 /\ <<x, y>>[1] = x /\ <<x, y>>[2] = y
        OBVIOUS
    <2>2. <<x, y>> \in Seq(Y)
        BY <1>1
    <2> QED
        BY <2>1, <2>2
<1>5. PICK r : r = q \o t
    OBVIOUS
<1>6. /\ r \in Seq(Y) /\ Len(r) = n + 2
      /\ \A i \in 1..(n + 2) : r[i] = IF i <= n THEN q[i] ELSE t[i - n]
    BY <1>2, <1>3, <1>4, <1>5, ConcatProperties
<1>7. PICK s : s = q \o <<x>>
    OBVIOUS
<1>8. /\ s \in Seq(Y) /\ Len(s) = n + 1 /\ s[n + 1] = x /\ \A i \in 1..n : s[i] = q[i]
    <2>1. s = Append(q, x)
        BY <1>1, <1>2, <1>7, AppendIsConcat
    <2> QED
        BY <1>1, <1>2, <1>3, <2>1, AppendProperties
<1>9. r[n + 2] = y /\ r[n + 1] = x /\ \A i \in 1..n : r[i] = q[i]
    <2>1. n + 2 \in 1..(n + 2) /\ ~(n + 2 <= n) /\ (n + 2) - n = 2
        BY <1>3
    <2>2. n + 1 \in 1..(n + 2) /\ ~(n + 1 <= n) /\ (n + 1) - n = 1
        BY <1>3
    <2>3. \A i \in 1..n : i \in 1..(n + 2) /\ i <= n
        BY <1>3
    <2> QED
        BY <1>4, <1>6, <2>1, <2>2, <2>3
<1>10. Len(r) - 1 = n + 1
    BY <1>3, <1>6
<1>11. \A i \in 1..(n + 1) : r[i] \in Y
    <2>1. \A i \in 1..(n + 1) : i \in 1..Len(r)
        BY <1>3, <1>6
    <2> QED
        BY <1>6, <2>1, ElementOfSeq
<1>12. /\ SubSeq(r, 1, n + 1) \in Seq(Y)
       /\ Len(SubSeq(r, 1, n + 1)) = IF 1 <= n + 1 THEN (n + 1) - 1 + 1 ELSE 0
       /\ \A i \in 1..((n + 1) - 1 + 1) : SubSeq(r, 1, n + 1)[i] = r[1 + i - 1]
    BY <1>3, <1>11, SubSeqProperties
<1>13. Len(SubSeq(r, 1, n + 1)) = Len(s)
    BY <1>3, <1>8, <1>12
<1>14. ASSUME NEW i \in 1..Len(s) PROVE SubSeq(r, 1, n + 1)[i] = s[i]
    <2>1. i \in 1..((n + 1) - 1 + 1) /\ 1 + i - 1 = i /\ (i = n + 1 \/ i \in 1..n)
        BY <1>3, <1>8
    <2>2. SubSeq(r, 1, n + 1)[i] = r[i]
        BY <1>12, <2>1
    <2> QED
        BY <1>8, <1>9, <2>1, <2>2
<1>15. SubSeq(r, 1, n + 1) = s
    BY <1>8, <1>12, <1>13, <1>14, SeqEqual
<1>16. Under(r) = s
    BY <1>10, <1>15 DEF Under
<1>17. s \o <<>> = s
    BY <1>8, ConcatEmptySeq
<1>18. r # <<>>
    BY <1>3, <1>6, EmptySeq
<1>19. r[Len(r)] = y
    BY <1>6, <1>9
<1> QED
    BY <1>4, <1>5, <1>7, <1>16, <1>17, <1>18, <1>19

\* The compact writer that has a boolean field before it and waits for its value.
Awaits(p, call, v, w, lf, last, q, id) ==
    /\ p = "compact" /\ q # <<>> /\ id \in Int
    /\ q[Len(q)].call = "value" /\ q[Len(q)].type = "BOOL"
    /\ FieldHeader(BoolCode(q[Len(q)].value), id, last) \in Seq(Int)
    /\ \A w2 : Joins(w2, w, FieldHeader(BoolCode(q[Len(q)].value), id, last))
                  => Busy(p, call, v, w2, lf, id, Under(q) \o <<>>)

\* A boolean field that is set, before its value.
LEMMA BoolAwaits ==
    ASSUME NEW call, NEW v, NEW w \in Seq(Int), NEW lf \in Seq(Int), NEW last \in Int,
           NEW q, NEW x, NEW V, NEW e, NEW S,
           Opens("compact", call, v, w, lf, last, q, x, V, e, S),
           x.call = "struct", x.next \in DOMAIN Fields[x.of], IsSet(x.of, x.value, x.next),
           NEW f, f = Fields[x.of][x.next], f.type = "BOOL"
    PROVE  Awaits("compact", call, v, w, lf, last,
                  Under(q) \o <<Further(x), Value(f.type, f.of, x.value[f.id])>>, f.id)
<1>0. PICK p : p = "compact"
    OBVIOUS
<1>1. /\ Good(p, call, v, w, S, Tails(p, call, x, V)) /\ S \in Seq(Int) /\ FrameOk(x)
      /\ S[Len(S)] \in Int /\ Under(S) \in Seq(Int) /\ S[Len(S)] = last
    BY <1>0 DEF Opens
<1>2. PICK y : y = Further(x)
    OBVIOUS
<1>3. PICK id \in Int : id = f.id
    BY <1>1, FieldOpens
<1>4. /\ x.of \in DOMAIN Fields /\ FrameOk(y) /\ id \in DOMAIN x.value /\ FieldOk(x.of, f)
      /\ Reached(x, x.of, x.value, x.next) /\ Reached(y, x.of, x.value, x.next + 1)
      /\ IsField(x.of, x.next, f, id) /\ ProperIn(f, x.value[id]) /\ id \in 1..12
    BY <1>1, <1>2, <1>3, FieldOpens
<1>5. PICK b : b = x.value[id]
    OBVIOUS
<1>6. PICK u : u = Value(f.type, f.of, b) /\ u.call = "value" /\ u.type = "BOOL" /\ u.value = b
    <2>1. PICK u : u = Value(f.type, f.of, b)
        OBVIOUS
    <2> QED
        BY <2>1, AFrame DEF Value
<1>7. b \in {<<0>>, <<1>>} /\ f.of = "none"
    <2>1. f.of = "none"
        BY <1>4 DEF FieldOk, Nested
    <2>2. Held("BOOL", b)
        BY <1>4, <1>5 DEF ProperIn, Fit
    <2> QED
        BY <2>1, <2>2 DEF Held
<1>8. PICK c : c = BoolCode(b)
    OBVIOUS
<1>9. PICK h : h = FieldHeader(BoolCode(b), id, last)
    OBVIOUS
<1>10. HeaderGood(p, h, S[Len(S)], f.type, c, id) /\ h \in Seq(Int)
    <2>1. HeaderGood("compact", FieldHeader(BoolCode(b), id, last), last, "BOOL", BoolCode(b), id)
        BY <1>4, <1>7, HeadersAreGood DEF TypesInUse
    <2>2. HeaderGood(p, h, S[Len(S)], f.type, c, id)
        BY <1>0, <1>1, <1>8, <1>9, <2>1
    <2> QED
        BY <2>2 DEF HeaderGood
<1>11. FieldTaken(p, x.of, x.value, x.next, f, id, x, y, S, h, c)
    BY <1>1, <1>4, <1>10 DEF FieldTaken
<1>12. BoolHead(f, x.value[id], c)
    BY <1>5, <1>7, <1>8 DEF BoolHead
<1>13. PICK S2 : S2 = Append(Under(S), id)
    OBVIOUS
<1>14. Leads(S, Tails(p, call, x, V), h, S2, Tails(p, call, y, V))
    BY <1>11, <1>12, <1>13, BoolFollows
<1>15. Frames(p, call, Under(q) \o <<y>>, Tails(p, call, y, V), e + 1)
    <2>1. Frames(p, call, Under(q), V, e)
        BY <1>0 DEF Opens
    <2>2. Frames(p, call, Under(q) \o <<y>>, Tails(p, call, y, V), e + Deep(y))
        BY <1>4, <2>1, FramesThen
    <2>3. Deep(y) = 1
        BY <1>4 DEF Deep, Reached
    <2> QED
        BY <2>2, <2>3
<1>16. Stack(p, S2, e + 1, lf, id)
    <2>1. PICK d \in Nat : d = e + 1
        BY DEF Opens
    <2>2. Stack(p, S, d, lf, last)
        BY <1>0, <2>1 DEF Opens, Deep
    <2>3. PICK last2 : last2 = id
        OBVIOUS
    <2>4. Stack(p, Append(Under(S), id), d, lf, last2)
        BY <2>2, <2>3, StackSet
    <2> QED
        BY <1>13, <2>1, <2>3, <2>4
<1>17. ASSUME NEW w2, Joins(w2, w, h)
       PROVE  Busy(p, call, v, w2, lf, id, Under(q) \o <<y>>)
    BY <1>1, <1>10, <1>14, <1>15, <1>16, <1>17, BusyNext
<1>18. PICK r : r = Under(q) \o <<y, u>>
    OBVIOUS
<1>19. r # <<>> /\ r[Len(r)] = u /\ Under(r) \o <<>> = Under(q) \o <<y>>
    <2>1. PICK X : Under(q) \in Seq(X)
        BY DEF Opens, Frames
    <2>2. PICK g : g = Under(q)
        OBVIOUS
    <2>3. g \in Seq(X)
        BY <2>1, <2>2
    <2>4. LET k == g \o <<y, u>>
          IN k # <<>> /\ k[Len(k)] = u /\ Under(k) = g \o <<y>> /\ Under(k) \o <<>> = g \o <<y>>
        BY <2>3, WithoutLast, ZenonT(60)
    <2> QED
        BY <1>18, <2>2, <2>4
<1>20. Awaits(p, call, v, w, lf, last, r, id)
    BY <1>0, <1>6, <1>9, <1>10, <1>17, <1>19 DEF Awaits
<1> QED
    BY <1>0, <1>2, <1>3, <1>5, <1>6, <1>18, <1>20

\* A call begins with everything to write.
LEMMA BegunBusy ==
    ASSUME NEW p, NEW call \in DOMAIN ArgsOf, NEW v, Proper(ArgsOf[call], v),
           NEW lf, NEW last \in Int, p = "compact" => lf = <<>>
    PROVE  Busy(p, call, v, <<>>, lf, last, <<Value("STRUCT", ArgsOf[call], v), Message>>)
<1>1. PICK of \in DOMAIN Fields : of = ArgsOf[call]
    BY DEF ArgsOf, Fields
<1>2. PICK x : /\ x = Value("STRUCT", of, v) /\ x.call = "value" /\ x.type = "STRUCT" /\ x.of = of
               /\ x.value = v
               /\ x = [call |-> x.call, type |-> x.type, of |-> x.of, value |-> x.value, next |-> x.next]
    <2>1. PICK x : x = Value("STRUCT", of, v)
        OBVIOUS
    <2> QED
        BY <2>1, AFrame DEF Value
<1>3. PICK m : m = Message /\ m.call = "message"
    <2>1. PICK m : m = Message
        OBVIOUS
    <2> QED
        BY <2>1, AFrame DEF Message
<1>4. FrameOk(x) /\ FrameOk(m)
    <2>1. ProperIn(x, x.value)
        BY <1>1, <1>2 DEF ProperIn, Fit
    <2>2. x.type \in TypesInUse
        BY <1>2 DEF TypesInUse, Nested
    <2>3. FrameOk(x)
        BY <1>2, <2>1, <2>2 DEF FrameOk
    <2> QED
        BY <1>3, <2>3, NewFramesOk
<1>5. PICK q \in Seq({}) : q = <<>>
    BY EmptySeq
<1>6. PICK U : U = Tails(p, call, m, Tails(p, call, x, NoFrame))
    OBVIOUS
<1>7. Frames(p, call, q \o <<x, m>>, U, 0)
    <2>1. Frames(p, call, q, NoFrame, 0)
        BY <1>5, NoFrames
    <2>2. PICK d \in Nat : d = 0
        OBVIOUS
    <2>3. Frames(p, call, q, NoFrame, d)
        BY <2>1, <2>2
    <2>4. Frames(p, call, q \o <<x, m>>, Tails(p, call, m, Tails(p, call, x, NoFrame)), (d + Deep(x)) + Deep(m))
        BY <1>4, <2>3, FramesThen
    <2>5. (d + Deep(x)) + Deep(m) = 0
        BY <1>2, <1>3, <2>2 DEF Deep
    <2> QED
        BY <1>6, <2>4, <2>5
<1>8. q \o <<x, m>> = <<x, m>>
    <2>1. PICK Y : x \in Y /\ m \in Y
        <3>1. PICK Y : Y = {x, m}
            OBVIOUS
        <3> QED
            BY <3>1
    <2>2. <<x, m>> \in Seq(Y)
        BY <2>1
    <2> QED
        BY <1>5, <2>2, ConcatEmptySeq
<1>9. PICK S : S = Append(<<>>, last)
    OBVIOUS
<1>10. S \in Seq(Int) /\ Stack(p, S, 0, lf, last)
    <2>1. PICK g \in Seq(Int) : g = <<>> /\ Len(g) = 0
        BY EmptySeq
    <2>2. Append(g, last) \in Seq(Int) /\ Len(Append(g, last)) = 0 + 1
        BY <2>1, UnderAppended
    <2> QED
        BY <1>9, <2>1, <2>2 DEF Stack
<1>11. ASSUME NEW y, NEW z, <<S, y>> \in U, Joins(z, <<>>, y) PROVE CallGood(p, call, v, z)
    <2>1. <<S, y>> \in Tails(p, call, m, Tails(p, call, x, NoFrame))
        BY <1>6, <1>11
    <2>2. y \in Seq(Int)
        BY <2>1, TailOpened
    <2>3. PICK h, r : /\ h \in Seq(Int) /\ r \in Seq(Int) /\ Joins(y, h, r)
                      /\ FrameGood(p, call, m, S[Len(S)], h)
                      /\ <<Outer(m, S), r>> \in Tails(p, call, x, NoFrame)
        BY <2>1, TailOpened
    <2>4. Outer(m, S) = S /\ Outer(x, S) = S
        BY <1>2, <1>3 DEF Outer
    <2>5. <<S, r>> \in Tails(p, call, x, NoFrame)
        BY <2>3, <2>4
    <2>6. PICK b, t : /\ b \in Seq(Int) /\ t \in Seq(Int) /\ Joins(r, b, t)
                      /\ FrameGood(p, call, x, S[Len(S)], b) /\ <<Outer(x, S), t>> \in NoFrame
        BY <2>5, TailOpened
    <2>7. t = <<>>
        BY <2>6 DEF NoFrame
    <2>8. r = b
        <3>1. Joins(b, b, <<>>)
            BY <2>6, NothingAdded
        <3> QED
            BY <2>6, <2>7, <3>1 DEF Joins
    <2>9. z = y
        <3>1. Joins(y, <<>>, y)
            BY <2>2, NothingAdded
        <3> QED
            BY <1>11, <3>1 DEF Joins
    <2>10. MessageIsGood(p, call, h)
        BY <1>3, <2>3 DEF FrameGood
    <2>11. FieldsGood(p, ArgsOf[call], v, 1, 0, b)
        BY <1>1, <1>2, <2>6 DEF FrameGood, PartGood
    <2>12. Joins(z, h, b)
        BY <2>3, <2>8, <2>9
    <2> QED
        BY <2>10, <2>11, <2>12, MessageGood
<1>12. Good(p, call, v, <<>>, S, U)
    BY <1>11 DEF Good
<1>13. Frames(p, call, <<x, m>>, U, 0)
    BY <1>7, <1>8
<1>14. Busy(p, call, v, <<>>, lf, last, <<x, m>>)
    BY <1>10, <1>12, <1>13 DEF Busy
<1> QED
    BY <1>1, <1>2, <1>3, <1>14

\* And ends with a call written.
LEMMA BusyEnds ==
    ASSUME NEW p, NEW call, NEW v, NEW w \in Seq(Int), NEW lf \in Seq(Int), NEW last \in Int,
           Busy(p, call, v, w, lf, last, <<>>)
    PROVE  CallGood(p, call, v, w) /\ (p = "compact" => lf = <<>>)
<1>1. PICK U, d, S : Frames(p, call, <<>>, U, d) /\ Stack(p, S, d, lf, last) /\ Good(p, call, v, w, S, U)
    BY DEF Busy
<1>2. U = NoFrame /\ d = 0
    BY <1>1, NoFrames
<1>3. S \in Seq(Int) /\ Len(S) = 1
    BY <1>1, <1>2 DEF Stack
<1>4. <<S, <<>>>> \in U
    BY <1>2, <1>3 DEF NoFrame
<1>5. Joins(w, w, <<>>)
    BY NothingAdded
<1>6. CallGood(p, call, v, w)
    BY <1>1, <1>4, <1>5 DEF Good
<1>7. ASSUME p = "compact" PROVE lf = <<>>
    <2>1. S = Append(lf, last) /\ Len(Append(lf, last)) = Len(lf) + 1
        BY <1>1, <1>7, UnderAppended DEF Stack
    <2>2. Len(lf) \in Nat
        BY LenProperties
    <2>3. Len(lf) = 0
        BY <1>3, <2>1, <2>2
    <2> QED
        BY <2>3, EmptySeq
<1> QED
    BY <1>6, <1>7

-----------------------------------------------------------------------------
(* The invariant. *)

EmitTypes ==
    /\ protocol \in DOMAIN Reports /\ report \in Reports[protocol]
    /\ wire \in Seq(Int) /\ lastField \in Seq(Int) /\ lastFieldId \in Int

Given == Args(protocol, report)
DatagramGood == datagram # <<>> => CallGood(protocol, report.call, Given, datagram)

Idle == todo = <<>> /\ wire = <<>> /\ booleanField = {} /\ (protocol = "compact" => lastField = <<>>)
Works == booleanField = {} /\ Busy(protocol, report.call, Given, wire, lastField, lastFieldId, todo)
WaitsFor(id) == /\ booleanField = {id}
             /\ Awaits(protocol, report.call, Given, wire, lastField, lastFieldId, todo, id)

\* What is written is the start of what the agent can read, and what is left to write is
\* the rest of it.
EmitInv == EmitTypes /\ DatagramGood /\ (Idle \/ Works \/ \E id : WaitsFor(id))

\* What the client is given.
LEMMA GivenOk ==
    ASSUME NEW p \in DOMAIN Reports, NEW r \in Reports[p]
    PROVE  /\ p \in Protocols /\ r.call \in DOMAIN ArgsOf /\ Proper(ArgsOf[r.call], Args(p, r))
BY ReportsAssumption DEF ReportsAssumption, Protocols

\* Bytes are written.
LEMMA PutIs ==
    ASSUME NEW b \in Seq(Int), Put(b), wire \in Seq(Int)
    PROVE  /\ wire' \in Seq(Int) /\ Joins(wire', wire, b)
           /\ lastField' = lastField /\ lastFieldId' = lastFieldId /\ booleanField' = booleanField
BY ConcatProperties DEF Put, Joins

\* A write function is running.
LEMMA AtWork ==
    ASSUME EmitInv, todo # <<>>, booleanField = {}
    PROVE  \E x, V, e, S : Opens(protocol, report.call, Given, wire, lastField, lastFieldId, todo, x, V, e, S)
<1>1. ~Idle
    BY DEF Idle
<1>2. \A id : ~WaitsFor(id)
    BY DEF WaitsFor
<1>3. Busy(protocol, report.call, Given, wire, lastField, lastFieldId, todo)
    BY <1>1, <1>2 DEF EmitInv, Works
<1> QED
    BY <1>3, BusyOpens DEF EmitInv, EmitTypes

\* A boolean waits only while it is the value to write.
LEMMA NothingWaits ==
    ASSUME EmitInv, todo # <<>>, booleanField # {}
    PROVE  /\ Current.call = "value" /\ Current.type = "BOOL"
           /\ \E id : WaitsFor(id)
BY DEF EmitInv, Idle, Works, WaitsFor, Awaits, Current

\* A call that leaves the writer at work.
LEMMA StillWorks ==
    ASSUME EmitInv, NEW items, Then(items), booleanField' = {},
           wire' \in Seq(Int), lastField' \in Seq(Int), lastFieldId' \in Int,
           Busy(protocol, report.call, Given, wire', lastField', lastFieldId', Under(todo) \o items)
    PROVE  EmitInv'
<1>1. todo' = Under(todo) \o items /\ protocol' = protocol /\ report' = report /\ datagram' = datagram
    BY DEF Then, Below, Under
<1>2. EmitTypes' /\ DatagramGood'
    BY <1>1 DEF EmitInv, EmitTypes, DatagramGood, Given
<1>3. Works'
    BY <1>1 DEF Works, Given
<1> QED
    BY <1>2, <1>3 DEF EmitInv

\* EmitInit establishes it.
LEMMA EmitInitInv == EmitInit => EmitInv
<1> SUFFICES ASSUME EmitInit PROVE EmitInv
    OBVIOUS
<1>1. <<>> \in Seq(Int)
    BY EmptySeq
<1>2. EmitTypes
    BY <1>1 DEF EmitInit, NewWriter, EmitTypes
<1>3. DatagramGood /\ Idle
    BY DEF EmitInit, NewWriter, DatagramGood, Idle
<1> QED
    BY <1>2, <1>3 DEF EmitInv

\* A new call of the client.
LEMMA EmitBatchInv ==
    ASSUME EmitInv, NEW r \in Reports[protocol], EmitBatch(r)
    PROVE  EmitInv'
<1>1. /\ protocol \in Protocols /\ r.call \in DOMAIN ArgsOf /\ Proper(ArgsOf[r.call], Args(protocol, r))
      /\ report.call \in DOMAIN ArgsOf
    BY GivenOk DEF EmitInv, EmitTypes
<1>2. Idle
    <2>1. \A id : ~WaitsFor(id)
        BY DEF EmitBatch, WaitsFor, Awaits
    <2>2. ~Works
        <3> SUFFICES ASSUME Works PROVE FALSE
            OBVIOUS
        <3>1. CallGood(protocol, report.call, Given, wire)
            BY BusyEnds DEF Works, EmitBatch, EmitInv, EmitTypes
        <3> QED
            BY <3>1 DEF CallGood, EmitBatch
    <2> QED
        BY <2>1, <2>2 DEF EmitInv
<1>3. /\ todo' = <<Value("STRUCT", ArgsOf[r.call], Args(protocol, r)), Message>>
      /\ wire' = <<>> /\ lastField' = lastField /\ lastFieldId' = lastFieldId
      /\ booleanField' = {} /\ protocol' = protocol /\ report' = r /\ datagram' = <<>>
    BY <1>2 DEF EmitBatch, writer, Idle
<1>4. Busy(protocol, r.call, Args(protocol, r), <<>>, lastField, lastFieldId,
           <<Value("STRUCT", ArgsOf[r.call], Args(protocol, r)), Message>>)
    BY <1>1, <1>2, BegunBusy DEF EmitInv, EmitTypes, Idle
<1>5. Works'
    BY <1>3, <1>4 DEF Works, Given
<1>6. EmitTypes' /\ DatagramGood'
    <2>1. <<>> \in Seq(Int)
        BY EmptySeq
    <2> QED
        BY <1>3, <2>1 DEF EmitInv, EmitTypes, DatagramGood
<1> QED
    BY <1>5, <1>6 DEF EmitInv

\* The buffer goes to the transport.
LEMMA TakeBufferInv == ASSUME EmitInv, TakeBuffer PROVE EmitInv'
<1>1. Works
    BY DEF EmitInv, TakeBuffer, Idle, WaitsFor, Awaits
<1>2. CallGood(protocol, report.call, Given, wire) /\ (protocol = "compact" => lastField = <<>>)
    BY <1>1, BusyEnds DEF Works, TakeBuffer, EmitInv, EmitTypes
<1>3. /\ datagram' = wire /\ wire' = <<>> /\ lastField' = lastField /\ lastFieldId' = lastFieldId
      /\ booleanField' = {} /\ protocol' = protocol /\ report' = report /\ todo' = <<>>
    BY <1>1 DEF TakeBuffer, Works
<1>4. EmitTypes' /\ DatagramGood' /\ Idle'
    <2>1. <<>> \in Seq(Int)
        BY EmptySeq
    <2> QED
        BY <1>2, <1>3, <2>1 DEF EmitInv, EmitTypes, DatagramGood, Idle, Given
<1> QED
    BY <1>4 DEF EmitInv

\* What a call of the protocol writes.
LEMMA WritesIs ==
    ASSUME EmitInv, NEW compact, NEW binary, Writes(compact, binary)
    PROVE  \/ protocol = "compact" /\ compact
           \/ protocol = "binary" /\ protocol # "compact" /\ Put(binary)
BY DEF Writes

\* A message.
LEMMA WriteMessageInv == ASSUME EmitInv, WriteMessage PROVE EmitInv'
<1>1. todo # <<>> /\ Current.call = "message" /\ Then(<<>>)
    BY DEF WriteMessage, Comes
<1>2. booleanField = {}
    BY <1>1, NothingWaits
<1>3. PICK x, V, e, S : Opens(protocol, report.call, Given, wire, lastField, lastFieldId, todo, x, V, e, S)
    BY <1>1, <1>2, AtWork
<1>4. x.call = "message"
    BY <1>1, <1>3 DEF Opens, Current
<1>5. report.call \in DOMAIN ArgsOf
    BY GivenOk DEF EmitInv, EmitTypes
<1>6. PICK h \in Seq(Int) : MessageIsGood(protocol, report.call, h) /\ Put(h)
    <2>1. CASE protocol = "compact"
        <3>1. PICK h : h = MessageHeader(NameOf[report.call], "ONEWAY", 0)
            OBVIOUS
        <3>2. MessageIsGood("compact", report.call, h)
            BY <1>5, <3>1, CompactMessage
        <3>3. Put(h)
            BY <2>1, <3>1 DEF WriteMessage, Writes, WriteMessageBegin
        <3> QED
            BY <2>1, <3>2, <3>3 DEF MessageIsGood
    <2>2. CASE protocol # "compact"
        <3>1. PICK h : h = Binary!MessageHeader(NameOf[report.call], "ONEWAY", 0)
            OBVIOUS
        <3>2. MessageIsGood("binary", report.call, h)
            BY <1>5, <3>1, BinaryMessage
        <3>3. protocol = "binary" /\ Put(h)
            BY <2>2, <3>1 DEF WriteMessage, Writes
        <3> QED
            BY <3>2, <3>3 DEF MessageIsGood
    <2> QED
        BY <2>1, <2>2
<1>7. /\ wire' \in Seq(Int) /\ Joins(wire', wire, h)
      /\ lastField' = lastField /\ lastFieldId' = lastFieldId /\ booleanField' = booleanField
    BY <1>6, PutIs DEF EmitInv, EmitTypes
<1>8. PICK w2 : w2 = wire' /\ Joins(w2, wire, h)
    BY <1>7
<1>9. FrameGood(protocol, report.call, x, S[Len(S)], h)
    BY <1>4, <1>6 DEF FrameGood
<1>10. x.call # "struct"
    BY <1>4
<1>11. wire \in Seq(Int)
    BY DEF EmitInv, EmitTypes
<1>12. Joins(w2, wire, h)
    BY <1>8
<1>13. Busy(protocol, report.call, Given, w2, lastField, lastFieldId, Under(todo) \o <<>>)
    BY <1>3, <1>9, <1>10, <1>11, <1>12, WrittenBusy
<1>14. Busy(protocol, report.call, Given, wire', lastField', lastFieldId', Under(todo) \o <<>>)
    BY <1>7, <1>8, <1>13
<1>15. booleanField' = {} /\ lastField' \in Seq(Int) /\ lastFieldId' \in Int
    BY <1>2, <1>7 DEF EmitInv, EmitTypes
<1> QED
    BY <1>1, <1>7, <1>14, <1>15, StillWorks

\* A stop.
LEMMA WriteStopInv == ASSUME EmitInv, WriteStop PROVE EmitInv'
<1>1. todo # <<>> /\ Current.call = "struct" /\ Then(<<Advanced>>)
    BY DEF WriteStop, Comes
<1>2. booleanField = {}
    BY <1>1, NothingWaits
<1>3. PICK x, V, e, S : Opens(protocol, report.call, Given, wire, lastField, lastFieldId, todo, x, V, e, S)
    BY <1>1, <1>2, AtWork
<1>4. x.call = "struct" /\ x.next = Len(Fields[x.of]) + 1 /\ Advanced = Further(x)
    BY <1>1, <1>3 DEF Opens, Current, Further, Advanced, WriteStop
<1>5. PICK h \in Seq(Int) : StopIsGood(protocol, h, S[Len(S)]) /\ Put(h)
    <2>1. CASE protocol = "compact"
        <3>1. PICK h : h = <<0>>
            OBVIOUS
        <3>2. StopIsGood("compact", h, S[Len(S)])
            BY <3>1, CompactStop
        <3>3. Put(h)
            BY <2>1, <3>1 DEF WriteStop, Writes, WriteFieldStop
        <3> QED
            BY <2>1, <3>2, <3>3 DEF StopIsGood
    <2>2. CASE protocol # "compact"
        <3>1. PICK h : h = Binary!Stop
            OBVIOUS
        <3>2. StopIsGood("binary", h, S[Len(S)])
            BY <3>1, BinaryStop
        <3>3. protocol = "binary" /\ Put(h)
            BY <2>2, <3>1 DEF WriteStop, Writes
        <3> QED
            BY <3>2, <3>3 DEF StopIsGood
    <2> QED
        BY <2>1, <2>2
<1>6. /\ wire' \in Seq(Int) /\ Joins(wire', wire, h)
      /\ lastField' = lastField /\ lastFieldId' = lastFieldId /\ booleanField' = booleanField
    BY <1>5, PutIs DEF EmitInv, EmitTypes
<1>7. PICK w2 : w2 = wire' /\ Joins(w2, wire, h)
    BY <1>6
<1>8. Joins(w2, wire, h) /\ StopIsGood(protocol, h, S[Len(S)]) /\ wire \in Seq(Int)
    BY <1>5, <1>7 DEF EmitInv, EmitTypes
<1>9. Busy(protocol, report.call, Given, w2, lastField, lastFieldId, Under(todo) \o <<Further(x)>>)
    BY <1>3, <1>4, <1>8, StopBusy
<1>10. Busy(protocol, report.call, Given, wire', lastField', lastFieldId', Under(todo) \o <<Advanced>>)
    BY <1>4, <1>6, <1>7, <1>9
<1>11. booleanField' = {} /\ lastField' \in Seq(Int) /\ lastFieldId' \in Int
    BY <1>2, <1>6 DEF EmitInv, EmitTypes
<1> QED
    BY <1>1, <1>6, <1>10, <1>11, StillWorks

\* The end of a struct.
LEMMA WriteEndInv == ASSUME EmitInv, WriteEnd PROVE EmitInv'
<1>1. todo # <<>> /\ Current.call = "struct" /\ Then(<<>>)
    BY DEF WriteEnd, Comes
<1>2. booleanField = {}
    BY <1>1, NothingWaits
<1>3. PICK x, V, e, S : Opens(protocol, report.call, Given, wire, lastField, lastFieldId, todo, x, V, e, S)
    BY <1>1, <1>2, AtWork
<1>4. x.call = "struct" /\ x.next = Len(Fields[x.of]) + 2
    BY <1>1, <1>3 DEF Opens, Current, WriteEnd
<1>5. wire \in Seq(Int) /\ lastField \in Seq(Int) /\ lastFieldId \in Int
    BY DEF EmitInv, EmitTypes
<1>6. PICK lf2, last2 : lf2 = lastField' /\ last2 = lastFieldId'
    OBVIOUS
<1>7. /\ wire' = wire /\ booleanField' = {}
      /\ protocol = "compact" => lf2 = Under(lastField) /\ last2 = lastField[Len(lastField)]
      /\ protocol # "compact" => lf2 = lastField /\ last2 = lastFieldId
    <2>1. CASE protocol = "compact"
        <3>1. WriteStructEnd
            BY <2>1 DEF WriteEnd, Writes
        <3> QED
            BY <1>2, <1>6, <2>1, <3>1 DEF WriteStructEnd, Under
    <2>2. CASE protocol # "compact"
        <3>1. Put(<<>>)
            BY <2>2 DEF WriteEnd, Writes
        <3>2. wire \o <<>> = wire
            BY <1>5, ConcatEmptySeq
        <3> QED
            BY <1>2, <1>6, <2>2, <3>1, <3>2 DEF Put
    <2> QED
        BY <2>1, <2>2
<1>8. protocol = "compact" => lf2 = Under(lastField) /\ last2 = lastField[Len(lastField)]
    BY <1>7
<1>9. /\ Busy(protocol, report.call, Given, wire, lf2, last2, Under(todo) \o <<>>)
      /\ protocol = "compact" => lf2 \in Seq(Int) /\ last2 \in Int
    BY <1>3, <1>4, <1>5, <1>8, StructEndBusy
<1>10. lf2 \in Seq(Int) /\ last2 \in Int
    BY <1>5, <1>7, <1>9
<1> QED
    BY <1>1, <1>5, <1>6, <1>7, <1>9, <1>10, StillWorks

\* The start of a struct.
LEMMA BeginIs ==
    ASSUME EmitInv, Writes(WriteStructBegin, <<>>)
    PROVE  /\ wire' = wire /\ booleanField' = booleanField
           /\ lastField' \in Seq(Int) /\ lastFieldId' \in Int
           /\ protocol = "compact" => lastField' = Append(lastField, lastFieldId) /\ lastFieldId' = 0
<1>1. wire \in Seq(Int) /\ lastField \in Seq(Int) /\ lastFieldId \in Int
    BY DEF EmitInv, EmitTypes
<1>2. CASE protocol = "compact"
    <2>1. WriteStructBegin
        BY <1>2 DEF Writes
    <2>2. Append(lastField, lastFieldId) \in Seq(Int)
        BY <1>1, UnderAppended
    <2> QED
        BY <2>1, <2>2 DEF WriteStructBegin
<1>3. CASE protocol # "compact"
    <2>1. Put(<<>>)
        BY <1>3 DEF Writes
    <2>2. wire \o <<>> = wire
        BY <1>1, ConcatEmptySeq
    <2> QED
        BY <1>1, <1>3, <2>1, <2>2 DEF Put
<1> QED
    BY <1>2, <1>3

\* The next element of a list, or its end.
LEMMA WriteElementInv == ASSUME EmitInv, WriteElement PROVE EmitInv'
<1>1. todo # <<>> /\ Current.call = "list"
    BY DEF WriteElement, Comes
<1>2. booleanField = {}
    BY <1>1, NothingWaits
<1>3. PICK x, V, e, S : Opens(protocol, report.call, Given, wire, lastField, lastFieldId, todo, x, V, e, S)
    BY <1>1, <1>2, AtWork
<1>4. x.call = "list" /\ x = Current /\ Advanced = Further(x)
    BY <1>1, <1>3 DEF Opens, Current, Further, Advanced
<1>5. wire \in Seq(Int) /\ lastField \in Seq(Int) /\ lastFieldId \in Int
    BY DEF EmitInv, EmitTypes
<1>6. CASE /\ x.next \in DOMAIN x.value /\ Writes(WriteStructBegin, <<>>)
           /\ Then(<<Further(x), Struct(x.of, x.value[x.next])>>)
    <2>1. PICK lf2, last2 : lf2 = lastField' /\ last2 = lastFieldId'
        OBVIOUS
    <2>2. /\ wire' = wire /\ booleanField' = {} /\ lf2 \in Seq(Int) /\ last2 \in Int
          /\ protocol = "compact" => lf2 = Append(lastField, lastFieldId) /\ last2 = 0
        BY <1>2, <1>6, <2>1, BeginIs
    <2>3. protocol = "compact" => lf2 = Append(lastField, lastFieldId) /\ last2 = 0
        BY <2>2
    <2>4. PICK items : items = <<Further(x), Struct(x.of, x.value[x.next])>>
        OBVIOUS
    <2>5. Busy(protocol, report.call, Given, wire, lf2, last2, Under(todo) \o items)
        BY <1>3, <1>4, <1>5, <1>6, <2>3, <2>4, ElementBusy
    <2>6. Then(items)
        BY <1>6, <2>4
    <2> QED
        BY <1>5, <2>1, <2>2, <2>5, <2>6, StillWorks
<1>7. CASE x.next \notin DOMAIN x.value /\ UNCHANGED writer /\ Then(<<>>)
    <2>1. Busy(protocol, report.call, Given, wire, lastField, lastFieldId, Under(todo) \o <<>>)
        BY <1>3, <1>4, <1>5, <1>7, ListEndBusy
    <2>2. /\ wire' = wire /\ lastField' = lastField /\ lastFieldId' = lastFieldId
          /\ booleanField' = {}
        BY <1>2, <1>7 DEF writer
    <2> QED
        BY <1>5, <1>7, <2>1, <2>2, StillWorks
<1>8. \/ /\ x.next \in DOMAIN x.value /\ Writes(WriteStructBegin, <<>>)
         /\ Then(<<Further(x), Struct(x.of, x.value[x.next])>>)
      \/ x.next \notin DOMAIN x.value /\ UNCHANGED writer /\ Then(<<>>)
    BY <1>4 DEF WriteElement
<1> QED
    BY <1>6, <1>7, <1>8

\* A field.
LEMMA WriteFieldInv == ASSUME EmitInv, WriteField PROVE EmitInv'
<1>1. todo # <<>> /\ Current.call = "struct"
    BY DEF WriteField, Comes
<1>2. booleanField = {}
    BY <1>1, NothingWaits
<1>3. PICK x, V, e, S : Opens(protocol, report.call, Given, wire, lastField, lastFieldId, todo, x, V, e, S)
    BY <1>1, <1>2, AtWork
<1>4. x.call = "struct" /\ x = Current /\ Advanced = Further(x) /\ x.next \in DOMAIN Fields[x.of]
    BY <1>1, <1>3 DEF Opens, Current, Further, Advanced, WriteField
<1>5. wire \in Seq(Int) /\ lastField \in Seq(Int) /\ lastFieldId \in Int
    BY DEF EmitInv, EmitTypes
<1>6. PICK f : f = Fields[x.of][x.next]
    OBVIOUS
<1>7. FrameOk(x) /\ S[Len(S)] \in Int /\ (protocol = "compact" => S[Len(S)] = lastFieldId)
    BY <1>3 DEF Opens
<1>8. f.id \in Int /\ f.id \in 1..12 /\ f.type \in TypesInUse
    BY <1>4, <1>6, <1>7, FieldOpens
<1>9. PICK items : items = <<Further(x), Value(f.type, f.of, x.value[f.id])>>
    OBVIOUS
<1>10. \/ /\ IsSet(x.of, x.value, x.next)
          /\ Writes(WriteFieldBegin(f.type, f.id), Binary!FieldHeader(f.type, f.id))
          /\ Then(items)
       \/ ~IsSet(x.of, x.value, x.next) /\ UNCHANGED writer /\ Then(<<Further(x)>>)
    BY <1>4, <1>6, <1>9 DEF WriteField
<1>11. CASE ~IsSet(x.of, x.value, x.next) /\ UNCHANGED writer /\ Then(<<Further(x)>>)
    <2>1. Busy(protocol, report.call, Given, wire, lastField, lastFieldId, Under(todo) \o <<Further(x)>>)
        BY <1>3, <1>4, <1>5, <1>11, SkippedBusy
    <2>2. /\ wire' = wire /\ lastField' = lastField /\ lastFieldId' = lastFieldId
          /\ booleanField' = {}
        BY <1>2, <1>11 DEF writer
    <2> QED
        BY <1>5, <1>11, <2>1, <2>2, StillWorks
<1>12. ASSUME IsSet(x.of, x.value, x.next), Then(items), booleanField' = booleanField,
              NEW h, NEW c, HeaderGood(protocol, h, S[Len(S)], f.type, c, f.id),
              f.type = "BOOL" => c = 0, Joins(wire', wire, h), lastField' = lastField,
              lastFieldId' \in Int, protocol = "compact" => lastFieldId' = f.id
       PROVE  EmitInv'
    <2>1. PICK w2, last2 : w2 = wire' /\ last2 = lastFieldId'
        OBVIOUS
    <2>2. Joins(w2, wire, h)
        BY <1>12, <2>1
    <2>3. protocol = "compact" => last2 = f.id
        BY <1>12, <2>1
    <2>4. Busy(protocol, report.call, Given, w2, lastField, last2,
               Under(todo) \o <<Further(x), Value(f.type, f.of, x.value[f.id])>>)
        <3>1. x.call = "struct" /\ x.next \in DOMAIN Fields[x.of]
            BY <1>4
        <3>2. IsField(x.of, x.next, f, f.id)
            BY <1>6, <1>8 DEF IsField
        <3>3. IsSet(x.of, x.value, x.next) /\ HeaderGood(protocol, h, S[Len(S)], f.type, c, f.id)
            BY <1>12
        <3>4. f.type = "BOOL" => c = 0
            BY <1>12
        <3> QED
            BY <1>3, <1>5, <2>2, <2>3, <3>1, <3>2, <3>3, <3>4, FieldBusy
    <2>5. Busy(protocol, report.call, Given, wire', lastField', lastFieldId', Under(todo) \o items)
        BY <1>9, <1>12, <2>1, <2>4
    <2>6. h \in Seq(Int)
        BY <1>12 DEF HeaderGood
    <2>7. wire' \in Seq(Int)
        BY <1>5, <1>12, <2>6, JoinedTwo
    <2>8. booleanField' = {} /\ lastField' \in Seq(Int)
        BY <1>2, <1>5, <1>12
    <2> QED
        BY <1>12, <2>5, <2>7, <2>8, StillWorks
<1>13. CASE /\ IsSet(x.of, x.value, x.next) /\ Then(items)
            /\ protocol = "binary" /\ protocol # "compact" /\ Put(Binary!FieldHeader(f.type, f.id))
    <2>1. PICK h : h = Binary!FieldHeader(f.type, f.id)
        OBVIOUS
    <2>2. HeaderGood(protocol, h, S[Len(S)], f.type, 0, f.id)
        BY <1>7, <1>8, <1>13, <2>1, HeadersAreGood
    <2>3. h \in Seq(Int)
        BY <2>2 DEF HeaderGood
    <2>4. /\ Joins(wire', wire, h) /\ lastField' = lastField /\ lastFieldId' = lastFieldId
          /\ booleanField' = booleanField
        BY <1>5, <1>13, <2>1, <2>3, PutIs
    <2>5. lastFieldId' \in Int
        BY <1>5, <2>4
    <2> QED
        BY <1>12, <1>13, <2>2, <2>4, <2>5
<1>14. CASE /\ IsSet(x.of, x.value, x.next) /\ Then(items)
            /\ protocol = "compact" /\ f.type # "BOOL" /\ PutField(CType[f.type], f.id)
            /\ UNCHANGED booleanField
    <2>1. PICK h : h = FieldHeader(CType[f.type], f.id, lastFieldId)
        OBVIOUS
    <2>2. HeaderGood(protocol, h, S[Len(S)], f.type, CType[f.type], f.id)
        <3>1. HeaderGood("compact", FieldHeader(CType[f.type], f.id, lastFieldId), lastFieldId, f.type,
                         CType[f.type], f.id)
            BY <1>5, <1>8, <1>14, HeadersAreGood
        <3> QED
            BY <1>7, <1>14, <2>1, <3>1
    <2>3. /\ Joins(wire', wire, h) /\ lastField' = lastField /\ lastFieldId' = f.id
          /\ booleanField' = booleanField
        BY <1>14, <2>1 DEF PutField, Joins
    <2>4. lastFieldId' \in Int
        BY <1>8, <2>3
    <2>5. f.type = "BOOL" => CType[f.type] = 0
        BY <1>14
    <2> QED
        BY <1>12, <1>14, <2>2, <2>3, <2>4, <2>5
<1>15. CASE /\ IsSet(x.of, x.value, x.next) /\ Then(items)
            /\ protocol = "compact" /\ f.type = "BOOL" /\ booleanField' = {f.id}
            /\ UNCHANGED <<wire, lastField, lastFieldId>>
    <2>1. Opens("compact", report.call, Given, wire, lastField, lastFieldId, todo, x, V, e, S)
        BY <1>3, <1>15
    <2>2. Awaits("compact", report.call, Given, wire, lastField, lastFieldId,
                 Under(todo) \o <<Further(x), Value(f.type, f.of, x.value[f.id])>>, f.id)
        BY <1>4, <1>5, <1>6, <1>15, <2>1, BoolAwaits
    <2>3. /\ todo' = Under(todo) \o items /\ protocol' = protocol /\ report' = report
          /\ datagram' = datagram /\ wire' = wire /\ lastField' = lastField
          /\ lastFieldId' = lastFieldId
        BY <1>15 DEF Then, Below, Under
    <2>4. WaitsFor(f.id)'
        BY <1>9, <1>15, <2>2, <2>3 DEF WaitsFor, Given
    <2>5. EmitTypes' /\ DatagramGood'
        BY <2>3 DEF EmitInv, EmitTypes, DatagramGood, Given
    <2> QED
        BY <2>4, <2>5 DEF EmitInv
<1>16. ASSUME IsSet(x.of, x.value, x.next), Then(items),
              Writes(WriteFieldBegin(f.type, f.id), Binary!FieldHeader(f.type, f.id))
       PROVE  EmitInv'
    <2>1. \/ protocol = "compact" /\ WriteFieldBegin(f.type, f.id)
          \/ protocol = "binary" /\ protocol # "compact" /\ Put(Binary!FieldHeader(f.type, f.id))
        BY <1>16 DEF Writes
    <2> QED
        BY <1>13, <1>14, <1>15, <1>16, <2>1 DEF WriteFieldBegin
<1> QED
    BY <1>10, <1>11, <1>16

\* What is written for a scalar, and for the start of a list.
LEMMA EncodedGood ==
    ASSUME NEW type \in TypesInUse, type \notin Nested, NEW v, Held(type, v)
    PROVE  /\ type \in Scalar
           /\ ScalarIsGood("compact", type, v, Encoded(type, v))
           /\ ScalarIsGood("binary", type, v, Binary!Encoded(type, v))
<1>1. type \in ScalarTypes /\ type \in Scalar
    BY DEF TypesInUse, Nested, ScalarTypes, Scalar, Types, Collection
<1>2. Carried(type, v)
    BY <1>1, HeldIsCarried DEF ScalarTypes
<1>3. ScalarIsGood("compact", type, v, Encoded(type, v))
    BY <1>1, <1>2, CompactScalar
<1>4. ScalarIsGood("binary", type, v, Binary!Encoded(type, v))
    BY <1>1, BinaryScalar DEF ScalarTypes
<1> QED
    BY <1>1, <1>3, <1>4

\* The size of a list.
LEMMA CollectionGood ==
    ASSUME NEW v, IsList(v)
    PROVE  /\ CollectionIsGood("compact", CollectionHeader("STRUCT", Len(v)), Len(v))
           /\ CollectionIsGood("binary", Binary!CollectionHeader("STRUCT", Len(v)), Len(v))
<1>1. PICK n \in Nat : n = Len(v) /\ SizeFits(n)
    BY DEF IsList, SizeFits
<1>2. Short(n)
    BY <1>1, SizeIsShort
<1> QED
    BY <1>1, <1>2, CompactCollection, BinaryCollection

\* A value.
LEMMA WriteValueInv == ASSUME EmitInv, WriteValue, booleanField = {} PROVE EmitInv'
<1>1. todo # <<>> /\ Current.call = "value"
    BY DEF WriteValue, Comes
<1>2. PICK x, V, e, S : Opens(protocol, report.call, Given, wire, lastField, lastFieldId, todo, x, V, e, S)
    BY <1>1, AtWork
<1>3. x.call = "value" /\ x = Current
    BY <1>1, <1>2 DEF Opens, Current
<1>4. x.call = "value" /\ x.call # "struct"
    BY <1>3
<1>5. wire \in Seq(Int) /\ lastField \in Seq(Int) /\ lastFieldId \in Int
    BY DEF EmitInv, EmitTypes
<1>6. FrameOk(x) /\ x.type \in TypesInUse /\ ProperIn(x, x.value)
    BY <1>2, <1>4 DEF Opens, FrameOk
<1>7. CASE x.type = "STRUCT" /\ Writes(WriteStructBegin, <<>>) /\ Then(<<Struct(x.of, x.value)>>)
    <2>1. PICK lf2, last2 : lf2 = lastField' /\ last2 = lastFieldId'
        OBVIOUS
    <2>2. /\ wire' = wire /\ booleanField' = {} /\ lf2 \in Seq(Int) /\ last2 \in Int
          /\ protocol = "compact" => lf2 = Append(lastField, lastFieldId) /\ last2 = 0
        BY <1>7, <2>1, BeginIs
    <2>3. protocol = "compact" => lf2 = Append(lastField, lastFieldId) /\ last2 = 0
        BY <2>2
    <2>4. Busy(protocol, report.call, Given, wire, lf2, last2, Under(todo) \o <<Struct(x.of, x.value)>>)
        BY <1>2, <1>4, <1>5, <1>7, <2>3, StructBusy
    <2> QED
        BY <1>5, <1>7, <2>1, <2>2, <2>4, StillWorks
<1>8. CASE /\ x.type = "LIST" /\ Then(<<List(x.of, x.value)>>)
           /\ Writes(WriteCollectionBegin("STRUCT", Len(x.value)), Binary!CollectionHeader("STRUCT", Len(x.value)))
    <2>1. IsList(x.value)
        BY <1>6, <1>8 DEF ProperIn, Fit
    <2>2. PICK h \in Seq(Int) : CollectionIsGood(protocol, h, Len(x.value)) /\ Put(h)
        <3>1. CASE protocol = "compact"
            <4>1. PICK h : h = CollectionHeader("STRUCT", Len(x.value))
                OBVIOUS
            <4>2. CollectionIsGood("compact", h, Len(x.value))
                BY <2>1, <4>1, CollectionGood
            <4>3. Put(h)
                BY <1>8, <3>1, <4>1 DEF Writes, WriteCollectionBegin
            <4> QED
                BY <3>1, <4>2, <4>3 DEF CollectionIsGood
        <3>2. CASE protocol # "compact"
            <4>1. PICK h : h = Binary!CollectionHeader("STRUCT", Len(x.value))
                OBVIOUS
            <4>2. CollectionIsGood("binary", h, Len(x.value))
                BY <2>1, <4>1, CollectionGood
            <4>3. protocol = "binary" /\ Put(h)
                BY <1>8, <3>2, <4>1 DEF Writes
            <4> QED
                BY <4>2, <4>3 DEF CollectionIsGood
        <3> QED
            BY <3>1, <3>2
    <2>3. /\ wire' \in Seq(Int) /\ Joins(wire', wire, h)
          /\ lastField' = lastField /\ lastFieldId' = lastFieldId /\ booleanField' = {}
        BY <1>5, <2>2, PutIs
    <2>4. PICK w2 : w2 = wire' /\ Joins(w2, wire, h)
        BY <2>3
    <2>5. Joins(w2, wire, h) /\ CollectionIsGood(protocol, h, Len(x.value))
        BY <2>2, <2>4
    <2>6. Busy(protocol, report.call, Given, w2, lastField, lastFieldId, Under(todo) \o <<List(x.of, x.value)>>)
        BY <1>2, <1>4, <1>5, <1>8, <2>5, ListBusy
    <2> QED
        BY <1>5, <1>8, <2>3, <2>4, <2>6, StillWorks
<1>9. CASE /\ x.type \in Scalar /\ Then(<<>>)
           /\ Writes(WriteScalar(x.type, x.value), Binary!Encoded(x.type, x.value))
    <2>1. x.type \notin Nested
        BY <1>9 DEF Nested, Scalar, Collection
    <2>2. Held(x.type, x.value)
        BY <1>6, <2>1 DEF ProperIn, Fit, Nested
    <2>3. /\ ScalarIsGood("compact", x.type, x.value, Encoded(x.type, x.value))
          /\ ScalarIsGood("binary", x.type, x.value, Binary!Encoded(x.type, x.value))
        BY <1>6, <2>1, <2>2, EncodedGood
    <2>4. PICK h \in Seq(Int) : ScalarIsGood(protocol, x.type, x.value, h) /\ Put(h)
        <3>1. CASE protocol = "compact"
            <4>1. PICK h : h = Encoded(x.type, x.value)
                OBVIOUS
            <4>2. Put(h)
                BY <1>9, <3>1, <4>1 DEF Writes, WriteScalar, WriteBool
            <4> QED
                BY <2>3, <3>1, <4>1, <4>2 DEF ScalarIsGood
        <3>2. CASE protocol # "compact"
            <4>1. PICK h : h = Binary!Encoded(x.type, x.value)
                OBVIOUS
            <4>2. protocol = "binary" /\ Put(h)
                BY <1>9, <3>2, <4>1 DEF Writes
            <4> QED
                BY <2>3, <4>1, <4>2 DEF ScalarIsGood
        <3> QED
            BY <3>1, <3>2
    <2>5. /\ wire' \in Seq(Int) /\ Joins(wire', wire, h)
          /\ lastField' = lastField /\ lastFieldId' = lastFieldId /\ booleanField' = {}
        BY <1>5, <2>4, PutIs
    <2>6. PICK w2 : w2 = wire' /\ Joins(w2, wire, h)
        BY <2>5
    <2>7. FrameGood(protocol, report.call, x, S[Len(S)], h)
        BY <1>4, <2>1, <2>4 DEF FrameGood, PartGood, Nested
    <2>8. Joins(w2, wire, h)
        BY <2>6
    <2>9. Busy(protocol, report.call, Given, w2, lastField, lastFieldId, Under(todo) \o <<>>)
        BY <1>2, <1>4, <1>5, <2>7, <2>8, WrittenBusy
    <2> QED
        BY <1>5, <1>9, <2>5, <2>6, <2>9, StillWorks
<1>10. WriteValue
       => \/ x.type = "STRUCT" /\ Writes(WriteStructBegin, <<>>) /\ Then(<<Struct(x.of, x.value)>>)
          \/ /\ x.type = "LIST" /\ Then(<<List(x.of, x.value)>>)
             /\ Writes(WriteCollectionBegin("STRUCT", Len(x.value)),
                       Binary!CollectionHeader("STRUCT", Len(x.value)))
          \/ /\ x.type \in Scalar /\ Then(<<>>)
             /\ Writes(WriteScalar(x.type, x.value), Binary!Encoded(x.type, x.value))
    BY <1>3 DEF WriteValue
<1> QED
    BY <1>7, <1>8, <1>9, <1>10

\* The value of a boolean field, with its header.
LEMMA WriteBooleanInv == ASSUME EmitInv, WriteValue, booleanField # {} PROVE EmitInv'
<1>1. todo # <<>>
    BY DEF WriteValue, Comes
<1>2. PICK id : WaitsFor(id)
    BY <1>1, NothingWaits
<1>3. /\ Current.call = "value" /\ Current.type = "BOOL" /\ protocol = "compact" /\ id \in Int
      /\ booleanField = {id}
      /\ FieldHeader(BoolCode(Current.value), id, lastFieldId) \in Seq(Int)
      /\ \A w2 : Joins(w2, wire, FieldHeader(BoolCode(Current.value), id, lastFieldId))
                   => Busy(protocol, report.call, Given, w2, lastField, id, Under(todo) \o <<>>)
    BY <1>2 DEF WaitsFor, Awaits, Current
<1>4. wire \in Seq(Int) /\ lastField \in Seq(Int) /\ lastFieldId \in Int
    BY DEF EmitInv, EmitTypes
<1>5. Then(<<>>) /\ WriteBool(Current.value)
    BY <1>3 DEF WriteValue, Writes, WriteScalar
<1>6. /\ wire' = wire \o FieldHeader(BoolCode(Current.value), id, lastFieldId)
      /\ lastFieldId' = id /\ lastField' = lastField /\ booleanField' = {}
    BY <1>3, <1>5 DEF WriteBool, PutField
<1>7. wire' \in Seq(Int)
    BY <1>3, <1>4, <1>6, ConcatProperties
<1>8. Busy(protocol, report.call, Given, wire', lastField', lastFieldId', Under(todo) \o <<>>)
    <2>1. Joins(wire', wire, FieldHeader(BoolCode(Current.value), id, lastFieldId))
        BY <1>6 DEF Joins
    <2> QED
        BY <1>3, <1>6, <2>1
<1> QED
    BY <1>3, <1>4, <1>5, <1>6, <1>7, <1>8, StillWorks

\* Every step keeps the invariant.
LEMMA EmitNextInv == EmitInv /\ [EmitNext]_emitVars => EmitInv'
<1> SUFFICES ASSUME EmitInv, [EmitNext]_emitVars PROVE EmitInv'
    OBVIOUS
<1>1. CASE \E r \in Reports[protocol] : EmitBatch(r)
    BY <1>1, EmitBatchInv
<1>2. CASE WriteMessage
    BY <1>2, WriteMessageInv
<1>3. CASE WriteField
    BY <1>3, WriteFieldInv
<1>4. CASE WriteValue
    BY <1>4, WriteValueInv, WriteBooleanInv
<1>5. CASE WriteElement
    BY <1>5, WriteElementInv
<1>6. CASE WriteStop
    BY <1>6, WriteStopInv
<1>7. CASE WriteEnd
    BY <1>7, WriteEndInv
<1>8. CASE TakeBuffer
    BY <1>8, TakeBufferInv
<1>9. CASE UNCHANGED emitVars
    BY <1>9 DEF emitVars, writer, EmitInv, EmitTypes, DatagramGood, Given, Idle, Works, WaitsFor
<1> QED
    BY <1>1, <1>2, <1>3, <1>4, <1>5, <1>6, <1>7, <1>8, <1>9 DEF EmitNext

\* It always holds.
THEOREM EmitInvariant == EmitSpec => []EmitInv
<1>1. EmitInit => EmitInv
    BY EmitInitInv
<1>2. EmitInv /\ [EmitNext]_emitVars => EmitInv'
    BY EmitNextInv
<1> QED
    BY <1>1, <1>2, PTL DEF EmitSpec

\* What an agent finds in the bytes.
LEMMA ReceivedIs ==
    ASSUME NEW unknown, NEW b
    PROVE  ReceivedIn(b, unknown) = ReadIn(protocol, report.call, unknown, b)
BY DEF ReceivedIn, ReadIn

\* Every agent, whatever fields it does not know, reads the whole datagram and finds in it
\* what the call was given, without those fields: for every report, agent and protocol.
THEOREM AgentsRead == EmitSpec => []AgentReads
<1>1. EmitInv => AgentReads
    <2> SUFFICES ASSUME EmitInv, datagram # <<>>, NEW unknown \in Agents
                 PROVE  Received(unknown) = {Visible(ArgsOf[report.call], unknown, Args(protocol, report))}
        BY DEF AgentReads
    <2>1. CallGood(protocol, report.call, Args(protocol, report), datagram)
        BY DEF EmitInv, DatagramGood, Given
    <2>2. Is(ReadIn(protocol, report.call, unknown, datagram),
             Visible(ArgsOf[report.call], unknown, Args(protocol, report)))
        BY <2>1 DEF CallGood
    <2>3. ReceivedIn(datagram, unknown) = ReadIn(protocol, report.call, unknown, datagram)
        BY ReceivedIs
    <2> QED
        BY <2>2, <2>3 DEF Received, Is
<1> QED
    BY <1>1, EmitInvariant, PTL

-----------------------------------------------------------------------------
(* What an agent of today finds. *)

\* Structs with less than k levels of structs in them are the same to an agent that knows
\* all fields.
Whole(k) ==
    \A of \in DOMAIN Fields : \A v : Rank[of] < k /\ Proper(of, v) => Visible(of, {}, v) = v

\* So are structs with one level more.
LEMMA WholeDeeper ==
    ASSUME NEW k \in Nat, Whole(k)
    PROVE  Whole(k + 1)
<1> SUFFICES ASSUME NEW of \in DOMAIN Fields, NEW v, Rank[of] < k + 1, Proper(of, v)
             PROVE  Visible(of, {}, v) = v
    BY DEF Whole
<1>1. /\ Complete(of, v)
      /\ \A i \in DOMAIN Fields[of] :
            Fields[of][i].id \in DOMAIN v => ProperIn(Fields[of][i], v[Fields[of][i].id])
    BY ProperDef
<1>2. Kept(of, {}, v) = DOMAIN v
    BY <1>1 DEF Complete, Kept
<1>3. ASSUME NEW id \in DOMAIN v PROVE VisibleIn(FieldOf(of, id), {}, v[id]) = v[id]
    <2>1. PICK i \in DOMAIN Fields[of] : Fields[of][i].id = id
        BY <1>1 DEF Complete, IdsOf
    <2>2. PICK f : f = Fields[of][i]
        OBVIOUS
    <2>3. FieldOf(of, id) = f
        BY <2>1, <2>2, FieldOfIs
    <2>4. FieldOk(of, f)
        BY <2>2, StructsOk DEF StructOk
    <2>5. ProperIn(f, v[id])
        BY <1>1, <2>1, <2>2
    <2>6. \A y : f.type \in Nested /\ Proper(f.of, y) => Visible(f.of, {}, y) = y
        <3>1. f.type \in Nested => f.of \in DOMAIN Fields /\ Rank[f.of] < k
            <4>1. \A o \in DOMAIN Fields : Rank[o] \in 0..4
                BY StructsOk DEF StructOk
            <4> QED
                BY <2>4, <4>1 DEF FieldOk
        <3> QED
            BY <3>1 DEF Whole
    <2>7. PICK x : x = v[id]
        OBVIOUS
    <2>8. CASE f.type = "STRUCT"
        <3>1. Proper(f.of, x)
            BY <2>5, <2>7, <2>8 DEF ProperIn, Fit
        <3>2. VisibleIn(f, {}, x) = Visible(f.of, {}, x)
            BY <2>8 DEF VisibleIn, Left
        <3> QED
            BY <2>3, <2>6, <2>7, <2>8, <3>1, <3>2 DEF Nested
    <2>9. CASE f.type = "LIST"
        <3>1. IsList(x) /\ \A j \in DOMAIN x : Proper(f.of, x[j])
            BY <2>5, <2>7, <2>9 DEF ProperIn, Fit
        <3>2. VisibleIn(f, {}, x) = [j \in DOMAIN x |-> Visible(f.of, {}, x[j])]
            BY <2>9 DEF VisibleIn, Left
        <3>3. \A j \in DOMAIN x : Visible(f.of, {}, x[j]) = x[j]
            BY <2>6, <2>9, <3>1 DEF Nested
        <3>4. x = [j \in DOMAIN x |-> x[j]]
            BY <3>1 DEF IsList
        <3>5. VisibleIn(f, {}, x) = x
            BY <3>2, <3>3, <3>4
        <3> QED
            BY <2>3, <2>7, <3>5
    <2>10. CASE f.type # "STRUCT" /\ f.type # "LIST"
        <3>1. VisibleIn(f, {}, x) = x
            BY <2>10 DEF VisibleIn, Left
        <3> QED
            BY <2>3, <2>7, <3>1
    <2> QED
        BY <2>8, <2>9, <2>10
<1>4. Visible(of, {}, v) = [id \in Kept(of, {}, v) |-> VisibleIn(FieldOf(of, id), {}, v[id])]
    BY VisibleDef
<1>5. Visible(of, {}, v) = [id \in DOMAIN v |-> v[id]]
    BY <1>2, <1>3, <1>4
<1> QED
    BY <1>1, <1>5 DEF Complete

\* To an agent that knows all fields every struct is as it was written.
LEMMA VisibleWhole ==
    ASSUME NEW of \in DOMAIN Fields, NEW v, Proper(of, v)
    PROVE  Visible(of, {}, v) = v
<1>1. Rank[of] \in 0..4
    BY StructsOk DEF StructOk
<1>2. Whole(0)
    <2>1. \A o \in DOMAIN Fields : Rank[o] \in 0..4
        BY StructsOk DEF StructOk
    <2> QED
        BY <2>1 DEF Whole
<1>3. Whole(0 + 1)
    BY <1>2, WholeDeeper
<1>4. Whole(1 + 1)
    BY <1>3, WholeDeeper
<1>5. Whole(2 + 1)
    BY <1>4, WholeDeeper
<1>6. Whole(3 + 1)
    BY <1>5, WholeDeeper
<1>7. Whole(4 + 1)
    BY <1>6, WholeDeeper
<1> QED
    BY <1>1, <1>7 DEF Whole

\* It finds the batch that was made from the report, and no other.
LEMMA BatchFound ==
    ASSUME EmitInv, datagram # <<>>, report.call = "emitBatch"
    PROVE  Batches = {Batch(protocol, report)}
<1>1. PICK args : args = Args(protocol, report)
    OBVIOUS
<1>2. ArgsOf[report.call] \in DOMAIN Fields /\ Proper(ArgsOf[report.call], args)
    <2>1. protocol \in DOMAIN Reports /\ report \in Reports[protocol]
        BY DEF EmitInv, EmitTypes
    <2>2. Proper(ArgsOf[report.call], Args(protocol, report))
        BY <2>1, GivenOk
    <2>3. ArgsOf["emitBatch"] \in DOMAIN Fields
        BY DEF ArgsOf, Fields
    <2> QED
        BY <1>1, <2>2, <2>3
<1>3. Visible(ArgsOf[report.call], {}, args) = args
    BY <1>2, VisibleWhole
<1>4. Is(ReadIn(protocol, report.call, {}, datagram), Visible(ArgsOf[report.call], {}, args))
    <2>1. CallGood(protocol, report.call, args, datagram)
        BY <1>1 DEF EmitInv, DatagramGood, Given
    <2> QED
        BY <2>1 DEF CallGood
<1>5. Received({}) = {args}
    <2>1. ReceivedIn(datagram, {}) = ReadIn(protocol, report.call, {}, datagram)
        BY ReceivedIs
    <2> QED
        BY <1>3, <1>4, <2>1 DEF Received, Is
<1>6. args[1] = Batch(protocol, report)
    BY <1>1 DEF Args
<1> QED
    BY <1>5, <1>6 DEF Batches

-----------------------------------------------------------------------------
(* The spans that are reported. *)

\* Those of the first n spans.
Reported(spans, n) == {i \in 1..n : spans[i].context.flags % 4 # 0}

Keep(spans, n, kept) == IF Reportable(spans[n].context.flags) THEN Append(kept, spans[n]) ELSE kept

\* What the loop over the spans keeps, after each of them.
Loop(spans) ==
    CHOOSE f : f = [n \in 0..Len(spans) |-> IF n = 0 THEN <<>> ELSE Keep(spans, n, f[n - 1])]

\* The loop starts with nothing and looks at each span.
LEMMA LoopIs ==
    ASSUME NEW spans, IsList(spans)
    PROVE  /\ ToReport(spans) = Loop(spans)[Len(spans)]
           /\ Loop(spans)[0] = <<>>
           /\ \A n \in 1..Len(spans) : Loop(spans)[n] = Keep(spans, n, Loop(spans)[n - 1])
<1>1. PICK m \in Nat : m = Len(spans) /\ DOMAIN spans = 1..m
    BY DEF IsList
<1> DEFINE X == {spans[i] : i \in 1..m}
           S == Seq(X)
           a == [n \in Nat |-> <<>>]
           More(n, q) == IF n \in 1..m THEN Keep(spans, n, q) ELSE q
           Mores(n) == [q \in S |-> More(n, q)]
           h == [n \in Nat |-> Mores(n)]
           g == [n \in Nat |-> IF n = 0 THEN 0 ELSE n - 1]
           Def(f) == [n \in 0..m |-> IF n = 0 THEN <<>> ELSE Keep(spans, n, f[n - 1])]
<1>2. a \in [Nat -> S]
    <2>1. <<>> \in S
        BY EmptySeq
    <2> HIDE DEF S
    <2> QED
        BY <2>1
<1>3. h \in [Nat -> [S -> S]]
    <2>1. ASSUME NEW n \in Nat, NEW q \in S PROVE More(n, q) \in S
        <3>1. CASE n \in 1..m
            <4>1. spans[n] \in X
                BY <3>1
            <4>2. Append(q, spans[n]) \in Seq(X)
                BY <4>1, AppendProperties
            <4> QED
                BY <3>1, <4>2 DEF Keep
        <3> QED
            BY <3>1
    <2> HIDE DEF S, More
    <2>2. \A n \in Nat : Mores(n) \in [S -> S]
        BY <2>1
    <2> HIDE DEF Mores
    <2> QED
        BY <2>2
<1>4. PICK w \in [Nat -> S] : Recurs(w, 1, a, h, g)
    <2>1. Recursion(S, 1, a, h, g)
        BY <1>2, <1>3 DEF Recursion
    <2> HIDE DEF S, a, h, g
    <2> QED
        BY <2>1, FunctionExists
<1>5. w[0] = <<>> /\ \A n \in 1..m : w[n] = Keep(spans, n, w[n - 1])
    <2>1. \A n \in Nat : w[n] = IF n < 1 THEN a[n] ELSE h[n][w[g[n]]]
        <3> HIDE DEF a, h, g
        <3> QED
            BY <1>4 DEF Recurs
    <2>2. w[0] = <<>>
        <3>1. a[0] = <<>> /\ 0 \in Nat /\ 0 < 1
            OBVIOUS
        <3> HIDE DEF a, h, g, S
        <3> QED
            BY <2>1, <3>1
    <2>3. ASSUME NEW n \in 1..m PROVE w[n] = Keep(spans, n, w[n - 1])
        <3>1. n \in Nat /\ n - 1 \in Nat /\ g[n] = n - 1 /\ ~(n < 1)
            BY <1>1
        <3>2. w[n - 1] \in S
            BY <1>4, <3>1
        <3>3. PICK q \in S : q = w[n - 1]
            BY <3>2
        <3>4. w[n] = h[n][q]
            BY <2>1, <3>1, <3>3
        <3>5. h[n][q] = Keep(spans, n, q)
            BY <3>1
        <3> QED
            BY <3>3, <3>4, <3>5
    <2> QED
        BY <2>2, <2>3
<1> HIDE DEF S, a, h, g, X
<1>6. PICK f : f = [n \in 0..m |-> w[n]]
    OBVIOUS
<1>7. f = Def(f)
    <2>1. ASSUME NEW n \in 0..m PROVE f[n] = IF n = 0 THEN <<>> ELSE Keep(spans, n, f[n - 1])
        <3>1. CASE n = 0
            BY <1>5, <1>6, <3>1
        <3>2. CASE n # 0
            <4>1. n \in 1..m /\ n - 1 \in 0..m
                BY <1>1, <3>2
            <4>2. f[n] = w[n] /\ f[n - 1] = w[n - 1]
                BY <1>6, <4>1
            <4> QED
                BY <1>5, <3>2, <4>1, <4>2
        <3> QED
            BY <3>1, <3>2
    <2> QED
        BY <1>6, <2>1
<1>8. Loop(spans) = Def(Loop(spans))
    <2>1. Loop(spans) = CHOOSE e : e = Def(e)
        BY <1>1 DEF Loop
    <2> HIDE DEF Def
    <2> QED
        BY <1>7, <2>1
<1>9. ToReport(spans) = Loop(spans)[Len(spans)]
    BY DEF ToReport, Loop, Keep
<1> QED
    BY <1>1, <1>8, <1>9

\* One more span is reported, or none.
LEMMA ReportedNext ==
    ASSUME NEW spans, NEW n \in Nat \ {0}
    PROVE  /\ IsFiniteSet(Reported(spans, n)) /\ Cardinality(Reported(spans, n)) \in Nat
           /\ Reportable(spans[n].context.flags)
                  => Cardinality(Reported(spans, n)) = Cardinality(Reported(spans, n - 1)) + 1
           /\ ~Reportable(spans[n].context.flags) => Reported(spans, n) = Reported(spans, n - 1)
<1>1. \A k \in Nat : IsFiniteSet(Reported(spans, k)) /\ Cardinality(Reported(spans, k)) \in Nat
    <2> TAKE k \in Nat
    <2>1. IsFiniteSet(1..k)
        BY FS_Interval
    <2>2. Reported(spans, k) \subseteq 1..k
        BY DEF Reported
    <2>3. IsFiniteSet(Reported(spans, k))
        BY <2>1, <2>2, FS_Subset
    <2> QED
        BY <2>3, FS_CardinalityType
<1>2. n \notin Reported(spans, n - 1) /\ n - 1 \in Nat
    BY DEF Reported
<1>3. CASE Reportable(spans[n].context.flags)
    <2>1. Reported(spans, n) = Reported(spans, n - 1) \union {n}
        BY <1>3 DEF Reported, Reportable
    <2>2. Cardinality(Reported(spans, n - 1) \union {n}) = Cardinality(Reported(spans, n - 1)) + 1
        BY <1>1, <1>2, FS_AddElement
    <2> QED
        BY <1>1, <1>3, <2>1, <2>2
<1>4. CASE ~Reportable(spans[n].context.flags)
    <2>1. Reported(spans, n) = Reported(spans, n - 1)
        BY <1>4 DEF Reported, Reportable
    <2> QED
        BY <1>1, <1>4, <2>1
<1> QED
    BY <1>3, <1>4

\* After n spans, those that are reported, each at the place their number gives it.
Collected(spans, n) ==
    LET kept == Loop(spans)[n]
    IN /\ kept \in Seq({spans[i] : i \in DOMAIN spans})
       /\ Len(kept) = Cardinality(Reported(spans, n))
       /\ \A i \in Reported(spans, n) :
             /\ Cardinality(Reported(spans, i)) \in 1..Len(kept)
             /\ kept[Cardinality(Reported(spans, i))] = spans[i]

\* The loop collects them.
LEMMA CollectedNext ==
    ASSUME NEW spans, IsList(spans), NEW n \in 1..Len(spans), Collected(spans, n - 1)
    PROVE  Collected(spans, n)
<1>1. Len(spans) \in Nat /\ DOMAIN spans = 1..Len(spans) /\ n \in Nat \ {0}
    BY DEF IsList
<1> DEFINE X == {spans[i] : i \in DOMAIN spans}
<1>2. PICK k : k = Loop(spans)[n - 1]
    OBVIOUS
<1>3. /\ k \in Seq(X) /\ Len(k) = Cardinality(Reported(spans, n - 1)) /\ Len(k) \in Nat
      /\ \A i \in Reported(spans, n - 1) :
            /\ Cardinality(Reported(spans, i)) \in 1..Len(k)
            /\ k[Cardinality(Reported(spans, i))] = spans[i]
    <2>1. k \in Seq(X)
        BY <1>2 DEF Collected
    <2>2. Len(k) \in Nat
        BY <2>1, LenProperties
    <2> HIDE DEF X
    <2> QED
        BY <1>2, <2>1, <2>2 DEF Collected
<1>4. spans[n] \in X
    BY <1>1
<1>5. /\ Reportable(spans[n].context.flags)
             => Cardinality(Reported(spans, n)) = Cardinality(Reported(spans, n - 1)) + 1
      /\ ~Reportable(spans[n].context.flags) => Reported(spans, n) = Reported(spans, n - 1)
    BY <1>1, ReportedNext
<1>6. Loop(spans)[n] = Keep(spans, n, k)
    BY <1>2, LoopIs
<1> HIDE DEF X
<1>7. PICK e : e = Loop(spans)[n]
    OBVIOUS
<1>8. CASE Reportable(spans[n].context.flags)
    <2>1. e = Append(k, spans[n])
        BY <1>6, <1>7, <1>8 DEF Keep
    <2>2. /\ e \in Seq(X) /\ Len(e) = Len(k) + 1 /\ e[Len(k) + 1] = spans[n]
          /\ \A j \in 1..Len(k) : e[j] = k[j]
        BY <1>3, <1>4, <2>1, AppendProperties
    <2>3. Len(e) = Cardinality(Reported(spans, n))
        BY <1>3, <1>5, <1>8, <2>2
    <2>4. ASSUME NEW i \in Reported(spans, n)
          PROVE  /\ Cardinality(Reported(spans, i)) \in 1..Len(e)
                 /\ e[Cardinality(Reported(spans, i))] = spans[i]
        <3>1. CASE i = n
            BY <1>3, <2>2, <2>3, <3>1
        <3>2. CASE i # n
            <4>1. i \in Reported(spans, n - 1)
                BY <1>1, <3>2 DEF Reported
            <4>2. Cardinality(Reported(spans, i)) \in 1..Len(k)
                BY <1>3, <4>1
            <4>3. Cardinality(Reported(spans, i)) \in 1..Len(e)
                BY <1>3, <2>2, <4>2
            <4>4. e[Cardinality(Reported(spans, i))] = k[Cardinality(Reported(spans, i))]
                BY <2>2, <4>2
            <4> QED
                BY <1>3, <4>1, <4>3, <4>4
        <3> QED
            BY <3>1, <3>2
    <2> QED
        BY <1>7, <2>2, <2>3, <2>4 DEF Collected, X
<1>9. CASE ~Reportable(spans[n].context.flags)
    <2>1. e = k
        BY <1>6, <1>7, <1>9 DEF Keep
    <2>2. Reported(spans, n) = Reported(spans, n - 1)
        BY <1>5, <1>9
    <2> QED
        BY <1>3, <1>7, <2>1, <2>2 DEF Collected, X
<1> QED
    BY <1>8, <1>9

\* What is reported, whatever is stored: the sampled spans in their order.
LEMMA ToReportIs ==
    ASSUME NEW spans, IsList(spans)
    PROVE  /\ DOMAIN ToReport(spans) = 1..Cardinality(Reported(spans, Len(spans)))
           /\ \A i \in Reported(spans, Len(spans)) :
                 /\ Cardinality(Reported(spans, i)) \in DOMAIN ToReport(spans)
                 /\ ToReport(spans)[Cardinality(Reported(spans, i))] = spans[i]
<1>1. PICK m \in Nat : m = Len(spans)
    BY DEF IsList
<1>2. Collected(spans, 0)
    <2>1. Reported(spans, 0) = {}
        BY DEF Reported
    <2>2. Loop(spans)[0] = <<>>
        BY LoopIs
    <2>3. <<>> \in Seq({spans[i] : i \in DOMAIN spans}) /\ Len(<<>>) = 0
        BY EmptySeq
    <2>4. Cardinality({}) = 0
        BY FS_EmptySet
    <2> QED
        BY <2>1, <2>2, <2>3, <2>4 DEF Collected
<1> DEFINE T == {n \in 0..m : ~Collected(spans, n)}
<1>3. ASSUME T # {} PROVE FALSE
    <2>1. T \in SUBSET Nat
        OBVIOUS
    <2>2. PICK n \in T : \A y \in T : n <= y
        <3> HIDE DEF T
        <3> QED
            BY <1>3, <2>1, LeastNumber
    <2>3. n \in 0..m /\ ~Collected(spans, n) /\ n # 0
        BY <1>2
    <2>4. n \in 1..Len(spans) /\ n - 1 \in 0..m /\ ~(n <= n - 1)
        BY <1>1, <2>3
    <2>5. Collected(spans, n - 1)
        BY <2>2, <2>4
    <2> QED
        BY <2>3, <2>4, <2>5, CollectedNext
<1>4. Collected(spans, m)
    BY <1>1, <1>3
<1>5. PICK e : e = ToReport(spans)
    OBVIOUS
<1>6. e = Loop(spans)[m]
    BY <1>1, <1>5, LoopIs
<1> DEFINE X == {spans[i] : i \in DOMAIN spans}
<1>7. e \in Seq(X) /\ Len(e) = Cardinality(Reported(spans, m))
    BY <1>4, <1>6 DEF Collected
<1>8. DOMAIN e = 1..Len(e)
    BY <1>7, LenProperties
<1>9. \A i \in Reported(spans, m) :
         /\ Cardinality(Reported(spans, i)) \in 1..Len(e)
         /\ e[Cardinality(Reported(spans, i))] = spans[i]
    BY <1>4, <1>6 DEF Collected
<1> QED
    BY <1>1, <1>5, <1>7, <1>8, <1>9

\* What the agent makes of a tag is the tag that was stored.
LEMMA MeaningIs ==
    ASSUME NEW tag, StoredTag(tag)
    PROVE  Meaning(JaegerTag(tag)) = {tag}
<1>1. tag.type \in {"STRING", "DOUBLE", "BOOL"}
    BY DEF StoredTag, ValueField
<1>2. PICK t : t = JaegerTag(tag)
    OBVIOUS
<1>3. PICK id \in {3, 4, 5} : id = ValueField[tag.type] /\ TagType[tag.type] = id - 3
    BY <1>1 DEF ValueField, TagType
<1>4. t = [i \in {1, 2, id} |->
              CASE i = 1 -> tag.key [] i = 2 -> <<TagType[tag.type]>> [] OTHER -> tag.value]
    BY <1>2, <1>3 DEF JaegerTag
<1>5. DOMAIN t = {1, 2, id} /\ t[1] = tag.key /\ t[2] = <<TagType[tag.type]>> /\ t[id] = tag.value
    BY <1>4
<1>6. \A type \in DOMAIN TagType : <<TagType[type]>> = t[2] <=> type = tag.type
    <2>1. \A x, y : <<x>> = <<y>> <=> x = y
        OBVIOUS
    <2>2. \A type \in DOMAIN TagType : TagType[type] = TagType[tag.type] <=> type = tag.type
        BY <1>1 DEF TagType
    <2> QED
        BY <1>5, <2>1, <2>2
<1>7. tag.type \in DOMAIN TagType /\ TagType[tag.type] + 3 = id
    BY <1>1, <1>3 DEF TagType
<1>8. {type \in DOMAIN TagType : <<TagType[type]>> = t[2] /\ TagType[type] + 3 \in DOMAIN t} = {tag.type}
    BY <1>5, <1>6, <1>7
<1>9. Meaning(t) = {[key |-> t[1], type |-> type, value |-> t[TagType[type] + 3]] : type \in {tag.type}}
    BY <1>8 DEF Meaning
<1>10. Meaning(t) = {[key |-> tag.key, type |-> tag.type, value |-> tag.value]}
    BY <1>5, <1>7, <1>9
<1>11. tag = [key |-> tag.key, type |-> tag.type, value |-> tag.value]
    BY DEF StoredTag
<1> QED
    BY <1>2, <1>10, <1>11

\* The agent finds the tags of a span, whatever is sent of its logs.
LEMMA TagsOfSpan ==
    ASSUME NEW span, Stored(span), NEW spanId, NEW startTime, NEW now, NEW logs
    PROVE  TagsFound(SpanStruct(span, spanId, startTime, now, logs))
               = [j \in DOMAIN span.tags |-> {span.tags[j]}]
<1>1. PICK s : s = SpanStruct(span, spanId, startTime, now, logs)
    OBVIOUS
<1>2. PICK tags : tags = span.tags
    OBVIOUS
<1>3. IsList(tags) /\ \A j \in DOMAIN tags : StoredTag(tags[j])
    BY <1>2 DEF Stored
<1>4. DOMAIN s = 1..5 \union 7..9 \union Optional(span)
    BY <1>1 DEF SpanStruct
<1>5. CASE tags = <<>>
    <2>1. 10 \notin DOMAIN s
        BY <1>2, <1>4, <1>5 DEF Optional
    <2>2. TagsFound(s) = <<>>
        BY <2>1 DEF TagsFound
    <2>3. DOMAIN tags = {}
        BY <1>5
    <2>4. [j \in DOMAIN tags |-> {tags[j]}] = <<>>
        BY <2>3
    <2> QED
        BY <1>1, <1>2, <2>2, <2>4
<1>6. CASE tags # <<>>
    <2>1. 10 \in DOMAIN s
        BY <1>2, <1>4, <1>6 DEF Optional
    <2>2. s[10] = JaegerTags(tags)
        BY <1>1, <1>2, <1>4, <2>1 DEF SpanStruct
    <2>3. s[10] = [j \in DOMAIN tags |-> JaegerTag(tags[j])]
        BY <2>2 DEF JaegerTags
    <2>4. TagsFound(s) = [j \in DOMAIN s[10] |-> Meaning(s[10][j])]
        BY <2>1 DEF TagsFound
    <2>5. \A j \in DOMAIN tags : Meaning(JaegerTag(tags[j])) = {tags[j]}
        BY <1>3, MeaningIs
    <2>6. TagsFound(s) = [j \in DOMAIN tags |-> {tags[j]}]
        BY <2>3, <2>4, <2>5
    <2> QED
        BY <1>1, <1>2, <2>6
<1> QED
    BY <1>5, <1>6

\* The tags of all reported spans are in a batch, in the order of the spans.
TagsIn(spans, list) ==
    LET sampled == Reported(spans, Len(spans))
    IN /\ DOMAIN list = 1..Cardinality(sampled)
       /\ \A i \in sampled : TagsFound(list[Cardinality(Reported(spans, i))])
                          = [j \in DOMAIN spans[i].tags |-> {spans[i].tags[j]}]

\* So it is with all spans of a tracer.
LEMMA TagsOfTracer ==
    ASSUME NEW spans, IsList(spans), \A i \in DOMAIN spans : Stored(spans[i]), NEW process, NEW now
    PROVE  TagsIn(spans, WholeBatch(process, spans, now)[2])
<1>1. PICK m \in Nat : m = Len(spans) /\ DOMAIN spans = 1..m
    BY DEF IsList
<1>2. PICK all : all = ToReport(spans)
    OBVIOUS
<1>3. PICK list : list = [i \in DOMAIN all |-> WholeSpan(all[i], now)]
    OBVIOUS
<1>4. WholeBatch(process, spans, now)[2] = list
    BY <1>2, <1>3 DEF WholeBatch
<1>5. /\ DOMAIN all = 1..Cardinality(Reported(spans, m))
      /\ \A i \in Reported(spans, m) :
            /\ Cardinality(Reported(spans, i)) \in DOMAIN all
            /\ all[Cardinality(Reported(spans, i))] = spans[i]
    BY <1>1, <1>2, ToReportIs
<1>6. ASSUME NEW i \in Reported(spans, m)
      PROVE  TagsFound(list[Cardinality(Reported(spans, i))])
                 = [j \in DOMAIN spans[i].tags |-> {spans[i].tags[j]}]
    <2>1. PICK span : span = spans[i]
        OBVIOUS
    <2>2. i \in DOMAIN spans
        BY <1>1 DEF Reported
    <2>3. Stored(span)
        BY <2>1, <2>2
    <2>4. list[Cardinality(Reported(spans, i))] = WholeSpan(span, now)
        BY <1>3, <1>5, <2>1
    <2>5. TagsFound(WholeSpan(span, now)) = [j \in DOMAIN span.tags |-> {span.tags[j]}]
        <3>1. \A a, b, c, d : TagsFound(SpanStruct(span, a, b, c, d)) = [j \in DOMAIN span.tags |-> {span.tags[j]}]
            BY <2>3, TagsOfSpan
        <3> QED
            BY <3>1 DEF WholeSpan
    <2> QED
        BY <2>1, <2>4, <2>5
<1>7. DOMAIN list = 1..Cardinality(Reported(spans, m))
    BY <1>3, <1>5
<1> QED
    BY <1>1, <1>4, <1>6, <1>7 DEF TagsIn

\* And with one span and some of its logs.
LEMMA TagsOfOne ==
    ASSUME NEW spans, IsList(spans), Len(spans) = 1, Stored(spans[1]), NEW process, NEW ask
    PROVE  TagsIn(spans, JaegerBatch(process, spans[1], ask)[2])
<1>1. PICK span : span = spans[1]
    OBVIOUS
<1>2. PICK list : list = IF Reportable(span.context.flags) THEN <<JaegerSpan(span, ask)>> ELSE <<>>
    OBVIOUS
<1>3. JaegerBatch(process, spans[1], ask)[2] = list
    BY <1>1, <1>2 DEF JaegerBatch
<1>4. Cardinality({}) = 0 /\ Cardinality({1}) = 1
    BY FS_EmptySet, FS_Singleton
<1>5. CASE Reportable(span.context.flags)
    <2>1. Reported(spans, 1) = {1}
        BY <1>1, <1>5 DEF Reported, Reportable
    <2>2. DOMAIN list = 1..1 /\ list[1] = JaegerSpan(span, ask)
        BY <1>2, <1>5
    <2>3. TagsFound(JaegerSpan(span, ask)) = [j \in DOMAIN span.tags |-> {span.tags[j]}]
        <3>1. \A a, b, c, d : TagsFound(SpanStruct(span, a, b, c, d)) = [j \in DOMAIN span.tags |-> {span.tags[j]}]
            BY <1>1, TagsOfSpan
        <3> QED
            <4>1. \E a, b, c, d : JaegerSpan(span, ask) = SpanStruct(span, a, b, c, d)
                BY Zenon DEF JaegerSpan
            <4> QED
                BY <3>1, <4>1
    <2>4. DOMAIN list = 1..Cardinality(Reported(spans, 1))
        BY <1>4, <2>1, <2>2
    <2>5. \A i \in Reported(spans, 1) : TagsFound(list[Cardinality(Reported(spans, i))])
                                        = [j \in DOMAIN spans[i].tags |-> {spans[i].tags[j]}]
        <3>1. \A i \in Reported(spans, 1) : i = 1 /\ Cardinality(Reported(spans, i)) = 1 /\ spans[i] = span
            BY <1>1, <1>4, <2>1
        <3> QED
            BY <2>2, <2>3, <3>1
    <2> QED
        BY <1>3, <2>4, <2>5 DEF TagsIn
<1>6. CASE ~Reportable(span.context.flags)
    <2>1. Reported(spans, 1) = {}
        BY <1>1, <1>6 DEF Reported, Reportable
    <2>2. DOMAIN list = 1..0
        BY <1>2, <1>6
    <2> QED
        BY <1>3, <1>4, <2>1, <2>2 DEF TagsIn
<1> QED
    BY <1>5, <1>6

\* Every agent of today finds the spans that are sampled or debugged, in their order, each
\* with the tags that were added to it: for every report and both protocols.
THEOREM TagsAreFound == EmitSpec => []TagsSurvive
<1>1. EmitInv => TagsSurvive
    <2> SUFFICES ASSUME EmitInv, datagram # <<>>, report.call = "emitBatch", NEW batch \in Batches
                 PROVE  LET spans == report.spans
                            sampled == {i \in DOMAIN spans : spans[i].context.flags % 4 # 0}
                            place(i) == Cardinality({j \in sampled : j <= i})
                        IN /\ DOMAIN batch[2] = 1..Cardinality(sampled)
                           /\ \A i \in sampled : TagsFound(batch[2][place(i)])
                                              = [j \in DOMAIN spans[i].tags |-> {spans[i].tags[j]}]
        BY DEF TagsSurvive
    <2>1. batch = Batch(protocol, report)
        BY BatchFound
    <2> DEFINE spans == report.spans
    <2>3. /\ IsList(spans) /\ \A i \in DOMAIN spans : Stored(spans[i])
          /\ protocol \in {"compact", "binary"} /\ (protocol = "compact" => Len(spans) = 1)
        <3>1. protocol \in DOMAIN Reports /\ report \in Reports[protocol]
            BY DEF EmitInv, EmitTypes
        <3> QED
            BY <3>1, SpansAssumption, ReportsAssumption DEF SpansAssumption, ReportsAssumption
    <2>4. Len(spans) \in Nat /\ DOMAIN spans = 1..Len(spans)
        BY <2>3 DEF IsList
    <2>5. TagsIn(spans, batch[2])
        <3>1. CASE protocol = "compact"
            <4>1. batch = JaegerBatch(report.process, spans[1], report.ask)
                BY <2>1, <3>1 DEF Batch
            <4>2. Len(spans) = 1 /\ Stored(spans[1])
                BY <2>3, <2>4, <3>1
            <4> QED
                BY <2>3, <4>1, <4>2, TagsOfOne
        <3>2. CASE protocol = "binary"
            <4>1. batch = WholeBatch(report.process, spans, report.now)
                BY <2>1, <3>2 DEF Batch
            <4> QED
                BY <2>3, <4>1, TagsOfTracer
        <3> QED
            BY <2>3, <3>1, <3>2
    <2> DEFINE sampled == {i \in DOMAIN spans : spans[i].context.flags % 4 # 0}
    <2>6. sampled = Reported(spans, Len(spans))
        BY <2>4 DEF Reported
    <2>7. \A i \in sampled : {j \in sampled : j <= i} = Reported(spans, i)
        BY <2>4 DEF Reported
    <2> HIDE DEF sampled
    <2>8. DOMAIN batch[2] = 1..Cardinality(sampled)
        BY <2>5, <2>6 DEF TagsIn
    <2>9. \A i \in sampled : TagsFound(batch[2][Cardinality({j \in sampled : j <= i})])
                          = [j \in DOMAIN spans[i].tags |-> {spans[i].tags[j]}]
        BY <2>5, <2>6, <2>7 DEF TagsIn
    <2> QED
        BY <2>8, <2>9 DEF sampled
<1> QED
    BY <1>1, EmitInvariant, PTL

-----------------------------------------------------------------------------
(* The notes about the parts of a span. *)

Note(text, time) == [timestamp |-> time, fields |-> Info(text)]

\* The agent finds the text of a note, and its time.
LEMMA NoteSays ==
    ASSUME NEW text, NEW time
    PROVE  /\ JaegerLog(Note(text, time))[1][1] = time
           /\ Says(JaegerLog(Note(text, time)), text, time)
<1>1. PICK tag : tag = [key |-> <<105>>, type |-> "STRING", value |-> text]
    OBVIOUS
<1>2. PICK n : n = JaegerLog(Note(text, time))
    OBVIOUS
<1>3. StoredTag(tag) /\ tag.value = text
    BY <1>1 DEF StoredTag, ValueField
<1>4. Note(text, time).timestamp = time /\ Note(text, time).fields = <<tag>>
    BY <1>1 DEF Note, Info
<1>5. n = <<<<time>>, JaegerTags(<<tag>>)>>
    BY <1>2, <1>4 DEF JaegerLog
<1>6. JaegerTags(<<tag>>)[1] = JaegerTag(tag)
    BY DEF JaegerTags
<1>7. n[1] = <<time>> /\ n[1][1] = time /\ n[2][1] = JaegerTag(tag)
    BY <1>5, <1>6
<1>8. Meaning(n[2][1]) = {tag}
    BY <1>3, <1>7, MeaningIs
<1> QED
    BY <1>2, <1>3, <1>7, <1>8 DEF Says

\* In a part of a span there is a note before all its logs, and one in the place of a log
\* that is left out.
LEMMA NotesIn ==
    ASSUME NEW span, Stored(span), NEW ask, Asked(span, ask), IsPart(span, ask), ask.count # 0
    PROVE  LET logs == Logs(span, ask)
               time == span.logs[ask.start + 1].timestamp
           IN /\ \E j \in DOMAIN logs : logs[j] = Note(PartText(ask.part), time - 1)
              /\ ask.badLog => \E j \in DOMAIN logs : logs[j] = Note(OmittedText, time)
<1>1. PICK start \in Nat, count \in Nat : start = ask.start /\ count = ask.count
    BY DEF Asked
<1>2. PICK all : all = span.logs
    OBVIOUS
<1>3. /\ all = [i \in DOMAIN all |-> all[i]] /\ Len(all) \in Nat /\ DOMAIN all = 1..Len(all)
      /\ start + count <= Len(all) /\ start + 1 \in DOMAIN all /\ all[start + 1].timestamp \in Int
    <2>1. IsList(all) /\ start + count <= Len(all) /\ count # 0
        BY <1>1, <1>2 DEF Stored, Asked
    <2>2. start + 1 \in DOMAIN all
        BY <2>1 DEF IsList
    <2> QED
        BY <1>2, <2>1, <2>2 DEF IsList, Stored
<1>4. PICK time \in Int : time = all[start + 1].timestamp
    BY <1>3
<1>5. PICK a : a = Note(PartText(ask.part), time - 1)
    OBVIOUS
<1>6. PICK b : b = Note(OmittedText, time)
    OBVIOUS
<1>7. Notes(span, ask) = <<a>> \o (IF ask.badLog THEN <<b>> ELSE <<>>)
    <2>1. time - 1 + 1 = time
        OBVIOUS
    <2> QED
        BY <1>1, <1>2, <1>4, <1>5, <1>6, <2>1 DEF Notes, Note
<1> DEFINE X == {all[i] : i \in DOMAIN all} \union {a, b}
<1>8. PICK given \in Seq(X) : given = IF ask.badLog THEN <<>> ELSE SubSeq(all, start + 1, start + count)
    <2>1. <<>> \in Seq(X)
        BY EmptySeq
    <2>2. all \in Seq(X)
        <3>1. \A i \in 1..Len(all) : all[i] \in X
            BY <1>3
        <3> HIDE DEF X
        <3>2. [i \in 1..Len(all) |-> all[i]] \in Seq(X)
            BY <1>3, <3>1, IsASeq
        <3> QED
            BY <1>3, <3>2
    <2>3. SubSeq(all, start + 1, start + count) \in Seq(X)
        <3>1. \A i \in (start + 1)..(start + count) : all[i] \in X
            BY <1>3
        <3> HIDE DEF X
        <3> QED
            BY <1>3, <2>2, <3>1, SubSeqProperties
    <2> QED
        BY <2>1, <2>3
<1>9. a \in X /\ b \in X
    OBVIOUS
<1>10. Logs(span, ask) = given \o Notes(span, ask)
    BY <1>1, <1>2, <1>8 DEF Logs, IsPart
<1> HIDE DEF X
<1>11. PICK k \in Nat : k = Len(given)
    BY <1>8, LenProperties
<1>12. PICK logs : logs = Logs(span, ask)
    OBVIOUS
<1>13. CASE ask.badLog
    <2>1. Notes(span, ask) = <<a>> \o <<b>>
        BY <1>7, <1>13
    <2>2. PICK m \in Seq(X) : m = Notes(span, ask) /\ Len(m) = 2 /\ m[1] = a /\ m[2] = b
        <3>1. PICK c, d : c = <<a>> /\ d = <<b>>
            OBVIOUS
        <3>2. /\ c \in Seq(X) /\ Len(c) = 1 /\ c[1] = a
              /\ d \in Seq(X) /\ Len(d) = 1 /\ d[1] = b
            BY <1>9, <3>1
        <3>3. PICK m : m = c \o d
            OBVIOUS
        <3>4. m \in Seq(X) /\ Len(m) = 2 /\ m[1] = a /\ m[2] = b
            BY <3>2, <3>3, ConcatProperties
        <3> QED
            BY <2>1, <3>1, <3>3, <3>4
    <2>3. logs = given \o m
        BY <1>10, <1>12, <2>2
    <2>4. /\ logs \in Seq(X) /\ Len(logs) = k + 2 /\ DOMAIN logs = 1..Len(logs)
          /\ logs[k + 1] = a /\ logs[k + 2] = b
        <3>1. given \in Seq(X) /\ m \in Seq(X) /\ Len(given) = k /\ Len(m) = 2 /\ m[1] = a /\ m[2] = b
            BY <1>8, <1>11, <2>2
        <3>2. /\ given \o m \in Seq(X) /\ Len(given \o m) = k + 2
              /\ (given \o m)[k + 1] = m[1] /\ (given \o m)[k + 2] = m[2]
            <4>1. PICK w : w = given \o m
                OBVIOUS
            <4>2. /\ w \in Seq(X) /\ Len(w) = Len(given) + Len(m)
                  /\ \A i \in 1..(Len(given) + Len(m)) :
                        w[i] = IF i <= Len(given) THEN given[i] ELSE m[i - Len(given)]
                BY <3>1, <4>1, ConcatProperties
            <4>3. k + 1 - k = 1 /\ k + 2 - k = 2 /\ ~(k + 1 <= k) /\ ~(k + 2 <= k)
                BY <1>11
            <4>4. w[k + 1] = m[1] /\ w[k + 2] = m[2] /\ Len(w) = k + 2
                BY <1>11, <3>1, <4>2, <4>3
            <4> QED
                BY <4>1, <4>2, <4>4
        <3>3. DOMAIN logs = 1..Len(logs)
            BY <2>3, <3>2, LenProperties
        <3> QED
            BY <2>3, <3>1, <3>2, <3>3
    <2>5. \E j \in DOMAIN logs : logs[j] = a
        BY <1>11, <2>4
    <2>6. \E j \in DOMAIN logs : logs[j] = b
        BY <1>11, <2>4
    <2> QED
        BY <1>1, <1>2, <1>4, <1>5, <1>6, <1>12, <2>5, <2>6
<1>14. CASE ~ask.badLog
    <2>1. Notes(span, ask) = <<a>> /\ <<a>> \in Seq(X) /\ Len(<<a>>) = 1
        BY <1>7, <1>9, <1>14
    <2>2. PICK m \in Seq(X) : m = <<a>> /\ Len(m) = 1 /\ m[1] = a
        BY <2>1
    <2>3. logs = given \o m
        BY <1>10, <1>12, <2>1, <2>2
    <2>4. logs \in Seq(X) /\ Len(logs) = k + 1 /\ DOMAIN logs = 1..Len(logs) /\ logs[k + 1] = a
        BY <1>8, <1>11, <2>2, <2>3, ConcatProperties, LenProperties
    <2> QED
        BY <1>1, <1>2, <1>4, <1>5, <1>11, <1>12, <1>14, <2>4
<1> QED
    BY <1>13, <1>14

\* In what an agent of today finds, the note about a part comes before all logs of the part,
\* and the note about a log that is left out is at its place: for all spans and all ranges.
THEOREM NotesAreFound == EmitSpec => []NotesComeFirst
<1>1. EmitInv => NotesComeFirst
    <2> DEFINE span == report.spans[1]
               ask == report.ask
    <2> SUFFICES ASSUME EmitInv, datagram # <<>>, report.call = "emitBatch", protocol = "compact",
                        NEW batch \in Batches, NEW s \in Range(batch[2]),
                        NEW i \in DOMAIN span.logs, i \in (ask.start + 1)..(ask.start + ask.count),
                        IsPart(span, ask)
                 PROVE  /\ \E n \in Range(s[11]) : n[1][1] < span.logs[i].timestamp
                                                  /\ Says(n, PartText(ask.part), n[1][1])
                        /\ ask.badLog => \E n \in Range(s[11]) : Says(n, OmittedText, span.logs[i].timestamp)
        BY DEF NotesComeFirst
    <2>1. Stored(span) /\ Asked(span, ask)
        <3>1. protocol \in DOMAIN Reports /\ report \in Reports[protocol]
            BY DEF EmitInv, EmitTypes
        <3>2. IsList(report.spans) /\ Len(report.spans) = 1 /\ Asked(report.spans[1], report.ask)
              /\ \A j \in DOMAIN report.spans : Stored(report.spans[j])
            BY <3>1, SpansAssumption DEF SpansAssumption
        <3> QED
            BY <3>2 DEF IsList
    <2>2. PICK start \in Nat, count \in Nat : start = ask.start /\ count = ask.count
        BY <2>1 DEF Asked
    <2>3. i \in Nat /\ start + 1 <= i /\ i <= start + count /\ count # 0 /\ (ask.badLog => i = start + 1)
        BY <2>1, <2>2 DEF Asked
    <2>4. PICK first \in Int : first = span.logs[start + 1].timestamp
        <3>1. start + 1 \in DOMAIN span.logs
            BY <2>1, <2>2, <2>3, SMTT(60) DEF Asked, Stored, IsList
        <3> QED
            BY <2>1, <3>1 DEF Stored
    <2>5. PICK time \in Int : time = span.logs[i].timestamp /\ first <= time
        <3>1. start + 1 \in DOMAIN span.logs
            BY <2>1, <2>2, <2>3 DEF Asked, Stored, IsList
        <3> QED
            BY <2>1, <2>3, <2>4, <3>1 DEF Stored
    <2>6. PICK logs : logs = Logs(span, ask)
        OBVIOUS
    <2>7. /\ \E j \in DOMAIN logs : logs[j] = Note(PartText(ask.part), first - 1)
          /\ ask.badLog => \E j \in DOMAIN logs : logs[j] = Note(OmittedText, first)
        BY <2>1, <2>2, <2>3, <2>4, <2>6, NotesIn, SMTT(60)
    <2>8. s[11] = [j \in DOMAIN logs |-> JaegerLog(logs[j])]
        <3>1. batch = JaegerBatch(report.process, span, ask)
            <4>1. batch = Batch(protocol, report)
                BY BatchFound
            <4> QED
                BY <4>1 DEF Batch
        <3>2. batch[2] \in {<<JaegerSpan(span, ask)>>, <<>>}
            BY <3>1 DEF JaegerBatch
        <3>3. s = JaegerSpan(span, ask)
            BY <3>2 DEF Range
        <3>4. \E a, b, c : s = SpanStruct(span, a, b, c, logs)
            BY <2>6, <3>3, Zenon DEF JaegerSpan
        <3>5. 11 \in Optional(span)
            BY DEF IsPart, Optional
        <3> QED
            BY <3>4, <3>5 DEF SpanStruct
    <2>9. \A j \in DOMAIN logs : JaegerLog(logs[j]) \in Range(s[11])
        BY <2>8 DEF Range
    <2>10. \E n \in Range(s[11]) : n[1][1] < time /\ Says(n, PartText(ask.part), n[1][1])
        <3>1. PICK j \in DOMAIN logs : logs[j] = Note(PartText(ask.part), first - 1)
            BY <2>7
        <3>2. PICK n : n = JaegerLog(Note(PartText(ask.part), first - 1))
            OBVIOUS
        <3>3. n[1][1] = first - 1 /\ Says(n, PartText(ask.part), first - 1)
            BY <3>2, NoteSays
        <3>4. n \in Range(s[11])
            BY <2>9, <3>1, <3>2
        <3>5. n[1][1] < time
            BY <2>5, <3>3
        <3> QED
            BY <3>3, <3>4, <3>5
    <2>11. ASSUME ask.badLog PROVE \E n \in Range(s[11]) : Says(n, OmittedText, time)
        <3>1. PICK j \in DOMAIN logs : logs[j] = Note(OmittedText, first)
            BY <2>7, <2>11
        <3>2. first = time
            BY <2>2, <2>3, <2>4, <2>5, <2>11
        <3>3. Says(JaegerLog(logs[j]), OmittedText, time)
            BY <3>1, <3>2, NoteSays
        <3> QED
            BY <2>9, <3>3
    <2> QED
        BY <2>5, <2>10, <2>11
<1> QED
    BY <1>1, EmitInvariant, PTL
=============================================================================

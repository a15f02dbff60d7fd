---------------------------- MODULE CompactCode ----------------------------
(***************************************************************************)
(* The bytes of Thrift's compact protocol: small numbers are short, and a  *)
(* field has the difference of its id to the last one.                     *)
(***************************************************************************)
EXTENDS ThriftTypes

\* TTypeToCType, and getTType, which throws for the codes no type has.
CType == [BOOL |-> 1, BYTE |-> 3, I16 |-> 4, I32 |-> 5, I64 |-> 6, DOUBLE |-> 7,
          STRING |-> 8, LIST |-> 9, SET |-> 10, MAP |-> 11, STRUCT |-> 12]
BoolCode(v) == IF v = <<1>> THEN 1 ELSE 2
TypesOf(c) == {t \in Types : CType[t] = c \/ (t = "BOOL" /\ c = BoolCode(<<0>>))}

-----------------------------------------------------------------------------
(* Writing. *)

ZigZag(n) == IF n >= 0 THEN 2 * n ELSE -2 * n - 1

Varint[n \in Nat] ==
    IF n < 128 THEN <<n>> ELSE <<128 + (n % 128)>> \o Varint[n \div 128]

\* The ten bytes readVarint64 takes are enough for the numbers of 64 bits.
Short(n) == Len(Varint[n]) <= 10

\* The values the types of the interface can have.
Carried(type, v) ==
    CASE type \in Integer -> v[1] \in Int /\ v = <<v[1]>> /\ Short(ZigZag(v[1]))
      [] type = "BOOL"    -> v \in {<<0>>, <<1>>}
      [] type = "BYTE"    -> v[1] \in -128..127 /\ v = <<v[1]>>
      [] type = "STRING"  -> v \in Seq(Int) /\ Short(Len(v))
      [] type = "DOUBLE"  -> v \in Seq(Int) /\ Len(v) = 8

Text(bytes) == Varint[Len(bytes)] \o bytes

Encoded(type, v) ==
    CASE type \in Integer  -> Varint[ZigZag(v[1])]
      [] type = "BOOL"     -> <<BoolCode(v)>>
      [] type = "BYTE"     -> <<v[1] % 256>>
      [] type = "STRING"   -> Text(v)
      [] type = "DOUBLE"   -> v

FieldHeaderOf16(code, id, last) ==   \* mutant: deltas up to 16
    IF id > last /\ id - last <= 16 THEN <<(16 * (id - last) + code) % 256>>
    ELSE <<code>> \o Encoded("I16", <<id>>)

FieldHeader(code, id, last) ==
    IF id > last /\ id - last <= 15 THEN <<16 * (id - last) + code>>
    ELSE <<code>> \o Encoded("I16", <<id>>)

CollectionHeaderOf15(type, size) ==   \* mutant: 15 is taken for a small size
    IF size <= 15 THEN <<16 * size + CType[type]>>
    ELSE <<16 * 15 + CType[type]>> \o Varint[size]

CollectionHeader(type, size) ==
    IF size <= 14 THEN <<16 * size + CType[type]>>
    ELSE <<16 * 15 + CType[type]>> \o Varint[size]

MapHeader(key, val, size) ==
    IF size = 0 THEN <<0>> ELSE Varint[size] \o <<16 * CType[key] + CType[val]>>

ProtocolId == 130
Version == 1

MessageHeader(name, type, seqid) ==
    <<ProtocolId, 32 * MessageType[type] + Version>> \o Varint[seqid] \o Text(name)

-----------------------------------------------------------------------------
(* Reading. *)

UnZigZag(u) == IF u % 2 = 0 THEN u \div 2 ELSE -((u + 1) \div 2)

\* The number in the first n bytes, least significant first.
Number(s, n) ==
    LET last[i \in 0..n] == IF i = 0 THEN 0 ELSE (s[n - i + 1] % 128) + 128 * last[i - 1]
    IN last[n]

\* readVarint64: at most ten bytes, the last one below 128.
VarintAt(s) ==
    {[value |-> <<Number(s, n)>>, rest |-> After(s, n)] :
        n \in {k \in 1..Len(s) : k <= 10 /\ s[k] < 128 /\ \A i \in 1..(k - 1) : s[i] >= 128}}

TextAt(s) == UNION {BytesAt(x.rest, x.value[1]) : x \in Sizes(VarintAt(s))}

\* A boolean that is no field; the other booleans are in their field header.
Decoded(type, s) ==
    CASE type \in Integer -> {[x EXCEPT !.value = <<UnZigZag(x.value[1])>>] : x \in VarintAt(s)}
      [] type = "BOOL"    -> {[x EXCEPT !.value = IF x.value = <<1>> THEN <<1>> ELSE <<0>>] :
                                 x \in BytesAt(s, 1)}
      [] type = "BYTE"    -> {[x EXCEPT !.value = IF x.value[1] < 128 THEN x.value
                                                   ELSE <<x.value[1] - 256>>] :
                                 x \in BytesAt(s, 1)}
      [] type = "STRING"  -> TextAt(s)
      [] type = "DOUBLE"  -> BytesAt(s, 8)

\* What readFieldBegin finds: no type is the stop that ends a struct.
FieldAt(s, last) ==
    UNION {LET code == x.value[1] % 16
               delta == x.value[1] \div 16
           IN IF code = 0 THEN {[types |-> {}, code |-> code, id |-> last, rest |-> x.rest]}
              ELSE IF delta # 0
              THEN {[types |-> {t}, code |-> code, id |-> last + delta, rest |-> x.rest] :
                       t \in TypesOf(code)}
              ELSE {[types |-> {t}, code |-> code, id |-> y.value[1], rest |-> y.rest] :
                       t \in TypesOf(code), y \in Decoded("I16", x.rest)} :
           x \in BytesAt(s, 1)}

\* Element types and size of a list or set.
CollectionAt(s) ==
    UNION {LET size == x.value[1] \div 16
           IN {[types |-> <<t>>, size |-> y.value[1], rest |-> y.rest] :
                  t \in TypesOf(x.value[1] % 16),
                  y \in Sizes(IF size = 15 THEN VarintAt(x.rest)
                               ELSE {[value |-> <<size>>, rest |-> x.rest]})} :
           x \in BytesAt(s, 1)}

\* Key and value types and size of a map; an empty one has no types.
MapAt(s) ==
    UNION {IF x.value = <<0>> THEN {[types |-> <<>>, size |-> 0, rest |-> x.rest]}
           ELSE UNION {{[types |-> <<k, v>>, size |-> x.value[1], rest |-> y.rest] :
                           k \in TypesOf(y.value[1] \div 16), v \in TypesOf(y.value[1] % 16)} :
                       y \in BytesAt(x.rest, 1)} :
           x \in Sizes(VarintAt(s))}

MessageAt(s) ==
    UNION {IF h.value[1] # ProtocolId \/ h.value[2] % 32 # Version THEN {}
           ELSE UNION {{[name |-> n.value, seqid |-> q.value[1], type |-> h.value[2] \div 32,
                         rest |-> n.rest] : n \in TextAt(q.rest)} :
                       q \in VarintAt(h.rest)} :
           h \in BytesAt(s, 2)}
=============================================================================

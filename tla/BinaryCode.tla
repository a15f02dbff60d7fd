----------------------------- MODULE BinaryCode -----------------------------
(***************************************************************************)
(* The bytes of Thrift's binary protocol, with the operators' names of     *)
(* CompactCode: numbers have their width and the most significant byte     *)
(* first, a field has its type and its id, and nothing is remembered from  *)
(* one call to the next.                                                   *)
(***************************************************************************)
EXTENDS ThriftTypes

\* The numbers of TType, most of them historical.
Code == [BOOL |-> 2, BYTE |-> 3, DOUBLE |-> 4, I16 |-> 6, I32 |-> 8, I64 |-> 10,
         STRING |-> 11, STRUCT |-> 12, MAP |-> 13, SET |-> 14, LIST |-> 15]

Width == [BYTE |-> 1, I16 |-> 2, I32 |-> 4, I64 |-> 8]

-----------------------------------------------------------------------------
(* Writing. *)

BigEndian(width, n) ==
    LET from[k \in 0..width] == IF k = 0 THEN n ELSE from[k - 1] \div 256
    IN [k \in 1..width |-> from[width - k] % 256]

Turned(bytes) == [i \in DOMAIN bytes |-> bytes[Len(bytes) + 1 - i]]

Encoded(type, v) ==
    CASE type \in DOMAIN Width -> BigEndian(Width[type], v[1])
      [] type = "BOOL"         -> v
      [] type = "STRING"       -> BigEndian(4, Len(v)) \o v
      [] type = "DOUBLE"       -> Turned(v)

FieldHeader(type, id) == <<Code[type]>> \o BigEndian(2, id)

CollectionHeader(type, size) == <<Code[type]>> \o BigEndian(4, size)

Stop == <<0>>

\* strict_write_: VERSION_1 and the type of the message in one number.
Version1 == <<128, 1, 0>>

MessageHeader(name, type, seqid) ==
    Version1 \o <<MessageType[type]>> \o Encoded("STRING", name) \o BigEndian(4, seqid)

-----------------------------------------------------------------------------
(* Reading. *)

\* A number in two's complement.
Signed(bytes) ==
    LET upTo[k \in 1..Len(bytes)] ==
            IF k > 1 THEN 256 * upTo[k - 1] + bytes[k]
            ELSE IF bytes[1] < 128 THEN bytes[1] ELSE bytes[1] - 256
    IN upTo[Len(bytes)]

NumberAt(width, s) == {[x EXCEPT !.value = <<Signed(x.value)>>] : x \in BytesAt(s, width)}

\* readStringBody, which borrows the bytes or copies them.
TextOf(sizes) == UNION {BytesAt(n.rest, n.value[1]) : n \in Sizes(sizes)}

Decoded(type, s) ==
    CASE type \in DOMAIN Width -> NumberAt(Width[type], s)
      [] type = "BOOL"         -> {[x EXCEPT !.value = IF x.value # <<0>> THEN <<1>> ELSE <<0>>] :
                                      x \in BytesAt(s, 1)}
      [] type = "STRING"       -> TextOf(NumberAt(4, s))
      [] type = "DOUBLE"       -> {[x EXCEPT !.value = Turned(x.value)] : x \in BytesAt(s, 8)}

TypesOf(code) == {t \in Types : Code[t] = code}

\* As in CompactCode, but no boolean is in its field header: the code is 0.
FieldAt(s) ==
    UNION {IF x.value = Stop THEN {[types |-> {}, code |-> 0, id |-> 0, rest |-> x.rest]}
           ELSE {[types |-> {t}, code |-> 0, id |-> y.value[1], rest |-> y.rest] :
                    t \in TypesOf(x.value[1]), y \in NumberAt(2, x.rest)} :
           x \in BytesAt(s, 1)}

CollectionAt(s) ==
    UNION {{[types |-> <<t>>, size |-> n.value[1], rest |-> n.rest] :
               t \in TypesOf(x.value[1]), n \in Sizes(NumberAt(4, x.rest))} :
           x \in BytesAt(s, 1)}

\* strict_read_ is false: a message without a version begins with its name.
OldMessageAt(s) ==
    UNION {UNION {{[name |-> n.value, seqid |-> q.value[1], type |-> t.value[1], rest |-> q.rest] :
                      q \in NumberAt(4, t.rest)} : t \in BytesAt(n.rest, 1)} :
           n \in TextOf(NumberAt(4, s))}

NewMessageAt(s) ==
    UNION {{[name |-> n.value, seqid |-> q.value[1], type |-> s[4], rest |-> q.rest] :
               q \in NumberAt(4, n.rest)} :
           n \in TextOf(NumberAt(4, After(s, 4)))}

MessageAt(s) ==
    UNION {IF x.value[1] < 128 THEN OldMessageAt(s)
           ELSE IF SubSeq(x.value, 1, 2) = SubSeq(Version1, 1, 2) THEN NewMessageAt(s)
           ELSE {} :
           x \in BytesAt(s, 4)}
=============================================================================

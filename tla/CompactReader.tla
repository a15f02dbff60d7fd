--------------------------- MODULE CompactReader ---------------------------
(***************************************************************************)
(* TCompactProtocolT as a reader, with a stack of last field ids as the    *)
(* writer has one.  The value of a boolean field is found in the field's   *)
(* header and kept until it is asked for.  An operator stands for one call *)
(* of the class; it is disabled where the call throws.                     *)
(***************************************************************************)
EXTENDS CompactCode

VARIABLES rest,           \* what the transport still has
          rLastField, rLastFieldId,
          boolValue       \* the value of the boolean field that was read ahead

reader == <<rest, rLastField, rLastFieldId, boolValue>>

NewReader(bytes) ==
    rest' = bytes /\ rLastField' = <<>> /\ rLastFieldId' = 0 /\ boolValue' = {}

Get(left) == rest' = left /\ UNCHANGED <<rLastField, rLastFieldId, boolValue>>

ReadMessageBegin(message) == message \in MessageAt(rest) /\ Get(message.rest)

ReadStructBegin ==
    /\ rLastField' = Append(rLastField, rLastFieldId)
    /\ rLastFieldId' = 0
    /\ UNCHANGED <<rest, boolValue>>

ReadStructEnd ==
    /\ rLastFieldId' = rLastField[Len(rLastField)]
    /\ rLastField' = SubSeq(rLastField, 1, Len(rLastField) - 1)
    /\ UNCHANGED <<rest, boolValue>>

ReadFieldBegin(field) ==
    /\ field \in FieldAt(rest, rLastFieldId)
    /\ rest' = field.rest
    /\ rLastFieldId' = field.id
    /\ boolValue' = IF "BOOL" \in field.types
                    THEN {IF field.code = BoolCode(<<1>>) THEN <<1>> ELSE <<0>>} ELSE boolValue
    /\ UNCHANGED rLastField

ReadBool(v) ==
    \/ /\ v \in boolValue
       /\ boolValue' = {}
       /\ UNCHANGED <<rest, rLastField, rLastFieldId>>
    \/ /\ boolValue = {}
       /\ \E x \in Decoded("BOOL", rest) : v = x.value /\ Get(x.rest)

ReadScalar(type, v) ==
    \/ type = "BOOL" /\ ReadBool(v)
    \/ type # "BOOL" /\ \E x \in Decoded(type, rest) : v = x.value /\ Get(x.rest)

\* The values ReadScalar may give; none if it throws.
ScalarsAt(type) ==
    IF type = "BOOL" /\ boolValue # {} THEN boolValue
    ELSE {x.value : x \in Decoded(type, rest)}

ReadCollectionBegin(header) == header \in CollectionAt(rest) /\ Get(header.rest)

ReadMapBegin(header) == header \in MapAt(rest) /\ Get(header.rest)
=============================================================================

--------------------------- MODULE CompactWriter ---------------------------
(***************************************************************************)
(* TCompactProtocolT as a writer: what it remembers between its calls.     *)
(* Field ids are written as differences from the last one of the same      *)
(* struct, so it keeps a stack; a boolean field is written only when its   *)
(* value is known.  An operator stands for one call of the class.          *)
(***************************************************************************)
EXTENDS CompactCode

VARIABLES wire,          \* what the transport was given
          lastField,     \* for each struct around this one, its last field id
          lastFieldId,   \* the last field id of this struct
          booleanField   \* the id of the boolean field that waits for its value

writer == <<wire, lastField, lastFieldId, booleanField>>

NewWriter == wire = <<>> /\ lastField = <<>> /\ lastFieldId = 0 /\ booleanField = {}

Put(bytes) == wire' = wire \o bytes /\ UNCHANGED <<lastField, lastFieldId, booleanField>>

WriteMessageBegin(name, type, seqid) == Put(MessageHeader(name, type, seqid))

WriteStructBegin ==
    /\ lastField' = Append(lastField, lastFieldId)
    /\ lastFieldId' = 0
    /\ UNCHANGED <<wire, booleanField>>

WriteStructEndKeepsStack ==   \* mutant: goes back to the outer id, and does not pop
    /\ lastFieldId' = lastField[Len(lastField)]
    /\ UNCHANGED <<wire, lastField, booleanField>>

WriteStructEndKeepsId ==   \* mutant: pops, and does not go back to the outer id
    /\ lastField' = SubSeq(lastField, 1, Len(lastField) - 1)
    /\ UNCHANGED <<wire, lastFieldId, booleanField>>

WriteStructEnd ==
    /\ lastFieldId' = lastField[Len(lastField)]
    /\ lastField' = SubSeq(lastField, 1, Len(lastField) - 1)
    /\ UNCHANGED <<wire, booleanField>>

PutField(code, id) ==
    /\ wire' = wire \o FieldHeader(code, id, lastFieldId)
    /\ lastFieldId' = id
    /\ UNCHANGED lastField

WriteFieldBegin(type, id) ==
    \/ type = "BOOL" /\ booleanField' = {id} /\ UNCHANGED <<wire, lastField, lastFieldId>>
    \/ type # "BOOL" /\ PutField(CType[type], id) /\ UNCHANGED booleanField

WriteFieldStop == Put(<<0>>)

WriteBool(v) ==
    \/ booleanField = {} /\ Put(Encoded("BOOL", v))
    \/ \E id \in booleanField : PutField(BoolCode(v), id) /\ booleanField' = {}

\* writeByte, writeI16, writeI32, writeI64, writeDouble, writeString, writeBinary, writeBool
WriteScalar(type, v) ==
    \/ type = "BOOL" /\ WriteBool(v)
    \/ type # "BOOL" /\ Put(Encoded(type, v))

WriteCollectionBegin(type, size) == Put(CollectionHeader(type, size))

WriteMapBegin(key, val, size) == Put(MapHeader(key, val, size))
=============================================================================

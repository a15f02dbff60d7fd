---------------------------- MODULE ThriftTypes ----------------------------
(***************************************************************************)
(* What the protocols of Thrift have in common.  Bytes are numbers from 0  *)
(* to 255.  A value is a sequence of integers: the number itself, the      *)
(* bytes of a text, the eight bytes of a double, 1 or 0 for a boolean.  A  *)
(* decoder takes the bytes that are left and gives the set of what it      *)
(* finds at their start; the set is empty where the code throws.           *)
(***************************************************************************)
EXTENDS Integers, Sequences

Bytes == 0..255

Types == {"BOOL", "BYTE", "I16", "I32", "I64", "DOUBLE", "STRING",
          "LIST", "SET", "MAP", "STRUCT"}
Integer == {"I16", "I32", "I64"}
Collection == {"LIST", "SET"}
Scalar == Types \ (Collection \union {"MAP", "STRUCT"})

MessageType == [CALL |-> 1, REPLY |-> 2, EXCEPTION |-> 3, ONEWAY |-> 4]

After(s, n) == SubSeq(s, n + 1, Len(s))

\* readAll
BytesAt(s, n) ==
    IF n <= Len(s) THEN {[value |-> SubSeq(s, 1, n), rest |-> After(s, n)]} ELSE {}

\* A negative size throws.
Sizes(found) == {x \in found : x.value[1] \in Nat}
=============================================================================

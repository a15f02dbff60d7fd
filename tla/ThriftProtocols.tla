--------------------------- MODULE ThriftProtocols ---------------------------
(***************************************************************************)
(* The two protocols a build can use, the compact one in a datagram and    *)
(* the binary one in a frame: the values the C++ types hand to either, and *)
(* what its reader finds at the start of some bytes.                       *)
(***************************************************************************)
EXTENDS CompactCode

Binary == INSTANCE BinaryCode

\* The values of the C++ types, a size being an int32_t.
Int16(n) == n \in Int /\ -32768 <= n /\ n <= 32767
Held(type, v) ==
    CASE type = "I16"    -> v = <<v[1]>> /\ Int16(v[1])
      [] type = "I32"    -> v = <<v[1]>> /\ v[1] \in Int /\ Int16(v[1] \div 65536)
      [] type = "I64"    -> /\ v = <<v[1]>> /\ v[1] \in Int
                            /\ Int16(((v[1] \div 65536) \div 65536) \div 65536)
      [] type = "BOOL"   -> v \in {<<0>>, <<1>>}
      [] type = "STRING" -> v \in Seq(Bytes) /\ Len(v) \div 65536 < 32768
      [] type = "DOUBLE" -> v \in Seq(Bytes) /\ Len(v) = 8

NextField(p, s, last) == IF p = "compact" THEN FieldAt(s, last) ELSE Binary!FieldAt(s)
NextCollection(p, s) == IF p = "compact" THEN CollectionAt(s) ELSE Binary!CollectionAt(s)
NextScalar(p, type, s) == IF p = "compact" THEN Decoded(type, s) ELSE Binary!Decoded(type, s)
NextMessage(p, s) == IF p = "compact" THEN MessageAt(s) ELSE Binary!MessageAt(s)
=============================================================================

--------------------------- MODULE MCMemoryBuffer ---------------------------
(* MemoryBuffer with numbers of three bits and two byte values. *)
EXTENDS MemoryBuffer

MCBytes == {0, 1}

\* A buffer reset to 5 after its maximum was lowered to 3 is larger than its maximum.
MCSizes == {0, 3, 5}
MCMaxima == {3, 6}

\* Nothing, one byte, and more than a buffer of one byte doubled once can take.
MCWrites == {<<>>, <<0>>, <<1, 0, 1>>}
MCLengths == {1, 2, 4}
=============================================================================

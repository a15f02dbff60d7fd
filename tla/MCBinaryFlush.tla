--------------------------- MODULE MCBinaryFlush ---------------------------
(***************************************************************************)
(* Two spans, so that a batch that could not be sent grows before the next *)
(* flush; a frame longer than what the kernel holds, and a frame size the  *)
(* batch of both spans exceeds.                                            *)
(***************************************************************************)
EXTENDS BinaryFlush, FiniteSets

MCSpans       == 1 .. 2
MCPayloadOf   == [b \in SUBSET MCSpans |-> 1 + Cardinality(b)]
MCDescriptors == {3, 4}
MCPieces      == {3}

\* A timeout of 1 ms with one retry: the threshold is 1000 microseconds.
MCRecvTimeouts == {1}
MCWaits        == {500, 1000}
=============================================================================

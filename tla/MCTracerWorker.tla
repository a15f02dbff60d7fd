--------------------------- MODULE MCTracerWorker ---------------------------
(***************************************************************************)
(* Instances of TracerWorker for TLC.                                      *)
(***************************************************************************)
EXTENDS TracerWorker, TLC

CONSTANTS a, b, c

TwoSpans   == {a, b}
ThreeSpans == {a, b, c}

\* The ids are random numbers; nothing tells one from another.  Sound for the
\* invariants and action properties, not used for liveness.
AnyIds == Permutations(ThreeSpans)
=============================================================================

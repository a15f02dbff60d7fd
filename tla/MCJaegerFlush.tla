--------------------------- MODULE MCJaegerFlush ---------------------------
(***************************************************************************)
(* Instances of JaegerFlush for TLC.  A packet holds 12 units, an empty    *)
(* batch costs 1 and a note 2.  A log of 1 is smaller than a note, 5 is    *)
(* about half of a packet, 20 fits none.  A base of 1 is a span with few   *)
(* tags, 8 leaves room for one small log and its note but not for two      *)
(* notes, 20 is a span whose tags alone overflow the packet.               *)
(***************************************************************************)
EXTENDS JaegerFlush, SequencesExt

CONSTANTS s1, s2

OneSpan  == {s1}
TwoSpans == {s1, s2}

BothReporters == {"UdpReporter", "FileReporter"}
UdpOnly       == {"UdpReporter"}

ShapesOf(bases, sizes, number) ==
    [sampled : {TRUE}, base : bases, logs : BoundedSeq(sizes, number)]

Unsampled == [sampled |-> FALSE, base |-> 1, logs |-> <<1, 20>>]

\* Up to three logs, of which two fit a packet, or which fit none.
ShortShapes == ShapesOf({1}, {4, 20}, 3)

\* A span whose tags alone are too large.
HeavyShapes == ShapesOf({20}, {4}, 2)

\* Five logs, so that every share of LogCount differs from its neighbours for
\* some number of logs and a span is cut more than twice; of the logs none or
\* one is larger than the others, or so large that it fits nowhere.
LongShapes ==
    {[sampled |-> TRUE, base |-> base, logs |-> [i \in 1 .. 5 |-> IF i = place THEN size ELSE 1]] :
        base \in {1, 8}, place \in {1, 3, 5}, size \in {1, 5, 20}}

MixedShapes == ShortShapes \cup HeavyShapes \cup LongShapes \cup {Unsampled}

\* Every log fits a packet of its own.
OrdinaryShapes == ShapesOf({1}, {1, 5}, 4)

\* One log, which may be too large.
SingleLogShapes == ShapesOf({1}, {1, 20}, 1)
=============================================================================

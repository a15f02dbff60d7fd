---------------------------- MODULE LogDelivery ----------------------------
(***************************************************************************)
(* What a flush promises about the logs of the spans it was given, without *)
(* saying how they are cut: the logs of a span are reported front to back, *)
(* none twice, a span that is closed is never taken up again, packets      *)
(* leave only when every span is closed, and the spans are forgotten only  *)
(* when every packet was given its chance.                                 *)
(***************************************************************************)
EXTENDS Naturals

CONSTANT Spans

VARIABLES
    size,      \* how many logs each span has
    reported,  \* the logs (by position) of each span that are in a packet
    open,      \* the spans that may still report
    packets,   \* packets made
    emitted,   \* packets given to the network
    stored     \* the spans not forgotten yet

vars == <<size, reported, open, packets, emitted, stored>>

Init ==
    /\ size \in [Spans -> Nat]
    /\ reported = [s \in Spans |-> {}]
    /\ open = Spans
    /\ packets = 0
    /\ emitted = 0
    /\ stored = Spans

\* One more packet: the next logs of an open span, from the first one that was
\* not reported up to "upto"; a packet without logs only for a span that has
\* none.  The span may be closed with it.
Report(s, upto) ==
    /\ s \in open
    /\ upto \in 0..size[s]
    /\ reported' = [reported EXCEPT ![s] = 0..(upto - 1)]
    /\ reported[s] \subseteq reported'[s]
    /\ reported[s] = reported'[s] => size[s] = 0
    /\ packets' = packets + 1
    /\ open' \in {open, open \ {s}}
    /\ UNCHANGED <<size, emitted, stored>>

\* A reporter that sends nothing closes every span unreported.
Skip ==
    /\ open = Spans /\ packets = 0
    /\ open' = {}
    /\ UNCHANGED <<size, reported, packets, emitted, stored>>

Emit ==
    /\ open = {}
    /\ emitted < packets
    /\ emitted' = emitted + 1
    /\ UNCHANGED <<size, reported, open, packets, stored>>

Forget ==
    /\ open = {}
    /\ emitted = packets
    /\ stored' = {}
    /\ UNCHANGED <<size, reported, open, packets, emitted>>

Next ==
    \/ \E s \in Spans : \E upto \in 0..size[s] : Report(s, upto)
    \/ Skip \/ Emit \/ Forget

Spec == Init /\ [][Next]_vars
=============================================================================

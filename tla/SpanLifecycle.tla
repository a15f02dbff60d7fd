--------------------------- MODULE SpanLifecycle ---------------------------
(***************************************************************************)
(* What the extension promises about one span, whatever tracer holds it: a *)
(* span that was started is ended at most once, leaves the tracer once,    *)
(* and is then either reported to the agent or dropped, for good.          *)
(***************************************************************************)
CONSTANT Span

VARIABLE life   \* the stage each span is in

Stages == {"new", "open", "ended", "reported", "dropped"}

Init == life = [s \in Span |-> "new"]

\* Where a span may go from where it is.
After(stage) ==
    CASE stage = "new"   -> {"open"}
      [] stage = "open"  -> {"ended", "reported", "dropped"}
      [] stage = "ended" -> {"reported", "dropped"}
      [] OTHER           -> {}

\* Some spans move on together: a flush takes every span of a tracer, and an
\* external call may flush one tracer and start a span in the next.
Move ==
    /\ life' \in [Span -> Stages]
    /\ \A s \in Span : life'[s] # life[s] => life'[s] \in After(life[s])
    /\ life' # life

Spec == Init /\ [][Move]_life
=============================================================================

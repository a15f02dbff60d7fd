--------------------------- MODULE MCPropagation ---------------------------
(* Propagation with words of two hexadecimal digits. *)
EXTENDS Propagation, TLC

CONSTANTS p, q
TwoProcesses == {p, q}
AnyProcess == Permutations(TwoProcesses)

\* Ids of one and two digits, with letters and with zeros.
MCNewIds == {10, 16, 171}

\* A root with a short trace id, and a span below a root with a long one, whose
\* low word starts with a zero; its flags are those of test/index.php.
MCCallers ==
    {[high |-> 0, low |-> 3, span |-> 3, parent |-> 0, flags |-> 1],
     [high |-> 16, low |-> 10, span |-> 160, parent |-> 10, flags |-> 4]}

\* A payload with a bar of its own, of characters that are not digits; what the
\* first hop leaves of it is one without.
MCPayloads == {<< <<<<20>>>>, <<<<21>>>> >>}

\* One hop, for every context this instance may see.
ASSUME CarriersReadHere == CarriersRead
=============================================================================

----------------------------- MODULE ByteQueue -----------------------------
(***************************************************************************)
(* What a thrift transport in memory promises its protocol: the bytes come *)
(* out once and in the order they went in, and a call that is refused puts *)
(* nothing in.  A reader that asks for more than there is, and insists,    *)
(* loses what there was.                                                   *)
(***************************************************************************)
EXTENDS Naturals, Sequences

CONSTANT Writes   \* what callers write, as sequences of bytes

VARIABLES queue,   \* the bytes that wait
          reply    \* what the last call was given, what it returned or that it threw

Returned(s) == [given |-> <<>>, thrown |-> FALSE, bytes |-> s]
Accepted(s) == [given |-> s, thrown |-> FALSE, bytes |-> <<>>]
Thrown == [given |-> <<>>, thrown |-> TRUE, bytes |-> <<>>]

Init == queue = <<>> /\ reply = Returned(<<>>)

Put(s) == queue' = queue \o s /\ reply' = Accepted(s)

Refuse == queue' = queue /\ reply' = Thrown

Take(n) ==
    /\ reply' = Returned(SubSeq(queue, 1, n))
    /\ queue' = SubSeq(queue, n + 1, Len(queue))

Insist == queue' = <<>> /\ reply' = Thrown

\* A call that only prepares another one.
Wait == queue' = queue /\ reply' = Returned(<<>>)

Look == queue' = queue /\ reply' = Returned(queue)

Clear == queue' = <<>> /\ reply' = Returned(<<>>)

Next ==
    \/ \E s \in Writes : Put(s)
    \/ \E n \in 0..Len(queue) : Take(n)
    \/ Wait \/ Refuse \/ Insist \/ Look \/ Clear

Spec == Init /\ [][Next]_<<queue, reply>>
=============================================================================

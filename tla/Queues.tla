------------------------------- MODULE Queues -------------------------------
(* Queues in which nobody stands twice. *)
EXTENDS Integers, Sequences

Waiting(q) == {q[i] : i \in DOMAIN q}
NoRepeat(q) == \A i, j \in DOMAIN q : q[i] = q[j] => i = j

(* q after r has left it, wherever it stood. *)
Without(q, r) ==
    IF \E i \in DOMAIN q : q[i] = r
    THEN LET place == CHOOSE i \in DOMAIN q : q[i] = r IN
         [i \in 1 .. Len(q) - 1 |-> IF i < place THEN q[i] ELSE q[i + 1]]
    ELSE q
=============================================================================

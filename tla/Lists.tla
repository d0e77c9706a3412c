--------------------------------- MODULE Lists ---------------------------------
(***************************************************************************)
(* What the users of cordyceps' List see of it: a sequence of nodes that   *)
(* are linked once each, from which any node can be unlinked.              *)
(***************************************************************************)
EXTENDS Naturals, Sequences

Elems(q) == {q[i] : i \in DOMAIN q}
Distinct(q) == \A i, j \in DOMAIN q : q[i] = q[j] => i = j

(* List::remove; nothing happens when the node is not linked. *)
Unlink(q, w) ==
  IF \E i \in DOMAIN q : q[i] = w
  THEN LET k == CHOOSE i \in DOMAIN q : q[i] = w
       IN  [i \in 1..(Len(q) - 1) |-> IF i < k THEN q[i] ELSE q[i + 1]]
  ELSE q
=============================================================================

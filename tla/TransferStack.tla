---------------------------- MODULE TransferStack ----------------------------
(***************************************************************************)
(* cordyceps/src/stack.rs: TransferStack, onto which any thread pushes and *)
(* from which a thread takes everything at once, and Stack, the private    *)
(* stack that take_all returns.                                            *)
(***************************************************************************)
EXTENDS Naturals, Sequences, FiniteSets

CONSTANTS Elements, Pushers, Takers, Null

VARIABLES
  shead,     \* TransferStack::head
  snext,     \* Links::next of every element
  unused,    \* elements that are in no stack
  pushing,   \* what each pusher works on: [node, head] or Null
  stack      \* Stack::head of each taker's stack

vars == <<shead, snext, unused, pushing, stack>>

Init ==
  /\ shead = Null
  /\ snext = [e \in Elements |-> Null]
  /\ unused = Elements
  /\ pushing = [p \in Pushers |-> Null]
  /\ stack = [t \in Takers |-> Null]

(* push loads the head and links the element to it ... *)
Push(p) ==
  /\ pushing[p] = Null
  /\ \E e \in unused :
       /\ unused' = unused \ {e}
       /\ pushing' = [pushing EXCEPT ![p] = [node |-> e, head |-> shead]]
       /\ snext' = [snext EXCEPT ![e] = shead]
  /\ UNCHANGED <<shead, stack>>

BlindSwap(expected) == TRUE  \* mutant of Unchanged: a store instead of a compare_exchange
Unchanged(expected) == shead = expected

(* ... until compare_exchange finds the head unchanged, or changed back. *)
Exchange(p) ==
  /\ pushing[p] # Null
  /\ IF Unchanged(pushing[p].head)
     THEN /\ shead' = pushing[p].node
          /\ pushing' = [pushing EXCEPT ![p] = Null]
          /\ UNCHANGED snext
     ELSE /\ pushing' = [pushing EXCEPT ![p].head = shead]
          /\ snext' = [snext EXCEPT ![pushing[p].node] = shead]
          /\ UNCHANGED shead
  /\ UNCHANGED <<unused, stack>>

(* TransferStack::take_all, by a thread whose stack is empty. *)
TakeAll(t) ==
  /\ stack[t] = Null
  /\ shead # Null
  /\ stack' = [stack EXCEPT ![t] = shead]
  /\ shead' = Null
  /\ UNCHANGED <<snext, unused, pushing>>

Popped(e) == Null

(* Stack::pop and Stack::push, on a stack of one's own. *)
Pop(t) ==
  /\ stack[t] # Null
  /\ stack' = [stack EXCEPT ![t] = snext[stack[t]]]
  /\ snext' = [snext EXCEPT ![stack[t]] = Popped(stack[t])]
  /\ unused' = unused \cup {stack[t]}
  /\ UNCHANGED <<shead, pushing>>

PushOwn(t) ==
  /\ \E e \in unused :
       /\ unused' = unused \ {e}
       /\ snext' = [snext EXCEPT ![e] = stack[t]]
       /\ stack' = [stack EXCEPT ![t] = e]
  /\ UNCHANGED <<shead, pushing>>

Next ==
  \/ \E p \in Pushers : Push(p) \/ Exchange(p)
  \/ \E t \in Takers : TakeAll(t) \/ Pop(t) \/ PushOwn(t)

Spec == Init /\ [][Next]_vars

-----------------------------------------------------------------------------
(* Properties *)

(* The elements of the stack that starts at n, from top to bottom. *)
From(n) ==
  LET after == [e \in Elements \cup {Null} |-> IF e = Null THEN Null ELSE snext[e]]
      nth[i \in 1..(Cardinality(Elements) + 1)] == IF i = 1 THEN n ELSE after[nth[i - 1]]
  IN SelectSeq([i \in 1..(Cardinality(Elements) + 1) |-> nth[i]], LAMBDA e : e # Null)

Shared == From(shead)
Own(t) == From(stack[t])
Members(s) == {s[i] : i \in DOMAIN s}

(* Every element is in exactly one place and in it once: unused, about to be  *)
(* pushed, in the shared stack, or in one taker's; and (stack.rs:145, the    *)
(* debug_assert!(next.is_none())) an unused one has no link left from before. *)
ElementsAreInOnePlace ==
  LET places == {unused, {pushing[p].node : p \in {q \in Pushers : pushing[q] # Null}}, Members(Shared)}
                  \cup {Members(Own(t)) : t \in Takers}
      sizes == Cardinality(unused) + Cardinality({p \in Pushers : pushing[p] # Null})
                 + Len(Shared)
  IN /\ UNION places = Elements
     /\ \A t \in Takers : Members(Own(t)) \cap Members(Shared) = {}
     /\ \A t, u \in Takers : t # u => Members(Own(t)) \cap Members(Own(u)) = {}
     /\ sizes <= Cardinality(Elements)
     /\ \A e \in unused : snext[e] = Null

=============================================================================

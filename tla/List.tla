-------------------------------- MODULE List --------------------------------
(***************************************************************************)
(* cordyceps/src/list.rs and list/cursor.rs: the intrusive doubly linked   *)
(* list under every wait queue and timer wheel slot.  The code is          *)
(* sequential, so an operation is one step.  `list` is the list of         *)
(* interest, `spare` one that was split off it, `free` the elements that   *)
(* are in neither.  A CursorMut or an iterator borrows the list: while     *)
(* there is one, only it operates on the list.                             *)
(***************************************************************************)
EXTENDS Integers, Sequences, FiniteSets

CONSTANTS Nodes, Null,
          Rewinds   \* whether a cursor moves backwards off the first element

VARIABLES
  list, spare,   \* List: [head, tail, len]
  next, prev,    \* Links of every element
  free,
  cursor,        \* CursorCore: [curr, index], or Null when there is none
  iter           \* Iter or IterMut: [curr, currBack, len], and what it yielded

vars == <<list, spare, next, prev, free, cursor, iter>>

Empty == [head |-> Null, tail |-> Null, len |-> 0]

Init ==
  /\ list = Empty /\ spare = Empty
  /\ next = [n \in Nodes |-> Null] /\ prev = [n \in Nodes |-> Null]
  /\ free = Nodes
  /\ cursor = Null /\ iter = Null

(* Nobody borrows the list. *)
Owned == cursor = Null /\ iter = Null

(* f with f[n] = v, unless n is no node: set_next and set_prev. *)
Set(f, n, v) == IF n = Null THEN f ELSE [f EXCEPT ![n] = v]

-----------------------------------------------------------------------------
(* Operations of List, made while nobody borrows it *)

PushBack(n) ==
  /\ Owned
  /\ n \in free
  /\ next' = Set([next EXCEPT ![n] = Null], list.tail, n)
  /\ prev' = [prev EXCEPT ![n] = list.tail]
  /\ list' = [head |-> IF list.head = Null THEN n ELSE list.head, tail |-> n, len |-> list.len + 1]
  /\ free' = free \ {n}
  /\ UNCHANGED <<spare, cursor>>

PushFront(n) ==
  /\ Owned
  /\ n \in free
  /\ next' = [next EXCEPT ![n] = list.head]
  /\ prev' = Set([prev EXCEPT ![n] = Null], list.head, n)
  /\ list' = [head |-> n, tail |-> IF list.tail = Null THEN n ELSE list.tail, len |-> list.len + 1]
  /\ free' = free \ {n}
  /\ UNCHANGED <<spare, cursor>>

PopBack ==
  LET n == list.tail  p == prev[n] IN
  /\ Owned
  /\ n # Null
  /\ next' = Set([next EXCEPT ![n] = Null], p, Null)
  /\ prev' = [prev EXCEPT ![n] = Null]
  /\ list' = [head |-> IF p = Null THEN Null ELSE list.head, tail |-> p, len |-> list.len - 1]
  /\ free' = free \cup {n}
  /\ UNCHANGED <<spare, cursor>>

PopFront ==
  LET n == list.head  s == next[n] IN
  /\ Owned
  /\ n # Null
  /\ next' = [next EXCEPT ![n] = Null]
  /\ prev' = Set([prev EXCEPT ![n] = Null], s, Null)
  /\ list' = [head |-> s, tail |-> IF s = Null THEN Null ELSE list.tail, len |-> list.len - 1]
  /\ free' = free \cup {n}
  /\ UNCHANGED <<spare, cursor>>

(* The part of remove that takes n out of the chain. *)
Unlinked(n) == /\ next' = Set([next EXCEPT ![n] = Null], prev[n], next[n])
               /\ prev' = Set([prev EXCEPT ![n] = Null], next[n], prev[n])

(* remove, of an element of the list. *)
Removed(n) ==
  /\ Unlinked(n)
  /\ list' = [head |-> IF prev[n] = Null THEN next[n] ELSE list.head,
              tail |-> IF next[n] = Null THEN prev[n] ELSE list.tail,
              len |-> list.len - 1]
  /\ free' = free \cup {n}

(* The k-th successor of n along the links in f. *)
Walk(f, n, k) ==
  LET step == [m \in Nodes \cup {Null} |-> IF m = Null THEN Null ELSE f[m]]
      nth[i \in 0..k] == IF i = 0 THEN n ELSE step[nth[i - 1]]
  IN nth[k]

Members(l) == {Walk(next, l.head, k) : k \in 0..Cardinality(Nodes)} \ {Null}

(* Its caller vouches that the element is in this list or in none; if it has *)
(* no links and is not the head, nothing happens.                            *)
Remove(n) ==
  /\ Owned
  /\ n \in Members(list)
  /\ Removed(n)
  /\ UNCHANGED <<spare, cursor>>

(* append; take_all empties the other list. *)
AppendSpare ==
  /\ Owned
  /\ spare.head # Null
  /\ next' = Set(next, list.tail, spare.head)
  /\ prev' = Set(prev, spare.head, list.tail)
  /\ list' = IF list.tail = Null THEN spare
             ELSE [head |-> list.head, tail |-> spare.tail, len |-> list.len + spare.len]
  /\ spare' = Empty
  /\ UNCHANGED <<free, cursor>>

(* split_after_node, of a node; idx elements stay. *)
SplitAfterNode(n, idx) ==
  /\ next' = [next EXCEPT ![n] = Null]
  /\ prev' = Set(prev, next[n], Null)
  /\ spare' = [head |-> next[n], tail |-> IF next[n] = Null THEN Null ELSE list.tail,
               len |-> list.len - idx]
  /\ list' = [head |-> list.head, tail |-> IF next[n] = Null THEN list.tail ELSE n, len |-> idx]

WholeList == spare' = list /\ list' = Empty /\ UNCHANGED <<next, prev>>

(* try_split_off walks from the nearer end. *)
TrySplitOff(k) ==
  /\ Owned
  /\ spare = Empty
  /\ \/ k = 0 /\ WholeList
     \/ /\ k \in 1..(list.len - 1)
        /\ LET fromTail == list.len - k IN
           SplitAfterNode(IF k - 1 <= fromTail THEN Walk(next, list.head, k - 1)
                          ELSE Walk(prev, list.tail, fromTail), k)
  /\ UNCHANGED <<free, cursor>>

(* The spare list is dropped: its elements are popped one after the other. *)
DropSpare ==
  /\ Owned
  /\ spare.head # Null
  /\ LET members == Members(spare) IN
     /\ free' = free \cup members
     /\ next' = [n \in Nodes |-> IF n \in members THEN Null ELSE next[n]]
     /\ prev' = [n \in Nodes |-> IF n \in members THEN Null ELSE prev[n]]
  /\ spare' = Empty
  /\ UNCHANGED <<list, cursor>>

-----------------------------------------------------------------------------
(* Operations of CursorMut *)

Curr == cursor.curr

(* cursor_front_mut and cursor_back_mut; then the cursor goes out of scope. *)
CursorAt(front) ==
  /\ Owned
  /\ cursor' = IF front THEN [curr |-> list.head, index |-> 0]
               ELSE [curr |-> list.tail, index |-> IF list.len = 0 THEN 0 ELSE list.len - 1]
  /\ UNCHANGED <<list, spare, next, prev, free>>

DropCursor == cursor # Null /\ cursor' = Null /\ UNCHANGED <<list, spare, next, prev, free>>

MoveNext ==
  /\ cursor # Null
  /\ cursor' = IF Curr # Null THEN [curr |-> next[Curr], index |-> cursor.index + 1]
               ELSE [curr |-> list.head, index |-> 0]
  /\ UNCHANGED <<list, spare, next, prev, free>>

MovePrev ==
  /\ cursor # Null
  /\ Rewinds \/ Curr = Null \/ Curr # list.head
  /\ cursor' = IF Curr # Null
               THEN [curr |-> prev[Curr], index |-> IF cursor.index = 0 THEN 0 ELSE cursor.index - 1]
               ELSE [curr |-> list.tail,
                     index |-> IF cursor.index = 0 THEN list.len ELSE cursor.index - 1]
  /\ UNCHANGED <<list, spare, next, prev, free>>

(* remove_first walks on to the first element that satisfies the predicate,  *)
(* and removes it; with one that always holds this is remove_current.        *)
RemoveFirst(pred) ==
  /\ cursor # Null
  /\ Curr # Null
  /\ LET along(k) == Walk(next, Curr, k)
         stop == CHOOSE k \in 0..Cardinality(Nodes) :
                   along(k) \in pred \cup {Null} /\ \A j \in 0..(k - 1) : along(j) \notin pred \cup {Null}
         n == along(stop)
     IN IF n = Null
        THEN /\ cursor' = [curr |-> Null, index |-> cursor.index + stop]
             /\ UNCHANGED <<list, next, prev, free>>
        ELSE /\ cursor' = [curr |-> next[n], index |-> cursor.index + stop]
             /\ Removed(n)
  /\ UNCHANGED spare

(* mutant of NextLink: the ghost is followed by the wrong end *)
NextOfGhost == IF Curr # Null THEN next[Curr] ELSE list.tail
NextLink == IF Curr # Null THEN next[Curr] ELSE list.head
PrevLink == IF Curr # Null THEN prev[Curr] ELSE list.tail

(* insert_nodes_between: the chain from first to final goes between p and s. *)
InsertNodesBetween(p, s, first, final, length) ==
  /\ next' = Set([next EXCEPT ![final] = s], p, first)
  /\ prev' = Set([prev EXCEPT ![first] = p], s, final)
  /\ list' = [head |-> IF p = Null THEN first ELSE list.head,
              tail |-> IF s = Null THEN final ELSE list.tail,
              len |-> list.len + length]

(* mutant of AtEnd: the index of the ghost element stays *)
AtEndKept(i) == cursor
AtEnd(i) == [cursor EXCEPT !.index = IF Curr = Null THEN list.len + i ELSE @]

InsertAfter(n) ==
  /\ cursor # Null
  /\ n \in free
  /\ InsertNodesBetween(Curr, NextLink, n, n, 1)
  /\ cursor' = AtEnd(1)
  /\ free' = free \ {n}
  /\ UNCHANGED spare

InsertBefore(n) ==
  /\ cursor # Null
  /\ n \in free
  /\ InsertNodesBetween(PrevLink, Curr, n, n, 1)
  /\ cursor' = [cursor EXCEPT !.index = @ + 1]
  /\ free' = free \ {n}
  /\ UNCHANGED spare

SpliceAfter ==
  /\ cursor # Null
  /\ spare.head # Null
  /\ InsertNodesBetween(Curr, NextLink, spare.head, spare.tail, spare.len)
  /\ cursor' = AtEnd(spare.len)
  /\ spare' = Empty
  /\ UNCHANGED free

SpliceBefore ==
  /\ cursor # Null
  /\ spare.head # Null
  /\ InsertNodesBetween(PrevLink, Curr, spare.head, spare.tail, spare.len)
  /\ cursor' = [cursor EXCEPT !.index = @ + spare.len]
  /\ spare' = Empty
  /\ UNCHANGED free

SplitAfter ==
  /\ cursor # Null
  /\ spare = Empty
  /\ LET last == cursor.index = list.len IN
     /\ IF Curr = Null THEN WholeList
        ELSE SplitAfterNode(Curr, IF last THEN 0 ELSE cursor.index + 1)
     /\ cursor' = [cursor EXCEPT !.index = IF last THEN 0 ELSE @]
  /\ UNCHANGED free

SplitBefore ==
  /\ cursor # Null
  /\ spare = Empty
  /\ IF Curr = Null THEN WholeList
     ELSE /\ prev' = [prev EXCEPT ![Curr] = Null]
          /\ next' = Set(next, prev[Curr], Null)
          /\ spare' = [head |-> IF prev[Curr] = Null THEN Null ELSE list.head,
                       tail |-> prev[Curr], len |-> cursor.index]
          /\ list' = [list EXCEPT !.head = IF prev[Curr] = Null THEN @ ELSE Curr,
                                  !.len = @ - cursor.index]
  /\ cursor' = [cursor EXCEPT !.index = 0]
  /\ UNCHANGED free

-----------------------------------------------------------------------------
(* Iter and IterMut: from both ends, until `len` elements have been seen *)

Iterate ==
  /\ Owned
  /\ iter' = [curr |-> list.head, currBack |-> list.tail, len |-> list.len,
              front |-> <<>>, back |-> <<>>]

MoreToSee == iter.len # 0

IterNext ==
  /\ iter # Null
  /\ MoreToSee
  /\ iter.curr # Null
  /\ iter' = [iter EXCEPT !.curr = next[iter.curr], !.len = @ - 1, !.front = Append(@, iter.curr)]

IterNextBack ==
  /\ iter # Null
  /\ MoreToSee
  /\ iter.currBack # Null
  /\ iter' = [iter EXCEPT !.currBack = prev[iter.currBack], !.len = @ - 1,
                          !.back = <<iter.currBack>> \o @]

DropIter == iter # Null /\ iter' = Null

OwnerStep ==
  \/ \E n \in Nodes : PushBack(n) \/ PushFront(n) \/ Remove(n)
  \/ \E k \in 0..Cardinality(Nodes) : TrySplitOff(k)
  \/ PopBack \/ PopFront \/ AppendSpare \/ DropSpare
CursorStep ==
  \/ \E front \in BOOLEAN : CursorAt(front)
  \/ \E n \in Nodes : InsertAfter(n) \/ InsertBefore(n)
  \/ \E pred \in SUBSET Nodes : RemoveFirst(pred)
  \/ DropCursor \/ MoveNext \/ MovePrev
  \/ SpliceAfter \/ SpliceBefore \/ SplitAfter \/ SplitBefore
IterStep == Iterate \/ IterNext \/ IterNextBack \/ DropIter

Next ==
  \/ (OwnerStep \/ CursorStep) /\ UNCHANGED iter
  \/ IterStep /\ UNCHANGED <<list, spare, next, prev, free, cursor>>

Spec == Init /\ [][Next]_vars

-----------------------------------------------------------------------------
(* Properties *)

(* The elements of l, by their next and by their prev links. *)
Along(f, n) ==
  SelectSeq([i \in 1..(Cardinality(Nodes) + 1) |-> Walk(f, n, i - 1)], LAMBDA m : m # Null)
Forward(l) == Along(next, l.head)
Backward(l) == Along(prev, l.tail)

(* What assert_valid walks through, of both lists and in both directions:    *)
(* next and prev links describe the same sequence, no element is in two      *)
(* lists, and an element in none has no links (stale ones would make a later *)
(* remove corrupt the list it finds).                                        *)
LinksAgree ==
  /\ \A l \in {list, spare} : \A i \in 1..Len(Forward(l)) :
       Len(Backward(l)) = Len(Forward(l)) /\ Backward(l)[i] = Forward(l)[Len(Forward(l)) + 1 - i]
  /\ (list.head = Null <=> list.tail = Null) /\ (spare.head = Null <=> spare.tail = Null)
  /\ Len(Forward(list)) + Len(Forward(spare)) + Cardinality(free) = Cardinality(Nodes)
  /\ \A n \in free : next[n] = Null /\ prev[n] = Null

Position ==
  IF cursor = Null \/ Curr = Null THEN 0 ELSE CHOOSE i \in DOMAIN Forward(list) : Forward(list)[i] = Curr

Sequence == INSTANCE CursorSequence WITH
  items <- Forward(list), spare <- Forward(spare), at <- Position

(* Each operation does to the sequence of elements, and to the cursor's      *)
(* place in it, what the operation of that name does in CursorSequence.      *)
OperationsAreTheirs ==
  /\ \A n \in Nodes :
       /\ PushFront(n) => Sequence!PushFront(n)
       /\ PushBack(n) => Sequence!PushBack(n)
       /\ Remove(n) => Sequence!Remove(n)
       /\ InsertAfter(n) => Sequence!InsertAfter(n)
       /\ InsertBefore(n) => Sequence!InsertBefore(n)
  /\ \A k \in 0..Cardinality(Nodes) : TrySplitOff(k) => Sequence!SplitOff(k)
  /\ \A front \in BOOLEAN : CursorAt(front) => Sequence!CursorAt(front)
  /\ \A pred \in SUBSET Nodes : RemoveFirst(pred) => Sequence!RemoveFirst(pred)
  /\ PopFront => Sequence!PopFront
  /\ PopBack => Sequence!PopBack
  /\ AppendSpare => Sequence!AppendSpare
  /\ DropSpare => Sequence!DropSpare
  /\ DropCursor => Sequence!DropCursor
  /\ MoveNext => Sequence!MoveNext
  /\ MovePrev => Sequence!MovePrev
  /\ SpliceAfter => Sequence!SpliceAfter
  /\ SpliceBefore => Sequence!SpliceBefore
  /\ SplitAfter => Sequence!SplitAfter
  /\ SplitBefore => Sequence!SplitBefore

(* list.rs:528, "linked list's actual length did not match its `len`         *)
(* variable", for both lists, and the same for the index of a cursor, from   *)
(* which the lengths of split lists are computed.                            *)
LenIsActual == list.len = Len(Forward(list)) /\ spare.len = Len(Forward(spare))
IndexIsPosition == cursor # Null => cursor.index = IF Position = 0 THEN list.len ELSE Position - 1

(* However next and next_back are mixed, an iterator yields each element at  *)
(* most once and in its place, and all of them before it ends.               *)
IterationIsExact ==
  iter # Null =>
    LET items == Forward(list)  f == Len(iter.front)  b == Len(iter.back) IN
    /\ f + b + iter.len = Len(items)
    /\ iter.front = SubSeq(items, 1, f)
    /\ iter.back = SubSeq(items, Len(items) - b + 1, Len(items))
    /\ (iter.curr = Null \/ iter.currBack = Null) => iter.len = 0

(* All of it: a missed link or counter shows several calls later. *)
ListIsSound == LinksAgree /\ LenIsActual /\ IndexIsPosition /\ IterationIsExact
=============================================================================

--------------------------- MODULE CursorSequence ---------------------------
(* What List and its cursors promise: a sequence, a position in it (0 when    *)
(* the cursor is on no element, the null element of the documentation), and a *)
(* second sequence that was split off.  One action per operation, with the    *)
(* operation's name.                                                          *)
EXTENDS Naturals, Sequences, FiniteSetsExt

CONSTANT Nodes

VARIABLES items, spare, at

Before(k) == SubSeq(items, 1, k - 1)
From(k) == SubSeq(items, k, Len(items))
Without(k) == Before(k) \o From(k + 1)

Becomes(i, s, a) == items' = i /\ spare' = s /\ at' = a

Init == items = <<>> /\ spare = <<>> /\ at = 0

-----------------------------------------------------------------------------
(* List *)

PushFront(n) == Becomes(<<n>> \o items, spare, at)
PushBack(n) == Becomes(Append(items, n), spare, at)
PopFront == items # <<>> /\ Becomes(Tail(items), spare, at)
PopBack == items # <<>> /\ Becomes(Before(Len(items)), spare, at)
Remove(n) == \E k \in 1..Len(items) : items[k] = n /\ Becomes(Without(k), spare, at)
AppendSpare == Becomes(items \o spare, <<>>, at)
DropSpare == Becomes(items, <<>>, at)
SplitOff(k) == spare = <<>> /\ Becomes(Before(k + 1), From(k + 1), at)

-----------------------------------------------------------------------------
(* CursorMut.  The null element lies between the last one and the first. *)

Goes(a) == Becomes(items, spare, a)
CursorAt(front) == Goes(IF front /\ items # <<>> THEN 1 ELSE Len(items))
DropCursor == Goes(0)
MoveNext == Goes((at + 1) % (Len(items) + 1))
MovePrev == Goes((at + Len(items)) % (Len(items) + 1))

(* The cursor steps on what comes after the element that is removed. *)
RemoveFirst(pred) ==
  LET found == {k \in at..Len(items) : items[k] \in pred} IN
  /\ at > 0
  /\ IF found = {} THEN Goes(0)
     ELSE Becomes(Without(Min(found)), spare, IF Min(found) = Len(items) THEN 0 ELSE Min(found))

(* s goes behind the cursor, or in front of it: at the null element, to the  *)
(* front or to the end of the list.  cursor.rs:408-409 says the latter of    *)
(* splice_before; of insert_before, which does the same, cursor.rs:278-279   *)
(* says "at the front of the [`List`]".                                      *)
Behind(s, left) == Becomes(Before(at + 1) \o s \o From(at + 1), left, at)
InFront(s, left) ==
  IF at = 0 THEN Becomes(items \o s, left, 0)
  ELSE Becomes(Before(at) \o s \o From(at), left, at + Len(s))

InsertAfter(n) == Behind(<<n>>, spare)
InsertBefore(n) == InFront(<<n>>, spare)
SpliceAfter == Behind(spare, <<>>)
SpliceBefore == InFront(spare, <<>>)

(* At the null element, either moves all of the list. *)
SplitAfter == spare = <<>> /\ Becomes(Before(at + 1), From(at + 1), at)
SplitBefore ==
  /\ spare = <<>>
  /\ IF at = 0 THEN Becomes(<<>>, items, 0) ELSE Becomes(From(at), Before(at), 1)

Next ==
  \/ \E n \in Nodes : PushFront(n) \/ PushBack(n) \/ Remove(n) \/ InsertAfter(n) \/ InsertBefore(n)
  \/ \E k \in 0..Len(items) : SplitOff(k)
  \/ PopFront \/ PopBack \/ AppendSpare \/ DropSpare
  \/ \E front \in BOOLEAN : CursorAt(front)
  \/ \E pred \in SUBSET Nodes : RemoveFirst(pred)
  \/ DropCursor \/ MoveNext \/ MovePrev
  \/ SpliceAfter \/ SpliceBefore \/ SplitAfter \/ SplitBefore

Spec == Init /\ [][Next]_<<items, spare, at>>
=============================================================================

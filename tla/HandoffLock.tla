------------------------------ MODULE HandoffLock ------------------------------
(***************************************************************************)
(* What Mutex promises (maitake-sync/src/mutex.rs, lines 22-54): one owner,*)
(* waiting tasks are served first-in, first-out, and a released lock is    *)
(* handed to the first of them, so that no newcomer can overtake it.       *)
(***************************************************************************)
EXTENDS Naturals, Sequences

CONSTANTS Tasks, NoOne

VARIABLES owner,   \* the task that has been given the lock
          waiting  \* the tasks that are waiting for it

lockVars == <<owner, waiting>>

Without(q, w) ==
  IF \E i \in DOMAIN q : q[i] = w
  THEN LET k == CHOOSE i \in DOMAIN q : q[i] = w
       IN  [i \in 1..(Len(q) - 1) |-> IF i < k THEN q[i] ELSE q[i + 1]]
  ELSE q

Init == owner = NoOne /\ waiting = <<>>

Take(w) ==
  /\ owner = NoOne /\ waiting = <<>>
  /\ owner' = w /\ UNCHANGED waiting

Await(w) ==
  /\ owner # NoOne /\ owner # w
  /\ waiting' = Append(waiting, w) /\ UNCHANGED owner

Cancel(w) ==
  /\ \E i \in DOMAIN waiting : waiting[i] = w
  /\ waiting' = Without(waiting, w) /\ UNCHANGED owner

Release ==
  /\ owner # NoOne
  /\ \/ waiting = <<>> /\ owner' = NoOne /\ UNCHANGED waiting
     \/ waiting # <<>> /\ owner' = Head(waiting) /\ waiting' = Tail(waiting)

Next == Release \/ \E w \in Tasks : Take(w) \/ Await(w) \/ Cancel(w)

Spec == Init /\ [][Next]_lockVars
=============================================================================

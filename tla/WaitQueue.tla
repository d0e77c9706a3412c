------------------------------- MODULE WaitQueue -------------------------------
(***************************************************************************)
(* maitake-sync/src/wait_queue.rs and util/wake_batch.rs: a FIFO queue of  *)
(* waiting tasks.  An atomic word holds a state and the number of          *)
(* wake_all() calls; the list of waiters is guarded by a blocking mutex.   *)
(* Some operations change the word without the mutex, so inside a critical *)
(* section every load, store and compare_exchange of the word is a step of *)
(* its own; taking the mutex is merged with the first of them, list        *)
(* accesses and the unlock with the last.                                  *)
(*                                                                         *)
(* The actions take the thread as a parameter: here the tasks in Waiters   *)
(* await and drop Wait futures and the threads in Wakers call the          *)
(* operations in Ops; Mutex composes the same actions differently.         *)
(***************************************************************************)
EXTENDS Naturals, Sequences, FiniteSets, Lists

CONSTANTS Waiters,    \* tasks, each with at most one Wait future
          Wakers,     \* threads that call wake, wake_all and close
          NoOne,      \* the mutex is not held
          Usages,     \* sets of the operations that are called together
          BatchSize,  \* MAX_WAKERS
          MaxWakeAlls,\* bound on the number of wake_all calls
          MayDrop,    \* tasks may drop a future before it completes
          Spurious,   \* tasks may poll without having been woken
          Subscribes  \* tasks may call Wait::subscribe

ASSUME WaitQueueAssumption ==
  /\ Waiters \cap Wakers = {}
  /\ NoOne \notin Waiters \cup Wakers
  /\ Usages \subseteq SUBSET {"wake", "wake_all", "close"}
  /\ BatchSize \in Nat \ {0} /\ MaxWakeAlls \in Nat
  /\ MayDrop \in BOOLEAN /\ Spurious \in BOOLEAN /\ Subscribes \in BOOLEAN

VARIABLES
  state,    \* QueueState: [st, alls]
  queue,    \* the list; pop_back takes the head, push_front appends
  lock,     \* holder of the blocking mutex
  node,     \* Node::waker of each task's waiter
  wstate,   \* WaitStateBits::STATE ("None": the task has no future)
  walls,    \* WaitStateBits::WAKE_ALLS
  pc, snap, \* each thread's place and its snapshot of the word
  hand,     \* wakers a thread has taken and has yet to wake
  ret,      \* where a thread goes once it has woken them
  notified, \* the task must be polled (again)
  res,      \* how the task's last future completed
  ops       \* which operations the program calls on this queue

vars == <<state, queue, lock, node, wstate, walls, pc, snap, hand, ret, notified, res, ops>>

Threads == Waiters \cup Wakers
With(s, st) == [s EXCEPT !.st = st]
GoTo(t, l) == pc' = [pc EXCEPT ![t] = l]

(* make: Mutex::new starts with a stored wakeup (new_woken). *)
InitWith(st) ==
  /\ state = [st |-> st, alls |-> 0]
  /\ queue = <<>>
  /\ lock = NoOne
  /\ node = [w \in Waiters |-> "Empty"]
  /\ wstate = [w \in Waiters |-> "None"]
  /\ walls = [w \in Waiters |-> 0]
  /\ pc = [t \in Threads |-> "idle"]
  /\ snap = [t \in Threads |-> state]
  /\ hand = [t \in Threads |-> {}]
  /\ ret = [t \in Threads |-> "idle"]
  /\ notified = [w \in Waiters |-> FALSE]
  /\ res = [w \in Waiters |-> "none"]
  /\ ops \in Usages

Init == InitWith("Empty")

(* Whether a compare_exchange from the thread's snapshot succeeds. *)
BlindStore(t) == TRUE
CasSucceeds(t) == state = snap[t]

-----------------------------------------------------------------------------
(* WaitQueue::wait: a new future, to be polled for the first time. *)
NewWait(w) ==
  /\ pc[w] = "idle"
  /\ wstate' = [wstate EXCEPT ![w] = "Start"]
  /\ walls' = [walls EXCEPT ![w] = state.alls]
  /\ node' = [node EXCEPT ![w] = "Empty"]
  /\ notified' = [notified EXCEPT ![w] = TRUE]
  /\ res' = [res EXCEPT ![w] = "none"]
  /\ GoTo(w, "held")
  /\ UNCHANGED <<state, queue, lock, snap, hand, ret, ops>>

(* The future completes with r and is dropped (release does nothing). *)
Ready(w, r) ==
  /\ res' = [res EXCEPT ![w] = r]
  /\ wstate' = [wstate EXCEPT ![w] = "None"]
  /\ GoTo(w, "idle")

(* List::push_front: wakes come from the other end. *)
PushBack(q, w) == <<w>> \o q
PushFront(q, w) == Append(q, w)

(* poll_wait puts the node on the list and returns Pending.  Wait::subscribe *)
(* passes no waker: the task is still running and has yet to poll.          *)
Enqueue(w) ==
  /\ wstate' = [wstate EXCEPT ![w] = "Waiting"]
  /\ \/ node' = [node EXCEPT ![w] = "Waiting"] /\ UNCHANGED notified
     \/ Subscribes /\ node' = [node EXCEPT ![w] = "Empty"] /\ notified' = [notified EXCEPT ![w] = TRUE]
  /\ queue' = PushFront(queue, w)
  /\ GoTo(w, "held")
  /\ UNCHANGED res

(* Wait::poll and Wait::subscribe, in the Start state: the first load. *)
PollStart(w) ==
  /\ pc[w] = "held" /\ wstate[w] = "Start"
  /\ notified[w] \/ Spurious
  /\ notified' = [notified EXCEPT ![w] = FALSE]
  /\ snap' = [snap EXCEPT ![w] = state]
  /\ GoTo(w, "pollFast")
  /\ UNCHANGED <<state, queue, lock, node, wstate, walls, hand, ret, res, ops>>

(* Try to consume a stored wakeup without locking. *)
PollFast(w) ==
  /\ pc[w] = "pollFast"
  /\ IF state = With(snap[w], "Woken")
     THEN state' = With(state, "Empty") /\ Ready(w, "Ok")
     ELSE GoTo(w, "pollLock") /\ UNCHANGED <<state, wstate, res>>
  /\ UNCHANGED <<queue, lock, node, walls, snap, hand, ret, notified, ops>>

(* What the 'to_waiting loop does once it has seen the word s: the Empty   *)
(* and Woken states need a compare_exchange first.                         *)
OnSeen(w, s) ==
  \/ /\ s.st = "Waiting" /\ Enqueue(w) /\ lock' = NoOne
  \/ /\ s.st = "Closed" /\ Ready(w, "Closed") /\ lock' = NoOne /\ UNCHANGED <<queue, node, notified>>
  \/ /\ s.st \in {"Empty", "Woken"} /\ GoTo(w, "pollCas") /\ lock' = w
     /\ UNCHANGED <<queue, node, wstate, notified, res>>

(* The number of wake_all calls changed since the future was made. *)
NotWokenByAll(w) == FALSE
WokenByAll(w) == state.alls # walls[w]

PollLock(w) ==
  /\ pc[w] = "pollLock" /\ lock = NoOne
  /\ snap' = [snap EXCEPT ![w] = state]
  /\ IF WokenByAll(w)
     THEN Ready(w, "Ok") /\ UNCHANGED <<queue, node, lock, notified>>
     ELSE OnSeen(w, state)
  /\ UNCHANGED <<state, walls, hand, ret, ops>>

PollCas(w) ==
  /\ pc[w] = "pollCas"
  /\ \/ /\ CasSucceeds(w) /\ snap[w].st = "Empty"
        /\ state' = With(snap[w], "Waiting")
        /\ Enqueue(w) /\ lock' = NoOne /\ UNCHANGED snap
     \/ /\ CasSucceeds(w) /\ snap[w].st = "Woken"
        /\ state' = With(snap[w], "Empty")
        /\ Ready(w, "Ok") /\ lock' = NoOne /\ UNCHANGED <<queue, node, snap, notified>>
     \/ /\ ~CasSucceeds(w)
        /\ snap' = [snap EXCEPT ![w] = state]
        /\ OnSeen(w, state) /\ UNCHANGED state
  /\ UNCHANGED <<walls, hand, ret, ops>>

(* Wait::poll in the Waiting state, under the lock. *)
PollWaiting(w) ==
  /\ pc[w] = "held" /\ wstate[w] = "Waiting"
  /\ notified[w] \/ Spurious
  /\ lock = NoOne
  /\ notified' = [notified EXCEPT ![w] = FALSE]
  /\ \/ /\ node[w] \in {"Empty", "Waiting"}
        /\ node' = [node EXCEPT ![w] = "Waiting"]
        /\ UNCHANGED <<wstate, pc, res>>
     \/ /\ node[w] \in {"One", "All"} /\ Ready(w, "Ok") /\ UNCHANGED node
     \/ /\ node[w] = "Closed" /\ Ready(w, "Closed") /\ UNCHANGED node
  /\ UNCHANGED <<state, queue, lock, walls, snap, hand, ret, ops>>

-----------------------------------------------------------------------------
WakeNodesSilently(t, ws, wakeup) ==
  /\ node' = [w \in Waiters |-> IF w \in ws THEN wakeup ELSE node[w]]
  /\ hand' = [hand EXCEPT ![t] = {}]

(* Waiter::wake on the nodes in ws: their wakers are taken into t's hands;  *)
(* a node registered by subscribe has none.                                 *)
WakeNodes(t, ws, wakeup) ==
  /\ node' = [w \in Waiters |-> IF w \in ws THEN wakeup ELSE node[w]]
  /\ hand' = [hand EXCEPT ![t] = {w \in ws : node[w] = "Waiting"}]

(* The thread has released the lock: it wakes what it took, if anything,    *)
(* before it goes on.                                                       *)
ThenWake(t, l) ==
  /\ ret' = [ret EXCEPT ![t] = l]
  /\ GoTo(t, IF hand'[t] = {} THEN l ELSE "batch")

(* wake_locked, entered with snapshot s of the word and q on the list.      *)
WakeLocked(t, s, q) ==
  \/ /\ s.st # "Waiting"
     /\ queue' = q /\ lock' = t /\ GoTo(t, "wlCas")
     /\ UNCHANGED <<node, hand, ret>>
  \/ /\ s.st = "Waiting" /\ q = <<>>
     /\ queue' = q /\ lock' = t /\ GoTo(t, "panicNoWaiter")
     /\ UNCHANGED <<node, hand, ret>>
  \/ /\ s.st = "Waiting" /\ q # <<>>
     /\ queue' = Tail(q)
     /\ WakeNodes(t, {Head(q)}, "One")
     /\ IF Tail(q) = <<>>
        THEN lock' = t /\ GoTo(t, "wlEmpty") /\ UNCHANGED ret
        ELSE lock' = NoOne /\ ThenWake(t, "idle")

(* No waiters: store the wakeup; after a failed compare_exchange, by force. *)
WlCas(t) ==
  /\ pc[t] = "wlCas"
  /\ IF CasSucceeds(t)
     THEN state' = With(snap[t], "Woken") /\ lock' = NoOne /\ GoTo(t, "idle") /\ UNCHANGED snap
     ELSE /\ snap' = [snap EXCEPT ![t] = state]
          /\ GoTo(t, IF state.st = "Waiting" THEN "panicWaiting" ELSE "wlStore")
          /\ UNCHANGED <<state, lock>>
  /\ UNCHANGED <<queue, node, wstate, walls, hand, ret, notified, res, ops>>

WlStore(t) ==
  /\ pc[t] = "wlStore"
  /\ state' = With(snap[t], "Woken")
  /\ lock' = NoOne
  /\ GoTo(t, "idle")
  /\ UNCHANGED <<queue, node, wstate, walls, snap, hand, ret, notified, res, ops>>

(* The last waiter was taken: store the Empty state. *)
WlEmpty(t) ==
  /\ pc[t] = "wlEmpty"
  /\ state' = With(snap[t], "Empty")
  /\ lock' = NoOne
  /\ ret' = [ret EXCEPT ![t] = "idle"]
  /\ GoTo(t, IF hand[t] = {} THEN "idle" ELSE "batch")
  /\ UNCHANGED <<queue, node, wstate, walls, snap, hand, notified, res, ops>>

(* WakeBatch::wake_all, or waking the one task that wake_locked returned. *)
WakeOne(t) ==
  /\ pc[t] = "batch"
  /\ \E w \in hand[t] :
       /\ notified' = [notified EXCEPT ![w] = TRUE]
       /\ hand' = [hand EXCEPT ![t] = @ \ {w}]
  /\ GoTo(t, IF hand'[t] = {} THEN ret[t] ELSE "batch")
  /\ UNCHANGED <<state, queue, lock, node, wstate, walls, snap, ret, res, ops>>

-----------------------------------------------------------------------------
LeaveLinked(q, w) == q
(* List::remove, of a node that may not be linked. *)
Remove(q, w) == Unlink(q, w)

(* The waiter had been woken by wake() and did not consume it. *)
OwesWakeup(w) == node[w] = "One"

(* It was the last waiter on the list. *)
WasLast(w) == Remove(queue, w) = <<>> /\ state.st = "Waiting"

(* PinnedDrop for Wait, Waiter::release: remove the node, pass a wakeup on. *)
Drop(w) ==
  /\ MayDrop /\ pc[w] = "held"
  /\ notified' = [notified EXCEPT ![w] = FALSE]
  /\ wstate' = [wstate EXCEPT ![w] = "None"]
  /\ IF wstate[w] # "Waiting"
     THEN GoTo(w, "idle") /\ UNCHANGED <<queue, lock, node, snap, hand, ret>>
     ELSE /\ lock = NoOne
          /\ snap' = [snap EXCEPT ![w] = state]
          /\ \/ /\ WasLast(w)
                /\ queue' = <<>> /\ lock' = w /\ GoTo(w, "relStore")
                /\ UNCHANGED <<node, hand, ret>>
             \/ /\ ~WasLast(w) /\ OwesWakeup(w)
                /\ WakeLocked(w, state, Remove(queue, w))
             \/ /\ ~WasLast(w) /\ ~OwesWakeup(w)
                /\ queue' = Remove(queue, w) /\ GoTo(w, "idle")
                /\ UNCHANGED <<lock, node, hand, ret>>
  /\ UNCHANGED <<state, walls, res, ops>>

(* release stores Empty after removing the last node. *)
RelStore(w) ==
  /\ pc[w] = "relStore"
  /\ state' = With(snap[w], "Empty")
  /\ IF OwesWakeup(w)
     THEN WakeLocked(w, snap[w], queue)
     ELSE lock' = NoOne /\ GoTo(w, "idle") /\ UNCHANGED <<queue, node, hand, ret>>
  /\ UNCHANGED <<wstate, walls, snap, notified, res, ops>>

-----------------------------------------------------------------------------
(* wake(), having seen the word s: return, lock the queue or retry. *)
WakeSaw(t, s) ==
  /\ snap' = [snap EXCEPT ![t] = s]
  /\ GoTo(t, CASE s.st = "Closed" -> "idle" [] s.st = "Waiting" -> "wkLock" [] OTHER -> "wkCas")

Wake(t) ==
  /\ pc[t] = "idle" /\ "wake" \in ops
  /\ WakeSaw(t, state)
  /\ UNCHANGED <<state, queue, lock, node, wstate, walls, hand, ret, notified, res, ops>>

WakeCas(t) ==
  /\ pc[t] = "wkCas"
  /\ IF CasSucceeds(t)
     THEN state' = With(snap[t], "Woken") /\ GoTo(t, "idle") /\ UNCHANGED snap
     ELSE WakeSaw(t, state) /\ UNCHANGED state
  /\ UNCHANGED <<queue, lock, node, wstate, walls, hand, ret, notified, res, ops>>

(* The snapshot wake() hands to wake_locked is taken under the lock. *)
StaleSnapshot(t) == snap[t]
FreshSnapshot(t) == state

(* queue.with_lock in wake(). *)
LockFree == lock = NoOne

WakeLock(t) ==
  /\ pc[t] = "wkLock" /\ LockFree
  /\ snap' = [snap EXCEPT ![t] = FreshSnapshot(t)]
  /\ WakeLocked(t, FreshSnapshot(t), queue)
  /\ UNCHANGED <<state, wstate, walls, notified, res, ops>>

-----------------------------------------------------------------------------
(* try_wait, having seen the word s: take a stored wakeup or return.        *)
(* walls[w] is initial_wake_alls.                                           *)
TrySaw(w, s, initial) ==
  /\ snap' = [snap EXCEPT ![w] = s]
  /\ GoTo(w, IF s.st = "Woken" THEN "tryCas" ELSE "idle")
  /\ res' = [res EXCEPT ![w] = CASE s.st = "Closed" -> "Closed"
                                 [] s.st \in {"Empty", "Waiting"} /\ s.alls > initial -> "Ok"
                                 [] OTHER -> "none"]

TryWait(w) ==
  /\ pc[w] = "idle"
  /\ walls' = [walls EXCEPT ![w] = state.alls]
  /\ TrySaw(w, state, state.alls)
  /\ UNCHANGED <<state, queue, lock, node, wstate, hand, ret, notified, ops>>

TryCas(w) ==
  /\ pc[w] = "tryCas"
  /\ IF CasSucceeds(w)
     THEN state' = With(snap[w], "Empty") /\ Ready(w, "Ok") /\ UNCHANGED snap
     ELSE TrySaw(w, state, walls[w]) /\ UNCHANGED <<state, wstate>>
  /\ UNCHANGED <<queue, lock, node, walls, hand, ret, notified, ops>>

-----------------------------------------------------------------------------
(* How many nodes drain_to_wake_batch pops: it stops once the batch is full.*)
NodesToDrain ==
  LET full == {k \in 1..Len(queue) :
                 Cardinality({i \in 1..k : node[queue[i]] = "Waiting"}) = BatchSize}
  IN  IF full = {} THEN Len(queue) ELSE CHOOSE k \in full : \A j \in full : k <= j

Drained(n) == SubSeq(queue, n + 1, Len(queue))

Drain(t, wakeup, again) ==
  LET n == NodesToDrain IN
  /\ WakeNodes(t, {queue[i] : i \in 1..n}, wakeup)
  /\ queue' = Drained(n)
  /\ lock' = NoOne
  /\ ThenWake(t, IF n < Len(queue) THEN again ELSE "idle")

(* The WAKE_ALLS field, and the fetch_add of ONE_WAKE_ALL. *)
OneMore(n) == n + 1

(* wake_all: lock and load; a closed queue is left alone. *)
WakeAll(t) ==
  /\ pc[t] = "idle" /\ "wake_all" \in ops /\ state.alls < MaxWakeAlls
  /\ lock = NoOne
  /\ state.st # "Closed"
  /\ snap' = [snap EXCEPT ![t] = state]
  /\ lock' = t
  /\ GoTo(t, IF state.st = "Waiting" THEN "allCas" ELSE "allAdd")
  /\ UNCHANGED <<state, queue, node, wstate, walls, hand, ret, notified, res, ops>>

AddWakeAll(s) == [s EXCEPT !.alls = OneMore(@)]

WakeAllAdd(t) ==
  /\ pc[t] = "allAdd"
  /\ state' = AddWakeAll(state)
  /\ lock' = NoOne
  /\ GoTo(t, "idle")
  /\ UNCHANGED <<queue, node, wstate, walls, snap, hand, ret, notified, res, ops>>

WakeAllCas(t) ==
  /\ pc[t] = "allCas"
  /\ IF CasSucceeds(t)
     THEN state' = [st |-> "Empty", alls |-> OneMore(snap[t].alls)] /\ Drain(t, "All", "allLock")
     ELSE GoTo(t, "panicTransitioned") /\ UNCHANGED <<state, queue, lock, node, hand, ret>>
  /\ UNCHANGED <<wstate, walls, snap, notified, res, ops>>

WakeAllMore(t) ==
  /\ pc[t] = "allLock" /\ lock = NoOne
  /\ Drain(t, "All", "allLock")
  /\ UNCHANGED <<state, wstate, walls, snap, notified, res, ops>>

(* close: the fetch_or needs no lock. *)
MustDrain == state.st = "Waiting"

Close(t) ==
  /\ pc[t] = "idle" /\ "close" \in ops
  /\ state' = With(state, "Closed")
  /\ GoTo(t, IF MustDrain THEN "closeLock" ELSE "idle")
  /\ UNCHANGED <<queue, lock, node, wstate, walls, snap, hand, ret, notified, res, ops>>

CloseMore(t) ==
  /\ pc[t] = "closeLock" /\ lock = NoOne
  /\ Drain(t, "Closed", "closeLock")
  /\ UNCHANGED <<state, wstate, walls, snap, notified, res, ops>>

-----------------------------------------------------------------------------
Poll(w) ==
  \/ PollStart(w) \/ PollFast(w) \/ PollLock(w) \/ PollCas(w) \/ PollWaiting(w)
Finish(t) ==
  \/ WakeCas(t) \/ WakeLock(t) \/ WlCas(t) \/ WlStore(t) \/ WlEmpty(t)
  \/ WakeAllAdd(t) \/ WakeAllCas(t) \/ WakeAllMore(t) \/ CloseMore(t) \/ WakeOne(t)

Waiter(w) == NewWait(w) \/ Poll(w) \/ Drop(w) \/ RelStore(w) \/ Finish(w)
Waker(t) == Wake(t) \/ WakeAll(t) \/ Close(t) \/ Finish(t)

Next == (\E w \in Waiters : Waiter(w)) \/ (\E t \in Wakers : Waker(t))

Spec == Init /\ [][Next]_vars

(* Threads finish what they started and get the lock if it is free again    *)
(* and again, and woken tasks are polled; nobody has to start an operation   *)
(* or to drop a future.                                                      *)
Fairness ==
  /\ \A w \in Waiters : SF_vars(Poll(w) \/ RelStore(w) \/ Finish(w))
  /\ \A t \in Wakers : SF_vars(Finish(t))

FairSpec == Spec /\ Fairness

-----------------------------------------------------------------------------

Queued == {queue[i] : i \in DOMAIN queue}

(* wait_queue.rs:304: every node on the list belongs to a future that is    *)
(* waiting and has not been woken, and is linked once; no drop, poll or     *)
(* wake leaves a dangling or an already woken node behind.                  *)
LinkedNodesAreLive ==
  /\ \A w \in Queued : wstate[w] = "Waiting" /\ node[w] \in {"Empty", "Waiting"}
  /\ Cardinality(Queued) = Len(queue)

(* Every waiting future can be reached: it is on the list, or it was woken  *)
(* and its task is (or is about to be) notified.                            *)
WaitersAreReachable ==
  \A w \in Waiters : wstate[w] = "Waiting" =>
     \/ w \in Queued
     \/ node[w] \in {"One", "All", "Closed"} /\ (notified[w] \/ \E t \in Threads : w \in hand[t])

(* Both: the list holds the futures that wait for a wakeup, and no others.  *)
WaitersAreListed == LinkedNodesAreLive /\ WaitersAreReachable

(* wait_queue.rs:325: outside critical sections the word says Waiting       *)
(* exactly when there are waiters, so no wakeup is stored past a waiter.    *)
WaitingMeansQueued == lock = NoOne => (state.st = "Waiting" <=> queue # <<>>)

(* wait_queue.rs:1026: "if we are in the Waiting state, there must be       *)
(* waiters in the queue"; 1018: no waiters while a wakeup is being stored;  *)
(* 607: "state should not have transitioned while locked".                  *)
AssertionsHold ==
  \A t \in Threads : pc[t] \notin {"panicNoWaiter", "panicWaiting", "panicTransitioned"}

(* All of it: the word, which wake() reads without the lock, can be trusted. *)
StateMatchesList == WaitingMeansQueued /\ AssertionsHold

(* close: "Once a queue is closed, all [`wait()`] calls (current or future) *)
(* will return an error": the Closed state is never left.                   *)
ClosedIsFinal == [][state.st = "Closed" => state'.st = "Closed"]_vars

(* close: every future that exists when the queue is closed, or is made     *)
(* later, completes.                                                        *)
CloseReleasesEveryone ==
  \A w \in Waiters : (wstate[w] # "None" /\ state.st = "Closed") ~> (wstate[w] = "None")

(* wait: a future made before a wake_all completes.                         *)
WakeAllWakesEveryone ==
  \A w \in Waiters : (wstate[w] # "None" /\ walls[w] # state.alls) ~> (wstate[w] = "None")
=============================================================================

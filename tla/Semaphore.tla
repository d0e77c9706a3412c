------------------------------- MODULE Semaphore -------------------------------
(***************************************************************************)
(* maitake-sync/src/semaphore.rs: an async counting semaphore.  The permit *)
(* count is an atomic word that acquiring tasks decrement without a lock;  *)
(* the FIFO list of waiters and the `closed` flag are guarded by a         *)
(* spinlock.  A waiter collects permits until nothing remains.  One step   *)
(* per atomic operation on the count, and per waiter served; taking the    *)
(* lock is merged with the first step under it, releasing with the last.   *)
(***************************************************************************)
EXTENDS Naturals, Sequences, FiniteSets, Lists

CONSTANTS Tasks,      \* tasks, each with one Acquire future or Permit at a time
          NoOne,      \* the lock is not held
          Initial,    \* Semaphore::new(Initial)
          Sizes,      \* how many permits tasks ask for
          UsizeMax,   \* usize::MAX
          BatchSize,  \* MAX_WAKERS
          MayClose,   \* whether close() is called
          Spurious,   \* whether futures are polled without being woken, too
          MaxChanges  \* bound on calls of add_permits and forget

ASSUME SemaphoreAssumption ==
  /\ NoOne \notin Tasks /\ IsFiniteSet(Tasks)
  /\ UsizeMax \in Nat /\ Initial \in 0..(UsizeMax - 1)
  /\ Sizes \subseteq 1..(UsizeMax - 1)
  /\ BatchSize \in Nat \ {0} /\ {MayClose, Spurious} \subseteq BOOLEAN /\ MaxChanges \in Nat

CLOSED == UsizeMax
MAX_PERMITS == UsizeMax - 1

VARIABLES
  permits,   \* Semaphore::permits
  queue,     \* SemQueue::queue; the head is served first
  closed,    \* SemQueue::closed
  lock,      \* holder of the spinlock
  pc,        \* where each task is
  fut,       \* Acquire: permits (want), waiter.remaining_permits (rem), queued
  loc,       \* locals: needed_permits, sem_curr, permits in transit (acq) and
             \*   whether add_permits_locked was called by a poll
  hand,      \* wakers taken and yet to be woken
  held,      \* permits of the task's Permit
  notified,  \* the task must be polled
  total,     \* permits there should be: initial plus added minus forgotten
  changes    \* how many calls changed the total

vars == <<permits, queue, closed, lock, pc, fut, loc, hand, held, notified, total, changes>>

NoFuture == [want |-> 0, rem |-> 0, queued |-> FALSE]
NoLocals == [need |-> 0, curr |-> 0, acq |-> 0, poll |-> FALSE]
PerTask(v) == [t \in Tasks |-> v]

Init ==
  /\ permits = Initial /\ total = Initial /\ changes = 0
  /\ queue = <<>> /\ closed = FALSE /\ lock = NoOne
  /\ pc = PerTask("idle") /\ fut = PerTask(NoFuture) /\ loc = PerTask(NoLocals)
  /\ held = PerTask(0) /\ hand = PerTask({}) /\ notified = PerTask(FALSE)

GoTo(t, l) == pc' = [pc EXCEPT ![t] = l]
LockFor(t) == lock \in {NoOne, t}
Unlock(t) == lock' = IF lock = t THEN NoOne ELSE lock
Least(m, n) == IF m < n THEN m ELSE n

-----------------------------------------------------------------------------
(* Semaphore::acquire makes a future, to be polled for the first time. *)
Acquire(t) ==
  /\ pc[t] = "idle" /\ held[t] = 0
  /\ \E n \in Sizes : fut' = [fut EXCEPT ![t] = [want |-> n, rem |-> n, queued |-> FALSE]]
  /\ notified' = [notified EXCEPT ![t] = TRUE]
  /\ GoTo(t, "future")
  /\ UNCHANGED <<permits, queue, closed, lock, loc, hand, held, total, changes>>

(* Acquire::poll returns Ready: the future is used up. *)
Ready(t, n) ==
  /\ held' = [held EXCEPT ![t] = n]
  /\ fut' = [fut EXCEPT ![t] = NoFuture] /\ loc' = [loc EXCEPT ![t] = NoLocals]
  /\ GoTo(t, "idle")

(* poll_acquire: how many permits are needed, then the first load. *)
PollNeed(t) ==
  /\ pc[t] = "future" /\ (notified[t] \/ Spurious)
  /\ notified' = [notified EXCEPT ![t] = FALSE]
  /\ loc' = [loc EXCEPT ![t].need = IF fut[t].queued THEN fut[t].rem ELSE fut[t].want]
  /\ GoTo(t, "load")
  /\ UNCHANGED <<permits, queue, closed, lock, fut, hand, held, total, changes>>

PollLoad(t) ==
  /\ pc[t] = "load"
  /\ loc' = [loc EXCEPT ![t].curr = permits]
  /\ GoTo(t, "take")
  /\ UNCHANGED <<permits, queue, closed, lock, fut, hand, held, notified, total, changes>>

(* push_front: the other end of the list is served first. *)
PushFront(q, t) == Append(q, t)

(* RemainingPermits::add and what follows, under the lock, with a permits   *)
(* taken from the semaphore: finish (giving the surplus back) or wait.      *)
Settle(t, a) ==
  LET taken == Least(fut[t].rem, a)
      left == fut[t].rem - taken
  IN
  \/ /\ closed
     /\ Ready(t, 0) /\ lock' = NoOne /\ UNCHANGED queue
  \/ /\ ~closed /\ left = 0 /\ a = taken
     /\ Ready(t, fut[t].want) /\ lock' = NoOne /\ UNCHANGED queue
  \/ /\ ~closed /\ left = 0 /\ a > taken
     /\ fut' = [fut EXCEPT ![t].rem = 0]
     /\ loc' = [loc EXCEPT ![t].acq = a - taken, ![t].poll = TRUE]
     /\ lock' = t /\ GoTo(t, "add") /\ UNCHANGED <<queue, held>>
  \/ /\ ~closed /\ left > 0
     /\ queue' = IF fut[t].queued THEN queue ELSE PushFront(queue, t)
     /\ fut' = [fut EXCEPT ![t].rem = left, ![t].queued = TRUE]
     /\ loc' = [loc EXCEPT ![t] = NoLocals]
     /\ lock' = NoOne /\ GoTo(t, "future") /\ UNCHANGED held

(* Not enough: all there is is taken, with the lock held since before the   *)
(* compare_exchange.                                                        *)
TakeThenLock(t) ==
  /\ permits' = 0
  /\ loc' = [loc EXCEPT ![t].acq = loc[t].curr]
  /\ GoTo(t, "settle")
  /\ UNCHANGED <<queue, lock, fut, held>>
TakeLocked(t) ==
  /\ LockFor(t)
  /\ permits' = 0
  /\ Settle(t, loc[t].curr)

(* The compare_exchange loop: the semaphore is closed; the exchange fails;  *)
(* it yields all that is needed; or it yields what there is.                *)
PollTake(t) ==
  LET curr == loc[t].curr
      need == loc[t].need
  IN
  /\ pc[t] = "take"
  /\ \/ /\ curr = CLOSED
        /\ Ready(t, 0) /\ Unlock(t)
        /\ UNCHANGED <<permits, queue>>
     \/ /\ curr # CLOSED /\ permits # curr
        /\ curr < need => LockFor(t)
        /\ lock' = IF curr < need THEN t ELSE lock
        /\ loc' = [loc EXCEPT ![t].curr = permits]
        /\ UNCHANGED <<permits, queue, pc, fut, held>>
     \/ /\ curr # CLOSED /\ permits = curr /\ curr >= need
        /\ permits' = permits - need
        /\ IF fut[t].queued
           THEN /\ loc' = [loc EXCEPT ![t].acq = need] /\ GoTo(t, "settle")
                /\ UNCHANGED <<lock, fut, held>>
           ELSE Ready(t, fut[t].want) /\ Unlock(t)
        /\ UNCHANGED queue
     \/ /\ curr # CLOSED /\ permits = curr /\ curr < need
        /\ TakeLocked(t)
  /\ UNCHANGED <<closed, hand, notified, total, changes>>

(* A queued waiter got all it needed and locks the list. *)
PollSettle(t) ==
  /\ pc[t] = "settle" /\ LockFor(t)
  /\ Settle(t, loc[t].acq)
  /\ UNCHANGED <<permits, closed, hand, notified, total, changes>>

-----------------------------------------------------------------------------
(* try_acquire: the load, then the compare_exchange loop. *)
TryAcquire(t) ==
  /\ pc[t] = "idle" /\ held[t] = 0
  /\ \E n \in Sizes : loc' = [loc EXCEPT ![t].need = n, ![t].curr = permits]
  /\ GoTo(t, "try")
  /\ UNCHANGED <<permits, queue, closed, lock, fut, hand, held, notified, total, changes>>

TryCas(t) ==
  LET curr == loc[t].curr
      need == loc[t].need
  IN
  /\ pc[t] = "try"
  /\ \/ /\ curr = CLOSED \/ curr < need
        /\ Ready(t, 0) /\ UNCHANGED permits
     \/ /\ curr # CLOSED /\ curr >= need /\ permits = curr
        /\ permits' = permits - need
        /\ Ready(t, need)
     \/ /\ curr # CLOSED /\ curr >= need /\ permits # curr
        /\ loc' = [loc EXCEPT ![t].curr = permits]
        /\ UNCHANGED <<permits, pc, fut, held>>
  /\ UNCHANGED <<queue, closed, lock, hand, notified, total, changes>>

-----------------------------------------------------------------------------
(* add_permits_locked is entered with n permits; a closed semaphore takes   *)
(* none.                                                                    *)
StartAdd(t, n) ==
  /\ lock = NoOne
  /\ IF closed \/ n = 0
     THEN GoTo(t, "idle") /\ UNCHANGED <<lock, loc>>
     ELSE /\ lock' = t /\ loc' = [loc EXCEPT ![t].acq = n]
          /\ GoTo(t, "add")

(* Permit::drop. *)
Release(t) ==
  /\ pc[t] = "idle" /\ held[t] > 0
  /\ StartAdd(t, held[t])
  /\ held' = [held EXCEPT ![t] = 0]
  /\ UNCHANGED <<permits, queue, closed, fut, hand, notified, total, changes>>

(* add_permits by a task that owns nothing, within the documented limit. *)
AddPermits(t) ==
  /\ pc[t] = "idle" /\ held[t] = 0 /\ changes < MaxChanges /\ ~closed /\ total < MAX_PERMITS
  /\ StartAdd(t, 1)
  /\ total' = total + 1 /\ changes' = changes + 1
  /\ UNCHANGED <<permits, queue, closed, fut, hand, held, notified>>

(* Permit::forget. *)
Forget(t) ==
  /\ pc[t] = "idle" /\ held[t] > 0 /\ changes < MaxChanges
  /\ held' = [held EXCEPT ![t] = 0]
  /\ total' = total - held[t] /\ changes' = changes + 1
  /\ UNCHANGED <<permits, queue, closed, lock, pc, fut, loc, hand, notified>>

(* List::remove. *)
KeepNode(q, t) == q
RemoveNode(q, t) == Unlink(q, t)

(* What a waiting future has collected so far. *)
ForgetCollected(t) == 0
Collected(t) == fut[t].want - fut[t].rem

(* drop_acquire: what was collected goes back. *)
Drop(t) ==
  /\ pc[t] = "future"
  /\ fut' = [fut EXCEPT ![t] = NoFuture]
  /\ notified' = [notified EXCEPT ![t] = FALSE]
  /\ IF fut[t].queued
     THEN queue' = RemoveNode(queue, t) /\ StartAdd(t, Collected(t))
     ELSE GoTo(t, "idle") /\ UNCHANGED <<queue, lock, loc>>
  /\ UNCHANGED <<permits, closed, hand, held, total, changes>>

(* The inner loop of add_permits_locked serves the oldest waiter. *)
Full(t) == Cardinality(hand[t]) = BatchSize
AddToWaiter(t) ==
  /\ pc[t] = "add" /\ queue # <<>> /\ ~Full(t)
  /\ LET w == Head(queue)
         taken == Least(fut[w].rem, loc[t].acq)
     IN  /\ fut' = [fut EXCEPT ![w].rem = @ - taken]
         /\ loc' = [loc EXCEPT ![t].acq = @ - taken]
         /\ IF fut[w].rem = taken
            THEN /\ queue' = Tail(queue) /\ hand' = [hand EXCEPT ![t] = @ \cup {w}]
                 /\ UNCHANGED <<pc, lock>>
            ELSE /\ GoTo(t, "wake") /\ lock' = NoOne
                 /\ UNCHANGED <<queue, hand>>
  /\ UNCHANGED <<permits, closed, held, notified, total, changes>>

(* The queue is drained: what is left goes to the semaphore.  The assertion *)
(* that the count does not overflow is a panic.                             *)
AddRest(t) ==
  LET rest == loc[t].acq
      sum == (permits + rest) % (UsizeMax + 1)
  IN
  /\ pc[t] = "add" /\ queue = <<>> /\ ~Full(t)
  /\ permits' = sum
  /\ loc' = [loc EXCEPT ![t].acq = 0]
  /\ lock' = NoOne
  /\ GoTo(t, IF rest = 0 \/ sum <= MAX_PERMITS THEN "wake" ELSE "panicOverflow")
  /\ UNCHANGED <<queue, closed, fut, hand, held, notified, total, changes>>

(* The batch is full: release the lock. *)
AddFull(t) ==
  /\ pc[t] = "add" /\ Full(t)
  /\ lock' = NoOne
  /\ GoTo(t, "wake")
  /\ UNCHANGED <<permits, queue, closed, fut, loc, hand, held, notified, total, changes>>

(* Waker::wake: it has no effect on a task that has no future to poll. *)
SkipWake(w) == UNCHANGED notified
Notify(w) ==
  notified' = [notified EXCEPT ![w] = pc[w] \in {"future", "load", "take", "settle"}]

(* WakeBatch::wake_all. *)
AddWake(t) ==
  /\ pc[t] = "wake" /\ hand[t] # {}
  /\ \E w \in hand[t] :
       /\ Notify(w)
       /\ hand' = [hand EXCEPT ![t] = @ \ {w}]
  /\ UNCHANGED <<permits, queue, closed, lock, pc, fut, loc, held, total, changes>>

(* Then the lock is taken again, to go on or to return. *)
AddAgain(t) ==
  /\ pc[t] = "wake" /\ hand[t] = {} /\ lock = NoOne
  /\ \/ /\ loc[t].acq > 0
        /\ lock' = t /\ GoTo(t, "add") /\ UNCHANGED <<fut, loc, held>>
     \/ /\ loc[t].acq = 0 /\ loc[t].poll
        /\ Ready(t, fut[t].want) /\ UNCHANGED lock
     \/ /\ loc[t].acq = 0 /\ ~loc[t].poll
        /\ GoTo(t, "idle") /\ UNCHANGED <<lock, fut, loc, held>>
  /\ UNCHANGED <<permits, queue, closed, hand, notified, total, changes>>

(* close, called once: the count is stored, which polls see without the     *)
(* lock; then, under the lock, every waiter is unlinked and woken.          *)
Close(t) ==
  /\ MayClose /\ ~closed /\ pc[t] = "idle" /\ lock = NoOne
  /\ closed' = TRUE /\ permits' = CLOSED
  /\ lock' = t /\ GoTo(t, "close")
  /\ UNCHANGED <<queue, fut, loc, hand, held, notified, total, changes>>

CloseWake(t) ==
  /\ pc[t] = "close"
  /\ \/ /\ queue # <<>>
        /\ queue' = Tail(queue) /\ Notify(Head(queue))
        /\ UNCHANGED <<lock, pc>>
     \/ /\ queue = <<>>
        /\ lock' = NoOne /\ GoTo(t, "idle")
        /\ UNCHANGED <<queue, notified>>
  /\ UNCHANGED <<permits, closed, fut, loc, hand, held, total, changes>>

-----------------------------------------------------------------------------
Proceed(t) ==
  \/ PollNeed(t) \/ PollLoad(t) \/ PollTake(t) \/ PollSettle(t) \/ TryCas(t)
  \/ AddToWaiter(t) \/ AddRest(t) \/ AddFull(t) \/ AddWake(t) \/ AddAgain(t)
  \/ CloseWake(t)

Next == \E t \in Tasks :
  \/ Acquire(t) \/ TryAcquire(t) \/ Release(t) \/ AddPermits(t) \/ Forget(t) \/ Drop(t)
  \/ Close(t) \/ Proceed(t)

Spec == Init /\ [][Next]_vars

(* Operations end, spinning threads get the lock, woken tasks are polled    *)
(* and permits are released in the end.                                     *)
FairSpec == Spec /\ \A t \in Tasks : SF_vars(Proceed(t) \/ Release(t))

-----------------------------------------------------------------------------
(* The sum of what the tasks have: the size of a disjoint union. *)
Sum(f) == Cardinality(UNION {{t} \X (1..f[t]) : t \in Tasks})

(* Permits are neither lost nor made up: the free ones, those in Permits,   *)
(* those collected by waiting futures and those in transit add up, however  *)
(* polls, drops and releases interleave.  In an RwLock, where there are     *)
(* MAX_READERS permits (rwlock.rs:111), a writer that holds them all is     *)
(* therefore alone.                                                         *)
PermitsAreConserved ==
  ~closed => permits + Sum(held) + Sum([t \in Tasks |-> IF fut[t].queued THEN Collected(t) ELSE 0])
             + Sum([t \in Tasks |-> loc[t].acq])
             + Sum([t \in Tasks |-> IF loc[t].poll /\ ~fut[t].queued THEN fut[t].want ELSE 0]) = total

(* "as permits become available, they are assigned to waiting tasks": there *)
(* are never free permits, for a newcomer to take, while a task is queued.  *)
NoFreePermitsWhileWaiting == ~closed /\ permits > 0 => queue = <<>>

(* semaphore.rs:712, "If the future is completed, there is no node in the   *)
(* wait list": every linked node belongs to a future that still exists and  *)
(* knows that it is queued, so that drop_acquire unlinks it.                *)
LinkedWaitersAreLive == \A i \in DOMAIN queue : fut[queue[i]].queued

(* As long as the semaphore is open, a linked node moreover needs permits,  *)
(* is linked only once, and its future is not about to complete.            *)
WaitersAreLinkedOnce == ~closed =>
  /\ \A i \in DOMAIN queue :
       fut[queue[i]].queued /\ fut[queue[i]].rem > 0 /\ pc[queue[i]] \in {"future", "load", "take"}
  /\ \A i, j \in DOMAIN queue : queue[i] = queue[j] => i = j

(* A future that waits is linked, or has been (or will be) notified.        *)
WaitersAreReachable ==
  \A t \in Tasks : pc[t] = "future" =>
     \/ \E i \in DOMAIN queue : queue[i] = t
     \/ notified[t] \/ \E u \in Tasks : t \in hand[u]

(* Both: the list holds the futures that wait for permits, and no others.   *)
WaitersAreListed == WaitersAreLinkedOnce /\ WaitersAreReachable

(* "all tasks waiting to acquire permits will eventually be allowed to      *)
(* progress [...] (provided that permits are eventually released)": a       *)
(* linked waiter does not stay linked, however many newcomers there are.    *)
(* (Its own compare_exchange may still lose to others any number of times.) *)
Linked(t) == \E i \in DOMAIN queue : queue[i] = t
WaitersProgress == \A t \in Tasks : []<>~Linked(t)
=============================================================================

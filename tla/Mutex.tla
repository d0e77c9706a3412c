--------------------------------- MODULE Mutex ---------------------------------
(***************************************************************************)
(* maitake-sync/src/mutex.rs: an async mutex made of a WaitQueue that      *)
(* starts with one stored wakeup.  A task owns the lock from the moment    *)
(* its wait is given a wakeup; dropping the guard calls wake().  The       *)
(* module composes the actions of WaitQueue: every task is both a waiter   *)
(* and, when it drops its guard or a woken Lock future, a waker.           *)
(***************************************************************************)
EXTENDS WaitQueue

(* new: the queue must start with a single stored wakeup. *)
InitMutex == InitWith("Woken")

(* The task has a MutexGuard. *)
Holding(w) == pc[w] = "idle" /\ res[w] = "Ok"

(* Mutex::lock and try_lock by a task that does not hold the guard. *)
Lock(w) == ~Holding(w) /\ NewWait(w)
TryLock(w) == ~Holding(w) /\ TryWait(w)

(* WakeOnDrop::drop, the first step of wake(). *)
Unlock(w) ==
  /\ Holding(w)
  /\ WakeSaw(w, state)
  /\ res' = [res EXCEPT ![w] = "none"]
  /\ UNCHANGED <<state, queue, lock, node, wstate, walls, hand, ret, notified, ops>>

(* The rest of wake().  While a task hands the lock on the word is Empty or *)
(* Waiting and changes from Empty under the queue's lock only: WlCas cannot  *)
(* fail, and WlStore is never reached.                                      *)
HandOn(w) == WakeCas(w) \/ WakeLock(w) \/ WlCas(w) \/ WlEmpty(w) \/ WakeOne(w)

Task(w) ==
  \/ Lock(w) \/ Poll(w) \/ Drop(w) \/ RelStore(w)
  \/ TryLock(w) \/ TryCas(w) \/ Unlock(w) \/ HandOn(w)

NextMutex == \E w \in Waiters : Task(w)

SpecMutex == InitMutex /\ [][NextMutex]_vars

(* As for WaitQueue; tasks also drop their guards. *)
FairSpecMutex ==
  /\ SpecMutex
  /\ \A w \in Waiters :
       SF_vars(Poll(w) \/ RelStore(w) \/ TryCas(w) \/ Unlock(w) \/ HandOn(w))

-----------------------------------------------------------------------------
(* The task has been given the lock and has not handed it on: it holds the  *)
(* guard, its waiting future was woken, or it is about to wake the next.    *)
Owns(w) ==
  \/ Holding(w)
  \/ wstate[w] = "Waiting" /\ node[w] = "One"
  \/ pc[w] \in {"wkCas", "wkLock", "wlCas", "wlStore"}

owner == IF \E w \in Waiters : Owns(w) THEN CHOOSE w \in Waiters : Owns(w) ELSE NoOne

(* Mutex::guard: "we have just acquired the lock": no two tasks hold the    *)
(* guard, that is a mutable reference to the data, at once.                 *)
MutualExclusion == \A w, u \in Waiters : Holding(w) /\ Holding(u) => w = u

(* mutex.rs:47: "the lock is always acquired in a first-in, first-out       *)
(* order": the mutex implements HandoffLock.                                *)
Handoff == INSTANCE HandoffLock WITH Tasks <- Waiters, owner <- owner, waiting <- queue
HandsOff == Handoff!Spec

(* A task that is in the queue and does not give up gets the lock.  (Before *)
(* it is queued, other tasks can defeat its compare_exchange for ever.)     *)
LockIsGranted == \A w \in Waiters : (wstate[w] = "Waiting") ~> (wstate[w] = "None")
=============================================================================

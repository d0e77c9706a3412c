-------------------------------- MODULE WaitMap --------------------------------
(* maitake-sync's WaitMap (maitake-sync/src/wait_map.rs): tasks wait for the   *)
(* value of a key, and wake(key, val) hands val to the task that waits for it. *)
(* One step per atomic operation on the state word; the first one in a         *)
(* critical section also takes the lock, the last one releases it.             *)
EXTENDS Naturals, Sequences, FiniteSets, Lists

CONSTANTS Waiters,     \* tasks, each with at most one Wait future
          Wakers,      \* threads that call wake and close
          Keys, Vals,
          NoOne,       \* the mutex is not held; no value
          BatchSize    \* MAX_WAKERS

VARIABLES
  mstate,   \* State: "Empty", "Waiting" or "Closed"
  mqueue,   \* the list of waiters; pop_back takes the head, push_front appends
  mlock,    \* holder of the mutex around it
  wakeup,   \* Node::waker: a variant of Wakeup, or the value DataReceived holds
  wstate,   \* Waiter::state ("None": the task has no future)
  key,      \* Waiter::key
  mpc,      \* where each thread is
  call,     \* the value of a wake call
  sent,     \* the key each value was sent to
  taken,    \* tasks whose Waker a thread has taken and has yet to call
  woken,    \* tasks to be polled
  unsent    \* values no call and no future has

vars == <<mstate, mqueue, mlock, wakeup, wstate, key, mpc, call, sent, taken, woken, unsent>>
futures == <<wakeup, wstate, key>>

Threads == Waiters \cup Wakers

Init ==
  /\ mstate = "Empty" /\ mqueue = <<>> /\ mlock = NoOne
  /\ wakeup = [w \in Waiters |-> "Empty"]
  /\ wstate = [w \in Waiters |-> "None"]
  /\ key = [w \in Waiters |-> NoOne]
  /\ mpc = [t \in Threads |-> "idle"]
  /\ call = [t \in Wakers |-> NoOne]
  /\ sent = [v \in Vals |-> NoOne]
  /\ taken = [t \in Wakers |-> {}]
  /\ woken = {} /\ unsent = Vals

GoTo(t, l) == mpc' = [mpc EXCEPT ![t] = l]
Listed(w) == w \in Elems(mqueue)

-----------------------------------------------------------------------------
(* WaitMap::wait, wait_owned *)
NewWait(w) ==
  /\ mpc[w] = "idle" /\ wstate[w] = "None"
  /\ \E k \in Keys : key' = [key EXCEPT ![w] = k]
  /\ wstate' = [wstate EXCEPT ![w] = "Start"]
  /\ wakeup' = [wakeup EXCEPT ![w] = "Empty"]
  /\ woken' = woken \cup {w}
  /\ UNCHANGED <<mstate, mqueue, mlock, mpc, call, taken, unsent, sent>>

(* A waiter for the same key is on the list. *)
Duplicate(w) == \E i \in DOMAIN mqueue : key[mqueue[i]] = key[w]

(* start_to_wait once the state is Waiting: a duplicate stays in Start. *)
Push(w) ==
  /\ IF Duplicate(w)
       THEN UNCHANGED <<mqueue, wstate, wakeup>>
       ELSE /\ wstate' = [wstate EXCEPT ![w] = "Waiting"]
            /\ wakeup' = [wakeup EXCEPT ![w] = "Waiting"]
            /\ mqueue' = Append(mqueue, w)
  /\ UNCHANGED <<key, call, taken, unsent>>

(* Subscribe::poll, and poll_wait of a future in Start: the load. *)
StartToWait(w) ==
  /\ mpc[w] = "idle" /\ wstate[w] = "Start" /\ mlock = NoOne
  /\ woken' = woken \ {w}
  /\ \/ /\ mstate = "Empty"
        /\ mlock' = w /\ GoTo(w, "startCas")
        /\ UNCHANGED <<mqueue, futures, call, taken, unsent>>
     \/ /\ mstate = "Waiting" /\ Push(w)
        /\ UNCHANGED <<mlock, mpc>>
     \/ /\ mstate = "Closed"
        /\ UNCHANGED <<mlock, mpc, mqueue, futures, call, taken, unsent>>
  /\ UNCHANGED <<mstate, sent>>

(* start_to_wait's compare_exchange; close() may have come before it. *)
StartCas(w) ==
  /\ mpc[w] = "startCas"
  /\ IF mstate # "Empty"
       THEN UNCHANGED <<mstate, mqueue, futures, call, taken, unsent>>
       ELSE mstate' = "Waiting" /\ Push(w)
  /\ mlock' = NoOne /\ GoTo(w, "idle")
  /\ UNCHANGED <<woken, sent>>

(* A value that somebody has back is no longer sent. *)
ForgetSent == sent' = [v \in Vals |-> IF v \in unsent' THEN NoOne ELSE sent[v]]

(* poll_wait of a future in Waiting; in Completed it changes nothing. *)
PollWait(w) ==
  /\ mpc[w] = "idle" /\ mlock = NoOne
  /\ wstate[w] = "Waiting"
  /\ \/ /\ wakeup[w] \in {"Waiting", "Retrieved"}
        /\ UNCHANGED <<wakeup, wstate, unsent>>
     \/ /\ wakeup[w] \in Vals
        /\ wakeup' = [wakeup EXCEPT ![w] = "Retrieved"]
        /\ unsent' = unsent \cup {wakeup[w]}
        /\ UNCHANGED wstate
     \/ /\ wakeup[w] = "Closed"
        /\ wstate' = [wstate EXCEPT ![w] = "Completed"]
        /\ UNCHANGED <<wakeup, unsent>>
  /\ woken' = woken \ {w}
  /\ UNCHANGED <<mstate, mqueue, mlock, key, mpc, call, taken>>
  /\ ForgetSent

(* release, the drop of a future, in one critical section: the load, the      *)
(* removal and, when the list is empty, the store.  An undelivered value is   *)
(* dropped with the future.                                                   *)
Removed(w) == Unlink(mqueue, w)

Dropped(w) ==
  /\ wstate' = [wstate EXCEPT ![w] = "None"]
  /\ wakeup' = [wakeup EXCEPT ![w] = "Empty"]
  /\ key' = [key EXCEPT ![w] = NoOne]
  /\ unsent' = unsent \cup ({wakeup[w]} \cap Vals)
  /\ woken' = woken \ {w}

Release(w) ==
  /\ mpc[w] = "idle"
  /\ \/ /\ wstate[w] \in {"Start", "Completed"}
        /\ Dropped(w)
        /\ UNCHANGED <<mqueue, mlock, mpc>>
     \/ /\ wstate[w] = "Waiting" /\ mlock = NoOne
        /\ mqueue' = Removed(w)
        /\ Dropped(w)
        /\ IF mqueue' = <<>> /\ mstate = "Waiting"
             THEN mlock' = w /\ GoTo(w, "storeEmpty")
             ELSE UNCHANGED <<mlock, mpc>>
  /\ UNCHANGED <<mstate, call, taken>>
  /\ ForgetSent

(* release and node_match_locked end with the store of Empty, whatever the    *)
(* word has become since it was loaded.                                       *)
StoreEmpty(t) ==
  /\ mpc[t] = "storeEmpty"
  /\ mstate' = "Empty" /\ mlock' = NoOne
  /\ GoTo(t, IF t \in Wakers THEN "wakeAll" ELSE "idle")
  /\ UNCHANGED <<mqueue, futures, call, taken, woken, unsent, sent>>

-----------------------------------------------------------------------------
(* WaitMap::wake: the load outside the lock. *)
Wake(t) ==
  /\ mpc[t] = "idle"
  /\ mstate = "Waiting"
  /\ \E k \in Keys, v \in unsent :
       /\ call' = [call EXCEPT ![t] = v]
       /\ sent' = [sent EXCEPT ![v] = k]
       /\ unsent' = unsent \ {v}
  /\ GoTo(t, "wakeLock")
  /\ UNCHANGED <<mstate, mqueue, mlock, futures, taken, woken>>

(* WakeOutcome::NoMatch: the caller has its value back. *)
GiveBack(t) ==
  /\ unsent' = unsent \cup {call[t]}
  /\ call' = [call EXCEPT ![t] = NoOne]
  /\ GoTo(t, "idle")

(* node_match_locked's search (mutant of Matches: whoever waits). *)
FirstMatches(t, w) == w = mqueue[1]
Matches(t, w) == Listed(w) /\ key[w] = sent[call[t]]

(* The Waker is taken out of the node as the value is put in. *)
WakerTaken(ws) == ws

(* wake in the lock: load, remove_first, Waiter::wake; the state is stored    *)
(* only if the list is empty now.                                             *)
WakeLocked(t) ==
  /\ mpc[t] = "wakeLock" /\ mlock = NoOne
  /\ \/ /\ mstate # "Waiting" \/ ~\E w \in Waiters : Matches(t, w)
        /\ IF mstate = "Waiting" /\ mqueue = <<>>
             THEN mlock' = t /\ GoTo(t, "storeNoMatch") /\ UNCHANGED <<call, unsent>>
             ELSE GiveBack(t) /\ UNCHANGED mlock
        /\ UNCHANGED <<mqueue, wakeup, taken>>
     \/ \E w \in Waiters :
          /\ mstate = "Waiting" /\ Matches(t, w)
          /\ mqueue' = Unlink(mqueue, w)
          /\ wakeup' = [wakeup EXCEPT ![w] = call[t]]
          /\ taken' = [taken EXCEPT ![t] = WakerTaken({w})]
          /\ call' = [call EXCEPT ![t] = NoOne]
          /\ IF mqueue' = <<>>
               THEN mlock' = t /\ GoTo(t, "storeEmpty")
               ELSE GoTo(t, "wakeAll") /\ UNCHANGED mlock
          /\ UNCHANGED unsent
  /\ UNCHANGED <<mstate, wstate, key, woken>>
  /\ ForgetSent

StoreNoMatch(t) ==
  /\ mpc[t] = "storeNoMatch"
  /\ mstate' = "Empty" /\ mlock' = NoOne
  /\ GiveBack(t)
  /\ UNCHANGED <<mqueue, futures, taken, woken>>
  /\ ForgetSent

(* WakeBatch::wake_all, or the one Waker of wake; then the next batch of a    *)
(* close() that filled this one.                                              *)
WakeAll(t) ==
  /\ mpc[t] \in {"wakeAll", "wakeMore"}
  /\ woken' = woken \cup taken[t]
  /\ taken' = [taken EXCEPT ![t] = {}]
  /\ GoTo(t, IF mpc[t] = "wakeMore" THEN "close" ELSE "idle")
  /\ UNCHANGED <<mstate, mqueue, mlock, futures, call, unsent, sent>>

(* close: the fetch_or, without the lock. *)
Close(t) ==
  /\ mpc[t] = "idle"
  /\ mstate' = "Closed"
  /\ IF mstate = "Waiting" THEN GoTo(t, "close") ELSE UNCHANGED mpc
  /\ UNCHANGED <<mqueue, mlock, futures, call, taken, woken, unsent, sent>>

(* How many nodes a batch takes from the back; a full batch asks for another  *)
(* round (mutant of More: it does not).                                       *)
Batch == IF Len(mqueue) < BatchSize THEN Len(mqueue) ELSE BatchSize
NoMore(n) == FALSE
More(n) == n = BatchSize

CloseBatch(t) ==
  /\ mpc[t] = "close" /\ mlock = NoOne
  /\ LET n == Batch
         ws == {mqueue[i] : i \in 1..n}
     IN /\ mqueue' = SubSeq(mqueue, n + 1, Len(mqueue))
        /\ wakeup' = [w \in Waiters |-> IF w \in ws THEN "Closed" ELSE wakeup[w]]
        /\ taken' = [taken EXCEPT ![t] = WakerTaken(ws)]
        /\ GoTo(t, IF More(n) THEN "wakeMore" ELSE "wakeAll")
  /\ UNCHANGED <<mstate, mlock, wstate, key, call, woken, unsent, sent>>

-----------------------------------------------------------------------------
Next ==
  \/ \E w \in Waiters : NewWait(w) \/ StartToWait(w) \/ StartCas(w) \/ PollWait(w) \/ Release(w)
  \/ \E t \in Threads : StoreEmpty(t)
  \/ \E t \in Wakers : \/ Wake(t) \/ WakeLocked(t) \/ StoreNoMatch(t)
                       \/ WakeAll(t) \/ Close(t) \/ CloseBatch(t)

Spec == Init /\ [][Next]_vars

-----------------------------------------------------------------------------
(* Properties *)

(* No value is lost, given to two or to the wrong one: each is with nobody,   *)
(* in one call of wake or in one future, which waits for the key of the call. *)
Places(v) ==
  Cardinality({t \in Wakers : call[t] = v}) + Cardinality({w \in Waiters : wakeup[w] = v})
    + (IF v \in unsent THEN 1 ELSE 0)
ValuesHaveOnePlace ==
  \A v \in Vals : Places(v) = 1 /\ \A w \in Waiters : wakeup[w] = v => key[w] = sent[v]

(* "duplicate key": no two futures on the list wait for the same key, so that *)
(* wake need not choose.                                                      *)
KeysAreUnique ==
  \A i, j \in DOMAIN mqueue : key[mqueue[i]] = key[mqueue[j]] => i = j

(* Waiter::wake's unreachable!("tried to wake a waiter in the {:?} state!"),  *)
(* and no node of a dropped future is on the list.                            *)
ListedAreWaiting ==
  \A i \in DOMAIN mqueue : wstate[mqueue[i]] = "Waiting" /\ wakeup[mqueue[i]] = "Waiting"

(* A future that waits can be reached: it is on the list while the word lets  *)
(* wake in or a close() is draining the list.                                 *)
WaitersCanBeWoken ==
  \A w \in Waiters : wstate[w] = "Waiting" /\ wakeup[w] = "Waiting" =>
    /\ Listed(w)
    /\ mstate = "Waiting" \/ \E t \in Wakers : mpc[t] \in {"close", "wakeMore"}

(* A future that has a value or was closed is polled again: its task has been *)
(* woken, or the thread that did it is about to.                              *)
ResolvedIsWoken ==
  \A w \in Waiters : wstate[w] = "Waiting" /\ wakeup[w] \in Vals \cup {"Closed"} =>
    w \in woken \/ \E t \in Wakers : w \in taken[t]

(* Both: no future that waits is forgotten.                                   *)
WaitersAreReachable == WaitersCanBeWoken /\ ResolvedIsWoken

(* The list and what the futures hold agree.                                  *)
MapIsSound == ValuesHaveOnePlace /\ KeysAreUnique /\ ListedAreWaiting
=============================================================================

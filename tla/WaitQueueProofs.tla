---------------------------- MODULE WaitQueueProofs ----------------------------
(***************************************************************************)
(* WaitQueue for any number of tasks and threads: the list holds the       *)
(* futures that wait, and the word tells whether there are any.            *)
(***************************************************************************)
EXTENDS WaitQueue, ListLemmas, FiniteSetTheorems, WellFoundedInduction, TLAPS

Word == [st : {"Empty", "Waiting", "Woken", "Closed"}, alls : Nat]
Polling == {"pollFast", "pollLock", "pollCas"}
Panics == {"panicNoWaiter", "panicWaiting", "panicTransitioned"}
Pcs == {"idle", "held", "batch", "wlCas", "wlStore", "wlEmpty", "relStore", "wkCas", "wkLock",
        "allAdd", "allCas", "allLock", "closeLock"} \cup Polling \cup Panics

Typed ==
  /\ state \in Word
  /\ queue \in Seq(Waiters)
  /\ lock \in Threads \cup {NoOne}
  /\ node \in [Waiters -> {"Empty", "Waiting", "One", "All", "Closed"}]
  /\ wstate \in [Waiters -> {"None", "Start", "Waiting"}]
  /\ pc \in [Threads -> Pcs]
  /\ snap \in [Threads -> Word]
  /\ hand \in [Threads -> SUBSET Waiters]
  /\ ret \in [Threads -> {"idle", "allLock", "closeLock"}]
  /\ notified \in [Waiters -> BOOLEAN]
  /\ ops \in Usages

(* How far the future of a task is, at each place of its task. *)
Stage(w) ==
  /\ pc[w] = "held" => wstate[w] # "None"
  /\ pc[w] \in Polling => wstate[w] = "Start"
  /\ pc[w] \notin Polling \cup {"held"} => wstate[w] = "None"

(* A node is on the list exactly if its future waits and was not woken.  A    *)
(* node without a waker was subscribed: its task has yet to poll.  A woken    *)
(* node's task is notified, or about to be by a thread that has its waker.    *)
NodeInv(w) ==
  /\ w \in Elems(queue) <=> wstate[w] = "Waiting" /\ node[w] \in {"Empty", "Waiting"}
  /\ wstate[w] = "Waiting" /\ node[w] = "Empty" => notified[w]
  /\ wstate[w] = "Waiting" /\ node[w] \notin {"Empty", "Waiting"} =>
       notified[w] \/ \E t \in Threads : w \in hand[t]

(* Wakers are held in two places only, so none are overwritten. *)
HandInv(t) == hand[t] # {} => pc[t] \in {"batch", "wlEmpty"}

ListInv ==
  /\ Distinct(queue)
  /\ \A w \in Waiters : Stage(w) /\ NodeInv(w)
  /\ \A t \in Threads : HandInv(t)

IInv == Typed /\ ListInv

(* The queue is not closed, and a wake_all takes every waiter in one batch. *)
OneBatch ==
  \A u \in Usages :
    /\ "close" \notin u
    /\ "wake_all" \in u => IsFiniteSet(Waiters) /\ Cardinality(Waiters) <= BatchSize

(* Between taking the last node off the list and storing Empty. *)
Emptying(t) == pc[t] \in {"wlEmpty", "relStore"}

(* The thread is inside a critical section of the list's lock. *)
Critical == {"pollCas", "wlCas", "wlStore", "wlEmpty", "relStore", "allCas", "allAdd"}

(* What a thread may rely on at its place. *)
Sees(t) ==
  /\ pc[t] \in Critical => lock = t
  /\ Emptying(t) => queue = <<>> /\ state.st = "Waiting"
  /\ pc[t] \in {"wlCas", "wlStore"} => state.st # "Waiting"
  /\ pc[t] = "allCas" => state = snap[t] /\ state.st = "Waiting" /\ "wake_all" \in ops
  /\ pc[t] = "wkCas" => snap[t].st # "Waiting"
  /\ pc[t] = "relStore" => t \in Waiters /\ node[t] # "One"
  /\ pc[t] \notin Panics \cup {"allLock", "closeLock"}
  /\ ret[t] = "idle"

(* The word says Waiting exactly if there are nodes, except for a thread that *)
(* is emptying the list; the lock protects that window.                      *)
WordInv ==
  /\ state.st # "Closed"
  /\ (\A t \in Threads : ~Emptying(t)) => (state.st = "Waiting" <=> queue # <<>>)
  /\ \A t \in Threads : Sees(t)
-----------------------------------------------------------------------------
(* The list. *)

(* The new queue is empty, and nobody waits. *)
LEMMA InitIInv == Init => IInv
<1> SUFFICES ASSUME Init PROVE IInv
  OBVIOUS
<1> USE WaitQueueAssumption DEF Init, InitWith, Threads
<1>1. Typed
  BY DEF Typed, Word, Pcs
<1>2. Distinct(queue) /\ Elems(queue) = {}
  BY DEF Distinct, Elems
<1>3. \A w \in Waiters : Stage(w) /\ NodeInv(w)
  BY <1>2 DEF Stage, NodeInv, Polling
<1>4. \A t \in Threads : HandInv(t)
  BY DEF HandInv
<1> QED
  BY <1>1, <1>2, <1>3, <1>4 DEF IInv, ListInv

(* A step of the thread t that changes neither the list nor a future. *)
LEMMA QuietStep ==
  ASSUME NEW t \in Threads, IInv, Typed', NEW l \in Pcs,
         UNCHANGED <<queue, node, wstate, notified, hand>>,
         pc' = [pc EXCEPT ![t] = l],
         {pc[t], l} \cap (Polling \cup {"held"}) = {},
         hand[t] = {} \/ l \in {"batch", "wlEmpty"}
  PROVE  IInv'
<1>1. \A w \in Waiters : Stage(w)'
  BY DEF IInv, Typed, ListInv, Stage, Threads
<1>2. \A w \in Waiters : NodeInv(w)'
  BY DEF IInv, ListInv, NodeInv
<1>3. \A u \in Threads : HandInv(u)'
  BY DEF IInv, Typed, ListInv, HandInv
<1> QED
  BY <1>1, <1>2, <1>3 DEF IInv, ListInv

(* A step of a task that changes its own future only. *)
LEMMA OwnStep ==
  ASSUME NEW w \in Waiters, IInv, Typed', NEW l \in Pcs,
         \A u \in Waiters \ {w} : /\ node'[u] = node[u] /\ wstate'[u] = wstate[u]
                                  /\ notified'[u] = notified[u],
         UNCHANGED hand, hand[w] = {},
         pc' = [pc EXCEPT ![w] = l],
         Distinct(queue'), \A u \in Waiters \ {w} : u \in Elems(queue') <=> u \in Elems(queue),
         Stage(w)', NodeInv(w)'
  PROVE  IInv'
<1>1. \A u \in Waiters : Stage(u)'
  BY DEF IInv, Typed, ListInv, Stage, Threads
<1>2. ASSUME NEW u \in Waiters PROVE NodeInv(u)'
  <2>1. CASE u = w
    BY <2>1
  <2>2. CASE u # w
    <3>1. NodeInv(u)
      BY DEF IInv, ListInv
    <3> QED
      BY <2>2, <3>1 DEF NodeInv
  <2> QED
    BY <2>1, <2>2
<1>3. \A u \in Threads : HandInv(u)'
  BY DEF IInv, Typed, ListInv, HandInv
<1> QED
  BY <1>1, <1>2, <1>3 DEF IInv, ListInv

(* Waiter::wake on nodes ws that the thread t has taken off the list. *)
LEMMA TakeStep ==
  ASSUME NEW t \in Threads, IInv, Typed', NEW l \in Pcs,
         NEW ws \in SUBSET Elems(queue), NEW x \in {"One", "All", "Closed"},
         WakeNodes(t, ws, x),
         Distinct(queue'), Elems(queue') = Elems(queue) \ ws,
         pc' = [pc EXCEPT ![t] = l],
         hand[t] = {}, hand'[t] # {} => l \in {"batch", "wlEmpty"},
         \A u \in Waiters : u # t => wstate'[u] = wstate[u] /\ notified'[u] = notified[u],
         t \in Waiters => wstate'[t] = "None" /\ t \notin Elems(queue),
         l \notin Polling \cup {"held"}
  PROVE  IInv'
<1>1. Elems(queue) \subseteq Waiters /\ t \in Waiters \cup Wakers
  BY ElemsType DEF IInv, Typed, Threads
<1>2. \A w \in Waiters : Stage(w)'
  BY DEF IInv, Typed, ListInv, Stage, Threads
<1>3. ASSUME NEW u \in Waiters PROVE NodeInv(u)'
  <2>1. NodeInv(u)
    BY DEF IInv, ListInv
  <2>2. CASE u = t
    <3>1. u \notin Elems(queue') /\ wstate'[u] = "None"
      BY <2>2
    <3> QED
      BY <3>1 DEF NodeInv
  <2>3. CASE u # t /\ u \in ws
    <3>1. /\ wstate'[u] = wstate[u] /\ notified'[u] = notified[u] /\ u \in Elems(queue)
          /\ node'[u] = x /\ u \notin Elems(queue')
      BY <2>3 DEF WakeNodes
    <3>2. node[u] = "Waiting" => u \in hand'[t]
      BY <2>3 DEF WakeNodes, IInv, Typed
    <3>3. notified[u] \/ node[u] = "Waiting"
      BY <2>1, <3>1 DEF NodeInv
    <3> QED
      BY <3>1, <3>2, <3>3 DEF NodeInv
  <2>4. CASE u # t /\ u \notin ws
    <3>1. /\ wstate'[u] = wstate[u] /\ notified'[u] = notified[u] /\ node'[u] = node[u]
          /\ u \in Elems(queue') <=> u \in Elems(queue)
      BY <2>4 DEF WakeNodes
    <3>2. \A v \in Threads : u \in hand[v] => u \in hand'[v]
      BY DEF WakeNodes, IInv, Typed
    <3> QED
      BY <2>1, <3>1, <3>2 DEF NodeInv
  <2> QED
    BY <2>2, <2>3, <2>4
<1>4. \A u \in Threads : HandInv(u)'
  BY DEF IInv, Typed, ListInv, HandInv, WakeNodes
<1> QED
  BY <1>2, <1>3, <1>4 DEF IInv, ListInv
(* WaitQueue::wait. *)
LEMMA NewWaitStep == ASSUME NEW w \in Waiters, IInv, NewWait(w) PROVE IInv'
<1> USE DEF NewWait, GoTo
<1>1. Typed'
  BY Zenon DEF IInv, Typed, Pcs
<1>2. wstate[w] = "None" /\ w \notin Elems(queue) /\ hand[w] = {}
  BY DEF IInv, Typed, ListInv, Stage, NodeInv, HandInv, Polling, Threads
<1>3. Stage(w)' /\ NodeInv(w)'
  BY <1>2 DEF IInv, Typed, Threads, Stage, NodeInv, Polling
<1> QED
  BY <1>1, <1>2, <1>3, OwnStep, Zenon DEF IInv, Typed, ListInv, Pcs

(* A future that was not queued, or has been woken, completes. *)
LEMMA ReadyStep ==
  ASSUME NEW w \in Waiters, IInv, NEW r, Ready(w, r), pc[w] \in Polling \cup {"held"},
         wstate[w] = "Start" \/ node[w] \notin {"Empty", "Waiting"},
         Typed', UNCHANGED <<queue, node, hand>>,
         \A u \in Waiters \ {w} : notified'[u] = notified[u]
  PROVE  IInv'
<1>1. hand[w] = {} /\ w \notin Elems(queue)
  BY DEF IInv, Typed, ListInv, HandInv, NodeInv, Threads, Polling
<1>2. Stage(w)' /\ NodeInv(w)'
  BY <1>1 DEF Ready, GoTo, IInv, Typed, Threads, Stage, NodeInv, Polling
<1> QED
  BY <1>1, <1>2, OwnStep, Zenon DEF Ready, GoTo, IInv, Typed, ListInv, Pcs

(* The word is a word again. *)
LEMMA WithWord ==
  ASSUME NEW s \in Word, NEW x \in {"Empty", "Waiting", "Woken", "Closed"}
  PROVE  With(s, x) \in Word /\ With(s, x).st = x /\ With(s, x).alls = s.alls
BY DEF With, Word

(* Wait::poll, the first load. *)
LEMMA PollStartStep == ASSUME NEW w \in Waiters, IInv, PollStart(w) PROVE IInv'
<1> USE DEF PollStart, GoTo
<1>1. Typed'
  BY Zenon DEF IInv, Typed, Pcs, Polling
<1>2. w \notin Elems(queue) /\ hand[w] = {}
  BY DEF IInv, Typed, ListInv, NodeInv, HandInv, Threads
<1>3. Stage(w)' /\ NodeInv(w)'
  BY <1>2 DEF IInv, Typed, Threads, Stage, NodeInv, Polling
<1> QED
  BY <1>1, <1>2, <1>3, OwnStep, Zenon DEF IInv, Typed, ListInv, Pcs, Polling

(* The task stays in the poll of a future that is not queued. *)
LEMMA PollOnStep ==
  ASSUME NEW w \in Waiters, IInv, Typed', NEW l \in Polling, pc[w] \in Polling,
         UNCHANGED <<queue, node, wstate, notified, hand>>, GoTo(w, l)
  PROVE  IInv'
<1>1. hand[w] = {} /\ w \notin Elems(queue) /\ wstate[w] = "Start"
  BY DEF IInv, Typed, ListInv, HandInv, NodeInv, Stage, Threads, Polling
<1>2. Stage(w)' /\ NodeInv(w)'
  BY <1>1 DEF GoTo, IInv, Typed, Threads, Stage, NodeInv, Polling
<1> QED
  BY <1>1, <1>2, OwnStep, Zenon DEF GoTo, IInv, Typed, ListInv, Pcs

(* Wait::poll, the compare_exchange without the lock. *)
LEMMA PollFastStep == ASSUME NEW w \in Waiters, IInv, PollFast(w) PROVE IInv'
<1>1. wstate[w] = "Start" /\ pc[w] \in Polling
  BY DEF PollFast, IInv, ListInv, Stage, Polling
<1>2. Typed'
  BY WithWord DEF PollFast, Ready, GoTo, IInv, Typed, Pcs, Polling
<1>3. CASE state = With(snap[w], "Woken")
  BY <1>1, <1>2, <1>3, ReadyStep DEF PollFast
<1>4. CASE state # With(snap[w], "Woken")
  BY <1>1, <1>2, <1>4, PollOnStep DEF PollFast, Polling
<1> QED
  BY <1>3, <1>4

(* poll_wait puts the node on the list. *)
LEMMA EnqueueStep ==
  ASSUME NEW w \in Waiters, IInv, Enqueue(w), pc[w] \in Polling, UNCHANGED <<hand, ret, ops>>,
         state' \in Word, lock' = NoOne, snap' \in [Threads -> Word]
  PROVE  IInv'
<1>1. hand[w] = {} /\ w \notin Elems(queue) /\ wstate[w] = "Start" /\ queue \in Seq(Waiters)
  BY DEF IInv, Typed, ListInv, HandInv, NodeInv, Stage, Threads, Polling
<1>2. /\ queue' \in Seq(Waiters) /\ Distinct(queue')
      /\ Elems(queue') = Elems(queue) \cup {w}
  BY <1>1, AppendElems DEF Enqueue, PushFront, IInv, ListInv
<1>3. Typed'
  BY <1>2, Zenon DEF Enqueue, GoTo, IInv, Typed, Pcs
<1>4. Stage(w)' /\ NodeInv(w)'
  BY <1>1, <1>2 DEF Enqueue, GoTo, IInv, Typed, Threads, Stage, NodeInv, Polling
<1>5. \A u \in Waiters \ {w} : /\ node'[u] = node[u] /\ wstate'[u] = wstate[u]
                               /\ notified'[u] = notified[u]
  BY DEF Enqueue, IInv, Typed
<1> QED
  BY <1>1, <1>2, <1>3, <1>4, <1>5, OwnStep, Zenon DEF Enqueue, GoTo, Pcs

(* The loop of poll_wait, having seen the word s. *)
LEMMA OnSeenStep ==
  ASSUME NEW w \in Waiters, IInv, NEW s \in Word, OnSeen(w, s), pc[w] \in Polling,
         UNCHANGED <<state, hand, ret, ops>>, snap' \in [Threads -> Word]
  PROVE  IInv'
<1>1. wstate[w] = "Start"
  BY DEF IInv, ListInv, Stage
<1>2. CASE s.st = "Waiting"
  BY <1>2, EnqueueStep DEF OnSeen, IInv, Typed
<1>3. CASE s.st = "Closed"
  <2>1. Ready(w, "Closed") /\ lock' = NoOne /\ UNCHANGED <<queue, node, notified>>
    BY <1>3 DEF OnSeen
  <2>2. Typed'
    BY <2>1, Zenon DEF Ready, GoTo, IInv, Typed, Pcs
  <2> QED
    BY <1>1, <2>1, <2>2, ReadyStep
<1>4. CASE s.st \in {"Empty", "Woken"}
  <2>1. Typed'
    BY <1>4 DEF OnSeen, GoTo, IInv, Typed, Pcs, Polling, Threads
  <2> QED
    BY <1>4, <2>1, PollOnStep DEF OnSeen, Polling
<1> QED
  BY <1>2, <1>3, <1>4 DEF Word

(* Wait::poll takes the lock. *)
LEMMA PollLockStep == ASSUME NEW w \in Waiters, IInv, PollLock(w) PROVE IInv'
<1>1. wstate[w] = "Start" /\ pc[w] \in Polling /\ state \in Word /\ snap' \in [Threads -> Word]
  BY Zenon DEF PollLock, IInv, Typed, ListInv, Stage, Polling
<1>2. CASE WokenByAll(w)
  <2>1. Typed'
    BY <1>1, <1>2 DEF PollLock, Ready, GoTo, IInv, Typed, Pcs
  <2> QED
    BY <1>1, <1>2, <2>1, ReadyStep DEF PollLock
<1>3. CASE ~WokenByAll(w)
  BY <1>1, <1>3, OnSeenStep DEF PollLock
<1> QED
  BY <1>2, <1>3

(* Wait::poll, the compare_exchange under the lock. *)
LEMMA PollCasStep == ASSUME NEW w \in Waiters, IInv, PollCas(w) PROVE IInv'
<1>1. wstate[w] = "Start" /\ pc[w] \in Polling /\ state \in Word /\ snap[w] \in Word
  BY DEF PollCas, IInv, Typed, ListInv, Stage, Polling, Threads
<1>2. CASE CasSucceeds(w) /\ snap[w].st = "Empty"
  BY <1>1, <1>2, WithWord, EnqueueStep DEF PollCas, IInv, Typed
<1>3. CASE CasSucceeds(w) /\ snap[w].st = "Woken"
  <2>1. Typed'
    BY <1>1, <1>3, WithWord DEF PollCas, Ready, GoTo, IInv, Typed, Pcs
  <2> QED
    BY <1>1, <1>3, <2>1, ReadyStep DEF PollCas
<1>4. CASE ~CasSucceeds(w)
  <2>1. snap' \in [Threads -> Word]
    BY <1>4 DEF PollCas, IInv, Typed
  <2> QED
    BY <1>1, <1>4, <2>1, OnSeenStep DEF PollCas
<1> QED
  BY <1>2, <1>3, <1>4 DEF PollCas

(* Wait::poll of a queued future. *)
LEMMA PollWaitingStep == ASSUME NEW w \in Waiters, IInv, PollWaiting(w) PROVE IInv'
<1>1. /\ pc[w] = "held" /\ wstate[w] = "Waiting" /\ hand[w] = {} /\ NodeInv(w)
      /\ notified' = [notified EXCEPT ![w] = FALSE]
  BY DEF PollWaiting, IInv, Typed, ListInv, HandInv, Threads
<1>2. CASE node[w] \in {"Empty", "Waiting"}
  <2>1. /\ node' = [node EXCEPT ![w] = "Waiting"]
        /\ UNCHANGED <<state, queue, lock, wstate, pc, snap, hand, ret, ops>>
    BY <1>2 DEF PollWaiting
  <2>2. Typed'
    BY <1>1, <2>1 DEF IInv, Typed
  <2>3. Stage(w)' /\ NodeInv(w)'
    BY <1>1, <1>2, <2>1 DEF IInv, Typed, ListInv, Stage, NodeInv
  <2>4. pc' = [pc EXCEPT ![w] = "held"]
    BY <1>1, <2>1 DEF IInv, Typed
  <2> QED
    BY <1>1, <2>1, <2>2, <2>3, <2>4, OwnStep, Zenon DEF IInv, Typed, ListInv, Pcs
<1>3. CASE node[w] \notin {"Empty", "Waiting"}
  <2>1. /\ UNCHANGED <<state, queue, lock, node, snap, hand, ret, ops>>
        /\ Ready(w, "Ok") \/ Ready(w, "Closed")
    BY <1>3 DEF PollWaiting
  <2>2. Typed'
    BY <1>1, <2>1 DEF Ready, GoTo, IInv, Typed, Pcs
  <2>3. \A u \in Waiters \ {w} : notified'[u] = notified[u]
    BY <1>1 DEF IInv, Typed
  <2> QED
    BY <1>1, <1>3, <2>1, <2>2, <2>3, ReadyStep, Zenon
<1> QED
  BY <1>2, <1>3
(* The nodes and the wakers that Waiter::wake leaves. *)
LEMMA WakeNodesType ==
  ASSUME IInv, NEW t \in Threads, NEW ws, NEW x \in {"One", "All", "Closed"}, WakeNodes(t, ws, x),
         ws \subseteq Elems(queue)
  PROVE  /\ node' \in [Waiters -> {"Empty", "Waiting", "One", "All", "Closed"}]
         /\ hand' \in [Threads -> SUBSET Waiters]
<1>1. {w \in ws : node[w] = "Waiting"} \subseteq Waiters
  BY ElemsType DEF IInv, Typed
<1> QED
  BY <1>1 DEF IInv, Typed, WakeNodes

(* wake_locked, entered with the snapshot s: without waiters it goes on to     *)
(* store the wakeup, otherwise it takes the first.                             *)
LEMMA WakeLockedStep ==
  ASSUME NEW t \in Threads, IInv, NEW s \in Word, WakeLocked(t, s, queue),
         state' \in Word, snap' \in [Threads -> Word], notified' \in [Waiters -> BOOLEAN],
         wstate' \in [Waiters -> {"None", "Start", "Waiting"}],
         pc[t] \notin Polling, hand[t] = {}, UNCHANGED ops,
         \A u \in Waiters : u # t => wstate'[u] = wstate[u] /\ notified'[u] = notified[u],
         t \in Waiters => wstate'[t] = "None" /\ t \notin Elems(queue)
  PROVE  IInv'
<1>1. queue \in Seq(Waiters) /\ Distinct(queue) /\ t \in Threads \cup {NoOne}
  BY DEF IInv, Typed, ListInv
<1>2. CASE s.st # "Waiting" \/ queue = <<>>
  <2>1. PICK l \in {"wlCas", "panicNoWaiter"} : GoTo(t, l)
    BY <1>2 DEF WakeLocked
  <2>2. lock' = t /\ UNCHANGED <<queue, node, hand, ret>>
    BY <1>2 DEF WakeLocked
  <2>3. l \in Pcs /\ l \notin Polling \cup {"held"} /\ pc' = [pc EXCEPT ![t] = l]
    BY <2>1 DEF GoTo, Pcs, Polling, Panics
  <2>4. Typed'
    BY <1>1, <2>2, <2>3 DEF IInv, Typed
  <2>5. \A w \in Waiters : Stage(w)'
    BY <2>3 DEF IInv, Typed, ListInv, Stage, Threads
  <2>6. ASSUME NEW u \in Waiters PROVE NodeInv(u)'
    <3>1. NodeInv(u)
      BY DEF IInv, ListInv
    <3>2. CASE u = t
      <4>1. u \notin Elems(queue') /\ wstate'[u] = "None"
        BY <2>2, <3>2
      <4> QED
        BY <4>1 DEF NodeInv
    <3>3. CASE u # t
      BY <2>2, <3>1, <3>3 DEF NodeInv
    <3> QED
      BY <3>2, <3>3
  <2>7. \A u \in Threads : HandInv(u)'
    BY <2>2, <2>3 DEF IInv, Typed, ListInv, HandInv
  <2>8. Distinct(queue')
    BY <1>1, <2>2
  <2> QED
    BY <2>4, <2>5, <2>6, <2>7, <2>8 DEF IInv, ListInv
<1>3. CASE s.st = "Waiting" /\ queue # <<>>
  <2> DEFINE l == IF Tail(queue) = <<>> THEN "wlEmpty" ELSE IF hand'[t] = {} THEN "idle" ELSE "batch"
  <2>1. /\ queue' = Tail(queue) /\ WakeNodes(t, {Head(queue)}, "One")
        /\ lock' \in {t, NoOne} /\ pc' = [pc EXCEPT ![t] = l]
        /\ ret' = [ret EXCEPT ![t] = "idle"] \/ ret' = ret
    BY <1>3 DEF WakeLocked, ThenWake, GoTo
  <2>2. /\ Tail(queue) \in Seq(Waiters) /\ Distinct(queue') /\ {Head(queue)} \subseteq Elems(queue)
        /\ Elems(queue') = Elems(queue) \ {Head(queue)}
    BY <1>1, <1>3, <2>1, TailElems
  <2>3. /\ l \in Pcs /\ l \notin Polling \cup {"held"}
        /\ hand'[t] # {} => l \in {"batch", "wlEmpty"}
    BY DEF Pcs, Polling
  <2> HIDE DEF l
  <2>4. /\ node' \in [Waiters -> {"Empty", "Waiting", "One", "All", "Closed"}]
        /\ hand' \in [Threads -> SUBSET Waiters]
    BY <2>1, <2>2, WakeNodesType
  <2>5. Typed'
    BY <1>1, <2>1, <2>2, <2>3, <2>4, Zenon DEF IInv, Typed
  <2>6. {Head(queue)} \in SUBSET Elems(queue)
    BY <2>2
  <2> QED
    BY <2>1, <2>2, <2>3, <2>5, <2>6, TakeStep, Zenon
<1> QED
  BY <1>2, <1>3

(* wake() takes the lock. *)
LEMMA WakeLockStep == ASSUME NEW t \in Threads, IInv, WakeLock(t) PROVE IInv'
<1>1. /\ pc[t] = "wkLock" /\ hand[t] = {} /\ state \in Word /\ snap' \in [Threads -> Word]
      /\ WakeLocked(t, state, queue) /\ UNCHANGED <<state, wstate, notified, ops>>
  BY DEF WakeLock, FreshSnapshot, IInv, Typed, ListInv, HandInv
<1>2. t \in Waiters => wstate[t] = "None" /\ t \notin Elems(queue)
  BY <1>1 DEF IInv, ListInv, Stage, NodeInv, Polling
<1> QED
  BY <1>1, <1>2, WakeLockedStep, Zenon DEF IInv, Typed, Polling

(* release stores Empty after removing the last node. *)
LEMMA RelStoreStep == ASSUME NEW w \in Waiters, IInv, RelStore(w) PROVE IInv'
<1>1. /\ pc[w] = "relStore" /\ hand[w] = {} /\ snap[w] \in Word /\ state' \in Word /\ w \in Threads
      /\ UNCHANGED <<wstate, snap, notified, ops>>
  BY WithWord DEF RelStore, IInv, Typed, ListInv, HandInv, Threads
<1>2. wstate[w] = "None" /\ w \notin Elems(queue)
  BY <1>1 DEF IInv, ListInv, Stage, NodeInv, Polling
<1>3. CASE OwesWakeup(w)
  <2>1. WakeLocked(w, snap[w], queue)
    BY <1>3 DEF RelStore
  <2> QED
    BY <1>1, <1>2, <2>1, WakeLockedStep, Zenon DEF IInv, Typed, Polling
<1>4. CASE ~OwesWakeup(w)
  <2>1. lock' = NoOne /\ pc' = [pc EXCEPT ![w] = "idle"] /\ UNCHANGED <<queue, node, hand, ret>>
    BY <1>4 DEF RelStore, GoTo
  <2>2. Typed'
    BY <1>1, <2>1 DEF IInv, Typed, Pcs
  <2> QED
    BY <1>1, <2>1, <2>2, QuietStep, Zenon DEF Pcs, Polling
<1> QED
  BY <1>3, <1>4

(* Dropping a future: its node leaves the list. *)
LEMMA DropStep == ASSUME NEW w \in Waiters, IInv, Drop(w) PROVE IInv'
<1>1. /\ pc[w] = "held" /\ hand[w] = {} /\ w \in Threads
      /\ wstate' = [wstate EXCEPT ![w] = "None"] /\ notified' = [notified EXCEPT ![w] = FALSE]
      /\ UNCHANGED <<state, ops>>
  BY DEF Drop, IInv, Typed, ListInv, HandInv, Threads
<1>2. /\ queue \in Seq(Waiters) /\ Distinct(queue) /\ NodeInv(w) /\ state \in Word
      /\ wstate \in [Waiters -> {"None", "Start", "Waiting"}]
      /\ notified \in [Waiters -> BOOLEAN] /\ pc \in [Threads -> Pcs]
  BY DEF IInv, Typed, ListInv
<1>3. /\ wstate' \in [Waiters -> {"None", "Start", "Waiting"}] /\ wstate'[w] = "None"
      /\ notified' \in [Waiters -> BOOLEAN]
      /\ \A u \in Waiters : u # w => wstate'[u] = wstate[u] /\ notified'[u] = notified[u]
  BY <1>1, <1>2
<1>4. CASE wstate[w] = "Waiting" /\ ~WasLast(w) /\ OwesWakeup(w)
  <2>1. w \notin Elems(queue)
    BY <1>2, <1>4 DEF OwesWakeup, NodeInv
  <2>2. Remove(queue, w) = queue
    BY <1>2, <2>1, UnlinkAbsent DEF Remove
  <2>3. WakeLocked(w, state, queue) /\ snap' = [snap EXCEPT ![w] = state]
    BY <1>4, <2>2 DEF Drop
  <2>4. snap' \in [Threads -> Word] /\ state' \in Word
    BY <1>1, <1>2, <2>3 DEF IInv, Typed
  <2> QED
    BY <1>1, <1>2, <1>3, <2>1, <2>3, <2>4, WakeLockedStep, Zenon DEF Polling
<1>5. CASE ~(wstate[w] = "Waiting" /\ ~WasLast(w) /\ OwesWakeup(w))
  <2>1. /\ Remove(queue, w) \in Seq(Waiters) /\ Distinct(Remove(queue, w))
        /\ Elems(Remove(queue, w)) = Elems(queue) \ {w}
    BY <1>2, UnlinkElems DEF Remove
  <2>2. wstate[w] # "Waiting" => Remove(queue, w) = queue
    BY <1>2, UnlinkAbsent DEF Remove, NodeInv
  <2>3. queue' = Remove(queue, w) /\ UNCHANGED <<node, hand, ret>>
    BY <1>5, <2>2 DEF Drop, WasLast
  <2>4. lock' \in {w, lock} /\ (snap' = snap \/ snap' = [snap EXCEPT ![w] = state])
    BY <1>5 DEF Drop
  <2>5. PICK l \in {"idle", "relStore"} : pc' = [pc EXCEPT ![w] = l]
    BY <1>5 DEF Drop, GoTo
  <2>6. l \in Pcs /\ l \notin Polling \cup {"held"}
    BY <2>5 DEF Pcs, Polling
  <2>7. Typed'
    BY <1>1, <1>2, <1>3, <2>1, <2>3, <2>4, <2>5, <2>6 DEF IInv, Typed
  <2>8. w \notin Elems(queue') /\ Distinct(queue')
        /\ \A u \in Waiters \ {w} : u \in Elems(queue') <=> u \in Elems(queue)
    BY <2>1, <2>3
  <2>9. Stage(w)'
    BY <1>1, <1>2, <1>3, <2>5, <2>6 DEF Stage
  <2>10. NodeInv(w)'
    BY <1>3, <2>8 DEF NodeInv
  <2> QED
    BY <1>1, <1>3, <2>3, <2>5, <2>6, <2>7, <2>8, <2>9, <2>10, OwnStep, Zenon
<1> QED
  BY <1>4, <1>5
(* A set of numbers that is not empty has a least element. *)
LEMMA Least ==
  ASSUME NEW S, S \subseteq Nat, S # {} PROVE \E k \in S : \A j \in S : k <= j
<1> DEFINE R == OpToRel(<, Nat)
<1>1. IsWellFoundedOn(R, Nat)
  BY NatLessThanWellFounded, Zenon
<1>2. \A x, y \in Nat : x < y => <<x, y>> \in R
  BY DEF OpToRel
<1> HIDE DEF R
<1>3. PICK k \in S : \A j \in S : ~(<<j, k>> \in R)
  BY <1>1, WFMin, Zenon
<1>4. \A j \in S : ~(j < k)
  BY <1>2, <1>3, Zenon
<1> QED
  BY <1>4

(* drain_to_wake_batch pops nodes of the list. *)
LEMMA DrainCount == ASSUME queue \in Seq(Waiters) PROVE NodesToDrain \in 0..Len(queue)
<1> DEFINE full == {k \in 1..Len(queue) :
                      Cardinality({i \in 1..k : node[queue[i]] = "Waiting"}) = BatchSize}
           n == IF full = {} THEN Len(queue) ELSE CHOOSE k \in full : \A j \in full : k <= j
<1>1. NodesToDrain = n
  BY DEF NodesToDrain
<1>2. full \subseteq 1..Len(queue) /\ Len(queue) \in Nat
  OBVIOUS
<1> HIDE DEF full
<1>3. CASE full = {}
  BY <1>1, <1>2, <1>3
<1>4. CASE full # {}
  <2>1. full \subseteq Nat
    BY <1>2
  <2>2. \E k \in full : \A j \in full : k <= j
    BY <1>4, <2>1, Least, Zenon
  <2>3. n \in full
    BY <1>4, <2>2
  <2>4. n \in 1..Len(queue)
    BY <1>2, <2>3, Zenon
  <2> HIDE DEF n
  <2> QED
    BY <1>1, <1>2, <2>4
<1> QED
  BY <1>3, <1>4

(* wake_all and close drain the list, or a batch of it. *)
LEMMA DrainStep ==
  ASSUME NEW t \in Threads, IInv, NEW x \in {"All", "Closed"}, NEW again \in {"allLock", "closeLock"},
         Drain(t, x, again), state' \in Word, UNCHANGED <<wstate, snap, notified, ops>>,
         pc[t] \in {"allCas", "allLock", "closeLock"}
  PROVE  IInv'
<1> DEFINE n == NodesToDrain
           ws == {queue[i] : i \in 1..n}
           after == IF n < Len(queue) THEN again ELSE "idle"
           l == IF hand'[t] = {} THEN after ELSE "batch"
<1>1. /\ WakeNodes(t, ws, x) /\ queue' = SubSeq(queue, n + 1, Len(queue)) /\ lock' = NoOne
      /\ ret' = [ret EXCEPT ![t] = after] /\ pc' = [pc EXCEPT ![t] = l]
  BY DEF Drain, Drained, ThenWake, GoTo
<1>2. queue \in Seq(Waiters) /\ Distinct(queue) /\ hand[t] = {}
  BY Zenon DEF IInv, Typed, ListInv, HandInv
<1>3. n \in 0..Len(queue)
  BY <1>2, DrainCount
<1>4. after \in {"idle", "allLock", "closeLock"}
  OBVIOUS
<1> HIDE DEF n, after
<1>5. /\ queue' \in Seq(Waiters) /\ Distinct(queue') /\ ws \in SUBSET Elems(queue)
      /\ Elems(queue') = Elems(queue) \ ws
  <2> DEFINE r == SubSeq(queue, n + 1, Len(queue))
  <2>1. ArePopped(ws, queue, n)
    BY DEF ArePopped
  <2>2. n \in Nat /\ n <= Len(queue)
    BY <1>3
  <2>3. IsSuffix(Waiters, r, queue, n)
    BY <1>2, <2>2, Suffix, Zenon
  <2>4. queue' = r
    BY <1>1, Zenon
  <2> HIDE DEF ws, r
  <2>5. /\ r \in Seq(Waiters) /\ Distinct(r) /\ ws \subseteq Elems(queue)
        /\ Elems(r) = Elems(queue) \ ws
    BY SMTT(30), <1>2, <1>3, <2>1, <2>3, PopElems
  <2> QED
    BY <2>4, <2>5, Zenon
<1> HIDE DEF ws
<1>6. /\ l \in Pcs /\ l \notin Polling \cup {"held"}
      /\ hand'[t] # {} => l \in {"batch", "wlEmpty"}
  BY <1>4 DEF Pcs, Polling
<1> HIDE DEF l
<1>7. /\ node' \in [Waiters -> {"Empty", "Waiting", "One", "All", "Closed"}]
      /\ hand' \in [Threads -> SUBSET Waiters]
  BY <1>1, <1>5, WakeNodesType
<1>8. Typed'
  BY <1>1, <1>4, <1>5, <1>6, <1>7, Zenon DEF IInv, Typed
<1>9. t \in Waiters => wstate'[t] = "None" /\ t \notin Elems(queue)
  BY DEF IInv, ListInv, Stage, NodeInv, Polling
<1> QED
  BY <1>1, <1>2, <1>5, <1>6, <1>8, <1>9, TakeStep, Zenon

(* WakeBatch::wake_all, one waker. *)
LEMMA WakeOneStep == ASSUME NEW t \in Threads, IInv, WakeOne(t) PROVE IInv'
<1> DEFINE l == IF hand'[t] = {} THEN ret[t] ELSE "batch"
<1>1. PICK w \in hand[t] : /\ notified' = [notified EXCEPT ![w] = TRUE]
                           /\ hand' = [hand EXCEPT ![t] = @ \ {w}]
  BY Zenon DEF WakeOne
<1>2. /\ pc[t] = "batch" /\ pc' = [pc EXCEPT ![t] = l]
      /\ UNCHANGED <<state, queue, lock, node, wstate, snap, ret, ops>>
  BY DEF WakeOne, GoTo
<1>3. w \in Waiters /\ hand'[t] = hand[t] \ {w}
  BY <1>1 DEF IInv, Typed
<1>4. l \in Pcs /\ l \notin Polling \cup {"held"} /\ (hand'[t] # {} => l = "batch")
  BY DEF IInv, Typed, Pcs, Polling
<1> HIDE DEF l
<1>5. Typed'
  BY <1>1, <1>2, <1>3, <1>4 DEF IInv, Typed
<1>6. \A u \in Waiters : Stage(u)'
  BY <1>2, <1>4 DEF IInv, Typed, ListInv, Stage, Threads, Polling
<1>7. ASSUME NEW u \in Waiters PROVE NodeInv(u)'
  <2>1. NodeInv(u)
    BY DEF IInv, ListInv
  <2>2. notified[u] => notified'[u]
    BY <1>1, <1>3 DEF IInv, Typed
  <2>3. ASSUME NEW v \in Threads, u \in hand[v] PROVE u \in hand'[v] \/ notified'[u]
    BY <1>1, <1>3, <2>3 DEF IInv, Typed
  <2> QED
    BY <1>2, <2>1, <2>2, <2>3 DEF NodeInv
<1>8. \A u \in Threads : HandInv(u)'
  BY <1>1, <1>2, <1>4 DEF IInv, Typed, ListInv, HandInv
<1> QED
  BY <1>2, <1>5, <1>6, <1>7, <1>8 DEF IInv, ListInv

(* The steps that read or change the word only. *)
WordStep(t) ==
  \/ Wake(t) \/ WakeCas(t) \/ WlCas(t) \/ WlStore(t) \/ WlEmpty(t) \/ WakeAll(t) \/ WakeAllAdd(t)
  \/ WakeAllCas(t) /\ ~CasSucceeds(t)
  \/ Close(t)

(* Such a step leaves the list and the nodes alone. *)
LEMMA WordStepQuiet == ASSUME NEW t \in Threads, IInv, WordStep(t) PROVE IInv'
<1>1. UNCHANGED <<queue, node, wstate, notified, hand, ops>>
  BY Zenon
  DEF WordStep, Wake, WakeCas, WlCas, WlStore, WlEmpty, WakeAll, WakeAllAdd, WakeAllCas, Close
<1>2. /\ state \in Word /\ snap[t] \in Word /\ snap \in [Threads -> Word]
      /\ state.st \in {"Empty", "Waiting", "Woken", "Closed"} /\ state.alls \in Nat
  BY DEF IInv, Typed, Word
<1>3. state' \in Word
  <2>1. AddWakeAll(state) \in Word
    BY <1>2 DEF AddWakeAll, OneMore, Word
  <2>2. \/ state' = state \/ state' = AddWakeAll(state)
        \/ \E s \in {state, snap[t]}, x \in {"Empty", "Waiting", "Woken", "Closed"} :
             state' = With(s, x)
    BY Zenon
    DEF WordStep, Wake, WakeCas, WlCas, WlStore, WlEmpty, WakeAll, WakeAllAdd, WakeAllCas, Close
  <2>3. ASSUME NEW s \in {state, snap[t]}, NEW x \in {"Empty", "Waiting", "Woken", "Closed"}
        PROVE  With(s, x) \in Word
    BY <1>2, WithWord
  <2> QED
    BY <1>2, <2>1, <2>2, <2>3, Zenon
<1>4. snap' \in [Threads -> Word]
  BY <1>2 DEF WordStep, Wake, WakeCas, WakeSaw, WlCas, WlStore, WlEmpty, WakeAll, WakeAllAdd,
    WakeAllCas, Close
<1>5. lock' \in {lock, t, NoOne} /\ (ret' = ret \/ ret' = [ret EXCEPT ![t] = "idle"])
  BY Zenon
  DEF WordStep, Wake, WakeCas, WlCas, WlStore, WlEmpty, WakeAll, WakeAllAdd, WakeAllCas, Close
<1>6. PICK l \in Pcs \ (Polling \cup {"held"}) : pc' = [pc EXCEPT ![t] = l]
  BY <1>2 DEF WordStep, Wake, WakeCas, WakeSaw, WlCas, WlStore, WlEmpty, WakeAll, WakeAllAdd,
    WakeAllCas, Close, GoTo, Pcs, Polling, Panics
<1>7. pc[t] \notin Polling \cup {"held"}
  BY Zenon
  DEF WordStep, Wake, WakeCas, WlCas, WlStore, WlEmpty, WakeAll, WakeAllAdd, WakeAllCas, Close,
    Polling
<1>8. hand[t] = {} \/ l \in {"batch", "wlEmpty"}
  <2>1. CASE hand[t] # {}
    <3>1. pc[t] \in {"batch", "wlEmpty"}
      BY <2>1 DEF IInv, ListInv, HandInv
    <3>2. WlEmpty(t)
      BY <3>1 DEF WordStep, Wake, WakeCas, WlCas, WlStore, WakeAll, WakeAllAdd, WakeAllCas, Close
    <3>3. pc'[t] = "batch" /\ pc'[t] = l
      BY <1>6, <2>1, <3>2 DEF WlEmpty, GoTo, IInv, Typed
    <3> QED
      BY <3>3
  <2> QED
    BY <2>1
<1>9. Typed'
  BY <1>1, <1>3, <1>4, <1>5, <1>6 DEF IInv, Typed
<1> QED
  BY <1>1, <1>6, <1>7, <1>8, <1>9, QuietStep, Zenon

(* wake_all and close under the lock. *)
LEMMA DrainsStep ==
  ASSUME NEW t \in Threads, IInv,
         (WakeAllCas(t) /\ CasSucceeds(t)) \/ WakeAllMore(t) \/ CloseMore(t)
  PROVE  IInv'
<1>1. CASE WakeAllCas(t) /\ CasSucceeds(t)
  <2>1. state' \in Word
    BY <1>1 DEF WakeAllCas, OneMore, IInv, Typed, Word
  <2> QED
    BY <1>1, <2>1, DrainStep, Zenon DEF WakeAllCas
<1>2. CASE WakeAllMore(t)
  BY <1>2, DrainStep DEF WakeAllMore, IInv, Typed
<1>3. CASE CloseMore(t)
  BY <1>3, DrainStep DEF CloseMore, IInv, Typed
<1> QED
  BY <1>1, <1>2, <1>3

(* Every step keeps the invariant. *)
LEMMA NextIInv == IInv /\ [Next]_vars => IInv'
<1> SUFFICES ASSUME IInv, [Next]_vars PROVE IInv'
  OBVIOUS
<1>1. CASE UNCHANGED vars
  BY <1>1 DEF IInv, Typed, ListInv, Stage, NodeInv, HandInv, vars
<1>2. ASSUME NEW t \in Threads, Finish(t) PROVE IInv'
  BY <1>2, WordStepQuiet, DrainsStep, WakeLockStep, WakeOneStep DEF Finish, WordStep
<1>3. ASSUME NEW w \in Waiters, Waiter(w) PROVE IInv'
  BY <1>2, <1>3, NewWaitStep, PollStartStep, PollFastStep, PollLockStep, PollCasStep,
     PollWaitingStep, DropStep, RelStoreStep DEF Waiter, Poll, Threads
<1>4. ASSUME NEW t \in Wakers, Waker(t) PROVE IInv'
  BY <1>2, <1>4, WordStepQuiet DEF Waker, WordStep, Threads
<1> QED
  BY <1>1, <1>3, <1>4 DEF Next

(* What is on the list of the queue is there once. *)
LEMMA Counted ==
  ASSUME NEW q \in Seq(Waiters), Distinct(q) PROVE IsFiniteSet(Elems(q)) /\ Cardinality(Elems(q)) = Len(q)
<1> DEFINE f == [i \in 1..Len(q) |-> q[i]]
<1>1. DOMAIN q = 1..Len(q) /\ Len(q) \in Nat
  OBVIOUS
<1>2. f \in Bijection(1..Len(q), Elems(q))
  BY <1>1 DEF Elems, Distinct, Bijection, Injection, Surjection, IsInjective
<1>3. ExistsBijection(1..Len(q), Elems(q))
  BY <1>2 DEF ExistsBijection
<1> QED
  BY <1>1, <1>3, FS_CountingElements, FS_Interval, FS_Bijection

(* wait_queue.rs: for any number of tasks, threads and wakers in a batch, and  *)
(* whichever operations are called, also close(): a node on the list belongs   *)
(* to a live future that waits and is linked once, and a future that waits is  *)
(* on the list, or its task has been or is about to be notified.              *)
THEOREM ListHoldsTheWaiters == Spec => []WaitersAreListed
<1>1. IInv => WaitersAreListed
  <2> SUFFICES ASSUME IInv PROVE WaitersAreListed
    OBVIOUS
  <2>1. Queued = Elems(queue)
    BY DEF Queued, Elems
  <2>2. Cardinality(Queued) = Len(queue)
    BY <2>1, Counted DEF IInv, Typed, ListInv
  <2>3. Elems(queue) \subseteq Waiters
    BY ElemsType DEF IInv, Typed
  <2>4. \A w \in Queued : wstate[w] = "Waiting" /\ node[w] \in {"Empty", "Waiting"}
    BY <2>1, <2>3 DEF IInv, ListInv, NodeInv
  <2>5. WaitersAreReachable
    BY <2>1 DEF WaitersAreReachable, IInv, Typed, ListInv, NodeInv
  <2> QED
    BY <2>2, <2>4, <2>5 DEF WaitersAreListed, LinkedNodesAreLive
<1> QED
  BY <1>1, InitIInv, NextIInv, PTL DEF Spec
-----------------------------------------------------------------------------
(* The word. *)

(* The new queue is empty, and so is its list. *)
LEMMA InitWord == Init => WordInv
<1> SUFFICES ASSUME Init PROVE WordInv
  OBVIOUS
<1>1. \A t \in Threads : pc[t] = "idle" /\ ret[t] = "idle"
  BY DEF Init, InitWith
<1>2. state.st = "Empty" /\ queue = <<>>
  BY DEF Init, InitWith
<1> QED
  BY <1>1, <1>2 DEF WordInv, Sees, Emptying, Critical, Panics

(* A thread that has or could have the lock is alone in a critical section. *)
LEMMA Alone ==
  ASSUME WordInv, NEW t \in Threads, lock \in {NoOne, t}
  PROVE  /\ \A u \in Threads : u # t => pc[u] \notin Critical
         /\ lock = NoOne => pc[t] \notin Critical
         /\ pc[t] \notin {"wlEmpty", "relStore"} => (state.st = "Waiting" <=> queue # <<>>)
<1>1. \A u \in Threads : u # NoOne
  BY WaitQueueAssumption DEF Threads
<1>2. /\ \A u \in Threads : u # t => pc[u] \notin Critical
      /\ lock = NoOne => pc[t] \notin Critical
  BY <1>1 DEF WordInv, Sees
<1>3. \A u \in Threads : u # t => ~Emptying(u)
  BY <1>2 DEF Emptying, Critical
<1> QED
  BY <1>2, <1>3 DEF WordInv, Emptying

(* A step of a thread that has or takes the lock. *)
LEMMA LockedStep ==
  ASSUME NEW t \in Threads, IInv, WordInv, lock \in {NoOne, t}, lock' \in {NoOne, t},
         NEW l, pc' = [pc EXCEPT ![t] = l],
         \A u \in Threads : u # t => snap'[u] = snap[u] /\ ret'[u] = ret[u],
         state'.st # "Closed", Sees(t)',
         ~Emptying(t)' => (state'.st = "Waiting" <=> queue' # <<>>)
  PROVE  WordInv'
<1>1. \A u \in Threads : u # t => pc'[u] = pc[u] /\ pc[u] \notin Critical
  BY Alone DEF IInv, Typed
<1>2. \A u \in Threads : u # t => ~Emptying(u)'
  BY <1>1 DEF Emptying, Critical
<1>3. ASSUME NEW u \in Threads, u # t PROVE Sees(u)'
  <2>1. /\ pc[u] = "wkCas" => snap[u].st # "Waiting"
        /\ pc[u] \notin Panics \cup {"allLock", "closeLock"} /\ ret[u] = "idle"
    BY Zenon DEF WordInv, Sees
  <2>2. pc'[u] = pc[u] /\ pc[u] \notin Critical /\ snap'[u] = snap[u] /\ ret'[u] = ret[u]
    BY <1>1, <1>3
  <2> QED
    BY <2>1, <2>2 DEF Sees, Emptying, Critical
<1> QED
  BY <1>2, <1>3 DEF WordInv

(* A step of a thread outside the critical sections; it may change the word    *)
(* between Empty and Woken.                                                   *)
LEMMA FreeStep ==
  ASSUME NEW t \in Threads, IInv, WordInv, UNCHANGED <<lock, queue, ret, ops>>,
         NEW l, pc' = [pc EXCEPT ![t] = l], pc[t] \notin Critical, l \notin Critical,
         \A u \in Threads : u # t => snap'[u] = snap[u],
         \A u \in Waiters : u # t => node'[u] = node[u],
         l = "wkCas" => snap'[t].st # "Waiting",
         l \notin Panics \cup {"allLock", "closeLock"},
         state' = state \/ (state.st # "Waiting" /\ state'.st \notin {"Waiting", "Closed"})
  PROVE  WordInv'
<1>1. pc'[t] = l /\ \A u \in Threads : u # t => pc'[u] = pc[u]
  BY DEF IInv, Typed
<1>2. ASSUME NEW u \in Threads, u # t PROVE Sees(u)'
  <2>1. Sees(u)
    BY DEF WordInv
  <2>2. pc'[u] = pc[u] /\ snap'[u] = snap[u] /\ (u \in Waiters => node'[u] = node[u])
    BY <1>1, <1>2
  <2> QED
    BY <2>1, <2>2 DEF Sees, Emptying
<1>3. Sees(t)'
  BY <1>1 DEF WordInv, Sees, Emptying, Critical
<1>4. \A u \in Threads : Emptying(u)' <=> Emptying(u)
  BY <1>1 DEF Emptying, Critical
<1> QED
  BY <1>2, <1>3, <1>4 DEF WordInv

(* The future of a task completes, or goes back to where it can be dropped. *)
LEMMA FreeSteps ==
  ASSUME NEW w \in Waiters, IInv, WordInv, NewWait(w) \/ PollStart(w) \/ PollFast(w)
  PROVE  WordInv'
<1>1. w \in Threads /\ state \in Word /\ snap[w] \in Word
  BY DEF Threads, IInv, Typed
<1>2. CASE NewWait(w)
  BY <1>1, <1>2, FreeStep, Zenon DEF NewWait, GoTo, Critical, Panics, IInv, Typed
<1>3. CASE PollStart(w)
  BY <1>1, <1>3, FreeStep, Zenon DEF PollStart, GoTo, Critical, Panics, IInv, Typed
<1>4. CASE PollFast(w)
  <2>1. state' = state \/ (state.st # "Waiting" /\ state'.st \notin {"Waiting", "Closed"})
    BY <1>1, <1>4, WithWord DEF PollFast
  <2>2. \E l \in {"idle", "pollLock"} : pc' = [pc EXCEPT ![w] = l]
    BY <1>4 DEF PollFast, Ready, GoTo
  <2> QED
    BY <1>1, <1>4, <2>1, <2>2, FreeStep, ZenonT(20) DEF PollFast, Critical, Panics
<1> QED
  BY <1>2, <1>3, <1>4

(* Waking a task touches neither the word nor the list. *)
LEMMA WakeOneWord == ASSUME NEW t \in Threads, IInv, WordInv, WakeOne(t) PROVE WordInv'
<1>1. ret[t] = "idle"
  BY DEF WordInv, Sees
<1>2. \E l \in {"idle", "batch"} : pc' = [pc EXCEPT ![t] = l]
  BY <1>1, Zenon DEF WakeOne, GoTo
<1> QED
  BY <1>2, FreeStep, Zenon DEF WakeOne, Critical, Panics

(* wake() reads the word, or stores the wakeup in it. *)
LEMMA WakeWord == ASSUME NEW t \in Threads, IInv, WordInv, Wake(t) \/ WakeCas(t) PROVE WordInv'
<1>1. /\ state \in Word /\ snap[t] \in Word /\ state.st \in {"Empty", "Waiting", "Woken"}
      /\ snap \in [Threads -> Word] /\ pc \in [Threads -> Pcs]
  BY DEF IInv, Typed, Word, WordInv
<1>2. UNCHANGED <<lock, queue, node, ret, ops>> /\ pc[t] \in {"idle", "wkCas"}
  BY DEF Wake, WakeCas
<1>3. CASE CasSucceeds(t) /\ WakeCas(t)
  <2>1. state.st # "Waiting" /\ state' = With(state, "Woken") /\ pc' = [pc EXCEPT ![t] = "idle"]
        /\ snap' = snap
    BY <1>3 DEF WakeCas, CasSucceeds, WordInv, Sees, GoTo
  <2>2. state'.st = "Woken"
    BY <1>1, <2>1, WithWord
  <2> QED
    BY <1>2, <2>1, <2>2, FreeStep, Zenon DEF Critical, Panics
<1>4. CASE ~(CasSucceeds(t) /\ WakeCas(t))
  <2>1. WakeSaw(t, state) /\ state' = state
    BY <1>4, Zenon DEF Wake, WakeCas
  <2>2. CASE state.st = "Waiting"
    <3>1. pc' = [pc EXCEPT ![t] = "wkLock"]
      BY <2>1, <2>2 DEF WakeSaw, GoTo
    <3>2. snap' = [snap EXCEPT ![t] = state]
      BY <2>1 DEF WakeSaw
    <3> QED
      BY <1>1, <1>2, <2>1, <3>1, <3>2, FreeStep, Zenon DEF Critical, Panics
  <2>3. CASE state.st # "Waiting"
    <3>1. pc' = [pc EXCEPT ![t] = "wkCas"]
      BY <1>1, <2>1, <2>3, Zenon DEF WakeSaw, GoTo
    <3>2. snap' = [snap EXCEPT ![t] = state]
      BY <2>1 DEF WakeSaw
    <3> QED
      BY <1>1, <1>2, <2>1, <2>3, <3>1, <3>2, FreeStep, Zenon DEF Critical, Panics
  <2> QED
    BY <2>2, <2>3
<1> QED
  BY <1>3, <1>4
(* The thread is at a place where it relies on nothing. *)
LEMMA NoDuty ==
  ASSUME NEW t \in Threads, IInv, WordInv, NEW l \in {"idle", "held", "batch"},
         pc' = [pc EXCEPT ![t] = l], ret'[t] = "idle"
  PROVE  Sees(t)' /\ ~Emptying(t)'
<1>1. pc'[t] = l
  BY DEF IInv, Typed
<1> QED
  BY <1>1 DEF Sees, Emptying, Critical, Panics

(* poll_wait puts the node on the list and the word says so. *)
LEMMA EnqueueWord ==
  ASSUME NEW w \in Waiters, IInv, WordInv, Enqueue(w), lock \in {NoOne, w}, lock' = NoOne,
         state'.st = "Waiting", UNCHANGED ret,
         \A u \in Threads : u # w => snap'[u] = snap[u]
  PROVE  WordInv'
<1>1. w \in Threads /\ pc' = [pc EXCEPT ![w] = "held"] /\ ret[w] = "idle"
  BY DEF Enqueue, GoTo, Threads, WordInv, Sees
<1>2. queue' # <<>>
  BY DEF Enqueue, PushFront, IInv, Typed
<1> QED
  BY <1>1, <1>2, NoDuty, LockedStep, Zenon

(* A future completes, in a critical section that leaves the list alone. *)
LEMMA ReadyWord ==
  ASSUME NEW w \in Waiters, IInv, WordInv, NEW r, Ready(w, r), lock \in {NoOne, w}, lock' = NoOne,
         pc[w] \notin {"wlEmpty", "relStore"},
         state' = state \/ (state.st # "Waiting" /\ state'.st = "Empty"), UNCHANGED <<queue, ret>>,
         \A u \in Threads : u # w => snap'[u] = snap[u]
  PROVE  WordInv'
<1>1. w \in Threads /\ pc' = [pc EXCEPT ![w] = "idle"] /\ ret[w] = "idle" /\ state.st # "Closed"
  BY DEF Ready, GoTo, Threads, WordInv, Sees
<1>2. state'.st # "Closed" /\ (state'.st = "Waiting" <=> queue' # <<>>)
  BY <1>1, Alone
<1> QED
  BY <1>1, <1>2, NoDuty, LockedStep, Zenon

(* The loop of poll_wait, having seen the word. *)
LEMMA OnSeenWord ==
  ASSUME NEW w \in Waiters, IInv, WordInv, OnSeen(w, state), lock \in {NoOne, w},
         pc[w] \in Polling, UNCHANGED <<state, ret, ops>>,
         \A u \in Threads : u # w => snap'[u] = snap[u]
  PROVE  WordInv'
<1>1. w \in Threads /\ state.st \in {"Empty", "Waiting", "Woken"} /\ ret[w] = "idle"
  BY ZenonT(20) DEF Threads, IInv, Typed, Word, WordInv, Sees
<1>2. CASE state.st = "Waiting"
  BY <1>2, EnqueueWord DEF OnSeen
<1>3. CASE state.st \in {"Empty", "Woken"}
  <2>1. pc' = [pc EXCEPT ![w] = "pollCas"] /\ lock' = w /\ queue' = queue
    BY <1>3 DEF OnSeen, GoTo
  <2>2. pc'[w] = "pollCas"
    BY <1>1, <2>1 DEF IInv, Typed
  <2>3. Sees(w)'
    BY <1>1, <2>1, <2>2 DEF Sees, Emptying, Panics
  <2>4. state'.st = "Waiting" <=> queue' # <<>>
    BY <1>1, <2>1, Alone DEF Polling
  <2> QED
    BY <1>1, <1>3, <2>1, <2>3, <2>4, LockedStep, Zenon
<1> QED
  BY <1>1, <1>2, <1>3

(* Wait::poll under the lock. *)
LEMMA PollLockWord == ASSUME NEW w \in Waiters, IInv, WordInv, PollLock(w) PROVE WordInv'
<1>1. /\ \A u \in Threads : u # w => snap'[u] = snap[u]
      /\ pc[w] = "pollLock" /\ lock = NoOne /\ UNCHANGED <<state, ret, ops>>
  BY DEF PollLock, IInv, Typed
<1>2. CASE WokenByAll(w)
  BY <1>1, <1>2, ReadyWord DEF PollLock
<1>3. CASE ~WokenByAll(w)
  BY <1>1, <1>3, OnSeenWord DEF PollLock, Polling
<1> QED
  BY <1>2, <1>3

(* Wait::poll, the compare_exchange under the lock. *)
LEMMA PollCasWord == ASSUME NEW w \in Waiters, IInv, WordInv, PollCas(w) PROVE WordInv'
<1>1. /\ pc[w] = "pollCas" /\ lock = w /\ w \in Threads /\ UNCHANGED <<ret, ops>>
      /\ snap[w] \in Word
  BY DEF PollCas, IInv, Typed, Threads, WordInv, Sees, Critical
<1>2. \A u \in Threads : u # w => snap'[u] = snap[u]
  BY DEF PollCas, IInv, Typed
<1>3. CASE CasSucceeds(w) /\ snap[w].st = "Empty"
  <2>1. Enqueue(w) /\ lock' = NoOne /\ state' = With(snap[w], "Waiting")
    BY <1>3 DEF PollCas
  <2> QED
    BY <1>1, <1>2, <2>1, WithWord, EnqueueWord, Zenon
<1>4. CASE CasSucceeds(w) /\ snap[w].st = "Woken"
  <2>1. /\ Ready(w, "Ok") /\ lock' = NoOne /\ state' = With(snap[w], "Empty") /\ queue' = queue
        /\ state.st # "Waiting"
    BY <1>4 DEF PollCas, CasSucceeds
  <2>2. state'.st = "Empty"
    BY <1>1, <2>1, WithWord
  <2> QED
    BY <1>1, <1>2, <2>1, <2>2, ReadyWord
<1>5. CASE ~CasSucceeds(w)
  BY <1>1, <1>2, <1>5, OnSeenWord DEF PollCas, Polling
<1> QED
  BY <1>3, <1>4, <1>5 DEF PollCas

(* Wait::poll of a queued future. *)
LEMMA PollWaitingWord == ASSUME NEW w \in Waiters, IInv, WordInv, PollWaiting(w) PROVE WordInv'
<1>1. /\ pc[w] = "held" /\ lock = NoOne /\ w \in Threads
      /\ UNCHANGED <<state, queue, lock, snap, ret>>
  BY DEF PollWaiting, Threads
<1>2. CASE UNCHANGED pc
  <2>1. pc' = [pc EXCEPT ![w] = "held"] /\ ret[w] = "idle" /\ state.st # "Closed"
    BY <1>1, <1>2 DEF IInv, Typed, WordInv, Sees
  <2>2. state'.st = "Waiting" <=> queue' # <<>>
    BY <1>1, Alone
  <2> QED
    BY <1>1, <2>1, <2>2, NoDuty, LockedStep, Zenon
<1>3. CASE Ready(w, "Ok") \/ Ready(w, "Closed")
  BY <1>1, <1>3, ReadyWord
<1> QED
  BY <1>2, <1>3 DEF PollWaiting

(* wake_locked with a fresh snapshot: if the word says Waiting there is a      *)
(* waiter to take, otherwise none is passed by.                               *)
LEMMA WakeLockedWord ==
  ASSUME NEW t \in Threads, IInv, WordInv, WakeLocked(t, state, queue), lock = NoOne,
         UNCHANGED state, \A u \in Threads : u # t => snap'[u] = snap[u]
  PROVE  WordInv'
<1>1. /\ state.st = "Waiting" <=> queue # <<>>
      /\ state.st # "Closed" /\ ret[t] = "idle" /\ ret \in [Threads -> {"idle", "allLock", "closeLock"}]
      /\ pc \in [Threads -> Pcs] /\ queue \in Seq(Waiters)
  BY Alone DEF Critical, WordInv, Sees, IInv, Typed
<1>2. CASE state.st # "Waiting"
  <2>1. queue' = queue /\ lock' = t /\ pc' = [pc EXCEPT ![t] = "wlCas"] /\ ret' = ret
    BY <1>2 DEF WakeLocked, GoTo
  <2>2. pc'[t] = "wlCas"
    BY <1>1, <2>1
  <2>3. Sees(t)'
    BY <1>1, <1>2, <2>1, <2>2 DEF Sees, Emptying, Panics
  <2> QED
    BY <1>1, <1>2, <2>1, <2>3, LockedStep, Zenon
<1>3. CASE state.st = "Waiting" /\ Tail(queue) = <<>>
  <2>1. queue' = <<>> /\ lock' = t /\ pc' = [pc EXCEPT ![t] = "wlEmpty"] /\ ret' = ret
    BY <1>1, <1>3, Zenon DEF WakeLocked, GoTo
  <2>2. pc'[t] = "wlEmpty"
    BY <1>1, <2>1
  <2>3. Sees(t)' /\ Emptying(t)'
    BY <1>1, <1>3, <2>1, <2>2 DEF Sees, Emptying, Panics
  <2> QED
    BY <1>1, <1>3, <2>1, <2>3, LockedStep, Zenon
<1>4. CASE state.st = "Waiting" /\ Tail(queue) # <<>>
  <2>1. queue' # <<>> /\ lock' = NoOne /\ ret' = [ret EXCEPT ![t] = "idle"]
    BY ZenonT(20), <1>1, <1>4 DEF WakeLocked, ThenWake
  <2>2. PICK l \in {"idle", "batch"} : pc' = [pc EXCEPT ![t] = l]
    BY <1>1, <1>4 DEF WakeLocked, ThenWake, GoTo
  <2>3. ret'[t] = "idle" /\ \A u \in Threads : u # t => ret'[u] = ret[u]
    BY <1>1, <2>1
  <2> QED
    BY <1>1, <1>4, <2>1, <2>2, <2>3, NoDuty, LockedStep, Zenon
<1> QED
  BY ZenonT(20), <1>2, <1>3, <1>4

(* wake() takes the lock. *)
LEMMA WakeLockWord == ASSUME NEW t \in Threads, IInv, WordInv, WakeLock(t) PROVE WordInv'
BY WakeLockedWord DEF WakeLock, LockFree, FreshSnapshot, IInv, Typed

(* A list that List::remove of w leaves empty had w on it, or nothing. *)
LEMMA LastIsOwn ==
  ASSUME NEW w \in Waiters, NEW q \in Seq(Waiters), Distinct(q)
  PROVE  /\ Remove(q, w) = <<>> /\ q # <<>> => w \in Elems(q)
         /\ q = <<>> => Remove(q, w) = <<>>
<1>1. CASE w \notin Elems(q)
  BY <1>1, UnlinkAbsent DEF Remove
<1>2. CASE w \in Elems(q)
  BY <1>2 DEF Elems
<1> QED
  BY <1>1, <1>2

(* Dropping a future. *)
LEMMA DropWord == ASSUME NEW w \in Waiters, IInv, WordInv, Drop(w) PROVE WordInv'
<1>1. /\ pc[w] = "held" /\ UNCHANGED state /\ w \in Threads
      /\ ret[w] = "idle" /\ state.st # "Closed"
      /\ queue \in Seq(Waiters) /\ Distinct(queue) /\ pc \in [Threads -> Pcs]
      /\ snap \in [Threads -> Word]
  BY DEF Drop, Threads, WordInv, Sees, IInv, Typed, ListInv
<1>2. CASE wstate[w] # "Waiting"
  <2>1. pc' = [pc EXCEPT ![w] = "idle"] /\ UNCHANGED <<queue, lock, node, snap, ret, ops>>
    BY <1>2 DEF Drop, GoTo
  <2> QED
    BY <1>1, <2>1, FreeStep, Zenon DEF Critical, Panics
<1>3. CASE wstate[w] = "Waiting" /\ WasLast(w)
  <2>1. /\ lock = NoOne /\ queue' = <<>> /\ lock' = w /\ pc' = [pc EXCEPT ![w] = "relStore"]
        /\ snap' = [snap EXCEPT ![w] = state] /\ UNCHANGED <<node, ret>>
    BY <1>3 DEF Drop, GoTo
  <2>2. queue # <<>>
    BY ZenonT(20), <1>1, <1>3, <2>1, Alone DEF WasLast
  <2>3. node[w] # "One"
    BY <1>1, <1>3, <2>2, LastIsOwn DEF WasLast, IInv, ListInv, NodeInv
  <2>4. pc'[w] = "relStore" /\ \A u \in Threads : u # w => snap'[u] = snap[u]
    BY <1>1, <2>1
  <2>5. Sees(w)' /\ Emptying(w)'
    BY ZenonT(20), <1>1, <1>3, <2>1, <2>3, <2>4 DEF Sees, Emptying, Panics, WasLast
  <2> QED
    BY <1>1, <2>1, <2>4, <2>5, LockedStep, Zenon
<1>4. CASE wstate[w] = "Waiting" /\ ~WasLast(w)
  <2>1. /\ lock = NoOne /\ snap' = [snap EXCEPT ![w] = state]
        /\ \A u \in Threads : u # w => snap'[u] = snap[u]
    BY <1>1, <1>4 DEF Drop
  <2>2. CASE OwesWakeup(w)
    <3>1. Remove(queue, w) = queue
      BY <1>1, <2>2, UnlinkAbsent DEF OwesWakeup, Remove, IInv, ListInv, NodeInv
    <3>2. WakeLocked(w, state, queue)
      BY <1>4, <2>2, <3>1 DEF Drop
    <3> QED
      BY ZenonT(20), <1>1, <2>1, <3>2, WakeLockedWord
  <2>3. CASE ~OwesWakeup(w)
    <3>1. /\ queue' = Remove(queue, w) /\ pc' = [pc EXCEPT ![w] = "idle"]
          /\ UNCHANGED <<lock, ret>>
      BY <1>4, <2>3 DEF Drop, GoTo
    <3>2. state'.st = "Waiting" <=> queue' # <<>>
      BY <1>1, <1>4, <2>1, <3>1, Alone, LastIsOwn DEF WasLast
    <3> QED
      BY <1>1, <2>1, <3>1, <3>2, NoDuty, LockedStep, Zenon
  <2> QED
    BY <2>2, <2>3
<1> QED
  BY <1>2, <1>3, <1>4
(* The stores to the word at the end of a critical section. *)
LEMMA StoreWord ==
  ASSUME NEW t \in Threads, IInv, WordInv, WlCas(t) \/ WlStore(t) \/ WlEmpty(t) \/ RelStore(t)
  PROVE  WordInv'
<1>1. /\ pc[t] \in {"wlCas", "wlStore", "wlEmpty", "relStore"} /\ lock = t /\ ret[t] = "idle"
      /\ state.st \in {"Empty", "Waiting", "Woken"} /\ state \in Word /\ snap[t] \in Word
      /\ snap \in [Threads -> Word] /\ pc \in [Threads -> Pcs]
      /\ ret \in [Threads -> {"idle", "allLock", "closeLock"}]
  BY DEF WlCas, WlStore, WlEmpty, RelStore, IInv, Typed, Word, WordInv, Sees, Critical
<1>2. CASE WlCas(t) /\ ~CasSucceeds(t)
  <2>1. state.st # "Waiting" /\ queue = <<>>
    BY <1>1, <1>2, Alone DEF WlCas, WordInv, Sees
  <2>2. /\ pc' = [pc EXCEPT ![t] = "wlStore"] /\ snap' = [snap EXCEPT ![t] = state]
        /\ UNCHANGED <<state, lock, queue, ret>>
    BY <1>2, <2>1 DEF WlCas, GoTo
  <2>3. pc'[t] = "wlStore" /\ \A u \in Threads : u # t => snap'[u] = snap[u]
    BY <1>1, <2>2
  <2>4. Sees(t)'
    BY <1>1, <2>1, <2>2, <2>3 DEF Sees, Emptying, Panics
  <2> QED
    BY <1>1, <2>1, <2>2, <2>3, <2>4, LockedStep, ZenonT(20)
<1>3. CASE WlStore(t) \/ (WlCas(t) /\ CasSucceeds(t))
  <2>1. queue = <<>>
    BY <1>1, <1>3, Alone DEF WlCas, WlStore, WordInv, Sees
  <2>2. /\ pc' = [pc EXCEPT ![t] = "idle"] /\ state' = With(snap[t], "Woken") /\ lock' = NoOne
        /\ UNCHANGED <<queue, ret, snap>>
    BY <1>3 DEF WlCas, WlStore, GoTo
  <2>3. state'.st = "Woken"
    BY <1>1, <2>2, WithWord
  <2> QED
    BY <1>1, <2>1, <2>2, <2>3, NoDuty, LockedStep, ZenonT(20)
<1>4. CASE WlEmpty(t) \/ RelStore(t)
  <2>1. queue = <<>> /\ (RelStore(t) => ~OwesWakeup(t))
    BY <1>4, Zenon DEF WlEmpty, RelStore, OwesWakeup, WordInv, Sees, Emptying
  <2>2. /\ state' = With(snap[t], "Empty") /\ lock' = NoOne /\ UNCHANGED <<queue, snap>>
        /\ ret' = ret \/ ret' = [ret EXCEPT ![t] = "idle"]
    BY <1>4, <2>1, Zenon DEF WlEmpty, RelStore
  <2>3. PICK l \in {"idle", "batch"} : pc' = [pc EXCEPT ![t] = l]
    BY <1>4, <2>1, Zenon DEF WlEmpty, RelStore, GoTo
  <2>4. state'.st = "Empty"
    BY <1>1, <2>2, WithWord
  <2>5. \A u \in Threads : ret'[u] = ret[u]
    BY <1>1, <2>2
  <2> QED
    BY <1>1, <2>1, <2>2, <2>3, <2>4, <2>5, NoDuty, LockedStep, Zenon
<1> QED
  BY ZenonT(20), <1>2, <1>3, <1>4

(* No more nodes than a batch holds: drain_to_wake_batch pops them all. *)
LEMMA WholeBatch ==
  ASSUME IInv, IsFiniteSet(Waiters), Cardinality(Waiters) <= BatchSize
  PROVE  NodesToDrain = Len(queue)
<1> DEFINE Wakes(k) == {i \in 1..k : node[queue[i]] = "Waiting"}
           full == {k \in 1..Len(queue) : Cardinality(Wakes(k)) = BatchSize}
           n == IF full = {} THEN Len(queue) ELSE CHOOSE k \in full : \A j \in full : k <= j
<1>1. NodesToDrain = n
  BY DEF NodesToDrain
<1>2. queue \in Seq(Waiters) /\ Distinct(queue) /\ Len(queue) \in Nat /\ BatchSize \in Nat
  BY WaitQueueAssumption DEF IInv, Typed, ListInv
<1>3. Len(queue) <= Cardinality(Waiters) /\ Cardinality(Waiters) \in Nat
  BY <1>2, Counted, ElemsType, FS_Subset, FS_CardinalityType
<1>4. ASSUME NEW k \in full PROVE k = Len(queue)
  <2>1. k \in 1..Len(queue) /\ Cardinality(Wakes(k)) = BatchSize
    OBVIOUS
  <2>2. Wakes(k) \subseteq 1..k /\ k \in Nat
    BY <2>1
  <2> HIDE DEF Wakes
  <2>3. IsFiniteSet(1..k) /\ Cardinality(1..k) = k
    BY <2>1, FS_Interval
  <2>4. Cardinality(Wakes(k)) <= k
    BY <2>2, <2>3, FS_Subset
  <2> HIDE DEF full
  <2> QED
    BY <1>2, <1>3, <2>1, <2>4
<1> HIDE DEF full
<1>5. CASE full = {}
  BY <1>1, <1>5
<1>6. CASE full # {}
  <2>1. \E k \in full : \A j \in full : k <= j
    BY <1>2, <1>4, <1>6
  <2>2. n \in full
    BY <1>6, <2>1
  <2> HIDE DEF n
  <2> QED
    BY <1>1, <1>4, <2>2
<1> QED
  BY <1>5, <1>6

(* wake_all, under the lock. *)
LEMMA WakeAllWord ==
  ASSUME NEW t \in Threads, OneBatch, IInv, WordInv, WakeAll(t) \/ WakeAllAdd(t) \/ WakeAllCas(t)
  PROVE  WordInv'
<1>1. /\ ret[t] = "idle" /\ state.st \in {"Empty", "Waiting", "Woken"} /\ state \in Word
      /\ snap \in [Threads -> Word] /\ pc \in [Threads -> Pcs]
      /\ ret \in [Threads -> {"idle", "allLock", "closeLock"}]
  BY DEF IInv, Typed, Word, WordInv, Sees
<1>2. CASE WakeAll(t)
  <2>1. PICK l \in {"allCas", "allAdd"} : /\ pc' = [pc EXCEPT ![t] = l]
                                          /\ l = "allCas" <=> state.st = "Waiting"
    BY <1>2, Zenon DEF WakeAll, GoTo
  <2>2. /\ lock = NoOne /\ lock' = t /\ snap' = [snap EXCEPT ![t] = state] /\ "wake_all" \in ops
        /\ UNCHANGED <<state, queue, ret, ops>>
    BY <1>2 DEF WakeAll
  <2>3. state.st = "Waiting" <=> queue # <<>>
    BY <2>2, Alone DEF Critical
  <2>4. /\ pc'[t] = l /\ snap'[t] = state
        /\ \A u \in Threads : u # t => snap'[u] = snap[u]
    BY <1>1, <2>1, <2>2
  <2>5. Sees(t)'
    BY <1>1, <2>1, <2>2, <2>4 DEF Sees, Emptying, Panics
  <2> QED
    BY <1>1, <2>1, <2>2, <2>3, <2>4, <2>5, LockedStep, Zenon
<1>3. CASE WakeAllAdd(t)
  <2>1. /\ pc[t] = "allAdd" /\ lock = t /\ lock' = NoOne /\ pc' = [pc EXCEPT ![t] = "idle"]
        /\ UNCHANGED <<queue, snap, ret>> /\ state'.st = state.st
    BY <1>1, <1>3 DEF WakeAllAdd, AddWakeAll, Word, GoTo, WordInv, Sees, Critical
  <2>2. state'.st = "Waiting" <=> queue' # <<>>
    BY <2>1, Alone
  <2> QED
    BY <1>1, <2>1, <2>2, NoDuty, LockedStep, Zenon
<1>4. CASE WakeAllCas(t)
  <2>1. pc[t] = "allCas" /\ lock = t /\ CasSucceeds(t) /\ "wake_all" \in ops /\ ops \in Usages
    BY <1>4 DEF WakeAllCas, WordInv, Sees, Critical, CasSucceeds, IInv, Typed
  <2>2. NodesToDrain = Len(queue) /\ queue \in Seq(Waiters) /\ Len(queue) \in Nat
    BY <2>1, WholeBatch DEF OneBatch, IInv, Typed
  <2>3. /\ state'.st = "Empty" /\ queue' = Drained(NodesToDrain) /\ lock' = NoOne /\ snap' = snap
        /\ ThenWake(t, IF NodesToDrain < Len(queue) THEN "allLock" ELSE "idle")
    <3>1. /\ state' = [st |-> "Empty", alls |-> OneMore(snap[t].alls)]
          /\ Drain(t, "All", "allLock") /\ snap' = snap
      BY <1>4, <2>1, Zenon DEF WakeAllCas
    <3>2. state'.st = "Empty"
      BY <3>1
    <3> QED
      BY <3>1, <3>2, Zenon DEF Drain
  <2>4. IsSuffix(Waiters, queue', queue, Len(queue))
    <3>1. Len(queue) <= Len(queue)
      BY <2>2
    <3>2. queue' = SubSeq(queue, Len(queue) + 1, Len(queue))
      BY <2>2, <2>3, Zenon DEF Drained
    <3> QED
      BY <2>2, <3>1, <3>2, Suffix, Zenon
  <2>5. queue' = <<>>
    BY <2>4, Zenon DEF IsSuffix
  <2>6. ThenWake(t, "idle")
    BY <2>2, <2>3
  <2>7. PICK l \in {"idle", "batch"} : pc' = [pc EXCEPT ![t] = l]
    BY <2>6, ZenonT(20) DEF ThenWake, GoTo
  <2>8. \A u \in Threads : ret'[u] = ret[u]
    BY ZenonT(20), <1>1, <2>6 DEF ThenWake
  <2> QED
    BY <1>1, <2>1, <2>3, <2>5, <2>7, <2>8, NoDuty, LockedStep, ZenonT(20)
<1> QED
  BY <1>2, <1>3, <1>4

(* Every step keeps the word and the list together. *)
LEMMA NextWord == ASSUME OneBatch PROVE IInv /\ WordInv /\ [Next]_vars => WordInv'
<1> SUFFICES ASSUME IInv, WordInv, [Next]_vars PROVE WordInv'
  OBVIOUS
<1>1. CASE UNCHANGED vars
  BY <1>1, Zenon DEF WordInv, Sees, Emptying, vars
<1>2. ASSUME NEW t \in Threads PROVE ~WakeAllMore(t) /\ ~CloseMore(t) /\ ~Close(t)
  BY DEF WakeAllMore, CloseMore, Close, WordInv, Sees, OneBatch, IInv, Typed
<1>3. ASSUME NEW t \in Threads, Finish(t) PROVE WordInv'
  BY <1>2, <1>3, WakeWord, WakeLockWord, StoreWord, WakeAllWord, WakeOneWord DEF Finish
<1>4. ASSUME NEW w \in Waiters, Waiter(w) PROVE WordInv'
  BY <1>3, <1>4, FreeSteps, PollLockWord, PollCasWord, PollWaitingWord, DropWord, StoreWord
     DEF Waiter, Poll, Threads
<1>5. ASSUME NEW t \in Wakers, Waker(t) PROVE WordInv'
  BY <1>2, <1>3, <1>5, WakeWord, WakeAllWord DEF Waker, Threads
<1> QED
  BY <1>1, <1>4, <1>5 DEF Next

(* wait_queue.rs: for any number of tasks and threads, of a queue that is not  *)
(* closed and whose waiters fit in one batch: outside critical sections the    *)
(* word, which wake() reads without the lock, says Waiting exactly if there    *)
(* are nodes, and no assertion about the two fails.                            *)
THEOREM WordTellsOfWaiters == ASSUME OneBatch PROVE Spec => []StateMatchesList
<1>1. IInv /\ WordInv => StateMatchesList
  <2> SUFFICES ASSUME IInv, WordInv PROVE StateMatchesList
    OBVIOUS
  <2>1. ASSUME lock = NoOne PROVE state.st = "Waiting" <=> queue # <<>>
    <3>1. \A t \in Threads : t # NoOne
      BY WaitQueueAssumption DEF Threads
    <3>2. \A t \in Threads : ~Emptying(t)
      BY <2>1, <3>1 DEF WordInv, Sees, Emptying, Critical
    <3> QED
      BY <3>2 DEF WordInv
  <2>2. AssertionsHold
    BY DEF AssertionsHold, WordInv, Sees, Panics
  <2> QED
    BY <2>1, <2>2 DEF StateMatchesList, WaitingMeansQueued
<1>2. IInv /\ WordInv /\ [Next]_vars => WordInv'
  BY NextWord
<1> QED
  BY <1>1, <1>2, InitIInv, NextIInv, InitWord, PTL DEF Spec
=============================================================================

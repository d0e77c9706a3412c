----------------------------- MODULE MutexProofs -----------------------------
(***************************************************************************)
(* Mutex hands its lock on as HandoffLock does, for any number of tasks.   *)
(***************************************************************************)
EXTENDS Mutex, ListLemmas, TLAPS

Word == [st : {"Empty", "Waiting", "Woken"}, alls : {0}]
Pcs == {"idle", "held", "pollFast", "pollLock", "pollCas", "wkCas", "wkLock", "wlCas",
        "wlEmpty", "relStore", "tryCas", "batch"}

(* No wake_all and no close are called on the queue of a mutex. *)
Typed ==
  /\ state \in Word
  /\ queue \in Seq(Waiters)
  /\ lock \in Waiters \cup {NoOne}
  /\ node \in [Waiters -> {"Empty", "Waiting", "One"}]
  /\ wstate \in [Waiters -> {"None", "Start", "Waiting"}]
  /\ walls \in [Waiters -> {0}]
  /\ pc \in [Threads -> Pcs]
  /\ snap \in [Threads -> Word]
  /\ ret \in [Threads -> {"idle"}]
  /\ res \in [Waiters -> {"none", "Ok"}]

(* Between taking the last node off the list and storing Empty. *)
Emptying(t) == pc[t] \in {"wlEmpty", "relStore"}

(* The word says Waiting exactly if there are nodes, except for a thread in   *)
(* that window; the lock protects the window and the other uses of the list.  *)
WordInv ==
  /\ (\A t \in Waiters : ~Emptying(t)) => (state.st = "Waiting" <=> queue # <<>>)
  /\ \A t \in Waiters : Emptying(t) => queue = <<>> /\ state.st = "Waiting"
  /\ \A t \in Waiters : pc[t] \in {"pollCas", "wlCas", "wlEmpty", "relStore"} => lock = t
  /\ \A t \in Waiters : pc[t] = "wlCas" => state.st = "Empty" /\ snap[t] = state
  /\ \A t \in Waiters : pc[t] \in {"wkCas", "pollCas"} => snap[t].st # "Waiting"
  /\ \A t \in Waiters : pc[t] = "tryCas" => snap[t].st = "Woken"

(* A node is on the list, once, exactly if its future waits and was not woken. *)
ListInv ==
  /\ Distinct(queue)
  /\ \A w \in Elems(queue) : wstate[w] = "Waiting" /\ node[w] # "One"
  /\ \A w \in Waiters : wstate[w] = "Waiting" /\ node[w] # "One" => w \in Elems(queue)

(* How far the future of a task is, at each place of its task. *)
StageInv ==
  \A w \in Waiters :
    /\ pc[w] = "held" => wstate[w] # "None"
    /\ pc[w] \in {"pollFast", "pollLock", "pollCas"} => wstate[w] = "Start"
    /\ pc[w] \notin {"held", "pollFast", "pollLock", "pollCas"} => wstate[w] = "None"
    /\ pc[w] # "idle" => res[w] = "none"
    /\ pc[w] = "relStore" => node[w] # "One"

(* There is one wakeup: stored in the word, or with one task, the owner.      *)
TokenInv ==
  /\ state.st = "Woken" <=> \A w \in Waiters : ~Owns(w)
  /\ \A w, u \in Waiters : Owns(w) /\ Owns(u) => w = u

IInv == Typed /\ WordInv /\ ListInv /\ StageInv /\ TokenInv

(* What a step of w may do to the owner and to the list. *)
HandStep(w) ==
  \/ queue' = queue /\ \A u \in Waiters : Owns(u)' <=> Owns(u)
  \/ state.st = "Woken" /\ queue = <<>> /\ queue' = queue /\ Owns(w)'
  \/ /\ state.st # "Woken" /\ ~Owns(w) /\ queue' = Append(queue, w)
     /\ \A u \in Waiters : Owns(u)' <=> Owns(u)
  \/ /\ w \in Elems(queue) /\ queue' = Remove(queue, w)
     /\ \A u \in Waiters : Owns(u)' <=> Owns(u)
  \/ Owns(w) /\ queue = <<>> /\ queue' = queue /\ state'.st = "Woken"
  \/ /\ Owns(w) /\ queue # <<>> /\ queue' = Tail(queue)
     /\ \E h \in Waiters : h = Head(queue) /\ Owns(h)'

-----------------------------------------------------------------------------
(* The inductive invariant. *)

(* The word of a mutex is told by its state alone. *)
LEMMA WithWord ==
  ASSUME NEW s \in Word, NEW x \in {"Empty", "Waiting", "Woken"}
  PROVE  /\ With(s, x) \in Word /\ With(s, x).st = x
         /\ \A r \in Word : r.st = x => r = With(s, x)
BY DEF With, Word

(* Mutex::new: the wakeup is stored in the word. *)
LEMMA InitIInv == InitMutex => IInv
<1> SUFFICES ASSUME InitMutex PROVE IInv
  OBVIOUS
<1> USE WaitQueueAssumption DEF InitMutex, InitWith, Threads
<1>1. Typed
  BY DEF Typed, Word, Pcs
<1>2. WordInv
  BY DEF WordInv, Emptying
<1>3. ListInv
  BY DEF ListInv, Distinct, Elems
<1>4. StageInv
  BY DEF StageInv
<1>5. TokenInv
  BY DEF TokenInv, Owns, Holding
<1> QED
  BY <1>1, <1>2, <1>3, <1>4, <1>5 DEF IInv

(* Mutex::lock, a new future: the task owns nothing. *)
LEMMA LockStep == ASSUME NEW w \in Waiters, IInv, Lock(w) PROVE IInv' /\ HandStep(w)
<1> USE WaitQueueAssumption DEF IInv, Typed, Threads, GoTo, Pcs
<1>0. /\ state \in Word /\ state.st \in {"Empty", "Waiting", "Woken"} /\ state.alls = 0
      /\ snap[w] \in Word /\ snap[w].st \in {"Empty", "Waiting", "Woken"}
      /\ Elems(queue) \subseteq Waiters
  BY ElemsType DEF Word
<1>7. /\ pc[w] = "idle"
      /\ res[w] # "Ok"
      /\ node' = [node EXCEPT ![w] = "Empty"]
      /\ wstate' = [wstate EXCEPT ![w] = "Start"]
      /\ walls' = [walls EXCEPT ![w] = 0]
      /\ pc' = [pc EXCEPT ![w] = "held"]
      /\ res' = [res EXCEPT ![w] = "none"]
      /\ UNCHANGED <<state, queue, lock, snap, ret>>
  BY <1>0 DEF Lock, NewWait, Holding
<1>1. Typed'
  BY <1>0, <1>7
<1>2. WordInv'
  BY <1>0, <1>7 DEF WordInv, Emptying
<1>3. ListInv'
  BY <1>0, <1>7 DEF ListInv, StageInv
<1>4. StageInv'
  BY <1>0, <1>7 DEF StageInv, Holding, WordInv
<1>5. \A u \in Waiters : Owns(u)' <=> Owns(u)
  BY <1>0, <1>7 DEF StageInv, Owns, Holding, WordInv
<1>6. TokenInv'
  BY <1>0, <1>7, <1>5 DEF TokenInv, WordInv
<1>11. HandStep(w)
  BY <1>0, <1>7, <1>5 DEF HandStep
<1> QED
  BY <1>1, <1>2, <1>3, <1>4, <1>6, <1>11

(* Wait::poll, the first load. *)
LEMMA PollStartStep == ASSUME NEW w \in Waiters, IInv, PollStart(w) PROVE IInv' /\ HandStep(w)
<1> USE WaitQueueAssumption DEF IInv, Typed, Threads, GoTo, Pcs
<1>0. /\ state \in Word /\ state.st \in {"Empty", "Waiting", "Woken"} /\ state.alls = 0
      /\ snap[w] \in Word /\ snap[w].st \in {"Empty", "Waiting", "Woken"}
      /\ Elems(queue) \subseteq Waiters
  BY ElemsType DEF Word
<1>7. /\ pc[w] = "held"
      /\ wstate[w] = "Start"
      /\ pc' = [pc EXCEPT ![w] = "pollFast"]
      /\ snap' = [snap EXCEPT ![w] = state]
      /\ UNCHANGED <<state, queue, lock, node, wstate, walls, ret, res>>
  BY <1>0 DEF PollStart
<1>1. Typed'
  BY <1>0, <1>7
<1>2. WordInv'
  BY <1>0, <1>7 DEF WordInv, Emptying
<1>3. ListInv'
  BY <1>0, <1>7 DEF ListInv, StageInv
<1>4. StageInv'
  BY <1>0, <1>7 DEF StageInv, Holding, WordInv
<1>5. \A u \in Waiters : Owns(u)' <=> Owns(u)
  BY <1>0, <1>7 DEF StageInv, Owns, Holding, WordInv
<1>6. TokenInv'
  BY <1>0, <1>7, <1>5 DEF TokenInv, WordInv
<1>11. HandStep(w)
  BY <1>0, <1>7, <1>5 DEF HandStep
<1> QED
  BY <1>1, <1>2, <1>3, <1>4, <1>6, <1>11

(* Wait::poll takes a stored wakeup without the lock. *)
LEMMA PollFastStep == ASSUME NEW w \in Waiters, IInv, PollFast(w) PROVE IInv' /\ HandStep(w)
<1> USE WaitQueueAssumption DEF IInv, Typed, Threads, GoTo, Pcs
<1>0. /\ state \in Word /\ state.st \in {"Empty", "Waiting", "Woken"} /\ state.alls = 0
      /\ snap[w] \in Word /\ snap[w].st \in {"Empty", "Waiting", "Woken"}
      /\ Elems(queue) \subseteq Waiters
  BY ElemsType DEF Word
<1>1. CASE state = With(snap[w], "Woken")
  <2>7. /\ pc[w] = "pollFast"
        /\ state.st = "Woken"
        /\ wstate' = [wstate EXCEPT ![w] = "None"]
        /\ pc' = [pc EXCEPT ![w] = "idle"]
        /\ res' = [res EXCEPT ![w] = "Ok"]
        /\ UNCHANGED <<queue, lock, node, walls, snap, ret>>
        /\ state' \in Word /\ state'.st = "Empty"
    BY <1>0, <1>1, WithWord DEF PollFast, Ready
  <2>1. Typed'
    BY <1>0, <2>7
  <2>2. WordInv'
    BY <1>0, <2>7 DEF WordInv, Emptying, TokenInv, Owns, StageInv
  <2>3. ListInv'
    BY <1>0, <2>7 DEF ListInv, StageInv
  <2>4. StageInv'
    BY <1>0, <2>7 DEF StageInv, Holding, WordInv
  <2>5. /\ Owns(w)' /\ \A u \in Waiters \ {w} : Owns(u)' <=> Owns(u)
    BY <1>0, <2>7 DEF StageInv, Owns, Holding, WordInv
  <2>6. TokenInv'
    BY <1>0, <2>7, <2>5 DEF TokenInv, WordInv
  <2>11. HandStep(w)
    BY <1>0, <2>7, <2>5 DEF HandStep, WordInv, Emptying
  <2> QED
    BY <2>1, <2>2, <2>3, <2>4, <2>6, <2>11
<1>2. CASE state # With(snap[w], "Woken")
  <2>7. /\ pc[w] = "pollFast"
        /\ pc' = [pc EXCEPT ![w] = "pollLock"]
        /\ UNCHANGED <<state, queue, lock, node, wstate, walls, snap, ret, res>>
    BY <1>0, <1>2 DEF PollFast, Ready
  <2>1. Typed'
    BY <1>0, <2>7
  <2>2. WordInv'
    BY <1>0, <2>7 DEF WordInv, Emptying
  <2>3. ListInv'
    BY <1>0, <2>7 DEF ListInv, StageInv
  <2>4. StageInv'
    BY <1>0, <2>7 DEF StageInv, Holding, WordInv
  <2>5. \A u \in Waiters : Owns(u)' <=> Owns(u)
    BY <1>0, <2>7 DEF StageInv, Owns, Holding, WordInv
  <2>6. TokenInv'
    BY <1>0, <2>7, <2>5 DEF TokenInv, WordInv
  <2>11. HandStep(w)
    BY <1>0, <2>7, <2>5 DEF HandStep
  <2> QED
    BY <2>1, <2>2, <2>3, <2>4, <2>6, <2>11
<1> QED
  BY <1>1, <1>2

(* Mutex::try_lock, the first load. *)
LEMMA TryLockStep == ASSUME NEW w \in Waiters, IInv, TryLock(w) PROVE IInv' /\ HandStep(w)
<1> USE WaitQueueAssumption DEF IInv, Typed, Threads, GoTo, Pcs
<1>0. /\ state \in Word /\ state.st \in {"Empty", "Waiting", "Woken"} /\ state.alls = 0
      /\ snap[w] \in Word /\ snap[w].st \in {"Empty", "Waiting", "Woken"}
      /\ Elems(queue) \subseteq Waiters
  BY ElemsType DEF Word
<1>8. /\ pc[w] = "idle" /\ res[w] # "Ok" /\ TrySaw(w, state, 0)
      /\ walls' = [walls EXCEPT ![w] = 0] /\ UNCHANGED <<state, queue, lock, node, wstate, ret>>
  BY <1>0 DEF TryLock, TryWait, Holding
<1>9. ~(0 > 0)
  OBVIOUS
<1>10. res' = [res EXCEPT ![w] = "none"] /\ snap' = [snap EXCEPT ![w] = state]
  BY <1>0, <1>8, <1>9, Zenon DEF TrySaw
<1>7. /\ pc'[w] \in {"tryCas", "idle"} /\ pc' = [pc EXCEPT ![w] = pc'[w]]
      /\ pc'[w] = "tryCas" => state.st = "Woken"
  BY <1>0, <1>8 DEF TrySaw
<1>1. Typed'
  BY <1>0, <1>7, <1>8, <1>10
<1>2. WordInv'
  BY <1>0, <1>7, <1>8, <1>10 DEF WordInv, Emptying
<1>3. ListInv'
  BY <1>0, <1>7, <1>8, <1>10 DEF ListInv, StageInv
<1>4. StageInv'
  BY <1>0, <1>7, <1>8, <1>10 DEF StageInv, Holding, WordInv
<1>5. \A u \in Waiters : Owns(u)' <=> Owns(u)
  BY <1>0, <1>7, <1>8, <1>10 DEF StageInv, Owns, Holding, WordInv
<1>6. TokenInv'
  BY <1>0, <1>7, <1>8, <1>10, <1>5 DEF TokenInv, WordInv
<1>11. HandStep(w)
  BY <1>0, <1>7, <1>8, <1>10, <1>5 DEF HandStep
<1> QED
  BY <1>1, <1>2, <1>3, <1>4, <1>6, <1>11

(* try_lock takes a stored wakeup, or looks again. *)
LEMMA TryCasStep == ASSUME NEW w \in Waiters, IInv, TryCas(w) PROVE IInv' /\ HandStep(w)
<1> USE WaitQueueAssumption DEF IInv, Typed, Threads, GoTo, Pcs
<1>0. /\ state \in Word /\ state.st \in {"Empty", "Waiting", "Woken"} /\ state.alls = 0
      /\ snap[w] \in Word /\ snap[w].st \in {"Empty", "Waiting", "Woken"}
      /\ Elems(queue) \subseteq Waiters
  BY ElemsType DEF Word
<1>1. CASE state = snap[w]
  <2>7. /\ pc[w] = "tryCas"
        /\ state.st = "Woken"
        /\ wstate' = [wstate EXCEPT ![w] = "None"]
        /\ pc' = [pc EXCEPT ![w] = "idle"]
        /\ res' = [res EXCEPT ![w] = "Ok"]
        /\ UNCHANGED <<queue, lock, node, walls, snap, ret>>
        /\ state' \in Word /\ state'.st = "Empty"
    BY <1>0, <1>1, WithWord DEF TryCas, TrySaw, Ready, CasSucceeds, WordInv
  <2>1. Typed'
    BY <1>0, <2>7
  <2>2. WordInv'
    BY <1>0, <2>7 DEF WordInv, Emptying, TokenInv, Owns, StageInv
  <2>3. ListInv'
    BY <1>0, <2>7 DEF ListInv, StageInv
  <2>4. StageInv'
    BY <1>0, <2>7 DEF StageInv, Holding, WordInv
  <2>5. /\ Owns(w)' /\ \A u \in Waiters \ {w} : Owns(u)' <=> Owns(u)
    BY <1>0, <2>7 DEF StageInv, Owns, Holding, WordInv
  <2>6. TokenInv'
    BY <1>0, <2>7, <2>5 DEF TokenInv, WordInv
  <2>11. HandStep(w)
    BY <1>0, <2>7, <2>5 DEF HandStep, WordInv, Emptying
  <2> QED
    BY <2>1, <2>2, <2>3, <2>4, <2>6, <2>11
<1>2. CASE state # snap[w]
  <2>7. /\ pc[w] = "tryCas"
        /\ snap' = [snap EXCEPT ![w] = state]
        /\ res' = [res EXCEPT ![w] = "none"]
        /\ UNCHANGED <<state, queue, lock, node, wstate, walls, ret>>
        /\ pc'[w] \in {"tryCas", "idle"} /\ pc' = [pc EXCEPT ![w] = pc'[w]]
        /\ pc'[w] = "tryCas" => state.st = "Woken"
    BY <1>0, <1>2 DEF TryCas, TrySaw, Ready, CasSucceeds
  <2>1. Typed'
    BY <1>0, <2>7
  <2>2. WordInv'
    BY <1>0, <2>7 DEF WordInv, Emptying
  <2>3. ListInv'
    BY <1>0, <2>7 DEF ListInv, StageInv
  <2>4. StageInv'
    BY <1>0, <2>7 DEF StageInv, Holding, WordInv
  <2>5. \A u \in Waiters : Owns(u)' <=> Owns(u)
    BY <1>0, <2>7 DEF StageInv, Owns, Holding, WordInv
  <2>6. TokenInv'
    BY <1>0, <2>7, <2>5 DEF TokenInv, WordInv
  <2>11. HandStep(w)
    BY <1>0, <2>7, <2>5 DEF HandStep
  <2> QED
    BY <2>1, <2>2, <2>3, <2>4, <2>6, <2>11
<1> QED
  BY <1>1, <1>2

(* A guard is dropped: its task still has the wakeup. *)
LEMMA UnlockStep == ASSUME NEW w \in Waiters, IInv, Unlock(w) PROVE IInv' /\ HandStep(w)
<1> USE WaitQueueAssumption DEF IInv, Typed, Threads, GoTo, Pcs
<1>0. /\ state \in Word /\ state.st \in {"Empty", "Waiting", "Woken"} /\ state.alls = 0
      /\ snap[w] \in Word /\ snap[w].st \in {"Empty", "Waiting", "Woken"}
      /\ Elems(queue) \subseteq Waiters
  BY ElemsType DEF Word
<1>7. /\ pc[w] = "idle"
      /\ res[w] = "Ok"
      /\ snap' = [snap EXCEPT ![w] = state]
      /\ res' = [res EXCEPT ![w] = "none"]
      /\ UNCHANGED <<state, queue, lock, node, wstate, walls, ret>>
      /\ pc'[w] \in {"wkLock", "wkCas"} /\ pc' = [pc EXCEPT ![w] = pc'[w]]
      /\ pc'[w] = "wkCas" => state.st # "Waiting"
  BY <1>0 DEF Unlock, WakeSaw, Holding
<1>1. Typed'
  BY <1>0, <1>7
<1>2. WordInv'
  BY <1>0, <1>7 DEF WordInv, Emptying
<1>3. ListInv'
  BY <1>0, <1>7 DEF ListInv, StageInv
<1>4. StageInv'
  BY <1>0, <1>7 DEF StageInv, Holding, WordInv
<1>5. \A u \in Waiters : Owns(u)' <=> Owns(u)
  BY <1>0, <1>7 DEF StageInv, Owns, Holding, WordInv
<1>6. TokenInv'
  BY <1>0, <1>7, <1>5 DEF TokenInv, WordInv
<1>11. HandStep(w)
  BY <1>0, <1>7, <1>5 DEF HandStep
<1> QED
  BY <1>1, <1>2, <1>3, <1>4, <1>6, <1>11

(* wake() stores the wakeup, or looks again. *)
LEMMA WakeCasStep == ASSUME NEW w \in Waiters, IInv, WakeCas(w) PROVE IInv' /\ HandStep(w)
<1> USE WaitQueueAssumption DEF IInv, Typed, Threads, GoTo, Pcs
<1>0. /\ state \in Word /\ state.st \in {"Empty", "Waiting", "Woken"} /\ state.alls = 0
      /\ snap[w] \in Word /\ snap[w].st \in {"Empty", "Waiting", "Woken"}
      /\ Elems(queue) \subseteq Waiters
  BY ElemsType DEF Word
<1>1. CASE state = snap[w]
  <2>7. /\ pc[w] = "wkCas"
        /\ state.st # "Waiting"
        /\ pc' = [pc EXCEPT ![w] = "idle"]
        /\ UNCHANGED <<queue, lock, node, wstate, walls, snap, ret, res>>
        /\ state' \in Word /\ state'.st = "Woken"
    BY <1>0, <1>1, WithWord DEF WakeCas, WakeSaw, CasSucceeds, WordInv
  <2>1. Typed'
    BY <1>0, <2>7
  <2>2. WordInv'
    BY <1>0, <2>7 DEF WordInv, Emptying, TokenInv, Owns, StageInv
  <2>3. ListInv'
    BY <1>0, <2>7 DEF ListInv, StageInv
  <2>4. StageInv'
    BY <1>0, <2>7 DEF StageInv, Holding, WordInv
  <2>5. /\ Owns(w) /\ ~Owns(w)' /\ \A u \in Waiters \ {w} : Owns(u)' <=> Owns(u)
    BY <1>0, <2>7 DEF StageInv, Owns, Holding, WordInv
  <2>6. TokenInv'
    BY <1>0, <2>7, <2>5 DEF TokenInv, WordInv
  <2>11. HandStep(w)
    BY <1>0, <2>7, <2>5 DEF HandStep, WordInv, Emptying
  <2> QED
    BY <2>1, <2>2, <2>3, <2>4, <2>6, <2>11
<1>2. CASE state # snap[w]
  <2>7. /\ pc[w] = "wkCas"
        /\ snap' = [snap EXCEPT ![w] = state]
        /\ UNCHANGED <<state, queue, lock, node, wstate, walls, ret, res>>
        /\ pc'[w] \in {"wkLock", "wkCas"} /\ pc' = [pc EXCEPT ![w] = pc'[w]]
        /\ pc'[w] = "wkCas" => state.st # "Waiting"
    BY <1>0, <1>2 DEF WakeCas, WakeSaw, CasSucceeds
  <2>1. Typed'
    BY <1>0, <2>7
  <2>2. WordInv'
    BY <1>0, <2>7 DEF WordInv, Emptying
  <2>3. ListInv'
    BY <1>0, <2>7 DEF ListInv, StageInv
  <2>4. StageInv'
    BY <1>0, <2>7 DEF StageInv, Holding, WordInv
  <2>5. \A u \in Waiters : Owns(u)' <=> Owns(u)
    BY <1>0, <2>7 DEF StageInv, Owns, Holding, WordInv
  <2>6. TokenInv'
    BY <1>0, <2>7, <2>5 DEF TokenInv, WordInv
  <2>11. HandStep(w)
    BY <1>0, <2>7, <2>5 DEF HandStep
  <2> QED
    BY <2>1, <2>2, <2>3, <2>4, <2>6, <2>11
<1> QED
  BY <1>1, <1>2

(* wake_locked stores the wakeup; nobody can have changed the word. *)
LEMMA WlCasStep == ASSUME NEW w \in Waiters, IInv, WlCas(w) PROVE IInv' /\ HandStep(w)
<1> USE WaitQueueAssumption DEF IInv, Typed, Threads, GoTo, Pcs
<1>0. /\ state \in Word /\ state.st \in {"Empty", "Waiting", "Woken"} /\ state.alls = 0
      /\ snap[w] \in Word /\ snap[w].st \in {"Empty", "Waiting", "Woken"}
      /\ Elems(queue) \subseteq Waiters
  BY ElemsType DEF Word
<1>7. /\ pc[w] = "wlCas"
      /\ state.st = "Empty" /\ lock = w
      /\ lock' = NoOne
      /\ pc' = [pc EXCEPT ![w] = "idle"]
      /\ UNCHANGED <<queue, node, wstate, walls, snap, ret, res>>
      /\ state' \in Word /\ state'.st = "Woken"
  BY <1>0, WithWord DEF WlCas, CasSucceeds, WordInv
<1>1. Typed'
  BY <1>0, <1>7
<1>2. WordInv'
  BY <1>0, <1>7 DEF WordInv, Emptying, TokenInv, Owns, StageInv
<1>3. ListInv'
  BY <1>0, <1>7 DEF ListInv, StageInv
<1>4. StageInv'
  BY <1>0, <1>7 DEF StageInv, Holding, WordInv
<1>5. /\ Owns(w) /\ ~Owns(w)' /\ \A u \in Waiters \ {w} : Owns(u)' <=> Owns(u)
  BY <1>0, <1>7 DEF StageInv, Owns, Holding, WordInv
<1>6. TokenInv'
  BY <1>0, <1>7, <1>5 DEF TokenInv, WordInv
<1>11. HandStep(w)
  BY <1>0, <1>7, <1>5 DEF HandStep, WordInv, Emptying
<1> QED
  BY <1>1, <1>2, <1>3, <1>4, <1>6, <1>11

(* wake_locked took the last node. *)
LEMMA WlEmptyStep == ASSUME NEW w \in Waiters, IInv, WlEmpty(w) PROVE IInv' /\ HandStep(w)
<1> USE WaitQueueAssumption DEF IInv, Typed, Threads, GoTo, Pcs
<1>0. /\ state \in Word /\ state.st \in {"Empty", "Waiting", "Woken"} /\ state.alls = 0
      /\ snap[w] \in Word /\ snap[w].st \in {"Empty", "Waiting", "Woken"}
      /\ Elems(queue) \subseteq Waiters
  BY ElemsType DEF Word
<1>7. /\ pc[w] = "wlEmpty"
      /\ state.st = "Waiting" /\ queue = <<>> /\ lock = w
      /\ lock' = NoOne
      /\ UNCHANGED <<queue, node, wstate, walls, snap, ret, res>>
      /\ state' \in Word /\ state'.st = "Empty"
      /\ pc'[w] \in {"idle", "batch"} /\ pc' = [pc EXCEPT ![w] = pc'[w]]
  BY <1>0, WithWord DEF WlEmpty, WordInv, Emptying
<1>1. Typed'
  BY <1>0, <1>7
<1>2. WordInv'
  BY <1>0, <1>7 DEF WordInv, Emptying
<1>3. ListInv'
  BY <1>0, <1>7 DEF ListInv, StageInv
<1>4. StageInv'
  BY <1>0, <1>7 DEF StageInv, Holding, WordInv
<1>5. \A u \in Waiters : Owns(u)' <=> Owns(u)
  BY <1>0, <1>7 DEF StageInv, Owns, Holding, WordInv
<1>6. TokenInv'
  BY <1>0, <1>7, <1>5 DEF TokenInv, WordInv
<1>11. HandStep(w)
  BY <1>0, <1>7, <1>5 DEF HandStep
<1> QED
  BY <1>1, <1>2, <1>3, <1>4, <1>6, <1>11

(* A task is woken. *)
LEMMA WakeOneStep == ASSUME NEW w \in Waiters, IInv, WakeOne(w) PROVE IInv' /\ HandStep(w)
<1> USE WaitQueueAssumption DEF IInv, Typed, Threads, GoTo, Pcs
<1>0. /\ state \in Word /\ state.st \in {"Empty", "Waiting", "Woken"} /\ state.alls = 0
      /\ snap[w] \in Word /\ snap[w].st \in {"Empty", "Waiting", "Woken"}
      /\ Elems(queue) \subseteq Waiters
  BY ElemsType DEF Word
<1>7. /\ pc[w] = "batch"
      /\ UNCHANGED <<state, queue, lock, node, wstate, walls, snap, ret, res>>
      /\ pc'[w] \in {"idle", "batch"} /\ pc' = [pc EXCEPT ![w] = pc'[w]]
  BY <1>0 DEF WakeOne
<1>1. Typed'
  BY <1>0, <1>7
<1>2. WordInv'
  BY <1>0, <1>7 DEF WordInv, Emptying
<1>3. ListInv'
  BY <1>0, <1>7 DEF ListInv, StageInv
<1>4. StageInv'
  BY <1>0, <1>7 DEF StageInv, Holding, WordInv
<1>5. \A u \in Waiters : Owns(u)' <=> Owns(u)
  BY <1>0, <1>7 DEF StageInv, Owns, Holding, WordInv
<1>6. TokenInv'
  BY <1>0, <1>7, <1>5 DEF TokenInv, WordInv
<1>11. HandStep(w)
  BY <1>0, <1>7, <1>5 DEF HandStep
<1> QED
  BY <1>1, <1>2, <1>3, <1>4, <1>6, <1>11

(* poll_wait puts the node on the list, which is reached only under the lock. *)
LEMMA EnqueueStep ==
  ASSUME NEW w \in Waiters, IInv, Enqueue(w), pc[w] \in {"pollLock", "pollCas"},
         lock \in {NoOne, w}, lock' = NoOne,
         state.st # "Woken", state' \in Word, state'.st = "Waiting",
         snap' = [snap EXCEPT ![w] = snap'[w]], snap'[w] \in Word, UNCHANGED <<walls, ret>>
  PROVE  IInv' /\ HandStep(w)
<1> USE WaitQueueAssumption DEF IInv, Typed, Threads, GoTo, Pcs
<1>0. wstate[w] = "Start" /\ Distinct(queue) /\ w \notin Elems(queue) /\ Elems(queue) \subseteq Waiters
  BY ElemsType DEF StageInv, ListInv
<1>7. /\ queue' \in Seq(Waiters) /\ queue' # <<>> /\ Distinct(queue')
      /\ Elems(queue') = Elems(queue) \cup {w}
  BY <1>0, AppendElems DEF Enqueue, PushFront
<1>8. /\ node' = [node EXCEPT ![w] = node'[w]] /\ node'[w] \in {"Empty", "Waiting"}
      /\ wstate' = [wstate EXCEPT ![w] = "Waiting"]
      /\ pc' = [pc EXCEPT ![w] = "held"] /\ res' = res
  BY <1>0 DEF Enqueue
<1>10. queue' = Append(queue, w) /\ ~Owns(w)
  BY <1>0 DEF Enqueue, PushFront, Owns, Holding
<1>9. snap' \in [Threads -> Word] /\ node' \in [Waiters -> {"Empty", "Waiting", "One"}]
  <2>1. \A s \in Word : [snap EXCEPT ![w] = s] \in [Threads -> Word]
    OBVIOUS
  <2>2. \A n \in {"Empty", "Waiting"} : [node EXCEPT ![w] = n] \in [Waiters -> {"Empty", "Waiting", "One"}]
    OBVIOUS
  <2> QED
    BY <1>8, <2>1, <2>2
<1>1. Typed'
  BY <1>0, <1>7, <1>8, <1>9
<1>2. WordInv'
  BY <1>0, <1>7, <1>8, <1>9 DEF WordInv, Emptying
<1>3. ListInv'
  BY <1>0, <1>7, <1>8, <1>9 DEF ListInv, StageInv
<1>4. StageInv'
  BY <1>0, <1>7, <1>8, <1>9 DEF StageInv, Holding, WordInv
<1>5. \A u \in Waiters : Owns(u)' <=> Owns(u)
  BY <1>0, <1>7, <1>8, <1>9 DEF StageInv, Owns, Holding, WordInv
<1>6. TokenInv'
  BY <1>0, <1>7, <1>8, <1>9, <1>5 DEF TokenInv, WordInv
<1>11. HandStep(w)
  BY <1>0, <1>7, <1>8, <1>9, <1>5, <1>10 DEF HandStep
<1> QED
  BY <1>1, <1>2, <1>3, <1>4, <1>6, <1>11

(* Wait::poll under the lock: enqueue, or try to change the word first. *)
LEMMA PollLockStep == ASSUME NEW w \in Waiters, IInv, PollLock(w) PROVE IInv' /\ HandStep(w)
<1> USE WaitQueueAssumption DEF IInv, Typed, Threads, GoTo, Pcs
<1>0. /\ state \in Word /\ state.st \in {"Empty", "Waiting", "Woken"} /\ state.alls = 0
      /\ snap[w] \in Word /\ snap[w].st \in {"Empty", "Waiting", "Woken"}
      /\ Elems(queue) \subseteq Waiters
  BY ElemsType DEF Word
<1>1. CASE state.st = "Waiting"
  BY <1>0, <1>1, EnqueueStep, Zenon DEF PollLock, WokenByAll, OnSeen
<1>2. CASE state.st # "Waiting"
  <2>7. /\ pc[w] = "pollLock"
        /\ lock = NoOne
        /\ lock' = w
        /\ pc' = [pc EXCEPT ![w] = "pollCas"]
        /\ snap' = [snap EXCEPT ![w] = state]
        /\ UNCHANGED <<state, queue, node, wstate, walls, ret, res>>
    BY <1>0, <1>2 DEF PollLock, WokenByAll, OnSeen
  <2>1. Typed'
    BY <1>0, <1>2, <2>7
  <2>2. WordInv'
    BY <1>0, <1>2, <2>7 DEF WordInv, Emptying
  <2>3. ListInv'
    BY <1>0, <1>2, <2>7 DEF ListInv, StageInv
  <2>4. StageInv'
    BY <1>0, <1>2, <2>7 DEF StageInv, Holding, WordInv
  <2>5. \A u \in Waiters : Owns(u)' <=> Owns(u)
    BY <1>0, <1>2, <2>7 DEF StageInv, Owns, Holding, WordInv
  <2>6. TokenInv'
    BY <1>0, <1>2, <2>7, <2>5 DEF TokenInv, WordInv
  <2>11. HandStep(w)
    BY <1>0, <1>2, <2>7, <2>5 DEF HandStep
  <2> QED
    BY <2>1, <2>2, <2>3, <2>4, <2>6, <2>11
<1> QED
  BY <1>1, <1>2

(* The change of the word succeeds, or the word is looked at again. *)
LEMMA PollCasStep == ASSUME NEW w \in Waiters, IInv, PollCas(w) PROVE IInv' /\ HandStep(w)
<1> USE WaitQueueAssumption DEF IInv, Typed, Threads, GoTo, Pcs
<1>0. /\ state \in Word /\ state.st \in {"Empty", "Waiting", "Woken"} /\ state.alls = 0
      /\ snap[w] \in Word /\ snap[w].st \in {"Empty", "Waiting", "Woken"}
      /\ Elems(queue) \subseteq Waiters
  BY ElemsType DEF Word
<1>9. pc[w] = "pollCas" /\ snap[w].st # "Waiting" /\ lock = w
  BY DEF PollCas, WordInv
<1>1. CASE state = snap[w] /\ snap[w].st = "Empty"
  <2>1. Enqueue(w) /\ state' = With(snap[w], "Waiting") /\ lock' = NoOne
    BY <1>1 DEF PollCas, CasSucceeds
  <2>2. state' \in Word /\ state'.st = "Waiting"
    BY <1>0, <2>1, WithWord
  <2>3. snap' = snap /\ UNCHANGED <<walls, ret>>
    BY <1>1 DEF PollCas, CasSucceeds
  <2> QED
    BY <1>0, <1>1, <1>9, <2>1, <2>2, <2>3, EnqueueStep
<1>2. CASE state = snap[w] /\ snap[w].st = "Woken"
  <2>7. /\ state.st = "Woken"
        /\ lock' = NoOne
        /\ wstate' = [wstate EXCEPT ![w] = "None"]
        /\ pc' = [pc EXCEPT ![w] = "idle"]
        /\ res' = [res EXCEPT ![w] = "Ok"]
        /\ UNCHANGED <<queue, node, walls, snap, ret>>
        /\ state' \in Word /\ state'.st = "Empty"
    BY <1>0, <1>2, WithWord DEF PollCas, CasSucceeds, Ready
  <2>1. Typed'
    BY <1>0, <1>9, <2>7
  <2>2. WordInv'
    BY <1>0, <1>9, <2>7 DEF WordInv, Emptying, TokenInv, Owns, StageInv
  <2>3. ListInv'
    BY <1>0, <1>9, <2>7 DEF ListInv, StageInv
  <2>4. StageInv'
    BY <1>0, <1>9, <2>7 DEF StageInv, Holding, WordInv
  <2>5. /\ Owns(w)' /\ \A u \in Waiters \ {w} : Owns(u)' <=> Owns(u)
    BY <1>0, <1>9, <2>7 DEF StageInv, Owns, Holding, WordInv
  <2>6. TokenInv'
    BY <1>0, <1>9, <2>7, <2>5 DEF TokenInv, WordInv
  <2>11. HandStep(w)
    BY <1>0, <1>9, <2>7, <2>5 DEF HandStep, WordInv, Emptying
  <2> QED
    BY <2>1, <2>2, <2>3, <2>4, <2>6, <2>11
<1>3. CASE state # snap[w] /\ state.st = "Waiting"
  <2>1. Enqueue(w) /\ lock' = NoOne
    BY <1>3 DEF PollCas, CasSucceeds, OnSeen
  <2>2. snap' = [snap EXCEPT ![w] = state] /\ state' = state /\ UNCHANGED <<walls, ret>>
    BY <1>3 DEF PollCas, CasSucceeds
  <2> QED
    BY <1>0, <1>3, <1>9, <2>1, <2>2, EnqueueStep, Zenon
<1>4. CASE state # snap[w] /\ state.st # "Waiting"
  <2>7. /\ lock' = w
        /\ pc' = [pc EXCEPT ![w] = "pollCas"]
        /\ snap' = [snap EXCEPT ![w] = state]
        /\ UNCHANGED <<state, queue, node, wstate, walls, ret, res>>
    BY <1>0, <1>4 DEF PollCas, CasSucceeds, OnSeen
  <2>1. Typed'
    BY <1>0, <1>4, <1>9, <2>7
  <2>2. WordInv'
    BY <1>0, <1>4, <1>9, <2>7 DEF WordInv, Emptying
  <2>3. ListInv'
    BY <1>0, <1>4, <1>9, <2>7 DEF ListInv, StageInv
  <2>4. StageInv'
    BY <1>0, <1>4, <1>9, <2>7 DEF StageInv, Holding, WordInv
  <2>5. \A u \in Waiters : Owns(u)' <=> Owns(u)
    BY <1>0, <1>4, <1>9, <2>7 DEF StageInv, Owns, Holding, WordInv
  <2>6. TokenInv'
    BY <1>0, <1>4, <1>9, <2>7, <2>5 DEF TokenInv, WordInv
  <2>11. HandStep(w)
    BY <1>0, <1>4, <1>9, <2>7, <2>5 DEF HandStep
  <2> QED
    BY <2>1, <2>2, <2>3, <2>4, <2>6, <2>11
<1> QED
  BY <1>0, <1>9, <1>1, <1>2, <1>3, <1>4

(* Wait::poll again: the guard is made if the node was woken. *)
LEMMA PollWaitingStep == ASSUME NEW w \in Waiters, IInv, PollWaiting(w) PROVE IInv' /\ HandStep(w)
<1> USE WaitQueueAssumption DEF IInv, Typed, Threads, GoTo, Pcs
<1>0. /\ state \in Word /\ state.st \in {"Empty", "Waiting", "Woken"} /\ state.alls = 0
      /\ snap[w] \in Word /\ snap[w].st \in {"Empty", "Waiting", "Woken"}
      /\ Elems(queue) \subseteq Waiters
  BY ElemsType DEF Word
<1>1. CASE node[w] # "One"
  <2>7. /\ pc[w] = "held"
        /\ wstate[w] = "Waiting" /\ node[w] # "One"
        /\ node' = [node EXCEPT ![w] = "Waiting"]
        /\ UNCHANGED <<state, queue, lock, wstate, walls, pc, snap, ret, res>>
    BY <1>0, <1>1 DEF PollWaiting, Ready
  <2>1. Typed'
    BY <1>0, <2>7
  <2>2. WordInv'
    BY <1>0, <2>7 DEF WordInv, Emptying
  <2>3. ListInv'
    BY <1>0, <2>7 DEF ListInv, StageInv
  <2>4. StageInv'
    BY <1>0, <2>7 DEF StageInv, Holding, WordInv
  <2>5. \A u \in Waiters : Owns(u)' <=> Owns(u)
    BY <1>0, <2>7 DEF StageInv, Owns, Holding, WordInv
  <2>6. TokenInv'
    BY <1>0, <2>7, <2>5 DEF TokenInv, WordInv
  <2>11. HandStep(w)
    BY <1>0, <2>7, <2>5 DEF HandStep
  <2> QED
    BY <2>1, <2>2, <2>3, <2>4, <2>6, <2>11
<1>2. CASE node[w] = "One"
  <2>7. /\ pc[w] = "held"
        /\ wstate[w] = "Waiting" /\ node[w] = "One"
        /\ wstate' = [wstate EXCEPT ![w] = "None"]
        /\ pc' = [pc EXCEPT ![w] = "idle"]
        /\ res' = [res EXCEPT ![w] = "Ok"]
        /\ UNCHANGED <<state, queue, lock, node, walls, snap, ret>>
    BY <1>0, <1>2 DEF PollWaiting, Ready
  <2>1. Typed'
    BY <1>0, <2>7
  <2>2. WordInv'
    BY <1>0, <2>7 DEF WordInv, Emptying
  <2>3. ListInv'
    BY <1>0, <2>7 DEF ListInv, StageInv
  <2>4. StageInv'
    BY <1>0, <2>7 DEF StageInv, Holding, WordInv
  <2>5. \A u \in Waiters : Owns(u)' <=> Owns(u)
    BY <1>0, <2>7 DEF StageInv, Owns, Holding, WordInv
  <2>6. TokenInv'
    BY <1>0, <2>7, <2>5 DEF TokenInv, WordInv
  <2>11. HandStep(w)
    BY <1>0, <2>7, <2>5 DEF HandStep
  <2> QED
    BY <2>1, <2>2, <2>3, <2>4, <2>6, <2>11
<1> QED
  BY <1>1, <1>2

(* wake_locked, by the owner, who has just got the lock: the wakeup goes to the *)
(* first waiting task, or into the word if there is none.                        *)
LEMMA WakeLockedStep ==
  ASSUME NEW w \in Waiters, IInv, Owns(w), pc[w] \in {"wkLock", "held"}, lock = NoOne,
         WakeLocked(w, state, queue), snap' = [snap EXCEPT ![w] = state],
         wstate' = [wstate EXCEPT ![w] = "None"], UNCHANGED <<state, walls, res>>
  PROVE  IInv' /\ HandStep(w)
<1> USE WaitQueueAssumption DEF IInv, Typed, Threads, GoTo, Pcs
<1>0. /\ state \in Word /\ state.st \in {"Empty", "Waiting"}
      /\ Elems(queue) \subseteq Waiters /\ Distinct(queue) /\ w \notin Elems(queue)
      /\ \A t \in Waiters : ~Emptying(t)
      /\ state.st = "Waiting" <=> queue # <<>>
  <2>1. state \in Word /\ state.st \in {"Empty", "Waiting"}
    BY DEF Word, TokenInv
  <2>2. \A t \in Waiters : ~Emptying(t)
    BY DEF WordInv, Emptying
  <2>3. w \notin Elems(queue)
    BY DEF ListInv, StageInv, Owns, Holding
  <2> QED
    BY <2>1, <2>2, <2>3, ElemsType DEF WordInv, ListInv
<1>1. CASE state.st = "Empty"
  <2>7. /\ queue' = queue /\ lock' = w /\ pc' = [pc EXCEPT ![w] = "wlCas"]
        /\ UNCHANGED <<node, hand, ret>>
    BY <1>0, <1>1 DEF WakeLocked
  <2>1. Typed'
    BY <1>0, <1>1, <2>7
  <2>2. WordInv'
    BY <1>0, <1>1, <2>7 DEF WordInv, Emptying
  <2>3. ListInv'
    BY <1>0, <1>1, <2>7 DEF ListInv, StageInv
  <2>4. StageInv'
    BY <1>0, <1>1, <2>7 DEF StageInv, Holding, WordInv
  <2>5. \A u \in Waiters : Owns(u)' <=> Owns(u)
    BY <1>0, <1>1, <2>7 DEF StageInv, Owns, Holding, WordInv
  <2>6. TokenInv'
    BY <1>0, <1>1, <2>7, <2>5 DEF TokenInv, WordInv
  <2>11. HandStep(w)
    BY <1>0, <1>1, <2>7, <2>5 DEF HandStep
  <2> QED
    BY <2>1, <2>2, <2>3, <2>4, <2>6, <2>11
<1>2. CASE state.st = "Waiting"
  <2>0. queue # <<>> /\ queue' = Tail(queue)
    BY <1>0, <1>2 DEF WakeLocked
  <2>10. PICK h \in Waiters : h = Head(queue)
    BY <1>0, <2>0, TailElems
  <2>7. /\ queue' \in Seq(Waiters) /\ h \in Elems(queue) /\ h # w
        /\ Distinct(queue') /\ Elems(queue') = Elems(queue) \ {h}
    BY <1>0, <2>0, <2>10, TailElems
  <2>8. /\ node' = [u \in Waiters |-> IF u = h THEN "One" ELSE node[u]]
        /\ wstate[h] = "Waiting" /\ node[h] # "One"
    BY <1>0, <1>2, <2>7, <2>10 DEF WakeLocked, WakeNodes, ListInv
  <2>9. /\ pc' = [pc EXCEPT ![w] = pc'[w]] /\ ret' \in [Threads -> {"idle"}]
        /\ \/ queue' = <<>> /\ lock' = w /\ pc'[w] = "wlEmpty"
           \/ queue' # <<>> /\ lock' = NoOne /\ pc'[w] \in {"idle", "batch"}
    <3>1. CASE queue' = <<>>
      BY <1>0, <1>2, <2>0, <3>1 DEF WakeLocked
    <3>2. CASE queue' # <<>>
      <4>1. lock' = NoOne /\ ThenWake(w, "idle")
        BY <1>0, <1>2, <2>0, <3>2 DEF WakeLocked
      <4> QED
        BY <3>2, <4>1 DEF ThenWake
    <3> QED
      BY <3>1, <3>2
  <2>1. Typed'
    <3>1. pc' \in [Threads -> Pcs] /\ lock' \in Waiters \cup {NoOne}
      BY <2>9
    <3>2. node' \in [Waiters -> {"Empty", "Waiting", "One"}]
      BY <2>8
    <3>3. wstate' \in [Waiters -> {"None", "Start", "Waiting"}] /\ snap' \in [Threads -> Word]
      BY <1>0
    <3> QED
      BY <2>7, <2>9, <3>1, <3>2, <3>3, Zenon
  <2>2. WordInv'
    BY <1>0, <1>2, <2>7, <2>9 DEF WordInv, Emptying
  <2>3. ListInv'
    BY <1>0, <2>7, <2>8 DEF ListInv
  <2>4. StageInv'
    BY <1>0, <2>7, <2>8, <2>9 DEF StageInv, Owns, Holding
  <2>5. /\ Owns(h)' /\ ~Owns(w)'
        /\ \A u \in Waiters \ {h, w} : Owns(u)' <=> Owns(u)
    <3>1. Owns(h)'
      BY <2>7, <2>8 DEF Owns
    <3>2. res[w] = "none" /\ pc'[w] \in {"wlEmpty", "idle", "batch"}
      BY <2>9 DEF StageInv
    <3>3. ~Owns(w)'
      BY <3>2 DEF Owns, Holding
    <3>4. \A u \in Waiters \ {h, w} : Owns(u)' <=> Owns(u)
      BY <2>8, <2>9 DEF Owns, Holding
    <3> QED
      BY <3>1, <3>3, <3>4
  <2>6. TokenInv'
    <3>1. \A u \in Waiters : Owns(u)' <=> u = h
      BY <2>5, <2>7 DEF TokenInv
    <3> QED
      BY <1>2, <2>7, <3>1 DEF TokenInv
  <2>11. HandStep(w)
    BY <2>0, <2>5, <2>10 DEF HandStep
  <2> QED
    BY <2>1, <2>2, <2>3, <2>4, <2>6, <2>11
<1> QED
  BY <1>0, <1>1, <1>2

(* wake() got the lock of the queue. *)
LEMMA WakeLockStep == ASSUME NEW w \in Waiters, IInv, WakeLock(w) PROVE IInv' /\ HandStep(w)
<1>1. pc[w] = "wkLock" /\ lock = NoOne /\ Owns(w)
  BY DEF WakeLock, LockFree, Owns
<1>2. wstate' = [wstate EXCEPT ![w] = "None"]
  BY <1>1 DEF WakeLock, IInv, StageInv, Typed
<1> QED
  BY <1>1, <1>2, WakeLockedStep, Zenon DEF WakeLock, FreshSnapshot

(* release stores Empty; it had no wakeup to pass on. *)
LEMMA RelStoreStep == ASSUME NEW w \in Waiters, IInv, RelStore(w) PROVE IInv' /\ HandStep(w)
<1> USE WaitQueueAssumption DEF IInv, Typed, Threads, GoTo, Pcs
<1>0. /\ snap[w] \in Word /\ state' \in Word /\ state'.st = "Empty"
      /\ state.st = "Waiting" /\ queue = <<>> /\ lock = w /\ pc[w] = "relStore"
      /\ lock' = NoOne /\ pc' = [pc EXCEPT ![w] = "idle"]
      /\ UNCHANGED <<queue, node, hand, ret, wstate, walls, snap, res>>
  BY WithWord DEF RelStore, OwesWakeup, StageInv, WordInv, Emptying
<1>1. Typed'
  BY <1>0
<1>2. WordInv'
  BY <1>0 DEF WordInv, Emptying
<1>3. ListInv'
  BY <1>0 DEF ListInv, StageInv
<1>4. StageInv'
  BY <1>0 DEF StageInv, Holding, WordInv
<1>5. \A u \in Waiters : Owns(u)' <=> Owns(u)
  BY <1>0 DEF StageInv, Owns, Holding, WordInv
<1>6. TokenInv'
  BY <1>0, <1>5 DEF TokenInv, WordInv
<1>11. HandStep(w)
  BY <1>0, <1>5 DEF HandStep
<1> QED
  BY <1>1, <1>2, <1>3, <1>4, <1>6, <1>11

(* A Lock future is dropped.  If it has the wakeup it hands it on; else its node *)
(* is taken off the list, and the lock is kept while the word is behind.         *)
LEMMA DropStep == ASSUME NEW w \in Waiters, IInv, Drop(w) PROVE IInv' /\ HandStep(w)
<1> USE WaitQueueAssumption DEF IInv, Typed, Threads, GoTo, Pcs
<1>0. /\ pc[w] = "held" /\ wstate' = [wstate EXCEPT ![w] = "None"]
      /\ UNCHANGED <<state, walls, res>> /\ state \in Word
      /\ Elems(queue) \subseteq Waiters /\ Distinct(queue)
  BY ElemsType DEF Drop, ListInv
<1>1. CASE wstate[w] # "Waiting"
  <2>7. /\ pc' = [pc EXCEPT ![w] = "idle"] /\ UNCHANGED <<queue, lock, node, snap, hand, ret>>
        /\ wstate[w] = "Start"
    BY <1>1 DEF Drop, StageInv
  <2>1. Typed'
    BY <1>0, <1>1, <2>7
  <2>2. WordInv'
    BY <1>0, <1>1, <2>7 DEF WordInv, Emptying
  <2>3. ListInv'
    BY <1>0, <1>1, <2>7 DEF ListInv, StageInv
  <2>4. StageInv'
    BY <1>0, <1>1, <2>7, SMTT(30) DEF StageInv, Holding, WordInv
  <2>5. \A u \in Waiters : Owns(u)' <=> Owns(u)
    BY <1>0, <1>1, <2>7 DEF StageInv, Owns, Holding, WordInv
  <2>6. TokenInv'
    BY <1>0, <1>1, <2>7, <2>5 DEF TokenInv, WordInv
  <2>11. HandStep(w)
    BY <1>0, <1>1, <2>7, <2>5 DEF HandStep
  <2> QED
    BY <2>1, <2>2, <2>3, <2>4, <2>6, <2>11
<1>2. CASE wstate[w] = "Waiting" /\ node[w] = "One"
  <2>1. lock = NoOne /\ Owns(w) /\ w \notin Elems(queue) /\ Remove(queue, w) = queue
    BY <1>2, UnlinkAbsent DEF Drop, Owns, ListInv, Remove
  <2>2. ~WasLast(w)
    BY <1>0, <2>1 DEF WasLast, WordInv, Emptying
  <2>3. WakeLocked(w, state, queue) /\ snap' = [snap EXCEPT ![w] = state]
    BY <1>2, <2>1, <2>2 DEF Drop, OwesWakeup
  <2> QED
    BY <1>0, <2>1, <2>3, WakeLockedStep, Zenon
<1>3. CASE wstate[w] = "Waiting" /\ node[w] # "One"
  <2>0. /\ lock = NoOne /\ w \in Elems(queue) /\ \A t \in Waiters : ~Emptying(t)
        /\ snap' = [snap EXCEPT ![w] = state] /\ state.st = "Waiting"
        /\ UNCHANGED <<node, hand, ret>>
    <3>1. lock = NoOne /\ w \in Elems(queue) /\ \A t \in Waiters : ~Emptying(t)
      BY <1>0, <1>3 DEF Drop, ListInv, WordInv, Emptying
    <3>2. queue # <<>>
      BY <3>1 DEF Elems
    <3>3. state.st = "Waiting"
      BY <3>1, <3>2 DEF WordInv
    <3> QED
      BY <1>3, <3>1, <3>3 DEF Drop, OwesWakeup
  <2>9. queue' = Remove(queue, w)
    BY <1>3, <2>0 DEF Drop, OwesWakeup, WasLast
  <2>7. queue' \in Seq(Waiters) /\ Distinct(queue') /\ Elems(queue') = Elems(queue) \ {w}
    BY <1>0, <2>9, UnlinkElems DEF Remove
  <2>8. \/ queue' = <<>> /\ lock' = w /\ pc' = [pc EXCEPT ![w] = "relStore"]
        \/ queue' # <<>> /\ lock' = NoOne /\ pc' = [pc EXCEPT ![w] = "idle"]
    BY <1>3, <2>0, <2>9 DEF Drop, OwesWakeup, WasLast
  <2>1. Typed'
    <3>1. pc' \in [Threads -> Pcs] /\ lock' \in Waiters \cup {NoOne}
      BY <2>8
    <3>2. wstate' \in [Waiters -> {"None", "Start", "Waiting"}] /\ snap' \in [Threads -> Word]
      BY <1>0, <2>0
    <3> QED
      BY <1>0, <2>0, <2>7, <3>1, <3>2, Zenon
  <2>2. WordInv'
    BY <1>0, <1>3, <2>0, <2>7, <2>8 DEF WordInv, Emptying
  <2>3. ListInv'
    BY <1>0, <1>3, <2>0, <2>7, <2>8 DEF ListInv, StageInv
  <2>4. StageInv'
    BY <1>0, <1>3, <2>0, <2>7, <2>8 DEF StageInv, Holding, WordInv
  <2>5. \A u \in Waiters : Owns(u)' <=> Owns(u)
    BY <1>0, <1>3, <2>0, <2>7, <2>8 DEF StageInv, Owns, Holding, WordInv
  <2>6. TokenInv'
    BY <1>0, <2>5 DEF TokenInv
  <2>11. HandStep(w)
    BY <1>0, <1>3, <2>0, <2>7, <2>8, <2>5, <2>9 DEF HandStep
  <2> QED
    BY <2>1, <2>2, <2>3, <2>4, <2>6, <2>11
<1> QED
  BY <1>0, <1>1, <1>2, <1>3

(* A step of a task does one of these, and keeps the invariant. *)
LEMMA TaskStep == ASSUME NEW w \in Waiters, IInv, Task(w) PROVE IInv' /\ HandStep(w)
BY LockStep, PollStartStep, PollFastStep, PollLockStep, PollCasStep, PollWaitingStep,
   TryLockStep, TryCasStep, UnlockStep, DropStep, RelStoreStep, WakeCasStep, WakeLockStep,
   WlCasStep, WlEmptyStep, WakeOneStep
   DEF Task, Poll, HandOn

(* Every step keeps the invariant. *)
LEMMA NextIInv == IInv /\ [NextMutex]_vars => IInv'
<1> SUFFICES ASSUME IInv, [NextMutex]_vars PROVE IInv'
  OBVIOUS
<1>1. CASE UNCHANGED vars
  BY <1>1, SMTT(30) DEF IInv, Typed, WordInv, ListInv, StageInv, TokenInv, Emptying, Owns, Holding, vars
<1>2. CASE NextMutex
  BY <1>2, TaskStep DEF NextMutex
<1> QED
  BY <1>1, <1>2

(* Mutex::guard, "we have just acquired the lock": for any number of tasks, at *)
(* most one has a MutexGuard, that is a mutable reference to the data.         *)
THEOREM GuardIsExclusive == SpecMutex => []MutualExclusion
<1>1. IInv => MutualExclusion
  BY DEF IInv, TokenInv, Owns, MutualExclusion
<1> QED
  BY <1>1, InitIInv, NextIInv, PTL DEF SpecMutex

-----------------------------------------------------------------------------
(* The refinement. *)

(* The owner that HandoffLock sees. *)
OwnerSeen ==
  /\ \A w \in Waiters : Owns(w) <=> owner = w
  /\ owner = NoOne <=> \A w \in Waiters : ~Owns(w)
  /\ owner = NoOne <=> state.st = "Woken"

(* It is the one task with the wakeup, and NoOne while the word stores it. *)
LEMMA OwnerIs == IInv => OwnerSeen
<1> SUFFICES ASSUME IInv PROVE OwnerSeen
  OBVIOUS
<1> USE DEF OwnerSeen
<1>1. CASE \E w \in Waiters : Owns(w)
  <2>1. owner \in Waiters /\ Owns(owner)
    BY <1>1 DEF owner
  <2> QED
    BY <1>1, <2>1, WaitQueueAssumption DEF IInv, TokenInv
<1>2. CASE \A w \in Waiters : ~Owns(w)
  <2>1. owner = NoOne
    BY <1>2 DEF owner
  <2> QED
    BY <1>2, <2>1, WaitQueueAssumption DEF IInv, TokenInv
<1> QED
  BY <1>1, <1>2

(* A step of the mutex is a step of HandoffLock, or changes nothing there. *)
LEMMA HandStepMaps ==
  ASSUME NEW w \in Waiters, IInv, IInv', HandStep(w)
  PROVE  [Handoff!Next]_(Handoff!lockVars)
<1> USE WaitQueueAssumption
<1>0. /\ \A u \in Waiters : Owns(u) <=> owner = u
      /\ owner = NoOne <=> \A u \in Waiters : ~Owns(u)
      /\ owner = NoOne <=> state.st = "Woken"
  BY OwnerIs DEF OwnerSeen
<1>1. /\ \A u \in Waiters : Owns(u)' <=> owner' = u
      /\ owner' = NoOne <=> \A u \in Waiters : ~Owns(u)'
      /\ owner' = NoOne <=> state'.st = "Woken"
  <2>1. OwnerSeen'
    BY OwnerIs, PTL
  <2> QED
    BY <2>1 DEF OwnerSeen
<1>2. (\A u \in Waiters : Owns(u)' <=> Owns(u)) => owner' = owner
  BY <1>0, <1>1
<1>3. CASE queue' = queue /\ \A u \in Waiters : Owns(u)' <=> Owns(u)
  BY <1>2, <1>3 DEF Handoff!lockVars
<1>4. CASE state.st = "Woken" /\ queue = <<>> /\ queue' = queue /\ Owns(w)'
  BY <1>0, <1>1, <1>4 DEF Handoff!Next, Handoff!Take
<1>5. CASE /\ state.st # "Woken" /\ ~Owns(w) /\ queue' = Append(queue, w)
           /\ \A u \in Waiters : Owns(u)' <=> Owns(u)
  BY <1>0, <1>2, <1>5 DEF Handoff!Next, Handoff!Await
<1>6. CASE /\ w \in Elems(queue) /\ queue' = Remove(queue, w)
           /\ \A u \in Waiters : Owns(u)' <=> Owns(u)
  BY <1>0, <1>2, <1>6, Zenon DEF Handoff!Next, Handoff!Cancel, Handoff!Without, Remove, Unlink, Elems
<1>7. CASE Owns(w) /\ queue = <<>> /\ queue' = queue /\ state'.st = "Woken"
  BY <1>0, <1>1, <1>7 DEF Handoff!Next, Handoff!Release
<1>8. CASE /\ Owns(w) /\ queue # <<>> /\ queue' = Tail(queue)
           /\ \E h \in Waiters : h = Head(queue) /\ Owns(h)'
  BY <1>0, <1>1, <1>8 DEF Handoff!Next, Handoff!Release
<1> QED
  BY <1>3, <1>4, <1>5, <1>6, <1>7, <1>8 DEF HandStep

(* mutex.rs:47, "the lock is always acquired in a first-in, first-out order":   *)
(* whatever futures are dropped and however steps interleave, the mutex hands   *)
(* its lock on as HandoffLock does.                                             *)
THEOREM MutexHandsOff == SpecMutex => HandsOff
<1>1. InitMutex => Handoff!Init
  <2> SUFFICES ASSUME InitMutex PROVE Handoff!Init
    OBVIOUS
  <2>1. IInv /\ state.st = "Woken" /\ queue = <<>>
    BY InitIInv DEF InitMutex, InitWith
  <2> QED
    BY <2>1, OwnerIs DEF OwnerSeen, Handoff!Init
<1>2. IInv /\ IInv' /\ [NextMutex]_vars => [Handoff!Next]_(Handoff!lockVars)
  <2> SUFFICES ASSUME IInv, IInv', [NextMutex]_vars PROVE [Handoff!Next]_(Handoff!lockVars)
    OBVIOUS
  <2>1. CASE UNCHANGED vars
    <3>1. \A u \in Waiters : Owns(u)' <=> Owns(u)
      BY <2>1 DEF vars, Owns, Holding
    <3>2. owner' = owner
      BY <2>1 DEF vars, owner, Owns, Holding
    <3> QED
      BY <2>1, <3>2 DEF vars, Handoff!lockVars
  <2>2. CASE NextMutex
    BY <2>2, TaskStep, HandStepMaps DEF NextMutex
  <2> QED
    BY <2>1, <2>2
<1> QED
  BY <1>1, <1>2, InitIInv, NextIInv, PTL DEF SpecMutex, HandsOff, Handoff!Spec
=============================================================================

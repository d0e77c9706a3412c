----------------------------- MODULE MCWaitProofs -----------------------------
(***************************************************************************)
(* The composite that the run of MCWait checks, for any number of tasks,   *)
(* threads, keys and values.  WaitMap: no value is lost, doubled or        *)
(* misdirected, and no future that waits is forgotten.  InitOnce and Lazy: *)
(* there is one initialisation.  (For WaitQueue see WaitQueueProofs.)      *)
(***************************************************************************)
EXTENDS MCWait, ListLemmas, TLAPS

(* Tasks, threads and values can be told apart, also from the variants of    *)
(* Wakeup that hold no value; a batch has a size.                            *)
MapConstants ==
  /\ Waiters \cap Wakers = {}
  /\ NoOne \notin Map!Threads \cup Vals
  /\ Vals \cap {"Empty", "Waiting", "Retrieved", "Closed"} = {}
  /\ MapBatchSize \in Nat

Pcs == {"idle", "startCas", "storeEmpty", "storeNoMatch", "wakeLock", "wakeAll", "wakeMore", "close"}

Typed ==
  /\ mstate \in {"Empty", "Waiting", "Closed"}
  /\ mqueue \in Seq(Waiters)
  /\ mlock \in Map!Threads \cup {NoOne}
  /\ wakeup \in [Waiters -> {"Empty", "Waiting", "Retrieved", "Closed"} \cup Vals]
  /\ mwstate \in [Waiters -> {"None", "Start", "Waiting", "Completed"}]
  /\ key \in [Waiters -> Keys \cup {NoOne}]
  /\ mpc \in [Map!Threads -> Pcs]
  /\ call \in [Wakers -> Vals \cup {NoOne}]
  /\ sent \in [Vals -> Keys \cup {NoOne}]
  /\ taken \in [Wakers -> SUBSET Waiters]
  /\ woken \subseteq Waiters
  /\ unsent \subseteq Vals

(* A node is on the list exactly if its future waits and was not resolved.    *)
(* The task of a resolved one is woken, or about to be by a thread that has   *)
(* its waker.                                                                 *)
NodeInv(w) ==
  /\ w \in Elems(mqueue) <=> mwstate[w] = "Waiting" /\ wakeup[w] = "Waiting"
  /\ mwstate[w] \in {"None", "Start"} => wakeup[w] = "Empty"
  /\ mwstate[w] = "Waiting" /\ wakeup[w] \in Vals \cup {"Closed"} =>
       w \in woken \/ \E t \in Wakers : w \in taken[t]

(* What a thread may rely on at its place: inside a critical section it has   *)
(* the lock, and before it stores Empty the list is empty.                    *)
ThreadInv(t) ==
  /\ mpc[t] \in {"startCas", "storeEmpty", "storeNoMatch"} => mlock = t
  /\ mpc[t] \in {"storeEmpty", "storeNoMatch"} => Elems(mqueue) = {}
  /\ mpc[t] = "startCas" => t \in Waiters /\ mwstate[t] = "Start"

(* A call has its value until it has put it into a node or given it back, and *)
(* wakers are held where they are called next, so none are overwritten.       *)
CallInv(t) ==
  /\ mpc[t] \in {"wakeLock", "storeNoMatch"} <=> call[t] # NoOne
  /\ taken[t] # {} => mpc[t] \in {"wakeAll", "wakeMore", "storeEmpty"}

(* The keys on the list differ; and while there are nodes the word sends      *)
(* wake() into the lock, or a close() comes back for them.                    *)
ListInv ==
  /\ Distinct(mqueue)
  /\ \A u, w \in Elems(mqueue) : key[u] = key[w] => u = w
  /\ Elems(mqueue) # {} => mstate = "Waiting" \/ \E t \in Wakers : mpc[t] \in {"close", "wakeMore"}

(* The value is in a call of wake or in a future. *)
Has(x, v) == (x \in Wakers /\ call[x] = v) \/ (x \in Waiters /\ wakeup[x] = v)

OnePlace(v) ==
  /\ \A x, y \in Map!Threads : Has(x, v) /\ Has(y, v) => x = y
  /\ v \in unsent <=> ~\E x \in Map!Threads : Has(x, v)
  /\ \A w \in Waiters : wakeup[w] = v => key[w] = sent[v]

IInv ==
  /\ Typed /\ ListInv
  /\ \A w \in Waiters : NodeInv(w)
  /\ \A t \in Map!Threads : ThreadInv(t)
  /\ \A t \in Wakers : CallInv(t)
  /\ \A v \in Vals : OnePlace(v)
-----------------------------------------------------------------------------
(* The lists of WaitMap are those of Lists. *)
LEMMA SameLists ==
  /\ \A q : Map!Elems(q) = Elems(q)
  /\ \A q, w : Map!Unlink(q, w) = Unlink(q, w)
BY DEF Map!Elems, Elems, Map!Unlink, Unlink

(* The new map is empty, nobody waits, and nobody has sent a value. *)
LEMMA InitIInv == ASSUME MapConstants PROVE Map!Init => IInv
<1> SUFFICES ASSUME Map!Init PROVE IInv
  OBVIOUS
<1> USE DEF MapConstants, Map!Init, Map!Threads
<1>1. Typed
  BY DEF Typed, Pcs
<1>2. Distinct(mqueue) /\ Elems(mqueue) = {}
  BY DEF Distinct, Elems
<1>3. ListInv /\ \A w \in Waiters : NodeInv(w)
  BY <1>2 DEF ListInv, NodeInv
<1>4. \A t \in Map!Threads : ThreadInv(t)
  BY DEF ThreadInv
<1>5. \A t \in Wakers : CallInv(t)
  BY DEF CallInv
<1>6. \A v \in Vals : OnePlace(v)
  BY DEF OnePlace, Has
<1> QED
  BY <1>1, <1>3, <1>4, <1>5, <1>6 DEF IInv

(* Whoever has a value keeps it when neither calls nor nodes change. *)
LEMMA ValuesStay ==
  ASSUME IInv, UNCHANGED <<call, wakeup, unsent>>, sent' = sent \/ Map!ForgetSent,
         \A w \in Waiters : wakeup[w] \in Vals => key'[w] = key[w]
  PROVE  \A v \in Vals : OnePlace(v)'
<1>1. \A w \in Waiters, v \in Vals : wakeup[w] = v => v \notin unsent
  BY DEF IInv, OnePlace, Has, Map!Threads
<1>2. \A v \in Vals : v \notin unsent => sent'[v] = sent[v]
  BY DEF Map!ForgetSent
<1> QED
  BY <1>1, <1>2 DEF IInv, OnePlace, Has

(* The lock keeps others out: a thread at another place may change the list. *)
LEMMA ThreadsStay ==
  ASSUME IInv, NEW t \in Map!Threads, NEW l \in Pcs, mpc' = [mpc EXCEPT ![t] = l],
         mlock' # mlock => mlock \in {t, NoOne},
         Elems(mqueue') # {} => Elems(mqueue) # {} \/ mlock \in {t, NoOne},
         \A w \in Waiters : w # t => mwstate'[w] = mwstate[w],
         ThreadInv(t)', NoOne \notin Map!Threads
  PROVE  \A u \in Map!Threads : ThreadInv(u)'
<1> SUFFICES ASSUME NEW u \in Map!Threads, u # t PROVE ThreadInv(u)'
  OBVIOUS
<1>1. mpc'[u] = mpc[u] /\ ThreadInv(u)
  BY DEF IInv, Typed
<1> QED
  BY <1>1 DEF ThreadInv

(* WaitMap::wait creates a future that nobody knows of. *)
LEMMA NewWaitStep == ASSUME MapConstants, IInv, NEW w \in Waiters, Map!NewWait(w) PROVE IInv'
<1>1. /\ mwstate[w] = "None" /\ wakeup[w] = "Empty" /\ w \notin Elems(mqueue)
      /\ wakeup' = [wakeup EXCEPT ![w] = "Empty"] /\ mwstate' = [mwstate EXCEPT ![w] = "Start"]
      /\ woken' = woken \cup {w} /\ mpc[w] = "idle"
      /\ UNCHANGED <<mstate, mqueue, mlock, mpc, call, taken, unsent, sent>>
  BY DEF Map!NewWait, IInv, NodeInv
<1>2. PICK k \in Keys : key' = [key EXCEPT ![w] = k]
  BY ZenonT(20) DEF Map!NewWait
<1>3. wakeup' = wakeup
  BY <1>1 DEF IInv, Typed
<1>4. Typed'
  BY <1>1, <1>2 DEF IInv, Typed
<1>5. \A u \in Waiters : NodeInv(u)'
  BY <1>1, <1>3 DEF IInv, Typed, NodeInv
<1>6. \A t \in Map!Threads : ThreadInv(t)'
  BY <1>1 DEF IInv, Typed, ThreadInv
<1>7. \A t \in Wakers : CallInv(t)'
  BY <1>1 DEF IInv, CallInv
<1>8. ListInv'
  <2>1. \A u \in Elems(mqueue) : u \in Waiters /\ key'[u] = key[u]
    BY <1>1, <1>2, ElemsType DEF IInv, Typed
  <2> QED
    BY <1>1, <2>1 DEF IInv, ListInv
<1>9. \A v \in Vals : OnePlace(v)'
  <2>1. \A u \in Waiters : wakeup[u] \in Vals => key'[u] = key[u]
    BY <1>1, <1>2 DEF IInv, Typed, MapConstants
  <2> QED
    BY <1>1, <1>3, <2>1, ValuesStay
<1> QED
  BY <1>4, <1>5, <1>6, <1>7, <1>8, <1>9 DEF IInv

(* start_to_wait puts the future on the list, unless its key is there.  The   *)
(* lock was free or is released.                                              *)
LEMMA PushStep ==
  ASSUME MapConstants, IInv, NEW w \in Waiters, Map!Push(w), mwstate[w] = "Start",
         mlock \in {w, NoOne}, mlock' = NoOne, mpc' = [mpc EXCEPT ![w] = "idle"],
         mstate' = "Waiting", woken' \in {woken, woken \ {w}}, sent' = sent
  PROVE  IInv'
<1>1. wakeup[w] = "Empty" /\ w \notin Elems(mqueue) /\ UNCHANGED <<key, call, taken, unsent>>
  BY DEF IInv, NodeInv, Map!Push
<1>2. mqueue \in Seq(Waiters) /\ Distinct(mqueue) /\ Elems(mqueue) \subseteq Waiters
  BY ElemsType DEF IInv, Typed, ListInv
<1>3. ThreadInv(w)'
  BY DEF ThreadInv, IInv, Typed, Map!Threads
<1>4. \A t \in Wakers : CallInv(t)'
  BY <1>1 DEF IInv, CallInv, Typed, MapConstants, Map!Threads
<1>5. CASE UNCHANGED <<mqueue, mwstate, wakeup>>
  <2>1. Typed'
    BY ZenonT(20), <1>1, <1>5 DEF IInv, Typed, Pcs
  <2>2. \A u \in Waiters : NodeInv(u)'
    BY <1>1, <1>5 DEF IInv, NodeInv, MapConstants
  <2>3. \A t \in Map!Threads : ThreadInv(t)'
    BY ZenonT(20), <1>3, <1>5, ThreadsStay DEF Pcs, MapConstants, Map!Threads
  <2>4. ListInv'
    BY <1>1, <1>5 DEF IInv, ListInv
  <2>5. \A v \in Vals : OnePlace(v)'
    BY <1>1, <1>5, ValuesStay
  <2> QED
    BY <1>4, <2>1, <2>2, <2>3, <2>4, <2>5 DEF IInv
<1>6. CASE /\ ~Map!Duplicate(w)
           /\ mwstate' = [mwstate EXCEPT ![w] = "Waiting"] /\ wakeup' = [wakeup EXCEPT ![w] = "Waiting"]
           /\ mqueue' = Append(mqueue, w)
  <2>1. mqueue' \in Seq(Waiters) /\ Distinct(mqueue') /\ Elems(mqueue') = Elems(mqueue) \cup {w}
    BY <1>1, <1>2, <1>6, AppendElems
  <2>2. Typed'
    BY ZenonT(20), <1>1, <1>6, <2>1 DEF IInv, Typed, Pcs
  <2>3. \A u \in Waiters : NodeInv(u)'
    BY <1>1, <1>6, <2>1 DEF IInv, Typed, NodeInv, MapConstants
  <2>4. \A t \in Map!Threads : ThreadInv(t)'
    BY ZenonT(20), <1>3, <1>6, ThreadsStay DEF Pcs, IInv, Typed, MapConstants, Map!Threads
  <2>5. ListInv'
    <3>1. \A u \in Elems(mqueue) : key[u] # key[w]
      BY <1>6 DEF Map!Duplicate, Elems
    <3> QED
      BY <1>1, <2>1, <3>1 DEF IInv, ListInv
  <2>6. \A v \in Vals : OnePlace(v)'
    <3>1. \A x \in Map!Threads, v \in Vals : Has(x, v)' <=> Has(x, v)
      BY <1>1, <1>6 DEF Has, IInv, Typed, MapConstants, Map!Threads
    <3>2. \A u \in Waiters, v \in Vals : wakeup'[u] = v => wakeup[u] = v
      BY <1>6 DEF IInv, Typed, MapConstants
    <3> QED
      BY <1>1, <3>1, <3>2 DEF IInv, OnePlace
  <2> QED
    BY <1>4, <2>2, <2>3, <2>4, <2>5, <2>6 DEF IInv
<1> QED
  BY <1>5, <1>6 DEF Map!Push

(* The first poll, up to its compare_exchange. *)
LEMMA StartToWaitStep == ASSUME MapConstants, IInv, NEW w \in Waiters, Map!StartToWait(w) PROVE IInv'
<1>1. /\ mpc[w] = "idle" /\ mwstate[w] = "Start" /\ mlock = NoOne /\ woken' = woken \ {w}
      /\ UNCHANGED <<mstate, sent>>
  BY DEF Map!StartToWait
<1>2. CASE mstate = "Waiting" /\ Map!Push(w) /\ UNCHANGED <<mlock, mpc>>
  <2>1. mpc' = [mpc EXCEPT ![w] = "idle"]
    BY <1>1, <1>2 DEF IInv, Typed, Map!Threads
  <2> QED
    BY ZenonT(20), <1>1, <1>2, <2>1, PushStep
<1>3. CASE /\ UNCHANGED <<mqueue, Map!futures, call, taken, unsent>>
           /\ \/ mlock' = w /\ Map!GoTo(w, "startCas")
              \/ UNCHANGED <<mlock, mpc>>
  <2>1. PICK l \in {"idle", "startCas"} : mpc' = [mpc EXCEPT ![w] = l] /\ (l = "startCas" => mlock' = w)
    BY <1>1, <1>3 DEF IInv, Typed, Map!Threads, Map!GoTo
  <2>2. Typed'
    BY <1>1, <1>3, <2>1 DEF IInv, Typed, Pcs, Map!futures, Map!Threads
  <2>3. \A u \in Waiters : NodeInv(u)'
    BY <1>1, <1>3 DEF IInv, NodeInv, Map!futures
  <2>4. ThreadInv(w)'
    BY <1>1, <1>3, <2>1 DEF ThreadInv, IInv, Typed, Map!Threads, Map!futures
  <2>5. \A t \in Map!Threads : ThreadInv(t)'
    BY ZenonT(20), <1>1, <1>3, <2>1, <2>4, ThreadsStay DEF Pcs, MapConstants, Map!Threads, Map!futures
  <2>6. \A t \in Wakers : CallInv(t)' /\ mpc'[t] = mpc[t]
    BY <1>3, <2>1 DEF IInv, CallInv, Typed, MapConstants, Map!Threads
  <2>7. ListInv'
    BY <1>1, <1>3, <2>6 DEF IInv, ListInv, Map!futures
  <2>8. \A v \in Vals : OnePlace(v)'
    BY <1>1, <1>3, ValuesStay DEF Map!futures
  <2> QED
    BY <2>2, <2>3, <2>5, <2>6, <2>7, <2>8 DEF IInv
<1> QED
  BY <1>2, <1>3 DEF Map!StartToWait

(* The compare_exchange; close() may have come before it. *)
LEMMA StartCasStep == ASSUME MapConstants, IInv, NEW w \in Waiters, Map!StartCas(w) PROVE IInv'
<1>1. /\ mpc[w] = "startCas" /\ mlock' = NoOne /\ mpc' = [mpc EXCEPT ![w] = "idle"]
      /\ UNCHANGED <<woken, sent>>
  BY DEF Map!StartCas, Map!GoTo
<1>2. mwstate[w] = "Start" /\ mlock = w
  BY <1>1 DEF IInv, ThreadInv, Map!Threads
<1>3. CASE mstate' = "Waiting" /\ Map!Push(w)
  BY ZenonT(20), <1>1, <1>2, <1>3, PushStep
<1>4. CASE UNCHANGED <<mstate, mqueue, Map!futures, call, taken, unsent>>
  <2>1. Typed'
    BY ZenonT(20), <1>1, <1>4 DEF IInv, Typed, Pcs, Map!futures
  <2>2. \A u \in Waiters : NodeInv(u)'
    BY <1>1, <1>4 DEF IInv, NodeInv, Map!futures
  <2>3. ThreadInv(w)'
    BY <1>1 DEF ThreadInv, IInv, Typed, Map!Threads
  <2>4. \A t \in Map!Threads : ThreadInv(t)'
    BY ZenonT(20), <1>1, <1>2, <1>4, <2>3, ThreadsStay DEF Pcs, MapConstants, Map!Threads, Map!futures
  <2>5. \A t \in Wakers : CallInv(t)' /\ mpc'[t] = mpc[t]
    BY <1>1, <1>4 DEF IInv, CallInv, Typed, MapConstants, Map!Threads
  <2>6. ListInv'
    BY <1>4, <2>5 DEF IInv, ListInv, Map!futures
  <2>7. \A v \in Vals : OnePlace(v)'
    BY <1>1, <1>4, ValuesStay DEF Map!futures
  <2> QED
    BY <2>1, <2>2, <2>4, <2>5, <2>6, <2>7 DEF IInv
<1> QED
  BY <1>3, <1>4 DEF Map!StartCas

(* A value leaves one place and the thread that had it keeps no other.  The   *)
(* receipts of the others stay.                                               *)
LEMMA ValueLeaves ==
  ASSUME MapConstants, IInv, NEW x \in Map!Threads, Map!ForgetSent,
         unsent' = unsent \cup ({v \in Vals : Has(x, v)}),
         \A v \in Vals : ~Has(x, v)',
         \A y \in Map!Threads, v \in Vals : y # x => (Has(y, v)' <=> Has(y, v)),
         \A w \in Waiters : w # x => key'[w] = key[w]
  PROVE  \A v \in Vals : OnePlace(v)'
<1> SUFFICES ASSUME NEW v \in Vals PROVE OnePlace(v)'
  OBVIOUS
<1>1. OnePlace(v)
  BY DEF IInv
<1>2. \A y \in Map!Threads : Has(y, v)' => Has(y, v)
  OBVIOUS
<1>3. \A y, z \in Map!Threads : Has(y, v)' /\ Has(z, v)' => y = z
  BY <1>1, <1>2 DEF OnePlace
<1>4. v \in unsent' <=> ~\E y \in Map!Threads : Has(y, v)'
  BY <1>1 DEF OnePlace
<1>5. ASSUME NEW w \in Waiters, wakeup'[w] = v PROVE key'[w] = sent'[v]
  <2>1. Has(w, v)' /\ w \in Map!Threads
    BY <1>5 DEF Has, Map!Threads
  <2>2. w # x /\ Has(w, v)
    BY <2>1
  <2>3. wakeup[w] = v
    BY <2>2 DEF Has, MapConstants
  <2>4. v \notin unsent'
    BY <1>4, <2>1
  <2>5. sent'[v] = sent[v]
    BY <2>4 DEF Map!ForgetSent
  <2> QED
    BY <1>1, <2>2, <2>3, <2>5 DEF OnePlace
<1> QED
  BY <1>3, <1>4, <1>5 DEF OnePlace

(* A poll takes the value out of its node, or completes when it was closed. *)
LEMMA PollWaitStep == ASSUME MapConstants, IInv, NEW w \in Waiters, Map!PollWait(w) PROVE IInv'
<1>1. /\ mpc[w] = "idle" /\ mwstate[w] = "Waiting" /\ woken' = woken \ {w}
      /\ UNCHANGED <<mstate, mqueue, mlock, key, mpc, call, taken>> /\ Map!ForgetSent
  BY DEF Map!PollWait
<1>2. /\ wakeup' \in [Waiters -> {"Empty", "Waiting", "Retrieved", "Closed"} \cup Vals]
      /\ mwstate' \in [Waiters -> {"None", "Start", "Waiting", "Completed"}]
      /\ \A u \in Waiters : u # w => wakeup'[u] = wakeup[u] /\ mwstate'[u] = mwstate[u]
      /\ unsent' = unsent \cup ({wakeup[w]} \cap Vals)
      /\ wakeup'[w] \notin Vals
      /\ \/ wakeup[w] \in {"Waiting", "Retrieved"} /\ wakeup'[w] = wakeup[w] /\ mwstate'[w] = "Waiting"
         \/ wakeup[w] \in Vals /\ wakeup'[w] = "Retrieved" /\ mwstate'[w] = "Waiting"
         \/ wakeup[w] = "Closed" /\ wakeup'[w] = "Closed" /\ mwstate'[w] = "Completed"
  BY DEF Map!PollWait, IInv, Typed, MapConstants
<1>3. sent' \in [Vals -> Keys \cup {NoOne}]
  BY <1>1 DEF Map!ForgetSent, IInv, Typed
<1>4. Typed'
  BY ZenonT(20), <1>1, <1>2, <1>3 DEF IInv, Typed
<1>5. \A u \in Waiters : NodeInv(u)'
  BY <1>1, <1>2 DEF IInv, NodeInv, MapConstants
<1>6. \A t \in Map!Threads : ThreadInv(t)'
  BY <1>1, <1>2 DEF IInv, ThreadInv
<1>7. \A t \in Wakers : CallInv(t)'
  BY ZenonT(20), <1>1 DEF IInv, CallInv
<1>8. ListInv'
  BY <1>1 DEF IInv, ListInv
<1>9. \A v \in Vals : OnePlace(v)'
  <2>1. w \in Map!Threads /\ w \notin Wakers
    BY DEF Map!Threads, MapConstants
  <2>2. unsent' = unsent \cup {v \in Vals : Has(w, v)}
    BY <1>2, <2>1 DEF Has
  <2>3. \A v \in Vals : ~Has(w, v)'
    BY <1>2, <2>1 DEF Has
  <2>4. \A y \in Map!Threads, v \in Vals : y # w => (Has(y, v)' <=> Has(y, v))
    BY <1>1, <1>2 DEF Has
  <2> QED
    BY <1>1, <2>1, <2>2, <2>3, <2>4, ValueLeaves
<1> QED
  BY <1>4, <1>5, <1>6, <1>7, <1>8, <1>9 DEF IInv

(* The drop of a future unlinks its node and drops the value it may hold. *)
LEMMA ReleaseStep == ASSUME MapConstants, IInv, NEW w \in Waiters, Map!Release(w) PROVE IInv'
<1>1. /\ mpc[w] = "idle" /\ Map!Dropped(w) /\ UNCHANGED <<mstate, call, taken>> /\ Map!ForgetSent
  BY SameLists DEF Map!Release
<1>2. /\ wakeup' = [wakeup EXCEPT ![w] = "Empty"] /\ mwstate' = [mwstate EXCEPT ![w] = "None"]
      /\ key' = [key EXCEPT ![w] = NoOne] /\ unsent' = unsent \cup ({wakeup[w]} \cap Vals)
      /\ woken' = woken \ {w}
  BY <1>1 DEF Map!Dropped
<1>3. mqueue \in Seq(Waiters) /\ Distinct(mqueue) /\ Elems(mqueue) \subseteq Waiters
  BY ElemsType DEF IInv, Typed, ListInv
<1>4. mqueue' \in Seq(Waiters) /\ Distinct(mqueue') /\ Elems(mqueue') = Elems(mqueue) \ {w}
  <2>1. CASE mwstate[w] \in {"Start", "Completed"} /\ mqueue' = mqueue
    BY <1>3, <2>1 DEF IInv, NodeInv
  <2>2. CASE mqueue' = Unlink(mqueue, w)
    BY <1>3, <2>2, UnlinkElems
  <2> QED
    BY <2>1, <2>2, SameLists DEF Map!Release, Map!Removed
<1>5. PICK l \in {"idle", "storeEmpty"} :
        /\ mpc' = [mpc EXCEPT ![w] = l]
        /\ l = "storeEmpty" => mlock' = w /\ mlock = NoOne /\ mqueue' = <<>>
        /\ l = "idle" => mlock' = mlock
  BY <1>1, SameLists DEF Map!Release, Map!GoTo, IInv, Typed, Map!Threads
<1>6. Typed'
  <2>1. sent' \in [Vals -> Keys \cup {NoOne}]
    BY <1>1 DEF Map!ForgetSent, IInv, Typed
  <2>2. mlock' \in Map!Threads \cup {NoOne} /\ mpc' \in [Map!Threads -> Pcs]
    BY <1>5 DEF IInv, Typed, Pcs, Map!Threads
  <2> QED
    BY <1>1, <1>2, <1>4, <2>1, <2>2 DEF IInv, Typed
<1>7. \A u \in Waiters : NodeInv(u)'
  BY ZenonT(20), <1>1, <1>2, <1>4 DEF IInv, Typed, NodeInv
<1>8. \A t \in Map!Threads : ThreadInv(t)'
  <2>1. l = "storeEmpty" => Elems(mqueue') = {}
    BY <1>5 DEF Elems
  <2>2. ThreadInv(w)'
    BY <1>5, <2>1 DEF ThreadInv, IInv, Typed, Map!Threads
  <2>3. \A u \in Waiters : u # w => mwstate'[u] = mwstate[u]
    BY <1>2 DEF IInv, Typed
  <2> QED
    BY ZenonT(20), <1>4, <1>5, <2>2, <2>3, ThreadsStay DEF Pcs, Map!Threads, MapConstants
<1>9. \A t \in Wakers : CallInv(t)' /\ mpc'[t] = mpc[t]
  BY <1>1, <1>5 DEF IInv, CallInv, Typed, MapConstants, Map!Threads
<1>10. ListInv'
  <2>1. \A u \in Elems(mqueue') : u \in Elems(mqueue) /\ key'[u] = key[u]
    BY ZenonT(20), <1>2, <1>3, <1>4 DEF IInv, Typed
  <2> QED
    BY <1>1, <1>4, <1>9, <2>1 DEF IInv, ListInv
<1>11. \A v \in Vals : OnePlace(v)'
  <2>1. w \in Map!Threads /\ w \notin Wakers
    BY DEF Map!Threads, MapConstants
  <2>2. unsent' = unsent \cup {v \in Vals : Has(w, v)}
    BY <1>2, <2>1 DEF Has
  <2>3. \A v \in Vals : ~Has(w, v)'
    BY <1>2, <2>1 DEF Has, IInv, Typed, MapConstants
  <2>4. \A y \in Map!Threads, v \in Vals : y # w => (Has(y, v)' <=> Has(y, v))
    BY ZenonT(20), <1>1, <1>2 DEF Has, IInv, Typed
  <2>5. \A u \in Waiters : u # w => key'[u] = key[u]
    BY ZenonT(20), <1>2 DEF IInv, Typed
  <2> QED
    BY <1>1, <2>1, <2>2, <2>3, <2>4, <2>5, ValueLeaves
<1> QED
  BY ZenonT(20), <1>6, <1>7, <1>8, <1>9, <1>10, <1>11 DEF IInv

(* A step of a thread that leaves the futures, the list and the calls alone. *)
LEMMA QuietStep ==
  ASSUME MapConstants, IInv, NEW t \in Map!Threads, NEW l \in Pcs, mpc' = [mpc EXCEPT ![t] = l],
         l \notin {"startCas", "storeEmpty", "storeNoMatch"},
         UNCHANGED <<mqueue, Map!futures, call, unsent, sent>>,
         mlock' \in Map!Threads \cup {NoOne}, mlock' # mlock => mlock = t,
         mstate' \in {"Empty", "Waiting", "Closed"},
         Elems(mqueue) # {} => mstate' = "Waiting" \/ \E u \in Wakers : mpc'[u] \in {"close", "wakeMore"},
         \A u \in Wakers : CallInv(u)',
         taken' \in [Wakers -> SUBSET Waiters], woken \subseteq woken', woken' \subseteq Waiters,
         \A u \in Wakers : taken[u] \subseteq taken'[u] \cup woken'
  PROVE  IInv'
<1>1. Typed'
  BY DEF IInv, Typed, Map!futures
<1>2. \A w \in Waiters : NodeInv(w)'
  BY DEF IInv, NodeInv, Map!futures
<1>3. ThreadInv(t)'
  BY DEF ThreadInv, IInv, Typed
<1>4. \A u \in Map!Threads : ThreadInv(u)'
  BY ZenonT(20), <1>3, ThreadsStay DEF MapConstants, Map!futures
<1>5. ListInv'
  BY DEF IInv, ListInv, Map!futures
<1>6. \A v \in Vals : OnePlace(v)'
  BY ValuesStay DEF Map!futures
<1> QED
  BY <1>1, <1>2, <1>4, <1>5, <1>6 DEF IInv

(* The store of Empty finds the list empty. *)
LEMMA StoreEmptyStep == ASSUME MapConstants, IInv, NEW t \in Map!Threads, Map!StoreEmpty(t) PROVE IInv'
<1>1. /\ mpc[t] = "storeEmpty" /\ mstate' = "Empty" /\ mlock' = NoOne
      /\ UNCHANGED <<mqueue, Map!futures, call, taken, woken, unsent, sent>>
  BY DEF Map!StoreEmpty
<1>2. PICK l \in {"idle", "wakeAll"} :
        mpc' = [mpc EXCEPT ![t] = l] /\ (l = "idle" => t \notin Wakers)
  BY ZenonT(20) DEF Map!StoreEmpty, Map!GoTo
<1>3. mlock = t /\ Elems(mqueue) = {}
  BY <1>1 DEF IInv, ThreadInv
<1>4. \A u \in Wakers : CallInv(u)'
  BY <1>1, <1>2 DEF IInv, CallInv, Typed, Map!Threads
<1>5. taken' \in [Wakers -> SUBSET Waiters] /\ woken' \subseteq Waiters
  BY <1>1 DEF IInv, Typed
<1> QED
  BY ZenonT(20), <1>1, <1>2, <1>3, <1>4, <1>5, QuietStep DEF Pcs

(* WakeBatch::wake_all, or the one Waker of wake. *)
LEMMA WakeAllStep == ASSUME MapConstants, IInv, NEW t \in Wakers, Map!WakeAll(t) PROVE IInv'
<1>1. /\ mpc[t] \in {"wakeAll", "wakeMore"} /\ woken' = woken \cup taken[t]
      /\ taken' = [taken EXCEPT ![t] = {}]
      /\ UNCHANGED <<mstate, mqueue, mlock, Map!futures, call, unsent, sent>>
      /\ t \in Map!Threads
  BY DEF Map!WakeAll, Map!Threads
<1>2. PICK l \in {"idle", "close"} : mpc' = [mpc EXCEPT ![t] = l] /\ (mpc[t] = "wakeMore" => l = "close")
  BY ZenonT(20) DEF Map!WakeAll, Map!GoTo
<1>3. \A u \in Wakers : CallInv(u)'
  BY <1>1, <1>2 DEF IInv, CallInv, Typed, Map!Threads
<1>4. /\ taken' \in [Wakers -> SUBSET Waiters] /\ woken' \subseteq Waiters
      /\ \A u \in Wakers : taken[u] \subseteq taken'[u] \cup woken'
  BY <1>1 DEF IInv, Typed
<1>5. /\ mstate' \in {"Empty", "Waiting", "Closed"} /\ mlock' \in Map!Threads \cup {NoOne}
      /\ Elems(mqueue) # {} => mstate' = "Waiting" \/ \E u \in Wakers : mpc'[u] \in {"close", "wakeMore"}
  BY <1>1, <1>2 DEF IInv, Typed, ListInv, Map!Threads
<1> QED
  BY ZenonT(20), <1>1, <1>2, <1>3, <1>4, <1>5, QuietStep DEF Pcs

(* close's fetch_or: a list that is not empty gets somebody who drains it. *)
LEMMA CloseStep == ASSUME MapConstants, IInv, NEW t \in Wakers, Map!Close(t) PROVE IInv'
<1>1. /\ mpc[t] = "idle" /\ mstate' = "Closed" /\ t \in Map!Threads
      /\ UNCHANGED <<mqueue, mlock, Map!futures, call, taken, woken, unsent, sent>>
  BY DEF Map!Close, Map!Threads
<1>2. PICK l \in {"idle", "close"} : mpc' = [mpc EXCEPT ![t] = l] /\ (mstate = "Waiting" => l = "close")
  BY <1>1 DEF Map!Close, Map!GoTo, IInv, Typed
<1>3. \A u \in Wakers : CallInv(u)'
  BY <1>1, <1>2 DEF IInv, CallInv, Typed, Map!Threads
<1>4. /\ taken' \in [Wakers -> SUBSET Waiters] /\ woken' \subseteq Waiters
      /\ mlock' \in Map!Threads \cup {NoOne}
  BY <1>1 DEF IInv, Typed
<1>5. Elems(mqueue) # {} => \E u \in Wakers : mpc'[u] \in {"close", "wakeMore"}
  BY <1>1, <1>2 DEF IInv, Typed, ListInv, Map!Threads
<1> QED
  BY ZenonT(20), <1>1, <1>2, <1>3, <1>4, <1>5, QuietStep DEF Pcs

(* wake begins: the caller passes a value for a key. *)
LEMMA WakeStep == ASSUME MapConstants, IInv, NEW t \in Wakers, Map!Wake(t) PROVE IInv'
<1>1. /\ mpc[t] = "idle" /\ mpc' = [mpc EXCEPT ![t] = "wakeLock"] /\ t \in Map!Threads /\ call[t] = NoOne
      /\ UNCHANGED <<mstate, mqueue, mlock, Map!futures, taken, woken>>
  BY DEF Map!Wake, Map!Threads, Map!GoTo, IInv, CallInv
<1>2. PICK k \in Keys, v \in unsent :
        /\ call' = [call EXCEPT ![t] = v] /\ sent' = [sent EXCEPT ![v] = k] /\ unsent' = unsent \ {v}
  BY ZenonT(20) DEF Map!Wake
<1>3. v \in Vals /\ v # NoOne
  BY <1>2 DEF IInv, Typed, MapConstants
<1>4. Typed'
  BY <1>1, <1>2, <1>3 DEF IInv, Typed, Pcs, Map!futures
<1>5. \A w \in Waiters : NodeInv(w)'
  BY <1>1 DEF IInv, NodeInv, Map!futures
<1>6. \A u \in Map!Threads : ThreadInv(u)'
  BY <1>1 DEF IInv, Typed, ThreadInv, Map!futures
<1>7. \A u \in Wakers : CallInv(u)'
  BY <1>1, <1>2, <1>3 DEF IInv, Typed, CallInv, Map!Threads
<1>8. ListInv'
  BY ZenonT(20), <1>1 DEF IInv, Typed, ListInv, Map!futures, Map!Threads
<1>9. ASSUME NEW u \in Vals PROVE OnePlace(u)'
  <2>1. OnePlace(u) /\ OnePlace(v)
    BY ZenonT(20), <1>3 DEF IInv
  <2>2. \A x \in Map!Threads : ~Has(x, v)
    BY ZenonT(20), <1>2, <2>1 DEF OnePlace
  <2>3. \A x \in Map!Threads : Has(x, u)' <=> Has(x, u) \/ (x = t /\ u = v)
    BY ZenonT(20), <1>1, <1>2, <2>2 DEF Has, IInv, Typed, MapConstants, Map!futures, Map!Threads
  <2>4. \A w \in Waiters : wakeup'[w] = u => wakeup[w] = u /\ u # v
    BY ZenonT(20), <1>1, <2>2 DEF Has, Map!futures, Map!Threads
  <2>5. \A w \in Waiters : wakeup'[w] = u => key'[w] = sent'[u]
    BY ZenonT(20), <1>1, <1>2, <2>1, <2>4 DEF OnePlace, IInv, Typed, Map!futures
  <2>6. \A x, y \in Map!Threads : Has(x, u)' /\ Has(y, u)' => x = y
    BY <2>1, <2>2, <2>3 DEF OnePlace
  <2>7. u \in unsent' <=> ~\E x \in Map!Threads : Has(x, u)'
    BY <1>1, <1>2, <2>1, <2>3 DEF OnePlace
  <2> QED
    BY <2>5, <2>6, <2>7 DEF OnePlace
<1> QED
  BY <1>4, <1>5, <1>6, <1>7, <1>8, <1>9 DEF IInv

(* WakeOutcome::NoMatch: the value goes back to the caller. *)
LEMMA GiveBackStep ==
  ASSUME MapConstants, IInv, NEW t \in Wakers, Map!GiveBack(t), Map!ForgetSent,
         mpc[t] \in {"wakeLock", "storeNoMatch"},
         UNCHANGED <<mqueue, Map!futures, taken, woken>>,
         mstate' \in {"Empty", "Waiting", "Closed"}, mstate' # mstate => Elems(mqueue) = {},
         mlock' \in {mlock, NoOne}, mlock' # mlock => mlock = t
  PROVE  IInv'
<1>1. /\ unsent' = unsent \cup {call[t]} /\ call' = [call EXCEPT ![t] = NoOne]
      /\ mpc' = [mpc EXCEPT ![t] = "idle"] /\ t \in Map!Threads
  BY DEF Map!GiveBack, Map!GoTo, Map!Threads
<1>2. call[t] \in Vals
  BY DEF IInv, CallInv, Typed
<1>3. Typed'
  <2>1. sent' \in [Vals -> Keys \cup {NoOne}]
    BY DEF Map!ForgetSent, IInv, Typed
  <2> QED
    BY ZenonT(20), <1>1, <1>2, <2>1 DEF IInv, Typed, Pcs, Map!futures
<1>4. \A w \in Waiters : NodeInv(w)'
  BY ZenonT(20) DEF IInv, NodeInv, Map!futures
<1>5. \A u \in Map!Threads : ThreadInv(u)'
  <2>1. ThreadInv(t)'
    BY <1>1 DEF ThreadInv, IInv, Typed
  <2> QED
    BY ZenonT(20), <1>1, <2>1, ThreadsStay DEF Map!futures, MapConstants, Pcs
<1>6. \A u \in Wakers : CallInv(u)'
  BY <1>1 DEF IInv, Typed, CallInv, Map!Threads
<1>7. ListInv'
  BY <1>1 DEF IInv, Typed, ListInv, Map!futures, Map!Threads
<1>8. \A v \in Vals : OnePlace(v)'
  <2>1. t \notin Waiters
    BY DEF MapConstants
  <2>2. unsent' = unsent \cup {v \in Vals : Has(t, v)}
    BY <1>1, <1>2, <2>1 DEF Has
  <2>3. \A v \in Vals : ~Has(t, v)'
    BY <1>1, <2>1 DEF Has, IInv, Typed, MapConstants
  <2>4. \A y \in Map!Threads, v \in Vals : y # t => (Has(y, v)' <=> Has(y, v))
    BY <1>1 DEF Has, IInv, Typed, Map!futures
  <2> QED
    BY <1>1, <2>2, <2>3, <2>4, ValueLeaves DEF Map!futures
<1> QED
  BY <1>3, <1>4, <1>5, <1>6, <1>7, <1>8 DEF IInv

(* The store of a wake that found the list empty. *)
LEMMA StoreNoMatchStep == ASSUME MapConstants, IInv, NEW t \in Wakers, Map!StoreNoMatch(t) PROVE IInv'
<1>1. /\ mpc[t] = "storeNoMatch" /\ mstate' = "Empty" /\ mlock' = NoOne
      /\ Map!GiveBack(t) /\ Map!ForgetSent /\ UNCHANGED <<mqueue, Map!futures, taken, woken>>
  BY DEF Map!StoreNoMatch
<1>2. mlock = t /\ Elems(mqueue) = {}
  BY <1>1 DEF IInv, ThreadInv, Map!Threads
<1> QED
  BY <1>1, <1>2, GiveBackStep

(* The value goes from the call into the node of the task that waits for it. *)
LEMMA HandOverStep ==
  ASSUME MapConstants, IInv, NEW t \in Wakers, NEW w \in Waiters, Map!Matches(t, w),
         mpc[t] = "wakeLock", mlock = NoOne, mstate = "Waiting",
         mqueue' = Unlink(mqueue, w), wakeup' = [wakeup EXCEPT ![w] = call[t]],
         taken' = [taken EXCEPT ![t] = {w}], call' = [call EXCEPT ![t] = NoOne],
         IF mqueue' = <<>> THEN mlock' = t /\ Map!GoTo(t, "storeEmpty")
                           ELSE Map!GoTo(t, "wakeAll") /\ UNCHANGED mlock,
         UNCHANGED <<unsent, mstate, mwstate, key, woken>>, Map!ForgetSent
  PROVE  IInv'
<1> DEFINE v == call[t]
<1>1. /\ v \in Vals /\ v # NoOne /\ t \in Map!Threads /\ t \notin Waiters /\ taken[t] = {}
      /\ v \notin {"Empty", "Waiting", "Retrieved", "Closed"}
  BY DEF IInv, CallInv, Typed, Map!Threads, MapConstants
<1>2. w \in Elems(mqueue) /\ key[w] = sent[v] /\ mwstate[w] = "Waiting" /\ wakeup[w] = "Waiting"
  BY SameLists DEF Map!Matches, Map!Listed, IInv, NodeInv
<1>3. mqueue' \in Seq(Waiters) /\ Distinct(mqueue') /\ Elems(mqueue') = Elems(mqueue) \ {w}
  BY UnlinkElems DEF IInv, Typed, ListInv
<1>4. PICK l \in {"storeEmpty", "wakeAll"} :
        /\ mpc' = [mpc EXCEPT ![t] = l]
        /\ l = "storeEmpty" => mlock' = t /\ mqueue' = <<>>
        /\ l = "wakeAll" => mlock' = mlock
  BY DEF Map!GoTo
<1>5. Typed'
  <2>1. sent' \in [Vals -> Keys \cup {NoOne}]
    BY DEF Map!ForgetSent, IInv, Typed
  <2>2. mlock' \in Map!Threads \cup {NoOne} /\ mpc' \in [Map!Threads -> Pcs]
    BY <1>1, <1>4 DEF IInv, Typed, Pcs
  <2> QED
    BY <1>1, <1>3, <2>1, <2>2 DEF IInv, Typed
<1>6. \A u \in Waiters : NodeInv(u)'
  <2>1. taken'[t] = {w} /\ \A u \in Wakers : taken[u] \subseteq taken'[u]
    BY <1>1 DEF IInv, Typed
  <2> QED
    BY <1>1, <1>2, <1>3, <2>1 DEF IInv, Typed, NodeInv
<1>7. \A u \in Map!Threads : ThreadInv(u)'
  <2>1. l = "storeEmpty" => Elems(mqueue') = {}
    BY <1>4 DEF Elems
  <2>2. ThreadInv(t)'
    BY <1>1, <1>4, <2>1 DEF ThreadInv, IInv, Typed
  <2> QED
    BY ZenonT(20), <1>1, <1>3, <1>4, <2>2, ThreadsStay DEF MapConstants, Pcs
<1>8. \A u \in Wakers : CallInv(u)'
  BY ZenonT(20), <1>4 DEF IInv, Typed, CallInv, Map!Threads
<1>9. ListInv'
  BY ZenonT(20), <1>3 DEF IInv, ListInv
<1>10. ASSUME NEW u \in Vals PROVE OnePlace(u)'
  <2>1. OnePlace(u) /\ Has(t, v) /\ v \notin unsent
    BY ZenonT(20), <1>1 DEF IInv, OnePlace, Has
  <2>2. \A x \in Map!Threads : Has(x, v) => x = t
    BY ZenonT(20), <1>1, <2>1 DEF IInv, OnePlace
  <2>3. \A x \in Map!Threads : Has(x, u)' <=> IF u = v THEN x = w ELSE Has(x, u)
    <3>1. w \in Map!Threads /\ w \notin Wakers
      BY DEF Map!Threads, MapConstants
    <3>2. Has(w, u)' <=> u = v
      BY ZenonT(20), <3>1 DEF Has, IInv, Typed
    <3>3. ~Has(w, u)
      BY ZenonT(20), <1>1, <1>2, <3>1 DEF Has, MapConstants
    <3>4. ~Has(t, u)' /\ (Has(t, u) <=> u = v)
      BY <1>1 DEF Has, IInv, Typed, MapConstants
    <3>5. \A x \in Map!Threads : x # w /\ x # t => (Has(x, u)' <=> Has(x, u))
      BY DEF Has, IInv, Typed
    <3>6. \A x \in Map!Threads : x # t => ~Has(x, v)
      BY ZenonT(20), <2>2
    <3> QED
      BY <1>1, <3>1, <3>2, <3>3, <3>4, <3>5, <3>6
  <2>4. u \notin unsent => sent'[u] = sent[u]
    BY ZenonT(20) DEF Map!ForgetSent
  <2>5. \A x \in Waiters : wakeup'[x] = u => key'[x] = sent'[u]
    <3> SUFFICES ASSUME NEW x \in Waiters, wakeup'[x] = u PROVE key[x] = sent[u] /\ u \notin unsent
      BY <2>4
    <3>1. CASE x = w
      BY ZenonT(20), <1>2, <2>1, <3>1 DEF IInv, Typed
    <3>2. CASE x # w
      <4>1. wakeup[x] = u
        BY <3>2 DEF IInv, Typed
      <4>2. Has(x, u) /\ x \in Map!Threads
        BY ZenonT(20), <4>1 DEF Has, Map!Threads
      <4> QED
        BY <2>1, <4>1, <4>2 DEF OnePlace
    <3> QED
      BY ZenonT(20), <3>1, <3>2
  <2>6. \A x, y \in Map!Threads : Has(x, u)' /\ Has(y, u)' => x = y
    BY ZenonT(20), <2>1, <2>3 DEF OnePlace
  <2>7. u \in unsent' <=> ~\E x \in Map!Threads : Has(x, u)'
    BY ZenonT(20), <2>1, <2>3 DEF OnePlace, Map!Threads
  <2> QED
    BY ZenonT(20), <2>5, <2>6, <2>7 DEF OnePlace
<1> QED
  BY ZenonT(20), <1>5, <1>6, <1>7, <1>8, <1>9, <1>10 DEF IInv

(* wake in the lock. *)
LEMMA WakeLockedStep == ASSUME MapConstants, IInv, NEW t \in Wakers, Map!WakeLocked(t) PROVE IInv'
<1>1. /\ mpc[t] = "wakeLock" /\ mlock = NoOne /\ UNCHANGED <<mstate, mwstate, key, woken>>
      /\ Map!ForgetSent /\ t \in Map!Threads
  BY ZenonT(20), SameLists DEF Map!WakeLocked, Map!Threads
<1>2. CASE /\ mlock' = t /\ Map!GoTo(t, "storeNoMatch") /\ mqueue = <<>>
           /\ UNCHANGED <<call, unsent, mqueue, wakeup, taken>>
  <2>1. mpc' = [mpc EXCEPT ![t] = "storeNoMatch"] /\ Elems(mqueue) = {}
    BY <1>2 DEF Map!GoTo, Elems
  <2>2. Typed'
    <3>1. sent' \in [Vals -> Keys \cup {NoOne}]
      BY <1>1 DEF Map!ForgetSent, IInv, Typed
    <3> QED
      BY <1>1, <1>2, <2>1, <3>1 DEF IInv, Typed, Pcs
  <2>3. \A w \in Waiters : NodeInv(w)'
    BY ZenonT(20), <1>1, <1>2 DEF IInv, NodeInv
  <2>4. \A u \in Map!Threads : ThreadInv(u)'
    <3>1. ThreadInv(t)'
      BY <1>1, <1>2, <2>1 DEF ThreadInv, IInv, Typed
    <3> QED
      BY ZenonT(20), <1>1, <1>2, <2>1, <3>1, ThreadsStay DEF MapConstants, Pcs
  <2>5. \A u \in Wakers : CallInv(u)'
    BY <1>1, <1>2, <2>1 DEF IInv, Typed, CallInv, Map!Threads
  <2>6. ListInv'
    BY <1>1, <1>2, <2>1 DEF IInv, ListInv
  <2>7. \A v \in Vals : OnePlace(v)'
    BY <1>1, <1>2, ValuesStay
  <2> QED
    BY <2>2, <2>3, <2>4, <2>5, <2>6, <2>7 DEF IInv
<1>3. CASE Map!GiveBack(t) /\ UNCHANGED <<mlock, mqueue, wakeup, taken>>
  <2>1. mstate' \in {"Empty", "Waiting", "Closed"} /\ UNCHANGED <<mqueue, Map!futures, taken, woken>>
    BY <1>1, <1>3 DEF IInv, Typed, Map!futures
  <2> QED
    BY <1>1, <1>3, <2>1, GiveBackStep
<1>4. ASSUME NEW w \in Waiters, Map!Matches(t, w), mstate = "Waiting",
             mqueue' = Unlink(mqueue, w), wakeup' = [wakeup EXCEPT ![w] = call[t]],
             taken' = [taken EXCEPT ![t] = {w}], call' = [call EXCEPT ![t] = NoOne],
             IF mqueue' = <<>> THEN mlock' = t /\ Map!GoTo(t, "storeEmpty")
                               ELSE Map!GoTo(t, "wakeAll") /\ UNCHANGED mlock,
             UNCHANGED unsent
      PROVE  IInv'
  BY ZenonT(20), <1>1, <1>4, HandOverStep
<1> QED
  BY ZenonT(20), <1>2, <1>3, <1>4, SameLists DEF Map!WakeLocked, Map!WakerTaken

(* close in the lock: a batch of nodes leaves the list, each closed and with  *)
(* its waker in the hands of the thread; a full batch asks for another.       *)
LEMMA CloseBatchStep == ASSUME MapConstants, IInv, NEW t \in Wakers, Map!CloseBatch(t) PROVE IInv'
<1> DEFINE n == Map!Batch
           ws == {mqueue[i] : i \in 1..n}
           l == IF n = MapBatchSize THEN "wakeMore" ELSE "wakeAll"
<1>1. /\ mpc[t] = "close" /\ mlock = NoOne /\ t \in Map!Threads /\ t \notin Waiters
      /\ mqueue' = SubSeq(mqueue, n + 1, Len(mqueue))
      /\ wakeup' = [w \in Waiters |-> IF w \in ws THEN "Closed" ELSE wakeup[w]]
      /\ taken' = [taken EXCEPT ![t] = ws] /\ mpc' = [mpc EXCEPT ![t] = l]
      /\ UNCHANGED <<mstate, mlock, mwstate, key, call, woken, unsent, sent>>
  BY DEF Map!CloseBatch, Map!GoTo, Map!More, Map!WakerTaken, Map!Threads, MapConstants
<1>2. n \in 0..Len(mqueue) /\ (n # MapBatchSize => n = Len(mqueue))
  BY DEF Map!Batch, IInv, Typed, MapConstants
<1>3. /\ mqueue' \in Seq(Waiters) /\ Distinct(mqueue')
      /\ ws \subseteq Elems(mqueue) /\ Elems(mqueue') = Elems(mqueue) \ ws
  <2>1. mqueue \in Seq(Waiters) /\ Distinct(mqueue) /\ n \in Nat /\ n <= Len(mqueue)
    <3>1. mqueue \in Seq(Waiters) /\ Distinct(mqueue)
      BY ZenonT(20) DEF IInv, Typed, ListInv
    <3>2. Len(mqueue) \in Nat
      BY SMTT(30), <3>1
    <3> QED
      BY <1>2, <3>1, <3>2
  <2>2. IsSuffix(Waiters, mqueue', mqueue, n)
    BY <1>1, <2>1, Suffix
  <2>3. ArePopped(ws, mqueue, n)
    BY ZenonT(20) DEF ArePopped
  <2> HIDE DEF n, ws
  <2> QED
    BY <1>2, <2>1, <2>2, <2>3, PopElems
<1>4. n # MapBatchSize => Elems(mqueue') = {}
  <2>1. n = Len(mqueue) => ws = Elems(mqueue)
    BY DEF Elems, IInv, Typed
  <2> QED
    BY <1>2, <1>3, <2>1
<1> HIDE DEF n, ws
<1>5. taken[t] = {} /\ ws \subseteq Waiters
  BY <1>1, <1>3, ElemsType DEF IInv, CallInv, Typed
<1>6. l \in Pcs /\ l \in {"wakeAll", "wakeMore"}
  BY DEF Pcs
<1>7. Typed'
  BY <1>1, <1>3, <1>5, <1>6 DEF IInv, Typed
<1>8. ASSUME NEW w \in Waiters PROVE NodeInv(w)'
  <2>1. NodeInv(w) /\ wakeup'[w] = (IF w \in ws THEN "Closed" ELSE wakeup[w])
    BY <1>1 DEF IInv
  <2>2. taken'[t] = ws /\ \A u \in Wakers : taken[u] \subseteq taken'[u]
    BY ZenonT(20), <1>1, <1>5 DEF IInv, Typed
  <2>3. CASE w \in ws
    BY ZenonT(20), <1>1, <1>3, <2>1, <2>2, <2>3 DEF NodeInv
  <2>4. CASE w \notin ws
    BY ZenonT(20), <1>1, <1>3, <2>1, <2>2, <2>4 DEF NodeInv
  <2> QED
    BY <2>3, <2>4
<1>9. \A u \in Map!Threads : ThreadInv(u)'
  <2>1. ThreadInv(t)'
    BY <1>1, <1>6 DEF ThreadInv, IInv, Typed
  <2> HIDE DEF l
  <2> QED
    BY ZenonT(20), <1>1, <1>3, <1>6, <2>1, ThreadsStay DEF MapConstants
<1>10. \A u \in Wakers : CallInv(u)'
  BY ZenonT(20), <1>1, <1>6 DEF IInv, Typed, CallInv, Map!Threads
<1>11. ListInv'
  <2>1. Elems(mqueue') # {} => mpc'[t] = "wakeMore"
    BY ZenonT(20), <1>1, <1>4 DEF IInv, Typed
  <2> QED
    BY ZenonT(20), <1>1, <1>3, <2>1 DEF IInv, ListInv
<1>12. ASSUME NEW v \in Vals PROVE OnePlace(v)'
  <2>1. \A w \in Waiters : wakeup'[w] = v <=> wakeup[w] = v
    <3> SUFFICES ASSUME NEW w \in Waiters, w \in ws PROVE wakeup'[w] # v /\ wakeup[w] # v
      BY ZenonT(20), <1>1
    <3>1. wakeup'[w] = "Closed" /\ wakeup[w] = "Waiting"
      BY ZenonT(20), <1>1, <1>3 DEF IInv, NodeInv
    <3> QED
      BY <3>1 DEF MapConstants
  <2>2. \A x \in Map!Threads : Has(x, v)' <=> Has(x, v)
    BY ZenonT(20), <1>1, <2>1 DEF Has
  <2> QED
    BY ZenonT(20), <1>1, <2>1, <2>2 DEF IInv, OnePlace
<1> QED
  BY <1>7, <1>8, <1>9, <1>10, <1>11, <1>12 DEF IInv

-----------------------------------------------------------------------------
(* A step that changes no variable keeps the invariant. *)
LEMMA StutterStep == ASSUME IInv, UNCHANGED mapVars PROVE IInv'
<1>1. Typed' /\ ListInv'
  BY ZenonT(20) DEF IInv, mapVars, Typed, ListInv
<1>2. /\ UNCHANGED <<mstate, mqueue, mlock, mwstate, wakeup, key, mpc>>
      /\ UNCHANGED <<call, taken, woken, unsent, sent>>
  BY Zenon DEF mapVars
<1>3. \A w \in Waiters : NodeInv(w)'
  BY Zenon, <1>2 DEF IInv, NodeInv
<1>4. \A t \in Map!Threads : ThreadInv(t)'
  BY Zenon, <1>2 DEF IInv, ThreadInv
<1>5. \A t \in Wakers : CallInv(t)'
  BY Zenon, <1>2 DEF IInv, CallInv
<1>6. \A v \in Vals : OnePlace(v)'
  BY ZenonT(20), <1>2 DEF IInv, OnePlace, Has
<1> QED
  BY Zenon, <1>1, <1>3, <1>4, <1>5, <1>6 DEF IInv

(* Every atomic step of every thread keeps the invariant. *)
LEMMA NextIInv == ASSUME MapConstants, IInv, [Map!Next]_mapVars PROVE IInv'
<1>1. ASSUME NEW w \in Waiters,
             Map!NewWait(w) \/ Map!StartToWait(w) \/ Map!StartCas(w) \/ Map!PollWait(w) \/ Map!Release(w)
      PROVE  IInv'
  BY <1>1, NewWaitStep, StartToWaitStep, StartCasStep, PollWaitStep, ReleaseStep
<1>2. ASSUME NEW t \in Map!Threads, Map!StoreEmpty(t) PROVE IInv'
  BY <1>2, StoreEmptyStep
<1>3. ASSUME NEW t \in Wakers,
             \/ Map!Wake(t) \/ Map!WakeLocked(t) \/ Map!StoreNoMatch(t)
             \/ Map!WakeAll(t) \/ Map!Close(t) \/ Map!CloseBatch(t)
      PROVE  IInv'
  BY <1>3, WakeStep, WakeLockedStep, StoreNoMatchStep, WakeAllStep, CloseStep, CloseBatchStep
<1> QED
  BY <1>1, <1>2, <1>3, StutterStep DEF Map!Next

(* The invariant of wait, wake, close and drop in any interleaving; the map   *)
(* does not notice the steps of the queue or of the cell.                     *)
LEMMA MapInvariance == ASSUME MapConstants PROVE WaitSpec => []IInv
<1>1. WaitInit => IInv
  BY InitIInv DEF WaitInit
<1>2. IInv /\ [WaitNext]_waitVars => IInv'
  <2>1. [WaitNext]_waitVars => [Map!Next]_mapVars
    BY DEF WaitNext, waitVars, Ended
  <2> QED
    BY <2>1, NextIInv
<1> QED
  BY <1>1, <1>2, PTL DEF WaitSpec

(* A future that waits for a key is where wake() or close() finds it, and one *)
(* that was resolved is woken.                                                *)
THEOREM MapForgetsNobody == ASSUME MapConstants PROVE WaitSpec => []MapWaitersAreReachable
<1>1. IInv => MapWaitersAreReachable
  <2> SUFFICES ASSUME IInv PROVE MapWaitersAreReachable
    OBVIOUS
  <2>1. Map!WaitersCanBeWoken
    BY SameLists DEF Map!WaitersCanBeWoken, Map!Listed, IInv, NodeInv, ListInv
  <2>2. Map!ResolvedIsWoken
    BY DEF Map!ResolvedIsWoken, IInv, NodeInv
  <2> QED
    BY <2>1, <2>2 DEF MapWaitersAreReachable, Map!WaitersAreReachable
<1> QED
  BY <1>1, MapInvariance, PTL

-----------------------------------------------------------------------------
(* InitOnce and Lazy *)

OncePcs == {"idle", "load", "exchange", "write", "publish", "get", "spin", "read"}
OnceValues == Users \cup {Null}

OnceTyped ==
  /\ cell \in {"UNINITIALIZED", "INITIALIZING", "INITIALIZED"}
  /\ contents \in OnceValues
  /\ opc \in [Users -> OncePcs]
  /\ ref \in [Users -> OnceValues]

(* The thread that won the compare_exchange and has not published yet. *)
Initialising(t) == opc[t] \in {"write", "publish"}

(* There is at most one such thread, and then the word says so; what has been *)
(* published has been written; a read follows a load that saw INITIALIZED.    *)
OnceInv ==
  /\ OnceTyped
  /\ \A t, u \in Users : Initialising(t) /\ Initialising(u) => t = u
  /\ \A t \in Users : Initialising(t) => cell = "INITIALIZING"
  /\ \A t \in Users : opc[t] = "publish" => contents # Null
  /\ cell = "INITIALIZED" => contents # Null
  /\ \A t \in Users : opc[t] = "read" => cell = "INITIALIZED"
  /\ Once!ReferencesAgree

(* InitOnce::uninitialized and Lazy::new: nobody initialises and nobody reads. *)
LEMMA InitOnceInv == Once!Init => OnceInv
BY ZenonT(20) DEF Once!Init, OnceInv, OnceTyped, OncePcs, OnceValues, Initialising, Once!ReferencesAgree

(* Each atomic operation of once.rs keeps the invariant.  *)
LEMMA NextOnceInv == ASSUME Null \notin Users, OnceInv, [Once!Next]_onceVars PROVE OnceInv'
<1> USE DEF OnceInv, OnceTyped, OncePcs, OnceValues, Initialising, Once!ReferencesAgree, Once!Step
<1>1. CASE UNCHANGED onceVars
  BY <1>1 DEF onceVars
<1>2. ASSUME NEW t \in Users, Once!Call(t) PROVE OnceInv'
  BY <1>2 DEF Once!Call
<1>3. ASSUME NEW t \in Users, Once!Exchange(t) PROVE OnceInv'
  BY <1>3 DEF Once!Exchange, Once!Free, Once!Lost
<1>4. ASSUME NEW t \in Users, Once!Write(t) PROVE OnceInv'
  BY <1>4 DEF Once!Write
<1>5. ASSUME NEW t \in Users, Once!Publish(t) PROVE OnceInv'
  BY <1>5 DEF Once!Publish
<1>6. ASSUME NEW t \in Users, Once!Load(t) PROVE OnceInv'
  BY <1>6 DEF Once!Load, Once!Absent
<1>7. ASSUME NEW t \in Users, Once!Read(t) PROVE OnceInv'
  BY <1>7 DEF Once!Read
<1> QED
  BY ZenonT(20), <1>1, <1>2, <1>3, <1>4, <1>5, <1>6, <1>7 DEF Once!Next, Once!Continue

(* once.rs: however many threads race to initialise an InitOnce or a Lazy, no *)
(* reference is made before the value is written or while it may be written,  *)
(* and all references are to the one value.                                   *)
THEOREM OneInitialization == ASSUME Null \notin Users PROVE WaitSpec => []InitializedOnce
<1>1. WaitInit => OnceInv
  BY InitOnceInv DEF WaitInit
<1>2. OnceInv /\ [WaitNext]_waitVars => OnceInv'
  <2>1. [WaitNext]_waitVars => [Once!Next]_onceVars
    BY DEF WaitNext, waitVars, Ended
  <2> QED
    BY <2>1, NextOnceInv
<1>3. OnceInv => InitializedOnce
  BY DEF OnceInv, Initialising, InitializedOnce, Once!InitializedOnce, Once!ReadsAreInitialized
<1> QED
  BY <1>1, <1>2, <1>3, PTL DEF WaitSpec

-----------------------------------------------------------------------------
(* The values of the map, counted *)

FS == INSTANCE FiniteSetTheorems

(* A set with at most one element has none or one. *)
LEMMA AtMostOne ==
  ASSUME NEW S, \A x, y \in S : x = y
  PROVE  Map!Cardinality(S) = IF S = {} THEN 0 ELSE 1
<1>1. Map!Cardinality(S) = FS!Cardinality(S)
  BY Zenon DEF Map!Cardinality, FS!Cardinality
<1>2. CASE S = {}
  BY <1>1, <1>2, FS!FS_EmptySet
<1>3. ASSUME NEW x \in S PROVE Map!Cardinality(S) = 1
  <2>1. S = {x}
    OBVIOUS
  <2> QED
    BY <1>1, <2>1, FS!FS_Singleton
<1> QED
  BY <1>2, <1>3

(* Counting places: nobody, one call, or one future. *)
LEMMA OnePlaceCounts == ASSUME MapConstants, NEW v \in Vals, OnePlace(v) PROVE Map!Places(v) = 1
<1> DEFINE C == {t \in Wakers : call[t] = v}
           F == {w \in Waiters : wakeup[w] = v}
<1>1. \A x \in C \cup F : x \in Map!Threads /\ Has(x, v)
  BY ZenonT(20) DEF Has, Map!Threads
<1>2. \A x, y \in C \cup F : x = y
  BY <1>1 DEF OnePlace
<1>3. C \cap F = {}
  BY DEF MapConstants
<1>4. v \in unsent <=> C = {} /\ F = {}
  BY DEF OnePlace, Has, Map!Threads
<1>5. C = {} \/ F = {}
  BY SMTT(30), <1>2, <1>3
<1>6. Map!Cardinality(C) = (IF C = {} THEN 0 ELSE 1) /\ Map!Cardinality(F) = (IF F = {} THEN 0 ELSE 1)
  BY <1>2, AtMostOne
<1>7. Map!Places(v) = Map!Cardinality(C) + Map!Cardinality(F) + (IF v \in unsent THEN 1 ELSE 0)
  BY DEF Map!Places
<1> HIDE DEF C, F
<1> QED
  BY <1>4, <1>5, <1>6, <1>7

(* No value passed to wake() is lost, handed to two futures or to one that    *)
(* waits for another key; the keys on the list differ; and what is on the     *)
(* list waits, so Waiter::wake's unreachable!() is not reached.               *)
THEOREM MapLosesNothing == ASSUME MapConstants PROVE WaitSpec => []MapIsSound
<1>1. IInv => MapIsSound
  <2> SUFFICES ASSUME IInv PROVE MapIsSound
    OBVIOUS
  <2>1. Map!ValuesHaveOnePlace
    BY ZenonT(20), OnePlaceCounts DEF Map!ValuesHaveOnePlace, IInv, OnePlace
  <2>2. \A i \in DOMAIN mqueue : mqueue[i] \in Elems(mqueue) /\ mqueue[i] \in Waiters
    <3>1. mqueue \in Seq(Waiters)
      BY ZenonT(20) DEF IInv, Typed
    <3> QED
      BY <3>1 DEF Elems
  <2>3. Map!KeysAreUnique
    BY <2>2 DEF Map!KeysAreUnique, IInv, ListInv, Distinct
  <2>4. Map!ListedAreWaiting
    BY <2>2 DEF Map!ListedAreWaiting, IInv, NodeInv
  <2> QED
    BY ZenonT(20), <2>1, <2>3, <2>4 DEF MapIsSound, Map!MapIsSound
<1> QED
  BY <1>1, MapInvariance, PTL
=============================================================================

------------------------------ MODULE TaskProofs ------------------------------
(***************************************************************************)
(* Proofs about one task, for any sets of workers and holders: references  *)
(* are counted and the task is freed once, wakes schedule it exactly once, *)
(* and the slot of the join waker has one user at a time.                  *)
(***************************************************************************)
EXTENDS Task, FiniteSetTheorems, TLAPS

Flags == {"HAS_JOIN_HANDLE", "WOKEN", "POLLING", "COMPLETED", "CANCELED", "HAS_OUTPUT"}
WorkerPcs == {"idle", "start", "poll", "endReady", "endPending", "waitJoin", "wakeJoin",
              "reschedule", "stop", "dealloc", "gone"}
HolderPcs == {"idle", "waker", "taskRef", "gotPointer", "enqueueVal", "enqueueRef", "enqueueCancel",
              "dropVal", "dropAgain", "cancelWake", "dealloc", "gone"}
JoinerPcs == {"idle", "register", "reregister", "parked", "take", "clear", "drop", "dealloc", "gone"}
Pcs == WorkerPcs \cup HolderPcs \cup JoinerPcs

Typed ==
  /\ state \in SUBSET Flags
  /\ joinWaker \in {"Empty", "Registering", "Waiting", "Woken"}
  /\ refs \in Nat /\ queued \in Nat
  /\ {slot, finished, freed} \subseteq BOOLEAN
  /\ pc \in [Threads -> Pcs]
  /\ \A w \in Workers : pc[w] \in WorkerPcs
  /\ \A h \in Holders : pc[h] \in HolderPcs
  /\ pc[Joiner] \in JoinerPcs

-----------------------------------------------------------------------------
(* Which places stand for a reference, and for a second one. *)
OwnsAt(t, l) ==
  l \notin {"idle", "gone", "dealloc", "gotPointer", "dropAgain"} \/ (t = Joiner /\ l = "idle")
EnqueuesAt(l) == l \in {"enqueueVal", "enqueueRef", "enqueueCancel"}
Bit(b) == IF b THEN 1 ELSE 0

(* A thread that has dropped the last reference and has yet to free the task. *)
Ends(t) == pc[t] \in {"dealloc", "dropAgain"}

(* The count is right until somebody deallocates, there is one such thread at *)
(* most, and a pointer that is about to be cloned is protected by a poll.     *)
RefInv ==
  /\ RefsAreCounted
  /\ \A t, u \in Threads : Ends(t) /\ Ends(u) => t = u
  /\ \A t \in Threads : Ends(t) => ~freed
  /\ \A t \in Threads : pc[t] = "dropAgain" => refs = 0
  /\ \A h \in Holders : pc[h] = "gotPointer" => \E w \in Workers : pc[w] = "poll"

-----------------------------------------------------------------------------
Polls(l) == l \in {"poll", "endReady", "endPending"}

(* The one token that a scheduled task has: its queue entry, the worker that  *)
(* runs it or the thread that is about to enqueue it.                         *)
Busy(t) == Polls(pc[t]) \/ EnqueuesAt(pc[t]) \/ pc[t] \in {"start", "reschedule"}

TokenInv ==
  /\ \A t, u \in Threads : Busy(t) /\ Busy(u) => t = u
  /\ queued \in {0, 1}
  /\ queued = 1 \/ finished => \A t \in Threads : ~Busy(t)
  /\ finished => queued = 0

(* What the flags say about it. *)
FlagInv ==
  /\ "POLLING" \in state <=> \E w \in Workers : Polls(pc[w])
  /\ "COMPLETED" \in state => finished
  /\ finished => "COMPLETED" \in state \/ "CANCELED" \in state
  /\ "CANCELED" \in state => "WOKEN" \in state \/ "COMPLETED" \in state

(* WOKEN is set as long as the token is not with a poll, unless the task was  *)
(* spawned without it and nobody has a waker yet; and it is set for no other  *)
(* reason.                                                                    *)
WokenInv ==
  /\ \A t \in Threads : EnqueuesAt(pc[t]) \/ pc[t] = "reschedule" => "WOKEN" \in state
  /\ queued = 1 \/ (\E w \in Workers : pc[w] = "start") =>
       "WOKEN" \in state \/ \A h \in Holders : pc[h] # "waker"
  /\ \A h \in Holders : pc[h] = "cancelWake" => "CANCELED" \in state
  /\ WokenIsScheduled

SchedInv == TokenInv /\ FlagInv /\ WokenInv

-----------------------------------------------------------------------------
Registers == pc[Joiner] \in {"register", "reregister"}

(* One worker finishes the task; it takes the waker when the word said        *)
(* Waiting, and waits for the word to say so if the waker is being written.   *)
FinishInv ==
  /\ \A t, u \in Threads : pc[t] \in {"waitJoin", "wakeJoin"} /\ pc[u] \in {"waitJoin", "wakeJoin"} => t = u
  /\ \A t \in Threads : pc[t] \in {"waitJoin", "wakeJoin"} => finished
  /\ \A t \in Threads : pc[t] = "waitJoin" => joinWaker \in {"Registering", "Waiting"}
  /\ \A t \in Threads : pc[t] = "wakeJoin" => joinWaker \in {"Empty", "Woken"}
  /\ joinWaker = "Woken" => finished

(* The word says Registering while the JoinHandle writes its waker, which it  *)
(* does not begin once there is an output to take.                            *)
RegisterInv ==
  /\ joinWaker = "Registering" <=> Registers
  /\ "COMPLETED" \in state /\ pc[Joiner] \in {"idle", "parked", "register", "reregister"} => "HAS_OUTPUT" \in state

(* The waker is in its slot exactly while the word says so or the worker that *)
(* finished the task is about to take it out.                                 *)
SlotInv ==
  /\ joinWaker \in {"Empty", "Woken"} /\ ~freed => (slot <=> \E t \in Threads : pc[t] = "wakeJoin")
  /\ joinWaker = "Waiting" /\ ~freed => slot
  /\ pc[Joiner] = "register" => ~slot
  /\ pc[Joiner] = "reregister" => slot
  /\ freed => ~slot

JoinInv == FinishInv /\ RegisterInv /\ SlotInv

IInv == Typed /\ RefInv /\ SchedInv /\ JoinInv

-----------------------------------------------------------------------------
(* Counting. *)

(* The threads are finitely many, and each is of one kind. *)
LEMMA ThreadsAreFinite ==
  /\ IsFiniteSet(Threads) /\ Joiner \in Threads
  /\ Workers \subseteq Threads /\ Holders \subseteq Threads
  /\ Workers \cap Holders = {} /\ Joiner \notin Workers /\ Joiner \notin Holders
BY TaskAssumption, FS_Union, FS_Singleton, Zenon DEF Threads

(* One thread joins a finite set, leaves it, or neither. *)
LEMMA CountStep ==
  ASSUME NEW S, NEW T, NEW t, IsFiniteSet(S), T \ {t} = S \ {t}
  PROVE  Cardinality(T) = Cardinality(S) + Bit(t \in T) - Bit(t \in S)
<1> DEFINE R == S \ {t}
<1>1. IsFiniteSet(R) /\ t \notin R
  BY FS_Subset
<1>2. Cardinality(R \cup {t}) = Cardinality(R) + 1
  BY <1>1, FS_AddElement
<1>3. Cardinality(R) \in Nat
  BY <1>1, FS_CardinalityType
<1>4. Cardinality(S) = Cardinality(R) + Bit(t \in S)
  <2>1. CASE t \in S
    <3>1. S = R \cup {t}
      BY <2>1
    <3> QED
      BY <1>2, <2>1, <3>1 DEF Bit
  <2>2. CASE t \notin S
    <3>1. S = R
      BY <2>2
    <3> QED
      BY <1>3, <2>2, <3>1 DEF Bit
  <2> QED
    BY <2>1, <2>2
<1>5. Cardinality(T) = Cardinality(R) + Bit(t \in T)
  <2>1. CASE t \in T
    <3>1. T = R \cup {t}
      BY <2>1
    <3> QED
      BY <1>2, <2>1, <3>1 DEF Bit
  <2>2. CASE t \notin T
    <3>1. T = R
      BY <2>2
    <3> QED
      BY <1>3, <2>2, <3>1 DEF Bit
  <2> QED
    BY <2>1, <2>2
<1> HIDE DEF R
<1> QED
  BY <1>3, <1>4, <1>5 DEF Bit

(* Owners and Enqueueing, as sets of threads at certain places. *)
LEMMA Counted ==
  ASSUME Typed
  PROVE  /\ Owners = {t \in Threads : OwnsAt(t, pc[t])}
         /\ Enqueueing = {t \in Threads : EnqueuesAt(pc[t])}
         /\ IsFiniteSet(Owners) /\ IsFiniteSet(Enqueueing)
<1>1. Owners = {t \in Threads : OwnsAt(t, pc[t])}
  BY ThreadsAreFinite DEF Owners, OwnsAt
<1>2. Enqueueing = {t \in Threads : EnqueuesAt(pc[t])}
  BY ThreadsAreFinite DEF Enqueueing, EnqueuesAt, Typed, Threads, WorkerPcs, JoinerPcs
<1>3. Owners \subseteq Threads /\ Enqueueing \subseteq Threads
  BY <1>1, <1>2
<1> QED
  BY <1>1, <1>2, <1>3, ThreadsAreFinite, FS_Subset

(* What a step of one thread does to the number of references. *)
LEMMA ReferencesStep ==
  ASSUME Typed, Typed', NEW t \in Threads, NEW l, GoTo(t, l)
  PROVE  References' = References + (queued' - queued)
                     + Bit(OwnsAt(t, l)) - Bit(OwnsAt(t, pc[t]))
                     + Bit(EnqueuesAt(l)) - Bit(EnqueuesAt(pc[t]))
<1>1. pc'[t] = l /\ \A u \in Threads : u # t => pc'[u] = pc[u]
  BY DEF GoTo, Typed
<1>2. /\ Owners' = {u \in Threads : OwnsAt(u, pc'[u])}
      /\ Enqueueing' = {u \in Threads : EnqueuesAt(pc'[u])}
  BY ThreadsAreFinite
  DEF Owners, OwnsAt, Enqueueing, EnqueuesAt, Typed, Threads, WorkerPcs, JoinerPcs
<1>3. Owners' \ {t} = Owners \ {t} /\ Enqueueing' \ {t} = Enqueueing \ {t}
  BY <1>1, <1>2, Counted
<1>4. (t \in Owners' <=> OwnsAt(t, l)) /\ (t \in Enqueueing' <=> EnqueuesAt(l))
  BY <1>1, <1>2
<1>5. (t \in Owners <=> OwnsAt(t, pc[t])) /\ (t \in Enqueueing <=> EnqueuesAt(pc[t]))
  BY Counted
<1>6. Cardinality(Owners') = Cardinality(Owners) + Bit(t \in Owners') - Bit(t \in Owners)
  BY <1>3, Counted, CountStep
<1>7. Cardinality(Enqueueing') = Cardinality(Enqueueing) + Bit(t \in Enqueueing') - Bit(t \in Enqueueing)
  BY <1>3, Counted, CountStep
<1>8. Cardinality(Owners) \in Nat /\ Cardinality(Enqueueing) \in Nat /\ queued \in Nat /\ queued' \in Nat
  BY Counted, FS_CardinalityType DEF Typed
<1> QED
  BY <1>4, <1>5, <1>6, <1>7, <1>8 DEF References, Bit

(* A reference somewhere counts; without any, nobody is in such a place. *)
LEMMA ReferencesExist ==
  ASSUME Typed
  PROVE  /\ References \in Nat /\ References >= queued
         /\ \A t \in Threads : OwnsAt(t, pc[t]) => References > 0
         /\ \A t \in Threads : EnqueuesAt(pc[t]) => References > 1
<1>1. Cardinality(Owners) \in Nat /\ Cardinality(Enqueueing) \in Nat /\ queued \in Nat
  BY Counted, FS_CardinalityType DEF Typed
<1>2. \A t \in Threads : OwnsAt(t, pc[t]) => Cardinality(Owners) > 0
  BY <1>1, Counted, FS_EmptySet
<1>3. \A t \in Threads : EnqueuesAt(pc[t]) => Cardinality(Enqueueing) > 0
  BY <1>1, Counted, FS_EmptySet
<1>4. \A t \in Threads : EnqueuesAt(pc[t]) => OwnsAt(t, pc[t])
  BY DEF EnqueuesAt, OwnsAt
<1> QED
  BY <1>1, <1>2, <1>3, <1>4 DEF References

(* In a form that also holds after a step. *)
LEMMA ReferencesAreNat == Typed => References \in Nat
BY ReferencesExist

-----------------------------------------------------------------------------
(* Types. *)

(* Every step keeps the types. *)
LEMMA TypedStep ==
  ASSUME Typed, [Next]_vars
  PROVE  Typed'
<1> USE TaskAssumption, ThreadsAreFinite DEF Typed, GoTo, Flags, Pcs, WorkerPcs, HolderPcs, JoinerPcs
<1>1. ASSUME NEW w \in Workers, Dequeue(w) PROVE Typed'
  BY <1>1 DEF Dequeue, word
<1>2. ASSUME NEW w \in Workers, StartPoll(w) PROVE Typed'
  BY <1>2, ZenonT(30) DEF StartPoll, HasJoinWaker, AfterReady, Polling
<1>3. ASSUME NEW w \in Workers, PollReady(w) PROVE Typed'
  BY <1>3 DEF PollReady, word
<1>4. ASSUME NEW w \in Workers, PollPending(w) PROVE Typed'
  BY <1>4 DEF PollPending, word
<1>5. ASSUME NEW w \in Workers, EndPoll(w) PROVE Typed'
  BY <1>5, Zenon DEF EndPoll, HasJoinWaker, AfterReady, AfterPending, Completed
<1>6. ASSUME NEW w \in Workers, WaitForJoinWaker(w) PROVE Typed'
  BY <1>6 DEF WaitForJoinWaker
<1>7. ASSUME NEW w \in Workers, WakeJoinWaker(w) PROVE Typed'
  BY <1>7, Zenon DEF WakeJoinWaker, word
<1>8. ASSUME NEW w \in Workers, Reschedule(w) PROVE Typed'
  BY <1>8 DEF Reschedule, word
<1>9. ASSUME NEW w \in Workers, Stop(w) PROVE Typed'
  BY <1>9 DEF Stop, DropRef, RefSub, IsLast
<1>10. ASSUME NEW h \in Holders, CloneWaker(h) PROVE Typed'
  BY <1>10 DEF CloneWaker
<1>11. ASSUME NEW h \in Holders, CloneTaskRef(h) PROVE Typed'
  BY <1>11 DEF CloneTaskRef
<1>12. ASSUME NEW h \in Holders, LoadCurrent(h) PROVE Typed'
  BY <1>12 DEF LoadCurrent, word
<1>13. ASSUME NEW h \in Holders, CloneCurrent(h) PROVE Typed'
  BY <1>13 DEF CloneCurrent
<1>14. ASSUME NEW h \in Holders, WakeByVal(h) PROVE Typed'
  <2>1. state' = state \/ state' = state \cup {"WOKEN"}
    BY <1>14 DEF WakeByVal
  <2>2. refs' = RefSub(refs) \/ refs' = refs + 1
    BY <1>14 DEF WakeByVal
  <2>3. state' \in SUBSET Flags
    BY <2>1, Zenon
  <2>4. refs' \in Nat
    BY <2>2 DEF RefSub
  <2>5. GoTo(h, "idle") \/ GoTo(h, "dropAgain") \/ GoTo(h, "enqueueVal")
    BY <1>14 DEF WakeByVal, BeingPolled
  <2>6. UNCHANGED <<joinWaker, slot, queued, finished, freed>>
    BY <1>14 DEF WakeByVal
  <2> QED
    BY <2>5, <2>6, <2>3, <2>4
<1>15. ASSUME NEW h \in Holders, WakeByRef(h) PROVE Typed'
  <2>1. state' = state \/ state' = state \cup {"WOKEN"}
    BY <1>15 DEF WakeByRef, Wake
  <2>2. refs' = refs \/ refs' = refs + 1
    BY <1>15 DEF WakeByRef, Wake
  <2>3. state' \in SUBSET Flags
    BY <2>1, Zenon
  <2>4. refs' \in Nat
    BY <2>2
  <2>5. GoTo(h, "enqueueRef") \/ GoTo(h, "waker")
    BY <1>15 DEF WakeByRef, Wake, BeingPolled
  <2>6. UNCHANGED <<joinWaker, slot, queued, finished, freed>>
    BY <1>15 DEF WakeByRef, Wake
  <2> QED
    BY <2>5, <2>6, <2>3, <2>4
<1>16. ASSUME NEW h \in Holders, Cancel(h) PROVE Typed'
  BY <1>16 DEF Cancel
<1>17. ASSUME NEW h \in Holders, CancelWake(h) PROVE Typed'
  <2>1. state' = state \/ state' = state \cup {"WOKEN"}
    BY <1>17 DEF CancelWake, Wake
  <2>2. refs' = refs \/ refs' = refs + 1
    BY <1>17 DEF CancelWake, Wake
  <2>3. state' \in SUBSET Flags
    BY <2>1, Zenon
  <2>4. refs' \in Nat
    BY <2>2
  <2>5. GoTo(h, "enqueueCancel") \/ GoTo(h, "taskRef")
    BY <1>17 DEF CancelWake, Wake, BeingPolled
  <2>6. UNCHANGED <<joinWaker, slot, queued, finished, freed>>
    BY <1>17 DEF CancelWake, Wake
  <2> QED
    BY <2>5, <2>6, <2>3, <2>4
<1>18. ASSUME NEW h \in Holders, Enqueue(h) PROVE Typed'
  BY <1>18 DEF Enqueue, word
<1>19. ASSUME NEW h \in Holders, DropHeld(h) PROVE Typed'
  BY <1>19 DEF DropHeld, DropRef, RefSub, IsLast
<1>20. CASE TryJoin
  BY <1>20, ZenonT(30) DEF TryJoin
<1>21. CASE Register
  BY <1>21 DEF Register
<1>22. CASE TakeOutput
  BY <1>22 DEF TakeOutput, word
<1>23. CASE DropJoinHandle
  BY <1>23 DEF DropJoinHandle
<1>24. CASE DropJoinRef
  BY <1>24 DEF DropJoinRef, DropRef, RefSub, IsLast
<1>25. ASSUME NEW t \in Threads, Deallocate(t) PROVE Typed'
  BY <1>25 DEF Deallocate, word, Threads
<1>26. CASE UNCHANGED vars
  BY <1>26 DEF vars
<1> QED
  BY <1>1, <1>2, <1>3, <1>4, <1>5, <1>6, <1>7, <1>8, <1>9, <1>10, <1>11, <1>12, <1>13, <1>14,
     <1>15, <1>16, <1>17, <1>18, <1>19, <1>20, <1>21, <1>22, <1>23, <1>24, <1>25, <1>26, Zenon
  DEF Next, Work, Hold, Join

-----------------------------------------------------------------------------
(* References. *)

(* While there are references, nobody is freeing the task. *)
LEMMA ReferencesKeep ==
  ASSUME Typed, RefInv, References > 0
  PROVE  ~freed /\ refs = References /\ \A t \in Threads : ~Ends(t)
<1>1. ~freed /\ refs = References /\ \A t \in Threads : pc[t] # "dealloc"
  BY DEF RefInv, RefsAreCounted
<1> QED
  BY <1>1 DEF RefInv, Ends

(* A step that changes the count and the references alike, by somebody who   *)
(* has a reference if there is a change.                                     *)
LEMMA QuietMove ==
  ASSUME Typed, Typed', RefInv, NEW t \in Threads, NEW l, GoTo(t, l),
         ~Ends(t), l \notin {"dealloc", "dropAgain"}, freed' = freed,
         References' + refs = References + refs',
         refs' = refs \/ References > 0,
         l = "gotPointer" => \E w \in Workers : pc[w] = "poll",
         pc[t] = "poll" => l = "poll" \/ \A h \in Holders : pc[h] # "gotPointer"
  PROVE  RefInv'
<1>1. pc'[t] = l /\ \A u \in Threads : u # t => pc'[u] = pc[u]
  BY DEF GoTo, Typed
<1>2. \A u \in Threads : Ends(u)' <=> Ends(u)
  BY <1>1 DEF Ends
<1>3. References \in Nat /\ References' \in Nat /\ refs \in Nat /\ refs' \in Nat
  <2>1. Typed => References \in Nat
    BY ReferencesExist
  <2>2. (References \in Nat)'
    BY ReferencesAreNat, PTL
  <2> QED
    BY <2>1, <2>2 DEF Typed
<1>4. RefsAreCounted'
  <2>1. (\E u \in Threads : pc'[u] = "dealloc") <=> \E u \in Threads : pc[u] = "dealloc"
    BY <1>1 DEF Ends
  <2>2. CASE freed \/ \E u \in Threads : pc[u] = "dealloc"
    <3>1. References = 0
      BY <2>2 DEF RefInv, RefsAreCounted
    <3>2. refs' = refs
      BY <3>1
    <3>3. \A a, b, c, d \in Nat : a + b = c + d /\ d = b => a = c
      OBVIOUS
    <3>4. References' = References
      BY <1>3, <3>2, <3>3, Zenon
    <3> QED
      BY <2>1, <2>2, <3>1, <3>4 DEF RefsAreCounted
  <2>3. CASE ~(freed \/ \E u \in Threads : pc[u] = "dealloc")
    <3>1. refs = References
      BY <2>3 DEF RefInv, RefsAreCounted
    <3>2. refs' = References'
      BY <1>3, <3>1
    <3> QED
      BY <2>1, <2>3, <3>2 DEF RefsAreCounted
  <2> QED
    BY <2>2, <2>3
<1>5. \A u \in Threads : pc'[u] = "dropAgain" => refs' = 0
  BY <1>1, ReferencesKeep DEF RefInv, Ends
<1>6. \A h \in Holders : pc'[h] = "gotPointer" => \E w \in Workers : pc'[w] = "poll"
  BY <1>1, ThreadsAreFinite DEF RefInv
<1> QED
  BY <1>2, <1>4, <1>5, <1>6 DEF RefInv

(* drop_ref, by the owner of a reference: the last one leaves the task to be *)
(* freed by its owner.                                                       *)
LEMMA DropRefStep ==
  ASSUME Typed, Typed', RefInv, NEW t \in Threads, NEW next,
         next = "gone" \/ (next = "idle" /\ t # Joiner), DropRef(t, next),
         OwnsAt(t, pc[t]), ~EnqueuesAt(pc[t]), pc[t] # "poll",
         freed' = freed, queued' = queued
  PROVE  RefInv'
<1>1. References \in Nat /\ References > 0
  BY ReferencesExist
<1>2. ~freed /\ refs = References /\ \A u \in Threads : ~Ends(u)
  BY <1>1, ReferencesKeep
<1>3. GoTo(t, IF IsLast(refs) THEN "dealloc" ELSE next) /\ refs' = refs - 1
  BY <1>1, <1>2 DEF DropRef, RefSub
<1>4. References' = References - 1
  <2>1. \A l : l \in {"dealloc", next} => ~OwnsAt(t, l) /\ ~EnqueuesAt(l)
    BY DEF OwnsAt, EnqueuesAt
  <2>2. queued' - queued = 0
    BY DEF Typed
  <2> QED
    BY <1>1, <1>3, <2>1, <2>2, ReferencesStep DEF Bit
<1>5. CASE refs = 1
  <2>1. pc' = [pc EXCEPT ![t] = "dealloc"]
    BY <1>3, <1>5 DEF IsLast, GoTo
  <2>2. pc'[t] = "dealloc" /\ \A u \in Threads : u # t => pc'[u] = pc[u]
    BY <2>1 DEF Typed
  <2>3. References' = 0 /\ refs' = 0
    BY <1>2, <1>3, <1>4, <1>5
  <2>4. RefsAreCounted'
    BY <2>2, <2>3 DEF RefsAreCounted
  <2>5. \A u \in Threads : Ends(u)' => u = t
    BY <1>2, <2>2 DEF Ends
  <2>6. \A h \in Holders : pc'[h] = "gotPointer" => \E w \in Workers : pc'[w] = "poll"
    BY <2>2, ThreadsAreFinite DEF RefInv
  <2> QED
    BY <1>2, <2>3, <2>4, <2>5, <2>6 DEF RefInv
<1>6. CASE refs # 1
  <2>1. GoTo(t, next)
    BY <1>1, <1>2, <1>3, <1>6 DEF IsLast
  <2>2. References' + refs = References + refs'
    BY <1>1, <1>2, <1>3, <1>4
  <2> QED
    BY <1>1, <1>2, <2>1, <2>2, QuietMove
<1> QED
  BY <1>5, <1>6

(* The references that somebody at a place has. *)
Held(t, l) == Bit(OwnsAt(t, l)) + Bit(EnqueuesAt(l))

(* QuietMove, with the change written out. *)
LEMMA QuietStep ==
  ASSUME Typed, Typed', RefInv, NEW t \in Threads, NEW l, GoTo(t, l),
         ~Ends(t), l \notin {"dealloc", "dropAgain"}, freed' = freed,
         refs' - refs = (queued' - queued) + Held(t, l) - Held(t, pc[t]),
         refs' = refs \/ References > 0,
         l = "gotPointer" => \E w \in Workers : pc[w] = "poll",
         pc[t] = "poll" => l = "poll" \/ \A h \in Holders : pc[h] # "gotPointer"
  PROVE  RefInv'
<1>1. References \in Nat
  BY ReferencesExist
<1>2. References' + refs = References + refs'
  BY <1>1, ReferencesStep DEF Held, Bit, Typed
<1> QED
  BY <1>2, QuietMove

(* Every step keeps the count of references right. *)
(* Every step keeps the count of references right. *)
(* Every step keeps the count of references right. *)
LEMMA RefInvStep ==
  ASSUME ~CrossThread, Typed, Typed', RefInv, [Next]_vars
  PROVE  RefInv'
<1> USE ThreadsAreFinite
<1> DEFINE Move(t, l) == GoTo(t, l) /\ freed' = freed /\ ~Ends(t)
<1> DEFINE Count(t, l) == refs' - refs = (queued' - queued) + Held(t, l) - Held(t, pc[t])
<1>1. ASSUME NEW w \in Workers, Dequeue(w) PROVE RefInv'
  <2>1. Move(w, "start")
    BY <1>1 DEF Dequeue, Ends, word
  <2>2. Count(w, "start")
    BY <1>1 DEF Dequeue, Held, OwnsAt, EnqueuesAt, Bit, Typed, word
  <2>3. refs' = refs
    BY <1>1 DEF Dequeue, word
  <2>4. pc[w] # "poll"
    BY <1>1 DEF Dequeue
  <2> QED
    BY <2>1, <2>2, <2>3, <2>4, QuietStep
<1>2. ASSUME NEW w \in Workers, StartPoll(w) PROVE RefInv'
  <2>1. Move(w, "stop") \/ Move(w, "waitJoin") \/ Move(w, "wakeJoin") \/ Move(w, "poll")
    BY <1>2 DEF StartPoll, Ends, HasJoinWaker, AfterReady
  <2>2. /\ (GoTo(w, "stop") => Count(w, "stop"))
        /\ (GoTo(w, "waitJoin") => Count(w, "waitJoin"))
        /\ (GoTo(w, "wakeJoin") => Count(w, "wakeJoin"))
        /\ (GoTo(w, "poll") => Count(w, "poll"))
    BY <1>2 DEF StartPoll, Held, OwnsAt, EnqueuesAt, Bit, Typed, HasJoinWaker, AfterReady
  <2>3. refs' = refs
    BY <1>2 DEF StartPoll, HasJoinWaker, AfterReady
  <2>4. pc[w] # "poll"
    BY <1>2 DEF StartPoll
  <2> QED
    BY <2>1, <2>2, <2>3, <2>4, QuietStep
<1>3. ASSUME NEW w \in Workers, PollReady(w) PROVE RefInv'
  <2>1. Move(w, "endReady")
    BY <1>3 DEF PollReady, Ends, word
  <2>2. Count(w, "endReady")
    BY <1>3 DEF PollReady, Held, OwnsAt, EnqueuesAt, Bit, Typed, word
  <2>3. refs' = refs
    BY <1>3 DEF PollReady, word
  <2>4. \A h \in Holders : pc[h] # "gotPointer"
    BY <1>3 DEF PollReady, PointerUnused
  <2> QED
    BY <2>1, <2>2, <2>3, <2>4, QuietStep
<1>4. ASSUME NEW w \in Workers, PollPending(w) PROVE RefInv'
  <2>1. Move(w, "endPending")
    BY <1>4 DEF PollPending, Ends, word
  <2>2. Count(w, "endPending")
    BY <1>4 DEF PollPending, Held, OwnsAt, EnqueuesAt, Bit, Typed, word
  <2>3. refs' = refs
    BY <1>4 DEF PollPending, word
  <2>4. \A h \in Holders : pc[h] # "gotPointer"
    BY <1>4 DEF PollPending, PointerUnused
  <2> QED
    BY <2>1, <2>2, <2>3, <2>4, QuietStep
<1>5. ASSUME NEW w \in Workers, EndPoll(w) PROVE RefInv'
  <2>1. Move(w, "stop") \/ Move(w, "waitJoin") \/ Move(w, "wakeJoin") \/ Move(w, "reschedule")
    BY <1>5 DEF EndPoll, Ends, HasJoinWaker, AfterReady, AfterPending
  <2>2. /\ (GoTo(w, "stop") => Count(w, "stop"))
        /\ (GoTo(w, "waitJoin") => Count(w, "waitJoin"))
        /\ (GoTo(w, "wakeJoin") => Count(w, "wakeJoin"))
        /\ (GoTo(w, "reschedule") => Count(w, "reschedule"))
    BY <1>5
    DEF EndPoll, Held, OwnsAt, EnqueuesAt, Bit, Typed, HasJoinWaker, AfterReady, AfterPending
  <2>3. refs' = refs
    BY <1>5 DEF EndPoll, HasJoinWaker, AfterReady, AfterPending
  <2>4. pc[w] # "poll"
    BY <1>5 DEF EndPoll
  <2> QED
    BY <2>1, <2>2, <2>3, <2>4, QuietStep
<1>6. ASSUME NEW w \in Workers, WaitForJoinWaker(w) PROVE RefInv'
  <2>1. Move(w, "wakeJoin")
    BY <1>6 DEF WaitForJoinWaker, Ends
  <2>2. Count(w, "wakeJoin")
    BY <1>6 DEF WaitForJoinWaker, Held, OwnsAt, EnqueuesAt, Bit, Typed
  <2>3. refs' = refs
    BY <1>6 DEF WaitForJoinWaker
  <2>4. pc[w] # "poll"
    BY <1>6 DEF WaitForJoinWaker
  <2> QED
    BY <2>1, <2>2, <2>3, <2>4, QuietStep
<1>7. ASSUME NEW w \in Workers, WakeJoinWaker(w) PROVE RefInv'
  <2>1. Move(w, "stop")
    BY <1>7 DEF WakeJoinWaker, Ends, word
  <2>2. Count(w, "stop")
    BY <1>7 DEF WakeJoinWaker, Held, OwnsAt, EnqueuesAt, Bit, Typed, word
  <2>3. refs' = refs
    BY <1>7 DEF WakeJoinWaker, word
  <2>4. pc[w] # "poll"
    BY <1>7 DEF WakeJoinWaker
  <2> QED
    BY <2>1, <2>2, <2>3, <2>4, QuietStep
<1>8. ASSUME NEW w \in Workers, Reschedule(w) PROVE RefInv'
  <2>1. Move(w, "idle")
    BY <1>8 DEF Reschedule, Ends, word
  <2>2. Count(w, "idle")
    BY <1>8 DEF Reschedule, Held, OwnsAt, EnqueuesAt, Bit, Typed, word
  <2>3. refs' = refs
    BY <1>8 DEF Reschedule, word
  <2>4. pc[w] # "poll"
    BY <1>8 DEF Reschedule
  <2> QED
    BY <2>1, <2>2, <2>3, <2>4, QuietStep
<1>9. ASSUME NEW w \in Workers, Stop(w) PROVE RefInv'
  <2>1. DropRef(w, "idle") /\ OwnsAt(w, pc[w]) /\ ~EnqueuesAt(pc[w]) /\ pc[w] # "poll"
    BY <1>9 DEF Stop, OwnsAt, EnqueuesAt
  <2>2. freed' = freed /\ queued' = queued
    BY <1>9 DEF Stop
  <2> QED
    BY <2>1, <2>2, DropRefStep
<1>10. ASSUME NEW h \in Holders, CloneWaker(h) PROVE RefInv'
  <2>1. Move(h, "waker")
    BY <1>10 DEF CloneWaker, Ends
  <2>2. Count(h, "waker")
    BY <1>10 DEF CloneWaker, Held, OwnsAt, EnqueuesAt, Bit, Typed
  <2>3. References > 0
    BY <1>10, ReferencesExist DEF CloneWaker, OwnsAt, Threads
  <2>4. pc[h] # "poll"
    BY <1>10 DEF CloneWaker
  <2> QED
    BY <2>1, <2>2, <2>3, <2>4, QuietStep
<1>11. ASSUME NEW h \in Holders, CloneTaskRef(h) PROVE RefInv'
  <2>1. Move(h, "taskRef")
    BY <1>11 DEF CloneTaskRef, Ends
  <2>2. Count(h, "taskRef")
    BY <1>11 DEF CloneTaskRef, Held, OwnsAt, EnqueuesAt, Bit, Typed
  <2>3. References > 0
    BY <1>11, ReferencesExist DEF CloneTaskRef, OwnsAt
  <2>4. pc[h] # "poll"
    BY <1>11 DEF CloneTaskRef
  <2> QED
    BY <2>1, <2>2, <2>3, <2>4, QuietStep
<1>12. ASSUME NEW h \in Holders, LoadCurrent(h) PROVE RefInv'
  <2>1. Move(h, "gotPointer")
    BY <1>12 DEF LoadCurrent, Ends, word
  <2>2. Count(h, "gotPointer")
    BY <1>12 DEF LoadCurrent, Held, OwnsAt, EnqueuesAt, Bit, Typed, word
  <2>3. refs' = refs
    BY <1>12 DEF LoadCurrent, word
  <2>4. \E w \in Workers : pc[w] = "poll"
    BY <1>12 DEF LoadCurrent
  <2>5. pc[h] # "poll"
    BY <1>12 DEF LoadCurrent
  <2> QED
    BY <2>1, <2>2, <2>3, <2>4, <2>5, QuietStep
<1>13. ASSUME NEW h \in Holders, CloneCurrent(h) PROVE RefInv'
  <2>1. Move(h, "taskRef")
    BY <1>13 DEF CloneCurrent, Ends
  <2>2. Count(h, "taskRef")
    BY <1>13 DEF CloneCurrent, Held, OwnsAt, EnqueuesAt, Bit, Typed
  <2>3. References > 0
    BY <1>13, ReferencesExist DEF CloneCurrent, RefInv, OwnsAt, Threads
  <2>4. pc[h] # "poll"
    BY <1>13 DEF CloneCurrent
  <2> QED
    BY <2>1, <2>2, <2>3, <2>4, QuietStep
<1>14. ASSUME NEW h \in Holders, WakeByVal(h) PROVE RefInv'
  <2>1. pc[h] = "waker" /\ freed' = freed /\ queued' = queued /\ h # Joiner
    BY <1>14 DEF WakeByVal
  <2>2. References \in Nat /\ References > 0
    BY <2>1, ReferencesExist DEF OwnsAt
  <2>3. ~freed /\ refs = References /\ \A u \in Threads : ~Ends(u)
    BY <2>2, ReferencesKeep
  <2>4. \/ refs' = refs - 1 /\ GoTo(h, "idle")
        \/ refs' = refs - 1 /\ refs = 1 /\ GoTo(h, "dropAgain")
        \/ refs' = refs + 1 /\ GoTo(h, "enqueueVal")
    BY <1>14, <2>2, <2>3 DEF WakeByVal, RefSub
  <2>5. Held(h, "waker") = 1 /\ Held(h, "idle") = 0 /\ Held(h, "enqueueVal") = 2 /\ Held(h, "dropAgain") = 0
    BY <2>1 DEF Held, OwnsAt, EnqueuesAt, Bit
  <2>6. CASE refs' = refs - 1 /\ GoTo(h, "idle")
    <3>1. refs' - refs = (queued' - queued) + Held(h, "idle") - Held(h, pc[h])
      BY <2>1, <2>5, <2>6 DEF Typed
    <3> QED
      BY <2>1, <2>2, <2>3, <2>6, <3>1, QuietStep
  <2>7. CASE refs' = refs + 1 /\ GoTo(h, "enqueueVal")
    <3>1. refs' - refs = (queued' - queued) + Held(h, "enqueueVal") - Held(h, pc[h])
      BY <2>1, <2>5, <2>7 DEF Typed
    <3> QED
      BY <2>1, <2>2, <2>3, <2>7, <3>1, QuietStep
  <2>8. CASE refs' = refs - 1 /\ refs = 1 /\ GoTo(h, "dropAgain")
    <3>1. pc'[h] = "dropAgain" /\ \A u \in Threads : u # h => pc'[u] = pc[u]
      BY <2>8 DEF GoTo, Typed
    <3>2. References' = References - 1
      BY <2>1, <2>2, <2>5, <2>8, ReferencesStep DEF Held, Bit, OwnsAt, EnqueuesAt, Typed
    <3>3. refs' = 0
      BY <2>8
    <3>4. References = 1
      BY <2>3, <2>8
    <3>5. References' = 0
      BY <3>2, <3>4
    <3>6. \A u \in Threads : Ends(u)' => u = h
      BY <2>3, <3>1 DEF Ends
    <3>7. RefsAreCounted'
      BY <3>3, <3>5 DEF RefsAreCounted
    <3>8. \A g \in Holders : pc'[g] = "gotPointer" => \E w \in Workers : pc'[w] = "poll"
      BY <2>1, <3>1 DEF RefInv
    <3> QED
      BY <2>1, <2>3, <3>3, <3>6, <3>7, <3>8 DEF RefInv
  <2> QED
    BY <2>4, <2>6, <2>7, <2>8
<1>15. ASSUME NEW h \in Holders, WakeByRef(h) PROVE RefInv'
  <2>1. pc[h] = "waker" /\ freed' = freed /\ queued' = queued /\ ~Ends(h)
    BY <1>15 DEF WakeByRef, Wake, Ends
  <2>2. (GoTo(h, "enqueueRef") /\ refs' = refs + 1) \/ (GoTo(h, "waker") /\ refs' = refs)
    BY <1>15 DEF WakeByRef, Wake
  <2>3. Held(h, "enqueueRef") = 2 /\ Held(h, "waker") = 1 /\ Held(h, "waker") = 1
    BY DEF Held, OwnsAt, EnqueuesAt, Bit
  <2>4. References > 0
    BY <2>1, ReferencesExist DEF OwnsAt
  <2>5. ASSUME GoTo(h, "enqueueRef"), refs' = refs + 1 PROVE RefInv'
    <3>1. Count(h, "enqueueRef")
      BY <2>1, <2>3, <2>5 DEF Typed
    <3> QED
      BY <2>1, <2>4, <2>5, <3>1, QuietStep
  <2>6. ASSUME GoTo(h, "waker"), refs' = refs PROVE RefInv'
    <3>1. Count(h, "waker")
      BY <2>1, <2>3, <2>6 DEF Typed
    <3> QED
      BY <2>1, <2>4, <2>6, <3>1, QuietStep
  <2> QED
    BY <2>2, <2>5, <2>6
<1>16. ASSUME NEW h \in Holders, Cancel(h) PROVE RefInv'
  <2>1. Move(h, "cancelWake")
    BY <1>16 DEF Cancel, Ends
  <2>2. Count(h, "cancelWake")
    BY <1>16 DEF Cancel, Held, OwnsAt, EnqueuesAt, Bit, Typed
  <2>3. refs' = refs
    BY <1>16 DEF Cancel
  <2>4. pc[h] # "poll"
    BY <1>16 DEF Cancel
  <2> QED
    BY <2>1, <2>2, <2>3, <2>4, QuietStep
<1>17. ASSUME NEW h \in Holders, CancelWake(h) PROVE RefInv'
  <2>1. pc[h] = "cancelWake" /\ freed' = freed /\ queued' = queued /\ ~Ends(h)
    BY <1>17 DEF CancelWake, Wake, Ends
  <2>2. (GoTo(h, "enqueueCancel") /\ refs' = refs + 1) \/ (GoTo(h, "taskRef") /\ refs' = refs)
    BY <1>17 DEF CancelWake, Wake
  <2>3. Held(h, "enqueueCancel") = 2 /\ Held(h, "taskRef") = 1 /\ Held(h, "cancelWake") = 1
    BY DEF Held, OwnsAt, EnqueuesAt, Bit
  <2>4. References > 0
    BY <2>1, ReferencesExist DEF OwnsAt
  <2>5. ASSUME GoTo(h, "enqueueCancel"), refs' = refs + 1 PROVE RefInv'
    <3>1. Count(h, "enqueueCancel")
      BY <2>1, <2>3, <2>5 DEF Typed
    <3> QED
      BY <2>1, <2>4, <2>5, <3>1, QuietStep
  <2>6. ASSUME GoTo(h, "taskRef"), refs' = refs PROVE RefInv'
    <3>1. Count(h, "taskRef")
      BY <2>1, <2>3, <2>6 DEF Typed
    <3> QED
      BY <2>1, <2>4, <2>6, <3>1, QuietStep
  <2> QED
    BY <2>2, <2>5, <2>6
<1>18. ASSUME NEW h \in Holders, Enqueue(h) PROVE RefInv'
  <2>1. Move(h, "dropVal") \/ Move(h, "waker") \/ Move(h, "taskRef")
    BY <1>18 DEF Enqueue, Ends, word
  <2>2. /\ (GoTo(h, "dropVal") => Count(h, "dropVal"))
        /\ (GoTo(h, "waker") => Count(h, "waker"))
        /\ (GoTo(h, "taskRef") => Count(h, "taskRef"))
    BY <1>18 DEF Enqueue, Held, OwnsAt, EnqueuesAt, Bit, Typed, word
  <2>3. refs' = refs
    BY <1>18 DEF Enqueue, word
  <2>4. pc[h] # "poll"
    BY <1>18 DEF Enqueue
  <2> QED
    BY <2>1, <2>2, <2>3, <2>4, QuietStep
<1>19. ASSUME NEW h \in Holders, DropHeld(h) PROVE RefInv'
  <2>1. DropRef(h, "idle") /\ freed' = freed /\ queued' = queued
    BY <1>19 DEF DropHeld
  <2>2. CASE pc[h] # "dropAgain"
    <3>1. OwnsAt(h, pc[h]) /\ ~EnqueuesAt(pc[h]) /\ pc[h] # "poll"
      BY <1>19, <2>2 DEF DropHeld, OwnsAt, EnqueuesAt
    <3> QED
      BY <2>1, <3>1, DropRefStep
  <2>3. CASE pc[h] = "dropAgain"
    <3>1. Ends(h) /\ refs = 0 /\ ~freed
      BY <2>3 DEF RefInv, Ends
    <3>2. GoTo(h, "dealloc")
      BY <2>1, <3>1 DEF DropRef, IsLast
    <3>3. pc'[h] = "dealloc" /\ \A u \in Threads : u # h => pc'[u] = pc[u]
      BY <3>2 DEF GoTo, Typed
    <3>4. \A u \in Threads : Ends(u) => u = h
      BY <3>1 DEF RefInv
    <3>5. \A u \in Threads : pc[u] # "dealloc"
      BY <2>3, <3>4 DEF Ends
    <3>6. References = 0
      BY <3>1, <3>5 DEF RefInv, RefsAreCounted
    <3>7. References' = 0
      BY <2>1, <2>3, <3>2, <3>6, ReferencesStep DEF Bit, OwnsAt, EnqueuesAt, Typed
    <3>8. RefsAreCounted'
      BY <3>3, <3>7 DEF RefsAreCounted
    <3>9. \A u \in Threads : Ends(u)' => u = h
      BY <3>3, <3>4 DEF Ends
    <3>10. \A g \in Holders : pc'[g] = "gotPointer" => \E w \in Workers : pc'[w] = "poll"
      BY <3>3 DEF RefInv
    <3>11. \A u \in Threads : pc'[u] # "dropAgain"
      BY <3>3, <3>9 DEF Ends
    <3> QED
      BY <2>1, <3>1, <3>8, <3>9, <3>10, <3>11 DEF RefInv
  <2> QED
    BY <2>2, <2>3
<1>20. CASE TryJoin
  <2>1. Move(Joiner, "take") \/ Move(Joiner, "clear") \/ Move(Joiner, "register") \/ Move(Joiner, "reregister")
    BY <1>20 DEF TryJoin, Ends
  <2>2. /\ (GoTo(Joiner, "take") => Count(Joiner, "take"))
        /\ (GoTo(Joiner, "clear") => Count(Joiner, "clear"))
        /\ (GoTo(Joiner, "register") => Count(Joiner, "register"))
        /\ (GoTo(Joiner, "reregister") => Count(Joiner, "reregister"))
    BY <1>20 DEF TryJoin, Held, OwnsAt, EnqueuesAt, Bit, Typed
  <2>3. refs' = refs
    BY <1>20 DEF TryJoin
  <2>4. pc[Joiner] # "poll"
    BY <1>20 DEF TryJoin
  <2> QED
    BY <2>1, <2>2, <2>3, <2>4, QuietStep
<1>21. CASE Register
  <2>1. Move(Joiner, "parked")
    BY <1>21 DEF Register, Ends
  <2>2. Count(Joiner, "parked")
    BY <1>21 DEF Register, Held, OwnsAt, EnqueuesAt, Bit, Typed
  <2>3. refs' = refs
    BY <1>21 DEF Register
  <2>4. pc[Joiner] # "poll"
    BY <1>21 DEF Register
  <2> QED
    BY <2>1, <2>2, <2>3, <2>4, QuietStep
<1>22. CASE TakeOutput
  <2>1. Move(Joiner, "clear")
    BY <1>22 DEF TakeOutput, Ends, word
  <2>2. Count(Joiner, "clear")
    BY <1>22 DEF TakeOutput, Held, OwnsAt, EnqueuesAt, Bit, Typed, word
  <2>3. refs' = refs
    BY <1>22 DEF TakeOutput, word
  <2>4. pc[Joiner] # "poll"
    BY <1>22 DEF TakeOutput
  <2> QED
    BY <2>1, <2>2, <2>3, <2>4, QuietStep
<1>23. CASE DropJoinHandle
  <2>1. Move(Joiner, "drop")
    BY <1>23 DEF DropJoinHandle, Ends
  <2>2. Count(Joiner, "drop")
    BY <1>23 DEF DropJoinHandle, Held, OwnsAt, EnqueuesAt, Bit, Typed
  <2>3. refs' = refs
    BY <1>23 DEF DropJoinHandle
  <2>4. pc[Joiner] # "poll"
    BY <1>23 DEF DropJoinHandle
  <2> QED
    BY <2>1, <2>2, <2>3, <2>4, QuietStep
<1>24. CASE DropJoinRef
  <2>1. DropRef(Joiner, "gone") /\ OwnsAt(Joiner, pc[Joiner]) /\ ~EnqueuesAt(pc[Joiner]) /\ pc[Joiner] # "poll"
    BY <1>24 DEF DropJoinRef, OwnsAt, EnqueuesAt
  <2>2. freed' = freed /\ queued' = queued
    BY <1>24 DEF DropJoinRef
  <2> QED
    BY <2>1, <2>2, DropRefStep
<1>25. ASSUME NEW t \in Threads, Deallocate(t) PROVE RefInv'
  <2>1. pc[t] = "dealloc" /\ GoTo(t, "gone") /\ freed' = TRUE /\ refs' = refs /\ queued' = queued
    BY <1>25 DEF Deallocate, word
  <2>2. pc'[t] = "gone" /\ \A u \in Threads : u # t => pc'[u] = pc[u]
    BY <2>1 DEF GoTo, Typed
  <2>3. References = 0
    BY <2>1 DEF RefInv, RefsAreCounted
  <2>4. References' = 0
    BY <2>1, <2>3, ReferencesStep DEF Bit, OwnsAt, EnqueuesAt, Typed
  <2>5. RefsAreCounted'
    BY <2>1, <2>4 DEF RefsAreCounted
  <2>6. \A u \in Threads : ~Ends(u)'
    BY <2>1, <2>2 DEF RefInv, Ends
  <2>7. \A h \in Holders : pc'[h] = "gotPointer" => \E w \in Workers : pc'[w] = "poll"
    BY <2>1, <2>2 DEF RefInv
  <2> QED
    BY <2>5, <2>6, <2>7 DEF RefInv, Ends
<1>26. CASE UNCHANGED vars
  BY <1>26 DEF vars, RefInv, RefsAreCounted, References, Owners, Enqueueing, Ends
<1> QED
  BY <1>1, <1>2, <1>3, <1>4, <1>5, <1>6, <1>7, <1>8, <1>9, <1>10, <1>11, <1>12, <1>13, <1>14,
     <1>15, <1>16, <1>17, <1>18, <1>19, <1>20, <1>21, <1>22, <1>23, <1>24, <1>25, <1>26
  DEF Next, Work, Hold, Join

-----------------------------------------------------------------------------
(* Scheduling. *)

(* A waker that finds none of the flags is the first to wake a task that has *)
(* no token.                                                                 *)
LEMMA WakeIsFirst ==
  ASSUME Typed, SchedInv, NEW h \in Holders, pc[h] \in {"waker", "cancelWake"},
         "POLLING" \notin state, "COMPLETED" \notin state, "WOKEN" \notin state
  PROVE  pc[h] = "waker" /\ queued = 0 /\ ~finished /\ \A t \in Threads : ~Busy(t)
<1> USE ThreadsAreFinite
<1>1. pc[h] = "waker" /\ ~finished /\ "CANCELED" \notin state
  BY DEF SchedInv, FlagInv, WokenInv
<1>2. queued = 0 /\ \A w \in Workers : pc[w] # "start"
  BY <1>1 DEF SchedInv, WokenInv, TokenInv
<1>3. \A w \in Workers : ~Polls(pc[w])
  BY DEF SchedInv, FlagInv
<1>4. \A t \in Threads : ~EnqueuesAt(pc[t]) /\ pc[t] # "reschedule"
  BY DEF SchedInv, WokenInv
<1>5. \A t \in Threads : t \notin Workers => ~Polls(pc[t]) /\ pc[t] # "start"
  BY DEF Typed, Threads, HolderPcs, JoinerPcs, Polls
<1> QED
  BY <1>1, <1>2, <1>3, <1>4, <1>5 DEF Busy

(* Waking a task: nothing to do, a flag for the worker that polls it, or a   *)
(* new token.                                                                *)
LEMMA WakeStep ==
  ASSUME Typed, Typed', SchedInv, NEW h \in Holders, pc[h] \in {"waker", "cancelWake"},
         \A u \in Threads : u # h => pc'[u] = pc[u], queued' = queued, finished' = finished,
         \/ /\ pc'[h] \in {"idle", "dropAgain", "taskRef", pc[h]} /\ pc'[h] # "cancelWake"
            /\ state' = state \/ (state' = state \cup {"WOKEN"} /\ "POLLING" \in state)
         \/ /\ EnqueuesAt(pc'[h])
            /\ state' = state \cup {"WOKEN"}
            /\ "POLLING" \notin state /\ "COMPLETED" \notin state /\ "WOKEN" \notin state
  PROVE  SchedInv'
<1> USE ThreadsAreFinite
<1>1. CASE /\ pc'[h] \in {"idle", "dropAgain", "taskRef", pc[h]} /\ pc'[h] # "cancelWake"
           /\ state' = state \/ (state' = state \cup {"WOKEN"} /\ "POLLING" \in state)
  <2>1. \A t \in Threads : /\ Busy(t)' <=> Busy(t)
                           /\ Polls(pc'[t]) <=> Polls(pc[t])
                           /\ EnqueuesAt(pc'[t]) <=> EnqueuesAt(pc[t])
                           /\ pc'[t] \in {"start", "reschedule", "cancelWake"} => pc'[t] = pc[t]
                           /\ pc[t] \in {"start", "reschedule"} => pc'[t] = pc[t]
                           /\ pc'[t] = "waker" => pc[t] = "waker"
    BY <1>1 DEF Busy, Polls, EnqueuesAt
  <2>2. TokenInv'
    BY <2>1 DEF SchedInv, TokenInv
  <2>3. FlagInv'
    BY <1>1, <2>1 DEF SchedInv, FlagInv
  <2>4. Enqueueing' = Enqueueing
    BY <2>1 DEF Enqueueing, EnqueuesAt
  <2>5. \A f : f \in state => f \in state'
    BY <1>1
  <2>6. WokenIsScheduled'
    <3>1. CASE state' = state
      BY <2>1, <2>4, <3>1, Zenon DEF SchedInv, WokenInv, WokenIsScheduled
    <3>2. CASE "POLLING" \in state
      BY <2>5, <3>2 DEF WokenIsScheduled
    <3> QED
      BY <1>1, <3>1, <3>2
  <2>7. WokenInv'
    BY <2>1, <2>5, <2>6 DEF SchedInv, WokenInv
  <2> QED
    BY <2>2, <2>3, <2>7 DEF SchedInv
<1>2. CASE /\ EnqueuesAt(pc'[h])
           /\ state' = state \cup {"WOKEN"}
           /\ "POLLING" \notin state /\ "COMPLETED" \notin state /\ "WOKEN" \notin state
  <2>1. queued = 0 /\ ~finished /\ \A t \in Threads : ~Busy(t)
    BY <1>2, WakeIsFirst
  <2>2. \A t \in Threads : Busy(t)' => t = h
    BY <2>1 DEF Busy
  <2>3. TokenInv'
    BY <2>1, <2>2 DEF TokenInv
  <2>4. \A t \in Threads : Polls(pc'[t]) <=> Polls(pc[t])
    BY <1>2 DEF Polls, EnqueuesAt
  <2>5. FlagInv'
    BY <1>2, <2>1, <2>4 DEF SchedInv, FlagInv
  <2>6. "WOKEN" \in state'
    BY <1>2
  <2>7. \A g \in Holders : pc'[g] = "cancelWake" => "CANCELED" \in state'
    BY <1>2 DEF SchedInv, WokenInv, EnqueuesAt
  <2>8. h \in Enqueueing'
    BY <1>2 DEF Enqueueing, EnqueuesAt
  <2>9. WokenInv'
    BY <2>6, <2>7, <2>8 DEF WokenInv, WokenIsScheduled
  <2> QED
    BY <2>3, <2>5, <2>9 DEF SchedInv
<1> QED
  BY <1>1, <1>2

(* A step that has nothing to do with the token. *)
LEMMA SchedQuiet ==
  ASSUME Typed, SchedInv, NEW t \in Threads, NEW l, GoTo(t, l),
         ~Busy(t), l \notin {"start", "poll", "endReady", "endPending", "reschedule"}, ~EnqueuesAt(l),
         l \notin {"waker", "cancelWake"}, queued' = queued, finished' = finished,
         \A f \in {"POLLING", "COMPLETED", "CANCELED", "WOKEN"} : f \in state' <=> f \in state
  PROVE  SchedInv'
<1> USE ThreadsAreFinite
<1>1. pc'[t] = l /\ \A u \in Threads : u # t => pc'[u] = pc[u]
  BY DEF GoTo, Typed
<1>2. \A u \in Threads :
        /\ Busy(u)' <=> Busy(u)
        /\ Polls(pc'[u]) <=> Polls(pc[u])
        /\ EnqueuesAt(pc'[u]) <=> EnqueuesAt(pc[u])
        /\ pc'[u] = "start" <=> pc[u] = "start"
        /\ pc'[u] = "reschedule" <=> pc[u] = "reschedule"
        /\ pc'[u] = "waker" => pc[u] = "waker"
        /\ pc'[u] = "cancelWake" => pc[u] = "cancelWake"
  BY <1>1 DEF Busy, Polls, EnqueuesAt
<1>3. TokenInv'
  BY <1>2, Zenon DEF SchedInv, TokenInv
<1>4. FlagInv'
  BY <1>2 DEF SchedInv, FlagInv
<1>5. Enqueueing' = Enqueueing
  BY <1>2 DEF Enqueueing, EnqueuesAt
<1>6. WokenIsScheduled'
  BY <1>2, <1>5 DEF SchedInv, WokenInv, WokenIsScheduled
<1>7. WokenInv'
  BY <1>2, <1>6 DEF SchedInv, WokenInv
<1> QED
  BY <1>3, <1>4, <1>7 DEF SchedInv

(* Every step keeps the token where the flags say it is. *)
LEMMA SchedInvStep ==
  ASSUME Typed, Typed', SchedInv, [Next]_vars
  PROVE  SchedInv'
<1> USE ThreadsAreFinite
<1> DEFINE Same == /\ queued' = queued /\ finished' = finished
                   /\ \A f \in {"POLLING", "COMPLETED", "CANCELED", "WOKEN"} : f \in state' <=> f \in state
<1>1. ASSUME NEW w \in Workers, Dequeue(w) PROVE SchedInv'
  <2>1. pc'[w] = "start" /\ \A u \in Threads : u # w => pc'[u] = pc[u]
    BY <1>1 DEF Dequeue, GoTo, Typed, word
  <2>2. TokenInv'
    BY <1>1, <2>1, SMTT(30)
    DEF Dequeue, SchedInv, Typed, word, TokenInv, FlagInv, WokenInv, Busy, Polls, EnqueuesAt
  <2>3. FlagInv'
    BY <1>1, <2>1 DEF Dequeue, SchedInv, Typed, word, TokenInv, FlagInv, WokenInv, Busy, Polls
  <2>4. WokenInv'
    BY <1>1, <2>1, SMTT(30)
    DEF Dequeue, SchedInv, Typed, word, TokenInv, FlagInv, WokenInv, Busy, Polls, EnqueuesAt,
        WokenIsScheduled, Enqueueing
  <2> QED
    BY <2>2, <2>3, <2>4 DEF SchedInv
<1>2. ASSUME NEW w \in Workers, StartPoll(w) PROVE SchedInv'
  <2>1. pc[w] = "start" /\ Busy(w) /\ queued' = queued
    BY <1>2 DEF StartPoll, Busy
  <2>2. queued = 0 /\ ~finished /\ \A u \in Threads : u # w => ~Busy(u)
    BY <2>1 DEF SchedInv, TokenInv
  <2>3. "POLLING" \notin state /\ "COMPLETED" \notin state
    BY <2>1, <2>2 DEF SchedInv, FlagInv, Busy, Polls
  <2>4. \/ "CANCELED" \in state /\ state' = state /\ finished' /\ GoTo(w, AfterReady(joinWaker))
        \/ "CANCELED" \notin state /\ state' = Polling(state) /\ finished' = finished /\ GoTo(w, "poll")
    BY <1>2, <2>3 DEF StartPoll, HasJoinWaker
  <2>5. CASE "CANCELED" \in state /\ state' = state /\ finished' /\ GoTo(w, AfterReady(joinWaker))
    <3>1. pc'[w] \in {"stop", "waitJoin", "wakeJoin"} /\ \A u \in Threads : u # w => pc'[u] = pc[u]
      BY <2>5 DEF GoTo, AfterReady, Typed
    <3>2. \A u \in Threads : ~Busy(u)'
      BY <2>2, <3>1 DEF Busy, Polls, EnqueuesAt
    <3>3. TokenInv'
      BY <2>1, <2>2, <3>2 DEF TokenInv
    <3>4. FlagInv'
      BY <2>3, <2>5, <3>2 DEF SchedInv, FlagInv, Busy
    <3>5. WokenInv'
      BY <2>1, <2>2, <2>5, <3>1, <3>2 DEF SchedInv, WokenInv, WokenIsScheduled, Busy
    <3> QED
      BY <3>3, <3>4, <3>5 DEF SchedInv
  <2>6. CASE "CANCELED" \notin state /\ state' = Polling(state) /\ finished' = finished /\ GoTo(w, "poll")
    <3>1. pc'[w] = "poll" /\ \A u \in Threads : u # w => pc'[u] = pc[u]
      BY <2>6 DEF GoTo, Typed
    <3>2. Busy(w)' /\ \A u \in Threads : u # w => ~Busy(u)'
      BY <2>2, <3>1 DEF Busy, Polls, EnqueuesAt
    <3>3. TokenInv'
      BY <2>1, <2>2, <2>6, <3>2 DEF TokenInv
    <3>4. "POLLING" \in state' /\ \A f : f \in state' => f = "POLLING" \/ f \in state
      BY <2>6 DEF Polling
    <3>5. FlagInv'
      BY <2>2, <2>3, <2>6, <3>1, <3>4 DEF FlagInv, Polls
    <3>6. \A t \in Threads : ~EnqueuesAt(pc'[t]) /\ pc'[t] \notin {"start", "reschedule"}
      BY <3>1, <3>2 DEF Busy, EnqueuesAt
    <3>7. \A h \in Holders : pc'[h] # "cancelWake"
      BY <2>6, <3>1 DEF SchedInv, WokenInv
    <3>8. WokenInv'
      BY <2>1, <2>2, <3>4, <3>6, <3>7 DEF WokenInv, WokenIsScheduled
    <3> QED
      BY <3>3, <3>5, <3>8 DEF SchedInv
  <2> QED
    BY <2>4, <2>5, <2>6
<1>3. ASSUME NEW w \in Workers, PollReady(w) PROVE SchedInv'
  <2>1. pc'[w] = "endReady" /\ \A u \in Threads : u # w => pc'[u] = pc[u]
    BY <1>3 DEF PollReady, GoTo, Typed, word
  <2>2. TokenInv'
    BY <1>3, <2>1
    DEF PollReady, SchedInv, Typed, word, TokenInv, FlagInv, WokenInv, Busy, Polls, EnqueuesAt
  <2>3. FlagInv'
    BY <1>3, <2>1 DEF PollReady, SchedInv, Typed, word, TokenInv, FlagInv, WokenInv, Busy, Polls
  <2>4. WokenInv'
    BY <1>3, <2>1
    DEF PollReady, SchedInv, Typed, word, TokenInv, FlagInv, WokenInv, Busy, Polls, EnqueuesAt,
        WokenIsScheduled, Enqueueing
  <2> QED
    BY <2>2, <2>3, <2>4 DEF SchedInv
<1>4. ASSUME NEW w \in Workers, PollPending(w) PROVE SchedInv'
  <2>1. pc'[w] = "endPending" /\ \A u \in Threads : u # w => pc'[u] = pc[u]
    BY <1>4 DEF PollPending, GoTo, Typed, word
  <2>2. TokenInv'
    BY <1>4, <2>1
    DEF PollPending, SchedInv, Typed, word, TokenInv, FlagInv, WokenInv, Busy, Polls, EnqueuesAt
  <2>3. FlagInv'
    BY <1>4, <2>1 DEF PollPending, SchedInv, Typed, word, TokenInv, FlagInv, WokenInv, Busy, Polls
  <2>4. WokenInv'
    BY <1>4, <2>1
    DEF PollPending, SchedInv, Typed, word, TokenInv, FlagInv, WokenInv, Busy, Polls,
        EnqueuesAt, WokenIsScheduled, Enqueueing
  <2> QED
    BY <2>2, <2>3, <2>4 DEF SchedInv
<1>5. ASSUME NEW w \in Workers, EndPoll(w) PROVE SchedInv'
  <2>1. Polls(pc[w]) /\ queued' = queued
    BY <1>5 DEF EndPoll, Polls
  <2>2. queued = 0 /\ ~finished /\ \A u \in Threads : u # w => ~Busy(u)
    BY <2>1 DEF SchedInv, TokenInv, Busy
  <2>3. \/ state' = Completed(state) /\ finished' /\ GoTo(w, AfterReady(joinWaker))
        \/ state' = state \ {"POLLING"} /\ finished' = finished /\ GoTo(w, AfterPending(state))
    BY <1>5 DEF EndPoll, HasJoinWaker
  <2>4. CASE state' = Completed(state) /\ finished' /\ GoTo(w, AfterReady(joinWaker))
    <3>1. pc'[w] \in {"stop", "waitJoin", "wakeJoin"} /\ \A u \in Threads : u # w => pc'[u] = pc[u]
      BY <2>4 DEF GoTo, AfterReady, Typed
    <3>2. \A u \in Threads : ~Busy(u)'
      BY <2>2, <3>1 DEF Busy, Polls, EnqueuesAt
    <3>3. TokenInv'
      BY <2>1, <2>2, <3>2 DEF TokenInv
    <3>4. "COMPLETED" \in state' /\ "POLLING" \notin state' /\ ("CANCELED" \in state => "CANCELED" \in state')
      BY <2>4 DEF Completed
    <3>5. FlagInv'
      BY <2>4, <3>2, <3>4 DEF FlagInv, Busy
    <3>6. \A h \in Holders : pc'[h] = "cancelWake" => pc[h] = "cancelWake"
      BY <3>1
    <3>7. WokenInv'
      BY <2>1, <2>2, <3>2, <3>4, <3>6 DEF SchedInv, WokenInv, WokenIsScheduled, Busy
    <3> QED
      BY <3>3, <3>5, <3>7 DEF SchedInv
  <2>5. CASE state' = state \ {"POLLING"} /\ finished' = finished /\ GoTo(w, AfterPending(state))
    <3>1. /\ pc'[w] = IF "WOKEN" \in state THEN "reschedule" ELSE "stop"
          /\ \A u \in Threads : u # w => pc'[u] = pc[u]
      BY <2>5 DEF GoTo, AfterPending, Typed
    <3>2. \A u \in Threads : Busy(u)' => u = w
      BY <2>2, <3>1 DEF Busy, Polls, EnqueuesAt
    <3>3. TokenInv'
      BY <2>1, <2>2, <2>5, <3>2 DEF TokenInv
    <3>4. \A u \in Threads : ~Polls(pc'[u])
      BY <2>2, <3>1 DEF Busy, Polls
    <3>5. "POLLING" \notin state' /\ \A f : f # "POLLING" => (f \in state' <=> f \in state)
      BY <2>5
    <3>6. FlagInv'
      BY <2>5, <3>4, <3>5 DEF SchedInv, FlagInv
    <3>7. \A t \in Threads : /\ pc'[t] # "start" /\ ~EnqueuesAt(pc'[t])
                             /\ pc'[t] = "reschedule" => "WOKEN" \in state'
                             /\ pc'[t] = "cancelWake" => pc[t] = "cancelWake"
      BY <2>2, <3>1, <3>5 DEF Busy, EnqueuesAt
    <3>8. "WOKEN" \in state' => pc'[w] = "reschedule"
      BY <3>1, <3>5
    <3>9. WokenIsScheduled'
      BY <3>8 DEF WokenIsScheduled
    <3>10. WokenInv'
      BY <2>1, <2>2, <3>5, <3>7, <3>9 DEF SchedInv, WokenInv
    <3> QED
      BY <3>3, <3>6, <3>10 DEF SchedInv
  <2> QED
    BY <2>3, <2>4, <2>5
<1>6. ASSUME NEW w \in Workers, WaitForJoinWaker(w) PROVE SchedInv'
  <2>1. GoTo(w, "wakeJoin")
    BY <1>6 DEF WaitForJoinWaker
  <2>2. Same
    BY <1>6 DEF WaitForJoinWaker
  <2>3. ~Busy(w)
    BY <1>6 DEF WaitForJoinWaker, Busy, Polls, EnqueuesAt
  <2> QED
    BY <2>1, <2>2, <2>3, SchedQuiet DEF EnqueuesAt
<1>7. ASSUME NEW w \in Workers, WakeJoinWaker(w) PROVE SchedInv'
  <2>1. GoTo(w, "stop")
    BY <1>7 DEF WakeJoinWaker, word
  <2>2. Same
    BY <1>7 DEF WakeJoinWaker, word
  <2>3. ~Busy(w)
    BY <1>7 DEF WakeJoinWaker, Busy, Polls, EnqueuesAt
  <2> QED
    BY <2>1, <2>2, <2>3, SchedQuiet DEF EnqueuesAt
<1>8. ASSUME NEW w \in Workers, Reschedule(w) PROVE SchedInv'
  <2>1. pc'[w] = "idle" /\ \A u \in Threads : u # w => pc'[u] = pc[u]
    BY <1>8 DEF Reschedule, GoTo, Typed, word
  <2>2. TokenInv'
    BY <1>8, <2>1, SMTT(30)
    DEF Reschedule, SchedInv, Typed, word, TokenInv, FlagInv, WokenInv, Busy, Polls, EnqueuesAt
  <2>3. FlagInv'
    BY <1>8, <2>1 DEF Reschedule, SchedInv, Typed, word, TokenInv, FlagInv, WokenInv, Busy, Polls
  <2>4. WokenInv'
    BY <1>8, <2>1, SMTT(30)
    DEF Reschedule, SchedInv, Typed, word, TokenInv, FlagInv, WokenInv, Busy, Polls, EnqueuesAt,
        WokenIsScheduled, Enqueueing
  <2> QED
    BY <2>2, <2>3, <2>4 DEF SchedInv
<1>9. ASSUME NEW w \in Workers, Stop(w) PROVE SchedInv'
  <2>1. GoTo(w, "dealloc") \/ GoTo(w, "idle")
    BY <1>9 DEF Stop, DropRef
  <2>2. Same
    BY <1>9 DEF Stop, DropRef
  <2>3. ~Busy(w)
    BY <1>9 DEF Stop, Busy, Polls, EnqueuesAt
  <2> QED
    BY <2>1, <2>2, <2>3, SchedQuiet DEF EnqueuesAt
<1>10. ASSUME NEW h \in Holders, CloneWaker(h) PROVE SchedInv'
  <2>1. /\ pc[h] = "idle" /\ pc'[h] = "waker" /\ \A u \in Threads : u # h => pc'[u] = pc[u]
        /\ state' = state /\ queued' = queued /\ finished' = finished
    BY <1>10 DEF CloneWaker, GoTo, Typed
  <2>2. \A t \in Threads : /\ Busy(t)' <=> Busy(t)
                           /\ Polls(pc'[t]) <=> Polls(pc[t])
                           /\ EnqueuesAt(pc'[t]) <=> EnqueuesAt(pc[t])
                           /\ pc'[t] \notin {"idle", "waker"} \/ pc[t] \notin {"idle", "waker"} => pc'[t] = pc[t]
    BY <2>1 DEF Busy, Polls, EnqueuesAt
  <2>3. TokenInv'
    BY <2>1, <2>2 DEF SchedInv, TokenInv
  <2>4. FlagInv'
    BY <2>1, <2>2 DEF SchedInv, FlagInv
  <2>5. PICK t \in Workers \cup Holders : pc[t] \in {"poll", "waker"}
    BY <1>10 DEF CloneWaker
  <2>6. t \in Threads /\ (pc[t] = "poll" => Busy(t)) /\ (t \in Workers => pc[t] # "waker")
    BY DEF Threads, Busy, Polls, Typed, WorkerPcs
  <2>7. queued = 1 \/ (\E w \in Workers : pc[w] = "start") => "WOKEN" \in state
    <3>1. CASE pc[t] = "poll"
      BY <2>6, <3>1 DEF SchedInv, TokenInv, Busy
    <3>2. CASE pc[t] = "waker"
      BY <2>5, <2>6, <3>2 DEF SchedInv, WokenInv
    <3> QED
      BY <2>5, <3>1, <3>2
  <2>8. Enqueueing' = Enqueueing
    BY <2>2 DEF Enqueueing, EnqueuesAt
  <2>9. WokenIsScheduled'
    BY <2>1, <2>2, <2>8, ZenonT(20) DEF SchedInv, WokenInv, WokenIsScheduled
  <2>10. WokenInv'
    BY <2>1, <2>2, <2>7, <2>9 DEF SchedInv, WokenInv
  <2> QED
    BY <2>3, <2>4, <2>10 DEF SchedInv
<1>11. ASSUME NEW h \in Holders, CloneTaskRef(h) PROVE SchedInv'
  <2>1. GoTo(h, "taskRef")
    BY <1>11 DEF CloneTaskRef
  <2>2. Same
    BY <1>11 DEF CloneTaskRef
  <2>3. ~Busy(h)
    BY <1>11 DEF CloneTaskRef, Busy, Polls, EnqueuesAt
  <2> QED
    BY <2>1, <2>2, <2>3, SchedQuiet DEF EnqueuesAt
<1>12. ASSUME NEW h \in Holders, LoadCurrent(h) PROVE SchedInv'
  <2>1. GoTo(h, "gotPointer")
    BY <1>12 DEF LoadCurrent, word
  <2>2. Same
    BY <1>12 DEF LoadCurrent, word
  <2>3. ~Busy(h)
    BY <1>12 DEF LoadCurrent, Busy, Polls, EnqueuesAt
  <2> QED
    BY <2>1, <2>2, <2>3, SchedQuiet DEF EnqueuesAt
<1>13. ASSUME NEW h \in Holders, CloneCurrent(h) PROVE SchedInv'
  <2>1. GoTo(h, "taskRef")
    BY <1>13 DEF CloneCurrent
  <2>2. Same
    BY <1>13 DEF CloneCurrent
  <2>3. ~Busy(h)
    BY <1>13 DEF CloneCurrent, Busy, Polls, EnqueuesAt
  <2> QED
    BY <2>1, <2>2, <2>3, SchedQuiet DEF EnqueuesAt
<1>14. ASSUME NEW h \in Holders, WakeByVal(h) PROVE SchedInv'
  <2>1. /\ pc[h] \in {"waker", "cancelWake"} /\ queued' = queued /\ finished' = finished
        /\ \A u \in Threads : u # h => pc'[u] = pc[u]
    BY <1>14 DEF WakeByVal, GoTo, Typed
  <2>2. \/ /\ pc'[h] \in {"idle", "dropAgain"}
           /\ state' = state \/ (state' = state \cup {"WOKEN"} /\ "POLLING" \in state)
        \/ /\ EnqueuesAt(pc'[h])
           /\ state' = state \cup {"WOKEN"}
           /\ "POLLING" \notin state /\ "COMPLETED" \notin state /\ "WOKEN" \notin state
    BY <1>14 DEF WakeByVal, GoTo, Typed, BeingPolled, EnqueuesAt
  <2> QED
    BY <2>1, <2>2, WakeStep
<1>15. ASSUME NEW h \in Holders, WakeByRef(h) PROVE SchedInv'
  <2>1. /\ pc[h] \in {"waker", "cancelWake"} /\ queued' = queued /\ finished' = finished
        /\ \A u \in Threads : u # h => pc'[u] = pc[u]
    BY <1>15 DEF WakeByRef, GoTo, Typed, Wake
  <2>2. \/ /\ pc'[h] = "waker" /\ pc[h] = "waker"
           /\ state' = state \/ (state' = state \cup {"WOKEN"} /\ "POLLING" \in state)
        \/ /\ EnqueuesAt(pc'[h])
           /\ state' = state \cup {"WOKEN"}
           /\ "POLLING" \notin state /\ "COMPLETED" \notin state /\ "WOKEN" \notin state
    BY <1>15 DEF WakeByRef, Wake, GoTo, Typed, BeingPolled, EnqueuesAt
  <2> QED
    BY <2>1, <2>2, WakeStep, Zenon
<1>16. ASSUME NEW h \in Holders, Cancel(h) PROVE SchedInv'
  <2>1. pc'[h] = "cancelWake" /\ \A u \in Threads : u # h => pc'[u] = pc[u]
    BY <1>16 DEF Cancel, GoTo, Typed
  <2>2. TokenInv'
    BY <1>16, <2>1 DEF Cancel, SchedInv, Typed, TokenInv, FlagInv, WokenInv, Busy, Polls, EnqueuesAt
  <2>3. FlagInv'
    BY <1>16, <2>1 DEF Cancel, SchedInv, Typed, TokenInv, FlagInv, WokenInv, Busy, Polls
  <2>4. WokenInv'
    BY <1>16, <2>1
    DEF Cancel, SchedInv, Typed, TokenInv, FlagInv, WokenInv, Busy, Polls, EnqueuesAt,
        WokenIsScheduled, Enqueueing
  <2> QED
    BY <2>2, <2>3, <2>4 DEF SchedInv
<1>17. ASSUME NEW h \in Holders, CancelWake(h) PROVE SchedInv'
  <2>1. /\ pc[h] \in {"waker", "cancelWake"} /\ queued' = queued /\ finished' = finished
        /\ \A u \in Threads : u # h => pc'[u] = pc[u]
    BY <1>17 DEF CancelWake, GoTo, Typed, Wake
  <2>2. \/ /\ pc'[h] = "taskRef" /\ pc[h] = "cancelWake"
           /\ state' = state \/ (state' = state \cup {"WOKEN"} /\ "POLLING" \in state)
        \/ /\ EnqueuesAt(pc'[h])
           /\ state' = state \cup {"WOKEN"}
           /\ "POLLING" \notin state /\ "COMPLETED" \notin state /\ "WOKEN" \notin state
    BY <1>17 DEF CancelWake, Wake, GoTo, Typed, BeingPolled, EnqueuesAt
  <2> QED
    BY <2>1, <2>2, WakeStep, Zenon
<1>18. ASSUME NEW h \in Holders, Enqueue(h) PROVE SchedInv'
  <2>1. pc'[h] \in {"dropVal", "waker", "taskRef"} /\ \A u \in Threads : u # h => pc'[u] = pc[u]
    BY <1>18 DEF Enqueue, GoTo, Typed, word
  <2>2. TokenInv'
    BY <1>18, <2>1
    DEF Enqueue, SchedInv, Typed, word, TokenInv, FlagInv, WokenInv, Busy, Polls, EnqueuesAt
  <2>3. FlagInv'
    BY <1>18, <2>1 DEF Enqueue, SchedInv, Typed, word, TokenInv, FlagInv, WokenInv, Busy, Polls
  <2>4. WokenInv'
    BY <1>18, <2>1
    DEF Enqueue, SchedInv, Typed, word, TokenInv, FlagInv, WokenInv, Busy, Polls, EnqueuesAt,
        WokenIsScheduled, Enqueueing
  <2> QED
    BY <2>2, <2>3, <2>4 DEF SchedInv
<1>19. ASSUME NEW h \in Holders, DropHeld(h) PROVE SchedInv'
  <2>1. GoTo(h, "dealloc") \/ GoTo(h, "idle")
    BY <1>19 DEF DropHeld, DropRef
  <2>2. Same
    BY <1>19 DEF DropHeld, DropRef
  <2>3. ~Busy(h)
    BY <1>19 DEF DropHeld, Busy, Polls, EnqueuesAt
  <2> QED
    BY <2>1, <2>2, <2>3, SchedQuiet DEF EnqueuesAt
<1>20. CASE TryJoin
  <2>1. GoTo(Joiner, "take") \/ GoTo(Joiner, "clear") \/ GoTo(Joiner, "register") \/ GoTo(Joiner, "reregister")
    BY <1>20 DEF TryJoin
  <2>2. Same
    BY <1>20 DEF TryJoin
  <2>3. ~Busy(Joiner)
    BY <1>20 DEF TryJoin, Busy, Polls, EnqueuesAt
  <2> QED
    BY <2>1, <2>2, <2>3, SchedQuiet DEF EnqueuesAt
<1>21. CASE Register
  <2>1. GoTo(Joiner, "parked")
    BY <1>21 DEF Register
  <2>2. Same
    BY <1>21 DEF Register
  <2>3. ~Busy(Joiner)
    BY <1>21 DEF Register, Busy, Polls, EnqueuesAt
  <2> QED
    BY <2>1, <2>2, <2>3, SchedQuiet DEF EnqueuesAt
<1>22. CASE TakeOutput
  <2>1. GoTo(Joiner, "clear")
    BY <1>22 DEF TakeOutput, word
  <2>2. Same
    BY <1>22 DEF TakeOutput, word
  <2>3. ~Busy(Joiner)
    BY <1>22 DEF TakeOutput, Busy, Polls, EnqueuesAt
  <2> QED
    BY <2>1, <2>2, <2>3, SchedQuiet DEF EnqueuesAt
<1>23. CASE DropJoinHandle
  <2>1. GoTo(Joiner, "drop")
    BY <1>23 DEF DropJoinHandle
  <2>2. Same
    BY <1>23 DEF DropJoinHandle
  <2>3. ~Busy(Joiner)
    BY <1>23 DEF DropJoinHandle, Busy, Polls, EnqueuesAt
  <2> QED
    BY <2>1, <2>2, <2>3, SchedQuiet DEF EnqueuesAt
<1>24. CASE DropJoinRef
  <2>1. GoTo(Joiner, "dealloc") \/ GoTo(Joiner, "gone")
    BY <1>24 DEF DropJoinRef, DropRef
  <2>2. Same
    BY <1>24 DEF DropJoinRef, DropRef
  <2>3. ~Busy(Joiner)
    BY <1>24 DEF DropJoinRef, Busy, Polls, EnqueuesAt
  <2> QED
    BY <2>1, <2>2, <2>3, SchedQuiet DEF EnqueuesAt
<1>25. ASSUME NEW t \in Threads, Deallocate(t) PROVE SchedInv'
  <2>1. GoTo(t, "gone")
    BY <1>25 DEF Deallocate, word
  <2>2. Same
    BY <1>25 DEF Deallocate, word
  <2>3. ~Busy(t)
    BY <1>25 DEF Deallocate, Busy, Polls, EnqueuesAt
  <2> QED
    BY <2>1, <2>2, <2>3, SchedQuiet DEF EnqueuesAt
<1>26. CASE UNCHANGED vars
  BY <1>26 DEF vars, SchedInv, TokenInv, FlagInv, WokenInv, WokenIsScheduled, Enqueueing, Busy
<1> QED
  BY <1>1, <1>2, <1>3, <1>4, <1>5, <1>6, <1>7, <1>8, <1>9, <1>10, <1>11, <1>12, <1>13, <1>14,
     <1>15, <1>16, <1>17, <1>18, <1>19, <1>20, <1>21, <1>22, <1>23, <1>24, <1>25, <1>26
  DEF Next, Work, Hold, Join

-----------------------------------------------------------------------------
(* Joining. *)

(* A step that has nothing to do with the join waker. *)
LEMMA JoinQuiet ==
  ASSUME Typed, JoinInv, NEW t \in Threads, NEW l, GoTo(t, l),
         {pc[t], l} \cap {"waitJoin", "wakeJoin", "register", "reregister"} = {},
         t = Joiner => l \notin {"idle", "parked"},
         joinWaker' = joinWaker, slot' = slot, finished' = finished, freed' = freed,
         "COMPLETED" \in state' <=> "COMPLETED" \in state,
         "HAS_OUTPUT" \in state' <=> "HAS_OUTPUT" \in state
  PROVE  JoinInv'
<1> USE ThreadsAreFinite
<1>1. pc'[t] = l /\ \A u \in Threads : u # t => pc'[u] = pc[u]
  BY DEF GoTo, Typed
<1>2. \A u \in Threads :
         /\ pc'[u] \in {"waitJoin", "wakeJoin", "register", "reregister"} => pc'[u] = pc[u]
         /\ pc[u] \in {"waitJoin", "wakeJoin", "register", "reregister"} => pc'[u] = pc[u]
  BY <1>1, Zenon
<1>3. pc'[Joiner] \in {"idle", "parked"} => pc[Joiner] = pc'[Joiner]
  BY <1>1
<1>4. Registers' <=> Registers
  BY <1>2 DEF Registers
<1>5. FinishInv'
  BY <1>2 DEF JoinInv, FinishInv
<1>6. (\E u \in Threads : pc'[u] = "wakeJoin") <=> \E u \in Threads : pc[u] = "wakeJoin"
  BY <1>2
<1>7. SlotInv'
  BY <1>2, <1>6 DEF JoinInv, SlotInv
<1>8. RegisterInv'
  BY <1>2, <1>3, <1>4 DEF JoinInv, RegisterInv
<1> QED
  BY <1>5, <1>7, <1>8 DEF JoinInv

(* The step in which the task finishes, by the worker that runs it. *)
LEMMA JoinFinish ==
  ASSUME Typed, RefInv, SchedInv, JoinInv, NEW w \in Workers, HasJoinWaker(w), Busy(w),
         pc[w] \notin {"waitJoin", "wakeJoin"}, slot' = slot, freed' = freed,
         "COMPLETED" \in state' => "HAS_OUTPUT" \in state' \/ ("COMPLETED" \in state /\ state' = state)
  PROVE  JoinInv'
<1> USE ThreadsAreFinite
<1>1. ~finished /\ finished'
  BY DEF SchedInv, TokenInv, HasJoinWaker
<1>2. /\ pc'[w] = AfterReady(joinWaker) /\ \A u \in Threads : u # w => pc'[u] = pc[u]
      /\ joinWaker' = IF joinWaker = "Waiting" THEN "Empty" ELSE joinWaker
  BY DEF HasJoinWaker, GoTo, Typed
<1>3. joinWaker # "Woken" /\ \A u \in Threads : pc[u] \notin {"waitJoin", "wakeJoin"}
  BY <1>1 DEF JoinInv, FinishInv
<1>4. ~freed
  <2>1. OwnsAt(w, pc[w])
    BY DEF Busy, Polls, EnqueuesAt, OwnsAt
  <2> QED
    BY <2>1, ReferencesExist, ReferencesKeep
<1>5. pc'[Joiner] = pc[Joiner]
  BY <1>2
<1>6. FinishInv'
  BY <1>1, <1>2, <1>3 DEF FinishInv, AfterReady, Typed
<1>7. RegisterInv'
  BY <1>2, <1>5 DEF JoinInv, RegisterInv, Registers
<1>8. SlotInv'
  <2>1. CASE joinWaker = "Registering"
    BY <1>2, <1>4, <1>5, <2>1 DEF JoinInv, SlotInv
  <2>2. CASE joinWaker = "Waiting"
    <3>1. pc'[w] = "wakeJoin" /\ joinWaker' = "Empty" /\ slot
      BY <1>2, <1>4, <2>2 DEF JoinInv, SlotInv, AfterReady
    <3> QED
      BY <1>4, <1>5, <3>1, <2>2 DEF JoinInv, SlotInv, RegisterInv, Registers
  <2>3. CASE joinWaker = "Empty"
    <3>1. pc'[w] = "stop" /\ joinWaker' = "Empty" /\ ~slot
      BY <1>2, <1>3, <1>4, <2>3 DEF JoinInv, SlotInv, AfterReady
    <3>2. \A u \in Threads : pc'[u] # "wakeJoin"
      BY <1>2, <1>3, <3>1
    <3> QED
      BY <1>4, <1>5, <3>1, <3>2, <2>3 DEF JoinInv, SlotInv, RegisterInv, Registers
  <2> QED
    BY ZenonT(20), <1>3, <2>1, <2>2, <2>3 DEF Typed
<1> QED
  BY <1>6, <1>7, <1>8 DEF JoinInv

(* Every step keeps the slot of the join waker as the word describes it. *)
LEMMA JoinInvStep ==
  ASSUME Typed, Typed', RefInv, SchedInv, JoinInv, [Next]_vars
  PROVE  JoinInv'
<1> USE ThreadsAreFinite
<1> DEFINE Same == /\ joinWaker' = joinWaker /\ slot' = slot /\ finished' = finished /\ freed' = freed
                   /\ "COMPLETED" \in state' <=> "COMPLETED" \in state
                   /\ "HAS_OUTPUT" \in state' <=> "HAS_OUTPUT" \in state
<1> DEFINE Quiet(l) == l \notin {"waitJoin", "wakeJoin", "register", "reregister"}
<1>1. ASSUME NEW w \in Workers, Dequeue(w) PROVE JoinInv'
  <2>1. GoTo(w, "start")
    BY <1>1 DEF Dequeue, word
  <2>2. Same /\ Quiet(pc[w])
    BY <1>1 DEF Dequeue, word
  <2> QED
    BY <2>1, <2>2, JoinQuiet
<1>2. ASSUME NEW w \in Workers, StartPoll(w) PROVE JoinInv'
  <2>1. pc[w] = "start" /\ Busy(w) /\ slot' = slot /\ freed' = freed
    BY <1>2 DEF StartPoll, Busy
  <2>2. CASE HasJoinWaker(w) /\ state' = state
    BY <2>1, <2>2, JoinFinish DEF JoinInv
  <2>3. CASE GoTo(w, "stop") /\ UNCHANGED <<state, joinWaker, finished>>
    BY <2>1, <2>3, JoinQuiet
  <2>4. CASE GoTo(w, "poll") /\ state' = Polling(state) /\ UNCHANGED <<joinWaker, finished>>
    <3>1. Same
      BY <2>1, <2>4 DEF Polling
    <3> QED
      BY <2>1, <2>4, <3>1, JoinQuiet
  <2> QED
    BY <1>2, <2>2, <2>3, <2>4 DEF StartPoll
<1>3. ASSUME NEW w \in Workers, PollReady(w) PROVE JoinInv'
  <2>1. GoTo(w, "endReady")
    BY <1>3 DEF PollReady, word
  <2>2. Same /\ Quiet(pc[w])
    BY <1>3 DEF PollReady, word
  <2> QED
    BY <2>1, <2>2, JoinQuiet
<1>4. ASSUME NEW w \in Workers, PollPending(w) PROVE JoinInv'
  <2>1. GoTo(w, "endPending")
    BY <1>4 DEF PollPending, word
  <2>2. Same /\ Quiet(pc[w])
    BY <1>4 DEF PollPending, word
  <2> QED
    BY <2>1, <2>2, JoinQuiet
<1>5. ASSUME NEW w \in Workers, EndPoll(w) PROVE JoinInv'
  <2>1. pc[w] \in {"endReady", "endPending"} /\ Busy(w) /\ slot' = slot /\ freed' = freed
    BY <1>5 DEF EndPoll, Busy, Polls
  <2>2. CASE HasJoinWaker(w) /\ state' = Completed(state)
    <3>1. "HAS_OUTPUT" \in state'
      BY <2>2 DEF Completed
    <3> QED
      BY <2>1, <2>2, <3>1, JoinFinish
  <2>3. CASE GoTo(w, AfterPending(state)) /\ state' = state \ {"POLLING"} /\ UNCHANGED <<joinWaker, finished>>
    <3>1. Same
      BY <2>1, <2>3
    <3>2. AfterPending(state) \in {"reschedule", "stop"}
      BY DEF AfterPending
    <3> QED
      BY <2>1, <2>3, <3>1, <3>2, JoinQuiet
  <2> QED
    BY <1>5, <2>2, <2>3 DEF EndPoll
<1>6. ASSUME NEW w \in Workers, WaitForJoinWaker(w) PROVE JoinInv'
  <2>1. /\ pc[w] = "waitJoin" /\ pc'[w] = "wakeJoin" /\ \A u \in Threads : u # w => pc'[u] = pc[u]
        /\ joinWaker = "Waiting" /\ joinWaker' = "Woken"
        /\ slot' = slot /\ finished' = finished /\ freed' = freed /\ state' = state
    BY <1>6 DEF WaitForJoinWaker, GoTo, Typed
  <2>2. finished /\ \A u \in Threads : u # w => pc[u] \notin {"waitJoin", "wakeJoin"}
    BY <2>1 DEF JoinInv, FinishInv
  <2>3. pc'[Joiner] = pc[Joiner]
    BY <2>1
  <2>4. FinishInv'
    BY <2>1, <2>2 DEF FinishInv
  <2>5. RegisterInv'
    BY <2>1, <2>3 DEF JoinInv, RegisterInv, Registers
  <2>6. ~freed
    BY <2>1, ReferencesExist, ReferencesKeep DEF OwnsAt
  <2>7. SlotInv'
    BY <2>1, <2>3, <2>6, Zenon DEF JoinInv, SlotInv
  <2> QED
    BY <2>4, <2>5, <2>7 DEF JoinInv
<1>7. ASSUME NEW w \in Workers, WakeJoinWaker(w) PROVE JoinInv'
  <2>1. /\ pc[w] = "wakeJoin" /\ pc'[w] = "stop" /\ \A u \in Threads : u # w => pc'[u] = pc[u]
        /\ joinWaker' = joinWaker /\ slot' = FALSE /\ finished' = finished /\ freed' = freed /\ state' = state
    BY <1>7 DEF WakeJoinWaker, GoTo, Typed, word
  <2>2. joinWaker \in {"Empty", "Woken"} /\ \A u \in Threads : u # w => pc[u] \notin {"waitJoin", "wakeJoin"}
    BY <2>1 DEF JoinInv, FinishInv
  <2>3. pc'[Joiner] = pc[Joiner]
    BY <2>1
  <2>4. \A u \in Threads : pc'[u] \notin {"waitJoin", "wakeJoin"}
    BY <2>1, <2>2
  <2>5. FinishInv'
    BY <2>1, <2>4 DEF JoinInv, FinishInv
  <2>6. RegisterInv'
    BY <2>1, <2>3 DEF JoinInv, RegisterInv, Registers
  <2>7. SlotInv'
    BY <2>1, <2>2, <2>3, <2>4 DEF JoinInv, SlotInv, RegisterInv, Registers
  <2> QED
    BY <2>5, <2>6, <2>7 DEF JoinInv
<1>8. ASSUME NEW w \in Workers, Reschedule(w) PROVE JoinInv'
  <2>1. GoTo(w, "idle")
    BY <1>8 DEF Reschedule, word
  <2>2. Same /\ Quiet(pc[w])
    BY <1>8 DEF Reschedule, word
  <2> QED
    BY <2>1, <2>2, JoinQuiet
<1>9. ASSUME NEW w \in Workers, Stop(w) PROVE JoinInv'
  <2>1. GoTo(w, "dealloc") \/ GoTo(w, "idle")
    BY <1>9 DEF Stop, DropRef
  <2>2. Same /\ Quiet(pc[w])
    BY <1>9 DEF Stop, DropRef
  <2> QED
    BY <2>1, <2>2, JoinQuiet
<1>10. ASSUME NEW h \in Holders, CloneWaker(h) PROVE JoinInv'
  <2>1. GoTo(h, "waker")
    BY <1>10 DEF CloneWaker
  <2>2. Same /\ Quiet(pc[h])
    BY <1>10 DEF CloneWaker
  <2> QED
    BY <2>1, <2>2, JoinQuiet
<1>11. ASSUME NEW h \in Holders, CloneTaskRef(h) PROVE JoinInv'
  <2>1. GoTo(h, "taskRef")
    BY <1>11 DEF CloneTaskRef
  <2>2. Same /\ Quiet(pc[h])
    BY <1>11 DEF CloneTaskRef
  <2> QED
    BY <2>1, <2>2, JoinQuiet
<1>12. ASSUME NEW h \in Holders, LoadCurrent(h) PROVE JoinInv'
  <2>1. GoTo(h, "gotPointer")
    BY <1>12 DEF LoadCurrent, word
  <2>2. Same /\ Quiet(pc[h])
    BY <1>12 DEF LoadCurrent, word
  <2> QED
    BY <2>1, <2>2, JoinQuiet
<1>13. ASSUME NEW h \in Holders, CloneCurrent(h) PROVE JoinInv'
  <2>1. GoTo(h, "taskRef")
    BY <1>13 DEF CloneCurrent
  <2>2. Same /\ Quiet(pc[h])
    BY <1>13 DEF CloneCurrent
  <2> QED
    BY <2>1, <2>2, JoinQuiet
<1>14. ASSUME NEW h \in Holders, WakeByVal(h) PROVE JoinInv'
  <2>1. GoTo(h, "idle") \/ GoTo(h, "dropAgain") \/ GoTo(h, "enqueueVal")
    BY <1>14 DEF WakeByVal
  <2>2. Same /\ Quiet(pc[h])
    BY <1>14 DEF WakeByVal
  <2> QED
    BY <2>1, <2>2, JoinQuiet
<1>15. ASSUME NEW h \in Holders, WakeByRef(h) PROVE JoinInv'
  <2>1. GoTo(h, "enqueueRef") \/ GoTo(h, "waker")
    BY <1>15 DEF WakeByRef, Wake
  <2>2. Same /\ Quiet(pc[h])
    BY <1>15 DEF WakeByRef, Wake
  <2> QED
    BY <2>1, <2>2, JoinQuiet
<1>16. ASSUME NEW h \in Holders, Cancel(h) PROVE JoinInv'
  <2>1. GoTo(h, "cancelWake")
    BY <1>16 DEF Cancel
  <2>2. Same /\ Quiet(pc[h])
    BY <1>16 DEF Cancel
  <2> QED
    BY <2>1, <2>2, JoinQuiet
<1>17. ASSUME NEW h \in Holders, CancelWake(h) PROVE JoinInv'
  <2>1. GoTo(h, "enqueueCancel") \/ GoTo(h, "taskRef")
    BY <1>17 DEF CancelWake, Wake
  <2>2. Same /\ Quiet(pc[h])
    BY <1>17 DEF CancelWake, Wake
  <2> QED
    BY <2>1, <2>2, JoinQuiet
<1>18. ASSUME NEW h \in Holders, Enqueue(h) PROVE JoinInv'
  <2>1. GoTo(h, "dropVal") \/ GoTo(h, "waker") \/ GoTo(h, "taskRef")
    BY <1>18 DEF Enqueue, word
  <2>2. Same /\ Quiet(pc[h])
    BY <1>18 DEF Enqueue, word
  <2> QED
    BY <2>1, <2>2, JoinQuiet
<1>19. ASSUME NEW h \in Holders, DropHeld(h) PROVE JoinInv'
  <2>1. GoTo(h, "dealloc") \/ GoTo(h, "idle")
    BY <1>19 DEF DropHeld, DropRef
  <2>2. Same /\ Quiet(pc[h])
    BY <1>19 DEF DropHeld, DropRef
  <2> QED
    BY <2>1, <2>2, JoinQuiet
<1>20. CASE TryJoin
  <2>1. pc[Joiner] \in {"idle", "parked"} /\ slot' = slot /\ finished' = finished /\ freed' = freed
    BY <1>20 DEF TryJoin
  <2>2. \/ /\ state' = state \/ state' = state \ {"HAS_OUTPUT"}
           /\ joinWaker' = joinWaker /\ (GoTo(Joiner, "take") \/ GoTo(Joiner, "clear"))
        \/ /\ "CANCELED" \notin state /\ ~({"COMPLETED", "HAS_OUTPUT"} \subseteq state)
           /\ state' = state /\ joinWaker' = "Registering"
           /\ GoTo(Joiner, IF joinWaker = "Empty" THEN "register" ELSE "reregister")
    BY <1>20 DEF TryJoin
  <2>3. CASE /\ state' = state \/ state' = state \ {"HAS_OUTPUT"}
             /\ joinWaker' = joinWaker /\ (GoTo(Joiner, "take") \/ GoTo(Joiner, "clear"))
    <3>1. pc'[Joiner] \in {"take", "clear"} /\ \A u \in Threads : u # Joiner => pc'[u] = pc[u]
      BY <2>3 DEF GoTo, Typed
    <3>2. \A u \in Threads : u # Joiner \/ u \in Workers => pc'[u] = pc[u]
      BY <3>1
    <3>3. \A u \in Threads : pc'[u] \in {"waitJoin", "wakeJoin"} => pc'[u] = pc[u]
      BY <3>1
    <3>4. FinishInv'
      BY <2>1, <2>3, <3>3, Zenon DEF JoinInv, FinishInv
    <3>5. RegisterInv'
      BY <2>1, <2>3, <3>1 DEF JoinInv, RegisterInv, Registers
    <3>6. \A u \in Threads : pc'[u] = "wakeJoin" <=> pc[u] = "wakeJoin"
      BY ZenonT(20), <2>1, <3>1
    <3>7. SlotInv'
      BY <2>1, <2>3, <3>1, <3>6 DEF JoinInv, SlotInv
    <3> QED
      BY <3>4, <3>5, <3>7 DEF JoinInv
  <2>4. CASE /\ "CANCELED" \notin state /\ ~({"COMPLETED", "HAS_OUTPUT"} \subseteq state)
             /\ state' = state /\ joinWaker' = "Registering"
             /\ GoTo(Joiner, IF joinWaker = "Empty" THEN "register" ELSE "reregister")
    <3>1. "COMPLETED" \notin state
      BY <2>1, <2>4 DEF JoinInv, RegisterInv
    <3>2. ~finished
      BY <2>4, <3>1 DEF SchedInv, FlagInv
    <3>3. /\ pc'[Joiner] = (IF joinWaker = "Empty" THEN "register" ELSE "reregister")
          /\ \A u \in Threads : u # Joiner => pc'[u] = pc[u]
      BY <2>4 DEF GoTo, Typed
    <3>4. \A u \in Threads : pc[u] \notin {"waitJoin", "wakeJoin"} /\ pc'[u] \notin {"waitJoin", "wakeJoin"}
      BY <3>2, <3>3 DEF JoinInv, FinishInv
    <3>5. FinishInv'
      BY <2>4, <3>4 DEF FinishInv
    <3>6. RegisterInv'
      BY <2>4, <3>1, <3>3 DEF RegisterInv, Registers
    <3>7. ~freed
      BY <2>1, ReferencesExist, ReferencesKeep DEF OwnsAt
    <3>8. joinWaker \in {"Empty", "Waiting"}
      BY <2>1, <3>2 DEF JoinInv, RegisterInv, FinishInv, Registers, Typed
    <3>9. slot <=> joinWaker = "Waiting"
      BY <3>4, <3>7, <3>8 DEF JoinInv, SlotInv
    <3>10. SlotInv'
      BY <2>1, <2>4, <3>3, <3>7, <3>8, <3>9, Zenon DEF SlotInv
    <3> QED
      BY <3>5, <3>6, <3>10 DEF JoinInv
  <2> QED
    BY <2>2, <2>3, <2>4
<1>21. CASE Register
  <2>1. /\ pc[Joiner] \in {"register", "reregister"} /\ pc'[Joiner] = "parked"
        /\ \A u \in Threads : u # Joiner => pc'[u] = pc[u]
        /\ slot' = TRUE /\ joinWaker' = "Waiting" /\ finished' = finished /\ freed' = freed
    BY <1>21 DEF Register, GoTo, Typed
  <2>2. joinWaker = "Registering"
    BY <2>1 DEF JoinInv, RegisterInv, Registers
  <2>3. \A u \in Threads : pc[u] # "wakeJoin" /\ pc'[u] # "wakeJoin" /\ (pc'[u] = "waitJoin" <=> pc[u] = "waitJoin")
    BY <2>1, <2>2 DEF JoinInv, FinishInv
  <2>4. FinishInv'
    BY <2>1, <2>3 DEF JoinInv, FinishInv
  <2>5. ~freed
    BY <2>1, ReferencesExist, ReferencesKeep DEF OwnsAt
  <2>6. SlotInv'
    BY <2>1, <2>5 DEF SlotInv
  <2>7. \A f \in {"COMPLETED", "HAS_OUTPUT"} : f \in state' <=> f \in state
    BY <1>21 DEF Register
  <2>8. "COMPLETED" \in state => "HAS_OUTPUT" \in state
    BY <2>1 DEF JoinInv, RegisterInv
  <2>9. RegisterInv'
    BY <2>1, <2>7, <2>8 DEF RegisterInv, Registers
  <2> QED
    BY ZenonT(20), <2>4, <2>6, <2>9 DEF JoinInv
<1>22. CASE TakeOutput
  <2>1. GoTo(Joiner, "clear")
    BY <1>22 DEF TakeOutput, word
  <2>2. Same /\ Quiet(pc[Joiner])
    BY <1>22 DEF TakeOutput, word
  <2> QED
    BY <2>1, <2>2, JoinQuiet
<1>23. CASE DropJoinHandle
  <2>1. GoTo(Joiner, "drop")
    BY <1>23 DEF DropJoinHandle
  <2>2. Same /\ Quiet(pc[Joiner])
    BY <1>23 DEF DropJoinHandle
  <2> QED
    BY <2>1, <2>2, JoinQuiet
<1>24. CASE DropJoinRef
  <2>1. GoTo(Joiner, "dealloc") \/ GoTo(Joiner, "gone")
    BY <1>24 DEF DropJoinRef, DropRef
  <2>2. Same /\ Quiet(pc[Joiner])
    BY <1>24 DEF DropJoinRef, DropRef
  <2> QED
    BY <2>1, <2>2, JoinQuiet
<1>25. ASSUME NEW t \in Threads, Deallocate(t) PROVE JoinInv'
  <2>1. /\ pc[t] = "dealloc" /\ pc'[t] = "gone" /\ \A u \in Threads : u # t => pc'[u] = pc[u]
        /\ joinWaker' = joinWaker /\ finished' = finished /\ freed' = TRUE /\ state' = state
        /\ slot' = (slot /\ joinWaker \in {"Empty", "Woken"})
    BY <1>25 DEF Deallocate, GoTo, Typed, word
  <2>2. ~freed /\ References = 0
    BY <2>1 DEF RefInv, RefsAreCounted, Ends
  <2>3. \A u \in Threads : pc[u] \notin {"waitJoin", "wakeJoin", "register", "reregister"}
    BY SMTT(30), <2>2, ReferencesExist DEF OwnsAt
  <2>4. \A u \in Threads : pc'[u] \notin {"waitJoin", "wakeJoin", "register", "reregister"}
    BY <2>1, <2>3
  <2>5. FinishInv'
    BY <2>1, <2>4 DEF JoinInv, FinishInv
  <2>6. pc'[Joiner] \in {"idle", "parked", "register", "reregister"} => pc[Joiner] = pc'[Joiner]
    BY <2>1
  <2>7. RegisterInv'
    BY <2>1, <2>3, <2>4, <2>6 DEF JoinInv, RegisterInv, Registers
  <2>8. ~slot'
    BY <2>1, <2>2, <2>3, Zenon DEF JoinInv, SlotInv
  <2>9. SlotInv'
    BY ZenonT(20), <2>1, <2>4, <2>8 DEF SlotInv
  <2> QED
    BY <2>5, <2>7, <2>9 DEF JoinInv
<1>26. CASE UNCHANGED vars
  BY <1>26 DEF vars, JoinInv, FinishInv, RegisterInv, SlotInv, Registers
<1> QED
  BY <1>1, <1>2, <1>3, <1>4, <1>5, <1>6, <1>7, <1>8, <1>9, <1>10, <1>11, <1>12, <1>13, <1>14,
     <1>15, <1>16, <1>17, <1>18, <1>19, <1>20, <1>21, <1>22, <1>23, <1>24, <1>25, <1>26
  DEF Next, Work, Hold, Join

-----------------------------------------------------------------------------
(* The theorems. *)

(* A spawned task satisfies the invariant, ... *)
LEMMA InvInit == Init => IInv
<1> SUFFICES ASSUME Init PROVE IInv
  OBVIOUS
<1> USE ThreadsAreFinite
<1>1. Typed
  BY Zenon DEF Init, Typed, Flags, Pcs, WorkerPcs, HolderPcs, JoinerPcs
<1>2. RefInv
  <2>1. Owners = {Joiner} /\ Enqueueing = {}
    BY DEF Init, Owners, Enqueueing
  <2>2. Cardinality(Owners) = 1 /\ Cardinality(Enqueueing) = 0 /\ queued = 1
    BY <2>1, FS_Singleton, FS_EmptySet, Zenon DEF Init
  <2>3. References = 2
    BY <2>2 DEF References
  <2> QED
    BY <2>3 DEF Init, RefInv, RefsAreCounted, Ends
<1>3. SchedInv
  BY DEF Init, SchedInv, TokenInv, FlagInv, WokenInv, WokenIsScheduled, Busy, Polls, EnqueuesAt
<1>4. JoinInv
  BY DEF Init, JoinInv, FinishInv, RegisterInv, SlotInv, Registers
<1> QED
  BY <1>1, <1>2, <1>3, <1>4 DEF IInv

(* ... which every step keeps, ... *)
LEMMA InvStep == ~CrossThread /\ IInv /\ [Next]_vars => IInv'
<1> SUFFICES ASSUME ~CrossThread, IInv, [Next]_vars PROVE IInv'
  OBVIOUS
<1>1. Typed'
  BY TypedStep DEF IInv
<1> QED
  BY <1>1, RefInvStep, SchedInvStep, JoinInvStep DEF IInv

(* ... so that it always holds. *)
LEMMA InvHolds ==
  ASSUME ~CrossThread
  PROVE  Spec => []IInv
<1>1. IInv /\ [Next]_vars => IInv'
  BY InvStep
<1> QED
  BY <1>1, InvInit, PTL DEF Spec

(* The set of threads at some places has one member at most. *)
LEMMA OneAtMost ==
  ASSUME NEW S, \A t, u \in S : t = u
  PROVE  IsFiniteSet(S) /\ Cardinality(S) \in {0, 1} /\ (S # {} => Cardinality(S) = 1)
<1>1. CASE S = {}
  BY <1>1, FS_EmptySet
<1>2. CASE S # {}
  <2>1. PICK t : S = {t}
    BY <1>2
  <2> QED
    BY <2>1, FS_Singleton, Zenon
<1> QED
  BY <1>1, <1>2

(* task.rs:1343: for any number of workers and wakers, the count of the state *)
(* word is the number of references until the last one goes; then, and only   *)
(* then, the task is freed, once, and nobody can reach it any more.  It takes *)
(* that current_task is called inside a poll, as its documentation says.      *)
THEOREM TaskIsFreedOnce ==
  ASSUME ~CrossThread
  PROVE  Spec => []FreedOnce
<1>1. IInv => FreedOnce
  <2> SUFFICES ASSUME IInv, freed \/ (\E t \in Threads : pc[t] = "dealloc")
               PROVE  /\ References = 0
                      /\ \A h \in Holders : pc[h] # "gotPointer"
                      /\ Cardinality({t \in Threads : pc[t] = "dealloc"}) = (IF freed THEN 0 ELSE 1)
    BY DEF IInv, RefInv, FreedOnce, FreedLast
  <2> USE ThreadsAreFinite
  <2>1. References = 0
    BY DEF IInv, RefInv, RefsAreCounted
  <2>2. \A w \in Workers : pc[w] # "poll"
    BY <2>1, ReferencesExist DEF IInv, OwnsAt
  <2>3. \A h \in Holders : pc[h] # "gotPointer"
    BY <2>2 DEF IInv, RefInv
  <2> DEFINE D == {t \in Threads : pc[t] = "dealloc"}
  <2>4. CASE freed
    <3>1. D = {}
      BY <2>4 DEF IInv, RefInv, Ends
    <3> QED
      BY <2>1, <2>3, <2>4, <3>1, FS_EmptySet
  <2>5. CASE ~freed
    <3>1. D # {} /\ \A t, u \in D : t = u
      BY <2>5 DEF IInv, RefInv, Ends
    <3>2. Cardinality(D) = 1
      BY <3>1, OneAtMost
    <3> QED
      BY <2>1, <2>3, <2>5, <3>2
  <2> QED
    BY <2>4, <2>5
<1> QED
  BY <1>1, InvHolds, PTL

(* A wake, from any number of threads and at any moment of a poll, puts the   *)
(* task on a run queue exactly once: it is never queued twice or run by two   *)
(* workers, the scheduler never meets a task that it cannot poll, and no      *)
(* wakeup is lost unless the task was canceled.                               *)
THEOREM TaskIsScheduledOnce ==
  ASSUME ~CrossThread
  PROVE  Spec => []ScheduledOnce
<1>1. IInv => ScheduledOnce
  <2> SUFFICES ASSUME IInv PROVE ScheduledOnce
    OBVIOUS
  <2> USE ThreadsAreFinite DEF IInv, SchedInv
  <2> DEFINE A == {w \in Workers : pc[w] \in {"start", "poll", "endReady", "endPending", "reschedule"}}
  <2>1. \A w \in A : w \in Threads /\ Busy(w)
    BY DEF Busy, Polls
  <2>2. \A t, u \in A : t = u
    BY <2>1 DEF TokenInv
  <2>3. Cardinality(A) \in {0, 1} /\ (queued = 1 => Cardinality(A) = 0)
    <3>1. queued = 1 => A = {}
      BY <2>1 DEF TokenInv
    <3> HIDE DEF A
    <3> QED
      BY <2>2, <3>1, OneAtMost, FS_EmptySet
  <2>4. queued + Cardinality(A) <= 1
    <3>1. queued \in {0, 1}
      BY DEF TokenInv
    <3> HIDE DEF A
    <3> QED
      BY <2>3, <3>1
  <2>5. ASSUME NEW w \in Workers, pc[w] = "start" PROVE "POLLING" \notin state /\ "COMPLETED" \notin state
    <3>1. Busy(w)
      BY <2>5 DEF Busy
    <3>2. ~finished
      BY <3>1 DEF TokenInv
    <3>3. \A u \in Workers : ~Polls(pc[u])
      BY <2>5, <3>1 DEF TokenInv, Busy, Polls
    <3> QED
      BY <3>2, <3>3 DEF FlagInv
  <2>6. QueuedOnce
    BY <2>4, <2>5 DEF QueuedOnce
  <2> QED
    BY <2>6 DEF ScheduledOnce, WokenInv
<1> QED
  BY <1>1, InvHolds, PTL

(* The slot of the join waker, an UnsafeCell, is used by one thread at a      *)
(* time, is full when its user reads it, and is empty in the end.             *)
THEOREM JoinWakerSlotIsExclusive ==
  ASSUME ~CrossThread
  PROVE  Spec => []SlotIsExclusive
<1>1. IInv => SlotIsExclusive
  <2> SUFFICES ASSUME IInv PROVE SlotIsExclusive
    OBVIOUS
  <2> USE ThreadsAreFinite DEF IInv
  <2> DEFINE U == {t \in Threads : pc[t] \in {"register", "reregister", "wakeJoin", "dealloc"}}
  <2>1. ASSUME NEW t \in Threads, pc[t] = "dealloc"
        PROVE  /\ ~freed /\ \A u \in Threads : pc[u] \notin {"register", "reregister", "wakeJoin"}
               /\ \A u \in Threads : pc[u] = "dealloc" => u = t
    <3>1. References = 0 /\ ~freed
      BY <2>1 DEF RefInv, RefsAreCounted, Ends
    <3>2. \A u \in Threads : pc[u] \notin {"register", "reregister", "wakeJoin"}
      BY <3>1, ReferencesExist DEF OwnsAt
    <3> QED
      BY <2>1, <3>1, <3>2 DEF RefInv, Ends
  <2>2. \A t \in Threads : pc[t] \in {"register", "reregister"} => t = Joiner
    BY DEF Typed, Threads, WorkerPcs, HolderPcs
  <2>3. Registers => \A t \in Threads : pc[t] # "wakeJoin"
    BY DEF JoinInv, RegisterInv, FinishInv
  <2>4. \A t, u \in Threads : pc[t] = "wakeJoin" /\ pc[u] = "wakeJoin" => t = u
    BY DEF JoinInv, FinishInv
  <2>5. \A t, u \in U : t = u
    BY <2>1, <2>2, <2>3, <2>4 DEF Registers
  <2>6. Cardinality(U) <= 1
    <3> HIDE DEF U
    <3> QED
      BY <2>5, OneAtMost
  <2>7. \A t \in U : pc[t] \in {"reregister", "wakeJoin"} => slot
    <3>1. \A t \in U : pc[t] = "wakeJoin" => ~freed
      BY ReferencesExist, ReferencesKeep DEF OwnsAt
    <3> QED
      BY <2>2, <3>1 DEF JoinInv, SlotInv, FinishInv
  <2>8. \A t \in U : pc[t] = "register" => ~slot
    BY <2>2 DEF JoinInv, SlotInv
  <2>9. ASSUME NEW t \in U, pc[t] = "dealloc" PROVE slot <=> joinWaker = "Waiting"
    <3>1. ~freed /\ ~Registers /\ \A u \in Threads : pc[u] # "wakeJoin"
      BY <2>1, <2>9 DEF Registers
    <3> QED
      BY <3>1 DEF JoinInv, SlotInv, RegisterInv, Typed
  <2>10. freed => ~slot
    BY DEF JoinInv, SlotInv
  <2> QED
    BY <2>6, <2>7, <2>8, <2>9, <2>10 DEF SlotIsExclusive
<1> QED
  BY <1>1, InvHolds, PTL
=============================================================================

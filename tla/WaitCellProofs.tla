---------------------------- MODULE WaitCellProofs ----------------------------
(***************************************************************************)
(* Proofs about WaitCell, for any sets of tasks and notifying threads.     *)
(***************************************************************************)
EXTENDS WaitCell, TLAPS

(* What the bits say of the threads: whoever owns the waker is alone and    *)
(* has its bit set, and a REGISTERING bit always belongs to a poll.         *)
OwnerInv ==
  /\ \A t, u \in Owners : t = u
  /\ \A w \in Waiters : w \in Owners => "REGISTERING" \in state
  /\ \A n \in Notifiers : n \in Owners => "WAKING" \in state
  /\ "REGISTERING" \in state => \E w \in Waiters : w \in Owners

(* What the slot holds at each point of an operation that owns it, and that *)
(* a waker left in the cell of a woken or closed cell still has an owner.   *)
SlotInv ==
  /\ \A t \in Threads : pc[t] \in {"wakePrev", "park", "takeBack"} => waker = t
  /\ \A t \in Threads : pc[t] \in {"reset", "release"} => waker = NoWaker
  /\ \A t \in Threads : hand[t] # NoWaker
        => pc[t] \in {"wakePrev", "reset", "wakeSelf", "release", "wakeTask"}
  /\ state # {} /\ waker # NoWaker => Owners # {}

IInv == TypeOK /\ OwnerInv /\ SlotInv /\ ParkedIsReachable

USE DEF Threads, Bits, WAITING, WakeBits, KeptBits, WaiterPcs, NotifierPcs

(* The initial state satisfies the inductive invariant: an empty cell.      *)
LEMMA InitIInv == Init => IInv
<1> SUFFICES ASSUME Init PROVE IInv
  OBVIOUS
<1> USE WaitCellAssumption DEF Init
<1>1. TypeOK
  BY DEF TypeOK
<1>2. Owners = {}
  BY DEF Owners
<1>3. OwnerInv
  BY <1>2 DEF OwnerInv
<1>4. SlotInv
  BY DEF SlotInv
<1>5. ParkedIsReachable
  BY DEF ParkedIsReachable
<1> QED BY <1>1, <1>3, <1>4, <1>5 DEF IInv

(* Every step of wait_cell.rs keeps the types of the state.                 *)
LEMMA TypeStep == TypeOK /\ [Next]_vars => TypeOK'
<1> SUFFICES ASSUME TypeOK, [Next]_vars PROVE TypeOK'
  OBVIOUS
<1> USE WaitCellAssumption
<1>1. ASSUME NEW w \in Waiters, Waiter(w) PROVE TypeOK'
  <2> USE <1>1 DEF TypeOK, GoTo, Parked, Resolved, WakeTask
  <2>1. CASE StartWait(w)
    <3>1. PICK stale \in {FALSE, notified[w]} : notified' = [notified EXCEPT ![w] = stale]
      BY <2>1 DEF StartWait
    <3>2. notified' \in [Waiters -> BOOLEAN]
      BY <3>1
    <3>3. PICK c \in Calls :
            /\ call' = [call EXCEPT ![w] = c]
            /\ fut' = [fut EXCEPT ![w] = IF c = "wait" THEN "Wait" ELSE "Subscribe"]
      BY <2>1 DEF StartWait
    <3>4. /\ call' \in [Waiters -> {"none", "wait", "wait_for"}]
          /\ fut' \in [Waiters -> {"none", "Wait", "Subscribe"}]
      BY <3>3
    <3> QED BY <2>1, <3>2, <3>4 DEF StartWait
  <2>2. CASE Repoll(w) BY <2>2 DEF Repoll
  <2>3. CASE PollPresubscribed(w) BY <2>3 DEF PollPresubscribed
  <2>4. CASE PollWait(w)
    <3>1. /\ pc[w] = "poll"
          /\ UNCHANGED <<waker, hand, actual, cond, broken>>
      BY <2>4 DEF PollWait
    <3>2. CASE state = WAITING /\ state' = {"REGISTERING"} /\ GoTo(w, "register")
               /\ UNCHANGED <<fut, presub, call, notified>>
      BY <3>1, <3>2
    <3>3. ASSUME NEW r \in {"Ok", "Closed"}, Resolved(w, r), UNCHANGED <<state, notified>>
          PROVE TypeOK'
      BY <3>1, <3>3
    <3>4. CASE GoTo(w, "takeWakeup") /\ UNCHANGED <<state, fut, presub, call, notified>>
      BY <3>1, <3>4
    <3>5. CASE notified' = [notified EXCEPT ![w] = TRUE] /\ Parked(w) /\ UNCHANGED state
      BY <3>1, <3>5
    <3> QED BY <2>4, <3>2, <3>3, <3>4, <3>5 DEF PollWait
  <2>5. CASE PollTakeWakeup(w) BY <2>5 DEF PollTakeWakeup
  <2>6. CASE PollRegister(w) BY <2>6 DEF PollRegister, Displaced
  <2>7. CASE PollWakePrev(w) BY <2>7 DEF PollWakePrev
  <2>8. CASE PollPark(w)
    <3>1. CASE NobodyNotified BY <2>8, <3>1 DEF PollPark, NobodyNotified
    <3>2. CASE ~NobodyNotified
      <4>1. /\ actual' = [actual EXCEPT ![w] = state]
            /\ GoTo(w, "takeBack")
            /\ UNCHANGED <<state, fut, presub, call, waker, hand, notified, cond, broken>>
        BY <2>8, <3>2 DEF PollPark
      <4> QED BY <4>1
    <3> QED BY <3>1, <3>2
  <2>9. CASE PollTakeBack(w) BY <2>9 DEF PollTakeBack
  <2>10. CASE PollReset(w) BY <2>10 DEF PollReset
  <2>11. CASE PollWakeSelf(w) BY <2>11 DEF PollWakeSelf
  <2>12. CASE Check(w)
    <3>1. CASE cond
      <4>1. cond' \in BOOLEAN BY <2>12, <3>1, Zenon DEF Check
      <4> QED BY <2>12, <3>1, <4>1 DEF Check
    <3>2. CASE ~cond BY <2>12, <3>2 DEF Check
    <3> QED BY <3>1, <3>2
  <2> QED
    BY <2>1, <2>2, <2>3, <2>4, <2>5, <2>6, <2>7, <2>8, <2>9, <2>10, <2>11, <2>12 DEF Waiter
<1>2. ASSUME NEW n \in Notifiers, Notifier(n) PROVE TypeOK'
  <2> USE <1>2 DEF TypeOK, GoTo, FetchOr, WakeTask
  <2>1. CASE SetCondition(n) BY <2>1 DEF SetCondition
  <2>2. CASE Wake(n) BY <2>2 DEF Wake
  <2>3. CASE Close(n) BY <2>3 DEF Close
  <2>4. CASE TakeWaker(n) BY <2>4 DEF TakeWaker
  <2>5. CASE ReleaseWaker(n) BY <2>5 DEF ReleaseWaker
  <2>6. CASE WakeTaken(n) BY <2>6 DEF WakeTaken
  <2> QED BY <2>1, <2>2, <2>3, <2>4, <2>5, <2>6 DEF Notifier
<1>3. CASE UNCHANGED vars BY <1>3 DEF vars, TypeOK
<1> QED BY <1>1, <1>2, <1>3 DEF Next

(* The bits keep telling who owns the waker, in every step of the protocol. *)
LEMMA OwnerStep == IInv /\ [Next]_vars => OwnerInv'
<1> SUFFICES ASSUME IInv, [Next]_vars PROVE OwnerInv'
  OBVIOUS
<1> USE WaitCellAssumption DEF IInv
<1>0. TypeOK'
  BY TypeStep
<1>1. ASSUME NEW w \in Waiters, Waiter(w) PROVE OwnerInv'
  <2> USE <1>0, <1>1 DEF TypeOK, GoTo, Parked, Resolved, WakeTask, OwnerInv, Owners
  <2>1. CASE StartWait(w) BY <2>1 DEF StartWait
  <2>2. CASE Repoll(w) BY <2>2 DEF Repoll
  <2>3. CASE PollPresubscribed(w) BY <2>3 DEF PollPresubscribed
  <2>4. CASE PollWait(w) BY <2>4 DEF PollWait
  <2>5. CASE PollTakeWakeup(w) BY <2>5 DEF PollTakeWakeup
  <2>6. CASE PollRegister(w) BY <2>6 DEF PollRegister, Displaced
  <2>7. CASE PollWakePrev(w) BY <2>7 DEF PollWakePrev
  <2>8. CASE PollPark(w) BY <2>8 DEF PollPark, NobodyNotified
  <2>9. CASE PollTakeBack(w) BY <2>9 DEF PollTakeBack
  <2>10. CASE PollReset(w) BY <2>10 DEF PollReset
  <2>11. CASE PollWakeSelf(w) BY <2>11 DEF PollWakeSelf
  <2>12. CASE Check(w) BY <2>12 DEF Check
  <2> QED
    BY <2>1, <2>2, <2>3, <2>4, <2>5, <2>6, <2>7, <2>8, <2>9, <2>10, <2>11, <2>12 DEF Waiter
<1>2. ASSUME NEW n \in Notifiers, Notifier(n) PROVE OwnerInv'
  <2> USE <1>0, <1>2 DEF TypeOK, GoTo, FetchOr, WakeTask, OwnerInv, Owners
  <2>1. CASE SetCondition(n) BY <2>1 DEF SetCondition
  <2>2. CASE Wake(n) BY <2>2 DEF Wake, WakerBusy
  <2>3. CASE Close(n) BY <2>3 DEF Close, WakerBusy
  <2>4. CASE TakeWaker(n) BY <2>4 DEF TakeWaker
  <2>5. CASE ReleaseWaker(n) BY <2>5 DEF ReleaseWaker
  <2>6. CASE WakeTaken(n) BY <2>6 DEF WakeTaken
  <2> QED BY <2>1, <2>2, <2>3, <2>4, <2>5, <2>6 DEF Notifier
<1>3. CASE UNCHANGED vars BY <1>3 DEF vars, OwnerInv, Owners
<1> QED BY <1>1, <1>2, <1>3 DEF Next

(* The slot keeps holding what the program points of its owner say. *)
LEMMA SlotStep == IInv /\ [Next]_vars => SlotInv'
<1> SUFFICES ASSUME IInv, [Next]_vars PROVE SlotInv'
  OBVIOUS
<1> USE WaitCellAssumption DEF IInv
<1>0. TypeOK'
  BY TypeStep
<1>1. ASSUME NEW w \in Waiters, Waiter(w) PROVE SlotInv'
  <2> USE <1>0, <1>1 DEF TypeOK, GoTo, Parked, Resolved, WakeTask, OwnerInv, SlotInv, Owners
  <2>1. CASE StartWait(w) BY <2>1 DEF StartWait
  <2>2. CASE Repoll(w) BY <2>2 DEF Repoll
  <2>3. CASE PollPresubscribed(w) BY <2>3 DEF PollPresubscribed
  <2>4. CASE PollWait(w) BY <2>4 DEF PollWait
  <2>5. CASE PollTakeWakeup(w) BY <2>5 DEF PollTakeWakeup
  <2>6. CASE PollRegister(w) BY <2>6 DEF PollRegister, Displaced
  <2>7. CASE PollWakePrev(w) BY <2>7 DEF PollWakePrev
  <2>8. CASE PollPark(w)
    <3>1. pc[w] = "park" /\ UNCHANGED <<waker, hand>>
      BY <2>8 DEF PollPark
    <3>2. ASSUME state' = {}, NEW l \in {"check", "parked"}, GoTo(w, l)
          PROVE SlotInv'
      BY <3>1, <3>2
    <3>3. CASE UNCHANGED state /\ GoTo(w, "takeBack")
      BY <3>1, <3>3
    <3> QED BY <2>8, <3>2, <3>3 DEF PollPark
  <2>9. CASE PollTakeBack(w) BY <2>9 DEF PollTakeBack
  <2>10. CASE PollReset(w) BY <2>10 DEF PollReset
  <2>11. CASE PollWakeSelf(w) BY <2>11 DEF PollWakeSelf
  <2>12. CASE Check(w) BY <2>12 DEF Check
  <2> QED
    BY <2>1, <2>2, <2>3, <2>4, <2>5, <2>6, <2>7, <2>8, <2>9, <2>10, <2>11, <2>12 DEF Waiter
<1>2. ASSUME NEW n \in Notifiers, Notifier(n) PROVE SlotInv'
  <2> USE <1>0, <1>2 DEF TypeOK, GoTo, FetchOr, WakeTask, OwnerInv, SlotInv, Owners
  <2>1. CASE SetCondition(n) BY <2>1 DEF SetCondition
  <2>2. CASE Wake(n) BY <2>2 DEF Wake, WakerBusy
  <2>3. CASE Close(n) BY <2>3 DEF Close, WakerBusy
  <2>4. CASE TakeWaker(n) BY <2>4 DEF TakeWaker
  <2>5. CASE ReleaseWaker(n) BY <2>5 DEF ReleaseWaker
  <2>6. CASE WakeTaken(n) BY <2>6 DEF WakeTaken
  <2> QED BY <2>1, <2>2, <2>3, <2>4, <2>5, <2>6 DEF Notifier
<1>3. CASE UNCHANGED vars BY <1>3 DEF vars, OwnerInv, SlotInv, Owners
<1> QED BY <1>1, <1>2, <1>3 DEF Next

(* A parked task stays reachable through the cell or through a thread. *)
LEMMA ReachableStep == IInv /\ [Next]_vars => ParkedIsReachable'
<1> SUFFICES ASSUME IInv, [Next]_vars PROVE ParkedIsReachable'
  OBVIOUS
<1> USE WaitCellAssumption DEF IInv
<1>0. TypeOK'
  BY TypeStep
<1>1. ASSUME NEW w \in Waiters, Waiter(w) PROVE ParkedIsReachable'
  <2> USE <1>0, <1>1 DEF TypeOK, GoTo, Parked, Resolved, WakeTask, SlotInv, ParkedIsReachable
  <2>1. CASE StartWait(w) BY <2>1 DEF StartWait
  <2>2. CASE Repoll(w) BY <2>2 DEF Repoll
  <2>3. CASE PollPresubscribed(w) BY <2>3 DEF PollPresubscribed
  <2>4. CASE PollWait(w) BY <2>4 DEF PollWait
  <2>5. CASE PollTakeWakeup(w) BY <2>5 DEF PollTakeWakeup
  <2>6. CASE PollRegister(w) BY <2>6 DEF PollRegister, Displaced
  <2>7. CASE PollWakePrev(w) BY <2>7 DEF PollWakePrev
  <2>8. CASE PollPark(w) BY <2>8 DEF PollPark, NobodyNotified
  <2>9. CASE PollTakeBack(w) BY <2>9 DEF PollTakeBack
  <2>10. CASE PollReset(w) BY <2>10 DEF PollReset
  <2>11. CASE PollWakeSelf(w) BY <2>11 DEF PollWakeSelf
  <2>12. CASE Check(w) BY <2>12 DEF Check
  <2> QED
    BY <2>1, <2>2, <2>3, <2>4, <2>5, <2>6, <2>7, <2>8, <2>9, <2>10, <2>11, <2>12 DEF Waiter
<1>2. ASSUME NEW n \in Notifiers, Notifier(n) PROVE ParkedIsReachable'
  <2> USE <1>0, <1>2 DEF TypeOK, GoTo, FetchOr, WakeTask, SlotInv, ParkedIsReachable
  <2>1. CASE SetCondition(n) BY <2>1 DEF SetCondition
  <2>2. CASE Wake(n) BY <2>2 DEF Wake, WakerBusy
  <2>3. CASE Close(n) BY <2>3 DEF Close, WakerBusy
  <2>4. CASE TakeWaker(n) BY <2>4 DEF TakeWaker
  <2>5. CASE ReleaseWaker(n) BY <2>5 DEF ReleaseWaker
  <2>6. CASE WakeTaken(n) BY <2>6 DEF WakeTaken
  <2> QED BY <2>1, <2>2, <2>3, <2>4, <2>5, <2>6 DEF Notifier
<1>3. CASE UNCHANGED vars BY <1>3 DEF vars, SlotInv, ParkedIsReachable
<1> QED BY <1>1, <1>2, <1>3 DEF Next

(* The invariant the two safety theorems rest on.                           *)
LEMMA IInvHolds == Spec => []IInv
<1>1. IInv /\ [Next]_vars => IInv'
  BY TypeStep, OwnerStep, SlotStep, ReachableStep DEF IInv
<1> QED BY InitIInv, <1>1, PTL DEF Spec

(* The state has its type in every reachable state of the cell.             *)
THEOREM TypeCorrect == Spec => []TypeOK
<1>1. IInv => TypeOK BY DEF IInv
<1> QED BY IInvHolds, <1>1, PTL

(* poll_wait and take_waker never touch the UnsafeCell at the same time,    *)
(* for any number of polling tasks and of waking and closing threads.       *)
THEOREM WakerIsExclusive == Spec => []ExclusiveWaker
<1>1. IInv => ExclusiveWaker
  BY DEF IInv, OwnerInv, Owners, Touching, ExclusiveWaker
<1> QED BY IInvHolds, <1>1, PTL

(* No wake() or close() is lost: a parked task that nobody has notified     *)
(* although the cell is woken or closed is still in some thread's hands.    *)
THEOREM WakeupsAreNotLost == Spec => []NoLostWakeup
<1>1. IInv => NoLostWakeup
  <2> SUFFICES ASSUME IInv, NEW w \in Waiters, pc[w] = "parked", ~notified[w],
                      state \cap {"WOKEN", "CLOSED"} # {}
               PROVE Owners # {} \/ \E t \in Threads : hand[t] = w
    BY DEF NoLostWakeup
  <2>1. waker = w \/ \E t \in Threads : hand[t] = w
    BY DEF IInv, ParkedIsReachable
  <2>2. state # {} /\ w # NoWaker
    BY WaitCellAssumption
  <2> QED BY <2>1, <2>2 DEF IInv, SlotInv
<1> QED BY IInvHolds, <1>1, PTL

(* A parked task can always be reached, so displacing its waker never       *)
(* strands it.                                                              *)
THEOREM ParkedTasksAreReachable == Spec => []ParkedIsReachable
<1>1. IInv => ParkedIsReachable BY DEF IInv
<1> QED BY IInvHolds, <1>1, PTL

(* No step clears the CLOSED bit.                                           *)
THEOREM CloseIsFinal == Spec => ClosedIsPermanent
<1>1. [Next]_vars => [ "CLOSED" \in state => "CLOSED" \in state' ]_vars
  <2> SUFFICES ASSUME Next, "CLOSED" \in state PROVE "CLOSED" \in state'
    OBVIOUS
  <2>1. ASSUME NEW w \in Waiters, Waiter(w) PROVE "CLOSED" \in state'
    <3>1. CASE PollWait(w) BY <3>1 DEF PollWait
    <3>2. CASE PollTakeWakeup(w) BY <3>2 DEF PollTakeWakeup
    <3>3. CASE PollPark(w) BY <3>3 DEF PollPark, NobodyNotified
    <3>4. CASE PollReset(w) BY <3>4 DEF PollReset
    <3> QED
      BY <2>1, <3>1, <3>2, <3>3, <3>4 DEF Waiter, StartWait, Repoll, PollPresubscribed,
         PollRegister, PollWakePrev, PollTakeBack, PollWakeSelf, Check
  <2>2. ASSUME NEW n \in Notifiers, Notifier(n) PROVE "CLOSED" \in state'
    BY <2>2 DEF Notifier, SetCondition, Wake, Close, FetchOr, TakeWaker, ReleaseWaker, WakeTaken
  <2> QED BY <2>1, <2>2 DEF Next
<1> QED BY <1>1, PTL DEF Spec, ClosedIsPermanent
-----------------------------------------------------------------------------
(* With one task.  Two tasks can break the assertion: one takes the wakeup   *)
(* that the other is about to find.                                          *)
OneTask == \A u, v \in Waiters : u = v

(* From its first compare_exchange to its fetch_and nobody but the task      *)
(* clears a bit, and whoever comes sets WAKING and WOKEN, so that the word   *)
(* the second compare_exchange failed on can only gain CLOSED.               *)
ParkInv ==
  /\ ~broken
  /\ \A w \in Waiters :
       pc[w] \in {"register", "wakePrev", "park", "takeBack", "reset"}
         => state = {"REGISTERING"} \/ {"REGISTERING", "WAKING", "WOKEN"} \subseteq state
  /\ \A w \in Waiters :
       pc[w] \in {"takeBack", "reset"}
         => {"REGISTERING", "WAKING", "WOKEN"} \subseteq actual[w] /\ actual[w] \subseteq state

(* A set that lost nothing and gained at most one element. *)
LEMMA GainsAtMost ==
  ASSUME NEW S, NEW T, NEW x, T \subseteq S, \A b \in S : b = x \/ b \in T
  PROVE  S \in {T, T \cup {x}}
<1>1. CASE x \in S
  <2>1. S = T \cup {x}
    BY <1>1
  <2> QED BY <2>1
<1>2. CASE x \notin S
  <2>1. S = T
    BY <1>2
  <2> QED BY <2>1
<1> QED BY <1>1, <1>2

(* Every step keeps it. *)
LEMMA ParkStep == ASSUME OneTask PROVE IInv /\ ParkInv /\ [Next]_vars => ParkInv'
<1> SUFFICES ASSUME IInv, ParkInv, [Next]_vars PROVE ParkInv'
  OBVIOUS
<1> USE WaitCellAssumption DEF IInv
<1>1. ASSUME NEW w \in Waiters, Waiter(w) PROVE ParkInv'
  <2>1. \A u \in Waiters : u = w
    BY DEF OneTask
  <2> USE <1>1, <2>1 DEF TypeOK, GoTo, ParkInv
  <2>2. CASE PollWait(w) BY <2>2 DEF PollWait, Parked, Resolved
  <2>3. CASE PollTakeWakeup(w) BY <2>3 DEF PollTakeWakeup, Resolved
  <2>4. CASE PollPark(w) BY <2>4 DEF PollPark, Parked, Resolved, NobodyNotified
  <2>5. CASE PollReset(w)
    <3>1. state \in {actual[w], actual[w] \cup {"CLOSED"}}
      <4>1. {"REGISTERING", "WAKING", "WOKEN"} \subseteq actual[w] /\ actual[w] \subseteq state
        BY <2>5 DEF PollReset
      <4>2. \A b \in state : b = "CLOSED" \/ b \in actual[w]
        BY <4>1
      <4> QED BY <4>1, <4>2, GainsAtMost
    <3>2. broken' = broken
      BY <2>5, <3>1 DEF PollReset
    <3> QED
      BY <2>5, <3>2 DEF PollReset
  <2>6. CASE PollWakeSelf(w) BY <2>6 DEF PollWakeSelf, Resolved
  <2>7. CASE StartWait(w) \/ Repoll(w) \/ PollPresubscribed(w) \/ Check(w)
    BY <2>7 DEF StartWait, Repoll, PollPresubscribed, Check, Resolved
  <2>8. CASE PollRegister(w) \/ PollWakePrev(w) \/ PollTakeBack(w)
    BY <2>8 DEF PollRegister, PollWakePrev, PollTakeBack
  <2> QED
    BY <2>2, <2>3, <2>4, <2>5, <2>6, <2>7, <2>8 DEF Waiter
<1>2. ASSUME NEW n \in Notifiers, Notifier(n) PROVE ParkInv'
  <2> USE <1>2 DEF TypeOK, GoTo, FetchOr, ParkInv
  <2>1. \A w \in Waiters : pc'[w] = pc[w]
    BY DEF Notifier, SetCondition, Wake, Close, TakeWaker, ReleaseWaker, WakeTaken
  <2>2. CASE Wake(n) BY <2>1, <2>2 DEF Wake
  <2>3. CASE Close(n) BY <2>1, <2>3 DEF Close
  <2>4. CASE ReleaseWaker(n)
    <3>1. \A w \in Waiters : w \notin Owners
      BY <2>4 DEF ReleaseWaker, OwnerInv, Owners
    <3> QED
      BY <2>1, <2>4, <3>1 DEF ReleaseWaker, Owners
  <2>5. CASE SetCondition(n) \/ TakeWaker(n) \/ WakeTaken(n)
    BY <2>1, <2>5 DEF SetCondition, TakeWaker, WakeTaken
  <2> QED BY <2>2, <2>3, <2>4, <2>5 DEF Notifier
<1>3. CASE UNCHANGED vars BY <1>3 DEF vars, ParkInv
<1> QED BY <1>1, <1>2, <1>3 DEF Next

(* wait_cell.rs:183-189: with one task, for any number of threads that wake *)
(* and close the cell, the word that fetch_and returns is the one that the   *)
(* failed compare_exchange saw, with CLOSED perhaps, and the debug_assert!  *)
(* holds.                                                                    *)
THEOREM ParkingIsUndisturbed == ASSUME OneTask PROVE Spec => []ParkingAssertion
<1>1. Init => ParkInv
  BY DEF Init, ParkInv
<1>2. ParkInv => ParkingAssertion
  BY DEF ParkInv, ParkingAssertion
<1> QED BY <1>1, <1>2, ParkStep, IInvHolds, PTL DEF Spec
=============================================================================

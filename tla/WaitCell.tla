------------------------------- MODULE WaitCell -------------------------------
(***************************************************************************)
(* maitake-sync/src/wait_cell.rs: a cell holding the Waker of one task,    *)
(* guarded by the bits of one atomic word.  Every atomic operation, every  *)
(* access to the UnsafeCell with the waker and every call of Waker::wake   *)
(* is a step of its own; between two of them any other thread may run.     *)
(*                                                                         *)
(* A task polls a Wait or a Subscribe future; it is polled again only      *)
(* after its waker was called (notified).  Other threads call wake() and   *)
(* close().                                                                *)
(***************************************************************************)
CONSTANTS Waiters,     \* tasks that await futures of the cell
          Notifiers,   \* threads that call wake() and close()
          NoWaker,     \* Option::None in the cell's waker slot
          Calls,       \* what tasks await: a subset of {"wait", "wait_for"}
          MayClose     \* whether notifiers may call close()

ASSUME WaitCellAssumption ==
  /\ Waiters \cap Notifiers = {}
  /\ NoWaker \notin Waiters \cup Notifiers
  /\ Calls \subseteq {"wait", "wait_for"}
  /\ MayClose \in BOOLEAN

VARIABLES
  state,     \* State: the set of bits that are set; WAITING is {}
  waker,     \* WaitCell::waker, the task whose Waker is stored
  pc,        \* where each thread is
  hand,      \* the Waker a thread took out of the cell and has yet to wake
  fut,       \* the future a task is awaiting
  presub,    \* Wait::presubscribe
  call,      \* the operation a task is inside of
  actual,    \* poll_wait's `actual`: the state its second CAS failed on
  notified,  \* the task's Waker was called since its last poll began
  cond,      \* what wait_for's closure tests (and consumes)
  broken     \* poll_wait's debug_assert! failed

vars == <<state, waker, pc, hand, fut, presub, call, actual, notified, cond, broken>>

Threads == Waiters \cup Notifiers
Bits == {"REGISTERING", "WAKING", "WOKEN", "CLOSED"}

WAITING == {}

(* The bits wake() sets; close() adds CLOSED. *)
WakeWithoutStoring == {"WAKING"}
WakeBits == {"WAKING", "WOKEN"}

(* take_waker's test: someone else may be touching the waker. *)
WakerBusyIgnoringPolls == state \cap {"WAKING", "CLOSED"} # {}
WakerBusy == state \cap {"WAKING", "REGISTERING", "CLOSED"} # {}

(* The second compare_exchange of poll_wait succeeds. *)
StoreWaiting == "REGISTERING" \in state
NobodyNotified == state = {"REGISTERING"}

(* The bits that survive poll_wait's fetch_and. *)
NoBits == {}
KeptBits == {"CLOSED"}

(* The waker a registering task displaces; will_wake compares tasks. *)
DisplacedDropped(w) == NoWaker
Displaced(w) == IF waker = w THEN NoWaker ELSE waker

Init ==
  /\ state = WAITING
  /\ waker = NoWaker
  /\ pc = [t \in Threads |-> "idle"]
  /\ hand = [t \in Threads |-> NoWaker]
  /\ fut = [w \in Waiters |-> "none"]
  /\ presub = [w \in Waiters |-> "Pending"]
  /\ call = [w \in Waiters |-> "none"]
  /\ actual = [w \in Waiters |-> WAITING]
  /\ notified = [w \in Waiters |-> FALSE]
  /\ cond = FALSE
  /\ broken = FALSE

GoTo(t, l) == pc' = [pc EXCEPT ![t] = l]

(* Waker::wake, external: the task is scheduled to be polled. *)
WakeTask(t) ==
  /\ notified' = IF hand[t] = NoWaker THEN notified ELSE [notified EXCEPT ![hand[t]] = TRUE]
  /\ hand' = [hand EXCEPT ![t] = NoWaker]

-----------------------------------------------------------------------------
(* Wait::poll and Subscribe::poll: what the future does with poll_wait's   *)
(* result r.  Busy wakes the task itself and yields.                       *)
Parked(w) == GoTo(w, "parked") /\ UNCHANGED <<fut, presub, call>>

Resolved(w, r) ==
  IF fut[w] = "Subscribe"
  THEN /\ fut' = [fut EXCEPT ![w] = "Wait"]
       /\ presub' = [presub EXCEPT ![w] = r]
       /\ GoTo(w, "check")
       /\ UNCHANGED call
  ELSE IF call[w] = "wait_for" /\ r = "Ok"
       THEN /\ fut' = [fut EXCEPT ![w] = "Subscribe"]
            /\ presub' = [presub EXCEPT ![w] = "Pending"]
            /\ GoTo(w, "poll")
            /\ UNCHANGED call
       ELSE /\ fut' = [fut EXCEPT ![w] = "none"]
            /\ presub' = [presub EXCEPT ![w] = "Pending"]
            /\ call' = [call EXCEPT ![w] = "none"]
            /\ GoTo(w, "idle")

(* The task starts awaiting wait() or wait_for(f).  A notification that    *)
(* came before may or may not have been used up by an earlier poll.        *)
StartWait(w) ==
  /\ pc[w] = "idle"
  /\ \E c \in Calls :
       /\ call' = [call EXCEPT ![w] = c]
       /\ fut' = [fut EXCEPT ![w] = IF c = "wait" THEN "Wait" ELSE "Subscribe"]
  /\ GoTo(w, "poll")
  /\ \E stale \in {FALSE, notified[w]} : notified' = [notified EXCEPT ![w] = stale]
  /\ UNCHANGED <<state, waker, hand, presub, actual, cond, broken>>

(* The executor polls a notified task again. *)
Repoll(w) ==
  /\ pc[w] = "parked"
  /\ notified[w]
  /\ notified' = [notified EXCEPT ![w] = FALSE]
  /\ GoTo(w, "poll")
  /\ UNCHANGED <<state, waker, hand, fut, presub, call, actual, cond, broken>>

(* Wait::poll, a wakeup having arrived while subscribing. *)
PollPresubscribed(w) ==
  /\ pc[w] = "poll"
  /\ fut[w] = "Wait" /\ presub[w] # "Pending"
  /\ Resolved(w, presub[w])
  /\ UNCHANGED <<state, waker, hand, actual, notified, cond, broken>>

(* The first compare_exchange of poll_wait and the match on its result. *)
PollWait(w) ==
  /\ pc[w] = "poll"
  /\ ~(fut[w] = "Wait" /\ presub[w] # "Pending")
  /\ \/ /\ state = WAITING
        /\ state' = {"REGISTERING"}
        /\ GoTo(w, "register")
        /\ UNCHANGED <<fut, presub, call, notified>>
     \/ /\ "CLOSED" \in state
        /\ Resolved(w, "Closed")
        /\ UNCHANGED <<state, notified>>
     \/ /\ "CLOSED" \notin state /\ "WOKEN" \in state
        /\ GoTo(w, "takeWakeup")
        /\ UNCHANGED <<state, fut, presub, call, notified>>
     \/ /\ "WAKING" \in state /\ state \cap {"CLOSED", "WOKEN"} = {}
        /\ Resolved(w, "Ok")
        /\ UNCHANGED <<state, notified>>
     \/ /\ state = {"REGISTERING"}
        /\ notified' = [notified EXCEPT ![w] = TRUE]
        /\ Parked(w)
        /\ UNCHANGED state
  /\ UNCHANGED <<waker, hand, actual, cond, broken>>

(* fetch_and(!WOKEN): take the stored wakeup. *)
PollTakeWakeup(w) ==
  /\ pc[w] = "takeWakeup"
  /\ state' = state \ {"WOKEN"}
  /\ Resolved(w, "Ok")
  /\ UNCHANGED <<waker, hand, actual, notified, cond, broken>>

(* Store the task's waker; a different task's waker is taken out. *)
PollRegister(w) ==
  /\ pc[w] = "register"
  /\ waker' = w
  /\ hand' = [hand EXCEPT ![w] = Displaced(w)]
  /\ GoTo(w, "wakePrev")
  /\ UNCHANGED <<state, fut, presub, call, actual, notified, cond, broken>>

PollWakePrev(w) ==
  /\ pc[w] = "wakePrev"
  /\ WakeTask(w)
  /\ GoTo(w, "park")
  /\ UNCHANGED <<state, waker, fut, presub, call, actual, cond, broken>>

(* The second compare_exchange, REGISTERING to WAITING. *)
PollPark(w) ==
  /\ pc[w] = "park"
  /\ \/ /\ NobodyNotified
        /\ state' = WAITING
        /\ IF fut[w] = "Subscribe" THEN Resolved(w, "Pending") ELSE Parked(w)
        /\ UNCHANGED actual
     \/ /\ ~NobodyNotified
        /\ actual' = [actual EXCEPT ![w] = state]
        /\ GoTo(w, "takeBack")
        /\ UNCHANGED <<state, fut, presub, call>>
  /\ UNCHANGED <<waker, hand, notified, cond, broken>>

(* Notified while registering: take the waker back ... *)
PollTakeBack(w) ==
  /\ pc[w] = "takeBack"
  /\ hand' = [hand EXCEPT ![w] = waker]
  /\ waker' = NoWaker
  /\ GoTo(w, "reset")
  /\ UNCHANGED <<state, fut, presub, call, actual, notified, cond, broken>>

(* ... clear every bit but CLOSED (the debug_assert! is recorded) ... *)
PollReset(w) ==
  /\ pc[w] = "reset"
  /\ state' = state \cap KeptBits
  /\ broken' = (broken \/ state \notin {actual[w], actual[w] \cup {"CLOSED"}})
  /\ actual' = [actual EXCEPT ![w] = state]
  /\ GoTo(w, "wakeSelf")
  /\ UNCHANGED <<waker, hand, fut, presub, call, notified, cond>>

(* ... wake it, and report what happened. *)
PollWakeSelf(w) ==
  /\ pc[w] = "wakeSelf"
  /\ WakeTask(w)
  /\ actual' = [actual EXCEPT ![w] = WAITING]
  /\ Resolved(w, IF "CLOSED" \in actual[w] THEN "Closed" ELSE "Ok")
  /\ UNCHANGED <<state, waker, cond, broken>>

(* wait_for and wait_for_value evaluate their closure once subscribed. *)
Check(w) ==
  /\ pc[w] = "check"
  /\ IF cond
     THEN /\ cond' = FALSE
          /\ fut' = [fut EXCEPT ![w] = "none"]
          /\ presub' = [presub EXCEPT ![w] = "Pending"]
          /\ call' = [call EXCEPT ![w] = "none"]
          /\ GoTo(w, "idle")
     ELSE /\ GoTo(w, "poll")
          /\ UNCHANGED <<fut, presub, call, cond>>
  /\ UNCHANGED <<state, waker, hand, actual, notified, broken>>

Waiter(w) ==
  \/ StartWait(w) \/ Repoll(w) \/ PollPresubscribed(w) \/ PollWait(w)
  \/ PollTakeWakeup(w) \/ PollRegister(w) \/ PollWakePrev(w) \/ PollPark(w)
  \/ PollTakeBack(w) \/ PollReset(w) \/ PollWakeSelf(w) \/ Check(w)

-----------------------------------------------------------------------------
(* A notifier makes the awaited condition true before it calls wake(). *)
SetCondition(n) ==
  /\ pc[n] = "idle"
  /\ ~cond
  /\ cond' = TRUE
  /\ GoTo(n, "wake")
  /\ UNCHANGED <<state, waker, hand, fut, presub, call, actual, notified, broken>>

(* take_waker's fetch_or: only a thread that finds none of WAKING,         *)
(* REGISTERING and CLOSED may touch the waker.                             *)
FetchOr(n, bits) ==
  /\ state' = state \cup bits
  /\ GoTo(n, IF WakerBusy THEN "idle" ELSE "take")
  /\ UNCHANGED <<waker, hand, fut, presub, call, actual, notified, cond, broken>>

Wake(n) == pc[n] \in {"idle", "wake"} /\ FetchOr(n, WakeBits)

CloseWithoutWaking(n) ==
  /\ pc[n] = "idle" /\ MayClose
  /\ state' = state \cup {"WOKEN", "CLOSED"}
  /\ UNCHANGED <<pc, waker, hand, fut, presub, call, actual, notified, cond, broken>>
Close(n) == pc[n] = "idle" /\ MayClose /\ FetchOr(n, WakeBits \cup {"CLOSED"})

TakeWaker(n) ==
  /\ pc[n] = "take"
  /\ hand' = [hand EXCEPT ![n] = waker]
  /\ waker' = NoWaker
  /\ GoTo(n, "release")
  /\ UNCHANGED <<state, fut, presub, call, actual, notified, cond, broken>>

(* fetch_and(!WAKING): release the waker. *)
ReleaseWaker(n) ==
  /\ pc[n] = "release"
  /\ state' = state \ {"WAKING"}
  /\ GoTo(n, "wakeTask")
  /\ UNCHANGED <<waker, hand, fut, presub, call, actual, notified, cond, broken>>

WakeTaken(n) ==
  /\ pc[n] = "wakeTask"
  /\ WakeTask(n)
  /\ GoTo(n, "idle")
  /\ UNCHANGED <<state, waker, fut, presub, call, actual, cond, broken>>

Notifier(n) ==
  \/ SetCondition(n) \/ Wake(n) \/ Close(n)
  \/ TakeWaker(n) \/ ReleaseWaker(n) \/ WakeTaken(n)

Next == (\E w \in Waiters : Waiter(w)) \/ (\E n \in Notifiers : Notifier(n))

Spec == Init /\ [][Next]_vars

(* Executors poll notified tasks, and no thread stops inside an operation; *)
(* nobody has to start one.                                                *)
Fairness ==
  /\ \A w \in Waiters : WF_vars(pc[w] # "idle" /\ Waiter(w))
  /\ \A n \in Notifiers : WF_vars(pc[n] # "idle" /\ Notifier(n))

FairSpec == Spec /\ Fairness

-----------------------------------------------------------------------------
WaiterPcs == {"idle", "poll", "parked", "takeWakeup", "register", "wakePrev", "park",
              "takeBack", "reset", "wakeSelf", "check"}
NotifierPcs == {"idle", "wake", "take", "release", "wakeTask"}

(* Each variable has its type, and no thread runs the other kind's code. *)
TypeOK ==
  /\ state \subseteq Bits
  /\ waker \in Waiters \cup {NoWaker}
  /\ pc \in [Threads -> WaiterPcs \cup NotifierPcs]
  /\ \A w \in Waiters : pc[w] \in WaiterPcs
  /\ \A n \in Notifiers : pc[n] \in NotifierPcs
  /\ hand \in [Threads -> Waiters \cup {NoWaker}]
  /\ fut \in [Waiters -> {"none", "Wait", "Subscribe"}]
  /\ presub \in [Waiters -> {"Pending", "Ok", "Closed"}]
  /\ call \in [Waiters -> {"none", "wait", "wait_for"}]
  /\ actual \in [Waiters -> SUBSET Bits]
  /\ notified \in [Waiters -> BOOLEAN]
  /\ cond \in BOOLEAN
  /\ broken \in BOOLEAN

(* The threads whose next step reads or writes the UnsafeCell. *)
Touching == {t \in Threads : pc[t] \in {"register", "takeBack", "take"}}

(* The threads between winning the right to the waker and giving it up. *)
Owners == {t \in Threads : pc[t] \in {"register", "wakePrev", "park", "takeBack", "reset",
                                      "take", "release"}}

(* wait_cell.rs:158, 178, 513: the three unsafe accesses to the waker never *)
(* overlap, whatever mix of polls, wakes and closes races on the cell.      *)
ExclusiveWaker == \A t, u \in Touching : t = u

(* A wake() or close() that has set its bits is never forgotten: while a    *)
(* task is parked with no notification on its way although WOKEN or CLOSED  *)
(* is set, some thread still owns the waker or carries that task's waker.   *)
NoLostWakeup ==
  \A w \in Waiters :
    pc[w] = "parked" /\ ~notified[w] /\ state \cap {"WOKEN", "CLOSED"} # {}
      => Owners # {} \/ \E t \in Threads : hand[t] = w

(* A parked task can always be reached: through the cell, a thread carrying *)
(* its waker (a later registration displaced it), or a pending poll.        *)
ParkedIsReachable ==
  \A w \in Waiters :
    pc[w] = "parked" => waker = w \/ notified[w] \/ \E t \in Threads : hand[t] = w

(* wait_cell.rs:179: leaving the parking state clears every bit but CLOSED; *)
(* no step of any thread ever reopens a closed cell.                        *)
ClosedIsPermanent == [][ "CLOSED" \in state => "CLOSED" \in state' ]_vars

(* wait_cell.rs:186: the debug_assert! of poll_wait holds while one task uses *)
(* the cell: nothing but close() changes the word between its last two steps. *)
ParkingAssertion == ~broken

(* wait_for: the condition a notifier sets before wake() is always seen.  *)
ConditionIsSeen == []<>(~cond \/ \A w \in Waiters : call[w] # "wait_for")

(* close(): every task that is waiting, and every later one, gets out. *)
CloseReleases == \A w \in Waiters : ("CLOSED" \in state) ~> (pc[w] = "idle")
=============================================================================

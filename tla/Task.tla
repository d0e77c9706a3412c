--------------------------------- MODULE Task ---------------------------------
(***************************************************************************)
(* maitake/src/task.rs, task/state.rs, task/join_handle.rs: one spawned    *)
(* task, from its first enqueueing to its deallocation.                    *)
(*                                                                         *)
(* The state word has flags, the two-bit state of the join waker and the   *)
(* reference count.  StateCell::transition is a compare-exchange loop, so  *)
(* each transition is one step.  debug_assert!s are compiled out, as in a  *)
(* release build; those that matter are stated as properties.  The run     *)
(* queue is external and holds `queued` references to the task; any worker *)
(* may take one, since schedulers steal from one another.                  *)
(***************************************************************************)
EXTENDS Naturals, FiniteSets

CONSTANTS Workers,     \* threads that tick a scheduler
          Holders,     \* threads that may own one Waker or one TaskRef each
          Joiner,      \* the owner of the JoinHandle
          RefMax,      \* the largest reference count the word can hold
          CrossThread  \* Scheduler::current_task is called outside the poll, too

Threads == Workers \cup Holders \cup {Joiner}

(* A JoinHandle, a queue entry, and two references per holder while it wakes. *)
ASSUME TaskAssumption ==
  /\ Workers \cap Holders = {} /\ Joiner \notin Workers \cup Holders
  /\ IsFiniteSet(Workers) /\ IsFiniteSet(Holders)
  /\ RefMax \in Nat /\ RefMax > 2 + Cardinality(Workers) + 2 * Cardinality(Holders)
  /\ CrossThread \in BOOLEAN

VARIABLES
  state,      \* the flags that are set in the state word
  joinWaker,  \* State::JOIN_WAKER of the word
  refs,       \* State::REFS of the word
  cell,       \* Task::inner
  slot,       \* Task::join_waker holds a waker
  queued,     \* run queue entries for this task
  current,    \* workers whose scheduler's current_task points at the task
  pc,         \* what each thread does next
  notified,   \* the JoinHandle's owner has been woken since its last poll
  finished,   \* a poll has returned Ready: no scheduler runs the task again
  freed       \* the task has been deallocated

vars == <<state, joinWaker, refs, cell, slot, queued, current, pc, notified, finished, freed>>
word == <<state, joinWaker, refs>>

GoTo(t, l) == pc' = [pc EXCEPT ![t] = l]

(* spawn_inner sets WOKEN; Injector::spawn_allocated and                     *)
(* LocalStaticScheduler::spawn_allocated enqueue the task without it.        *)
Init ==
  /\ state \in {{"HAS_JOIN_HANDLE"}, {"HAS_JOIN_HANDLE", "WOKEN"}}
  /\ joinWaker = "Empty"
  /\ refs = 2
  /\ cell = "Pending"
  /\ slot = FALSE
  /\ queued = 1
  /\ current = {}
  /\ pc = [t \in Threads |-> "idle"]
  /\ notified = FALSE
  /\ finished = FALSE
  /\ freed = FALSE

-----------------------------------------------------------------------------
(* References *)

RefSub(n) == IF n = 0 THEN RefMax ELSE n - 1

LastTwo(n) == n <= 2  \* mutant of IsLast: an off-by-one
IsLast(n) == n <= 1

(* StateCell::drop_ref; whoever drops the last reference deallocates. *)
DropRef(t, next) ==
  /\ refs' = RefSub(refs)
  /\ GoTo(t, IF IsLast(refs) THEN "dealloc" ELSE next)
  /\ UNCHANGED <<state, joinWaker>>

(* Schedulable::drop_ref, Header::deallocate and Task::drop: a waker that is *)
(* still registered is dropped with the task.                                *)
Deallocate(t) ==
  /\ pc[t] = "dealloc"
  /\ freed' = TRUE
  /\ slot' = (slot /\ joinWaker \in {"Empty", "Woken"})
  /\ GoTo(t, "gone")
  /\ UNCHANGED <<word, cell, queued, current, notified, finished>>

-----------------------------------------------------------------------------
(* Polling: Core::tick_n and Task::poll *)

(* try_dequeue, and the store to current_task. *)
Dequeue(w) ==
  /\ pc[w] = "idle"
  /\ queued > 0
  /\ queued' = queued - 1
  /\ current' = current \cup {w}
  /\ GoTo(w, "start")
  /\ UNCHANGED <<word, cell, slot, notified, finished, freed>>

(* mutant of AfterReady: a waker that is being registered is missed *)
AfterReadyNoWait(jw) == IF jw = "Waiting" THEN "wakeJoin" ELSE "stop"

(* mutant of AfterReady: a waker that is being registered is taken at once *)
AfterReadyAtOnce(jw) == IF jw \in {"Registering", "Waiting"} THEN "wakeJoin" ELSE "stop"

AfterReady(jw) ==
  CASE jw = "Registering" -> "waitJoin"
    [] jw = "Waiting" -> "wakeJoin"
    [] OTHER -> "stop"

(* State::has_join_waker: whether to wake the JoinHandle, perhaps after      *)
(* waiting for it to finish registering its waker.                           *)
HasJoinWaker(w) ==
  /\ joinWaker' = IF joinWaker = "Waiting" THEN "Empty" ELSE joinWaker
  /\ GoTo(w, AfterReady(joinWaker))
  /\ finished' = TRUE

Polling(s) == (s \ {"WOKEN"}) \cup {"POLLING"}

(* StateCell::start_poll: CantPoll, Canceled or Poll. *)
StartPoll(w) ==
  /\ pc[w] = "start"
  /\ IF {"POLLING", "COMPLETED"} \cap state # {}
     THEN GoTo(w, "stop") /\ UNCHANGED <<state, joinWaker, finished>>
     ELSE IF "CANCELED" \in state
     THEN HasJoinWaker(w) /\ UNCHANGED state
     ELSE /\ state' = Polling(state)
          /\ GoTo(w, "poll")
          /\ UNCHANGED <<joinWaker, finished>>
  /\ UNCHANGED <<refs, cell, slot, queued, current, notified, freed>>

(* Unless CrossThread, current_task is only called inside the poll. *)
PointerUnused == CrossThread \/ \A h \in Holders : pc[h] # "gotPointer"

(* Task::poll_inner and Cell::poll: the future is ready, or it is not. *)
PollReady(w) ==
  /\ pc[w] = "poll"
  /\ PointerUnused
  /\ cell' = "Ready"
  /\ GoTo(w, "endReady")
  /\ UNCHANGED <<word, slot, queued, current, notified, finished, freed>>

PollPending(w) ==
  /\ pc[w] = "poll"
  /\ PointerUnused
  /\ GoTo(w, "endPending")
  /\ UNCHANGED <<word, cell, slot, queued, current, notified, finished, freed>>

AfterPendingForget(s) == "stop"  \* mutant of AfterPending: a wake during the poll is lost
AfterPending(s) == IF "WOKEN" \in s THEN "reschedule" ELSE "stop"

Completed(s) == (s \ {"POLLING"}) \cup {"COMPLETED", "HAS_OUTPUT"}

(* StateCell::end_poll *)
EndPoll(w) ==
  /\ \/ /\ pc[w] = "endReady"
        /\ state' = Completed(state)
        /\ HasJoinWaker(w)
     \/ /\ pc[w] = "endPending"
        /\ state' = state \ {"POLLING"}
        /\ GoTo(w, AfterPending(state))
        /\ UNCHANGED <<joinWaker, finished>>
  /\ UNCHANGED <<refs, cell, slot, queued, current, notified, freed>>

(* StateCell::wait_for_join_waker *)
WaitForJoinWaker(w) ==
  /\ pc[w] = "waitJoin"
  /\ joinWaker = "Waiting"
  /\ joinWaker' = "Woken"
  /\ GoTo(w, "wakeJoin")
  /\ UNCHANGED <<state, refs, cell, slot, queued, current, notified, finished, freed>>

(* Task::wake_join_waker moves the waker out of its slot and wakes it. *)
WakeJoinWaker(w) ==
  /\ pc[w] = "wakeJoin"
  /\ slot' = FALSE
  /\ notified' = TRUE
  /\ GoTo(w, "stop")
  /\ UNCHANGED <<word, cell, queued, current, finished, freed>>

(* tick_n clears current_task; it reschedules the task or drops its TaskRef. *)
Reschedule(w) ==
  /\ pc[w] = "reschedule"
  /\ current' = current \ {w}
  /\ queued' = queued + 1
  /\ GoTo(w, "idle")
  /\ UNCHANGED <<word, cell, slot, notified, finished, freed>>

Stop(w) ==
  /\ pc[w] = "stop"
  /\ current' = current \ {w}
  /\ DropRef(w, "idle")
  /\ UNCHANGED <<cell, slot, queued, notified, finished, freed>>

-----------------------------------------------------------------------------
(* Wakers and TaskRefs *)

(* clone_waker: of the waker the poll lends, or of somebody's waker. *)
CloneWaker(h) ==
  /\ pc[h] = "idle"
  /\ \E t \in Workers \cup Holders : pc[t] \in {"poll", "waker"}
  /\ refs' = refs + 1
  /\ GoTo(h, "waker")
  /\ UNCHANGED <<state, joinWaker, cell, slot, queued, current, notified, finished, freed>>

(* JoinHandle::task_ref *)
CloneTaskRef(h) ==
  /\ pc[h] = "idle"
  /\ pc[Joiner] \in {"idle", "parked"}
  /\ refs' = refs + 1
  /\ GoTo(h, "taskRef")
  /\ UNCHANGED <<state, joinWaker, cell, slot, queued, current, notified, finished, freed>>

(* Core::current_task loads the pointer, then clone_from_raw clones it. *)
LoadCurrent(h) ==
  /\ pc[h] = "idle"
  /\ current # {}
  /\ CrossThread \/ \E w \in Workers : pc[w] = "poll"
  /\ GoTo(h, "gotPointer")
  /\ UNCHANGED <<word, cell, slot, queued, current, notified, finished, freed>>

CloneCurrent(h) ==
  /\ pc[h] = "gotPointer"
  /\ refs' = refs + 1
  /\ GoTo(h, "taskRef")
  /\ UNCHANGED <<state, joinWaker, cell, slot, queued, current, notified, finished, freed>>

BeingPolled(s) == "POLLING" \in s

(* StateCell::wake_by_val consumes the waker; or the run queue gets a         *)
(* reference of its own first, and the waker's is dropped after enqueueing.  *)
WakeByVal(h) ==
  /\ pc[h] = "waker"
  /\ IF BeingPolled(state)
     THEN state' = state \cup {"WOKEN"} /\ refs' = RefSub(refs) /\ GoTo(h, "idle")
     ELSE IF {"COMPLETED", "WOKEN"} \cap state # {}
     THEN /\ refs' = RefSub(refs)
          /\ GoTo(h, IF refs = 1 THEN "dropAgain" ELSE "idle")
          /\ UNCHANGED state
     ELSE state' = state \cup {"WOKEN"} /\ refs' = refs + 1 /\ GoTo(h, "enqueueVal")
  /\ UNCHANGED <<joinWaker, cell, slot, queued, current, notified, finished, freed>>

(* StateCell::wake_by_ref: the holder keeps its reference and enqueues the    *)
(* task with a new one, or has nothing to do.                                *)
Wake(h, enqueue, done) ==
  /\ IF {"COMPLETED", "WOKEN"} \cap state # {}
     THEN GoTo(h, done) /\ UNCHANGED <<state, refs>>
     ELSE /\ state' = state \cup {"WOKEN"}
          /\ IF BeingPolled(state)
             THEN GoTo(h, done) /\ UNCHANGED refs
             ELSE GoTo(h, enqueue) /\ refs' = refs + 1
  /\ UNCHANGED <<joinWaker, cell, slot, queued, current, notified, finished, freed>>

WakeByRef(h) == pc[h] = "waker" /\ Wake(h, "enqueueRef", "waker")

(* TaskRef::cancel: the state changes first, then the task is woken by ref. *)
Cancel(h) ==
  /\ pc[h] = "taskRef"
  /\ "CANCELED" \notin state
  /\ state' = state \cup {"CANCELED", "WOKEN"}
  /\ GoTo(h, "cancelWake")
  /\ UNCHANGED <<joinWaker, refs, cell, slot, queued, current, notified, finished, freed>>

CancelWake(h) == pc[h] = "cancelWake" /\ Wake(h, "enqueueCancel", "taskRef")

(* Schedulable::schedule puts the task on its scheduler's run queue. *)
Enqueue(h) ==
  /\ pc[h] \in {"enqueueVal", "enqueueRef", "enqueueCancel"}
  /\ queued' = queued + 1
  /\ GoTo(h, CASE pc[h] = "enqueueVal" -> "dropVal"
               [] pc[h] = "enqueueRef" -> "waker"
               [] pc[h] = "enqueueCancel" -> "taskRef")
  /\ UNCHANGED <<word, cell, slot, current, notified, finished, freed>>

(* Dropping a Waker or a TaskRef, the waker consumed by wake_by_val, and      *)
(* drop_ref after wake_by_val has counted its waker out already.             *)
DropHeld(h) ==
  /\ pc[h] \in {"waker", "taskRef", "dropVal", "dropAgain"}
  /\ DropRef(h, "idle")
  /\ UNCHANGED <<cell, slot, queued, current, notified, finished, freed>>

-----------------------------------------------------------------------------
(* The JoinHandle *)

(* JoinHandle::poll and StateCell::try_join: the task is canceled, its output *)
(* is taken, or the waker is to be registered (for the first time or again).  *)
TryJoin ==
  /\ pc[Joiner] \in {"idle", "parked"}
  /\ notified' = FALSE
  /\ IF "CANCELED" \in state
     THEN GoTo(Joiner, IF "HAS_OUTPUT" \in state THEN "take" ELSE "clear") /\ UNCHANGED <<state, joinWaker>>
     ELSE IF {"COMPLETED", "HAS_OUTPUT"} \subseteq state
     THEN state' = state \ {"HAS_OUTPUT"} /\ GoTo(Joiner, "take") /\ UNCHANGED joinWaker
     ELSE /\ joinWaker' = "Registering"
          /\ GoTo(Joiner, IF joinWaker = "Empty" THEN "register" ELSE "reregister")
          /\ UNCHANGED state
  /\ UNCHANGED <<refs, cell, slot, queued, current, finished, freed>>

(* Task::poll_join writes the waker; set_join_waker_registered publishes it. *)
Register ==
  /\ pc[Joiner] \in {"register", "reregister"}
  /\ slot' = TRUE
  /\ state' = state \cup {"HAS_JOIN_HANDLE"}
  /\ joinWaker' = "Waiting"
  /\ GoTo(Joiner, "parked")
  /\ UNCHANGED <<refs, cell, queued, current, notified, finished, freed>>

(* Task::take_output *)
TakeOutput ==
  /\ pc[Joiner] = "take"
  /\ cell' = "Joined"
  /\ GoTo(Joiner, "clear")
  /\ UNCHANGED <<word, slot, queued, current, notified, finished, freed>>

(* StateCell::drop_join_handle: after a poll that was ready, or in Drop. *)
DropJoinHandle ==
  /\ pc[Joiner] \in {"clear", "idle", "parked"}
  /\ state' = state \ {"HAS_JOIN_HANDLE"}
  /\ GoTo(Joiner, "drop")
  /\ UNCHANGED <<joinWaker, refs, cell, slot, queued, current, notified, finished, freed>>

DropJoinRef ==
  /\ pc[Joiner] = "drop"
  /\ DropRef(Joiner, "gone")
  /\ UNCHANGED <<cell, slot, queued, current, notified, finished, freed>>

-----------------------------------------------------------------------------
Work(w) ==
  \/ Dequeue(w) \/ StartPoll(w) \/ PollReady(w) \/ PollPending(w) \/ EndPoll(w)
  \/ WaitForJoinWaker(w) \/ WakeJoinWaker(w) \/ Reschedule(w) \/ Stop(w)

Hold(h) ==
  \/ CloneWaker(h) \/ CloneTaskRef(h) \/ LoadCurrent(h) \/ CloneCurrent(h)
  \/ WakeByVal(h) \/ WakeByRef(h) \/ Cancel(h) \/ CancelWake(h)
  \/ Enqueue(h) \/ DropHeld(h)

Join == TryJoin \/ Register \/ TakeOutput \/ DropJoinHandle \/ DropJoinRef

Next ==
  \/ \E w \in Workers : Work(w)
  \/ \E h \in Holders : Hold(h)
  \/ Join
  \/ \E t \in Threads : Deallocate(t)

Spec == Init /\ [][Next]_vars

(* Schedulers keep ticking, operations that have begun go on, and the owner  *)
(* of the JoinHandle polls it again when it is woken.  Nobody has to start   *)
(* an operation, to drop anything, or to make the future ready.              *)
Fairness ==
  /\ \A w \in Workers : WF_vars(Work(w))
  /\ \A h \in Holders : WF_vars(Enqueue(h) \/ CancelWake(h) \/ CloneCurrent(h))
  /\ WF_vars(Register \/ TakeOutput \/ (pc[Joiner] = "clear" /\ DropJoinHandle))
  /\ WF_vars(notified /\ TryJoin)

FairSpec == Spec /\ Fairness

-----------------------------------------------------------------------------
(* Properties *)

(* The references: a token for each thread that owns one, a second one for a *)
(* holder that is about to enqueue the task, and one for the queue's entry.  *)
Enqueueing == {h \in Holders : pc[h] \in {"enqueueVal", "enqueueRef", "enqueueCancel"}}
Owners == {t \in Threads : pc[t] \notin {"idle", "gone", "dealloc", "gotPointer", "dropAgain"}}
            \cup (IF pc[Joiner] = "idle" THEN {Joiner} ELSE {})
References == Cardinality(Owners) + Cardinality(Enqueueing) + queued

(* task.rs:1343, "tried to deallocate a task with references!": the count in *)
(* the word is the number of references that exist, so that a task is freed  *)
(* when the last one goes and not before.                                    *)
RefsAreCounted ==
  IF freed \/ \E t \in Threads : pc[t] = "dealloc" THEN References = 0 ELSE refs = References

(* Nobody who can still reach the task is left when it is freed, and it is   *)
(* freed once: current_task included, when it is called inside a poll.       *)
FreedLast ==
  freed \/ (\E t \in Threads : pc[t] = "dealloc") =>
    /\ References = 0
    /\ \A h \in Holders : pc[h] # "gotPointer"
    /\ Cardinality({t \in Threads : pc[t] = "dealloc"}) = (IF freed THEN 0 ELSE 1)

(* Both: dropping the last reference, and nothing else, frees the task.      *)
FreedOnce == RefsAreCounted /\ FreedLast

(* A task is in the run queue once at most, no two workers run it, and the   *)
(* scheduler never meets a task it cannot poll (StartPollAction::CantPoll).  *)
QueuedOnce ==
  /\ queued + Cardinality({w \in Workers : pc[w] \in {"start", "poll", "endReady", "endPending", "reschedule"}}) <= 1
  /\ \A w \in Workers : pc[w] = "start" => {"POLLING", "COMPLETED"} \cap state = {}

(* A wakeup is not lost: a woken task that is not being polled is in the run *)
(* queue or somebody is about to put it there.  (Not if it was canceled.)    *)
WokenIsScheduled ==
  "WOKEN" \in state /\ {"POLLING", "COMPLETED", "CANCELED"} \cap state = {} =>
    queued > 0 \/ Enqueueing # {} \/ \E w \in Workers : pc[w] \in {"start", "reschedule"}

(* Both: a wake, also one during a poll, schedules the task exactly once.    *)
ScheduledOnce == QueuedOnce /\ WokenIsScheduled

(* task.rs:995, "if the task was successfully canceled, wake it so that it   *)
(* can clean up after itself".                                               *)
CanceledIsScheduled ==
  "CANCELED" \in state /\ ~finished =>
    \/ queued > 0 \/ Enqueueing # {}
    \/ \E h \in Holders : pc[h] = "cancelWake"
    \/ \E w \in Workers : pc[w] \in {"start", "poll", "endReady", "endPending", "reschedule"}

(* The join waker's slot is used by one thread at a time, holds a waker when *)
(* it is read, and agrees with the state word when the task is deallocated:  *)
(* the waker is neither leaked nor dropped twice.                            *)
SlotIsExclusive ==
  LET users == {t \in Threads : pc[t] \in {"register", "reregister", "wakeJoin", "dealloc"}} IN
  /\ Cardinality(users) <= 1
  /\ \A t \in users : pc[t] \in {"reregister", "wakeJoin"} => slot
  /\ \A t \in users : pc[t] = "register" => ~slot
  /\ \A t \in users : pc[t] = "dealloc" => (slot <=> joinWaker = "Waiting")
  /\ freed => ~slot

(* The JoinHandle of a task that has finished gets its result if it waits. *)
JoinCompletes == pc[Joiner] = "parked" /\ finished ~> pc[Joiner] \in {"drop", "dealloc", "gone"}
=============================================================================

------------------------------ MODULE MCRuntime ------------------------------
(* One task's life, and the cores that run tasks.  Which of the two the program *)
(* uses is chosen in the initial state; the other stays as it is, and nothing   *)
(* is shared.  Threads are interchangeable, but the run checks liveness, for    *)
(* which a symmetry reduction is not sound.                                     *)
EXTENDS Task

CONSTANTS MAX_CORES, Tasks, NoTask, Wakers, Stoppable, DEFAULT_TICK_SIZE,
          MAX_STEAL_ATTEMPTS, MAX_STOLEN_PER_TICK

VARIABLES which,
  initialized, ready, running, local, queue, count, consumer, flags, bound, wakers,
  rpc, hand, sched, polled, victim, attempts

Rt == INSTANCE Runtime WITH pc <- rpc

rtVars == <<initialized, ready, running, local, queue, count, consumer, flags, bound, wakers,
            rpc, hand, sched, polled, victim, attempts>>
allVars == <<which, vars, rtVars>>

InitBoth ==
  /\ which \in {"task", "runtime"}
  /\ Init /\ Rt!Init
  /\ which # "task" => "WOKEN" \in state

UsesTask == which = "task" /\ UNCHANGED <<which, rtVars>>
UsesRuntime == which = "runtime" /\ UNCHANGED <<which, vars>>

NextBoth ==
  \/ UsesTask /\ Next
  \/ UsesRuntime /\ Rt!Next

(* The fairness that the two modules state.  Since only one of them takes      *)
(* steps, a condition of the one and a condition of the other make one: their  *)
(* disjunction.                                                                *)
FairSpecBoth ==
  /\ InitBoth /\ [][NextBoth]_allVars
  /\ \A w \in Workers : WF_allVars(UsesTask /\ Work(w))
  /\ \A h \in Holders : WF_allVars(UsesTask /\ (Enqueue(h) \/ CancelWake(h) \/ CloneCurrent(h)))
  /\ \A c \in Rt!Cores : WF_allVars(
       \/ UsesRuntime /\ Rt!Continue(c)
       \/ UsesTask /\ (Register \/ TakeOutput \/ (pc[Joiner] = "clear" /\ DropJoinHandle)))
  /\ \A w \in Wakers : WF_allVars(\/ UsesRuntime /\ (Rt!Add(w) \/ Rt!Enqueue(w))
                                  \/ UsesTask /\ notified /\ TryJoin)

-----------------------------------------------------------------------------
(* Runtime: counters are exact, and no task is lost, in two places or bound  *)
(* to a scheduler that does not have it.                                     *)
TasksArePlaced == Rt!TasksArePlaced

(* Runtime: a task on a running core's queue is polled or stolen in the end. *)
QueueIsServed == Rt!QueueIsServed

(* Runtime: a task on the injector queue is taken by a core without tasks.   *)
InjectedIsStolen == Rt!InjectedIsStolen
=============================================================================

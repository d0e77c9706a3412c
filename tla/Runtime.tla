------------------------------- MODULE Runtime -------------------------------
(***************************************************************************)
(* The kernel's executor: src/rt.rs (cores, injector, main loop),          *)
(* maitake/src/scheduler.rs (Core::tick_n, schedule) and scheduler/steal.rs.*)
(*                                                                         *)
(* Each queue is an MPSC queue, here a sequence with its `has_consumer`    *)
(* flag, beside a counter that is kept by separate atomic operations.      *)
(* Tasks have the flags of TaskState that decide whether they are queued;  *)
(* what their futures do is left open.  The counters for metrics and the   *)
(* timer (see Timer) are left out of a tick.                               *)
(***************************************************************************)
EXTENDS Naturals, Sequences, FiniteSets, Lists

CONSTANTS MAX_CORES,            \* cores that may be started
          Tasks,
          NoTask,               \* not a task
          Wakers,               \* interrupt handlers and threads without a scheduler
          Stoppable,            \* bound: the cores on which Core::stop is called
          DEFAULT_TICK_SIZE,
          MAX_STEAL_ATTEMPTS,
          MAX_STOLEN_PER_TICK

Cores == 0..(MAX_CORES - 1)
Injector == MAX_CORES
Queues == Cores \cup {Injector}
None == MAX_CORES + 1           \* no core, no queue

VARIABLES
  initialized,  \* Runtime::initialized
  ready,        \* the cores whose InitOnce has been initialised
  running,      \* Core::running
  local,        \* cores whose thread-local SCHEDULER is set
  queue,        \* run queues, the injector's included
  count,        \* Core::queued, Injector::tasks
  consumer,     \* who holds each queue's has_consumer flag
  flags,        \* WOKEN, POLLING, COMPLETED of each task
  bound,        \* Schedulable::scheduler of each task
  wakers,       \* tasks that have been polled, so that wakers for them exist
  pc,           \* what each core, waker or thread does next
  hand,         \* the task a core is polling
  sched,        \* the task that is being scheduled, on which queue, and what follows
  polled,       \* tick.polled
  victim,       \* the queue stolen from, the number to steal, the number stolen
  attempts      \* try_steal's attempts

vars == <<initialized, ready, running, local, queue, count, consumer, flags, bound, wakers,
          pc, hand, sched, polled, victim, attempts>>
taskVars == <<flags, bound, wakers>>
coreVars == <<initialized, ready, running, local>>
queueVars == <<queue, count, consumer>>
tickVars == <<hand, polled, victim, attempts>>

Threads == Cores \cup Wakers
Idle == [task |-> NoTask, on |-> None, then |-> "none"]
NoVictim == [on |-> None, max |-> 0, stolen |-> 0]

Init ==
  /\ initialized = 0 /\ ready = {} /\ running = {} /\ local = {}
  /\ queue = [q \in Queues |-> <<>>]
  /\ count = [q \in Queues |-> 0]
  /\ consumer = [q \in Queues |-> None]
  /\ flags = [t \in Tasks |-> {}]
  /\ bound = [t \in Tasks |-> None]
  /\ wakers = {}
  /\ pc = [x \in Threads |-> IF x \in Cores THEN "off" ELSE "idle"]
  /\ hand = [c \in Cores |-> NoTask]
  /\ sched = [x \in Threads |-> Idle]
  /\ polled = [c \in Cores |-> 0]
  /\ victim = [c \in Cores |-> NoVictim]
  /\ attempts = [c \in Cores |-> 0]

GoTo(x, l) == pc' = [pc EXCEPT ![x] = l]
At(x, l) == pc[x] = l

-----------------------------------------------------------------------------
(* Scheduling a task: Core::schedule, Injector::spawn_allocated *)

Schedule(x, t, q, then) ==
  /\ sched' = [sched EXCEPT ![x] = [task |-> t, on |-> q, then |-> then]]
  /\ GoTo(x, "add")

Counted(n) == n + 1

(* The counter first, so that it is never behind the queue. *)
Add(x) ==
  /\ At(x, "add")
  /\ count' = [count EXCEPT ![sched[x].on] = Counted(@)]
  /\ GoTo(x, "enqueue")
  /\ UNCHANGED <<coreVars, taskVars, tickVars, queue, consumer, sched>>

PushFront(s, t) == <<t>> \o s  \* mutant of Push: last in, first out
Push(s, t) == Append(s, t)

Enqueue(x) ==
  /\ At(x, "enqueue")
  /\ queue' = [queue EXCEPT ![sched[x].on] = Push(@, sched[x].task)]
  /\ GoTo(x, sched[x].then)
  /\ sched' = [sched EXCEPT ![x] = Idle]
  /\ UNCHANGED <<coreVars, taskVars, tickVars, count, consumer>>

(* The tasks that somebody refers to: the others have not been spawned. *)
Spawned == {t \in Tasks :
  \/ t \in wakers \/ \E q \in Queues : t \in Elems(queue[q])
  \/ \E x \in Threads : sched[x].task = t
  \/ \E c \in Cores : hand[c] = t}

(* rt::spawn, on a thread without a scheduler: through the injector, unbound. *)
SpawnInjected(w) ==
  /\ w \in Wakers /\ At(w, "idle")
  /\ \E t \in Tasks \ Spawned : Schedule(w, t, Injector, "idle")
  /\ UNCHANGED <<coreVars, queueVars, taskVars, tickVars>>

(* rt::spawn inside a poll: spawn_inner on the core's own scheduler. *)
SpawnLocal(c) ==
  /\ At(c, "poll") /\ c \in local
  /\ \E t \in Tasks \ Spawned :
       /\ flags' = [flags EXCEPT ![t] = {"WOKEN"}]
       /\ bound' = [bound EXCEPT ![t] = c]
       /\ Schedule(c, t, c, "poll")
  /\ UNCHANGED <<coreVars, queueVars, tickVars, wakers>>

Sleeps(f) == f = {}

(* Schedulable::wake_by_ref, by anybody who is not polling the task itself.  *)
(* The task goes to the scheduler it is bound to by now.                     *)
Wake(w) ==
  /\ w \in Wakers /\ At(w, "idle")
  /\ \E t \in wakers :
       /\ flags[t] \cap {"WOKEN", "COMPLETED"} = {}
       /\ flags' = [flags EXCEPT ![t] = @ \cup {"WOKEN"}]
       /\ IF Sleeps(flags[t]) THEN Schedule(w, t, bound[t], "idle") ELSE UNCHANGED <<pc, sched>>
  /\ UNCHANGED <<coreVars, queueVars, tickVars, bound, wakers>>

-----------------------------------------------------------------------------
(* Starting and stopping cores *)

(* Runtime::new_scheduler: the number of active cores goes up before the     *)
(* scheduler exists.  Cores are named by the number they get.                *)
NewScheduler(c) ==
  /\ At(c, "off") /\ c = initialized
  /\ initialized' = initialized + 1
  /\ GoTo(c, "init")
  /\ UNCHANGED <<ready, running, local, queueVars, taskVars, tickVars, sched>>

InitScheduler(c) ==
  /\ At(c, "init")
  /\ ready' = ready \cup {c}
  /\ GoTo(c, "stopped")
  /\ UNCHANGED <<initialized, running, local, queueVars, taskVars, tickVars, sched>>

(* Core::run *)
Run(c) ==
  /\ At(c, "stopped")
  /\ running' = running \cup {c}
  /\ local' = local \cup {c}
  /\ GoTo(c, "consume")
  /\ UNCHANGED <<initialized, ready, queueVars, taskVars, tickVars, sched>>

(* Core::stop, by anybody; it only takes effect when the core runs dry. *)
Stop(c) ==
  /\ c \in running \cap Stoppable
  /\ running' = running \ {c}
  /\ UNCHANGED <<initialized, ready, local, queueVars, taskVars, tickVars, pc, sched>>

(* The end of the loop in Core::run: shut down, or wait for an interrupt. *)
CheckRunning(c) ==
  /\ At(c, "check")
  /\ IF c \in running
     THEN GoTo(c, "asleep") /\ UNCHANGED local
     ELSE GoTo(c, "stopped") /\ local' = local \ {c}
  /\ attempts' = [attempts EXCEPT ![c] = 0]
  /\ UNCHANGED <<initialized, ready, running, queueVars, taskVars, hand, polled, victim, sched>>

(* The timer interrupts a core that waits. *)
Interrupt(c) ==
  /\ At(c, "asleep")
  /\ GoTo(c, "consume")
  /\ UNCHANGED <<coreVars, queueVars, taskVars, tickVars, sched>>

-----------------------------------------------------------------------------
(* Core::tick_n *)

(* MpscQueue::try_dequeue: Busy and Empty both end the tick. *)
TryConsume(c) ==
  /\ At(c, "consume")
  /\ IF polled[c] < DEFAULT_TICK_SIZE /\ consumer[c] = None
     THEN consumer' = [consumer EXCEPT ![c] = c] /\ GoTo(c, "dequeue")
     ELSE GoTo(c, "remaining") /\ UNCHANGED consumer
  /\ UNCHANGED <<coreVars, taskVars, tickVars, queue, count, sched>>

Release(q) == consumer' = [consumer EXCEPT ![q] = None]

Dequeue(c) ==
  /\ At(c, "dequeue")
  /\ Release(c)
  /\ IF queue[c] = <<>>
     THEN GoTo(c, "remaining") /\ UNCHANGED <<queue, hand>>
     ELSE /\ hand' = [hand EXCEPT ![c] = Head(queue[c])]
          /\ queue' = [queue EXCEPT ![c] = Tail(@)]
          /\ GoTo(c, "sub")
  /\ UNCHANGED <<coreVars, taskVars, count, polled, victim, attempts, sched>>

Off(n) == n - 1

Sub(c) ==
  /\ At(c, "sub")
  /\ count' = [count EXCEPT ![c] = Off(@)]
  /\ GoTo(c, "start")
  /\ UNCHANGED <<coreVars, taskVars, tickVars, queue, consumer, sched>>

(* StateCell::start_poll; tasks that cannot be polled are dropped. *)
StartPoll(c) ==
  /\ At(c, "start")
  /\ polled' = [polled EXCEPT ![c] = @ + 1]
  /\ IF flags[hand[c]] \cap {"POLLING", "COMPLETED"} = {}
     THEN /\ flags' = [flags EXCEPT ![hand[c]] = {"POLLING"}]
          /\ wakers' = wakers \cup {hand[c]}
          /\ GoTo(c, "poll")
          /\ UNCHANGED hand
     ELSE hand' = [hand EXCEPT ![c] = NoTask] /\ GoTo(c, "consume") /\ UNCHANGED <<flags, wakers>>
  /\ UNCHANGED <<coreVars, queueVars, bound, victim, attempts, sched>>

DropWoken(f) == FALSE  \* mutant of WokenInPoll: PollResult::PendingSchedule is ignored
WokenInPoll(f) == "WOKEN" \in f

(* The future is ready or pending, and end_poll: a task that was woken        *)
(* during the poll is scheduled again.                                       *)
EndPoll(c) ==
  /\ At(c, "poll")
  /\ hand' = [hand EXCEPT ![c] = NoTask]
  /\ \/ /\ flags' = [flags EXCEPT ![hand[c]] = (@ \ {"POLLING"}) \cup {"COMPLETED"}]
        /\ GoTo(c, "consume") /\ UNCHANGED sched
     \/ /\ flags' = [flags EXCEPT ![hand[c]] = @ \ {"POLLING"}]
        /\ IF WokenInPoll(flags[hand[c]]) THEN Schedule(c, hand[c], c, "consume")
           ELSE GoTo(c, "consume") /\ UNCHANGED sched
  /\ UNCHANGED <<coreVars, queueVars, bound, wakers, polled, victim, attempts>>

(* tick.has_remaining: tick again, or look for work elsewhere. *)
HasRemaining(c) ==
  /\ At(c, "remaining")
  /\ polled' = [polled EXCEPT ![c] = 0]
  /\ GoTo(c, IF count[c] > 0 THEN "consume" ELSE "injector")
  /\ UNCHANGED <<coreVars, queueVars, taskVars, hand, victim, attempts, sched>>

-----------------------------------------------------------------------------
(* Core::try_steal, Stealer *)

MoreThanOne(n) == n > 1  \* mutant of NonEmpty
NonEmpty(n) == n > 0

(* Stealer::try_new reads the counter first ... *)
TryNew(c, q, max, failed) ==
  IF q \in ready \cup {Injector} /\ NonEmpty(count[q])
  THEN victim' = [victim EXCEPT ![c] = [on |-> q, max |-> max, stolen |-> 0]] /\ GoTo(c, "stealer")
  ELSE GoTo(c, failed) /\ UNCHANGED victim

AfterFailure(c) == IF attempts[c] = MAX_STEAL_ATTEMPTS THEN "check" ELSE "pick"

(* The injector is tried before and after the other cores. *)
StealInjected(c) ==
  /\ At(c, "injector")
  /\ TryNew(c, Injector, MAX_STOLEN_PER_TICK, AfterFailure(c))
  /\ UNCHANGED <<coreVars, queueVars, taskVars, hand, polled, attempts, sched>>

Half(n) == IF n \div 2 < MAX_STOLEN_PER_TICK THEN n \div 2 ELSE MAX_STOLEN_PER_TICK

(* A random victim, which may have no scheduler yet or no tasks. *)
Pick(c) ==
  /\ At(c, "pick")
  /\ \/ /\ initialized <= 1
        /\ attempts' = [attempts EXCEPT ![c] = MAX_STEAL_ATTEMPTS]
        /\ GoTo(c, "injector")
        /\ UNCHANGED victim
     \/ \E v \in (0..(initialized - 1)) \ {c} :
          /\ attempts' = [attempts EXCEPT ![c] = @ + 1]
          /\ TryNew(c, v, Half(count[v]),
               IF attempts[c] + 1 = MAX_STEAL_ATTEMPTS THEN "injector" ELSE "pick")
  /\ UNCHANGED <<coreVars, queueVars, taskVars, hand, polled, sched>>

(* ... then tries to become the consumer of a queue that may have changed. *)
BecomeConsumer(c) ==
  /\ At(c, "stealer")
  /\ LET q == victim[c].on IN
     IF consumer[q] = None
     THEN /\ consumer' = [consumer EXCEPT ![q] = c]
          /\ attempts' = [attempts EXCEPT ![c] = 0]
          /\ GoTo(c, "steal")
          /\ UNCHANGED victim
     ELSE /\ victim' = [victim EXCEPT ![c] = NoVictim]
          /\ GoTo(c, IF q = Injector THEN AfterFailure(c)
                     ELSE IF attempts[c] = MAX_STEAL_ATTEMPTS THEN "injector" ELSE "pick")
          /\ UNCHANGED <<consumer, attempts>>
  /\ UNCHANGED <<coreVars, taskVars, hand, polled, queue, count, sched>>

(* Stealer::spawn_n; the Stealer is dropped when it is done. *)
SpawnN(c) ==
  /\ At(c, "steal")
  /\ LET q == victim[c].on IN
     IF victim[c].stolen <= victim[c].max /\ queue[q] # <<>>
     THEN /\ sched' = [sched EXCEPT ![c] = [task |-> Head(queue[q]), on |-> c, then |-> "steal"]]
          /\ queue' = [queue EXCEPT ![q] = Tail(@)]
          /\ victim' = [victim EXCEPT ![c].stolen = @ + 1]
          /\ GoTo(c, "stolen")
          /\ UNCHANGED consumer
     ELSE /\ Release(q)
          /\ GoTo(c, IF victim[c].stolen > 0 THEN "consume" ELSE "check")
          /\ victim' = [victim EXCEPT ![c] = NoVictim]
          /\ UNCHANGED <<sched, queue>>
  /\ UNCHANGED <<coreVars, taskVars, hand, polled, attempts, count>>

Bind(b, t, c) == [b EXCEPT ![t] = c]

(* Stealer::spawn_one: the victim's counter, bind_scheduler, then schedule. *)
SpawnOne(c) ==
  /\ At(c, "stolen")
  /\ count' = [count EXCEPT ![victim[c].on] = Off(@)]
  /\ bound' = Bind(bound, sched[c].task, c)
  /\ GoTo(c, "add")
  /\ UNCHANGED <<coreVars, tickVars, queue, consumer, flags, wakers, sched>>

-----------------------------------------------------------------------------
Continue(c) ==
  \/ Add(c) \/ Enqueue(c) \/ InitScheduler(c) \/ CheckRunning(c) \/ Interrupt(c)
  \/ TryConsume(c) \/ Dequeue(c) \/ Sub(c) \/ StartPoll(c) \/ EndPoll(c)
  \/ HasRemaining(c) \/ StealInjected(c) \/ Pick(c) \/ BecomeConsumer(c) \/ SpawnN(c) \/ SpawnOne(c)

Next ==
  \/ \E c \in Cores : Continue(c) \/ NewScheduler(c) \/ Run(c) \/ Stop(c) \/ SpawnLocal(c)
  \/ \E w \in Wakers : Add(w) \/ Enqueue(w) \/ SpawnInjected(w) \/ Wake(w)

Spec == Init /\ [][Next]_vars

(* A core that has been started goes on, its polls return and interrupts     *)
(* come; a waker that has begun finishes.  Nobody has to start, stop, spawn  *)
(* or wake anything.                                                         *)
Fairness ==
  /\ \A c \in Cores : WF_vars(Continue(c))
  /\ \A w \in Wakers : WF_vars(Add(w) \/ Enqueue(w))

FairSpec == Spec /\ Fairness

-----------------------------------------------------------------------------
(* Properties *)

QueuedTimes(t) == Cardinality({qi \in UNION {{q} \X DOMAIN queue[q] : q \in Queues} : queue[qi[1]][qi[2]] = t})
Holding(t) == Cardinality({x \in Threads : sched[x].task = t}) + Cardinality({c \in Cores : hand[c] = t})

(* Each queue's counter is its length, plus the tasks that are about to be    *)
(* put there and those just taken: it never goes below zero, and where it is *)
(* zero there is no task that a sleeping core or a thief would miss.         *)
CountIsExact ==
  \A q \in Queues : count[q] =
    Len(queue[q]) + Cardinality({x \in Threads : At(x, "enqueue") /\ sched[x].on = q})
      + Cardinality({c \in Cores : At(c, "sub") /\ c = q})
      + Cardinality({c \in Cores : At(c, "stolen") /\ victim[c].on = q})

(* However tasks are woken, polled and stolen, a task is in one place only;   *)
(* and a task that has been woken is somewhere, unless it has completed.     *)
TaskIsInOnePlace ==
  \A t \in Tasks :
    /\ QueuedTimes(t) + Holding(t) <= 1
    /\ "WOKEN" \in flags[t] /\ "COMPLETED" \notin flags[t] => QueuedTimes(t) + Holding(t) = 1

(* A task is bound to the scheduler on whose queue it is and which polls it, *)
(* so a wake never finds it unbound (task.rs:863, "cannot schedule a task    *)
(* that has not been bound to a scheduler!") nor sends it elsewhere.         *)
BoundToItsQueue ==
  /\ \A c \in Cores : \A t \in Elems(queue[c]) : bound[t] = c
  /\ \A c \in Cores : hand[c] # NoTask => bound[hand[c]] = c
  /\ \A w \in Wakers : sched[w].task \in wakers => sched[w].on = bound[sched[w].task]
  /\ \A t \in wakers : bound[t] # None

(* All of it: no schedule loses a task, runs it twice or hides it from a core *)
(* that is about to sleep.                                                   *)
TasksArePlaced == CountIsExact /\ TaskIsInOnePlace /\ BoundToItsQueue

(* A task on the queue of a core that runs is polled or stolen in the end,    *)
(* unless the core is stopped: neither thieves nor tasks that always wake    *)
(* themselves keep it there for ever.                                        *)
QueueIsServed ==
  \A t \in Tasks :
    []<>(\A c \in running : t \notin Elems(queue[c]))

(* A task on the injector queue is taken, unless there is always a moment at *)
(* which no core runs or all that run have tasks of their own.               *)
InjectedIsStolen ==
  \A t \in Tasks :
    []<>(t \notin Elems(queue[Injector]) \/ \A c \in running : count[c] > 0)
=============================================================================

-------------------------------- MODULE MCLive --------------------------------
(* WaitCell, and the liveness of WaitQueue, Semaphore and Timer.  Which of     *)
(* them the program uses is chosen in the initial state; the others stay as    *)
(* they are, and nothing is shared.                                            *)
EXTENDS WaitCell, FiniteSets

CONSTANTS Tasks, NoOne, Usages, MaxWakeAlls, Initial, Sizes, UsizeMax,
          Sleeps, Driver, WheelBits, Durations, MaxTime

VARIABLES
  which,
  qstate, qlist, qlock, qnode, wstate, walls, qpc, snap, qhand, ret, qnotified, res, ops,
  permits, queue, closed, lock, spc, sfut, loc, shand, held, snotified, total, changes,
  clock, now, slots, occupied, tstate, deadline, linked, cell, task, core

Queue == INSTANCE WaitQueue WITH Waiters <- Tasks, Wakers <- Notifiers, BatchSize <- 1,
           MayDrop <- FALSE, Spurious <- FALSE, Subscribes <- TRUE,
           state <- qstate, queue <- qlist, lock <- qlock, node <- qnode, pc <- qpc,
           hand <- qhand, notified <- qnotified
Sem == INSTANCE Semaphore WITH BatchSize <- 1, MayClose <- FALSE, Spurious <- FALSE,
         MaxChanges <- 0, pc <- spc, fut <- sfut, hand <- shand, notified <- snotified
Wheel == INSTANCE Timer WITH Bits <- WheelBits, state <- tstate, Null <- NoOne

queueVars == <<qstate, qlist, qlock, qnode, wstate, walls, qpc, snap, qhand, ret, qnotified,
               res, ops>>
semVars == <<permits, queue, closed, lock, spc, sfut, loc, shand, held, snotified, total, changes>>
timerVars == <<clock, now, slots, occupied, tstate, deadline, linked, cell, task, core>>
liveVars == <<which, vars, queueVars, semVars, timerVars>>

LiveInit ==
  /\ which \in {"WaitCell", "WaitQueue", "Semaphore", "Timer"}
  /\ Init /\ Queue!Init /\ Sem!Init /\ Wheel!Init
  /\ which # "WaitQueue" => ops = {"close"}

UsesCell == which = "WaitCell" /\ UNCHANGED <<which, queueVars, semVars, timerVars>>
UsesQueue == which = "WaitQueue" /\ UNCHANGED <<which, vars, semVars, timerVars>>
UsesSem == which = "Semaphore" /\ UNCHANGED <<which, vars, queueVars, timerVars>>
UsesTimer == which = "Timer" /\ UNCHANGED <<which, vars, queueVars, semVars>>

LiveNext ==
  \/ UsesCell /\ Next
  \/ UsesQueue /\ Queue!Next
  \/ UsesSem /\ Sem!Next
  \/ UsesTimer /\ Wheel!Next

(* The fairness that each module states for its specification. *)
LiveSpec ==
  /\ LiveInit /\ [][LiveNext]_liveVars
  /\ \A w \in Waiters : WF_liveVars(\/ UsesCell /\ pc[w] # "idle" /\ Waiter(w)
                                    \/ UsesTimer /\ Wheel!CoreStep)
  /\ \A n \in Notifiers : WF_liveVars(UsesCell /\ pc[n] # "idle" /\ Notifier(n))
  /\ \A w \in Tasks : SF_liveVars(
       \/ UsesQueue /\ (Queue!Poll(w) \/ Queue!RelStore(w) \/ Queue!Finish(w))
       \/ UsesSem /\ (Sem!Proceed(w) \/ Sem!Release(w))
       \/ UsesTimer /\ w \in Sleeps /\ Wheel!SleepStep(w))
  /\ \A n \in Notifiers : SF_liveVars(UsesQueue /\ Queue!Finish(n))
  /\ SF_liveVars(UsesTimer /\ Wheel!Tick) /\ SF_liveVars(UsesTimer /\ Wheel!Turn)

-----------------------------------------------------------------------------
(* WaitQueue: every future that existed when wake_all() was called completes,  *)
(* also one that is first polled later, and after close() every future; both   *)
(* in batches of one, with the lock released in between.                       *)
QueueReleasesEveryone == Queue!WakeAllWakesEveryone /\ Queue!CloseReleasesEveryone

(* Semaphore: a task that queues for permits is granted them in the end, if holders*)
(* release theirs.                                                            *)
WaitersProgress == Sem!WaitersProgress

(* Timer: a sleep that is polled, while the driver keeps turning the wheel, completes. *)
SleepsEnd == Wheel!SleepsEnd
=============================================================================

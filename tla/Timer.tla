-------------------------------- MODULE Timer --------------------------------
(***************************************************************************)
(* maitake/src/time/timer.rs, timer/wheel.rs and timer/sleep.rs: the       *)
(* hierarchical timer wheel, the threads that turn it and the Sleep        *)
(* futures in it.  The wheel is only touched under the core's lock; the    *)
(* clock runs on meanwhile, entries are fired one by one, and a Sleep may  *)
(* be polled or dropped at any moment.  SLOTS is 2^Bits and, as in the     *)
(* code, there are Bits wheels (6 there).  A Sleep's WaitCell is atomic    *)
(* here; module WaitCell has it in detail.                                 *)
(***************************************************************************)
EXTENDS Integers, Sequences, FiniteSets, FiniteSetsExt, SequencesExt

CONSTANTS Sleeps, Driver,   \* futures; the thread that turns the timer
          Bits,             \* Wheel::BITS, and Core::WHEELS
          Durations,        \* of sleeps, in ticks
          MaxTime,          \* bound: the clock stops here
          Null

SLOTS == 2^Bits
Levels == 0..(Bits - 1)

VARIABLES
  clock,              \* what Clock::now_ticks returns
  now,                \* Core::now
  slots,              \* Wheel::slots of each wheel: sequences of sleeps
  occupied,           \* occupied_slots of each wheel: a set of slots
  state, deadline,    \* Sleep::state and Entry::deadline of each sleep
  linked, cell,       \* Entry::linked; Entry::waker: "empty", "waiting", "closed"
  task,               \* what the task of each sleep is about to do
  core                \* the core's lock: Null, or what its holder works on

vars == <<clock, now, slots, occupied, state, deadline, linked, cell, task, core>>
wheels == <<now, slots, occupied>>
entries == <<state, deadline, linked, cell>>

Init ==
  /\ clock = 0 /\ now = 0
  /\ slots = [w \in Levels |-> [i \in 0..(SLOTS - 1) |-> <<>>]]
  /\ occupied = [w \in Levels |-> {}]
  /\ state = [s \in Sleeps |-> "none"] /\ deadline = [s \in Sleeps |-> 0]
  /\ linked = [s \in Sleeps |-> FALSE] /\ cell = [s \in Sleeps |-> "empty"]
  /\ task = [s \in Sleeps |-> "idle"]
  /\ core = Null

-----------------------------------------------------------------------------
(* Arithmetic of the wheels *)

TicksPerSlot(w) == SLOTS^w
TicksPerWheel(w) == SLOTS^(w + 1)
SlotIndex(w, ticks) == (ticks \div TicksPerSlot(w)) % SLOTS

(* wheel_index: the highest bit in which the two differ, over the bits of a  *)
(* wheel; what differs beyond the top wheel goes there.                      *)
WheelIndex(from, ticks) ==
  LET differ == {w \in Levels : w > 0 /\ from \div TicksPerSlot(w) # ticks \div TicksPerSlot(w)}
  IN Max(differ \cup {0})

(* next_set_bit: from offset on, else around the word. *)
NextSetBit(bits, offset) ==
  IF \E i \in bits : i >= offset THEN Min({i \in bits : i >= offset}) ELSE Min(bits) + SLOTS

(* Wheel::next_deadline. *)
WheelNextDeadline(w, at) ==
  LET distance == NextSetBit(occupied[w], SlotIndex(w, at))
      slot == distance % SLOTS
      skipped == IF distance < SLOTS THEN 0 ELSE distance - SLOTS
  IN [ticks |-> at - (at % TicksPerWheel(w)) + slot * TicksPerSlot(w) + skipped * TicksPerWheel(w),
      slot |-> slot, wheel |-> w]

Occupied == {w \in Levels : occupied[w] # {}}
NextDeadline == IF Occupied = {} THEN Null ELSE WheelNextDeadline(Min(Occupied), now)

-----------------------------------------------------------------------------
(* Wheel::insert of several entries, one after the other; Core::cancel_sleep *)

Place(s, at) == <<WheelIndex(at, deadline[s]), SlotIndex(WheelIndex(at, deadline[s]), deadline[s])>>
InsertAll(seq, at) ==
  LET new(w, i) == SelectSeq(seq, LAMBDA s : Place(s, at) = <<w, i>>) IN
  IF seq = <<>> THEN UNCHANGED <<slots, occupied>>
  ELSE /\ slots' = [w \in Levels |-> [i \in 0..(SLOTS - 1) |-> Reverse(new(w, i)) \o slots[w][i]]]
       /\ occupied' = [w \in Levels |-> occupied[w] \cup {i \in 0..(SLOTS - 1) : new(w, i) # <<>>}]

ClearIfEmpty(w, i, left) == IF left = <<>> THEN occupied[w] \ {i} ELSE occupied[w]

-----------------------------------------------------------------------------
(* advance_locked and Core::turn_to *)

(* Sleep::new. *)
New(s, ticks) ==
  /\ state[s] = "none"
  /\ clock + ticks <= MaxTime
  /\ state' = [state EXCEPT ![s] = "Unregistered"]
  /\ deadline' = [deadline EXCEPT ![s] = clock + ticks]
  /\ UNCHANGED <<clock, wheels, linked, cell, task, core>>

(* The clock is read when the lock has been taken and at the end of a turn;   *)
(* ticks in between are no different from ticks just before the latter.       *)
Tick ==
  /\ clock < MaxTime
  /\ core # Null => core.phase = "check"
  /\ clock' = clock + 1
  /\ UNCHANGED <<wheels, entries, task, core>>

(* turn, try_turn and the first poll of a sleep lock the core, then read the *)
(* clock.                                                                    *)
Lock(who) ==
  /\ core = Null
  /\ core' = [by |-> who, phase |-> "turn", to |-> clock, taken |-> <<>>, pending |-> <<>>, ticks |-> 0,
              next |-> Null]

Turn == Lock(Driver) /\ UNCHANGED <<clock, wheels, entries, task>>

PollUnregistered(s) ==
  /\ state[s] = "Unregistered"
  /\ task[s] = "idle"
  /\ Lock(s)
  /\ UNCHANGED <<clock, wheels, entries, task>>

Due == NextDeadline # Null /\ NextDeadline.ticks <= core.to

(* A round of turn_to takes the slot that is due. *)
TakeSlot ==
  LET next == NextDeadline IN
  /\ core # Null
  /\ core.phase = "turn"
  /\ Due
  /\ core' = [core EXCEPT !.phase = "fire", !.taken = slots[next.wheel][next.slot], !.ticks = next.ticks]
  /\ slots' = [slots EXCEPT ![next.wheel][next.slot] = <<>>]
  /\ occupied' = [occupied EXCEPT ![next.wheel] = @ \ {next.slot}]
  /\ UNCHANGED <<clock, now, entries, task>>

(* mutant of NotYet: everything in the slot is fired *)
NoneIsEarly(s) == FALSE
NotYet(s) == deadline[s] > core.to

(* The first entry is done with; after the last one, `now` moves on. *)
Done(pending) ==
  LET rest == Tail(core.taken) IN
  /\ core' = [core EXCEPT !.taken = rest, !.pending = pending, !.ticks = IF rest = <<>> THEN 0 ELSE @,
                          !.phase = IF rest = <<>> THEN "turn" ELSE "fire"]
  /\ now' = IF rest = <<>> THEN core.ticks ELSE now

(* Its entries are fired, or kept to be put on a lower wheel.  Entry::fire   *)
(* closes the WaitCell and then clears `linked`.                             *)
FireNext ==
  /\ core # Null
  /\ core.phase = "fire"
  /\ LET s == Head(core.taken) IN
     IF NotYet(s)
     THEN Done(<<s>> \o core.pending) /\ UNCHANGED <<cell, task>>
     ELSE /\ cell' = [cell EXCEPT ![s] = "closed"]
          /\ task' = [task EXCEPT ![s] = IF cell[s] = "waiting" /\ @ = "parked" THEN "woken" ELSE @]
          /\ core' = [core EXCEPT !.phase = "unlink"]
          /\ UNCHANGED now
  /\ UNCHANGED <<clock, slots, occupied, state, deadline, linked>>

Unlink ==
  /\ core # Null
  /\ core.phase = "unlink"
  /\ linked' = [linked EXCEPT ![Head(core.taken)] = FALSE]
  /\ Done(core.pending)
  /\ UNCHANGED <<clock, slots, occupied, state, deadline, cell, task>>

(* mutant of Kept: entries that were taken too early are forgotten *)
NotKept == UNCHANGED <<slots, occupied>>
Kept == InsertAll(core.pending, core.to)

(* No slot is due: the kept entries go back into the wheels.  The next       *)
(* deadline that turn_to returns is the one it saw before it set `now`,      *)
(* unless entries were put back.                                             *)
TurnDone ==
  /\ core # Null
  /\ core.phase = "turn"
  /\ ~Due
  /\ now' = core.to
  /\ Kept
  /\ core' = [core EXCEPT !.phase = "check", !.pending = <<>>,
                          !.next = IF core.pending = <<>> THEN NextDeadline ELSE NextDeadline']
  /\ UNCHANGED <<clock, entries, task>>

Passed(next) == next # Null /\ next.ticks <= clock

(* advance_locked turns again when the next deadline has passed meanwhile. *)
TurnAgain ==
  /\ core # Null
  /\ core.phase = "check"
  /\ Passed(core.next)
  /\ core' = [core EXCEPT !.phase = "turn", !.to = clock, !.next = Null]
  /\ UNCHANGED <<clock, wheels, entries, task>>

Finished(who) ==
  /\ core # Null
  /\ core.phase = "check"
  /\ core.by = who
  /\ ~Passed(core.next)
  /\ core' = Null

TurnReturn == Finished(Driver) /\ UNCHANGED <<clock, wheels, entries, task>>

(* register_sleep: a sleep that is over fires at once. *)
Register(s) ==
  /\ Finished(s)
  /\ IF deadline[s] <= now
     THEN /\ cell' = [cell EXCEPT ![s] = "closed"]
          /\ state' = [state EXCEPT ![s] = "Completed"]
          /\ UNCHANGED <<linked, slots, occupied, task>>
     ELSE /\ linked' = [linked EXCEPT ![s] = TRUE]
          /\ InsertAll(<<s>>, now)
          /\ state' = [state EXCEPT ![s] = "Registered"]
          /\ task' = [task EXCEPT ![s] = "wait"]
          /\ UNCHANGED cell
  /\ UNCHANGED <<clock, now, deadline>>

-----------------------------------------------------------------------------
(* Sleep::poll of a registered sleep, and Sleep::drop *)

PollWait(s) ==
  /\ task[s] \in {"wait", "woken"}
  /\ IF cell[s] = "closed" THEN task' = [task EXCEPT ![s] = "ready"] /\ UNCHANGED cell
     ELSE cell' = [cell EXCEPT ![s] = "waiting"] /\ task' = [task EXCEPT ![s] = "parked"]
  /\ UNCHANGED <<clock, wheels, state, deadline, linked, core>>

(* mutant of SeesUnlinked: the WaitCell is looked at instead *)
SeesClosed(s) == cell[s] = "closed" \/ ~linked[s]
SeesUnlinked(s) == ~linked[s]

Freed(s) ==
  /\ state' = [state EXCEPT ![s] = "dropped"]
  /\ task' = [task EXCEPT ![s] = "idle"]
  /\ deadline' = [deadline EXCEPT ![s] = 0]
  /\ cell' = [cell EXCEPT ![s] = "empty"]

(* drop reads `linked` without the lock. *)
Drop(s) ==
  /\ state[s] \notin {"none", "dropped"}
  /\ task[s] \in {"idle", "parked", "woken", "ready"}
  /\ ~(core # Null /\ core.by = s)
  /\ IF SeesUnlinked(s)
     THEN Freed(s)
     ELSE task' = [task EXCEPT ![s] = "cancel"] /\ UNCHANGED <<state, deadline, cell>>
  /\ UNCHANGED <<clock, wheels, linked, core>>

(* cancel_sleep looks where the entry would be inserted now; remove does     *)
(* nothing if it is not there any more.                                      *)
CancelSleep(s) ==
  LET w == Place(s, now)[1]  i == Place(s, now)[2]
      left == SelectSeq(slots[w][i], LAMBDA e : e # s)
  IN
  /\ task[s] = "cancel"
  /\ core = Null
  /\ slots' = [slots EXCEPT ![w][i] = left]
  /\ occupied' = [occupied EXCEPT ![w] = ClearIfEmpty(w, i, left)]
  /\ linked' = [linked EXCEPT ![s] = @ /\ s \notin Range(slots[w][i])]
  /\ Freed(s)
  /\ UNCHANGED <<clock, now, core>>

CoreStep == TakeSlot \/ FireNext \/ Unlink \/ TurnDone \/ TurnAgain \/ TurnReturn
SleepStep(s) == PollUnregistered(s) \/ Register(s) \/ PollWait(s) \/ CancelSleep(s)

Next ==
  \/ Tick \/ Turn \/ CoreStep
  \/ \E s \in Sleeps : SleepStep(s) \/ Drop(s) \/ \E ticks \in Durations : New(s, ticks)

Spec == Init /\ [][Next]_vars

(* The clock runs, the kernel's loop turns the timer, and executors poll what *)
(* is new or woken; nobody has to drop a sleep.                              *)
Fairness ==
  /\ SF_vars(Tick) /\ SF_vars(Turn) /\ WF_vars(CoreStep)
  /\ \A s \in Sleeps : SF_vars(SleepStep(s))

FairSpec == Spec /\ Fairness

-----------------------------------------------------------------------------
(* Properties *)

(* wheel_tests.rs:182, "expected ... tasks to complete when advancing the     *)
(* timer": no sleep completes before its deadline, and once the timer has    *)
(* been turned to a time, none that is due by then is left.                  *)
FiresOnTime ==
  /\ \A s \in Sleeps : cell[s] = "closed" => deadline[s] <= clock
  /\ core = Null => \A s \in Sleeps : linked[s] => deadline[s] > now

(* While nobody turns the wheel, every linked entry is in the one slot where  *)
(* cancel_sleep would look for it, however `now` has moved since it was put  *)
(* there, and the bit of a slot says whether anything is in it.              *)
EntriesAreFindable ==
  core = Null =>
    /\ \A s \in Sleeps, w \in Levels, i \in 0..(SLOTS - 1) :
         s \in Range(slots[w][i]) <=> linked[s] /\ Place(s, now) = <<w, i>>
    /\ \A w \in Levels : occupied[w] = {i \in 0..(SLOTS - 1) : slots[w][i] # <<>>}

(* A dropped sleep is memory that may be reused: no list holds it, and       *)
(* nobody who turns the wheel still has it in hand.                          *)
NoEntryDangles ==
  \A s \in Sleeps : state[s] = "dropped" =>
    /\ \A w \in Levels, i \in 0..(SLOTS - 1) : s \notin Range(slots[w][i])
    /\ core # Null => s \notin Range(core.taken) \cup Range(core.pending)

(* Both: cancel_sleep finds what it has to unlink, and does.                  *)
SleepsAreTracked == EntriesAreFindable /\ NoEntryDangles

(* A sleep that has been polled completes, unless it is dropped. *)
SleepsEnd ==
  \A s \in Sleeps : state[s] = "Registered" ~> task[s] = "ready" \/ state[s] = "dropped"
=============================================================================

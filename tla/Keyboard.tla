------------------------------- MODULE Keyboard -------------------------------
(***************************************************************************)
(* src/drivers/ps2_keyboard.rs: the interrupt handler puts decoded keys     *)
(* into a bounded buffer and wakes the tasks that wait in a WaitQueue;     *)
(* next_key takes a key or waits for one.  The module composes the actions *)
(* of WaitQueue: Waiters are the tasks that call next_key, in a loop as    *)
(* keyboard_demo does (src/lib.rs), and the only waker is the handler.     *)
(*                                                                         *)
(* There is one core (see Interrupts): once the handler has begun, no task *)
(* takes a step until it returns.  Keys are all alike.                     *)
(***************************************************************************)
EXTENDS WaitQueue

CONSTANTS Isr,      \* the handler: Wakers = {Isr}
          Capacity  \* of the buffer

VARIABLES
  keys,   \* the number of keys in the buffer
  place,  \* where each task is in next_key
  isr     \* where the handler is: "out", "pushed", "waking"

kbdVars == <<keys, place, isr>>

InitKeyboard ==
  /\ Init
  /\ keys = 0
  /\ place = [r \in Waiters |-> "pop"]
  /\ isr = "out"

(* The task runs: it is not interrupted. *)
Runs(r, at) == isr = "out" /\ place[r] = at
To(r, at) == place' = [place EXCEPT ![r] = at]

(* StaticThingBuf::pop; next_key returns, and is called again. *)
Pop(r) ==
  /\ Runs(r, "pop")
  /\ IF keys > 0 THEN keys' = keys - 1 /\ UNCHANGED place
                 ELSE To(r, "create") /\ UNCHANGED keys
  /\ UNCHANGED <<isr, vars>>

CreateWait(r) ==
  /\ Runs(r, "create") /\ NewWait(r)
  /\ To(r, "await")
  /\ UNCHANGED <<keys, isr>>

(* The task polls next_key's future, or drops it. *)
Await(r) ==
  /\ Runs(r, "await")
  /\ Poll(r) \/ Drop(r) \/ RelStore(r) \/ Finish(r)
  /\ UNCHANGED kbdVars

(* The wait is over.  A task that has been woken expects to find a key. *)
Awaited(r) ==
  /\ Runs(r, "await") /\ pc[r] = "idle"
  /\ CASE res[r] # "Ok" -> To(r, "pop") /\ UNCHANGED keys
       [] res[r] = "Ok" /\ keys > 0 -> To(r, "pop") /\ keys' = keys - 1
       [] res[r] = "Ok" /\ keys = 0 -> To(r, "panicked") /\ UNCHANGED keys
  /\ UNCHANGED <<isr, vars>>

NotPushed(n) == n  \* mutant of Pushed: the key is lost
(* StaticThingBuf::push: a key that does not fit is dropped. *)
Pushed(n) == IF n < Capacity THEN n + 1 ELSE n

(* handle_scancode: a scancode completes a key event.  (Other scancodes      *)
(* change the decoder only.)  MaxWakeAlls bounds the number of keys.         *)
Scancode ==
  /\ isr = "out" /\ isr' = "pushed" /\ state.alls < MaxWakeAlls
  /\ keys' = Pushed(keys)
  /\ UNCHANGED <<place, vars>>

(* waiters.wake_all(): the handler spins if the queue is locked. *)
WakeReaders ==
  \/ isr = "pushed" /\ isr' = "waking" /\ WakeAll(Isr) /\ UNCHANGED <<keys, place>>
  \/ isr = "waking" /\ pc[Isr] # "idle" /\ Finish(Isr) /\ UNCHANGED kbdVars
  \/ isr = "waking" /\ pc[Isr] = "idle" /\ isr' = "out" /\ UNCHANGED <<keys, place, vars>>

NextKeyboard ==
  \/ \E r \in Waiters : Pop(r) \/ CreateWait(r) \/ Await(r) \/ Awaited(r)
  \/ Scancode \/ WakeReaders

SpecKeyboard == InitKeyboard /\ [][NextKeyboard]_<<vars, kbdVars>>

-----------------------------------------------------------------------------
(* ps2_keyboard.rs:43: "we just got woken up, there should be a key in the   *)
(* buffer": the expect() holds, whatever the task was doing when the handler *)
(* interrupted it, if one task at a time calls next_key.                     *)
WokenFindsAKey == \A r \in Waiters : place[r] # "panicked"
=============================================================================

------------------------------- MODULE InitOnce -------------------------------
(* maitake-sync's InitOnce and Lazy (maitake-sync/src/spin/once.rs): threads   *)
(* race to initialise a cell and to borrow its contents.  Each step is one     *)
(* atomic operation on the state or one access to the contents.                *)
EXTENDS Naturals, FiniteSets

CONSTANTS Threads,   \* each has its own value to initialise the cell with
          Null       \* uninitialised contents; no reference

VARIABLES
  kind,      \* "InitOnce" or "Lazy"
  cell,      \* state: "UNINITIALIZED", "INITIALIZING" or "INITIALIZED"
  contents,  \* value: whose value it is
  opc,       \* where each thread is
  op,        \* the method it called
  ref        \* what the reference a thread got was pointing at

vars == <<kind, cell, contents, opc, op, ref>>

Init ==
  /\ kind \in {"InitOnce", "Lazy"}
  /\ cell = "UNINITIALIZED" /\ contents = Null
  /\ opc = [t \in Threads |-> "idle"]
  /\ op = [t \in Threads |-> "none"]
  /\ ref = [t \in Threads |-> Null]

Step(t, from, to) == opc[t] = from /\ opc' = [opc EXCEPT ![t] = to]

(* try_init, init and get_or_else of an InitOnce; get, get_mut and deref of a *)
(* Lazy; try_get and get, get_if_present of either.  get_or_else looks first.  *)
Methods == IF kind = "Lazy" THEN {"lazy_get", "try_get"}
           ELSE {"try_init", "init", "get_or_else", "try_get"}
Call(t) ==
  \E m \in Methods :
    /\ Step(t, "idle", IF m \in {"try_get", "get_or_else"} THEN "load" ELSE "exchange")
    /\ op' = [op EXCEPT ![t] = m]
    /\ ref' = [ref EXCEPT ![t] = Null]
    /\ UNCHANGED <<kind, cell, contents>>

(* What a failed compare_exchange leads to: an error, a panic, the get at the *)
(* end of get_or_else, or Lazy::init's loop.                                  *)
Lost(t) == IF op[t] = "lazy_get" THEN "spin" ELSE IF op[t] = "get_or_else" THEN "get" ELSE "idle"

(* The compare_exchange of try_init and of Lazy::init (mutant of Free: a load *)
(* followed by a store lets two threads in).                                  *)
NotDone == cell # "INITIALIZED"
Free == cell = "UNINITIALIZED"

Exchange(t) ==
  /\ \/ /\ Free
        /\ Step(t, "exchange", "write")
        /\ cell' = "INITIALIZING"
     \/ /\ ~Free
        /\ Step(t, "exchange", Lost(t))
        /\ UNCHANGED cell
  /\ UNCHANGED <<kind, contents, op, ref>>

Write(t) ==
  /\ Step(t, "write", "publish")
  /\ contents' = t
  /\ UNCHANGED <<kind, cell, op, ref>>

Publish(t) ==
  /\ Step(t, "publish", IF op[t] = "try_init" THEN "idle"
                        ELSE IF op[t] = "lazy_get" THEN "read" ELSE "get")
  /\ cell' = "INITIALIZED"
  /\ UNCHANGED <<kind, contents, op, ref>>

(* try_get, get, and Lazy::init's loop: what a load of the state leads to     *)
(* when the cell is not initialised ("idle" after None or a panic).           *)
Absent(t) == IF opc[t] = "spin" THEN "spin" ELSE IF op[t] = "get_or_else" /\ opc[t] = "load"
             THEN "exchange" ELSE "idle"

Load(t) ==
  /\ opc[t] \in {"load", "get", "spin"}
  /\ Step(t, opc[t], IF cell = "INITIALIZED" THEN "read" ELSE Absent(t))
  /\ UNCHANGED <<kind, cell, contents, op, ref>>

Read(t) ==
  /\ Step(t, "read", "idle")
  /\ ref' = [ref EXCEPT ![t] = contents]
  /\ UNCHANGED <<kind, cell, contents, op>>

Continue(t) == Exchange(t) \/ Write(t) \/ Publish(t) \/ Load(t) \/ Read(t)
Next == \E t \in Threads : Call(t) \/ Continue(t)

Spec == Init /\ [][Next]_vars

-----------------------------------------------------------------------------
(* Properties *)

(* Nobody reads the contents before they are written, or while somebody may   *)
(* still write them.                                                          *)
ReadsAreInitialized ==
  \A t \in Threads : opc[t] = "read" => contents # Null /\ \A u \in Threads : opc[u] # "write"

(* "A cell which may be initialized a single time": all references ever given *)
(* out point at the same value.                                               *)
ReferencesAgree ==
  \A t \in Threads : ref[t] # Null => ref[t] = contents /\ cell = "INITIALIZED"

(* Both. *)
InitializedOnce == ReadsAreInitialized /\ ReferencesAgree
=============================================================================

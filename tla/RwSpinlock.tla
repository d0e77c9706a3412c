------------------------------ MODULE RwSpinlock ------------------------------
(***************************************************************************)
(* maitake-sync/src/spin.rs, RwSpinlock: the lock of blocking::RwLock.     *)
(* One word: bit 0 is set while a writer holds the lock, the other bits    *)
(* count readers.  A reader announces itself first and takes that back if  *)
(* it finds a writer.  One step per atomic operation; a failed             *)
(* compare_exchange changes nothing, so it is no step.                     *)
(***************************************************************************)
EXTENDS Naturals

CONSTANTS Threads,  \* threads or CPU cores
          Width     \* bits of a usize (at least 3)

UNLOCKED == 0
WRITER == 1
READER == 2
UsizeMax == 2^Width - 1

VARIABLES
  state,  \* RwSpinlock::state
  pc      \* what each thread holds or is about to do

vars == <<state, pc>>

Init == state = UNLOCKED /\ pc = [t \in Threads |-> "idle"]

GoTo(t, l) == pc' = [pc EXCEPT ![t] = l]
FetchAdd(n) == state' = (state + n) % (UsizeMax + 1)
FetchSub(n) == state' = (state + (UsizeMax + 1) - n) % (UsizeMax + 1)

(* try_lock_shared, and each attempt of lock_shared: announce a reader. *)
TryLockShared(t) ==
  /\ pc[t] = "idle"
  /\ FetchAdd(READER)
  /\ GoTo(t, IF state >= UsizeMax - 2 * READER THEN "panicOverflow"
             ELSE IF state % 2 = WRITER THEN "undo" ELSE "reading")

(* There was a writer: undo the increment and bail. *)
UndoShared(t) ==
  /\ pc[t] = "undo"
  /\ FetchSub(READER)
  /\ GoTo(t, "idle")

(* RwLockReadGuard::drop. *)
UnlockShared(t) ==
  /\ pc[t] = "reading"
  /\ FetchSub(READER)
  /\ GoTo(t, "idle")

(* try_lock_exclusive, and the last attempt of lock_exclusive. *)
LockExclusive(t) ==
  /\ pc[t] = "idle"
  /\ state = UNLOCKED
  /\ state' = WRITER
  /\ GoTo(t, "writing")

(* RwLockWriteGuard::drop: a swap, whatever the word holds by now. *)
UnlockExclusive(t) ==
  /\ pc[t] = "writing"
  /\ state' = UNLOCKED
  /\ GoTo(t, "idle")

Next == \E t \in Threads :
  \/ TryLockShared(t) \/ UndoShared(t) \/ UnlockShared(t)
  \/ LockExclusive(t) \/ UnlockExclusive(t)

Spec == Init /\ [][Next]_vars

(* blocking/rwlock.rs:86, "an exclusive lock can't be acquired while an     *)
(* exclusive or shared lock exists, and a shared lock can't be acquire[d]   *)
(* while an exclusive lock exists", with readers that fail and take their   *)
(* announcement back at any time.                                           *)
WritersExcludeAll ==
  \A t, u \in Threads : pc[t] = "writing" /\ t # u => pc[u] \notin {"reading", "writing"}
=============================================================================

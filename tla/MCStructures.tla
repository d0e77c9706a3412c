----------------------------- MODULE MCStructures -----------------------------
(* WaitCell and the data structures: queues, lists, the timer wheel and page   *)
(* tables, on small instances.  Which of them the program uses is chosen in    *)
(* the initial state; the others stay as they are, and nothing is shared.      *)
EXTENDS WaitCell, Integers, Sequences, FiniteSets, TLC

CONSTANTS Elements, Producers, Consumers, Stub, Null,
          ListNodes,
          Sleeps, Driver, Durations, MaxTime,
          Pool

VARIABLES
  which,
  head, tail, next, hasConsumer, free, qpc, node, prev, last, result,
  shead, snext, unused, pushing, stack,
  list, spare, lnext, lprev, lfree, cursor, iter,
  clock, now, slots, occupied, tstate, deadline, linked, tcell, task, core,
  mem, recursive, pool, tlb, todo, mapping, mapped

Queue == INSTANCE MpscQueue
Stack == INSTANCE TransferStack WITH Pushers <- Producers, Takers <- Consumers
Links == INSTANCE List WITH Nodes <- ListNodes, Rewinds <- FALSE, next <- lnext, prev <- lprev, free <- lfree
Wheel == INSTANCE Timer WITH Bits <- 2, state <- tstate, cell <- tcell

(* The bootloader's tables have two entries each.  Frames 0, 1 and 2 are the   *)
(* tables on the way to a huge page in frames 8 and 9; what the other frames   *)
(* hold looks like a table too.                                                *)
To(f, huge) == [present |-> TRUE, writable |-> TRUE, huge |-> huge, addr |-> f]
BootTables ==
  LET empty == [present |-> FALSE, writable |-> FALSE, huge |-> FALSE, addr |-> 0]
      entries(f) == CASE f = 0 -> <<To(1, FALSE), empty>>
                      [] f = 1 -> <<empty, To(2, FALSE)>>
                      [] f = 2 -> <<empty, To(8, TRUE)>>
                      [] OTHER -> <<To(4, FALSE), empty>>
  IN [f \in 0..9 |-> [i \in {0, 1} |-> entries(f)[i + 1]]]
Paged == INSTANCE Paging WITH ENTRIES <- 2, Frames <- 0..9, Boot <- BootTables,
           Pages <- {0, 1, 4}, PhysPages <- {4, 5}, MaxRange <- 2, PageSize <- 2, op <- mapping

queueVars == <<head, tail, next, hasConsumer, free, qpc, node, prev, last, result>>
stackVars == <<shead, snext, unused, pushing, stack>>
listVars == <<list, spare, lnext, lprev, lfree, cursor, iter>>
timerVars == <<clock, now, slots, occupied, tstate, deadline, linked, tcell, task, core>>
pagingVars == <<mem, recursive, pool, tlb, todo, mapping, mapped>>

Structures == {"cell", "queue", "stack", "list", "timer", "paging"}

InitOne ==
  /\ which \in Structures
  /\ Init /\ Queue!Init /\ Stack!Init /\ Links!Init /\ Wheel!Init
  /\ Paged!Init

(* The structures that are not in use. *)
Unused(x) ==
  /\ which = x
  /\ UNCHANGED which
  /\ x # "cell" => UNCHANGED vars
  /\ x # "queue" => UNCHANGED queueVars
  /\ x # "stack" => UNCHANGED stackVars
  /\ x # "list" => UNCHANGED listVars
  /\ x # "timer" => UNCHANGED timerVars
  /\ x # "paging" => UNCHANGED pagingVars

NextOne ==
  \/ Unused("cell") /\ Next
  \/ Unused("queue") /\ Queue!Next
  \/ Unused("stack") /\ Stack!Next
  \/ Unused("list") /\ Links!Next
  \/ Unused("timer") /\ Wheel!Next
  \/ Unused("paging") /\ Paged!Next

SpecOne ==
  InitOne /\ [][NextOne]_<<which, vars, queueVars, stackVars, listVars, timerVars, pagingVars>>

Symmetry == Permutations(Waiters) \cup Permutations(Notifiers)

-----------------------------------------------------------------------------
(* The MPSC queue implements a first-in first-out queue: enqueue takes effect *)
(* at its swap of head, a dequeue takes the oldest of the linked elements.    *)
Fifo == INSTANCE FifoQueue WITH items <- IF which = "queue" THEN Queue!Items ELSE <<>>, Nothing <- Null
IsFifo == Fifo!Spec

(* MPSC queue: across the gaps of producers that have swapped head and not yet *)
(* linked, the chain from tail to head holds every element once, and the node  *)
(* that such a producer will write to has not been handed out.                 *)
QueueIsConnected == which = "queue" => Queue!QueueIsConnected

(* Transfer stack: an element is in the stack, with one pusher, with one taker *)
(* or with nobody, whichever compare_exchange fails, and is unlinked then.     *)
ElementsAreInOnePlace == which = "stack" => Stack!ElementsAreInOnePlace

(* List: next, prev, len, the cursor's index and the ends of an iterator agree *)
(* after every push, removal, split, splice, append and edit at the cursor.    *)
ListIsSound == which = "list" => Links!ListIsSound

(* List: with its cursor it implements a sequence with a position, operation   *)
(* by operation: push_back appends, split_after leaves what is up to the       *)
(* cursor, and so on for each, with the other list and the cursor's place.     *)
Sequence == INSTANCE CursorSequence WITH Nodes <- ListNodes,
  items <- IF which = "list" THEN Links!Forward(list) ELSE <<>>,
  spare <- IF which = "list" THEN Links!Forward(spare) ELSE <<>>,
  at <- IF which = "list" THEN Links!Position ELSE 0
IsSequence == Sequence!Spec /\ [][which = "list" => Links!OperationsAreTheirs]_listVars

(* Timer: no sleep completes before its deadline, and after a turn no sleep    *)
(* whose deadline has passed is left.                                          *)
FiresOnTime == which = "timer" => Wheel!FiresOnTime

(* Timer: a linked sleep is in the slot where cancel_sleep looks for it, and   *)
(* nothing points to a sleep that has been dropped.                            *)
SleepsAreTracked == which = "timer" => Wheel!SleepsAreTracked

(* Paging: however many tables other mappings have added, the MMU, its TLB and *)
(* translate_page see each page where and with the flags it was mapped with,   *)
(* what the bootloader mapped, and nothing else.                               *)
MappedAsRequested == which = "paging" => Paged!MappedAsRequested

(* Paging: the recursive address of each table leads to the frame in the entry *)
(* above it, no access to a table faults, and each has a frame of its own.     *)
TablesAreReached == which = "paging" => Paged!TablesAreReached
=============================================================================

------------------------------- MODULE MCKernel -------------------------------
(* The semaphore, a core's interrupts, the keyboard and the heap, on small     *)
(* instances.  Which of them the program uses is chosen in the initial state;  *)
(* the others stay as they are, and nothing is shared.                         *)
EXTENDS Semaphore, TLC

CONSTANTS Reader, Isr, CPUs

VARIABLES
  which,
  model, ipc, attempt, enabled, halted, remapped, ready, lapic, ilock, masked,
  pending, serving, handler, hpc, sleeping, pit, interval, lvt, calibrated, ticks,
  kstate, kqueue, klock, node, wstate, walls, kpc, snap, khand, ret, knotified, res, ops,
  keys, place, isr,
  lists, lockedBy, size, magic, base, heapSize, allocatedSize, bumpFree, bumpMode, unadded,
  blocks, cpu

Irq == INSTANCE Interrupts WITH Models <- {"Pic", "Apic"}, ATTEMPTS <- 2,
         MayCall <- {"sleep", "start", "mask", "initialize"}, pc <- ipc, lock <- ilock
Kbd == INSTANCE Keyboard WITH Waiters <- {Reader}, Wakers <- {Isr}, Usages <- {{"wake_all"}},
         MaxWakeAlls <- 4, MayDrop <- TRUE, Subscribes <- FALSE, Capacity <- 2,
         state <- kstate, queue <- kqueue, lock <- klock, pc <- kpc, hand <- khand,
         notified <- knotified
Heap == INSTANCE Allocator WITH MinLog <- 1, FreeLists <- 3, BumpBase <- 0, BumpSize <- 5,
          Regions <- {[base |-> 16, size |-> 10]},
          Layouts <- {[size |-> 2, align |-> 2], [size |-> 3, align |-> 1]},
          Null <- NoOne, held <- blocks

irqVars == <<model, ipc, attempt, enabled, halted, remapped, ready, lapic, ilock, masked,
             pending, serving, handler, hpc, sleeping, pit, interval, lvt, calibrated, ticks>>
keyVars == <<kstate, kqueue, klock, node, wstate, walls, kpc, snap, khand, ret, knotified, res, ops,
             keys, place, isr>>
heapVars == <<lists, lockedBy, size, magic, base, heapSize, allocatedSize, bumpFree, bumpMode,
              unadded, blocks, cpu>>

InitKernel ==
  /\ which \in {"semaphore", "interrupts", "keyboard", "heap"}
  /\ Init /\ Irq!Init /\ Kbd!InitKeyboard /\ Heap!Init
  /\ which # "interrupts" => model = "Pic" /\ masked = {}

(* The parts that are not in use. *)
Unused(x) ==
  /\ which = x
  /\ UNCHANGED which
  /\ x # "semaphore" => UNCHANGED vars
  /\ x # "interrupts" => UNCHANGED irqVars
  /\ x # "keyboard" => UNCHANGED keyVars
  /\ x # "heap" => UNCHANGED heapVars

(* Only the semaphore is checked for deadlock: a core may wait for an          *)
(* interrupt that does not come, and memory is used up.                        *)
Ended == which # "semaphore" /\ UNCHANGED <<which, vars, irqVars, keyVars, heapVars>>

NextKernel ==
  \/ Unused("semaphore") /\ Next
  \/ Unused("interrupts") /\ Irq!Next
  \/ Unused("keyboard") /\ Kbd!NextKeyboard
  \/ Unused("heap") /\ Heap!Next
  \/ Ended

SpecKernel == InitKernel /\ [][NextKernel]_<<which, vars, irqVars, keyVars, heapVars>>

Symmetry == Permutations(Tasks)

-----------------------------------------------------------------------------
(* Interrupts: a handler finds what it needs to end the interrupt, wherever  *)
(* it interrupts start-up, initialize_local_apic or a sleep (it is stuck     *)
(* only inside the PICs' critical sections), and the periodic timer runs     *)
(* again after each sleep, whichever interrupt ended it.                     *)
InterruptsAreServed == which = "interrupts" => Irq!InterruptsAreServed

(* Keyboard: a task that the handler has woken finds a key in the buffer.    *)
WokenFindsAKey == which = "keyboard" => Kbd!WokenFindsAKey

(* Buddy allocator: no two allocated or free blocks overlap, the free lists    *)
(* hold blocks of their order, no byte is lost and no assertion fails, while   *)
(* two CPUs allocate and free with a lock per order.                           *)
HeapIsSound == which = "heap" => Heap!HeapIsSound
=============================================================================

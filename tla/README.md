# A TLA+ verification of mycelium's concurrent core

[mycelium](../src/README.md) is a hobby operating system in Rust. This directory
holds TLA+ models of its synchronisation library, async runtime, data structures,
heap, page tables and interrupt handling, TLC runs that check them on small
instances, and TLAPS proofs for any number of threads where we have them.
`PROJECT.json` maps every definition to source lines and lists components,
hazards, runs, mutants and findings.

Coverage is partial. The mapped definitions stand for about 6,350 of the
repository's 53,222 lines of Rust, 11.9%. That is most of the code in which
threads, tasks and interrupts meet. The rest is tests, formatting, register
layouts, tables, host tools and sequential glue: see "Not modelled".

## The parts and their modules

A blocking spinlock guards the lists of wait queue, wait map, semaphore and timer
wheel. `Mutex` is a wait queue that starts with one stored wakeup. `RwLock` is a
semaphore in which a reader takes one permit and a writer all. A `Sleep` waits on
a `WaitCell` that the timer closes. A woken task goes to its scheduler's MPSC run
queue, from which other cores may steal. Interrupt handlers tick the clock and
push keys, and wake the tasks that wait for them.

| Module | Source | State and actions |
|---|---|---|
| `WaitCell` | maitake-sync `wait_cell.rs` | bits of the word, the waker slot; `poll_wait`, `wake`, `close` split at each atomic operation and slot access |
| `WaitQueue` | `wait_queue.rs`, `util/wake_batch.rs` | word, list, nodes, futures; loads and exchanges are steps of their own also under the lock, since some operations do not take it |
| `Mutex`, `HandoffLock` | `mutex.rs` | WaitQueue's actions composed; the abstract lock it implements |
| `Semaphore` | `semaphore.rs`, `rwlock.rs` | count modulo `UsizeMax + 1` (CLOSED is its maximum); one step per waiter served |
| `RwSpinlock` | `spin.rs`, `blocking/rwlock.rs` | the word modulo `2^Width` |
| `WaitMap`, `InitOnce` | `wait_map.rs`, `spin/once.rs` | as WaitQueue; the state byte and the contents |
| `Task` | maitake `task.rs`, `task/state.rs`, `task/join_handle.rs` | flags, join-waker state, reference count, run-queue entries |
| `Runtime` | `src/rt.rs`, `scheduler.rs`, `scheduler/steal.rs` | cores that start, tick, steal, wait for interrupts and stop; queues with counters kept apart from them |
| `Timer` | `time/timer.rs`, `timer/wheel.rs`, `timer/sleep.rs` | wheels of slots, the clock, Sleep futures |
| `MpscQueue`, `FifoQueue` | cordyceps `mpsc_queue.rs` | nodes and links; the queue it implements |
| `TransferStack` | `stack.rs` | head, links, private stacks |
| `List`, `CursorSequence` | `list.rs`, `list/cursor.rs` | links, cursor, iterator; the sequence with a position it implements |
| `Allocator` | `alloc/src/buddy.rs`, `bump.rs`, `src/allocator.rs` | free lists with a lock each, headers, bump heap |
| `Paging` | hal-x86_64 `mm.rs`, hal-core `mem/page.rs` | recursive page tables, frames, a TLB |
| `Interrupts` | hal-x86_64 `interrupt.rs`, `interrupt/pic.rs`, `interrupt/apic/*.rs`, `time/pit.rs`, `src/arch/x86_64/interrupt.rs` | one core: start-up, masks, pending interrupts, handlers, the PIT and the local APIC's timer |
| `Keyboard` | `src/drivers/ps2_keyboard.rs` | the key buffer, composed with WaitQueue |

Conventions. A step is one atomic operation on a shared word; taking a lock is
merged with the first operation under it and releasing it with the last.
Memory is sequentially consistent, so a fault that needs a weaker ordering is not
found here. `debug_assert!`s are not executed; those that matter are properties.
Waking is external: it sets `notified`, and executors poll notified tasks.

`Lists` has what three modules share: the list of nodes as a sequence, and
unlinking. `MC` modules instantiate the others. `MCWait`, `MCLive`, `MCKernel`,
`MCRuntime` and `MCStructures` are sums: the initial state chooses which component
the behaviour uses and the rest stays as it is. That asks several questions in one
run; it does not compose the components. Real compositions are `Mutex` (of
WaitQueue's actions), `Keyboard` (of WaitQueue's and a handler's), `Timer` (wheel,
sleeps and threads), `Runtime` (schedulers, injector, tasks and the main loop) and
`Interrupts` (controllers, timers and the code they interrupt).

## Runs that pass

| Run | Instance | Shows |
|---|---|---|
| `wait` | WaitQueue and WaitMap: 2 tasks, 2 threads. InitOnce: 3 threads | nodes on the list are live and agree with the word; values reach one waiter, and waiters are reachable; one initialisation, seen by all |
| `live` | WaitCell (1 task), WaitQueue (2), Semaphore (2), Timer (1 sleep) | conditions are seen; `close` and `wake_all` reach everyone; queued acquirers are served; sleeps end |
| `mutex` | 3 tasks | exclusion; refinement of HandoffLock (FIFO, nothing lost); queued tasks get the lock |
| `kernel` | Semaphore: 3 tasks, 2 permits. Interrupts: both models. Keyboard: 1 reader. Allocator: 2 CPUs | permits are conserved, nobody overtakes, the list is exact; a handler can end its interrupt, except inside the PICs' critical sections, and the periodic timer outlasts sleeps; a woken reader finds a key; heap blocks are disjoint and accounted for |
| `runtime` | 2 cores, 2 tasks, 1 waker; Task: 2 workers, 2 holders | tasks are freed once, scheduled once, their join slot is exclusive; joins complete; counters are exact and tasks in one place; queues are served, injected tasks stolen |
| `structures` | WaitCell: 2 tasks, 2 threads; else see `Structures.cfg` | one thread at a time has the waker, no wakeup is lost, closing a cell is final; the queue implements its abstract specification, and the list its own, operation by operation; stack, timer and page tables keep their invariants |

Every property has a mutant in `PROJECT.json`: a plausible slip in the code under
which TLC finds it violated.

Bounds, and why they are enough to be interesting:

- Two tasks are the fewest that displace each other, two wakers the fewest that
  race; with three, one holds, one waits and one arrives. Two permits let a waiter
  be served in part. A batch of one (`BatchSize`) makes the lock be released
  between waiters, which in the code takes a full `WakeBatch`.
- `MaxWakeAlls`, `MaxChanges`: how often `wake_all`, or `add_permits` and `forget`,
  are called. `RefMax` exceeds the references the threads can hold.
- `Stoppable`: in `runtime` only core 0 is ever stopped; the other may still start
  at any time. Tick size, steal attempts and stolen tasks per tick are 1, so that
  every loop reaches its limit.
- `MaxTime`, `Durations`: with four slots per wheel and two wheels, durations 1 and
  6 land on both; nine ticks let an entry move down and the first wheel wrap.
- `Pool`: two frames, so that a mapping runs out of tables half way.
- `ATTEMPTS`: two of calibration's five. `ClockMod`: the clock is kept modulo 4, as
  only its steps matter. `MayCall`: what the booted kernel may call. `Capacity`: a
  key buffer of two, so that it fills.

Limits a reader should know:

- `wait` does not close the queue, and mixes `wake` with `wake_all` only if a batch
  holds every waiter; `live` calls `wake_all` or `close`, never both. Outside these
  usages the properties fail, as the next sections say.
- `PermitsAreConserved` and the list properties speak of an open semaphore. `live`
  does not close it.
- `ParkingAssertion` is checked for one task and fails for two.
- `LockIsGranted` and `WaitersProgress` speak of queued tasks. Others may lose their
  compare-exchange for ever: the loops are lock-free, not wait-free.
- `List` is checked with cursors that do not move backwards off the first element
  (`Rewinds`), `Allocator` with one aligned region and without merges, `Task` with `current_task`
  called inside the poll only (`CrossThread`).
- Deadlock is checked for the mutex, the wait queue and the semaphore. In the other
  cases a behaviour may end: tasks complete, time is bounded.

## Disagreements between code and documentation

Each is a run that TLC ends with a counterexample; `findings` in `PROJECT.json`
quotes both sides.

- `rw_spinlock`: `unlock_exclusive` swaps the whole word to UNLOCKED and erases the
  increment of a reader about to take it back; its `fetch_sub` then cancels another
  reader's increment, and a writer gets in beside a reader.
- `semaphore_close_race`: a queued future polled while `close` is unlinking waiters
  completes with its node still in the list.
- `wait_queue_reopen`: `wake` overwrites the state a concurrent `close` has set.
- `task_cancel`: canceling an idle task sets WOKEN, so the wake that follows
  enqueues nothing and a parked JoinHandle is never woken.
- `timer_wrap`: a sleep in a slot that comes up after the top wheel has wrapped
  around is taken to be due as many rotations later as its slot has a number, and
  is not fired when the timer is turned to its deadline.
- `pit_ticks`: with PICs the periodic timer never ticks the clock, since the
  handler ticks only when it ends a sleep.

## Observations without a run

A reader of the code should know of these. The first group was seen as TLC
counterexamples with other constants of these modules, or in variants of them that
are not kept; the second was met while reading.

Counterexamples:

- Waiting again between two batches of `wake_all` leaves Waiting on an empty list,
  and the next `wake` panics (`wait_queue.rs:1026-1028`).
- `add_permits_locked` does not test `closed` after it released the lock between
  batches and adds to the CLOSED count, which wraps (`semaphore.rs:690, 703`).
- Two tasks on one WaitCell may fail the assertion at `wait_cell.rs:183-189`.
- A cursor that moves backwards off the first element gets a wrong index
  (`cursor.rs:613, 618`).
- `Pit::sleep_blocking` may halt after its interrupt has come, and then waits for
  another one (`pit.rs:287-289`). An interrupt of the mode left by the firmware may
  end a sleep early. A duration that is too long leaves SLEEPING set, and every
  later sleep fails (`pit.rs:276-281`).
- With PICs, an interrupt during `mask_isa_irq` or `unmask_isa_irq` spins for ever on
  the lock that the code it interrupted holds (`interrupt.rs:228-235, 276`).
  `InterruptsAreServed` excepts these critical sections by name (`Masking`), and
  says that there are no others.
- If a region does not begin at a multiple of its size from the heap's base, freeing
  a block may take an unrelated free block for its buddy and fail the assertion at
  `buddy.rs:452`.
- With two readers of `next_key`, one may take the other's key, and `expect` panics
  (`ps2_keyboard.rs:43`).

From reading:

- `next_key` looks into the buffer before it waits: a key that arrives in between
  is seen with the next key (`ps2_keyboard.rs:31-38`). Its handler takes the wait
  queue's spinlock, which the interrupted code may hold.
- `insert_before` at the null element inserts at the end of the list
  (`cursor.rs:287-293`), as `splice_before` is documented to; its own documentation
  says "at the front of the [`List`]" (`cursor.rs:278-279`). `CursorSequence` follows
  the code here.
- The buddy of a block is computed from its order instead of its size: it lies inside
  the block itself, so that freed blocks are never merged (`buddy.rs:389-393, 419`)
  and no run reaches `Merge`; `add_region` aligns the base up
  but keeps the size; `bump::owns` checks the end only.
- A dequeue may report Empty while completed enqueues wait behind another
  producer's gap (`mpsc_queue.rs:611`).
- `WaitMap` stores its state over a concurrent close (`wait_map.rs:684, 967`).
- Self-waking tasks keep a core from the injector; two idle cores may steal a task
  back and forth.
- `InitOnce::get_or_else` panics while another thread initialises
  (`once.rs:153-160`).
- `Stealer::spawn_n` compares with `<=` and may steal one task more than `max`.
- `TaskRef::cancel` returns true for a completed task.
- `identity_map_range` always panics: `Page::end_addr` is the last byte, not the
  next page's base (`page.rs:256-272, 453-458`). `next_table` does not check for
  huge pages, and `next_table_mut` flushes the mapped page instead of the table's
  address (`mm.rs:327-333`).
- `IoApicSet::new` compares with `max_entries`, the highest index, as if it were
  the number of entries (`ioapic.rs:254-255`): off by one with several I/O APICs.

## Fairness

No thread stops inside an operation, executors poll what is woken, cores keep
ticking, and interrupts that a waiting core needs come. Nobody has to start an
operation, drop a future, stop a core or make a future ready. Weak fairness
suffices for WaitCell, Task and Runtime. WaitQueue, Mutex, Semaphore and Timer take
strong fairness of each task's continuing steps, because a thread that spins on a
lock is only enabled now and then. This says that a spinning thread gets the lock
eventually, which the spinlock does not guarantee by itself (it has no queue) but
its backoff makes likely. Mutex guards and permits are assumed to be released, the
condition under which the documentation promises progress. Sums combine fairness
conditions of different components by disjunction or state them side by side; as
only one component takes steps, the meaning is the same.

## Proofs

Theorems hold for any sets of threads and values of the constants, from the named
assumptions of the modules.

- `WaitCellProofs`: `TypeCorrect`, `WakerIsExclusive`, `WakeupsAreNotLost`,
  `ParkedTasksAreReachable`, `CloseIsFinal` and `ParkingIsUndisturbed`. All but the
  last two follow from `TypeOK /\ OwnerInv /\ SlotInv /\ ParkedIsReachable`. That two threads never
  touch the slot needs to know which bits stand for its owner (`OwnerInv`); that a
  parked task is reachable needs to know whose waker the slot may hold at each
  point of a poll (`SlotInv`). `ParkingIsUndisturbed` assumes one task (`OneTask`)
  and adds that from its first compare_exchange to its fetch_and nobody else clears
  a bit (`ParkInv`).
- `WaitQueueProofs`: `ListHoldsTheWaiters` and `WordTellsOfWaiters`.
  - The first needs `Typed /\ ListInv` only and holds for all usages, `close`
    included, and all batch sizes. `ListInv` says of each task what its future's
    stage and its node are at each point of a poll (`Stage`), which nodes are
    linked (`NodeInv`), and which tasks a thread may have taken off the list and
    not yet woken (`HandInv`).
  - The second adds `WordInv`: outside a critical section the word says Waiting
    exactly if the list has nodes, and the thread inside one knows the word it
    read (`Sees`), up to the wakeups that others store without the lock. It
    assumes `OneBatch`: nobody closes the queue, and where `wake_all` is called
    all tasks fit into one batch. "Observations" has the counterexample for
    smaller batches, `wait_queue_reopen` the one for `close`.
- `MutexProofs`: `GuardIsExclusive` and `MutexHandsOff`, the refinement of
  HandoffLock. The inductive invariant is
  `Typed /\ WordInv /\ ListInv /\ StageInv /\ TokenInv`. There is one token: a
  wakeup stored in the word, a node that was chosen, a guard or an unlock in
  progress (`TokenInv`). That it is never doubled needs that the word says Waiting
  exactly if the list is not empty, outside a window the lock protects (`WordInv`),
  and that a node is listed once, exactly while its future waits (`ListInv`). Each
  step is then one of the six things that `HandStep` allows, which map to steps of
  HandoffLock.
- `SemaphoreProofs`: `PermitsConserved`, `QueueIsServedFirst` and
  `ListHoldsTheWaiters`, with spurious polls, drops, `add_permits`, `forget` and
  `close`, and batches of any size. The sum of permits is the size of a set of
  pairs (`Sum`), so that the proof needs no induction: one task's change moves the
  sum by that change (`SumSplit`). The inductive invariant ties each task's stage
  to its locals and its future, the list to the futures that still need permits,
  and the count to the sum. The three theorems depend on each other: that no permit
  is free while somebody waits needs the exact list, and the list needs that the
  permits handed to a waiter are those it lacked.
- `TaskProofs`: `TaskIsFreedOnce`, `TaskIsScheduledOnce` and
  `JoinWakerSlotIsExclusive`, assuming `~CrossThread`: `current_task` is called
  inside the poll. The invariant has three parts. The first counts: the word's
  count is the number of threads that own a reference, plus those about to enqueue
  one, plus the queue's entry (`RefInv`). The second is a scheduling token: the
  flags WOKEN and POLLING decide whether the task is queued, about to be, or run by
  one worker (`SchedInv`). The third ties the join-waker bits of the word to the
  thread that may touch the slot (`JoinInv`).
- `MCWaitProofs`, about the sum that the `wait` run checks:
  - `MapLosesNothing` and `MapForgetsNobody` of WaitMap, for any batch size and with
    `close`. The invariant says of each future what its node's word and its place on
    the list are at each point of a poll, which nodes a waker has taken off the list
    and still holds, and that a value is with the waker, with one resolved future,
    or given back.
  - `OneInitialization` of InitOnce: at most one thread is between winning the
    compare_exchange and publishing, the word says so meanwhile, and what is
    published was written.
- `ListLemmas` has the facts about sequences of distinct nodes that three of these
  need: what appending, popping one or several nodes and unlinking leave.

Only model-checked:

- All liveness: the prover does not reason about fairness or ENABLED.
- The refinements of FifoQueue and CursorSequence, and the invariants of
  `MpscQueue`, `List`, `Allocator` and `Paging`: they follow chains of links or of
  tables, or sum over blocks, which takes induction over data.
- `TransferStack`, `Timer`, `Runtime`, `Interrupts` and `Keyboard`: safety that
  could be proved and is not yet.

## Not modelled

What is left has no state that more than one actor shares, or its behaviour is the
hardware's:

- Register layouts, ports, descriptor tables, vectors, PCI, serial and framebuffer
  access, the TSC: one instruction per operation. Exception handlers only report.
- Bitfields, addresses, page-size types, utilities, tick conversions: sequential
  arithmetic, much of it made by macros, which the crates' unit and property tests
  reach.
- Formatting, tracing output, tables of names and classes.
- The shell and the start-up glue; the WASM interpreter is a third-party library.
- `inoculate` and `mycotest`, which build images and run subprocesses on the host.
- The repository's tests and loom models, and its documentation.
- In Paging, `unmap`, `flags_mut` and `translate_addr`, which are unimplemented in
  the source; only 4 KiB pages are mapped.
- A second core's interrupts: `bringup_smp` starts no other core.

Share of lines above the present one would have to come from such code.

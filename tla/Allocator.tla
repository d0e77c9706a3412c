------------------------------ MODULE Allocator ------------------------------
(***************************************************************************)
(* The kernel's heap: src/allocator.rs over the bump allocator             *)
(* (alloc/src/bump.rs), which serves until the first region is added, and  *)
(* the buddy allocator (alloc/src/buddy.rs).  An address stands for a      *)
(* byte.  One step per atomic operation or critical section of a free      *)
(* list's mutex; alloc_inner keeps the lock of the list it took a block    *)
(* from while split_down locks the lists below.  Users overwrite what they *)
(* allocate, but not with the allocator's magic number.                    *)
(***************************************************************************)
EXTENDS Integers, Sequences, FiniteSets, FiniteSetsExt, SequencesExt

CONSTANTS CPUs,
          MinLog,              \* log2 of min_size
          FreeLists,           \* FREE_LISTS
          Regions,             \* memory map: a set of [base, size], all FREE
          BumpBase, BumpSize,  \* where the bump heap is, and SIZE
          Layouts,             \* what is allocated: a set of [size, align]
          Null

Orders == 0..(FreeLists - 1)
MinSize == 2^MinLog
Addresses == UNION {r.base..(r.base + r.size - 1) : r \in Regions}

VARIABLES
  lists,      \* free_lists: the addresses of the blocks, front first
  lockedBy,   \* the mutex of each free list
  size,       \* Free::meta, the size a block header at an address gives
  magic,      \* Free::magic at an address
  base,       \* base_vaddr
  heapSize, allocatedSize,
  bumpFree,   \* bump::Alloc::free
  bumpMode,
  unadded,    \* regions not added yet, and the rest of the one being added
  held,       \* allocations: a set of [addr, layout]
  cpu         \* what each CPU is doing

vars == <<lists, lockedBy, size, magic, base, heapSize, allocatedSize, bumpFree, bumpMode,
          unadded, held, cpu>>
buddy == <<lists, lockedBy, size, magic, heapSize, allocatedSize>>

Idle == [op |-> "idle", layout |-> Null, order |-> 0, list |-> 0, block |-> 0, prev |-> 0]

Init ==
  /\ lists = [k \in Orders |-> <<>>] /\ lockedBy = [k \in Orders |-> Null]
  /\ size = [a \in Addresses |-> 0] /\ magic = [a \in Addresses |-> "data"]
  /\ base = Null
  /\ heapSize = 0 /\ allocatedSize = 0
  /\ bumpFree = BumpSize /\ bumpMode = TRUE
  /\ unadded = Regions
  /\ held = {}
  /\ cpu = [c \in CPUs |-> Idle]

-----------------------------------------------------------------------------
(* Sizes *)

NextPowerOfTwo(n) == Min({2^i : i \in 0..n} \cap {m \in 1..(2 * n + 1) : m >= n})
IsPowerOfTwo(n) == NextPowerOfTwo(n) = n
PrevPowerOfTwo(n) == NextPowerOfTwo(n \div 2)
SizeForOrder(order) == 2^(MinLog + order)
OrderForSize(n) == (CHOOSE i \in 0..n : 2^i >= n /\ \A j \in 0..(i - 1) : 2^j < n) - MinLog

SizeFor(layout) == NextPowerOfTwo(Max({layout.size, layout.align, MinSize}))
OutOfMemory(layout) == SizeFor(layout) > heapSize
OrderFor(layout) == OrderForSize(SizeFor(layout))

AlignUp(a, align) == ((a + align - 1) \div align) * align

-----------------------------------------------------------------------------
(* add_region, at boot: each round of its loop adds one power of two. *)

Becomes(c, new) == cpu' = [cpu EXCEPT ![c] = new]

KeptSize(r) == IF IsPowerOfTwo(r.size) THEN r.size ELSE PrevPowerOfTwo(r.size)

AddRegion(r) ==
  LET b == AlignUp(r.base, MinSize)
      piece == KeptSize(r)
      rest == [base |-> b + piece, size |-> r.size - piece]
  IN
  /\ \A c \in CPUs : cpu[c] = Idle
  /\ unadded' = (unadded \ {r}) \cup IF rest.size >= MinSize THEN {rest} ELSE {}
  /\ base' = IF base = Null THEN b ELSE Min({base, b})
  /\ size' = [size EXCEPT ![b] = piece]
  /\ magic' = [magic EXCEPT ![b] = "free"]
  /\ lists' = [lists EXCEPT ![OrderForSize(piece)] = <<b>> \o @]
  /\ heapSize' = heapSize + piece
  /\ bumpMode' = FALSE
  /\ UNCHANGED <<lockedBy, allocatedSize, bumpFree, held, cpu>>

-----------------------------------------------------------------------------
(* GlobalAlloc::alloc and alloc_range; a null pointer leaves no trace. *)

Alloc(c, layout) ==
  /\ cpu[c] = Idle
  /\ IF bumpMode
     THEN Becomes(c, [Idle EXCEPT !.op = "bump", !.layout = layout, !.prev = bumpFree])
     ELSE /\ ~OutOfMemory(layout)
          /\ Becomes(c, [Idle EXCEPT !.op = "alloc", !.layout = layout, !.order = OrderFor(layout),
                                     !.list = OrderFor(layout)])
  /\ UNCHANGED <<buddy, base, bumpFree, bumpMode, unadded, held>>

(* bump::Alloc::alloc: down from the end of the heap, with compare_exchange. *)
AlignDown(a, align) == a - (a % align)
Expected(c) == cpu[c].prev = bumpFree
BumpAlloc(c) ==
  LET layout == cpu[c].layout
      ptr == AlignDown(BumpBase + cpu[c].prev - layout.size, layout.align)
  IN
  /\ cpu[c].op = "bump"
  /\ IF layout.size > cpu[c].prev \/ ptr < BumpBase
     THEN Becomes(c, Idle) /\ UNCHANGED <<bumpFree, held>>
     ELSE IF Expected(c)
     THEN /\ bumpFree' = ptr - BumpBase
          /\ held' = held \cup {[addr |-> ptr, layout |-> layout]}
          /\ Becomes(c, Idle)
     ELSE Becomes(c, [cpu[c] EXCEPT !.prev = bumpFree]) /\ UNCHANGED <<bumpFree, held>>
  /\ UNCHANGED <<buddy, base, bumpMode, unadded>>

(* make_busy, and what the user then writes over the header. *)
Served(c, a) ==
  /\ magic' = [magic EXCEPT ![a] = "data"] /\ size' = [size EXCEPT ![a] = 0]
  /\ allocatedSize' = allocatedSize + size[a]
  /\ held' = held \cup {[addr |-> a, layout |-> cpu[c].layout]}
  /\ Becomes(c, Idle)

(* alloc_inner looks at one list after the other. *)
PopBlock(c) ==
  LET k == cpu[c].list IN
  /\ cpu[c].op = "alloc"
  /\ lockedBy[k] = Null
  /\ IF lists[k] = <<>>
     THEN /\ Becomes(c, IF k = FreeLists - 1 THEN Idle ELSE [cpu[c] EXCEPT !.list = k + 1])
          /\ UNCHANGED <<lists, lockedBy, size, magic, allocatedSize, held>>
     ELSE /\ lists' = [lists EXCEPT ![k] = Front(@)]
          /\ IF k = cpu[c].order
             THEN Served(c, Last(lists[k])) /\ UNCHANGED lockedBy
             ELSE /\ lockedBy' = [lockedBy EXCEPT ![k] = c]
                  /\ Becomes(c, [cpu[c] EXCEPT !.op = "split", !.block = Last(lists[k])])
                  /\ UNCHANGED <<size, magic, allocatedSize, held>>
  /\ UNCHANGED <<base, heapSize, bumpFree, bumpMode, unadded>>

BackHalf(a) == [a |-> a + size[a] \div 2, front |-> size[a] \div 2, back |-> size[a] \div 2]

(* split_down: the back half goes to the list below. *)
SplitDown(c) ==
  LET b == cpu[c].block
      half == BackHalf(b)
      k == OrderForSize(size[b]) - 1
  IN
  /\ cpu[c].op = "split"
  /\ k >= cpu[c].order
  /\ lockedBy[k] = Null
  /\ size' = [size EXCEPT ![b] = half.front, ![half.a] = half.back]
  /\ magic' = [magic EXCEPT ![half.a] = "free"]
  /\ lists' = [lists EXCEPT ![k] = <<half.a>> \o @]
  /\ UNCHANGED <<lockedBy, base, heapSize, allocatedSize, bumpFree, bumpMode, unadded, held, cpu>>

SplitDone(c) ==
  /\ cpu[c].op = "split"
  /\ OrderForSize(size[cpu[c].block]) = cpu[c].order
  /\ Served(c, cpu[c].block)
  /\ lockedBy' = [lockedBy EXCEPT ![cpu[c].list] = Null]
  /\ UNCHANGED <<lists, base, heapSize, bumpFree, bumpMode, unadded>>

-----------------------------------------------------------------------------
(* GlobalAlloc::dealloc and dealloc_range *)

(* bump::Alloc::owns looks at the end of its heap only; what it owns leaks. *)
Owns(a) == a < BumpBase + BumpSize

(* Free::new writes a header into the block before any list is locked. *)
Dealloc(c, h) ==
  /\ cpu[c] = Idle
  /\ held' = held \ {h}
  /\ IF Owns(h.addr) THEN UNCHANGED <<size, magic, cpu>>
     ELSE /\ size' = [size EXCEPT ![h.addr] = SizeFor(h.layout)]
          /\ magic' = [magic EXCEPT ![h.addr] = "free"]
          /\ Becomes(c, [Idle EXCEPT !.op = "free", !.layout = h.layout, !.block = h.addr,
                                     !.list = OrderFor(h.layout)])
  /\ UNCHANGED <<lists, lockedBy, base, heapSize, allocatedSize, bumpFree, bumpMode, unadded>>

FlipBit(n, i) == IF (n \div 2^i) % 2 = 0 THEN n + 2^i ELSE n - 2^i

(* take_buddy: bit `order` of the offset is flipped, not the size's. *)
BuddyOf(b, order) == base + FlipBit(b - base, order)

MaybeFree(a) == a \in Addresses /\ magic[a] = "free"
Linked(a, k) == a \in Range(lists[k])

(* mutant of Returned: the size that was asked for *)
ReturnedAsked(c) == cpu[c].layout.size
Returned(c) == SizeFor(cpu[c].layout)

(* One round of dealloc_inner: merge with the buddy, or put the block on the *)
(* list of this order.  Merging past the last list is unreachable!(), and a  *)
(* buddy that looks free must have the size of this order, whether or not it *)
(* is in the list (a buddy in none is left alone by List::remove).           *)
Merge(c, k, b, other) ==
  LET low == Min({b, other}) IN
  /\ lists' = [lists EXCEPT ![k] = SelectSeq(@, LAMBDA a : a # other)]
  /\ size' = [size EXCEPT ![low] = size[b] + size[other]]
  /\ Becomes(c, IF k = FreeLists - 1 THEN [Idle EXCEPT !.op = "unreachable"]
                ELSE [cpu[c] EXCEPT !.block = low, !.list = k + 1])
  /\ UNCHANGED allocatedSize

PushBlock(c, k, b) ==
  /\ lists' = [lists EXCEPT ![k] = <<b>> \o @]
  /\ allocatedSize' = allocatedSize - Returned(c)
  /\ Becomes(c, Idle)
  /\ UNCHANGED size

Release(c) ==
  LET k == cpu[c].list  b == cpu[c].block  other == BuddyOf(b, k) IN
  /\ cpu[c].op = "free"
  /\ lockedBy[k] = Null
  /\ IF MaybeFree(other) /\ size[other] # SizeForOrder(k)
     THEN Becomes(c, [Idle EXCEPT !.op = "wrongSize"]) /\ UNCHANGED <<lists, size, allocatedSize>>
     ELSE IF MaybeFree(other) /\ Linked(other, k) THEN Merge(c, k, b, other)
     ELSE PushBlock(c, k, b)
  /\ UNCHANGED <<lockedBy, magic, base, heapSize, bumpFree, bumpMode, unadded, held>>

Next ==
  \/ \E r \in unadded : AddRegion(r)
  \/ \E c \in CPUs :
       \/ \E layout \in Layouts : Alloc(c, layout)
       \/ BumpAlloc(c) \/ PopBlock(c) \/ SplitDown(c) \/ SplitDone(c)
       \/ \E h \in held : Dealloc(c, h)
       \/ Release(c)

Spec == Init /\ [][Next]_vars

-----------------------------------------------------------------------------
(* Properties *)

(* The bytes of a block or an allocation, and the blocks nobody has. *)
Bytes(a, n) == a..(a + n - 1)
Given(h) == Bytes(h.addr, IF Owns(h.addr) THEN h.layout.size ELSE SizeFor(h.layout))
FreeBlocks == UNION {Range(lists[k]) : k \in Orders}
InHand == {cpu[c].block : c \in {d \in CPUs : cpu[d].op \in {"split", "free"}}}

(* No two allocations, free blocks or blocks under way share a byte, and all *)
(* that lies in no region is in the bump heap; allocations are as large and  *)
(* as aligned as was asked for.                                              *)
BlocksAreDisjoint ==
  LET blocks == FreeBlocks \cup InHand IN
  /\ \A a, b \in blocks : a # b => Bytes(a, size[a]) \cap Bytes(b, size[b]) = {}
  /\ \A a \in blocks : Bytes(a, size[a]) \subseteq Addresses
  /\ \A g, h \in held : g # h => Given(g) \cap Given(h) = {}
  /\ \A h \in held : \A a \in blocks : Given(h) \cap Bytes(a, size[a]) = {}
  /\ \A h \in held : /\ h.addr % h.layout.align = 0
                     /\ Given(h) \subseteq Addresses \cup Bytes(BumpBase, BumpSize)

(* Every byte of the heap is free, under way or allocated, and the counters  *)
(* that the shell prints agree with that.                                    *)
Total(blocks) == MapThenSumSet(LAMBDA a : size[a], blocks)
HeapIsAccounted ==
  LET freeing == {c \in CPUs : cpu[c].op = "free"} IN
  heapSize - allocatedSize
    = Total(FreeBlocks) + Total({cpu[c].block : c \in {d \in CPUs : cpu[d].op = "split"}})
        + MapThenSumSet(LAMBDA c : size[cpu[c].block] - SizeFor(cpu[c].layout), freeing)

(* The list of an order holds blocks of its size that are marked free, each  *)
(* once; split_down and alloc_inner rely on it (buddy.rs:466).               *)
ListsHoldTheirOrder ==
  \A k \in Orders :
    /\ \A a \in Range(lists[k]) : size[a] = SizeForOrder(k) /\ magic[a] = "free"
    /\ Len(lists[k]) = Cardinality(Range(lists[k]))

(* buddy.rs:452, "buddy block did not have correct size". *)
BuddyHasItsSize == \A c \in CPUs : cpu[c].op \notin {"wrongSize", "unreachable"}

(* All of it: what one CPU's step breaks, the other's next allocation meets. *)
HeapIsSound == BlocksAreDisjoint /\ HeapIsAccounted /\ ListsHoldTheirOrder /\ BuddyHasItsSize

=============================================================================

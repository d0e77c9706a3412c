-------------------------------- MODULE Paging --------------------------------
(***************************************************************************)
(* hal-x86_64/src/mm.rs and hal-core/src/mem/page.rs: page tables that are *)
(* reached through themselves.  The last entry of the topmost table points *)
(* to that table, so that the MMU, walking a suitable address, ends at a   *)
(* page table instead of a page.  A virtual page is a number of four       *)
(* digits, its indices at the four levels; a physical page (frame) is a    *)
(* number too.  The MMU and its TLB are external: the TLB keeps what was   *)
(* accessed until it is evicted or flushed.  Whoever runs between two      *)
(* steps of a mapping (an interrupt handler) may access any mapped page.   *)
(***************************************************************************)
EXTENDS Integers, Sequences, FiniteSets

CONSTANTS
  ENTRIES,    \* entries of a table: the base of the digits
  Frames,     \* the frames there are
  Pool,       \* those that frame_alloc may give out
  Boot,       \* the bootloader's tables: frame -> index -> entry
  Pages,      \* virtual pages that the kernel may want to map
  PhysPages,  \* frames that it may want to map
  MaxRange,   \* the longest range that is mapped at once
  PageSize    \* bytes in the smallest page

VARIABLES
  mem,        \* the contents of the frames, read as tables
  recursive,  \* init_paging has run
  pool,       \* frames that are not yet allocated
  tlb,        \* what the TLB has for each virtual page
  todo,       \* the <<virtual, physical>> pages still to be mapped
  op,         \* the mapping that is under way
  mapped      \* what has been mapped and committed: page -> frame and flags

pagingVars == <<mem, recursive, pool, tlb, todo, op, mapped>>

RECURSIVE_INDEX == ENTRIES - 1
PML4 == 0                       \* the frame in CR3
Levels == 1..4                  \* Pml4, Pdpt, Pd and Pt
VPages == 0..(ENTRIES^4 - 1)
Nothing == [present |-> FALSE]  \* in the TLB, and a failed translation

(* Entry<L>: the bits that matter here and the address. *)
none == [present |-> FALSE, writable |-> FALSE, huge |-> FALSE, addr |-> 0]

(* Level::index_of. *)
index_of(level, page) == (page \div ENTRIES^(4 - level)) % ENTRIES

(* Level::table_addr: the digits of the table's own address are the           *)
(* recursive index, as often as there are levels below, and then the indices *)
(* that lead to the table.                                                   *)
FromDigits(d) == d[1] * ENTRIES^3 + d[2] * ENTRIES^2 + d[3] * ENTRIES + d[4]
OneLess(level) == 4 - level  \* mutant of Recursions
Recursions(level) == 5 - level
table_addr(level, page) ==
  FromDigits([k \in Levels |-> IF k <= Recursions(level) THEN RECURSIVE_INDEX
                               ELSE index_of(k - Recursions(level), page)])

-----------------------------------------------------------------------------
(* The MMU. *)

(* One level of its walk; a huge page ends it one or two levels early. *)
Step(m, at, level, page) ==
  LET e == m[at.frame][index_of(level, page)] IN
  IF at.done THEN at
  ELSE IF ~e.present THEN [frame |-> 0, present |-> FALSE, writable |-> FALSE, done |-> TRUE]
  ELSE LET huge == e.huge /\ level \in {2, 3} IN
       [frame |-> e.addr + (IF huge THEN page % ENTRIES^(4 - level) ELSE 0), present |-> TRUE,
        writable |-> at.writable /\ e.writable, done |-> huge]

WalkIn(m, page) ==
  LET root == [frame |-> PML4, present |-> TRUE, writable |-> TRUE, done |-> FALSE]
      found == Step(m, Step(m, Step(m, Step(m, root, 1, page), 2, page), 3, page), 4, page)
  IN IF found.present THEN [present |-> TRUE, frame |-> found.frame, writable |-> found.writable]
     ELSE Nothing
Walk(page) == WalkIn(mem, page)

Resolve(page) == IF tlb[page].present THEN tlb[page] ELSE Walk(page)
Cached(t, page) == [t EXCEPT ![page] = Resolve(page)]

(* tlb::flush_page. *)
NotFlushed(t, page) == t  \* mutant of Flushed
Flushed(t, page) == [t EXCEPT ![page] = Nothing]

(* Any access to a page that is mapped or just being mapped, by whoever runs, *)
(* and evictions.                                                            *)
Accessible ==
  DOMAIN mapped \cup {p \in Pages : WalkIn(Boot, p).present}
    \cup (IF op.at \in {"handle", "commit"} THEN {op.page} ELSE {})
Access(page) ==
  /\ page \in Accessible /\ ~tlb[page].present
  /\ tlb' = Cached(tlb, page)
  /\ UNCHANGED <<mem, recursive, pool, todo, op, mapped>>

Evict ==
  /\ \E p \in VPages : tlb[p].present
  /\ tlb' = [p \in VPages |-> Nothing]
  /\ UNCHANGED <<mem, recursive, pool, todo, op, mapped>>

-----------------------------------------------------------------------------
Idle == [at |-> "idle"]
Init ==
  /\ mem = [f \in Frames |-> Boot[f]]
  /\ recursive = FALSE /\ pool = Pool
  /\ tlb = [p \in VPages |-> Nothing]
  /\ todo = <<>> /\ op = Idle
  /\ mapped = [p \in {} |-> none]

(* init_paging: the recursive entry; writing cr3 flushes the whole TLB. *)
init_paging ==
  /\ ~recursive
  /\ ~mem[PML4][RECURSIVE_INDEX].present
  /\ mem' = [mem EXCEPT ![PML4][RECURSIVE_INDEX] =
               [present |-> TRUE, writable |-> TRUE, huge |-> FALSE, addr |-> PML4]]
  /\ recursive' = TRUE
  /\ tlb' = [p \in VPages |-> Nothing]
  /\ UNCHANGED <<pool, todo, op, mapped>>

(* Page and PageRange; a range includes its end. *)
base_addr(page) == page * PageSize
end_addr(page) == base_addr(page) + PageSize - 1
containing(addr) == addr \div PageSize
range_inclusive(start, end) == [start |-> start, end |-> end]
range_to(start, end) == [start |-> start, end |-> end - 1]
len(r) == (end_addr(r.end) - base_addr(r.start) + 1) \div PageSize
Nth(r, i) == r.start + i - 1

(* map_range: ranges of the same length, page by page. *)
map_range(virt, phys) ==
  IF len(virt) # len(phys) THEN op' = [at |-> "panic"] /\ UNCHANGED todo
  ELSE /\ todo' = [i \in 1..len(virt) |-> <<Nth(virt, i), Nth(phys, i)>>]
       /\ op' = [at |-> "next"]

Ranges(S) == {r \in {range_inclusive(a, b) : a, b \in S} :
                r.start <= r.end /\ len(r) <= MaxRange /\ r.start..r.end \subseteq S}

MapRange ==
  /\ recursive /\ op = Idle
  /\ \E virt \in Ranges(Pages), phys \in Ranges(PhysPages) : map_range(virt, phys)
  /\ UNCHANGED <<mem, recursive, pool, tlb, mapped>>

(* identity_map: a range of one page at the address of the frame. *)
identity_map ==
  /\ recursive /\ op = Idle
  /\ \E f \in PhysPages \cap Pages : map_range(range_inclusive(f, f), range_inclusive(f, f))
  /\ UNCHANGED <<mem, recursive, pool, tlb, mapped>>

(* identity_map_range: the virtual range is from the page that contains the  *)
(* first address to before the page that contains the last.                  *)
identity_map_range ==
  /\ recursive /\ op = Idle
  /\ \E phys \in Ranges(PhysPages \cap Pages) :
       map_range(range_to(containing(base_addr(phys.start)), containing(end_addr(phys.end))), phys)
  /\ UNCHANGED <<mem, recursive, pool, tlb, mapped>>

-----------------------------------------------------------------------------
(* map_page. *)

(* The table of a level on the way to the page: the first one is always      *)
(* mapped at vm_offset, the others are accessed at their recursive address.  *)
Reach(level, page) ==
  IF level = 1 THEN [present |-> TRUE, frame |-> PML4, writable |-> TRUE]
  ELSE Resolve(table_addr(level, page))
Touched(level, page) == IF level = 1 THEN tlb ELSE Cached(tlb, table_addr(level, page))

At(x) == op.at = x
Fault == op' = [at |-> "fault"] /\ UNCHANGED <<mem, recursive, pool, tlb, todo, mapped>>
Panic == op' = [at |-> "panic"] /\ UNCHANGED <<mem, recursive, pool, tlb, todo, mapped>>

NextPage ==
  /\ At("next")
  /\ IF todo = <<>> THEN op' = Idle /\ UNCHANGED todo
     ELSE /\ op' = [at |-> "table", level |-> 1, page |-> Head(todo)[1], frame |-> Head(todo)[2]]
          /\ todo' = Tail(todo)
  /\ UNCHANGED <<mem, recursive, pool, tlb, mapped>>

(* create_next_table, for an entry that is present: next_table_mut makes it  *)
(* writable and flushes the page that is being mapped.                       *)
NextTable ==
  LET t == Reach(op.level, op.page)
      i == index_of(op.level, op.page)
      e == mem[t.frame][i]
  IN /\ At("table") /\ op.level < 4 /\ t.present /\ e.present
     /\ IF e.writable
        THEN /\ tlb' = Touched(op.level, op.page) /\ UNCHANGED mem
             /\ op' = [op EXCEPT !.level = @ + 1]
        ELSE IF t.writable
        THEN /\ tlb' = Flushed(Touched(op.level, op.page), op.page)
             /\ mem' = [mem EXCEPT ![t.frame][i].writable = TRUE]
             /\ op' = [op EXCEPT !.level = @ + 1]
        ELSE op' = [at |-> "fault"] /\ UNCHANGED <<mem, tlb>>
     /\ UNCHANGED <<recursive, pool, todo, mapped>>

(* create_next_table, for one that is not: a new table is linked. *)
CreateTable ==
  LET t == Reach(op.level, op.page)
      i == index_of(op.level, op.page)
  IN /\ At("table") /\ op.level < 4 /\ ~(t.present /\ mem[t.frame][i].present)
     /\ IF ~t.present THEN Fault
        ELSE IF mem[t.frame][i].huge \/ pool = {} THEN Panic
        ELSE IF ~t.writable THEN Fault
        ELSE \E f \in pool :
               /\ pool' = pool \ {f}
               /\ mem' = [mem EXCEPT ![t.frame][i] =
                            [@ EXCEPT !.present = TRUE, !.writable = TRUE, !.addr = f]]
               /\ tlb' = Touched(op.level, op.page)
               /\ op' = [op EXCEPT !.at = "zero", !.level = @ + 1]
               /\ UNCHANGED <<recursive, todo, mapped>>

(* PageTable::zero, through the new table's recursive address. *)
Zeroed == [i \in 0..RECURSIVE_INDEX |-> none]

Zero ==
  LET t == Reach(op.level, op.page) IN
  /\ At("zero")
  /\ IF ~t.present \/ ~t.writable THEN Fault
     ELSE /\ mem' = [mem EXCEPT ![t.frame] = Zeroed]
          /\ tlb' = Touched(op.level, op.page)
          /\ op' = [op EXCEPT !.at = "table"]
          /\ UNCHANGED <<recursive, pool, todo, mapped>>

(* The entry of the page itself, in the last table. *)
SetEntry ==
  LET t == Reach(4, op.page)
      i == index_of(4, op.page)
  IN /\ At("table") /\ op.level = 4
     /\ IF ~t.present THEN Fault
        ELSE IF mem[t.frame][i].present \/ mem[t.frame][i].huge THEN Panic
        ELSE IF ~t.writable THEN Fault
        ELSE /\ mem' = [mem EXCEPT ![t.frame][i] = [@ EXCEPT !.present = TRUE, !.addr = op.frame]]
             /\ tlb' = Touched(4, op.page)
             /\ op' = [op EXCEPT !.at = "handle"]
             /\ UNCHANGED <<recursive, pool, todo, mapped>>

(* Handle::set_writable and Handle::commit, which flushes the page. *)
SetWritable ==
  LET t == Reach(4, op.page)
      i == index_of(4, op.page)
  IN /\ At("handle")
     /\ IF ~t.present \/ ~t.writable THEN Fault
        ELSE /\ \E w \in BOOLEAN : mem' = [mem EXCEPT ![t.frame][i].writable = w]
             /\ tlb' = Touched(4, op.page)
             /\ op' = [op EXCEPT !.at = "commit"]
             /\ UNCHANGED <<recursive, pool, todo, mapped>>

Commit ==
  LET t == Reach(4, op.page) IN
  /\ At("handle") \/ At("commit")
  /\ tlb' = Flushed(tlb, op.page)
  /\ mapped' = [p \in DOMAIN mapped \cup {op.page} |->
                  IF p = op.page THEN [frame |-> op.frame,
                                       writable |-> mem[t.frame][index_of(4, p)].writable]
                  ELSE mapped[p]]
  /\ op' = [at |-> "next"]
  /\ UNCHANGED <<mem, recursive, pool, todo>>

-----------------------------------------------------------------------------
(* translate_page, for a page of the size that the entries of `last` hold:   *)
(* 1GB in a Pdpt, 2MB in a Pd, 4KB in a Pt.                                  *)
NotMapped == -1
WrongSize == -2
Entry(level, page) == mem[Walk(table_addr(level, page)).frame][index_of(level, page)]
translate_page(last, page) ==
  IF \E l \in 1..last : (\A k \in 1..(l - 1) : Entry(k, page).present) /\ ~Entry(l, page).present
  THEN NotMapped
  ELSE IF Entry(last, page).huge # (last < 4) THEN WrongSize
  ELSE Entry(last, page).addr

(* It reads the tables on the way at their recursive addresses. *)
Translate(page) ==
  /\ recursive /\ op = Idle
  /\ tlb' = [p \in VPages |->
               IF \E l \in 2..4 : /\ p = table_addr(l, page)
                                 /\ \A k \in 1..(l - 1) : Entry(k, page).present
               THEN Resolve(p) ELSE tlb[p]]
  /\ UNCHANGED <<mem, recursive, pool, todo, op, mapped>>

Map == MapRange \/ identity_map \/ identity_map_range
MapPage == NextPage \/ NextTable \/ CreateTable \/ Zero \/ SetEntry \/ SetWritable \/ Commit

Next ==
  \/ init_paging \/ Map \/ MapPage
  \/ Evict \/ \E p \in Pages : Access(p) \/ Translate(p)

Spec == Init /\ [][Next]_pagingVars

-----------------------------------------------------------------------------
(* Properties *)

Own(page) == index_of(1, page) # RECURSIVE_INDEX
(* The tables, found from entry to entry and not by their addresses: the      *)
(* level of each, the leading digits of the pages below it, and its frame.    *)
Below(tables, level) ==
  {[level |-> level + 1, prefix |-> ti[1].prefix * ENTRIES + ti[2],
    frame |-> mem[ti[1].frame][ti[2]].addr] :
     ti \in {tj \in tables \X (0..RECURSIVE_INDEX) :
       LET e == mem[tj[1].frame][tj[2]] IN
       e.present /\ ~e.huge /\ (level = 1 => tj[2] # RECURSIVE_INDEX)}}
Tables ==
  LET one == {[level |-> 1, prefix |-> 0, frame |-> PML4]}
      two == Below(one, 1)
      three == Below(two, 2)
  IN one \cup two \cup three \cup Below(three, 3)

(* However many tables other mappings have added, the MMU (and its TLB) sees  *)
(* what was asked for: each page that was mapped at its frame with its flags, *)
(* what the bootloader mapped, and nothing else; and so does translate_page.  *)
MappedAsRequested ==
  recursive /\ op = Idle => \A p \in {q \in VPages : Own(q)} :
    LET w == Walk(p) IN
    /\ IF p \in DOMAIN mapped
       THEN /\ w = [present |-> TRUE, frame |-> mapped[p].frame, writable |-> mapped[p].writable]
            /\ translate_page(4, p) = mapped[p].frame
       ELSE w = WalkIn(Boot, p)
    /\ \A last \in {2, 3} : translate_page(last, p) >= 0 =>
         w.present /\ w.frame = translate_page(last, p) + (p % ENTRIES^(4 - last))
    /\ tlb[p].present => tlb[p] = w

(* While tables are being added too: the recursive address of a table leads   *)
(* to the frame in the entry above it, so that no access to a table faults or *)
(* lands elsewhere; each table has a frame of its own, which nobody mapped.   *)
TablesAreReached ==
  /\ ~At("fault")
  /\ recursive /\ ~At("zero") =>
       LET tables == Tables
           inUse == {mapped[q].frame : q \in DOMAIN mapped} \cup pool
       IN \A t \in tables :
            /\ Reach(t.level, t.prefix * ENTRIES^(5 - t.level)).present
            /\ Reach(t.level, t.prefix * ENTRIES^(5 - t.level)).frame = t.frame
            /\ t.frame \notin inUse
            /\ \A u \in tables : u.frame = t.frame => u = t
=============================================================================

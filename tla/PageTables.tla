----------------------------- MODULE PageTables -----------------------------
(***************************************************************************)
(* The page tables the processor walks: four levels of pages, built by     *)
(* sys/mm/vmmgr_virtual.c through a slot of the top table that leads back  *)
(* to it, copied by fork and emptied by exec; and what the processor may   *)
(* still remember of older entries, since %cr3 is loaded only where the    *)
(* code loads it and the thread switch skips the load when the next        *)
(* thread has the same top table.                                          *)
(*                                                                         *)
(* A page is its number: the address without the offset.  Table pages are  *)
(* numbered as the bump allocator hands them out; frames of processes have *)
(* numbers above MaxTables.  The kernel's linear map, through which a      *)
(* table can be reached at its physical address, is not itself a table     *)
(* here.  Handlers run with interrupts off and are one step, up to and     *)
(* with the thread switch at the end of irq.s and isr.s.                   *)
(***************************************************************************)
EXTENDS Integers, Sequences, SequencesExt, FiniteSets

CONSTANTS Radix,          \* entries of a table (512)
          Program,        \* the pages do_exec and do_exec1 map, in order
          Growth,         \* pages below them that a fault may have mapped
          Proc, First,    \* processes; the one do_exec creates
          Start,          \* the kernel thread that runs start()
          Leftover,       \* an entry of a page nobody has cleared
          MaxTables,      \* bound: pages used as tables
          MaxFrames       \* bound: frames of processes

Thread == Proc \cup {Start}
UserPage == {Program[i] : i \in 1..Len(Program)} \cup Growth
Recursive == Radix - 2    \* the slot of the top table that leads back (510)
KernelPage == Radix^4 - 1
KernelFrame == 0

ASSUME PageTablesAssumption ==
    /\ Radix \in Nat /\ Radix >= 4 /\ {MaxTables, MaxFrames} \subseteq Nat
    /\ First \in Proc /\ Start \notin Proc
    /\ UserPage \subseteq 0..Radix^2 - 1      \* the first slot of the upper levels

VARIABLES tables,         \* table page -> [0..Radix-1 -> entry]
          root,           \* kthread.pcr3 of each thread, 0: none yet
          used,           \* frames handed out
          cr3,
          stale,          \* translations replaced since %cr3 was last loaded
          currentThread,
          runQueue,
          asleep,         \* threads with sleeping > 0
          ended           \* processes that have exited or were killed
vars == <<tables, root, used, cr3, stale, currentThread, runQueue, asleep, ended>>

INSTANCE PageEntries WITH Page <- UserPage, PagesPerTable <- Radix

-----------------------------------------------------------------------------
PAGE_TABLE_OFFSET(virt) == virt % Radix
PAGE_DIRECTORY_OFFSET(virt) == (virt \div Radix) % Radix
PAGE_POINTER_OFFSET(virt) == (virt \div Radix^2) % Radix
PAGE_PML4_OFFSET(virt) == (virt \div Radix^3) % Radix

(* The processor: what slot i of a table holds, the table or frame it      *)
(* leads to, and the walk of a page.                                       *)
NoTable == -1
Slot(ts, i) == [t \in Int |-> IF t \in DOMAIN ts THEN ts[t][i] ELSE NoEntry]
Step(ts, i) ==
    [t \in Int |-> IF t \in DOMAIN ts /\ ts[t][i].present THEN ts[t][i].frame ELSE NoTable]
LastTable(ts, top, virt) ==
    Step(ts, PAGE_DIRECTORY_OFFSET(virt))
      [Step(ts, PAGE_POINTER_OFFSET(virt))[Step(ts, PAGE_PML4_OFFSET(virt))[top]]]
Translate(ts, top, virt) == Step(ts, PAGE_TABLE_OFFSET(virt))[LastTable(ts, top, virt)]
EntryOf(ts, top, virt) == Slot(ts, PAGE_TABLE_OFFSET(virt))[LastTable(ts, top, virt)]

(* Where the entries of virt appear in the address space itself: a page    *)
(* and an index into it.                                                   *)
RECURSIVE_PAGE_TABLE_ENTRY == Recursive * Radix^3
RECURSIVE_PAGE_DIRECTORY_ENTRY == (Recursive * Radix + Recursive) * Radix^2
RECURSIVE_PAGE_POINTER_ENTRY == ((Recursive * Radix + Recursive) * Radix + Recursive) * Radix
RECURSIVE_ENTRY == RECURSIVE_PAGE_POINTER_ENTRY + Recursive

get_pml4e_offset_recurse(virt) ==
    [page |-> RECURSIVE_ENTRY, index |-> PAGE_PML4_OFFSET(virt)]

get_pdpe_offset_recurse(virt) ==
    [page  |-> RECURSIVE_PAGE_POINTER_ENTRY + PAGE_PML4_OFFSET(virt),
     index |-> PAGE_POINTER_OFFSET(virt)]

get_pde_offset_recurse(virt) ==
    LET pointer == (RECURSIVE_PAGE_DIRECTORY_ENTRY \div Radix + PAGE_PML4_OFFSET(virt)) * Radix
    IN  [page |-> pointer + PAGE_POINTER_OFFSET(virt), index |-> PAGE_DIRECTORY_OFFSET(virt)]

get_pte_recurse(virt) ==
    LET pointer == (RECURSIVE_PAGE_TABLE_ENTRY \div Radix^2 + PAGE_PML4_OFFSET(virt)) * Radix^2
        directory == (pointer \div Radix + PAGE_POINTER_OFFSET(virt)) * Radix
    IN  [page |-> directory + PAGE_DIRECTORY_OFFSET(virt), index |-> PAGE_TABLE_OFFSET(virt)]

Load(ts, top, at) == ts[Translate(ts, top, at.page)][at.index]
Store(ts, top, at, e) == [ts EXCEPT ![Translate(ts, top, at.page)][at.index] = e]

(* sub_malloc(0,1) with memset over the page, or, for a page table, over   *)
(* the size of a pointer: its first entry.                                 *)
NewTable(ts) == Cardinality(DOMAIN ts) + 1
Cleared == [i \in 0..Radix-1 |-> NoEntry]
FirstCleared == [i \in 0..Radix-1 |-> IF i = 0 THEN NoEntry ELSE Leftover]
AddTable(ts, contents) ==
    [t \in DOMAIN ts \cup {NewTable(ts)} |-> IF t = NewTable(ts) THEN contents ELSE ts[t]]

(* set_pml4_entry, set_pdpe_entry, set_pde_entry *)
TableEntry(e, t) == set_page_entry(e, t)

(* One level of vmmgr_map_page_after_paging: a table where there is none. *)
EnsureTable(ts, top, at, contents) ==
    LET e == Load(ts, top, at)
    IN  IF e.present THEN ts
        ELSE Store(AddTable(ts, contents), top, at, TableEntry(e, NewTable(ts)))

vmmgr_map_page_after_paging(ts, top, phys, virt) ==
    LET upper == EnsureTable(ts, top, get_pml4e_offset_recurse(virt), Cleared)
        middle == EnsureTable(upper, top, get_pdpe_offset_recurse(virt), Cleared)
        lower == EnsureTable(middle, top, get_pde_offset_recurse(virt), FirstCleared)
        at == get_pte_recurse(virt)
    IN  Store(lower, top, at, set_page_entry(Load(lower, top, at), phys))

(* vmmgr_map_page, before paging is on: the tables at their addresses.     *)
Child(ts, t, i, contents) ==
    IF ts[t][i].present THEN ts
    ELSE [AddTable(ts, contents) EXCEPT ![t][i] = TableEntry(@, NewTable(ts))]

vmmgr_map_page(ts, top, phys, virt) ==
    LET upper == Child(ts, top, PAGE_PML4_OFFSET(virt), Cleared)
        pdpe_dir1 == Step(upper, PAGE_PML4_OFFSET(virt))[top]
        middle == Child(upper, pdpe_dir1, PAGE_POINTER_OFFSET(virt), Cleared)
        pde_dir1 == Step(middle, PAGE_POINTER_OFFSET(virt))[pdpe_dir1]
        lower == Child(middle, pde_dir1, PAGE_DIRECTORY_OFFSET(virt), FirstCleared)
        pte_dir1 == Step(lower, PAGE_DIRECTORY_OFFSET(virt))[pde_dir1]
    IN  [lower EXCEPT ![pte_dir1][PAGE_TABLE_OFFSET(virt)] = set_page_entry(@, phys)]

(* The top table with its recursive slot, the kernel, and the top table    *)
(* once more at its own address.                                           *)
KernelRoot == 1
vmmgr_init ==
    LET pml4table == AddTable(<<>>, [Cleared EXCEPT ![Recursive] = set_page_entry(@, KernelRoot)])
    IN  vmmgr_map_page(vmmgr_map_page(pml4table, KernelRoot, KernelFrame, KernelPage),
                       KernelRoot, KernelRoot, RECURSIVE_ENTRY)

-----------------------------------------------------------------------------
(* The slots a loop "until the first empty entry" visits, and those a loop *)
(* over all entries finds filled, in order.                                *)
Leading(table) == {i \in 0..Radix-1 : \A j \in 0..i : table[j] # NoEntry}
Filled(table) == {i \in 0..Radix-1 : table[i] # NoEntry}
InOrder(slots) == SetToSortSeq(slots, LAMBDA a, b : a < b)

clone_pgdir_shared(ts, parent) ==    \* mutant: the copy's recursive slot is the parent's
    AddTable(ts, ts[parent])

clone_pgdir_user(ts, parent) ==      \* mutant: the kernel's slots are left out
    AddTable(ts, [i \in 0..Radix-1 |->
                     IF i = Recursive THEN set_page_entry(NoEntry, NewTable(ts))
                     ELSE IF i < Recursive THEN ts[parent][i] ELSE NoEntry])

clone_pgdir(ts, parent) ==
    AddTable(ts, [ts[parent] EXCEPT ![Recursive] = set_page_entry(NoEntry, NewTable(ts))])

(* copy_page_table, from the innermost loop out: a page table is copied    *)
(* and every entry of both is write protected and marked.                  *)
CopyTable(ts, pd, childPd, k) ==
    LET pt == ts[pd][k].frame
        protected == [l \in 0..Radix-1 |-> Protected(ts[pt][l])]
    IN  [AddTable(ts, protected) EXCEPT ![pt] = protected,
                                        ![childPd][k] = TableEntry(@, NewTable(ts))]

CopyDirectory(ts, pdpt, childPdpt, j) ==
    LET pd == ts[pdpt][j].frame
        new == NewTable(ts)
    IN  FoldLeft(LAMBDA acc, k : CopyTable(acc, pd, new, k),
                 [AddTable(ts, Cleared) EXCEPT ![childPdpt][j] = TableEntry(@, new)],
                 InOrder(Filled(ts[pd])))

CopyPointers(ts, top, childTop, i) ==
    LET pdpt == ts[top][i].frame
        new == NewTable(ts)
    IN  FoldLeft(LAMBDA acc, j : CopyDirectory(acc, pdpt, new, j),
                 [AddTable(ts, Cleared) EXCEPT ![childTop][i] = TableEntry(@, new)],
                 InOrder(Leading(ts[pdpt])))

CopyTree(ts, top, childTop) ==
    FoldLeft(LAMBDA acc, i : CopyPointers(acc, top, childTop, i), ts, InOrder(Leading(ts[top])))

clear_page_tables(ts, top) ==
    LET pointers == {ts[top][i].frame : i \in Leading(ts[top])}
        directories == UNION {{ts[t][j].frame : j \in Leading(ts[t])} : t \in pointers}
        lowest == UNION {{ts[t][k].frame : k \in Filled(ts[t])} : t \in directories}
    IN  [t \in DOMAIN ts |->
            IF t \in directories \cup lowest THEN Cleared
            ELSE IF t \in pointers \cup {top}
                 THEN [i \in 0..Radix-1 |-> IF i \in Leading(ts[t]) THEN NoEntry ELSE ts[t][i]]
            ELSE ts[t]]

(* The pages of a program, on the next frames. *)
MapProgram(ts, top, first) ==
    FoldLeft(LAMBDA acc, i : vmmgr_map_page_after_paging(acc, top, first + i, Program[i]),
             ts, [i \in 1..Len(Program) |-> i])

(* After do_exec has created the first process, in the tables of the       *)
(* kernel: thread Start is still running.                                  *)
Init ==
    /\ tables = MapProgram(vmmgr_init, KernelRoot, MaxTables)
    /\ root = [t \in Thread |-> IF t \in {Start, First} THEN KernelRoot ELSE 0]
    /\ used = Len(Program)
    /\ cr3 = KernelRoot /\ stale = {}
    /\ currentThread = Start /\ runQueue = <<First>>
    /\ asleep = {} /\ ended = {}

NewFrame == MaxTables + used + 1
TablesLeft(k) == Cardinality(DOMAIN tables) + k <= MaxTables
FramesLeft(k) == used + k <= MaxFrames

(* The entries of the running address space that a step replaces: the      *)
(* processor may hold any of them.                                         *)
Replaced(ts) ==
    {<<pg, EntryOf(tables, cr3, pg)>> : pg \in
        {v \in UserPage : LET e == EntryOf(tables, cr3, v)
                          IN  e.present /\ EntryOf(ts, cr3, v) # e}}

-----------------------------------------------------------------------------
(* next_runnable_kthread and the switch: the first thread of the queue     *)
(* that is awake runs; %cr3 is loaded, and what the processor remembers    *)
(* forgotten, only if it differs.                                          *)
Dispatch(queue, remembered) ==
    \E i \in 1..Len(queue) :
        /\ queue[i] \notin asleep' /\ \A j \in 1..i-1 : queue[j] \in asleep'
        /\ currentThread' = queue[i]
        /\ runQueue' = RemoveAt(queue, i)
        /\ cr3' = root'[queue[i]]
        /\ stale' = IF cr3' = cr3 THEN remembered ELSE {}

Requeue(remembered) == Dispatch(Append(runQueue, currentThread), remembered)

(* _irq0: timer_handler may wake sleepers; or a system call that changes   *)
(* none of this.                                                           *)
irq_timer ==
    /\ \E woken \in SUBSET asleep : asleep' = asleep \ woken
    /\ UNCHANGED <<tables, root, used, ended>>
    /\ Requeue(stale)

sleep(p) ==
    /\ currentThread = p
    /\ asleep' = asleep \cup {p}
    /\ UNCHANGED <<tables, root, used, ended>>
    /\ Requeue(stale)

(* The child is queued, then the stub queues the parent. *)
fork_parent_first(p, q) ==          \* mutant: the child is queued behind the parent
    LET copied == CopyTree(clone_pgdir(tables, root[p]), root[p], NewTable(tables))
    IN  /\ currentThread = p /\ root[q] = 0 /\ TablesLeft(6)
        /\ tables' = copied
        /\ root' = [root EXCEPT ![q] = NewTable(tables)]
        /\ UNCHANGED <<used, asleep, ended>>
        /\ Dispatch(runQueue \o <<p, q>>, stale \cup Replaced(copied))

fork(p, q) ==
    LET copied == CopyTree(clone_pgdir(tables, root[p]), root[p], NewTable(tables))
    IN  /\ currentThread = p /\ root[q] = 0 /\ TablesLeft(6)
        /\ tables' = copied
        /\ root' = [root EXCEPT ![q] = NewTable(tables)]
        /\ UNCHANGED <<used, asleep, ended>>
        /\ Dispatch(runQueue \o <<q, p>>, stale \cup Replaced(copied))

(* main_execve: the tables are emptied and %cr3 is reloaded before the     *)
(* program is mapped; do_exec1 queues the process, Schedule follows.       *)
execve(p) ==
    /\ currentThread = p /\ FramesLeft(Len(Program)) /\ TablesLeft(2 + Len(Program))
    /\ tables' = MapProgram(clear_page_tables(tables, root[p]), root[p], NewFrame - 1)
    /\ used' = used + Len(Program)
    /\ UNCHANGED <<root, asleep, ended>>
    /\ Requeue({})

(* A fault taken for a growing stack: mmap.  %cr3 is not reloaded. *)
grow_stack(p) ==
    \E pg \in Growth :
        LET mapped == vmmgr_map_page_after_paging(tables, root[p], NewFrame, pg)
        IN  /\ currentThread = p /\ FramesLeft(1) /\ TablesLeft(1)
            /\ tables' = mapped
            /\ used' = used + 1
            /\ UNCHANGED <<root, asleep, ended>>
            /\ Requeue(stale \cup Replaced(mapped))

(* A write to a page that is marked: its contents move to a new frame and  *)
(* %cr3 is reloaded.                                                       *)
copy_on_write(p) ==
    \E pg \in UserPage :
        LET e == Load(tables, root[p], get_pte_recurse(pg))
        IN  /\ currentThread = p /\ FramesLeft(1)
            /\ Translate(tables, root[p], pg) # NoTable
            /\ e.cow /\ ~ e.writable
            /\ tables' = vmmgr_map_page_after_paging(tables, root[p], NewFrame, pg)
            /\ used' = used + 1
            /\ UNCHANGED <<root, asleep, ended>>
            /\ Requeue({})

(* sys_exit, or a fault that kills *)
exit(p) ==
    /\ currentThread = p
    /\ ended' = ended \cup {p}
    /\ UNCHANGED <<tables, root, used, asleep>>
    /\ Dispatch(runQueue, stale)

Next ==
    \/ irq_timer
    \/ \E p \in Proc :
          \/ sleep(p) \/ execve(p) \/ grow_stack(p) \/ copy_on_write(p) \/ exit(p)
          \/ \E q \in Proc : fork(p, q)

Spec == Init /\ [][Next]_vars

-----------------------------------------------------------------------------
Live(p) == root[p] # 0 /\ p \notin ended
Entry(p, pg) == IF root[p] = 0 THEN NoEntry ELSE EntryOf(tables, root[p], pg)

(* Every variable has its type. *)
TypeOK ==
    /\ \E n \in 1..MaxTables : tables \in [1..n -> [0..Radix-1 -> [frame : -1..MaxTables + MaxFrames,
                                   present : BOOLEAN, writable : BOOLEAN, cow : BOOLEAN]]]
    /\ root \in [Thread -> {0} \cup DOMAIN tables]
    /\ used \in 0..MaxFrames
    /\ cr3 \in DOMAIN tables
    /\ currentThread \in Thread /\ runQueue \in Seq(Thread)
    /\ asleep \subseteq Thread /\ ended \subseteq Proc

Flat == INSTANCE FlatTables
          WITH Page <- UserPage, PagesPerTable <- Radix,
               Image <- {Program[i] : i \in 1..Len(Program)},
               pt <- [p \in Proc |-> [pg \in UserPage |-> Entry(p, pg)]]

(* The four levels, reached and changed through the recursive slot of the  *)
(* process that runs, act as one table per process: vmmgr_map_page_after_  *)
(* paging changes the entry it is asked for and no other, fork makes an    *)
(* equal table that shares nothing with the first, exec starts afresh.     *)
TablesAreFlat == Flat!Spec

(* A process that runs can reach no frame of another one for writing, not  *)
(* even through a translation the processor kept from before a fork: fork  *)
(* write protects the parent's entries without reloading %cr3, and it is   *)
(* the order of the run queue that has %cr3 loaded before the parent       *)
(* writes again.                                                           *)
NoStaleWrite ==
    \A p \in Proc : currentThread = p =>
        \A e \in {s[2] : s \in stale} \cup {Entry(p, pg) : pg \in UserPage} :
            e.present /\ e.writable =>
                \A q \in Proc \ {p}, pg \in UserPage :
                    ~ (Live(q) /\ Entry(q, pg).present /\ Entry(q, pg).frame = e.frame)

(* Every address space contains the kernel. *)
KernelEverywhere ==
    \A t \in Thread : root[t] # 0 => Translate(tables, root[t], KernelPage) = KernelFrame
=============================================================================

---------------------------- MODULE AddressSpaces ----------------------------
(***************************************************************************)
(* The memory of processes: page tables and copy on write                  *)
(* (sys/mm/vmmgr_virtual.c, fork of sys/isr.c), the page fault handler     *)
(* (sys/isr.c), the lists of memory areas (sys/mmap.c) and the memory side *)
(* of exec (sys/exec.c).                                                   *)
(*                                                                         *)
(* A handler runs with interrupts off and is one step; a write of a        *)
(* process is another, taken again after a fault that did not kill.  A     *)
(* process has one flat table here and no translation is stale: that is    *)
(* what PageTables shows.  Frames are never freed.                         *)
(***************************************************************************)
EXTENDS Integers, FiniteSets, FiniteSetsExt

CONSTANTS Proc, First,
          Value,             \* what a program writes
          CodePage, StackPage, HeapPage,    \* the areas of a program
          PagesPerTable,     \* pages of one page table (512)
          MaxPage,           \* bound: highest page of a process
          StackLimit,        \* no_stack_pages up to which the stack grows (4)
          Touched,           \* places a program writes: pairs <<page, part of it>>
          MaxFrames,         \* bound: physical blocks
          MaxNodes           \* bound: vm_area_struct objects

Page == 0..MaxPage
Part == {"start", "middle", "end"}     \* the first byte, the last 100, the rest
Area == {CodePage, StackPage, HeapPage}

ASSUME AddressSpacesAssumption ==
    /\ First \in Proc
    /\ {MaxPage, StackLimit, MaxFrames, MaxNodes} \subseteq Nat
    /\ PagesPerTable \in Nat \ {0}
    /\ Area \subseteq Page
    /\ CodePage # StackPage /\ StackPage # HeapPage /\ HeapPage # CodePage
    /\ MaxNodes >= 3         \* enough for the first program
    /\ Touched \subseteq Page \X Part
    /\ Value \cap {"none", "zero", "image"} = {}

VARIABLES pt,            \* [Proc -> [Page -> entry]]
          frames,        \* contents of the frames handed out so far
          vma,           \* node -> [start, next]: the vm_area_structs; a start below
                         \* 0 is a page at the top of the kernel's half
          used,          \* the nodes that are allocated
          mmap, mmap_cache,              \* first and last node of a process
          no_stack_pages,
          status,        \* "unborn", "alive", "dead"
          kernel         \* "up"; "recursing": faults in the handler without end
areas == <<vma, used, mmap, mmap_cache>>
vars == <<pt, frames, areas, no_stack_pages, status, kernel>>

Node == 1..MaxNodes
Null == 0
Zeroed == [start |-> 0, next |-> Null]
INSTANCE PageEntries         \* NoEntry, TableOf, set_page_entry, copy_page_table

-----------------------------------------------------------------------------
(* mmap takes a new node (first fit) and appends it behind mmap_cache. *)
insert_vma(s, pg) ==
    LET n == Min(Node \ s.used)
        new == [s.vma EXCEPT ![n] = [start |-> pg, next |-> Null]]
    IN  [vma   |-> IF s.first = Null THEN new ELSE [new EXCEPT ![s.last].next = n],
         used  |-> s.used \cup {n},
         first |-> IF s.first = Null THEN n ELSE s.first,
         last  |-> n]

NodesLeft(k) == Cardinality(Node \ used) >= k
FramesLeft(k) == Cardinality(DOMAIN frames) + k <= MaxFrames
NextFrame_gap == Cardinality(DOMAIN frames) + 1    \* mutant: off by one
NextFrame == Cardinality(DOMAIN frames)
Filled(f, n, v) == [x \in DOMAIN f \cup {n} |-> IF x = n THEN v ELSE f[x]]

(* do_exec, do_exec1: segment, stack and heap are mapped in this order. *)
Program(s) == insert_vma(insert_vma(insert_vma(s, CodePage), StackPage), HeapPage)
ProgramTable(n) ==
    [pg \in Page |->
        CASE pg = CodePage  -> set_page_entry(NoEntry, n)
          [] pg = StackPage -> set_page_entry(NoEntry, n + 1)
          [] pg = HeapPage  -> set_page_entry(NoEntry, n + 2)
          [] OTHER          -> NoEntry]
ProgramFrames(f, n) == Filled(Filled(Filled(f, n, "image"), n + 1, "zero"), n + 2, "zero")

NoFrames == [x \in {} |-> "zero"]
Boot == Program([vma |-> [n \in Node |-> Zeroed], used |-> {}, first |-> Null, last |-> Null])

Init ==
    /\ pt = [p \in Proc |-> IF p = First THEN ProgramTable(0) ELSE [pg \in Page |-> NoEntry]]
    /\ frames = ProgramFrames(NoFrames, 0)
    /\ vma = Boot.vma /\ used = Boot.used
    /\ mmap = [p \in Proc |-> IF p = First THEN Boot.first ELSE Null]
    /\ mmap_cache = [p \in Proc |-> IF p = First THEN Boot.last ELSE Null]
    /\ no_stack_pages = [p \in Proc |-> 1]
    /\ status = [p \in Proc |-> IF p = First THEN "alive" ELSE "unborn"]
    /\ kernel = "up"

Runs(p) == kernel = "up" /\ status[p] = "alive"

-----------------------------------------------------------------------------
(* fork: the child's kthread is a copy of the parent's, list heads         *)
(* included; copy_page_table write protects every entry of every table,    *)
(* absent pages included, and marks it COW in parent and child.            *)
fork(p, q) ==
    /\ Runs(p) /\ status[q] = "unborn"
    /\ pt' = [pt EXCEPT ![p] = copy_page_table(pt[p]), ![q] = copy_page_table(pt[p])]
    /\ mmap' = [mmap EXCEPT ![q] = mmap[p]]
    /\ mmap_cache' = [mmap_cache EXCEPT ![q] = mmap_cache[p]]
    /\ no_stack_pages' = [no_stack_pages EXCEPT ![q] = no_stack_pages[p]]
    /\ status' = [status EXCEPT ![q] = "alive"]
    /\ UNCHANGED <<frames, vma, used, kernel>>

(* The nodes that a walk from mmap meets *)
Listed(p) ==
    LET nth[k \in 0..MaxNodes] ==
            IF k = 0 THEN mmap[p]
            ELSE IF nth[k - 1] = Null THEN Null ELSE vma[nth[k - 1]].next
    IN  {nth[k] : k \in 0..MaxNodes} \ {Null}

(* main_execve: clear_vmas, clear_page_tables, do_exec1 *)
execve(p) ==
    LET s == Program([vma   |-> [n \in Node |-> IF n \in Listed(p) THEN Zeroed ELSE vma[n]],
                      used  |-> used \ Listed(p), first |-> Null, last |-> Null])
    IN  /\ Runs(p) /\ FramesLeft(3)
        /\ Cardinality(Node \ (used \ Listed(p))) >= 3
        /\ pt' = [pt EXCEPT ![p] = ProgramTable(NextFrame)]
        /\ frames' = ProgramFrames(frames, NextFrame)
        /\ vma' = s.vma /\ used' = s.used
        /\ mmap' = [mmap EXCEPT ![p] = s.first]
        /\ mmap_cache' = [mmap_cache EXCEPT ![p] = s.last]
        /\ no_stack_pages' = [no_stack_pages EXCEPT ![p] = 1]
        /\ UNCHANGED <<status, kernel>>

(* A program writes to a page that is mapped and writable. *)
write(p, pg, v) ==
    /\ Runs(p)
    /\ pt[p][pg].present /\ pt[p][pg].writable
    /\ frames' = [frames EXCEPT ![pt[p][pg].frame] = v]
    /\ UNCHANGED <<pt, areas, no_stack_pages, status, kernel>>

-----------------------------------------------------------------------------
(* page_fault_handler.  Any fault up to 100 bytes below the start of any   *)
(* area, or on its first byte, is taken for a growing stack.               *)
NearArea(p, pg, part) ==
    \E n \in Listed(p) :
        \/ vma[n].start = pg /\ part = "start"
        \/ vma[n].start = pg + 1 /\ part = "end"

Kill(p) ==
    /\ status' = [status EXCEPT ![p] = "dead"]
    /\ UNCHANGED <<pt, frames, areas, no_stack_pages, kernel>>

(* The page below the area that was mapped last is mapped, whatever that   *)
(* area is.  Below page 0 the address wraps to the top of the kernel's     *)
(* half: the frame and the area are taken and no user page changes.        *)
grow_stack(p) ==
    LET pg == vma[mmap_cache[p]].start - 1
        s == insert_vma([vma |-> vma, used |-> used, first |-> mmap[p],
                         last |-> mmap_cache[p]], pg)
    IN  /\ NodesLeft(1) /\ FramesLeft(1)
        /\ no_stack_pages' = [no_stack_pages EXCEPT ![p] = @ + 1]
        /\ pt' = IF pg \in Page THEN [pt EXCEPT ![p][pg] = set_page_entry(@, NextFrame)]
                 ELSE pt
        /\ frames' = Filled(frames, NextFrame, "zero")
        /\ vma' = s.vma /\ used' = s.used
        /\ mmap' = [mmap EXCEPT ![p] = s.first]
        /\ mmap_cache' = [mmap_cache EXCEPT ![p] = s.last]
        /\ UNCHANGED <<status, kernel>>

copy_on_write_blank(p, pg) ==        \* mutant: the contents are not copied back
    /\ FramesLeft(1)
    /\ pt' = [pt EXCEPT ![p][pg] = set_page_entry(@, NextFrame)]
    /\ frames' = Filled(frames, NextFrame, "zero")
    /\ UNCHANGED <<areas, no_stack_pages, status, kernel>>

(* Copying a page that is not present faults in the handler again. *)
copy_on_write(p, pg) ==
    IF pt[p][pg].present
    THEN /\ FramesLeft(1)
         /\ pt' = [pt EXCEPT ![p][pg] = set_page_entry(@, NextFrame)]
         /\ frames' = Filled(frames, NextFrame, frames[pt[p][pg].frame])
         /\ UNCHANGED <<areas, no_stack_pages, status, kernel>>
    ELSE /\ kernel' = "recursing"
         /\ UNCHANGED <<pt, frames, areas, no_stack_pages, status>>

page_fault_handler(p, pg, part) ==
    /\ Runs(p)
    /\ ~ (pt[p][pg].present /\ pt[p][pg].writable)
    /\ IF NearArea(p, pg, part)
       THEN IF no_stack_pages[p] <= StackLimit THEN grow_stack(p) ELSE Kill(p)
       ELSE IF pt[p][pg].cow THEN copy_on_write(p, pg) ELSE Kill(p)

Next ==
    \E p \in Proc :
        \/ \E q \in Proc : fork(p, q)
        \/ execve(p)
        \/ \E t \in Touched, v \in Value : write(p, t[1], v)
        \/ \E t \in Touched : page_fault_handler(p, t[1], t[2])

Spec == Init /\ [][Next]_vars

-----------------------------------------------------------------------------
(* Every variable has its type. *)
TypeOK ==
    /\ DOMAIN frames = 0..Cardinality(DOMAIN frames) - 1
    /\ \A f \in DOMAIN frames : frames[f] \in Value \cup {"zero", "image"}
    /\ pt \in [Proc -> [Page -> [frame : {-1} \cup DOMAIN frames, present : BOOLEAN,
                                 writable : BOOLEAN, cow : BOOLEAN]]]
    /\ vma \in [Node -> [start : Int, next : {Null} \cup Node]]
    /\ used \subseteq Node
    /\ mmap \in [Proc -> {Null} \cup Node] /\ mmap_cache \in [Proc -> {Null} \cup Node]
    /\ no_stack_pages \in [Proc -> Nat]
    /\ status \in [Proc -> {"unborn", "alive", "dead"}]
    /\ kernel \in {"up", "recursing"}

(* The memory a process sees. *)
Memory ==
    [p \in Proc |-> [pg \in Page |->
        IF pt[p][pg].present THEN frames[pt[p][pg].frame] ELSE "none"]]

Image ==
    [pg \in Page |-> CASE pg = CodePage -> "image"
                       [] pg \in {StackPage, HeapPage} -> "zero"
                       [] OTHER -> "none"]

PM == INSTANCE PrivateMemory
        WITH NoPage <- "none", Fresh <- "zero", mem <- Memory, grown <- no_stack_pages

(* Copy on write is invisible: the processes have private memories, a fork *)
(* copies, an exec or a growing stack of one leaves the others alone, and  *)
(* a fault that is not a growth or a kill changes nothing that can be      *)
(* seen.                                                                   *)
MemoryIsPrivate == PM!Spec

(* A frame that two entries map is writable through neither. *)
SharedIsReadOnly ==
    \A p \in Proc, a \in Page : pt[p][a].present /\ pt[p][a].writable =>
        \A q \in Proc, b \in Page :
            pt[q][b].present /\ pt[q][b].frame = pt[p][a].frame => q = p /\ b = a

(* A fault below the stack that does not kill maps the page it asked for. *)
StackGrows ==
    [][\A p \in Proc :
         (no_stack_pages'[p] > no_stack_pages[p] /\ status[p] = "alive") =>
             pt'[p][StackPage - 1].present]_vars

(* A page mapped for a growing stack takes the place of no other page. *)
GrowthKeepsPages ==
    [][\A p \in Proc, pg \in Page :
         (no_stack_pages'[p] > no_stack_pages[p] /\ pt[p][pg].present) =>
             pt'[p][pg] = pt[p][pg]]_vars

(* A fault outside the memory of a process never gets the kernel into      *)
(* trouble: the process is killed.                                         *)
FaultIsContained == kernel # "recursing"

(* A process is killed for writing only where it has no memory. *)
KilledOnlyOutside ==
    [][\A p \in Proc : (status[p] = "alive" /\ status'[p] = "dead") =>
         \E t \in Touched : ~ pt[p][t[1]].present]_vars
=============================================================================

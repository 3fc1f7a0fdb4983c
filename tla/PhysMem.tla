------------------------------- MODULE PhysMem -------------------------------
(***************************************************************************)
(* Physical memory of SBUNIX: the bitmap of 4 KB blocks (sys/mm/mmgr.c),   *)
(* what vmmgr_init takes from it at boot, and the bump allocator of kernel *)
(* pages (sys/mm/vmmgr_virtual.c), which takes physical memory without     *)
(* asking the bitmap because the kernel is mapped linearly.                *)
(*                                                                         *)
(* The bitmap is the set of its 1 bits.  In the code a word has 64 bits    *)
(* but the masks are the int 1 << (bit % 64): on x86 the shift count is    *)
(* taken modulo 32, and 1 << 31 is sign extended over the upper half of    *)
(* the word.  IntBits is the width of that int, a word is twice as wide.   *)
(***************************************************************************)
EXTENDS Integers, FiniteSets

CONSTANTS IntBits,       \* 32 in the code
          TotalBlocks,   \* blocks of usable memory, a multiple of the word size
          Reserved,      \* blocks mm_phy_init sets aside (1024)
          SyncFrom,      \* first block mmgr_syncwith_kernel sets (512)
          KernelBlocks,  \* MY_KERNEL_SIZE*256, the kernel's part of memory (10240)
          TableBlocks,   \* page tables vmmgr_init needs to map the kernel
          PhysFree,      \* the first page after the kernel image (kphysfree)
          Sizes,         \* sizes of ranges that are allocated
          PageArgs,      \* arguments of vmmgr_alloc_page: 0, 1 and 29 in the code
          MaxPages       \* bound: kernel pages the bump allocator hands out

WordBits == 2 * IntBits
Bits == 0..TotalBlocks-1

ASSUME PhysMemAssumption ==
    /\ IntBits \in Nat \ {0}
    /\ {TotalBlocks, Reserved, SyncFrom, KernelBlocks, TableBlocks, PhysFree} \subseteq Nat
    /\ SyncFrom <= Reserved /\ Reserved <= KernelBlocks /\ KernelBlocks <= TotalBlocks
    /\ Reserved > 0 /\ TotalBlocks % WordBits = 0
    /\ Sizes \subseteq Nat \ {0} /\ PageArgs \subseteq Nat /\ MaxPages \in Nat

VARIABLES memory_map,            \* the bits of mmgr_memory_map that are 1
          used_blocks,
          booted,                \* vmmgr_init has finished
          pageTables,            \* blocks vmmgr_init allocated
          held,                  \* ranges handed out since and not freed
          refused,               \* the last allocation returned NULL
          bump_addr, prev_no_pages,
          kernelPages            \* pages the bump allocator handed out

bump == <<bump_addr, prev_no_pages, kernelPages>>
vars == <<memory_map, used_blocks, booted, pageTables, held, refused, bump>>

-----------------------------------------------------------------------------
(* The bits that the mask 1 << (b % 64) selects in the word of block b. *)
Mask(b) ==
    LET word == b - (b % WordBits)
        shift == (b % WordBits) % IntBits
    IN  IF shift = IntBits - 1 THEN word + shift .. word + WordBits - 1
                               ELSE {word + shift}

MasksOf(blocks) == UNION {Mask(b) : b \in blocks}

IsFreeWide(b) == b \notin memory_map     \* mutant: tests with a mask of 64 bits
IsFree(b) == Mask(b) \cap memory_map = {}

Blocks(r) == r.first .. r.first + r.size - 1

(* mmgr_get_first_free: the first word that is not full, in it the first   *)
(* bit j whose mask is clear; so the first block whose mask is clear.      *)
FirstFree == {b \in Bits : IsFree(b) /\ \A c \in 0..b-1 : ~ IsFree(c)}

(* mmgr_get_first_range_free: the first block of size free ones.  Skipping *)
(* ahead after a block in use misses no range; the range may leave the     *)
(* part of the bitmap that stands for memory.                              *)
RangeFree(b, size) == \A c \in b..b+size-1 : IsFree(c)
FirstRangeFree(size) ==
    {b \in Bits : RangeFree(b, size) /\ \A c \in 0..b-1 : ~ RangeFree(c, size)}

(* get_total_usable_blocks() <= n, on unsigned numbers. *)
UsableAtMost(n) == TotalBlocks - used_blocks \in 0..n

(***************************************************************************)
(* After mm_phy_init: memset has put 0x0F into the first bytes of the map, *)
(* every block of usable memory was then released, the first Reserved      *)
(* blocks were taken.                                                      *)
(***************************************************************************)
Init ==
    /\ memory_map = ({p \in 0 .. (8 * (TotalBlocks \div WordBits)) - 1 : p % 8 < 4}
                        \ MasksOf(Bits)) \cup MasksOf(0..Reserved-1)
    /\ used_blocks = Reserved
    /\ booted = FALSE
    /\ pageTables = {} /\ held = {}
    /\ refused = FALSE
    /\ bump_addr = PhysFree /\ prev_no_pages = 0 /\ kernelPages = {}

(* vmmgr_map_page allocates the page tables of the kernel one by one. *)
vmmgr_map_page ==
    /\ ~ booted /\ Cardinality(pageTables) < TableBlocks
    /\ \E b \in FirstFree :
          /\ memory_map' = memory_map \cup Mask(b)
          /\ pageTables' = pageTables \cup {b}
    /\ used_blocks' = used_blocks + 1
    /\ UNCHANGED <<booted, held, refused, bump>>

mmgr_syncwith_kernel_late ==       \* mutant: starts at Reserved, ends one early
    /\ ~ booted /\ Cardinality(pageTables) = TableBlocks
    /\ booted' = TRUE
    /\ memory_map' = memory_map \cup MasksOf(Reserved..KernelBlocks-2)
    /\ used_blocks' = used_blocks + (KernelBlocks - SyncFrom)
    /\ UNCHANGED <<pageTables, held, refused, bump>>

mmgr_syncwith_kernel ==
    /\ ~ booted /\ Cardinality(pageTables) = TableBlocks
    /\ booted' = TRUE
    /\ memory_map' = memory_map \cup MasksOf(SyncFrom..KernelBlocks-1)
    /\ used_blocks' = used_blocks + (KernelBlocks - SyncFrom)
    /\ UNCHANGED <<pageTables, held, refused, bump>>

-----------------------------------------------------------------------------
Refuse ==
    /\ refused' = TRUE
    /\ UNCHANGED <<memory_map, used_blocks, booted, pageTables, held, bump>>

Take(b, size) ==
    /\ memory_map' = memory_map \cup MasksOf(b..b+size-1)
    /\ used_blocks' = used_blocks + size
    /\ held' = held \cup {[first |-> b, size |-> size]}
    /\ refused' = FALSE
    /\ UNCHANGED <<booted, pageTables, bump>>

mmgr_alloc_block ==
    /\ booted
    /\ IF UsableAtMost(0) \/ FirstFree = {} THEN Refuse
       ELSE \E b \in FirstFree : Take(b, 1)

mmgr_alloc_size_blocks ==
    /\ booted
    /\ \E size \in Sizes :
          IF UsableAtMost(size) \/ FirstRangeFree(size) = {} THEN Refuse
          ELSE \E b \in FirstRangeFree(size) : Take(b, size)

(* mmgr_free_block and mmgr_free_size_blocks, called by the owner. *)
mmgr_free_size_blocks ==
    /\ booted
    /\ \E r \in held :
          /\ memory_map' = memory_map \ MasksOf(Blocks(r))
          /\ used_blocks' = used_blocks - r.size
          /\ held' = held \ {r}
    /\ UNCHANGED <<booted, pageTables, refused, bump>>

(* vmmgr_alloc_page(page): page + 1 pages after those of the last call. *)
vmmgr_alloc_page_single(page) ==     \* mutant: forgets how many the last call took
    /\ bump_addr' = bump_addr + 1
    /\ prev_no_pages' = page

vmmgr_alloc_page_down(page) ==       \* mutant: grows towards the kernel image
    /\ bump_addr' = bump_addr - (1 + prev_no_pages)
    /\ prev_no_pages' = page

vmmgr_alloc_page(page) ==
    /\ bump_addr' = bump_addr + 1 + prev_no_pages
    /\ prev_no_pages' = page

BumpAlloc ==
    /\ booted /\ Cardinality(kernelPages) < MaxPages
    /\ \E page \in PageArgs :
          /\ vmmgr_alloc_page(page)
          /\ kernelPages' = kernelPages \cup (bump_addr' .. bump_addr' + page)
    /\ UNCHANGED <<memory_map, used_blocks, booted, pageTables, held, refused>>

Next ==
    \/ vmmgr_map_page \/ mmgr_syncwith_kernel
    \/ mmgr_alloc_block \/ mmgr_alloc_size_blocks \/ mmgr_free_size_blocks
    \/ BumpAlloc

Spec == Init /\ [][Next]_vars

-----------------------------------------------------------------------------
(* Every variable has its type. *)
TypeOK ==
    /\ memory_map \subseteq Nat
    /\ used_blocks \in Int
    /\ booted \in BOOLEAN
    /\ pageTables \subseteq Nat
    /\ held \subseteq [first : Nat, size : Nat \ {0}]
    /\ refused \in BOOLEAN
    /\ bump_addr \in Nat /\ prev_no_pages \in Nat /\ kernelPages \subseteq Nat

(***************************************************************************)
(* mmgr.c never hands out a block that someone holds, although two blocks  *)
(* of a word share a mask and the mask of one block in 32 covers the upper *)
(* half of its word: ranges in use are disjoint, and none contains a page  *)
(* table of the kernel.                                                    *)
(***************************************************************************)
NoDoubleAllocation ==
    \A r \in held :
        /\ Blocks(r) \cap pageTables = {}
        /\ \A s \in held : r # s => Blocks(r) \cap Blocks(s) = {}

(* After mmgr_syncwith_kernel no block of the kernel's part of memory is   *)
(* handed out, whatever is allocated and freed.                            *)
KernelUntouched == \A r \in held : Blocks(r) \cap (0..KernelBlocks-1) = {}

(* vmmgr_alloc_page hands out pages it has not handed out before.          *)
BumpFresh ==
    [][bump_addr' # bump_addr =>
          (bump_addr' .. bump_addr' + prev_no_pages') \cap kernelPages = {}]_vars

(* Each bit of the map stands for one block: an allocation fails only when *)
(* every block of memory is in use.                                        *)
FailsOnlyWhenFull ==
    refused => \A b \in KernelBlocks..TotalBlocks-1 : \E r \in held : b \in Blocks(r)

(* mmgr_used_blocks is the number of blocks in use. *)
UsedBlocksExact ==
    booted => used_blocks = Cardinality((0..KernelBlocks-1) \cup pageTables
                                          \cup UNION {Blocks(r) : r \in held})

(* The blocks below the kernel mark are the kernel's own: no page of the   *)
(* bump allocator is a block that mmgr_alloc_block has handed out.         *)
KernelPagesExclusive == kernelPages \cap (pageTables \cup UNION {Blocks(r) : r \in held}) = {}
=============================================================================

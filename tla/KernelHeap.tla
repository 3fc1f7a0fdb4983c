----------------------------- MODULE KernelHeap -----------------------------
(***************************************************************************)
(* The kernel's malloc and free (sub_malloc, sub_free of sys/mm/myalloc.c):*)
(* a list of blocks, searched first fit, split when a block is too large,  *)
(* and extended by a page when none fits.  Addresses and sizes are in      *)
(* units of 8 bytes, to which every request is rounded; a header has 2.    *)
(* Callers keep to the room they asked for; that what they write there may *)
(* hit a header, where blocks overlap, is left out.  The model stops when  *)
(* two blocks share a header (Clash): the list then no longer ends where   *)
(* it should, and find_block may run in a circle.                          *)
(***************************************************************************)
EXTENDS Integers, Sequences, SequencesExt

CONSTANTS PageUnits,     \* units in a page (512)
          SizeLimit,     \* 2^16 bytes in units: sizes are kept modulo this
          Requests,      \* sizes callers ask for, rounded up
          MaxBlocks,     \* bound: blocks of the list
          MaxHeld        \* bound: allocations outstanding

ASSUME KernelHeapAssumption ==
    /\ {PageUnits, SizeLimit, MaxBlocks, MaxHeld} \subseteq Nat \ {0}
    /\ Requests \subseteq 0..SizeLimit
    /\ PageUnits < SizeLimit /\ PageUnits % 2 = 0

VARIABLES blocks,        \* the list from base: records [addr, size, free]
          pages,         \* pages taken from the bump allocator, by all users
          held           \* ghost: the blocks callers hold, one entry per allocation

vars == <<blocks, pages, held>>

HEADER == 2
Null == 0                \* find_block: no block fits

Init ==
    /\ blocks = <<>>
    /\ pages = 0
    /\ held = <<>>

-----------------------------------------------------------------------------
find_block(s) ==
    LET Fits(i) == blocks[i].free /\ blocks[i].size >= s
    IN  IF \E i \in DOMAIN blocks : Fits(i)
        THEN CHOOSE i \in DOMAIN blocks : Fits(i) /\ \A j \in 1..i - 1 : ~ Fits(j)
        ELSE Null

(* The new block is placed in units of headers behind b, b + 1 + tot/16,   *)
(* while its size is what a split at b + tot would leave.  tot and sizes   *)
(* have 16 bits.                                                           *)
tot_size(s) == (s + HEADER) % SizeLimit

split_block_bytes(list, i, s) ==    \* mutant: the new block is tot units behind b
    LET b == list[i]
        new == [addr |-> b.addr + tot_size(s),
                size |-> (b.size - tot_size(s)) % SizeLimit, free |-> TRUE]
    IN  InsertAt([list EXCEPT ![i].size = s], i + 1, new)

split_block_wide(list, i, s) ==     \* mutant: sizes are not kept to 16 bits
    LET b == list[i]
        new == [addr |-> b.addr + HEADER * (1 + tot_size(s) \div HEADER),
                size |-> b.size - tot_size(s), free |-> TRUE]
    IN  InsertAt([list EXCEPT ![i].size = s], i + 1, new)

split_block(list, i, s) ==
    LET b == list[i]
        new == [addr |-> b.addr + HEADER * (1 + tot_size(s) \div HEADER),
                size |-> (b.size - tot_size(s)) % SizeLimit, free |-> TRUE]
    IN  InsertAt([list EXCEPT ![i].size = s], i + 1, new)

(* A new page is one free block; the block that was last in the list is    *)
(* marked used.                                                            *)
extend_heap(list) ==
    LET marked == IF list = <<>> THEN list ELSE [list EXCEPT ![Len(list)].free = FALSE]
    IN  Append(marked, [addr |-> pages * PageUnits, size |-> PageUnits, free |-> TRUE])

Return(b) == held' = Append(held, b.addr)

FromList_free(i, s) ==   \* mutant: the block stays marked free
    /\ blocks' = IF blocks[i].size - s > HEADER THEN split_block(blocks, i, s) ELSE blocks
    /\ Return(blocks[i])
    /\ UNCHANGED pages

FromList(i, s) ==        \* find_block found block i
    /\ LET split == IF blocks[i].size - s > HEADER    \* at least header + 4 bytes
                    THEN split_block(blocks, i, s) ELSE blocks
       IN  blocks' = [split EXCEPT ![i].free = FALSE]
    /\ Return(blocks[i])
    /\ UNCHANGED pages

FromNewPage(s) ==        \* handed out, but not marked as used
    LET extended == extend_heap(blocks)
        n == Len(extended)
    IN  /\ blocks' = split_block(extended, n, s)
        /\ Return(extended[n])
        /\ pages' = pages + 1

(* The rounded size wraps to 0 in the 16 bits of s. *)
sub_malloc(size) ==
    LET s == size % SizeLimit
        i == find_block(s)
    IN  /\ Len(blocks) + 2 <= MaxBlocks /\ Len(held) < MaxHeld
        /\ \/ i # Null /\ FromList(i, s)
           \/ i = Null /\ FromNewPage(s)

(* sub_malloc with align set: whole pages for somebody else *)
AlignedAlloc ==
    /\ pages < MaxBlocks
    /\ pages' = pages + 1
    /\ UNCHANGED <<blocks, held>>

sub_free(k) ==
    LET i == CHOOSE j \in DOMAIN blocks : blocks[j].addr = held[k]
    IN  /\ blocks' = [blocks EXCEPT ![i].free = TRUE]
        /\ held' = RemoveAt(held, k)
        /\ UNCHANGED pages

Clash == \E i, j \in DOMAIN blocks : i # j /\ blocks[i].addr = blocks[j].addr

Next ==
    /\ ~ Clash
    /\ \/ \E s \in Requests : sub_malloc(s)
       \/ AlignedAlloc
       \/ \E k \in DOMAIN held : sub_free(k)

Spec == Init /\ [][Next]_vars

-----------------------------------------------------------------------------
(* Every variable has its type: a size fits its 16 bits. *)
TypeOK ==
    /\ \A i \in DOMAIN blocks :
        /\ blocks[i].addr \in Nat /\ blocks[i].size \in 0..SizeLimit - 1
        /\ blocks[i].free \in BOOLEAN
    /\ pages \in Nat
    /\ \A k \in DOMAIN held : held[k] \in {blocks[i].addr : i \in DOMAIN blocks}

(* Every block starts at a multiple of the size of a header, whatever odd  *)
(* sizes were asked for and however often blocks were split.               *)
BlocksAligned == \A i \in DOMAIN blocks : blocks[i].addr % HEADER = 0

(* The free flag of a page's first block is stale after sub_malloc took it *)
(* (FromNewPage), and sub_free may be called by each of its two holders.   *)
(* Still no block is ever held by three callers, and one that is not at    *)
(* the start of a page only by one, through all splits and frees.          *)
HeldAtMostTwice ==
    /\ \A j, k \in DOMAIN held :
          j # k /\ held[j] = held[k] => held[j] % PageUnits = 0
    /\ \A j, k, l \in DOMAIN held :
          held[j] = held[k] /\ held[k] = held[l] => j = k \/ k = l \/ j = l

(* No two blocks have the same header. *)
HeadersDistinct == ~ Clash

(* A block that is in use is not handed out again. *)
HandedOutOnce == \A j, k \in DOMAIN held : j # k => held[j] # held[k]

(* Blocks with different addresses that callers hold do not overlap. *)
BlocksDisjoint ==
    \A i, j \in DOMAIN blocks :
        ( /\ blocks[i].addr < blocks[j].addr
          /\ \E k \in DOMAIN held : held[k] = blocks[i].addr
          /\ \E k \in DOMAIN held : held[k] = blocks[j].addr )
        => blocks[i].addr + HEADER + blocks[i].size <= blocks[j].addr
=============================================================================

---------------------------- MODULE PhysMemProofs ----------------------------
(***************************************************************************)
(* Proofs about PhysMem for every width of the mask and every size of      *)
(* memory.  What the allocator relies on is not that every block has a bit *)
(* of its own, which is false, but that the masks of different owners      *)
(* never overlap.                                                          *)
(***************************************************************************)
EXTENDS PhysMem, TLAPS

(* What a range in use owns in the bitmap. *)
Owned(r) == MasksOf(Blocks(r))

KernelMasks == MasksOf(SyncFrom..KernelBlocks-1) \cup MasksOf(0..Reserved-1)

MaskInv ==
    /\ MasksOf(0..Reserved-1) \cup MasksOf(pageTables) \subseteq memory_map
    /\ booted => KernelMasks \subseteq memory_map
    /\ ~ booted => held = {}
    /\ \A r \in held :
          /\ Owned(r) \subseteq memory_map
          /\ Owned(r) \cap (KernelMasks \cup MasksOf(pageTables)) = {}
          /\ \A s \in held : r # s => Owned(r) \cap Owned(s) = {}

IInv == TypeOK /\ MaskInv

-----------------------------------------------------------------------------
(* The mask of a block is a non-empty set of bits of the map. *)
LEMMA MaskType ==
    ASSUME NEW b \in Nat
    PROVE  Mask(b) # {} /\ Mask(b) \subseteq Nat
<1> DEFINE w == b - (b % WordBits)
           k == (b % WordBits) % IntBits
<1>1. WordBits \in Nat \ {0} /\ IntBits \in Nat \ {0}
  BY PhysMemAssumption DEF WordBits
<1>2. b % WordBits \in Nat /\ b % WordBits <= b /\ b % WordBits < WordBits
  BY <1>1
<1>3. k \in Nat /\ k < IntBits /\ IntBits <= WordBits
  BY <1>1, <1>2 DEF WordBits
<1>4. w \in Nat
  BY <1>2
<1>5. w + k \in w + k .. w + WordBits - 1 /\ w + k .. w + WordBits - 1 \subseteq Nat
  <2> HIDE DEF w, k
  <2> QED BY <1>1, <1>3, <1>4
<1>6. Mask(b) = IF k = IntBits - 1 THEN w + k .. w + WordBits - 1 ELSE {w + k}
  BY DEF Mask
<1> HIDE DEF w, k
<1> QED BY <1>3, <1>4, <1>5, <1>6

(* Ranges whose masks do not overlap have no block in common. *)
LEMMA DisjointMasks ==
    ASSUME NEW A \in SUBSET Nat, NEW B \in SUBSET Nat,
           MasksOf(A) \cap MasksOf(B) = {}
    PROVE  A \cap B = {}
<1> SUFFICES ASSUME NEW b \in A, b \in B PROVE FALSE
  OBVIOUS
<1>1. PICK p \in Mask(b) : TRUE
  BY MaskType
<1>2. p \in MasksOf(A) /\ p \in MasksOf(B)
  BY <1>1 DEF MasksOf
<1> QED BY <1>2

(* Free blocks: their masks meet nothing that is set. *)
LEMMA FreeMasks ==
    ASSUME NEW A, \A b \in A : IsFree(b)
    PROVE  MasksOf(A) \cap memory_map = {}
BY DEF MasksOf, IsFree

LEMMA MasksOfUnion ==
    ASSUME NEW A, NEW b
    PROVE  MasksOf(A \cup {b}) = MasksOf(A) \cup Mask(b)
BY DEF MasksOf

LEMMA MasksInNat ==
    ASSUME NEW A \in SUBSET Nat
    PROVE  MasksOf(A) \subseteq Nat
BY MaskType DEF MasksOf

LEMMA BlocksInNat ==
    ASSUME NEW r \in [first : Nat, size : Nat \ {0}]
    PROVE  Blocks(r) \subseteq Nat
BY DEF Blocks

(* The constants, one fact each. *)
LEMMA ConstantFacts ==
    /\ TotalBlocks \in Nat /\ Reserved \in Nat /\ SyncFrom \in Nat
    /\ KernelBlocks \in Nat /\ PhysFree \in Nat
    /\ SyncFrom <= Reserved /\ Reserved <= KernelBlocks
BY PhysMemAssumption

(* TypeOK in two parts, for the provers' sake: the flags and the rest. *)
FlagsOK == booted \in BOOLEAN /\ refused \in BOOLEAN

NumbersOK ==
    /\ memory_map \subseteq Nat
    /\ used_blocks \in Int
    /\ pageTables \subseteq Nat
    /\ held \subseteq [first : Nat, size : Nat \ {0}]
    /\ bump_addr \in Nat /\ prev_no_pages \in Nat /\ kernelPages \subseteq Nat

LEMMA TypeOKParts == (TypeOK <=> FlagsOK /\ NumbersOK) /\ (TypeOK' <=> FlagsOK' /\ NumbersOK')
BY Zenon DEF TypeOK, FlagsOK, NumbersOK

-----------------------------------------------------------------------------
LEMMA InitEstablishes == Init => IInv
<1> SUFFICES ASSUME Init PROVE IInv
  OBVIOUS
<1>1. MasksOf(0..Reserved-1) \subseteq Nat
  BY MasksInNat, PhysMemAssumption
<1>2. MasksOf({}) = {}
  BY DEF MasksOf
<1>3. memory_map \subseteq Nat
  <2>1. {p \in 0 .. (8 * (TotalBlocks \div WordBits)) - 1 : p % 8 < 4} \subseteq Nat
    OBVIOUS
  <2> QED BY <1>1, <2>1 DEF Init
<1>4. TypeOK
  <2>1. FlagsOK
    BY Zenon DEF Init, FlagsOK
  <2>2. NumbersOK
    BY <1>3, ConstantFacts DEF Init, NumbersOK
  <2> QED BY <2>1, <2>2, TypeOKParts
<1> QED BY <1>2, <1>4 DEF Init, IInv, MaskInv

LEMMA MapPageKeeps == IInv /\ vmmgr_map_page => IInv'
<1> SUFFICES ASSUME IInv, vmmgr_map_page PROVE IInv'
  OBVIOUS
<1> USE DEF IInv, vmmgr_map_page
<1>1. PICK b \in FirstFree : /\ memory_map' = memory_map \cup Mask(b)
                             /\ pageTables' = pageTables \cup {b}
  OBVIOUS
<1>2. b \in Nat
  BY <1>1 DEF FirstFree, Bits
<1>3. TypeOK'
  <2>1. FlagsOK'
    BY TypeOKParts, Zenon DEF IInv, vmmgr_map_page, FlagsOK
  <2>2. NumbersOK'
    BY <1>1, <1>2, MaskType, TypeOKParts DEF NumbersOK, bump
  <2> QED BY <2>1, <2>2, TypeOKParts
<1>4. MasksOf(pageTables') = MasksOf(pageTables) \cup Mask(b)
  BY <1>1, MasksOfUnion
<1>5. held' = {} /\ ~ booted'
  BY DEF MaskInv
<1>6. MasksOf(0..Reserved-1) \cup MasksOf(pageTables') \subseteq memory_map'
  BY Zenon, <1>1, <1>4 DEF MaskInv
<1> QED BY Zenon, <1>3, <1>5, <1>6 DEF MaskInv

LEMMA SyncKeeps == IInv /\ mmgr_syncwith_kernel => IInv'
<1> SUFFICES ASSUME IInv, mmgr_syncwith_kernel PROVE IInv'
  OBVIOUS
<1> USE DEF IInv, mmgr_syncwith_kernel
<1>1. MasksOf(SyncFrom..KernelBlocks-1) \subseteq Nat
  BY MasksInNat, PhysMemAssumption
<1>2. TypeOK'
  <2>1. FlagsOK'
    BY TypeOKParts, Zenon DEF IInv, mmgr_syncwith_kernel, FlagsOK
  <2>2. NumbersOK'
    BY <1>1, ConstantFacts, TypeOKParts DEF NumbersOK, bump
  <2> QED BY <2>1, <2>2, TypeOKParts
<1>3. held' = {} /\ pageTables' = pageTables
  BY DEF MaskInv
<1>4. KernelMasks \subseteq memory_map'
  BY DEF KernelMasks, MaskInv
<1>5. MasksOf(0..Reserved-1) \cup MasksOf(pageTables') \subseteq memory_map'
  BY <1>3 DEF MaskInv
<1> QED BY <1>2, <1>3, <1>4, <1>5 DEF MaskInv

(* Taking free blocks: the new owner's masks were all clear, the masks of  *)
(* the kernel and of the other owners were all set.                        *)
LEMMA TakeKeeps ==
    ASSUME IInv, booted, NEW b \in Nat, NEW size \in Nat \ {0},
           \A c \in b..b+size-1 : IsFree(c), Take(b, size)
    PROVE  IInv'
<1> DEFINE new == [first |-> b, size |-> size]
<1> USE DEF IInv, Take
<1>1. new \in [first : Nat, size : Nat \ {0}] /\ Blocks(new) = b..b+size-1
  BY DEF Blocks
<1>2. Owned(new) \subseteq Nat
  BY <1>1, BlocksInNat, MasksInNat DEF Owned
<1>3. Owned(new) \cap memory_map = {}
  BY <1>1, FreeMasks DEF Owned
<1>4. memory_map' = memory_map \cup Owned(new) /\ held' = held \cup {new}
  BY <1>1 DEF Owned
<1>5. booted' /\ pageTables' = pageTables
  OBVIOUS
<1> HIDE DEF new
<1>6. TypeOK'
  <2>1. FlagsOK'
    BY TypeOKParts, Zenon DEF IInv, Take, FlagsOK
  <2>2. NumbersOK
    BY TypeOKParts
  <2>3. memory_map' \subseteq Nat
    BY <1>2, <1>4, <2>2, Zenon DEF NumbersOK
  <2>4. held' \subseteq [first : Nat, size : Nat \ {0}]
    BY <1>1, <1>4, <2>2, Zenon DEF NumbersOK
  <2>5. used_blocks' \in Int
    BY <2>2 DEF NumbersOK
  <2>6. NumbersOK'
    BY <2>2, <2>3, <2>4, <2>5, Zenon DEF NumbersOK, Take, bump
  <2> QED BY <2>1, <2>6, TypeOKParts
<1>7. MasksOf(0..Reserved-1) \cup MasksOf(pageTables') \cup KernelMasks \subseteq memory_map'
  BY <1>4, <1>5 DEF MaskInv
<1>8. ASSUME NEW r \in held'
      PROVE  /\ Owned(r) \subseteq memory_map'
             /\ Owned(r) \cap (KernelMasks \cup MasksOf(pageTables')) = {}
             /\ \A s \in held' : r # s => Owned(r) \cap Owned(s) = {}
  BY <1>3, <1>4, <1>5 DEF MaskInv
<1> QED BY <1>5, <1>6, <1>7, <1>8 DEF MaskInv

LEMMA RefuseKeeps == IInv /\ Refuse => IInv'
BY DEF IInv, Refuse, TypeOK, MaskInv, bump

LEMMA AllocKeeps == IInv /\ mmgr_alloc_block => IInv'
<1> SUFFICES ASSUME IInv, mmgr_alloc_block PROVE IInv'
  OBVIOUS
<1>1. CASE Refuse
  BY <1>1, RefuseKeeps
<1>2. CASE \E b \in FirstFree : Take(b, 1)
  <2>1. PICK b \in FirstFree : Take(b, 1)
    BY <1>2
  <2>2. b \in Nat /\ IsFree(b)
    BY DEF FirstFree, Bits
  <2>3. 1 \in Nat \ {0} /\ \A c \in b..b+1-1 : IsFree(c)
    BY <2>2
  <2> QED BY Zenon, <2>1, <2>2, <2>3, TakeKeeps DEF mmgr_alloc_block
<1> QED BY <1>1, <1>2 DEF mmgr_alloc_block

LEMMA AllocSizeKeeps == IInv /\ mmgr_alloc_size_blocks => IInv'
<1> SUFFICES ASSUME IInv, mmgr_alloc_size_blocks PROVE IInv'
  OBVIOUS
<1>1. CASE Refuse
  BY <1>1, RefuseKeeps
<1>2. CASE \E size \in Sizes : \E b \in FirstRangeFree(size) : Take(b, size)
  <2>1. PICK size \in Sizes : \E b \in FirstRangeFree(size) : Take(b, size)
    BY <1>2
  <2>2. PICK b \in FirstRangeFree(size) : Take(b, size)
    BY <2>1
  <2>3. b \in Nat /\ size \in Nat \ {0} /\ \A c \in b..b+size-1 : IsFree(c)
    BY PhysMemAssumption DEF FirstRangeFree, RangeFree, Bits
  <2> QED BY <2>2, <2>3, TakeKeeps DEF mmgr_alloc_size_blocks
<1> QED BY <1>1, <1>2 DEF mmgr_alloc_size_blocks

(* Giving blocks back clears only bits that no one else owns. *)
LEMMA FreeKeeps == IInv /\ mmgr_free_size_blocks => IInv'
<1> SUFFICES ASSUME IInv, mmgr_free_size_blocks PROVE IInv'
  OBVIOUS
<1> USE DEF IInv, mmgr_free_size_blocks
<1>1. PICK r \in held : /\ memory_map' = memory_map \ Owned(r)
                        /\ used_blocks' = used_blocks - r.size
                        /\ held' = held \ {r}
  BY DEF Owned
<1>2. booted /\ booted' /\ pageTables' = pageTables
  OBVIOUS
<1>3. TypeOK'
  <2>1. FlagsOK'
    BY TypeOKParts, Zenon DEF IInv, mmgr_free_size_blocks, FlagsOK
  <2>2. NumbersOK'
    BY <1>1, <1>2, TypeOKParts DEF NumbersOK, bump
  <2> QED BY <2>1, <2>2, TypeOKParts
<1>4. Owned(r) \cap (KernelMasks \cup MasksOf(pageTables)) = {}
  BY <1>1 DEF MaskInv
<1>5. MasksOf(0..Reserved-1) \subseteq KernelMasks
  BY DEF KernelMasks
<1>6. MasksOf(0..Reserved-1) \cup MasksOf(pageTables') \cup KernelMasks \subseteq memory_map'
  BY <1>1, <1>2, <1>4, <1>5 DEF MaskInv
<1>7. ASSUME NEW s \in held'
      PROVE  /\ Owned(s) \subseteq memory_map'
             /\ Owned(s) \cap (KernelMasks \cup MasksOf(pageTables')) = {}
             /\ \A u \in held' : s # u => Owned(s) \cap Owned(u) = {}
  BY <1>1, <1>2 DEF MaskInv
<1> QED BY <1>2, <1>3, <1>6, <1>7 DEF MaskInv

LEMMA BumpKeeps == IInv /\ BumpAlloc => IInv'
<1> SUFFICES ASSUME IInv, BumpAlloc PROVE IInv'
  OBVIOUS
<1>1. TypeOK'
  BY PhysMemAssumption DEF IInv, BumpAlloc, TypeOK, vmmgr_alloc_page
<1>2. MaskInv'
  BY DEF IInv, BumpAlloc, MaskInv
<1> QED BY <1>1, <1>2 DEF IInv

(***************************************************************************)
(* The owners of blocks own disjoint parts of the bitmap, whatever mm_phy_ *)
(* init, vmmgr_init, the allocations and the frees of mmgr.c do.           *)
(***************************************************************************)
THEOREM OwnersDisjoint == Spec => []IInv
<1>1. IInv /\ [Next]_vars => IInv'
  <2> SUFFICES ASSUME IInv, [Next]_vars PROVE IInv'
    OBVIOUS
  <2>1. CASE UNCHANGED vars
    BY <2>1 DEF vars, IInv, TypeOK, MaskInv, bump
  <2> QED
    BY <2>1, MapPageKeeps, SyncKeeps, AllocKeeps, AllocSizeKeeps, FreeKeeps, BumpKeeps
       DEF Next
<1> QED BY <1>1, InitEstablishes, PTL DEF Spec

(* The bitmap has no bit before its start, every range in use is a range   *)
(* of blocks, and the addresses of the bump allocator never wrap below 0.  *)
THEOREM PhysMemIsTyped == Spec => []TypeOK
<1>1. IInv => TypeOK
  BY DEF IInv
<1> QED BY <1>1, OwnersDisjoint, PTL

(***************************************************************************)
(* No block is ever in use twice: mmgr_alloc_block and mmgr_alloc_size_    *)
(* blocks never hand out a block someone holds or a page table.            *)
(***************************************************************************)
THEOREM AllocationIsExclusive == Spec => []NoDoubleAllocation
<1>1. IInv => NoDoubleAllocation
  <2> SUFFICES ASSUME IInv, NEW r \in held
               PROVE  /\ Blocks(r) \cap pageTables = {}
                      /\ \A s \in held : r # s => Blocks(r) \cap Blocks(s) = {}
    BY DEF NoDoubleAllocation
  <2>1. pageTables \subseteq Nat /\ \A s \in held : Blocks(s) \subseteq Nat
    BY BlocksInNat DEF IInv, TypeOK
  <2>2. MasksOf(Blocks(r)) \cap MasksOf(pageTables) = {}
    BY DEF IInv, MaskInv, Owned
  <2>3. Blocks(r) \cap pageTables = {}
    BY <2>1, <2>2, DisjointMasks
  <2>4. ASSUME NEW s \in held, r # s PROVE Blocks(r) \cap Blocks(s) = {}
    <3>1. MasksOf(Blocks(r)) \cap MasksOf(Blocks(s)) = {}
      BY <2>4 DEF IInv, MaskInv, Owned
    <3> QED BY <2>1, <3>1, DisjointMasks
  <2> QED BY <2>3, <2>4
<1> QED BY <1>1, OwnersDisjoint, PTL

(***************************************************************************)
(* No block below the kernel mark is handed out once mmgr_syncwith_kernel  *)
(* has run.                                                                *)
(***************************************************************************)
THEOREM KernelIsUntouched == Spec => []KernelUntouched
<1>1. IInv => KernelUntouched
  <2> SUFFICES ASSUME IInv, NEW r \in held PROVE Blocks(r) \cap (0..KernelBlocks-1) = {}
    BY DEF KernelUntouched
  <2>1. Blocks(r) \subseteq Nat
    BY BlocksInNat DEF IInv, TypeOK
  <2>2. MasksOf(0..KernelBlocks-1) \subseteq KernelMasks
    <3>1. 0..KernelBlocks-1 \subseteq (SyncFrom..KernelBlocks-1) \cup (0..Reserved-1)
      BY PhysMemAssumption
    <3> QED BY <3>1 DEF KernelMasks, MasksOf
  <2>3. MasksOf(Blocks(r)) \cap MasksOf(0..KernelBlocks-1) = {}
    BY <2>2 DEF IInv, MaskInv, Owned
  <2>4. 0..KernelBlocks-1 \subseteq Nat
    OBVIOUS
  <2> QED BY Zenon, <2>1, <2>3, <2>4, DisjointMasks
<1> QED BY <1>1, OwnersDisjoint, PTL

(* Every kernel page handed out lies at or below the end of the last call's. *)
BumpInv == \A p \in kernelPages : p <= bump_addr + prev_no_pages

FreshStep == bump_addr' # bump_addr =>
                (bump_addr' .. bump_addr' + prev_no_pages') \cap kernelPages = {}

LEMMA BumpStep ==
    ASSUME IInv, BumpInv, [Next]_vars
    PROVE  BumpInv' /\ FreshStep
<1>1. bump_addr \in Nat /\ prev_no_pages \in Nat /\ kernelPages \subseteq Nat
  BY TypeOKParts DEF IInv, NumbersOK
<1>2. CASE UNCHANGED bump
  BY <1>2 DEF bump, BumpInv, FreshStep
<1>3. CASE BumpAlloc
  <2>1. PICK page \in PageArgs :
            /\ bump_addr' = bump_addr + 1 + prev_no_pages /\ prev_no_pages' = page
            /\ kernelPages' = kernelPages \cup (bump_addr' .. bump_addr' + page)
    BY <1>3 DEF BumpAlloc, vmmgr_alloc_page
  <2>2. page \in Nat
    BY PhysMemAssumption
  <2> QED BY <1>1, <2>1, <2>2 DEF BumpInv, FreshStep
<1>4. BumpAlloc \/ UNCHANGED bump
  BY DEF Next, vars, bump, vmmgr_map_page, mmgr_syncwith_kernel, mmgr_alloc_block,
         mmgr_alloc_size_blocks, mmgr_free_size_blocks, Refuse, Take
<1> QED BY <1>2, <1>3, <1>4

(* vmmgr_alloc_page never hands out a kernel page twice. *)
THEOREM BumpIsFresh == Spec => BumpFresh
<1>1. Init => BumpInv
  BY DEF Init, BumpInv
<1>2. IInv /\ BumpInv /\ [Next]_vars => BumpInv' /\ FreshStep
  BY BumpStep
<1>3. IInv /\ BumpInv /\ [Next]_vars => BumpInv' /\ [FreshStep]_vars
  BY <1>2
<1> QED BY <1>1, <1>3, OwnersDisjoint, PTL DEF Spec, BumpFresh, FreshStep
=============================================================================

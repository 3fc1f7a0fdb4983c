--------------------------- MODULE KernelHeapProofs ---------------------------
(***************************************************************************)
(* Proofs about the kernel's malloc and free, for any size of a page, any  *)
(* width of the size field and any requests up to the one that wraps to    *)
(* nothing: blocks stay on the 16-byte grid, a block that is held is in    *)
(* the list, and the stale free flag of a new page's first block lets at   *)
(* most one more caller have it.                                           *)
(***************************************************************************)
EXTENDS KernelHeap, SequenceTheorems, FiniteSetTheorems, WellFoundedInduction, TLAPS

Block == [addr : Nat, size : 0..SizeLimit - 1, free : BOOLEAN]
OnGrid == {b \in Block : b.addr % HEADER = 0}
Addrs(list) == {list[i].addr : i \in DOMAIN list}

(* The first block of one of the first p pages *)
Shared(a, p) == a % PageUnits = 0 /\ a < p * PageUnits
OneHolder(h, a) == \A j, k \in DOMAIN h : h[j] = a /\ h[k] = a => j = k
Distinct(list) == \A i, j \in DOMAIN list : i # j => list[i].addr # list[j].addr

TwoAreShared(h, p) ==
    \A j, k \in DOMAIN h : j # k /\ h[j] = h[k] => Shared(h[j], p)
NeverThree(h) ==
    \A j, k, l \in DOMAIN h : h[j] = h[k] /\ h[k] = h[l] => j = k \/ k = l \/ j = l

(* A block that is free is held only if its flag is stale. *)
FreeIsStale(list, h, p) ==
    \A i \in DOMAIN list, k \in DOMAIN h :
        list[i].free /\ h[k] = list[i].addr => Shared(h[k], p) /\ OneHolder(h, h[k])

(* A block that is held is in the list, so that free finds it. *)
IInv ==
    /\ blocks \in Seq(OnGrid) /\ pages \in Nat
    /\ held \in Seq(Int) /\ \A k \in DOMAIN held : held[k] \in Addrs(blocks)
    /\ TwoAreShared(held, pages) /\ NeverThree(held)
    /\ Distinct(blocks) => FreeIsStale(blocks, held, pages)

LEMMA Constants ==
    /\ SizeLimit \in Nat \ {0} /\ Requests \subseteq 0..SizeLimit
    /\ PageUnits \in 1..SizeLimit - 1 /\ PageUnits % HEADER = 0
  BY KernelHeapAssumption DEF HEADER

-----------------------------------------------------------------------------
(* Lists of blocks *)
LEMMA InsertFacts ==
    ASSUME NEW S, NEW s \in Seq(S), NEW i \in 1..Len(s) + 1, NEW e \in S
    PROVE  /\ InsertAt(s, i, e) \in Seq(S) /\ Len(InsertAt(s, i, e)) = Len(s) + 1
           /\ \A j \in 1..i - 1 : InsertAt(s, i, e)[j] = s[j]
           /\ \A j \in i..Len(s) : InsertAt(s, i, e)[j + 1] = s[j]
<1>1. Len(s) \in Nat /\ \A j \in 1..Len(s) : s[j] \in S
  OBVIOUS
<1> DEFINE a == SubSeq(s, 1, i - 1)
           c == SubSeq(s, i, Len(s))
<1>2. a \in Seq(S) /\ Len(a) = i - 1 /\ \A j \in 1..i - 1 : a[j] = s[j]
  BY <1>1
<1>3. c \in Seq(S) /\ Len(c) = Len(s) - i + 1 /\ \A j \in 1..Len(s) - i + 1 : c[j] = s[i + j - 1]
  BY <1>1
<1> HIDE DEF a, c
<1>4. <<e>> \in Seq(S) /\ Len(<<e>>) = 1
  OBVIOUS
<1> DEFINE b == a \o <<e>>
<1>5. b \in Seq(S) /\ Len(b) = i /\ \A j \in 1..i - 1 : b[j] = s[j]
  BY <1>2, <1>4
<1> HIDE DEF b
<1>6. /\ b \o c \in Seq(S) /\ Len(b \o c) = Len(s) + 1
      /\ \A j \in 1..i : (b \o c)[j] = b[j]
      /\ \A j \in i + 1..Len(s) + 1 : (b \o c)[j] = c[j - i]
  BY <1>1, <1>3, <1>5, ConcatProperties
<1>7. \A j \in i..Len(s) : (b \o c)[j + 1] = s[j]
  <2> SUFFICES ASSUME NEW j \in i..Len(s) PROVE (b \o c)[j + 1] = s[j]
    BY Zenon
  <2>1. j + 1 \in i + 1..Len(s) + 1 /\ j + 1 - i \in 1..Len(s) - i + 1
    BY <1>1
  <2>2. (b \o c)[j + 1] = c[j + 1 - i] /\ c[j + 1 - i] = s[i + (j + 1 - i) - 1]
    BY <1>3, <1>6, <2>1
  <2>3. i + (j + 1 - i) - 1 = j
    BY <1>1
  <2> QED BY <2>2, <2>3
<1>8. InsertAt(s, i, e) = b \o c
  BY DEF InsertAt, a, b, c
<1> QED BY <1>5, <1>6, <1>7, <1>8

LEMMA RemoveFacts ==
    ASSUME NEW S, NEW s \in Seq(S), NEW k \in 1..Len(s)
    PROVE  /\ RemoveAt(s, k) \in Seq(S) /\ DOMAIN RemoveAt(s, k) = 1..Len(s) - 1
           /\ \A j \in 1..k - 1 : RemoveAt(s, k)[j] = s[j]
           /\ \A j \in k..Len(s) - 1 : RemoveAt(s, k)[j] = s[j + 1]
<1>1. Len(s) \in Nat /\ \A j \in 1..Len(s) : s[j] \in S
  OBVIOUS
<1> DEFINE a == SubSeq(s, 1, k - 1)
           c == SubSeq(s, k + 1, Len(s))
<1>2. a \in Seq(S) /\ Len(a) = k - 1 /\ \A j \in 1..k - 1 : a[j] = s[j]
  BY <1>1
<1>3. c \in Seq(S) /\ Len(c) = Len(s) - k /\ \A j \in 1..Len(s) - k : c[j] = s[k + j]
  BY <1>1
<1> HIDE DEF a, c
<1>4. /\ a \o c \in Seq(S) /\ DOMAIN (a \o c) = 1..Len(s) - 1
      /\ \A j \in 1..k - 1 : (a \o c)[j] = a[j]
      /\ \A j \in k..Len(s) - 1 : (a \o c)[j] = c[j - k + 1]
  BY <1>1, <1>2, <1>3, ConcatProperties
<1>5. \A j \in k..Len(s) - 1 : (a \o c)[j] = s[j + 1]
  <2> SUFFICES ASSUME NEW j \in k..Len(s) - 1 PROVE (a \o c)[j] = s[j + 1]
    BY Zenon
  <2>1. j - k + 1 \in 1..Len(s) - k /\ k + (j - k + 1) = j + 1
    BY <1>1
  <2> QED BY <1>3, <1>4, <2>1
<1>6. RemoveAt(s, k) = a \o c
  BY DEF RemoveAt, a, c
<1> QED BY <1>2, <1>4, <1>5, <1>6

LEMMA SameAddrs ==
    ASSUME NEW list \in Seq(OnGrid), NEW r \in Seq(OnGrid), Len(r) = Len(list),
           \A j \in 1..Len(list) : r[j].addr = list[j].addr
    PROVE  Addrs(r) = Addrs(list)
<1>1. DOMAIN r = 1..Len(list) /\ DOMAIN list = 1..Len(list)
  OBVIOUS
<1> QED BY <1>1 DEF Addrs

LEMMA MarkFacts ==
    ASSUME NEW list \in Seq(OnGrid), NEW i \in 1..Len(list), NEW f \in BOOLEAN,
           NEW r, r = [list EXCEPT ![i].free = f]
    PROVE  /\ r \in Seq(OnGrid) /\ Len(r) = Len(list)
           /\ \A j \in 1..Len(list) : r[j].addr = list[j].addr
           /\ r[i].free = f /\ \A j \in 1..Len(list) : j # i => r[j].free = list[j].free
<1>1. list[i] \in OnGrid
  OBVIOUS
<1>2. [list[i] EXCEPT !.free = f] \in OnGrid
  BY Zenon, <1>1 DEF OnGrid, Block
<1> QED BY <1>1, <1>2, ExceptSeq DEF OnGrid, Block

(* Block j of r is a block of list, and block i of r that of list. *)
Kept(list, r, i, j) ==
    \E k \in 1..Len(list) : /\ r[j].addr = list[k].addr /\ r[j].free = list[k].free
                            /\ (j = i <=> k = i)

(* Every block of list is in r, at another place than i + 1, and block i   *)
(* of list is block i of r.                                                *)
Placed(list, r, i) ==
    \A j \in 1..Len(list) :
        \E y \in 1..Len(r) : y # i + 1 /\ r[y].addr = list[j].addr /\ (y = i <=> j = i)

(* Splitting block i puts the rest on the grid behind it and leaves every  *)
(* other block where it is.                                                *)
LEMMA SplitFacts ==
    ASSUME NEW list \in Seq(OnGrid), NEW i \in 1..Len(list), NEW s \in 0..SizeLimit - 1
    PROVE  LET r == split_block(list, i, s)
           IN  /\ r \in Seq(OnGrid) /\ Len(r) = Len(list) + 1
               /\ r[i].addr = list[i].addr
               /\ Placed(list, r, i)
               /\ \A j \in 1..Len(r) : j # i + 1 => Kept(list, r, i, j)
<1> DEFINE b == list[i]
           up == HEADER * (1 + tot_size(s) \div HEADER)
           left == (b.size - tot_size(s)) % SizeLimit
           new == [addr |-> b.addr + up, size |-> left, free |-> TRUE]
           cut == [list EXCEPT ![i].size = s]
           r == InsertAt(cut, i + 1, new)
<1>1. b \in OnGrid /\ Len(list) \in Nat /\ SizeLimit \in Nat \ {0} /\ tot_size(s) \in Nat
  BY Constants DEF tot_size, HEADER
<1>2. new \in OnGrid
  <2>1. PICK h \in Nat : up = 2 * h
    <3>1. 1 + tot_size(s) \div HEADER \in Nat
      BY <1>1 DEF HEADER
    <3> QED BY Zenon, <3>1 DEF HEADER
  <2>2. b.addr \in Nat /\ b.addr % 2 = 0 /\ b.size \in Nat
    BY <1>1 DEF OnGrid, Block, HEADER
  <2>3. b.addr + up \in Nat /\ (b.addr + up) % 2 = 0
    <3> HIDE DEF up
    <3> QED BY <2>1, <2>2
  <2>4. left \in 0..SizeLimit - 1
    <3>1. PICK x \in Int : x = b.size - tot_size(s)
      BY <1>1, <2>2
    <3>2. x % SizeLimit \in 0..SizeLimit - 1
      BY <1>1
    <3> QED BY <3>1, <3>2
  <2> HIDE DEF up, left
  <2> QED BY <2>3, <2>4 DEF OnGrid, Block, HEADER
<1>3. /\ cut \in Seq(OnGrid) /\ Len(cut) = Len(list)
      /\ \A j \in 1..Len(list) : cut[j].addr = list[j].addr /\ cut[j].free = list[j].free
  <2>1. [list[i] EXCEPT !.size = s] \in OnGrid
    BY Zenon, <1>1 DEF OnGrid, Block
  <2> HIDE DEF new, r
  <2>2. /\ cut \in Seq(OnGrid) /\ Len(cut) = Len(list) /\ cut[i] = [list[i] EXCEPT !.size = s]
        /\ \A j \in 1..Len(list) : j # i => cut[j] = list[j]
    <3>1. PICK e \in OnGrid : e = [list[i] EXCEPT !.size = s]
      BY <2>1
    <3> DEFINE c == [list EXCEPT ![i] = e]
    <3>2. cut = c
      BY <3>1
    <3>3. /\ c \in Seq(OnGrid) /\ Len(c) = Len(list)
          /\ \A j \in 1..Len(list) : c[j] = IF j = i THEN e ELSE list[j]
      BY <3>1, ExceptSeq
    <3> HIDE DEF cut, c
    <3> QED BY Zenon, <3>1, <3>2, <3>3
  <2>3. cut[i].addr = list[i].addr /\ cut[i].free = list[i].free
    BY <1>1, <2>2 DEF OnGrid, Block
  <2> HIDE DEF cut
  <2> QED BY Zenon, <2>2, <2>3
<1>4. split_block(list, i, s) = r
  BY DEF split_block
<1> HIDE DEF cut, new
<1>5. /\ r \in Seq(OnGrid) /\ Len(r) = Len(list) + 1
      /\ \A j \in 1..i : r[j] = cut[j]
      /\ \A j \in i + 1..Len(list) : r[j + 1] = cut[j]
  <2>1. PICK k \in 1..Len(cut) + 1 : k = i + 1
    BY <1>1, <1>3
  <2>2. PICK c \in Seq(OnGrid), e \in OnGrid : c = cut /\ e = new
    BY <1>2, <1>3
  <2>3. k \in 1..Len(c) + 1
    BY <2>1, <2>2
  <2>4. /\ InsertAt(c, k, e) \in Seq(OnGrid) /\ Len(InsertAt(c, k, e)) = Len(c) + 1
        /\ \A j \in 1..k - 1 : InsertAt(c, k, e)[j] = c[j]
        /\ \A j \in k..Len(c) : InsertAt(c, k, e)[j + 1] = c[j]
    BY <2>3, InsertFacts
  <2>5. /\ InsertAt(cut, k, new) \in Seq(OnGrid) /\ Len(InsertAt(cut, k, new)) = Len(cut) + 1
        /\ \A j \in 1..k - 1 : InsertAt(cut, k, new)[j] = cut[j]
        /\ \A j \in k..Len(cut) : InsertAt(cut, k, new)[j + 1] = cut[j]
    BY <2>2, <2>4
  <2> QED BY <1>1, <1>3, <2>1, <2>5
<1> HIDE DEF r
<1>6. Placed(list, r, i)
  <2> SUFFICES ASSUME NEW j \in 1..Len(list)
               PROVE  \E y \in 1..Len(r) : /\ y # i + 1 /\ r[y].addr = list[j].addr
                                           /\ (y = i <=> j = i)
    BY DEF Placed
  <2>1. CASE j <= i
    <3>1. j \in 1..i /\ j \in 1..Len(r) /\ j # i + 1
      BY <1>1, <1>5, <2>1
    <3>2. r[j].addr = list[j].addr
      BY Zenon, <1>3, <1>5, <3>1
    <3> QED BY Zenon, <3>1, <3>2
  <2>2. CASE j > i
    <3>1. j \in i + 1..Len(list) /\ j + 1 \in 1..Len(r) /\ j + 1 # i + 1 /\ j + 1 # i /\ j # i
      BY <1>1, <1>5, <2>2
    <3>2. r[j + 1].addr = list[j].addr
      BY Zenon, <1>3, <1>5, <3>1
    <3> QED BY Zenon, <3>1, <3>2
  <2> QED BY <1>1, <2>1, <2>2
<1>7. r[i].addr = list[i].addr
  BY <1>1, <1>3, <1>5
<1>8. ASSUME NEW j \in 1..Len(r), j # i + 1 PROVE Kept(list, r, i, j)
  <2>1. CASE j <= i
    <3>1. j \in 1..i /\ j \in 1..Len(list)
      BY <1>1, <2>1
    <3>2. r[j].addr = list[j].addr /\ r[j].free = list[j].free
      BY <1>3, <1>5, <3>1
    <3> QED BY Zenon, <3>1, <3>2 DEF Kept
  <2>2. CASE j > i
    <3>1. PICK k \in i + 1..Len(list) : j = k + 1 /\ k \in 1..Len(list) /\ k # i /\ j # i
      BY <1>1, <1>5, <1>8, <2>2
    <3>2. r[j].addr = list[k].addr /\ r[j].free = list[k].free
      BY Zenon, <1>3, <1>5, <3>1
    <3> QED BY Zenon, <3>1, <3>2 DEF Kept
  <2> QED BY <1>1, <2>1, <2>2
<1> QED BY <1>4, <1>5, <1>6, <1>7, <1>8

LEMMA ExtendFacts ==
    ASSUME NEW list \in Seq(OnGrid), pages \in Nat
    PROVE  LET r == extend_heap(list)
           IN  /\ r \in Seq(OnGrid) /\ Len(r) = Len(list) + 1 /\ Addrs(list) \subseteq Addrs(r)
               /\ r[Len(r)].addr = pages * PageUnits
               /\ \A j \in 1..Len(list) : r[j].addr = list[j].addr /\ (r[j].free => list[j].free)
<1> DEFINE marked == IF list = <<>> THEN list ELSE [list EXCEPT ![Len(list)].free = FALSE]
           new == [addr |-> pages * PageUnits, size |-> PageUnits, free |-> TRUE]
           r == Append(marked, new)
<1>1. new \in OnGrid
  <2>1. PICK h \in Nat : PageUnits = 2 * h
    BY Constants DEF HEADER
  <2>2. pages * PageUnits = 2 * (pages * h) /\ pages * h \in Nat
    BY <2>1
  <2>3. pages * PageUnits \in Nat /\ (pages * PageUnits) % 2 = 0
    BY <2>2
  <2> QED BY <2>3, Constants DEF OnGrid, Block, HEADER
<1>2. /\ marked \in Seq(OnGrid) /\ Len(marked) = Len(list)
      /\ \A j \in 1..Len(list) : marked[j].addr = list[j].addr /\ (marked[j].free => list[j].free)
  <2>1. CASE list = <<>>
    BY <2>1
  <2>2. CASE list # <<>>
    <3>1. Len(list) \in 1..Len(list) /\ FALSE \in BOOLEAN
      BY <2>2
    <3>2. PICK n \in 1..Len(list) : n = Len(list)
      BY <3>1
    <3> DEFINE m == [list EXCEPT ![n].free = FALSE]
    <3>3. /\ m \in Seq(OnGrid) /\ Len(m) = Len(list)
          /\ \A j \in 1..Len(list) : m[j].addr = list[j].addr
          /\ ~ m[n].free /\ \A j \in 1..Len(list) : j # n => m[j].free = list[j].free
      <4>1. PICK f \in BOOLEAN : f = FALSE
        BY Zenon
      <4>2. m = [list EXCEPT ![n].free = f]
        BY Zenon, <4>1
      <4> HIDE DEF m
      <4>3. /\ m \in Seq(OnGrid) /\ Len(m) = Len(list)
            /\ \A j \in 1..Len(list) : m[j].addr = list[j].addr
            /\ m[n].free = f /\ \A j \in 1..Len(list) : j # n => m[j].free = list[j].free
        BY <4>2, MarkFacts
      <4> QED BY <4>1, <4>3
    <3>4. marked = m
      BY <2>2, <3>2
    <3> HIDE DEF marked, m
    <3> QED BY <3>3, <3>4
  <2> QED BY <2>1, <2>2
<1>3. new.addr = pages * PageUnits
  OBVIOUS
<1> HIDE DEF marked, new
<1>4. /\ r \in Seq(OnGrid) /\ Len(r) = Len(list) + 1 /\ Len(list) \in Nat
      /\ r[Len(r)] = new /\ \A j \in 1..Len(list) : r[j] = marked[j]
  BY <1>1, <1>2
<1>5. extend_heap(list) = r
  BY DEF extend_heap, marked, new
<1> HIDE DEF r
<1>6. Addrs(list) \subseteq Addrs(r)
  BY <1>2, <1>4 DEF Addrs
<1> QED BY <1>2, <1>3, <1>4, <1>5, <1>6

-----------------------------------------------------------------------------
(* find_block stops at a block that is free. *)
LEMMA LeastIn ==
    ASSUME NEW n \in Nat, NEW S \in SUBSET (0..n), S # {}
    PROVE  \E k \in S : \A j \in S : k <= j
<1> DEFINE Below(k) == 0..k - 1
           T == {Below(k) : k \in S}
<1>1. T \subseteq FiniteSubsetsOf(0..n) /\ T # {}
  <2>1. \A k \in S : Below(k) \in SUBSET (0..n)
    OBVIOUS
  <2>2. \A k \in S : IsFiniteSet(Below(k))
    BY FS_Interval
  <2> QED BY Zenon, <2>1, <2>2 DEF FiniteSubsetsOf
<1>2. PICK x \in T : \A y \in T : ~ (<<y, x>> \in StrictSubsetOrdering(0..n))
  <2> HIDE DEF T
  <2> QED BY <1>1, FS_StrictSubsetOrderingWellFounded, WFMin, Zenon
<1>3. PICK k \in S : x = Below(k)
  OBVIOUS
<1>4. \A j \in S : k <= j
  <2> SUFFICES ASSUME NEW j \in S, j < k PROVE FALSE
    OBVIOUS
  <2>1. Below(j) \subseteq Below(k) /\ j \in Below(k) /\ j \notin Below(j)
    OBVIOUS
  <2>2. Below(j) \in SUBSET (0..n) /\ Below(k) \in SUBSET (0..n)
    OBVIOUS
  <2>3. <<Below(j), Below(k)>> \in StrictSubsetOrdering(0..n)
    <3> HIDE DEF Below
    <3> QED BY <2>1, <2>2 DEF StrictSubsetOrdering
  <2> QED BY Zenon, <1>2, <1>3, <2>3
<1> QED BY <1>4

LEMMA FindFacts ==
    ASSUME blocks \in Seq(OnGrid), NEW s \in Nat, find_block(s) # Null
    PROVE  find_block(s) \in 1..Len(blocks) /\ blocks[find_block(s)].free
<1> DEFINE Fits(i) == blocks[i].free /\ blocks[i].size >= s
           D == DOMAIN blocks
           F == {i \in D : Fits(i)}
           First(i) == Fits(i) /\ \A j \in 1..i - 1 : ~ Fits(j)
<1>1. D = 1..Len(blocks) /\ Len(blocks) \in Nat
  OBVIOUS
<1>2. /\ \E i \in D : Fits(i)
      /\ find_block(s) = CHOOSE i \in D : First(i)
  BY DEF find_block
<1>3. F \in SUBSET (0..Len(blocks)) /\ F # {}
  BY <1>1, <1>2
<1>4. PICK k \in F : \A j \in F : k <= j
  <2> HIDE DEF F
  <2> QED BY Zenon, <1>1, <1>3, LeastIn
<1>5. k \in D /\ First(k)
  <2>1. k \in D /\ Fits(k)
    BY <1>4
  <2>2. ASSUME NEW j \in 1..k - 1, Fits(j) PROVE FALSE
    <3>1. j \in D /\ j < k
      BY <1>1, <2>1
    <3> QED BY <1>1, <1>4, <2>1, <2>2, <3>1
  <2> QED BY <2>1, <2>2
<1>6. find_block(s) \in D /\ First(find_block(s))
  <2> HIDE DEF First, D
  <2> QED BY <1>2, <1>5
<1> QED BY <1>1, <1>6

-----------------------------------------------------------------------------
(* The steps *)
LEMMA ClashIsRepetition == ~ Clash <=> Distinct(blocks)
  BY DEF Clash, Distinct

LEMMA SharedStays ==
    ASSUME NEW p \in Nat, NEW a \in Int, Shared(a, p)
    PROVE  Shared(a, p + 1)
<1>1. PICK u \in Nat : u = PageUnits
  BY Constants
<1>2. (p + 1) * u = p * u + u
  BY <1>1
<1>3. p * u \in Nat /\ a < p * u
  BY <1>1 DEF Shared
<1> QED BY <1>1, <1>2, <1>3 DEF Shared

LEMMA PageStart ==
    ASSUME NEW p \in Nat
    PROVE  Shared(p * PageUnits, p + 1) /\ ~ Shared(p * PageUnits, p)
<1>1. PICK u \in Nat \ {0} : u = PageUnits
  BY Constants
<1>2. (p + 1) * u = p * u + u /\ p * u \in Nat
  BY <1>1
<1>3. (p * u) % u = 0
  BY <1>1
<1> QED BY <1>1, <1>2, <1>3 DEF Shared

(* One more caller for the block at a *)
LEMMA HoldersGrow ==
    ASSUME NEW h \in Seq(Int), NEW a \in Int, NEW p \in Nat, NEW q \in {p, p + 1},
           TwoAreShared(h, p), NeverThree(h), OneHolder(h, a),
           \A k \in DOMAIN h : h[k] = a => Shared(a, q)
    PROVE  TwoAreShared(Append(h, a), q) /\ NeverThree(Append(h, a))
<1> DEFINE g == Append(h, a)
           n == Len(h) + 1
<1>1. /\ g \in Seq(Int) /\ DOMAIN g = 1..n /\ DOMAIN h = 1..Len(h) /\ Len(h) \in Nat
      /\ g[n] = a /\ \A j \in DOMAIN h : g[j] = h[j] /\ h[j] \in Int
  OBVIOUS
<1>2. \A j \in DOMAIN g : j = n \/ j \in DOMAIN h
  BY <1>1
<1> HIDE DEF g, n
<1>3. TwoAreShared(g, q)
  <2> SUFFICES ASSUME NEW j \in DOMAIN g, NEW k \in DOMAIN g, j # k, g[j] = g[k]
               PROVE  Shared(g[j], q)
    BY DEF TwoAreShared
  <2>1. CASE j \in DOMAIN h /\ k \in DOMAIN h
    <3>1. Shared(h[j], p)
      BY Zenon, <1>1, <2>1 DEF TwoAreShared
    <3> QED BY Zenon, <1>1, <2>1, <3>1, SharedStays
  <2>2. CASE j = n /\ k \in DOMAIN h
    BY Zenon, <1>1, <2>2
  <2>3. CASE k = n /\ j \in DOMAIN h
    BY Zenon, <1>1, <2>3
  <2> QED BY Zenon, <1>2, <2>1, <2>2, <2>3
<1>4. NeverThree(g)
  <2> SUFFICES ASSUME NEW j \in DOMAIN g, NEW k \in DOMAIN g, NEW l \in DOMAIN g,
                      g[j] = g[k], g[k] = g[l], j # k, k # l, j # l
               PROVE  FALSE
    BY DEF NeverThree
  <2>1. CASE j \in DOMAIN h /\ k \in DOMAIN h /\ l \in DOMAIN h
    BY Zenon, <1>1, <2>1 DEF NeverThree
  <2>2. CASE j = n
    BY Zenon, <1>1, <1>2, <2>2 DEF OneHolder
  <2>3. CASE k = n
    BY Zenon, <1>1, <1>2, <2>3 DEF OneHolder
  <2>4. CASE l = n
    BY Zenon, <1>1, <1>2, <2>4 DEF OneHolder
  <2> QED BY Zenon, <1>2, <2>1, <2>2, <2>3, <2>4
<1> QED BY <1>3, <1>4 DEF g

(* A block of the new list is free without a holder, or it is the first of *)
(* the page just taken, or it was free before and its holders are the      *)
(* same.                                                                   *)
FreeAfter(m, x, a, q) ==
    \/ m[x].addr \notin Addrs(blocks) \cup {a}
    \/ m[x].addr = a /\ a \notin Addrs(blocks) /\ Shared(a, q)
    \/ m[x].addr # a /\ \E j \in DOMAIN blocks : blocks[j].free /\ blocks[j].addr = m[x].addr

LEMMA TakeKeeps ==
    ASSUME IInv, Distinct(blocks), NEW m \in Seq(OnGrid), NEW a \in Addrs(m),
           blocks' = m, held' = Append(held, a), pages' \in {pages, pages + 1},
           Addrs(blocks) \subseteq Addrs(m), OneHolder(held, a),
           \A k \in DOMAIN held : held[k] = a => Shared(a, pages'),
           Distinct(m) => \A x \in DOMAIN m : m[x].free => FreeAfter(m, x, a, pages')
    PROVE  IInv'
<1>1. /\ pages \in Nat /\ held \in Seq(Int) /\ \A k \in DOMAIN held : held[k] \in Addrs(blocks)
      /\ TwoAreShared(held, pages) /\ NeverThree(held) /\ FreeIsStale(blocks, held, pages)
  BY DEF IInv
<1>2. a \in Int
  BY DEF Addrs, OnGrid, Block
<1>3. PICK q \in {pages, pages + 1} : q = pages'
  OBVIOUS
<1>4. TwoAreShared(held', q) /\ NeverThree(held')
  BY Zenon, <1>1, <1>2, <1>3, HoldersGrow
<1>5. /\ held' \in Seq(Int) /\ DOMAIN held' = 1..Len(held) + 1 /\ DOMAIN held = 1..Len(held)
      /\ Len(held) \in Nat /\ held'[Len(held) + 1] = a
      /\ \A j \in DOMAIN held : held'[j] = held[j] /\ held[j] \in Int
  BY <1>1, <1>2
<1>6. \A j \in DOMAIN held' : j = Len(held) + 1 \/ j \in DOMAIN held
  BY <1>5
<1>7. \A k \in DOMAIN held' : held'[k] \in Addrs(m)
  BY Zenon, <1>1, <1>5, <1>6
<1>8. ASSUME Distinct(m) PROVE FreeIsStale(m, held', q)
  <2> SUFFICES ASSUME NEW x \in DOMAIN m, NEW k \in DOMAIN held', m[x].free, held'[k] = m[x].addr
               PROVE  Shared(held'[k], q) /\ OneHolder(held', held'[k])
    BY Zenon DEF FreeIsStale
  <2>1. FreeAfter(m, x, a, q)
    BY Zenon, <1>3, <1>8
  <2>2. m[x].addr \in Addrs(blocks) \cup {a}
    BY Zenon, <1>1, <1>5, <1>6
  <2>3. CASE m[x].addr = a /\ a \notin Addrs(blocks) /\ Shared(a, q)
    <3>1. \A j \in DOMAIN held' : held'[j] = a => j = Len(held) + 1
      BY Zenon, <1>1, <1>5, <1>6, <2>3
    <3>2. OneHolder(held', a) /\ held'[k] = a
      BY Zenon, <2>3, <3>1 DEF OneHolder
    <3> QED BY Zenon, <2>3, <3>2
  <2>4. CASE m[x].addr # a /\ \E j \in DOMAIN blocks : blocks[j].free /\ blocks[j].addr = m[x].addr
    <3>1. \A j \in DOMAIN held' : held'[j] = m[x].addr => j \in DOMAIN held /\ held[j] = m[x].addr
      BY Zenon, <1>5, <1>6, <2>4
    <3>2. k \in DOMAIN held /\ held[k] = m[x].addr /\ held[k] \in Int
      BY Zenon, <1>5, <3>1
    <3>3. Shared(held[k], pages) /\ OneHolder(held, held[k])
      BY Zenon, <1>1, <2>4, <3>2 DEF FreeIsStale
    <3>4. OneHolder(held', held'[k])
      BY Zenon, <3>1, <3>2, <3>3 DEF OneHolder
    <3>5. Shared(held[k], q)
      BY Zenon, <1>1, <3>2, <3>3, SharedStays
    <3> QED BY Zenon, <3>2, <3>4, <3>5
  <2> QED BY Zenon, <2>1, <2>2, <2>3, <2>4 DEF FreeAfter
<1>9. pages' \in Nat
  BY <1>1
<1>10. Addrs(blocks)' = Addrs(m) /\ Distinct(blocks)' = Distinct(m)
  BY DEF Addrs, Distinct
<1>11. Distinct(blocks)' => FreeIsStale(m, held', pages')
  BY Zenon, <1>3, <1>8, <1>10
<1>12. TwoAreShared(held', pages')
  BY Zenon, <1>3, <1>4
<1> QED BY Zenon, <1>4, <1>5, <1>7, <1>9, <1>10, <1>11, <1>12 DEF IInv

LEMMA PlacedAddrs ==
    ASSUME NEW list \in Seq(OnGrid), NEW r \in Seq(OnGrid), NEW i, Placed(list, r, i)
    PROVE  Addrs(list) \subseteq Addrs(r)
<1>1. DOMAIN r = 1..Len(r) /\ DOMAIN list = 1..Len(list)
  OBVIOUS
<1> QED BY <1>1 DEF Placed, Addrs

LEMMA FromListKeeps ==
    ASSUME IInv, Distinct(blocks), NEW s \in 0..SizeLimit - 1, NEW i \in 1..Len(blocks),
           blocks[i].free, FromList(i, s)
    PROVE  IInv'
<1> DEFINE split == IF blocks[i].size - s > HEADER THEN split_block(blocks, i, s) ELSE blocks
           a == blocks[i].addr
           m == [split EXCEPT ![i].free = FALSE]
<1>1. blocks \in Seq(OnGrid) /\ pages \in Nat /\ held \in Seq(Int)
  BY DEF IInv
<1>2. blocks' = m /\ held' = Append(held, a) /\ pages' = pages
  BY DEF FromList, Return
<1>3. /\ split \in Seq(OnGrid) /\ Addrs(blocks) \subseteq Addrs(split)
      /\ Len(split) # Len(blocks) => Placed(blocks, split, i)
      /\ Len(split) >= Len(blocks) /\ Len(split) \in Nat /\ split[i].addr = a
      /\ \A j \in 1..Len(split) : j # i + 1 \/ Len(split) = Len(blocks) => Kept(blocks, split, i, j)
  <2>1. CASE blocks[i].size - s > HEADER
    <3>1. split = split_block(blocks, i, s)
      BY <2>1
    <3>2. /\ split \in Seq(OnGrid) /\ Len(split) = Len(blocks) + 1 /\ split[i].addr = a
          /\ Placed(blocks, split, i)
          /\ \A j \in 1..Len(split) : j # i + 1 => Kept(blocks, split, i, j)
      BY Zenon, <1>1, <3>1, SplitFacts
    <3> HIDE DEF split
    <3>3. Addrs(blocks) \subseteq Addrs(split)
      BY <1>1, <3>2, PlacedAddrs
    <3> QED BY <1>1, <3>2, <3>3
  <2>2. CASE ~ (blocks[i].size - s > HEADER)
    BY <1>1, <2>2 DEF Kept
  <2> QED BY <2>1, <2>2
<1> HIDE DEF split
<1>4. i \in 1..Len(split) /\ FALSE \in BOOLEAN
  BY <1>1, <1>3
<1>5. /\ m \in Seq(OnGrid) /\ Len(m) = Len(split)
      /\ \A j \in 1..Len(split) : m[j].addr = split[j].addr
      /\ ~ m[i].free /\ \A j \in 1..Len(split) : j # i => m[j].free = split[j].free
  <2>1. PICK f \in BOOLEAN : f = FALSE
    BY Zenon
  <2>2. m = [split EXCEPT ![i].free = f]
    BY Zenon, <2>1
  <2> HIDE DEF m
  <2>3. /\ m \in Seq(OnGrid) /\ Len(m) = Len(split)
        /\ \A j \in 1..Len(split) : m[j].addr = split[j].addr
        /\ m[i].free = f /\ \A j \in 1..Len(split) : j # i => m[j].free = split[j].free
    <3>1. split \in Seq(OnGrid) /\ i \in 1..Len(split) /\ f \in BOOLEAN
      BY Zenon, <1>3, <1>4, <2>1
    <3> QED BY <2>2, <3>1, MarkFacts, SMTT(40)
  <2> QED BY <2>1, <2>3
<1> HIDE DEF m
<1>6. DOMAIN m = 1..Len(split) /\ DOMAIN blocks = 1..Len(blocks) /\ DOMAIN split = 1..Len(split)
  BY <1>1, <1>3, <1>5
<1>7. Addrs(m) = Addrs(split)
  BY Zenon, <1>3, <1>5, SameAddrs
<1>8. a \in Addrs(blocks) /\ a \in Addrs(m)
  BY Zenon, <1>3, <1>6, <1>7 DEF Addrs
<1>9. /\ OneHolder(held, a)
      /\ \A k \in DOMAIN held : held[k] = a => Shared(a, pages)
  <2>1. FreeIsStale(blocks, held, pages)
    BY DEF IInv
  <2> QED BY Zenon, <1>6, <2>1 DEF FreeIsStale, OneHolder
<1>10. ASSUME Distinct(m), NEW x \in DOMAIN m, m[x].free PROVE FreeAfter(m, x, a, pages)
  <2>1. x # i /\ m[x].addr = split[x].addr /\ split[x].free
    BY Zenon, <1>5, <1>6, <1>10
  <2>2. CASE Kept(blocks, split, i, x)
    <3>1. PICK k \in 1..Len(blocks) : split[x].addr = blocks[k].addr /\ split[x].free = blocks[k].free
                                      /\ (x = i <=> k = i)
      BY Zenon, <2>2 DEF Kept
    <3>2. k # i /\ blocks[k].addr # a
      BY Zenon, <1>6, <2>1, <3>1 DEF Distinct
    <3> QED BY Zenon, <1>6, <2>1, <3>1, <3>2 DEF FreeAfter
  <2>3. CASE x = i + 1 /\ Len(split) # Len(blocks)
    <3>1. \A k \in DOMAIN blocks : m[x].addr # blocks[k].addr
      <4> SUFFICES ASSUME NEW k \in DOMAIN blocks, m[x].addr = blocks[k].addr PROVE FALSE
        BY Zenon
      <4>1. PICK y \in 1..Len(split) : y # i + 1 /\ split[y].addr = blocks[k].addr
        BY Zenon, <1>3, <1>6, <2>3 DEF Placed
      <4>2. y \in DOMAIN m /\ m[y].addr = m[x].addr /\ y # x
        BY Zenon, <1>5, <1>6, <2>3, <4>1
      <4> QED BY Zenon, <1>10, <4>2 DEF Distinct
    <3> QED BY Zenon, <1>8, <3>1 DEF FreeAfter, Addrs
  <2> QED BY Zenon, <1>3, <1>6, <2>2, <2>3
<1> QED BY Zenon, <1>2, <1>3, <1>5, <1>7, <1>8, <1>9, <1>10, TakeKeeps

LEMMA FromNewPageKeeps ==
    ASSUME IInv, Distinct(blocks), NEW s \in 0..SizeLimit - 1, FromNewPage(s)
    PROVE  IInv'
<1> DEFINE e == extend_heap(blocks)
           n == Len(e)
           a == pages * PageUnits
           m == split_block(e, n, s)
<1>1. /\ blocks \in Seq(OnGrid) /\ pages \in Nat /\ held \in Seq(Int)
      /\ TwoAreShared(held, pages)
  BY DEF IInv
<1>2. blocks' = m /\ held' = Append(held, e[n].addr) /\ pages' = pages + 1
  BY DEF FromNewPage, Return
<1>3. /\ e \in Seq(OnGrid) /\ n = Len(blocks) + 1 /\ Addrs(blocks) \subseteq Addrs(e)
      /\ e[n].addr = a
      /\ \A j \in 1..Len(blocks) : e[j].addr = blocks[j].addr /\ (e[j].free => blocks[j].free)
  BY Zenon, <1>1, ExtendFacts
<1> HIDE DEF e
<1>4. n \in 1..Len(e) /\ Len(blocks) \in Nat
  BY <1>1, <1>3
<1>5. /\ m \in Seq(OnGrid) /\ Len(m) = Len(e) + 1 /\ m[n].addr = e[n].addr /\ Placed(e, m, n)
      /\ \A j \in 1..Len(m) : j # n + 1 => Kept(e, m, n, j)
  BY Zenon, <1>3, <1>4, SplitFacts
<1> HIDE DEF m
<1>6. /\ DOMAIN m = 1..Len(m) /\ DOMAIN blocks = 1..Len(blocks) /\ DOMAIN e = 1..n
      /\ n \in DOMAIN m /\ \A j \in 1..n : j # n => j \in 1..Len(blocks)
      /\ \A j \in 1..Len(blocks) : j \in 1..n /\ j # n
  BY <1>1, <1>3, <1>4, <1>5
<1>7. Addrs(blocks) \subseteq Addrs(m) /\ a \in Addrs(m)
  <2>1. Addrs(e) \subseteq Addrs(m)
    BY Zenon, <1>3, <1>5, PlacedAddrs
  <2>2. m[n].addr \in Addrs(m)
    BY Zenon, <1>6 DEF Addrs
  <2> QED BY Zenon, <1>3, <1>5, <2>1, <2>2
<1>8. Shared(a, pages + 1) /\ ~ Shared(a, pages)
  BY Zenon, <1>1, PageStart
<1> HIDE DEF a
<1>9. OneHolder(held, a)
  BY Zenon, <1>1, <1>8 DEF OneHolder, TwoAreShared
<1>10. ASSUME Distinct(m), NEW x \in DOMAIN m, m[x].free PROVE FreeAfter(m, x, a, pages + 1)
  <2>1. ASSUME NEW j \in DOMAIN blocks
        PROVE  \E y \in DOMAIN m : y # n + 1 /\ y # n /\ m[y].addr = blocks[j].addr
    BY Zenon, <1>3, <1>5, <1>6, <2>1 DEF Placed
  <2>2. a \notin Addrs(blocks)
    <3>1. ASSUME NEW j \in DOMAIN blocks, blocks[j].addr = a PROVE FALSE
      <4>1. PICK y \in DOMAIN m : y # n /\ m[y].addr = blocks[j].addr
        BY Zenon, <2>1
      <4>2. m[y].addr = m[n].addr /\ n \in DOMAIN m
        BY Zenon, <1>3, <1>5, <1>6, <3>1, <4>1
      <4> QED BY Zenon, <1>10, <4>1, <4>2 DEF Distinct
    <3> QED BY <3>1 DEF Addrs
  <2>3. CASE x = n
    BY Zenon, <1>3, <1>5, <1>8, <2>2, <2>3 DEF FreeAfter
  <2>4. CASE x = n + 1
    <3>1. x # n
      BY <1>4, <2>4
    <3>2. m[x].addr # a
      BY Zenon, <1>3, <1>5, <1>6, <1>10, <3>1 DEF Distinct
    <3>3. \A j \in DOMAIN blocks : blocks[j].addr # m[x].addr
      <4> SUFFICES ASSUME NEW j \in DOMAIN blocks, blocks[j].addr = m[x].addr PROVE FALSE
        BY Zenon
      <4>1. PICK y \in DOMAIN m : y # n + 1 /\ m[y].addr = blocks[j].addr
        BY Zenon, <2>1
      <4> QED BY Zenon, <1>10, <2>4, <4>1 DEF Distinct
    <3>4. m[x].addr \notin Addrs(blocks)
      BY <3>3 DEF Addrs
    <3> QED BY Zenon, <3>2, <3>4 DEF FreeAfter
  <2>5. CASE x # n /\ x # n + 1
    <3>1. PICK k \in 1..n : m[x].addr = e[k].addr /\ m[x].free = e[k].free /\ k # n
      BY Zenon, <1>5, <1>6, <2>5 DEF Kept
    <3>2. k \in DOMAIN blocks /\ blocks[k].free /\ blocks[k].addr = m[x].addr
      BY Zenon, <1>3, <1>6, <1>10, <3>1
    <3>3. m[x].addr # a
      BY Zenon, <1>3, <1>5, <1>6, <1>10, <2>5 DEF Distinct
    <3> QED BY Zenon, <3>2, <3>3 DEF FreeAfter
  <2> QED BY Zenon, <2>3, <2>4, <2>5
<1> HIDE DEF n
<1> QED BY Zenon, <1>2, <1>3, <1>5, <1>7, <1>8, <1>9, <1>10, TakeKeeps

LEMMA MallocKeeps ==
    ASSUME IInv, ~ Clash, NEW size \in Requests, sub_malloc(size)
    PROVE  IInv'
<1> DEFINE s == size % SizeLimit
           i == find_block(s)
<1>1. s \in 0..SizeLimit - 1 /\ s \in Nat
  BY Constants
<1>2. blocks \in Seq(OnGrid) /\ Distinct(blocks)
  BY ClashIsRepetition DEF IInv
<1>3. \/ i # Null /\ FromList(i, s)
      \/ FromNewPage(s)
  BY Zenon DEF sub_malloc
<1> HIDE DEF s
<1>4. CASE i # Null /\ FromList(i, s)
  <2>1. i \in 1..Len(blocks) /\ blocks[i].free
    BY <1>1, <1>2, <1>4, FindFacts
  <2> QED BY Zenon, <1>1, <1>2, <1>4, <2>1, FromListKeeps
<1> QED BY Zenon, <1>1, <1>2, <1>3, <1>4, FromNewPageKeeps

LEMMA HoldersShrink ==
    ASSUME NEW h \in Seq(Int), NEW k \in DOMAIN h, NEW p, TwoAreShared(h, p), NeverThree(h)
    PROVE  LET g == RemoveAt(h, k)
           IN  /\ g \in Seq(Int) /\ \A j \in DOMAIN g : \E l \in DOMAIN h : g[j] = h[l]
               /\ TwoAreShared(g, p) /\ NeverThree(g)
               /\ \A a \in Int : OneHolder(h, a) => OneHolder(g, a)
               /\ OneHolder(g, h[k])
               /\ \A j \in DOMAIN g : g[j] = h[k] => Shared(h[k], p)
<1> DEFINE g == RemoveAt(h, k)
           from == [j \in 1..Len(h) - 1 |-> IF j < k THEN j ELSE j + 1]
<1>1. k \in 1..Len(h) /\ Len(h) \in Nat /\ DOMAIN h = 1..Len(h)
  OBVIOUS
<1>2. /\ g \in Seq(Int) /\ DOMAIN g = 1..Len(h) - 1
      /\ \A j \in 1..k - 1 : g[j] = h[j]
      /\ \A j \in k..Len(h) - 1 : g[j] = h[j + 1]
  BY Zenon, <1>1, RemoveFacts
<1> HIDE DEF g
<1>3. \A j \in DOMAIN g : from[j] \in DOMAIN h /\ from[j] # k /\ g[j] = h[from[j]]
  <2> SUFFICES ASSUME NEW j \in 1..Len(h) - 1
               PROVE  from[j] \in 1..Len(h) /\ from[j] # k /\ g[j] = h[from[j]]
    BY <1>1, <1>2
  <2>1. CASE j < k
    <3>1. j \in 1..k - 1 /\ from[j] = j /\ j \in 1..Len(h) /\ j # k
      BY <1>1, <2>1
    <3> QED BY Zenon, <1>2, <3>1
  <2>2. CASE ~ (j < k)
    <3>1. j \in k..Len(h) - 1 /\ from[j] = j + 1 /\ j + 1 \in 1..Len(h) /\ j + 1 # k
      BY <1>1, <2>2
    <3> QED BY <1>2, <3>1
  <2> QED BY <2>1, <2>2
<1>4. \A j, l \in DOMAIN g : from[j] = from[l] => j = l
  <2> SUFFICES ASSUME NEW j \in 1..Len(h) - 1, NEW l \in 1..Len(h) - 1, from[j] = from[l]
               PROVE  j = l
    BY Zenon, <1>2
  <2>1. /\ from[j] = IF j < k THEN j ELSE j + 1
        /\ from[l] = IF l < k THEN l ELSE l + 1
    OBVIOUS
  <2> HIDE DEF from
  <2>2. CASE j < k /\ l < k
    BY Zenon, <2>1, <2>2
  <2>3. CASE j < k /\ ~ (l < k)
    <3>1. j = l + 1
      BY Zenon, <2>1, <2>3
    <3> QED BY <1>1, <2>3, <3>1
  <2>4. CASE ~ (j < k) /\ l < k
    <3>1. j + 1 = l
      BY Zenon, <2>1, <2>4
    <3> QED BY <1>1, <2>4, <3>1
  <2>5. CASE ~ (j < k) /\ ~ (l < k)
    <3>1. j + 1 = l + 1
      BY Zenon, <2>1, <2>5
    <3> QED BY <1>1, <3>1
  <2> QED BY Zenon, <2>2, <2>3, <2>4, <2>5
<1> HIDE DEF from
<1>5. TwoAreShared(g, p)
  BY Zenon, <1>3, <1>4 DEF TwoAreShared
<1>6. NeverThree(g)
  <2> SUFFICES ASSUME NEW x \in DOMAIN g, NEW y \in DOMAIN g, NEW z \in DOMAIN g,
                      g[x] = g[y], g[y] = g[z]
               PROVE  x = y \/ y = z \/ x = z
    BY Zenon DEF NeverThree
  <2>1. /\ from[x] \in DOMAIN h /\ from[y] \in DOMAIN h /\ from[z] \in DOMAIN h
        /\ h[from[x]] = h[from[y]] /\ h[from[y]] = h[from[z]]
    BY Zenon, <1>3
  <2>2. from[x] = from[y] \/ from[y] = from[z] \/ from[x] = from[z]
    BY Zenon, <2>1 DEF NeverThree
  <2> QED BY Zenon, <1>4, <2>2
<1>7. \A a \in Int : OneHolder(h, a) => OneHolder(g, a)
  <2> SUFFICES ASSUME NEW a \in Int, OneHolder(h, a),
                      NEW x \in DOMAIN g, NEW y \in DOMAIN g, g[x] = a, g[y] = a
               PROVE  x = y
    BY Zenon DEF OneHolder
  <2>1. from[x] \in DOMAIN h /\ from[y] \in DOMAIN h /\ h[from[x]] = a /\ h[from[y]] = a
    BY Zenon, <1>3
  <2>2. from[x] = from[y]
    BY Zenon, <2>1 DEF OneHolder
  <2> QED BY Zenon, <1>4, <2>2
<1>8. OneHolder(g, h[k])
  <2> SUFFICES ASSUME NEW x \in DOMAIN g, NEW y \in DOMAIN g, g[x] = h[k], g[y] = h[k]
               PROVE  x = y
    BY Zenon DEF OneHolder
  <2>1. /\ from[x] \in DOMAIN h /\ from[y] \in DOMAIN h /\ from[x] # k /\ from[y] # k
        /\ h[from[x]] = h[k] /\ h[from[y]] = h[k]
    BY Zenon, <1>3
  <2>2. from[x] = from[y]
    BY Zenon, <2>1 DEF NeverThree
  <2> QED BY Zenon, <1>4, <2>2
<1>9. \A j \in DOMAIN g : g[j] = h[k] => Shared(h[k], p)
  BY Zenon, <1>3 DEF TwoAreShared
<1> QED BY Zenon, <1>2, <1>3, <1>5, <1>6, <1>7, <1>8, <1>9 DEF g

LEMMA FreeKeeps ==
    ASSUME IInv, ~ Clash, NEW k \in DOMAIN held, sub_free(k)
    PROVE  IInv'
<1> DEFINE i == CHOOSE j \in DOMAIN blocks : blocks[j].addr = held[k]
           g == RemoveAt(held, k)
<1>0. PICK f \in BOOLEAN : f = TRUE
  BY Zenon
<1> DEFINE m == [blocks EXCEPT ![i].free = f]
<1>1. blocks' = m /\ held' = g /\ pages' = pages
  BY <1>0 DEF sub_free
<1>2. /\ blocks \in Seq(OnGrid) /\ held \in Seq(Int) /\ pages \in Nat
      /\ TwoAreShared(held, pages) /\ NeverThree(held) /\ FreeIsStale(blocks, held, pages)
      /\ \A j \in DOMAIN held : held[j] \in Addrs(blocks) /\ held[j] \in Int
  BY ClashIsRepetition DEF IInv
<1>3. i \in 1..Len(blocks) /\ blocks[i].addr = held[k] /\ f \in BOOLEAN
  <2>1. \E j \in DOMAIN blocks : blocks[j].addr = held[k]
    BY DEF IInv, Addrs
  <2> QED BY <1>0, <1>2, <2>1
<1> HIDE DEF i
<1>4. /\ m \in Seq(OnGrid) /\ Len(m) = Len(blocks)
      /\ \A j \in 1..Len(blocks) : m[j].addr = blocks[j].addr
      /\ \A j \in 1..Len(blocks) : j # i => m[j].free = blocks[j].free
  <2>1. m = [blocks EXCEPT ![i].free = f]
    OBVIOUS
  <2> HIDE DEF m
  <2>2. blocks \in Seq(OnGrid) /\ i \in 1..Len(blocks) /\ f \in BOOLEAN
    BY Zenon, <1>2, <1>3
  <2> QED BY <2>1, <2>2, MarkFacts
<1> HIDE DEF m
<1>5. /\ g \in Seq(Int) /\ \A j \in DOMAIN g : \E l \in DOMAIN held : g[j] = held[l]
      /\ TwoAreShared(g, pages) /\ NeverThree(g)
      /\ \A a \in Int : OneHolder(held, a) => OneHolder(g, a)
      /\ OneHolder(g, held[k])
      /\ \A j \in DOMAIN g : g[j] = held[k] => Shared(held[k], pages)
  BY Zenon, <1>2, HoldersShrink
<1> HIDE DEF g
<1>6. Addrs(m) = Addrs(blocks)
  BY Zenon, <1>2, <1>4, SameAddrs
<1>7. \A j \in DOMAIN g : g[j] \in Addrs(m)
  BY Zenon, <1>2, <1>5, <1>6
<1>8. FreeIsStale(m, g, pages)
  <2> SUFFICES ASSUME NEW x \in DOMAIN m, NEW j \in DOMAIN g, m[x].free, g[j] = m[x].addr
               PROVE  Shared(g[j], pages) /\ OneHolder(g, g[j])
    BY Zenon DEF FreeIsStale
  <2>1. x \in 1..Len(blocks) /\ x \in DOMAIN blocks /\ m[x].addr = blocks[x].addr
    BY <1>2, <1>4
  <2>2. CASE x = i
    BY Zenon, <1>3, <1>5, <2>1, <2>2
  <2>3. CASE x # i
    <3>1. PICK l \in DOMAIN held : g[j] = held[l]
      BY Zenon, <1>5
    <3>2. Shared(held[l], pages) /\ OneHolder(held, held[l])
      BY Zenon, <1>2, <1>4, <2>1, <2>3, <3>1 DEF FreeIsStale
    <3> QED BY Zenon, <1>2, <1>5, <3>1, <3>2
  <2> QED BY Zenon, <2>2, <2>3
<1>9. Addrs(blocks)' = Addrs(m)
  BY Zenon, <1>1 DEF Addrs
<1>10. TwoAreShared(held', pages') /\ NeverThree(held') /\ FreeIsStale(blocks', held', pages')
  BY Zenon, <1>1, <1>5, <1>8
<1> QED BY Zenon, <1>1, <1>2, <1>4, <1>5, <1>7, <1>9, <1>10 DEF IInv

(* The list and the callers' blocks are as IInv says. *)
THEOREM KernelHeapInvariant == Spec => []IInv
<1>1. Init => IInv
  <2> SUFFICES ASSUME Init PROVE IInv
    OBVIOUS
  <2>1. blocks = <<>> /\ held = <<>> /\ pages = 0 /\ DOMAIN held = {}
    BY DEF Init
  <2>2. blocks \in Seq(OnGrid) /\ held \in Seq(Int)
    BY <2>1, EmptySeq
  <2> QED BY <2>1, <2>2 DEF IInv, TwoAreShared, NeverThree, FreeIsStale
<1>2. IInv /\ [Next]_vars => IInv'
  <2> SUFFICES ASSUME IInv, [Next]_vars PROVE IInv'
    OBVIOUS
  <2>1. CASE AlignedAlloc
    <3>1. blocks' = blocks /\ held' = held /\ pages' = pages + 1 /\ pages \in Nat
      BY <2>1 DEF AlignedAlloc, IInv
    <3>2. \A k \in DOMAIN held : Shared(held[k], pages) => Shared(held[k], pages + 1)
      BY <3>1, SharedStays DEF IInv
    <3>3. TwoAreShared(held, pages + 1)
      BY Zenon, <3>2 DEF IInv, TwoAreShared
    <3>4. Distinct(blocks) => FreeIsStale(blocks, held, pages + 1)
      BY Zenon, <3>2 DEF IInv, FreeIsStale
    <3>5. pages' \in Nat
      BY <3>1
    <3>6. /\ TwoAreShared(held', pages') /\ NeverThree(held')
          /\ Distinct(blocks') => FreeIsStale(blocks', held', pages')
      BY Zenon, <3>1, <3>3, <3>4 DEF IInv
    <3> QED BY Zenon, <3>1, <3>5, <3>6 DEF IInv
  <2>2. CASE UNCHANGED vars
    BY Zenon, <2>2 DEF vars, IInv
  <2> QED BY Zenon, <2>1, <2>2, MallocKeeps, FreeKeeps DEF Next
<1> QED BY <1>1, <1>2, PTL DEF Spec

(* Every size fits the 16 bits of its field, and every block that a caller *)
(* holds is still in the list that free searches.                          *)
THEOREM KernelHeapIsTyped == Spec => []TypeOK
<1>1. IInv => TypeOK
  <2> SUFFICES ASSUME IInv PROVE TypeOK
    OBVIOUS
  <2>1. \A i \in DOMAIN blocks : blocks[i] \in Block
    BY DEF IInv, OnGrid
  <2> QED BY <2>1 DEF IInv, TypeOK, Block, Addrs
<1> QED BY <1>1, KernelHeapInvariant, PTL

(* Headers stay aligned after any number of splits by odd sizes, because   *)
(* split_block rounds in units of headers and pages are even.              *)
THEOREM HeadersStayAligned == Spec => []BlocksAligned
<1>1. IInv => BlocksAligned
  BY DEF IInv, BlocksAligned, OnGrid
<1> QED BY <1>1, KernelHeapInvariant, PTL

(* The flag sub_malloc leaves set on the first block of a new page lets    *)
(* one more caller have that block, and no other is ever given twice.      *)
THEOREM StaleFlagCostsOnce == Spec => []HeldAtMostTwice
<1>1. IInv => HeldAtMostTwice
  BY Zenon DEF IInv, TwoAreShared, NeverThree, Shared, HeldAtMostTwice
<1> QED BY <1>1, KernelHeapInvariant, PTL
=============================================================================

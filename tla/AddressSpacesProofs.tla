------------------------- MODULE AddressSpacesProofs -------------------------
(***************************************************************************)
(* Copy on write gives processes private memories, for any number of       *)
(* processes, pages and frames and any layout of a program.                *)
(***************************************************************************)
EXTENDS AddressSpaces, FiniteSetTheorems, WellFoundedInduction, TLAPS

(* TypeOK, by the variables that a step changes together. *)
Contents == Value \cup {"zero", "image"}
EntryType == [frame : {-1} \cup DOMAIN frames, present : BOOLEAN, writable : BOOLEAN,
              cow : BOOLEAN]
AreaType == [start : Int, next : {Null} \cup Node]

FramesOK ==
    /\ DOMAIN frames = 0..Cardinality(DOMAIN frames) - 1
    /\ \A f \in DOMAIN frames : frames[f] \in Contents

AreasOK ==
    /\ vma \in [Node -> AreaType] /\ used \subseteq Node
    /\ mmap \in [Proc -> {Null} \cup Node] /\ mmap_cache \in [Proc -> {Null} \cup Node]

ProcsOK ==
    /\ no_stack_pages \in [Proc -> Nat]
    /\ status \in [Proc -> {"unborn", "alive", "dead"}]
    /\ kernel \in {"up", "recursing"}

(* A page that is present has a frame, and there are finitely many frames. *)
PresentIsBacked ==
    /\ IsFiniteSet(DOMAIN frames)
    /\ \A p \in Proc, a \in Page : pt[p][a].present => pt[p][a].frame \in DOMAIN frames

IInv == TypeOK /\ PresentIsBacked /\ SharedIsReadOnly

(* A process that runs has an area that was mapped last. *)
HasAreas == \A p \in Proc : status[p] = "alive" => mmap_cache[p] \in Node

LEMMA TypeOKParts ==
    /\ TypeOK <=> FramesOK /\ pt \in [Proc -> [Page -> EntryType]] /\ AreasOK /\ ProcsOK
    /\ TypeOK' <=> FramesOK' /\ (pt \in [Proc -> [Page -> EntryType]])' /\ AreasOK' /\ ProcsOK'
  BY DEF TypeOK, FramesOK, AreasOK, ProcsOK, EntryType, AreaType, Contents

-----------------------------------------------------------------------------
(* The operators. *)
LEMMA MinIn ==
    ASSUME NEW n \in Nat, NEW S \in SUBSET (0..n), S # {}
    PROVE  Min(S) \in S
<1> DEFINE Below(k) == 0..k - 1
           T == {Below(k) : k \in S}
<1>1. T \subseteq FiniteSubsetsOf(0..n) /\ T # {}
  <2>1. \A k \in S : Below(k) \in SUBSET (0..n)
    OBVIOUS
  <2>2. \A k \in S : IsFiniteSet(Below(k))
    BY FS_Interval
  <2> QED BY Zenon, <2>1, <2>2 DEF FiniteSubsetsOf
<1>2. PICK x \in T : \A y \in T : ~ (<<y, x>> \in StrictSubsetOrdering(0..n))
  <2> HIDE DEF T
  <2> QED BY <1>1, FS_StrictSubsetOrderingWellFounded, WFMin, Zenon
<1>3. PICK k \in S : x = Below(k)
  OBVIOUS
<1>4. \A j \in S : k <= j
  <2> SUFFICES ASSUME NEW j \in S, j < k PROVE FALSE
    OBVIOUS
  <2>1. Below(j) \subseteq Below(k) /\ j \in Below(k) /\ j \notin Below(j)
    OBVIOUS
  <2>2. Below(j) \in SUBSET (0..n) /\ Below(k) \in SUBSET (0..n)
    OBVIOUS
  <2>3. <<Below(j), Below(k)>> \in StrictSubsetOrdering(0..n)
    <3> HIDE DEF Below
    <3> QED BY <2>1, <2>2 DEF StrictSubsetOrdering
  <2> QED BY Zenon, <1>2, <1>3, <2>3
<1> QED BY Zenon, <1>4 DEF Min

(* The next frame is one that no entry of any process uses. *)
LEMMA NextIsFresh ==
    ASSUME IInv
    PROVE  /\ NextFrame \in Nat /\ DOMAIN frames = 0..NextFrame - 1
           /\ NextFrame \notin DOMAIN frames
<1>1. NextFrame \in Nat
  BY FS_CardinalityType DEF IInv, PresentIsBacked, NextFrame
<1>2. DOMAIN frames = 0..NextFrame - 1
  BY TypeOKParts DEF IInv, FramesOK, NextFrame
<1> QED BY <1>1, <1>2

LEMMA FilledFacts ==
    ASSUME NEW f, NEW n, NEW v
    PROVE  /\ DOMAIN Filled(f, n, v) = DOMAIN f \cup {n}
           /\ Filled(f, n, v)[n] = v
           /\ \A x \in DOMAIN f : x # n => Filled(f, n, v)[x] = f[x]
  BY DEF Filled

(* A fresh frame keeps the frames numbered without a gap. *)
LEMMA FilledKeeps ==
    ASSUME NEW f, NEW n \in Nat, DOMAIN f = 0..n - 1, NEW v \in Contents,
           \A x \in DOMAIN f : f[x] \in Contents
    PROVE  /\ DOMAIN Filled(f, n, v) = 0..n
           /\ \A x \in DOMAIN Filled(f, n, v) : Filled(f, n, v)[x] \in Contents
  BY DEF Filled

LEMMA FramesGrow ==
    ASSUME NEW n \in Nat, DOMAIN frames' = 0..n - 1,
           \A x \in DOMAIN frames' : frames'[x] \in Contents
    PROVE  FramesOK' /\ IsFiniteSet(DOMAIN frames')
<1>1. IsFiniteSet(0..n - 1) /\ Cardinality(0..n - 1) = n
  BY FS_Interval
<1> QED BY <1>1 DEF FramesOK, Contents

(* What a process sees of a page is its contents, or that it is not there. *)
LEMMA MemoryType ==
    ASSUME IInv
    PROVE  Memory \in [Proc -> [Page -> Contents \cup {"none"}]]
  BY TypeOKParts DEF IInv, FramesOK, PresentIsBacked, Memory

(* A step that gives process p the next frame for its page pg. *)
MapsFresh(p, pg, v) ==
    /\ pt' = [pt EXCEPT ![p][pg] = set_page_entry(@, NextFrame)]
    /\ frames' = Filled(frames, NextFrame, v)

LEMMA MapsFreshKeeps ==
    ASSUME IInv, NEW p \in Proc, NEW pg \in Page, NEW v \in Contents, MapsFresh(p, pg, v)
    PROVE  /\ FramesOK' /\ (pt \in [Proc -> [Page -> EntryType]])'
           /\ PresentIsBacked' /\ SharedIsReadOnly'
           /\ Memory' = [Memory EXCEPT ![p][pg] = v]
<1> DEFINE n == NextFrame
           e == set_page_entry(pt[p][pg], n)
<1>1. n \in Nat /\ DOMAIN frames = 0..n - 1 /\ n \notin DOMAIN frames
  BY NextIsFresh
<1>2. FramesOK /\ pt \in [Proc -> [Page -> EntryType]]
  BY TypeOKParts DEF IInv
<1>3. /\ DOMAIN frames' = 0..n
      /\ \A x \in DOMAIN frames' : frames'[x] \in Contents
  BY <1>1, <1>2, FilledKeeps DEF MapsFresh, FramesOK
<1>4. FramesOK' /\ IsFiniteSet(DOMAIN frames')
  <2>1. n + 1 \in Nat /\ DOMAIN frames' = 0..(n + 1) - 1
    BY <1>1, <1>3
  <2> HIDE DEF n
  <2> QED BY <1>3, <2>1, FramesGrow
<1>5. DOMAIN frames' = DOMAIN frames \cup {n}
  BY Zenon, FilledFacts DEF MapsFresh
<1>6. /\ frames'[n] = v
      /\ \A x \in DOMAIN frames : frames'[x] = frames[x]
  BY <1>1 DEF MapsFresh, Filled
<1>7. /\ e \in [frame : ({-1} \cup DOMAIN frames) \cup {n}, present : BOOLEAN,
                 writable : BOOLEAN, cow : BOOLEAN]
      /\ e.frame = n /\ e.present = TRUE
  <2>1. pt[p][pg] \in EntryType
    BY <1>2
  <2> QED BY Zenon, <2>1 DEF EntryType, set_page_entry
<1>8. pt' = [q \in Proc |-> [a \in Page |-> IF q = p /\ a = pg THEN e ELSE pt[q][a]]]
  BY Zenon, <1>2 DEF MapsFresh
<1> HIDE DEF n, e
<1>9. (pt \in [Proc -> [Page -> EntryType]])'
  <2>1. EntryType \subseteq EntryType' /\ e \in EntryType'
    BY <1>5, <1>7 DEF EntryType
  <2> QED BY <1>2, <1>8, <2>1
<1>10. \A q \in Proc, a \in Page : pt[q][a].present => pt[q][a].frame \in DOMAIN frames
  BY DEF IInv, PresentIsBacked
<1>11. PresentIsBacked'
  BY <1>4, <1>5, <1>7, <1>8, <1>10 DEF PresentIsBacked
<1>12. SharedIsReadOnly'
  <2> SUFFICES ASSUME NEW q \in Proc, NEW a \in Page, NEW r \in Proc, NEW b \in Page,
                      pt'[q][a].present, pt'[q][a].writable, pt'[r][b].present,
                      pt'[r][b].frame = pt'[q][a].frame
               PROVE  r = q /\ b = a
    BY DEF SharedIsReadOnly
  <2>1. CASE (q = p /\ a = pg) \/ (r = p /\ b = pg)
    BY <1>1, <1>7, <1>8, <1>10, <2>1
  <2>2. CASE ~ (q = p /\ a = pg) /\ ~ (r = p /\ b = pg)
    BY <1>8, <2>2 DEF IInv, SharedIsReadOnly
  <2> QED BY <2>1, <2>2
<1>13. Memory' = [q \in Proc |-> [a \in Page |-> IF q = p /\ a = pg THEN v ELSE Memory[q][a]]]
  BY <1>1, <1>6, <1>7, <1>8, <1>10 DEF Memory
<1>14. Memory' = [Memory EXCEPT ![p][pg] = v]
  BY Zenon, <1>13, MemoryType
<1> QED BY <1>4, <1>9, <1>11, <1>12, <1>14

(* A frame that is taken and mapped outside user memory is seen by nobody. *)
LEMMA UnseenFrameKeeps ==
    ASSUME IInv, NEW v \in Contents, pt' = pt, frames' = Filled(frames, NextFrame, v)
    PROVE  /\ FramesOK' /\ (pt \in [Proc -> [Page -> EntryType]])'
           /\ PresentIsBacked' /\ SharedIsReadOnly' /\ Memory' = Memory
<1> DEFINE n == NextFrame
<1>1. n \in Nat /\ DOMAIN frames = 0..n - 1 /\ n \notin DOMAIN frames
  BY NextIsFresh
<1>2. FramesOK /\ pt \in [Proc -> [Page -> EntryType]]
  BY TypeOKParts DEF IInv
<1>3. /\ DOMAIN frames' = 0..n
      /\ \A x \in DOMAIN frames' : frames'[x] \in Contents
  BY <1>1, <1>2, FilledKeeps DEF FramesOK
<1>4. FramesOK' /\ IsFiniteSet(DOMAIN frames')
  <2>1. n + 1 \in Nat /\ DOMAIN frames' = 0..(n + 1) - 1
    BY <1>1, <1>3
  <2> HIDE DEF n
  <2> QED BY <1>3, <2>1, FramesGrow
<1>5. \A x \in DOMAIN frames : x \in DOMAIN frames' /\ frames'[x] = frames[x]
  BY <1>1 DEF Filled
<1> HIDE DEF n
<1>6. (pt \in [Proc -> [Page -> EntryType]])'
  <2>1. EntryType \subseteq EntryType'
    BY <1>5 DEF EntryType
  <2> QED BY <1>2, <2>1
<1>7. PresentIsBacked' /\ SharedIsReadOnly'
  BY <1>4, <1>5 DEF IInv, PresentIsBacked, SharedIsReadOnly
<1>8. Memory' = Memory
  BY <1>5 DEF IInv, PresentIsBacked, Memory
<1> QED BY <1>4, <1>6, <1>7, <1>8

(* A write through an entry that is writable is seen by its owner alone. *)
LEMMA WriteKeeps ==
    ASSUME IInv, NEW p \in Proc, NEW pg \in Page, NEW v \in Value, write(p, pg, v)
    PROVE  IInv' /\ PM!Write(p, pg, v)
<1> DEFINE f == pt[p][pg].frame
<1>1. /\ FramesOK /\ pt \in [Proc -> [Page -> EntryType]] /\ AreasOK /\ ProcsOK
  BY TypeOKParts DEF IInv
<1>2. /\ Runs(p) /\ pt[p][pg].present /\ pt[p][pg].writable
      /\ frames' = [frames EXCEPT ![f] = v]
      /\ UNCHANGED <<pt, vma, used, mmap, mmap_cache, no_stack_pages, status, kernel>>
  BY DEF write, areas
<1>3. f \in DOMAIN frames
  BY <1>2 DEF IInv, PresentIsBacked
<1>4. DOMAIN frames' = DOMAIN frames /\ v \in Contents
  BY <1>2 DEF Contents
<1>5. TypeOK'
  <2>1. FramesOK'
    BY <1>1, <1>2, <1>4 DEF FramesOK, Contents
  <2>2. (pt \in [Proc -> [Page -> EntryType]])'
    BY <1>1, <1>2, <1>4 DEF EntryType
  <2> QED BY <1>1, <1>2, <2>1, <2>2, TypeOKParts DEF AreasOK, ProcsOK, AreaType
<1>6. PresentIsBacked' /\ SharedIsReadOnly'
  BY <1>2, <1>4 DEF IInv, PresentIsBacked, SharedIsReadOnly
<1>7. \A q \in Proc, a \in Page :
          pt[q][a].present /\ pt[q][a].frame = f => q = p /\ a = pg
  BY <1>2 DEF IInv, SharedIsReadOnly
<1>8. \A q \in Proc, a \in Page : pt[q][a].present => pt[q][a].frame \in DOMAIN frames
  BY DEF IInv, PresentIsBacked
<1>9. Memory' = [q \in Proc |-> [a \in Page |-> IF q = p /\ a = pg THEN v ELSE Memory[q][a]]]
  BY <1>2, <1>3, <1>7, <1>8 DEF Memory
<1>10. Memory' = [Memory EXCEPT ![p][pg] = v]
  BY Zenon, <1>9, MemoryType
<1>11. Memory[p][pg] # "none"
  BY <1>1, <1>2, <1>3, AddressSpacesAssumption DEF FramesOK, Contents, Memory
<1> QED BY <1>2, <1>5, <1>6, <1>10, <1>11 DEF IInv, PM!Write, Runs

(* After copy_page_table no page that is present can be written. *)
LEMMA CopyFacts ==
    ASSUME IInv, NEW p \in Proc
    PROVE  \E c \in [Page -> EntryType] :
              /\ c = copy_page_table(pt[p])
              /\ \A a \in Page :
                    /\ c[a].frame = pt[p][a].frame
                    /\ c[a].present <=> pt[p][a].present
                    /\ c[a].present => ~ c[a].writable
<1> DEFINE c == copy_page_table(pt[p])
<1>1. pt[p] \in [Page -> EntryType]
  BY TypeOKParts DEF IInv
<1>2. \A e \in EntryType :
          /\ Protected(e) \in EntryType /\ Protected(e).frame = e.frame
          /\ Protected(e).present <=> e.present
          /\ ~ Protected(e).writable
  BY Zenon DEF EntryType, Protected
<1>3. \A a \in Page : a \in TableOf(a)
  BY DEF TableOf
<1>4. \A a \in Page : c[a] = IF \E q \in TableOf(a) : pt[p][q].present
                             THEN Protected(pt[p][a]) ELSE pt[p][a]
  BY DEF copy_page_table
<1>5. c \in [Page -> EntryType]
  BY <1>1, <1>2 DEF copy_page_table
<1>6. \A a \in Page :
          /\ c[a].frame = pt[p][a].frame
          /\ c[a].present <=> pt[p][a].present
          /\ c[a].present => ~ c[a].writable
  BY <1>1, <1>2, <1>3, <1>4
<1> QED BY <1>5, <1>6

LEMMA ForkKeeps ==
    ASSUME IInv, NEW p \in Proc, NEW q \in Proc, fork(p, q)
    PROVE  IInv' /\ PM!Fork(p, q)
<1>1. PICK c \in [Page -> EntryType] :
          /\ c = copy_page_table(pt[p])
          /\ \A a \in Page :
                /\ c[a].frame = pt[p][a].frame
                /\ c[a].present <=> pt[p][a].present
                /\ c[a].present => ~ c[a].writable
  BY CopyFacts
<1>2. /\ FramesOK /\ pt \in [Proc -> [Page -> EntryType]] /\ AreasOK /\ ProcsOK
  BY TypeOKParts DEF IInv
<1>3. /\ Runs(p) /\ status[q] = "unborn" /\ p # q
      /\ UNCHANGED <<frames, vma, used, kernel>>
  BY DEF fork, Runs
<1>4. /\ pt'[p] = c /\ pt'[q] = c
      /\ \A r \in Proc \ {p, q} : pt'[r] = pt[r]
  BY <1>2, <1>3, <1>1 DEF fork
<1>5. TypeOK'
  <2>1. FramesOK'
    BY <1>2, <1>3 DEF FramesOK, Contents
  <2>2. (pt \in [Proc -> [Page -> EntryType]])'
    BY <1>2, <1>3, <1>1 DEF fork, EntryType
  <2>3. AreasOK'
    BY <1>2 DEF fork, AreasOK, AreaType
  <2>4. ProcsOK'
    BY <1>2 DEF fork, ProcsOK
  <2> QED BY <2>1, <2>2, <2>3, <2>4, TypeOKParts
<1>6. PresentIsBacked'
  <2> SUFFICES ASSUME NEW r \in Proc, NEW a \in Page, pt'[r][a].present
               PROVE  pt'[r][a].frame \in DOMAIN frames
    BY <1>3 DEF IInv, PresentIsBacked
  <2>1. CASE r \in {p, q}
    BY <1>4, <1>1, <2>1 DEF IInv, PresentIsBacked
  <2>2. CASE r \notin {p, q}
    BY <1>4, <2>2 DEF IInv, PresentIsBacked
  <2> QED BY <2>1, <2>2
<1>7. SharedIsReadOnly'
  <2> SUFFICES ASSUME NEW r \in Proc, NEW a \in Page, NEW u \in Proc, NEW b \in Page,
                      pt'[r][a].present, pt'[r][a].writable, pt'[u][b].present,
                      pt'[u][b].frame = pt'[r][a].frame
               PROVE  u = r /\ b = a
    BY DEF SharedIsReadOnly
  <2>1. r \notin {p, q} /\ pt'[r] = pt[r]
    BY <1>4, <1>1
  <2>2. CASE u \in {p, q}
    <3>1. pt[p][b].present /\ pt[p][b].frame = pt[r][a].frame
      BY <1>4, <1>1, <2>1, <2>2
    <3> QED BY <2>1, <3>1 DEF IInv, SharedIsReadOnly
  <2>3. CASE u \notin {p, q}
    BY <1>4, <2>1, <2>3 DEF IInv, SharedIsReadOnly
  <2> QED BY <2>2, <2>3
<1>8. Memory' = [Memory EXCEPT ![q] = Memory[p]]
  <2>1. Memory'[q] = Memory[p] /\ Memory'[p] = Memory[p]
    BY <1>3, <1>4, <1>1 DEF Memory
  <2>2. \A r \in Proc \ {p, q} : Memory'[r] = Memory[r]
    BY <1>3, <1>4 DEF Memory
  <2>3. Memory' = [r \in Proc |-> IF r = q THEN Memory[p] ELSE Memory[r]]
    BY <2>1, <2>2 DEF Memory
  <2> QED BY Zenon, <2>3, MemoryType
<1> QED BY <1>3, <1>5, <1>6, <1>7, <1>8 DEF fork, IInv, PM!Fork, Runs

-----------------------------------------------------------------------------
LEMMA NodeFacts ==
    ASSUME NEW S
    PROVE  /\ Node \ S \in SUBSET (0..MaxNodes) /\ MaxNodes \in Nat
           /\ IsFiniteSet(Node \ S) /\ Cardinality(Node \ S) \in Nat
           /\ Cardinality(Node \ S) > 0 => Node \ S # {}
<1>1. MaxNodes \in Nat
  BY AddressSpacesAssumption
<1>2. IsFiniteSet(Node)
  BY <1>1, FS_Interval DEF Node
<1>3. IsFiniteSet(Node \ S)
  BY Zenon, <1>2, FS_Difference
<1>4. Cardinality(Node \ S) \in Nat
  BY <1>3, FS_CardinalityType
<1>5. Cardinality(Node \ S) > 0 => Node \ S # {}
  BY FS_EmptySet
<1> QED BY <1>1, <1>3, <1>4, <1>5 DEF Node

(* mmap: a free node is taken and the list stays a list of nodes. *)
AreaList(s) ==
    /\ s.vma \in [Node -> AreaType] /\ s.used \subseteq Node
    /\ s.first \in {Null} \cup Node /\ s.last \in {Null} \cup Node

LEMMA InsertFacts ==
    ASSUME NEW s, AreaList(s), NEW pg \in Int, Node \ s.used # {}
    PROVE  /\ AreaList(insert_vma(s, pg)) /\ insert_vma(s, pg).last \in Node
           /\ Cardinality(Node \ insert_vma(s, pg).used) = Cardinality(Node \ s.used) - 1
<1> DEFINE n == Min(Node \ s.used)
           new == [s.vma EXCEPT ![n] = [start |-> pg, next |-> Null]]
           linked == IF s.first = Null THEN new ELSE [new EXCEPT ![s.last].next = n]
           r == insert_vma(s, pg)
<1>1. n \in Node \ s.used
  BY Zenon, NodeFacts, MinIn
<1>2. /\ r.vma = linked /\ r.used = s.used \cup {n} /\ r.last = n
      /\ r.first = IF s.first = Null THEN n ELSE s.first
  BY DEF insert_vma
<1> HIDE DEF n, r
<1>3. new \in [Node -> AreaType]
  BY <1>1 DEF AreaList, AreaType
<1>4. linked \in [Node -> AreaType]
  <2> HIDE DEF new
  <2>1. \A e \in AreaType : [e EXCEPT !.next = n] \in AreaType
    BY <1>1 DEF AreaType
  <2>2. [new EXCEPT ![s.last].next = n]
          = [x \in Node |-> IF x = s.last THEN [new[x] EXCEPT !.next = n] ELSE new[x]]
    BY Zenon, <1>3
  <2> QED BY Zenon, <1>3, <2>1, <2>2
<1> HIDE DEF linked
<1>5. AreaList(r)
  BY <1>1, <1>2, <1>4 DEF AreaList
<1>6. IsFiniteSet(Node \ s.used)
  BY NodeFacts
<1>7. Node \ r.used = (Node \ s.used) \ {n}
  BY <1>2
<1>8. Cardinality(Node \ r.used) = Cardinality(Node \ s.used) - 1
  BY Zenon, <1>1, <1>6, <1>7, FS_RemoveElement
<1>9. r.last \in Node
  BY <1>1, <1>2
<1> QED BY Zenon, <1>5, <1>8, <1>9 DEF r

LEMMA ProgramFacts ==
    ASSUME NEW s, AreaList(s), Cardinality(Node \ s.used) >= 3
    PROVE  AreaList(Program(s)) /\ Program(s).last \in Node
<1> DEFINE s1 == insert_vma(s, CodePage)
           s2 == insert_vma(s1, StackPage)
<1>1. CodePage \in Int /\ StackPage \in Int /\ HeapPage \in Int
  BY AddressSpacesAssumption DEF Area, Page
<1>2. Cardinality(Node \ s.used) \in Nat
  BY Zenon, NodeFacts
<1>3. AreaList(s1) /\ Cardinality(Node \ s1.used) = Cardinality(Node \ s.used) - 1
  <2>1. Node \ s.used # {}
    BY <1>2, NodeFacts
  <2> QED BY <1>1, <2>1, InsertFacts
<1> HIDE DEF s1
<1>4. AreaList(s2) /\ Cardinality(Node \ s2.used) = Cardinality(Node \ s1.used) - 1
  <2>1. Node \ s1.used # {}
    <3>1. Cardinality(Node \ s1.used) > 0
      BY <1>2, <1>3
    <3> QED BY <3>1, NodeFacts
  <2> QED BY <1>1, <1>3, <2>1, InsertFacts
<1> HIDE DEF s2
<1>5. AreaList(insert_vma(s2, HeapPage)) /\ insert_vma(s2, HeapPage).last \in Node
  <2>1. Node \ s2.used # {}
    <3>1. Cardinality(Node \ s2.used) > 0
      BY <1>2, <1>3, <1>4
    <3> QED BY <3>1, NodeFacts
  <2> QED BY Zenon, <1>1, <1>4, <2>1, InsertFacts
<1> QED BY <1>5 DEF Program, s1, s2

(* A program that starts has three frames of its own, and what it sees of  *)
(* them is its image.                                                      *)
LEMMA ProgramFramesFacts ==
    ASSUME NEW f, NEW n \in Nat, DOMAIN f = 0..n - 1, \A x \in DOMAIN f : f[x] \in Contents
    PROVE  /\ DOMAIN ProgramFrames(f, n) = 0..n + 2
           /\ \A x \in DOMAIN ProgramFrames(f, n) : ProgramFrames(f, n)[x] \in Contents
           /\ \A x \in DOMAIN f : ProgramFrames(f, n)[x] = f[x]
           /\ ProgramFrames(f, n)[n] = "image"
           /\ ProgramFrames(f, n)[n + 1] = "zero" /\ ProgramFrames(f, n)[n + 2] = "zero"
  BY DEF ProgramFrames, Filled, Contents

LEMMA ProgramTableFacts ==
    ASSUME NEW n \in Nat
    PROVE  /\ \A a \in Page : a \notin Area => ProgramTable(n)[a] = NoEntry
           /\ ProgramTable(n)[CodePage] = set_page_entry(NoEntry, n)
           /\ ProgramTable(n)[StackPage] = set_page_entry(NoEntry, n + 1)
           /\ ProgramTable(n)[HeapPage] = set_page_entry(NoEntry, n + 2)
  BY AddressSpacesAssumption DEF ProgramTable, Area

LEMMA ProgramSees ==
    ASSUME NEW f, NEW n \in Nat, DOMAIN f = 0..n - 1, \A x \in DOMAIN f : f[x] \in Contents,
           NEW t, t = ProgramTable(n)
    PROVE  /\ t \in [Page -> [frame : {-1} \cup 0..n + 2, present : BOOLEAN,
                              writable : BOOLEAN, cow : BOOLEAN]]
           /\ \A a \in Page :
                /\ t[a].present => t[a].frame \in n..n + 2
                /\ (IF t[a].present THEN ProgramFrames(f, n)[t[a].frame] ELSE "none") = Image[a]
           /\ \A a, b \in Page :
                t[a].present /\ t[b].present /\ t[a].frame = t[b].frame => a = b
<1>1. /\ \A a \in Page : a \notin Area => t[a] = NoEntry
      /\ t[CodePage] = set_page_entry(NoEntry, n)
      /\ t[StackPage] = set_page_entry(NoEntry, n + 1)
      /\ t[HeapPage] = set_page_entry(NoEntry, n + 2)
  BY Zenon, ProgramTableFacts
<1>2. /\ \A a \in Page : a \notin Area => ~ t[a].present
      /\ t[CodePage].present /\ t[StackPage].present /\ t[HeapPage].present
      /\ t[CodePage].frame = n /\ t[StackPage].frame = n + 1 /\ t[HeapPage].frame = n + 2
  BY <1>1 DEF set_page_entry, NoEntry
<1>3. Area \subseteq Page /\ CodePage # StackPage /\ StackPage # HeapPage /\ HeapPage # CodePage
  BY AddressSpacesAssumption
<1>4. t \in [Page -> [frame : {-1} \cup 0..n + 2, present : BOOLEAN,
                     writable : BOOLEAN, cow : BOOLEAN]]
  <2>1. \A k \in 0..n + 2 : set_page_entry(NoEntry, k) \in
            [frame : {-1} \cup 0..n + 2, present : BOOLEAN, writable : BOOLEAN, cow : BOOLEAN]
    BY Zenon DEF set_page_entry, NoEntry
  <2>2. NoEntry \in [frame : {-1} \cup 0..n + 2, present : BOOLEAN, writable : BOOLEAN,
                     cow : BOOLEAN]
    BY DEF NoEntry
  <2>3. n \in 0..n + 2 /\ n + 1 \in 0..n + 2 /\ n + 2 \in 0..n + 2
    OBVIOUS
  <2>4. \A a \in Page : t[a] \in [frame : {-1} \cup 0..n + 2, present : BOOLEAN,
                                  writable : BOOLEAN, cow : BOOLEAN]
    BY <1>1, <2>1, <2>2, <2>3 DEF Area
  <2>5. t = [a \in Page |-> t[a]]
    BY DEF ProgramTable
  <2> QED BY <2>4, <2>5
<1>5. /\ \A a \in Page : a \notin Area => Image[a] = "none"
      /\ Image[CodePage] = "image" /\ Image[StackPage] = "zero" /\ Image[HeapPage] = "zero"
  BY <1>3 DEF Image, Area
<1>6. /\ ProgramFrames(f, n)[n] = "image"
      /\ ProgramFrames(f, n)[n + 1] = "zero" /\ ProgramFrames(f, n)[n + 2] = "zero"
  BY ProgramFramesFacts
<1>7. ASSUME NEW a \in Page
      PROVE  /\ t[a].present => t[a].frame \in n..n + 2
             /\ (IF t[a].present THEN ProgramFrames(f, n)[t[a].frame] ELSE "none") = Image[a]
  <2>1. CASE a \notin Area
    BY <1>2, <1>5, <2>1
  <2>2. CASE a \in Area
    BY <1>2, <1>5, <1>6, <2>2 DEF Area
  <2> QED BY <2>1, <2>2
<1>8. \A a, b \in Page : t[a].present /\ t[b].present /\ t[a].frame = t[b].frame => a = b
  BY <1>2 DEF Area
<1> QED BY <1>4, <1>7, <1>8

LEMMA InitEstablishes == Init => IInv /\ HasAreas /\ PM!Init
<1> SUFFICES ASSUME Init PROVE IInv /\ HasAreas /\ PM!Init
  OBVIOUS
<1>1. PICK n \in Nat : n = 0
  OBVIOUS
<1> DEFINE t == ProgramTable(n)
<1>2. frames = ProgramFrames(NoFrames, n)
  BY <1>1 DEF Init
<1>3. DOMAIN NoFrames = 0..n - 1 /\ \A x \in DOMAIN NoFrames : NoFrames[x] \in Contents
  BY <1>1 DEF NoFrames
<1>4. DOMAIN frames = 0..n + 2 /\ \A x \in DOMAIN frames : frames[x] \in Contents
  BY <1>2, <1>3, ProgramFramesFacts
<1>5. /\ t \in [Page -> [frame : {-1} \cup 0..n + 2, present : BOOLEAN,
                         writable : BOOLEAN, cow : BOOLEAN]]
      /\ \A a \in Page :
            /\ t[a].present => t[a].frame \in n..n + 2
            /\ (IF t[a].present THEN frames[t[a].frame] ELSE "none") = Image[a]
      /\ \A a, b \in Page :
            t[a].present /\ t[b].present /\ t[a].frame = t[b].frame => a = b
  BY <1>2, <1>3, ProgramSees
<1>6. pt = [p \in Proc |-> IF p = First THEN t ELSE [pg \in Page |-> NoEntry]]
  BY <1>1 DEF Init
<1> HIDE DEF t
<1>7. /\ pt \in [Proc -> [Page -> EntryType]] /\ pt[First] = t
      /\ \A p \in Proc, a \in Page : p # First => ~ pt[p][a].present
  BY <1>4, <1>5, <1>6, AddressSpacesAssumption DEF EntryType, NoEntry
<1>8. FramesOK /\ IsFiniteSet(DOMAIN frames)
  <2>1. IsFiniteSet(0..n + 2) /\ Cardinality(0..n + 2) = n + 3
    BY FS_Interval
  <2> QED BY <1>4, <2>1 DEF FramesOK
<1>9. AreasOK /\ HasAreas
  <2> DEFINE s == [vma |-> [x \in Node |-> Zeroed], used |-> {}, first |-> Null, last |-> Null]
  <2>1. AreaList(s)
    BY DEF AreaList, AreaType, Zeroed
  <2>2. Cardinality(Node \ s.used) >= 3
    <3>1. MaxNodes \in Nat /\ MaxNodes >= 3 /\ Node \ s.used = 1..MaxNodes
      BY AddressSpacesAssumption DEF Node
    <3>2. Cardinality(1..MaxNodes) = MaxNodes
      BY <3>1, FS_Interval
    <3> QED BY Zenon, <3>1, <3>2
  <2>3. AreaList(Boot) /\ Boot.last \in Node
    <3> HIDE DEF s
    <3> QED BY <2>1, <2>2, ProgramFacts DEF Boot, s
  <2> QED BY <2>3 DEF Init, AreaList, AreasOK, HasAreas
<1>10. ProcsOK
  BY DEF Init, ProcsOK
<1>11. PresentIsBacked /\ SharedIsReadOnly
  BY <1>4, <1>5, <1>7, <1>8 DEF PresentIsBacked, SharedIsReadOnly
<1>12. Memory = [p \in Proc |-> IF p = First THEN Image ELSE PM!Nothing]
  <2>1. \A a \in Page : Memory[First][a] = Image[a]
    BY <1>5, <1>7, AddressSpacesAssumption DEF Memory
  <2>2. Memory[First] = Image
    BY <2>1, AddressSpacesAssumption DEF Memory, Image
  <2>3. \A p \in Proc : p # First => Memory[p] = PM!Nothing
    BY <1>7 DEF Memory, PM!Nothing
  <2> QED BY <2>2, <2>3 DEF Memory
<1>13. PM!Init
  BY <1>12 DEF Init, PM!Init
<1> QED BY <1>7, <1>8, <1>9, <1>10, <1>11, <1>13, TypeOKParts DEF IInv

(* exec replaces the memory of one process by an image in new frames. *)
LEMMA ExecKeeps ==
    ASSUME IInv, HasAreas, NEW p \in Proc, execve(p)
    PROVE  IInv' /\ HasAreas' /\ PM!Exec(p)
<1> DEFINE n == NextFrame
           t == ProgramTable(n)
<1>1. FramesOK /\ pt \in [Proc -> [Page -> EntryType]] /\ AreasOK /\ ProcsOK
  BY TypeOKParts DEF IInv
<1>2. /\ n \in Nat /\ DOMAIN frames = 0..n - 1 /\ n \notin DOMAIN frames
      /\ \A x \in DOMAIN frames : frames[x] \in Contents
  BY <1>1, NextIsFresh DEF FramesOK
<1>3. /\ frames' = ProgramFrames(frames, n) /\ UNCHANGED <<status, kernel>>
      /\ pt' = [pt EXCEPT ![p] = t] /\ no_stack_pages' = [no_stack_pages EXCEPT ![p] = 1]
      /\ Runs(p)
  BY DEF execve
<1> HIDE DEF n
<1>4. /\ DOMAIN frames' = 0..n + 2 /\ \A x \in DOMAIN frames' : frames'[x] \in Contents
      /\ \A x \in DOMAIN frames : frames'[x] = frames[x]
  BY <1>2, <1>3, ProgramFramesFacts
<1>5. /\ t \in [Page -> [frame : {-1} \cup 0..n + 2, present : BOOLEAN,
                         writable : BOOLEAN, cow : BOOLEAN]]
      /\ \A a \in Page :
            /\ t[a].present => t[a].frame \in n..n + 2
            /\ (IF t[a].present THEN frames'[t[a].frame] ELSE "none") = Image[a]
      /\ \A a, b \in Page :
            t[a].present /\ t[b].present /\ t[a].frame = t[b].frame => a = b
  BY <1>2, <1>3, ProgramSees
<1> HIDE DEF t
<1>6. pt'[p] = t /\ \A q \in Proc : q # p => pt'[q] = pt[q]
  BY <1>1, <1>3
<1>7. \A q \in Proc, a \in Page : pt[q][a].present => pt[q][a].frame \in 0..n - 1
  BY <1>2 DEF IInv, PresentIsBacked
<1>8. TypeOK' /\ HasAreas' /\ IsFiniteSet(DOMAIN frames')
  <2>1. FramesOK' /\ IsFiniteSet(DOMAIN frames')
    <3>1. n + 3 \in Nat /\ DOMAIN frames' = 0..(n + 3) - 1
      BY <1>2, <1>4
    <3> QED BY <1>4, <3>1, FramesGrow
  <2>2. (pt \in [Proc -> [Page -> EntryType]])'
    <3>1. EntryType \subseteq EntryType'
      BY <1>2, <1>4 DEF EntryType
    <3>2. t \in [Page -> EntryType']
      BY <1>4, <1>5 DEF EntryType
    <3> QED BY <1>1, <1>3, <3>1, <3>2
  <2>3. AreasOK' /\ HasAreas'
    <3> DEFINE s == [vma   |-> [x \in Node |-> IF x \in Listed(p) THEN Zeroed ELSE vma[x]],
                     used  |-> used \ Listed(p), first |-> Null, last |-> Null]
    <3>1. AreaList(s)
      BY <1>1 DEF AreasOK, AreaList, AreaType, Zeroed
    <3>2. Cardinality(Node \ s.used) >= 3
      BY DEF execve
    <3>3. AreaList(Program(s)) /\ Program(s).last \in Node
      <4> HIDE DEF s
      <4> QED BY <3>1, <3>2, ProgramFacts
    <3>4. /\ vma' = Program(s).vma /\ used' = Program(s).used
          /\ mmap' = [mmap EXCEPT ![p] = Program(s).first]
          /\ mmap_cache' = [mmap_cache EXCEPT ![p] = Program(s).last]
      BY DEF execve
    <3> HIDE DEF s
    <3> QED BY <1>1, <1>3, <3>3, <3>4 DEF AreasOK, AreaList, AreaType, HasAreas
  <2>4. ProcsOK'
    BY <1>1, <1>3 DEF ProcsOK
  <2> QED BY <2>1, <2>2, <2>3, <2>4, TypeOKParts
<1>9. PresentIsBacked'
  <2> SUFFICES ASSUME NEW q \in Proc, NEW a \in Page, pt'[q][a].present
               PROVE  pt'[q][a].frame \in 0..n + 2
    BY <1>4, <1>8 DEF PresentIsBacked
  <2>1. CASE q = p
    BY <1>2, <1>5, <1>6, <2>1
  <2>2. CASE q # p
    <3>1. pt[q][a].frame \in 0..n - 1
      BY <1>6, <1>7, <2>2
    <3> QED BY <1>2, <1>6, <2>2, <3>1
  <2> QED BY <2>1, <2>2
<1>10. SharedIsReadOnly'
  <2> SUFFICES ASSUME NEW r \in Proc, NEW a \in Page, NEW u \in Proc, NEW b \in Page,
                      pt'[r][a].present, pt'[r][a].writable, pt'[u][b].present,
                      pt'[u][b].frame = pt'[r][a].frame
               PROVE  u = r /\ b = a
    BY DEF SharedIsReadOnly
  <2>1. CASE r = p /\ u = p
    BY <1>5, <1>6, <2>1
  <2>2. CASE r = p /\ u # p
    <3>1. pt[u][b].frame \in 0..n - 1 /\ t[a].frame \in n..n + 2
      BY <1>5, <1>6, <1>7, <2>2
    <3> QED BY <1>2, <1>6, <2>2, <3>1
  <2>3. CASE r # p /\ u = p
    <3>1. pt[r][a].frame \in 0..n - 1 /\ t[b].frame \in n..n + 2
      BY <1>5, <1>6, <1>7, <2>3
    <3> QED BY <1>2, <1>6, <2>3, <3>1
  <2>4. CASE r # p /\ u # p
    BY <1>6, <2>4 DEF IInv, SharedIsReadOnly
  <2> QED BY <2>1, <2>2, <2>3, <2>4
<1>11. Memory' = [Memory EXCEPT ![p] = Image]
  <2>1. \A a \in Page : Memory'[p][a] = Image[a]
    BY <1>5, <1>6 DEF Memory
  <2>2. Memory'[p] = Image
    BY <2>1 DEF Memory, Image
  <2>3. \A q \in Proc, a \in Page : q # p => Memory'[q][a] = Memory[q][a]
    BY <1>2, <1>4, <1>6, <1>7 DEF Memory
  <2>4. \A q \in Proc : q # p => Memory'[q] = Memory[q]
    BY <2>3 DEF Memory
  <2>5. Memory' = [q \in Proc |-> IF q = p THEN Image ELSE Memory[q]]
    BY <2>2, <2>4 DEF Memory
  <2> QED BY Zenon, <2>5, MemoryType
<1> QED BY <1>3, <1>8, <1>9, <1>10, <1>11 DEF IInv, PM!Exec, Runs

-----------------------------------------------------------------------------
(* The page fault handler. *)
PMvars == <<Memory, status, no_stack_pages>>

(* Steps that leave tables, frames and areas alone *)
LEMMA OthersKeep ==
    ASSUME IInv, UNCHANGED <<pt, frames, vma, used, mmap, mmap_cache>>, ProcsOK'
    PROVE  IInv' /\ Memory' = Memory
<1>1. TypeOK'
  BY TypeOKParts DEF IInv, FramesOK, AreasOK, EntryType, AreaType, Contents
<1>2. PresentIsBacked' /\ SharedIsReadOnly'
  BY DEF IInv, PresentIsBacked, SharedIsReadOnly
<1>3. Memory' = Memory
  BY DEF Memory
<1> QED BY <1>1, <1>2, <1>3 DEF IInv

LEMMA KillKeeps ==
    ASSUME IInv, NEW p \in Proc, Runs(p), Kill(p)
    PROVE  IInv' /\ PM!Stop(p)
<1>1. /\ status' = [status EXCEPT ![p] = "dead"]
      /\ UNCHANGED <<pt, frames, vma, used, mmap, mmap_cache, no_stack_pages, kernel>>
  BY DEF Kill, areas
<1>2. ProcsOK'
  BY <1>1, TypeOKParts DEF IInv, ProcsOK
<1> QED BY <1>1, <1>2, OthersKeep DEF PM!Stop, Runs

LEMMA GrowKeeps ==
    ASSUME IInv, HasAreas, NEW p \in Proc, Runs(p), grow_stack(p)
    PROVE  IInv' /\ HasAreas' /\ PM!Map(p)
<1> DEFINE pg == vma[mmap_cache[p]].start - 1
           l == [vma |-> vma, used |-> used, first |-> mmap[p], last |-> mmap_cache[p]]
           s == insert_vma(l, pg)
<1>1. AreasOK /\ ProcsOK
  BY TypeOKParts DEF IInv
<1>2. no_stack_pages' = [no_stack_pages EXCEPT ![p] = no_stack_pages[p] + 1]
  BY DEF grow_stack
<1>3. /\ NodesLeft(1)
      /\ pt' = IF pg \in Page THEN [pt EXCEPT ![p][pg] = set_page_entry(pt[p][pg], NextFrame)]
               ELSE pt
      /\ frames' = Filled(frames, NextFrame, "zero")
      /\ vma' = s.vma /\ used' = s.used
      /\ mmap' = [mmap EXCEPT ![p] = s.first]
      /\ mmap_cache' = [mmap_cache EXCEPT ![p] = s.last]
      /\ UNCHANGED <<status, kernel>>
  BY DEF grow_stack
<1>4. AreaList(s) /\ s.last \in Node
  <2>1. AreaList(l)
    BY <1>1 DEF AreasOK, AreaList
  <2>2. Node \ l.used # {}
    <3>1. Cardinality(Node \ used) \in Nat /\ Cardinality(Node \ used) >= 1
      BY Zenon, <1>3, NodeFacts DEF NodesLeft
    <3> QED BY <3>1, NodeFacts
  <2>3. pg \in Int
    BY <1>1 DEF AreasOK, AreaType, HasAreas, Runs
  <2> HIDE DEF l, pg
  <2> QED BY Zenon, <2>1, <2>2, <2>3, InsertFacts
<1> HIDE DEF s, pg
<1>5. AreasOK' /\ ProcsOK' /\ HasAreas'
  <2>1. AreasOK' /\ HasAreas'
    BY <1>1, <1>3, <1>4 DEF AreasOK, AreaList, AreaType, HasAreas
  <2> QED BY <1>1, <1>2, <1>3, <2>1 DEF ProcsOK
<1>6. "zero" \in Contents
  BY DEF Contents
<1>7. CASE pg \notin Page
  <2>1. /\ FramesOK' /\ (pt \in [Proc -> [Page -> EntryType]])'
        /\ PresentIsBacked' /\ SharedIsReadOnly' /\ Memory' = Memory
    BY <1>3, <1>6, <1>7, UnseenFrameKeeps
  <2>2. IInv'
    BY <1>5, <2>1, TypeOKParts DEF IInv
  <2> QED BY Zenon, <1>2, <1>3, <1>5, <2>1, <2>2 DEF PM!Map, Runs
<1>8. CASE pg \in Page
  <2>1. MapsFresh(p, pg, "zero")
    BY <1>3, <1>8 DEF MapsFresh
  <2>2. /\ FramesOK' /\ (pt \in [Proc -> [Page -> EntryType]])'
        /\ PresentIsBacked' /\ SharedIsReadOnly'
        /\ Memory' = [Memory EXCEPT ![p][pg] = "zero"]
    BY <1>6, <1>8, <2>1, MapsFreshKeeps
  <2>3. IInv'
    BY <1>5, <2>2, TypeOKParts DEF IInv
  <2> QED BY Zenon, <1>2, <1>3, <1>5, <1>8, <2>2, <2>3 DEF PM!Map, Runs
<1> QED BY <1>7, <1>8

(* Copying a page changes the entry and the frame, and nothing that is seen. *)
LEMMA CopyKeeps ==
    ASSUME IInv, NEW p \in Proc, NEW pg \in Page, copy_on_write(p, pg)
    PROVE  IInv' /\ UNCHANGED PMvars
<1>1. FramesOK /\ AreasOK /\ ProcsOK
  BY TypeOKParts DEF IInv
<1>2. CASE pt[p][pg].present
  <2> DEFINE v == frames[pt[p][pg].frame]
  <2>1. /\ pt' = [pt EXCEPT ![p][pg] = set_page_entry(pt[p][pg], NextFrame)]
        /\ frames' = Filled(frames, NextFrame, v)
        /\ UNCHANGED <<vma, used, mmap, mmap_cache, no_stack_pages, status, kernel>>
    BY <1>2 DEF copy_on_write, areas
  <2>2. MapsFresh(p, pg, v)
    BY <2>1 DEF MapsFresh
  <2>3. v \in Contents /\ v = Memory[p][pg]
    BY <1>1, <1>2 DEF IInv, PresentIsBacked, FramesOK, Memory
  <2> HIDE DEF v
  <2>4. /\ FramesOK' /\ (pt \in [Proc -> [Page -> EntryType]])'
        /\ PresentIsBacked' /\ SharedIsReadOnly'
        /\ Memory' = [Memory EXCEPT ![p][pg] = v]
    BY <2>2, <2>3, MapsFreshKeeps
  <2>5. Memory' = Memory
    BY <2>3, <2>4, MemoryType
  <2>6. AreasOK' /\ ProcsOK'
    BY <1>1, <2>1 DEF AreasOK, ProcsOK, AreaType
  <2> QED BY <2>1, <2>4, <2>5, <2>6, TypeOKParts DEF IInv, PMvars
<1>3. CASE ~ pt[p][pg].present
  <2>1. /\ kernel' = "recursing"
        /\ UNCHANGED <<pt, frames, vma, used, mmap, mmap_cache, no_stack_pages, status>>
    BY <1>3 DEF copy_on_write, areas
  <2>2. ProcsOK'
    BY <1>1, <2>1 DEF ProcsOK
  <2> QED BY <2>1, <2>2, OthersKeep DEF PMvars
<1> QED BY <1>2, <1>3

-----------------------------------------------------------------------------
(* Every step keeps the invariant and is, of the memory the processes see, *)
(* a step of PrivateMemory or none at all.                                 *)
LEMMA StepRefines ==
    ASSUME IInv, HasAreas, [Next]_vars
    PROVE  IInv' /\ HasAreas' /\ [PM!Next]_PMvars
<1>1. CASE UNCHANGED vars
  <2>1. /\ UNCHANGED <<pt, frames, vma, used, mmap, mmap_cache>>
        /\ UNCHANGED <<no_stack_pages, status, kernel>>
    BY <1>1 DEF vars, areas
  <2>2. ProcsOK'
    BY <2>1, TypeOKParts DEF IInv, ProcsOK
  <2> QED BY <2>1, <2>2, OthersKeep DEF PMvars, HasAreas
<1>2. ASSUME NEW p \in Proc, NEW q \in Proc, fork(p, q)
      PROVE  IInv' /\ HasAreas' /\ [PM!Next]_PMvars
  <2>1. /\ Runs(p) /\ mmap_cache' = [mmap_cache EXCEPT ![q] = mmap_cache[p]]
        /\ status' = [status EXCEPT ![q] = "alive"]
    BY <1>2 DEF fork
  <2>2. HasAreas'
    BY <2>1, TypeOKParts DEF IInv, AreasOK, ProcsOK, HasAreas, Runs
  <2> QED BY <1>2, <2>2, ForkKeeps DEF PM!Next
<1>3. ASSUME NEW p \in Proc, execve(p)
      PROVE  IInv' /\ HasAreas' /\ [PM!Next]_PMvars
  BY <1>3, ExecKeeps DEF PM!Next
<1>4. \A t \in Touched : t[1] \in Page
  BY AddressSpacesAssumption
<1>5. ASSUME NEW p \in Proc, NEW t \in Touched, NEW v \in Value, write(p, t[1], v)
      PROVE  IInv' /\ HasAreas' /\ [PM!Next]_PMvars
  <2>1. HasAreas'
    BY <1>5 DEF write, areas, HasAreas
  <2> QED BY <1>4, <1>5, <2>1, WriteKeeps DEF PM!Next
<1>6. ASSUME NEW p \in Proc, NEW t \in Touched, page_fault_handler(p, t[1], t[2])
      PROVE  IInv' /\ HasAreas' /\ [PM!Next]_PMvars
  <2>1. Runs(p) /\ (grow_stack(p) \/ Kill(p) \/ copy_on_write(p, t[1]))
    BY <1>6 DEF page_fault_handler
  <2>2. CASE grow_stack(p)
    BY <2>1, <2>2, GrowKeeps DEF PM!Next
  <2>3. CASE Kill(p)
    <3>1. HasAreas'
      BY <2>3, TypeOKParts DEF IInv, ProcsOK, Kill, areas, HasAreas
    <3> QED BY <2>1, <2>3, <3>1, KillKeeps DEF PM!Next
  <2>4. CASE copy_on_write(p, t[1])
    <3>1. UNCHANGED <<mmap_cache, status>>
      BY <2>4 DEF copy_on_write, areas
    <3> QED BY <1>4, <2>4, <3>1, CopyKeeps DEF HasAreas
  <2> QED BY <2>1, <2>2, <2>3, <2>4
<1> QED BY <1>1, <1>2, <1>3, <1>5, <1>6 DEF Next

(* The inductive invariant: numbering of the frames, a frame behind every  *)
(* page that is present, no sharing of what can be written, and an area    *)
(* below which the stack of a running process grows.                       *)
THEOREM AddressSpacesInvariant == Spec => [](IInv /\ HasAreas)
<1>1. IInv /\ HasAreas /\ [Next]_vars => (IInv /\ HasAreas)'
  BY StepRefines
<1>2. Init => IInv /\ HasAreas
  BY InitEstablishes
<1> QED BY <1>1, <1>2, PTL DEF Spec

(* fork, exec, page faults and writes keep every variable in its type: no  *)
(* entry points to a frame that was not handed out.                        *)
THEOREM AddressSpacesAreTyped == Spec => []TypeOK
<1>1. IInv => TypeOK
  BY DEF IInv
<1> QED BY <1>1, AddressSpacesInvariant, PTL

(* After any number of forks, faults and execs a frame that two page table *)
(* entries map is writable through neither.                                *)
THEOREM SharedFramesAreReadOnly == Spec => []SharedIsReadOnly
<1>1. IInv => SharedIsReadOnly
  BY DEF IInv
<1> QED BY <1>1, AddressSpacesInvariant, PTL

(* Copy on write implements private memories: what processes see of fork,  *)
(* exec, stack growth, faults and writes is what PrivateMemory promises.   *)
THEOREM CopyOnWriteIsInvisible == Spec => MemoryIsPrivate
<1>1. Init => PM!Init
  BY InitEstablishes
<1>2. IInv /\ HasAreas /\ [Next]_vars => [PM!Next]_PMvars
  BY StepRefines
<1> QED BY <1>1, <1>2, AddressSpacesInvariant, PTL DEF Spec, MemoryIsPrivate, PM!Spec, PMvars
=============================================================================

----------------------------- MODULE DiskFsProofs -----------------------------
(***************************************************************************)
(* Proofs about the disk file system, for any number of inodes, blocks and *)
(* names: files never share a block, in memory and in what ls will load;   *)
(* and after every write to a file that fits the one sector of inodes that *)
(* rsync reads back, the metadata is on the disk and so is what was        *)
(* written.                                                                *)
(***************************************************************************)
EXTENDS DiskFs, FiniteSetTheorems, WellFoundedInduction, TLAPS

InodeType == [name : Names \cup Dirs \cup {NoName}, position : Nat, size : Nat,
              start_block : 0..NBlocks - 1, usage : BOOLEAN, type : {TYPE_FILE, TYPE_DIR}]
File(list, i) == list[i].usage /\ list[i].type = TYPE_FILE
FirstSector == 0..PerSector - 1           \* the inodes that rsync reads back
Kept(list) == [i \in Inode |-> IF i < PerSector THEN list[i] ELSE Blank]

(* A list of inodes and a map that fit each other *)
Consistent(list, m) ==
    /\ list \in [Inode -> InodeType]
    /\ m \subseteq 0..NBlocks - 1 /\ Reserved \subseteq m
    /\ \A i \in Inode : ~ list[i].usage => list[i].name = NoName /\ list[i].type = TYPE_DIR
    /\ \A i \in Inode : File(list, i) => list[i].name # NoName
    /\ \A i \in Inode : File(list, i) => list[i].start_block \in m \ Reserved
    /\ \A i, j \in Inode :
          File(list, i) /\ File(list, j) /\ list[i].start_block = list[j].start_block => i = j

Same(x, y) == [x EXCEPT !.position = 0] = [y EXCEPT !.position = 0]
loaded == InodesIn(disk[StartInodes])

(* What ls would load is consistent too, and has every named inode. *)
DiskInv ==
    /\ DOMAIN disk = 0..NBlocks
    /\ disk[0] = Superblock =>
          /\ Consistent(loaded, MapIn(disk[StartBitmap]))
          /\ \A i \in Inode : inode_list[i].name # NoName => Same(loaded[i], inode_list[i])

FilesInv ==
    /\ fds \in [Names -> Inode \cup {-1}]
    /\ \A n \in Names : fds[n] \in FirstSector => File(inode_list, fds[n])

IInv ==
    /\ Consistent(inode_list, map) /\ DiskInv /\ FilesInv
    /\ stopped \in {"no", "trap", "garbage"}

LEMMA Constants ==
    /\ InodeCount \in Nat \ {0} /\ PerSector \in Nat \ {0} /\ UIntModulus \in Nat \ {0}
    /\ PerSector <= InodeCount /\ NBlocks \in Nat /\ NBlocks > 6
    /\ NoName \notin Names /\ NoName \notin Dirs
    /\ \A c \in Texts : c.len \in Nat
    /\ Seeks \subseteq Int /\ Counts \subseteq Int
  BY DiskFsAssumption

LEMMA BlankType == Blank \in InodeType /\ FirstSector \subseteq Inode
  BY Constants DEF Blank, InodeType, FirstSector, Inode, TYPE_DIR

-----------------------------------------------------------------------------
(* The first of a set of numbers, as the searches of fs.c find it *)
LEMMA LeastIn ==
    ASSUME NEW n \in Nat, NEW S \in SUBSET (0..n), S # {}
    PROVE  \E k \in S : \A j \in S : k <= j
<1> DEFINE Below(k) == 0..k - 1
           T == {Below(k) : k \in S}
<1>1. T \subseteq FiniteSubsetsOf(0..n) /\ T # {}
  <2>1. \A k \in S : Below(k) \in SUBSET (0..n)
    OBVIOUS
  <2>2. \A k \in S : IsFiniteSet(Below(k))
    BY FS_Interval
  <2> QED BY Zenon, <2>1, <2>2 DEF FiniteSubsetsOf
<1>2. PICK x \in T : \A y \in T : ~ (<<y, x>> \in StrictSubsetOrdering(0..n))
  <2> HIDE DEF T
  <2> QED BY <1>1, FS_StrictSubsetOrderingWellFounded, WFMin, Zenon
<1>3. PICK k \in S : x = Below(k)
  OBVIOUS
<1>4. \A j \in S : k <= j
  <2> SUFFICES ASSUME NEW j \in S, j < k PROVE FALSE
    OBVIOUS
  <2>1. Below(j) \subseteq Below(k) /\ j \in Below(k) /\ j \notin Below(j)
    OBVIOUS
  <2>2. Below(j) \in SUBSET (0..n) /\ Below(k) \in SUBSET (0..n)
    OBVIOUS
  <2>3. <<Below(j), Below(k)>> \in StrictSubsetOrdering(0..n)
    <3> HIDE DEF Below
    <3> QED BY <2>1, <2>2 DEF StrictSubsetOrdering
  <2> QED BY Zenon, <1>2, <1>3, <2>3
<1> QED BY <1>4

LEMMA FirstFacts ==
    ASSUME NEW n \in Nat, NEW S \in SUBSET (0..n)
    PROVE  First(S) # -1 => First(S) \in S
<1>1. CASE S = {}
  BY <1>1 DEF First
<1>2. CASE S # {}
  <2>1. PICK k \in S : \A j \in S : k <= j
    BY Zenon, <1>2, LeastIn
  <2>2. First(S) = CHOOSE x \in S : \A y \in S : x <= y
    BY <1>2 DEF First
  <2> QED BY <2>1, <2>2
<1> QED BY <1>1, <1>2

LEMMA FreeInode ==
    get_free_inode # -1 => get_free_inode \in Inode /\ ~ inode_list[get_free_inode].usage
<1> DEFINE S == {i \in Inode : ~ inode_list[i].usage}
<1>1. InodeCount - 1 \in Nat /\ S \in SUBSET (0..InodeCount - 1)
  BY Constants DEF Inode
<1>2. First(S) # -1 => First(S) \in S
  <2> HIDE DEF S
  <2>1. PICK n \in Nat : n = InodeCount - 1
    BY <1>1
  <2> QED BY Zenon, <1>1, <2>1, FirstFacts
<1>3. get_free_inode = First(S)
  BY DEF get_free_inode
<1> QED BY <1>2, <1>3

LEMMA FreeBlock ==
    file_mmgr_alloc_block # -1 =>
        file_mmgr_alloc_block \in 0..NBlocks - 1 /\ file_mmgr_alloc_block \notin map
<1> DEFINE S == (0..NBlocks - 1) \ map
<1>1. NBlocks - 1 \in Nat /\ S \in SUBSET (0..NBlocks - 1)
  BY Constants
<1>2. First(S) # -1 => First(S) \in S
  <2> HIDE DEF S
  <2>1. PICK n \in Nat : n = NBlocks - 1
    BY <1>1
  <2> QED BY Zenon, <1>1, <2>1, FirstFacts
<1>3. file_mmgr_alloc_block # -1 => file_mmgr_alloc_block = First(S)
  BY DEF file_mmgr_alloc_block, file_mmgr_get_first_free
<1> QED BY <1>2, <1>3

-----------------------------------------------------------------------------
(* rsync *)
LEMMA PartFacts ==
    ASSUME NEW list
    PROVE  InodesIn(InodePart(list, 0)) = Kept(list)
<1>1. \A i \in Inode : i < PerSector =>
          /\ i \in 0..PerSector - 1 /\ 0 * PerSector + i = i
  BY Constants DEF Inode
<1>2. /\ InodePart(list, 0).kind = "inodes"
      /\ InodePart(list, 0).val = [j \in 0..PerSector - 1 |->
            IF 0 * PerSector + j \in Inode THEN list[0 * PerSector + j] ELSE Blank]
  BY DEF InodePart, Sector
<1>3. \A i \in Inode : i < PerSector => InodePart(list, 0).val[i] = list[i]
  BY Zenon, <1>1, <1>2
<1> QED BY <1>2, <1>3 DEF InodesIn, Kept

LEMMA KeptFacts ==
    ASSUME NEW list \in [Inode -> InodeType]
    PROVE  /\ Kept(list) \in [Inode -> InodeType]
           /\ \A j \in FirstSector : j \in Inode /\ Kept(list)[j] = list[j]
           /\ \A j \in Inode \ FirstSector : Kept(list)[j] = Blank
  BY BlankType, Constants DEF Kept, FirstSector, Inode

LEMMA KeptConsistent ==
    ASSUME NEW list, NEW m, Consistent(list, m)
    PROVE  Consistent(Kept(list), m)
<1>1. Kept(list) \in [Inode -> InodeType]
  BY BlankType DEF Kept, Consistent
<1>2. \A i \in Inode : Kept(list)[i] = IF i < PerSector THEN list[i] ELSE Blank
  BY DEF Kept
<1>3. /\ ~ Blank.usage /\ Blank.name = NoName /\ Blank.type = TYPE_DIR
  BY DEF Blank
<1>4. \A i \in Inode : File(Kept(list), i) => File(list, i) /\ Kept(list)[i] = list[i]
  BY <1>2, <1>3 DEF File
<1>5. \A i \in Inode : ~ Kept(list)[i].usage =>
          Kept(list)[i].name = NoName /\ Kept(list)[i].type = TYPE_DIR
  BY <1>2, <1>3 DEF Consistent
<1> QED BY <1>1, <1>4, <1>5 DEF Consistent

LEMMA SyncFacts ==
    ASSUME NEW d, DOMAIN d = 0..NBlocks, NEW b, NEW list, NEW m
    PROVE  LET r == rsync(d, b, list, m)
           IN  /\ DOMAIN r.disk = 0..NBlocks
               /\ r.disk[0] = Superblock /\ r.disk[StartBitmap] = Bitmap(m)
               /\ r.disk[StartInodes] = InodePart(list, 0)
               /\ r.map = m /\ r.inode_list = Kept(list)
               /\ r = [disk |-> r.disk, buffer |-> r.buffer, map |-> m,
                       inode_list |-> Kept(list)]
<1> DEFINE b1 == <<Superblock, b[2]>>
           b2 == <<Bitmap(m), Zeros>>
           b3 == <<InodePart(list, 0), InodePart(list, 1)>>
           d1 == write_interface(d, 0, b1)
           d2 == write_interface(d1, StartBitmap, b2)
           d3 == write_interface(d2, StartInodes, b3)
<1>1. /\ b1[1] = Superblock /\ b2[1] = Bitmap(m) /\ b3[1] = InodePart(list, 0)
  OBVIOUS
<1>2. 0..5 \subseteq 0..NBlocks /\ NBlocks \in Nat
  BY Constants
<1> HIDE DEF b1, b2, b3
<1>3. /\ DOMAIN d1 = 0..NBlocks /\ d1[0] = Superblock
  BY <1>1, <1>2 DEF write_interface
<1> HIDE DEF d1
<1>4. /\ DOMAIN d2 = 0..NBlocks /\ d2[0] = Superblock /\ d2[1] = Bitmap(m)
  BY <1>1, <1>2, <1>3 DEF write_interface, StartBitmap
<1> HIDE DEF d2
<1>5. /\ DOMAIN d3 = 0..NBlocks /\ d3[0] = Superblock /\ d3[1] = Bitmap(m)
      /\ d3[3] = InodePart(list, 0)
  BY <1>1, <1>2, <1>4 DEF write_interface, StartInodes
<1>6. rsync(d, b, list, m) =
          [disk |-> d3, buffer |-> b3, map |-> MapIn(d3[StartBitmap]),
           inode_list |-> InodesIn(d3[StartInodes])]
  BY DEF rsync, b1, b2, b3, d1, d2
<1> HIDE DEF d3
<1>7. MapIn(Bitmap(m)) = m
  BY DEF MapIn, Bitmap, Sector
<1>8. InodesIn(InodePart(list, 0)) = Kept(list)
  BY PartFacts
<1> QED BY <1>5, <1>6, <1>7, <1>8 DEF StartBitmap, StartInodes

LEMMA SyncLeaves ==
    ASSUME DOMAIN disk = 0..NBlocks, NEW list, NEW m, NEW s \in 6..NBlocks
    PROVE  rsync(disk, buffer, list, m).disk[s] = disk[s]
<1> DEFINE b1 == <<Superblock, buffer[2]>>
           b2 == <<Bitmap(m), Zeros>>
           b3 == <<InodePart(list, 0), InodePart(list, 1)>>
           d1 == write_interface(disk, 0, b1)
           d2 == write_interface(d1, StartBitmap, b2)
           d3 == write_interface(d2, StartInodes, b3)
<1>1. rsync(disk, buffer, list, m).disk = d3
  BY DEF rsync
<1>2. 0..5 \subseteq 0..NBlocks /\ s \in 0..NBlocks /\ s \notin 0..5
  BY Constants
<1> HIDE DEF b1, b2, b3
<1>3. DOMAIN d1 = 0..NBlocks /\ d1[s] = disk[s]
  BY <1>2 DEF write_interface
<1> HIDE DEF d1
<1>4. DOMAIN d2 = 0..NBlocks /\ d2[s] = disk[s]
  BY <1>2, <1>3 DEF write_interface, StartBitmap
<1> HIDE DEF d2
<1>5. d3[s] = disk[s]
  BY <1>2, <1>4 DEF write_interface, StartInodes
<1> QED BY <1>1, <1>5

(* After an rsync memory and disk agree. *)
LEMMA AfterSync ==
    ASSUME NEW list, NEW m, Consistent(list, m), DOMAIN disk' = 0..NBlocks,
           disk'[StartBitmap] = Bitmap(m), disk'[StartInodes] = InodePart(list, 0),
           inode_list' = Kept(list), map' = m
    PROVE  Consistent(inode_list, map)' /\ DiskInv'
<1>1. Consistent(Kept(list), m)
  BY KeptConsistent
<1>2. Consistent(inode_list, map)'
  BY <1>1 DEF Consistent, File
<1>3. loaded' = Kept(list)
  BY PartFacts DEF loaded
<1>4. MapIn(disk[StartBitmap])' = m
  BY DEF MapIn, Bitmap, Sector
<1>5. Consistent(loaded, MapIn(disk[StartBitmap]))'
  BY <1>1, <1>3, <1>4 DEF Consistent, File
<1>6. \A i \in Inode : Same(loaded[i], inode_list[i])'
  BY <1>3 DEF Same
<1> QED BY <1>2, <1>5, <1>6 DEF DiskInv

LEMMA SyncKeeps ==
    ASSUME IInv, NEW list, NEW m, Consistent(list, m), Apply(rsync(disk, buffer, list, m))
    PROVE  /\ Consistent(inode_list, map)' /\ DiskInv'
           /\ inode_list' = Kept(list) /\ map' = m /\ disk'[0] = Superblock
           /\ \A s \in 6..NBlocks : disk'[s] = disk[s]
<1> DEFINE r == rsync(disk, buffer, list, m)
<1>1. /\ DOMAIN r.disk = 0..NBlocks
      /\ r.disk[0] = Superblock /\ r.disk[StartBitmap] = Bitmap(m)
      /\ r.disk[StartInodes] = InodePart(list, 0)
      /\ \A s \in 6..NBlocks : r.disk[s] = disk[s]
      /\ r.map = m /\ r.inode_list = Kept(list)
  <2>1. DOMAIN disk = 0..NBlocks
    BY DEF IInv, DiskInv
  <2>2. ASSUME NEW s \in 6..NBlocks PROVE r.disk[s] = disk[s]
    BY <2>1, SyncLeaves
  <2> QED BY <2>1, <2>2, SyncFacts
<1>2. disk' = r.disk /\ map' = r.map /\ inode_list' = r.inode_list
  BY DEF Apply
<1> HIDE DEF r
<1> QED BY <1>1, <1>2, AfterSync

LEMMA InitEstablishes ==
    ASSUME Init
    PROVE  IInv /\ disk[0] = Superblock /\ last = NoWrite
<1> DEFINE z == [s \in 0..NBlocks |-> Zeros]
           b == <<Zeros, Zeros>>
           r == rsync(z, b, AllBlank, {})
           t == rsync(r.disk, r.buffer, r.inode_list, r.map \cup Reserved)
<1>1. set_sb = t
  BY DEF set_sb
<1>2. DOMAIN r.disk = 0..NBlocks /\ r.map = {} /\ r.inode_list = Kept(AllBlank)
  <2>1. DOMAIN z = 0..NBlocks
    OBVIOUS
  <2> HIDE DEF z, b
  <2> QED BY <2>1, SyncFacts
<1> HIDE DEF r
<1>3. Kept(AllBlank) = AllBlank
  BY DEF Kept, AllBlank
<1>4. /\ DOMAIN t.disk = 0..NBlocks
      /\ t.disk[0] = Superblock /\ t.disk[StartBitmap] = Bitmap(Reserved)
      /\ t.disk[StartInodes] = InodePart(AllBlank, 0)
      /\ t.map = Reserved /\ t.inode_list = AllBlank
  <2>1. r.map \cup Reserved = Reserved
    BY <1>2
  <2> QED BY <1>2, <1>3, <2>1, SyncFacts
<1> HIDE DEF t
<1>5. disk = t.disk /\ map = Reserved /\ inode_list = AllBlank
  BY <1>1, <1>4 DEF Init
<1>6. Consistent(AllBlank, Reserved)
  BY BlankType, Constants DEF Consistent, AllBlank, Blank, File, Reserved
<1>7. loaded = AllBlank /\ MapIn(disk[StartBitmap]) = Reserved
  BY <1>3, <1>4, <1>5, PartFacts DEF loaded, MapIn, Bitmap, Sector
<1>8. DiskInv
  BY <1>4, <1>5, <1>6, <1>7 DEF DiskInv, Same
<1>9. FilesInv
  BY Constants DEF Init, FilesInv, FirstSector
<1> QED BY <1>4, <1>5, <1>6, <1>8, <1>9 DEF IInv, Init

-----------------------------------------------------------------------------
(* The steps. Every one but a write leaves the superblock, the sectors     *)
(* behind the metadata and the blocks of the files that rsync reads back   *)
(* as they are.                                                            *)
Undisturbed ==
    /\ disk[0] = Superblock => disk'[0] = Superblock
    /\ \A s \in 6..NBlocks : disk'[s] = disk[s]
    /\ \A j \in FirstSector : File(inode_list, j) =>
          File(inode_list', j) /\ inode_list'[j].start_block = inode_list[j].start_block

LEMMA CreateKeeps ==
    ASSUME IInv, NEW n \in Names, create_file(n)
    PROVE  IInv' /\ Undisturbed
<1> DEFINE i == get_free_inode
           b == file_mmgr_alloc_block
           taken == IF i = -1 THEN inode_list ELSE [inode_list EXCEPT ![i].usage = TRUE]
           m == IF b = -1 THEN map ELSE map \cup {b}
           list == [taken EXCEPT ![i] =
                      [@ EXCEPT !.name = n, !.start_block = b, !.type = TYPE_FILE]]
<1>1. i # -1 => i \in Inode /\ ~ inode_list[i].usage
  BY FreeInode
<1>2. b # -1 => b \in 0..NBlocks - 1 /\ b \notin map
  BY FreeBlock
<1>3. CASE i = -1 \/ b = -1
  <2>1. inode_list' = taken /\ map' = m /\ UNCHANGED <<disk, fds, stopped>>
    BY <1>3 DEF create_file
  <2> HIDE DEF i, b
  <2>2. taken \in [Inode -> InodeType] /\ \A j \in Inode :
          /\ taken[j].name = inode_list[j].name /\ taken[j].type = inode_list[j].type
          /\ taken[j].start_block = inode_list[j].start_block
          /\ inode_list[j].usage => taken[j] = inode_list[j]
          /\ taken[j] # inode_list[j] => inode_list[j].name = NoName
          /\ File(taken, j) <=> File(inode_list, j)
    <3>1. CASE i = -1
      BY <3>1 DEF IInv, Consistent, File
    <3>2. CASE i # -1
      <4>1. inode_list \in [Inode -> InodeType]
        BY DEF IInv, Consistent
      <4>2. [inode_list[i] EXCEPT !.usage = TRUE] \in InodeType
        BY Zenon, <1>1, <3>2, <4>1 DEF InodeType
      <4>3. taken \in [Inode -> InodeType] /\ \A j \in Inode \ {i} : taken[j] = inode_list[j]
        BY <1>1, <3>2, <4>1, <4>2
      <4>4. /\ taken[i].name = inode_list[i].name /\ taken[i].type = inode_list[i].type
            /\ taken[i].start_block = inode_list[i].start_block
        BY <1>1, <3>2, <4>1 DEF InodeType
      <4>5. /\ inode_list[i].name = NoName /\ inode_list[i].type = TYPE_DIR
            /\ ~ inode_list[i].usage
        BY <1>1, <3>2 DEF IInv, Consistent
      <4> HIDE DEF taken
      <4>6. ~ File(taken, i) /\ ~ File(inode_list, i)
        BY <4>4, <4>5 DEF File, TYPE_DIR, TYPE_FILE
      <4>7. \A j \in Inode \ {i} : File(taken, j) <=> File(inode_list, j)
        BY <4>3 DEF File
      <4> QED BY <4>3, <4>4, <4>5, <4>6, <4>7
    <3> QED BY Zenon, <3>1, <3>2
  <2>3. map \subseteq m /\ m \subseteq 0..NBlocks - 1
    BY Zenon, <1>2 DEF IInv, Consistent
  <2>4. Consistent(taken, m)
    <3> HIDE DEF taken, m
    <3> QED BY Zenon, <2>2, <2>3 DEF IInv, Consistent
  <2> HIDE DEF taken, m
  <2>5. Consistent(inode_list, map)'
    BY <2>1, <2>4 DEF Consistent, File
  <2>6. DiskInv'
    <3>1. loaded' = loaded /\ MapIn(disk[StartBitmap])' = MapIn(disk[StartBitmap])
      BY <2>1 DEF loaded, InodesIn, MapIn
    <3>2. disk[0] = Superblock => Consistent(loaded, MapIn(disk[StartBitmap]))'
      BY <3>1 DEF IInv, DiskInv, Consistent, File
    <3>3. \A j \in Inode : inode_list'[j].name # NoName => inode_list'[j] = inode_list[j]
      BY <2>1, <2>2
    <3> QED BY <2>1, <3>1, <3>2, <3>3 DEF IInv, DiskInv, Same
  <2>7. FilesInv'
    BY <2>1, <2>2, BlankType DEF IInv, FilesInv, File
  <2>8. Undisturbed
    BY <2>1, <2>2, BlankType DEF Undisturbed, File
  <2> QED BY <2>1, <2>5, <2>6, <2>7, <2>8 DEF IInv
<1>4. CASE i # -1 /\ b # -1
  <2>1. Apply(rsync(disk, buffer, list, m)) /\ fds' = [fds EXCEPT ![n] = i]
        /\ stopped' = stopped
    BY <1>4 DEF create_file
  <2> HIDE DEF i, b
  <2>2. /\ list \in [Inode -> InodeType]
        /\ File(list, i) /\ list[i].name = n /\ list[i].start_block = b
        /\ \A j \in Inode \ {i} : list[j] = inode_list[j]
    <3>1. i \in Inode /\ b \in 0..NBlocks - 1 /\ inode_list \in [Inode -> InodeType]
      BY Zenon, <1>1, <1>2, <1>4 DEF IInv, Consistent
    <3>2. /\ taken \in [Inode -> InodeType] /\ taken[i].usage
          /\ \A j \in Inode \ {i} : taken[j] = inode_list[j]
      BY Zenon, <1>4, <3>1 DEF InodeType
    <3> HIDE DEF taken
    <3> QED BY Zenon, <3>1, <3>2 DEF InodeType, File, TYPE_FILE
  <2>3. map \subseteq m /\ b \in m \ map /\ m \subseteq 0..NBlocks - 1
    BY Zenon, <1>2, <1>4 DEF IInv, Consistent
  <2> HIDE DEF list, m
  <2>4. Consistent(list, m)
    <3>1. /\ Reserved \subseteq map
          /\ \A j \in Inode : File(inode_list, j) => inode_list[j].start_block \in map \ Reserved
          /\ \A j \in Inode \ {i} : File(list, j) <=> File(inode_list, j)
      BY <2>2 DEF IInv, Consistent, File
    <3>2. \A j \in Inode : File(list, j) => list[j].start_block \in m \ Reserved
      BY Zenon, <2>2, <2>3, <3>1
    <3>3. \A j, k \in Inode : File(list, j) /\ File(list, k)
              /\ list[j].start_block = list[k].start_block => j = k
      BY <2>2, <2>3, <3>1 DEF IInv, Consistent
    <3>4. \A j \in Inode : File(list, j) => list[j].name # NoName
      BY <2>2, <3>1, Constants DEF IInv, Consistent
    <3>5. \A j \in Inode : ~ list[j].usage => list[j].name = NoName /\ list[j].type = TYPE_DIR
      BY <2>2 DEF IInv, Consistent, File
    <3> QED BY <2>2, <2>3, <3>1, <3>2, <3>3, <3>4, <3>5 DEF Consistent
  <2>5. /\ Consistent(inode_list, map)' /\ DiskInv' /\ inode_list' = Kept(list)
        /\ disk'[0] = Superblock /\ \A s \in 6..NBlocks : disk'[s] = disk[s]
    BY <2>1, <2>4, SyncKeeps
  <2>6. FilesInv'
    <3>1. \A j \in FirstSector : j \in Inode /\ inode_list'[j] = list[j]
      BY <2>5, BlankType, Constants DEF Kept, FirstSector
    <3>2. fds' \in [Names -> Inode \cup {-1}]
      BY <1>1, <1>4, <2>1 DEF IInv, FilesInv
    <3>3. ASSUME NEW k \in Names, fds'[k] \in FirstSector PROVE File(inode_list, fds[k])'
      <4>1. CASE k = n
        BY <2>1, <2>2, <3>1, <3>3, <4>1 DEF IInv, FilesInv, File
      <4>2. CASE k # n
        <5>1. fds'[k] = fds[k] /\ File(inode_list, fds[k])
          BY <2>1, <3>3, <4>2 DEF IInv, FilesInv
        <5>2. File(list, fds[k])
          BY <1>1, <1>4, <2>2, <3>1, <3>3, <5>1 DEF File
        <5> QED BY <3>1, <3>3, <5>1, <5>2 DEF File
      <4> QED BY <4>1, <4>2
    <3> QED BY <3>2, <3>3 DEF FilesInv
  <2>7. \A j \in FirstSector : File(inode_list, j) => inode_list'[j] = inode_list[j]
    <3>1. \A j \in FirstSector : j \in Inode /\ inode_list'[j] = list[j]
      BY <2>2, <2>5, KeptFacts
    <3> QED BY <1>1, <1>4, <2>2, <3>1 DEF File
  <2>8. Undisturbed
    BY <2>5, <2>7 DEF Undisturbed, File
  <2> QED BY <2>1, <2>5, <2>6, <2>8 DEF IInv
<1> QED BY <1>3, <1>4

LEMMA DirectoryKeeps ==
    ASSUME IInv, NEW n \in Dirs, make_directory(n)
    PROVE  IInv' /\ Undisturbed
<1> DEFINE i == get_free_inode
           list == [inode_list EXCEPT ![i] =
                      [@ EXCEPT !.name = n, !.size = 0, !.start_block = 0, !.usage = TRUE,
                                !.type = TYPE_DIR]]
<1>1. i \in Inode /\ ~ inode_list[i].usage
  BY FreeInode DEF make_directory
<1>2. Apply(rsync(disk, buffer, list, map)) /\ UNCHANGED <<fds, stopped>>
  BY DEF make_directory
<1> HIDE DEF i
<1>3. /\ list \in [Inode -> InodeType] /\ list[i].usage /\ list[i].type = TYPE_DIR
      /\ \A j \in Inode \ {i} : list[j] = inode_list[j]
  <2>1. inode_list \in [Inode -> InodeType]
    BY DEF IInv, Consistent
  <2> DEFINE e == [inode_list[i] EXCEPT !.name = n, !.size = 0, !.start_block = 0,
                                        !.usage = TRUE, !.type = TYPE_DIR]
  <2>2. e \in InodeType /\ e.usage /\ e.type = TYPE_DIR
    <3>1. inode_list[i] \in InodeType /\ 0 \in 0..NBlocks - 1 /\ 0 \in Nat
      BY <1>1, <2>1, Constants
    <3> QED BY Zenon, <3>1 DEF InodeType
  <2>3. list = [inode_list EXCEPT ![i] = e]
    OBVIOUS
  <2> HIDE DEF e
  <2> QED BY <1>1, <2>1, <2>2, <2>3
<1> HIDE DEF list
<1>4. ~ File(list, i) /\ ~ File(inode_list, i)
  BY <1>1, <1>3 DEF File, TYPE_DIR, TYPE_FILE
<1>5. \A j \in Inode \ {i} : File(list, j) <=> File(inode_list, j)
  BY <1>3 DEF File
<1>6. Consistent(list, map)
  BY <1>1, <1>3, <1>4, <1>5 DEF IInv, Consistent
<1>7. /\ Consistent(inode_list, map)' /\ DiskInv' /\ inode_list' = Kept(list)
      /\ disk'[0] = Superblock /\ \A s \in 6..NBlocks : disk'[s] = disk[s]
  BY <1>2, <1>6, SyncKeeps
<1>8. \A j \in FirstSector : File(inode_list, j) => inode_list'[j] = inode_list[j]
  <2>1. \A j \in FirstSector : j \in Inode /\ inode_list'[j] = list[j]
    BY <1>3, <1>7, KeptFacts
  <2> QED BY <1>3, <1>4, <2>1
<1>9. FilesInv'
  BY <1>2, <1>8 DEF IInv, FilesInv, File
<1>10. Undisturbed
  BY <1>7, <1>8 DEF Undisturbed, File
<1> QED BY <1>2, <1>7, <1>9, <1>10 DEF IInv

(* A write of a file in the first sector of inodes touches no metadata;    *)
(* one of a file beyond it puts a text where the superblock was.           *)
LEMMA WriteKeeps ==
    ASSUME IInv, NEW i \in Open, NEW c \in Texts, write_file(i, c)
    PROVE  /\ IInv'
           /\ i \in FirstSector =>
                /\ disk'[0] = Superblock /\ File(inode_list', i)
                /\ disk'[inode_list'[i].start_block] = Text(c)
<1> DEFINE list == [inode_list EXCEPT ![i].size = c.len]
           r == rsync(disk, buffer, list, map)
           b == <<Text(c), r.buffer[2]>>
           k == r.inode_list[i].start_block
<1>1. i \in Inode /\ (i \in FirstSector => File(inode_list, i))
  BY DEF Open, IInv, FilesInv
<1>2. /\ DOMAIN r.disk = 0..NBlocks
      /\ r.disk[0] = Superblock /\ r.disk[StartBitmap] = Bitmap(map)
      /\ r.disk[StartInodes] = InodePart(list, 0)
      /\ r = [disk |-> r.disk, buffer |-> r.buffer, map |-> map, inode_list |-> Kept(list)]
  <2>1. DOMAIN disk = 0..NBlocks
    BY DEF IInv, DiskInv
  <2> HIDE DEF list
  <2> QED BY <2>1, SyncFacts
<1>3. /\ Apply([r EXCEPT !.buffer = b, !.disk = write_interface(r.disk, k, b)])
      /\ UNCHANGED <<fds, stopped>>
  BY DEF write_file
<1>4. /\ list \in [Inode -> InodeType]
      /\ \A j \in Inode :
            /\ (list[j].usage <=> inode_list[j].usage) /\ list[j].type = inode_list[j].type
            /\ list[j].name = inode_list[j].name
            /\ list[j].start_block = inode_list[j].start_block
  BY <1>1, Constants DEF IInv, Consistent, InodeType
<1> HIDE DEF list, r
<1>5. Consistent(list, map)
  BY <1>4 DEF IInv, Consistent, File
<1>6. b[1] = Text(c) /\ k = Kept(list)[i].start_block
  BY <1>2
<1> HIDE DEF b, k
<1>7. /\ disk' = [r.disk EXCEPT ![k] = Text(c), ![k + 1] = b[2]]
      /\ map' = map /\ inode_list' = Kept(list)
  BY <1>2, <1>3, <1>6 DEF Apply, write_interface
<1>8. FilesInv'
  <2>1. \A j \in FirstSector : j \in Inode /\ inode_list'[j] = list[j]
    BY <1>4, <1>7, KeptFacts
  <2>2. \A j \in FirstSector : File(inode_list, j) => File(inode_list', j)
    BY <1>4, <2>1 DEF File
  <2> QED BY <1>3, <2>2 DEF IInv, FilesInv, File
<1>9. CASE i \in FirstSector
  <2>1. Kept(list)[i] = list[i] /\ File(list, i)
    BY <1>1, <1>4, <1>9, KeptFacts DEF File
  <2>2. k \in 6..NBlocks - 1
    <3>1. list[i].start_block \in map \ Reserved /\ map \subseteq 0..NBlocks - 1
      BY <1>1, <1>5, <2>1 DEF Consistent
    <3>2. k \in 0..NBlocks - 1 /\ k \notin 0..5
      BY Zenon, <1>6, <2>1, <3>1 DEF Reserved
    <3> QED BY <3>2, Constants
  <2>3. /\ DOMAIN disk' = 0..NBlocks /\ disk'[k] = Text(c)
        /\ disk'[0] = r.disk[0] /\ disk'[1] = r.disk[1] /\ disk'[3] = r.disk[3]
    BY <1>2, <1>7, <2>2, Constants
  <2>4. Consistent(inode_list, map)' /\ DiskInv'
    BY <1>2, <1>5, <1>7, <2>3, AfterSync DEF StartBitmap, StartInodes
  <2>6. File(inode_list', i) /\ disk'[inode_list'[i].start_block] = Text(c)
    BY <1>6, <1>7, <2>1, <2>3 DEF File
  <2> QED BY <1>2, <1>3, <1>8, <2>3, <2>4, <2>6 DEF IInv
<1>10. CASE i \notin FirstSector
  <2>1. k = 0
    BY <1>1, <1>4, <1>6, <1>10, KeptFacts DEF Blank
  <2>2. DOMAIN disk' = 0..NBlocks /\ disk'[0] = Text(c)
    BY <1>2, <1>7, <2>1, Constants
  <2>3. Text(c) # Superblock
    BY DEF Text, Superblock, Sector
  <2>4. DiskInv'
    BY <2>2, <2>3 DEF DiskInv, Superblock, Sector
  <2>5. Consistent(Kept(list), map)
    BY <1>5, KeptConsistent
  <2>6. Consistent(inode_list, map)'
    BY <1>7, <2>5 DEF Consistent, File
  <2> QED BY <1>3, <1>10, <1>8, <2>4, <2>6 DEF IInv
<1> QED BY <1>9, <1>10

(* Seek and read change the position in memory, which ls may lose. *)
LEMMA MoveKeeps ==
    ASSUME IInv, NEW i \in Open, NEW distance \in Int, Move(i, distance)
    PROVE  IInv' /\ Undisturbed
<1>1. i \in Inode /\ UNCHANGED <<disk, map, fds>>
  BY DEF Open, IInv, FilesInv, Move
<1>2. inode_list \in [Inode -> InodeType]
  BY DEF IInv, Consistent
<1>3. /\ inode_list' \in [Inode -> InodeType] /\ stopped' \in {"no", "trap", "garbage"}
      /\ \A j \in Inode :
            /\ (inode_list'[j].usage <=> inode_list[j].usage)
            /\ inode_list'[j].type = inode_list[j].type
            /\ inode_list'[j].name = inode_list[j].name
            /\ inode_list'[j].start_block = inode_list[j].start_block
            /\ Same(inode_list'[j], inode_list[j])
  <2>1. CASE inode_list[i].size = 0
    BY <1>2, <2>1 DEF Move, Same
  <2>2. CASE inode_list[i].size # 0
    <3> DEFINE p == ((inode_list[i].position + distance) % UIntModulus) % inode_list[i].size
               e == [inode_list[i] EXCEPT !.position = p]
    <3>1. inode_list[i] \in InodeType
      BY <1>1, <1>2
    <3>2. inode_list[i].position + distance \in Int /\ inode_list[i].size \in Nat \ {0}
      BY <2>2, <3>1 DEF InodeType
    <3>3. p \in Nat
      <4>1. PICK x \in Int : x = inode_list[i].position + distance
        BY <3>2
      <4>2. PICK y \in Nat : y = x % UIntModulus
        BY Constants
      <4> QED BY <3>2, <4>1, <4>2
    <3>4. inode_list' = [inode_list EXCEPT ![i] = e] /\ stopped' = stopped
      BY <1>1, <1>2, <2>2 DEF Move
    <3> HIDE DEF p
    <3>5. /\ e \in InodeType /\ (e.usage <=> inode_list[i].usage)
          /\ e.type = inode_list[i].type /\ e.name = inode_list[i].name
          /\ e.start_block = inode_list[i].start_block
          /\ Same(e, inode_list[i])
      BY Zenon, <3>1, <3>3 DEF InodeType, Same
    <3> HIDE DEF e
    <3> QED BY <1>1, <1>2, <3>4, <3>5 DEF IInv, Same
  <2> QED BY <2>1, <2>2
<1>4. Consistent(inode_list, map)'
  BY <1>1, <1>3 DEF IInv, Consistent, File
<1>5. DiskInv'
  <2>1. loaded' = loaded /\ MapIn(disk[StartBitmap])' = MapIn(disk[StartBitmap])
    BY <1>1 DEF loaded, InodesIn, MapIn
  <2>2. disk[0] = Superblock => Consistent(loaded, MapIn(disk[StartBitmap]))'
    BY <2>1 DEF IInv, DiskInv, Consistent, File
  <2> QED BY Zenon, <1>1, <1>3, <2>1, <2>2 DEF IInv, DiskInv, Same
<1>6. FilesInv'
  BY <1>1, <1>3, BlankType DEF IInv, FilesInv, File
<1>7. Undisturbed
  BY <1>1, <1>3, BlankType DEF Undisturbed, File
<1> QED BY <1>3, <1>4, <1>5, <1>6, <1>7 DEF IInv

LEMMA LsKeeps ==
    ASSUME IInv, ls_fs
    PROVE  IInv' /\ Undisturbed
<1>1. UNCHANGED <<disk, fds>>
  BY DEF ls_fs
<1>2. loaded' = loaded /\ MapIn(disk[StartBitmap])' = MapIn(disk[StartBitmap])
  BY <1>1 DEF loaded, InodesIn, MapIn
<1>3. CASE disk[0] = Superblock
  <2>1. /\ map' = MapIn(disk[StartBitmap]) /\ inode_list' = loaded /\ stopped' = stopped
    BY <1>3 DEF ls_fs, loaded
  <2>2. Consistent(loaded, MapIn(disk[StartBitmap]))
    BY <1>3 DEF IInv, DiskInv
  <2>3. Consistent(inode_list, map)' /\ Consistent(loaded, MapIn(disk[StartBitmap]))'
    BY <1>2, <2>1, <2>2 DEF Consistent, File
  <2>4. DiskInv'
    BY <1>1, <1>2, <2>1, <2>3 DEF IInv, DiskInv, Same
  <2>5. ASSUME NEW j \in FirstSector, File(inode_list, j)
        PROVE  File(inode_list', j) /\ inode_list'[j].start_block = inode_list[j].start_block
    <3>1. j \in Inode /\ inode_list[j] \in InodeType /\ loaded[j] \in InodeType
      BY <2>2, BlankType DEF IInv, Consistent
    <3>2. Same(loaded[j], inode_list[j])
      BY <1>3, <2>5, <3>1 DEF IInv, Consistent, DiskInv
    <3>3. /\ loaded[j].usage = inode_list[j].usage /\ loaded[j].type = inode_list[j].type
          /\ loaded[j].start_block = inode_list[j].start_block
      <4> DEFINE x == [loaded[j] EXCEPT !.position = 0]
                 y == [inode_list[j] EXCEPT !.position = 0]
      <4>1. /\ x.usage = loaded[j].usage /\ x.type = loaded[j].type
            /\ x.start_block = loaded[j].start_block
        BY <3>1 DEF InodeType
      <4>2. /\ y.usage = inode_list[j].usage /\ y.type = inode_list[j].type
            /\ y.start_block = inode_list[j].start_block
        BY <3>1 DEF InodeType
      <4>3. x = y
        BY <3>2 DEF Same
      <4> HIDE DEF x, y
      <4> QED BY <4>1, <4>2, <4>3
    <3> QED BY <2>1, <2>5, <3>3 DEF File
  <2>6. FilesInv'
    BY <1>1, <2>5 DEF IInv, FilesInv, File
  <2>7. Undisturbed
    BY <1>1, <2>5 DEF Undisturbed
  <2> QED BY <2>1, <2>3, <2>4, <2>6, <2>7 DEF IInv
<1>4. CASE disk[0] # Superblock
  <2>1. UNCHANGED <<map, inode_list>> /\ stopped' = "garbage"
    BY <1>4 DEF ls_fs
  <2> QED BY <1>1, <1>4, <2>1
          DEF IInv, Consistent, DiskInv, FilesInv, File, Undisturbed
<1> QED BY <1>3, <1>4

LEMMA Stutters ==
    ASSUME IInv, UNCHANGED vars
    PROVE  IInv' /\ Undisturbed
<1>1. UNCHANGED <<disk, map, inode_list, fds, stopped>>
  BY DEF vars
<1>2. loaded' = loaded /\ MapIn(disk[StartBitmap])' = MapIn(disk[StartBitmap])
  BY <1>1 DEF loaded, InodesIn, MapIn
<1> QED BY <1>1, <1>2 DEF IInv, Consistent, DiskInv, FilesInv, File, Same, Undisturbed

(* A step is a write or leaves the last one undisturbed. *)
LEMMA Steps ==
    ASSUME IInv, [Next]_vars
    PROVE  /\ IInv'
           /\ \/ Undisturbed /\ last' = last
              \/ \E i \in Open, c \in Texts : write_file(i, c)
<1>1. ASSUME NEW n \in Names, create_file(n)
      PROVE  IInv' /\ Undisturbed /\ last' = last
  <2>1. last' = last
    BY <1>1 DEF create_file
  <2> QED BY Zenon, <1>1, <2>1, CreateKeeps
<1>2. ASSUME NEW n \in Dirs, make_directory(n)
      PROVE  IInv' /\ Undisturbed /\ last' = last
  <2>1. last' = last
    BY <1>2 DEF make_directory
  <2> QED BY Zenon, <1>2, <2>1, DirectoryKeeps
<1>3. ASSUME NEW i \in Open, NEW c \in Texts, write_file(i, c)
      PROVE  IInv'
  BY <1>3, WriteKeeps
<1>4. ASSUME NEW i \in Open, NEW p \in Seeks \cup Counts, Move(i, p)
      PROVE  IInv' /\ Undisturbed /\ last' = last
  <2>1. p \in Int
    BY Constants
  <2>2. last' = last
    BY <1>4 DEF Move
  <2> QED BY <1>4, <2>1, <2>2, MoveKeeps
<1>5. CASE ls_fs
  BY <1>5, LsKeeps DEF ls_fs
<1>6. CASE UNCHANGED vars
  BY <1>6, Stutters DEF vars
<1>7. ASSUME NEW i \in Open, NEW p \in Seeks \cup Counts, seek_file(i, p) \/ read_file(i, p)
      PROVE  Move(i, p)
  BY <1>7 DEF seek_file, read_file
<1>8. \/ \E n \in Names : create_file(n)
      \/ \E n \in Dirs : make_directory(n)
      \/ \E i \in Open, c \in Texts : write_file(i, c)
      \/ \E i \in Open, p \in Seeks \cup Counts : Move(i, p)
      \/ ls_fs
      \/ UNCHANGED vars
  BY Zenon, <1>7 DEF Next
<1> QED BY Zenon, <1>1, <1>2, <1>3, <1>4, <1>5, <1>6, <1>8

-----------------------------------------------------------------------------
(* What is proved of every behaviour *)

(* Memory and the metadata that ls would load from a disk with a           *)
(* superblock are both consistent, and agree on every named inode, after   *)
(* every create, mkdir, write, seek, read and ls.                          *)
THEOREM DiskFsInvariant == Spec => []IInv
<1>1. Init => IInv
  BY InitEstablishes
<1>2. IInv /\ [Next]_vars => IInv'
  BY Steps
<1> QED BY <1>1, <1>2, PTL DEF Spec

UsedInv == used_blocks \in 0..NBlocks

(* The count of allocations never passes the number of blocks. *)
LEMMA UsedIsBounded == Spec => []UsedInv
<1>1. Init => UsedInv
  BY Constants DEF Init, UsedInv
<1>2. UsedInv /\ [Next]_vars => UsedInv'
  <2> SUFFICES ASSUME used_blocks \in 0..NBlocks, [Next]_vars
               PROVE  used_blocks' \in 0..NBlocks
    BY DEF UsedInv
  <2>1. ASSUME NEW n \in Names, create_file(n) PROVE used_blocks' \in 0..NBlocks
    <3>1. file_mmgr_alloc_block # -1 => used_blocks < NBlocks
      BY Zenon DEF file_mmgr_alloc_block
    <3>2. used_blocks' = used_blocks + IF file_mmgr_alloc_block = -1 THEN 0 ELSE 1
      BY <2>1 DEF create_file
    <3> QED BY <3>1, <3>2, Constants
  <2>2. ASSUME NEW n \in Dirs, make_directory(n) PROVE used_blocks' \in 0..NBlocks
    BY <2>2 DEF make_directory
  <2>3. ASSUME NEW i, NEW c, write_file(i, c) PROVE used_blocks' \in 0..NBlocks
    BY <2>3 DEF write_file
  <2>4. ASSUME NEW i, NEW p, Move(i, p) PROVE used_blocks' \in 0..NBlocks
    BY <2>4 DEF Move
  <2>5. CASE ls_fs
    BY <2>5 DEF ls_fs
  <2>6. CASE UNCHANGED vars
    BY <2>6 DEF vars
  <2> QED BY <2>1, <2>2, <2>3, <2>4, <2>5, <2>6 DEF Next, seek_file, read_file
<1> QED BY <1>1, <1>2, PTL DEF Spec

(* The inodes, the map, the descriptors and the disk keep their types. *)
THEOREM DiskFsIsTyped == Spec => []TypeOK
<1>1. IInv /\ UsedInv => TypeOK
  BY DEF UsedInv, IInv, Consistent, DiskInv, FilesInv, TypeOK, InodeType
<1> QED BY <1>1, DiskFsInvariant, UsedIsBounded, PTL

(* No two files ever share a block, and none has a block of the metadata   *)
(* or one that file_mmgr would hand out again.                             *)
THEOREM FilesNeverShareBlocks == Spec => []BlocksExclusive
<1>1. IInv => BlocksExclusive
  BY DEF IInv, Consistent, BlocksExclusive, IsFile, File
<1> QED BY <1>1, DiskFsInvariant, PTL

-----------------------------------------------------------------------------
(* After a write that fits, and before any, the superblock is there and    *)
(* the file holds the text. A write that does not fit finds block 0 in a   *)
(* blank inode and replaces the superblock, until the next rsync.          *)
WriteInv ==
    /\ last = NoWrite \/ last.inode \in Nat
    /\ LastWriteFits => disk[0] = Superblock
    /\ last # NoWrite /\ LastWriteFits =>
          /\ last.inode \in FirstSector /\ File(inode_list, last.inode)
          /\ disk[inode_list[last.inode].start_block] = Text(last.text)

LEMMA WriteInvStep ==
    ASSUME IInv, WriteInv, [Next]_vars
    PROVE  WriteInv'
<1>1. CASE Undisturbed /\ last' = last
  <2>1. LastWriteFits => disk'[0] = Superblock
    BY <1>1 DEF Undisturbed, WriteInv
  <2>2. ASSUME last # NoWrite, LastWriteFits
        PROVE  /\ last.inode \in FirstSector /\ File(inode_list', last.inode)
               /\ disk'[inode_list'[last.inode].start_block] = Text(last.text)
    <3>1. PICK i \in FirstSector : i = last.inode
      BY <2>2 DEF WriteInv
    <3>2. File(inode_list, i) /\ disk[inode_list[i].start_block] = Text(last.text)
      BY <2>2, <3>1 DEF WriteInv
    <3>3. inode_list[i].start_block \in 6..NBlocks
      <4>1. inode_list[i].start_block \in map \ Reserved /\ map \subseteq 0..NBlocks - 1
        BY <3>2, BlankType DEF IInv, Consistent
      <4>2. inode_list[i].start_block \in 0..NBlocks - 1 /\ inode_list[i].start_block \notin 0..5
        BY Zenon, <4>1 DEF Reserved
      <4> QED BY <4>2, Constants
    <3>4. /\ File(inode_list', i) /\ inode_list'[i].start_block = inode_list[i].start_block
      BY <1>1, <3>2 DEF Undisturbed
    <3>5. disk'[inode_list[i].start_block] = disk[inode_list[i].start_block]
      BY <1>1, <3>3 DEF Undisturbed
    <3> QED BY <3>1, <3>2, <3>4, <3>5
  <2> QED BY <1>1, <2>1, <2>2 DEF WriteInv, File, LastWriteFits
<1>2. ASSUME NEW i \in Open, NEW c \in Texts, write_file(i, c)
      PROVE  WriteInv'
  <2>1. i \in Inode /\ i \in Nat /\ last' = [inode |-> i, text |-> c]
    BY <1>2 DEF write_file, Open, IInv, FilesInv, Inode
  <2>2. last'.inode = i /\ last'.text = c
    BY <2>1
  <2>3. ASSUME LastWriteFits'
        PROVE  /\ i \in FirstSector /\ disk'[0] = Superblock /\ File(inode_list', i)
               /\ disk'[inode_list'[i].start_block] = Text(c)
    <3>1. i \in FirstSector
      BY <2>1, <2>2, <2>3, Constants DEF LastWriteFits, FirstSector
    <3> QED BY <1>2, <3>1, WriteKeeps
  <2> QED BY <2>1, <2>2, <2>3 DEF WriteInv, File, Text, Sector
<1> QED BY <1>1, <1>2, Steps

LEMMA WriteInvariant == Spec => [](IInv /\ WriteInv)
<1>1. Init => WriteInv
  BY InitEstablishes DEF WriteInv, Init
<1>2. IInv /\ WriteInv /\ [Next]_vars => WriteInv'
  BY WriteInvStep
<1> QED BY <1>1, <1>2, DiskFsInvariant, PTL DEF Spec

(* Unless the last write was to a file beyond the first sector of inodes,  *)
(* what ls loads is what memory holds, the position aside: no create,      *)
(* mkdir or write has hit the superblock, the map or the inodes.           *)
THEOREM MetadataSurvives == Spec => []NamedFilesOnDisk
<1>1. IInv /\ WriteInv => NamedFilesOnDisk
  BY DEF IInv, WriteInv, DiskInv, Consistent, NamedFilesOnDisk, loaded, Same
<1> QED BY <1>1, WriteInvariant, PTL

(* The file written last, if it fits, holds what was written, past every   *)
(* create, mkdir, seek, read and ls that follows.                          *)
THEOREM LastWriteSurvives == Spec => []LastWriteStays
<1>1. WriteInv => LastWriteStays
  BY DEF WriteInv, LastWriteStays
<1> QED BY <1>1, WriteInvariant, PTL
=============================================================================

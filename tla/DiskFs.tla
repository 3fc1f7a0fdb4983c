------------------------------- MODULE DiskFs -------------------------------
(***************************************************************************)
(* The disk file system (sys/fs.c) with its block map (sys/fs_mmgr.c) on   *)
(* the sector interface of the AHCI driver (sys/ahci.c).                   *)
(*                                                                         *)
(* A write moves two sectors from the write buffer, a read one sector into *)
(* the read buffer, whose remainder is never filled.  The sectors hold the *)
(* superblock, the block map, a part of the inodes, or the text of a file. *)
(* A call runs with interrupts off and waits for the disk, so it is one    *)
(* step; the disk does not fail.  There are fewer blocks than the 32 up to *)
(* which the masks of the block map are exact (PhysMem has the rest).      *)
(***************************************************************************)
EXTENDS Integers, FiniteSets

CONSTANTS Names,         \* file names that programs create
          Dirs,          \* directory names
          Texts,         \* strings written to files: records [txt, len]
          Seeks,         \* distances given to seek
          Counts,        \* counts given to read
          InodeCount,    \* INODE_COUNT (100)
          PerSector,     \* inodes in a sector (512 / sizeof(struct inodes) = 4)
          NBlocks,       \* blocks of the disk
          UIntModulus,   \* 2^32: position and size are kept modulo this
          NoName         \* the empty string

ASSUME DiskFsAssumption ==
    /\ {InodeCount, PerSector, UIntModulus} \subseteq Nat \ {0}
    /\ PerSector <= InodeCount
    /\ NBlocks \in Nat /\ NBlocks > 6
    /\ NoName \notin Names \cup Dirs
    /\ \A c \in Texts : c.len \in Nat \ {0}
    /\ Seeks \cup Counts \subseteq Int

VARIABLES disk,          \* sector -> contents
          buffer,        \* the first two sectors of the write buffer
          map,           \* file_mmgr_memory_map: the set of blocks in use
          used_blocks,   \* file_mmgr_used_blocks: allocations so far; nothing reloads it
          inode_list,
          fds,           \* ghost: the descriptors create returned, by name; -1: none
          last,          \* ghost: the last write, [inode, text]
          stopped        \* "no", "trap": division by zero, "garbage": no superblock read

vars == <<disk, buffer, map, used_blocks, inode_list, fds, last, stopped>>

Inode == 0..InodeCount - 1
Reserved == 0..5
StartBitmap == 1
StartInodes == 3
TYPE_FILE == 1
TYPE_DIR == 0
NoWrite == [inode |-> -1, text |-> NoName]

Blank == [name |-> NoName, position |-> 0, size |-> 0, start_block |-> 0,
          usage |-> FALSE, type |-> TYPE_DIR]
AllBlank == [i \in Inode |-> Blank]

-----------------------------------------------------------------------------
(* Sectors *)
Sector(kind, content) == [kind |-> kind, val |-> content]
Zeros == Sector("zeros", {})
Superblock == Sector("superblock", {})
Bitmap(m) == Sector("map", m)
Text(c) == Sector("text", c)
InodePart(list, n) ==
    Sector("inodes", [j \in 0..PerSector - 1 |->
        IF n * PerSector + j \in Inode THEN list[n * PerSector + j] ELSE Blank])

write_interface(d, offset, b) == [d EXCEPT ![offset] = b[1], ![offset + 1] = b[2]]

(* What the memcpy after read_disk finds: one sector and, behind it, zeros. *)
MapIn(sector) == IF sector.kind = "map" THEN sector.val ELSE {}
InodesIn(sector) ==
    [i \in Inode |-> IF i < PerSector /\ sector.kind = "inodes" THEN sector.val[i] ELSE Blank]

(* rsync: superblock, map and inodes are written, each over the second     *)
(* sector of the one before, and all three are read back.                  *)
rsync_reordered(d, b, list, m) ==    \* mutant: the superblock is written after the map
    LET b1 == <<Bitmap(m), Zeros>>
        b2 == <<Superblock, b1[2]>>
        b3 == <<InodePart(list, 0), InodePart(list, 1)>>
        d3 == write_interface(write_interface(write_interface(d, StartBitmap, b1), 0, b2),
                              StartInodes, b3)
    IN  [disk |-> d3, buffer |-> b3, map |-> MapIn(d3[StartBitmap]),
         inode_list |-> InodesIn(d3[StartInodes])]

rsync(d, b, list, m) ==
    LET b1 == <<Superblock, b[2]>>
        b2 == <<Bitmap(m), Zeros>>
        b3 == <<InodePart(list, 0), InodePart(list, 1)>>
        d3 == write_interface(write_interface(write_interface(d, 0, b1), StartBitmap, b2),
                              StartInodes, b3)
    IN  [disk |-> d3, buffer |-> b3, map |-> MapIn(d3[StartBitmap]),
         inode_list |-> InodesIn(d3[StartInodes])]

(* start() formats the disk at every boot. *)
set_sb_short ==                      \* mutant: the last two sectors are not reserved
    LET r == rsync([s \in 0..NBlocks |-> Zeros], <<Zeros, Zeros>>, AllBlank, {})
    IN  rsync(r.disk, r.buffer, r.inode_list, r.map \cup (0..3))

set_sb ==
    LET r == rsync([s \in 0..NBlocks |-> Zeros], <<Zeros, Zeros>>, AllBlank, {})
    IN  rsync(r.disk, r.buffer, r.inode_list, r.map \cup Reserved)

Apply(r) ==
    disk' = r.disk /\ buffer' = r.buffer /\ map' = r.map /\ inode_list' = r.inode_list

Init ==
    /\ disk = set_sb.disk /\ buffer = set_sb.buffer
    /\ map = set_sb.map /\ inode_list = set_sb.inode_list
    /\ used_blocks = 0
    /\ fds = [n \in Names |-> -1]
    /\ last = NoWrite
    /\ stopped = "no"

-----------------------------------------------------------------------------
First(S) == IF S = {} THEN -1 ELSE CHOOSE x \in S : \A y \in S : x <= y

find_file(n) == First({i \in Inode : inode_list[i].name = n /\ inode_list[i].type = TYPE_FILE})
find_directory(n) == First({i \in Inode : inode_list[i].name = n /\ inode_list[i].type = TYPE_DIR})
get_free_inode == First({i \in Inode : ~ inode_list[i].usage})
file_mmgr_get_first_free_past == First((0..NBlocks) \ map)    \* mutant: off by one
file_mmgr_get_first_free == First((0..NBlocks - 1) \ map)
file_mmgr_alloc_block ==    \* the caller adds it to map and counts it
    IF used_blocks < NBlocks THEN file_mmgr_get_first_free ELSE -1

(* get_free_inode and get_free_block both run before either result is      *)
(* tested: a failed create keeps what the other one took.                  *)
create_file_unmapped(n) ==           \* mutant: the block is not marked in the map
    LET i == get_free_inode
        b == file_mmgr_alloc_block
    IN  /\ find_file(n) = -1 /\ i # -1 /\ b # -1
        /\ Apply(rsync(disk, buffer, [inode_list EXCEPT ![i] =
               [@ EXCEPT !.usage = TRUE, !.name = n, !.start_block = b, !.type = TYPE_FILE]],
               map))
        /\ fds' = [fds EXCEPT ![n] = i]
        /\ UNCHANGED <<used_blocks, last, stopped>>

create_file(n) ==
    LET i == get_free_inode
        b == file_mmgr_alloc_block
        taken == IF i = -1 THEN inode_list ELSE [inode_list EXCEPT ![i].usage = TRUE]
        m == IF b = -1 THEN map ELSE map \cup {b}
        list == [taken EXCEPT ![i] =
                   [@ EXCEPT !.name = n, !.start_block = b, !.type = TYPE_FILE]]
    IN  /\ stopped = "no"
        /\ find_file(n) = -1
        /\ used_blocks' = used_blocks + IF b = -1 THEN 0 ELSE 1
        /\ IF i = -1 \/ b = -1
           THEN /\ inode_list' = taken /\ map' = m
                /\ UNCHANGED <<disk, buffer, fds>>
           ELSE /\ Apply(rsync(disk, buffer, list, m))
                /\ fds' = [fds EXCEPT ![n] = i]
        /\ UNCHANGED <<last, stopped>>

(* make_directory does not look whether get_free_inode failed; the model   *)
(* stops short of that write before the array.                             *)
make_directory(n) ==
    LET i == get_free_inode
    IN  /\ stopped = "no" /\ i # -1
        /\ find_directory(n) = -1
        /\ Apply(rsync(disk, buffer, [inode_list EXCEPT ![i] =
               [@ EXCEPT !.name = n, !.size = 0, !.start_block = 0, !.usage = TRUE,
                         !.type = TYPE_DIR]], map))
        /\ UNCHANGED <<used_blocks, fds, last, stopped>>

(* write: the size is set and synchronised, then the text is copied over   *)
(* the first sector of the write buffer and both sectors go to the disk.   *)
(* The block is looked up after rsync has read the inodes back.            *)
write_file(i, c) ==
    LET r == rsync(disk, buffer, [inode_list EXCEPT ![i].size = c.len], map)
        b == <<Text(c), r.buffer[2]>>
    IN  /\ stopped = "no"
        /\ Apply([r EXCEPT !.buffer = b,
                           !.disk = write_interface(@, r.inode_list[i].start_block, b)])
        /\ last' = [inode |-> i, text |-> c]
        /\ UNCHANGED <<used_blocks, fds, stopped>>

(* The position is moved in memory only, modulo the size, in unsigned      *)
(* arithmetic; with a size of zero the division traps.                     *)
Move(i, distance) ==
    /\ stopped = "no"
    /\ IF inode_list[i].size = 0
       THEN stopped' = "trap" /\ UNCHANGED inode_list
       ELSE /\ inode_list' = [inode_list EXCEPT ![i].position =
                  ((@ + distance) % UIntModulus) % inode_list[i].size]
            /\ UNCHANGED stopped
    /\ UNCHANGED <<disk, buffer, map, used_blocks, fds, last>>

seek_file(i, distance) == Move(i, distance)
read_file(i, count) == Move(i, count)

(* ls reloads the metadata from the disk. *)
ls_fs ==
    /\ stopped = "no"
    /\ IF disk[0] = Superblock
       THEN /\ map' = MapIn(disk[StartBitmap])
            /\ inode_list' = InodesIn(disk[StartInodes])
            /\ UNCHANGED stopped
       ELSE stopped' = "garbage" /\ UNCHANGED <<map, inode_list>>
    /\ UNCHANGED <<disk, buffer, used_blocks, fds, last>>

Open == {fds[n] : n \in Names} \ {-1}

Next ==
    \/ \E n \in Names : create_file(n)
    \/ \E n \in Dirs : make_directory(n)
    \/ \E i \in Open, c \in Texts : write_file(i, c)
    \/ \E i \in Open, p \in Seeks : seek_file(i, p)
    \/ \E i \in Open, k \in Counts : read_file(i, k)
    \/ ls_fs

Spec == Init /\ [][Next]_vars

-----------------------------------------------------------------------------
(* Every variable has its type. *)
TypeOK ==
    /\ map \subseteq 0..NBlocks - 1 /\ used_blocks \in 0..NBlocks
    /\ inode_list \in [Inode -> [name : Names \cup Dirs \cup {NoName},
                                 position : Nat, size : Nat, start_block : 0..NBlocks - 1,
                                 usage : BOOLEAN, type : {TYPE_FILE, TYPE_DIR}]]
    /\ fds \in [Names -> Inode \cup {-1}]
    /\ DOMAIN disk = 0..NBlocks
    /\ stopped \in {"no", "trap", "garbage"}

IsFile(i) == inode_list[i].usage /\ inode_list[i].type = TYPE_FILE

(* No two files share a block, no file has a block of the metadata, and    *)
(* every block of a file is marked in the map, after any sequence of       *)
(* create, write, ls and the reloads from disk they entail.                *)
BlocksExclusive ==
    \A i \in Inode : IsFile(i) =>
        /\ inode_list[i].start_block \in map \ Reserved
        /\ \A j \in Inode \ {i} : IsFile(j) => inode_list[i].start_block # inode_list[j].start_block

(* The last write, if there was one, went to a file whose inode is in the  *)
(* one sector of inodes that rsync reads back.  Beyond it rsync blanks the *)
(* inode and write_file puts the text at block 0, over the superblock.     *)
LastWriteFits == last.inode < PerSector

(* What ls_fs will load is what memory holds, the position aside: create,  *)
(* mkdir and each write to a file that fits leave superblock, map and      *)
(* inodes intact on the disk, whatever files beyond the first sector there *)
(* are and whatever was written to them before.                            *)
NamedFilesOnDisk ==
    LET loaded == InodesIn(disk[StartInodes]) IN
    LastWriteFits =>
        /\ disk[0] = Superblock
        /\ Reserved \subseteq MapIn(disk[StartBitmap])
        /\ \A i \in Inode : inode_list[i].name # NoName =>
            [loaded[i] EXCEPT !.position = 0] = [inode_list[i] EXCEPT !.position = 0]

(* A file that was written last, and fits, holds what was written: nothing *)
(* that create, mkdir, seek, read or ls do reaches its sector.             *)
LastWriteStays ==
    last # NoWrite /\ LastWriteFits =>
        disk[inode_list[last.inode].start_block] = Text(last.text)

(* A file that was created is found under its name, so that creating it    *)
(* again reports that it exists.                                           *)
CreatedFilesAreFound == \A n \in Names : fds[n] # -1 => find_file(n) = fds[n]

(* Writing a file leaves the texts in the sectors behind its own alone. *)
LaterSectorsStay ==
    [][\A i \in Inode, j \in Inode :
         ( /\ last' # last /\ last'.inode = i
           /\ IsFile(i) /\ IsFile(j)
           /\ inode_list[j].start_block > inode_list[i].start_block
           /\ disk[inode_list[j].start_block].kind = "text" )
         => disk'[inode_list[j].start_block] = disk[inode_list[j].start_block]]_vars

(* The position of a file is inside the file. *)
PositionInFile ==
    \A i \in Inode : IsFile(i) /\ inode_list[i].size > 0 =>
        inode_list[i].position < inode_list[i].size
=============================================================================

-------------------------------- MODULE TarFs --------------------------------
(***************************************************************************)
(* The read-only file system in the kernel image: the walk over the tar    *)
(* archive, the directory tree and the table of files built from it at     *)
(* boot, cd and ls (sys/elf.c), and open, read and close (sys/isr.c).      *)
(* System calls run with interrupts off and are one step.  The tree, pwd   *)
(* and the table are global: all processes share them.                     *)
(*                                                                         *)
(* A name is the sequence of its components.  An archive is the sequence   *)
(* of its entries in the order of find; directories have size 0.  The      *)
(* nodes of the tree come from sub_malloc (KernelHeap), of which           *)
(* init_tarfs is the first user.                                           *)
(***************************************************************************)
EXTENDS Integers, Sequences, FiniteSets, SequencesExt

CONSTANTS Proc,
          Archives,          \* sequences of entries [name, size]
          BlockSize,         \* of the archive (512)
          Trailer,           \* blank blocks at the end of an archive (at least 2)
          DataHeaders,       \* what a block of data may be, read as a header
          NodesPerPage       \* nodes of the tree in a page of the heap (12)

ASSUME TarFsAssumption ==
    /\ BlockSize \in Nat \ {0}
    /\ Trailer \in Nat /\ Trailer >= 2
    /\ \A a \in Archives : \A k \in DOMAIN a : a[k].name # <<>> /\ a[k].size \in Nat
    /\ \A h \in DataHeaders : h.size \in Nat
    /\ NodesPerPage \in Nat \ {0}

VARIABLES archive,           \* linked into the kernel
          headers,           \* what the walk over it meets
          tree,              \* fs_tree nodes: [name, size, child]; 1 is rootfs
          pwd,               \* a node, or NULL
          files,             \* names by file descriptor
          file_used,
          handles,           \* ghost: <<fd, name>> a process opened and did not close
          result,            \* of the last read
          faulted            \* the kernel followed a NULL pwd
image == <<archive, headers, tree, files>>     \* does not change after boot
vars == <<image, pwd, file_used, handles, result, faulted>>

NULL == 0
Root == 1
Closed == <<"closed">>

-----------------------------------------------------------------------------
(* The archive in memory: every entry has a header block and data blocks.  *)
(* Whatever is linked behind the archive reads as a blank header, and data *)
(* as the header data.                                                     *)
DataBlocks(size) == (size + BlockSize - 1) \div BlockSize
Start(a, k) == FoldLeft(LAMBDA sum, e : sum + 1 + DataBlocks(e.size), 0, SubSeq(a, 1, k - 1))
End(a) == Start(a, Len(a) + 1) + Trailer
HeaderAt(a, data, b) ==
    IF \E k \in DOMAIN a : Start(a, k) = b
    THEN a[CHOOSE k \in DOMAIN a : Start(a, k) = b]
    ELSE IF b < Start(a, Len(a) + 1) THEN data ELSE [name |-> <<>>, size |-> 0]

(* round(), in blocks: one more than the data has when size is a multiple *)
round_far(size) == (size \div BlockSize) + 2     \* mutant: a block too far
round(size) == (size \div BlockSize) + 1
Step(size) == IF size = 0 THEN 1 ELSE 1 + round(size)

(* The headers that the loops over the archive meet *)
Headers(a, data) ==
    LET from[b \in 0..End(a)] ==
            LET h == HeaderAt(a, data, b)
                next == b + Step(h.size)
            IN  <<h>> \o (IF next <= End(a) THEN from[next] ELSE <<>>)
    IN  from[0]

(* sub_malloc leaves the first node of a page free when it hands it out,   *)
(* so that the next call returns it as well; a page serves NodesPerPage + 1*)
(* calls.  The call is the k-th since boot, and there are n nodes.         *)
SameNode(k) == (k - 1) % (NodesPerPage + 1) = 1
sub_malloc(k, n) == IF SameNode(k) THEN n ELSE n + 1

(* init_tarfs: an entry goes into the directory met last if that one's     *)
(* name is a prefix of its own, and else into rootfs.  The directory is    *)
(* chosen before the new node is cleared, which may be that directory.     *)
AddEntry_uncounted(s, h) ==          \* mutant: a directory is not counted as a child
    LET temp == sub_malloc(s.calls + 1, Len(s.nodes))
        temp_rt == IF IsPrefix(s.nodes[s.old_dir].name, h.name) THEN s.old_dir ELSE Root
        cleared == SubSeq(s.nodes, 1, temp - 1)
                     \o << [name |-> h.name, size |-> h.size, child |-> <<>>] >>
    IN  [nodes   |-> IF h.size = 0 THEN cleared
                     ELSE [cleared EXCEPT ![temp_rt].child = Append(@, temp)],
         old_dir |-> IF h.size = 0 THEN temp ELSE s.old_dir,
         calls   |-> s.calls + 1]

AddEntry(s, h) ==
    LET temp == sub_malloc(s.calls + 1, Len(s.nodes))
        temp_rt == IF IsPrefix(s.nodes[s.old_dir].name, h.name) THEN s.old_dir ELSE Root
        cleared == SubSeq(s.nodes, 1, temp - 1)
                     \o << [name |-> h.name, size |-> h.size, child |-> <<>>] >>
    IN  [nodes   |-> [cleared EXCEPT ![temp_rt].child = Append(@, temp)],
         old_dir |-> IF h.size = 0 THEN temp ELSE s.old_dir,
         calls   |-> s.calls + 1]

init_tarfs(met) ==
    FoldLeft(AddEntry,
             [nodes |-> << [name |-> <<"rootfs">>, size |-> 0, child |-> <<>>] >>,
              old_dir |-> Root, calls |-> 0],
             met).nodes

(* tarfs_dir: descriptors count from 1 in the order of the archive. *)
tarfs_dir(met) ==
    LET regular == SelectSeq(met, LAMBDA h : h.size > 0)
    IN  [i \in DOMAIN regular |-> regular[i].name]

Init ==
    /\ archive \in Archives
    /\ \E data \in DataHeaders : headers = Headers(archive, data)
    /\ tree = init_tarfs(headers)
    /\ pwd = Root
    /\ files = tarfs_dir(headers)
    /\ file_used = [fd \in DOMAIN files |-> 0]
    /\ handles = [p \in Proc |-> {}]
    /\ result = [wanted |-> Closed, got |-> Closed]
    /\ faulted = FALSE

-----------------------------------------------------------------------------
(* tarfs_read finds a header of that name. *)
tarfs_read(name) == \E i \in DOMAIN headers : headers[i].name = name

(* The children that get_pwd and print_ls_rec look at: all but the last,   *)
(* which stands for the blank end of the archive, in rootfs.               *)
pchild(n) == IF n = Root THEN Len(tree[n].child) - 1 ELSE Len(tree[n].child)
ls(n) == {tree[tree[n].child[i]].name : i \in 1..pchild(n)}

(* get_pwd: the child of that name; if there is none the one behind those *)
(* it looked at: the blank one of rootfs, and NULL elsewhere.              *)
get_pwd(name) ==
    LET kids == tree[pwd].child
        hits == {i \in 1..pchild(pwd) : tree[kids[i]].name = name}
    IN  IF hits # {} THEN kids[CHOOSE i \in hits : \A j \in hits : i <= j]
        ELSE IF pchild(pwd) < Len(kids) THEN kids[pchild(pwd) + 1] ELSE NULL

cd_home ==
    /\ ~ faulted
    /\ pwd' = Root
    /\ UNCHANGED <<image, file_used, handles, result, faulted>>

do_cd(name) ==
    /\ ~ faulted /\ tarfs_read(name)
    /\ IF pwd = NULL THEN faulted' = TRUE /\ UNCHANGED pwd
       ELSE pwd' = get_pwd(name) /\ UNCHANGED faulted
    /\ UNCHANGED <<image, file_used, handles, result>>

(* do_open, tarfs_open: descriptor 0 is the error, and is left out. *)
do_open_next(p, name) ==             \* mutant: one too far
    \E fd \in DOMAIN files :
        /\ ~ faulted
        /\ fd > 1 /\ files[fd - 1] = name
        /\ file_used' = [file_used EXCEPT ![fd] = 1]
        /\ handles' = [handles EXCEPT ![p] = @ \cup {<<fd, name>>}]
        /\ UNCHANGED <<image, pwd, result, faulted>>

do_open(p, name) ==
    \E fd \in DOMAIN files :
        /\ ~ faulted
        /\ files[fd] = name /\ \A i \in 1..fd - 1 : files[i] # name
        /\ file_used' = [file_used EXCEPT ![fd] = 1]
        /\ handles' = [handles EXCEPT ![p] = @ \cup {<<fd, name>>}]
        /\ UNCHANGED <<image, pwd, result, faulted>>

do_close(p, h) ==
    /\ ~ faulted
    /\ file_used' = [file_used EXCEPT ![h[1]] = 0]
    /\ handles' = [handles EXCEPT ![p] = @ \ {h}]
    /\ UNCHANGED <<image, pwd, result, faulted>>

(* doread on a file: always from its start; tarfs_read finds it by name. *)
doread(h) ==
    /\ ~ faulted
    /\ result' = [wanted |-> h[2],
                  got |-> IF file_used[h[1]] = 1 /\ tarfs_read(files[h[1]])
                          THEN files[h[1]] ELSE Closed]
    /\ UNCHANGED <<image, pwd, file_used, handles, faulted>>

Names == {archive[k].name : k \in DOMAIN archive}

Next ==
    \/ cd_home
    \/ \E name \in Names : do_cd(name)
    \/ \E p \in Proc :
        \/ \E name \in Names : do_open(p, name)
        \/ \E h \in handles[p] : do_close(p, h) \/ doread(h)

Spec == Init /\ [][Next]_vars

-----------------------------------------------------------------------------
(* Every variable has its type. *)
TypeOK ==
    /\ archive \in Archives
    /\ pwd \in {NULL} \cup DOMAIN tree
    /\ file_used \in [DOMAIN files -> {0, 1}]
    /\ \A p \in Proc : \A h \in handles[p] : h[1] \in DOMAIN files
    /\ faulted \in BOOLEAN

(* A file that fills its last block: round() takes the walk one block too  *)
(* far behind it.                                                          *)
FillsBlock(k) == archive[k].size > 0 /\ archive[k].size % BlockSize = 0

(* The nodes a user gets to from rootfs by cd into what ls shows *)
Listed ==
    LET Kids(n) == {tree[n].child[i] : i \in 1..pchild(n)}
        upto[i \in 0..Len(tree)] ==
            IF i = 0 THEN {Root} ELSE upto[i - 1] \cup UNION {Kids(n) : n \in upto[i - 1]}
    IN  upto[Len(tree)]

(* Clearing a node that sub_malloc gave out before loses the entry that    *)
(* was in it, and may clear the directory that later entries belong to.    *)
(* Still every other entry of the archive is shown by ls somewhere below   *)
(* rootfs, in whatever order find named them.                              *)
OthersAreListed ==
    (\A k \in DOMAIN archive : ~ FillsBlock(k)) =>
        \A k \in DOMAIN archive : ~ SameNode(k + 1) =>
            \E n \in Listed : archive[k].name \in ls(n)

(* ls shows of a directory exactly the entries of the archive that are in  *)
(* it: the tree that init_tarfs builds is the one that was archived.       *)
TreeIsArchive ==
    /\ ls(Root) = {name \in Names : Len(name) = 1}
    /\ \A k \in DOMAIN archive : archive[k].size = 0 =>
         \E n \in DOMAIN tree :
            /\ tree[n].name = archive[k].name
            /\ ls(n) = {name \in Names : Len(name) > 1 /\ Front(name) = archive[k].name}

(* Every file of the archive can be opened. *)
EveryFileOpens ==
    \A k \in DOMAIN archive : archive[k].size > 0 =>
        \E fd \in DOMAIN files : files[fd] = archive[k].name

(* A file of the archive can be opened, whatever comes behind it, unless   *)
(* one before it fills its last block: up to there the walk meets every    *)
(* header, and with the descriptor of the file's own place in the table.   *)
FilesOpenUpToFull ==
    \A k \in DOMAIN archive :
        archive[k].size > 0 /\ (\A j \in 1..k - 1 : ~ FillsBlock(j)) =>
            LET fd == Cardinality({j \in 1..k : archive[j].size > 0})
            IN  fd \in DOMAIN files /\ files[fd] = archive[k].name

(* A read gives the contents of the file that was opened, or nothing. *)
ReadsWhatItOpened == result.got \in {result.wanted, Closed}

(* A file some process has open is marked as used. *)
UsedWhileOpen == \A p \in Proc : \A h \in handles[p] : file_used[h[1]] = 1

(* cd always ends in a directory of the archive, or in rootfs. *)
PwdIsDirectory ==
    /\ pwd # NULL
    /\ pwd = Root \/ (tree[pwd].size = 0 /\ tree[pwd].name # <<>>)
=============================================================================

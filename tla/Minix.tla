------------------------------- MODULE Minix --------------------------------
(***************************************************************************)
(* The part of the Minix file system (src/sys/fs/vfs/minix/) that the file *)
(* system server reaches: the making of the root file system, with its     *)
(* allocation of inodes, blocks and directory entries, the search for a    *)
(* name, and the release of an inode.                                      *)
(*                                                                         *)
(* A file system is a record: "imap" and "bmap" are the inodes and blocks  *)
(* in use, "inodes" the inodes on disk, and "dirents" the directory        *)
(* entries of each block.  An operator that returns a value besides it     *)
(* gives a record with both.                                               *)
(***************************************************************************)
EXTENDS TableScan

CONSTANTS s_ninodes,        \* inodes
          s_nblocks,        \* blocks that bitmap_first_free() scans
          DirentsPerBlock,  \* directory entries of a block
          NANVIX_DISK_SIZE  \* size of the disk, in blocks

ASSUME MinixAssumption ==
  /\ s_ninodes \in Nat /\ s_ninodes >= 2
  /\ s_nblocks \in Nat /\ DirentsPerBlock \in Nat \ {0} /\ s_nblocks * DirentsPerBlock >= 3
  /\ NANVIX_DISK_SIZE \in Nat \ {0}

MINIX_INODE_NULL == 0
MINIX_INODE_ROOT == 1
MINIX_BLOCK_NULL == 0

Inodes == 1 .. s_ninodes
MinixBlocks == 1 .. s_nblocks
Slots == 0 .. DirentsPerBlock - 1

NoInode == [mode |-> "none", size |-> 0, nlinks |-> 0, zones |-> [z \in 0 .. s_nblocks - 1 |-> MINIX_BLOCK_NULL]]
NoDirent == [ino |-> MINIX_INODE_NULL, name |-> "none"]

\* The disk, filled with zeros.
Blank == [imap |-> {}, bmap |-> {}, inodes |-> [n \in Inodes |-> NoInode],
          dirents |-> [b \in MinixBlocks |-> [s \in Slots |-> NoDirent]]]

\* minix_inode_read() and minix_inode_write()
minix_inode_read(fs, num) == fs.inodes[num]
minix_inode_write(fs, ip, num) == [fs EXCEPT !.inodes[num] = ip]

\* minix_inode_alloc(): the inode has one link and no blocks.
minix_inode_alloc(fs, mode) ==
  LET free == Inodes \ fs.imap
      num == First(free) IN
  IF free = {} THEN [fs |-> fs, num |-> MINIX_INODE_NULL]
  ELSE [fs |-> [minix_inode_write(fs, [NoInode EXCEPT !.mode = mode, !.nlinks = 1], num)
                 EXCEPT !.imap = @ \cup {num}],
        num |-> num]

\* minix_inode_free()
minix_inode_free(fs, num) == [fs EXCEPT !.imap = @ \ {num}]

\* minix_block_map() of the direct zones, with its minix_block_alloc(): the
\* block that holds directory entry i of directory dip.
minix_block_map(fs, dip, i, create) ==
  LET logic == i \div DirentsPerBlock
      free == MinixBlocks \ fs.bmap IN
  IF dip.zones[logic] = MINIX_BLOCK_NULL /\ (create \/ i < dip.size) /\ free # {}
  THEN [fs |-> [fs EXCEPT !.bmap = @ \cup {First(free)}],
        dip |-> [dip EXCEPT !.zones[logic] = First(free)], blk |-> First(free)]
  ELSE [fs |-> fs, dip |-> dip, blk |-> dip.zones[logic]]

\* Entry i of directory dip.
Dirent(fs, dip, i) == fs.dirents[dip.zones[i \div DirentsPerBlock]][i % DirentsPerBlock]

\* minix_dirent_search(): the entries of directory dip with a name, or with
\* no inode, in the order in which the loop meets them.
Entries(dip) == 0 .. dip.size - 1
NamedEntries(fs, dip, name) ==
  {i \in Entries(dip) : Dirent(fs, dip, i).ino # MINIX_INODE_NULL /\ Dirent(fs, dip, i).name = name}
FreeEntries(fs, dip) == {i \in Entries(dip) : Dirent(fs, dip, i).ino = MINIX_INODE_NULL}

\* minix_dirent_search() without creation: the inode of the entry.
minix_dirent_search(fs, dip, name) ==
  IF NamedEntries(fs, dip, name) = {} THEN MINIX_INODE_NULL
  ELSE Dirent(fs, dip, First(NamedEntries(fs, dip, name))).ino

\* minix_dirent_search() with creation: a free entry is used again, or the
\* directory grows by one.
Placed(i, m) == [entry |-> i, fs |-> m.fs, dip |-> m.dip, blk |-> m.blk]
NewEntry(fs, dip) ==
  IF FreeEntries(fs, dip) # {}
  THEN LET i == CHOOSE i \in FreeEntries(fs, dip) : \A j \in FreeEntries(fs, dip) : j <= i
       IN  Placed(i, minix_block_map(fs, dip, i, FALSE))
  ELSE LET m == minix_block_map(fs, dip, dip.size, TRUE)
       IN  Placed(dip.size, [m EXCEPT !.dip.size = @ + 1])

\* minix_dirent_add(): the directory counts a link for each entry.
minix_dirent_add(fs, dip, name, num) ==
  IF NamedEntries(fs, dip, name) # {} THEN [fs |-> fs, dip |-> dip]
  ELSE LET e == NewEntry(fs, dip)
       IN  [fs |-> [e.fs EXCEPT !.dirents[e.blk][e.entry % DirentsPerBlock] =
                      [ino |-> num, name |-> name]],
            dip |-> [e.dip EXCEPT !.nlinks = @ + 1]]

\* minix_mkfs(): the root directory, and the special file of the disk.  The
\* inode of the special file is written over the one of the root directory,
\* which is written again: its size is lost.
minix_mkfs ==
  LET a == minix_inode_alloc(Blank, "dir")
      root == minix_inode_read(a.fs, MINIX_INODE_ROOT)
      d1 == minix_dirent_add(a.fs, root, "dot", MINIX_INODE_ROOT)
      d2 == minix_dirent_add(d1.fs, d1.dip, "dotdot", MINIX_INODE_ROOT)
      b == minix_inode_alloc(minix_inode_write(d2.fs, d2.dip, MINIX_INODE_ROOT), "blk")
      winode == [minix_inode_read(b.fs, b.num) EXCEPT !.size = NANVIX_DISK_SIZE]
      d3 == minix_dirent_add(b.fs, d2.dip, "disk", b.num)
  IN  minix_inode_write(minix_inode_write(d3.fs, winode, MINIX_INODE_ROOT),
                        d3.dip, MINIX_INODE_ROOT)

=============================================================================

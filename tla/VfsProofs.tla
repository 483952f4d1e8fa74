----------------------------- MODULE VfsProofs ------------------------------
(***************************************************************************)
(* Proofs about the file system server: its tables of files, inodes and    *)
(* connections agree with each other and with the descriptors of clients.  *)
(***************************************************************************)
EXTENDS Vfs, TableProofs

-----------------------------------------------------------------------------
(***************************************************************************)
(* The inductive invariant.                                                *)
(***************************************************************************)

\* The types of a file, and of a file system.
File == [count : {0, 1}, oflag : SUBSET Flags, pos : Nat, inode : Inodes \cup {MINIX_INODE_NULL}]
Modes == {"none", "dir", "blk"}
DiskInode == [mode : Modes, size : Nat, nlinks : Nat, zones : [0 .. s_nblocks - 1 -> 0 .. s_nblocks]]
DirNames == {"none", "dot", "dotdot", "disk"}
DirEntry == [ino : Inodes \cup {MINIX_INODE_NULL}, name : DirNames]
FsType == [imap : SUBSET Inodes, bmap : SUBSET MinixBlocks, inodes : [Inodes -> DiskInode],
           dirents : [MinixBlocks -> [Slots -> DirEntry]]]

\* The file system: what is found in the root directory is an inode.
FsOK(x) ==
  /\ x \in FsType
  /\ \A name : minix_dirent_search(x, minix_inode_read(x, MINIX_INODE_ROOT), name)
                 \in Inodes \cup {MINIX_INODE_NULL}

\* The files of table ft that are open on inode n.
OpenOn(ft, n) == {f \in FileTable : ft[f].count > 0 /\ ft[f].inode = n}
Mounts(n) == IF n = MINIX_INODE_ROOT THEN 1 ELSE 0

\* The tables of files, of descriptors and of inodes: all descriptors are of
\* process 0, and lead to different files; a file in use has a descriptor and
\* an inode, which counts it.
Tables(ft, of, ino) ==
  /\ ft \in [FileTable -> File]
  /\ of \in [Connections -> [Fds -> FileTable \cup {None}]]
  /\ ino \in [Inodes -> Nat]
OneProcess(of) == \A k \in Connections \ {0}, fd \in Fds : of[k][fd] = None
InUse(ft, of) == \A fd \in Fds : of[0][fd] # None => ft[of[0][fd]].count = 1
NotShared(of) == \A fd, fe \in Fds : of[0][fd] # None /\ of[0][fd] = of[0][fe] => fd = fe
NotLeaked(ft, of) ==
  \A f \in FileTable :
    ft[f].count = 1 => ft[f].inode \in Inodes /\ \E fd \in Fds : of[0][fd] = f
CountedBy(ft, ino) == \A n \in Inodes : ino[n] = Cardinality(OpenOn(ft, n)) + Mounts(n)
FilesOK(ft, of, ino) ==
  /\ Tables(ft, of, ino) /\ OneProcess(of) /\ InUse(ft, of) /\ NotShared(of)
  /\ NotLeaked(ft, of) /\ CountedBy(ft, ino)

\* The descriptors held[c] of the clients: they are open, and belong to one
\* client, which is connected as often as it has some.
ClientsOK(of, conns, held) ==
  /\ ConnTable(Connections, Clients, conns)
  /\ held \in [Clients -> SUBSET Fds]
  /\ \A c \in Clients : \A fd \in held[c] : of[0][fd] # None
  /\ \A c, d \in Clients : c # d => held[c] \cap held[d] = {}
  /\ \A c \in Clients : ConnectionsOf(conns, c) = Cardinality(held[c])

\* The requests of a client with descriptors D, and the replies.
Requests(D) ==
  [op : {"open"}, name : Names, oflag : SUBSET Flags]
    \cup [op : {"close"}, fd : D]
    \cup [op : {"seek"}, fd : D, whence : {"SEEK_SET", "SEEK_CUR", "SEEK_END"}, offset : Int]
    \cup [op : {"read", "write"}, fd : D, left : Nat]
Statuses == [op : {"status"}, ret : {"ok", "fail"}, val : Int]

\* Who has the request of client c: with the requests q in the mailbox, and
\* the server sending to s.
At(q, s, c) == IF s = c THEN "server" ELSE IF c \in q THEN "mailbox" ELSE "client"

\* A client is idle, or its request m is in the mailbox or with the server, or
\* it has been answered with r.  D are its descriptors, and w is where its
\* stub waits.
StubOK(m, r, D, w, at) ==
  \/ w = "idle" /\ m = NoCall /\ r = NoReply /\ at = "client"
  \/ m \in Requests(D) /\ at = "mailbox" /\ r = NoReply /\ w = WaitingAt(m.op)
  \/ m \in Requests(D) /\ m.op = "read" /\ at = "server" /\ r = Ack /\ w = "ack"
  \/ m \in Requests(D) /\ m.op = "read" /\ at = "server" /\ r = NoReply /\ w = "portal_read"
  \/ /\ m \in Requests(D) /\ at = "client" /\ r \in Statuses /\ w = "reply"
     /\ m.op = "open" /\ r.ret = "ok" => r.val \in Fds

\* The descriptors of a client, from the point of view of the server.
HeldOf(m, r, D) ==
  IF r.op = "status" /\ r.ret = "ok" /\ m.op = "open" THEN D \cup {r.val}
  ELSE IF r.op = "status" /\ r.ret = "ok" /\ m.op = "close" THEN D \ {m.fd}
  ELSE D
HeldBy == [c \in Clients |-> HeldOf(call[c], reply[c], fds[c])]

\* The stubs, and what is in the buffers.
Stubs ==
  /\ srv \in Clients \cup {Idle} /\ requests \subseteq Clients /\ srv \notin requests
  /\ call = [c \in Clients |-> call[c]] /\ reply = [c \in Clients |-> reply[c]]
  /\ ctl = [c \in Clients |-> ctl[c]] /\ fds \in [Clients -> SUBSET Fds]
  /\ \A c \in Clients : StubOK(call[c], reply[c], fds[c], ctl[c], At(requests, srv, c))
Contents == Values \cup {Meta}
Buffers ==
  disk \in [DiskBlocks -> Contents] /\ buffer \in Contents /\ buf \in [Clients -> Contents]

IInv ==
  /\ FsOK(fs) /\ Buffers /\ Stubs
  /\ FilesOK(filetab, ofiles, inodes)
  /\ ClientsOK(ofiles, connections, HeldBy)

-----------------------------------------------------------------------------
(***************************************************************************)
(* The tables of files, descriptors and inodes.                            *)
(***************************************************************************)

\* Process 0 is there, and None is no file.
LEMMA Indexes ==
  /\ 0 \in Connections /\ None \notin FileTable /\ None \notin Fds
  /\ IsFiniteSet(FileTable) /\ IsFiniteSet(Fds) /\ FileTable \subseteq Nat /\ Fds \subseteq Nat
  /\ MINIX_INODE_NULL \notin Inodes /\ MINIX_INODE_ROOT \in Inodes
<1>1. IsFiniteSet(FileTable) /\ IsFiniteSet(Fds)
  <2>1. 0 \in Int /\ NANVIX_NR_FILES - 1 \in Int /\ NANVIX_OPEN_MAX - 1 \in Int
    BY VfsAssumption
  <2>. QED
    BY Zenon, <2>1, FS_Interval DEF FileTable, Fds
<1>2. 0 \in Connections
  BY ConnectionAssumption DEF Connections
<1>3. None \notin FileTable /\ None \notin Fds /\ FileTable \subseteq Nat /\ Fds \subseteq Nat
  BY VfsAssumption DEF None, FileTable, Fds
<1>4. MINIX_INODE_NULL \notin Inodes /\ MINIX_INODE_ROOT \in Inodes
  BY MinixAssumption DEF MINIX_INODE_NULL, MINIX_INODE_ROOT, Inodes
<1>. QED
  BY <1>1, <1>2, <1>3, <1>4

\* The files that are open on an inode are counted.
LEMMA Counted ==
  ASSUME NEW ft, NEW n
  PROVE  IsFiniteSet(OpenOn(ft, n)) /\ Cardinality(OpenOn(ft, n)) \in Nat
<1>1. OpenOn(ft, n) \subseteq FileTable
  BY Zenon DEF OpenOn
<1>2. IsFiniteSet(OpenOn(ft, n))
  BY Zenon, <1>1, Indexes, FS_Subset
<1>. QED
  BY Zenon, <1>2, FS_CardinalityType

\* A descriptor that is open leads to a file.
LEMMA Leads ==
  ASSUME NEW ft, NEW of, NEW ino, FilesOK(ft, of, ino)
  PROVE  \A fd \in Fds : of[0][fd] # None => of[0][fd] \in FileTable
<1>1. of \in [Connections -> [Fds -> FileTable \cup {None}]]
  BY Zenon DEF FilesOK, Tables
<1>. QED
  BY <1>1, Indexes

\* The position of a file does not matter to the tables.
LEMMA FilesMoved ==
  ASSUME NEW ft, NEW of, NEW ino, NEW f, NEW p, NEW gt, FilesOK(ft, of, ino),
         f \in FileTable, p \in Nat, gt = [ft EXCEPT ![f].pos = p]
  PROVE  FilesOK(gt, of, ino)
<1>1. ft \in [FileTable -> File]
  BY Zenon DEF FilesOK, Tables
<1>2. gt = [ft EXCEPT ![f] = [ft[f] EXCEPT !.pos = p]]
  BY Zenon
<1>3. ft[f] \in File
  BY Zenon, <1>1
<1>4. PICK e : e = [ft[f] EXCEPT !.pos = p]
  BY Zenon
<1>5. e \in File /\ e.count = ft[f].count /\ e.inode = ft[f].inode
  BY <1>3, <1>4 DEF File
<1>6. gt \in [FileTable -> File] /\ gt[f] = e /\ \A g \in FileTable \ {f} : gt[g] = ft[g]
  BY Zenon, <1>1, <1>2, <1>4, <1>5
<1>7. \A g \in FileTable : gt[g].count = ft[g].count /\ gt[g].inode = ft[g].inode
  BY Zenon, <1>5, <1>6
<1>8. \A n : OpenOn(gt, n) = OpenOn(ft, n)
  BY Zenon, <1>7 DEF OpenOn
<1>9. \A fd \in Fds : of[0][fd] # None => of[0][fd] \in FileTable
  BY Leads
<1>10. Tables(gt, of, ino)
  BY Zenon, <1>6 DEF FilesOK, Tables
<1>11. InUse(gt, of)
  BY Zenon, <1>7, <1>9 DEF FilesOK, InUse
<1>12. NotLeaked(gt, of)
  BY Zenon, <1>7 DEF FilesOK, NotLeaked
<1>13. CountedBy(gt, ino)
  BY Zenon, <1>8 DEF FilesOK, CountedBy
<1>. QED
  BY Zenon, <1>10, <1>11, <1>12, <1>13 DEF FilesOK

\* fs_open(): a free descriptor and a free file are taken, and the inode is
\* counted.
Opens(ft, of, ino, gt, og, jno, fd, f, n, e) ==
  /\ fd \in Fds /\ of[0][fd] = None /\ f \in FileTable /\ ft[f].count = 0
  /\ n \in Inodes /\ e \in File /\ e.count = 1 /\ e.inode = n
  /\ gt = [ft EXCEPT ![f] = e] /\ og = [of EXCEPT ![0][fd] = f] /\ jno = [ino EXCEPT ![n] = @ + 1]

\* The tables agree afterwards.
LEMMA FilesOpened ==
  ASSUME NEW ft, NEW of, NEW ino, NEW gt, NEW og, NEW jno, NEW fd, NEW f, NEW n, NEW e,
         FilesOK(ft, of, ino), Opens(ft, of, ino, gt, og, jno, fd, f, n, e)
  PROVE  FilesOK(gt, og, jno)
<1>. SUFFICES ASSUME fd \in Fds, of[0][fd] = None, f \in FileTable, ft[f].count = 0,
                     n \in Inodes, e \in File, e.count = 1, e.inode = n,
                     gt = [ft EXCEPT ![f] = e], og = [of EXCEPT ![0][fd] = f],
                     jno = [ino EXCEPT ![n] = @ + 1]
              PROVE  FilesOK(gt, og, jno)
  BY Zenon DEF Opens
<1>1. /\ ft \in [FileTable -> File] /\ ino \in [Inodes -> Nat]
      /\ of \in [Connections -> [Fds -> FileTable \cup {None}]]
  BY Zenon DEF FilesOK, Tables
<1>2. gt \in [FileTable -> File] /\ gt[f] = e /\ \A g \in FileTable \ {f} : gt[g] = ft[g]
  BY Zenon, <1>1
<1>3. /\ og \in [Connections -> [Fds -> FileTable \cup {None}]]
      /\ og[0][fd] = f /\ \A b \in Fds \ {fd} : og[0][b] = of[0][b]
      /\ \A k \in Connections \ {0} : og[k] = of[k]
  BY <1>1, Indexes
<1>4. jno \in [Inodes -> Nat] /\ jno[n] = ino[n] + 1 /\ \A i \in Inodes \ {n} : jno[i] = ino[i]
  BY <1>1
<1>5. \A b \in Fds : of[0][b] # f
  <2>1. ft[f].count # 1
    BY SMT
  <2>2. f # None
    BY Zenon, Indexes
  <2>. QED
    BY Zenon, <2>1, <2>2 DEF FilesOK, InUse
<1>6. \A b \in Fds : of[0][b] # None => of[0][b] \in FileTable
  BY Leads
<1>7. ASSUME NEW b \in Fds, og[0][b] # None PROVE gt[og[0][b]].count = 1
  <2>1. CASE b = fd
    <3>1. og[0][b] = f /\ gt[f] = e
      BY Zenon, <1>2, <1>3, <2>1
    <3>. QED
      BY Zenon, <3>1
  <2>2. CASE b # fd
    <3>1. og[0][b] = of[0][b]
      BY Zenon, <1>3, <2>2
    <3>2. of[0][b] \in FileTable \ {f} /\ ft[of[0][b]].count = 1
      BY Zenon, <1>5, <1>6, <1>7, <3>1 DEF FilesOK, InUse
    <3>. QED
      BY Zenon, <1>2, <3>1, <3>2
  <2>. QED
    BY Zenon, <2>1, <2>2
<1>8. ASSUME NEW a \in Fds, NEW b \in Fds, og[0][a] # None, og[0][a] = og[0][b] PROVE a = b
  <2>1. CASE a = fd \/ b = fd
    BY Zenon, <1>3, <1>5, <1>8, <2>1
  <2>2. CASE a # fd /\ b # fd
    <3>1. og[0][a] = of[0][a] /\ og[0][b] = of[0][b]
      BY Zenon, <1>3, <2>2
    <3>2. of[0][a] # None /\ of[0][a] = of[0][b]
      BY Zenon, <1>8, <3>1
    <3>. QED
      BY Zenon, <3>2 DEF FilesOK, NotShared
  <2>. QED
    BY Zenon, <2>1, <2>2
<1>9. ASSUME NEW g \in FileTable, gt[g].count = 1
      PROVE  gt[g].inode \in Inodes /\ \E b \in Fds : og[0][b] = g
  <2>1. CASE g = f
    BY Zenon, <1>2, <1>3, <2>1
  <2>2. CASE g # f
    <3>1. ft[g].inode \in Inodes /\ ft[g] = gt[g]
      BY Zenon, <1>2, <1>9, <2>2 DEF FilesOK, NotLeaked
    <3>2. PICK b \in Fds : of[0][b] = g
      BY Zenon, <1>2, <1>9, <2>2 DEF FilesOK, NotLeaked
    <3>3. b # fd
      BY Zenon, <3>2, Indexes
    <3>. QED
      BY Zenon, <1>3, <3>1, <3>2, <3>3
  <2>. QED
    BY Zenon, <2>1, <2>2
<1>10. ASSUME NEW i \in Inodes PROVE jno[i] = Cardinality(OpenOn(gt, i)) + Mounts(i)
  <2>1. ino[i] = Cardinality(OpenOn(ft, i)) + Mounts(i)
    BY Zenon DEF FilesOK, CountedBy
  <2>2. CASE i # n
    <3>1. OpenOn(gt, i) = OpenOn(ft, i)
      <4>1. ASSUME NEW g PROVE g \in OpenOn(gt, i) <=> g \in OpenOn(ft, i)
        <5>1. CASE g = f
          <6>1. ~(ft[f].count > 0)
            BY SMT
          <6>. QED
            BY Zenon, <1>2, <2>2, <5>1, <6>1 DEF OpenOn
        <5>2. CASE g # f
          BY Zenon, <1>2, <5>2 DEF OpenOn
        <5>. QED
          BY Zenon, <5>1, <5>2
      <4>. QED
        BY Zenon, <4>1
    <3>. QED
      BY Zenon, <1>4, <2>1, <2>2, <3>1
  <2>3. CASE i = n
    <3>1. f \notin OpenOn(ft, i) /\ e.count > 0
      BY SMT DEF OpenOn
    <3>2. OpenOn(gt, i) = OpenOn(ft, i) \cup {f}
      <4>1. ASSUME NEW g PROVE g \in OpenOn(gt, i) <=> g \in OpenOn(ft, i) \/ g = f
        <5>1. CASE g = f
          BY Zenon, <1>2, <2>3, <3>1, <5>1 DEF OpenOn
        <5>2. CASE g # f
          BY Zenon, <1>2, <5>2 DEF OpenOn
        <5>. QED
          BY Zenon, <5>1, <5>2
      <4>. QED
        BY Zenon, <4>1
    <3>3. Cardinality(OpenOn(gt, i)) = Cardinality(OpenOn(ft, i)) + 1
      BY ZenonT(40), <3>1, <3>2, Counted, FS_AddElement
    <3>4. Cardinality(OpenOn(ft, i)) \in Nat /\ Mounts(i) \in Nat
      BY Counted DEF Mounts
    <3>. QED
      BY <1>4, <2>1, <2>3, <3>3, <3>4
  <2>. QED
    BY Zenon, <2>2, <2>3
<1>11. Tables(gt, og, jno)
  BY Zenon, <1>2, <1>3, <1>4 DEF Tables
<1>12. OneProcess(og)
  BY Zenon, <1>3 DEF FilesOK, OneProcess
<1>13. InUse(gt, og) /\ NotShared(og) /\ NotLeaked(gt, og) /\ CountedBy(gt, jno)
  BY Zenon, <1>7, <1>8, <1>9, <1>10 DEF InUse, NotShared, NotLeaked, CountedBy
<1>. QED
  BY Zenon, <1>11, <1>12, <1>13 DEF FilesOK

\* fs_close(): the descriptor and its file are free again, and the inode is
\* not counted any more.
Closes(ft, of, ino, gt, og, jno, fd, f, n) ==
  /\ fd \in Fds /\ of[0][fd] = f /\ f # None /\ n = ft[f].inode
  /\ gt = [ft EXCEPT ![f] = NoFile] /\ og = [of EXCEPT ![0][fd] = None]
  /\ jno = [ino EXCEPT ![n] = @ - 1]

\* The tables agree afterwards.
LEMMA FilesClosed ==
  ASSUME NEW ft, NEW of, NEW ino, NEW gt, NEW og, NEW jno, NEW fd, NEW f, NEW n,
         FilesOK(ft, of, ino), Closes(ft, of, ino, gt, og, jno, fd, f, n)
  PROVE  FilesOK(gt, og, jno)
<1>. SUFFICES ASSUME fd \in Fds, of[0][fd] = f, f # None, n = ft[f].inode,
                     gt = [ft EXCEPT ![f] = NoFile], og = [of EXCEPT ![0][fd] = None],
                     jno = [ino EXCEPT ![n] = @ - 1]
              PROVE  FilesOK(gt, og, jno)
  BY Zenon DEF Closes
<1>1. /\ ft \in [FileTable -> File] /\ ino \in [Inodes -> Nat]
      /\ of \in [Connections -> [Fds -> FileTable \cup {None}]]
  BY Zenon DEF FilesOK, Tables
<1>f. f \in FileTable
  BY Leads
<1>c. ft[f].count = 1
  BY Zenon DEF FilesOK, InUse
<1>n. n \in Inodes
  BY Zenon, <1>f, <1>c DEF FilesOK, NotLeaked
<1>e. NoFile \in File /\ NoFile.count = 0
  BY SMT DEF NoFile, File
<1>2. gt \in [FileTable -> File] /\ gt[f] = NoFile /\ \A g \in FileTable \ {f} : gt[g] = ft[g]
  BY Zenon, <1>1, <1>f, <1>e
<1>3. /\ og \in [Connections -> [Fds -> FileTable \cup {None}]]
      /\ og[0][fd] = None /\ \A b \in Fds \ {fd} : og[0][b] = of[0][b]
      /\ \A k \in Connections \ {0} : og[k] = of[k]
  BY <1>1, Indexes
<1>5. \A b \in Fds \ {fd} : of[0][b] # f
  BY Zenon DEF FilesOK, NotShared
<1>6. \A b \in Fds : of[0][b] # None => of[0][b] \in FileTable
  BY Leads
<1>7. ASSUME NEW b \in Fds, og[0][b] # None PROVE gt[og[0][b]].count = 1
  <2>1. b # fd
    BY Zenon, <1>3, <1>7
  <2>2. og[0][b] = of[0][b]
    BY Zenon, <1>3, <2>1
  <2>3. of[0][b] \in FileTable \ {f} /\ ft[of[0][b]].count = 1
    BY Zenon, <1>5, <1>6, <1>7, <2>1, <2>2 DEF FilesOK, InUse
  <2>. QED
    BY Zenon, <1>2, <2>2, <2>3
<1>8. ASSUME NEW a \in Fds, NEW b \in Fds, og[0][a] # None, og[0][a] = og[0][b] PROVE a = b
  <2>1. a # fd /\ b # fd
    BY Zenon, <1>3, <1>8
  <2>2. og[0][a] = of[0][a] /\ og[0][b] = of[0][b]
    BY Zenon, <1>3, <2>1
  <2>3. of[0][a] # None /\ of[0][a] = of[0][b]
    BY Zenon, <1>8, <2>2
  <2>. QED
    BY Zenon, <2>3 DEF FilesOK, NotShared
<1>9. ASSUME NEW g \in FileTable, gt[g].count = 1
      PROVE  gt[g].inode \in Inodes /\ \E b \in Fds : og[0][b] = g
  <2>1. g # f
    BY <1>2, <1>9, <1>e
  <2>2. ft[g] = gt[g] /\ ft[g].count = 1
    BY Zenon, <1>2, <1>9, <2>1
  <2>3. ft[g].inode \in Inodes
    BY Zenon, <2>2 DEF FilesOK, NotLeaked
  <2>4. PICK b \in Fds : of[0][b] = g
    BY Zenon, <2>2 DEF FilesOK, NotLeaked
  <2>5. b # fd
    BY Zenon, <2>1, <2>4
  <2>. QED
    BY Zenon, <1>3, <2>2, <2>3, <2>4, <2>5
<1>4. ASSUME NEW i \in Inodes
      PROVE  jno[i] \in Nat /\ jno[i] = Cardinality(OpenOn(gt, i)) + Mounts(i)
  <2>1. ino[i] = Cardinality(OpenOn(ft, i)) + Mounts(i)
    BY Zenon DEF FilesOK, CountedBy
  <2>a. ~(NoFile.count > 0)
    BY <1>e
  <2>2. CASE i # n
    <3>1. OpenOn(gt, i) = OpenOn(ft, i)
      <4>1. ASSUME NEW g PROVE g \in OpenOn(gt, i) <=> g \in OpenOn(ft, i)
        <5>1. CASE g = f
          BY Zenon, <1>2, <2>2, <2>a, <5>1 DEF OpenOn
        <5>2. CASE g # f
          BY Zenon, <1>2, <5>2 DEF OpenOn
        <5>. QED
          BY Zenon, <5>1, <5>2
      <4>. QED
        BY Zenon, <4>1
    <3>2. jno[i] = ino[i] /\ ino[i] \in Nat
      BY Zenon, <1>1, <2>2
    <3>. QED
      BY Zenon, <2>1, <3>1, <3>2
  <2>3. CASE i = n
    <3>1. ft[f].count > 0
      BY <1>c
    <3>2. f \in OpenOn(ft, i)
      BY Zenon, <1>f, <2>3, <3>1 DEF OpenOn
    <3>3. OpenOn(gt, i) = OpenOn(ft, i) \ {f}
      <4>1. ASSUME NEW g PROVE g \in OpenOn(gt, i) <=> g \in OpenOn(ft, i) /\ g # f
        <5>1. CASE g = f
          BY Zenon, <1>2, <2>a, <5>1 DEF OpenOn
        <5>2. CASE g # f
          BY Zenon, <1>2, <5>2 DEF OpenOn
        <5>. QED
          BY Zenon, <5>1, <5>2
      <4>. QED
        BY Zenon, <4>1
    <3>4. Cardinality(OpenOn(gt, i)) = Cardinality(OpenOn(ft, i)) - 1
      BY Zenon, <3>2, <3>3, Counted, FS_RemoveElement
    <3>5. Cardinality(OpenOn(ft, i)) \in Nat /\ Cardinality(OpenOn(gt, i)) \in Nat /\ Mounts(i) \in Nat
      BY Counted DEF Mounts
    <3>6. jno[i] = ino[i] - 1
      BY Zenon, <1>1, <1>n, <2>3
    <3>. QED
      BY <2>1, <3>4, <3>5, <3>6
  <2>. QED
    BY Zenon, <2>2, <2>3
<1>10. Tables(gt, og, jno)
  <2>1. jno \in [Inodes -> Nat]
    <3>1. DOMAIN jno = Inodes /\ jno = [i \in DOMAIN jno |-> jno[i]]
      BY Zenon, <1>1
    <3>. QED
      BY Zenon, <1>4, <3>1
  <2>. QED
    BY Zenon, <1>2, <1>3, <2>1 DEF Tables
<1>11. OneProcess(og)
  BY Zenon, <1>3 DEF FilesOK, OneProcess
<1>12. InUse(gt, og) /\ NotShared(og) /\ NotLeaked(gt, og) /\ CountedBy(gt, jno)
  BY Zenon, <1>7, <1>8, <1>9, <1>4 DEF InUse, NotShared, NotLeaked, CountedBy
<1>. QED
  BY Zenon, <1>10, <1>11, <1>12, <1>f, <1>n DEF FilesOK

-----------------------------------------------------------------------------
(***************************************************************************)
(* The descriptors of the clients, and their connections.                  *)
(***************************************************************************)

\* The number of descriptors of a client.
LEMMA Descriptors ==
  ASSUME NEW D, D \in SUBSET Fds
  PROVE  IsFiniteSet(D) /\ Cardinality(D) \in Nat
BY Zenon, Indexes, FS_Subset, FS_CardinalityType

\* A client opens a file: it gets a descriptor that no client has.
LEMMA ClientOpens ==
  ASSUME NEW of, NEW og, NEW conns, NEW held, NEW kept, NEW c, NEW fd, NEW f,
         ClientsOK(of, conns, held), c \in Clients, connect_ret(conns, c) = 0,
         fd \in Fds, of[0][fd] = None, f # None, og[0][fd] = f,
         \A b \in Fds \ {fd} : og[0][b] = of[0][b],
         kept = [held EXCEPT ![c] = @ \cup {fd}]
  PROVE  ClientsOK(og, connect(conns, c), kept)
<1>. DEFINE u == connect(conns, c)
<1>1. ConnTable(Connections, Clients, conns) /\ held \in [Clients -> SUBSET Fds]
  BY Zenon DEF ClientsOK
<1>2. /\ ConnTable(Connections, Clients, u) /\ OneMore(Connections, conns, u, c)
      /\ OthersKeep(Clients, conns, u, c)
  BY Zenon, <1>1, Connected
<1>. HIDE DEF u
<1>3. /\ kept \in [Clients -> SUBSET Fds] /\ kept[c] = held[c] \cup {fd}
      /\ \A d \in Clients \ {c} : kept[d] = held[d]
  BY Zenon, <1>1
<1>4. \A d \in Clients : fd \notin held[d]
  BY Zenon DEF ClientsOK
<1>5. ASSUME NEW d \in Clients, NEW b \in kept[d] PROVE og[0][b] # None
  <2>1. CASE b = fd
    BY Zenon, <2>1
  <2>2. CASE b # fd
    <3>1. b \in held[d] /\ b \in Fds
      BY Zenon, <1>3, <2>2
    <3>. QED
      BY Zenon, <2>2, <3>1 DEF ClientsOK
  <2>. QED
    BY Zenon, <2>1, <2>2
<1>6. ASSUME NEW d \in Clients, NEW e \in Clients, d # e PROVE kept[d] \cap kept[e] = {}
  <2>1. held[d] \cap held[e] = {}
    BY Zenon, <1>6 DEF ClientsOK
  <2>. QED
    BY ZenonT(40), <1>3, <1>4, <1>6, <2>1
<1>7. ASSUME NEW d \in Clients PROVE ConnectionsOf(u, d) = Cardinality(kept[d])
  <2>1. ConnectionsOf(conns, d) = Cardinality(held[d])
    BY Zenon DEF ClientsOK
  <2>2. CASE d = c
    <3>1. Cardinality(kept[c]) = Cardinality(held[c]) + 1
      BY Zenon, <1>1, <1>3, <1>4, Descriptors, FS_AddElement
    <3>. QED
      BY Zenon, <1>2, <2>1, <2>2, <3>1 DEF OneMore
  <2>3. CASE d # c
    BY Zenon, <1>2, <1>3, <2>1, <2>3 DEF OthersKeep
  <2>. QED
    BY Zenon, <2>2, <2>3
<1>. QED
  BY Zenon, <1>2, <1>3, <1>5, <1>6, <1>7 DEF ClientsOK, u

\* A client closes a descriptor that it has.
LEMMA ClientCloses ==
  ASSUME NEW of, NEW og, NEW conns, NEW held, NEW kept, NEW c, NEW fd,
         ClientsOK(of, conns, held), c \in Clients, fd \in held[c],
         \A b \in Fds \ {fd} : og[0][b] = of[0][b],
         kept = [held EXCEPT ![c] = @ \ {fd}]
  PROVE  ClientsOK(og, disconnect(conns, c), kept)
<1>. DEFINE u == disconnect(conns, c)
<1>1. ConnTable(Connections, Clients, conns) /\ held \in [Clients -> SUBSET Fds]
  BY Zenon DEF ClientsOK
<1>2. /\ kept \in [Clients -> SUBSET Fds] /\ kept[c] = held[c] \ {fd}
      /\ \A d \in Clients \ {c} : kept[d] = held[d]
  BY Zenon, <1>1
<1>3. /\ Cardinality(kept[c]) = Cardinality(held[c]) - 1
      /\ Cardinality(kept[c]) \in Nat /\ Cardinality(held[c]) \in Nat
  BY ZenonT(40), <1>1, <1>2, Descriptors, FS_RemoveElement
<1>4. ConnectionsOf(conns, c) = Cardinality(held[c])
  BY Zenon DEF ClientsOK
<1>5. ConnectionsOf(conns, c) # 0 /\ Cardinality(held[c]) = Cardinality(kept[c]) + 1
  BY <1>3, <1>4
<1>6. /\ ConnTable(Connections, Clients, u) /\ OneMore(Connections, u, conns, c)
      /\ OthersKeep(Clients, conns, u, c)
  BY Zenon, <1>1, <1>5, Disconnected
<1>. HIDE DEF u
<1>7. \A d \in Clients \ {c} : fd \notin held[d]
  BY Zenon DEF ClientsOK
<1>8. ASSUME NEW d \in Clients, NEW b \in kept[d] PROVE og[0][b] # None
  <2>1. b \in held[d] /\ b \in Fds /\ b # fd
    BY Zenon, <1>1, <1>2, <1>7
  <2>. QED
    BY Zenon, <2>1 DEF ClientsOK
<1>9. ASSUME NEW d \in Clients, NEW e \in Clients, d # e PROVE kept[d] \cap kept[e] = {}
  <2>1. held[d] \cap held[e] = {}
    BY Zenon, <1>9 DEF ClientsOK
  <2>. QED
    BY Zenon, <1>2, <1>9, <2>1
<1>10. ASSUME NEW d \in Clients PROVE ConnectionsOf(u, d) = Cardinality(kept[d])
  <2>1. CASE d = c
    <3>1. ConnectionsOf(conns, c) = ConnectionsOf(u, c) + 1 /\ ConnectionsOf(u, c) \in Nat
      BY Zenon, <1>6, ConnectionsNat DEF OneMore
    <3>. QED
      BY <1>3, <1>4, <2>1, <3>1
  <2>2. CASE d # c
    BY Zenon, <1>2, <1>6, <2>2 DEF OthersKeep, ClientsOK
  <2>. QED
    BY Zenon, <2>1, <2>2
<1>. QED
  BY Zenon, <1>2, <1>6, <1>8, <1>9, <1>10 DEF ClientsOK, u

\* A failed open leaves every client as often connected as it was.
LEMMA ClientRefused ==
  ASSUME NEW of, NEW conns, NEW held, NEW c, ClientsOK(of, conns, held), c \in Clients,
         connect_ret(conns, c) = 0
  PROVE  ClientsOK(of, disconnect(connect(conns, c), c), held)
<1>1. ConnTable(Connections, Clients, conns)
  BY Zenon DEF ClientsOK
<1>2. PICK u : u = connect(conns, c)
  BY Zenon
<1>3. /\ ConnTable(Connections, Clients, u) /\ OneMore(Connections, conns, u, c)
      /\ OthersKeep(Clients, conns, u, c)
  BY Zenon, <1>1, <1>2, Connected
<1>4. ConnectionsOf(u, c) = ConnectionsOf(conns, c) + 1 /\ ConnectionsOf(conns, c) \in Nat
  BY Zenon, <1>1, <1>3, ConnectionsNat DEF OneMore
<1>5. PICK v : v = disconnect(u, c)
  BY Zenon
<1>6. ConnectionsOf(u, c) # 0
  BY <1>4
<1>7. ConnTable(Connections, Clients, v) /\ OneMore(Connections, v, u, c) /\ OthersKeep(Clients, u, v, c)
  BY Zenon, <1>3, <1>5, <1>6, Disconnected
<1>8. ConnectionsOf(u, c) = ConnectionsOf(v, c) + 1 /\ ConnectionsOf(v, c) \in Nat
  BY Zenon, <1>7, ConnectionsNat DEF OneMore
<1>9. ConnectionsOf(v, c) = ConnectionsOf(conns, c)
  BY <1>4, <1>8
<1>10. \A d \in Clients : ConnectionsOf(v, d) = ConnectionsOf(conns, d)
  BY Zenon, <1>3, <1>7, <1>9 DEF OthersKeep
<1>. QED
  BY Zenon, <1>2, <1>5, <1>7, <1>10 DEF ClientsOK

-----------------------------------------------------------------------------
(***************************************************************************)
(* The file system: minix_mkfs() makes a root directory whose entries lead *)
(* to inodes.                                                              *)
(***************************************************************************)

\* Entry i of a directory with d entries to a block is in block i \div d.
LEMMA Quotient ==
  ASSUME NEW i, NEW d, NEW m, i \in Nat, d \in Nat \ {0}, m \in Nat
  PROVE  /\ i \div d \in Nat /\ i % d \in 0 .. d - 1
         /\ i < m * d => i \div d < m
         /\ m * d <= i => m <= i \div d
<1>1. i \div d \in Nat /\ i % d \in 0 .. d - 1 /\ i = d * (i \div d) + (i % d)
  BY SMT
<1>2. PICK q \in Nat, r \in 0 .. d - 1 : q = i \div d /\ i = d * q + r
  BY <1>1
<1>3. i < m * d => q < m
  BY <1>2, SMT
<1>4. m * d <= i => m <= q
  BY <1>2, SMT
<1>. QED
  BY <1>1, <1>2, <1>3, <1>4

\* The directory dip of file system x, whose first m zones have blocks and
\* whose entries all have an inode.
Mapped(zones, m) ==
  /\ zones \in [0 .. s_nblocks - 1 -> 0 .. s_nblocks]
  /\ \A l \in 0 .. s_nblocks - 1 :
       (l < m => zones[l] \in MinixBlocks) /\ (l >= m => zones[l] = MINIX_BLOCK_NULL)
NoFree(x, dip) == \A i \in Entries(dip) : Dirent(x, dip, i).ino # MINIX_INODE_NULL
DirOK(x, dip, m) ==
  /\ x \in FsType /\ dip \in DiskInode
  /\ m \in 0 .. s_nblocks /\ x.bmap = 1 .. m /\ dip.size <= m * DirentsPerBlock
  /\ Mapped(dip.zones, m)
  /\ NoFree(x, dip)

\* What minix_block_map() gives back, if it finds or allocates a block for the
\* entry that is added.
NewBlock(x, dip, m, r) ==
  /\ r = [fs |-> r.fs, dip |-> r.dip, blk |-> r.blk]
  /\ r.blk \in MinixBlocks /\ r.blk = r.dip.zones[dip.size \div DirentsPerBlock]
  /\ r.fs \in FsType /\ r.fs.imap = x.imap /\ r.fs.inodes = x.inodes /\ r.fs.dirents = x.dirents
  /\ r.dip \in DiskInode /\ r.dip.size = dip.size /\ r.dip.nlinks = dip.nlinks
  /\ \A l \in 0 .. m - 1 : r.dip.zones[l] = dip.zones[l]
  /\ \E n \in 0 .. s_nblocks : /\ r.fs.bmap = 1 .. n /\ Mapped(r.dip.zones, n)
                               /\ dip.size + 1 <= n * DirentsPerBlock

\* It does, if there are enough blocks.
LEMMA BlockMapped ==
  ASSUME NEW x, NEW dip, NEW m, NEW create, DirOK(x, dip, m),
         dip.size < s_nblocks * DirentsPerBlock, create
  PROVE  NewBlock(x, dip, m, minix_block_map(x, dip, dip.size, create))
<1>. DEFINE d == DirentsPerBlock
            logic == dip.size \div d
            free == MinixBlocks \ x.bmap
<1>1. /\ x \in FsType /\ dip \in DiskInode /\ m \in 0 .. s_nblocks /\ x.bmap = 1 .. m
      /\ dip.size <= m * d /\ Mapped(dip.zones, m)
  BY Zenon DEF DirOK
<1>2. d \in Nat \ {0} /\ s_nblocks \in Nat /\ m \in Nat /\ dip.size \in Nat
  BY <1>1, MinixAssumption DEF DiskInode
<1>3. logic \in 0 .. s_nblocks - 1
  <2>1. logic \in Nat /\ logic < s_nblocks
    BY Zenon, <1>2, Quotient
  <2>. QED
    BY <1>2, <2>1
<1>4. dip.zones \in [0 .. s_nblocks - 1 -> 0 .. s_nblocks]
  BY Zenon, <1>1 DEF Mapped
<1>5. CASE logic < m
  <2>1. dip.zones[logic] \in MinixBlocks
    BY Zenon, <1>1, <1>3, <1>5 DEF Mapped
  <2>2. dip.zones[logic] # MINIX_BLOCK_NULL
    BY <2>1 DEF MinixBlocks, MINIX_BLOCK_NULL
  <2>3. PICK r : r = [fs |-> x, dip |-> dip, blk |-> dip.zones[logic]]
    BY Zenon
  <2>b. r = [fs |-> r.fs, dip |-> r.dip, blk |-> r.blk]
    BY Zenon, <2>3
  <2>a. minix_block_map(x, dip, dip.size, create) = r
    BY Zenon, <2>2, <2>3 DEF minix_block_map
  <2>4. r.fs = x /\ r.dip = dip /\ r.blk = dip.zones[logic]
    BY Zenon, <2>3
  <2>5. dip.size + 1 <= m * d
    <3>1. dip.size # m * d
      BY <1>2, <1>5, Quotient
    <3>2. PICK k \in Nat : k = m * d
      BY <1>2
    <3>. QED
      BY <1>1, <1>2, <3>1, <3>2
  <2>. QED
    BY Zenon, <1>1, <2>1, <2>4, <2>5, <2>a, <2>b DEF NewBlock
<1>6. CASE ~(logic < m)
  <2>1. logic >= m /\ logic = m
    <3>1. logic \in Nat /\ logic >= m
      BY <1>2, <1>3, <1>6
    <3>2. dip.size < (m + 1) * d
      <4>1. (m + 1) * d = m * d + d /\ m * d \in Nat
        BY <1>2
      <4>. QED
        BY <1>1, <1>2, <4>1
    <3>3. logic < m + 1
      <4>1. m + 1 \in Nat
        BY <1>2
      <4>. QED
        BY Zenon, <1>2, <3>2, <4>1, Quotient
    <3>. QED
      BY <1>2, <3>1, <3>3
  <2>2. dip.zones[logic] = MINIX_BLOCK_NULL
    BY Zenon, <1>1, <1>3, <2>1 DEF Mapped
  <2>3. m + 1 \in free /\ free \in SUBSET Nat
    BY <1>1, <1>2, <1>3, <2>1 DEF MinixBlocks
  <2>4. First(free) \in free /\ First(free) <= m + 1
    BY Zenon, <2>3, FirstIsLeast
  <2>5. First(free) = m + 1
    BY <1>1, <1>2, <2>4 DEF MinixBlocks
  <2>6. PICK r :
          r = [fs |-> [x EXCEPT !.bmap = x.bmap \cup {m + 1}],
               dip |-> [dip EXCEPT !.zones = [dip.zones EXCEPT ![logic] = m + 1]], blk |-> m + 1]
    BY Zenon
  <2>b. r = [fs |-> r.fs, dip |-> r.dip, blk |-> r.blk]
    BY Zenon, <2>6
  <2>a. minix_block_map(x, dip, dip.size, create) = r
    BY Zenon, <2>2, <2>3, <2>5, <2>6 DEF minix_block_map
  <2>7. PICK z : z = [dip.zones EXCEPT ![logic] = m + 1]
    BY Zenon
  <2>8. /\ m + 1 \in MinixBlocks /\ m + 1 \in 0 .. s_nblocks /\ m + 1 \in Nat
        /\ x.bmap \cup {m + 1} = 1 .. m + 1 /\ 1 .. m + 1 \subseteq MinixBlocks
    BY <1>1, <1>2, <2>3 DEF MinixBlocks
  <2>9. /\ z \in [0 .. s_nblocks - 1 -> 0 .. s_nblocks] /\ z[logic] = m + 1
        /\ \A l \in (0 .. s_nblocks - 1) \ {logic} : z[l] = dip.zones[l]
    BY Zenon, <1>3, <1>4, <2>7, <2>8
  <2>10. Mapped(z, m + 1)
    <3>1. ASSUME NEW l \in 0 .. s_nblocks - 1
          PROVE  (l < m + 1 => z[l] \in MinixBlocks) /\ (l >= m + 1 => z[l] = MINIX_BLOCK_NULL)
      <4>1. CASE l = logic
        BY <1>2, <2>1, <2>8, <2>9, <4>1
      <4>2. CASE l # logic
        <5>1. (l < m + 1 => l < m) /\ (l >= m + 1 => l >= m)
          BY <1>2, <2>1, <4>2
        <5>. QED
          BY Zenon, <1>1, <2>9, <4>2, <5>1 DEF Mapped
      <4>. QED
        BY Zenon, <4>1, <4>2
    <3>. QED
      BY Zenon, <2>9, <3>1 DEF Mapped
  <2>11. \A l \in 0 .. m - 1 : z[l] = dip.zones[l]
    <3>1. \A l \in 0 .. m - 1 : l \in (0 .. s_nblocks - 1) \ {logic}
      BY <1>1, <1>2, <2>1
    <3>. QED
      BY Zenon, <2>9, <3>1
  <2>12. dip.size + 1 <= (m + 1) * d
    <3>1. (m + 1) * d = m * d + d /\ m * d \in Nat
      BY <1>2
    <3>. QED
      BY <1>1, <1>2, <3>1
  <2>13. /\ r.blk = m + 1 /\ r.fs = [x EXCEPT !.bmap = 1 .. m + 1]
         /\ r.dip = [dip EXCEPT !.zones = z]
    BY Zenon, <2>6, <2>7, <2>8
  <2>14. /\ r.fs \in FsType /\ r.fs.imap = x.imap /\ r.fs.inodes = x.inodes
         /\ r.fs.dirents = x.dirents /\ r.fs.bmap = 1 .. m + 1
    BY <1>1, <2>8, <2>13 DEF FsType
  <2>15. r.dip \in DiskInode /\ r.dip.size = dip.size /\ r.dip.nlinks = dip.nlinks /\ r.dip.zones = z
    BY <1>1, <2>9, <2>13 DEF DiskInode
  <2>. QED
    BY Zenon, <2>8, <2>9, <2>10, <2>11, <2>12, <2>13, <2>14, <2>15, <2>a, <2>b DEF NewBlock
<1>. QED
  BY Zenon, <1>5, <1>6

\* minix_dirent_add() of an entry with an inode, if there are enough blocks:
\* what it gives back is again a directory whose entries have inodes.
Added(x, dip, r) ==
  /\ \E n : DirOK(r.fs, r.dip, n)
  /\ r.fs.imap = x.imap /\ r.fs.inodes = x.inodes
  /\ r.dip.size \in {dip.size, dip.size + 1}

\* minix_dirent_add() does so while there is room.
LEMMA EntryAdded ==
  ASSUME NEW x, NEW dip, NEW m, NEW name, NEW num, DirOK(x, dip, m),
         dip.size < s_nblocks * DirentsPerBlock, name \in DirNames, num \in Inodes
  PROVE  Added(x, dip, minix_dirent_add(x, dip, name, num))
<1>. DEFINE d == DirentsPerBlock
<1>1. /\ x \in FsType /\ dip \in DiskInode /\ m \in 0 .. s_nblocks
      /\ dip.size <= m * d /\ Mapped(dip.zones, m) /\ NoFree(x, dip)
  BY Zenon DEF DirOK
<1>2. d \in Nat \ {0} /\ s_nblocks \in Nat /\ m \in Nat /\ dip.size \in Nat
  BY <1>1, MinixAssumption DEF DiskInode
<1>3. CASE NamedEntries(x, dip, name) # {}
  <2>1. PICK r : r = [fs |-> x, dip |-> dip]
    BY Zenon
  <2>2. r.fs = x /\ r.dip = dip
    BY <2>1
  <2>3. minix_dirent_add(x, dip, name, num) = r
    BY Zenon, <1>3, <2>1 DEF minix_dirent_add
  <2>. QED
    BY Zenon, <2>2, <2>3 DEF Added
<1>4. CASE NamedEntries(x, dip, name) = {}
  <2>1. FreeEntries(x, dip) = {}
    BY Zenon, <1>1 DEF FreeEntries, NoFree
  <2>2. PICK b : b = minix_block_map(x, dip, dip.size, TRUE)
    BY Zenon
  <2>3. NewBlock(x, dip, m, b)
    BY Zenon, <2>2, BlockMapped
  <2>4. /\ b = [fs |-> b.fs, dip |-> b.dip, blk |-> b.blk]
        /\ b.blk \in MinixBlocks /\ b.blk = b.dip.zones[dip.size \div d]
        /\ b.fs \in FsType /\ b.fs.imap = x.imap /\ b.fs.inodes = x.inodes /\ b.fs.dirents = x.dirents
        /\ b.dip \in DiskInode /\ b.dip.size = dip.size
        /\ \A l \in 0 .. m - 1 : b.dip.zones[l] = dip.zones[l]
    BY Zenon, <2>3 DEF NewBlock
  <2>5. PICK n \in 0 .. s_nblocks : /\ b.fs.bmap = 1 .. n /\ Mapped(b.dip.zones, n)
                                    /\ dip.size + 1 <= n * d
    BY Zenon, <2>3 DEF NewBlock
  <2>6. PICK e : e = NewEntry(x, dip)
    BY Zenon
  <2>7. /\ e.entry = dip.size /\ e.fs = b.fs /\ e.blk = b.blk
        /\ e.dip = [b.dip EXCEPT !.size = b.dip.size + 1]
    <3>1. PICK c : c = [b EXCEPT !.dip.size = @ + 1]
      BY Zenon
    <3>2. e = Placed(dip.size, c)
      BY Zenon, <2>1, <2>2, <2>6, <3>1 DEF NewEntry
    <3>3. c.fs = b.fs /\ c.blk = b.blk /\ c.dip = [b.dip EXCEPT !.size = b.dip.size + 1]
      BY Zenon, <2>4, <3>1
    <3>4. PICK g : g = [entry |-> dip.size, fs |-> c.fs, dip |-> c.dip, blk |-> c.blk]
      BY Zenon
    <3>5. g.entry = dip.size /\ g.fs = c.fs /\ g.dip = c.dip /\ g.blk = c.blk
      BY <3>4
    <3>6. e = g
      BY Zenon, <3>2, <3>4 DEF Placed
    <3>. QED
      BY Zenon, <3>3, <3>5, <3>6
  <2>8. PICK t : t = dip.size % d
    BY Zenon
  <2>9. PICK en : en = [ino |-> num, name |-> name]
    BY Zenon
  <2>10. PICK dir : dir = [x.dirents EXCEPT ![b.blk] = [x.dirents[b.blk] EXCEPT ![t] = en]]
    BY Zenon
  <2>11. PICK y : y = [b.fs EXCEPT !.dirents = dir]
    BY Zenon
  <2>12. PICK z : z = [[b.dip EXCEPT !.size = b.dip.size + 1] EXCEPT !.nlinks = @ + 1]
    BY Zenon
  <2>13. PICK r : r = [fs |-> y, dip |-> z]
    BY Zenon
  <2>14. minix_dirent_add(x, dip, name, num) = r
    BY ZenonT(40), <1>4, <2>4, <2>6, <2>7, <2>8, <2>9, <2>10, <2>11, <2>12, <2>13 DEF minix_dirent_add
  <2>15. r.fs = y /\ r.dip = z
    BY <2>13
  <2>16. /\ z \in DiskInode /\ z.size = dip.size + 1 /\ z.zones = b.dip.zones
    <3>a. PICK bd : bd = b.dip
      BY Zenon
    <3>b. PICK k \in Nat : k = dip.size + 1
      BY <1>2
    <3>c. bd \in DiskInode
      BY Zenon, <2>4, <3>a
    <3>1. PICK z1 : z1 = [bd EXCEPT !.size = k]
      BY Zenon
    <3>d. z1 \in DiskInode /\ z1.size = k /\ z1.zones = bd.zones
      BY <3>c, <3>1 DEF DiskInode
    <3>2. z1 = [b.dip EXCEPT !.size = b.dip.size + 1]
      BY Zenon, <2>4, <3>a, <3>b, <3>1
    <3>3. z = [z1 EXCEPT !.nlinks = z1.nlinks + 1]
      BY Zenon, <2>12, <3>2
    <3>4. z \in DiskInode /\ z.size = z1.size /\ z.zones = z1.zones
      BY <3>3, <3>d DEF DiskInode
    <3>. QED
      BY Zenon, <3>4, <3>a, <3>b, <3>d
  <2>17. t \in Slots /\ en \in DirEntry /\ en.ino # MINIX_INODE_NULL
    <3>1. t \in 0 .. d - 1
      BY Zenon, <1>2, <2>8, Quotient
    <3>2. en \in DirEntry /\ en.ino = num
      BY <2>9 DEF DirEntry
    <3>. QED
      BY Zenon, <3>1, <3>2, Indexes DEF Slots
  <2>18. x.dirents \in [MinixBlocks -> [Slots -> DirEntry]]
    BY <1>1 DEF FsType
  <2>19. /\ dir \in [MinixBlocks -> [Slots -> DirEntry]] /\ dir[b.blk][t] = en
         /\ \A k \in MinixBlocks, j \in Slots : dir[k][j] = en \/ dir[k][j] = x.dirents[k][j]
    <3>1. PICK row : row = [x.dirents[b.blk] EXCEPT ![t] = en]
      BY Zenon
    <3>2. x.dirents[b.blk] \in [Slots -> DirEntry]
      BY Zenon, <2>4, <2>18
    <3>3. /\ row \in [Slots -> DirEntry] /\ row[t] = en
          /\ \A j \in Slots : row[j] = en \/ row[j] = x.dirents[b.blk][j]
      BY Zenon, <2>17, <3>1, <3>2
    <3>4. dir \in [MinixBlocks -> [Slots -> DirEntry]] /\ dir[b.blk] = row
          /\ \A k \in MinixBlocks \ {b.blk} : dir[k] = x.dirents[k]
      BY Zenon, <2>4, <2>10, <2>18, <3>1, <3>3
    <3>. QED
      BY Zenon, <3>3, <3>4
  <2>20. y \in FsType /\ y.imap = x.imap /\ y.inodes = x.inodes /\ y.bmap = 1 .. n /\ y.dirents = dir
    BY SMTT(30), <2>4, <2>5, <2>11, <2>19 DEF FsType
  <2>21. NoFree(y, z)
    <3>. SUFFICES ASSUME NEW i \in Entries(z)
                  PROVE  Dirent(y, z, i).ino # MINIX_INODE_NULL
      BY Zenon DEF NoFree
    <3>1. i \in Nat /\ (i = dip.size \/ i \in Entries(dip))
      BY <1>2, <2>16 DEF Entries
    <3>2. Dirent(y, z, i) = dir[b.dip.zones[i \div d]][i % d]
      BY Zenon, <2>16, <2>20 DEF Dirent
    <3>3. CASE i = dip.size
      BY Zenon, <2>4, <2>8, <2>17, <2>19, <3>2, <3>3
    <3>4. CASE i \in Entries(dip)
      <4>1. i < m * d
        <5>1. m * d \in Nat /\ i < dip.size
          BY <1>2, <3>1, <3>4 DEF Entries
        <5>. QED
          BY <1>1, <1>2, <3>1, <5>1
      <4>2. i \div d \in Nat /\ i \div d < m /\ i % d \in 0 .. d - 1
        BY Zenon, <1>2, <3>1, <4>1, Quotient
      <4>3. PICK l : l = i \div d
        BY Zenon
      <4>4. l \in 0 .. m - 1 /\ l \in 0 .. s_nblocks - 1 /\ l < m
        BY <1>1, <1>2, <4>2, <4>3
      <4>5. b.dip.zones[l] = dip.zones[l] /\ dip.zones[l] \in MinixBlocks
        BY Zenon, <1>1, <2>4, <4>4 DEF Mapped
      <4>6. i % d \in Slots
        BY Zenon, <4>2 DEF Slots
      <4>7. Dirent(x, dip, i) = x.dirents[dip.zones[l]][i % d]
        BY Zenon, <4>3 DEF Dirent
      <4>8. Dirent(x, dip, i).ino # MINIX_INODE_NULL
        BY Zenon, <1>1, <3>4 DEF NoFree
      <4>9. Dirent(y, z, i) = en \/ Dirent(y, z, i) = Dirent(x, dip, i)
        BY Zenon, <2>19, <3>2, <4>3, <4>5, <4>6, <4>7
      <4>. QED
        BY Zenon, <2>17, <4>8, <4>9
    <3>. QED
      BY Zenon, <3>1, <3>3, <3>4
  <2>22. DirOK(y, z, n)
    BY Zenon, <2>5, <2>16, <2>20, <2>21 DEF DirOK
  <2>. QED
    BY Zenon, <2>14, <2>15, <2>16, <2>20, <2>22 DEF Added
<1>. QED
  BY Zenon, <1>3, <1>4

\* From x to y, the inode num is written, and nothing else.
Wrote(x, y, ip, num) ==
  /\ y \in FsType /\ y.imap = x.imap /\ y.bmap = x.bmap /\ y.dirents = x.dirents
  /\ y.inodes[num] = ip

\* minix_inode_write() does so.
LEMMA InodeWritten ==
  ASSUME NEW x, NEW ip, NEW num, x \in FsType, ip \in DiskInode, num \in Inodes
  PROVE  Wrote(x, minix_inode_write(x, ip, num), ip, num)
<1>1. x.inodes \in [Inodes -> DiskInode]
  BY DEF FsType
<1>2. PICK f : f = [x.inodes EXCEPT ![num] = ip]
  BY Zenon
<1>3. f \in [Inodes -> DiskInode] /\ f[num] = ip
  BY Zenon, <1>1, <1>2
<1>4. PICK y : y = [x EXCEPT !.inodes = f]
  BY Zenon
<1>5. /\ y \in FsType /\ y.imap = x.imap /\ y.bmap = x.bmap /\ y.dirents = x.dirents
      /\ y.inodes = f
  BY <1>3, <1>4 DEF FsType
<1>6. minix_inode_write(x, ip, num) = y
  BY Zenon, <1>2, <1>4 DEF minix_inode_write
<1>. QED
  BY Zenon, <1>3, <1>5, <1>6 DEF Wrote

\* minix_inode_alloc(), if an inode is free: the inode has no entries and no
\* blocks.
Allocated(x, r) ==
  /\ r.num \in Inodes \ x.imap
  /\ \A n \in Inodes \ x.imap : r.num <= n
  /\ r.fs \in FsType /\ r.fs.imap = x.imap \cup {r.num} /\ r.fs.bmap = x.bmap
  /\ r.fs.dirents = x.dirents /\ r.fs.inodes[r.num].size = 0 /\ Mapped(r.fs.inodes[r.num].zones, 0)

\* minix_inode_alloc() does so while there is a free inode.
LEMMA InodeAllocated ==
  ASSUME NEW x, NEW mode, x \in FsType, mode \in Modes, Inodes \ x.imap # {}
  PROVE  Allocated(x, minix_inode_alloc(x, mode))
<1>1. PICK free : free = Inodes \ x.imap
  BY Zenon
<1>2. free \in SUBSET Nat /\ free # {}
  BY <1>1 DEF Inodes
<1>3. PICK num : num = First(free)
  BY Zenon
<1>4. num \in free /\ \A n \in free : num <= n
  BY Zenon, <1>2, <1>3, FirstIsLeast
<1>5. PICK z : z = [k \in 0 .. s_nblocks - 1 |-> MINIX_BLOCK_NULL]
  BY Zenon
<1>6. Mapped(z, 0) /\ z \in [0 .. s_nblocks - 1 -> 0 .. s_nblocks]
  BY <1>5, MinixAssumption DEF Mapped, MINIX_BLOCK_NULL
<1>7. PICK ip : ip = [NoInode EXCEPT !.mode = mode, !.nlinks = 1]
  BY Zenon
<1>8. ip = [mode |-> mode, size |-> 0, nlinks |-> 1, zones |-> z]
  BY Zenon, <1>5, <1>7 DEF NoInode
<1>9. ip \in DiskInode /\ ip.size = 0 /\ ip.zones = z
  BY <1>6, <1>8 DEF DiskInode
<1>10. PICK y : y = minix_inode_write(x, ip, num)
  BY Zenon
<1>11. num \in Inodes
  BY Zenon, <1>1, <1>4
<1>a. Wrote(x, y, ip, num)
  BY Zenon, <1>9, <1>10, <1>11, InodeWritten
<1>12. /\ y \in FsType /\ y.imap = x.imap /\ y.bmap = x.bmap /\ y.dirents = x.dirents
       /\ y.inodes[num] = ip
  BY Zenon, <1>a DEF Wrote
<1>13. PICK v : v = [y EXCEPT !.imap = x.imap \cup {num}]
  BY Zenon
<1>14. x.imap \cup {num} \in SUBSET Inodes
  BY <1>11 DEF FsType
<1>15. PICK im : im = x.imap \cup {num}
  BY Zenon
<1>16. /\ v \in FsType /\ v.imap = im /\ v.bmap = y.bmap /\ v.dirents = y.dirents
       /\ v.inodes = y.inodes
  <2>1. v = [y EXCEPT !.imap = im] /\ im \in SUBSET Inodes
    BY Zenon, <1>13, <1>14, <1>15
  <2>. QED
    BY <1>12, <2>1 DEF FsType
<1>17. PICK r : r = [fs |-> v, num |-> num]
  BY Zenon
<1>18. r.fs = v /\ r.num = num
  BY <1>17
<1>19. minix_inode_alloc(x, mode) = r
  BY Zenon, <1>1, <1>2, <1>3, <1>7, <1>10, <1>12, <1>13, <1>17 DEF minix_inode_alloc
<1>. QED
  BY Zenon, <1>1, <1>4, <1>6, <1>9, <1>12, <1>15, <1>16, <1>18, <1>19 DEF Allocated

\* minix_dirent_search() finds an inode, or none.
LEMMA SearchFinds ==
  ASSUME NEW x, NEW dip, NEW m, NEW name, DirOK(x, dip, m)
  PROVE  minix_dirent_search(x, dip, name) \in Inodes \cup {MINIX_INODE_NULL}
<1>. DEFINE d == DirentsPerBlock
<1>1. /\ x \in FsType /\ dip \in DiskInode /\ m \in 0 .. s_nblocks
      /\ dip.size <= m * d /\ Mapped(dip.zones, m)
  BY Zenon DEF DirOK
<1>2. d \in Nat \ {0} /\ s_nblocks \in Nat /\ m \in Nat /\ dip.size \in Nat
  BY <1>1, MinixAssumption DEF DiskInode
<1>3. CASE NamedEntries(x, dip, name) = {}
  BY Zenon, <1>3 DEF minix_dirent_search
<1>4. CASE NamedEntries(x, dip, name) # {}
  <2>1. PICK i : i = First(NamedEntries(x, dip, name))
    BY Zenon
  <2>2. NamedEntries(x, dip, name) \subseteq Entries(dip) /\ Entries(dip) \subseteq Nat
    BY <1>2 DEF NamedEntries, Entries
  <2>3. i \in Entries(dip)
    BY <1>4, <2>1, <2>2, FirstIsLeast
  <2>4. i \in Nat /\ i < m * d
    <3>1. m * d \in Nat /\ i < dip.size /\ i \in Nat
      BY <1>2, <2>3 DEF Entries
    <3>. QED
      BY <1>1, <1>2, <3>1
  <2>5. i \div d \in Nat /\ i \div d < m /\ i % d \in 0 .. d - 1
    BY Zenon, <1>2, <2>4, Quotient
  <2>6. PICK l : l = i \div d
    BY Zenon
  <2>7. l \in 0 .. s_nblocks - 1 /\ l < m
    BY <1>1, <1>2, <2>5, <2>6
  <2>8. dip.zones[l] \in MinixBlocks
    BY Zenon, <1>1, <2>7 DEF Mapped
  <2>9. i % d \in Slots
    BY Zenon, <2>5 DEF Slots
  <2>10. x.dirents \in [MinixBlocks -> [Slots -> DirEntry]]
    BY <1>1 DEF FsType
  <2>11. Dirent(x, dip, i) \in DirEntry
    BY Zenon, <2>6, <2>8, <2>9, <2>10 DEF Dirent
  <2>12. Dirent(x, dip, i).ino \in Inodes \cup {MINIX_INODE_NULL}
    BY <2>11 DEF DirEntry
  <2>. QED
    BY Zenon, <1>4, <2>1, <2>12 DEF minix_dirent_search
<1>. QED
  BY Zenon, <1>3, <1>4

\* What a directory holds depends on the blocks and entries alone.
LEMMA SameDirectory ==
  ASSUME NEW x, NEW y, NEW dip, NEW m, DirOK(x, dip, m), y \in FsType, y.bmap = x.bmap,
         y.dirents = x.dirents
  PROVE  DirOK(y, dip, m)
<1>1. \A i : Dirent(y, dip, i) = Dirent(x, dip, i)
  BY Zenon DEF Dirent
<1>2. NoFree(y, dip)
  BY Zenon, <1>1 DEF DirOK, NoFree
<1>. QED
  BY Zenon, <1>2 DEF DirOK

\* The file system that minix_mkfs() makes.
LEMMA FsMade == FsOK(minix_mkfs)
<1>. DEFINE a == minix_inode_alloc(Blank, "dir")
            root == minix_inode_read(a.fs, MINIX_INODE_ROOT)
            d1 == minix_dirent_add(a.fs, root, "dot", MINIX_INODE_ROOT)
            d2 == minix_dirent_add(d1.fs, d1.dip, "dotdot", MINIX_INODE_ROOT)
            w == minix_inode_write(d2.fs, d2.dip, MINIX_INODE_ROOT)
            b == minix_inode_alloc(w, "blk")
            d3 == minix_dirent_add(b.fs, d2.dip, "disk", b.num)
            wi == [minix_inode_read(b.fs, b.num) EXCEPT !.size = NANVIX_DISK_SIZE]
            v == minix_inode_write(d3.fs, wi, MINIX_INODE_ROOT)
            y == minix_inode_write(v, d3.dip, MINIX_INODE_ROOT)
<1>2. a = minix_inode_alloc(Blank, "dir")
  OBVIOUS
<1>6. root = minix_inode_read(a.fs, MINIX_INODE_ROOT)
  OBVIOUS
<1>10. d1 = minix_dirent_add(a.fs, root, "dot", MINIX_INODE_ROOT)
  OBVIOUS
<1>14. d2 = minix_dirent_add(d1.fs, d1.dip, "dotdot", MINIX_INODE_ROOT)
  OBVIOUS
<1>18. w = minix_inode_write(d2.fs, d2.dip, MINIX_INODE_ROOT)
  OBVIOUS
<1>20. b = minix_inode_alloc(w, "blk")
  OBVIOUS
<1>24. d3 = minix_dirent_add(b.fs, d2.dip, "disk", b.num)
  OBVIOUS
<1>27. wi = [minix_inode_read(b.fs, b.num) EXCEPT !.size = NANVIX_DISK_SIZE]
  OBVIOUS
<1>30. v = minix_inode_write(d3.fs, wi, MINIX_INODE_ROOT)
  OBVIOUS
<1>32. y = minix_inode_write(v, d3.dip, MINIX_INODE_ROOT)
  OBVIOUS
<1>35. minix_mkfs = y
  BY Zenon DEF minix_mkfs
<1>. HIDE DEF a, root, d1, d2, w, b, d3, wi, v, y
<1>s. /\ "dir" \in Modes /\ "blk" \in Modes
      /\ "dot" \in DirNames /\ "dotdot" \in DirNames /\ "disk" \in DirNames
  BY Zenon DEF Modes, DirNames
<1>0. s_nblocks \in Nat /\ DirentsPerBlock \in Nat \ {0} /\ 3 <= s_nblocks * DirentsPerBlock
  BY MinixAssumption
<1>a. PICK room \in Nat : room = s_nblocks * DirentsPerBlock /\ 3 <= room
  BY SMTT(30), <1>0
<1>1. Blank \in FsType /\ Blank.imap = {} /\ Blank.bmap = {}
  <2>1. PICK z : z = [k \in 0 .. s_nblocks - 1 |-> MINIX_BLOCK_NULL]
    BY Zenon
  <2>2. z \in [0 .. s_nblocks - 1 -> 0 .. s_nblocks]
    BY <1>0, <2>1 DEF MINIX_BLOCK_NULL
  <2>3. NoInode = [mode |-> "none", size |-> 0, nlinks |-> 0, zones |-> z]
    BY Zenon, <2>1 DEF NoInode
  <2>4. NoInode \in DiskInode
    BY <2>2, <2>3 DEF DiskInode, Modes
  <2>5. NoDirent \in DirEntry
    BY DEF NoDirent, DirEntry, DirNames
  <2>6. PICK f : f = [n \in Inodes |-> NoInode]
    BY Zenon
  <2>7. PICK g : g = [k \in MinixBlocks |-> [s \in Slots |-> NoDirent]]
    BY Zenon
  <2>8. f \in [Inodes -> DiskInode] /\ g \in [MinixBlocks -> [Slots -> DirEntry]]
    BY Zenon, <2>4, <2>5, <2>6, <2>7
  <2>9. Blank = [imap |-> {}, bmap |-> {}, inodes |-> f, dirents |-> g]
    BY Zenon, <2>6, <2>7 DEF Blank
  <2>. QED
    BY Zenon, <2>8, <2>9 DEF FsType
<1>3. Allocated(Blank, a)
  <2>1. Inodes \ Blank.imap # {}
    BY Zenon, <1>1, Indexes
  <2>. QED
    BY Zenon, <1>1, <1>2, <2>1, InodeAllocated, <1>s
<1>4. /\ a.num \in Inodes /\ \A n \in Inodes : a.num <= n
      /\ a.fs \in FsType /\ a.fs.imap = {a.num} /\ a.fs.bmap = {}
      /\ a.fs.inodes[a.num].size = 0 /\ Mapped(a.fs.inodes[a.num].zones, 0)
  BY Zenon, <1>1, <1>3 DEF Allocated
<1>5. a.num = MINIX_INODE_ROOT
  <2>1. a.num <= MINIX_INODE_ROOT /\ a.num \in Inodes
    BY Zenon, <1>4, Indexes
  <2>. QED
    BY <2>1 DEF Inodes, MINIX_INODE_ROOT
<1>7. root.size = 0 /\ Mapped(root.zones, 0)
  BY Zenon, <1>4, <1>5, <1>6 DEF minix_inode_read
<1>8. root \in DiskInode
  <2>1. a.fs.inodes \in [Inodes -> DiskInode]
    BY <1>4 DEF FsType
  <2>. QED
    BY Zenon, <1>6, <2>1, Indexes DEF minix_inode_read
<1>9. DirOK(a.fs, root, 0)
  <2>1. NoFree(a.fs, root)
    BY <1>7 DEF NoFree, Entries
  <2>2. 0 \in 0 .. s_nblocks /\ a.fs.bmap = 1 .. 0 /\ root.size <= 0 * DirentsPerBlock
    BY <1>0, <1>4, <1>7
  <2>. QED
    BY Zenon, <1>4, <1>7, <1>8, <2>1, <2>2 DEF DirOK
<1>11. Added(a.fs, root, d1)
  <2>1. root.size < s_nblocks * DirentsPerBlock
    BY <1>7, <1>a
  <2>. QED
    BY Zenon, <1>9, <1>10, <2>1, Indexes, EntryAdded, <1>s
<1>12. PICK m1 : DirOK(d1.fs, d1.dip, m1)
  BY Zenon, <1>11 DEF Added
<1>13. d1.dip.size \in 0 .. 1
  BY <1>7, <1>11 DEF Added
<1>15. Added(d1.fs, d1.dip, d2)
  <2>1. d1.dip.size < s_nblocks * DirentsPerBlock
    BY <1>13, <1>a
  <2>. QED
    BY Zenon, <1>12, <1>14, <2>1, Indexes, EntryAdded, <1>s
<1>16. PICK m2 : DirOK(d2.fs, d2.dip, m2)
  BY Zenon, <1>15 DEF Added
<1>17. d2.dip.size \in 0 .. 2
  BY <1>13, <1>15 DEF Added
<1>19. w \in FsType /\ w.imap = {MINIX_INODE_ROOT} /\ w.bmap = d2.fs.bmap /\ w.dirents = d2.fs.dirents
  <2>1. d2.fs \in FsType /\ d2.dip \in DiskInode
    BY Zenon, <1>16 DEF DirOK
  <2>2. d2.fs.imap = {MINIX_INODE_ROOT}
    BY Zenon, <1>4, <1>5, <1>11, <1>15 DEF Added
  <2>3. Wrote(d2.fs, w, d2.dip, MINIX_INODE_ROOT)
    BY Zenon, <1>18, <2>1, Indexes, InodeWritten
  <2>. QED
    BY Zenon, <2>2, <2>3 DEF Wrote
<1>21. Allocated(w, b)
  <2>1. 2 \in Inodes \ {MINIX_INODE_ROOT}
    BY MinixAssumption DEF Inodes, MINIX_INODE_ROOT
  <2>2. Inodes \ w.imap # {}
    BY Zenon, <1>19, <2>1
  <2>. QED
    BY Zenon, <1>19, <1>20, <2>2, InodeAllocated, <1>s
<1>22. b.num \in Inodes /\ b.fs \in FsType /\ b.fs.bmap = d2.fs.bmap /\ b.fs.dirents = d2.fs.dirents
  BY Zenon, <1>19, <1>21 DEF Allocated
<1>23. DirOK(b.fs, d2.dip, m2)
  BY Zenon, <1>16, <1>22, SameDirectory
<1>25. Added(b.fs, d2.dip, d3)
  <2>1. d2.dip.size < s_nblocks * DirentsPerBlock
    BY <1>17, <1>a
  <2>. QED
    BY Zenon, <1>22, <1>23, <1>24, <2>1, EntryAdded, <1>s
<1>26. PICK m3 : DirOK(d3.fs, d3.dip, m3)
  BY Zenon, <1>25 DEF Added
<1>28. wi \in DiskInode
  <2>1. b.fs.inodes \in [Inodes -> DiskInode]
    BY <1>22 DEF FsType
  <2>2. PICK ip : ip = minix_inode_read(b.fs, b.num)
    BY Zenon
  <2>3. ip \in DiskInode
    BY Zenon, <1>22, <2>1, <2>2 DEF minix_inode_read
  <2>4. wi = [ip EXCEPT !.size = NANVIX_DISK_SIZE]
    BY Zenon, <1>27, <2>2
  <2>. QED
    BY SMTT(30), <2>3, <2>4, MinixAssumption DEF DiskInode
<1>29. d3.fs \in FsType /\ d3.dip \in DiskInode
  BY Zenon, <1>26 DEF DirOK
<1>31. v \in FsType /\ v.bmap = d3.fs.bmap /\ v.dirents = d3.fs.dirents
  <2>1. Wrote(d3.fs, v, wi, MINIX_INODE_ROOT)
    BY Zenon, <1>28, <1>29, <1>30, Indexes, InodeWritten
  <2>. QED
    BY Zenon, <2>1 DEF Wrote
<1>33. /\ y \in FsType /\ y.bmap = d3.fs.bmap /\ y.dirents = d3.fs.dirents
       /\ y.inodes[MINIX_INODE_ROOT] = d3.dip
  <2>1. Wrote(v, y, d3.dip, MINIX_INODE_ROOT)
    BY Zenon, <1>29, <1>31, <1>32, Indexes, InodeWritten
  <2>. QED
    BY Zenon, <1>31, <2>1 DEF Wrote
<1>34. DirOK(y, d3.dip, m3)
  BY Zenon, <1>26, <1>33, SameDirectory
<1>37. \A name : minix_dirent_search(y, minix_inode_read(y, MINIX_INODE_ROOT), name)
                   \in Inodes \cup {MINIX_INODE_NULL}
  BY Zenon, <1>33, <1>34, SearchFinds DEF minix_inode_read
<1>. QED
  BY Zenon, <1>33, <1>35, <1>37 DEF FsOK

-----------------------------------------------------------------------------
(***************************************************************************)
(* The stubs.                                                              *)
(***************************************************************************)

\* What a request holds.
LEMMA RequestFields ==
  ASSUME NEW m, NEW D, m \in Requests(D)
  PROVE  /\ m.op \in {"open", "close", "seek", "read", "write"}
         /\ m.op = "open" => m.name \in Names /\ m.oflag \in SUBSET Flags
         /\ m.op # "open" => m.fd \in D
         /\ m.op = "seek" => m.whence \in {"SEEK_SET", "SEEK_CUR", "SEEK_END"} /\ m.offset \in Int
         /\ m.op \in {"read", "write"} => m \in [op : {"read", "write"}, fd : D, left : Nat]
<1>1. CASE m \in [op : {"open"}, name : Names, oflag : SUBSET Flags]
  BY <1>1
<1>2. CASE m \in [op : {"close"}, fd : D]
  BY <1>2
<1>3. CASE m \in [op : {"seek"}, fd : D, whence : {"SEEK_SET", "SEEK_CUR", "SEEK_END"}, offset : Int]
  BY <1>3
<1>4. CASE m \in [op : {"read", "write"}, fd : D, left : Nat]
  BY <1>4
<1>. QED
  BY Zenon, <1>1, <1>2, <1>3, <1>4 DEF Requests

\* Where a stub waits.
LEMMA Waiting ==
  /\ WaitingAt("open") = "reply" /\ WaitingAt("close") = "reply" /\ WaitingAt("seek") = "reply"
  /\ WaitingAt("read") = "ack" /\ WaitingAt("write") = "portal_write"
BY DEF WaitingAt

\* A step of client c, or of the server for it: afterwards m is its request, r
\* its reply, D are its descriptors and w is where its stub waits.
Moves(c, m, r, D, w) ==
  /\ call' = [call EXCEPT ![c] = m] /\ reply' = [reply EXCEPT ![c] = r]
  /\ fds' = [fds EXCEPT ![c] = D] /\ ctl' = [ctl EXCEPT ![c] = w]
  /\ requests' \subseteq Clients /\ srv' \in Clients \cup {Idle} /\ srv' \notin requests'
  /\ \A d \in Clients \ {c} : d \in requests' <=> d \in requests
  /\ \A d \in Clients \ {c} : srv' = d <=> srv = d

\* The other clients are not concerned.
LEMMA StubStep ==
  ASSUME NEW c, NEW m, NEW r, NEW D, NEW w, c \in Clients, Stubs, D \in SUBSET Fds,
         Moves(c, m, r, D, w), StubOK(m, r, D, w, At(requests', srv', c))
  PROVE  Stubs' /\ HeldBy' = [HeldBy EXCEPT ![c] = HeldOf(m, r, D)]
<1>1. /\ call = [d \in Clients |-> call[d]] /\ reply = [d \in Clients |-> reply[d]]
      /\ ctl = [d \in Clients |-> ctl[d]] /\ fds \in [Clients -> SUBSET Fds]
  BY Zenon DEF Stubs
<1>2. /\ call' = [d \in Clients |-> call'[d]] /\ call'[c] = m
      /\ \A d \in Clients \ {c} : call'[d] = call[d]
  BY Zenon, <1>1 DEF Moves
<1>3. /\ reply' = [d \in Clients |-> reply'[d]] /\ reply'[c] = r
      /\ \A d \in Clients \ {c} : reply'[d] = reply[d]
  BY Zenon, <1>1 DEF Moves
<1>4. /\ ctl' = [d \in Clients |-> ctl'[d]] /\ ctl'[c] = w
      /\ \A d \in Clients \ {c} : ctl'[d] = ctl[d]
  BY Zenon, <1>1 DEF Moves
<1>5. /\ fds' \in [Clients -> SUBSET Fds] /\ fds'[c] = D
      /\ \A d \in Clients \ {c} : fds'[d] = fds[d]
  BY Zenon, <1>1 DEF Moves
<1>6. \A d \in Clients \ {c} : At(requests', srv', d) = At(requests, srv, d)
  BY Zenon DEF Moves, At
<1>7. \A d \in Clients : StubOK(call'[d], reply'[d], fds'[d], ctl'[d], At(requests', srv', d))
  <2>1. ASSUME NEW d \in Clients \ {c}
        PROVE  StubOK(call'[d], reply'[d], fds'[d], ctl'[d], At(requests', srv', d))
    <3>1. StubOK(call[d], reply[d], fds[d], ctl[d], At(requests, srv, d))
      BY Zenon DEF Stubs
    <3>. QED
      BY Zenon, <1>2, <1>3, <1>4, <1>5, <1>6, <3>1
  <2>. QED
    BY Zenon, <1>2, <1>3, <1>4, <1>5, <2>1
<1>8. Stubs'
  BY Zenon, <1>2, <1>3, <1>4, <1>5, <1>7 DEF Stubs, Moves
<1>9. HeldBy' = [HeldBy EXCEPT ![c] = HeldOf(m, r, D)]
  <2>1. \A d \in Clients \ {c} : HeldOf(call'[d], reply'[d], fds'[d]) = HeldOf(call[d], reply[d], fds[d])
    BY Zenon, <1>2, <1>3, <1>5
  <2>2. HeldOf(call'[c], reply'[c], fds'[c]) = HeldOf(m, r, D)
    BY Zenon, <1>2, <1>3, <1>5
  <2>3. HeldBy' = [d \in Clients |-> HeldOf(call'[d], reply'[d], fds'[d])]
    BY Zenon DEF HeldBy
  <2>4. HeldBy = [d \in Clients |-> HeldOf(call[d], reply[d], fds[d])]
    BY Zenon DEF HeldBy
  <2>. QED
    BY Zenon, <2>1, <2>2, <2>3, <2>4
<1>. QED
  BY Zenon, <1>8, <1>9

\* The messages of the server can be told apart.
LEMMA Messages ==
  /\ Ack # NoReply /\ Ack \notin Statuses /\ NoReply \notin Statuses
  /\ Ack.op # "status" /\ NoReply.op # "status" /\ \A r \in Statuses : r.op = "status"
BY DEF Ack, NoReply, Statuses

\* What is known of a client from where it is.
LEMMA StubCases ==
  ASSUME NEW m, NEW r, NEW D, NEW w, NEW at, StubOK(m, r, D, w, at)
  PROVE  /\ w = "idle" => m = NoCall /\ r = NoReply /\ at = "client"
         /\ at = "mailbox" => m \in Requests(D) /\ r = NoReply /\ w = WaitingAt(m.op)
         /\ at = "server" => m \in Requests(D) /\ m.op = "read" /\ w \in {"ack", "portal_read"}
         /\ at = "server" => r \in {Ack, NoReply}
         /\ r = Ack => m \in Requests(D) /\ m.op = "read" /\ at = "server"
         /\ w = "reply" /\ r # NoReply =>
              /\ m \in Requests(D) /\ at = "client" /\ r \in Statuses
              /\ m.op = "open" /\ r.ret = "ok" => r.val \in Fds
<1>1. CASE w = "idle" /\ m = NoCall /\ r = NoReply /\ at = "client"
  BY Zenon, <1>1, Messages
<1>2. CASE m \in Requests(D) /\ at = "mailbox" /\ r = NoReply /\ w = WaitingAt(m.op)
  <2>1. w # "idle"
    BY <1>2, RequestFields, Waiting
  <2>. QED
    BY Zenon, <1>2, <2>1, Messages
<1>3. CASE m \in Requests(D) /\ m.op = "read" /\ at = "server" /\ r = Ack /\ w = "ack"
  BY Zenon, <1>3, Messages
<1>4. CASE m \in Requests(D) /\ m.op = "read" /\ at = "server" /\ r = NoReply /\ w = "portal_read"
  BY Zenon, <1>4, Messages
<1>5. CASE /\ m \in Requests(D) /\ at = "client" /\ r \in Statuses /\ w = "reply"
           /\ m.op = "open" /\ r.ret = "ok" => r.val \in Fds
  BY Zenon, <1>5, Messages
<1>. QED
  BY Zenon, <1>1, <1>2, <1>3, <1>4, <1>5 DEF StubOK

\* A client with a request in the mailbox.
LEMMA StubMailbox ==
  ASSUME NEW m, NEW r, NEW D, NEW w, NEW at, StubOK(m, r, D, w, at), at = "mailbox"
  PROVE  m \in Requests(D) /\ r = NoReply /\ w = WaitingAt(m.op)
BY Zenon, StubCases

\* A client whose read has been acknowledged.
LEMMA StubAcked ==
  ASSUME NEW m, NEW r, NEW D, NEW w, NEW at, StubOK(m, r, D, w, at), r = Ack
  PROVE  m \in Requests(D) /\ m.op = "read" /\ at = "server"
BY Zenon, StubCases

\* A client that has been answered.
LEMMA StubAnswered ==
  ASSUME NEW m, NEW r, NEW D, NEW w, NEW at, StubOK(m, r, D, w, at), w = "reply", r # NoReply
  PROVE  /\ m \in Requests(D) /\ at = "client" /\ r \in Statuses
         /\ m.op = "open" /\ r.ret = "ok" => r.val \in Fds
BY Zenon DEF StubOK

\* The state of client c.
LEMMA StubOf ==
  ASSUME NEW c, c \in Clients, Stubs
  PROVE  StubOK(call[c], reply[c], fds[c], ctl[c], At(requests, srv, c))
BY Zenon DEF Stubs

\* The state of the stubs is a function on the clients.
LEMMA StubSame ==
  ASSUME NEW c, c \in Clients, Stubs
  PROVE  /\ call = [call EXCEPT ![c] = call[c]] /\ reply = [reply EXCEPT ![c] = reply[c]]
         /\ fds = [fds EXCEPT ![c] = fds[c]] /\ ctl = [ctl EXCEPT ![c] = ctl[c]]
         /\ requests \subseteq Clients /\ srv \in Clients \cup {Idle} /\ srv \notin requests
<1>1. /\ call = [d \in Clients |-> call[d]] /\ reply = [d \in Clients |-> reply[d]]
      /\ ctl = [d \in Clients |-> ctl[d]] /\ fds \in [Clients -> SUBSET Fds]
  BY Zenon DEF Stubs
<1>2. /\ call = [call EXCEPT ![c] = call[c]] /\ reply = [reply EXCEPT ![c] = reply[c]]
      /\ fds = [fds EXCEPT ![c] = fds[c]] /\ ctl = [ctl EXCEPT ![c] = ctl[c]]
  BY Zenon, <1>1
<1>. QED
  BY Zenon, <1>2 DEF Stubs

\* The server is no client.
LEMMA NotIdle == ASSUME NEW c, c \in Clients PROVE c # Idle
BY VfsAssumption DEF Idle

\* The descriptors from the server's point of view.
LEMMA HeldNow ==
  ASSUME NEW c, c \in Clients, Stubs
  PROVE  HeldBy[c] = HeldOf(call[c], reply[c], fds[c]) /\ fds[c] \in SUBSET Fds
BY Zenon DEF HeldBy, Stubs

\* They are the ones of the client unless a successful open or close has been
\* answered.
LEMMA HeldIs ==
  ASSUME NEW m, NEW r, NEW D, r.op # "status"
  PROVE  HeldOf(m, r, D) = D
BY Zenon DEF HeldOf

\* Only open and close change them.
LEMMA HeldStays ==
  ASSUME NEW m, NEW r, NEW D, m.op \notin {"open", "close"}
  PROVE  HeldOf(m, r, D) = D
BY Zenon DEF HeldOf

\* A call that fails does not change them.
LEMMA HeldFails ==
  ASSUME NEW m, NEW r, NEW D, r.ret = "fail"
  PROVE  HeldOf(m, r, D) = D
BY Zenon DEF HeldOf

\* A step that does not change them.
LEMMA StubKeep ==
  ASSUME NEW c, NEW m, NEW r, NEW D, NEW w, c \in Clients, Stubs, D \in SUBSET Fds,
         Moves(c, m, r, D, w), StubOK(m, r, D, w, At(requests', srv', c)),
         HeldOf(m, r, D) = HeldBy[c]
  PROVE  Stubs' /\ HeldBy' = HeldBy
<1>1. Stubs' /\ HeldBy' = [HeldBy EXCEPT ![c] = HeldOf(m, r, D)]
  BY ZenonT(40), StubStep
<1>2. HeldBy = [d \in Clients |-> HeldOf(call[d], reply[d], fds[d])]
  BY Zenon DEF HeldBy
<1>3. HeldBy = [HeldBy EXCEPT ![c] = HeldBy[c]]
  BY Zenon, <1>2
<1>. QED
  BY Zenon, <1>1, <1>3

\* A stub sends a request.
LEMMA SendStep ==
  ASSUME NEW c, NEW m, c \in Clients, Stubs, m \in Requests(fds[c]), Send(c, m)
  PROVE  Stubs' /\ HeldBy' = HeldBy
<1>1. call[c] = NoCall /\ reply[c] = NoReply /\ At(requests, srv, c) = "client"
  BY Zenon, StubOf, StubCases DEF Send
<1>2. srv # c
  BY <1>1 DEF At
<1>3. requests' = requests \cup {c} /\ srv' = srv /\ reply' = reply /\ fds' = fds
  BY Zenon DEF Send, servervars
<1>4. Moves(c, m, NoReply, fds[c], WaitingAt(m.op))
  BY Zenon, <1>1, <1>2, <1>3, StubSame DEF Moves, Send
<1>5. At(requests', srv', c) = "mailbox"
  BY Zenon, <1>2, <1>3 DEF At
<1>6. StubOK(m, NoReply, fds[c], WaitingAt(m.op), At(requests', srv', c))
  BY Zenon, <1>5 DEF StubOK
<1>7. HeldOf(m, NoReply, fds[c]) = HeldBy[c] /\ fds[c] \in SUBSET Fds
  <2>1. HeldOf(call[c], reply[c], fds[c]) = fds[c] /\ HeldOf(m, NoReply, fds[c]) = fds[c]
    BY Zenon, <1>1, HeldIs, Messages
  <2>. QED
    BY Zenon, <2>1, HeldNow
<1>. QED
  BY Zenon, <1>4, <1>6, <1>7, StubKeep

\* A client gets the acknowledge of a read.
LEMMA AckStep ==
  ASSUME NEW c, c \in Clients, Stubs, ReadAck(c)
  PROVE  Stubs' /\ HeldBy' = HeldBy
<1>1. /\ call[c] \in Requests(fds[c]) /\ call[c].op = "read" /\ reply[c] = Ack
      /\ At(requests, srv, c) = "server"
  <2>1. reply[c] = Ack
    BY Zenon DEF ReadAck
  <2>2. call[c] \in Requests(fds[c]) /\ call[c].op = "read"
    BY Zenon, <2>1, StubOf, StubAcked
  <2>3. At(requests, srv, c) = "server"
    BY <2>1, StubOf, StubAcked
  <2>. QED
    BY Zenon, <2>1, <2>2, <2>3
<1>2. requests' = requests /\ srv' = srv /\ call' = call /\ fds' = fds
  BY Zenon DEF ReadAck, servervars
<1>3. Moves(c, call[c], NoReply, fds[c], "portal_read")
  BY Zenon, <1>2, StubSame DEF Moves, ReadAck
<1>4. StubOK(call[c], NoReply, fds[c], "portal_read", At(requests', srv', c))
  BY Zenon, <1>1, <1>2 DEF StubOK
<1>5. HeldOf(call[c], NoReply, fds[c]) = HeldBy[c] /\ fds[c] \in SUBSET Fds
  <2>1. HeldOf(call[c], reply[c], fds[c]) = fds[c] /\ HeldOf(call[c], NoReply, fds[c]) = fds[c]
    BY Zenon, <1>1, HeldIs, Messages
  <2>. QED
    BY Zenon, <2>1, HeldNow
<1>. QED
  BY Zenon, <1>3, <1>4, <1>5, StubKeep

\* A client asks for the next block.
LEMMA ChunkStep ==
  ASSUME NEW c, c \in Clients, Stubs, NextChunk(c)
  PROVE  Stubs' /\ HeldBy' = HeldBy
<1>1. call[c] \in Requests(fds[c]) /\ At(requests, srv, c) = "client" /\ reply[c] \in Statuses
  <2>1. ctl[c] = "reply" /\ reply[c] # NoReply
    BY Zenon DEF NextChunk
  <2>. QED
    BY Zenon, <2>1, StubOf, StubAnswered
<1>2. call[c].op \in {"read", "write"} /\ call[c].left > 0
  BY Zenon DEF NextChunk
<1>3. PICK m : m = [call[c] EXCEPT !.left = @ - 1]
  BY Zenon
<1>4. m \in Requests(fds[c]) /\ m.op = call[c].op
  <2>1. call[c] \in [op : {"read", "write"}, fd : fds[c], left : Nat]
    BY Zenon, <1>1, <1>2, RequestFields
  <2>2. m \in [op : {"read", "write"}, fd : fds[c], left : Nat] /\ m.op = call[c].op
    BY <1>2, <1>3, <2>1
  <2>. QED
    BY Zenon, <2>2 DEF Requests
<1>5. srv # c
  BY <1>1 DEF At
<1>6. requests' = requests \cup {c} /\ srv' = srv /\ fds' = fds
  BY Zenon DEF NextChunk, servervars
<1>7. call' = [call EXCEPT ![c] = m]
  BY Zenon, <1>3 DEF NextChunk
<1>8. ctl' = [ctl EXCEPT ![c] = WaitingAt(m.op)]
  BY Zenon, <1>4 DEF NextChunk
<1>9. Moves(c, m, NoReply, fds[c], WaitingAt(m.op))
  BY Zenon, <1>5, <1>6, <1>7, <1>8, StubSame DEF Moves, NextChunk
<1>10. At(requests', srv', c) = "mailbox"
  BY Zenon, <1>5, <1>6 DEF At
<1>11. StubOK(m, NoReply, fds[c], WaitingAt(m.op), At(requests', srv', c))
  BY Zenon, <1>4, <1>10 DEF StubOK
<1>12. call[c].op \notin {"open", "close"}
  BY <1>2
<1>13. HeldOf(m, NoReply, fds[c]) = HeldBy[c] /\ fds[c] \in SUBSET Fds
  <2>1. HeldOf(call[c], reply[c], fds[c]) = fds[c]
    BY ZenonT(40), <1>12, HeldStays
  <2>2. HeldOf(m, NoReply, fds[c]) = fds[c]
    BY Zenon, HeldIs, Messages
  <2>. QED
    BY Zenon, <2>1, <2>2, HeldNow
<1>. QED
  BY Zenon, <1>9, <1>11, <1>13, StubKeep

\* A call returns: the client has the descriptors that the server gave it.
LEMMA ReturnStep ==
  ASSUME NEW c, c \in Clients, Stubs, Return(c)
  PROVE  Stubs' /\ HeldBy' = HeldBy
<1>1. /\ call[c] \in Requests(fds[c]) /\ At(requests, srv, c) = "client" /\ reply[c] \in Statuses
      /\ call[c].op = "open" /\ reply[c].ret = "ok" => reply[c].val \in Fds
  <2>1. ctl[c] = "reply" /\ reply[c] # NoReply
    BY Zenon DEF Return
  <2>. QED
    BY Zenon, <2>1, StubOf, StubAnswered
<1>2. PICK D : D = HeldOf(call[c], reply[c], fds[c])
  BY Zenon
<1>3. AfterCall(c) = D
  <2>1. reply[c].op = "status"
    BY Zenon, <1>1, Messages
  <2>. QED
    BY <1>2, <2>1 DEF AfterCall, HeldOf
<1>4. D \in SUBSET Fds
  BY Zenon, <1>1, <1>2, HeldNow DEF HeldOf
<1>5. requests' = requests /\ srv' = srv
  BY Zenon DEF Return, servervars
<1>6. Moves(c, NoCall, NoReply, D, "idle")
  BY Zenon, <1>3, <1>5, StubSame DEF Moves, Return
<1>7. StubOK(NoCall, NoReply, D, "idle", At(requests', srv', c))
  BY Zenon, <1>1, <1>5 DEF StubOK
<1>8. HeldOf(NoCall, NoReply, D) = HeldBy[c]
  <2>1. HeldOf(NoCall, NoReply, D) = D
    BY Zenon, HeldIs, Messages
  <2>. QED
    BY Zenon, <1>2, <2>1, HeldNow
<1>. QED
  BY Zenon, <1>4, <1>6, <1>7, <1>8, StubKeep

\* The server answers the request of client c with status r.
LEMMA AnswerStep ==
  ASSUME NEW c, NEW r, c \in Clients, Stubs, srv = Idle, c \in requests, r \in Statuses,
         call[c].op = "open" /\ r.ret = "ok" => r.val \in Fds,
         requests' = requests \ {c}, Answer(c, r), ctl' = [ctl EXCEPT ![c] = "reply"],
         srv' = srv, call' = call, fds' = fds
  PROVE  Stubs' /\ HeldBy' = [HeldBy EXCEPT ![c] = HeldOf(call[c], r, fds[c])]
<1>1. At(requests, srv, c) = "mailbox"
  BY Zenon, StubOf, NotIdle DEF At
<1>2. call[c] \in Requests(fds[c])
  BY Zenon, <1>1, StubOf, StubMailbox
<1>3. Moves(c, call[c], r, fds[c], "reply")
  BY Zenon, StubSame DEF Moves, Answer
<1>4. At(requests', srv', c) = "client"
  BY Zenon, StubOf, NotIdle DEF At
<1>5. StubOK(call[c], r, fds[c], "reply", At(requests', srv', c))
  BY Zenon, <1>2, <1>4 DEF StubOK
<1>6. fds[c] \in SUBSET Fds
  BY Zenon, HeldNow
<1>. QED
  BY ZenonT(40), <1>3, <1>5, <1>6, StubStep

\* A request that the server has taken.
LEMMA Received ==
  ASSUME NEW c, NEW op, c \in Clients, Stubs, Receive(c, op)
  PROVE  /\ srv = Idle /\ c \in requests /\ requests' = requests \ {c}
         /\ call[c] \in Requests(fds[c]) /\ call[c].op = op /\ reply[c] = NoReply
         /\ ctl[c] = WaitingAt(op) /\ HeldBy[c] = fds[c]
<1>1. srv = Idle /\ c \in requests /\ requests' = requests \ {c} /\ call[c].op = op
  BY Zenon DEF Receive
<1>2. At(requests, srv, c) = "mailbox"
  BY Zenon, <1>1, StubOf, NotIdle DEF At
<1>3. call[c] \in Requests(fds[c]) /\ reply[c] = NoReply /\ ctl[c] = WaitingAt(op)
  <2>1. call[c] \in Requests(fds[c]) /\ reply[c] = NoReply /\ ctl[c] = WaitingAt(call[c].op)
    BY Zenon, <1>2, StubOf, StubMailbox
  <2>. QED
    BY Zenon, <1>1, <2>1
<1>4. HeldBy[c] = fds[c]
  <2>1. HeldOf(call[c], reply[c], fds[c]) = fds[c]
    BY Zenon, <1>3, HeldIs, Messages
  <2>. QED
    BY Zenon, <2>1, HeldNow
<1>. QED
  BY Zenon, <1>1, <1>3, <1>4

-----------------------------------------------------------------------------
(***************************************************************************)
(* The inodes.                                                             *)
(***************************************************************************)

\* minix_inode_free() does not change what the root directory holds.
LEMMA InodeFreed ==
  ASSUME NEW x, NEW num, FsOK(x)
  PROVE  FsOK(minix_inode_free(x, num))
<1>1. x \in FsType
  BY Zenon DEF FsOK
<1>2. PICK im : im = x.imap \ {num}
  BY Zenon
<1>3. im \in SUBSET Inodes
  BY <1>1, <1>2 DEF FsType
<1>4. PICK y : y = [x EXCEPT !.imap = im]
  BY Zenon
<1>5. y \in FsType /\ y.inodes = x.inodes /\ y.dirents = x.dirents
  BY <1>1, <1>3, <1>4 DEF FsType
<1>6. minix_inode_free(x, num) = y
  BY Zenon, <1>2, <1>4 DEF minix_inode_free
<1>7. PICK dip : dip = minix_inode_read(x, MINIX_INODE_ROOT)
  BY Zenon
<1>8. dip = minix_inode_read(y, MINIX_INODE_ROOT)
  BY Zenon, <1>5, <1>7 DEF minix_inode_read
<1>9. \A i : Dirent(y, dip, i) = Dirent(x, dip, i)
  BY Zenon, <1>5 DEF Dirent
<1>10. ASSUME NEW name PROVE NamedEntries(y, dip, name) = NamedEntries(x, dip, name)
  <2>1. \A i : i \in NamedEntries(y, dip, name) <=> i \in NamedEntries(x, dip, name)
    BY Zenon, <1>9 DEF NamedEntries
  <2>. QED
    BY Zenon, <2>1
<1>11. ASSUME NEW name PROVE minix_dirent_search(y, dip, name) = minix_dirent_search(x, dip, name)
  <2>1. CASE NamedEntries(x, dip, name) = {}
    BY Zenon, <1>10, <2>1 DEF minix_dirent_search
  <2>2. CASE NamedEntries(x, dip, name) # {}
    <3>1. PICK i : i = First(NamedEntries(x, dip, name))
      BY Zenon
    <3>2. minix_dirent_search(x, dip, name) = Dirent(x, dip, i).ino
      BY Zenon, <2>2, <3>1 DEF minix_dirent_search
    <3>3. minix_dirent_search(y, dip, name) = Dirent(y, dip, i).ino
      BY Zenon, <1>10, <2>2, <3>1 DEF minix_dirent_search
    <3>. QED
      BY Zenon, <1>9, <3>2, <3>3
  <2>. QED
    BY Zenon, <2>1, <2>2
<1>12. \A name : minix_dirent_search(x, dip, name) \in Inodes \cup {MINIX_INODE_NULL}
  BY Zenon, <1>7 DEF FsOK
<1>. QED
  BY Zenon, <1>5, <1>6, <1>8, <1>11, <1>12 DEF FsOK

\* Counts of references, one of which goes up and down.
LEMMA CountUp ==
  ASSUME NEW i, NEW n, i \in [Inodes -> Nat], n \in Inodes
  PROVE  /\ [i EXCEPT ![n] = @ + 1] \in [Inodes -> Nat]
         /\ [[i EXCEPT ![n] = @ + 1] EXCEPT ![n] = @ - 1] = i
<1>1. PICK j : j = [i EXCEPT ![n] = @ + 1]
  BY Zenon
<1>2. j \in [Inodes -> Nat] /\ j[n] = i[n] + 1 /\ \A m \in Inodes \ {n} : j[m] = i[m]
  BY <1>1
<1>3. PICK k : k = [j EXCEPT ![n] = @ - 1]
  BY Zenon
<1>4. k = [m \in Inodes |-> IF m = n THEN j[n] - 1 ELSE j[m]]
  BY Zenon, <1>2, <1>3
<1>5. j[n] - 1 = i[n]
  BY <1>2
<1>6. k = [m \in Inodes |-> i[m]]
  BY Zenon, <1>2, <1>4, <1>5
<1>. QED
  BY Zenon, <1>1, <1>2, <1>3, <1>6

\* t is the state with file system x and references i.
StateIs(t, x, i) == t = [fs |-> x, inodes |-> i]

\* Its fields, and what changes one of them.
LEMMA StateFields ==
  ASSUME NEW x, NEW i, NEW t, StateIs(t, x, i)
  PROVE  t.fs = x /\ t.inodes = i
BY DEF StateIs

\* The state with other references.
LEMMA StateWithInodes ==
  ASSUME NEW x, NEW i, NEW t, NEW j, StateIs(t, x, i)
  PROVE  StateIs([t EXCEPT !.inodes = j], x, j)
<1>1. [[fs |-> x, inodes |-> i] EXCEPT !.inodes = j] = [fs |-> x, inodes |-> j]
  BY SMT
<1>. QED
  BY Zenon, <1>1 DEF StateIs

\* The state with another file system.
LEMMA StateWithFs ==
  ASSUME NEW x, NEW i, NEW t, NEW y, StateIs(t, x, i)
  PROVE  StateIs([t EXCEPT !.fs = y], y, i)
<1>1. [[fs |-> x, inodes |-> i] EXCEPT !.fs = y] = [fs |-> y, inodes |-> i]
  BY SMT
<1>. QED
  BY Zenon, <1>1 DEF StateIs

\* inode_get() counts a reference, or frees the inode on disk.
LEMMA GetInode ==
  ASSUME NEW x, NEW i, NEW t, NEW num, StateIs(t, x, i),
         i \in [Inodes -> Nat], num \in Inodes
  PROVE  /\ inode_got(t, num) =>
              StateIs(inode_get(t, num), x, [i EXCEPT ![num] = @ + 1])
         /\ ~inode_got(t, num) =>
              StateIs(inode_get(t, num), minix_inode_free(x, num), i)
<1>1. t.fs = x /\ t.inodes = i
  BY Zenon, StateFields
<1>2. i[num] \in Nat
  BY Zenon
<1>3. inode_got(t, num) <=> ~(t.inodes[num] = 0 /\ TableFull(t))
  BY <1>1, <1>2 DEF inode_got
<1>4. CASE inode_got(t, num)
  <2>1. inode_get(t, num) = [t EXCEPT !.inodes = [i EXCEPT ![num] = @ + 1]]
    BY Zenon, <1>1, <1>3, <1>4 DEF inode_get
  <2>. QED
    <3>1. StateIs(inode_get(t, num), x, [i EXCEPT ![num] = @ + 1])
      <4>1. PICK j : j = [i EXCEPT ![num] = @ + 1]
        BY Zenon
      <4>2. StateIs([t EXCEPT !.inodes = j], x, j)
        BY Zenon, StateWithInodes
      <4>. QED
        BY Zenon, <2>1, <4>1, <4>2
    <3>. QED
      BY Zenon, <1>4, <3>1
<1>5. CASE ~inode_got(t, num)
  <2>1. inode_get(t, num) = [t EXCEPT !.fs = minix_inode_free(x, num)]
    BY Zenon, <1>1, <1>3, <1>5 DEF inode_get
  <2>. QED
    <3>1. StateIs(inode_get(t, num), minix_inode_free(x, num), i)
      <4>1. StateIs([t EXCEPT !.fs = minix_inode_free(x, num)], minix_inode_free(x, num), i)
        BY Zenon, StateWithFs
      <4>. QED
        BY Zenon, <2>1, <4>1
    <3>. QED
      BY Zenon, <1>5, <3>1
<1>. QED
  BY Zenon, <1>4, <1>5

\* inode_put() drops a reference; the inode may be freed on disk.
LEMMA PutInode ==
  ASSUME NEW x, NEW i, NEW t, NEW num, StateIs(t, x, i), FsOK(x)
  PROVE  \E y : FsOK(y) /\ StateIs(inode_put(t, num), y, [i EXCEPT ![num] = @ - 1])
<1>1. t.fs = x /\ t.inodes = i
  BY Zenon, StateFields
<1>2. PICK j : j = [i EXCEPT ![num] = @ - 1]
  BY Zenon
<1>3. PICK u : u = [t EXCEPT !.inodes = j]
  BY Zenon
<1>4. StateIs(u, x, j)
  BY Zenon, <1>3, StateWithInodes
<1>5. u = [t EXCEPT !.inodes[num] = @ - 1]
  BY Zenon, <1>1, <1>2, <1>3
<1>6. u.fs = x
  BY Zenon, <1>4, StateFields
<1>7. PICK v : v = [u EXCEPT !.fs = minix_inode_free(x, num)]
  BY Zenon
<1>8. StateIs(v, minix_inode_free(x, num), j)
  BY Zenon, <1>4, <1>7, StateWithFs
<1>9. inode_put(t, num) = u \/ inode_put(t, num) = v
  BY Zenon, <1>5, <1>6, <1>7 DEF inode_put
<1>. QED
  BY Zenon, <1>2, <1>4, <1>8, <1>9, InodeFreed

\* inode_name() finds an inode, or none.
LEMMA NamedInode ==
  ASSUME NEW name, FsOK(fs)
  PROVE  inode_name(name) \in Inodes \cup {MINIX_INODE_NULL}
BY Zenon DEF inode_name, FsOK

\* do_open() takes a reference to the inode that it returns, or none.
Took(o) ==
  /\ FsOK(o.state.fs)
  /\ \/ o.num = MINIX_INODE_NULL /\ o.state.inodes = inodes
     \/ o.num \in Inodes /\ o.state.inodes = [inodes EXCEPT ![o.num] = @ + 1]

\* do_open() does so, whether the inode is found, got and special or not.
LEMMA OpenTakes ==
  ASSUME NEW name, FsOK(fs), inodes \in [Inodes -> Nat]
  PROVE  Took(do_open(name))
<1>1. PICK num : num = inode_name(name)
  BY Zenon
<1>2. num \in Inodes \/ num = MINIX_INODE_NULL
  BY Zenon, <1>1, NamedInode
<1>3. PICK s : s = State
  BY Zenon
<1>4. StateIs(s, fs, inodes)
  BY Zenon, <1>3 DEF State, StateIs
<1>5. s.fs = fs /\ s.inodes = inodes
  BY Zenon, <1>4, StateFields
<1>7. CASE num = MINIX_INODE_NULL
  <2>1. PICK o : o = [num |-> MINIX_INODE_NULL, state |-> s]
    BY Zenon
  <2>a. o.num = MINIX_INODE_NULL /\ o.state = s
    BY <2>1
  <2>2. do_open(name) = o
    BY Zenon, <1>1, <1>3, <1>7, <2>1 DEF do_open
  <2>. QED
    BY Zenon, <1>5, <2>2, <2>a DEF Took
<1>8. CASE num # MINIX_INODE_NULL /\ ~inode_got(s, num)
  <2>1. PICK t : t = inode_get(s, num)
    BY Zenon
  <2>2. StateIs(t, minix_inode_free(fs, num), inodes)
    BY Zenon, <1>2, <1>4, <1>8, <2>1, GetInode
  <2>3. t.fs = minix_inode_free(fs, num) /\ t.inodes = inodes
    BY Zenon, <2>2, StateFields
  <2>4. PICK o : o = [num |-> MINIX_INODE_NULL, state |-> t]
    BY Zenon
  <2>a. o.num = MINIX_INODE_NULL /\ o.state = t
    BY <2>4
  <2>5. do_open(name) = o
    BY Zenon, <1>1, <1>3, <1>8, <2>1, <2>4 DEF do_open
  <2>. QED
    BY Zenon, <2>3, <2>5, <2>a, InodeFreed DEF Took
<1>9. CASE num # MINIX_INODE_NULL /\ inode_got(s, num)
  <2>1. PICK t : t = inode_get(s, num)
    BY Zenon
  <2>2. PICK i : i = [inodes EXCEPT ![num] = @ + 1]
    BY Zenon
  <2>3. StateIs(t, fs, i)
    BY Zenon, <1>2, <1>4, <1>9, <2>1, <2>2, GetInode
  <2>4. t.fs = fs /\ t.inodes = i
    BY Zenon, <2>3, StateFields
  <2>5. PICK y : FsOK(y) /\ StateIs(inode_put(t, num), y, [i EXCEPT ![num] = @ - 1])
    BY Zenon, <2>3, PutInode
  <2>6. PICK p : p = inode_put(t, num)
    BY Zenon
  <2>7. StateIs(p, y, inodes)
    <3>1. [i EXCEPT ![num] = @ - 1] = inodes
      BY Zenon, <1>2, <1>9, <2>2, CountUp
    <3>. QED
      BY Zenon, <2>5, <2>6, <3>1
  <2>8. p.fs = y /\ p.inodes = inodes
    BY Zenon, <2>7, StateFields
  <2>9. PICK o1 : o1 = [num |-> MINIX_INODE_NULL, state |-> p]
    BY Zenon
  <2>10. PICK o2 : o2 = [num |-> num, state |-> t]
    BY Zenon
  <2>11. do_open(name) = o1 \/ do_open(name) = o2
    BY Zenon, <1>1, <1>3, <1>9, <2>1, <2>6, <2>9, <2>10 DEF do_open
  <2>12. Took(o1)
    <3>1. o1.num = MINIX_INODE_NULL /\ o1.state = p
      BY <2>9
    <3>. QED
      BY Zenon, <2>5, <2>8, <3>1 DEF Took
  <2>13. Took(o2)
    <3>1. o2.num = num /\ o2.state = t
      BY <2>10
    <3>. QED
      BY Zenon, <1>2, <1>9, <2>2, <2>4, <3>1 DEF Took
  <2>. QED
    BY Zenon, <2>11, <2>12, <2>13
<1>. QED
  BY Zenon, <1>7, <1>8, <1>9

-----------------------------------------------------------------------------
(***************************************************************************)
(* The server.                                                             *)
(***************************************************************************)

\* The status that the server sends.
LEMMA StatusIs ==
  ASSUME NEW r, NEW ret, NEW val, r = Status(ret, val), ret \in {"ok", "fail"}, val \in Int
  PROVE  r \in Statuses /\ r.ret = ret
BY DEF Status, Statuses

\* The server has taken the request of client c, and answers it with m.
Answers(c, op, m) ==
  /\ Receive(c, op) /\ Answer(c, m) /\ ctl' = [ctl EXCEPT ![c] = "reply"]
  /\ srv' = srv /\ call' = call /\ fds' = fds

\* Nothing changes if what a client has is set to what it is.
LEMMA HeldSame ==
  ASSUME NEW c
  PROVE  HeldBy = [HeldBy EXCEPT ![c] = HeldBy[c]]
<1>1. HeldBy = [d \in Clients |-> HeldOf(call[d], reply[d], fds[d])]
  BY Zenon DEF HeldBy
<1>. QED
  BY Zenon, <1>1

\* An answer that gives the client no descriptor and takes none from it.
LEMMA AnswerKeeps ==
  ASSUME NEW c, NEW op, NEW ret, NEW val, c \in Clients, Stubs, ret \in {"ok", "fail"}, val \in Int,
         Answers(c, op, Status(ret, val)), ret = "fail" \/ op \notin {"open", "close"}
  PROVE  Stubs' /\ HeldBy' = HeldBy
<1>1. /\ srv = Idle /\ c \in requests /\ requests' = requests \ {c} /\ call[c].op = op
      /\ HeldBy[c] = fds[c]
  BY Zenon, Received DEF Answers
<1>2. PICK r : r = Status(ret, val)
  BY Zenon
<1>3. r \in Statuses /\ r.ret = ret
  BY Zenon, <1>2, StatusIs
<1>4. ~(call[c].op = "open" /\ r.ret = "ok")
  BY <1>1, <1>3
<1>5. Stubs' /\ HeldBy' = [HeldBy EXCEPT ![c] = HeldOf(call[c], r, fds[c])]
  BY Zenon, <1>1, <1>2, <1>3, <1>4, AnswerStep DEF Answers
<1>6. HeldOf(call[c], r, fds[c]) = fds[c]
  <2>1. CASE r.ret = "fail"
    BY Zenon, <2>1, HeldFails
  <2>2. CASE call[c].op \notin {"open", "close"}
    BY Zenon, <2>2, HeldStays
  <2>. QED
    BY Zenon, <1>1, <1>3, <2>1, <2>2
<1>. QED
  BY Zenon, <1>1, <1>5, <1>6, HeldSame

\* The file of a descriptor: it is of process 0, in use, and has an inode.
LEMMA FileIs ==
  ASSUME NEW c, NEW fd, FilesOK(filetab, ofiles, inodes),
         ConnTable(Connections, Clients, connections), c \in Clients,
         fd \in Fds, FileOf(c, fd) # None
  PROVE  /\ Process(c) = 0 /\ ofiles[0][fd] = FileOf(c, fd) /\ FileOf(c, fd) \in FileTable
         /\ filetab[FileOf(c, fd)] \in File /\ filetab[FileOf(c, fd)].inode \in Inodes
<1>0. PICK f : f = FileOf(c, fd)
  BY Zenon
<1>1. PICK k : k = Process(c)
  BY Zenon
<1>2. f # None /\ k # None /\ f = ofiles[k][fd]
  BY Zenon, <1>0, <1>1 DEF FileOf
<1>3. lookup(connections, c) # {} /\ k = First(lookup(connections, c))
  BY Zenon, <1>1, <1>2 DEF Process
<1>4. PICK i : EntryOf(Connections, connections, c, i)
  BY Zenon, <1>3, Looked
<1>5. k \in Connections
  BY Zenon, <1>3, <1>4 DEF EntryOf
<1>6. k = 0
  BY Zenon, <1>2, <1>5 DEF FilesOK, OneProcess
<1>7. f \in FileTable
  BY Zenon, <1>2, <1>6, Leads
<1>8. filetab[f].count = 1
  BY Zenon, <1>2, <1>6 DEF FilesOK, InUse
<1>9. filetab[f].inode \in Inodes
  BY Zenon, <1>7, <1>8 DEF FilesOK, NotLeaked
<1>10. filetab[f] \in File
  BY Zenon, <1>7 DEF FilesOK, Tables
<1>. QED
  BY Zenon, <1>0, <1>1, <1>2, <1>6, <1>7, <1>9, <1>10

\* The sizes of inodes are numbers.
LEMMA SizeIs ==
  ASSUME NEW n, FsOK(fs), n \in Inodes
  PROVE  minix_inode_read(fs, n).size \in Nat
<1>1. fs.inodes \in [Inodes -> DiskInode]
  BY DEF FsOK, FsType
<1>2. fs.inodes[n] \in DiskInode
  BY Zenon, <1>1
<1>3. fs.inodes[n].size \in Nat
  BY <1>2 DEF DiskInode
<1>. QED
  BY Zenon, <1>3 DEF minix_inode_read

\* do_vfs_server_seek()
LEMMA SeekStep ==
  ASSUME NEW c, c \in Clients, IInv, do_vfs_server_seek(c)
  PROVE  IInv'
<1>. DEFINE fd == call[c].fd
            f == FileOf(c, fd)
            pos == fs_lseek(f, call[c].whence, call[c].offset)
<1>1. /\ Stubs /\ Receive(c, "seek") /\ srv' = srv /\ call' = call /\ fds' = fds /\ ctl' = ctl
      /\ fs' = fs /\ disk' = disk /\ inodes' = inodes /\ ofiles' = ofiles
      /\ connections' = connections /\ buffer' = buffer /\ buf' = buf
  BY Zenon DEF IInv, do_vfs_server_seek
<1>2. /\ call[c] \in Requests(fds[c]) /\ call[c].op = "seek" /\ ctl[c] = WaitingAt("seek")
  BY Zenon, <1>1, Received
<1>3. fd \in Fds /\ call[c].whence \in {"SEEK_SET", "SEEK_CUR", "SEEK_END"} /\ call[c].offset \in Int
  <2>1. /\ fd \in fds[c]
        /\ call[c].whence \in {"SEEK_SET", "SEEK_CUR", "SEEK_END"} /\ call[c].offset \in Int
    BY <1>2, RequestFields
  <2>. QED
    BY Zenon, <1>1, <2>1, HeldNow
<1>4. ctl' = [ctl EXCEPT ![c] = "reply"]
  BY Zenon, <1>1, <1>2, Waiting, StubSame
<1>5. FilesOK(filetab, ofiles, inodes) /\ ConnTable(Connections, Clients, connections) /\ FsOK(fs)
  BY Zenon DEF IInv, ClientsOK
<1>6. \/ Fail(c) /\ filetab' = filetab
      \/ f # None /\ ~(pos < 0) /\ filetab' = [filetab EXCEPT ![f].pos = pos] /\ Answer(c, Status("ok", pos))
  BY Zenon DEF do_vfs_server_seek
<1>. HIDE DEF f, fd
<1>7. ASSUME f # None, ~(pos < 0) PROVE f \in FileTable /\ pos \in Nat
  <2>1. f \in FileTable /\ filetab[f] \in File /\ filetab[f].inode \in Inodes
    BY Zenon, <1>3, <1>5, <1>7, FileIs DEF f
  <2>2. minix_inode_read(fs, filetab[f].inode).size \in Nat
    BY Zenon, <1>5, <2>1, SizeIs
  <2>3. filetab[f].pos \in Nat
    BY <2>1 DEF File
  <2>4. pos \in Int
    BY <1>3, <2>2, <2>3 DEF fs_lseek
  <2>. QED
    BY <1>7, <2>1, <2>4
<1>. HIDE DEF pos
<1>8. Stubs' /\ HeldBy' = HeldBy
  <2>1. CASE Fail(c)
    <3>1. Answers(c, "seek", Status("fail", None))
      BY Zenon, <1>1, <1>4, <2>1 DEF Answers, Fail
    <3>2. None \in Int /\ "fail" \in {"ok", "fail"}
      BY DEF None
    <3>. QED
      BY Zenon, <1>1, <3>1, <3>2, AnswerKeeps
  <2>2. CASE f # None /\ ~(pos < 0) /\ Answer(c, Status("ok", pos))
    <3>1. Answers(c, "seek", Status("ok", pos))
      BY Zenon, <1>1, <1>4, <2>2 DEF Answers
    <3>2. pos \in Int /\ "ok" \in {"ok", "fail"} /\ "seek" \notin {"open", "close"}
      BY <1>7, <2>2
    <3>. QED
      BY Zenon, <1>1, <3>1, <3>2, AnswerKeeps
  <2>. QED
    BY Zenon, <1>6, <2>1, <2>2
<1>9. FilesOK(filetab', ofiles', inodes')
  BY Zenon, <1>1, <1>5, <1>6, <1>7, FilesMoved
<1>10. FsOK(fs') /\ Buffers' /\ ClientsOK(ofiles', connections', HeldBy')
  BY Zenon, <1>1, <1>8 DEF IInv, Buffers
<1>. QED
  BY Zenon, <1>8, <1>9, <1>10 DEF IInv

\* A file moves forward by what was copied.
LEMMA MovedOK ==
  ASSUME NEW f, NEW pos, NEW gt, FilesOK(filetab, ofiles, inodes), f \in FileTable, pos \in Nat,
         gt = Moved(f, pos)
  PROVE  FilesOK(gt, ofiles, inodes)
<1>1. PICK p : p = IF pos \in DiskBlocks THEN pos + 1 ELSE pos
  BY Zenon
<1>2. p \in Nat
  BY <1>1
<1>3. gt = [filetab EXCEPT ![f].pos = p]
  BY Zenon, <1>1 DEF Moved
<1>. QED
  BY Zenon, <1>2, <1>3, FilesMoved

\* The descriptor of a request is one of the client's.
LEMMA RequestFd ==
  ASSUME NEW c, c \in Clients, Stubs, call[c] \in Requests(fds[c]), call[c].op # "open"
  PROVE  call[c].fd \in Fds /\ call[c].fd \in fds[c]
<1>1. call[c].fd \in fds[c]
  BY RequestFields
<1>. QED
  BY Zenon, <1>1, HeldNow

\* do_vfs_server_write()
LEMMA WriteStep ==
  ASSUME NEW c, c \in Clients, IInv, do_vfs_server_write(c)
  PROVE  IInv'
<1>. DEFINE fd == call[c].fd
            f == FileOf(c, fd)
            pos == IF "O_APPEND" \in filetab[f].oflag
                   THEN minix_inode_read(fs, filetab[f].inode).size ELSE filetab[f].pos
<1>1. /\ Stubs /\ Receive(c, "write") /\ srv' = srv /\ call' = call /\ fds' = fds
      /\ ctl' = [ctl EXCEPT ![c] = "reply"]
      /\ fs' = fs /\ inodes' = inodes /\ ofiles' = ofiles /\ connections' = connections
      /\ buffer' = buf[c] /\ buf' = buf
  BY Zenon DEF IInv, do_vfs_server_write
<1>2. /\ call[c] \in Requests(fds[c]) /\ call[c].op = "write"
  BY Zenon, <1>1, Received
<1>3. fd \in Fds
  <2>1. call[c].op # "open"
    BY <1>2
  <2>. QED
    BY Zenon, <1>1, <1>2, <2>1, RequestFd
<1>5. FilesOK(filetab, ofiles, inodes) /\ ConnTable(Connections, Clients, connections) /\ FsOK(fs)
  BY Zenon DEF IInv, ClientsOK
<1>6. \/ Fail(c) /\ filetab' = filetab /\ disk' = disk
      \/ /\ f # None /\ filetab' = Moved(f, pos) /\ disk' = ramdisk_write(pos, buf[c])
         /\ Answer(c, Status("ok", 0))
  BY Zenon DEF do_vfs_server_write, fs_write
<1>. HIDE DEF f, fd, pos
<1>b. f # None => f \in FileTable /\ filetab[f] \in File /\ filetab[f].inode \in Inodes
  BY Zenon, <1>3, <1>5, FileIs DEF f
<1>7. ASSUME f # None PROVE f \in FileTable /\ pos \in Nat
  <2>1. f \in FileTable /\ filetab[f] \in File /\ filetab[f].inode \in Inodes
    BY ZenonT(40), <1>7, <1>b
  <2>2. minix_inode_read(fs, filetab[f].inode).size \in Nat
    BY Zenon, <1>5, <2>1, SizeIs
  <2>3. filetab[f].pos \in Nat
    BY <2>1 DEF File
  <2>. QED
    BY Zenon, <2>1, <2>2, <2>3 DEF pos
<1>a. None \in Int /\ 0 \in Int /\ "fail" \in {"ok", "fail"} /\ "ok" \in {"ok", "fail"}
      /\ "write" \notin {"open", "close"}
  BY DEF None
<1>8. Stubs' /\ HeldBy' = HeldBy
  <2>1. CASE Fail(c)
    <3>1. Answers(c, "write", Status("fail", None))
      BY Zenon, <1>1, <2>1 DEF Answers, Fail
    <3>. QED
      BY Zenon, <1>1, <1>a, <3>1, AnswerKeeps
  <2>2. CASE Answer(c, Status("ok", 0))
    <3>1. Answers(c, "write", Status("ok", 0))
      BY Zenon, <1>1, <2>2 DEF Answers
    <3>. QED
      BY Zenon, <1>1, <1>a, <3>1, AnswerKeeps
  <2>. QED
    BY Zenon, <1>6, <2>1, <2>2
<1>9. FilesOK(filetab', ofiles', inodes')
  BY Zenon, <1>1, <1>5, <1>6, <1>7, MovedOK
<1>10. Buffers'
  <2>1. disk \in [DiskBlocks -> Contents] /\ buf \in [Clients -> Contents]
    BY Zenon DEF IInv, Buffers
  <2>2. buf[c] \in Contents
    BY Zenon, <2>1
  <2>3. disk' \in [DiskBlocks -> Contents]
    BY Zenon, <1>6, <2>1, <2>2 DEF ramdisk_write
  <2>. QED
    BY Zenon, <1>1, <2>1, <2>2, <2>3 DEF Buffers
<1>11. FsOK(fs') /\ ClientsOK(ofiles', connections', HeldBy')
  BY Zenon, <1>1, <1>8 DEF IInv
<1>. QED
  BY Zenon, <1>8, <1>9, <1>10, <1>11 DEF IInv

\* do_vfs_server_read(), up to the portal write
LEMMA ReadStep ==
  ASSUME NEW c, c \in Clients, IInv, do_vfs_server_read(c)
  PROVE  IInv'
<1>1. /\ Stubs /\ Receive(c, "read") /\ srv' = c /\ call' = call /\ fds' = fds /\ ctl' = ctl
      /\ Answer(c, Ack) /\ UNCHANGED <<fs, disk, inodes, filetab, ofiles, connections, buffer, buf>>
  BY Zenon DEF IInv, do_vfs_server_read
<1>2. /\ srv = Idle /\ c \in requests /\ requests' = requests \ {c} /\ HeldBy[c] = fds[c]
      /\ call[c] \in Requests(fds[c]) /\ call[c].op = "read" /\ ctl[c] = WaitingAt("read")
  BY Zenon, <1>1, Received
<1>3. ctl[c] = "ack"
  BY Zenon, <1>2, Waiting
<1>4. At(requests', srv', c) = "server"
  BY Zenon, <1>1 DEF At
<1>5. StubOK(call[c], Ack, fds[c], "ack", At(requests', srv', c))
  BY Zenon, <1>2, <1>4 DEF StubOK
<1>6. Moves(c, call[c], Ack, fds[c], "ack")
  <2>1. /\ call' = [call EXCEPT ![c] = call[c]] /\ fds' = [fds EXCEPT ![c] = fds[c]]
        /\ ctl' = [ctl EXCEPT ![c] = "ack"] /\ requests \subseteq Clients
    BY Zenon, <1>1, <1>3, StubSame
  <2>2. reply' = [reply EXCEPT ![c] = Ack]
    BY Zenon, <1>1 DEF Answer
  <2>3. \A d \in Clients : srv # d
    BY Zenon, <1>2, NotIdle
  <2>4. /\ requests' \subseteq Clients /\ srv' \in Clients \cup {Idle} /\ srv' \notin requests'
        /\ \A d \in Clients \ {c} : d \in requests' <=> d \in requests
    BY Zenon, <1>1, <1>2, <2>1
  <2>5. \A d \in Clients \ {c} : srv' = d <=> srv = d
    BY Zenon, <1>1, <2>3
  <2>. QED
    BY Zenon, <2>1, <2>2, <2>4, <2>5 DEF Moves
<1>7. fds[c] \in SUBSET Fds
  BY Zenon, <1>1, HeldNow
<1>8. Stubs' /\ HeldBy' = [HeldBy EXCEPT ![c] = HeldOf(call[c], Ack, fds[c])]
  BY Zenon, <1>1, <1>5, <1>6, <1>7, StubStep
<1>9. HeldOf(call[c], Ack, fds[c]) = HeldBy[c]
  BY ZenonT(40), <1>2, Messages, HeldIs
<1>10. HeldBy' = HeldBy
  BY Zenon, <1>8, <1>9, HeldSame
<1>11. /\ FsOK(fs') /\ Buffers' /\ FilesOK(filetab', ofiles', inodes')
       /\ ClientsOK(ofiles', connections', HeldBy')
  BY Zenon, <1>1, <1>10 DEF IInv, Buffers
<1>. QED
  BY Zenon, <1>8, <1>11 DEF IInv

\* do_vfs_server_read(), from the portal write on
LEMMA ReadDataStep ==
  ASSUME IInv, do_vfs_server_read_data
  PROVE  IInv'
<1>0. PICK c : c = srv
  BY Zenon
<1>. DEFINE fd == call[c].fd
            f == FileOf(c, fd)
            pos == filetab[f].pos
<1>1. /\ Stubs /\ srv # Idle /\ ctl[c] = "portal_read" /\ srv' = Idle /\ call' = call /\ fds' = fds
      /\ ctl' = [ctl EXCEPT ![c] = "reply"]
      /\ fs' = fs /\ inodes' = inodes /\ ofiles' = ofiles /\ connections' = connections
      /\ disk' = disk /\ requests' = requests /\ buf' = [buf EXCEPT ![c] = buffer]
  BY Zenon, <1>0 DEF IInv, do_vfs_server_read_data
<1>c. c \in Clients
  BY Zenon, <1>0, <1>1 DEF Stubs
<1>d. At(requests, srv, c) = "server"
  BY Zenon, <1>0 DEF At
<1>2. /\ call[c] \in Requests(fds[c]) /\ call[c].op = "read"
  <2>1. StubOK(call[c], reply[c], fds[c], ctl[c], At(requests, srv, c))
    BY Zenon, <1>1, <1>c, StubOf
  <2>. QED
    BY Zenon, <1>d, <2>1, StubCases
<1>3. fd \in Fds
  <2>1. call[c].op # "open"
    BY <1>2
  <2>. QED
    BY Zenon, <1>1, <1>2, <1>c, <2>1, RequestFd
<1>5. FilesOK(filetab, ofiles, inodes) /\ ConnTable(Connections, Clients, connections) /\ FsOK(fs)
  BY Zenon DEF IInv, ClientsOK
<1>6. \/ Fail(c) /\ filetab' = filetab /\ buffer' = buffer
      \/ /\ f # None /\ filetab' = Moved(f, pos) /\ buffer' = ramdisk_read(pos, buffer)
         /\ Answer(c, Status("ok", 0))
  BY Zenon, <1>0 DEF do_vfs_server_read_data, fs_read
<1>. HIDE DEF f, fd
<1>b. f # None => f \in FileTable /\ filetab[f] \in File
  BY Zenon, <1>3, <1>5, <1>c, FileIs DEF f
<1>7. f # None => f \in FileTable /\ pos \in Nat
  BY <1>b DEF File
<1>. HIDE DEF pos
<1>8. Stubs' /\ HeldBy' = HeldBy
  <2>1. PICK r : r \in Statuses /\ reply' = [reply EXCEPT ![c] = r]
    <3>1. None \in Int /\ 0 \in Int /\ "fail" \in {"ok", "fail"} /\ "ok" \in {"ok", "fail"}
      BY DEF None
    <3>2. Status("fail", None) \in Statuses /\ Status("ok", 0) \in Statuses
      BY Zenon, <3>1, StatusIs
    <3>. QED
      BY Zenon, <1>6, <3>2 DEF Fail, Answer
  <2>2. c \notin requests /\ requests \subseteq Clients
    BY Zenon, <1>0, <1>1 DEF Stubs
  <2>3. Idle \notin Clients
    BY Zenon, NotIdle
  <2>4. At(requests', srv', c) = "client"
    BY Zenon, <1>1, <1>c, <2>2, <2>3 DEF At
  <2>5. call[c].op # "open" /\ call[c].op \notin {"open", "close"}
    BY <1>2
  <2>6. StubOK(call[c], r, fds[c], "reply", At(requests', srv', c))
    BY Zenon, <1>2, <2>1, <2>4, <2>5 DEF StubOK
  <2>7. Moves(c, call[c], r, fds[c], "reply")
    <3>1. /\ call' = [call EXCEPT ![c] = call[c]] /\ fds' = [fds EXCEPT ![c] = fds[c]]
      BY Zenon, <1>1, <1>c, StubSame
    <3>2. /\ requests' \subseteq Clients /\ srv' \in Clients \cup {Idle} /\ srv' \notin requests'
          /\ \A d \in Clients \ {c} : d \in requests' <=> d \in requests
      BY Zenon, <1>1, <2>2, <2>3
    <3>3. \A d \in Clients \ {c} : srv' = d <=> srv = d
      BY Zenon, <1>0, <1>1, <2>3
    <3>. QED
      BY Zenon, <1>1, <2>1, <3>1, <3>2, <3>3 DEF Moves
  <2>8. fds[c] \in SUBSET Fds /\ HeldBy[c] = HeldOf(call[c], reply[c], fds[c])
    BY Zenon, <1>1, <1>c, HeldNow
  <2>a. Stubs /\ fds[c] \in SUBSET Fds
    BY Zenon, <1>1, <2>8
  <2>9. Stubs' /\ HeldBy' = [HeldBy EXCEPT ![c] = HeldOf(call[c], r, fds[c])]
    BY Zenon, <1>c, <2>6, <2>7, <2>a, StubStep
  <2>10. HeldOf(call[c], r, fds[c]) = fds[c] /\ HeldOf(call[c], reply[c], fds[c]) = fds[c]
    BY Zenon, <2>5, HeldStays
  <2>. QED
    BY Zenon, <2>8, <2>9, <2>10, HeldSame
<1>9. FilesOK(filetab', ofiles', inodes')
  BY Zenon, <1>1, <1>5, <1>6, <1>7, MovedOK
<1>10. Buffers'
  <2>1. disk \in [DiskBlocks -> Contents] /\ buf \in [Clients -> Contents] /\ buffer \in Contents
    BY Zenon DEF IInv, Buffers
  <2>2. buffer' \in Contents
    BY Zenon, <1>6, <2>1 DEF ramdisk_read
  <2>3. buf' \in [Clients -> Contents]
    BY Zenon, <1>1, <2>1
  <2>. QED
    BY Zenon, <1>1, <2>1, <2>2, <2>3 DEF Buffers
<1>11. FsOK(fs') /\ ClientsOK(ofiles', connections', HeldBy')
  BY Zenon, <1>1, <1>8 DEF IInv
<1>. QED
  BY Zenon, <1>8, <1>9, <1>10, <1>11 DEF IInv

\* do_vfs_server_close()
LEMMA CloseStep ==
  ASSUME NEW c, c \in Clients, IInv, do_vfs_server_close(c)
  PROVE  IInv'
<1>. DEFINE fd == call[c].fd
            f == FileOf(c, fd)
<1>1. /\ Stubs /\ Receive(c, "close") /\ srv' = srv /\ call' = call /\ fds' = fds /\ ctl' = ctl
      /\ disk' = disk /\ buffer' = buffer /\ buf' = buf
  BY Zenon DEF IInv, do_vfs_server_close
<1>2. /\ srv = Idle /\ c \in requests /\ requests' = requests \ {c} /\ HeldBy[c] = fds[c]
      /\ call[c] \in Requests(fds[c]) /\ call[c].op = "close" /\ ctl[c] = WaitingAt("close")
  BY Zenon, <1>1, Received
<1>3. fd \in Fds /\ fd \in fds[c] /\ call[c].op # "open"
  <2>1. call[c].op # "open"
    BY <1>2
  <2>. QED
    BY Zenon, <1>1, <1>2, <2>1, RequestFd
<1>4. ctl' = [ctl EXCEPT ![c] = "reply"]
  BY Zenon, <1>1, <1>2, Waiting, StubSame
<1>5. /\ FilesOK(filetab, ofiles, inodes) /\ ConnTable(Connections, Clients, connections) /\ FsOK(fs)
      /\ ClientsOK(ofiles, connections, HeldBy) /\ Buffers
  BY Zenon DEF IInv, ClientsOK
<1>6. Buffers'
  BY Zenon, <1>1, <1>5 DEF Buffers
<1>7. CASE f = None
  <2>1. Fail(c) /\ UNCHANGED <<fs, inodes, filetab, ofiles, connections>>
    BY Zenon, <1>7 DEF do_vfs_server_close
  <2>2. Answers(c, "close", Status("fail", None))
    BY Zenon, <1>1, <1>4, <2>1 DEF Answers, Fail
  <2>3. None \in Int /\ "fail" \in {"ok", "fail"}
    BY DEF None
  <2>4. Stubs' /\ HeldBy' = HeldBy
    BY Zenon, <1>1, <2>2, <2>3, AnswerKeeps
  <2>. QED
    BY Zenon, <1>5, <1>6, <2>1, <2>4 DEF IInv
<1>8. CASE f # None
  <2>1. /\ Answer(c, Status("ok", 0)) /\ connections' = disconnect(connections, c)
        /\ fs_close(Process(c), fd, f)
    BY Zenon, <1>8 DEF do_vfs_server_close
  <2>2. Process(c) = 0 /\ ofiles[0][fd] = f
    BY Zenon, <1>3, <1>5, <1>8, FileIs
  <2>. HIDE DEF f, fd
  <2>3. PICK n : n = filetab[f].inode
    BY Zenon
  <2>4. PICK t : t = inode_put(State, n)
    BY Zenon
  <2>5. PICK jno : jno = [inodes EXCEPT ![n] = @ - 1]
    BY Zenon
  <2>6. StateIs(State, fs, inodes)
    BY Zenon DEF State, StateIs
  <2>7. PICK y : FsOK(y) /\ StateIs(t, y, jno)
    BY Zenon, <1>5, <2>4, <2>5, <2>6, PutInode
  <2>8. t.fs = y /\ t.inodes = jno
    BY Zenon, <2>7, StateFields
  <2>9. /\ ofiles' = [ofiles EXCEPT ![0][fd] = None] /\ filetab' = [filetab EXCEPT ![f] = NoFile]
        /\ fs' = y /\ inodes' = jno
    BY ZenonT(40), <2>1, <2>2, <2>3, <2>4, <2>8 DEF fs_close
  <2>10. FilesOK(filetab', ofiles', inodes')
    <3>1. PICK gt, og : /\ gt = [filetab EXCEPT ![f] = NoFile] /\ og = [ofiles EXCEPT ![0][fd] = None]
      BY Zenon
    <3>2. Closes(filetab, ofiles, inodes, gt, og, jno, fd, f, n)
      BY ZenonT(40), <1>3, <1>8, <2>2, <2>3, <2>5, <3>1 DEF Closes
    <3>3. FilesOK(gt, og, jno)
      BY Zenon, <1>5, <3>2, FilesClosed
    <3>. QED
      BY Zenon, <2>9, <3>1, <3>3
  <2>11. \A b \in Fds \ {fd} : ofiles'[0][b] = ofiles[0][b]
    <3>1. ofiles \in [Connections -> [Fds -> FileTable \cup {None}]]
      BY Zenon, <1>5 DEF FilesOK, Tables
    <3>. QED
      BY Zenon, <2>9, <3>1, Indexes
  <2>12. PICK r : r = Status("ok", 0)
    BY Zenon
  <2>13. r \in Statuses /\ r.ret = "ok" /\ r.op = "status"
    BY <2>12 DEF Status, Statuses
  <2>14. Stubs' /\ HeldBy' = [HeldBy EXCEPT ![c] = HeldOf(call[c], r, fds[c])]
    BY ZenonT(40), <1>1, <1>2, <1>3, <1>4, <2>1, <2>12, <2>13, AnswerStep
  <2>15. HeldOf(call[c], r, fds[c]) = fds[c] \ {fd}
    BY Zenon, <1>2, <1>3, <2>13 DEF HeldOf, fd
  <2>16. HeldBy' = [HeldBy EXCEPT ![c] = @ \ {fd}]
    BY Zenon, <1>2, <2>14, <2>15
  <2>17. ClientsOK(ofiles', connections', HeldBy')
    BY ZenonT(40), <1>2, <1>3, <1>5, <2>1, <2>11, <2>16, ClientCloses
  <2>. QED
    BY ZenonT(40), <1>6, <2>7, <2>9, <2>10, <2>14, <2>17 DEF IInv
<1>. QED
  BY Zenon, <1>7, <1>8

\* What fs_open() leaves: the tables agree, and either nothing is open that was
\* not, or one descriptor is.
Opened(x) ==
  /\ FsOK(x.state.fs) /\ FilesOK(x.filetab, x.ofiles, x.state.inodes)
  /\ \/ x.fd = None /\ x.ofiles = ofiles
     \/ /\ x.fd \in Fds /\ ofiles[0][x.fd] = None /\ x.ofiles[0][x.fd] # None
        /\ \A b \in Fds \ {x.fd} : x.ofiles[0][b] = ofiles[0][b]

\* fs_open() that is refused
LEMMA OpenRefused ==
  ASSUME NEW x, NEW t, FilesOK(filetab, ofiles, inodes), FsOK(t.fs), t.inodes = inodes,
         x = [fd |-> None, state |-> t, filetab |-> filetab, ofiles |-> ofiles]
  PROVE  Opened(x)
<1>1. x.fd = None /\ x.state = t /\ x.filetab = filetab /\ x.ofiles = ofiles
  OBVIOUS
<1>. QED
  BY Zenon, <1>1 DEF Opened

\* fs_open() that opens descriptor fd, with file f of inode n
LEMMA OpenGranted ==
  ASSUME NEW x, NEW t, NEW fd, NEW f, NEW n, NEW e, FilesOK(filetab, ofiles, inodes), FsOK(t.fs),
         t.inodes = [inodes EXCEPT ![n] = @ + 1],
         fd \in Fds, ofiles[0][fd] = None, f \in FileTable, filetab[f].count = 0, n \in Inodes,
         e \in File, e.count = 1, e.inode = n,
         x = [fd |-> fd, state |-> t, filetab |-> [filetab EXCEPT ![f] = e],
              ofiles |-> [ofiles EXCEPT ![0][fd] = f]]
  PROVE  Opened(x)
<1>1. PICK gt, og, jno : /\ gt = [filetab EXCEPT ![f] = e] /\ og = [ofiles EXCEPT ![0][fd] = f]
                         /\ jno = [inodes EXCEPT ![n] = @ + 1]
  BY Zenon
<1>2. Opens(filetab, ofiles, inodes, gt, og, jno, fd, f, n, e)
  BY Zenon, <1>1 DEF Opens
<1>3. FilesOK(gt, og, jno)
  BY Zenon, <1>2, FilesOpened
<1>4. x = [fd |-> fd, state |-> t, filetab |-> gt, ofiles |-> og]
  BY Zenon, <1>1
<1>5. x.fd = fd /\ x.state = t /\ x.filetab = gt /\ x.ofiles = og
  BY <1>4
<1>6. ofiles \in [Connections -> [Fds -> FileTable \cup {None}]]
  BY Zenon DEF FilesOK, Tables
<1>7. og[0][fd] = f /\ \A b \in Fds \ {fd} : og[0][b] = ofiles[0][b]
  BY Zenon, <1>1, <1>6, Indexes
<1>8. f # None
  BY Zenon, Indexes
<1>9. t.inodes = jno
  BY Zenon, <1>1
<1>. QED
  BY Zenon, <1>3, <1>5, <1>7, <1>8, <1>9 DEF Opened

\* fs_open() in process 0
LEMMA FsOpens ==
  ASSUME NEW name, NEW oflag, FilesOK(filetab, ofiles, inodes), FsOK(fs), oflag \in SUBSET Flags
  PROVE  Opened(fs_open(0, name, oflag))
<1>1. PICK s : s = State
  BY Zenon
<1>2. s.fs = fs /\ s.inodes = inodes
  BY Zenon, <1>1, StateFields DEF State, StateIs
<1>3. inodes \in [Inodes -> Nat]
  BY Zenon DEF FilesOK, Tables
<1>4. CASE FreeFds(0) = {} \/ FreeFiles = {}
  <2>1. PICK o : o = [num |-> MINIX_INODE_NULL, state |-> s]
    BY Zenon
  <2>2. o.num = MINIX_INODE_NULL /\ o.state = s
    BY <2>1
  <2>3. PICK x : x = [fd |-> None, state |-> s, filetab |-> filetab, ofiles |-> ofiles]
    BY Zenon
  <2>4. fs_open(0, name, oflag) = x
    BY Zenon, <1>1, <1>4, <2>1, <2>2, <2>3 DEF fs_open
  <2>. QED
    BY Zenon, <1>2, <2>3, <2>4, OpenRefused
<1>5. CASE FreeFds(0) # {} /\ FreeFiles # {}
  <2>1. PICK o : o = do_open(name)
    BY Zenon
  <2>2. Took(o)
    BY Zenon, <1>3, <2>1, OpenTakes
  <2>3. CASE o.num = MINIX_INODE_NULL
    <3>1. PICK t : t = o.state
      BY Zenon
    <3>2. FsOK(t.fs) /\ t.inodes = inodes
      BY Zenon, <2>2, <2>3, <3>1, Indexes DEF Took
    <3>3. PICK x : x = [fd |-> None, state |-> t, filetab |-> filetab, ofiles |-> ofiles]
      BY Zenon
    <3>4. fs_open(0, name, oflag) = x
      BY ZenonT(40), <1>5, <2>1, <2>3, <3>1, <3>3 DEF fs_open
    <3>. QED
      BY Zenon, <3>2, <3>3, <3>4, OpenRefused
  <2>4. CASE o.num # MINIX_INODE_NULL
    <3>1. PICK t, n : t = o.state /\ n = o.num
      BY Zenon
    <3>2. FsOK(t.fs) /\ n \in Inodes /\ t.inodes = [inodes EXCEPT ![n] = @ + 1]
      BY Zenon, <2>2, <2>4, <3>1 DEF Took
    <3>3. PICK fd, f : fd = First(FreeFds(0)) /\ f = First(FreeFiles)
      BY Zenon
    <3>4. FreeFds(0) \in SUBSET Nat /\ FreeFiles \in SUBSET Nat
      BY Zenon, Indexes DEF FreeFds, FreeFiles
    <3>5. First(FreeFds(0)) \in FreeFds(0) /\ First(FreeFiles) \in FreeFiles
      BY Zenon, <1>5, <3>4, FirstIsLeast
    <3>6. fd \in Fds /\ ofiles[0][fd] = None /\ f \in FileTable /\ filetab[f].count = 0
      BY Zenon, <3>3, <3>5 DEF FreeFds, FreeFiles
    <3>7. PICK e : e = [count |-> 1, oflag |-> oflag, pos |-> 0, inode |-> n]
      BY Zenon
    <3>8. e \in File /\ e.count = 1 /\ e.inode = n
      BY <3>2, <3>7 DEF File
    <3>9. PICK x : x = [fd |-> fd, state |-> t, filetab |-> [filetab EXCEPT ![f] = e],
                        ofiles |-> [ofiles EXCEPT ![0][fd] = f]]
      BY Zenon
    <3>10. fs_open(0, name, oflag) = x
      BY ZenonT(40), <1>5, <2>1, <2>4, <3>1, <3>3, <3>7, <3>9 DEF fs_open
    <3>11. Opened(x)
      BY ZenonT(40), <3>2, <3>6, <3>8, <3>9, OpenGranted
    <3>. QED
      BY Zenon, <3>10, <3>11
  <2>. QED
    BY Zenon, <2>3, <2>4
<1>. QED
  BY Zenon, <1>4, <1>5

\* do_vfs_server_open()
LEMMA OpenStep ==
  ASSUME NEW c, c \in Clients, IInv, do_vfs_server_open(c)
  PROVE  IInv'
<1>1. /\ Stubs /\ Receive(c, "open") /\ srv' = srv /\ call' = call /\ fds' = fds /\ ctl' = ctl
      /\ disk' = disk /\ buffer' = buffer /\ buf' = buf
  BY Zenon DEF IInv, do_vfs_server_open
<1>2. /\ srv = Idle /\ c \in requests /\ requests' = requests \ {c} /\ HeldBy[c] = fds[c]
      /\ call[c] \in Requests(fds[c]) /\ call[c].op = "open" /\ ctl[c] = WaitingAt("open")
  BY Zenon, <1>1, Received
<1>3. call[c].oflag \in SUBSET Flags
  BY <1>2, RequestFields
<1>4. ctl' = [ctl EXCEPT ![c] = "reply"]
  BY Zenon, <1>1, <1>2, Waiting, StubSame
<1>5. /\ FilesOK(filetab, ofiles, inodes) /\ FsOK(fs) /\ ClientsOK(ofiles, connections, HeldBy) /\ Buffers
  BY Zenon DEF IInv
<1>6. Buffers'
  BY Zenon, <1>1, <1>5 DEF Buffers
<1>7. ASSUME Fail(c) PROVE Stubs' /\ HeldBy' = HeldBy
  <2>1. Answers(c, "open", Status("fail", None))
    BY Zenon, <1>1, <1>4, <1>7 DEF Answers, Fail
  <2>2. None \in Int /\ "fail" \in {"ok", "fail"}
    BY DEF None
  <2>. QED
    BY Zenon, <1>1, <2>1, <2>2, AnswerKeeps
<1>8. CASE connect_ret(connections, c) < 0
  <2>1. Fail(c) /\ UNCHANGED <<connections, fs, inodes, filetab, ofiles>>
    BY Zenon, <1>8 DEF do_vfs_server_open
  <2>. QED
    BY Zenon, <1>5, <1>6, <1>7, <2>1 DEF IInv
<1>9. CASE ~(connect_ret(connections, c) < 0)
  <2>1. connect_ret(connections, c) = 0
    BY <1>9 DEF connect_ret
  <2>2. PICK x : x = fs_open(0, call[c].name, call[c].oflag)
    BY Zenon
  <2>3. Opened(x)
    BY Zenon, <1>3, <1>5, <2>2, FsOpens
  <2>4. /\ fs' = x.state.fs /\ inodes' = x.state.inodes /\ filetab' = x.filetab /\ ofiles' = x.ofiles
        /\ x.fd = None => connections' = AfterFailedOpen(c) /\ Fail(c)
        /\ x.fd # None => connections' = connect(connections, c) /\ Answer(c, Status("ok", x.fd))
    BY Zenon, <1>9, <2>1, <2>2 DEF do_vfs_server_open
  <2>5. FsOK(fs') /\ FilesOK(filetab', ofiles', inodes')
    BY Zenon, <2>3, <2>4 DEF Opened
  <2>6. CASE x.fd = None
    <3>1. ofiles' = ofiles
      BY Zenon, <2>3, <2>4, <2>6, Indexes DEF Opened
    <3>2. Stubs' /\ HeldBy' = HeldBy
      BY Zenon, <1>7, <2>4, <2>6
    <3>3. ClientsOK(ofiles, disconnect(connect(connections, c), c), HeldBy)
      BY Zenon, <1>5, <2>1, ClientRefused
    <3>4. ClientsOK(ofiles', connections', HeldBy')
      BY Zenon, <2>4, <2>6, <3>1, <3>2, <3>3 DEF AfterFailedOpen
    <3>. QED
      BY Zenon, <1>6, <2>5, <3>2, <3>4 DEF IInv
  <2>7. CASE x.fd # None
    <3>0. PICK fd : fd = x.fd
      BY Zenon
    <3>1. /\ fd \in Fds /\ ofiles[0][fd] = None /\ ofiles'[0][fd] # None
          /\ \A b \in Fds \ {fd} : ofiles'[0][b] = ofiles[0][b]
      BY Zenon, <2>3, <2>4, <2>7, <3>0 DEF Opened
    <3>2. PICK r : r = Status("ok", fd)
      BY Zenon
    <3>3. r \in Statuses /\ r.op = "status" /\ r.ret = "ok" /\ r.val = fd
      <4>1. fd \in Int
        BY <3>1 DEF Fds
      <4>. QED
        BY <3>2, <4>1 DEF Status, Statuses
    <3>4. Answer(c, r) /\ (call[c].op = "open" /\ r.ret = "ok" => r.val \in Fds)
      BY ZenonT(40), <2>4, <2>7, <3>0, <3>1, <3>2, <3>3
    <3>5. Stubs' /\ HeldBy' = [HeldBy EXCEPT ![c] = HeldOf(call[c], r, fds[c])]
      BY Zenon, <1>1, <1>2, <1>4, <3>3, <3>4, AnswerStep
    <3>6. HeldOf(call[c], r, fds[c]) = fds[c] \cup {fd}
      BY Zenon, <1>2, <3>3 DEF HeldOf
    <3>7. HeldBy' = [HeldBy EXCEPT ![c] = @ \cup {fd}]
      BY Zenon, <1>2, <3>5, <3>6
    <3>8. ClientsOK(ofiles', connect(connections, c), HeldBy')
      BY Zenon, <1>5, <2>1, <3>1, <3>7, ClientOpens
    <3>. QED
      BY ZenonT(40), <1>6, <2>4, <2>5, <2>7, <3>5, <3>8 DEF IInv
  <2>. QED
    BY Zenon, <2>6, <2>7
<1>. QED
  BY Zenon, <1>8, <1>9

-----------------------------------------------------------------------------
(***************************************************************************)
(* The clients, and all steps together.                                    *)
(***************************************************************************)

\* A step that changes only the state of a stub.
LEMMA StubOnly ==
  ASSUME IInv, UNCHANGED <<fs, disk, inodes, filetab, ofiles, connections, buffer>>,
         Stubs', HeldBy' = HeldBy, buf' \in [Clients -> Contents]
  PROVE  IInv'
<1>1. Buffers'
  BY Zenon DEF IInv, Buffers
<1>. QED
  BY Zenon, <1>1 DEF IInv

\* A stub sends a request.
LEMMA CallStep ==
  ASSUME NEW c, c \in Clients, IInv, Call(c)
  PROVE  IInv'
<1>1. Stubs /\ buf \in [Clients -> Contents]
  BY Zenon DEF IInv, Buffers
<1>2. ASSUME NEW m, m \in Requests(fds[c]), Send(c, m), buf' \in [Clients -> Contents]
      PROVE  IInv'
  <2>1. UNCHANGED <<fs, disk, inodes, filetab, ofiles, connections, buffer>>
    BY Zenon, <1>2 DEF Send, servervars
  <2>2. Stubs' /\ HeldBy' = HeldBy
    BY Zenon, <1>1, <1>2, SendStep
  <2>. QED
    BY Zenon, <1>2, <2>1, <2>2, StubOnly
<1>3. ASSUME NEW name \in Names, NEW oflag \in OpenFlags[c], OpenCall(c, name, oflag)
      PROVE  IInv'
  <2>1. PICK m : m = [op |-> "open", name |-> name, oflag |-> oflag]
    BY Zenon
  <2>2. OpenFlags[c] \in SUBSET SUBSET Flags
    BY Zenon, VfsAssumption
  <2>3. m \in [op : {"open"}, name : Names, oflag : SUBSET Flags]
    BY <2>1, <2>2
  <2>4. m \in Requests(fds[c])
    BY Zenon, <2>3 DEF Requests
  <2>. QED
    BY Zenon, <1>1, <1>2, <1>3, <2>1, <2>4 DEF OpenCall
<1>4. ASSUME NEW fd \in fds[c], CloseCall(c, fd)
      PROVE  IInv'
  <2>1. PICK m : m = [op |-> "close", fd |-> fd]
    BY Zenon
  <2>2. m \in [op : {"close"}, fd : fds[c]]
    BY <2>1
  <2>3. m \in Requests(fds[c])
    BY Zenon, <2>2 DEF Requests
  <2>. QED
    BY Zenon, <1>1, <1>2, <1>4, <2>1, <2>3 DEF CloseCall
<1>5. ASSUME NEW fd \in fds[c], NEW s \in Seeks, SeekCall(c, fd, s)
      PROVE  IInv'
  <2>1. PICK m : m = [op |-> "seek", fd |-> fd, whence |-> s[1], offset |-> s[2]]
    BY Zenon
  <2>2. s[1] \in {"SEEK_SET", "SEEK_CUR", "SEEK_END"} /\ s[2] \in Int
    BY VfsAssumption
  <2>3. m \in [op : {"seek"}, fd : fds[c], whence : {"SEEK_SET", "SEEK_CUR", "SEEK_END"}, offset : Int]
    BY <2>1, <2>2
  <2>4. m \in Requests(fds[c])
    BY Zenon, <2>3 DEF Requests
  <2>. QED
    BY Zenon, <1>1, <1>2, <1>5, <2>1, <2>4 DEF SeekCall
<1>6. ASSUME NEW fd \in fds[c], NEW n \in 1 .. MaxChunks, ReadCall(c, fd, n)
      PROVE  IInv'
  <2>1. PICK m : m = [op |-> "read", fd |-> fd, left |-> n - 1]
    BY Zenon
  <2>2. m \in [op : {"read", "write"}, fd : fds[c], left : Nat]
    BY <2>1
  <2>3. m \in Requests(fds[c])
    BY Zenon, <2>2 DEF Requests
  <2>. QED
    BY Zenon, <1>1, <1>2, <1>6, <2>1, <2>3 DEF ReadCall
<1>7. ASSUME NEW fd \in fds[c], NEW n \in 1 .. MaxChunks, NEW v \in Values, WriteCall(c, fd, n, v)
      PROVE  IInv'
  <2>1. PICK m : m = [op |-> "write", fd |-> fd, left |-> n - 1]
    BY Zenon
  <2>2. m \in [op : {"read", "write"}, fd : fds[c], left : Nat]
    BY <2>1
  <2>3. m \in Requests(fds[c])
    BY Zenon, <2>2 DEF Requests
  <2>4. v \in Contents
    BY Zenon DEF Contents
  <2>5. buf' \in [Clients -> Contents]
    BY Zenon, <1>1, <1>7, <2>4 DEF WriteCall
  <2>. QED
    BY Zenon, <1>2, <1>7, <2>1, <2>3, <2>5 DEF WriteCall
<1>. QED
  BY Zenon, <1>3, <1>4, <1>5, <1>6, <1>7 DEF Call, Use

\* A stub takes an answer.
LEMMA TakeStep ==
  ASSUME NEW c, c \in Clients, IInv, ReadAck(c) \/ NextChunk(c) \/ Return(c)
  PROVE  IInv'
<1>1. Stubs /\ buf \in [Clients -> Contents] /\ Zero \in Contents
  BY Zenon, VfsAssumption DEF IInv, Buffers, Contents
<1>2. Stubs' /\ HeldBy' = HeldBy
  BY Zenon, <1>1, AckStep, ChunkStep, ReturnStep
<1>3. UNCHANGED <<fs, disk, inodes, filetab, ofiles, connections, buffer>>
  BY Zenon DEF ReadAck, NextChunk, Return, servervars
<1>4. buf' = buf \/ buf' = [buf EXCEPT ![c] = Zero]
  BY Zenon DEF ReadAck, NextChunk, Return
<1>5. buf' \in [Clients -> Contents]
  BY Zenon, <1>1, <1>4
<1>. QED
  BY Zenon, <1>2, <1>3, <1>5, StubOnly

\* Every step keeps the invariant.
LEMMA VfsStep == IInv /\ [Next]_vars => IInv'
<1>. SUFFICES ASSUME IInv, [Next]_vars PROVE IInv'
  BY Zenon
<1>1. CASE do_vfs_server_read_data
  BY Zenon, <1>1, ReadDataStep
<1>2. ASSUME NEW c \in Clients, Handle(c)
      PROVE  IInv'
  BY Zenon, <1>2, OpenStep, CloseStep, SeekStep, ReadStep, WriteStep DEF Handle
<1>3. CASE UNCHANGED vars
  <2>1. /\ UNCHANGED <<fs, disk, inodes, filetab, ofiles, connections, buffer>>
        /\ UNCHANGED <<srv, requests, call, ctl, reply, buf, fds>>
    BY Zenon, <1>3 DEF vars, servervars, clientvars
  <2>2. Stubs' /\ HeldBy' = HeldBy
    BY Zenon, <2>1 DEF IInv, Stubs, HeldBy
  <2>3. buf' \in [Clients -> Contents]
    BY Zenon, <2>1 DEF IInv, Buffers
  <2>. QED
    BY Zenon, <2>1, <2>2, <2>3, StubOnly
<1>. QED
  BY Zenon, <1>1, <1>2, <1>3, CallStep, TakeStep DEF Next

\* No file is open in the beginning, and the root is mounted.
LEMMA FilesInit == Init => FilesOK(filetab, ofiles, inodes)
<1>. SUFFICES ASSUME Init PROVE FilesOK(filetab, ofiles, inodes)
  BY Zenon
<1>1. /\ filetab = [f \in FileTable |-> NoFile] /\ inodes = fs_mount
      /\ ofiles = [k \in Connections |-> [fd \in Fds |-> None]]
  BY Zenon DEF Init, fs_init, fprocess_init
<1>2. NoFile \in File /\ NoFile.count = 0 /\ NoFile.count # 1 /\ ~(NoFile.count > 0)
  BY DEF NoFile, File
<1>3. inodes \in [Inodes -> Nat] /\ \A n \in Inodes : inodes[n] = Mounts(n)
  BY <1>1 DEF fs_mount, Mounts
<1>4. Tables(filetab, ofiles, inodes)
  BY Zenon, <1>1, <1>2, <1>3 DEF Tables
<1>5. OneProcess(ofiles) /\ \A fd \in Fds : ofiles[0][fd] = None
  BY Zenon, <1>1, Indexes DEF OneProcess
<1>6. InUse(filetab, ofiles) /\ NotShared(ofiles)
  BY Zenon, <1>5 DEF InUse, NotShared
<1>7. NotLeaked(filetab, ofiles)
  BY Zenon, <1>1, <1>2 DEF NotLeaked
<1>8. CountedBy(filetab, inodes)
  <2>. SUFFICES ASSUME NEW n \in Inodes
                PROVE  inodes[n] = Cardinality(OpenOn(filetab, n)) + Mounts(n)
    BY Zenon DEF CountedBy
  <2>1. OpenOn(filetab, n) = {}
    BY Zenon, <1>1, <1>2 DEF OpenOn
  <2>2. Cardinality(OpenOn(filetab, n)) = 0
    BY Zenon, <2>1, FS_EmptySet
  <2>. QED
    BY <1>3, <2>2
<1>. QED
  BY Zenon, <1>4, <1>5, <1>6, <1>7, <1>8 DEF FilesOK

\* The invariant holds in the beginning.
LEMMA VfsInit == Init => IInv
<1>. SUFFICES ASSUME Init PROVE IInv
  BY Zenon
<1>1. FsOK(fs) /\ FilesOK(filetab, ofiles, inodes)
  BY Zenon, FsMade, FilesInit DEF Init, fs_init
<1>2. Buffers
  <2>1. disk = [ramdisk_init EXCEPT ![0] = Meta] /\ buffer = Zero /\ buf = [c \in Clients |-> Zero]
    BY Zenon DEF Init, fs_init
  <2>2. Zero \in Contents /\ Meta \in Contents
    BY Zenon, VfsAssumption DEF Contents
  <2>. QED
    BY Zenon, <2>1, <2>2 DEF Buffers, ramdisk_init
<1>3. /\ srv = Idle /\ requests = {} /\ call = [c \in Clients |-> NoCall]
      /\ ctl = [c \in Clients |-> "idle"] /\ reply = [c \in Clients |-> NoReply]
      /\ fds = [c \in Clients |-> {}] /\ connections = connections_setup
  BY Zenon DEF Init
<1>4. Stubs
  <2>1. ASSUME NEW c \in Clients
        PROVE  StubOK(call[c], reply[c], fds[c], ctl[c], At(requests, srv, c))
    <3>1. At(requests, srv, c) = "client"
      BY Zenon, <1>3, NotIdle DEF At
    <3>. QED
      BY Zenon, <1>3, <3>1 DEF StubOK
  <2>2. /\ call = [c \in Clients |-> call[c]] /\ reply = [c \in Clients |-> reply[c]]
        /\ ctl = [c \in Clients |-> ctl[c]] /\ fds \in [Clients -> SUBSET Fds]
    BY Zenon, <1>3
  <2>. QED
    BY Zenon, <1>3, <2>1, <2>2 DEF Stubs
<1>5. HeldBy = [c \in Clients |-> {}]
  <2>1. \A c \in Clients : HeldOf(call[c], reply[c], fds[c]) = {}
    BY Zenon, <1>3, Messages, HeldIs
  <2>. QED
    BY Zenon, <2>1 DEF HeldBy
<1>6. ConnTable(Connections, Clients, connections)
  <2>1. IsFiniteSet(Connections) /\ Connections \subseteq Nat
    BY FS_Interval, ConnectionAssumption DEF Connections
  <2>. DEFINE e == [remote |-> -1, port |-> -1, count |-> 0]
  <2>2. e \in [remote : Int, port : Int, count : Nat] /\ e.count = 0 /\ ~(e.remote >= 0)
    OBVIOUS
  <2>3. connections = [i \in Connections |-> e]
    BY Zenon, <1>3 DEF connections_setup
  <2>. HIDE DEF e
  <2>. QED
    BY Zenon, <2>1, <2>2, <2>3, VfsAssumption DEF ConnTable
<1>7. ASSUME NEW c \in Clients PROVE ConnectionsOf(connections, c) = 0
  <2>1. \A i \in DOMAIN connections : connections[i].remote = -1
    BY Zenon, <1>3 DEF connections_setup
  <2>2. c[1] # -1
    BY VfsAssumption
  <2>3. lookup(connections, c) = {}
    BY Zenon, <2>1, <2>2 DEF lookup
  <2>. QED
    BY Zenon, <2>3 DEF ConnectionsOf
<1>8. ClientsOK(ofiles, connections, HeldBy)
  <2>1. Cardinality({}) = 0
    BY Zenon, FS_EmptySet
  <2>. QED
    BY Zenon, <1>5, <1>6, <1>7, <2>1 DEF ClientsOK
<1>. QED
  BY Zenon, <1>1, <1>2, <1>4, <1>8 DEF IInv

-----------------------------------------------------------------------------
(***************************************************************************)
(* The theorems.                                                           *)
(***************************************************************************)

\* The invariant holds always.
LEMMA VfsInvariant == Spec => []IInv
<1>1. Init => IInv
  BY Zenon, VfsInit
<1>2. IInv /\ [Next]_vars => IInv'
  BY Zenon, VfsStep
<1>. QED
  BY <1>1, <1>2, PTL DEF Spec

\* What the server takes for the descriptors of a client.
LEMMA HeldIsHeldBy ==
  ASSUME NEW c, c \in Clients, Stubs
  PROVE  Held(c) = HeldBy[c]
<1>1. StubOK(call[c], reply[c], fds[c], ctl[c], At(requests, srv, c))
  BY Zenon, StubOf
<1>2. PICK m, r, D : m = call[c] /\ r = reply[c] /\ D = fds[c]
  BY Zenon
<1>3. Held(c) = HeldOf(m, r, D)
  BY <1>2 DEF Held, HeldOf, AfterCall
<1>. QED
  BY Zenon, <1>2, <1>3, HeldNow

\* The references to an inode in the table of inodes are the files that are
\* open on it, and that of the mount, on every path of do_vfs_server_open() and
\* do_vfs_server_close().
THEOREM InodesCorrect == Spec => []InodesCounted
<1>1. IInv => InodesCounted
  BY Zenon DEF IInv, FilesOK, CountedBy, InodesCounted, OpenOn, Mounts
<1>. QED
  BY <1>1, VfsInvariant, PTL

\* The server has a client connected as often as the client has descriptors.
THEOREM ConnectionsCorrect == Spec => []ConnectionsCounted
<1>1. IInv => ConnectionsCounted
  BY Zenon, HeldIsHeldBy DEF IInv, ClientsOK, ConnectionsCounted
<1>. QED
  BY <1>1, VfsInvariant, PTL

\* A file is in use exactly if one descriptor leads to it.
LEMMA OneDescriptor ==
  ASSUME NEW f, FilesOK(filetab, ofiles, inodes), f \in FileTable
  PROVE  Cardinality({p \in Connections \X Fds : ofiles[p[1]][p[2]] = f}) = filetab[f].count
<1>. DEFINE S == {p \in Connections \X Fds : ofiles[p[1]][p[2]] = f}
<1>1. f # None
  BY Zenon, Indexes
<1>2. filetab[f].count \in {0, 1}
  <2>1. filetab[f] \in File
    BY Zenon DEF FilesOK, Tables
  <2>. QED
    BY <2>1 DEF File
<1>3. \A k \in Connections, fd \in Fds : ofiles[k][fd] = f => k = 0 /\ ofiles[0][fd] = f
  BY Zenon, <1>1 DEF FilesOK, OneProcess
<1>4. CASE filetab[f].count = 0
  <2>1. \A fd \in Fds : ofiles[0][fd] # f
    <3>1. 0 # 1
      OBVIOUS
    <3>. QED
      BY Zenon, <1>1, <1>4, <3>1 DEF FilesOK, InUse
  <2>2. S = {}
    BY Zenon, <1>3, <2>1
  <2>. QED
    BY Zenon, <1>4, <2>2, FS_EmptySet
<1>5. CASE filetab[f].count = 1
  <2>1. PICK fd \in Fds : ofiles[0][fd] = f
    BY Zenon, <1>5 DEF FilesOK, NotLeaked
  <2>2. \A fe \in Fds : ofiles[0][fe] = f => fe = fd
    BY Zenon, <1>1, <2>1 DEF FilesOK, NotShared
  <2>3. <<0, fd>> \in S
    BY <2>1, Indexes
  <2>4. \A p \in S : p = <<0, fd>>
    BY <1>3, <2>2
  <2>5. S = {<<0, fd>>}
    BY Zenon, <2>3, <2>4
  <2>. QED
    BY Zenon, <1>5, <2>5, FS_Singleton
<1>. QED
  BY Zenon, <1>2, <1>4, <1>5

\* No entry of the file table is leaked or shared on any path of open and
\* close, and the descriptors of the clients are open and different.
THEOREM DescriptorsCorrect == Spec => []DescriptorsTracked
<1>1. IInv => DescriptorsTracked
  <2>. SUFFICES ASSUME IInv PROVE DescriptorsTracked
    BY Zenon
  <2>1. TypeOK
    <3>1. fs.imap \subseteq Inodes
      BY DEF IInv, FsOK, FsType
    <3>. QED
      BY Zenon, <3>1 DEF IInv, Buffers, Contents, Stubs, FilesOK, Tables, File, TypeOK
  <2>2. ASSUME NEW f \in FileTable
        PROVE  Cardinality({p \in Connections \X Fds : ofiles[p[1]][p[2]] = f}) = filetab[f].count
    BY Zenon, OneDescriptor DEF IInv
  <2>3. ASSUME NEW c \in Clients
        PROVE  /\ \A fd \in Held(c) : ofiles[0][fd] # None
               /\ \A d \in Clients : c # d => Held(c) \cap Held(d) = {}
    BY Zenon, HeldIsHeldBy DEF IInv, ClientsOK
  <2>. QED
    BY Zenon, <2>1, <2>2, <2>3 DEF DescriptorsTracked
<1>. QED
  BY <1>1, VfsInvariant, PTL

=============================================================================

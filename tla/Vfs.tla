--------------------------------- MODULE Vfs --------------------------------
(***************************************************************************)
(* The file system server (src/sys/fs/vfs/: main.c, vfs.c, fprocess.c,     *)
(* fs.c, inode.c) over the Minix file system, and its stub                 *)
(* (libruntime/fs/vfs.c).  A client is a pair <<process, port>>.           *)
(*                                                                         *)
(* Only block special files can be opened, and the one there is, "disk",   *)
(* is the device that the root file system lies on.  Reads and writes go   *)
(* through the server's buffer one block at a time; block 0 stands for the *)
(* blocks with the metadata of the file system.                            *)
(***************************************************************************)
EXTENDS Connection, Minix, FiniteSets

CONSTANTS Clients,
          NANVIX_OPEN_MAX,  \* descriptors of a process
          NANVIX_NR_FILES,  \* entries of the file table
          NANVIX_INODES_TABLE_LENGTH,
          Names,            \* names that clients open
          OpenFlags,        \* OpenFlags[c]: the flags that client c opens with
          Seeks,            \* pairs <<whence, offset>> that clients seek with
          Values, Meta,     \* contents of a block; Meta is intact metadata
          Zero,             \* the content of a blank block
          MaxChunks         \* bound on the blocks of a read or write

Flags == {"O_RDONLY", "O_WRONLY", "O_RDWR", "O_APPEND"}

ASSUME VfsAssumption ==
  /\ NANVIX_OPEN_MAX \in Nat \ {0} /\ NANVIX_NR_FILES \in Nat \ {0}
  /\ NANVIX_INODES_TABLE_LENGTH \in Nat \ {0} /\ MaxChunks \in Nat \ {0}
  /\ Meta \notin Values /\ Zero \in Values
  /\ Clients \subseteq Nat \X Nat
  /\ OpenFlags \in [Clients -> SUBSET SUBSET Flags]
  /\ Seeks \subseteq {"SEEK_SET", "SEEK_CUR", "SEEK_END"} \X Int

Fds == 0 .. NANVIX_OPEN_MAX - 1
FileTable == 0 .. NANVIX_NR_FILES - 1
DiskBlocks == 0 .. NANVIX_DISK_SIZE - 1
None == -1

VARIABLES
  fs,           \* the file system
  disk,         \* the contents of the blocks of the disk
  inodes,       \* inodes[n]: references to inode n in the table of inodes
  filetab,      \* the table of files
  ofiles,       \* ofiles[k][fd]: file of descriptor fd of process k
  connections,  \* the table of connections
  buffer,       \* the buffer of the server
  srv,          \* the client that the server sends the buffer to, or Idle
  requests,     \* clients with a request in the mailbox of the server
  call,         \* the request of a client
  ctl,          \* where the stub of a client waits
  reply,        \* the message in the mailbox of a client
  buf,          \* the buffer of a client
  fds           \* descriptors that a client has

servervars == <<fs, disk, inodes, filetab, ofiles, connections, buffer, srv>>
clientvars == <<requests, call, ctl, reply, buf, fds>>
vars == <<servervars, clientvars>>

NoCall == [op |-> "none"]
NoReply == [op |-> "none"]
Ack == [op |-> "ack"]
Status(ret, val) == [op |-> "status", ret |-> ret, val |-> val]
Idle == <<-1, -1>>
NoFile == [count |-> 0, oflag |-> {}, pos |-> 0, inode |-> MINIX_INODE_NULL]

\* ramdisk_init() fills the disk with zeros; fs_init() then makes the file
\* system, mounts it and clears the table of files.  fs_mount() takes one
\* reference to the root inode, and fprocess_init() leaves no file open.
ramdisk_init == [b \in DiskBlocks |-> Zero]
fs_mount == [n \in Inodes |-> IF n = MINIX_INODE_ROOT THEN 1 ELSE 0]
fs_init ==
  /\ fs = minix_mkfs
  /\ disk = [ramdisk_init EXCEPT ![0] = Meta]
  /\ inodes = fs_mount
  /\ filetab = [f \in FileTable |-> NoFile]
fprocess_init == [k \in Connections |-> [fd \in Fds |-> None]]

\* do_vfs_server_startup() and vfs_init()
Init ==
  /\ fs_init
  /\ ofiles = fprocess_init
  /\ connections = connections_setup
  /\ buffer = Zero
  /\ srv = Idle
  /\ requests = {}
  /\ call = [c \in Clients |-> NoCall]
  /\ ctl = [c \in Clients |-> "idle"]
  /\ reply = [c \in Clients |-> NoReply]
  /\ buf = [c \in Clients |-> Zero]
  /\ fds = [c \in Clients |-> {}]

-----------------------------------------------------------------------------
(***************************************************************************)
(* Inodes: operators from a state t of the file system and the table of    *)
(* inodes to the state after the call.                                     *)
(***************************************************************************)

State == [fs |-> fs, inodes |-> inodes]

\* inode_get() and inode_read(): if the table of inodes is full, the inode
\* is freed on disk.
TableFull(t) == Cardinality({n \in Inodes : t.inodes[n] > 0}) = NANVIX_INODES_TABLE_LENGTH
inode_get(t, num) ==
  IF t.inodes[num] = 0 /\ TableFull(t) THEN [t EXCEPT !.fs = minix_inode_free(@, num)]
  ELSE [t EXCEPT !.inodes[num] = @ + 1]
inode_got(t, num) == t.inodes[num] > 0 \/ ~ TableFull(t)

\* inode_put() and inode_free(): the inode is written to disk before its
\* links are counted down, so that they are the same when it is read again.
inode_put_mutant(t, num) == t
inode_put(t, num) ==
  LET u == [t EXCEPT !.inodes[num] = @ - 1] IN
  IF t.inodes[num] = 1 /\ minix_inode_read(t.fs, num).nlinks = 1
  THEN [u EXCEPT !.fs = minix_inode_free(@, num)] ELSE u

\* inode_name(): the entries of the root directory are read from disk, and
\* the name is not there if something else has been written over them.
inode_name(name) ==
  IF disk[0] = Meta
  THEN minix_dirent_search(fs, minix_inode_read(fs, MINIX_INODE_ROOT), name)
  ELSE MINIX_INODE_NULL

-----------------------------------------------------------------------------
(***************************************************************************)
(* The server.                                                             *)
(***************************************************************************)

\* do_vfs_server_loop(): takes the request of client c, which asks for op.
Receive(c, op) ==
  /\ srv = Idle
  /\ c \in requests /\ call[c].op = op
  /\ requests' = requests \ {c}

\* do_vfs_server_loop(): the reply.
AnswerMutant(c, m) == reply' = IF m # Status("fail", None) THEN [reply EXCEPT ![c] = m] ELSE reply
Answer(c, m) == reply' = [reply EXCEPT ![c] = m]
Fail(c) == Answer(c, Status("fail", None))

\* fprocess_launch(): the process of a client, by its index in the table of
\* connections.  None if it is not connected.
Process(c) == IF lookup(connections, c) = {} THEN None ELSE First(lookup(connections, c))
FileOf(c, fd) == IF Process(c) = None THEN None ELSE ofiles[Process(c)][fd]

\* getfildes() and getfile(): the free descriptors and files.  The mutant does
\* not look whether a file is free.
FreeFds(k) == {fd \in Fds : ofiles[k][fd] = None}
FreeFilesMutant == FileTable
FreeFiles == {f \in FileTable : filetab[f].count = 0}

\* ramdisk_write() and ramdisk_read() of the block at pos: beyond the end of
\* the disk nothing is copied.
ramdisk_write(pos, v) == IF pos \in DiskBlocks THEN [disk EXCEPT ![pos] = v] ELSE disk
ramdisk_read(pos, old) == IF pos \in DiskBlocks THEN disk[pos] ELSE old
Moved(f, pos) == [filetab EXCEPT ![f].pos = IF pos \in DiskBlocks THEN pos + 1 ELSE pos]

-----------------------------------------------------------------------------
\* do_open(): the inode of the file, if it can be opened, and the inodes
\* afterwards.  Only special files can be.
do_open(name) ==
  LET num == inode_name(name)
      t == inode_get(State, num) IN
  IF num = MINIX_INODE_NULL THEN [num |-> MINIX_INODE_NULL, state |-> State]
  ELSE IF ~ inode_got(State, num) THEN [num |-> MINIX_INODE_NULL, state |-> t]
  ELSE IF minix_inode_read(fs, num).mode # "blk"
  THEN [num |-> MINIX_INODE_NULL, state |-> inode_put(t, num)]
  ELSE [num |-> num, state |-> t]

\* fs_open() in process k: the descriptor and the file are looked for first.
fs_open(k, name, oflag) ==
  LET x == IF FreeFds(k) = {} \/ FreeFiles = {}
           THEN [num |-> MINIX_INODE_NULL, state |-> State] ELSE do_open(name)
      fd == First(FreeFds(k))
      f == First(FreeFiles)
      file == [count |-> 1, oflag |-> oflag, pos |-> 0, inode |-> x.num] IN
  IF x.num = MINIX_INODE_NULL
  THEN [fd |-> None, state |-> x.state, filetab |-> filetab, ofiles |-> ofiles]
  ELSE [fd |-> fd, state |-> x.state, filetab |-> [filetab EXCEPT ![f] = file],
        ofiles |-> [ofiles EXCEPT ![k][fd] = f]]

\* The connections after a failed open.  The mutant leaves the client connected.
AfterFailedOpenMutant(c) == connect(connections, c)
AfterFailedOpen(c) == disconnect(connect(connections, c), c)

\* do_vfs_server_open() and vfs_open(): the process is the one with the number
\* that connect() returns, which is zero.
do_vfs_server_open(c) ==
  LET k == connect_ret(connections, c)
      x == fs_open(k, call[c].name, call[c].oflag) IN
  /\ Receive(c, "open")
  /\ IF k < 0 THEN Fail(c) /\ UNCHANGED <<connections, fs, inodes, filetab, ofiles>>
     ELSE /\ fs' = x.state.fs /\ inodes' = x.state.inodes
          /\ filetab' = x.filetab /\ ofiles' = x.ofiles
          /\ IF x.fd = None
             THEN connections' = AfterFailedOpen(c) /\ Fail(c)
             ELSE connections' = connect(connections, c) /\ Answer(c, Status("ok", x.fd))
  /\ UNCHANGED <<disk, buffer, srv, call, ctl, buf, fds>>

-----------------------------------------------------------------------------
\* fs_close() of descriptor fd, which has file f, of process k.
fs_close(k, fd, f) ==
  LET t == inode_put(State, filetab[f].inode) IN
  /\ ofiles' = [ofiles EXCEPT ![k][fd] = None]
  /\ filetab' = [filetab EXCEPT ![f] = NoFile]
  /\ fs' = t.fs /\ inodes' = t.inodes

\* do_vfs_server_close() and vfs_close()
do_vfs_server_close(c) ==
  LET f == FileOf(c, call[c].fd) IN
  /\ Receive(c, "close")
  /\ IF f = None
     THEN Fail(c) /\ UNCHANGED <<fs, inodes, filetab, ofiles, connections>>
     ELSE /\ fs_close(Process(c), call[c].fd, f)
          /\ connections' = disconnect(connections, c)
          /\ Answer(c, Status("ok", 0))
  /\ UNCHANGED <<disk, buffer, srv, call, ctl, buf, fds>>

\* fs_lseek(): the new position, which is refused if it is negative.
fs_lseek(f, whence, offset) ==
  offset + CASE whence = "SEEK_SET" -> 0
             [] whence = "SEEK_CUR" -> filetab[f].pos
             [] whence = "SEEK_END" -> minix_inode_read(fs, filetab[f].inode).size

\* do_vfs_server_seek() and vfs_seek()
do_vfs_server_seek(c) ==
  LET f == FileOf(c, call[c].fd)
      pos == fs_lseek(f, call[c].whence, call[c].offset) IN
  /\ Receive(c, "seek")
  /\ IF f = None THEN Fail(c) /\ UNCHANGED filetab
     ELSE IF pos < 0 THEN Fail(c) /\ UNCHANGED filetab
     ELSE filetab' = [filetab EXCEPT ![f].pos = pos] /\ Answer(c, Status("ok", pos))
  /\ UNCHANGED <<fs, disk, inodes, ofiles, connections, buffer, srv, call, ctl, buf, fds>>

\* fs_write() of v to file f: with O_APPEND at the size of the inode.
Writable(f) == filetab[f].oflag \cap {"O_WRONLY", "O_RDWR"} # {}
fs_write(f, v) ==
  LET pos == IF "O_APPEND" \in filetab[f].oflag
             THEN minix_inode_read(fs, filetab[f].inode).size ELSE filetab[f].pos IN
  disk' = ramdisk_write(pos, v) /\ filetab' = Moved(f, pos)

\* do_vfs_server_write() and vfs_write(): the data come in before the
\* descriptor is looked at.  A write that copies nothing is a success.
do_vfs_server_write(c) ==
  LET f == FileOf(c, call[c].fd) IN
  /\ Receive(c, "write")
  /\ ctl[c] = "portal_write"
  /\ ctl' = [ctl EXCEPT ![c] = "reply"]
  /\ buffer' = buf[c]
  /\ IF f = None THEN Fail(c) /\ UNCHANGED <<disk, filetab>>
     ELSE IF ~ Writable(f) THEN Fail(c) /\ UNCHANGED <<disk, filetab>>
     ELSE fs_write(f, buf[c]) /\ Answer(c, Status("ok", 0))
  /\ UNCHANGED <<fs, inodes, ofiles, connections, srv, call, buf, fds>>

\* do_vfs_server_read(), up to the portal write, which blocks until the
\* client reads the portal.
do_vfs_server_read(c) ==
  /\ Receive(c, "read")
  /\ Answer(c, Ack)
  /\ srv' = c
  /\ UNCHANGED <<fs, disk, inodes, filetab, ofiles, connections, buffer, call, ctl, buf, fds>>

\* fs_read() of file f into the buffer.
Readable(f) == "O_WRONLY" \notin filetab[f].oflag
fs_read(f) ==
  LET pos == filetab[f].pos IN
  buffer' = ramdisk_read(pos, buffer) /\ filetab' = Moved(f, pos)

\* do_vfs_server_read() from there on, and vfs_read(): the client gets the
\* buffer as it was before the read.
do_vfs_server_read_data ==
  LET c == srv
      f == FileOf(c, call[c].fd) IN
  /\ srv # Idle /\ ctl[c] = "portal_read"
  /\ ctl' = [ctl EXCEPT ![c] = "reply"]
  /\ buf' = [buf EXCEPT ![c] = buffer]
  /\ srv' = Idle
  /\ IF f = None THEN Fail(c) /\ UNCHANGED <<buffer, filetab>>
     ELSE IF ~ Readable(f) THEN Fail(c) /\ UNCHANGED <<buffer, filetab>>
     ELSE fs_read(f) /\ Answer(c, Status("ok", 0))
  /\ UNCHANGED <<fs, disk, inodes, ofiles, connections, requests, call, fds>>

Handle(c) ==
  \/ do_vfs_server_open(c) \/ do_vfs_server_close(c) \/ do_vfs_server_seek(c)
  \/ do_vfs_server_read(c) \/ do_vfs_server_write(c)

-----------------------------------------------------------------------------
(***************************************************************************)
(* The stub.                                                               *)
(***************************************************************************)

\* Where the stub waits once it has sent a request.
WaitingAt(op) ==
  CASE op = "read" -> "ack" [] op = "write" -> "portal_write" [] OTHER -> "reply"

\* A stub sends request m.
Send(c, m) ==
  /\ ctl[c] = "idle"
  /\ requests' = requests \cup {c}
  /\ call' = [call EXCEPT ![c] = m]
  /\ ctl' = [ctl EXCEPT ![c] = WaitingAt(m.op)]
  /\ UNCHANGED <<servervars, reply, fds>>

\* nanvix_vfs_open(), nanvix_vfs_close() and nanvix_vfs_seek(), up to the
\* receive.  A descriptor that is closed is given up.
OpenCall(c, name, oflag) ==
  Send(c, [op |-> "open", name |-> name, oflag |-> oflag]) /\ UNCHANGED buf
CloseCall(c, fd) == Send(c, [op |-> "close", fd |-> fd]) /\ UNCHANGED buf
SeekCall(c, fd, s) ==
  Send(c, [op |-> "seek", fd |-> fd, whence |-> s[1], offset |-> s[2]]) /\ UNCHANGED buf

\* do_nanvix_vfs_read(), up to the wait for the acknowledge, and
\* do_nanvix_vfs_write(), up to the portal write; "left" blocks remain.
ReadCall(c, fd, n) ==
  Send(c, [op |-> "read", fd |-> fd, left |-> n - 1]) /\ UNCHANGED buf
WriteCall(c, fd, n, v) ==
  /\ Send(c, [op |-> "write", fd |-> fd, left |-> n - 1])
  /\ buf' = [buf EXCEPT ![c] = v]

\* do_nanvix_vfs_read(): the acknowledge.
ReadAck(c) ==
  /\ ctl[c] = "ack" /\ reply[c] = Ack
  /\ ctl' = [ctl EXCEPT ![c] = "portal_read"]
  /\ reply' = [reply EXCEPT ![c] = NoReply]
  /\ UNCHANGED <<servervars, requests, call, buf, fds>>

\* nanvix_vfs_read() and nanvix_vfs_write(), in the loop over the chunks: the
\* next block is asked for.
NextChunk(c) ==
  /\ ctl[c] = "reply" /\ reply[c] # NoReply
  /\ call[c].op \in {"read", "write"} /\ reply[c].ret = "ok" /\ call[c].left > 0
  /\ requests' = requests \cup {c}
  /\ call' = [call EXCEPT ![c].left = @ - 1]
  /\ ctl' = [ctl EXCEPT ![c] = WaitingAt(call[c].op)]
  /\ reply' = [reply EXCEPT ![c] = NoReply]
  /\ UNCHANGED <<servervars, buf, fds>>

\* The stubs, from the last receive on.
AfterCall(c) ==
  CASE call[c].op = "open" /\ reply[c].ret = "ok" -> fds[c] \cup {reply[c].val}
    [] call[c].op = "close" /\ reply[c].ret = "ok" -> fds[c] \ {call[c].fd}
    [] OTHER -> fds[c]
Return(c) ==
  /\ ctl[c] = "reply" /\ reply[c] # NoReply
  /\ call[c].op \in {"read", "write"} /\ reply[c].ret = "ok" => call[c].left = 0
  /\ fds' = [fds EXCEPT ![c] = AfterCall(c)]
  /\ ctl' = [ctl EXCEPT ![c] = "idle"]
  /\ call' = [call EXCEPT ![c] = NoCall]
  /\ reply' = [reply EXCEPT ![c] = NoReply]
  /\ buf' = [buf EXCEPT ![c] = Zero]
  /\ UNCHANGED <<servervars, requests>>

-----------------------------------------------------------------------------
\* A client uses the descriptors that it has.
Use(c, fd) ==
  \/ CloseCall(c, fd)
  \/ \E s \in Seeks : SeekCall(c, fd, s)
  \/ \E n \in 1 .. MaxChunks : ReadCall(c, fd, n) \/ \E v \in Values : WriteCall(c, fd, n, v)

Call(c) ==
  \/ \E name \in Names, oflag \in OpenFlags[c] : OpenCall(c, name, oflag)
  \/ \E fd \in fds[c] : Use(c, fd)

Next ==
  \/ do_vfs_server_read_data
  \/ \E c \in Clients : Call(c) \/ Handle(c) \/ ReadAck(c) \/ NextChunk(c) \/ Return(c)

Spec == Init /\ [][Next]_vars

\* The threads keep running, and a request is not overtaken for ever in the
\* mailbox of the server.
FairSpec ==
  /\ Spec
  /\ WF_vars(do_vfs_server_read_data)
  /\ \A c \in Clients :
       SF_vars(Handle(c)) /\ WF_vars(ReadAck(c) \/ NextChunk(c) \/ Return(c))

-----------------------------------------------------------------------------
(***************************************************************************)
(* Properties.                                                             *)
(***************************************************************************)

\* The state of the server and of the clients is well typed.
TypeOK ==
  /\ fs.imap \subseteq Inodes
  /\ disk \in [DiskBlocks -> Values \cup {Meta}]
  /\ inodes \in [Inodes -> Nat]
  /\ filetab \in [FileTable -> [count : {0, 1}, oflag : SUBSET Flags, pos : Nat,
                                inode : Inodes \cup {MINIX_INODE_NULL}]]
  /\ ofiles \in [Connections -> [Fds -> FileTable \cup {None}]]
  /\ srv \in Clients \cup {Idle} /\ requests \subseteq Clients
  /\ fds \in [Clients -> SUBSET Fds]

\* The references to an inode are the files that are open on it, and one of
\* the mount for the root: neither a failed open nor a close leaves one
\* behind, which would keep the entry of the table of inodes for ever, or
\* drops one too many.
InodesCounted ==
  \A n \in Inodes :
    inodes[n] = Cardinality({f \in FileTable : filetab[f].count > 0 /\ filetab[f].inode = n})
                  + (IF n = MINIX_INODE_ROOT THEN 1 ELSE 0)

\* Descriptors of client c, from the point of view of the server.
Held(c) ==
  CASE reply[c].op # "status" -> fds[c]
    [] reply[c].op = "status" -> AfterCall(c)

\* A client is connected as often as it has descriptors: it stays connected
\* while it has one, and does not keep its slot afterwards.
ConnectionsCounted ==
  \A c \in Clients : ConnectionsOf(connections, c) = Cardinality(Held(c))

\* The variables have their types.  No entry of the file table is leaked or
\* shared, on any path of open and close: it is in use exactly if one
\* descriptor of one process leads to it.  No two clients have the same
\* descriptor, and a descriptor that a client has is open, in the process
\* that do_vfs_server_open() opens files in.
DescriptorsTracked ==
  /\ TypeOK
  /\ \A f \in FileTable :
       Cardinality({p \in Connections \X Fds : ofiles[p[1]][p[2]] = f}) = filetab[f].count
  /\ \A c \in Clients :
       /\ \A fd \in Held(c) : ofiles[0][fd] # None
       /\ \A d \in Clients : c # d => Held(c) \cap Held(d) = {}

\* Every call returns, whatever it asks for and whatever fails on the way.
CallsReturn == \A c \in Clients : ctl[c] # "idle" ~> ctl[c] = "idle"

=============================================================================

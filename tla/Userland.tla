------------------------------ MODULE Userland ------------------------------
(***************************************************************************)
(* The user programs and the system calls they make for files, programs    *)
(* and messages: user/shell.c and user/ipc_test.c on top of the calls of   *)
(* kernel/syscall.c, with MesaFS, Elf and UserAccess for what those call.  *)
(*                                                                         *)
(* A system call is one step, except sys_exec, which holds a kernel buffer *)
(* between its steps.  The shell, a program that makes file calls with any *)
(* argument, the programs that exchange messages and a program that calls  *)
(* sys_exec share nothing but the volume, which nobody writes, so a        *)
(* behaviour starts one of these groups.                                   *)
(* Operators named X_Something are faulty variants of X.                   *)
(***************************************************************************)
EXTENDS UserAccess, MesaFS, Elf, FiniteSets

CONSTANTS Volumes,      \* the volumes that may be mounted
          HeaderOf,     \* file contents -> the ELF header they begin with
          Bytes,        \* the byte values, as symbols
          Paths,        \* the path strings users type
          Texts,        \* the other lines users type
          Pointers, Sizes,  \* arguments that programs pass
          WriteMax,     \* sizeof(kbuf) in sys_write: 256
          ReadMax,      \* sizeof(kbuf) in sys_read of a file: 512
          PathMax,      \* sizeof(kpath): 256
          ListMax,      \* sizeof(dir_buffer) in the shell: 1024
          EntriesMax,   \* entries[64] in sys_readdir
          IpcMax,       \* IPC_MAX_MESSAGE_SIZE: 256
          QueueMax,     \* IPC_MAX_QUEUE_SIZE: 16
          IntMax,       \* the largest int: 2^31 - 1
          HelloDigits,  \* how long the client's counter gets: 1 to 10 digits
          MaxFrames     \* frames left when a program is loaded

\* A zero ends a string.
IsString(t) == \A i \in 1..Len(t) : t[i] # NUL

ASSUME UserlandAssumption ==
    /\ {WriteMax, ReadMax, PathMax, ListMax, EntriesMax, IpcMax, QueueMax} \subseteq Nat \ {0}
    /\ {MaxFrames, IntMax} \subseteq Nat /\ HelloDigits \subseteq 1..10
    /\ Pointers \subseteq Addr /\ Sizes \subseteq Addr
    /\ {Slash, NUL, NL} \subseteq Bytes
    /\ Paths \subseteq Seq(Bytes) /\ Texts \subseteq Seq(Bytes)
    /\ \A path \in Paths : Len(path) < PathMax    \* the shell reads lines of 255 bytes
    /\ \A t \in Paths \cup Texts : IsString(t)
    /\ PathMax \in Addr /\ KernelBase >= 512      \* room for local arrays below the kernel
    /\ WriteMax < ReadMax

\* The shape of what is on a disk (mesafs.h): any numbers, names and bytes, with
\* two limits.  The name_len of an entry is at most the width of its name; the
\* code trusts it and would read on behind the name.  And inode numbers are
\* ints; sys_open returns a larger one as a negative number.  The root is not
\* inode 0: mesafs_format makes it 1.
Inodes == [type : Nat, size : Nat, blocks_used : Nat, direct : [1..NDirect -> Nat]]
FileNames == {x \in Seq(Bytes) : Len(x) <= NameField /\ IsString(x)}
DirEntries == [inode : Nat, name : FileNames]
Blocks == [inodes : [1..SlotsInside -> Inodes], entries : [1..EntriesMax -> DirEntries],
           bytes : [1..BlockSize -> Bytes]]

ASSUME VolumesAssumption ==
    \A v \in Volumes :
        /\ v.mounted /\ {v.total_blocks, v.total_inodes} \subseteq Nat /\ v.root \in Nat \ {0}
        /\ v.blocks \in [0..(v.total_blocks - 1) -> Blocks] /\ v.beyond \in Inodes
        /\ v.root <= IntMax
        /\ \A b \in DOMAIN v.blocks, i \in 1..EntriesMax : v.blocks[b].entries[i].inode <= IntMax

\* Program headers.  LoadAddr, the memory of the model, holds every address that
\* a segment asks for, unless the sum wraps around.
Segments == [type : STRING, offset : Addr, vaddr : Addr, filesz : Addr, memsz : Addr]

ASSUME HeadersAssumption ==
    \A c \in DOMAIN HeaderOf :
        /\ c \in Seq(Bytes) /\ HeaderOf[c].phdrs \in Seq(Segments)
        /\ \A i \in DOMAIN HeaderOf[c].phdrs :
              LET ph == HeaderOf[c].phdrs[i]
              IN  ph.type = "LOAD" /\ ph.vaddr + ph.memsz < AddrSpace =>
                      ph.vaddr..(ph.vaddr + ph.memsz - 1) \subseteq LoadAddr

ShellPid == 1           \* kernel_main creates them in this order
ServerPid == 2
ClientPid == 3
AppPid == 4             \* any other program
Pids == 1..4
AnyPid == 0             \* IPC_ANY_PID

VARIABLES vol,          \* mesafs_get_mounted(), or NoVolume
          group,        \* the programs of this behaviour
          shell,        \* the shell's position and its local variables
          shown,        \* what the current command has written
          mailbox,      \* ipc_queue_t of every process: oldest message first
          server,       \* ipc_server: from_pid, the bytes received, its position
          copies,       \* the copies of the last message call
          exec          \* the sys_exec of the App: position, file, memory

vars == <<vol, group, shell, shown, mailbox, server, copies, exec>>

NoVolume == [mounted |-> FALSE]
Idle == [pc |-> "prompt", cmd |-> "none", arg |-> <<>>, fd |-> 0, buf |-> <<>>, n |-> 0]
Done == [Idle EXCEPT !.pc = "done"]
Fresh == [a \in LoadAddr |-> STALE]

Init ==
    /\ vol \in Volumes \cup {NoVolume}
    /\ group \in {"shell", "files", "messages", "exec"}
    /\ group = "messages" => vol = NoVolume
    /\ shell = Idle /\ shown = <<>>
    /\ mailbox = [p \in Pids |-> <<>>]
    /\ server \in [from : Pids \cup {AnyPid}, n : {0}, pc : {"receive"}]   \* from_pid is not set
    /\ group # "messages" => server.from = AnyPid
    /\ copies = {}
    /\ exec = [pc |-> "user", file |-> 0, holds |-> FALSE, data |-> <<>>, mem |-> Fresh,
               frames |-> MaxFrames]

-----------------------------------------------------------------------------
(***************************************************************************)
(* System calls on files.  The shell's buffers are user memory, so its     *)
(* pointers pass validate_user_pointer.                                    *)
(***************************************************************************)
sys_write(bytes) == SubSeq(bytes, 1, MinOf(Len(bytes), WriteMax))

\* The copy of a path in the kernel.
kpath(path) == SubSeq(path, 1, MinOf(Len(path), PathMax - 1))

\* The cast of the inode number to int changes nothing (VolumesAssumption).
sys_open(path) ==
    LET n == IF vol.mounted THEN resolve_path(vol, kpath(path)) ELSE 0
    IN  IF n = 0 THEN -1 ELSE n

\* The descriptor is the inode number; 1 and 2 are taken by the console, and
\* reading 0, the keyboard, is in Keyboard.
sys_read(fd, count) ==
    IF fd <= 2 \/ ~vol.mounted THEN Fail
    ELSE mesafs_read(vol, fd, MinOf(count, ReadMax), 0)

\* Fault: the name may fill the buffer, so that no room is left for its
\* newline.
AddEntry_NoRoom(out, name, size) ==
    LET cut == out \o SubSeq(name, 1, MinOf(Len(name), size - 1 - Len(out)))
    IN  IF Len(out) >= size - 1 THEN out
        ELSE IF Len(cut) < size - 1 THEN Append(cut, NL) ELSE cut

\* One round of the outer loop of sys_readdir; Len(out) is pos and Len(name) is
\* name_len, which nothing else limits.
AddEntry(out, name, size) ==
    LET cut == out \o SubSeq(name, 1, MinOf(Len(name), size - 2 - Len(out)))
    IN  IF Len(out) >= size - 1 THEN out
        ELSE IF Len(cut) < size - 1 THEN Append(cut, NL) ELSE cut

sys_readdir(path, size) ==
    LET n == sys_open(path)
        list == mesafs_list_dir(vol, n, EntriesMax)
        out[i \in 0..Len(list.entries)] ==
            IF i = 0 THEN <<>> ELSE AddEntry(out[i - 1], list.entries[i].name, size)
    IN  IF n < 0 THEN Fail
        ELSE IF list.ret < 0 THEN Fail
        ELSE Got(out[Len(list.entries)])

-----------------------------------------------------------------------------
(***************************************************************************)
(* The shell: one action for each system call between two prompts.  A      *)
(* message of the shell itself is one symbol.                              *)
(***************************************************************************)
UpToNul(bytes) ==
    LET z == {i \in DOMAIN bytes : bytes[i] = NUL}
    IN  IF z = {} THEN bytes
        ELSE SubSeq(bytes, 1, (CHOOSE i \in z : \A j \in z : i <= j) - 1)

\* puts: strlen, then a single user_write.
puts(bytes) == sys_write(UpToNul(bytes))

ShellVars == <<vol, group, mailbox, server, copies, exec>>

\* A command that only prints; "clear" writes the VGA memory directly.
Command(cmd) ==
    /\ group = "shell" /\ shell.pc = "prompt"
    /\ \/ /\ cmd \in {"help", "clear"}
          /\ shown' = IF cmd = "clear" THEN <<>> ELSE <<cmd>>
          /\ shell' = [Done EXCEPT !.cmd = cmd]
       \/ /\ cmd = "exit"
          /\ shown' = <<"Goodbye!">>
          /\ shell' = [Idle EXCEPT !.cmd = cmd, !.pc = "zombie"]
       \/ \E t \in Texts :
            /\ \/ cmd = "echo" /\ shown' = sys_write(t) \o sys_write(<<NL>>)
               \/ cmd = "unknown" /\ shown' = <<"Unknown command">> \o sys_write(t) \o <<"Type">>
            /\ shell' = [Done EXCEPT !.cmd = cmd, !.arg = t]
    /\ UNCHANGED ShellVars

ShellPrints == \E cmd \in {"help", "clear", "exit", "echo", "unknown"} : Command(cmd)

Ls ==
    /\ group = "shell" /\ shell.pc = "prompt"
    /\ LET r == sys_readdir(<<Slash>>, ListMax - 1)
       IN  shown' = IF r.ret > 0 THEN puts(r.bytes) ELSE <<"Directory is empty">>
    /\ shell' = [Done EXCEPT !.cmd = "ls"]
    /\ UNCHANGED ShellVars

CatOpen ==
    /\ group = "shell" /\ shell.pc = "prompt"
    /\ \E path \in Paths :
         LET fd == sys_open(path)
         IN  IF path = <<>>
             THEN shown' = <<"Usage">> /\ shell' = [Done EXCEPT !.cmd = "usage"]
             ELSE IF fd < 0
             THEN /\ shown' = <<"Error">>
                  /\ shell' = [Done EXCEPT !.cmd = "cat", !.arg = path, !.fd = fd]
             ELSE /\ shown' = <<>>
                  /\ shell' = [Idle EXCEPT !.cmd = "cat", !.arg = path, !.fd = fd, !.pc = "opened"]
    /\ UNCHANGED ShellVars

CatRead ==
    /\ shell.pc = "opened"
    /\ LET r == sys_read(shell.fd, ReadMax - 1)
       IN  shell' = [shell EXCEPT !.pc = IF r.ret > 0 THEN "read" ELSE "close",
                                  !.buf = r.bytes, !.n = r.ret]
    /\ UNCHANGED <<shown, ShellVars>>

CatShow ==
    /\ shell.pc = "read"
    /\ shown' = puts(shell.buf) \o (IF shell.n = ReadMax - 1 THEN <<"...">> ELSE <<>>)
    /\ shell' = [shell EXCEPT !.pc = "close"]
    /\ UNCHANGED ShellVars

\* sys_close does nothing.
CatClose ==
    /\ shell.pc = "close"
    /\ shell' = [shell EXCEPT !.pc = "done"]
    /\ UNCHANGED <<shown, ShellVars>>

\* The loop starts again; an empty line does the same.
Prompt ==
    /\ shell.pc = "done"
    /\ shell' = Idle /\ shown' = <<>>
    /\ UNCHANGED ShellVars

Shell == Prompt \/ ShellPrints \/ Ls \/ CatOpen \/ CatRead \/ CatShow \/ CatClose

-----------------------------------------------------------------------------
(***************************************************************************)
(* Messages.  ipc.c is not part of the repository: a mailbox is a bounded  *)
(* queue, and receiving takes the oldest message of the wanted sender.  A  *)
(* copy between user memory and a kernel buffer is [ptr, len, room].       *)
(***************************************************************************)
StackBuf == KernelBase \div 2            \* a local array of a program

Copy(ptr, len, room) == [ptr |-> ptr, len |-> len, room |-> room]

ipc_send(box, from, to, size) ==
    IF to \in Pids /\ Len(box[to]) < QueueMax
    THEN [box EXCEPT ![to] = Append(@, [from |-> from, size |-> size])]
    ELSE box

Wanted(p, from) ==
    {i \in DOMAIN mailbox[p] : from = AnyPid \/ mailbox[p][i].from = from}

\* Fault: a message longer than the kernel's buffer is not shortened.
SendSize_Unclamped(size) == size

SendSize(size) == MinOf(size, IpcMax)

sys_ipc_send(from, to, ptr, size) ==
    IF validate_user_pointer(ptr, size)
    THEN /\ mailbox' = ipc_send(mailbox, from, to, SendSize(size))
         /\ copies' = {Copy(ptr, copy_user(ptr, SendSize(size)), IpcMax)}
    ELSE copies' = {} /\ UNCHANGED mailbox

\* What ipc_receive returns: the oldest wanted message and its length.  max_size
\* is not limited to the kernel's buffer; what arrives is as long as its sender
\* was allowed to make it.  Nothing is taken if a pointer is refused.
Received(p, from, fromPtr, ptr, max) ==
    LET w == Wanted(p, from)
        i == CHOOSE k \in w : \A j \in w : k <= j
    IN  IF w # {} /\ validate_user_pointer(ptr, max)
              /\ (fromPtr # 0 => validate_user_pointer(fromPtr, 4))
        THEN [at |-> i, from |-> mailbox[p][i].from, n |-> MinOf(mailbox[p][i].size, max)]
        ELSE [at |-> 0, from |-> AnyPid, n |-> 0]

sys_ipc_receive(p, from, fromPtr, ptr, max) ==
    LET r == Received(p, from, fromPtr, ptr, max)
    IN  /\ mailbox' = IF r.at = 0 THEN mailbox ELSE [mailbox EXCEPT ![p] = RemoveAt(@, r.at)]
        /\ copies' = IF r.n = 0 THEN {} ELSE {Copy(ptr, r.n, IpcMax)} \cup
                        (IF fromPtr = 0 THEN {} ELSE {Copy(fromPtr, 4, 4)})

\* The reply is at most as long as ipc_call was told.
sys_ipc_call(from, to, req, reqSize, rep, repSize) ==
    IF validate_user_pointer(req, reqSize) /\ validate_user_pointer(rep, repSize)
    THEN /\ mailbox' = ipc_send(mailbox, from, to, SendSize(reqSize))
         /\ \E n \in {0, SendSize(repSize)} :
               copies' = {Copy(req, copy_user(req, SendSize(reqSize)), IpcMax),
                          Copy(rep, copy_user(rep, n), IpcMax)}
    ELSE copies' = {} /\ UNCHANGED mailbox

MessageVars == <<vol, group, shell, shown, exec>>

\* "Hello #" and one to ten digits, to the process it takes for the server.
ClientSends ==
    /\ group = "messages"
    /\ \E digits \in HelloDigits : sys_ipc_send(ClientPid, 1, StackBuf, 7 + digits)
    /\ UNCHANGED <<server, MessageVars>>

\* "Got: " and the text, cut at 250 bytes; then the newline and the zero.
ResponseLen(received) == MinOf(5 + received, 250) + 1

ServerReceives ==
    /\ group = "messages" /\ server.pc = "receive"
    /\ sys_ipc_receive(ServerPid, server.from, StackBuf, StackBuf, 255)
    /\ LET r == Received(ServerPid, server.from, StackBuf, StackBuf, 255)
       IN  server' = IF r.n > 0 THEN [from |-> r.from, n |-> r.n, pc |-> "show"] ELSE server
    /\ UNCHANGED MessageVars

\* The response is put together in response[256] and written.
ServerShows ==
    /\ server.pc = "show"
    /\ copies' = {Copy(StackBuf, ResponseLen(server.n) + 1, 256)}
    /\ server' = [server EXCEPT !.pc = "reply", !.n = 0]
    /\ UNCHANGED <<mailbox, MessageVars>>

\* "ACK"
ServerReplies ==
    /\ server.pc = "reply"
    /\ sys_ipc_send(ServerPid, server.from, StackBuf, 3)
    /\ server' = [server EXCEPT !.pc = "receive"]
    /\ UNCHANGED MessageVars

AppSends ==
    /\ group = "messages"
    /\ \E to \in {ServerPid, AppPid}, ptr \in Pointers, size \in Sizes : sys_ipc_send(AppPid, to, ptr, size)
    /\ UNCHANGED <<server, MessageVars>>

AppReceives ==
    /\ group = "messages"
    /\ \E ptr \in Pointers, max \in Sizes : \E fromPtr \in {0, ptr} :
          sys_ipc_receive(AppPid, AnyPid, fromPtr, ptr, max)
    /\ UNCHANGED <<server, MessageVars>>

AppCalls ==
    /\ group = "messages"
    /\ \E ptr \in Pointers, size, max \in Sizes :
          sys_ipc_call(AppPid, ServerPid, StackBuf, size, ptr, max)
    /\ UNCHANGED <<server, MessageVars>>

\* sys_write, sys_open, sys_read and sys_readdir with any pointer.
AppFileCalls ==
    /\ group = "files"
    /\ \E ptr \in Pointers, size \in Sizes :
         LET w == MinOf(size, WriteMax)
             got(r) == IF r.ret >= 0 /\ validate_user_pointer(ptr, r.ret)
                       THEN {Copy(ptr, r.ret, ReadMax)} ELSE {}
             dir == sys_readdir(<<Slash>>, size)
         IN  \/ copies' = IF validate_user_pointer(ptr, w) THEN {Copy(ptr, w, WriteMax)} ELSE {}
             \/ copies' = IF validate_user_pointer(ptr, PathMax)
                          THEN {Copy(ptr, PathMax - 1, PathMax)} ELSE {}
             \/ \E fd \in 1..4 : copies' = got(sys_read(fd, size))
             \/ copies' = IF validate_user_pointer(ptr, size) /\ dir.ret >= 0 /\ size > 0
                          THEN {Copy(ptr, dir.ret + 1, size)} ELSE {}
    /\ UNCHANGED <<mailbox, server, MessageVars>>

Messages ==
    AppFileCalls \/ ClientSends \/ ServerReceives \/ ServerShows \/ ServerReplies \/ AppSends \/ AppReceives \/ AppCalls

-----------------------------------------------------------------------------
(***************************************************************************)
(* sys_exec.  It ends in sys_exit on every path: a loaded program is not   *)
(* started yet.                                                            *)
(***************************************************************************)
ExecVars == <<vol, group, shell, shown, mailbox, server, copies>>

Exit(e) == [e EXCEPT !.pc = "zombie"]
Kfree(e) == [e EXCEPT !.holds = FALSE, !.data = <<>>]
FileSize(n) == mesafs_read_inode(vol, n).size
Header(data) == IF data \in DOMAIN HeaderOf THEN HeaderOf[data] ELSE [magic |-> "other"]

\* One argument, or none (0), and the path.
ArgsAreValid(path, arg) ==
    (arg # 0 => validate_user_pointer(arg, 256)) /\ validate_user_pointer(path, 256)

\* What the check may say of the arguments that programs pass.
ArgChecks == {ArgsAreValid(path, arg) : path, arg \in Pointers}

\* From the arguments to kmalloc, which refuses 0 bytes and may be out of
\* memory.
ExecFinds ==
    /\ group = "exec" /\ exec.pc = "user"
    /\ \E path \in Paths, enough \in BOOLEAN, args \in ArgChecks :
         LET n == IF vol.mounted THEN resolve_path(vol, kpath(path)) ELSE 0
             ok == /\ args /\ n # 0 /\ InodeExists(vol, n)
                   /\ mesafs_read_inode(vol, n).type = FILE
                   /\ FileSize(n) > 0 /\ enough
         IN  exec' = IF ok THEN [exec EXCEPT !.pc = "read", !.file = n, !.holds = TRUE]
                     ELSE Exit(exec)
    /\ UNCHANGED ExecVars

ExecReads ==
    /\ exec.pc = "read"
    /\ LET r == mesafs_read(vol, exec.file, FileSize(exec.file), 0)
           ok == r.ret = FileSize(exec.file) /\ elf_validate(Header(r.bytes))
       IN  exec' = IF ok THEN [exec EXCEPT !.pc = "load", !.data = r.bytes]
                   ELSE Exit(Kfree(exec))
    /\ UNCHANGED ExecVars

\* Fault: the buffer is not freed when a segment cannot be loaded.
ExecLoads_Leaks ==
    /\ exec.pc = "load"
    /\ \E frames \in 0..exec.frames :
         LET m == elf_load_segments(Header(exec.data), exec.data, exec.mem, frames)
             e == [exec EXCEPT !.mem = m.mem, !.frames = m.frames]
         IN  exec' = IF m.ok THEN [e EXCEPT !.pc = "loaded"] ELSE Exit(e)
    /\ UNCHANGED ExecVars

\* Other processes may have taken frames in the meantime.
ExecLoads ==
    /\ exec.pc = "load"
    /\ \E frames \in 0..exec.frames :
         LET m == elf_load_segments(Header(exec.data), exec.data, exec.mem, frames)
             e == [exec EXCEPT !.mem = m.mem, !.frames = m.frames]
         IN  exec' = IF m.ok THEN [e EXCEPT !.pc = "loaded"] ELSE Exit(Kfree(e))
    /\ UNCHANGED ExecVars

ExecExits ==
    /\ exec.pc = "loaded"
    /\ exec' = Exit(Kfree(exec))
    /\ UNCHANGED ExecVars

Exec == ExecFinds \/ ExecReads \/ ExecLoads \/ ExecExits

Next == Shell \/ Messages \/ Exec

Spec == Init /\ [][Next]_vars

-----------------------------------------------------------------------------
TypeOK ==
    /\ vol \in Volumes \cup {NoVolume}
    /\ shell.pc \in {"prompt", "opened", "read", "close", "done", "zombie"}
    /\ shell.fd \in Int /\ shell.n \in -1..ReadMax /\ Len(shell.buf) <= ReadMax
    /\ \A p \in Pids : Len(mailbox[p]) <= QueueMax
    /\ server.from \in Pids \cup {AnyPid} /\ server.n \in 0..255
    /\ server.pc \in {"receive", "show", "reply"}
    /\ exec.pc \in {"user", "read", "load", "loaded", "zombie"}
    /\ exec.frames \in 0..MaxFrames /\ DOMAIN exec.mem = LoadAddr

(***************************************************************************)
(* The state is well formed, and what user_open finds for a typed path is  *)
(* what the volume's directories say: the inode reached by those names     *)
(* whose spelling the path is, with or without a slash at either end, and  *)
(* nothing for any other path (resolve_path, find_in_dir).                 *)
(***************************************************************************)
Names(v) == UNION {{v.blocks[b].entries[i].name : i \in 1..EntriesMax} : b \in DOMAIN v.blocks}
Spellable(v) == {x \in Names(v) \ {<<>>} : \A i \in 1..Len(x) : x[i] # Slash}

PathsNameFiles ==
    TypeOK /\ (shell.cmd = "cat" /\ vol.mounted =>
        LET lists == UNION {[1..k -> Spellable(vol)] : k \in 0..((Len(shell.arg) + 1) \div 2)}
            found == {Reached(vol, l) : l \in {x \in lists : shell.arg \in Spellings(x)}} \ {0}
        IN  IF shell.fd < 0 THEN found = {} ELSE found = {shell.fd})

(***************************************************************************)
(* Files and directories reach the screen as they are stored.  mesafs_read *)
(* returns, for every count and offset, exactly those bytes of a file,     *)
(* across block borders, at its end and behind it.  cat shows the          *)
(* beginning of the file up to a zero byte or to what one sys_write takes, *)
(* and the dots if the file filled the shell's buffer.  sys_readdir gives  *)
(* the names of the root in order, one to a line, and if they do not fit,  *)
(* cut so that the last line still ends, for every buffer size.            *)
(***************************************************************************)
ReadIsExact(n) ==
    \A offset, count \in 0..(FileSize(n) + 1) :
        mesafs_read(vol, n, count, offset).bytes =
            SubSeq(Content(vol, n), offset + 1, MinOf(offset + count, FileSize(n)))

CatIsExact(n) ==
    LET c == Content(vol, n)
        text == UpToNul(c)
    IN  shown = SubSeq(text, 1, MinOf(Len(text), WriteMax))
                \o (IF Len(c) >= ReadMax - 1 THEN <<"...">> ELSE <<>>)

FullListing == FlattenSeq([i \in DOMAIN UsedEntries(vol, vol.root) |->
                              Append(UsedEntries(vol, vol.root)[i].name, NL)])

ListingIsExact(size) ==
    sys_readdir(<<Slash>>, size).bytes =
        IF Len(FullListing) < size THEN FullListing
        ELSE Append(SubSeq(FullListing, 1, size - 2), NL)

FilesAreShownAsStored ==
    /\ shell.cmd = "cat" /\ shell.fd > 2 /\ IsSoundFile(vol, shell.fd) =>
          /\ shell.pc = "opened" => ReadIsExact(shell.fd)
          /\ shell.pc = "done" => CatIsExact(shell.fd)
    /\ shell.cmd = "ls" /\ vol.mounted /\ IsDir(vol, vol.root) =>
          \A size \in 2..(Len(FullListing) + 2) : ListingIsExact(size)

(***************************************************************************)
(* Every copy between a program and the kernel touches user memory only    *)
(* and fits the kernel's buffer.  For a received message that holds only   *)
(* because every sender's message was shortened: sys_ipc_receive passes    *)
(* the receiver's max_size on as it is.                                    *)
(***************************************************************************)
CopiesStayInBounds ==
    \A c \in copies : InUserSpace(c.ptr, c.len) /\ c.len <= c.room

(***************************************************************************)
(* A program that was loaded successfully has in memory what its headers   *)
(* ask for, for segments that start on a page, share none and are sane:    *)
(* the file's bytes, and zeros behind them whatever the frames held        *)
(* before and whatever the other headers are.  And the buffer for the file *)
(* is freed on every way out of sys_exec: a process that has exited holds  *)
(* no kernel memory.                                                       *)
(***************************************************************************)
ExecLoadsAndReleases ==
    /\ exec.pc = "loaded" =>
          LET h == Header(exec.data)
          IN  \A i \in DOMAIN h.phdrs :
                  IsLoadable(h, exec.data, i) => HoldsSegment(exec.mem, exec.data, h.phdrs[i])
    /\ exec.pc = "zombie" => ~exec.holds
=============================================================================

-------------------------------- MODULE Files --------------------------------
(***************************************************************************)
(* The inode cache (fs.c), directories and path names, the table of open   *)
(* files (file.c) and the system calls that use them (sysfile.c, and the   *)
(* parts of fork(), exit() and execve() that do), run by several processes.*)
(*                                                                         *)
(* A call is a program, the sequence of steps `todo[p]` that it has left;  *)
(* a step may put others in front of the rest, or drop the rest when the   *)
(* call fails.  A step is what happens between two places where another    *)
(* process can interfere: it takes or releases one inode lock, or makes    *)
(* one change under icache.lock or ftable.lock.  Contents of files are the *)
(* business of module FsData; the log is here the operations in progress.  *)
(***************************************************************************)
EXTENDS Integers, Sequences, FiniteSets, FiniteSetsExt

CONSTANTS
    Procs, Booter,      \* processes; the first one
    Started,            \* those that have been forked at the start
    Elements,           \* path elements other than ".", ".." and "/"
    Modes, CreateModes, \* "r", "w", "rw": ways to open a file, without and with O_CREAT
    Paths,              \* arguments of calls: sequences of elements, "/" first if absolute
    NINODES,            \* sb.ninodes - 1: inode 1 is the root directory
    NINODE,             \* size of the inode cache
    NFILE, NOFILE,
    MaxOps,             \* operations the log has room for
    MaxChunks,          \* bound: operations in one write()
    MaxCalls,           \* bound: system calls
    NONE

Names == Elements \cup {".", ".."}

ASSUME FilesAssumption ==
    /\ IsFiniteSet(Procs) /\ NONE \notin Procs
    /\ Booter \in Started /\ Started \subseteq Procs
    /\ {NFILE, NOFILE, MaxOps, MaxChunks} \subseteq Nat \ {0}
    /\ {NINODES, NINODE} \subseteq Nat \ {0, 1}
    /\ Elements \cap {".", "..", "/"} = {}
    /\ \A path \in Paths :
          path \in Seq(Names \cup {"/"}) /\ path # <<>> /\ Tail(path) \in Seq(Names)

VARIABLES
    disk,       \* inodes on disk: type and nlink
    dir,        \* entries of the directories
    icache,     \* entries [inum, ref, valid, lock, type, nlink]
    ftable,     \* files [ref, type, ip, readable, writable]
    ofile, cwd, \* of each process
    todo,       \* what is left of its system call
    reg,        \* its local variables [ip, dp, f, path, parent]
    ops,        \* operations between begin_op() and end_op()
    panicked,   \* the message of a panic, or "no"
    calls       \* system calls made so far

fsVars == <<disk, dir>>
fileVars == <<ftable, ofile>>
vars == <<disk, dir, icache, ftable, ofile, cwd, todo, reg, ops, panicked, calls>>

Inums == 1..NINODES
Types == {"file", "dir", "dev"}
NoReg == [ip |-> 0, dp |-> 0, f |-> 0, path |-> <<>>, parent |-> FALSE]
NoFile == [ref |-> 0, type |-> "none", ip |-> 0, readable |-> FALSE, writable |-> FALSE]
NoEntry == [inum |-> 0, ref |-> 0, valid |-> FALSE, lock |-> NONE, type |-> "free", nlink |-> 0]
Empty == [n \in Names |-> 0]

(* mkfs made the root directory and perhaps one directory in it.           *)
(* user_init() looked the root up; the other processes were forked and     *)
(* changed to that directory.                                              *)
Init ==
    /\ \E n \in {1, 2}, a \in Elements :
          /\ disk = [i \in Inums |->
                IF i > n THEN [type |-> "free", nlink |-> 0]
                ELSE [type |-> "dir", nlink |-> IF i = 1 THEN n ELSE 1]]
          /\ dir = [i \in Inums |->
                IF i > n THEN Empty
                ELSE [Empty EXCEPT !["."] = i, ![".."] = 1, ![a] = IF i < n THEN 2 ELSE 0]]
          /\ cwd = [p \in Procs |-> IF p \notin Started THEN 0 ELSE IF p = Booter THEN 1 ELSE n]
          /\ icache = [k \in 1..NINODE |->
                IF k > n THEN NoEntry
                ELSE [NoEntry EXCEPT !.inum = k, !.ref = Cardinality({p \in Procs : cwd[p] = k})]]
    /\ ftable = [f \in 1..NFILE |-> NoFile]
    /\ ofile = [p \in Procs |-> [fd \in 1..NOFILE |-> 0]]
    /\ todo = [p \in Procs |-> <<>>]
    /\ reg = [p \in Procs |-> NoReg]
    /\ ops = [p \in Procs |-> 0]
    /\ panicked = "no" /\ calls = 0

-----------------------------------------------------------------------------
(* Programs of the calls *)

Iput(r) == <<<<"iput", r>>, <<"drop", r>>>>
Iunlockput(r) == <<<<"iunlock", r>>>> \o Iput(r)

Namei == <<<<"namex">>>>

(* A create() that looks the name up before it locks the directory. *)
CreateLooksFirst(type) == <<<<"namex">>, <<"lookup", type>>, <<"ilock", "ip">>, <<"link", type>>>>

(* create(), which begins with nameiparent(). *)
Create(type) == <<<<"namex">>, <<"ilock", "ip">>, <<"lookup", type>>, <<"link", type>>>>

Stat == <<<<"begin_op">>>> \o Namei \o <<<<"ilock", "ip">>>> \o Iunlockput("ip") \o <<<<"end_op">>>>

Open(mode) ==
    <<<<"begin_op">>>> \o Namei
    \o <<<<"ilock", "ip">>, <<"isdir", mode>>, <<"filealloc">>, <<"iunlock", "ip">>, <<"end_op">>,
         <<"setfile", mode>>>>

OpenCreate(mode) ==
    <<<<"begin_op">>>> \o Create("file")
    \o <<<<"filealloc">>, <<"iunlock", "ip">>, <<"end_op">>, <<"setfile", mode>>>>

Make(type) == <<<<"begin_op">>>> \o Create(type) \o Iunlockput("ip") \o <<<<"end_op">>>>

Chdir ==
    <<<<"begin_op">>>> \o Namei
    \o <<<<"ilock", "ip">>, <<"notdir">>, <<"iunlock", "ip">>>> \o Iput("cwd")
    \o <<<<"end_op">>, <<"setcwd">>>>

Fstat == <<<<"ilock", "ip">>, <<"iunlock", "ip">>>>
Fread == <<<<"ilock", "ip">>, <<"device">>, <<"iunlock", "ip">>>>

(* A filewrite() that locks the inode before it begins the operation. *)
ChunkLocksFirst ==
    <<<<"ilock", "ip">>, <<"begin_op">>, <<"device">>, <<"iunlock", "ip">>, <<"end_op">>>>

(* One round of filewrite(). *)
Chunk == <<<<"begin_op">>, <<"ilock", "ip">>, <<"device">>, <<"iunlock", "ip">>, <<"end_op">>>>

(* n rounds. *)
Fwrite(n) == [i \in 1..(5 * n) |-> Chunk[((i - 1) % 5) + 1]]

Exit ==
    [fd \in 1..NOFILE |-> <<"close", fd>>]
    \o <<<<"begin_op">>>> \o Iput("cwd") \o <<<<"end_op">>, <<"dead">>>>

-----------------------------------------------------------------------------
(* How a step ends *)

At(p, step) == panicked = "no" /\ todo[p] # <<>> /\ Head(todo[p]) = step

Then(p, steps) == todo' = [todo EXCEPT ![p] = steps \o Tail(@)]

(* Every call that fails ends its operation and returns -1. *)
Fail(p, steps) == todo' = [todo EXCEPT ![p] = steps \o <<<<"end_op">>>>]

(* Local variables are gone when the call returns. *)
Forget(p) == reg' = IF Len(todo[p]) = 1 THEN [reg EXCEPT ![p] = NoReg] ELSE reg

Check(ok, message) == panicked' = IF ok THEN panicked ELSE message

Index(p, r) == IF r = "cwd" THEN cwd[p] ELSE reg[p][r]

-----------------------------------------------------------------------------
(* The log, as its callers see it.  begin_op() waits for room.             *)
Room == FoldSet(LAMBDA q, n : n + ops[q], 0, Procs) < MaxOps

BeginOp(p) ==
    /\ At(p, <<"begin_op">>)
    /\ Room
    /\ ops' = [ops EXCEPT ![p] = @ + 1]
    /\ Then(p, <<>>)
    /\ UNCHANGED <<fsVars, icache, fileVars, cwd, reg, panicked, calls>>

EndOp(p) ==
    /\ At(p, <<"end_op">>)
    /\ ops' = [ops EXCEPT ![p] = @ - 1]
    /\ Then(p, <<>>) /\ Forget(p)
    /\ UNCHANGED <<fsVars, icache, fileVars, cwd, panicked, calls>>

-----------------------------------------------------------------------------
(* The inode cache *)

(* The entry that iget() returns for an inode; 0 if it panics. *)
Slot(inum) ==
    LET cached == {k \in 1..NINODE : icache[k].ref > 0 /\ icache[k].inum = inum}
        unused == {k \in 1..NINODE : icache[k].ref = 0}
    IN IF cached # {} THEN Min(cached) ELSE IF unused # {} THEN Min(unused) ELSE 0

Iget(k, inum) ==
    icache' = IF k = 0 THEN icache
              ELSE IF icache[k].ref > 0 THEN [icache EXCEPT ![k].ref = @ + 1]
              ELSE [icache EXCEPT ![k].inum = inum, ![k].ref = 1, ![k].valid = FALSE]

Ilock(p, r) ==
    /\ At(p, <<"ilock", r>>)
    /\ \E k \in {Index(p, r)} :
          /\ icache[k].lock = NONE
          /\ icache' = [icache EXCEPT ![k] =
                           IF @.valid THEN [@ EXCEPT !.lock = p]
                           ELSE [@ EXCEPT !.lock = p, !.valid = TRUE,
                                          !.type = disk[icache[k].inum].type,
                                          !.nlink = disk[icache[k].inum].nlink]]
          /\ Check(icache[k].ref >= 1 /\ icache'[k].type # "free", "ilock")
    /\ Then(p, <<>>)
    /\ UNCHANGED <<fsVars, fileVars, cwd, reg, ops, calls>>

Iunlock(p, r) ==
    /\ At(p, <<"iunlock", r>>)
    /\ \E k \in {Index(p, r)} :
          /\ Check(icache[k].lock = p /\ icache[k].ref >= 1, "iunlock")
          /\ icache' = [icache EXCEPT ![k].lock = NONE]
    /\ Then(p, <<>>) /\ Forget(p)
    /\ UNCHANGED <<fsVars, fileVars, cwd, ops, calls>>

Freed(last, type) == IF last THEN "free" ELSE type

(* iput(), while it holds the lock: an inode without links and other       *)
(* references is freed, on disk too.  No call of this kernel removes a     *)
(* link.                                                                   *)
IputLocked(p, r) ==
    /\ At(p, <<"iput", r>>)
    /\ \E k \in {Index(p, r)} :
          /\ icache[k].lock = NONE
          /\ \E i \in {icache[k].inum},
                last \in {icache[k].valid /\ icache[k].nlink = 0 /\ icache[k].ref = 1} :
                /\ icache' = [icache EXCEPT ![k].valid = @ /\ ~last, ![k].type = Freed(last, @)]
                /\ disk' = [disk EXCEPT ![i].type = Freed(last, @)]
    /\ Then(p, <<>>)
    /\ UNCHANGED <<dir, fileVars, cwd, reg, ops, panicked, calls>>

(* iput(), after it: the reference is given back. *)
Drop(p, r) ==
    /\ At(p, <<"drop", r>>)
    /\ icache' = [icache EXCEPT ![Index(p, r)].ref = @ - 1]
    /\ IF r = "cwd" THEN UNCHANGED reg ELSE reg' = [reg EXCEPT ![p][r] = 0]
    /\ Then(p, <<>>)
    /\ UNCHANGED <<fsVars, fileVars, cwd, ops, panicked, calls>>

-----------------------------------------------------------------------------
(* namex() *)

(* The loop goes on with the next element, if there is one. *)
Walk(path) == IF path = <<>> THEN <<>> ELSE <<<<"ilock", "ip">>, <<"element">>>>

(* Start at the root or at the current directory; the parent of nothing is  *)
(* an error.                                                                *)
Namex(p) ==
    /\ At(p, <<"namex">>)
    /\ \E root \in {Head(reg[p].path) = "/"} :
       \E inum \in {IF root THEN 1 ELSE icache[cwd[p]].inum} :
       \E k \in {IF root THEN Slot(1) ELSE cwd[p]},
          rest \in {IF root THEN Tail(reg[p].path) ELSE reg[p].path} :
          /\ Iget(k, inum)
          /\ Check(k # 0, "iget")
          /\ reg' = [reg EXCEPT ![p].ip = k, ![p].path = rest]
          /\ IF rest = <<>> /\ reg[p].parent THEN Fail(p, Iput("ip")) ELSE Then(p, Walk(rest))
    /\ UNCHANGED <<fsVars, fileVars, cwd, ops, calls>>

(* What dirlookup() finds in the directory that p has locked; 0 if nothing. *)
Found(p) == dir[icache[reg[p].ip].inum][Head(reg[p].path)]

(* The body of the loop, with the directory locked: not a directory, the    *)
(* parent of the last element, no such entry, or on to the entry.           *)
Element(p) ==
    /\ At(p, <<"element">>)
    /\ \E last \in {reg[p].parent /\ Len(reg[p].path) = 1},
          isdir \in {icache[reg[p].ip].type = "dir"} :
          \/ /\ ~isdir \/ (~last /\ Found(p) = 0)
             /\ Fail(p, Iunlockput("ip"))
             /\ UNCHANGED <<icache, reg, panicked>>
          \/ /\ isdir /\ last
             /\ Then(p, <<<<"iunlock", "ip">>>>)
             /\ UNCHANGED <<icache, reg, panicked>>
          \/ /\ isdir /\ ~last /\ Found(p) # 0
             /\ \E k \in {Slot(Found(p))} :
                   /\ Iget(k, Found(p))
                   /\ Check(k # 0, "iget")
                   /\ reg' = [reg EXCEPT ![p].dp = reg[p].ip, ![p].ip = k, ![p].path = Tail(@)]
             /\ Then(p, Iunlockput("dp") \o Walk(Tail(reg[p].path)))
    /\ UNCHANGED <<fsVars, fileVars, cwd, ops, calls>>

-----------------------------------------------------------------------------
(* create(), from dirlookup() on: ip is the parent directory, locked *)

(* An existing file is returned by open(O_CREAT), an error otherwise. *)
Lookup(p, type) ==
    /\ At(p, <<"lookup", type>>)
    /\ IF Found(p) # 0
       THEN /\ \E k \in {Slot(Found(p))} :
                  /\ Iget(k, Found(p))
                  /\ Check(k # 0, "iget")
                  /\ reg' = [reg EXCEPT ![p].dp = reg[p].ip, ![p].ip = k]
            /\ todo' = [todo EXCEPT ![p] =
                  Iunlockput("dp") \o <<<<"ilock", "ip">>, <<"existing", type>>>> \o Tail(Tail(@))]
       ELSE Then(p, <<>>) /\ UNCHANGED <<icache, reg, panicked>>
    /\ UNCHANGED <<fsVars, fileVars, cwd, ops, calls>>

Existing(p, type) ==
    /\ At(p, <<"existing", type>>)
    /\ IF type = "file" /\ icache[reg[p].ip].type = "file"
       THEN Then(p, <<>>) ELSE Fail(p, Iunlockput("ip"))
    /\ UNCHANGED <<fsVars, icache, fileVars, cwd, reg, ops, panicked, calls>>

(* ialloc(): the first free inode on disk; 0 if it panics. *)
FreeInode == LET free == {i \in Inums : disk[i].type = "free"}
             IN IF free = {} THEN 0 ELSE Min(free)

(* The link that a new inode is to its parent: the ".." of a directory.     *)
UpLinkUncounted(type) == 0

UpLink(type) == IF type = "dir" THEN 1 ELSE 0

(* dirlink(): one more entry in a directory. *)
Dirlink(entries, name, inum) == [entries EXCEPT ![name] = inum]

(* A new inode, the dots of a directory, with the link that ".." is, and   *)
(* the entry in the parent.  Nobody else knows the new inode.              *)
Link(p, type) ==
    /\ At(p, <<"link", type>>)
    /\ \E i \in {FreeInode}, d \in {reg[p].ip} : \E k \in {IF i = 0 THEN 0 ELSE Slot(i)} :
          /\ Check(k # 0 /\ Found(p) = 0, IF i = 0 THEN "ialloc" ELSE "iget")
          /\ IF k = 0 THEN UNCHANGED <<icache, disk, dir>>
             ELSE /\ icache' = [icache EXCEPT
                        ![k] = [inum |-> i, ref |-> @.ref + 1, valid |-> TRUE, lock |-> p,
                                type |-> type, nlink |-> 1],
                        ![d].nlink = @ + UpLink(type)]
                  /\ disk' = [disk EXCEPT ![i] = [type |-> type, nlink |-> 1],
                                          ![icache[d].inum].nlink = icache[d].nlink + UpLink(type)]
                  /\ dir' = [dir EXCEPT
                        ![i] = IF type # "dir" THEN Empty
                               ELSE Dirlink(Dirlink(Empty, ".", i), "..", icache[d].inum),
                        ![icache[d].inum] = Dirlink(@, Head(reg[p].path), i)]
          /\ reg' = [reg EXCEPT ![p].dp = d, ![p].ip = k]
    /\ Then(p, Iunlockput("dp"))
    /\ UNCHANGED <<fileVars, cwd, ops, calls>>

-----------------------------------------------------------------------------
(* openat() and chdir(), after the inode is found and locked *)

(* A directory is opened for reading only. *)
IsDir(p, mode) ==
    /\ At(p, <<"isdir", mode>>)
    /\ IF icache[reg[p].ip].type = "dir" /\ mode # "r"
       THEN Fail(p, Iunlockput("ip")) ELSE Then(p, <<>>)
    /\ UNCHANGED <<fsVars, icache, fileVars, cwd, reg, ops, panicked, calls>>

NotDir(p) ==
    /\ At(p, <<"notdir">>)
    /\ IF icache[reg[p].ip].type # "dir" THEN Fail(p, Iunlockput("ip")) ELSE Then(p, <<>>)
    /\ UNCHANGED <<fsVars, icache, fileVars, cwd, reg, ops, panicked, calls>>

FreeFd(p) == {fd \in 1..NOFILE : ofile[p][fd] = 0}

(* filealloc() and fdalloc(); a file without a descriptor is closed again. *)
Filealloc(p) ==
    /\ At(p, <<"filealloc">>)
    /\ \E free \in {{f \in 1..NFILE : ftable[f].ref = 0}} :
          IF free = {}
          THEN Fail(p, Iunlockput("ip")) /\ UNCHANGED <<fileVars, reg>>
          ELSE /\ ftable' = [ftable EXCEPT ![Min(free)].ref = 1]
               /\ reg' = [reg EXCEPT ![p].f = Min(free)]
               /\ IF FreeFd(p) = {}
                  THEN Fail(p, <<<<"fileclose">>>> \o Iunlockput("ip")) /\ UNCHANGED ofile
                  ELSE Then(p, <<>>) /\ ofile' = [ofile EXCEPT ![p][Min(FreeFd(p))] = Min(free)]
    /\ UNCHANGED <<fsVars, icache, cwd, ops, panicked, calls>>

(* The file takes the reference to the inode over. *)
SetFile(p, mode) ==
    /\ At(p, <<"setfile", mode>>)
    /\ ftable' = [ftable EXCEPT ![reg[p].f] =
          [ref |-> @.ref, type |-> "inode", ip |-> reg[p].ip,
           readable |-> mode # "w", writable |-> mode # "r"]]
    /\ reg' = [reg EXCEPT ![p] = NoReg]
    /\ Then(p, <<>>)
    /\ UNCHANGED <<fsVars, icache, ofile, cwd, ops, panicked, calls>>

SetCwd(p) ==
    /\ At(p, <<"setcwd">>)
    /\ cwd' = [cwd EXCEPT ![p] = reg[p].ip]
    /\ reg' = [reg EXCEPT ![p] = NoReg]
    /\ Then(p, <<>>)
    /\ UNCHANGED <<fsVars, icache, fileVars, ops, panicked, calls>>

-----------------------------------------------------------------------------
(* Files *)

(* readi() or writei() of the console unlock the inode meanwhile. *)
Device(p) ==
    /\ At(p, <<"device">>)
    /\ Then(p, IF icache[reg[p].ip].type = "dev"
               THEN <<<<"iunlock", "ip">>, <<"ilock", "ip">>>> ELSE <<>>)
    /\ UNCHANGED <<fsVars, icache, fileVars, cwd, reg, ops, panicked, calls>>

Filedup(p) ==
    /\ At(p, <<"filedup">>)
    /\ Check(ftable[reg[p].f].ref >= 1, "filedup")
    /\ ftable' = [ftable EXCEPT ![reg[p].f].ref = @ + 1]
    /\ reg' = [reg EXCEPT ![p].f = 0]
    /\ Then(p, <<>>)
    /\ UNCHANGED <<fsVars, icache, ofile, cwd, ops, calls>>

(* A file with one reference less; one that keeps the type after the last. *)
CloseKeepsType(file) == [file EXCEPT !.ref = @ - 1]

Closed(file) == [file EXCEPT !.ref = @ - 1, !.type = IF file.ref > 1 THEN @ ELSE "none"]

(* The last close of a file gives its inode back. *)
Fileclose(p) ==
    /\ At(p, <<"fileclose">>)
    /\ Check(ftable[reg[p].f].ref >= 1, "fileclose")
    /\ ftable' = [ftable EXCEPT ![reg[p].f] = Closed(@)]
    /\ IF ftable[reg[p].f].ref = 1 /\ ftable[reg[p].f].type = "inode"
       THEN /\ Then(p, <<<<"begin_op">>>> \o Iput("dp") \o <<<<"end_op">>>>)
            /\ reg' = [reg EXCEPT ![p].f = 0, ![p].dp = ftable[reg[p].f].ip]
       ELSE Then(p, <<>>) /\ reg' = [reg EXCEPT ![p].f = 0]
    /\ UNCHANGED <<fsVars, icache, ofile, cwd, ops, calls>>

(* exit() closes its descriptors one by one. *)
CloseFd(p, fd) ==
    /\ At(p, <<"close", fd>>)
    /\ Then(p, IF ofile[p][fd] = 0 THEN <<>> ELSE <<<<"fileclose">>, <<"clear", fd>>>>)
    /\ reg' = [reg EXCEPT ![p].f = ofile[p][fd]]
    /\ UNCHANGED <<fsVars, icache, fileVars, cwd, ops, panicked, calls>>

ClearFd(p, fd) ==
    /\ At(p, <<"clear", fd>>)
    /\ ofile' = [ofile EXCEPT ![p][fd] = 0]
    /\ Then(p, <<>>)
    /\ UNCHANGED <<fsVars, icache, ftable, cwd, reg, ops, panicked, calls>>

Dead(p) ==
    /\ At(p, <<"dead">>)
    /\ cwd' = [cwd EXCEPT ![p] = 0]
    /\ Then(p, <<>>)
    /\ UNCHANGED <<fsVars, icache, fileVars, reg, ops, panicked, calls>>

-----------------------------------------------------------------------------
(* System calls.  What syscall() does with a number it does not know is not *)
(* modelled.                                                                *)
Call(p, steps, r) ==
    /\ panicked = "no" /\ cwd[p] # 0 /\ todo[p] = <<>>
    /\ calls < MaxCalls /\ calls' = calls + 1
    /\ todo' = [todo EXCEPT ![p] = steps]
    /\ reg' = [reg EXCEPT ![p] = r]

(* fstatat(), execve() (which reads the file meanwhile), chdir(), openat(). *)
NameCall(p, path) ==
    /\ \E steps \in {Stat, Chdir} \cup {Open(mode) : mode \in Modes} :
          Call(p, steps, [NoReg EXCEPT !.path = path])
    /\ UNCHANGED <<fsVars, icache, fileVars, cwd, ops, panicked>>

(* openat() with O_CREAT, mkdirat(), mknodat(). *)
CreateCall(p, path) ==
    /\ \E steps \in {Make("dir"), Make("dev")} \cup {OpenCreate(mode) : mode \in CreateModes} :
          Call(p, steps, [NoReg EXCEPT !.path = path, !.parent = TRUE])
    /\ UNCHANGED <<fsVars, icache, fileVars, cwd, ops, panicked>>

(* argfd(): the descriptor is open. *)
Argfd(p, fd) == ofile[p][fd] # 0

(* read(), write() and writev(), fstat() on an open file. *)
FileCall(p, fd) ==
    /\ Argfd(p, fd)
    /\ \E f \in {ftable[ofile[p][fd]]} :
          /\ \E steps \in {Fstat} \cup (IF f.readable THEN {Fread} ELSE {})
                           \cup (IF f.writable THEN {Fwrite(n) : n \in 1..MaxChunks} ELSE {}) :
                Call(p, steps, [NoReg EXCEPT !.ip = f.ip])
          /\ Check(f.type = "inode", "fileread")
    /\ UNCHANGED <<fsVars, icache, fileVars, cwd, ops>>

(* dup(): the new descriptor first, then its reference. *)
Dup(p, fd) ==
    /\ Argfd(p, fd) /\ FreeFd(p) # {}
    /\ ofile' = [ofile EXCEPT ![p][Min(FreeFd(p))] = ofile[p][fd]]
    /\ Call(p, <<<<"filedup">>>>, [NoReg EXCEPT !.f = ofile[p][fd]])
    /\ UNCHANGED <<fsVars, icache, ftable, cwd, ops, panicked>>

Close(p, fd) ==
    /\ Argfd(p, fd)
    /\ ofile' = [ofile EXCEPT ![p][fd] = 0]
    /\ Call(p, <<<<"fileclose">>>>, [NoReg EXCEPT !.f = ofile[p][fd]])
    /\ UNCHANGED <<fsVars, icache, ftable, cwd, ops, panicked>>

(* fork(): the child, not yet runnable, shares the files and the directory. *)
Fork(p, c) ==
    /\ cwd[c] = 0 /\ todo[c] = <<>>
    /\ Call(p, <<>>, NoReg)
    /\ \E n \in {[f \in 1..NFILE |-> Cardinality({fd \in 1..NOFILE : ofile[p][fd] = f})]} :
          ftable' = [f \in 1..NFILE |-> [ftable[f] EXCEPT !.ref = @ + n[f]]]
    /\ ofile' = [ofile EXCEPT ![c] = ofile[p]]
    /\ cwd' = [cwd EXCEPT ![c] = cwd[p]]
    /\ icache' = [icache EXCEPT ![cwd[p]].ref = @ + 1]
    /\ UNCHANGED <<fsVars, ops, panicked>>

ExitCall(p) ==
    /\ p # Booter
    /\ Call(p, Exit, NoReg)
    /\ UNCHANGED <<fsVars, icache, fileVars, cwd, ops, panicked>>

-----------------------------------------------------------------------------
Registers == {"ip", "dp", "cwd"}

Step(p) ==
    \/ EndOp(p) \/ Namex(p) \/ Element(p) \/ NotDir(p) \/ Filealloc(p) \/ SetCwd(p)
    \/ Device(p) \/ Filedup(p) \/ Fileclose(p) \/ Dead(p)
    \/ \E r \in Registers : Ilock(p, r) \/ Iunlock(p, r) \/ IputLocked(p, r) \/ Drop(p, r)
    \/ \E type \in Types : Lookup(p, type) \/ Existing(p, type) \/ Link(p, type)
    \/ \E mode \in Modes \cup CreateModes : IsDir(p, mode) \/ SetFile(p, mode)
    \/ \E fd \in 1..NOFILE : CloseFd(p, fd) \/ ClearFd(p, fd)

Next ==
    \E p \in Procs :
       \/ Step(p) \/ BeginOp(p) \/ ExitCall(p)
       \/ \E path \in Paths : NameCall(p, path) \/ CreateCall(p, path)
       \/ \E fd \in 1..NOFILE : FileCall(p, fd) \/ Dup(p, fd) \/ Close(p, fd)
       \/ \E c \in Procs : Fork(p, c)

Spec == Init /\ [][Next]_vars

-----------------------------------------------------------------------------
TypeOK ==
    /\ disk \in [Inums -> [type : Types \cup {"free"}, nlink : Nat]]
    /\ dir \in [Inums -> [Names -> Inums \cup {0}]]
    /\ icache \in [1..NINODE -> [inum : Inums \cup {0}, ref : Nat, valid : BOOLEAN,
                                  lock : Procs \cup {NONE}, type : Types \cup {"free"},
                                  nlink : Nat]]
    /\ ftable \in [1..NFILE -> [ref : Nat, type : {"none", "inode"}, ip : 0..NINODE,
                                 readable : BOOLEAN, writable : BOOLEAN]]
    /\ ofile \in [Procs -> [1..NOFILE -> 0..NFILE]]
    /\ cwd \in [Procs -> 0..NINODE]
    /\ ops \in [Procs -> Nat]

Idle == \A p \in Procs : todo[p] = <<>>
Descriptors(f) == {pf \in Procs \X (1..NOFILE) : ofile[pf[1]][pf[2]] = f}
Users(k) == {f \in 1..NFILE : ftable[f].type = "inode" /\ ftable[f].ip = k}
Inside(k) == {p \in Procs : cwd[p] = k}

(* Two entries of the inode cache are never the same inode, and one that    *)
(* nobody refers to is not locked; a cached inode that is not locked is the *)
(* one on disk.                                                             *)
CacheCoherent ==
    /\ \A k, m \in 1..NINODE :
          k # m /\ icache[k].ref > 0 /\ icache[m].ref > 0 => icache[k].inum # icache[m].inum
    /\ \A k \in 1..NINODE : icache[k].lock # NONE => icache[k].ref > 0
    /\ \A k \in 1..NINODE :
          icache[k].ref > 0 /\ icache[k].valid /\ icache[k].lock = NONE =>
             disk[icache[k].inum] = [type |-> icache[k].type, nlink |-> icache[k].nlink]

(* While no call is in progress every reference is accounted for, however   *)
(* the calls failed: a file has as many as it has descriptors, an entry of  *)
(* the inode cache as many as files and current directories use it.         *)
ReferencesCounted ==
    Idle /\ panicked = "no" =>
       /\ \A f \in 1..NFILE : ftable[f].ref = Cardinality(Descriptors(f))
       /\ \A k \in 1..NINODE : icache[k].ref = Cardinality(Users(k)) + Cardinality(Inside(k))

(* No process begins an operation within an operation, and none holds an    *)
(* inode or an operation when its call returns.                             *)
OperationsNest ==
    /\ \A p \in Procs : ops[p] <= 1
    /\ \A p \in Procs : todo[p] = <<>> =>
          ops[p] = 0 /\ \A k \in 1..NINODE : icache[k].lock # p

FilesInv == TypeOK /\ CacheCoherent /\ ReferencesCounted /\ OperationsNest

(* The directories are a tree, whatever creations race: the inodes in use   *)
(* are the root and those with an entry in a directory, each with one, and  *)
(* a directory has a link for its entry and for each ".." below it.         *)
Entries(i) == {dn \in Inums \X Elements : dir[dn[1]][dn[2]] = i}

TreeInv ==
    \A i \in Inums :
       /\ disk[i].type # "free" <=> i = 1 \/ Entries(i) # {}
       /\ Cardinality(Entries(i)) <= 1
       /\ disk[i].type = "dir" =>
             disk[i].nlink = 1 + Cardinality({j \in Inums \ {1} : dir[j][".."] = i})

(* The code modelled here panics only when the inode cache is full or no    *)
(* inode on disk is left; then an open() that could have failed stops the   *)
(* machine.  (balloc() may panic in create() too when no block is left:     *)
(* blocks are in FsData.)                                                   *)
PanicOnlyWhenFull ==
    /\ panicked \in {"no", "iget", "ialloc"}
    /\ panicked = "iget" => \A k \in 1..NINODE : icache[k].ref > 0
    /\ panicked = "ialloc" => \A i \in Inums : disk[i].type # "free"

(* No two processes wait for each other: as long as a call is in progress   *)
(* one of them can go on, although begin_op() may find no room in the log   *)
(* until all operations in progress have ended.                             *)
Blocked(p) ==
    \/ todo[p] = <<>>
    \/ Head(todo[p]) = <<"begin_op">> /\ \E q \in Procs : ops[q] > 0
    \/ \E r \in Registers : /\ Head(todo[p]) \in {<<"ilock", r>>, <<"iput", r>>}
                           /\ icache[Index(p, r)].lock # NONE

SomeoneGoesOn == ~Idle /\ panicked = "no" => \E p \in Procs : ~Blocked(p)
=============================================================================

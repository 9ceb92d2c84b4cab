------------------------------- MODULE FsData -------------------------------
(***************************************************************************)
(* What is in the files: the free map (balloc(), bfree()), the blocks of   *)
(* an inode (bmap(), itrunc()), readi() and writei(), and filewrite(),     *)
(* which cuts a write into operations of the log.  The initial disk is one *)
(* that mkfs builds.  skipelem(), which takes a path apart, is checked     *)
(* here against what it should do.                                         *)
(*                                                                         *)
(* All this runs with the inode's lock, so there is one process.  A block  *)
(* is a sequence of BSIZE units, a unit a character, a block number or a   *)
(* directory entry.  Names and the directory tree are in module Files.     *)
(***************************************************************************)
EXTENDS Integers, Sequences, SequencesExt, FiniteSetsExt

CONSTANTS
    BSIZE, NDIRECT,
    FSSIZE, LOGSIZE, NINODES, \* of mkfs
    IPB, BPB,               \* inodes and bits of the free map in a block
    MAXOPBLOCKS,
    Images,                 \* bound: lengths of the files given to mkfs
    Vals,                   \* characters
    Sizes,                  \* bound: lengths of reads and writes
    MaxWrites               \* bound: calls of filewrite()

NINDIRECT == BSIZE
MAXFILE == NDIRECT + NINDIRECT

(* The layout that mkfs computes. *)
ninodeblocks == NINODES \div IPB + 1
nbitmap == FSSIZE \div BPB + 1
nmeta == 2 + LOGSIZE + ninodeblocks + nbitmap
IBLOCK(i) == 2 + LOGSIZE + i \div IPB
BBLOCK(b) == 2 + LOGSIZE + ninodeblocks + b \div BPB

ASSUME FsDataAssumption ==
    /\ {BSIZE, NDIRECT, FSSIZE, NINODES, IPB, BPB, MAXOPBLOCKS} \subseteq Nat \ {0}
    /\ LOGSIZE \in Nat /\ nmeta < FSSIZE
    /\ 0 \notin Vals /\ Vals \subseteq Nat

VARIABLES
    fs,         \* [used, blk, inode, dinode, log, panicked]: see Blank
    content,    \* what each inode should hold
    file,       \* the open file: [ip, off]
    call,       \* the write in progress: [v, left]; left = 0 for none
    writes      \* calls of filewrite() so far

vars == <<fs, content, file, call, writes>>

(* The inodes that ialloc() looks at; inode 0 is never used. *)
Inums == 1..(NINODES - 1)
Zeroes == [k \in 0..(BSIZE - 1) |-> 0]
NoInode == [type |-> "free", size |-> 0, addrs |-> [k \in 0..NDIRECT |-> 0]]
NoCall == [v |-> 0, left |-> 0]

(* used: the free map; inode, dinode: inodes in memory and on disk;         *)
(* log: the blocks that the operation in progress wrote.                    *)
Blank == [used |-> {}, blk |-> [b \in 0..(FSSIZE - 1) |-> Zeroes],
          inode |-> [i \in Inums |-> NoInode], dinode |-> [i \in Inums |-> NoInode],
          log |-> {}, panicked |-> FALSE]

LogWrite(s, b) == [s EXCEPT !.log = @ \cup {b}]

-----------------------------------------------------------------------------
(* Blocks *)

(* A block allocated without bzero(). *)
BallocDirty(s) ==
    LET free == (0..(FSSIZE - 1)) \ s.used
    IN IF free = {} THEN [s |-> [s EXCEPT !.panicked = TRUE], b |-> 0]
       ELSE [s |-> LogWrite([s EXCEPT !.used = @ \cup {Min(free)}], BBLOCK(Min(free))),
             b |-> Min(free)]

Balloc(s) ==
    LET free == (0..(FSSIZE - 1)) \ s.used
    IN IF free = {} THEN [s |-> [s EXCEPT !.panicked = TRUE], b |-> 0]
       ELSE [s |-> [s EXCEPT !.used = @ \cup {Min(free)}, !.blk[Min(free)] = Zeroes,
                             !.log = @ \cup {BBLOCK(Min(free)), Min(free)}],
             b |-> Min(free)]

Bfree(s, b) ==
    IF b = 0 THEN s
    ELSE LogWrite([s EXCEPT !.used = @ \ {b}, !.panicked = @ \/ b \notin s.used], BBLOCK(b))

Iupdate(s, i) == LogWrite([s EXCEPT !.dinode[i] = s.inode[i]], IBLOCK(i))

(* The block in addrs[k], allocated if there is none. *)
Direct(s, i, k) ==
    IF s.inode[i].addrs[k] # 0 THEN [s |-> s, b |-> s.inode[i].addrs[k]]
    ELSE LET a == Balloc(s) IN [a EXCEPT !.s.inode[i].addrs[k] = a.b]

(* The block in entry k of the indirect block, which is m.b. *)
Indirect(m, k) ==
    IF m.s.blk[m.b][k] # 0 THEN [m EXCEPT !.b = m.s.blk[m.b][k]]
    ELSE LET a == Balloc(m.s)
         IN [a EXCEPT !.s.blk[m.b][k] = a.b, !.s.log = @ \cup {m.b}]

Bmap(s, i, bn) ==
    CASE bn < NDIRECT -> Direct(s, i, bn)
      [] bn >= NDIRECT /\ bn < MAXFILE -> Indirect(Direct(s, i, NDIRECT), bn - NDIRECT)
      [] OTHER -> [s |-> [s EXCEPT !.panicked = TRUE], b |-> 0]

Addrs(s, i) == [k \in 1..NDIRECT |-> s.inode[i].addrs[k - 1]]
IndirectAddrs(s, i) ==
    IF s.inode[i].addrs[NDIRECT] = 0 THEN <<>>
    ELSE [k \in 1..NINDIRECT |-> s.blk[s.inode[i].addrs[NDIRECT]][k - 1]]

Itrunc(s, i) ==
    LET t == FoldLeft(Bfree, s, Addrs(s, i) \o IndirectAddrs(s, i) \o <<s.inode[i].addrs[NDIRECT]>>)
    IN Iupdate([t EXCEPT !.inode[i] = [NoInode EXCEPT !.type = s.inode[i].type]], i)

-----------------------------------------------------------------------------
(* Contents *)

(* The pieces [o, n] of a range that lie in different blocks. *)
Pieces(o, n) ==
    [k \in 1..((o + n - 1) \div BSIZE - o \div BSIZE + 1) |->
        LET bn == o \div BSIZE + k - 1
            from == Max({o, bn * BSIZE})
        IN [o |-> from, n |-> Min({o + n, (bn + 1) * BSIZE}) - from]]

Loop(Body(_, _), s, o, n) == IF n = 0 THEN s ELSE FoldLeft(Body, s, Pieces(o, n))

(* One round of the loop of readi(); t.data is what dst has so far. *)
Readi(s, i, o, n) ==
    LET m == Min({n, s.inode[i].size - o})
        Round(t, p) ==
            LET a == Bmap(t.s, i, p.o \div BSIZE)
            IN [s |-> a.s,
                data |-> t.data \o [k \in 1..p.n |-> a.s.blk[a.b][(p.o % BSIZE) + k - 1]]]
    IN IF o > s.inode[i].size THEN [s |-> s, data |-> <<>>, r |-> -1]
       ELSE LET t == Loop(Round, [s |-> s, data |-> <<>>], o, m)
            IN [s |-> t.s, data |-> t.data, r |-> m]

(* One round of the loop of writei(): block bn is loaded, changed, logged.  *)
Put(a, o, n, v) ==
    LogWrite([a.s EXCEPT !.blk[a.b] = [k \in DOMAIN @ |->
                 IF k >= o % BSIZE /\ k < (o % BSIZE) + n THEN v ELSE @[k]]], a.b)

(* A file that grows although only its blocks were overwritten is saved;   *)
(* here also one that is not saved.                                        *)
GrownInMemory(s, i, end) ==
    IF end > s.inode[i].size THEN [s EXCEPT !.inode[i].size = end] ELSE s

Grown(s, i, end) ==
    IF end > s.inode[i].size THEN Iupdate([s EXCEPT !.inode[i].size = end], i) ELSE s

Writei(s, i, o, n, v) ==
    LET Round(t, p) == Put(Bmap(t, i, p.o \div BSIZE), p.o, p.n, v)
    IN IF o > s.inode[i].size \/ o + n > MAXFILE * BSIZE THEN [s |-> s, r |-> -1]
       ELSE [s |-> Grown(Loop(Round, s, o, n), i, o + n), r |-> n]

-----------------------------------------------------------------------------
(* mkfs *)

(* iappend(): like Writei, but blocks are taken in order and nothing is     *)
(* logged.  din is written back at the end.                                 *)
Iappend(s, i, n, v) ==
    LET o == s.inode[i].size
        Round(t, p) == Put(Bmap(t, i, p.o \div BSIZE), p.o, p.n, v)
    IN [Loop(Round, s, o, n) EXCEPT !.inode[i].size = o + n]

MkfsIalloc(s, i, type) == [s EXCEPT !.inode[i].type = type]

(* File i - 1 of the arguments: an inode, an entry of the root, the content. *)
AddFile(s, i, n, v) == Iappend(Iappend(MkfsIalloc(s, i, "file"), 1, 1, i), i, n, v)

(* "fix size of root inode dir" *)
FixSize(s) == [s EXCEPT !.inode[1].size = (@ \div BSIZE + 1) * BSIZE]

Mkfs(image, v) ==
    LET empty == MkfsIalloc([Blank EXCEPT !.used = 0..(nmeta - 1)], 1, "dir")
        dots == Iappend(empty, 1, 2, 1)
        Add(s, k) == AddFile(s, k + 1, image[k], v)
        s == FixSize(FoldLeft(Add, dots, [k \in 1..Len(image) |-> k]))
    IN [s EXCEPT !.dinode = s.inode, !.log = {}, !.panicked = @ \/ Cardinality(s.used) >= BPB]

(* What mkfs was given, with the end of the root directory zero. *)
Given(image, v) ==
    [i \in Inums |->
        CASE i = 1 -> [k \in 1..(((2 + Len(image)) \div BSIZE + 1) * BSIZE) |->
                          IF k <= 2 THEN 1 ELSE IF k <= 2 + Len(image) THEN k - 1 ELSE 0]
          [] i > 1 /\ i <= Len(image) + 1 -> [k \in 1..image[i - 1] |-> v]
          [] OTHER -> <<>>]

Init ==
    /\ \E image \in Images, v \in Vals : fs = Mkfs(image, v) /\ content = Given(image, v)
    /\ file = [ip |-> 1, off |-> 0]
    /\ call = NoCall /\ writes = 0

-----------------------------------------------------------------------------
(* Operations *)

Ready == ~fs.panicked /\ call.left = 0

Open(i) ==
    /\ Ready /\ fs.inode[i].type # "free"
    /\ file' = [ip |-> i, off |-> 0]
    /\ UNCHANGED <<fs, content, call, writes>>

Fileread(n) ==
    /\ Ready
    /\ \E t \in {Readi(fs, file.ip, file.off, n)} :
          /\ fs' = [t.s EXCEPT !.log = {}]
          /\ file' = [file EXCEPT !.off = IF t.r > 0 THEN @ + t.r ELSE @]
    /\ UNCHANGED <<content, call, writes>>

(* filewrite() of n characters; a directory is never open for writing. *)
Filewrite(n, v) ==
    /\ Ready /\ fs.inode[file.ip].type = "file"
    /\ writes < MaxWrites /\ writes' = writes + 1
    /\ call' = [v |-> v, left |-> n]
    /\ UNCHANGED <<fs, content, file>>

(* The size of a round without the slop for blocks written in part. *)
RoundMaxLoose == (MAXOPBLOCKS - 1) * BSIZE

RoundMax == ((MAXOPBLOCKS - 1 - 1 - 2) \div 2) * BSIZE

(* What a file holds after a write of n characters v at o. *)
Written(c, o, n, v) ==
    [k \in 1..Max({Len(c), o + n}) |-> IF k > o /\ k <= o + n THEN v ELSE c[k]]

(* One round of filewrite(), an operation of the log; the first that fails *)
(* is the last.                                                            *)
WriteRound ==
    /\ ~fs.panicked /\ call.left > 0
    /\ \E n \in {Min({call.left, RoundMax})} :
       \E t \in {Writei([fs EXCEPT !.log = {}], file.ip, file.off, n, call.v)} :
          /\ fs' = t.s
          /\ IF t.r < 0
             THEN call' = NoCall /\ UNCHANGED <<file, content>>
             ELSE /\ file' = [file EXCEPT !.off = @ + n]
                  /\ content' = [content EXCEPT ![file.ip] = Written(@, file.off, n, call.v)]
                  /\ call' = IF call.left = n THEN NoCall ELSE [call EXCEPT !.left = @ - n]
    /\ UNCHANGED writes

(* iput() of the last reference to an inode without links.  The kernel has *)
(* no unlink() yet; this is what iput() is ready for, and what makes blocks *)
(* come back.                                                              *)
Iput(i) ==
    /\ Ready /\ fs.inode[i].type = "file" /\ file.ip # i
    /\ \E s \in {Itrunc([fs EXCEPT !.log = {}], i)} :
          fs' = Iupdate([s EXCEPT !.inode[i].type = "free"], i)
    /\ content' = [content EXCEPT ![i] = <<>>]
    /\ UNCHANGED <<file, call, writes>>

(* ialloc() and the first ilock() of the new inode. *)
Ialloc ==
    /\ Ready
    /\ \E i \in {k \in Inums : fs.dinode[k].type = "free"} :
          /\ \A k \in 1..(i - 1) : fs.dinode[k].type # "free"
          /\ \E s \in {[fs EXCEPT !.dinode[i] = [NoInode EXCEPT !.type = "file"]]} :
                fs' = [s EXCEPT !.inode[i] = s.dinode[i], !.log = {IBLOCK(i)}]
    /\ UNCHANGED <<content, file, call, writes>>

Next ==
    \/ WriteRound \/ Ialloc
    \/ \E i \in Inums : Iput(i) \/ Open(i)
    \/ \E n \in Sizes : Fileread(n) \/ \E v \in Vals : Filewrite(n, v)

Spec == Init /\ [][Next]_vars

-----------------------------------------------------------------------------
(* skipelem(): the first element of a path, cut to DIRSIZ characters, and   *)
(* the path after it without leading slashes; a path without an element     *)
(* gives NULL.                                                              *)
DIRSIZ == 2
NULL == [name |-> <<>>, rest |-> <<"NULL">>]

Skip(s, chars) ==
    LET n == Cardinality({k \in 1..Len(s) : \A j \in 1..k : s[j] \in chars})
    IN SubSeq(s, n + 1, Len(s))

skipelem(path) ==
    LET s == Skip(path, {"/"})
        rest == Skip(s, {"a", "b"})
        len == Len(s) - Len(rest)
    IN IF s = <<>> THEN NULL
       ELSE [name |-> SubSeq(s, 1, Min({len, DIRSIZ})), rest |-> Skip(rest, {"/"})]

(* The names that namex() gets from a path are its maximal runs without a  *)
(* slash, in order, for every path of up to five characters.               *)
Starts(s) == {k \in 1..Len(s) : s[k] # "/" /\ (k = 1 \/ s[k - 1] = "/")}
Name(s, k) == LET n == Min({j \in (k + 1)..(Len(s) + 1) : j = Len(s) + 1 \/ s[j] = "/"}) - k
              IN SubSeq(s, k, k + Min({n, DIRSIZ}) - 1)

ASSUME SkipelemTakesTheFirstName ==
    \A n \in 0..5 : \A s \in [1..n -> {"/", "a", "b"}] :
       IF Starts(s) = {} THEN skipelem(s) = NULL
       ELSE /\ skipelem(s).name = Name(s, Min(Starts(s)))
            /\ \E k \in 1..(n + 1) :
                  /\ skipelem(s).rest = SubSeq(s, k, n)
                  /\ k = n + 1 \/ k = Min({j \in Starts(s) : j > Min(Starts(s))} \cup {n + 1})

-----------------------------------------------------------------------------
Owned(i) ==
    Range(Addrs(fs, i) \o IndirectAddrs(fs, i) \o <<fs.inode[i].addrs[NDIRECT]>>) \ {0}

TypeOK ==
    /\ fs.used \subseteq 0..(FSSIZE - 1)
    /\ \A i \in Inums : content[i] \in Seq(Nat)
    /\ file.ip \in Inums /\ file.off \in 0..(MAXFILE * BSIZE)

Places(i) == {k \in 0..NDIRECT : fs.inode[i].addrs[k] # 0}

(* Between operations the free map has exactly the blocks that the inodes   *)
(* use and those of the layout, no block has two places, and the inodes on  *)
(* disk are those in memory: nothing allocated is lost by a restart.        *)
BlocksOwnedOnce ==
    /\ fs.used = (0..(nmeta - 1)) \cup UNION {Owned(i) : i \in Inums}
    /\ \A i, j \in Inums : i # j => Owned(i) \cap Owned(j) = {}
    /\ \A i \in Inums :
          Cardinality(Owned(i)) = Cardinality(Places(i))
             + Cardinality({k \in DOMAIN IndirectAddrs(fs, i) : IndirectAddrs(fs, i)[k] # 0})
    /\ fs.dinode = fs.inode

(* The kernel panics only when the disk is full.                            *)
FsDataInv ==
    /\ TypeOK
    /\ IF fs.panicked THEN fs.used = 0..(FSSIZE - 1) ELSE BlocksOwnedOnce

(* Every read of every file returns what was written there, in whatever     *)
(* pieces it was written and whatever the blocks held before, and a read    *)
(* allocates nothing.                                                       *)
ReadsBack ==
    \A i \in Inums : fs.inode[i].type # "free" /\ ~fs.panicked =>
       /\ fs.inode[i].size = Len(content[i])
       /\ \A o \in 0..Len(content[i]), n \in Sizes :
             LET t == Readi(fs, i, o, n)
             IN t.data = SubSeq(content[i], o + 1, Min({o + n, Len(content[i])})) /\ t.s = fs

(* A round of filewrite(), and an iput() that truncates a file, write at    *)
(* most the MAXOPBLOCKS blocks that begin_op() reserved for the operation,  *)
(* however the blocks lie.  (The operations of create() are in Files, which *)
(* has no blocks.)                                                          *)
OpFitsLog == Cardinality(fs.log) <= MAXOPBLOCKS
=============================================================================

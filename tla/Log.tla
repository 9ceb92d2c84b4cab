-------------------------------- MODULE Log --------------------------------
(***************************************************************************)
(* kern/log.c: the redo log that makes file-system operations atomic.       *)
(*                                                                          *)
(* Processes run operations concurrently between begin_op() and end_op();   *)
(* log_write() records the blocks they modify; the last end_op() commits    *)
(* them all: write_log, write_head (the commit point), install_trans,       *)
(* write_head with n = 0.  A crash may come between any two disk writes,    *)
(* during recovery too.  The buffer cache is the function mem, what a read  *)
(* of each block returns; a disk write writes one block and is atomic.      *)
(***************************************************************************)
EXTENDS Naturals, Sequences, FiniteSets

CONSTANTS Procs,        \* processes that make file-system calls
          Booter,       \* process 1, which runs the start-up test of the file system
          Blocks,       \* home blocks: inodes, bitmap, data
          Vals,         \* contents of a block
          MAXOPBLOCKS,  \* blocks begin_op() reserves for one operation
          LOGSIZE,      \* capacity of struct logheader
          NLOG,         \* sb.nlog, the log's blocks on disk, header included
          OpBlocks      \* distinct blocks an operation really modifies

ASSUME LogAssumption ==
    /\ Booter \in Procs
    /\ MAXOPBLOCKS \in Nat \ {0} /\ LOGSIZE \in Nat /\ NLOG \in Nat /\ OpBlocks \in Nat
    /\ MAXOPBLOCKS <= LOGSIZE
    /\ IsFiniteSet(Procs) /\ Blocks # {}

(* Operations stay far enough below their reservation for an area that has  *)
(* a block less than log.lh can list.  The file system writes at most 7     *)
(* blocks of 10, and mkfs makes NLOG = LOGSIZE.                             *)
ASSUME ReservationAssumption ==
    /\ OpBlocks < MAXOPBLOCKS
    /\ OpBlocks + 1 + LOGSIZE < NLOG + MAXOPBLOCKS

VARIABLES disk,         \* home blocks on disk
          slots,        \* the log's data blocks on disk, by position
          head,         \* the header block on disk: its first n block numbers
          mem,          \* home blocks as bread() returns them
          lh,           \* log.lh, the blocks logged so far
          outstanding, committing,  \* fields of struct log
          boot,         \* how far start-up is: read_head, install, test, up
          tail,         \* the loop variable of write_log() and install_trans()
          pc, own, target  \* per process: place, blocks of its operation, block in log_write()

diskVars == <<disk, slots, head>>
opVars   == <<pc, own, target>>
vars     == <<diskVars, mem, lh, outstanding, committing, boot, tail, opVars>>

Elems(s) == {s[i] : i \in 1..Len(s)}

Labels == {"idle", "begin", "asleep", "op", "op_check", "op_append", "loose", "loose_check",
           "loose_append", "write_log", "install", "finish", "panic"}

TypeOK ==
    /\ disk \in [Blocks -> Vals]
    /\ slots \in [1..LOGSIZE -> Vals]
    /\ head \in Seq(Blocks) /\ Len(head) <= LOGSIZE
    /\ mem \in [Blocks -> Vals]
    /\ lh \in Seq(Blocks) /\ Len(lh) <= LOGSIZE
    /\ outstanding \in Nat
    /\ committing \in BOOLEAN
    /\ boot \in {"read_head", "install", "test", "up"}
    /\ tail \in Nat
    /\ pc \in [Procs -> Labels]
    /\ own \in [Procs -> SUBSET Blocks]
    /\ target \in [Procs -> Blocks]

(* A file system as mkfs leaves it, about to be started. *)
Init ==
    /\ \E v \in Vals : disk = [b \in Blocks |-> v] /\ slots = [i \in 1..LOGSIZE |-> v]
    /\ head = <<>>
    /\ mem = disk
    /\ lh = <<>>
    /\ outstanding = 0
    /\ committing = FALSE
    /\ boot = "read_head"
    /\ tail = 0
    /\ pc = [p \in Procs |-> "idle"]
    /\ own = [p \in Procs |-> {}]
    /\ target \in [Procs -> {CHOOSE b \in Blocks : TRUE}]

Goto(p, from, to) ==
    /\ pc[p] = from
    /\ pc' = [pc EXCEPT ![p] = to]

-----------------------------------------------------------------------------
(* install_trans(): the block at position tail of lh goes home, in the      *)
(* cache and on disk.                                                       *)
InstallBlock ==
    /\ tail < Len(lh)
    /\ disk' = [disk EXCEPT ![lh[tail + 1]] = slots[tail + 1]]
    /\ mem' = [mem EXCEPT ![lh[tail + 1]] = slots[tail + 1]]
    /\ tail' = tail + 1
    /\ UNCHANGED <<slots, head, lh, outstanding, committing>>

(* log.lh.n = 0 and write_head(). *)
EraseHead ==
    /\ tail = Len(lh)
    /\ lh' = <<>>
    /\ head' = <<>>
    /\ tail' = 0
    /\ UNCHANGED <<disk, slots, mem, outstanding, committing>>

(* initlog() in forkret(): read_head(), then install_trans(), then the      *)
(* header is cleared.                                                       *)
ReadHead ==
    /\ boot = "read_head"
    /\ lh' = head
    /\ tail' = 0
    /\ boot' = "install"
    /\ UNCHANGED <<diskVars, mem, outstanding, committing, opVars>>

RecoverInstall ==
    /\ boot = "install"
    /\ InstallBlock
    /\ UNCHANGED <<boot, opVars>>

RecoverErase ==
    /\ boot = "install"
    /\ EraseHead
    /\ boot' = "test"
    /\ UNCHANGED opVars

(* test_file_system() is over and user code starts. *)
StartUser ==
    /\ boot = "test"
    /\ pc[Booter] = "idle"
    /\ boot' = "up"
    /\ UNCHANGED <<diskVars, mem, lh, outstanding, committing, tail, opVars>>

(* Power is lost: memory is gone, the disk stays.                           *)
Crash ==
    /\ mem' = disk
    /\ lh' = <<>>
    /\ outstanding' = 0
    /\ committing' = FALSE
    /\ boot' = "read_head"
    /\ tail' = 0
    /\ pc' = [p \in Procs |-> "idle"]
    /\ own' = [p \in Procs |-> {}]
    /\ UNCHANGED <<diskVars, target>>

-----------------------------------------------------------------------------
(* begin_op() *)

MayStart(p) == boot = "up" \/ (boot = "test" /\ p = Booter)

CallBeginOp(p) ==
    /\ MayStart(p)
    /\ Goto(p, "idle", "begin")
    /\ UNCHANGED <<diskVars, mem, lh, outstanding, committing, boot, tail, own, target>>

Room == Len(lh) + (outstanding + 1) * MAXOPBLOCKS <= LOGSIZE

(* A begin_op() that does not look at log.committing. *)
BeginOpInCommit(p) ==
    /\ Room
    /\ Goto(p, "begin", "op")
    /\ outstanding' = outstanding + 1
    /\ UNCHANGED <<diskVars, mem, lh, committing, boot, tail, own, target>>

BeginOp(p) ==
    /\ ~committing
    /\ Room
    /\ Goto(p, "begin", "op")
    /\ outstanding' = outstanding + 1
    /\ UNCHANGED <<diskVars, mem, lh, committing, boot, tail, own, target>>

(* Both waits: sleep(&log, &log.lock), which loses no wakeup. *)
BeginSleep(p) ==
    /\ committing \/ ~Room
    /\ Goto(p, "begin", "asleep")
    /\ UNCHANGED <<diskVars, mem, lh, outstanding, committing, boot, tail, own, target>>

(* wakeup(&log): every sleeper goes round the loop of begin_op() again. *)
Awake == [p \in Procs |-> IF pc[p] = "asleep" THEN "begin" ELSE pc[p]]

-----------------------------------------------------------------------------
(* Inside an operation: modify a block in the cache and log_write() it,     *)
(* with the buffer's lock held.  test_file_system() calls create() outside  *)
(* any operation, so process 1 also logs "loose" blocks at start-up, on an  *)
(* empty log each time.                                                     *)

LooseBegin(p) ==
    /\ boot = "test" /\ p = Booter
    /\ lh = <<>>
    /\ Goto(p, "idle", "loose")
    /\ UNCHANGED <<diskVars, mem, lh, outstanding, committing, boot, tail, own, target>>

LooseEnd(p) ==
    /\ Goto(p, "loose", "idle")
    /\ own' = [own EXCEPT ![p] = {}]
    /\ UNCHANGED <<diskVars, mem, lh, outstanding, committing, boot, tail, target>>

(* The buffer of block b is locked by a process in log_write(). *)
LogWritePlaces == {"op_check", "op_append", "loose_check", "loose_append"}
Locked(b) == \E q \in Procs : pc[q] \in LogWritePlaces /\ target[q] = b

ModifyBlock(p, b, v) ==
    /\ ~Locked(b)
    /\ Cardinality(own[p] \cup {b}) <= OpBlocks
    /\ Goto(p, "op", "op_check") \/ Goto(p, "loose", "loose_check")
    /\ mem' = [mem EXCEPT ![b] = v]
    /\ own' = [own EXCEPT ![p] = @ \cup {b}]
    /\ target' = [target EXCEPT ![p] = b]
    /\ UNCHANGED <<diskVars, lh, outstanding, committing, boot, tail>>

Full == Len(lh) >= LOGSIZE \/ Len(lh) >= NLOG - 1

(* log_write(): "too big a transaction", tested without log.lock. *)
LogWriteCheck(p) ==
    /\ \/ Goto(p, "op_check", IF Full THEN "panic" ELSE "op_append")
       \/ Goto(p, "loose_check", IF Full THEN "panic" ELSE "loose_append")
    /\ UNCHANGED <<diskVars, mem, lh, outstanding, committing, boot, tail, own, target>>

(* log_write(): record the block, once, under log.lock. *)
LogWrite(p) ==
    /\ Goto(p, "op_append", "op") \/ Goto(p, "loose_append", "loose")
    /\ lh' = IF target[p] \in Elems(lh) THEN lh ELSE Append(lh, target[p])
    /\ UNCHANGED <<diskVars, mem, outstanding, committing, boot, tail, own, target>>

-----------------------------------------------------------------------------
(* end_op() and commit() *)

(* Not the last operation: wake those that wait for log space. *)
EndOp(p) ==
    /\ pc[p] = "op"
    /\ outstanding # 1
    /\ outstanding' = outstanding - 1
    /\ own' = [own EXCEPT ![p] = {}]
    /\ pc' = IF committing THEN [pc EXCEPT ![p] = "panic"] ELSE [Awake EXCEPT ![p] = "idle"]
    /\ UNCHANGED <<diskVars, mem, lh, committing, boot, tail, target>>

(* The last operation: commit, which does nothing if no block was logged. *)
EndOpLast(p) ==
    /\ pc[p] = "op"
    /\ outstanding = 1
    /\ outstanding' = 0
    /\ own' = [own EXCEPT ![p] = {}]
    /\ committing' = TRUE
    /\ pc' = [pc EXCEPT ![p] = CASE committing -> "panic"
                                 [] ~committing /\ lh = <<>> -> "finish"
                                 [] ~committing /\ lh # <<>> -> "write_log"]
    /\ tail' = 0
    /\ UNCHANGED <<diskVars, mem, lh, boot, target>>

(* write_log(): one block from the cache to the log. *)
WriteLog(p) ==
    /\ pc[p] = "write_log"
    /\ tail < Len(lh)
    /\ slots' = [slots EXCEPT ![tail + 1] = mem[lh[tail + 1]]]
    /\ tail' = tail + 1
    /\ UNCHANGED <<disk, head, mem, lh, outstanding, committing, boot, opVars>>

(* A write_head() that does not wait for the last block of the log. *)
WriteHeadEarly(p) ==
    /\ tail + 1 >= Len(lh)
    /\ Goto(p, "write_log", "install")
    /\ head' = lh
    /\ tail' = 0
    /\ UNCHANGED <<disk, slots, mem, lh, outstanding, committing, boot, own, target>>

(* write_head(): the transaction commits. *)
WriteHead(p) ==
    /\ tail = Len(lh)
    /\ Goto(p, "write_log", "install")
    /\ head' = lh
    /\ tail' = 0
    /\ UNCHANGED <<disk, slots, mem, lh, outstanding, committing, boot, own, target>>

Install(p) ==
    /\ pc[p] = "install"
    /\ InstallBlock
    /\ UNCHANGED <<boot, opVars>>

(* An erase before the blocks are home. *)
EraseEarly(p) ==
    /\ Goto(p, "install", "finish")
    /\ lh' = <<>>
    /\ head' = <<>>
    /\ tail' = 0
    /\ UNCHANGED <<disk, slots, mem, outstanding, committing, boot, own, target>>

Erase(p) ==
    /\ Goto(p, "install", "finish")
    /\ EraseHead
    /\ UNCHANGED <<boot, own, target>>

(* An end_op() that does not wake the waiters after its commit. *)
EndCommitSilent(p) ==
    /\ Goto(p, "finish", "idle")
    /\ committing' = FALSE
    /\ UNCHANGED <<diskVars, mem, lh, outstanding, boot, tail, own, target>>

(* end_op() after commit(): committing = 0, wakeup(&log). *)
EndCommit(p) ==
    /\ pc[p] = "finish"
    /\ committing' = FALSE
    /\ pc' = [Awake EXCEPT ![p] = "idle"]
    /\ UNCHANGED <<diskVars, mem, lh, outstanding, boot, tail, own, target>>

-----------------------------------------------------------------------------
Recovery == ReadHead \/ RecoverInstall \/ RecoverErase \/ StartUser

CommitStep(p) == WriteLog(p) \/ WriteHead(p) \/ Install(p) \/ Erase(p) \/ EndCommit(p)

LogWriteStep(p) == LogWriteCheck(p) \/ LogWrite(p)

Next ==
    \/ Recovery
    \/ Crash
    \/ \E p \in Procs :
          \/ CallBeginOp(p) \/ BeginOp(p) \/ BeginSleep(p) \/ LooseBegin(p) \/ LooseEnd(p)
          \/ \E b \in Blocks, v \in Vals : ModifyBlock(p, b, v)
          \/ LogWriteStep(p) \/ EndOp(p) \/ EndOpLast(p) \/ CommitStep(p)

(* Disk writes complete and every operation ends. *)
Fairness ==
    \A p \in Procs :
       /\ WF_vars(LogWriteStep(p)) /\ WF_vars(CommitStep(p))
       /\ SF_vars(EndOp(p) \/ EndOpLast(p))
       /\ WF_vars(BeginOp(p) \/ BeginSleep(p))

Spec == Init /\ [][Next]_vars
FairSpec == Spec /\ Fairness

-----------------------------------------------------------------------------
(* What the home blocks hold after a crash here and a complete recovery. *)
Recovered == [b \in Blocks |-> IF \E i \in 1..Len(head) : head[i] = b
                               THEN slots[CHOOSE i \in 1..Len(head) : head[i] = b]
                               ELSE disk[b]]

Active == {p \in Procs : pc[p] \in {"op", "op_check", "op_append",
                                    "loose", "loose_check", "loose_append"}}

Tx == INSTANCE TxDisk WITH
         vol <- IF boot \in {"test", "up"} THEN mem ELSE Recovered,
         dur <- Recovered,
         active <- Active

(* The log makes operations atomic: whatever the moment of a crash, also of *)
(* one in recovery, the disk comes back with exactly what the last commit   *)
(* made durable, and a commit never contains a part of an operation.        *)
ImplementsTxDisk == Tx!Spec

(* Neither log_write() ("too big a transaction") nor end_op() panics. *)
NoPanic == \A p \in Procs : pc[p] # "panic"

(* When the last end_op() returns, every block is in its home location and  *)
(* the log is empty.                                                        *)
DurableAtReturn ==
    \A p \in Procs : pc[p] = "finish" => disk = mem /\ head = <<>> /\ lh = <<>>

OpPlaces     == {"op", "op_check", "op_append"}
LoosePlaces  == {"loose", "loose_check", "loose_append"}
CommitPlaces == {"write_log", "install", "finish"}

(* Recovery runs alone, then process 1, then everybody. *)
BootOrder ==
    /\ boot \in {"read_head", "install"} => \A p \in Procs : pc[p] = "idle"
    /\ boot = "test" => \A p \in Procs \ {Booter} : pc[p] = "idle"
    /\ boot = "up" => \A p \in Procs : pc[p] \notin LoosePlaces

(* log.outstanding counts the operations; one process at most commits, and  *)
(* no operation is in progress meanwhile.                                   *)
Operating == {p \in Procs : pc[p] \in OpPlaces}

Counters ==
    /\ outstanding = Cardinality(Operating)
    /\ committing <=> \E p \in Procs : pc[p] \in CommitPlaces
    /\ committing => Operating = {}
    /\ \A p, q \in Procs : pc[p] \in CommitPlaces /\ pc[q] \in CommitPlaces => p = q

(* What the operations in progress may still add to the log: for each of    *)
(* them a place for every block of its reservation that it has not logged.  *)
Used(p) == own[p] \cap Elems(lh)
Reserve == {x \in Active \X (1..MAXOPBLOCKS) : x[2] > Cardinality(Used(x[1]))}

(* The log has room for all of it. *)
SpaceReserved ==
    /\ \A p \in Procs :
          /\ IsFiniteSet(own[p]) /\ Cardinality(own[p]) <= OpBlocks
          /\ pc[p] \in LogWritePlaces => target[p] \in own[p]
    /\ Len(lh) + Cardinality(Reserve) <= LOGSIZE

(* No block is logged twice. *)
LoggedOnce ==
    /\ \A i, j \in 1..Len(lh) : lh[i] = lh[j] => i = j
    /\ \A i, j \in 1..Len(head) : head[i] = head[j] => i = j

(* A block that differs from its home location is in the log or in the      *)
(* hands of a process on its way to log_write().                            *)
DirtyIsLogged ==
    /\ boot \in {"read_head", "install"} => mem = disk
    /\ \A b \in Blocks : mem[b] = disk[b] \/ b \in Elems(lh) \/ Locked(b)

(* How far a commit or a recovery is: what of slots, head and disk is up to *)
(* date.                                                                    *)
CommitProgress ==
    /\ tail <= Len(lh)
    /\ head # <<>> => boot \in {"read_head", "install"} \/ \E p \in Procs : pc[p] = "install"
    /\ boot = "install" => lh = head /\ \A i \in 1..tail : disk[lh[i]] = slots[i]
    /\ \A p \in Procs :
          /\ pc[p] = "write_log" => \A i \in 1..tail : slots[i] = mem[lh[i]]
          /\ pc[p] = "install" =>
                /\ lh = head
                /\ \A i \in 1..Len(lh) : slots[i] = mem[lh[i]]
                /\ \A i \in 1..tail : disk[lh[i]] = slots[i]

(* The inductive invariant: what end_op() promises to its callers, and what *)
(* atomicity and the space in the log rest on.                              *)
LogInv ==
    /\ TypeOK /\ DurableAtReturn
    /\ BootOrder /\ Counters
    /\ SpaceReserved /\ LoggedOnce
    /\ DirtyIsLogged /\ CommitProgress

(* A process that waits in begin_op() is woken. *)
SleeperIsWoken == \A p \in Procs : pc[p] = "asleep" ~> pc[p] # "asleep"
=============================================================================

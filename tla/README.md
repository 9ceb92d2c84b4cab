# TLA+ verification of the kernel

This directory models the teaching kernel in `src/kern` (an xv6 descendant for
the four cores of a Raspberry Pi 3): its locks, its process table and schedulers,
its SD-card driver, buffer cache and write-ahead log, its file system and system
calls, its memory and its console. TLC checks every model on small instances;
TLAPS proves, for every size, the inductive invariants of the locks, the process
table, the driver, the buffer cache, the log, the files and the console, and that the
locks, the cache, the log and the console implement their abstract specifications.

Run a check with `tlc -config X.cfg M`, a proof with `tlapm M.tla`.

## 1. Inventory

| part | state | operations | interacts with |
|---|---|---|---|
| spinlock (`spinlock.c`) | `locked`, `cpu` | `holding`, `acquire`, `release` | everything; `holding` reads without protection |
| sleeplock (`sleeplock.c`) | `locked`, `pid`, a spinlock | `acquiresleep`, `releasesleep`, `holdingsleep` | `sleep`/`wakeup`; guards buffers and inodes |
| process table, scheduler (`proc.c`, `trap.c`, `timer.c`, `main.c`) | `ptable`, `cpu[]`, `initproc`, `nextpid` | `scheduler`, `sched`, `forkret`, `yield`, `sleep`, `wakeup`, `fork`, `exit`, `wait` | `ptable.lock` is handed from one context to another across `swtch` |
| SD driver (`sd.c`) | `sdque`, controller registers | `sdrw`, `sd_start`, `sd_intr` | called by the cache; interrupt on core 0 wakes sleepers |
| buffer cache (`bio.c`) | `bcache.buf[]`, LRU list | `bget`, `bread`, `bwrite`, `brelse` | `sdrw`, sleeplocks, pinned by `log_write` |
| log (`log.c`) | `log`, header and log blocks on disk | `begin_op`, `log_write`, `end_op`, `commit`, recovery | cache below, file system above |
| inodes and directories (`fs.c`) | `icache`, inodes, free map and entries on disk | `ialloc`, `iget`, `ilock`, `iput`, `balloc`, `bfree`, `bmap`, `itrunc`, `readi`, `writei`, `dirlookup`, `dirlink`, `namex` | cache, log |
| file table, system calls (`file.c`, `sysfile.c`) | `ftable`, `p->ofile`, `p->cwd` | `filealloc`, `filedup`, `fileclose`, `fileread`, `filewrite`, `sys_*` | inodes, log, `fork`/`exit` |
| console (`console.c`, `uart.c`) | input ring `r`, `w`, `e`, `panicked` | `console_intr`, `console_read`, `console_write`, `cprintf`, `panic` | interrupt against sleeping reader; lock of the console's inode |
| memory (`kalloc.c`, `vm.c`) | free list, page tables, `ttbr0` of each core | `kalloc`, `kfree`, `pgdir_walk`, `map_region`, `uvm_*`, `copyuvm`, `vm_free` | `fork`, `execve`, `brk`, `wait`, `scheduler` |
| `exec.c`, `syscall.c` | none of their own | `execve`, argument checks | memory, inodes |
| `mkfs` | the initial disk | `balloc`, `ialloc`, `iappend` | read by `fs.c` |
| boot code, other user programs | none shared | | call the parts above |

What is hard here, and what makes each part correct:

* **Spinlock.** `holding()` reads two words while other cores write them, and
  `acquire`/`release` panic on its answer. Correct: one owner, never a false panic,
  some core always gets in.
* **Sleeplock, sleep and wakeup.** A wakeup must not fall between the test of a
  condition and going to sleep. Correct: no lost wakeup, one holder, `lk->pid`
  names it.
* **Process table.** `ptable.lock` is taken by one context and released by another
  on the same core; `fork` and its failure path write `p->state` without it; `wait`
  frees a stack its owner's core may still be on. Correct: the lock is held exactly
  where the code says; no process on two cores; no freed stack in use; no exit
  missed; every process has a live parent.
* **SD driver.** Requests from all cores, an interrupt on one, transfers that fail
  and are restarted. Correct: the controller works on the head of the queue; what a
  clean buffer holds is on disk; the driver stops only for a fault of the controller;
  while it works, every request completes.
* **Buffer cache.** Identity of a buffer between `bget`'s release of `bcache.lock`
  and the sleeplock; recycling against pins and references. Correct: one buffer per
  block, nobody's buffer is recycled, no update lost, no buffer lost to the cache.
* **Log.** Power failure between any two writes, concurrent operations sharing one
  commit, reservation of log space. Correct: atomic and durable operations; no
  overflow of the log area; waiters are woken.
* **Inodes and files.** Entries of the inode cache are recycled while others look
  them up; reference counts are changed by calls that fail half way; directories
  are locked while a path is walked down and up; the log makes operations wait for
  each other. Correct: one entry per inode, references exact, the directories a
  tree, no panic but for full tables, no deadlock.
* **File contents.** Blocks are allocated on demand, found through an indirect
  block, given back and used again; a write is cut into operations that must fit
  the log. Correct: one owner per block, what is read is what was written, nothing
  allocated is lost.
* **Memory.** Any call may find memory exhausted half way; page tables are replaced
  and freed while cores use them. Correct: one owner per page, pointers the kernel
  accepts are mapped, no stale translation, no panic while there is memory and the program
  is well formed, all pages come back.
* **Console.** Indices of the ring wrap, an interrupt edits the end of a line that
  readers wait for, a reader waits without limit. Correct: the ring is a queue of
  lines, no reader sleeps on input, no writer waits for a reader.

The full list of hazards, each at its source line and with the properties that
cover it, is in `PROJECT.json` under `hazards`.

## 2. Modules

| module | stands for | implements |
|---|---|---|
| `Mutex` | abstract lock | |
| `Spinlock` | `spinlock.c`, one action per access to `locked` or `cpu` | `Mutex` |
| `SleepLock` | `sleeplock.c` with the parts of `sleep`, `wakeup`, `scheduler` it uses | `Mutex` |
| `Proc` | `proc.c`, `timer.c`, the interrupt dispatch of `trap.c` | |
| `TxDisk` | abstract transactional disk: operations, commit, crash | |
| `Log` | `log.c` | `TxDisk` |
| `SdDriver` | the queue of `sd.c` and an abstract host controller | |
| `BlockStore` | abstract blocks, each held by one caller at a time | |
| `Bcache` (`MCBcache`) | `bio.c` | `BlockStore` |
| `FsData` (`MCFsData`) | blocks and contents of files: the lower half of `fs.c`, `filewrite` and `fileread`, `mkfs`, `skipelem` | |
| `Files` (`MCFiles`) | inode cache, directories, file table: the upper half of `fs.c`, `file.c`, `sysfile.c`, the file parts of `fork`, `exit`, `execve` | |
| `Memory` (`MCMemory`) | `kalloc.c`, `vm.c`, the memory parts of `fork`, `wait`, `growproc`, `execve`, `scheduler`; the pointer checks of `syscall.c` | |
| `Tty` | abstract terminal input: lines with an editable end | |
| `Console` | `console.c` | `Tty` |
| `SpinlockProofs`, `SleepLockProofs`, `ProcProofs`, `SdDriverProofs`, `BcacheProofs`, `LogProofs`, `FilesProofs`, `ConsoleProofs` | theorems | |

The modules follow the layers: a lower layer's operation is one step in the layer
above, and the lower layer's own module justifies that. `Spinlock` justifies the
one-step critical sections everywhere; `SleepLock` the one-step sleeplock of
`Bcache`, the inode locks of `Files` and the `sleep` of `Log`, `SdDriver` and
`Console`; `SdDriver` the one-step `sdrw` of `Bcache` (but see known defects for a
failed read); `Bcache` the function `mem` of `Log`; `Log` the atomic operations of
`FsData` and the begin and end of operations in `Files`.

How state and actions correspond to the code is in the `map` of `PROJECT.json`.
The main choices:

* *Spinlock.* The memory is sequentially consistent; the barriers of the code
  (`disb`, the acquire and release of `__atomic_*`) are assumed to give that.
* *SleepLock.* A process is RUNNING, RUNNABLE or SLEEPING; `ptable.lock` and
  `lk->lk` are held across the same steps as in the code. A holder may sleep for the disk
  inside its critical section (`SleepIo`), as every user of a buffer does.
* *Proc.* `cpc` is where a core is (in `scheduler`, in a process, between `sched`
  and `scheduler`), `kpc` is where each process continues: what `swtch` saves. All
  five places where a process comes back with `ptable.lock` held are there:
  `forkret`, `yield`, `sleep` from a system call, `sleep` from the boot work of
  process 1, and `wait`. The timer raises priorities and yields as
  `timer.c` does. `p->killed` is never set by the code and is left out. `exit` may sleep in
  `fileclose`, `begin_op` or `iput` before it takes `ptable.lock`: for the table that
  is a system call that sleeps and then `exit`, and it is modelled as that.
* *Log.* `head` and `slots` are the log on disk, `disk` the home blocks, `mem` what
  the cache returns. A write of one block is atomic. `Crash` is enabled in
  every state, during recovery too. The boot-time test of the file system, which
  logs blocks outside any operation, is modelled (`LooseBegin`).
* *SdDriver.* A buffer stands for the process that holds it. A write may always fail
  and is restarted; the constant `Faults` says what else may go wrong: a read that fails
  (`"read"`), a command that is refused (`"command"`, `sd.c:578`), a controller that
  does not get ready for a write (`"ready"`, `sd.c:588`), an error without completion
  (`"alone"`, the assertion of line 618). The last three are panics of `sd_start` and
  `sd_intr` while they hold `sdlock`: `panicked` says why, and from then on nobody gets
  past the lock. The assertion of line 570, that no interrupt is pending, is a panic of the model
  too (`"flag"`).
* *Bcache.* A caller is one use of a buffer, from `bread` to `brelse`; a process
  with two buffers is two callers. `rank` is the position in the LRU list. A `bget` that
  finds every buffer taken panics with `bcache.lock` held (the place `"full"`), after which
  no other caller gets past that lock.
* *FsData.* One process, because everything here runs with the inode locked. Its
  state is computed by operators that follow the loops (`Bmap`, `Readi`, `Writei`,
  `Itrunc`), and the actions are the calls; each round of `filewrite` is an action,
  with the blocks it logs in `fs.log`. Inodes are those `ialloc` can give, 1 to
  `NINODES - 1`. `content` is the reference: what a plain
  array of characters per file would hold. The initial disk is `Mkfs(image)`.
  `skipelem` is compared, over all paths of up to five characters, with the definition
  of a path's first name. No call of this kernel removes a link, so the
  freeing of an inode (`Iput`, `Itrunc`) is code that nothing calls yet; it is modelled
  because it is what makes blocks come back.
* *Files.* A system call is a program, a sequence of steps in `todo[p]`; each step is
  the code between two points where other processes can interfere, and failure
  paths replace the rest of the program. `lock` of an icache entry is the inode's
  sleeplock. `begin_op` waits while the log has no room for another operation (`Room`:
  the operations in progress reserve all of it). Stale fields of closed files and recycled
  entries are kept as the code keeps them. Blocks are not in it, nor is the panic of
  `balloc` when none is left (`FsData` has it). `panicked` is `"no"` or names the function
  that panicked.
* *Memory.* A page table belongs to one process, and the allocator's list is under
  one lock, so a call is one step: a fold over `[free, pt, panic]` that follows the
  loop of the code, with memory running out at any iteration. Tables have the four
  levels of the code with fewer entries. `tlb` is what a core may have cached
  since its last `lttbr0`. `hollow` marks a process that `growproc` left with a size
  and no pages, `kept` a core that it left with translations of freed pages (known
  defects). The images of `execve` include malformed ones: a segment whose address and
  offset disagree, one of size 0 beyond the last table, a file that is too short. Lengths
  given to `argptr` have `LONG_BITS` and are cut to a signed `INT_BITS` as the
  conversion to `int` does. The model stops at a panic.
* *Console.* `conslock`, the inode's lock and the ring; the indices have width
  `WRAP`. Processes read and write, core 0 takes the interrupt, and any core may print
  or panic at any time.

## 3. Runs

| run | instance | checks |
|---|---|---|
| `spinlock` | 3 cores | `LockInv`, `NoPanic`, refinement of `Mutex`, `SomeoneEnters` |
| `sleeplock` | 3 processes, 3 cores | `SleepInv`, `NoLostWakeup`, refinement of `Mutex`, `SleeperIsWoken` |
| `proc` | 4 slots, 2 cores, 1 idle process, 4 pids | `ProcInv`, `StackInUse`, `RunningIsOnCpu`, `NoMissedExit`, `ParentIsAlive`, `IdleCoreTakesWork` |
| `log` | 2 processes, 2 blocks, 2 contents, operations of 2 blocks that reserve 4, log of 8 | `LogInv`, `NoPanic`, refinement of `TxDisk`, `SleeperIsWoken` |
| `sd` | 3 buffers, 3 blocks, all faults | `QueueInv`, `CleanIsWritten`, `PanicOnlyOnFault`, `EveryRequestCompletes` |
| `bcache` | 2 callers, 4 blocks, 3 buffers, up to 2 pinned | `BcacheInv`, `KeepsItsBlock`, `PanicOnlyWhenFull`, refinement of `BlockStore` |
| `fsdata` | blocks of 2 units, 1 direct and 2 indirect blocks, 17 blocks, 3 inodes, 2 writes | `FsDataInv`, `ReadsBack`, `OpFitsLog` |
| `files` | 2 processes, 3 inodes, 3 cache entries, 2 files, 2 descriptors, 3 calls, 2 operations at a time | `FilesInv`, `TreeInv`, `PanicOnlyWhenFull`, `SomeoneGoesOn` |
| `memory` | 16 pages of 2 units, tables of 2 entries, 2 processes, 2 cores, 5 calls, integers of 5 and 7 bits | `MemoryInv`, `CheckedPointersAreMapped`, `TranslationsFresh`, `PanicsAreJustified` |
| `console` | 2 processes, 2 cores, a ring of 2, indices modulo 4 | `ConsoleInv`, refinement of `Tty`, `WriteReturns` |
| `proc_orphan`, `vm_leak` | as `proc`, `memory` | the findings of section 6 |

What the newer ones say:

* `FsDataInv` (blocks owned once, inode on disk = inode in memory between operations),
  `ReadsBack` (every read of every file at every offset returns what was written) and
  `OpFitsLog` (a round of `filewrite`, and an `iput` that truncates, stay within `MAXOPBLOCKS`,
  the assumption that `Log` makes of its callers; the operations of `create` are not in it:
  they log an inode or two and a directory block or two).
* `FilesInv` (cache coherent, references exact, operations never nest or outlive their
  call), `TreeInv` (racing creations keep a tree with right link counts),
  `PanicOnlyWhenFull` (only a full inode cache or disk stops the kernel), `SomeoneGoesOn`
  (inode locks and log space never make everybody wait).
* `MemoryInv` (no page with two owners); `CheckedPointersAreMapped` (the range that `argptr`
  compares with `p->sz`, after the cut to `int`, and all that `fetchstr` may scan, does not
  fault); `TranslationsFresh` (no translation that the page table does not have, except on a core
  with `kept`); `PanicsAreJustified` (never a page mapped twice or missing in a program; "out of
  memory" only without memory, `copyuvm`'s only for a hollow process; what is left are the
  panics of `uvm_load` on a malformed program).
* `PanicOnlyOnFault` of `SdDriver` (`sdrw` always has something to do, `sd_start` never finds an
  interrupt pending, and every panic is one of a fault in `Faults`) and `PanicOnlyWhenFull`
  of `Bcache` (when `bget` panics, pinned blocks and callers with a buffer are as many as the buffers).
* `ImplementsTty` (no character lost, doubled or reordered by ring, erasing and `^D`),
  `WriteReturns` (a reader that waits for ever blocks no writer).

Why the bounds are enough:

* Three cores let two of them interfere with the two reads of a third one's
  `holding()`; three processes let a waiter be overtaken and a second one sleep.
* In `proc`, two processes made at boot and two slots for `fork` give a parent, a
  child and a grandchild, and two pids beyond those of the boot let a slot be reaped and
  given to a second child; the reaping of a slot while its core is in `sched` needs
  two cores. `MaxPid` stops `fork` after that; the proofs cover any number of forks.
* In `log` two processes fill a shared commit, two blocks make it partial in
  every way. The layout is the real one, `NLOG = LOGSIZE`, and the log has room for
  two reservations. Operations write fewer blocks than they reserve, as those of this
  kernel do (at most 7 of 10): `ReservationAssumption`, which TLC evaluates for the
  instance and which the code's numbers satisfy (`7 + 1 + 30 < 30 + 10`). With
  `OpBlocks = MAXOPBLOCKS` the reservation is wrong (known defects).
* In `sd`, three buffers give a request in progress, one queued, and one arriving. One
  content is enough to tell a restart with wrong data: a buffer whose read
  failed holds `Garbage`, as does a block whose write failed, so data taken from another buffer,
  or not sent again, shows on the disk; the theorems have any set of contents.
* In `bcache`, callers + pinned is one more than `NBUF`, so the overload happens and `bget`
  panics; four blocks force recycling.
* In `fsdata` a write of 5 units crosses blocks, reaches the indirect block and, the second
  time, the largest file; the disk is small enough to fill up; freed blocks
  are taken again.
* In `files` two processes create the same name, walk through each other's
  directories, and a third inode or a third file exhausts a table; two chunks
  make a write wait for the log between operations. Three calls are
  enough for one process to disturb two calls of the other.
* In `memory` 12 units of address space need a second table of the last two levels, sizes
  are not multiples of a page, and 16 pages run out in the middle of `fork` and `execve`. Lengths
  include 0, ones that wrap to a negative `int` and ones that wrap to a small one.
* In `console` a ring of two is full after two characters, and the indices wrap
  after two turns of it.

Deadlock is checked where the system never stops. `files`, `fsdata` and `memory` bound
the number of calls and stop when the kernel panics; `sd` and `bcache` stop after a panic with
a lock held; in `console` all cores may have panicked. `SomeoneGoesOn` replaces the deadlock check in `files`.

Fairness and why the code justifies it:

* The kernel masks interrupts at EL1, so a process or scheduler in the kernel is
  not preempted and takes each of its steps: weak fairness.
* A core that spins for a lock that is free again and again gets it: strong
  fairness. It is an assumption about the exclusive monitor of the hardware, not
  about the code. `Spinlock` itself does without it: it has weak fairness and only claims
  that *some* core gets in.
* Timer and device interrupts stay raised until user code on the core takes them
  (`DeviceInterrupt` on core 0 only): strong fairness, per core in `Proc`.
* `SleepLock` has strong fairness of `Dispatch`, and a core per process,
  because `scheduler()` is not fair when there are fewer cores than processes
  (known defects).
* `Log`: writes complete, and an operation that can end again and again ends.
  `SdDriver`: the device keeps trying and does not fail for ever; `EveryRequestCompletes`
  claims nothing once the driver has panicked.
* `Console`: a process in the kernel gets `conslock` and the inode's lock if they are free
  again and again; the interrupt handler ends, because the UART's queue is finite.
* Nothing is assumed of user code.

## 4. Proofs

All theorems hold for every value of the constants under the named assumptions
next to the declarations: in essence, that null values are not ordinary ones and that
sets that are counted are finite. Beyond that, `Proc` assumes two cores or more and one
idle process or more (`main.c` has 4 and 3); `Log` the `ReservationAssumption` (section 3);
`Console` that the width of the counters is a multiple of the size of the ring
(2^64 and 128); `Files` two inodes and two cache entries or more (199 and 50), and that a
path is a sequence of names with `/` at most in front. No assumption bounds the number of processes, blocks, buffers, calls
or crashes.

Each component has one inductive invariant, which its run checks (but for that of `Files`,
see below), and a lemma for `Init` and one for `[Next]_vars`, with a step per action. The other
theorems follow from the invariant.

* `SpinlockProofs`: `SpinlockInvariant`, `SpinlockNoPanic`, `SpinlockIsMutex`. `LockInv`
  says where in `acquire`/`release` the words `locked` and `cpu` have which
  value. `NoPanic` alone is not inductive: it needs that `cpu` is cleared before
  `locked`, so that no other core ever reads its own number there.
* `SleepLockProofs`: `SleepLockInvariant`, `SleepLockNoLostWakeup`,
  `SleepLockIsMutex`. The strengthening is that `ptable.lock` or `lk->lk` is held
  without a gap from the test of `lk->locked` to `p->state = SLEEPING`, so that a
  process on its way to sleep counts as one that has a wakeup coming.
* `ProcProofs`: `ProcInvariant`, `StackIsSafe`, `RunningMeansOnCpu`, `ExitIsSeen`,
  `SomebodyReaps`. `ProcInv` has two halves. `SwitchInv` fixes
  the holder of `ptable.lock` from the places of all cores and of the saved contexts:
  that is what survives a context switch. The private EMBRYO of each `fork`
  has to be part of it, because `fork` publishes it without the lock. `FamilyInv` is about
  parents: who is whose child while `fork`, `exit` and `wait` are half way, and that a
  process past the scan of `wait` has children and no zombie among them, from the scan to
  the sleep. `NoMissedExit` and `ParentIsAlive`, which speak of the moments when the lock
  is free, follow from it.
* `SdDriverProofs`: `SdQueueInvariant`, `SdCleanIsWritten`, `SdCleanIsSynced` (if reads
  do not fail), `SdPanicOnlyOnFault`, for every set of faults. `QueueInv` relates queue,
  controller and pending interrupt: that the pending interrupt is one of the first request is what
  makes `sd_start` find none pending. `DataInv` adds what the data port holds.
* `BcacheProofs`: `BcacheInvariant`, `BcacheKeepsBlocks`, `BcacheIsBlockStore`,
  `BcachePanicOnlyWhenFull`. `KeepsItsBlock` needs that `refcnt` is the number of callers that have
  the buffer (so that 0 means nobody), and the refinement needs that a buffer that may
  be recycled, valid and not dirty, equals its block on disk, that one buffer at most
  has a block, and that the owner of a lock is the caller inside. `BcachePanicOnlyWhenFull`
  is a counting argument without a hypothesis on the size of the cache: a buffer that cannot be
  recycled is pinned or referenced by a caller that has it, so a `bget` that finds none has met as
  many of these as there are buffers; since `bcache.lock` stays held, that remains so.
* `LogProofs`: `LogInvariant`, `LogNoPanic`, `LogIsTxDisk`. `LogInv` says
  for each place in `commit` and in recovery which of `slots`, `head` and `disk` are up
  to date (`CommitProgress`, `BootOrder`), that a block is logged once (`LoggedOnce`), that
  the cache differs from the disk only in blocks that are logged or held by a `log_write` in
  progress (`DirtyIsLogged`), and that the blocks in the log plus the places still reserved by
  the operations in progress are at most `LOGSIZE` (`SpaceReserved`). The last is where the
  counting is: `Reserve` is the set of places, and lemmas say how its cardinality changes
  when an operation begins, ends or logs a block. `NoPanic` follows, and the refinement maps the
  abstract disk to what recovery would leave (`Recovered`: the home blocks with the
  committed log written over them), which only `WriteHead` changes.
* `ConsoleProofs`: `ConsoleInvariant`, `ConsoleIsTty`. Lemmas about counters modulo `WRAP`
  (what `Plus` and `Minus` are without remainders, distances after a step, different places
  of successive counters) carry both. To `IndicesInOrder` and `SleepersHaveNothing`,
  `ConsoleInv` adds who holds `conslock`, which processes have a read under way,
  and that the line being edited contains no end of a line, without which `^U` would stop
  early. The refinement reads the ring as two sequences, from `r` to `w` and from `w` to `e`;
  lemmas say how a part of the ring is extended, split, and left alone by a write elsewhere.
* `FilesProofs`: `FilesCorrect`, `FilesTree`, `FilesPanic`, `FilesGoOn`. The invariants of
  `Files` speak of moments when no call is in progress or of one structure at a time, and none
  of them is inductive. `FullInv`, which is, says that there is an *account* `h`: for every
  process, what it holds at this place of its program (`Holdings`: an operation of the log,
  references in `ip`, `dp` and `cwd`, inode locks, a file half set up, a name being looked up,
  descriptors without reference). The argument has four parts:
  1. *Programs.* `Trans` says how each kind of step changes what is held, `Leads` that a
     sequence of steps leads from one holding to another, `Fits` that the rest of a program
     ends with nothing held (or with a dead process). Lemmas prove it of every program of a
     system call, of the code that a step puts in front of the rest (`Element`, `CloseFd`)
     and of every failure path (`Fail`). This is where a forgotten `iunlockput()` or
     `end_op()` would show.
  2. *Books.* Under an account the state adds up: what local variables point to
     (`NameLocal`, `InodeLocal`, `FileLocal`), and `ref` of an entry and of a file as the sum of
     four and of two cardinalities (`InodeCount`, `FileCount`), at every step and not only between
     calls. One general lemma says how the sums change when one process changes its holding;
     each action uses it. A panic leaves the books as they were, so they are
     claimed only while `panicked = "no"`.
  3. *Cache and tree.* `CacheOK` is coherence with the disk, for locked entries too; `TreeOK`
     adds to `TreeInv` that no name leads to a free inode, so that `ilock` never panics with
     "no type". `NameLocal` says that the name `create` did not find is still absent when it
     links: the directory has been locked since.
  4. *Progress.* Only `create`, which puts the parent with the new inode locked, waits
     with a lock in hand. `NoCycle` says that such a parent is nobody's new inode, so
     whoever has it locked is not waiting for a lock, and a process that waits for the
     log has no lock at all (`Trans` of `begin_op`).

  Steps are invariant action by action (`NextStep`), and each of the four theorems follows from
  `FilesInductive` (`Spec => []FullInv`). `h` is bound inside `FullInv`, which is therefore
  not a formula TLC can evaluate (an account per process, and a sequence of holdings per
  program); the run checks its consequences. The number of calls (`MaxCalls`) and of operations at a
  time are constants without an upper bound.

Only model-checked:

* all liveness (`SomeoneEnters`, `SleeperIsWoken`, `IdleCoreTakesWork`,
  `EveryRequestCompletes`, `WriteReturns`): fairness is out of the prover's reach;
* `FsDataInv`, `ReadsBack` and `OpFitsLog` of `FsData`, and `MemoryInv`,
  `CheckedPointersAreMapped`, `TranslationsFresh` and `PanicsAreJustified` of `Memory`: their
  state is computed by folds over sequences that follow the loops of the code, of which
  nothing can be proved for every input without induction over data.

## 5. Not modelled

* `kpgdir.c`, a static table of the kernel's own mapping, and `test_mem()`.
* The card's identification and initialisation in `sd.c`: a sequential dialogue with
  hardware. The clock, mailbox and debug code, `entry.S`, and the saving of registers in
  `trapasm.S` and `vectors.S`: straight-line register programming.
* Formatting of numbers, the UART's registers and `^P` of the console (`procdump` ends
  in a panic). The fields of `stat`; pipes, which nothing makes.
* `p->killed`, which no code sets.
* The panics of `syscall1` on a number it does not know (`syscall.c:136`, `214`).
* In `sd`, an interrupt that comes after `sdWaitForInterrupt` has given up on it.
* The shell's parser and the other user programs: sequential text processing; the
  kernel sees them as calls in any order, which is what the models allow.
* The checks of the magic number and of sizes in an ELF header (one kind of failure) and the bytes of the arguments on the
  stack (their size).
* Weak memory ordering.
* A process with several buffers at a time: the order of buffer locks (indirect block
  before bitmap block, log block before home block) is acyclic by inspection.

## 6. Findings

* `proc_orphan`: `user_idle_init()` overwrites `initproc`, so orphans go to an idle
  process that never waits, against "Pass abandoned children to init".
* `vm_leak`: `vm_free()` is called with level 1 for the root and takes level 3 for the last
  one, so it frees last-level tables as pages; the pages themselves, and the level-2
  tables, are lost with every `execve` and `wait`.

## 7. Known defects

What the models had to except, or what was met while modelling; each property says
where it is excepted.

* `proc.c:161`: the scan of `scheduler()` restarts at slot 0 after every process, so a
  RUNNABLE process may never run although every process yields.
* `log.c:238`: `log_write()` tests the size before it takes `log.lock`, and `begin_op()`
  reserves up to `LOGSIZE` blocks while the area holds `log.size - 1`. With operations
  that use their whole reservation `lh.n` exceeds the area and `write_log()` writes
  over the first inode block. Latent: the calls of this kernel write fewer
  blocks than they reserve. `ReservationAssumption` excludes it, and `LogNoPanic` and
  `LogIsTxDisk` are proved under that.
* `sd.c:625`: `sd_intr()` tests the constant `INT_READ_RDY` where it means the interrupt
  word, so a failed read is marked valid. `CleanIsWritten` is about writes, `SdCleanIsSynced`
  assumes that reads do not fail.
* `sd.c:578`, `588`, `618`: a refused command, a controller that does not get ready and an error
  without completion stop the kernel, although the handler restarts other failures ("FIXME:
  Restart when failed").
* `bio.c:98`: `bget()` panics when every buffer is pinned or referenced. `NBUF` is 30, operations
  pin at most 24 blocks, and nothing bounds the processes that use a buffer at the same time.
* `proc.c:510`: `growproc()` takes the new size 0 for a failure, after `uvm_dealloc()` has
  freed every page; `p->sz` stays, `fork()` then panics in `copyuvm()`. It also returns before
  `uvm_switch()`, so the core keeps translations of the freed pages, which may by then be another
  process's, until it next switches. Excepted by `hollow` and by `kept` in `Memory`.
* `syscall.c:79`: the size of `argptr()` is an `int`, and `read()` and `write()` give it a length
  of 64 bits (`sysfile.c:94`, `110`): what is checked is the length cut to an `int`, what is used
  is the length itself. `CheckedPointersAreMapped` is about what is checked.
* `sysfile.c:158`: `sys_writev()` checks the array of `iovec` and not the buffers it names.
* `vm.c:238`, `243`: `uvm_load()` panics on a misaligned segment, and on an empty one without a
  table, where `execve()` could fail. Named by `PanicsAreJustified`.
* `vm.c:361`: `copyuvm()` that runs out of memory frees the root only.
* `vm.c:328`: `uva2ka()` follows the entry of `pgdir_walk()` without a test for NULL; the
  arguments of `execve` in `Memory` stay within the two pages of the stack, which have a
  table.
* `exec.c`: the stack pointer is aligned with `& -3`, against "Stack pointer must be
  aligned to 16B!" (`exec.c:189`).
* `mkfs/main.c:175`: the size of the root directory is rounded up by a block even if it
  fills its last one; the last block is then a hole, and a read of it
  allocates a block that no inode on disk has. The images of `fsdata` do not fill
  the block, as the real one does not; with `Images = {<<0, 0>>}` `ReadsBack` fails in the
  initial state.
* `sysfile.c`: `sys_close()` passes an `int` where `argfd` stores 64 bits.

## 8. State of the plan

Done: the layers of section 2 and the proofs of section 4; every safety property of every
module but `FsData` and `Memory` is a theorem. Worth doing next:

1. The locks of buffers in `Files` or `Bcache`, for processes that hold two buffers (the one
   hazard without a property).
2. `Memory` with its loops as actions, one page at a time: it makes `MemoryInv` provable
   without induction over data, at the price of a larger state space for TLC.

-------------------------------- MODULE Proc --------------------------------
(***************************************************************************)
(* kern/proc.c: the process table, the per-core schedulers and the calls    *)
(* that move a process between its states (fork, exit, wait, sleep, wakeup, *)
(* yield), with the part of kern/trap.c and kern/timer.c that calls them.   *)
(*                                                                          *)
(* ptable.lock is held across a context switch: sched() switches to the     *)
(* core's scheduler with the lock held and the scheduler releases it;       *)
(* scheduler() switches to a process with the lock held and the process     *)
(* releases it where it continues.  An action is one step between two       *)
(* operations on ptable.lock or on a field that is not under it.            *)
(***************************************************************************)
EXTENDS Naturals

CONSTANTS NPROC,   \* size of the process table
          NCPU,    \* number of cores
          NIDLE,   \* idle processes made by main() (3 in the code)
          MaxPid,  \* bound: no fork once nextpid has passed it
          NULL,    \* a null pointer: no process, no core, no channel
          IoChan   \* the channel of a device: a buffer, the console, the log

ASSUME ProcAssumption ==
    /\ NPROC \in Nat /\ NCPU \in Nat /\ NIDLE \in Nat /\ MaxPid \in Nat
    /\ NCPU >= 2 /\ NIDLE >= 1 /\ NPROC > NIDLE
    /\ NULL \notin Nat /\ IoChan \notin Nat /\ IoChan # NULL

Slots == 1..NPROC
Cpus  == 0..(NCPU - 1)

VARIABLES state, pid, parent, chan, priority, allowed,  \* fields of struct proc
          kstack,   \* whether p->kstack is a page of its own
          kpc,      \* where the process continues: its saved context
          kid,      \* the local variable p of fork()
          cpuProc,  \* c->proc
          cpc,      \* what the core does: see CpuPlaces
          lock,     \* the core that holds ptable.lock
          nextpid

vars == <<state, pid, parent, chan, priority, allowed, kstack, kpc, kid,
          cpuProc, cpc, lock, nextpid>>

States == {"UNUSED", "EMBRYO", "SLEEPING", "RUNNABLE", "RUNNING", "ZOMBIE"}

(* A core spins for ptable.lock in scheduler(), looks for a process, runs   *)
(* one, is in sched() on that process's stack, is back in scheduler(), or   *)
(* has panicked.                                                            *)
CpuPlaces == {"acquire", "scan", "run", "swtch", "back", "panic"}

(* The continuations that hold ptable.lock, those that do not, and those of *)
(* a process that is not on a core.                                         *)
LockedPlaces   == {"forkret", "yield_cs", "yield_ret", "exit_cs", "wait_cs", "wait_ret",
                   "io_sleep", "io_ret", "boot_sleep", "boot_ret"}
UnlockedPlaces == {"user", "boot", "boot_cpus", "timer", "yield", "fork_copy", "fork_pub", "exit"}
OffPlaces      == {"forkret", "yield_ret", "wait_ret", "io_ret", "boot_ret"}

TypeOK ==
    /\ state \in [Slots -> States]
    /\ pid \in [Slots -> Nat]
    /\ parent \in [Slots -> Slots \cup {NULL}]
    /\ chan \in [Slots -> Slots \cup {IoChan, NULL}]
    /\ priority \in [Slots -> {0, 1}]
    /\ allowed \in [Slots -> SUBSET Cpus]
    /\ kstack \in [Slots -> BOOLEAN]
    /\ kpc \in [Slots -> LockedPlaces \cup UnlockedPlaces \cup {"zombie"}]
    /\ kid \in [Slots -> Slots \cup {NULL}]
    /\ cpuProc \in [Cpus -> Slots \cup {NULL}]
    /\ cpc \in [Cpus -> CpuPlaces]
    /\ lock \in Cpus \cup {NULL}
    /\ nextpid \in Nat

(* main(): user_init() makes process 1, then each user_idle_init() makes an *)
(* idle process, and both store the new process in initproc.                *)
Booted   == 1..(NIDLE + 1)
Idle     == 2..(NIDLE + 1)
initproc == NIDLE + 1

(* The state when main() calls scheduler() on every core. *)
Init ==
    /\ state = [p \in Slots |-> IF p \in Booted THEN "RUNNABLE" ELSE "UNUSED"]
    /\ pid = [p \in Slots |-> IF p \in Booted THEN p ELSE 0]
    /\ parent = [p \in Slots |-> NULL]
    /\ chan = [p \in Slots |-> NULL]
    /\ priority = [p \in Slots |-> 0]
    /\ allowed = [p \in Slots |-> Cpus]
    /\ kstack = [p \in Slots |-> p \in Booted]
    /\ kpc = [p \in Slots |-> "forkret"]
    /\ kid = [p \in Slots |-> NULL]
    /\ cpuProc = [c \in Cpus |-> NULL]
    /\ cpc = [c \in Cpus |-> "acquire"]
    /\ lock = NULL
    /\ nextpid = NIDLE + 2

-----------------------------------------------------------------------------
fieldVars == <<pid, parent, priority, allowed, kstack, kid, nextpid>>

First(S) == CHOOSE s \in S : \A t \in S : s <= t

(* Core c runs process p, which is at place l. *)
At(c, p, l) == cpc[c] = "run" /\ cpuProc[c] = p /\ kpc[p] = l

Continue(p, l) == kpc' = [kpc EXCEPT ![p] = l]

(* acquire(&ptable.lock) by a core that does not hold it. *)
Acquire(c) == lock = NULL /\ lock' = c

(* release(&ptable.lock): panics if this core is not holding the lock. *)
Release(c) ==
    /\ lock' = IF lock = c THEN NULL ELSE lock
    /\ cpc' = [cpc EXCEPT ![c] = IF lock = c THEN @ ELSE "panic"]

(* A whole critical section of ptable.lock in one step. *)
LockFree == lock = NULL

(* wakeup1(ch), for each channel of a set. *)
Woken(chans) == [q \in Slots |-> IF state[q] = "SLEEPING" /\ chan[q] \in chans
                                 THEN "RUNNABLE" ELSE state[q]]

(* Give up core c in state s: set p->state and call sched(); the process    *)
(* continues at place l.                                                    *)
GiveUp(c, p, l) ==
    /\ Continue(p, l)
    /\ cpc' = [cpc EXCEPT ![c] = "swtch"]

-----------------------------------------------------------------------------
(* scheduler() and sched() *)

SchedAcquire(c) ==
    /\ cpc[c] = "acquire"
    /\ Acquire(c)
    /\ cpc' = [cpc EXCEPT ![c] = "scan"]
    /\ UNCHANGED <<state, chan, kpc, cpuProc, fieldVars>>

(* The processes core c may run, and the one it picks: the first slot of    *)
(* priority 1, or else the first slot of priority 0.                        *)
Eligible(c) == {p \in Slots : state[p] = "RUNNABLE" /\ c \in allowed[p]}
Urgent(c)   == {p \in Eligible(c) : priority[p] = 1}
Pick(c)     == First(IF Urgent(c) # {} THEN Urgent(c) ELSE Eligible(c))

(* A scheduler that lets ptable.lock go before it switches. *)
DispatchUnlocked(c) ==
    /\ cpc[c] = "scan"
    /\ Eligible(c) # {}
    /\ cpuProc' = [cpuProc EXCEPT ![c] = Pick(c)]
    /\ cpc' = [cpc EXCEPT ![c] = "run"]
    /\ lock' = NULL
    /\ UNCHANGED <<state, chan, kpc, fieldVars>>

Dispatch(c) ==
    /\ cpc[c] = "scan"
    /\ Eligible(c) # {}
    /\ cpuProc' = [cpuProc EXCEPT ![c] = Pick(c)]
    /\ state' = [state EXCEPT ![Pick(c)] = "RUNNING"]
    /\ cpc' = [cpc EXCEPT ![c] = "run"]
    /\ UNCHANGED <<chan, kpc, lock, fieldVars>>

SchedNothing(c) ==
    /\ cpc[c] = "scan"
    /\ Eligible(c) = {}
    /\ lock' = NULL
    /\ cpc' = [cpc EXCEPT ![c] = "acquire"]
    /\ UNCHANGED <<state, chan, kpc, cpuProc, fieldVars>>

(* sched(): its two checks, then swtch() off the process's stack. *)
Sched(c) ==
    /\ cpc[c] = "swtch"
    /\ cpc' = [cpc EXCEPT ![c] = IF lock = c /\ state[cpuProc[c]] # "RUNNING"
                                 THEN "back" ELSE "panic"]
    /\ UNCHANGED <<state, chan, kpc, cpuProc, lock, fieldVars>>

(* scheduler() after swtch(): c->proc = NULL and release. *)
SchedBack(c) ==
    /\ cpc[c] = "back"
    /\ cpuProc' = [cpuProc EXCEPT ![c] = NULL]
    /\ lock' = NULL
    /\ cpc' = [cpc EXCEPT ![c] = "acquire"]
    /\ UNCHANGED <<state, chan, kpc, fieldVars>>

-----------------------------------------------------------------------------
(* A forkret() that does not release the lock scheduler() took. *)
ForkretKeeps(c, p) ==
    /\ At(c, p, "forkret")
    /\ Continue(p, IF pid[p] = 1 THEN "boot" ELSE "user")
    /\ UNCHANGED <<state, chan, cpuProc, cpc, lock, fieldVars>>

(* forkret(): every process starts here, with ptable.lock held.  Process 1  *)
(* goes on to initialise the file system.                                   *)
Forkret(c, p) ==
    /\ At(c, p, "forkret")
    /\ Release(c)
    /\ Continue(p, IF pid[p] = 1 THEN "boot" ELSE "user")
    /\ UNCHANGED <<state, chan, cpuProc, fieldVars>>

RaisePriority(c, p) ==
    /\ At(c, p, "boot")
    /\ LockFree
    /\ priority' = [priority EXCEPT ![p] = 1]
    /\ Continue(p, "boot_cpus")
    /\ UNCHANGED <<state, chan, cpuProc, cpc, lock, pid, parent, allowed, kstack, kid, nextpid>>

(* set_cpus_allowed(~0 ^ 1): not on core 0 any more. *)
SetCpusAllowed(c, p) ==
    /\ At(c, p, "boot_cpus")
    /\ LockFree
    /\ allowed' = [allowed EXCEPT ![p] = Cpus \ {0}]
    /\ Continue(p, "user")
    /\ UNCHANGED <<state, chan, cpuProc, cpc, lock, pid, parent, priority, kstack, kid, nextpid>>

-----------------------------------------------------------------------------
(* The timer interrupt, taken in user mode: drop_priority(), yield(). *)

Timer(c, p) ==
    /\ At(c, p, "user")
    /\ Continue(p, "timer")
    /\ UNCHANGED <<state, chan, cpuProc, cpc, lock, fieldVars>>

DropPriority(c, p) ==
    /\ At(c, p, "timer")
    /\ LockFree
    /\ priority' = [priority EXCEPT ![p] = IF @ > 0 THEN @ - 1 ELSE @]
    /\ Continue(p, "yield")
    /\ UNCHANGED <<state, chan, cpuProc, cpc, lock, pid, parent, allowed, kstack, kid, nextpid>>

YieldAcquire(c, p) ==
    /\ At(c, p, "yield")
    /\ Acquire(c)
    /\ Continue(p, "yield_cs")
    /\ UNCHANGED <<state, chan, cpuProc, cpc, fieldVars>>

YieldSched(c, p) ==
    /\ At(c, p, "yield_cs")
    /\ state' = [state EXCEPT ![p] = "RUNNABLE"]
    /\ GiveUp(c, p, "yield_ret")
    /\ UNCHANGED <<chan, cpuProc, lock, fieldVars>>

YieldReturn(c, p) ==
    /\ At(c, p, "yield_ret")
    /\ Release(c)
    /\ Continue(p, "user")
    /\ UNCHANGED <<state, chan, cpuProc, fieldVars>>

-----------------------------------------------------------------------------
(* fork().  Idle processes run an endless loop and make no system call. *)

Calls(c, p) == At(c, p, "user") /\ pid[p] \notin Idle

(* proc_alloc(): the first UNUSED slot becomes EMBRYO, under ptable.lock.   *)
(* With no such slot fork() returns -1 and changes nothing.                 *)
ForkAlloc(c, p) ==
    /\ Calls(c, p)
    /\ LockFree
    /\ nextpid <= MaxPid
    /\ \E s \in Slots : state[s] = "UNUSED"
    /\ LET q == First({s \in Slots : state[s] = "UNUSED"})
       IN  /\ state' = [state EXCEPT ![q] = "EMBRYO"]
           /\ kstack' = [kstack EXCEPT ![q] = TRUE]
           /\ pid' = [pid EXCEPT ![q] = nextpid]
           /\ priority' = [priority EXCEPT ![q] = 0]
           /\ allowed' = [allowed EXCEPT ![q] = Cpus]
           /\ kpc' = [kpc EXCEPT ![q] = "forkret", ![p] = "fork_copy"]
           /\ kid' = [kid EXCEPT ![p] = q]
    /\ nextpid' = nextpid + 1
    /\ UNCHANGED <<parent, chan, cpuProc, cpc, lock>>

(* copyuvm() fails: the slot is given back without ptable.lock. *)
ForkFail(c, p) ==
    /\ At(c, p, "fork_copy")
    /\ kstack' = [kstack EXCEPT ![kid[p]] = FALSE]
    /\ state' = [state EXCEPT ![kid[p]] = "UNUSED"]
    /\ kid' = [kid EXCEPT ![p] = NULL]
    /\ Continue(p, "user")
    /\ UNCHANGED <<pid, parent, chan, priority, allowed, cpuProc, cpc, lock, nextpid>>

(* copyuvm() succeeds: p->parent is stored, then files are duplicated. *)
ForkCopy(c, p) ==
    /\ At(c, p, "fork_copy")
    /\ parent' = [parent EXCEPT ![kid[p]] = p]
    /\ Continue(p, "fork_pub")
    /\ UNCHANGED <<state, pid, chan, priority, allowed, kstack, kid, cpuProc, cpc, lock, nextpid>>

(* p->state = RUNNABLE, also without ptable.lock. *)
ForkPublish(c, p) ==
    /\ At(c, p, "fork_pub")
    /\ state' = [state EXCEPT ![kid[p]] = "RUNNABLE"]
    /\ kid' = [kid EXCEPT ![p] = NULL]
    /\ Continue(p, "user")
    /\ UNCHANGED <<pid, parent, chan, priority, allowed, kstack, cpuProc, cpc, lock, nextpid>>

-----------------------------------------------------------------------------
(* exit() *)

(* "init exiting": initproc may not exit.  Closing files and dropping cwd   *)
(* may sleep, in begin_op() or for a lock: the process table goes through   *)
(* the states of a system call that sleeps (SleepAcquire to its return) and *)
(* of an exit() after it.                                                   *)
ExitCall(c, p) ==
    /\ Calls(c, p)
    /\ IF p = initproc
       THEN cpc' = [cpc EXCEPT ![c] = "panic"] /\ UNCHANGED kpc
       ELSE Continue(p, "exit") /\ UNCHANGED cpc
    /\ UNCHANGED <<state, chan, cpuProc, lock, fieldVars>>

ExitAcquire(c, p) ==
    /\ At(c, p, "exit")
    /\ Acquire(c)
    /\ Continue(p, "exit_cs")
    /\ UNCHANGED <<state, chan, cpuProc, cpc, fieldVars>>

Children(p) == {q \in Slots : parent[q] = p}

(* An exit() that wakes nobody. *)
ExitWakesNobody(p) == {}

(* The channels exit() wakes: the parent, and initproc if it inherits a     *)
(* zombie.                                                                  *)
ExitWakes(p) ==
    {parent[p]} \cup {ch \in {initproc} : \E q \in Children(p) : state[q] = "ZOMBIE"}

(* An exit() that keeps its children. *)
ExitKeepsChildren(c, p) ==
    /\ At(c, p, "exit_cs")
    /\ state' = [Woken(ExitWakes(p)) EXCEPT ![p] = "ZOMBIE"]
    /\ GiveUp(c, p, "zombie")
    /\ UNCHANGED <<pid, parent, chan, priority, allowed, kstack, kid, cpuProc, lock, nextpid>>

(* An exit() that lets ptable.lock go while it is still on its stack. *)
ExitUnlocks(c, p) ==
    /\ At(c, p, "exit_cs")
    /\ state' = [Woken(ExitWakes(p)) EXCEPT ![p] = "ZOMBIE"]
    /\ parent' = [q \in Slots |-> IF q \in Children(p) THEN initproc ELSE parent[q]]
    /\ GiveUp(c, p, "zombie")
    /\ lock' = NULL
    /\ UNCHANGED <<pid, chan, priority, allowed, kstack, kid, cpuProc, nextpid>>

(* Wake the parent, give the children to initproc, become ZOMBIE, sched().  *)
ExitSched(c, p) ==
    /\ At(c, p, "exit_cs")
    /\ state' = [Woken(ExitWakes(p)) EXCEPT ![p] = "ZOMBIE"]
    /\ parent' = [q \in Slots |-> IF q \in Children(p) THEN initproc ELSE parent[q]]
    /\ GiveUp(c, p, "zombie")
    /\ UNCHANGED <<pid, chan, priority, allowed, kstack, kid, cpuProc, lock, nextpid>>

-----------------------------------------------------------------------------
(* wait() *)

WaitAcquire(c, p) ==
    /\ Calls(c, p)
    /\ Acquire(c)
    /\ Continue(p, "wait_cs")
    /\ UNCHANGED <<state, chan, cpuProc, cpc, fieldVars>>

Zombies(p) == {q \in Children(p) : state[q] = "ZOMBIE"}

(* Reap the first zombie child: its slot, stack and page table are freed. *)
WaitReap(c, p) ==
    /\ At(c, p, "wait_cs")
    /\ Zombies(p) # {}
    /\ LET q == First(Zombies(p))
       IN  /\ state' = [state EXCEPT ![q] = "UNUSED"]
           /\ pid' = [pid EXCEPT ![q] = 0]
           /\ parent' = [parent EXCEPT ![q] = NULL]
           /\ kstack' = [kstack EXCEPT ![q] = FALSE]
    /\ Release(c)
    /\ Continue(p, "user")
    /\ UNCHANGED <<chan, priority, allowed, kid, cpuProc, nextpid>>

(* No children: return -1. *)
WaitNone(c, p) ==
    /\ At(c, p, "wait_cs")
    /\ Children(p) = {}
    /\ Release(c)
    /\ Continue(p, "user")
    /\ UNCHANGED <<state, chan, cpuProc, fieldVars>>

(* Children, none of them a zombie: sleep(thisproc(), &ptable.lock). *)
WaitSleep(c, p) ==
    /\ At(c, p, "wait_cs")
    /\ Children(p) # {} /\ Zombies(p) = {}
    /\ chan' = [chan EXCEPT ![p] = p]
    /\ state' = [state EXCEPT ![p] = "SLEEPING"]
    /\ GiveUp(c, p, "wait_ret")
    /\ UNCHANGED <<cpuProc, lock, fieldVars>>

(* Woken and dispatched: p->chan = 0, and round the loop, lock still held. *)
WaitReturn(c, p) ==
    /\ At(c, p, "wait_ret")
    /\ chan' = [chan EXCEPT ![p] = NULL]
    /\ Continue(p, "wait_cs")
    /\ UNCHANGED <<state, cpuProc, cpc, lock, fieldVars>>

-----------------------------------------------------------------------------
(* sleep(chan, lk) on a device, lk not ptable.lock, from a system call or   *)
(* from the boot work of process 1; and the wakeup() of an interrupt, which *)
(* is delivered to core 0 only and only while it runs user code.            *)

SleepAcquire(c, p) ==
    /\ \/ Calls(c, p) /\ Continue(p, "io_sleep")
       \/ At(c, p, "boot") /\ Continue(p, "boot_sleep")
    /\ Acquire(c)
    /\ UNCHANGED <<state, chan, cpuProc, cpc, fieldVars>>

SleepSched(c, p) ==
    /\ \/ At(c, p, "io_sleep") /\ GiveUp(c, p, "io_ret")
       \/ At(c, p, "boot_sleep") /\ GiveUp(c, p, "boot_ret")
    /\ chan' = [chan EXCEPT ![p] = IoChan]
    /\ state' = [state EXCEPT ![p] = "SLEEPING"]
    /\ UNCHANGED <<cpuProc, lock, fieldVars>>

SleepReturn(c, p) ==
    /\ \/ At(c, p, "io_ret") /\ Continue(p, "user")
       \/ At(c, p, "boot_ret") /\ Continue(p, "boot")
    /\ chan' = [chan EXCEPT ![p] = NULL]
    /\ Release(c)
    /\ UNCHANGED <<state, cpuProc, fieldVars>>

DeviceInterrupt(p) ==
    /\ At(0, p, "user")
    /\ LockFree
    /\ \E q \in Slots : state[q] = "SLEEPING" /\ chan[q] = IoChan
    /\ state' = Woken({IoChan})
    /\ UNCHANGED <<chan, kpc, cpuProc, cpc, lock, fieldVars>>

-----------------------------------------------------------------------------
SchedulerStep(c) == Dispatch(c) \/ SchedNothing(c) \/ Sched(c) \/ SchedBack(c)

(* Steps a process must take once it is there, and those that wait for      *)
(* ptable.lock.                                                             *)
KernelStep(c, p) ==
    \/ Forkret(c, p) \/ YieldSched(c, p) \/ YieldReturn(c, p)
    \/ ForkFail(c, p) \/ ForkCopy(c, p) \/ ForkPublish(c, p)
    \/ ExitSched(c, p) \/ WaitReap(c, p) \/ WaitNone(c, p) \/ WaitSleep(c, p)
    \/ WaitReturn(c, p) \/ SleepSched(c, p) \/ SleepReturn(c, p)

SpinStep(c, p) ==
    \/ RaisePriority(c, p) \/ SetCpusAllowed(c, p) \/ DropPriority(c, p)
    \/ YieldAcquire(c, p) \/ ExitAcquire(c, p)

(* What user code does: system calls, if it likes. *)
SystemCall(c, p) ==
    \/ ForkAlloc(c, p) \/ ExitCall(c, p) \/ WaitAcquire(c, p) \/ SleepAcquire(c, p)

Next ==
    \/ \E c \in Cpus :
          \/ SchedAcquire(c) \/ SchedulerStep(c)
          \/ \E p \in Slots :
                \/ KernelStep(c, p) \/ SpinStep(c, p) \/ SystemCall(c, p) \/ Timer(c, p)
    \/ \E p \in Slots : DeviceInterrupt(p)

(* Kernel code is not preempted; the timer of each core keeps firing, and a *)
(* device keeps its interrupt raised, until user code on the core takes it; *)
(* and a core that spins for ptable.lock gets it if the lock is free again  *)
(* and again.                                                               *)
Fairness ==
    /\ \A c \in Cpus :
          /\ SF_vars(\/ SchedAcquire(c) \/ SchedulerStep(c)
                     \/ \E p \in Slots : KernelStep(c, p) \/ SpinStep(c, p))
          /\ SF_vars(\E p \in Slots : Timer(c, p))
    /\ SF_vars(\E p \in Slots : DeviceInterrupt(p))

Spec == Init /\ [][Next]_vars
FairSpec == Spec /\ Fairness

-----------------------------------------------------------------------------
(* Neither release(&ptable.lock) nor sched() nor exit() ever panics: the    *)
(* lock is in the hands of the right core on both sides of every context    *)
(* switch.                                                                  *)
NoPanic == \A c \in Cpus : cpc[c] # "panic"

(* No process is current on two cores. *)
OneCpuPerProcess ==
    \A c, d \in Cpus : cpuProc[c] # NULL /\ cpuProc[c] = cpuProc[d] => c = d

(* A core never executes on a kernel stack that wait() or a failed fork()   *)
(* gave back: a process is not reaped before its core has left its stack.   *)
StackInUse ==
    \A c \in Cpus : cpc[c] \in {"run", "swtch"} => kstack[cpuProc[c]]

(* Whenever ptable.lock is free, the RUNNING processes are those on a core. *)
RunningIsOnCpu ==
    lock = NULL => \A p \in Slots :
        state[p] = "RUNNING" <=> \E c \in Cpus : cpuProc[c] = p

(* No child's exit is missed: whenever ptable.lock is free, a parent that   *)
(* sleeps in wait() has children and none of them is a zombie.              *)
NoMissedExit ==
    lock = NULL => \A p \in Slots :
        state[p] = "SLEEPING" /\ chan[p] = p => Children(p) # {} /\ Zombies(p) = {}

(* Whenever ptable.lock is free, a process other than those made at boot    *)
(* has a parent that is neither a zombie nor a free slot, so that somebody  *)
(* can reap it.                                                             *)
ParentIsAlive ==
    lock = NULL => \A q \in Slots :
        state[q] \in {"SLEEPING", "RUNNABLE", "RUNNING", "ZOMBIE"} /\ pid[q] > NIDLE + 1 =>
            parent[q] # NULL /\ state[parent[q]] \in {"SLEEPING", "RUNNABLE", "RUNNING"}

(* Core c is at a place where it holds ptable.lock. *)
HoldsLock(c) ==
    \/ cpc[c] \in {"scan", "swtch", "back"}
    \/ cpc[c] = "run" /\ kpc[cpuProc[c]] \in LockedPlaces

OnCpu(p) == \E c \in Cpus : cpuProc[c] = p

(* Who holds the lock is determined by where every core is. *)
LockPlaces == \A c \in Cpus : lock = c <=> HoldsLock(c)

(* A core has a current process from the switch to it until it is back in   *)
(* scheduler(), and that process is RUNNING until it calls sched().         *)
CurrentProcess ==
    \A c \in Cpus :
       /\ cpuProc[c] = NULL <=> cpc[c] \in {"acquire", "scan"}
       /\ cpc[c] = "run" => state[cpuProc[c]] = "RUNNING" /\ kpc[cpuProc[c]] # "zombie"
       /\ cpc[c] \in {"swtch", "back"} =>
             state[cpuProc[c]] \in {"RUNNABLE", "SLEEPING", "ZOMBIE"}

(* A process that is not on a core is where sched() or proc_alloc() left it. *)
SavedContexts ==
    \A p \in Slots :
       /\ state[p] = "RUNNING" => OnCpu(p)
       /\ state[p] \in {"RUNNABLE", "SLEEPING"} => kpc[p] \in OffPlaces
       /\ state[p] = "ZOMBIE" => kpc[p] = "zombie"
       /\ state[p] = "EMBRYO" => kpc[p] = "forkret" /\ ~OnCpu(p)
       /\ state[p] = "UNUSED" => ~OnCpu(p)
       /\ kstack[p] <=> state[p] # "UNUSED"

(* An EMBRYO that a fork() knows belongs to that fork() alone. *)
Embryos ==
    /\ \A p \in Slots : kid[p] # NULL <=>
          state[p] = "RUNNING" /\ kpc[p] \in {"fork_copy", "fork_pub"}
    /\ \A p \in Slots : kid[p] # NULL => state[kid[p]] = "EMBRYO"
    /\ \A p, q \in Slots : kid[p] # NULL /\ kid[p] = kid[q] => p = q

(* The process that initproc names is an idle one, which never exits. *)
InitprocStays ==
    /\ pid[initproc] \in Idle
    /\ state[initproc] \in {"SLEEPING", "RUNNABLE", "RUNNING"}
    /\ kpc[initproc] \notin {"exit", "exit_cs"}

(* What the lock and the context switches rest on. *)
SwitchInv ==
    /\ TypeOK
    /\ NoPanic
    /\ OneCpuPerProcess
    /\ LockPlaces
    /\ CurrentProcess
    /\ SavedContexts
    /\ Embryos
    /\ InitprocStays

(* A free slot and initproc have no parent, nobody is its own, and an EMBRYO *)
(* has one from ForkCopy on.                                                *)
ParentLinks ==
    /\ parent[initproc] = NULL /\ \A q \in Slots : parent[q] # q
    /\ \A q \in Slots : state[q] = "UNUSED" => parent[q] = NULL
    /\ \A p \in Slots : kid[p] # NULL =>
          parent[kid[p]] = IF kpc[p] = "fork_pub" THEN p ELSE NULL

(* NoMissedExit and ParentIsAlive, whoever has the lock. *)
WaitersHaveWork ==
    \A p \in Slots : state[p] = "SLEEPING" /\ chan[p] = p => Children(p) # {} /\ Zombies(p) = {}

NoOrphans ==
    \A q \in Slots :
        state[q] \in {"SLEEPING", "RUNNABLE", "RUNNING", "ZOMBIE"} /\ pid[q] > NIDLE + 1 =>
            parent[q] # NULL /\ state[parent[q]] \in {"SLEEPING", "RUNNABLE", "RUNNING"}

FamilyInv == ParentLinks /\ WaitersHaveWork /\ NoOrphans

(* The inductive invariant behind the safety properties. *)
ProcInv == SwitchInv /\ FamilyInv

(* A core with nothing to run does not ignore the processes it may run:     *)
(* ptable.lock never gets stuck, in whichever core's hands a context switch *)
(* leaves it, and the scan finds one of them or they are gone.              *)
IdleCoreTakesWork ==
    \A c \in Cpus :
        (cpuProc[c] = NULL /\ Eligible(c) # {}) ~> (cpuProc[c] # NULL \/ Eligible(c) = {})

(* "Pass abandoned children to init": a process whose parent, other than    *)
(* init itself, exits gets process 1 as its parent, the one that runs       *)
(* user/src/init and calls wait() for ever.                                 *)
AbandonedGoToInit ==
    [][\A q \in Slots :
          /\ parent[q] # NULL /\ pid[parent[q]] # 1
          /\ parent'[q] \notin {NULL, parent[q]}
          => pid[parent'[q]] = 1]_vars
=============================================================================

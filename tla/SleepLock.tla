----------------------------- MODULE SleepLock -----------------------------
(***************************************************************************)
(* kern/sleeplock.c over sleep() and wakeup() of kern/proc.c.               *)
(*                                                                          *)
(* A sleeplock is a flag protected by a spinlock, lk->lk.  A process that   *)
(* finds the flag set gives up its core in sleep(), which must not lose a   *)
(* wakeup() that another core sends between the test of the flag and the    *)
(* moment the process is SLEEPING: sleep() takes ptable.lock before it      *)
(* lets lk->lk go.  Spinlocks are atomic here (module Spinlock shows they   *)
(* are locks); one action is one step between two lock operations.          *)
(***************************************************************************)
EXTENDS FiniteSets, Naturals

CONSTANTS Procs,  \* the processes that use the lock
          NCPU,   \* the number of cores they run on
          NULL    \* no process: a free spinlock, lk->pid = 0

ASSUME SleepLockAssumption == NULL \notin Procs /\ NCPU \in Nat \ {0}

VARIABLES locked,  \* lk->locked, the sleeplock itself
          pid,     \* lk->pid, the process that holds the sleeplock
          lk,      \* the process in a critical section of lk->lk, or NULL
          ptable,  \* the process that holds ptable.lock, or NULL
          state,   \* p->state
          chan,    \* p->chan
          pc

vars == <<locked, pid, lk, ptable, state, chan, pc>>

(* The places of a process.  resume, io_on and sleep_on are the points at   *)
(* which it continues, ptable.lock in hand, when the scheduler picks it.    *)
Labels == {"resume", "user", "acq_lk", "test", "taken", "sleep_pt", "sleep_unlk",
           "sleep_off", "sleep_on", "critical", "io_on", "rel_lk", "rel_clear",
           "wake", "rel_unlk", "panic"}

TypeOK ==
    /\ locked \in BOOLEAN
    /\ pid \in Procs \cup {NULL}
    /\ lk \in Procs \cup {NULL}
    /\ ptable \in Procs \cup {NULL}
    /\ state \in [Procs -> {"RUNNABLE", "RUNNING", "SLEEPING"}]
    /\ chan \in [Procs -> {"none", "lock", "io"}]
    /\ pc \in [Procs -> Labels]

Init ==
    /\ locked = FALSE
    /\ pid = NULL
    /\ lk = NULL
    /\ ptable = NULL
    /\ state = [p \in Procs |-> "RUNNABLE"]
    /\ chan = [p \in Procs |-> "none"]
    /\ pc = [p \in Procs |-> "resume"]

Goto(p, from, to) ==
    /\ pc[p] = from
    /\ state[p] = "RUNNING"
    /\ pc' = [pc EXCEPT ![p] = to]

lockVars == <<locked, pid, lk>>
procVars == <<ptable, state, chan>>

-----------------------------------------------------------------------------
(* The process table as far as a sleeplock depends on it *)

(* scheduler(): a core with nothing to run takes ptable.lock and switches   *)
(* to a RUNNABLE process, which inherits the lock.                          *)
Dispatch(p) ==
    /\ ptable = NULL
    /\ state[p] = "RUNNABLE"
    /\ Cardinality({q \in Procs : state[q] = "RUNNING"}) < NCPU
    /\ ptable' = p
    /\ state' = [state EXCEPT ![p] = "RUNNING"]
    /\ UNCHANGED <<locked, pid, lk, chan, pc>>

(* forkret(), or yield() back from sched(): release(&ptable.lock). *)
Resume(p) ==
    /\ Goto(p, "resume", "user")
    /\ ptable' = NULL
    /\ UNCHANGED <<locked, pid, lk, state, chan>>

(* A timer interrupt in user mode: yield(), then the scheduler releases     *)
(* ptable.lock on this core.                                                *)
Yield(p) ==
    /\ ptable = NULL
    /\ Goto(p, "user", "resume")
    /\ state' = [state EXCEPT ![p] = "RUNNABLE"]
    /\ UNCHANGED <<locked, pid, lk, ptable, chan>>

(* The holder waits for the disk inside its critical section (sdrw under a  *)
(* buffer's lock): it sleeps on another channel and keeps the sleeplock.    *)
SleepIo(p) ==
    /\ ptable = NULL
    /\ Goto(p, "critical", "io_on")
    /\ chan' = [chan EXCEPT ![p] = "io"]
    /\ state' = [state EXCEPT ![p] = "SLEEPING"]
    /\ UNCHANGED <<locked, pid, lk, ptable>>

(* wakeup1(ch) *)
Woken(ch) == [q \in Procs |-> IF state[q] = "SLEEPING" /\ chan[q] = ch
                              THEN "RUNNABLE" ELSE state[q]]

(* The interrupt that ends the transfer: wakeup(b). *)
IoInterrupt ==
    /\ ptable = NULL
    /\ \E p \in Procs : state[p] = "SLEEPING" /\ chan[p] = "io"
    /\ state' = Woken("io")
    /\ UNCHANGED <<locked, pid, lk, ptable, chan, pc>>

ResumeIo(p) ==
    /\ Goto(p, "io_on", "critical")
    /\ chan' = [chan EXCEPT ![p] = "none"]
    /\ ptable' = NULL
    /\ UNCHANGED <<locked, pid, lk, state>>

-----------------------------------------------------------------------------
(* acquiresleep(lk) *)

CallAcquireSleep(p) ==
    /\ Goto(p, "user", "acq_lk")
    /\ UNCHANGED <<lockVars, procVars>>

(* acquire(&lk->lk), at the start and at the end of sleep(). *)
AcquireLk(p) ==
    /\ lk = NULL
    /\ Goto(p, "acq_lk", "test")
    /\ lk' = p
    /\ UNCHANGED <<locked, pid, procVars>>

(* while (lk->locked): sleep, or take the sleeplock. *)
TestLocked(p) ==
    /\ locked
    /\ Goto(p, "test", "sleep_pt")
    /\ UNCHANGED <<lockVars, procVars>>

(* An acquiresleep() that takes the lock without testing the flag again. *)
TakeLockUntested(p) ==
    /\ Goto(p, "test", "taken")
    /\ locked' = TRUE
    /\ pid' = p
    /\ UNCHANGED <<lk, procVars>>

TakeLock(p) ==
    /\ ~locked
    /\ Goto(p, "test", "taken")
    /\ locked' = TRUE
    /\ pid' = p
    /\ UNCHANGED <<lk, procVars>>

ReleaseLkTaken(p) ==
    /\ Goto(p, "taken", "critical")
    /\ lk' = NULL
    /\ UNCHANGED <<locked, pid, procVars>>

(* A sleep() that lets lk->lk go before it takes ptable.lock. *)
SleepReleasesFirst(p) ==
    /\ Goto(p, "sleep_pt", "sleep_off")
    /\ lk' = NULL
    /\ UNCHANGED <<locked, pid, procVars>>

(* sleep(lk, &lk->lk): acquire(&ptable.lock), release(&lk->lk), *)
SleepAcquirePtable(p) ==
    /\ ptable = NULL
    /\ Goto(p, "sleep_pt", "sleep_unlk")
    /\ ptable' = p
    /\ UNCHANGED <<lockVars, state, chan>>

SleepReleaseLk(p) ==
    /\ Goto(p, "sleep_unlk", "sleep_off")
    /\ lk' = NULL
    /\ UNCHANGED <<locked, pid, procVars>>

(* record the channel, become SLEEPING and switch to the scheduler, which   *)
(* releases ptable.lock.                                                    *)
SleepOff(p) ==
    /\ Goto(p, "sleep_off", "sleep_on")
    /\ chan' = [chan EXCEPT ![p] = "lock"]
    /\ state' = [state EXCEPT ![p] = "SLEEPING"]
    /\ ptable' = NULL
    /\ UNCHANGED lockVars

(* Dispatched again: p->chan = 0, release(&ptable.lock), acquire(lk). *)
SleepReturn(p) ==
    /\ Goto(p, "sleep_on", "acq_lk")
    /\ chan' = [chan EXCEPT ![p] = "none"]
    /\ ptable' = NULL
    /\ UNCHANGED <<lockVars, state>>

-----------------------------------------------------------------------------
(* holdingsleep(lk), which every user calls before releasesleep() and which *)
(* must answer yes there (brelse, bwrite and iunlock panic otherwise).      *)
HoldingSleep(p) ==
    /\ lk = NULL
    /\ Goto(p, "critical", IF locked /\ pid = p THEN "rel_lk" ELSE "panic")
    /\ UNCHANGED <<lockVars, procVars>>

(* releasesleep(lk) *)
AcquireLkRelease(p) ==
    /\ lk = NULL
    /\ Goto(p, "rel_lk", "rel_clear")
    /\ lk' = p
    /\ UNCHANGED <<locked, pid, procVars>>

ClearLock(p) ==
    /\ Goto(p, "rel_clear", "wake")
    /\ locked' = FALSE
    /\ pid' = NULL
    /\ UNCHANGED <<lk, procVars>>

(* A releasesleep() that does not call wakeup(). *)
WakeupForgotten(p) ==
    /\ ptable = NULL
    /\ Goto(p, "wake", "rel_unlk")
    /\ UNCHANGED <<lockVars, procVars>>

(* wakeup(lk): wakeup1 under ptable.lock. *)
Wakeup(p) ==
    /\ ptable = NULL
    /\ Goto(p, "wake", "rel_unlk")
    /\ state' = Woken("lock")
    /\ UNCHANGED <<lockVars, ptable, chan>>

ReleaseLk(p) ==
    /\ Goto(p, "rel_unlk", "user")
    /\ lk' = NULL
    /\ UNCHANGED <<locked, pid, procVars>>

-----------------------------------------------------------------------------
(* The steps that wait for a spinlock, and the others.  SleepIo is not one  *)
(* a process must take.                                                     *)
SpinStep(p) ==
    \/ AcquireLk(p) \/ SleepAcquirePtable(p) \/ HoldingSleep(p)
    \/ AcquireLkRelease(p) \/ Wakeup(p)

LocalStep(p) ==
    \/ Resume(p) \/ ResumeIo(p) \/ TestLocked(p) \/ TakeLock(p) \/ ReleaseLkTaken(p)
    \/ SleepReleaseLk(p) \/ SleepOff(p) \/ SleepReturn(p) \/ ClearLock(p) \/ ReleaseLk(p)

Next ==
    \/ \E p \in Procs :
          \/ Dispatch(p) \/ Yield(p) \/ SleepIo(p) \/ CallAcquireSleep(p)
          \/ SpinStep(p) \/ LocalStep(p)
    \/ IoInterrupt

(* A process in the kernel keeps its core and takes every step it can; one  *)
(* that spins on a lock gets it if the lock is free again and again; disk   *)
(* transfers end; and, with a core for every process, the scheduler of an   *)
(* idle core finds every RUNNABLE process.                                  *)
Fairness ==
    /\ \A p \in Procs : SF_vars(SpinStep(p)) /\ WF_vars(LocalStep(p)) /\ SF_vars(Dispatch(p))
    /\ SF_vars(IoInterrupt)

Spec == Init /\ [][Next]_vars
FairSpec == Spec /\ Fairness

-----------------------------------------------------------------------------
(* The places at which a process has the sleeplock. *)
Holding == {"taken", "critical", "io_on", "rel_lk", "rel_clear"}

(* A process asleep on the lock has a wakeup coming: the sleeplock is held, *)
(* or the process that freed it has not called wakeup() yet.  This is what  *)
(* the order of the two locks in sleep() is for.                            *)
NoLostWakeup ==
    \A p \in Procs : state[p] = "SLEEPING" /\ chan[p] = "lock" =>
        locked \/ \E q \in Procs : pc[q] = "wake"

(* At most one process is inside the sleeplock, and lk->pid names it, so    *)
(* that holdingsleep() answers yes to it and to nobody else.                *)
PidIsHolder ==
    \A p \in Procs : pc[p] \in Holding <=> locked /\ pid = p

(* brelse(), bwrite() and iunlock() never panic on a lock their caller took. *)
NoPanic == \A p \in Procs : pc[p] # "panic"

(* The places in a critical section of lk->lk, in one of ptable.lock, and   *)
(* those where sched() leaves a process.                                    *)
LkPlaces == {"test", "taken", "sleep_pt", "sleep_unlk", "rel_clear", "wake", "rel_unlk"}
PtablePlaces == {"sleep_unlk", "sleep_off"}
SwitchPlaces == {"resume", "io_on", "sleep_on"}

(* The inductive invariant: each spinlock is held exactly by the process at *)
(* one of its places, processes are off their core only at the points where *)
(* sched() left them, and a process on its way to sleep has a wakeup coming.*)
SleepInv ==
    /\ TypeOK
    /\ PidIsHolder
    /\ NoPanic
    /\ NoLostWakeup
    /\ locked => pid # NULL
    /\ \A p \in Procs : pc[p] \in LkPlaces <=> lk = p
    /\ \A p \in Procs :
          ptable = p <=> \/ pc[p] \in PtablePlaces
                         \/ pc[p] \in SwitchPlaces /\ state[p] = "RUNNING"
    /\ \A p \in Procs : state[p] # "RUNNING" => pc[p] \in SwitchPlaces
    /\ \A p \in Procs : chan[p] = "lock" <=> pc[p] = "sleep_on"
    /\ \A p \in Procs : chan[p] = "io" <=> pc[p] = "io_on"
    /\ \A p \in Procs : pc[p] \in {"sleep_pt", "sleep_unlk"} => locked
    /\ \A p \in Procs : pc[p] = "sleep_off" =>
           locked \/ \E q \in Procs : pc[q] = "wake"

Lock == INSTANCE Mutex WITH Contenders <- Procs, Nobody <- NULL,
                            holder <- IF locked THEN pid ELSE NULL

(* The sleeplock is a lock. *)
ImplementsMutex == Lock!Spec

(* A process that went to sleep on the lock is woken: nothing between the   *)
(* test of the flag and sched() loses the wakeup, and the holder, even when *)
(* it sleeps on the disk meanwhile, comes back and releases.                *)
SleeperIsWoken ==
    \A p \in Procs : (state[p] = "SLEEPING" /\ chan[p] = "lock") ~> state[p] # "SLEEPING"
=============================================================================

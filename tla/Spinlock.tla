------------------------------ MODULE Spinlock ------------------------------
(***************************************************************************)
(* kern/spinlock.c, one action per access to shared memory.                 *)
(*                                                                          *)
(* struct spinlock has two shared words: locked, set by an atomic           *)
(* test-and-set and cleared by an atomic store, and cpu, a plain word that  *)
(* records the owner.  holding() reads the two without any protection, so   *)
(* another CPU may acquire or release the lock between its two reads; the   *)
(* panics of acquire() and release() hang on its answer.                    *)
(***************************************************************************)
CONSTANTS Cpus,   \* the cores that share the lock (NCPU of them)
          NULL    \* the value of lk->cpu when no core owns the lock

ASSUME NullAssumption == NULL \notin Cpus

VARIABLES locked,  \* lk->locked
          cpu,     \* lk->cpu
          pc       \* where each core is in acquire(), release() or outside

vars == <<locked, cpu, pc>>

(* The places of a core: outside; in acquire(), the two reads of holding(), *)
(* the read and the test-and-set of the spin loop and the store of lk->cpu; *)
(* in the critical section; in release(), the two reads of holding() and    *)
(* the two stores; halted in panic().                                       *)
Labels == {"outside", "acq_read_locked", "acq_read_cpu", "spin", "tas", "set_cpu",
           "critical", "rel_read_locked", "rel_read_cpu", "clear_cpu",
           "clear_locked", "panic"}

TypeOK ==
    /\ locked \in BOOLEAN
    /\ cpu \in Cpus \cup {NULL}
    /\ pc \in [Cpus -> Labels]

(* initlock(lk, name): called once, before any other core uses the lock. *)
Init ==
    /\ locked = FALSE
    /\ cpu = NULL
    /\ pc = [c \in Cpus |-> "outside"]

Goto(c, from, to) ==
    /\ pc[c] = from
    /\ pc' = [pc EXCEPT ![c] = to]

-----------------------------------------------------------------------------
(* acquire(lk) *)

CallAcquire(c) ==
    /\ Goto(c, "outside", "acq_read_locked")
    /\ UNCHANGED <<locked, cpu>>

(* holding(), first operand of &&: a free lock is not held by this core. *)
AcqReadLocked(c) ==
    /\ Goto(c, "acq_read_locked", IF locked THEN "acq_read_cpu" ELSE "spin")
    /\ UNCHANGED <<locked, cpu>>

(* holding(), second operand: if it is true acquire() panics. *)
AcqReadCpu(c) ==
    /\ Goto(c, "acq_read_cpu", IF cpu = c THEN "panic" ELSE "spin")
    /\ UNCHANGED <<locked, cpu>>

(* The read of lk->locked in the loop's condition: spin while it is set. *)
Spin(c) ==
    /\ ~locked
    /\ Goto(c, "spin", "tas")
    /\ UNCHANGED <<locked, cpu>>

(* A test and a set in two accesses: the core does not see a lock taken in  *)
(* between.                                                                 *)
TestAndSetTorn(c) ==
    /\ Goto(c, "tas", "set_cpu")
    /\ locked' = TRUE
    /\ UNCHANGED cpu

(* __atomic_test_and_set: sets the word in any case, and goes round the     *)
(* loop again when it was already set.                                      *)
TestAndSet(c) ==
    /\ Goto(c, "tas", IF locked THEN "spin" ELSE "set_cpu")
    /\ locked' = TRUE
    /\ UNCHANGED cpu

SetCpu(c) ==
    /\ Goto(c, "set_cpu", "critical")
    /\ cpu' = c
    /\ UNCHANGED locked

-----------------------------------------------------------------------------
(* release(lk) *)

CallRelease(c) ==
    /\ Goto(c, "critical", "rel_read_locked")
    /\ UNCHANGED <<locked, cpu>>

RelReadLocked(c) ==
    /\ Goto(c, "rel_read_locked", IF locked THEN "rel_read_cpu" ELSE "panic")
    /\ UNCHANGED <<locked, cpu>>

RelReadCpu(c) ==
    /\ Goto(c, "rel_read_cpu", IF cpu = c THEN "clear_cpu" ELSE "panic")
    /\ UNCHANGED <<locked, cpu>>

(* A release() that leaves lk->cpu naming the core that let the lock go. *)
ClearCpuForgotten(c) ==
    /\ Goto(c, "clear_cpu", "clear_locked")
    /\ UNCHANGED <<locked, cpu>>

ClearCpu(c) ==
    /\ Goto(c, "clear_cpu", "clear_locked")
    /\ cpu' = NULL
    /\ UNCHANGED locked

(* A release() that never stores to lk->locked. *)
ClearLockedForgotten(c) ==
    /\ Goto(c, "clear_locked", "outside")
    /\ UNCHANGED <<locked, cpu>>

ClearLocked(c) ==
    /\ Goto(c, "clear_locked", "outside")
    /\ locked' = FALSE
    /\ UNCHANGED cpu

-----------------------------------------------------------------------------
Step(c) ==
    \/ AcqReadLocked(c) \/ AcqReadCpu(c) \/ Spin(c) \/ TestAndSet(c) \/ SetCpu(c)
    \/ CallRelease(c) \/ RelReadLocked(c) \/ RelReadCpu(c)
    \/ ClearCpu(c) \/ ClearLocked(c)

Next == \E c \in Cpus : CallAcquire(c) \/ Step(c)

(* A core that runs the kernel keeps running (interrupts are masked there), *)
(* so each one takes the steps it can take; whether it asks for the lock    *)
(* again is its own choice.                                                 *)
Fairness == \A c \in Cpus : WF_vars(Step(c))

Spec == Init /\ [][Next]_vars
FairSpec == Spec /\ Fairness

-----------------------------------------------------------------------------
(* The places at which a core owns the lock: from the test-and-set that     *)
(* found it free to the store that frees it.                                *)
Owning == {"set_cpu", "critical", "rel_read_locked", "rel_read_cpu",
           "clear_cpu", "clear_locked"}

Wanting == {"acq_read_locked", "acq_read_cpu", "spin", "tas"}

(* No core reaches a panic of acquire() or release(): although holding()    *)
(* reads locked and cpu one after the other and unprotected, it never tells *)
(* a core outside its critical section that it holds the lock, nor one      *)
(* inside that it does not.                                                 *)
NoPanic == \A c \in Cpus : pc[c] # "panic"

(* Two cores are never both between acquire() and release(). *)
MutualExclusion ==
    \A c, d \in Cpus : pc[c] \in Owning /\ pc[d] \in Owning => c = d

(* The inductive form of the two: an owner has set locked, a core's name    *)
(* stays in lk->cpu only while it owns the lock, and it is there whenever   *)
(* release() compares it.                                                   *)
LockInv ==
    /\ TypeOK
    /\ MutualExclusion
    /\ NoPanic
    /\ locked <=> \E c \in Cpus : pc[c] \in Owning
    /\ \A c \in Cpus : cpu = c =>
           pc[c] \in {"critical", "rel_read_locked", "rel_read_cpu", "clear_cpu"}
    /\ \A c \in Cpus :
           pc[c] \in {"critical", "rel_read_locked", "rel_read_cpu", "clear_cpu"} => cpu = c

(* The core that owns the lock, for the abstract lock. *)
Holder == IF \E c \in Cpus : pc[c] \in Owning
          THEN CHOOSE c \in Cpus : pc[c] \in Owning
          ELSE NULL

Lock == INSTANCE Mutex WITH Contenders <- Cpus, Nobody <- NULL, holder <- Holder

(* The spinlock is a lock: every step of acquire() and release() takes it,  *)
(* gives it back, or changes nothing a user of it can see.                  *)
ImplementsMutex == Lock!Spec

(* The spin loop does not lose the lock: while some core wants it, some     *)
(* core gets into its critical section again and again.                     *)
SomeoneEnters ==
    (\E c \in Cpus : pc[c] \in Wanting) ~> (\E c \in Cpus : pc[c] = "critical")
=============================================================================

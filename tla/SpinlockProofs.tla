--------------------------- MODULE SpinlockProofs ---------------------------
(***************************************************************************)
(* Proofs about Spinlock, for any set of cores.                             *)
(***************************************************************************)
EXTENDS Spinlock, TLAPS

(* initlock() establishes the inductive invariant. *)
LEMMA InitLockInv == Init => LockInv
BY NullAssumption DEF Init, LockInv, TypeOK, Labels, MutualExclusion, NoPanic, Owning

(* Every access to the lock's two words preserves the inductive invariant. *)
LEMMA NextLockInv == LockInv /\ [Next]_vars => LockInv'
<1> SUFFICES ASSUME LockInv, [Next]_vars PROVE LockInv'
    OBVIOUS
<1> USE NullAssumption DEF LockInv, TypeOK, Labels, MutualExclusion, NoPanic, Owning, Goto
<1>1. CASE UNCHANGED vars
    BY <1>1 DEF vars
<1>2. ASSUME NEW c \in Cpus, CallAcquire(c) PROVE LockInv'
    BY <1>2 DEF CallAcquire
<1>3. ASSUME NEW c \in Cpus, AcqReadLocked(c) PROVE LockInv'
    BY <1>3 DEF AcqReadLocked
<1>4. ASSUME NEW c \in Cpus, AcqReadCpu(c) PROVE LockInv'
    BY <1>4 DEF AcqReadCpu
<1>5. ASSUME NEW c \in Cpus, Spin(c) PROVE LockInv'
    BY <1>5 DEF Spin
<1>6. ASSUME NEW c \in Cpus, TestAndSet(c) PROVE LockInv'
    BY <1>6 DEF TestAndSet
<1>7. ASSUME NEW c \in Cpus, SetCpu(c) PROVE LockInv'
    BY <1>7 DEF SetCpu
<1>8. ASSUME NEW c \in Cpus, CallRelease(c) PROVE LockInv'
    BY <1>8 DEF CallRelease
<1>9. ASSUME NEW c \in Cpus, RelReadLocked(c) PROVE LockInv'
    BY <1>9 DEF RelReadLocked
<1>10. ASSUME NEW c \in Cpus, RelReadCpu(c) PROVE LockInv'
    BY <1>10 DEF RelReadCpu
<1>11. ASSUME NEW c \in Cpus, ClearCpu(c) PROVE LockInv'
    BY <1>11 DEF ClearCpu
<1>12. ASSUME NEW c \in Cpus, ClearLocked(c) PROVE LockInv'
    BY <1>12 DEF ClearLocked
<1>13. QED
    BY <1>1, <1>2, <1>3, <1>4, <1>5, <1>6, <1>7, <1>8, <1>9, <1>10, <1>11, <1>12
    DEF Next, Step

(* The spinlock's inductive invariant holds of every behaviour. *)
THEOREM SpinlockInvariant == Spec => []LockInv
<1>1. Init => LockInv
    BY InitLockInv
<1>2. LockInv /\ [Next]_vars => LockInv'
    BY NextLockInv
<1>3. QED
    BY <1>1, <1>2, PTL DEF Spec

(* acquire() and release() never panic when every core calls release() only *)
(* after its own acquire(): the unprotected reads of holding() are harmless. *)
THEOREM SpinlockNoPanic == Spec => []NoPanic
<1>1. LockInv => NoPanic
    BY DEF LockInv
<1>2. QED
    BY SpinlockInvariant, <1>1, PTL

(* Holder names the one core at an owning place, or nobody. *)
HolderExact ==
    /\ \A c \in Cpus : pc[c] \in Owning <=> Holder = c
    /\ (\A c \in Cpus : pc[c] \notin Owning) <=> Holder = NULL

(* The abstract holder is well defined, since there is one owner at most. *)
LEMMA HolderIsOwner == LockInv => HolderExact
<1> SUFFICES ASSUME LockInv PROVE HolderExact
    OBVIOUS
<1>1. CASE \E c \in Cpus : pc[c] \in Owning
    <2>1. Holder \in Cpus /\ pc[Holder] \in Owning
        BY <1>1 DEF Holder
    <2>2. QED
        BY <2>1, <1>1, NullAssumption DEF LockInv, MutualExclusion, HolderExact
<1>2. CASE ~ \E c \in Cpus : pc[c] \in Owning
    BY <1>2, NullAssumption DEF Holder, HolderExact
<1>3. QED
    BY <1>1, <1>2

(* Every behaviour of the spinlock is a behaviour of the abstract lock. *)
THEOREM SpinlockIsMutex == Spec => ImplementsMutex
<1>1. Init => Lock!Init
    BY DEF Init, Lock!Init, Holder, Owning
<1>2. LockInv' => HolderExact'
    BY HolderIsOwner, PTL
<1>3. LockInv /\ LockInv' /\ [Next]_vars => [Lock!Next]_Holder
    <2> SUFFICES ASSUME LockInv, LockInv', [Next]_vars
                 PROVE  Lock!Next \/ Holder' = Holder
        OBVIOUS
    <2>0. HolderExact /\ HolderExact'
        BY HolderIsOwner, <1>2
    <2> USE <2>0, NullAssumption DEF HolderExact, Owning, Goto, LockInv, TypeOK
    <2>1. CASE UNCHANGED vars
        BY <2>1 DEF vars, Holder
    <2>2. ASSUME NEW c \in Cpus, TestAndSet(c) PROVE Lock!Next \/ Holder' = Holder
        <3>1. CASE locked
            <4>1. \A d \in Cpus : pc'[d] \in Owning <=> pc[d] \in Owning
                BY <2>2, <3>1 DEF TestAndSet
            <4>2. QED
                BY <4>1
        <3>2. CASE ~locked
            BY <2>2, <3>2 DEF TestAndSet, Lock!Next, Lock!Take
        <3>3. QED
            BY <3>1, <3>2
    <2>3. ASSUME NEW c \in Cpus, ClearLocked(c) PROVE Lock!Next
        BY <2>3 DEF ClearLocked, Lock!Next, Lock!Give, MutualExclusion
    <2>4. ASSUME NEW c \in Cpus,
                 \/ CallAcquire(c) \/ AcqReadLocked(c) \/ AcqReadCpu(c) \/ Spin(c)
                 \/ SetCpu(c) \/ CallRelease(c) \/ RelReadLocked(c) \/ RelReadCpu(c)
                 \/ ClearCpu(c)
          PROVE  Holder' = Holder
        <3>1. \A d \in Cpus : pc'[d] \in Owning <=> pc[d] \in Owning
            BY <2>4 DEF CallAcquire, AcqReadLocked, AcqReadCpu, Spin, SetCpu,
                        CallRelease, RelReadLocked, RelReadCpu, ClearCpu, NoPanic
        <3>2. QED
            BY <3>1
    <2>5. QED
        BY <2>1, <2>2, <2>3, <2>4 DEF Next, Step
<1>4. QED
    BY <1>1, <1>3, SpinlockInvariant, PTL DEF Spec, ImplementsMutex, Lock!Spec
=============================================================================

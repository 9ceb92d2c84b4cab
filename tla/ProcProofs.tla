----------------------------- MODULE ProcProofs -----------------------------
(***************************************************************************)
(* Proofs about Proc, for any number of slots, cores and idle processes and *)
(* any bound on forks.                                                      *)
(***************************************************************************)
EXTENDS Proc, TLAPS, WellFoundedInduction

(* A scan of the process table from its first entry finds an entry if there *)
(* is one to find.                                                          *)
LEMMA FirstIsElement ==
    ASSUME NEW S, S \subseteq Slots, S # {}
    PROVE  First(S) \in S
<1> DEFINE R == {ss \in Nat \X Nat : ss[1] < ss[2]}
<1>1. S \subseteq Nat
    BY ProcAssumption DEF Slots
<1>2. IsWellFoundedOn(R, Nat)
    BY NatLessThanWellFounded, Zenon DEF OpToRel
<1>3. PICK x \in S : \A y \in S : ~(<<y, x>> \in R)
    <2> HIDE DEF R
    <2> QED
        BY <1>1, <1>2, WFMin, Zenon
<1>4. ASSUME NEW y \in S PROVE x <= y
    <2>1. x \in Nat /\ y \in Nat
        BY <1>1
    <2>2. y < x => <<y, x>> \in R
        BY <2>1
    <2>3. ~(y < x)
        BY <1>3, <2>2
    <2>4. QED
        BY <2>1, <2>3
<1>5. QED
    BY <1>4 DEF First

(* A scheduler that finds something to run runs something it may run. *)
LEMMA PickIsEligible ==
    ASSUME NEW c \in Cpus, Eligible(c) # {}
    PROVE  Pick(c) \in Eligible(c)
<1> DEFINE S == IF Urgent(c) # {} THEN Urgent(c) ELSE Eligible(c)
<1>1. S \subseteq Eligible(c) /\ S \subseteq Slots /\ S # {}
    BY DEF Urgent, Eligible
<1>2. First(S) \in S
    BY <1>1, FirstIsElement
<1>3. QED
    BY <1>1, <1>2 DEF Pick

(* The null pointer is no core and no slot, and core 0 and initproc exist. *)
LEMMA Pointers ==
    /\ NULL \notin Cpus /\ NULL \notin Slots /\ IoChan \notin Slots /\ IoChan # NULL
    /\ 0 \in Cpus /\ initproc \in Slots /\ 1 \notin Idle /\ Idle \subseteq Slots
BY ProcAssumption DEF Cpus, Slots, initproc, Idle

(* main() leaves the process table in a state that satisfies the invariant. *)
LEMMA InitSwitchInv == Init => SwitchInv
<1> SUFFICES ASSUME Init PROVE SwitchInv
    OBVIOUS
<1> USE ProcAssumption DEF Init, Slots, Cpus, Booted
<1>1. TypeOK
    BY DEF TypeOK, States, CpuPlaces, LockedPlaces, UnlockedPlaces
<1>2. NoPanic /\ OneCpuPerProcess
    BY DEF NoPanic, OneCpuPerProcess
<1>3. LockPlaces /\ CurrentProcess
    BY DEF LockPlaces, CurrentProcess, HoldsLock
<1>4. SavedContexts
    <2>1. \A p \in Slots : ~OnCpu(p)
        BY Pointers DEF OnCpu
    <2>2. QED
        BY <2>1 DEF SavedContexts, OffPlaces
<1>5. Embryos
    BY DEF Embryos
<1>6. InitprocStays
    BY DEF InitprocStays, initproc, Idle
<1>7. QED
    BY <1>1, <1>2, <1>3, <1>4, <1>5, <1>6 DEF SwitchInv

(* Every step of every core preserves the inductive invariant. *)
LEMMA NextSwitchInv == SwitchInv /\ [Next]_vars => SwitchInv'
<1> SUFFICES ASSUME SwitchInv, [Next]_vars PROVE SwitchInv'
    OBVIOUS
<1> USE Pointers DEF SwitchInv, TypeOK, NoPanic, OneCpuPerProcess, LockPlaces, HoldsLock,
    CurrentProcess, SavedContexts, Embryos, OnCpu, States, CpuPlaces, LockedPlaces,
    UnlockedPlaces, OffPlaces, At, Continue, Acquire, Release, LockFree, GiveUp, fieldVars, Calls,
    InitprocStays
<1>0. CASE UNCHANGED vars
    BY <1>0 DEF vars
<1>1. ASSUME NEW c \in Cpus, SchedAcquire(c) PROVE SwitchInv'
    <2>1. TypeOK'
        BY <1>1 DEF SchedAcquire
    <2>2. NoPanic' /\ OneCpuPerProcess'
        BY <1>1 DEF SchedAcquire
    <2>3. LockPlaces'
        BY <1>1 DEF SchedAcquire
    <2>4. CurrentProcess'
        BY <1>1 DEF SchedAcquire
    <2>5. SavedContexts'
        BY <1>1 DEF SchedAcquire
    <2>6. Embryos'
        BY <1>1 DEF SchedAcquire
    <2>7. InitprocStays'
        BY <1>1 DEF SchedAcquire
    <2>8. QED
        BY <2>1, <2>2, <2>3, <2>4, <2>5, <2>6, <2>7
<1>2. ASSUME NEW c \in Cpus, Dispatch(c) PROVE SwitchInv'
    <2>a. Pick(c) \in Eligible(c)
        BY <1>2, PickIsEligible DEF Dispatch
    <2>b. PICK q \in Slots :
             /\ state[q] = "RUNNABLE" /\ cpc[c] = "scan"
             /\ cpuProc' = [cpuProc EXCEPT ![c] = q]
             /\ state' = [state EXCEPT ![q] = "RUNNING"]
             /\ cpc' = [cpc EXCEPT ![c] = "run"]
             /\ UNCHANGED <<chan, kpc, lock, pid, parent, priority, allowed, kstack, kid, nextpid>>
        BY <1>2, <2>a DEF Dispatch, Eligible
    <2>c. lock = c /\ \A d \in Cpus : cpuProc[d] # q
        BY <2>b
    <2>1. TypeOK'
        BY <2>b, <2>c
    <2>2. NoPanic' /\ OneCpuPerProcess'
        BY <2>b, <2>c
    <2>3. LockPlaces'
        BY <2>b, <2>c
    <2>4. CurrentProcess'
        BY <2>b, <2>c
    <2>5. SavedContexts'
        BY <2>b, <2>c
    <2>6. Embryos'
        <3>1. kid[q] = NULL /\ kpc[q] \notin {"fork_copy", "fork_pub"}
            BY <2>b
        <3>2. \A r \in Slots : kid[r] # NULL => kid[r] # q
            BY <2>b
        <3>3. QED
            BY <2>b, <3>1, <3>2
    <2>7. InitprocStays'
        BY <2>b, <2>c
    <2>8. QED
        BY <2>1, <2>2, <2>3, <2>4, <2>5, <2>6, <2>7
<1>3. ASSUME NEW c \in Cpus, SchedNothing(c) PROVE SwitchInv'
    <2>1. TypeOK'
        BY <1>3 DEF SchedNothing
    <2>2. NoPanic' /\ OneCpuPerProcess'
        BY <1>3 DEF SchedNothing
    <2>3. LockPlaces'
        BY <1>3 DEF SchedNothing
    <2>4. CurrentProcess'
        BY <1>3 DEF SchedNothing
    <2>5. SavedContexts'
        BY <1>3 DEF SchedNothing
    <2>6. Embryos'
        BY <1>3 DEF SchedNothing
    <2>7. InitprocStays'
        BY <1>3 DEF SchedNothing
    <2>8. QED
        BY <2>1, <2>2, <2>3, <2>4, <2>5, <2>6, <2>7
<1>4. ASSUME NEW c \in Cpus, Sched(c) PROVE SwitchInv'
    BY <1>4 DEF Sched
<1>5. ASSUME NEW c \in Cpus, SchedBack(c) PROVE SwitchInv'
    <2>1. TypeOK'
        BY <1>5 DEF SchedBack
    <2>2. NoPanic' /\ OneCpuPerProcess'
        BY <1>5 DEF SchedBack
    <2>3. LockPlaces'
        BY <1>5 DEF SchedBack
    <2>4. CurrentProcess'
        BY <1>5 DEF SchedBack
    <2>5. SavedContexts'
        BY <1>5 DEF SchedBack
    <2>6. Embryos'
        BY <1>5 DEF SchedBack
    <2>7. InitprocStays'
        BY <1>5 DEF SchedBack
    <2>8. QED
        BY <2>1, <2>2, <2>3, <2>4, <2>5, <2>6, <2>7
<1>6. ASSUME NEW c \in Cpus, NEW p \in Slots, Forkret(c, p) PROVE SwitchInv'
    <2>1. TypeOK'
        BY <1>6 DEF Forkret
    <2>2. NoPanic' /\ OneCpuPerProcess'
        BY <1>6 DEF Forkret
    <2>3. LockPlaces'
        BY <1>6 DEF Forkret
    <2>4. CurrentProcess'
        BY <1>6 DEF Forkret
    <2>5. SavedContexts'
        BY <1>6 DEF Forkret
    <2>6. Embryos'
        BY <1>6 DEF Forkret
    <2>7. InitprocStays'
        BY <1>6 DEF Forkret
    <2>8. QED
        BY <2>1, <2>2, <2>3, <2>4, <2>5, <2>6, <2>7
<1>7. ASSUME NEW c \in Cpus, NEW p \in Slots, RaisePriority(c, p) PROVE SwitchInv'
    BY <1>7 DEF RaisePriority
<1>8. ASSUME NEW c \in Cpus, NEW p \in Slots, SetCpusAllowed(c, p) PROVE SwitchInv'
    BY <1>8 DEF SetCpusAllowed
<1>9. ASSUME NEW c \in Cpus, NEW p \in Slots, Timer(c, p) PROVE SwitchInv'
    BY <1>9 DEF Timer
<1>10. ASSUME NEW c \in Cpus, NEW p \in Slots, DropPriority(c, p) PROVE SwitchInv'
    BY <1>10 DEF DropPriority
<1>11. ASSUME NEW c \in Cpus, NEW p \in Slots, YieldAcquire(c, p) PROVE SwitchInv'
    <2>1. TypeOK'
        BY <1>11 DEF YieldAcquire
    <2>2. NoPanic' /\ OneCpuPerProcess'
        BY <1>11 DEF YieldAcquire
    <2>3. LockPlaces'
        BY <1>11 DEF YieldAcquire
    <2>4. CurrentProcess'
        BY <1>11 DEF YieldAcquire
    <2>5. SavedContexts'
        BY <1>11 DEF YieldAcquire
    <2>6. Embryos'
        BY <1>11 DEF YieldAcquire
    <2>7. InitprocStays'
        BY <1>11 DEF YieldAcquire
    <2>8. QED
        BY <2>1, <2>2, <2>3, <2>4, <2>5, <2>6, <2>7
<1>12. ASSUME NEW c \in Cpus, NEW p \in Slots, YieldSched(c, p) PROVE SwitchInv'
    BY <1>12 DEF YieldSched
<1>13. ASSUME NEW c \in Cpus, NEW p \in Slots, YieldReturn(c, p) PROVE SwitchInv'
    <2>1. TypeOK'
        BY <1>13 DEF YieldReturn
    <2>2. NoPanic' /\ OneCpuPerProcess'
        BY <1>13 DEF YieldReturn
    <2>3. LockPlaces'
        BY <1>13 DEF YieldReturn
    <2>4. CurrentProcess'
        BY <1>13 DEF YieldReturn
    <2>5. SavedContexts'
        BY <1>13 DEF YieldReturn
    <2>6. Embryos'
        BY <1>13 DEF YieldReturn
    <2>7. InitprocStays'
        BY <1>13 DEF YieldReturn
    <2>8. QED
        BY <2>1, <2>2, <2>3, <2>4, <2>5, <2>6, <2>7
<1>14. ASSUME NEW c \in Cpus, NEW p \in Slots, ForkAlloc(c, p) PROVE SwitchInv'
    <2>a. First({s \in Slots : state[s] = "UNUSED"}) \in {s \in Slots : state[s] = "UNUSED"}
        <3> DEFINE S == {s \in Slots : state[s] = "UNUSED"}
        <3>1. S \subseteq Slots /\ S # {}
            BY <1>14 DEF ForkAlloc
        <3> HIDE DEF S
        <3>2. First(S) \in S
            BY <3>1, FirstIsElement
        <3>3. QED
            BY <3>2 DEF S
    <2>b. PICK q \in Slots :
             /\ state[q] = "UNUSED"
             /\ state' = [state EXCEPT ![q] = "EMBRYO"]
             /\ kstack' = [kstack EXCEPT ![q] = TRUE]
             /\ pid' = [pid EXCEPT ![q] = nextpid]
             /\ priority' = [priority EXCEPT ![q] = 0]
             /\ allowed' = [allowed EXCEPT ![q] = Cpus]
             /\ kpc' = [kpc EXCEPT ![q] = "forkret", ![p] = "fork_copy"]
             /\ kid' = [kid EXCEPT ![p] = q]
        BY <1>14, <2>a DEF ForkAlloc
    <2>c. /\ At(c, p, "user") /\ lock = NULL /\ nextpid' = nextpid + 1
          /\ UNCHANGED <<parent, chan, cpuProc, cpc, lock>>
        BY <1>14 DEF ForkAlloc
    <2>d. p # q /\ q # initproc /\ \A d \in Cpus : cpuProc[d] # q
        BY <2>b, <2>c
    <2>e. p # initproc
        BY <1>14 DEF ForkAlloc
    <2>1. TypeOK'
        <3>1. kpc' \in [Slots -> LockedPlaces \cup UnlockedPlaces \cup {"zombie"}]
            BY <2>b
        <3>2. nextpid \in Nat /\ nextpid' \in Nat
            BY <2>c
        <3>3. state' \in [Slots -> States] /\ pid' \in [Slots -> Nat] /\ kstack' \in [Slots -> BOOLEAN]
            BY <2>b, <3>2
        <3>4. priority' \in [Slots -> {0, 1}] /\ allowed' \in [Slots -> SUBSET Cpus]
            BY <2>b
        <3>5. kid' \in [Slots -> Slots \cup {NULL}]
            BY <2>b
        <3>6. QED
            BY <2>c, <3>1, <3>2, <3>3, <3>4, <3>5
    <2>2. NoPanic' /\ OneCpuPerProcess'
        BY <2>b, <2>c, <2>d, <2>e
    <2>3. LockPlaces'
        BY <2>b, <2>c, <2>d, <2>e
    <2>4. CurrentProcess'
        BY <2>b, <2>c, <2>d, <2>e
    <2>5. SavedContexts'
        BY <2>b, <2>c, <2>d, <2>e
    <2>6. Embryos'
        BY <2>b, <2>c, <2>d, <2>e
    <2>7. InitprocStays'
        BY <2>b, <2>c, <2>d, <2>e
    <2>8. QED
        BY <2>1, <2>2, <2>3, <2>4, <2>5, <2>6, <2>7
<1>15. ASSUME NEW c \in Cpus, NEW p \in Slots, ForkFail(c, p) PROVE SwitchInv'
    BY <1>15 DEF ForkFail
<1>16. ASSUME NEW c \in Cpus, NEW p \in Slots, ForkCopy(c, p) PROVE SwitchInv'
    BY <1>16 DEF ForkCopy
<1>17. ASSUME NEW c \in Cpus, NEW p \in Slots, ForkPublish(c, p) PROVE SwitchInv'
    BY <1>17 DEF ForkPublish
<1>18. ASSUME NEW c \in Cpus, NEW p \in Slots, ExitCall(c, p) PROVE SwitchInv'
    <2>a. p # initproc
        BY <1>18 DEF ExitCall
    <2>b. /\ At(c, p, "user")
          /\ kpc' = [kpc EXCEPT ![p] = "exit"]
          /\ UNCHANGED <<cpc, state, chan, cpuProc, lock, fieldVars>>
        BY <1>18, <2>a DEF ExitCall
    <2>1. TypeOK'
        BY <2>a, <2>b
    <2>2. NoPanic' /\ OneCpuPerProcess'
        BY <2>a, <2>b
    <2>3. LockPlaces'
        BY <2>a, <2>b
    <2>4. CurrentProcess'
        BY <2>a, <2>b
    <2>5. SavedContexts'
        BY <2>a, <2>b
    <2>6. Embryos'
        BY <2>a, <2>b
    <2>7. InitprocStays'
        BY <2>a, <2>b
    <2>8. QED
        BY <2>1, <2>2, <2>3, <2>4, <2>5, <2>6, <2>7
<1>19. ASSUME NEW c \in Cpus, NEW p \in Slots, ExitAcquire(c, p) PROVE SwitchInv'
    <2>1. TypeOK'
        BY <1>19 DEF ExitAcquire
    <2>2. NoPanic' /\ OneCpuPerProcess'
        BY <1>19 DEF ExitAcquire
    <2>3. LockPlaces'
        BY <1>19 DEF ExitAcquire
    <2>4. CurrentProcess'
        BY <1>19 DEF ExitAcquire
    <2>5. SavedContexts'
        BY <1>19 DEF ExitAcquire
    <2>6. Embryos'
        BY <1>19 DEF ExitAcquire
    <2>7. InitprocStays'
        BY <1>19 DEF ExitAcquire
    <2>8. QED
        BY <2>1, <2>2, <2>3, <2>4, <2>5, <2>6, <2>7
<1>20. ASSUME NEW c \in Cpus, NEW p \in Slots, ExitSched(c, p) PROVE SwitchInv'
    <2>a. /\ At(c, p, "exit_cs") /\ p # initproc /\ lock = c
          /\ kpc' = [kpc EXCEPT ![p] = "zombie"]
          /\ cpc' = [cpc EXCEPT ![c] = "swtch"]
          /\ UNCHANGED <<pid, chan, priority, allowed, kstack, kid, cpuProc, lock, nextpid>>
        BY <1>20 DEF ExitSched
    <2>b. parent' \in [Slots -> Slots \cup {NULL}]
        BY <1>20 DEF ExitSched
    <2>c. /\ state' \in [Slots -> States]
          /\ state'[p] = "ZOMBIE"
          /\ \A q \in Slots : q # p => \/ state'[q] = state[q]
                                       \/ state[q] = "SLEEPING" /\ state'[q] = "RUNNABLE"
        BY <1>20 DEF ExitSched, Woken
    <2>1. TypeOK'
        BY <2>a, <2>b, <2>c
    <2>2. NoPanic' /\ OneCpuPerProcess'
        BY <2>a, <2>b, <2>c
    <2>3. LockPlaces'
        BY <2>a, <2>b, <2>c
    <2>4. CurrentProcess'
        BY <2>a, <2>b, <2>c
    <2>5. SavedContexts'
        BY <2>a, <2>b, <2>c
    <2>6. Embryos'
        BY <2>a, <2>b, <2>c
    <2>7. InitprocStays'
        BY <2>a, <2>b, <2>c
    <2>8. QED
        BY <2>1, <2>2, <2>3, <2>4, <2>5, <2>6, <2>7
<1>21. ASSUME NEW c \in Cpus, NEW p \in Slots, WaitAcquire(c, p) PROVE SwitchInv'
    <2>1. TypeOK'
        BY <1>21 DEF WaitAcquire
    <2>2. NoPanic' /\ OneCpuPerProcess'
        BY <1>21 DEF WaitAcquire
    <2>3. LockPlaces'
        BY <1>21 DEF WaitAcquire
    <2>4. CurrentProcess'
        BY <1>21 DEF WaitAcquire
    <2>5. SavedContexts'
        BY <1>21 DEF WaitAcquire
    <2>6. Embryos'
        BY <1>21 DEF WaitAcquire
    <2>7. InitprocStays'
        BY <1>21 DEF WaitAcquire
    <2>8. QED
        BY <2>1, <2>2, <2>3, <2>4, <2>5, <2>6, <2>7
<1>22. ASSUME NEW c \in Cpus, NEW p \in Slots, WaitReap(c, p) PROVE SwitchInv'
    <2>a. First(Zombies(p)) \in Zombies(p)
        <3>1. Zombies(p) \subseteq Slots /\ Zombies(p) # {}
            BY <1>22 DEF WaitReap, Zombies, Children
        <3>2. QED
            BY <3>1, FirstIsElement
    <2>b. PICK q \in Slots :
             /\ state[q] = "ZOMBIE"
             /\ state' = [state EXCEPT ![q] = "UNUSED"]
             /\ pid' = [pid EXCEPT ![q] = 0]
             /\ parent' = [parent EXCEPT ![q] = NULL]
             /\ kstack' = [kstack EXCEPT ![q] = FALSE]
        BY <1>22, <2>a DEF WaitReap, Zombies, Children
    <2>c. /\ At(c, p, "wait_cs") /\ lock = c /\ lock' = NULL
          /\ UNCHANGED <<chan, priority, allowed, kid, cpuProc, cpc, nextpid>>
          /\ kpc' = [kpc EXCEPT ![p] = "user"]
        BY <1>22 DEF WaitReap
    <2>d. p # q /\ q # initproc /\ \A d \in Cpus : cpuProc[d] # q
        BY <2>b, <2>c
    <2>1. TypeOK'
        BY <2>b, <2>c, <2>d
    <2>2. NoPanic' /\ OneCpuPerProcess'
        BY <2>b, <2>c, <2>d
    <2>3. LockPlaces'
        BY <2>b, <2>c, <2>d
    <2>4. CurrentProcess'
        BY <2>b, <2>c, <2>d
    <2>5. SavedContexts'
        BY <2>b, <2>c, <2>d
    <2>6. Embryos'
        BY <2>b, <2>c, <2>d
    <2>7. InitprocStays'
        BY <2>b, <2>c, <2>d
    <2>8. QED
        BY <2>1, <2>2, <2>3, <2>4, <2>5, <2>6, <2>7
<1>23. ASSUME NEW c \in Cpus, NEW p \in Slots, WaitNone(c, p) PROVE SwitchInv'
    <2>1. TypeOK'
        BY <1>23 DEF WaitNone
    <2>2. NoPanic' /\ OneCpuPerProcess'
        BY <1>23 DEF WaitNone
    <2>3. LockPlaces'
        BY <1>23 DEF WaitNone
    <2>4. CurrentProcess'
        BY <1>23 DEF WaitNone
    <2>5. SavedContexts'
        BY <1>23 DEF WaitNone
    <2>6. Embryos'
        BY <1>23 DEF WaitNone
    <2>7. InitprocStays'
        BY <1>23 DEF WaitNone
    <2>8. QED
        BY <2>1, <2>2, <2>3, <2>4, <2>5, <2>6, <2>7
<1>24. ASSUME NEW c \in Cpus, NEW p \in Slots, WaitSleep(c, p) PROVE SwitchInv'
    BY <1>24 DEF WaitSleep
<1>25. ASSUME NEW c \in Cpus, NEW p \in Slots, WaitReturn(c, p) PROVE SwitchInv'
    BY <1>25 DEF WaitReturn
<1>26. ASSUME NEW c \in Cpus, NEW p \in Slots, SleepAcquire(c, p) PROVE SwitchInv'
    <2>1. TypeOK'
        BY <1>26 DEF SleepAcquire
    <2>2. NoPanic' /\ OneCpuPerProcess'
        BY <1>26 DEF SleepAcquire
    <2>3. LockPlaces'
        BY <1>26 DEF SleepAcquire
    <2>4. CurrentProcess'
        BY <1>26 DEF SleepAcquire
    <2>5. SavedContexts'
        BY <1>26 DEF SleepAcquire
    <2>6. Embryos'
        BY <1>26 DEF SleepAcquire
    <2>7. InitprocStays'
        BY <1>26 DEF SleepAcquire
    <2>8. QED
        BY <2>1, <2>2, <2>3, <2>4, <2>5, <2>6, <2>7
<1>27. ASSUME NEW c \in Cpus, NEW p \in Slots, SleepSched(c, p) PROVE SwitchInv'
    <2>1. TypeOK'
        <3>1. kpc' \in [Slots -> LockedPlaces \cup UnlockedPlaces \cup {"zombie"}]
            BY <1>27 DEF SleepSched
        <3>2. chan' \in [Slots -> Slots \cup {IoChan, NULL}] /\ state' \in [Slots -> States]
            BY <1>27 DEF SleepSched
        <3>3. cpc' \in [Cpus -> CpuPlaces]
            BY <1>27 DEF SleepSched
        <3>4. QED
            BY <1>27, <3>1, <3>2, <3>3 DEF SleepSched
    <2>2. NoPanic' /\ OneCpuPerProcess'
        BY <1>27 DEF SleepSched
    <2>3. LockPlaces'
        BY <1>27 DEF SleepSched
    <2>4. CurrentProcess'
        BY <1>27 DEF SleepSched
    <2>5. SavedContexts'
        BY <1>27 DEF SleepSched
    <2>6. Embryos'
        BY <1>27 DEF SleepSched
    <2>7. InitprocStays'
        BY <1>27 DEF SleepSched
    <2>8. QED
        BY <2>1, <2>2, <2>3, <2>4, <2>5, <2>6, <2>7
<1>28. ASSUME NEW c \in Cpus, NEW p \in Slots, SleepReturn(c, p) PROVE SwitchInv'
    <2>1. TypeOK'
        BY <1>28 DEF SleepReturn
    <2>2. NoPanic' /\ OneCpuPerProcess'
        BY <1>28 DEF SleepReturn
    <2>3. LockPlaces'
        BY <1>28 DEF SleepReturn
    <2>4. CurrentProcess'
        BY <1>28 DEF SleepReturn
    <2>5. SavedContexts'
        BY <1>28 DEF SleepReturn
    <2>6. Embryos'
        BY <1>28 DEF SleepReturn
    <2>7. InitprocStays'
        BY <1>28 DEF SleepReturn
    <2>8. QED
        BY <2>1, <2>2, <2>3, <2>4, <2>5, <2>6, <2>7
<1>29. ASSUME NEW p \in Slots, DeviceInterrupt(p) PROVE SwitchInv'
    BY <1>29 DEF DeviceInterrupt, Woken
<1>30. QED
    BY <1>0, <1>1, <1>2, <1>3, <1>4, <1>5, <1>6, <1>7, <1>8, <1>9, <1>10, <1>11, <1>12, <1>13, <1>14, <1>15, <1>16, <1>17, <1>18, <1>19, <1>20, <1>21, <1>22, <1>23, <1>24, <1>25, <1>26, <1>27, <1>28, <1>29
    DEF Next, SchedulerStep, KernelStep, SpinStep, SystemCall

(* Every step preserves the family relations. *)
LEMMA NextFamilyInv == SwitchInv /\ SwitchInv' /\ FamilyInv /\ [Next]_vars => FamilyInv'
<1> SUFFICES ASSUME SwitchInv, SwitchInv', FamilyInv, [Next]_vars PROVE FamilyInv'
    OBVIOUS
<1> USE Pointers DEF FamilyInv, At, Continue, GiveUp, fieldVars, Calls
<1> DEFINE L == {"SLEEPING", "RUNNABLE", "RUNNING"}
<1>0. TypeOK /\ TypeOK' /\ CurrentProcess /\ SavedContexts /\ Embryos /\ InitprocStays
    BY DEF SwitchInv
<1>k. \A r \in Slots : kid[r] # NULL => kpc[r] \in {"fork_copy", "fork_pub"} /\ state[r] = "RUNNING"
                                       /\ kid[r] \in Slots /\ state[kid[r]] = "EMBRYO"
    BY <1>0 DEF Embryos, TypeOK
<1>r. ASSUME NEW c \in Cpus, NEW p \in Slots, cpc[c] = "run", cpuProc[c] = p PROVE state[p] = "RUNNING"
    BY <1>r, <1>0 DEF CurrentProcess
\* Nobody is born, dies or is adopted.
<1>a. ASSUME UNCHANGED <<pid, parent, kid>>,
             \A r \in Slots : kid[r] # NULL => kpc'[r] = kpc[r],
             \A r \in Slots : state'[r] = state[r] \/ (state[r] \in L /\ state'[r] \in L),
             \A r \in Slots : state'[r] = "SLEEPING" /\ chan'[r] = r =>
                 \/ state[r] = "SLEEPING" /\ chan[r] = r
                 \/ Children(r) # {} /\ Zombies(r) = {}
      PROVE  FamilyInv'
    <2>1. ParentLinks'
        BY <1>a, <1>k DEF ParentLinks
    <2>2. \A r \in Slots : Children(r)' = Children(r) /\ Zombies(r)' = Zombies(r)
        BY <1>a DEF Children, Zombies
    <2>3. WaitersHaveWork'
        BY <1>a, <2>2 DEF WaitersHaveWork
    <2>4. NoOrphans'
        <3> SUFFICES ASSUME NEW q \in Slots, state'[q] \in L \cup {"ZOMBIE"}, pid'[q] > NIDLE + 1
                     PROVE  parent'[q] # NULL /\ state'[parent'[q]] \in L
            BY DEF NoOrphans
        <3>1. state[q] \in L \cup {"ZOMBIE"} /\ pid[q] > NIDLE + 1
            BY <1>a
        <3>2. parent[q] # NULL /\ state[parent[q]] \in L
            BY <3>1 DEF NoOrphans
        <3>3. parent[q] \in Slots
            BY <1>0, <3>2 DEF TypeOK
        <3>4. QED
            BY <1>a, <3>2, <3>3
    <2>5. QED
        BY <2>1, <2>3, <2>4
<1>1. ASSUME UNCHANGED <<state, pid, parent, chan, kid>>,
             \A r \in Slots : kid[r] # NULL => kpc'[r] = kpc[r]
      PROVE  FamilyInv'
    BY <1>a, <1>1
<1>2. ASSUME NEW c \in Cpus, SchedAcquire(c) \/ SchedNothing(c) \/ Sched(c) \/ SchedBack(c)
      PROVE  FamilyInv'
    BY <1>1, <1>2 DEF SchedAcquire, SchedNothing, Sched, SchedBack
<1>3. ASSUME NEW c \in Cpus, NEW p \in Slots,
             \/ Forkret(c, p) \/ Timer(c, p) \/ YieldAcquire(c, p) \/ YieldReturn(c, p)
             \/ ExitCall(c, p) \/ ExitAcquire(c, p) \/ WaitAcquire(c, p) \/ WaitNone(c, p)
             \/ SleepAcquire(c, p) \/ SpinStep(c, p)
      PROVE  FamilyInv'
    <2>1. UNCHANGED <<state, pid, parent, chan, kid>>
        BY <1>3 DEF Forkret, Timer, YieldAcquire, YieldReturn, ExitCall, ExitAcquire, WaitAcquire,
            WaitNone, SleepAcquire, SpinStep, RaisePriority, SetCpusAllowed, DropPriority
    <2>2. kpc[p] \notin {"fork_copy", "fork_pub"}
        BY <1>3 DEF Forkret, Timer, YieldAcquire, YieldReturn, ExitCall, ExitAcquire, WaitAcquire,
            WaitNone, SleepAcquire, SpinStep, RaisePriority, SetCpusAllowed, DropPriority
    <2>3. \A r \in Slots : r # p => kpc'[r] = kpc[r]
        BY <1>0, <1>3 DEF Forkret, Timer, YieldAcquire, YieldReturn, ExitCall, ExitAcquire, WaitAcquire,
            WaitNone, SleepAcquire, SpinStep, RaisePriority, SetCpusAllowed, DropPriority, TypeOK
    <2>4. QED
        BY <1>1, <1>k, <2>1, <2>2, <2>3
<1>4. ASSUME NEW c \in Cpus, Dispatch(c) PROVE FamilyInv'
    <2>1. Pick(c) \in Eligible(c)
        BY <1>4, PickIsEligible DEF Dispatch
    <2>2. \A r \in Slots : state'[r] = state[r] \/ (state[r] \in L /\ state'[r] = "RUNNING")
        BY <1>0, <1>4, <2>1 DEF Dispatch, Eligible, TypeOK
    <2>3. UNCHANGED <<pid, parent, kid, kpc, chan>>
        BY <1>4 DEF Dispatch
    <2>4. QED
        BY <1>a, <2>2, <2>3
<1>5. ASSUME NEW c \in Cpus, NEW p \in Slots, YieldSched(c, p) \/ WaitReturn(c, p) \/ SleepReturn(c, p)
      PROVE  FamilyInv'
    <2>1. state[p] = "RUNNING" /\ kpc[p] \notin {"fork_copy", "fork_pub"}
        BY <1>5, <1>r DEF YieldSched, WaitReturn, SleepReturn
    <2>2. \A r \in Slots : /\ state'[r] = state[r] \/ (state[r] \in L /\ state'[r] = "RUNNABLE")
                           /\ chan'[r] = chan[r] \/ chan'[r] = NULL
                           /\ r # p => kpc'[r] = kpc[r]
        BY <1>0, <1>5, <2>1 DEF YieldSched, WaitReturn, SleepReturn, TypeOK
    <2>3. UNCHANGED <<pid, parent, kid>>
        BY <1>5 DEF YieldSched, WaitReturn, SleepReturn
    <2>4. QED
        BY <1>a, <1>k, <2>1, <2>2, <2>3
<1>6. ASSUME NEW c \in Cpus, NEW p \in Slots, WaitSleep(c, p) \/ SleepSched(c, p) PROVE FamilyInv'
    <2>1. state[p] = "RUNNING" /\ kpc[p] \notin {"fork_copy", "fork_pub"}
        BY <1>6, <1>r DEF WaitSleep, SleepSched
    <2>2. \A r \in Slots \ {p} : state'[r] = state[r] /\ chan'[r] = chan[r] /\ kpc'[r] = kpc[r]
        BY <1>0, <1>6 DEF WaitSleep, SleepSched, TypeOK
    <2>3. UNCHANGED <<pid, parent, kid>> /\ state'[p] = "SLEEPING"
        BY <1>0, <1>6 DEF WaitSleep, SleepSched, TypeOK
    <2>4. chan'[p] = p => Children(p) # {} /\ Zombies(p) = {}
        BY <1>0, <1>6 DEF WaitSleep, SleepSched, TypeOK
    <2>5. QED
        BY <1>a, <1>k, <2>1, <2>2, <2>3, <2>4
<1>7. ASSUME NEW p \in Slots, DeviceInterrupt(p) PROVE FamilyInv'
    <2>1. \A r \in Slots : state'[r] = state[r] \/ (state[r] \in L /\ state'[r] = "RUNNABLE")
        BY <1>0, <1>7 DEF DeviceInterrupt, Woken, TypeOK
    <2>2. UNCHANGED <<pid, parent, kid, kpc, chan>>
        BY <1>7 DEF DeviceInterrupt
    <2>3. QED
        BY <1>a, <2>1, <2>2
<1>8. ASSUME NEW c \in Cpus, NEW p \in Slots, ForkAlloc(c, p) PROVE FamilyInv'
    <2>1. PICK q \in Slots :
             /\ state[q] = "UNUSED" /\ p # q
             /\ state' = [state EXCEPT ![q] = "EMBRYO"]
             /\ pid' = [pid EXCEPT ![q] = nextpid]
             /\ kpc' = [kpc EXCEPT ![q] = "forkret", ![p] = "fork_copy"]
             /\ kid' = [kid EXCEPT ![p] = q]
        <3> DEFINE S == {s \in Slots : state[s] = "UNUSED"}
        <3>1. S \subseteq Slots /\ S # {}
            BY <1>8 DEF ForkAlloc
        <3>2. First(S) \in S
            <4> HIDE DEF S
            <4> QED
                BY <3>1, FirstIsElement
        <3>3. QED
            BY <1>8, <1>r, <3>2 DEF ForkAlloc
    <2>2. UNCHANGED <<parent, chan>>
        BY <1>8 DEF ForkAlloc
    <2>3. ParentLinks'
        <3>1. \A r \in Slots : r # p /\ kid[r] # NULL => r # q /\ kid'[r] = kid[r] /\ kpc'[r] = kpc[r]
            BY <1>0, <1>k, <2>1 DEF TypeOK
        <3>2. kid'[p] = q /\ kpc'[p] = "fork_copy" /\ parent[q] = NULL
            BY <1>0, <2>1 DEF TypeOK, ParentLinks
        <3>3. \A r \in Slots : r # p => kid'[r] = kid[r]
            BY <1>0, <2>1 DEF TypeOK
        <3>4. \A r \in Slots : state'[r] = "UNUSED" => state[r] = "UNUSED"
            BY <1>0, <2>1 DEF TypeOK
        <3>5. QED
            BY <2>2, <3>1, <3>2, <3>3, <3>4 DEF ParentLinks
    <2>4. \A r \in Slots : r # q => state'[r] = state[r] /\ pid'[r] = pid[r]
        BY <1>0, <2>1 DEF TypeOK
    <2>5. state'[q] = "EMBRYO"
        BY <1>0, <2>1 DEF TypeOK
    <2>6. \A r \in Slots : Children(r)' = Children(r) /\ Zombies(r)' = Zombies(r)
        BY <2>1, <2>2, <2>4, <2>5 DEF Children, Zombies
    <2>7. WaitersHaveWork'
        BY <2>2, <2>4, <2>5, <2>6 DEF WaitersHaveWork
    <2>8. NoOrphans'
        BY <1>0, <2>1, <2>2, <2>4, <2>5 DEF NoOrphans, TypeOK
    <2>9. QED
        BY <2>3, <2>7, <2>8
<1>9. ASSUME NEW c \in Cpus, NEW p \in Slots, ForkFail(c, p) PROVE FamilyInv'
    <2> DEFINE q == kid[p]
    <2>1. kpc[p] = "fork_copy" /\ state[p] = "RUNNING" /\ q # NULL /\ q \in Slots /\ state[q] = "EMBRYO"
        BY <1>0, <1>9, <1>r, <1>k DEF ForkFail, Embryos
    <2>2. UNCHANGED <<pid, parent, chan>> /\ parent[q] = NULL
        BY <1>9, <2>1 DEF ForkFail, ParentLinks
    <2>3. state'[q] = "UNUSED" /\ \A r \in Slots : r # q => state'[r] = state[r]
        BY <1>0, <1>9, <2>1 DEF ForkFail, TypeOK
    <2>4. kid'[p] = NULL /\ \A r \in Slots : r # p => kid'[r] = kid[r] /\ kpc'[r] = kpc[r]
        BY <1>0, <1>9 DEF ForkFail, TypeOK
    <2> HIDE DEF q
    <2>5. ParentLinks'
        BY <2>2, <2>3, <2>4 DEF ParentLinks
    <2>6. \A r \in Slots : Children(r)' = Children(r) /\ Zombies(r)' = Zombies(r)
        BY <2>1, <2>2, <2>3 DEF Children, Zombies
    <2>7. WaitersHaveWork'
        BY <2>2, <2>3, <2>6 DEF WaitersHaveWork
    <2>8. NoOrphans'
        BY <1>0, <2>1, <2>2, <2>3 DEF NoOrphans, TypeOK
    <2>9. QED
        BY <2>5, <2>7, <2>8
<1>10. ASSUME NEW c \in Cpus, NEW p \in Slots, ForkCopy(c, p) PROVE FamilyInv'
    <2> DEFINE q == kid[p]
    <2>1. kpc[p] = "fork_copy" /\ state[p] = "RUNNING" /\ q # NULL /\ q \in Slots /\ state[q] = "EMBRYO"
        BY <1>0, <1>10, <1>r, <1>k DEF ForkCopy, Embryos
    <2>2. UNCHANGED <<pid, state, chan, kid>> /\ parent[q] = NULL
        BY <1>10, <2>1 DEF ForkCopy, ParentLinks
    <2>3. parent'[q] = p /\ \A r \in Slots : r # q => parent'[r] = parent[r]
        BY <1>0, <1>10, <2>1 DEF ForkCopy, TypeOK
    <2>4. kpc'[p] = "fork_pub" /\ \A r \in Slots : r # p => kpc'[r] = kpc[r]
        BY <1>0, <1>10 DEF ForkCopy, TypeOK
    <2>5. \A r \in Slots : r # p /\ kid[r] # NULL => kid[r] # q
        BY <1>0, <2>1 DEF Embryos
    <2>6. kid[p] = q
        OBVIOUS
    <2> HIDE DEF q
    <2>7. ParentLinks'
        <3>1. \A r \in Slots : state'[r] = "UNUSED" => parent'[r] = NULL
            BY <2>1, <2>2, <2>3 DEF ParentLinks
        <3>2. \A r \in Slots : r # p /\ kid[r] # NULL => parent'[kid[r]] = parent[kid[r]]
            BY <1>k, <2>3, <2>5
        <3>3. QED
            <4>1. parent'[initproc] = NULL /\ \A r \in Slots : parent'[r] # r
                BY <1>0, <2>1, <2>3 DEF ParentLinks, InitprocStays
            <4>2. QED
                BY <2>2, <2>3, <2>4, <2>6, <3>1, <3>2, <4>1 DEF ParentLinks
    <2>8. \A r \in Slots : r # p => Children(r)' = Children(r) /\ Zombies(r)' = Zombies(r)
        BY <2>1, <2>2, <2>3 DEF Children, Zombies
    <2>9. WaitersHaveWork'
        BY <2>1, <2>2, <2>8 DEF WaitersHaveWork
    <2>10. NoOrphans'
        BY <2>1, <2>2, <2>3 DEF NoOrphans
    <2>11. QED
        BY <2>7, <2>9, <2>10
<1>11. ASSUME NEW c \in Cpus, NEW p \in Slots, ForkPublish(c, p) PROVE FamilyInv'
    <2> DEFINE q == kid[p]
    <2>1. kpc[p] = "fork_pub" /\ state[p] = "RUNNING" /\ q # NULL /\ q \in Slots /\ state[q] = "EMBRYO"
        BY <1>0, <1>11, <1>r, <1>k DEF ForkPublish, Embryos
    <2>2. UNCHANGED <<pid, parent, chan>> /\ parent[q] = p
        BY <1>11, <2>1 DEF ForkPublish, ParentLinks
    <2>3. state'[q] = "RUNNABLE" /\ \A r \in Slots : r # q => state'[r] = state[r]
        BY <1>0, <1>11, <2>1 DEF ForkPublish, TypeOK
    <2>4. kid'[p] = NULL /\ \A r \in Slots : r # p => kid'[r] = kid[r] /\ kpc'[r] = kpc[r]
        BY <1>0, <1>11 DEF ForkPublish, TypeOK
    <2> HIDE DEF q
    <2>5. ParentLinks'
        BY <2>2, <2>3, <2>4 DEF ParentLinks
    <2>6. \A r \in Slots : Children(r)' = Children(r) /\ Zombies(r)' = Zombies(r)
        BY <2>1, <2>2, <2>3 DEF Children, Zombies
    <2>7. WaitersHaveWork'
        BY <2>2, <2>3, <2>6 DEF WaitersHaveWork
    <2>8. NoOrphans'
        BY <1>0, <2>1, <2>2, <2>3 DEF NoOrphans, TypeOK
    <2>9. QED
        BY <2>5, <2>7, <2>8
<1>12. ASSUME NEW c \in Cpus, NEW p \in Slots, ExitSched(c, p) PROVE FamilyInv'
    <2>1. state[p] = "RUNNING" /\ kpc[p] = "exit_cs" /\ p # initproc /\ state[initproc] \in L
        BY <1>0, <1>12, <1>r DEF ExitSched, InitprocStays
    <2>2. /\ UNCHANGED <<pid, chan, kid>> /\ state'[p] = "ZOMBIE"
          /\ \A r \in Slots : r # p => kpc'[r] = kpc[r]
        BY <1>0, <1>12 DEF ExitSched, Woken, TypeOK
    <2>3. \A r \in Slots : parent'[r] = IF parent[r] = p THEN initproc ELSE parent[r]
        BY <1>12 DEF ExitSched, Children
    <2>4. \A r \in Slots : r # p =>
              state'[r] = IF state[r] = "SLEEPING" /\ chan[r] \in ExitWakes(p)
                          THEN "RUNNABLE" ELSE state[r]
        BY <1>12 DEF ExitSched, Woken
    <2>5. ParentLinks'
        <3>1. \A r \in Slots : kid[r] # NULL => r # p /\ parent[kid[r]] # p
            BY <1>k, <2>1 DEF ParentLinks
        <3>2. \A r \in Slots : state'[r] = "UNUSED" => state[r] = "UNUSED"
            BY <2>2, <2>4
        <3>3. QED
            BY <1>k, <2>2, <2>3, <3>1, <3>2 DEF ParentLinks
    <2>6. WaitersHaveWork'
        <3> SUFFICES ASSUME NEW r \in Slots, state'[r] = "SLEEPING", chan'[r] = r
                     PROVE  Children(r)' # {} /\ Zombies(r)' = {}
            BY DEF WaitersHaveWork
        <3>1. r # p /\ state[r] = "SLEEPING" /\ chan[r] = r /\ r \notin ExitWakes(p)
            BY <2>2, <2>4
        <3>2. Children(r) # {} /\ Zombies(r) = {}
            BY <3>1 DEF WaitersHaveWork
        <3>3. parent[p] # r /\ (r = initproc => \A q \in Children(p) : state[q] # "ZOMBIE")
            BY <3>1 DEF ExitWakes
        <3>4. Children(r)' # {}
            BY <2>3, <3>1, <3>2 DEF Children
        <3>5. ASSUME NEW q \in Slots, parent'[q] = r PROVE state'[q] # "ZOMBIE"
            <4>1. CASE parent[q] = p
                <5>1. r = initproc /\ q \in Children(p) /\ q # p
                    BY <2>3, <3>5, <4>1 DEF Children, ParentLinks
                <5>2. QED
                    BY <2>4, <3>3, <5>1
            <4>2. CASE parent[q] # p
                <5>1. parent[q] = r /\ q # p
                    BY <2>3, <3>3, <3>5, <4>2
                <5>2. state[q] # "ZOMBIE"
                    BY <3>2, <5>1 DEF Zombies, Children
                <5>3. QED
                    BY <2>4, <5>1, <5>2
            <4>3. QED
                BY <4>1, <4>2
        <3>6. QED
            BY <3>4, <3>5 DEF Zombies, Children
    <2>7. NoOrphans'
        <3> SUFFICES ASSUME NEW q \in Slots, state'[q] \in L \cup {"ZOMBIE"}, pid'[q] > NIDLE + 1
                     PROVE  parent'[q] # NULL /\ state'[parent'[q]] \in L
            BY DEF NoOrphans
        <3>1. state[q] \in L \cup {"ZOMBIE"} /\ pid[q] > NIDLE + 1
            BY <2>1, <2>2, <2>4
        <3>2. parent[q] # NULL /\ state[parent[q]] \in L /\ parent[q] \in Slots
            BY <1>0, <3>1 DEF NoOrphans, TypeOK
        <3>3. parent'[q] \in Slots \ {p} /\ state[parent'[q]] \in L
            BY <2>1, <2>3, <3>2
        <3>4. QED
            BY <2>4, <3>3
    <2>8. QED
        BY <2>5, <2>6, <2>7
<1>13. ASSUME NEW c \in Cpus, NEW p \in Slots, WaitReap(c, p) PROVE FamilyInv'
    <2>1. Zombies(p) \subseteq Slots /\ Zombies(p) # {}
        BY <1>13 DEF WaitReap, Zombies, Children
    <2>2. First(Zombies(p)) \in Zombies(p)
        BY <2>1, FirstIsElement
    <2>3. PICK q \in Slots :
             /\ state[q] = "ZOMBIE" /\ parent[q] = p
             /\ state' = [state EXCEPT ![q] = "UNUSED"]
             /\ pid' = [pid EXCEPT ![q] = 0]
             /\ parent' = [parent EXCEPT ![q] = NULL]
        BY <1>13, <2>2 DEF WaitReap, Zombies, Children
    <2>4. state[p] = "RUNNING" /\ kpc[p] = "wait_cs" /\ UNCHANGED <<chan, kid>>
        BY <1>13, <1>r DEF WaitReap
    <2>5. \A r \in Slots : r # p => kpc'[r] = kpc[r]
        BY <1>0, <1>13 DEF WaitReap, TypeOK
    <2>6. /\ state'[q] = "UNUSED" /\ pid'[q] = 0 /\ parent'[q] = NULL
          /\ \A r \in Slots : r # q => state'[r] = state[r] /\ pid'[r] = pid[r] /\ parent'[r] = parent[r]
        BY <1>0, <2>3 DEF TypeOK
    <2>7. ParentLinks'
        <3>1. \A r \in Slots : kid[r] # NULL => r # p /\ kid[r] # q
            BY <1>k, <2>3, <2>4
        <3>2. QED
            BY <1>k, <2>4, <2>5, <2>6, <3>1 DEF ParentLinks
    <2>8. \A r \in Slots : r # p => Children(r)' = Children(r) /\ Zombies(r)' = Zombies(r)
        BY <2>3, <2>6 DEF Children, Zombies
    <2>9. WaitersHaveWork'
        <3>1. \A r \in Slots : state'[r] = "SLEEPING" => r # p /\ state[r] = "SLEEPING"
            BY <2>3, <2>4, <2>6
        <3>2. QED
            BY <2>4, <2>8, <3>1 DEF WaitersHaveWork
    <2>10. NoOrphans'
        <3> SUFFICES ASSUME NEW r \in Slots, state'[r] \in L \cup {"ZOMBIE"}, pid'[r] > NIDLE + 1
                     PROVE  parent'[r] # NULL /\ state'[parent'[r]] \in L
            BY DEF NoOrphans
        <3>1. r # q /\ state[r] \in L \cup {"ZOMBIE"} /\ pid[r] > NIDLE + 1
            BY <2>6
        <3>2. parent[r] # NULL /\ state[parent[r]] \in L /\ parent[r] \in Slots
            BY <1>0, <3>1 DEF NoOrphans, TypeOK
        <3>3. parent[r] # q
            BY <2>3, <3>2
        <3>4. QED
            BY <2>6, <3>1, <3>2, <3>3
    <2>11. QED
        BY <2>7, <2>9, <2>10
<1>14. ASSUME UNCHANGED vars PROVE FamilyInv'
    BY <1>1, <1>14 DEF vars
<1>15. QED
    BY <1>2, <1>3, <1>4, <1>5, <1>6, <1>7, <1>8, <1>9, <1>10, <1>11, <1>12, <1>13, <1>14
    DEF Next, SchedulerStep, KernelStep, SystemCall

(* The inductive invariant holds of every behaviour. *)
THEOREM ProcInvariant == Spec => []ProcInv
<1>1. Init => ProcInv
    <2> SUFFICES ASSUME Init PROVE ProcInv
        OBVIOUS
    <2>1. ParentLinks
        BY Pointers DEF Init, ParentLinks
    <2>2. WaitersHaveWork
        BY DEF Init, WaitersHaveWork
    <2>3. NoOrphans
        <3>1. \A q \in Slots : ~(pid[q] > NIDLE + 1)
            BY ProcAssumption DEF Init, Booted, Slots
        <3>2. QED
            BY <3>1 DEF NoOrphans
    <2>4. QED
        BY InitSwitchInv, <2>1, <2>2, <2>3 DEF ProcInv, FamilyInv
<1>2. ProcInv /\ [Next]_vars => ProcInv'
    BY NextSwitchInv, NextFamilyInv DEF ProcInv
<1>3. QED
    BY <1>1, <1>2, PTL DEF Spec

(* No exit is missed: a parent asleep in wait() has children, none a zombie. *)
THEOREM ExitIsSeen == Spec => []NoMissedExit
<1>1. ProcInv => NoMissedExit
    BY DEF ProcInv, FamilyInv, WaitersHaveWork, NoMissedExit
<1>2. QED
    BY ProcInvariant, <1>1, PTL

(* A process has a live parent, through any order of forks, exits and waits. *)
THEOREM SomebodyReaps == Spec => []ParentIsAlive
<1>1. ProcInv => ParentIsAlive
    BY DEF ProcInv, FamilyInv, NoOrphans, ParentIsAlive
<1>2. QED
    BY ProcInvariant, <1>1, PTL

(* wait() never frees a kernel stack a core still executes on. *)
THEOREM StackIsSafe == Spec => []StackInUse
<1>1. ProcInv => StackInUse
    <2> SUFFICES ASSUME ProcInv, NEW c \in Cpus, cpc[c] \in {"run", "swtch"}
                 PROVE  kstack[cpuProc[c]]
        BY DEF StackInUse
    <2>1. cpuProc[c] \in Slots
        BY DEF ProcInv, SwitchInv, TypeOK, CurrentProcess
    <2>2. state[cpuProc[c]] # "UNUSED"
        BY DEF ProcInv, SwitchInv, CurrentProcess
    <2>3. QED
        BY <2>1, <2>2 DEF ProcInv, SwitchInv, SavedContexts
<1>2. QED
    BY ProcInvariant, <1>1, PTL

(* Whenever ptable.lock is free, RUNNING means current on a core. *)
THEOREM RunningMeansOnCpu == Spec => []RunningIsOnCpu
<1>1. ProcInv => RunningIsOnCpu
    <2> SUFFICES ASSUME ProcInv, lock = NULL, NEW p \in Slots
                 PROVE  state[p] = "RUNNING" <=> \E c \in Cpus : cpuProc[c] = p
        BY DEF RunningIsOnCpu
    <2>1. ASSUME NEW c \in Cpus, cpuProc[c] = p PROVE state[p] = "RUNNING"
        <3>1. cpc[c] \notin {"scan", "swtch", "back"}
            BY Pointers DEF ProcInv, SwitchInv, LockPlaces, HoldsLock
        <3>2. cpc[c] # "acquire" /\ cpc[c] # "panic"
            BY <2>1, Pointers DEF ProcInv, SwitchInv, CurrentProcess, NoPanic
        <3>3. cpc[c] = "run"
            BY <3>1, <3>2 DEF ProcInv, SwitchInv, TypeOK, CpuPlaces
        <3>4. QED
            BY <2>1, <3>3 DEF ProcInv, SwitchInv, CurrentProcess
    <2>2. QED
        BY <2>1 DEF ProcInv, SwitchInv, SavedContexts, OnCpu
<1>2. QED
    BY ProcInvariant, <1>1, PTL
=============================================================================

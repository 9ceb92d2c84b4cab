-------------------------- MODULE SleepLockProofs --------------------------
(***************************************************************************)
(* Proofs about SleepLock, for any set of processes and any number of       *)
(* cores.                                                                   *)
(***************************************************************************)
EXTENDS SleepLock, TLAPS

(* The state after initsleeplock() satisfies the inductive invariant. *)
LEMMA InitSleepInv == Init => SleepInv
<1> SUFFICES ASSUME Init PROVE SleepInv
    OBVIOUS
<1> USE SleepLockAssumption DEF Init
<1>1. TypeOK
    BY DEF TypeOK, Labels
<1>2. PidIsHolder /\ NoPanic /\ NoLostWakeup
    BY DEF PidIsHolder, NoPanic, NoLostWakeup, Holding
<1>3. QED
    BY <1>1, <1>2 DEF SleepInv, LkPlaces, PtablePlaces, SwitchPlaces

(* Every step of acquiresleep(), sleep(), wakeup(), releasesleep() and the  *)
(* scheduler preserves the inductive invariant.                             *)
LEMMA NextSleepInv == SleepInv /\ [Next]_vars => SleepInv'
<1> SUFFICES ASSUME SleepInv, [Next]_vars PROVE SleepInv'
    OBVIOUS
<1> USE SleepLockAssumption DEF SleepInv, TypeOK, Labels, PidIsHolder, NoPanic,
    NoLostWakeup, Holding, LkPlaces, PtablePlaces, SwitchPlaces, Goto, lockVars, procVars
<1>0. CASE UNCHANGED vars
    BY <1>0 DEF vars
<1>1. ASSUME NEW p \in Procs, Dispatch(p) PROVE SleepInv'
    BY <1>1 DEF Dispatch
<1>2. ASSUME NEW p \in Procs, Resume(p) PROVE SleepInv'
    BY <1>2 DEF Resume
<1>3. ASSUME NEW p \in Procs, Yield(p) PROVE SleepInv'
    BY <1>3 DEF Yield
<1>4. ASSUME NEW p \in Procs, SleepIo(p) PROVE SleepInv'
    BY <1>4 DEF SleepIo
<1>5. ASSUME NEW p \in Procs, ResumeIo(p) PROVE SleepInv'
    BY <1>5 DEF ResumeIo
<1>6. ASSUME NEW p \in Procs, CallAcquireSleep(p) PROVE SleepInv'
    BY <1>6 DEF CallAcquireSleep
<1>7. ASSUME NEW p \in Procs, AcquireLk(p) PROVE SleepInv'
    BY <1>7 DEF AcquireLk
<1>8. ASSUME NEW p \in Procs, TestLocked(p) PROVE SleepInv'
    BY <1>8 DEF TestLocked
<1>9. ASSUME NEW p \in Procs, TakeLock(p) PROVE SleepInv'
    BY <1>9 DEF TakeLock
<1>10. ASSUME NEW p \in Procs, ReleaseLkTaken(p) PROVE SleepInv'
    BY <1>10 DEF ReleaseLkTaken
<1>11. ASSUME NEW p \in Procs, SleepAcquirePtable(p) PROVE SleepInv'
    BY <1>11 DEF SleepAcquirePtable
<1>12. ASSUME NEW p \in Procs, SleepReleaseLk(p) PROVE SleepInv'
    BY <1>12 DEF SleepReleaseLk
<1>13. ASSUME NEW p \in Procs, SleepOff(p) PROVE SleepInv'
    BY <1>13 DEF SleepOff
<1>14. ASSUME NEW p \in Procs, SleepReturn(p) PROVE SleepInv'
    BY <1>14 DEF SleepReturn
<1>15. ASSUME NEW p \in Procs, HoldingSleep(p) PROVE SleepInv'
    BY <1>15 DEF HoldingSleep
<1>16. ASSUME NEW p \in Procs, AcquireLkRelease(p) PROVE SleepInv'
    BY <1>16 DEF AcquireLkRelease
<1>17. ASSUME NEW p \in Procs, ClearLock(p) PROVE SleepInv'
    <2>0. locked' = FALSE /\ pc' = [pc EXCEPT ![p] = "wake"] /\ pid = p
        BY <1>17 DEF ClearLock
    <2>1. TypeOK' /\ PidIsHolder' /\ NoPanic'
        <3>1. TypeOK'
            BY <1>17 DEF ClearLock
        <3>2. \A q \in Procs : pc'[q] \notin Holding
            BY <2>0
        <3>3. QED
            BY <2>0, <3>1, <3>2
    <2>2. pc'[p] = "wake"
        BY <1>17 DEF ClearLock
    <2>3. lk = p /\ \A q \in Procs : q # p => pc'[q] \notin LkPlaces
        BY <1>17 DEF ClearLock
    <2>4. NoLostWakeup'
        BY <2>2
    <2>5. \A q \in Procs : pc'[q] \notin {"sleep_pt", "sleep_unlk"}
        BY <2>2, <2>3
    <2>6. \A q \in Procs : (pc'[q] \in LkPlaces <=> lk' = q)
        BY <1>17, <2>2, <2>3 DEF ClearLock
    <2>7. \A q \in Procs :
             ptable' = q <=> \/ pc'[q] \in PtablePlaces
                             \/ pc'[q] \in SwitchPlaces /\ state'[q] = "RUNNING"
        BY <1>17 DEF ClearLock
    <2>8. \A q \in Procs : /\ state'[q] # "RUNNING" => pc'[q] \in SwitchPlaces
                           /\ chan'[q] = "lock" <=> pc'[q] = "sleep_on"
                           /\ chan'[q] = "io" <=> pc'[q] = "io_on"
        BY <1>17 DEF ClearLock
    <2>9. QED
        BY <1>17, <2>1, <2>2, <2>4, <2>5, <2>6, <2>7, <2>8 DEF ClearLock
<1>18. ASSUME NEW p \in Procs, Wakeup(p) PROVE SleepInv'
    BY <1>18 DEF Wakeup, Woken
<1>19. ASSUME NEW p \in Procs, ReleaseLk(p) PROVE SleepInv'
    BY <1>19 DEF ReleaseLk
<1>20. CASE IoInterrupt
    BY <1>20 DEF IoInterrupt, Woken
<1>21. QED
    BY <1>0, <1>1, <1>2, <1>3, <1>4, <1>5, <1>6, <1>7, <1>8, <1>9, <1>10, <1>11, <1>12, <1>13, <1>14, <1>15, <1>16, <1>17, <1>18, <1>19, <1>20
    DEF Next, SpinStep, LocalStep

(* The sleeplock's inductive invariant holds of every behaviour. *)
THEOREM SleepLockInvariant == Spec => []SleepInv
<1>1. Init => SleepInv
    BY InitSleepInv
<1>2. SleepInv /\ [Next]_vars => SleepInv'
    BY NextSleepInv
<1>3. QED
    BY <1>1, <1>2, PTL DEF Spec

(* sleep() never loses a wakeup(): a process asleep on the lock finds it    *)
(* held, or a release on its way to wakeup().                               *)
THEOREM SleepLockNoLostWakeup == Spec => []NoLostWakeup
<1>1. SleepInv => NoLostWakeup
    BY DEF SleepInv
<1>2. QED
    BY SleepLockInvariant, <1>1, PTL

(* Every behaviour of the sleeplock is a behaviour of the abstract lock. *)
THEOREM SleepLockIsMutex == Spec => ImplementsMutex
<1> DEFINE holder == IF locked THEN pid ELSE NULL
<1>1. Init => Lock!Init
    BY DEF Init, Lock!Init
<1>2. SleepInv /\ [Next]_vars => Lock!Next \/ UNCHANGED holder
    <2> SUFFICES ASSUME SleepInv, [Next]_vars PROVE Lock!Next \/ UNCHANGED holder
        OBVIOUS
    <2>1. CASE \E p \in Procs : TakeLock(p)
        BY <2>1 DEF TakeLock, Lock!Next, Lock!Take
    <2>2. CASE \E p \in Procs : ClearLock(p)
        BY <2>2 DEF ClearLock, Lock!Next, Lock!Give, SleepInv, PidIsHolder, Holding, Goto
    <2>3. CASE UNCHANGED <<locked, pid>>
        BY <2>3
    <2>4. QED
        BY <2>1, <2>2, <2>3 DEF Next, SpinStep, LocalStep, vars, lockVars, procVars,
           Dispatch, Resume, Yield, SleepIo, ResumeIo, IoInterrupt, CallAcquireSleep, AcquireLk,
           TestLocked, ReleaseLkTaken, SleepAcquirePtable, SleepReleaseLk, SleepOff,
           SleepReturn, HoldingSleep, AcquireLkRelease, Wakeup, ReleaseLk
<1>3. QED
    BY <1>1, <1>2, SleepLockInvariant, PTL DEF Spec, ImplementsMutex, Lock!Spec
=============================================================================

----------------------------- MODULE LogProofs -----------------------------
(***************************************************************************)
(* Proofs about Log, for any number of processes and blocks and any sizes   *)
(* of the log: operations are atomic and durable whatever the moment of a   *)
(* crash, and stay within the log's space.                                  *)
(***************************************************************************)
EXTENDS Log, FiniteSetTheorems, TLAPS

-----------------------------------------------------------------------------
(* Counting *)

(* The processes and their reservations are finitely many. *)
LEMMA Finiteness ==
    /\ \A S : S \subseteq Procs => IsFiniteSet(S) /\ Cardinality(S) \in Nat
    /\ \A S : S \subseteq Procs =>
          /\ IsFiniteSet(S \X (1..MAXOPBLOCKS))
          /\ Cardinality(S \X (1..MAXOPBLOCKS)) = Cardinality(S) * MAXOPBLOCKS
<1>1. ASSUME NEW S, S \subseteq Procs PROVE IsFiniteSet(S) /\ Cardinality(S) \in Nat
    BY <1>1, FS_Subset, FS_CardinalityType, LogAssumption
<1>2. IsFiniteSet(1..MAXOPBLOCKS) /\ Cardinality(1..MAXOPBLOCKS) = MAXOPBLOCKS
    BY FS_Interval, LogAssumption
<1>3. ASSUME NEW S, S \subseteq Procs
      PROVE  /\ IsFiniteSet(S \X (1..MAXOPBLOCKS))
             /\ Cardinality(S \X (1..MAXOPBLOCKS)) = Cardinality(S) * MAXOPBLOCKS
    BY <1>1, <1>2, <1>3, FS_Product
<1>4. QED
    BY <1>1, <1>3

(* A set of reservations of some processes is finite and at most what       *)
(* begin_op() counts for them.                                              *)
LEMMA ReserveBound ==
    ASSUME NEW S, S \subseteq Procs, NEW R, R \subseteq S \X (1..MAXOPBLOCKS)
    PROVE  /\ IsFiniteSet(R) /\ Cardinality(R) \in Nat
           /\ Cardinality(R) <= Cardinality(S) * MAXOPBLOCKS
<1> DEFINE T == S \X (1..MAXOPBLOCKS)
<1>1. IsFiniteSet(T) /\ Cardinality(T) = Cardinality(S) * MAXOPBLOCKS
    BY Finiteness
<1> HIDE DEF T
<1>2. R \subseteq T
    BY DEF T
<1>3. QED
    BY <1>1, <1>2, FS_Subset, FS_CardinalityType

(* What the processes of A have still reserved when they have used u. *)
Places(A, u) == {x \in A \X (1..MAXOPBLOCKS) : x[2] > Cardinality(u[x[1]])}

(* Reservations do not grow if no operation begins and none forgets a block *)
(* that it has logged.                                                      *)
LEMMA ReserveShrinks ==
    ASSUME NEW A, NEW B, B \subseteq A, A \subseteq Procs,
           NEW u, NEW v, \A p \in B : IsFiniteSet(v[p]) /\ u[p] \subseteq v[p]
    PROVE  /\ Places(B, v) \subseteq Places(A, u)
           /\ Cardinality(Places(B, v)) \in Nat /\ Cardinality(Places(A, u)) \in Nat
           /\ Cardinality(Places(B, v)) <= Cardinality(Places(A, u))
<1> DEFINE R == Places(A, u)
           Q == Places(B, v)
<1> USE DEF Places
<1>1. ASSUME NEW x \in Q PROVE x \in R
    <2>1. x[1] \in B /\ x[2] \in 1..MAXOPBLOCKS /\ x[2] > Cardinality(v[x[1]]) /\ x \in A \X (1..MAXOPBLOCKS)
        OBVIOUS
    <2>2. /\ IsFiniteSet(v[x[1]]) /\ IsFiniteSet(u[x[1]])
          /\ Cardinality(u[x[1]]) <= Cardinality(v[x[1]])
        BY <2>1, FS_Subset
    <2>3. Cardinality(u[x[1]]) \in Nat /\ Cardinality(v[x[1]]) \in Nat
        BY <2>2, FS_CardinalityType
    <2>4. QED
        BY <2>1, <2>2, <2>3
<1>2. IsFiniteSet(R)
    <2>1. R \subseteq A \X (1..MAXOPBLOCKS)
        OBVIOUS
    <2> HIDE DEF R
    <2>2. QED
        BY <2>1, ReserveBound
<1> HIDE DEF R, Q, Places
<1>3. Q \subseteq R
    BY <1>1
<1>4. Cardinality(Q) \in Nat /\ Cardinality(R) \in Nat /\ Cardinality(Q) <= Cardinality(R)
    BY <1>2, <1>3, FS_Subset, FS_CardinalityType
<1>5. QED
    BY <1>3, <1>4 DEF R, Q

(* An operation in progress leaves part of its reservation unused. *)
LEMMA RoomForMore ==
    ASSUME TypeOK, SpaceReserved, NEW p \in Active
    PROVE  Len(lh) + MAXOPBLOCKS <= LOGSIZE + OpBlocks
<1> DEFINE k == Cardinality(Used(p))
           I == (k+1)..MAXOPBLOCKS
           f == [i \in I |-> <<p, i>>]
<1>1. p \in Procs /\ MAXOPBLOCKS \in Nat /\ LOGSIZE \in Nat /\ OpBlocks \in Nat /\ Len(lh) \in Nat
    BY LogAssumption DEF Active, TypeOK
<1>2. k \in Nat /\ k <= OpBlocks
    <2>1. /\ IsFiniteSet(own[p]) /\ Cardinality(own[p]) <= OpBlocks /\ Used(p) \subseteq own[p]
        BY <1>1 DEF SpaceReserved, Used
    <2>2. IsFiniteSet(Used(p)) /\ Cardinality(Used(p)) <= Cardinality(own[p])
        BY <2>1, FS_Subset
    <2>3. Cardinality(Used(p)) \in Nat /\ Cardinality(own[p]) \in Nat
        BY <2>1, <2>2, FS_CardinalityType
    <2>4. QED
        BY <1>1, <2>1, <2>2, <2>3
<1>3. IsFiniteSet(I) /\ Cardinality(I) = MAXOPBLOCKS - k
    <2>1. k + 1 \in Int /\ MAXOPBLOCKS \in Int /\ k + 1 <= MAXOPBLOCKS
        BY <1>1, <1>2, ReservationAssumption
    <2> HIDE DEF k
    <2>2. QED
        BY <1>2, <2>1, FS_Interval
<1>4. IsFiniteSet(Reserve) /\ Cardinality(Reserve) \in Nat
    <2>1. Active \subseteq Procs /\ Reserve \subseteq Active \X (1..MAXOPBLOCKS)
        BY DEF Active, Reserve
    <2>2. QED
        BY <2>1, ReserveBound
<1>5. f \in Injection(I, Reserve)
    <2>1. ASSUME NEW i \in I PROVE <<p, i>> \in Reserve
        <3>1. i \in 1..MAXOPBLOCKS /\ i > k
            BY <1>1, <1>2
        <3>2. QED
            BY <3>1 DEF Reserve
    <2>2. QED
        BY <2>1 DEF Injection, IsInjective
<1>6. Cardinality(I) <= Cardinality(Reserve)
    BY <1>3, <1>4, <1>5, FS_Injection
<1>7. Len(lh) + Cardinality(Reserve) <= LOGSIZE
    BY DEF SpaceReserved
<1> HIDE DEF k, I
<1>8. QED
    BY <1>1, <1>2, <1>3, <1>4, <1>6, <1>7

-----------------------------------------------------------------------------
(* Every step keeps the invariant, conjunct by conjunct. *)

SafeLog == LogInv /\ NoPanic

(* Types, and the capacity of the header. *)
LEMMA TypeStep == SafeLog /\ [Next]_vars => TypeOK'
<1> SUFFICES ASSUME SafeLog, [Next]_vars PROVE TypeOK'
    OBVIOUS
<1> USE LogAssumption DEF SafeLog, LogInv, TypeOK, Labels, diskVars, opVars, Goto
<1>1. ASSUME ReadHead PROVE TypeOK'
    BY <1>1 DEF ReadHead
<1>2. ASSUME InstallBlock, UNCHANGED <<boot, opVars>> PROVE TypeOK'
    <2>1. tail + 1 \in 1..Len(lh) /\ lh[tail + 1] \in Blocks /\ slots[tail + 1] \in Vals
        BY <1>2 DEF InstallBlock
    <2>2. QED
        BY <1>2, <2>1 DEF InstallBlock
<1>3. ASSUME RecoverErase PROVE TypeOK'
    BY <1>3 DEF RecoverErase, EraseHead
<1>4. ASSUME StartUser PROVE TypeOK'
    BY <1>4 DEF StartUser
<1>5. ASSUME Crash PROVE TypeOK'
    <2>1. <<>> \in Seq(Blocks) /\ Len(<<>>) = 0
        OBVIOUS
    <2>2. pc' \in [Procs -> Labels] /\ own' \in [Procs -> SUBSET Blocks]
        BY <1>5 DEF Crash
    <2>3. mem' \in [Blocks -> Vals] /\ lh' \in Seq(Blocks) /\ Len(lh') <= LOGSIZE
        BY <1>5, <2>1 DEF Crash
    <2>4. QED
        BY <1>5, <2>2, <2>3 DEF Crash
<1>6. ASSUME NEW p \in Procs, CallBeginOp(p) \/ BeginOp(p) \/ BeginSleep(p) \/ LooseBegin(p) \/ LooseEnd(p)
      PROVE  TypeOK'
    <2>1. CASE CallBeginOp(p) \/ BeginSleep(p) \/ LooseBegin(p)
        BY <2>1 DEF CallBeginOp, BeginSleep, LooseBegin
    <2>2. CASE BeginOp(p)
        BY <2>2 DEF BeginOp
    <2>3. CASE LooseEnd(p)
        BY <2>3 DEF LooseEnd
    <2>4. QED
        BY <1>6, <2>1, <2>2, <2>3
<1>7. ASSUME NEW p \in Procs, NEW b \in Blocks, NEW v \in Vals, ModifyBlock(p, b, v)
      PROVE  TypeOK'
    <2>1. pc' \in [Procs -> Labels]
        BY <1>7 DEF ModifyBlock
    <2>2. mem' \in [Blocks -> Vals] /\ own' \in [Procs -> SUBSET Blocks] /\ target' \in [Procs -> Blocks]
        BY <1>7 DEF ModifyBlock
    <2>3. QED
        BY <1>7, <2>1, <2>2 DEF ModifyBlock
<1>8. ASSUME NEW p \in Procs, LogWriteCheck(p) PROVE TypeOK'
    BY <1>8 DEF LogWriteCheck
<1>9. ASSUME NEW p \in Procs, LogWrite(p) PROVE TypeOK'
    <2>1. p \in Active
        BY <1>9 DEF LogWrite, Active
    <2>2. Len(lh) + 1 <= LOGSIZE
        BY <2>1, RoomForMore, ReservationAssumption
    <2>3. lh' \in Seq(Blocks) /\ Len(lh') <= LOGSIZE
        BY <1>9, <2>2 DEF LogWrite
    <2>4. QED
        BY <1>9, <2>3 DEF LogWrite
<1>10. ASSUME NEW p \in Procs, EndOp(p) PROVE TypeOK'
    <2>1. outstanding' \in Nat
        <3>1. IsFiniteSet(Operating) /\ p \in Operating
            BY <1>10, Finiteness DEF EndOp, Operating, OpPlaces
        <3>2. Cardinality(Operating) # 0
            BY <3>1, FS_EmptySet
        <3>3. QED
            BY <1>10, <3>2 DEF EndOp, Counters
    <2>2. pc' \in [Procs -> Labels]
        BY <1>10 DEF EndOp, Awake
    <2>3. QED
        BY <1>10, <2>1, <2>2 DEF EndOp
<1>11. ASSUME NEW p \in Procs, EndOpLast(p) PROVE TypeOK'
    BY <1>11 DEF EndOpLast
<1>12. ASSUME NEW p \in Procs, WriteLog(p) PROVE TypeOK'
    <2>1. tail + 1 \in 1..Len(lh) /\ mem[lh[tail + 1]] \in Vals
        BY <1>12 DEF WriteLog
    <2>2. QED
        BY <1>12, <2>1 DEF WriteLog
<1>13. ASSUME NEW p \in Procs, WriteHead(p) PROVE TypeOK'
    BY <1>13 DEF WriteHead
<1>14. ASSUME NEW p \in Procs, Erase(p) PROVE TypeOK'
    BY <1>14 DEF Erase, EraseHead
<1>15. ASSUME NEW p \in Procs, EndCommit(p) PROVE TypeOK'
    BY <1>15 DEF EndCommit, Awake
<1>16. ASSUME UNCHANGED vars PROVE TypeOK'
    BY <1>16 DEF vars
<1>17. QED
    BY <1>1, <1>2, <1>3, <1>4, <1>5, <1>6, <1>7, <1>8, <1>9, <1>10, <1>11, <1>12, <1>13,
       <1>14, <1>15, <1>16
    DEF Next, Recovery, RecoverInstall, LogWriteStep, CommitStep, Install

(* The order of start-up. *)
LEMMA BootStep == SafeLog /\ [Next]_vars => BootOrder'
<1> SUFFICES ASSUME SafeLog, [Next]_vars PROVE BootOrder'
    OBVIOUS
<1> USE LogAssumption DEF SafeLog, LogInv, TypeOK, BootOrder, LoosePlaces, opVars, Goto
<1>1. ASSUME ReadHead \/ RecoverErase PROVE BootOrder'
    BY <1>1 DEF ReadHead, RecoverErase
<1>2. ASSUME UNCHANGED <<boot, pc>> PROVE BootOrder'
    BY <1>2
<1>3. ASSUME StartUser PROVE BootOrder'
    BY <1>3 DEF StartUser
<1>4. ASSUME Crash PROVE BootOrder'
    BY <1>4 DEF Crash
<1>5. ASSUME NEW p \in Procs, CallBeginOp(p) \/ LooseBegin(p) PROVE BootOrder'
    BY <1>5 DEF CallBeginOp, LooseBegin, MayStart
<1>6. ASSUME NEW p \in Procs, BeginOp(p) \/ BeginSleep(p) \/ LooseEnd(p) PROVE BootOrder'
    BY <1>6 DEF BeginOp, BeginSleep, LooseEnd
<1>7. ASSUME NEW p \in Procs, NEW b \in Blocks, NEW v \in Vals, ModifyBlock(p, b, v)
      PROVE  BootOrder'
    BY <1>7 DEF ModifyBlock
<1>8. ASSUME NEW p \in Procs, LogWriteStep(p) PROVE BootOrder'
    BY <1>8 DEF LogWriteStep, LogWriteCheck, LogWrite
<1>9. ASSUME NEW p \in Procs, EndOp(p) \/ EndOpLast(p) PROVE BootOrder'
    BY <1>9 DEF EndOp, EndOpLast, Awake
<1>10. ASSUME NEW p \in Procs, WriteHead(p) \/ Erase(p) \/ EndCommit(p) PROVE BootOrder'
    BY <1>10 DEF WriteHead, Erase, EndCommit, Awake
<1>11. QED
    BY <1>1, <1>2, <1>3, <1>4, <1>5, <1>6, <1>7, <1>8, <1>9, <1>10
    DEF Next, Recovery, CommitStep, RecoverInstall, WriteLog, Install, vars

(* No panic: a log_write() finds room, and no operation ends during a       *)
(* commit.                                                                  *)
LEMMA PanicStep == SafeLog /\ [Next]_vars => NoPanic'
<1> SUFFICES ASSUME SafeLog, [Next]_vars PROVE NoPanic'
    OBVIOUS
<1> USE LogAssumption DEF SafeLog, LogInv, TypeOK, NoPanic, opVars, Goto
<1>1. ASSUME UNCHANGED pc PROVE NoPanic'
    BY <1>1
<1>2. ASSUME Crash PROVE NoPanic'
    BY <1>2 DEF Crash
<1>3. ASSUME NEW p \in Procs, CallBeginOp(p) \/ BeginOp(p) \/ BeginSleep(p) \/ LooseBegin(p) \/ LooseEnd(p)
      PROVE  NoPanic'
    BY <1>3 DEF CallBeginOp, BeginOp, BeginSleep, LooseBegin, LooseEnd
<1>4. ASSUME NEW p \in Procs, NEW b \in Blocks, NEW v \in Vals, ModifyBlock(p, b, v)
      PROVE  NoPanic'
    BY <1>4 DEF ModifyBlock
<1>5. ASSUME NEW p \in Procs, LogWriteCheck(p) PROVE NoPanic'
    <2>1. p \in Active
        BY <1>5 DEF LogWriteCheck, Active
    <2>2. ~Full
        BY <2>1, RoomForMore, ReservationAssumption DEF Full
    <2>3. QED
        BY <1>5, <2>2 DEF LogWriteCheck
<1>6. ASSUME NEW p \in Procs, LogWrite(p) PROVE NoPanic'
    BY <1>6 DEF LogWrite
<1>7. ASSUME NEW p \in Procs, EndOp(p) \/ EndOpLast(p) PROVE NoPanic'
    <2>1. ~committing
        BY <1>7 DEF EndOp, EndOpLast, Counters, Operating, OpPlaces
    <2>2. QED
        BY <1>7, <2>1 DEF EndOp, EndOpLast, Awake
<1>8. ASSUME NEW p \in Procs, WriteHead(p) \/ Erase(p) \/ EndCommit(p) PROVE NoPanic'
    BY <1>8 DEF WriteHead, Erase, EndCommit, Awake
<1>9. QED
    BY <1>1, <1>2, <1>3, <1>4, <1>5, <1>6, <1>7, <1>8
    DEF Next, Recovery, ReadHead, RecoverInstall, RecoverErase, StartUser,
        LogWriteStep, CommitStep, WriteLog, Install, vars

(* log.outstanding and log.committing. *)
LEMMA CountersStep == SafeLog /\ [Next]_vars => Counters'
<1> SUFFICES ASSUME SafeLog, [Next]_vars PROVE Counters'
    OBVIOUS
<1> USE LogAssumption DEF SafeLog, LogInv, TypeOK, Counters, OpPlaces, CommitPlaces, opVars, Goto
<1>0. IsFiniteSet(Operating) /\ Cardinality(Operating) \in Nat
    BY Finiteness DEF Operating
<1>1. ASSUME UNCHANGED <<outstanding, committing>>,
             \A q \in Procs : /\ pc'[q] \in OpPlaces <=> pc[q] \in OpPlaces
                              /\ pc'[q] \in CommitPlaces <=> pc[q] \in CommitPlaces
      PROVE  Counters'
    <2>1. Operating' = Operating
        BY <1>1 DEF Operating
    <2>2. QED
        BY <1>1, <2>1
<1>2. ASSUME Crash PROVE Counters'
    <2>1. Operating' = {}
        BY <1>2 DEF Crash, Operating
    <2>2. QED
        BY <1>2, <2>1, FS_EmptySet DEF Crash
<1>3. ASSUME NEW p \in Procs, BeginOp(p) PROVE Counters'
    <2>1. Operating' = Operating \cup {p} /\ p \notin Operating
        BY <1>3 DEF BeginOp, Operating
    <2>2. Cardinality(Operating') = Cardinality(Operating) + 1
        BY <1>0, <2>1, FS_AddElement
    <2>3. QED
        BY <1>3, <2>2 DEF BeginOp
<1>4. ASSUME NEW p \in Procs, EndOp(p) \/ EndOpLast(p) PROVE Counters'
    <2>1. ~committing /\ p \in Operating
        BY <1>4 DEF EndOp, EndOpLast, Operating
    <2>2. Operating' = Operating \ {p}
        BY <1>4, <2>1 DEF EndOp, EndOpLast, Operating, Awake
    <2>3. Cardinality(Operating') = Cardinality(Operating) - 1 /\ IsFiniteSet(Operating')
        BY <1>0, <2>1, <2>2, FS_RemoveElement
    <2>4. CASE EndOp(p)
        <3>1. \A q \in Procs : pc'[q] \notin CommitPlaces
            BY <2>1, <2>4 DEF EndOp, Awake
        <3>2. QED
            BY <2>1, <2>3, <2>4, <3>1 DEF EndOp
    <2>5. CASE EndOpLast(p)
        <3>1. \A q \in Procs : pc'[q] \in CommitPlaces <=> q = p
            BY <2>1, <2>5 DEF EndOpLast
        <3>2. Cardinality(Operating') = 0
            BY <1>0, <2>3, <2>5 DEF EndOpLast
        <3>3. Operating' = {}
            BY <2>3, <3>2, FS_EmptySet
        <3>4. QED
            BY <2>5, <3>1, <3>2, <3>3 DEF EndOpLast
    <2>6. QED
        BY <1>4, <2>4, <2>5
<1>5. ASSUME NEW p \in Procs, EndCommit(p) PROVE Counters'
    <2>1. \A q \in Procs : pc'[q] \notin CommitPlaces
        BY <1>5 DEF EndCommit, Awake
    <2>2. Operating' = Operating
        BY <1>5 DEF EndCommit, Operating, Awake
    <2>3. QED
        BY <1>5, <2>1, <2>2 DEF EndCommit
<1>6. ASSUME NEW p \in Procs,
             \/ CallBeginOp(p) \/ BeginSleep(p) \/ LooseBegin(p) \/ LooseEnd(p)
             \/ LogWriteStep(p) \/ WriteHead(p) \/ Erase(p)
      PROVE  Counters'
    <2>1. UNCHANGED <<outstanding, committing>>
        BY <1>6 DEF CallBeginOp, BeginSleep, LooseBegin, LooseEnd, LogWriteStep, LogWriteCheck,
                    LogWrite, WriteHead, Erase, EraseHead
    <2>2. NoPanic'
        BY PanicStep
    <2>3. ASSUME NEW q \in Procs
          PROVE  /\ pc'[q] \in OpPlaces <=> pc[q] \in OpPlaces
                 /\ pc'[q] \in CommitPlaces <=> pc[q] \in CommitPlaces
        BY <1>6, <2>2 DEF CallBeginOp, BeginSleep, LooseBegin, LooseEnd, LogWriteStep,
                    LogWriteCheck, LogWrite, WriteHead, Erase, NoPanic
    <2>4. QED
        BY <1>1, <2>1, <2>3
<1>7. ASSUME NEW p \in Procs, NEW b \in Blocks, NEW v \in Vals, ModifyBlock(p, b, v)
      PROVE  Counters'
    BY <1>1, <1>7 DEF ModifyBlock
<1>8. ASSUME UNCHANGED <<pc, outstanding, committing>> PROVE Counters'
    BY <1>1, <1>8
<1>9. QED
    BY <1>2, <1>3, <1>4, <1>5, <1>6, <1>7, <1>8
    DEF Next, Recovery, ReadHead, RecoverInstall, RecoverErase, StartUser, InstallBlock, EraseHead,
        CommitStep, WriteLog, Install, vars

(* What Append adds to the blocks of the log. *)
LEMMA ElemsAppend ==
    ASSUME NEW s \in Seq(Blocks), NEW b \in Blocks
    PROVE  Elems(Append(s, b)) = Elems(s) \cup {b} /\ Len(Append(s, b)) = Len(s) + 1
<1>1. Len(Append(s, b)) = Len(s) + 1 /\ Len(s) \in Nat
    OBVIOUS
<1>2. /\ \A i \in 1..Len(s) : Append(s, b)[i] = s[i]
      /\ Append(s, b)[Len(s) + 1] = b
    OBVIOUS
<1>3. \A i \in 1..(Len(s) + 1) : i \in 1..Len(s) \/ i = Len(s) + 1
    BY <1>1
<1>4. 1..Len(s) \subseteq 1..(Len(s) + 1) /\ Len(s) + 1 \in 1..(Len(s) + 1)
    BY <1>1
<1>5. QED
    BY <1>1, <1>2, <1>3, <1>4 DEF Elems

(* A commit runs while nothing is in progress. *)
LEMMA CommitAlone ==
    ASSUME TypeOK, BootOrder, Counters, NEW p \in Procs, pc[p] \in CommitPlaces
    PROVE  Active = {} /\ boot \in {"test", "up"}
<1>1. Operating = {}
    BY DEF Counters
<1>2. boot \in {"test", "up"}
    BY DEF BootOrder, CommitPlaces, TypeOK
<1>3. \A q \in Procs : pc[q] \notin LoosePlaces
    BY <1>2 DEF BootOrder, LoosePlaces, CommitPlaces
<1>4. QED
    BY <1>1, <1>2, <1>3 DEF Active, Operating, OpPlaces, LoosePlaces

(* Every process keeps its blocks within its operation's share, and the log *)
(* has room for what is reserved.                                           *)
LEMMA SpaceStep == SafeLog /\ [Next]_vars => SpaceReserved'
<1> SUFFICES ASSUME SafeLog, [Next]_vars PROVE SpaceReserved'
    OBVIOUS
<1> USE LogAssumption DEF SafeLog, LogInv, opVars, Goto
<1>a. TypeOK' /\ Counters' /\ NoPanic' /\ BootOrder'
    BY TypeStep, CountersStep, PanicStep, BootStep
<1>b. Active \subseteq Procs /\ Active' \subseteq Procs
    BY DEF Active
<1>c. \A q \in Procs : IsFiniteSet(own[q]) /\ Cardinality(own[q]) <= OpBlocks
    BY DEF SpaceReserved
<1>d. Len(lh) \in Nat /\ Len(lh) + Cardinality(Reserve) <= LOGSIZE /\ Cardinality(Reserve) \in Nat
    <2>1. Reserve \subseteq Active \X (1..MAXOPBLOCKS)
        BY DEF Reserve
    <2>2. Cardinality(Reserve) \in Nat
        BY <1>b, <2>1, ReserveBound
    <2>3. QED
        BY <2>2 DEF SpaceReserved, TypeOK
<1>e. Cardinality({}) = 0 /\ IsFiniteSet({})
    BY FS_EmptySet
<1> DEFINE Share == \A q \in Procs : /\ IsFiniteSet(own[q]) /\ Cardinality(own[q]) <= OpBlocks
                                     /\ pc[q] \in LogWritePlaces => target[q] \in own[q]
\* No operation begins and none forgets what it has logged.
<1>k. ASSUME Active' \subseteq Active,
             \A q \in Active' : Used(q) \subseteq Used(q)' /\ IsFiniteSet(own'[q])
      PROVE  /\ Reserve' \subseteq Reserve
             /\ Cardinality(Reserve') \in Nat /\ Cardinality(Reserve') <= Cardinality(Reserve)
    <2> DEFINE u == [q \in Procs |-> Used(q)]
               v == [q \in Procs |-> Used(q)']
               R == Places(Active, u)
               Q == Places(Active', v)
    <2>1. \A q \in Active' : IsFiniteSet(v[q]) /\ u[q] \subseteq v[q]
        <3>1. \A q \in Active' : v[q] \subseteq own'[q] /\ u[q] \subseteq v[q]
            <4>1. \A q \in Active' : v[q] = Used(q)' /\ u[q] = Used(q)
                BY <1>b
            <4>2. \A q \in Active' : Used(q)' \subseteq own'[q]
                BY DEF Used
            <4>3. QED
                BY <1>k, <4>1, <4>2
        <3> HIDE DEF v, u
        <3>2. QED
            BY <1>k, <3>1, FS_Subset
    <2>2. R = Reserve /\ Q = Reserve'
        BY <1>b DEF Reserve, Places
    <2> HIDE DEF u, v
    <2>3. Q \subseteq R /\ Cardinality(Q) \in Nat /\ Cardinality(Q) <= Cardinality(R)
        BY <1>b, <1>k, <2>1, ReserveShrinks
    <2>4. QED
        BY <2>2, <2>3
<1>f. ASSUME lh' = lh, Active' \subseteq Active,
             \A q \in Active' : own[q] \subseteq own'[q] /\ IsFiniteSet(own'[q])
      PROVE  Len(lh') + Cardinality(Reserve') <= LOGSIZE
    <2>1. \A q \in Active' : Used(q) \subseteq Used(q)'
        BY <1>f DEF Used
    <2>2. QED
        BY <1>d, <1>f, <1>k, <2>1
\* No operation is in progress.
<1>g. ASSUME Active' = {} PROVE Len(lh') + Cardinality(Reserve') <= LOGSIZE
    <2>1. Reserve' = {}
        BY <1>g DEF Reserve
    <2>2. QED
        BY <1>a, <1>e, <2>1 DEF TypeOK
\* The blocks of the operations stay.
<1>h. ASSUME UNCHANGED <<own, target>>,
             \A q \in Procs : pc'[q] \in LogWritePlaces => pc[q] \in LogWritePlaces
      PROVE  Share'
    BY <1>h DEF SpaceReserved
\* One operation ends and forgets its blocks.
<1>i. ASSUME NEW p \in Procs, own' = [own EXCEPT ![p] = {}], UNCHANGED <<lh, target>>,
             \A q \in Procs : q # p => (q \in Active' <=> q \in Active),
             \A q \in Procs : q # p => (pc'[q] \in LogWritePlaces <=> pc[q] \in LogWritePlaces),
             p \notin Active', pc'[p] \notin LogWritePlaces
      PROVE  SpaceReserved'
    <2>1. \A q \in Procs : own'[q] = IF q = p THEN {} ELSE own[q]
        BY <1>i DEF TypeOK
    <2>2. Share'
        BY <1>e, <1>i, <2>1 DEF SpaceReserved
    <2>3. Active' \subseteq Active
        BY <1>b, <1>i
    <2>4. Len(lh') + Cardinality(Reserve') <= LOGSIZE
        BY <1>b, <1>c, <1>f, <1>i, <2>1, <2>3
    <2>5. QED
        BY <2>2, <2>4 DEF SpaceReserved
<1>1. ASSUME ReadHead \/ RecoverErase PROVE SpaceReserved'
    <2>1. Active' = {} /\ UNCHANGED <<own, target, pc>>
        BY <1>1 DEF ReadHead, RecoverErase, BootOrder, Active
    <2>2. QED
        BY <1>g, <1>h, <2>1 DEF SpaceReserved
<1>2. ASSUME UNCHANGED <<pc, lh, own, target>> PROVE SpaceReserved'
    BY <1>2 DEF SpaceReserved, Reserve, Active, Used
<1>3. ASSUME Crash PROVE SpaceReserved'
    <2>1. Active' = {}
        BY <1>3 DEF Crash, Active
    <2>2. Share'
        BY <1>3, <1>e DEF Crash, LogWritePlaces
    <2>3. QED
        BY <1>g, <2>1, <2>2 DEF SpaceReserved
<1>4. ASSUME NEW p \in Procs,
             CallBeginOp(p) \/ BeginSleep(p) \/ LogWriteCheck(p) \/ WriteHead(p) \/ EndCommit(p)
      PROVE  SpaceReserved'
    <2>1. UNCHANGED <<lh, own, target>>
        BY <1>4 DEF CallBeginOp, BeginSleep, LogWriteCheck, WriteHead, EndCommit
    <2>2. \A q \in Procs : /\ q \in Active' => q \in Active
                           /\ pc'[q] \in LogWritePlaces => pc[q] \in LogWritePlaces
        BY <1>4 DEF CallBeginOp, BeginSleep, LogWriteCheck, WriteHead, EndCommit, Awake, Active,
                    LogWritePlaces, TypeOK
    <2>3. QED
        BY <1>b, <1>c, <1>f, <1>h, <2>1, <2>2 DEF SpaceReserved
<1>5. ASSUME NEW p \in Procs, BeginOp(p) PROVE SpaceReserved'
    <2>1. Active' = Operating'
        BY <1>5, <1>a DEF BeginOp, Active, Operating, OpPlaces, LoosePlaces, BootOrder, TypeOK
    <2>2. Cardinality(Active') = outstanding + 1
        BY <1>5, <1>a, <2>1 DEF BeginOp, Counters
    <2>3. Reserve' \subseteq Active' \X (1..MAXOPBLOCKS)
        BY DEF Reserve
    <2>4. Cardinality(Reserve') \in Nat /\ Cardinality(Reserve') <= (outstanding + 1) * MAXOPBLOCKS
        BY <1>b, <2>2, <2>3, ReserveBound
    <2>5. /\ Len(lh) + (outstanding + 1) * MAXOPBLOCKS <= LOGSIZE /\ lh' = lh
          /\ (outstanding + 1) * MAXOPBLOCKS \in Nat
        BY <1>5 DEF BeginOp, Room, TypeOK
    <2>6. Len(lh') + Cardinality(Reserve') <= LOGSIZE
        BY <1>d, <2>4, <2>5
    <2>7. Share'
        BY <1>5, <1>h DEF BeginOp, LogWritePlaces, TypeOK
    <2>8. QED
        BY <2>6, <2>7 DEF SpaceReserved
<1>6. ASSUME NEW p \in Procs, LooseBegin(p) PROVE SpaceReserved'
    <2>1. Active' \subseteq {Booter}
        BY <1>6 DEF LooseBegin, Active, BootOrder, TypeOK
    <2>2. Reserve' \subseteq {Booter} \X (1..MAXOPBLOCKS) /\ {Booter} \subseteq Procs
        BY <2>1 DEF Reserve
    <2>3. Cardinality(Reserve') \in Nat /\ Cardinality(Reserve') <= 1 * MAXOPBLOCKS
        BY <2>2, ReserveBound, FS_Singleton
    <2>4. Len(lh') = 0
        BY <1>6 DEF LooseBegin
    <2>5. Share'
        BY <1>6, <1>h DEF LooseBegin, LogWritePlaces, TypeOK
    <2>6. QED
        BY <2>3, <2>4, <2>5 DEF SpaceReserved
<1>7. ASSUME NEW p \in Procs, LooseEnd(p) \/ EndOp(p) \/ EndOpLast(p) PROVE SpaceReserved'
    <2>1. /\ own' = [own EXCEPT ![p] = {}] /\ UNCHANGED <<lh, target>>
        BY <1>7 DEF LooseEnd, EndOp, EndOpLast
    <2>2. /\ \A q \in Procs : q # p => (q \in Active' <=> q \in Active)
          /\ \A q \in Procs : q # p => (pc'[q] \in LogWritePlaces <=> pc[q] \in LogWritePlaces)
          /\ p \notin Active' /\ pc'[p] \notin LogWritePlaces
        BY <1>7 DEF LooseEnd, EndOp, EndOpLast, Awake, Active, LogWritePlaces, TypeOK
    <2>3. QED
        BY <1>i, <2>1, <2>2
<1>8. ASSUME NEW p \in Procs, NEW b \in Blocks, NEW v \in Vals, ModifyBlock(p, b, v)
      PROVE  SpaceReserved'
    <2>1. \A q \in Procs : own'[q] = IF q = p THEN own[q] \cup {b} ELSE own[q]
        BY <1>8 DEF ModifyBlock, TypeOK
    <2>2. IsFiniteSet(own[p] \cup {b})
        BY <1>c, FS_AddElement
    <2>3. \A q \in Procs : IsFiniteSet(own'[q]) /\ Cardinality(own'[q]) <= OpBlocks
        BY <1>8, <1>c, <2>1, <2>2 DEF ModifyBlock
    <2>4. \A q \in Procs : pc'[q] \in LogWritePlaces => target'[q] \in own'[q]
        BY <1>8, <2>1 DEF ModifyBlock, SpaceReserved, TypeOK
    <2>5. \A q \in Procs : q \in Active' => q \in Active
        BY <1>8 DEF ModifyBlock, Active, TypeOK
    <2>6. lh' = lh /\ Active' \subseteq Active
        BY <1>8, <1>b, <2>5 DEF ModifyBlock
    <2>7. Len(lh') + Cardinality(Reserve') <= LOGSIZE
        BY <1>b, <1>f, <2>1, <2>3, <2>6
    <2>8. QED
        BY <2>3, <2>4, <2>7 DEF SpaceReserved
<1>9. ASSUME NEW p \in Procs, LogWrite(p) PROVE SpaceReserved'
    <2>1. Share'
        BY <1>9, <1>h DEF LogWrite, LogWritePlaces, TypeOK
    <2>2. own' = own /\ Active' = Active
        BY <1>9 DEF LogWrite, Active, TypeOK
    <2>3. CASE target[p] \in Elems(lh)
        BY <1>9, <1>b, <1>c, <1>f, <2>1, <2>2, <2>3 DEF LogWrite, SpaceReserved
    <2>4. CASE target[p] \notin Elems(lh)
        <3> DEFINE t == target[p]
                   k == Cardinality(Used(p))
                   e == <<p, k + 1>>
        <3>1. /\ lh' = Append(lh, t) /\ p \in Active /\ t \in own[p] /\ t \in Blocks
              /\ IsFiniteSet(own[p]) /\ Cardinality(own[p]) <= OpBlocks
            BY <1>9, <2>4 DEF LogWrite, Active, SpaceReserved, LogWritePlaces, TypeOK
        <3>2. Elems(lh') = Elems(lh) \cup {t} /\ Len(lh') = Len(lh) + 1
            BY <3>1, ElemsAppend DEF TypeOK
        <3>3. /\ Used(p)' = Used(p) \cup {t} /\ t \notin Used(p)
              /\ \A q \in Active' : Used(q) \subseteq Used(q)'
              /\ Used(p) \subseteq own[p] /\ Used(p)' \subseteq own[p]
            BY <2>2, <2>4, <3>1, <3>2 DEF Used
        <3>4. IsFiniteSet(Used(p)) /\ k \in Nat
            BY <3>1, <3>3, FS_Subset, FS_CardinalityType
        <3>5. Cardinality(Used(p)') = k + 1
            BY <3>3, <3>4, FS_AddElement
        <3>6. k + 1 <= Cardinality(own[p]) /\ Cardinality(own[p]) \in Nat
            BY <3>1, <3>3, <3>5, FS_Subset, FS_CardinalityType
        <3>7. k + 1 \in 1..MAXOPBLOCKS
            BY <3>1, <3>4, <3>6, ReservationAssumption
        <3>8. e \in Reserve
            BY <3>1, <3>4, <3>7 DEF Reserve
        <3>9. e \notin Reserve'
            BY <3>4, <3>5 DEF Reserve
        <3>10. Reserve' \subseteq Reserve
            BY <1>b, <1>c, <1>k, <2>2, <3>3
        <3>11. IsFiniteSet(Reserve)
            <4>1. Reserve \subseteq Active \X (1..MAXOPBLOCKS)
                BY DEF Reserve
            <4>2. QED
                BY <1>b, <4>1, ReserveBound
        <3>12. /\ Reserve' \subseteq Reserve \ {e} /\ IsFiniteSet(Reserve \ {e})
               /\ Cardinality(Reserve \ {e}) = Cardinality(Reserve) - 1
            BY <3>8, <3>9, <3>10, <3>11, FS_RemoveElement
        <3> HIDE DEF e
        <3>13. Cardinality(Reserve') \in Nat /\ Cardinality(Reserve') <= Cardinality(Reserve) - 1
            BY <3>12, FS_Subset, FS_CardinalityType
        <3>14. Len(lh') + Cardinality(Reserve') <= LOGSIZE
            BY <1>d, <3>2, <3>13
        <3>15. QED
            BY <2>1, <3>14 DEF SpaceReserved
    <2>5. QED
        BY <2>3, <2>4
<1>10. ASSUME NEW p \in Procs, Erase(p) PROVE SpaceReserved'
    <2>1. Active = {}
        BY <1>10, CommitAlone DEF Erase, CommitPlaces
    <2>2. Active' = {}
        BY <1>10, <2>1 DEF Erase, Active, TypeOK
    <2>3. Share'
        BY <1>10, <1>h DEF Erase, LogWritePlaces, TypeOK
    <2>4. QED
        BY <1>g, <2>2, <2>3 DEF SpaceReserved
<1>11. QED
    BY <1>1, <1>2, <1>3, <1>4, <1>5, <1>6, <1>7, <1>8, <1>9, <1>10
    DEF Next, Recovery, RecoverInstall, StartUser, InstallBlock, LogWriteStep,
        CommitStep, WriteLog, Install, vars

(* No block is logged twice. *)
LEMMA LoggedStep == SafeLog /\ [Next]_vars => LoggedOnce'
<1> SUFFICES ASSUME SafeLog, [Next]_vars PROVE LoggedOnce'
    OBVIOUS
<1> USE DEF SafeLog, LogInv, LoggedOnce
<1>1. ASSUME UNCHANGED <<lh, head>> PROVE LoggedOnce'
    BY <1>1
<1>2. ASSUME lh' = <<>>, head' = head \/ head' = <<>> PROVE LoggedOnce'
    BY <1>2
<1>3. ASSUME lh' = head, head' = head PROVE LoggedOnce'
    BY <1>3
<1>4. ASSUME lh' = lh, head' = lh PROVE LoggedOnce'
    BY <1>4
<1>5. ASSUME NEW p \in Procs, LogWrite(p) PROVE LoggedOnce'
    <2>1. CASE target[p] \in Elems(lh)
        BY <1>5, <2>1 DEF LogWrite, diskVars
    <2>2. CASE target[p] \notin Elems(lh)
        <3>1. /\ lh' = Append(lh, target[p]) /\ head' = head
              /\ lh \in Seq(Blocks) /\ target[p] \in Blocks
            BY <1>5, <2>2 DEF LogWrite, diskVars, TypeOK
        <3>2. /\ \A i \in 1..Len(lh) : lh'[i] = lh[i] /\ lh[i] # target[p]
              /\ lh'[Len(lh) + 1] = target[p] /\ Len(lh') = Len(lh) + 1 /\ Len(lh) \in Nat
            BY <2>2, <3>1 DEF Elems
        <3>3. \A i \in 1..Len(lh') : i \in 1..Len(lh) \/ i = Len(lh) + 1
            BY <3>2
        <3>4. QED
            BY <3>1, <3>2, <3>3
    <2>3. QED
        BY <2>1, <2>2
<1>6. QED
    BY <1>1, <1>2, <1>3, <1>4, <1>5
    DEF Next, Recovery, ReadHead, RecoverInstall, RecoverErase, StartUser, Crash, CallBeginOp,
        BeginOp, BeginSleep, LooseBegin, LooseEnd, ModifyBlock, LogWriteStep, LogWriteCheck, EndOp,
        EndOpLast, CommitStep, WriteLog, WriteHead, Install, Erase, EndCommit, InstallBlock,
        EraseHead, diskVars, vars

(* A process that does something finds recovery over. *)
LEMMA Started ==
    ASSUME TypeOK, BootOrder, NEW p \in Procs, pc[p] # "idle"
    PROVE  boot \in {"test", "up"}
BY DEF TypeOK, BootOrder

(* When nothing is in progress and all that was logged is home, the cache   *)
(* and the disk agree.                                                      *)
LEMMA Clean ==
    ASSUME TypeOK, DirtyIsLogged, \A q \in Procs : pc[q] \notin LogWritePlaces,
           \A b \in Elems(lh) : mem[b] = disk[b]
    PROVE  mem = disk
<1>1. \A b \in Blocks : mem[b] = disk[b]
    BY DEF DirtyIsLogged, Locked
<1>2. QED
    BY <1>1 DEF TypeOK

LEMMA Installed ==
    ASSUME SafeLog, NEW p \in Procs, pc[p] = "install", tail = Len(lh)
    PROVE  mem = disk
<1>1. \A i \in 1..Len(lh) : disk[lh[i]] = mem[lh[i]]
    BY DEF SafeLog, LogInv, CommitProgress
<1>2. \A b \in Elems(lh) : mem[b] = disk[b]
    BY <1>1 DEF Elems
<1>3. Active = {}
    BY CommitAlone DEF SafeLog, LogInv, CommitPlaces
<1>4. \A q \in Procs : pc[q] \notin LogWritePlaces
    BY <1>3 DEF Active, LogWritePlaces
<1>5. QED
    BY <1>2, <1>4, Clean DEF SafeLog, LogInv

(* Blocks that differ from their home location are logged. *)
LEMMA DirtyStep == SafeLog /\ [Next]_vars => DirtyIsLogged'
<1> SUFFICES ASSUME SafeLog, [Next]_vars PROVE DirtyIsLogged'
    OBVIOUS
<1> USE DEF SafeLog, LogInv, diskVars, opVars, Goto
<1>0. TypeOK /\ TypeOK' /\ NoPanic'
    BY TypeStep, PanicStep
<1>1. ASSUME mem' = disk' PROVE DirtyIsLogged'
    BY <1>1 DEF DirtyIsLogged
\* Neither the blocks nor the locks change.
<1>2. ASSUME UNCHANGED <<disk, mem, lh, boot, target>>,
             \A q \in Procs : pc[q] \in LogWritePlaces => pc'[q] \in LogWritePlaces
      PROVE  DirtyIsLogged'
    BY <1>2 DEF DirtyIsLogged, Locked
<1>3. ASSUME ReadHead PROVE DirtyIsLogged'
    BY <1>1, <1>3 DEF ReadHead, DirtyIsLogged
<1>4. ASSUME InstallBlock, UNCHANGED <<boot, opVars>> PROVE DirtyIsLogged'
    <2> DEFINE b == lh[tail + 1]
    <2>1. b \in Blocks
        BY <1>0, <1>4 DEF InstallBlock, TypeOK
    <2>2. /\ mem'[b] = disk'[b]
          /\ \A t \in Blocks \ {b} : mem'[t] = mem[t] /\ disk'[t] = disk[t]
        BY <1>0, <1>4, <2>1 DEF InstallBlock, TypeOK
    <2>3. boot \in {"read_head", "install"} => mem' = disk'
        BY <1>4 DEF InstallBlock, DirtyIsLogged
    <2>4. \A t \in Blocks : mem'[t] = disk'[t] \/ t \in Elems(lh') \/ Locked(t)'
        BY <1>4, <2>2 DEF InstallBlock, DirtyIsLogged, Locked
    <2>5. QED
        BY <1>4, <2>3, <2>4 DEF DirtyIsLogged
<1>5. ASSUME RecoverErase PROVE DirtyIsLogged'
    BY <1>1, <1>5 DEF RecoverErase, EraseHead, DirtyIsLogged
<1>6. ASSUME StartUser PROVE DirtyIsLogged'
    BY <1>6 DEF StartUser, DirtyIsLogged, Locked
<1>7. ASSUME Crash PROVE DirtyIsLogged'
    BY <1>1, <1>7 DEF Crash
<1>8. ASSUME NEW p \in Procs,
             CallBeginOp(p) \/ BeginOp(p) \/ BeginSleep(p) \/ LooseBegin(p) \/ LooseEnd(p)
             \/ LogWriteCheck(p) \/ EndOp(p) \/ EndOpLast(p)
      PROVE  DirtyIsLogged'
    <2>1. UNCHANGED <<disk, mem, lh, boot, target>>
        BY <1>8 DEF CallBeginOp, BeginOp, BeginSleep, LooseBegin, LooseEnd, LogWriteCheck, EndOp,
                    EndOpLast
    <2>2. \A q \in Procs : pc[q] \in LogWritePlaces => pc'[q] \in LogWritePlaces
        BY <1>0, <1>8 DEF CallBeginOp, BeginOp, BeginSleep, LooseBegin, LooseEnd, LogWriteCheck,
                    EndOp, EndOpLast, Awake, LogWritePlaces, TypeOK, NoPanic
    <2>3. QED
        BY <1>2, <2>1, <2>2
<1>9. ASSUME NEW p \in Procs, NEW b \in Blocks, NEW v \in Vals, ModifyBlock(p, b, v)
      PROVE  DirtyIsLogged'
    <2>1. boot \in {"test", "up"} /\ boot' = boot /\ lh' = lh /\ disk' = disk
        BY <1>0, <1>9, Started DEF ModifyBlock
    <2>2. pc'[p] \in LogWritePlaces /\ target'[p] = b /\ pc[p] \notin LogWritePlaces
        BY <1>0, <1>9 DEF ModifyBlock, LogWritePlaces, TypeOK
    <2>3. \A q \in Procs : q # p => pc'[q] = pc[q] /\ target'[q] = target[q]
        BY <1>0, <1>9 DEF ModifyBlock, TypeOK
    <2>4. Locked(b)' /\ \A t \in Blocks : Locked(t) => Locked(t)'
        BY <2>2, <2>3 DEF Locked
    <2>5. \A t \in Blocks \ {b} : mem'[t] = mem[t]
        BY <1>0, <1>9 DEF ModifyBlock, TypeOK
    <2>6. QED
        BY <2>1, <2>4, <2>5 DEF DirtyIsLogged
<1>10. ASSUME NEW p \in Procs, LogWrite(p) PROVE DirtyIsLogged'
    <2>1. boot \in {"test", "up"} /\ UNCHANGED <<boot, mem, disk, target>>
        BY <1>0, <1>10, Started DEF LogWrite
    <2>2. target[p] \in Elems(lh') /\ \A t \in Elems(lh) : t \in Elems(lh')
        BY <1>0, <1>10, ElemsAppend DEF LogWrite, TypeOK
    <2>3. \A q \in Procs : q # p => pc'[q] = pc[q]
        BY <1>0, <1>10 DEF LogWrite, TypeOK
    <2>4. \A t \in Blocks : Locked(t) => Locked(t)' \/ t = target[p]
        BY <2>1, <2>3 DEF Locked
    <2>5. QED
        BY <2>1, <2>2, <2>4 DEF DirtyIsLogged
<1>11. ASSUME NEW p \in Procs, WriteLog(p) \/ WriteHead(p) \/ EndCommit(p) PROVE DirtyIsLogged'
    <2>1. UNCHANGED <<disk, mem, lh, boot, target>>
        BY <1>11 DEF WriteLog, WriteHead, EndCommit
    <2>2. \A q \in Procs : pc[q] \in LogWritePlaces => pc'[q] \in LogWritePlaces
        BY <1>0, <1>11 DEF WriteLog, WriteHead, EndCommit, Awake, LogWritePlaces, TypeOK
    <2>3. QED
        BY <1>2, <2>1, <2>2
<1>12. ASSUME NEW p \in Procs, Erase(p) PROVE DirtyIsLogged'
    <2>1. mem = disk
        BY <1>12, Installed DEF Erase, EraseHead
    <2>2. QED
        BY <1>1, <1>12, <2>1 DEF Erase, EraseHead
<1>13. ASSUME UNCHANGED vars PROVE DirtyIsLogged'
    BY <1>2, <1>13 DEF vars
<1>14. QED
    BY <1>3, <1>4, <1>5, <1>6, <1>7, <1>8, <1>9, <1>10, <1>11, <1>12, <1>13
    DEF Next, Recovery, RecoverInstall, LogWriteStep, CommitStep, Install

(* What end_op() promises when it returns. *)
LEMMA DurableStep == SafeLog /\ [Next]_vars => DurableAtReturn'
<1> SUFFICES ASSUME SafeLog, [Next]_vars, NEW q \in Procs, pc'[q] = "finish"
             PROVE  disk' = mem' /\ head' = <<>> /\ lh' = <<>>
    BY DEF DurableAtReturn
<1> USE DEF SafeLog, LogInv, diskVars, opVars, Goto
<1>0. TypeOK /\ BootOrder /\ Counters
    OBVIOUS
<1>1. ASSUME pc[q] = "finish", UNCHANGED <<disk, mem, head, lh>>
      PROVE  disk' = mem' /\ head' = <<>> /\ lh' = <<>>
    BY <1>1 DEF DurableAtReturn
<1>2. ASSUME pc[q] = "finish" PROVE /\ Active = {} /\ boot \in {"test", "up"}
                                    /\ \A r \in Procs : pc[r] \in CommitPlaces => r = q
    BY <1>0, <1>2, CommitAlone DEF CommitPlaces, Counters
<1>3. ASSUME ReadHead \/ RecoverInstall \/ RecoverErase PROVE FALSE
    BY <1>0, <1>3, Started DEF ReadHead, RecoverInstall, RecoverErase
<1>4. ASSUME Crash PROVE FALSE
    BY <1>4 DEF Crash
<1>5. ASSUME NEW p \in Procs,
             CallBeginOp(p) \/ BeginOp(p) \/ BeginSleep(p) \/ LooseBegin(p) \/ LooseEnd(p)
             \/ LogWriteCheck(p) \/ EndOp(p) \/ EndCommit(p) \/ WriteLog(p)
      PROVE  pc[q] = "finish" /\ UNCHANGED <<disk, mem, head, lh>>
    BY <1>0, <1>5 DEF CallBeginOp, BeginOp, BeginSleep, LooseBegin, LooseEnd, LogWriteCheck, EndOp,
                EndCommit, WriteLog, Awake, TypeOK
<1>6. ASSUME NEW p \in Procs, LogWrite(p) PROVE FALSE
    <2>1. pc[q] = "finish" /\ p \in Active
        BY <1>0, <1>6 DEF LogWrite, Active, TypeOK
    <2>2. QED
        BY <1>2, <2>1
<1>7. ASSUME NEW p \in Procs, NEW b \in Blocks, NEW v \in Vals, ModifyBlock(p, b, v) PROVE FALSE
    <2>1. pc[q] = "finish" /\ p \in Active
        BY <1>0, <1>7 DEF ModifyBlock, Active, TypeOK
    <2>2. QED
        BY <1>2, <2>1
<1>8. ASSUME NEW p \in Procs, WriteHead(p) \/ Install(p) PROVE FALSE
    <2>1. pc[q] = "finish" /\ p # q /\ pc[p] \in CommitPlaces
        BY <1>0, <1>8 DEF WriteHead, Install, CommitPlaces, TypeOK
    <2>2. QED
        BY <1>2, <2>1
<1>9. ASSUME NEW p \in Procs, Erase(p) PROVE disk' = mem' /\ head' = <<>> /\ lh' = <<>>
    BY <1>9, Installed DEF Erase, EraseHead
<1>10. ASSUME NEW p \in Procs, EndOpLast(p) PROVE disk' = mem' /\ head' = <<>> /\ lh' = <<>>
    <2>1. ~committing /\ p \in Operating
        BY <1>0, <1>10 DEF EndOpLast, Counters, Operating, OpPlaces
    <2>2. p = q /\ lh = <<>>
        BY <1>0, <1>10, <2>1 DEF EndOpLast, TypeOK, Counters, CommitPlaces
    <2>3. boot \in {"test", "up"} /\ \A r \in Procs : pc[r] \notin CommitPlaces
        BY <1>0, <1>10, <2>1, Started DEF EndOpLast, Counters
    <2>4. head = <<>>
        BY <2>3 DEF CommitProgress, CommitPlaces
    <2>5. \A r \in Procs : pc[r] \notin LogWritePlaces
        <3>1. Operating \ {p} = {}
            <4>1. IsFiniteSet(Operating) /\ Cardinality(Operating) = 1
                BY <1>10, Finiteness DEF EndOpLast, Counters, Operating
            <4>2. IsFiniteSet(Operating \ {p}) /\ Cardinality(Operating \ {p}) = 0
                BY <2>1, <4>1, FS_RemoveElement
            <4>3. QED
                BY <4>2, FS_EmptySet
        <3>2. \A r \in Procs : r # p => pc[r] \notin OpPlaces
            BY <3>1 DEF Operating
        <3>3. \A r \in Procs : pc[r] \notin LoosePlaces
            BY <1>10, <2>3 DEF EndOpLast, BootOrder, LoosePlaces
        <3>4. QED
            BY <1>10, <3>2, <3>3 DEF EndOpLast, OpPlaces, LoosePlaces, LogWritePlaces
    <2>6. mem = disk
        BY <1>0, <2>2, <2>5, Clean DEF Elems
    <2>7. QED
        BY <1>10, <2>2, <2>4, <2>6 DEF EndOpLast
<1>11. QED
    BY <1>1, <1>3, <1>4, <1>5, <1>6, <1>7, <1>8, <1>9, <1>10
    DEF Next, Recovery, StartUser, LogWriteStep, CommitStep, vars

(* The progress of a commit and of a recovery. *)
LEMMA ProgressStep == SafeLog /\ [Next]_vars => CommitProgress'
<1> SUFFICES ASSUME SafeLog, [Next]_vars PROVE CommitProgress'
    OBVIOUS
<1> USE DEF SafeLog, LogInv, diskVars, opVars, Goto
<1>0. TypeOK /\ BootOrder /\ Counters /\ TypeOK' /\ BootOrder' /\ Counters'
    BY TypeStep, BootStep, CountersStep
\* The commit or recovery, if there is one, is not concerned.
<1>1. ASSUME UNCHANGED <<disk, slots, head, mem, lh, tail, boot>>,
             \A q \in Procs : /\ pc'[q] = "install" <=> pc[q] = "install"
                              /\ pc'[q] = "write_log" => pc[q] = "write_log"
      PROVE  CommitProgress'
    BY <1>1 DEF CommitProgress
\* No commit and no recovery is in progress.
<1>2. ASSUME head' = <<>>, tail' <= Len(lh'), boot' # "install",
             \A q \in Procs : pc'[q] \notin {"write_log", "install"}
      PROVE  CommitProgress'
    BY <1>2 DEF CommitProgress
\* Nothing is in the header while an operation or nobody is active.
<1>3. ASSUME boot \in {"test", "up"}, \A q \in Procs : pc[q] # "install" PROVE head = <<>>
    BY <1>3 DEF CommitProgress
<1>4. ASSUME ReadHead PROVE CommitProgress'
    <2>1. \A q \in Procs : pc'[q] = "idle"
        BY <1>4 DEF ReadHead, BootOrder
    <2>2. tail' = 0 /\ lh' = head /\ head' = head /\ boot' = "install" /\ Len(head) \in Nat
        BY <1>0, <1>4 DEF ReadHead, TypeOK
    <2>3. QED
        BY <2>1, <2>2 DEF CommitProgress
<1>5. ASSUME RecoverInstall PROVE CommitProgress'
    <2> DEFINE b == lh[tail + 1]
    <2>1. /\ boot = "install" /\ lh = head /\ \A q \in Procs : pc[q] = "idle"
          /\ tail \in Nat /\ tail + 1 \in 1..Len(lh) /\ b \in Blocks
        BY <1>0, <1>5 DEF RecoverInstall, InstallBlock, CommitProgress, BootOrder, TypeOK
    <2>2. UNCHANGED <<boot, pc, lh, head, slots>> /\ tail' = tail + 1
        BY <1>5 DEF RecoverInstall, InstallBlock
    <2>3. disk'[b] = slots[tail + 1] /\ \A t \in Blocks \ {b} : disk'[t] = disk[t]
        BY <1>0, <1>5, <2>1 DEF RecoverInstall, InstallBlock, TypeOK
    <2>4. \A i \in 1..tail : lh[i] # b /\ lh[i] \in Blocks /\ disk[lh[i]] = slots[i]
        BY <1>0, <2>1 DEF LoggedOnce, CommitProgress, TypeOK
    <2>5. \A i \in 1..tail' : disk'[lh'[i]] = slots'[i]
        <3>1. \A i \in 1..tail' : i \in 1..tail \/ i = tail + 1
            BY <2>1, <2>2
        <3>2. QED
            BY <2>2, <2>3, <2>4, <3>1
    <2>6. QED
        BY <2>1, <2>2, <2>5 DEF CommitProgress
<1>6. ASSUME RecoverErase PROVE CommitProgress'
    BY <1>6 DEF RecoverErase, EraseHead, CommitProgress, BootOrder
<1>7. ASSUME StartUser PROVE CommitProgress'
    BY <1>7 DEF StartUser, CommitProgress
<1>8. ASSUME Crash PROVE CommitProgress'
    BY <1>8 DEF Crash, CommitProgress
<1>9. ASSUME NEW p \in Procs,
             CallBeginOp(p) \/ BeginOp(p) \/ BeginSleep(p) \/ LooseBegin(p) \/ LooseEnd(p)
             \/ LogWriteCheck(p) \/ EndOp(p) \/ EndCommit(p)
      PROVE  CommitProgress'
    <2>1. UNCHANGED <<disk, slots, head, mem, lh, tail, boot>>
        BY <1>9 DEF CallBeginOp, BeginOp, BeginSleep, LooseBegin, LooseEnd, LogWriteCheck, EndOp,
                EndCommit
    <2>2. \A q \in Procs : /\ pc'[q] = "install" <=> pc[q] = "install"
                           /\ pc'[q] = "write_log" => pc[q] = "write_log"
        BY <1>0, <1>9 DEF CallBeginOp, BeginOp, BeginSleep, LooseBegin, LooseEnd, LogWriteCheck,
                EndOp, EndCommit, Awake, TypeOK
    <2>3. QED
        BY <1>1, <2>1, <2>2
<1>10. ASSUME NEW p \in Procs, p \in Active, head' = head, UNCHANGED <<boot, tail>>,
              tail' <= Len(lh'), \A q \in Procs : q # p => pc'[q] = pc[q],
              pc'[p] \notin {"write_log", "install"}
       PROVE  CommitProgress'
    <2>1. \A q \in Procs : pc[q] \notin {"write_log", "install"}
        BY <1>0, <1>10, CommitAlone DEF CommitPlaces
    <2>2. boot \in {"test", "up"}
        BY <1>0, <1>10, Started DEF Active
    <2>3. QED
        BY <1>2, <1>3, <1>10, <2>1, <2>2
<1>11. ASSUME NEW p \in Procs, NEW b \in Blocks, NEW v \in Vals, ModifyBlock(p, b, v)
       PROVE  CommitProgress'
    <2>1. p \in Active /\ head' = head /\ UNCHANGED <<boot, tail>> /\ tail' <= Len(lh')
        BY <1>0, <1>11 DEF ModifyBlock, Active, CommitProgress
    <2>2. (\A q \in Procs : q # p => pc'[q] = pc[q]) /\ pc'[p] \notin {"write_log", "install"}
        BY <1>0, <1>11 DEF ModifyBlock, TypeOK
    <2>3. QED
        BY <1>10, <2>1, <2>2
<1>12. ASSUME NEW p \in Procs, LogWrite(p) PROVE CommitProgress'
    <2>1. p \in Active /\ head' = head /\ UNCHANGED <<boot, tail>>
        BY <1>0, <1>12 DEF LogWrite, Active
    <2>2. Len(lh') >= Len(lh) /\ Len(lh) \in Nat /\ Len(lh') \in Nat
        BY <1>0, <1>12, ElemsAppend DEF LogWrite, TypeOK
    <2>3. tail' <= Len(lh')
        BY <1>0, <2>1, <2>2 DEF CommitProgress, TypeOK
    <2>4. (\A q \in Procs : q # p => pc'[q] = pc[q]) /\ pc'[p] \notin {"write_log", "install"}
        BY <1>0, <1>12 DEF LogWrite, TypeOK
    <2>5. QED
        BY <1>10, <2>1, <2>3, <2>4
<1>13. ASSUME NEW p \in Procs, EndOpLast(p) PROVE CommitProgress'
    <2>1. ~committing /\ \A q \in Procs : pc[q] \notin CommitPlaces
        BY <1>13 DEF EndOpLast, Counters, Operating, OpPlaces
    <2>2. boot' = boot /\ boot \in {"test", "up"} /\ head' = head /\ lh' = lh /\ tail' = 0
        BY <1>0, <1>13, Started DEF EndOpLast
    <2>3. head = <<>>
        BY <1>3, <2>1, <2>2 DEF CommitPlaces
    <2>4. \A q \in Procs : pc'[q] # "install"
        BY <1>0, <1>13, <2>1 DEF EndOpLast, TypeOK, CommitPlaces
    <2>5. QED
        BY <1>0, <2>2, <2>3, <2>4 DEF CommitProgress, TypeOK
<1>14. ASSUME NEW p \in Procs, WriteLog(p) PROVE CommitProgress'
    <2>1. /\ tail \in Nat /\ tail + 1 \in 1..Len(lh) /\ tail + 1 \in 1..LOGSIZE
          /\ Len(lh) \in Nat /\ boot \in {"test", "up"}
        BY <1>0, <1>14, Started, LogAssumption DEF WriteLog, TypeOK
    <2>2. UNCHANGED <<boot, pc, lh, head, mem>> /\ tail' = tail + 1
        BY <1>14 DEF WriteLog
    <2>3. \A q \in Procs : pc[q] # "install"
        BY <1>14 DEF WriteLog, Counters, CommitPlaces
    <2>4. head = <<>>
        BY <1>3, <2>1, <2>3
    <2>5. /\ slots'[tail + 1] = mem[lh[tail + 1]]
          /\ \A i \in 1..tail : slots'[i] = slots[i] /\ slots[i] = mem[lh[i]]
        BY <1>0, <1>14, <2>1, LogAssumption DEF WriteLog, TypeOK, CommitProgress
    <2>6. \A i \in 1..tail' : slots'[i] = mem'[lh'[i]]
        <3>1. \A i \in 1..tail' : i \in 1..tail \/ i = tail + 1
            BY <2>1, <2>2
        <3>2. QED
            BY <2>2, <2>5, <3>1
    <2>7. QED
        BY <2>1, <2>2, <2>3, <2>4, <2>6 DEF CommitProgress
<1>15. ASSUME NEW p \in Procs, WriteHead(p) PROVE CommitProgress'
    <2>1. \A q \in Procs : q # p => pc'[q] \notin {"write_log", "install"}
        BY <1>0, <1>15 DEF WriteHead, Counters, CommitPlaces, TypeOK
    <2>2. /\ pc'[p] = "install" /\ tail' = 0 /\ head' = lh /\ boot \in {"test", "up"}
          /\ UNCHANGED <<lh, slots, mem, boot>> /\ Len(lh) \in Nat
        BY <1>0, <1>15, Started DEF WriteHead, TypeOK
    <2>3. \A i \in 1..Len(lh) : slots[i] = mem[lh[i]]
        BY <1>15 DEF WriteHead, CommitProgress
    <2>4. QED
        BY <2>1, <2>2, <2>3 DEF CommitProgress
<1>16. ASSUME NEW p \in Procs, Install(p) PROVE CommitProgress'
    <2> DEFINE b == lh[tail + 1]
    <2>1. /\ boot \in {"test", "up"} /\ lh = head
          /\ tail \in Nat /\ tail + 1 \in 1..Len(lh) /\ Len(lh) \in Nat /\ b \in Blocks
        BY <1>0, <1>16, Started DEF Install, InstallBlock, CommitProgress, TypeOK
    <2>2. UNCHANGED <<boot, pc, lh, head, slots>> /\ tail' = tail + 1
        BY <1>16 DEF Install, InstallBlock
    <2>3. disk'[b] = slots[tail + 1] /\ \A t \in Blocks \ {b} : disk'[t] = disk[t]
        BY <1>0, <1>16, <2>1 DEF Install, InstallBlock, TypeOK
    <2>4. mem' = mem
        BY <1>0, <1>16, <2>1 DEF Install, InstallBlock, CommitProgress, TypeOK
    <2>5. \A i \in 1..tail : lh[i] # b /\ lh[i] \in Blocks /\ disk[lh[i]] = slots[i]
        BY <1>0, <1>16, <2>1 DEF Install, LoggedOnce, CommitProgress, TypeOK
    <2>6. \A i \in 1..tail' : disk'[lh'[i]] = slots'[i]
        <3>1. \A i \in 1..tail' : i \in 1..tail \/ i = tail + 1
            BY <2>1, <2>2
        <3>2. QED
            BY <2>2, <2>3, <2>5, <3>1
    <2>7. \A q \in Procs : pc[q] # "write_log"
        BY <1>16 DEF Install, Counters, CommitPlaces
    <2>8. \A i \in 1..Len(lh) : slots[i] = mem[lh[i]]
        BY <1>16 DEF Install, CommitProgress
    <2>9. pc'[p] = "install"
        BY <1>16 DEF Install
    <2>10. QED
        BY <2>1, <2>2, <2>4, <2>6, <2>7, <2>8, <2>9 DEF CommitProgress
<1>17. ASSUME NEW p \in Procs, Erase(p) PROVE CommitProgress'
    <2>1. \A q \in Procs : pc'[q] \notin {"write_log", "install"}
        BY <1>0, <1>17 DEF Erase, Counters, CommitPlaces, TypeOK
    <2>2. boot' \in {"test", "up"} /\ tail' = 0 /\ head' = <<>> /\ lh' = <<>>
        BY <1>0, <1>17, Started DEF Erase, EraseHead
    <2>3. QED
        BY <1>2, <2>1, <2>2
<1>18. ASSUME UNCHANGED vars PROVE CommitProgress'
    BY <1>1, <1>18 DEF vars
<1>19. QED
    BY <1>4, <1>5, <1>6, <1>7, <1>8, <1>9, <1>11, <1>12, <1>13, <1>14, <1>15, <1>16, <1>17, <1>18
    DEF Next, Recovery, LogWriteStep, CommitStep

-----------------------------------------------------------------------------
(* The invariant *)

(* The file system as mkfs makes it. *)
LEMMA SafeInit == Init => SafeLog
<1> SUFFICES ASSUME Init PROVE SafeLog
    OBVIOUS
<1> USE LogAssumption DEF Init
<1>1. TypeOK
    <2>1. \A p \in Procs : target[p] \in Blocks
        OBVIOUS
    <2>2. target \in [Procs -> Blocks]
        BY <2>1
    <2>3. disk \in [Blocks -> Vals] /\ slots \in [1..LOGSIZE -> Vals]
        OBVIOUS
    <2>4. pc \in [Procs -> Labels] /\ own \in [Procs -> SUBSET Blocks]
        BY DEF Labels
    <2>5. head \in Seq(Blocks) /\ Len(head) <= LOGSIZE /\ lh = head /\ mem = disk
        OBVIOUS
    <2>6. outstanding \in Nat /\ tail \in Nat /\ committing \in BOOLEAN /\ boot = "read_head"
        OBVIOUS
    <2> HIDE DEF Init
    <2>7. QED
        BY <2>2, <2>3, <2>4, <2>5, <2>6 DEF TypeOK
<1>2. \A p \in Procs : pc[p] = "idle" /\ own[p] = {}
    OBVIOUS
<1>3. Active = {} /\ Operating = {} /\ Reserve = {}
    BY <1>2 DEF Active, Operating, OpPlaces, Reserve
<1>4. Counters /\ SpaceReserved
    BY <1>2, <1>3, FS_EmptySet DEF Counters, CommitPlaces, SpaceReserved, LogWritePlaces
<1>5. BootOrder /\ LoggedOnce /\ DirtyIsLogged /\ CommitProgress /\ DurableAtReturn /\ NoPanic
    BY <1>2 DEF BootOrder, LoggedOnce, DirtyIsLogged, CommitProgress, DurableAtReturn, NoPanic
<1>6. QED
    BY <1>1, <1>4, <1>5 DEF SafeLog, LogInv

LEMMA SafeStep == SafeLog /\ [Next]_vars => SafeLog'
BY TypeStep, BootStep, PanicStep, CountersStep, SpaceStep, LoggedStep, DirtyStep, DurableStep,
   ProgressStep DEF SafeLog, LogInv

(* When the last end_op() returns everything is home and the log is empty;  *)
(* the counters, the space, the log and the disk agree all the way there,   *)
(* through any crash and recovery.                                          *)
THEOREM LogInvariant == Spec => []LogInv
<1>1. SafeLog => LogInv
    BY DEF SafeLog
<1>2. QED
    BY SafeInit, SafeStep, <1>1, PTL DEF Spec

(* log_write() always finds room for the block of an operation that stays   *)
(* within its share, and no end_op() meets a commit in progress.            *)
THEOREM LogNoPanic == Spec => []NoPanic
<1>1. SafeLog => NoPanic
    BY DEF SafeLog
<1>2. QED
    BY SafeInit, SafeStep, <1>1, PTL DEF Spec

-----------------------------------------------------------------------------
(* Atomicity *)

Restored(h, s, d) == [b \in Blocks |-> IF \E i \in 1..Len(h) : h[i] = b
                                       THEN s[CHOOSE i \in 1..Len(h) : h[i] = b]
                                       ELSE d[b]]

(* Recovery takes the logged blocks from the log and leaves the others. *)
LEMMA RestoredBlocks ==
    ASSUME NEW h \in Seq(Blocks), NEW s, NEW d,
           \A i, j \in 1..Len(h) : h[i] = h[j] => i = j
    PROVE  /\ \A i \in 1..Len(h) : Restored(h, s, d)[h[i]] = s[i]
           /\ \A b \in Blocks : b \notin Elems(h) => Restored(h, s, d)[b] = d[b]
<1>1. ASSUME NEW i \in 1..Len(h) PROVE Restored(h, s, d)[h[i]] = s[i]
    <2>1. h[i] \in Blocks
        OBVIOUS
    <2>2. (CHOOSE j \in 1..Len(h) : h[j] = h[i]) = i
        <3> DEFINE c == CHOOSE j \in 1..Len(h) : h[j] = h[i]
        <3>1. c \in 1..Len(h) /\ h[c] = h[i]
            BY Zenon
        <3> HIDE DEF c
        <3>2. c = i
            BY <3>1
        <3>3. QED
            BY <3>2 DEF c
    <2>3. QED
        BY <2>1, <2>2 DEF Restored
<1>2. ASSUME NEW b \in Blocks, b \notin Elems(h) PROVE Restored(h, s, d)[b] = d[b]
    BY <1>2 DEF Restored, Elems
<1>3. QED
    BY <1>1, <1>2

(* A disk on which every logged block is home is what recovery leaves. *)
LEMMA RestoredHome ==
    ASSUME NEW h \in Seq(Blocks), NEW s, NEW d, NEW e \in [Blocks -> Vals],
           \A i, j \in 1..Len(h) : h[i] = h[j] => i = j,
           \A i \in 1..Len(h) : e[h[i]] = s[i],
           \A b \in Blocks : b \notin Elems(h) => e[b] = d[b]
    PROVE  Restored(h, s, d) = e
<1>1. ASSUME NEW b \in Blocks PROVE Restored(h, s, d)[b] = e[b]
    <2>1. CASE b \in Elems(h)
        <3>1. PICK i \in 1..Len(h) : h[i] = b
            BY <2>1 DEF Elems
        <3>2. QED
            BY <3>1, RestoredBlocks
    <2>2. CASE b \notin Elems(h)
        BY <2>2, RestoredBlocks
    <2>3. QED
        BY <2>1, <2>2
<1>2. Restored(h, s, d) = [b \in Blocks |-> Restored(h, s, d)[b]]
    BY DEF Restored
<1>3. QED
    BY <1>1, <1>2

(* What recovery would leave is not changed by a step that leaves the disk  *)
(* alone, nor by one that brings a logged block home.                       *)
LEMMA SameRecovered ==
    ASSUME SafeLog
    PROVE  /\ UNCHANGED <<disk, slots, head>> => Recovered' = Recovered
           /\ InstallBlock /\ lh = head => Recovered' = Recovered
           /\ Recovered = Restored(head, slots, disk)
           /\ Recovered' = Restored(head', slots', disk')
<1>1. Recovered = Restored(head, slots, disk) /\ Recovered' = Restored(head', slots', disk')
    BY DEF Recovered, Restored
<1>2. ASSUME InstallBlock, lh = head PROVE Recovered' = Recovered
    <2>1. /\ head[tail + 1] \in Blocks /\ tail + 1 \in 1..Len(head)
          /\ UNCHANGED <<slots, head>>
        BY <1>2 DEF InstallBlock, SafeLog, LogInv, TypeOK
    <2>2. \A b \in Blocks : ~(\E i \in 1..Len(head) : head[i] = b) => disk'[b] = disk[b]
        BY <1>2, <2>1 DEF InstallBlock, SafeLog, LogInv, TypeOK
    <2>3. QED
        BY <2>1, <2>2 DEF Recovered
<1>3. QED
    BY <1>1, <1>2

(* With an empty header the disk is what recovery would leave. *)
LEMMA NothingToRecover ==
    ASSUME TypeOK, head = <<>>
    PROVE  Recovered = disk
BY DEF TypeOK, Recovered

Vol == IF boot \in {"test", "up"} THEN mem ELSE Recovered

(* The log implements a disk whose operations are atomic: the content after *)
(* a crash changes only at the write of a non-empty header, when no         *)
(* operation is in progress, and then to all that was written.              *)
THEOREM LogIsTxDisk == Spec => ImplementsTxDisk
<1>1. Init => Tx!Init
    <2> SUFFICES ASSUME Init PROVE Tx!Init
        OBVIOUS
    <2>1. TypeOK /\ head = <<>> /\ boot = "read_head"
        BY SafeInit DEF SafeLog, LogInv, Init
    <2>2. Recovered = disk
        BY <2>1, NothingToRecover
    <2>3. Active = {}
        BY DEF Init, Active
    <2>4. QED
        BY <2>1, <2>2, <2>3 DEF Tx!Init, TypeOK
<1>2. SafeLog /\ SafeLog' /\ [Next]_vars => [Tx!Next]_Tx!vars
    <2> SUFFICES ASSUME SafeLog, SafeLog', [Next]_vars
                 PROVE  Tx!Next \/ UNCHANGED <<Vol, Recovered, Active>>
        BY DEF Tx!vars, Vol
    <2> USE DEF diskVars, opVars, Goto
    <2>0. TypeOK /\ TypeOK' /\ BootOrder /\ Counters
        BY DEF SafeLog, LogInv
    <2>1. ASSUME UNCHANGED <<disk, slots, head, boot, mem>>
          PROVE  Recovered' = Recovered /\ Vol' = Vol
        BY <2>1, SameRecovered DEF Vol
    <2>2. ASSUME NEW p \in Procs,
                 CallBeginOp(p) \/ BeginSleep(p) \/ LogWriteCheck(p) \/ LogWrite(p) \/ EndCommit(p)
          PROVE  UNCHANGED <<Vol, Recovered, Active>>
        <3>1. UNCHANGED <<disk, slots, head, boot, mem>>
            BY <2>2 DEF CallBeginOp, BeginSleep, LogWriteCheck, LogWrite, EndCommit
        <3>2. \A q \in Procs : q \in Active' <=> q \in Active
            BY <2>0, <2>2 DEF CallBeginOp, BeginSleep, LogWriteCheck, LogWrite, EndCommit, Awake,
                        Active, TypeOK, SafeLog, NoPanic
        <3>3. QED
            BY <2>1, <3>1, <3>2 DEF Active
    <2>3. ASSUME NEW p \in Procs, BeginOp(p) \/ LooseBegin(p) PROVE Tx!Next
        <3>1. UNCHANGED <<disk, slots, head, boot, mem>>
            BY <2>3 DEF BeginOp, LooseBegin
        <3>2. \A q \in Procs : q \in Active' <=> q \in Active \/ q = p
            BY <2>0, <2>3 DEF BeginOp, LooseBegin, Active, TypeOK
        <3>3. Active' = Active \cup {p} /\ p \notin Active
            BY <2>3, <3>2 DEF BeginOp, LooseBegin, Active
        <3>4. QED
            BY <2>1, <3>1, <3>3 DEF Tx!Next, Tx!Begin, Vol
    <2>4. ASSUME NEW p \in Procs, LooseEnd(p) \/ EndOp(p) \/ EndOpLast(p) PROVE Tx!Next
        <3>1. UNCHANGED <<disk, slots, head, boot, mem>>
            BY <2>4 DEF LooseEnd, EndOp, EndOpLast
        <3>2. \A q \in Procs : q \in Active' <=> q \in Active /\ q # p
            BY <2>0, <2>4 DEF LooseEnd, EndOp, EndOpLast, Awake, Active, TypeOK
        <3>3. Active' = Active \ {p} /\ p \in Active
            BY <2>4, <3>2 DEF LooseEnd, EndOp, EndOpLast, Active
        <3>4. QED
            BY <2>1, <3>1, <3>3 DEF Tx!Next, Tx!End, Vol
    <2>5. ASSUME NEW p \in Procs, NEW b \in Blocks, NEW v \in Vals, ModifyBlock(p, b, v)
          PROVE  Tx!Next
        <3>1. boot \in {"test", "up"} /\ UNCHANGED <<disk, slots, head, boot>>
            BY <2>0, <2>5, Started DEF ModifyBlock
        <3>2. p \in Active /\ \A q \in Procs : q \in Active' <=> q \in Active
            BY <2>0, <2>5 DEF ModifyBlock, Active, TypeOK
        <3>3. Active' = Active
            BY <3>2 DEF Active
        <3>4. Recovered' = Recovered
            BY <3>1, SameRecovered
        <3>5. mem' = [mem EXCEPT ![b] = v]
            BY <2>5 DEF ModifyBlock
        <3>6. QED
            BY <3>1, <3>2, <3>3, <3>4, <3>5 DEF Tx!Next, Tx!Write
    <2>6. ASSUME NEW p \in Procs, WriteLog(p) PROVE UNCHANGED <<Vol, Recovered, Active>>
        <3>1. UNCHANGED <<disk, head, boot, mem, pc>>
            BY <2>6 DEF WriteLog
        <3>2. head = <<>>
            BY <2>0, <2>6, Started DEF WriteLog, SafeLog, LogInv, CommitProgress, Counters, CommitPlaces
        <3>3. Recovered' = disk' /\ Recovered = disk
            BY <2>0, <3>1, <3>2 DEF TypeOK, Recovered
        <3>4. QED
            BY <3>1, <3>3 DEF Vol, Active
    <2>7. ASSUME NEW p \in Procs, WriteHead(p) PROVE Tx!Next
        <3>1. /\ pc[p] = "write_log" /\ UNCHANGED <<disk, slots, mem, boot>> /\ head' = lh
              /\ \A i \in 1..Len(lh) : slots[i] = mem[lh[i]]
            BY <2>7 DEF WriteHead, SafeLog, LogInv, CommitProgress
        <3>2. Active = {} /\ boot \in {"test", "up"}
            BY <2>0, <3>1, CommitAlone DEF CommitPlaces
        <3>3. Active' = {}
            BY <2>0, <2>7, <3>2 DEF WriteHead, Active, TypeOK
        <3>4. \A b \in Blocks : b \notin Elems(lh) => mem[b] = disk[b]
            BY <3>2 DEF SafeLog, LogInv, DirtyIsLogged, Locked, LogWritePlaces, Active
        <3>5. Restored(lh, slots, disk) = mem
            <4>1. /\ lh \in Seq(Blocks) /\ mem \in [Blocks -> Vals]
                  /\ \A i, j \in 1..Len(lh) : lh[i] = lh[j] => i = j
                BY DEF TypeOK, SafeLog, LogInv, LoggedOnce
            <4>2. \A i \in 1..Len(lh) : mem[lh[i]] = slots[i]
                BY <3>1
            <4>3. QED
                BY <3>4, <4>1, <4>2, RestoredHome
        <3>6. Recovered' = mem
            BY <3>1, <3>5, SameRecovered
        <3>7. QED
            BY <3>1, <3>2, <3>3, <3>6 DEF Tx!Next, Tx!Commit
    <2>8. ASSUME NEW p \in Procs, Install(p) PROVE UNCHANGED <<Vol, Recovered, Active>>
        <3>1. lh = head /\ InstallBlock /\ UNCHANGED <<boot, pc>>
            BY <2>8 DEF Install, SafeLog, LogInv, CommitProgress
        <3>2. mem' = mem
            BY <2>0, <2>8, <3>1 DEF Install, InstallBlock, SafeLog, LogInv, CommitProgress, TypeOK
        <3>3. QED
            BY <3>1, <3>2, SameRecovered DEF Vol, Active
    \* The header is erased when all blocks are home.
    <2>9. ASSUME EraseHead, lh = head, \A i \in 1..tail : disk[lh[i]] = slots[i]
          PROVE  Recovered' = disk /\ Recovered = disk
        <3>1. Restored(head, slots, disk) = disk
            <4>1. /\ head \in Seq(Blocks) /\ disk \in [Blocks -> Vals]
                  /\ \A i, j \in 1..Len(head) : head[i] = head[j] => i = j
                BY DEF TypeOK, SafeLog, LogInv, LoggedOnce
            <4>2. \A i \in 1..Len(head) : disk[head[i]] = slots[i]
                BY <2>9 DEF EraseHead
            <4>3. QED
                BY <4>1, <4>2, RestoredHome
        <3>2. Recovered' = disk
            BY <2>0, <2>9 DEF EraseHead, TypeOK, Recovered
        <3>3. QED
            BY <3>1, <3>2, SameRecovered
    <2>10. ASSUME NEW p \in Procs, Erase(p) PROVE UNCHANGED <<Vol, Recovered, Active>>
        <3>1. Recovered' = disk /\ Recovered = disk
            BY <2>9, <2>10 DEF Erase, SafeLog, LogInv, CommitProgress
        <3>2. \A q \in Procs : q \in Active' <=> q \in Active
            BY <2>0, <2>10 DEF Erase, Active, TypeOK
        <3>3. UNCHANGED <<mem, boot>> /\ Active' = Active
            BY <2>10, <3>2 DEF Erase, EraseHead, Active
        <3>4. QED
            BY <3>1, <3>3 DEF Vol
    <2>11. ASSUME ReadHead PROVE UNCHANGED <<Vol, Recovered, Active>>
        BY <2>11, SameRecovered DEF ReadHead, Vol, Active
    <2>12. ASSUME RecoverInstall PROVE UNCHANGED <<Vol, Recovered, Active>>
        <3>1. lh = head /\ InstallBlock /\ UNCHANGED <<boot, pc>> /\ boot = "install"
            BY <2>12 DEF RecoverInstall, SafeLog, LogInv, CommitProgress
        <3>2. QED
            BY <3>1, SameRecovered DEF Vol, Active
    <2>13. ASSUME RecoverErase PROVE UNCHANGED <<Vol, Recovered, Active>>
        <3>1. Recovered' = disk /\ Recovered = disk
            BY <2>9, <2>13 DEF RecoverErase, SafeLog, LogInv, CommitProgress
        <3>2. mem = disk /\ mem' = mem /\ boot = "install" /\ boot' = "test" /\ pc' = pc
            BY <2>13 DEF RecoverErase, EraseHead, SafeLog, LogInv, DirtyIsLogged
        <3>3. QED
            BY <3>1, <3>2 DEF Vol, Active
    <2>14. ASSUME StartUser PROVE UNCHANGED <<Vol, Recovered, Active>>
        BY <2>14, SameRecovered DEF StartUser, Vol, Active
    <2>15. ASSUME Crash PROVE Tx!Next
        <3>1. boot' = "read_head" /\ Active' = {} /\ UNCHANGED <<disk, slots, head>>
            BY <2>15 DEF Crash, Active
        <3>2. Recovered' = Recovered
            BY <3>1, SameRecovered
        <3>3. QED
            BY <3>1, <3>2 DEF Tx!Next, Tx!Crash
    <2>16. ASSUME UNCHANGED vars PROVE UNCHANGED <<Vol, Recovered, Active>>
        BY <2>1, <2>16 DEF vars, Active
    <2>17. QED
        BY <2>2, <2>3, <2>4, <2>5, <2>6, <2>7, <2>8, <2>10, <2>11, <2>12, <2>13, <2>14, <2>15, <2>16
        DEF Next, Recovery, LogWriteStep, CommitStep
<1>3. QED
    BY SafeInit, SafeStep, <1>1, <1>2, PTL DEF Spec, ImplementsTxDisk, Tx!Spec
=============================================================================

---------------------------- MODULE BcacheProofs ----------------------------
(***************************************************************************)
(* Proofs about Bcache, for any number of buffers, blocks and callers.      *)
(***************************************************************************)
EXTENDS Bcache, FiniteSetTheorems, TLAPS

(* NULL is not a buffer. *)
LEMMA NullNotBuf == NULL \notin Bufs
BY BcacheAssumption DEF Bufs

(* The users of a buffer are finitely many. *)
LEMMA UsersFinite ==
    ASSUME NEW b \in Bufs PROVE IsFiniteSet(Users(b)) /\ IsFiniteSet(Users(b)')
<1>1. Users(b) \subseteq Callers /\ Users(b)' \subseteq Callers
    BY DEF Users
<1>2. QED
    BY <1>1, FS_Subset, BcacheAssumption

(* What the reference counts are for: a buffer with count 0 has no users,   *)
(* and a buffer somebody has does not have count 0.                         *)
LEMMA Unreferenced ==
    ASSUME RefcntCounts, NEW b \in Bufs, NEW p \in Callers, got[p] = b
    PROVE  refcnt[b] \in Nat \ {0}
<1>1. Users(b) # {} /\ IsFiniteSet(Users(b))
    BY UsersFinite DEF Users
<1>2. Cardinality(Users(b)) \in Nat /\ Cardinality(Users(b)) # 0
    BY <1>1, FS_CardinalityType, FS_EmptySet
<1>3. QED
    BY <1>2 DEF RefcntCounts

(* A caller that gets a buffer is one more user of it. *)
LEMMA OneMoreUser ==
    ASSUME NEW p \in Callers, NEW b \in Bufs, RefcntCounts, TypeOK,
           got[p] = NULL,
           got' = [got EXCEPT ![p] = b],
           refcnt' = [refcnt EXCEPT ![b] = @ + 1]
    PROVE  RefcntCounts'
<1>1. Users(b)' = Users(b) \cup {p} /\ p \notin Users(b)
    BY NullNotBuf DEF Users, TypeOK
<1>2. Cardinality(Users(b)') = Cardinality(Users(b)) + 1
    BY <1>1, UsersFinite, FS_AddElement
<1>3. \A c \in Bufs \ {b} : Users(c)' = Users(c)
    BY NullNotBuf DEF Users, TypeOK
<1>4. QED
    BY <1>2, <1>3 DEF RefcntCounts, TypeOK

(* A caller that drops its buffer is one user less. *)
LEMMA OneLessUser ==
    ASSUME NEW p \in Callers, NEW b \in Bufs, RefcntCounts, TypeOK,
           got[p] = b,
           got' = [got EXCEPT ![p] = NULL],
           refcnt' = [refcnt EXCEPT ![b] = @ - 1]
    PROVE  RefcntCounts'
<1>1. Users(b)' = Users(b) \ {p} /\ p \in Users(b)
    BY NullNotBuf DEF Users, TypeOK
<1>2. Cardinality(Users(b)') = Cardinality(Users(b)) - 1
    BY <1>1, UsersFinite, FS_RemoveElement
<1>3. \A c \in Bufs \ {b} : Users(c)' = Users(c)
    BY NullNotBuf DEF Users, TypeOK
<1>4. QED
    BY <1>2, <1>3 DEF RefcntCounts, TypeOK

(* The list stays a list of all buffers when one of them goes to its front. *)
LEMMA ToFrontKeepsOrder ==
    ASSUME TypeOK, NEW b \in Bufs, \A c, d \in Bufs : rank[c] = rank[d] => c = d
    PROVE  /\ ToFront(b) \in [Bufs -> Bufs]
           /\ \A c, d \in Bufs : ToFront(b)[c] = ToFront(b)[d] => c = d
<1>1. NBUF \in Nat /\ \A c \in Bufs : rank[c] \in 1..NBUF
    BY BcacheAssumption DEF TypeOK, Bufs
<1>2. \A c \in Bufs : ToFront(b)[c] \in Bufs
    BY <1>1 DEF ToFront, Bufs
<1>3. ASSUME NEW c \in Bufs, NEW d \in Bufs, ToFront(b)[c] = ToFront(b)[d], c # d
      PROVE  FALSE
    <2>1. rank[c] # rank[d] /\ (c # b => rank[c] # rank[b]) /\ (d # b => rank[d] # rank[b])
        BY <1>3
    <2>2. QED
        BY <1>1, <1>3, <2>1 DEF ToFront
<1>4. QED
    BY <1>2, <1>3 DEF ToFront

(* binit() establishes the invariant. *)
LEMMA InitBcacheInv == Init => BcacheInv
<1> SUFFICES ASSUME Init PROVE BcacheInv
    OBVIOUS
<1>1. TypeOK
    BY BcacheAssumption DEF Init, TypeOK, Places, Bufs
<1>2. RefcntCounts
    <2>1. \A b \in Bufs : Users(b) = {}
        BY NullNotBuf DEF Init, Users
    <2>2. QED
        BY <2>1, FS_EmptySet DEF Init, RefcntCounts
<1>3. \A b, c \in Bufs : rank[b] = rank[c] => b = c
    BY BcacheAssumption DEF Init, Bufs
<1>4. QED
    BY <1>1, <1>2, <1>3, NullNotBuf, BcacheAssumption
    DEF Init, BcacheInv, OneBufferPerBlock, KeepsItsBlock, OwnerInside, CleanIsSynced, Owning

(* Every step of bio.c preserves the invariant. *)
LEMMA NextBcacheInv == BcacheInv /\ [Next]_vars => BcacheInv'
<1> SUFFICES ASSUME BcacheInv, [Next]_vars PROVE BcacheInv'
    OBVIOUS
<1> USE NullNotBuf, BcacheAssumption
<1>1. CASE UNCHANGED vars
    BY <1>1 DEF vars, bufVars, BcacheInv, TypeOK, OneBufferPerBlock, KeepsItsBlock,
                RefcntCounts, Users, OwnerInside, CleanIsSynced
<1>2. ASSUME NEW p \in Callers, NEW s \in Blocks, BgetHit(p, s) PROVE BcacheInv'
    <2>1. PICK b \in Bufs : /\ IsHit(b, s)
                            /\ refcnt' = [refcnt EXCEPT ![b] = @ + 1]
                            /\ got' = [got EXCEPT ![p] = b]
        BY <1>2 DEF BgetHit
    <2>2. RefcntCounts'
        BY <1>2, <2>1, OneMoreUser DEF BgetHit, Goto, BcacheInv
    <2>3. /\ pc[p] = "idle" /\ pc' = [pc EXCEPT ![p] = "lock"] /\ got[p] = NULL
          /\ want' = [want EXCEPT ![p] = s] /\ blockno[b] = s
          /\ UNCHANGED <<disk, blockno, valid, dirty, data, rank, owner>>
        BY <1>2, <2>1 DEF BgetHit, IsHit, Goto, BcacheInv
    <2>4. TypeOK'
        BY <2>1, <2>3 DEF BcacheInv, TypeOK, Places
    <2>5. OneBufferPerBlock' /\ CleanIsSynced'
        BY <2>3 DEF BcacheInv, OneBufferPerBlock, CleanIsSynced
    <2>6. /\ pc'[p] = "lock" /\ got'[p] = b /\ want'[p] = s
          /\ \A q \in Callers \ {p} : pc'[q] = pc[q] /\ got'[q] = got[q] /\ want'[q] = want[q]
        BY <2>1, <2>3 DEF BcacheInv, TypeOK
    <2>7. KeepsItsBlock' /\ OwnerInside'
        BY <2>3, <2>6 DEF BcacheInv, KeepsItsBlock, OwnerInside, Owning
    <2>8. QED
        BY <2>2, <2>3, <2>4, <2>5, <2>6, <2>7 DEF BcacheInv
<1>3. ASSUME NEW p \in Callers, NEW s \in Blocks, BgetMiss(p, s) PROVE BcacheInv'
    <2>1. CASE ~ \E b \in Bufs : Recyclable(b)
        <3>1. /\ pc[p] = "idle" /\ pc' = [pc EXCEPT ![p] = "full"]
              /\ UNCHANGED <<disk, blockno, refcnt, valid, dirty, data, rank, owner, want, got>>
            BY <1>3, <2>1 DEF BgetMiss
        <3>2. pc'[p] = "full" /\ \A q \in Callers \ {p} : pc'[q] = pc[q]
            BY <3>1 DEF BcacheInv, TypeOK
        <3>3. TypeOK'
            BY <3>1 DEF BcacheInv, TypeOK, Places
        <3>4. OneBufferPerBlock' /\ KeepsItsBlock' /\ RefcntCounts' /\ CleanIsSynced'
            BY <3>1 DEF BcacheInv, OneBufferPerBlock, KeepsItsBlock, RefcntCounts, Users, CleanIsSynced
        <3>5. OwnerInside'
            BY <3>1, <3>2 DEF BcacheInv, OwnerInside, Owning
        <3>6. QED
            BY <3>1, <3>2, <3>3, <3>4, <3>5 DEF BcacheInv
    <2>2. CASE \E b \in Bufs : Recyclable(b)
        <3>1. PICK b \in Bufs : /\ Recyclable(b)
                                /\ blockno' = [blockno EXCEPT ![b] = s]
                                /\ valid' = [valid EXCEPT ![b] = FALSE]
                                /\ dirty' = [dirty EXCEPT ![b] = FALSE]
                                /\ refcnt' = [refcnt EXCEPT ![b] = 1]
                                /\ got' = [got EXCEPT ![p] = b]
                                /\ want' = [want EXCEPT ![p] = s]
                                /\ pc' = [pc EXCEPT ![p] = "lock"]
            BY <1>3, <2>2 DEF BgetMiss, IsVictim
        <3>2. /\ pc[p] = "idle" /\ got[p] = NULL /\ owner[b] = NULL
              /\ \A c \in Bufs : blockno[c] # s
              /\ disk' = disk /\ data' = data /\ rank' = rank /\ owner' = owner
              /\ \A q \in Callers : got[q] # b
            <4>1. \A q \in Callers : got[q] # b
                BY <3>1, Unreferenced DEF Recyclable, BcacheInv
            <4>2. owner[b] = NULL
                BY <4>1 DEF BcacheInv, TypeOK, OwnerInside
            <4>3. QED
                BY <1>3, <4>1, <4>2 DEF BgetMiss, Cached, BcacheInv
        <3>3. RefcntCounts'
            <4>1. refcnt' = [refcnt EXCEPT ![b] = @ + 1]
                BY <3>1 DEF Recyclable, BcacheInv, TypeOK
            <4>2. QED
                BY <3>1, <3>2, <4>1, OneMoreUser DEF BcacheInv
        <3>4. TypeOK'
            BY <3>1, <3>2 DEF BcacheInv, TypeOK, Places
        <3>5. OneBufferPerBlock' /\ CleanIsSynced'
            BY <3>1, <3>2 DEF BcacheInv, TypeOK, OneBufferPerBlock, CleanIsSynced
        <3>6. KeepsItsBlock' /\ OwnerInside'
            BY <3>1, <3>2 DEF BcacheInv, TypeOK, KeepsItsBlock, OwnerInside, Owning
        <3>7. QED
            BY <3>1, <3>2, <3>3, <3>4, <3>5, <3>6 DEF BcacheInv, TypeOK
    <2>3. QED
        BY <2>1, <2>2
<1>4. ASSUME NEW p \in Callers, AcquireSleep(p) PROVE BcacheInv'
    BY <1>4
    DEF AcquireSleep, bufVars, BcacheInv, TypeOK, Places, OneBufferPerBlock, KeepsItsBlock,
        RefcntCounts, Users, OwnerInside, CleanIsSynced, Owning
<1>5. ASSUME NEW p \in Callers, SdRead(p) PROVE BcacheInv'
    BY <1>5
    DEF SdRead, Goto, BcacheInv, TypeOK, Places, OneBufferPerBlock, KeepsItsBlock,
        RefcntCounts, Users, OwnerInside, CleanIsSynced, Owning
<1>6. ASSUME NEW p \in Callers, NEW v \in Vals, LogWrite(p, v) PROVE BcacheInv'
    BY <1>6
    DEF LogWrite, BcacheInv, TypeOK, Places, OneBufferPerBlock, KeepsItsBlock,
        RefcntCounts, Users, OwnerInside, CleanIsSynced, Owning
<1>7. ASSUME NEW p \in Callers, NEW v \in Vals, BWrite(p, v) PROVE BcacheInv'
    BY <1>7
    DEF BWrite, Goto, BcacheInv, TypeOK, Places, OneBufferPerBlock, KeepsItsBlock,
        RefcntCounts, Users, OwnerInside, CleanIsSynced, Owning
<1>8. ASSUME NEW p \in Callers, SdWrite(p) PROVE BcacheInv'
    BY <1>8
    DEF SdWrite, Goto, BcacheInv, TypeOK, Places, OneBufferPerBlock, KeepsItsBlock,
        RefcntCounts, Users, OwnerInside, CleanIsSynced, Owning
<1>9. ASSUME NEW p \in Callers, BrelseUnlock(p) PROVE BcacheInv'
    BY <1>9
    DEF BrelseUnlock, Goto, bufVars, BcacheInv, TypeOK, Places, OneBufferPerBlock, KeepsItsBlock,
        RefcntCounts, Users, OwnerInside, CleanIsSynced, Owning
<1>10. ASSUME NEW p \in Callers, BrelseDrop(p) PROVE BcacheInv'
    <2>1. got[p] \in Bufs /\ refcnt[got[p]] \in Nat \ {0}
        BY <1>10, Unreferenced DEF BrelseDrop, Goto, BcacheInv, TypeOK
    <2>2. RefcntCounts'
        BY <1>10, <2>1, OneLessUser DEF BrelseDrop, BcacheInv
    <2>3. rank' \in [Bufs -> Bufs] /\ \A b, c \in Bufs : rank'[b] = rank'[c] => b = c
        BY <1>10, <2>1, ToFrontKeepsOrder DEF BrelseDrop, BcacheInv, TypeOK
    <2>4. TypeOK'
        <3>1. refcnt[got[p]] - 1 \in Nat
            BY <2>1
        <3>2. refcnt' \in [Bufs -> Nat]
            BY <1>10, <2>1, <3>1 DEF BrelseDrop, BcacheInv, TypeOK
        <3>3. QED
            BY <1>10, <2>1, <2>3, <3>2 DEF BrelseDrop, Goto, BcacheInv, TypeOK, Places
    <2>5. QED
        BY <1>10, <2>1, <2>2, <2>3, <2>4
        DEF BrelseDrop, Goto, BcacheInv, TypeOK, Places, OneBufferPerBlock, KeepsItsBlock,
            OwnerInside, CleanIsSynced, Owning
<1>11. QED
    BY <1>1, <1>2, <1>3, <1>4, <1>5, <1>6, <1>7, <1>8, <1>9, <1>10 DEF Next

(* The invariant of the buffer cache holds of every behaviour, whatever the *)
(* number of callers, blocks and buffers.                                   *)
THEOREM BcacheInvariant == Spec => []BcacheInv
<1>1. Init => BcacheInv
    BY InitBcacheInv
<1>2. BcacheInv /\ [Next]_vars => BcacheInv'
    BY NextBcacheInv
<1>3. QED
    BY <1>1, <1>2, PTL DEF Spec

(* bget() never takes a buffer away from a caller that has it or waits for  *)
(* it.                                                                      *)
THEOREM BcacheKeepsBlocks == Spec => []KeepsItsBlock
<1>1. BcacheInv => KeepsItsBlock
    BY DEF BcacheInv
<1>2. QED
    BY BcacheInvariant, <1>1, PTL

-----------------------------------------------------------------------------
(* The panic of bget() *)

(* binit() satisfies it. *)
LEMMA InitPanicInv == Init => PanicInv
BY DEF Init, PanicInv, LockFree

(* bget() panics when every buffer is taken, and nothing frees one then. *)
LEMMA NextPanicInv == BcacheInv /\ PanicInv /\ [Next]_vars => PanicInv'
<1> SUFFICES ASSUME BcacheInv, PanicInv, [Next]_vars PROVE PanicInv'
    OBVIOUS
<1> USE DEF Goto, PanicInv, LockFree
<1>0. TypeOK
    BY DEF BcacheInv
<1>1. ASSUME NEW p \in Callers, NEW s \in Blocks, BgetMiss(p, s) PROVE PanicInv'
    <2>1. CASE \E b \in Bufs : Recyclable(b)
        BY <1>0, <1>1, <2>1 DEF BgetMiss, TypeOK
    <2>2. CASE \A b \in Bufs : ~Recyclable(b)
        <3>1. ASSUME NEW b \in Bufs, ~dirty[b] PROVE \E q \in Callers : got[q] = b
            <4>1. refcnt[b] # 0
                BY <2>2, <3>1 DEF Recyclable
            <4>2. Users(b) # {}
                BY <4>1, FS_EmptySet DEF BcacheInv, RefcntCounts
            <4>3. QED
                BY <4>2 DEF Users
        <3>2. dirty' = dirty /\ got' = got /\ \A q \in Callers : pc'[q] # "panic"
            BY <1>0, <1>1, <2>2 DEF BgetMiss, TypeOK
        <3>3. QED
            BY <3>1, <3>2
    <2>3. QED
        BY <2>1, <2>2
<1>2. ASSUME NEW p \in Callers, BrelseUnlock(p) PROVE PanicInv'
    <2>1. owner[got[p]] = p
        BY <1>0, <1>2 DEF BrelseUnlock, BcacheInv, TypeOK, OwnerInside, Owning
    <2>2. QED
        BY <1>0, <1>2, <2>1 DEF BrelseUnlock, bufVars, TypeOK
<1>3. ASSUME NEW p \in Callers, NEW v \in Vals, BWrite(p, v) PROVE PanicInv'
    <2>1. owner[got[p]] = p
        BY <1>0, <1>3 DEF BWrite, BcacheInv, TypeOK, OwnerInside, Owning
    <2>2. QED
        BY <1>0, <1>3, <2>1 DEF BWrite, TypeOK
<1>4. ASSUME NEW p \in Callers, SdWrite(p) PROVE PanicInv'
    <2>1. \A b \in Bufs : dirty[b] => dirty'[b] \/ got'[p] = b
        BY <1>0, <1>4 DEF SdWrite, TypeOK
    <2>2. QED
        BY <1>0, <1>4, <2>1 DEF SdWrite, TypeOK
<1>5. ASSUME NEW p \in Callers,
             AcquireSleep(p) \/ SdRead(p) \/ \E v \in Vals : LogWrite(p, v)
      PROVE  PanicInv'
    BY <1>0, <1>5 DEF AcquireSleep, SdRead, LogWrite, bufVars, TypeOK
<1>6. ASSUME NEW p \in Callers, BrelseDrop(p) \/ \E s \in Blocks : BgetHit(p, s) PROVE PanicInv'
    BY <1>0, <1>6 DEF BrelseDrop, BgetHit, TypeOK
<1>7. CASE UNCHANGED vars
    BY <1>7 DEF vars, bufVars
<1>8. QED
    BY <1>1, <1>2, <1>3, <1>4, <1>5, <1>6, <1>7 DEF Next

(* If every buffer is taken, the log's blocks and the callers are as many   *)
(* as the buffers: a caller has one buffer.                                 *)
LEMMA TakenAreCounted ==
    ASSUME BcacheInv, \A b \in Bufs : dirty[b] \/ \E q \in Callers : got[q] = b
    PROVE  NBUF <= Cardinality(Pinned) + Cardinality(Busy)
<1> DEFINE Had == {b \in Bufs : \E q \in Busy : got[q] = b}
<1>1. IsFiniteSet(Busy) /\ Cardinality(Busy) \in Nat
    <2>1. Busy \subseteq Callers
        BY DEF Busy
    <2>2. QED
        BY <2>1, FS_Subset, FS_CardinalityType, BcacheAssumption
<1>2. IsFiniteSet(Bufs) /\ Cardinality(Bufs) = NBUF /\ NBUF \in Nat
    BY FS_Interval, BcacheAssumption DEF Bufs
<1>3. IsFiniteSet(Had) /\ IsFiniteSet(Pinned)
    <2>1. Had \subseteq Bufs /\ Pinned \subseteq Bufs
        BY DEF Pinned
    <2> HIDE DEF Had
    <2>2. QED
        BY <1>2, <2>1, FS_Subset
<1>4. Cardinality(Had) <= Cardinality(Busy)
    <2> DEFINE g == [b \in Had |-> CHOOSE q \in Busy : got[q] = b]
    <2>1. \A b \in Had : g[b] \in Busy /\ got[g[b]] = b
        BY Zenon
    <2>2. g \in Injection(Had, Busy)
        <3>1. g \in [Had -> Busy]
            BY <2>1
        <3>2. \A b, c \in Had : g[b] = g[c] => b = c
            BY <2>1
        <3>3. QED
            BY <3>1, <3>2 DEF Injection, IsInjective
    <2> HIDE DEF g, Had
    <2>3. QED
        BY <1>1, <2>2, FS_Injection
<1>5. Bufs \subseteq Had \cup Pinned
    <2> SUFFICES ASSUME NEW b \in Bufs, b \notin Had PROVE b \in Pinned
        OBVIOUS
    <2>1. \A q \in Callers : got[q] # b
        BY NullNotBuf DEF Busy
    <2>2. QED
        BY <2>1 DEF Pinned
<1> HIDE DEF Had
<1>6. /\ IsFiniteSet(Had \cup Pinned) /\ Cardinality(Had \cup Pinned) \in Nat
      /\ Cardinality(Had) \in Nat /\ Cardinality(Pinned) \in Nat
      /\ Cardinality(Had \cup Pinned) <= Cardinality(Had) + Cardinality(Pinned)
    <2>1. IsFiniteSet(Had \cup Pinned) /\ IsFiniteSet(Had \cap Pinned)
        BY <1>3, FS_Union, FS_Subset
    <2>2. Cardinality(Had \cup Pinned) = Cardinality(Had) + Cardinality(Pinned) - Cardinality(Had \cap Pinned)
        BY <1>3, FS_Union
    <2>3. /\ Cardinality(Had \cap Pinned) \in Nat /\ Cardinality(Had \cup Pinned) \in Nat
          /\ Cardinality(Had) \in Nat /\ Cardinality(Pinned) \in Nat
        BY <1>3, <2>1, FS_CardinalityType
    <2>4. QED
        BY <2>1, <2>2, <2>3
<1>7. NBUF <= Cardinality(Had \cup Pinned)
    BY <1>2, <1>5, <1>6, FS_Subset
<1>8. QED
    BY <1>1, <1>2, <1>4, <1>6, <1>7

(* For any number of callers and buffers, "bget: no buffers" is reached     *)
(* only when the log's blocks and the uses in progress fill the cache, and  *)
(* bwrite() and brelse() never panic.                                       *)
THEOREM BcachePanicOnlyWhenFull == Spec => []PanicOnlyWhenFull
<1>1. Init => BcacheInv /\ PanicInv
    BY InitBcacheInv, InitPanicInv
<1>2. BcacheInv /\ PanicInv /\ [Next]_vars => BcacheInv' /\ PanicInv'
    BY NextBcacheInv, NextPanicInv
<1>3. BcacheInv /\ PanicInv => PanicOnlyWhenFull
    BY TakenAreCounted DEF PanicInv, PanicOnlyWhenFull
<1>4. QED
    BY <1>1, <1>2, <1>3, PTL DEF Spec

-----------------------------------------------------------------------------
(* The cache is invisible *)

(* Content and User are well defined: a block is valid in one buffer at     *)
(* most, and one caller at most uses it.                                    *)
ViewExact ==
    /\ Content = [s \in Blocks |-> Content[s]] /\ User = [s \in Blocks |-> User[s]]
    /\ \A b \in Bufs, s \in Blocks : blockno[b] = s /\ valid[b] => Content[s] = data[b]
    /\ \A s \in Blocks : (\A b \in Bufs : ~(blockno[b] = s /\ valid[b])) => Content[s] = disk[s]
    /\ \A p \in Callers, s \in Blocks : Uses(p, s) => User[s] = p
    /\ \A s \in Blocks : (\A p \in Callers : ~Uses(p, s)) => User[s] = NULL

(* A block that is used is in the buffer of its user, who owns the lock. *)
LEMMA UserHasBuffer ==
    ASSUME BcacheInv, NEW p \in Callers, NEW s \in Blocks, Uses(p, s)
    PROVE  /\ got[p] \in Bufs /\ blockno[got[p]] = s /\ valid[got[p]] /\ owner[got[p]] = p
           /\ \A c \in Bufs : blockno[c] = s => c = got[p]
<1>1. got[p] \in Bufs /\ blockno[got[p]] = s /\ valid[got[p]]
    BY DEF Uses, BcacheInv, TypeOK, KeepsItsBlock
<1>2. owner[got[p]] = p
    BY <1>1 DEF Uses, BcacheInv, OwnerInside, Owning
<1>3. QED
    BY <1>1, <1>2, BcacheAssumption DEF BcacheInv, OneBufferPerBlock

(* The refinement mapping says what its two functions are meant to say. *)
LEMMA ViewIsExact == BcacheInv => ViewExact
<1> SUFFICES ASSUME BcacheInv PROVE ViewExact
    OBVIOUS
<1>1. ASSUME NEW b \in Bufs, NEW s \in Blocks, blockno[b] = s, valid[b] PROVE Content[s] = data[b]
    <2>1. \A c \in Bufs : blockno[c] = s => c = b
        BY <1>1, BcacheAssumption DEF BcacheInv, OneBufferPerBlock
    <2>2. (CHOOSE c \in Bufs : blockno[c] = s /\ valid[c]) = b
        BY <1>1, <2>1
    <2>3. QED
        BY <1>1, <2>2 DEF Content, Holds
<1>2. ASSUME NEW p \in Callers, NEW s \in Blocks, Uses(p, s) PROVE User[s] = p
    <2>1. ASSUME NEW q \in Callers, Uses(q, s) PROVE q = p
        BY <1>2, <2>1, UserHasBuffer
    <2>2. (CHOOSE q \in Callers : Uses(q, s)) = p
        BY <1>2, <2>1
    <2>3. QED
        BY <1>2, <2>2 DEF User
<1>3. QED
    BY <1>1, <1>2 DEF ViewExact, Content, Holds, User

(* A caller that begins to use a block nobody uses gets it. *)
LEMMA BeginsToUse ==
    ASSUME ViewExact, ViewExact', NEW p \in Callers, NEW s \in Blocks,
           \A q \in Callers : ~Uses(q, s),
           \A q \in Callers, t \in Blocks : Uses(q, t)' <=> Uses(q, t) \/ (q = p /\ t = s)
    PROVE  User[s] = NULL /\ User' = [User EXCEPT ![s] = p]
<1>1. User[s] = NULL /\ User'[s] = p
    BY DEF ViewExact
<1>2. ASSUME NEW t \in Blocks, t # s PROVE User'[t] = User[t]
    <2>1. CASE \E q \in Callers : Uses(q, t)
        BY <1>2, <2>1 DEF ViewExact
    <2>2. CASE \A q \in Callers : ~Uses(q, t)
        BY <1>2, <2>2 DEF ViewExact
    <2>3. QED
        BY <2>1, <2>2
<1>3. QED
    BY <1>1, <1>2 DEF ViewExact

(* A caller that stops using its block leaves it to nobody. *)
LEMMA StopsUsing ==
    ASSUME ViewExact, ViewExact', NEW p \in Callers, NEW s \in Blocks, Uses(p, s),
           \A q \in Callers, t \in Blocks : Uses(q, t)' <=> Uses(q, t) /\ q # p
    PROVE  User[s] = p /\ User' = [User EXCEPT ![s] = NULL]
<1>1. User[s] = p
    BY DEF ViewExact
<1>2. User'[s] = NULL
    <2>1. \A q \in Callers : ~Uses(q, s)'
        BY DEF ViewExact
    <2>2. QED
        BY <2>1 DEF ViewExact
<1>3. ASSUME NEW t \in Blocks, t # s PROVE User'[t] = User[t]
    <2>1. ~Uses(p, t)
        BY <1>3 DEF Uses
    <2>2. CASE \E q \in Callers : Uses(q, t)
        BY <1>3, <2>1, <2>2 DEF ViewExact
    <2>3. CASE \A q \in Callers : ~Uses(q, t)
        BY <1>3, <2>3 DEF ViewExact
    <2>4. QED
        BY <2>2, <2>3
<1>4. QED
    BY <1>1, <1>2, <1>3 DEF ViewExact

(* Every behaviour of the cache is a behaviour of the abstract block store. *)
THEOREM BcacheIsBlockStore == Spec => ImplementsBlockStore
<1>1. Init => Store!Init
    BY BcacheAssumption DEF Init, Store!Init, Content, Holds, User, Uses
<1>2. BcacheInv' => ViewExact'
    BY ViewIsExact, PTL
<1>3. BcacheInv /\ BcacheInv' /\ [Next]_vars => [Store!Next]_(Store!vars)
    <2> SUFFICES ASSUME BcacheInv, BcacheInv', [Next]_vars
                 PROVE  Store!Next \/ UNCHANGED <<Content, User>>
        BY DEF Store!vars
    <2>0. ViewExact /\ ViewExact'
        BY ViewIsExact, <1>2
    <2>1. CASE UNCHANGED vars
        BY <2>1 DEF vars, bufVars, Content, Holds, User, Uses
    <2>2. ASSUME NEW p \in Callers, NEW s \in Blocks, BgetHit(p, s)
          PROVE  UNCHANGED <<Content, User>>
        <3>1. \A q \in Callers, t \in Blocks : Uses(q, t)' <=> Uses(q, t)
            BY <2>2 DEF BgetHit, Goto, Uses, BcacheInv, TypeOK
        <3>2. QED
            BY <2>2, <3>1 DEF BgetHit, Content, Holds, User
    <2>3. ASSUME NEW p \in Callers, NEW s \in Blocks, BgetMiss(p, s)
          PROVE  UNCHANGED <<Content, User>>
        <3>1. \A q \in Callers, t \in Blocks : Uses(q, t)' <=> Uses(q, t)
            BY <2>3 DEF BgetMiss, Uses, BcacheInv, TypeOK
        <3>2. ASSUME NEW t \in Blocks PROVE Content'[t] = Content[t]
            <4>1. disk' = disk /\ data' = data
                BY <2>3 DEF BgetMiss
            <4>2. CASE blockno' = blockno /\ valid' = valid
                BY <4>1, <4>2 DEF Content, Holds
            <4>3. CASE ~(blockno' = blockno /\ valid' = valid)
                <5>1. PICK b \in Bufs : /\ Recyclable(b)
                                        /\ blockno' = [blockno EXCEPT ![b] = s]
                                        /\ valid' = [valid EXCEPT ![b] = FALSE]
                    BY <2>3, <4>3 DEF BgetMiss, IsVictim
                <5>2. \A c \in Bufs : blockno[c] # s
                    BY <2>3 DEF BgetMiss, Cached
                <5>3. CASE \E c \in Bufs \ {b} : blockno[c] = t /\ valid[c]
                    <6>1. PICK c \in Bufs \ {b} : blockno[c] = t /\ valid[c]
                        BY <5>3
                    <6>2. blockno'[c] = t /\ valid'[c]
                        BY <5>1, <6>1 DEF BcacheInv, TypeOK
                    <6>3. QED
                        BY <2>0, <4>1, <6>1, <6>2 DEF ViewExact
                <5>4. CASE \A c \in Bufs \ {b} : ~(blockno[c] = t /\ valid[c])
                    <6>1. \A c \in Bufs : ~(blockno'[c] = t /\ valid'[c])
                        BY <5>1, <5>4 DEF BcacheInv, TypeOK
                    <6>2. Content'[t] = disk[t]
                        BY <2>0, <4>1, <6>1 DEF ViewExact
                    <6>3. CASE blockno[b] = t /\ valid[b]
                        BY <2>0, <5>1, <6>2, <6>3, BcacheAssumption
                        DEF ViewExact, Recyclable, BcacheInv, CleanIsSynced
                    <6>4. CASE ~(blockno[b] = t /\ valid[b])
                        BY <2>0, <5>4, <6>2, <6>4 DEF ViewExact
                    <6>5. QED
                        BY <6>3, <6>4
                <5>5. QED
                    BY <5>3, <5>4
            <4>4. QED
                BY <4>2, <4>3
        <3>3. Content' = Content
            BY <2>0, <3>2 DEF ViewExact
        <3>4. QED
            BY <3>1, <3>3 DEF User
    <2>4. ASSUME NEW p \in Callers, AcquireSleep(p)
          PROVE  Store!Next \/ UNCHANGED <<Content, User>>
        <3>1. Content' = Content
            BY <2>4 DEF AcquireSleep, bufVars, Content, Holds
        <3>2. CASE ~valid[got[p]]
            <4>1. \A q \in Callers, t \in Blocks : Uses(q, t)' <=> Uses(q, t)
                BY <2>4, <3>2 DEF AcquireSleep, Uses, BcacheInv, TypeOK
            <4>2. QED
                BY <3>1, <4>1 DEF User
        <3>3. CASE valid[got[p]]
            <4>1. /\ got[p] \in Bufs /\ want[p] \in Blocks /\ blockno[got[p]] = want[p]
                  /\ owner[got[p]] = NULL
                BY <2>4 DEF AcquireSleep, BcacheInv, TypeOK, KeepsItsBlock
            <4>2. \A q \in Callers : ~Uses(q, want[p])
                BY <4>1, UserHasBuffer, BcacheAssumption
            <4>3. \A q \in Callers, t \in Blocks :
                     Uses(q, t)' <=> Uses(q, t) \/ (q = p /\ t = want[p])
                BY <2>4, <3>3 DEF AcquireSleep, Uses, BcacheInv, TypeOK
            <4>4. User[want[p]] = NULL /\ User' = [User EXCEPT ![want[p]] = p]
                BY <2>0, <4>1, <4>2, <4>3, BeginsToUse
            <4>5. QED
                BY <3>1, <4>1, <4>4 DEF Store!Next, Store!Get
        <3>4. QED
            BY <3>2, <3>3
    <2>5. ASSUME NEW p \in Callers, SdRead(p) PROVE Store!Next
        <3>1. /\ pc[p] = "read" /\ got[p] \in Bufs /\ want[p] \in Blocks
              /\ blockno[got[p]] = want[p] /\ owner[got[p]] = p /\ ~valid[got[p]]
            BY <2>5 DEF SdRead, Goto, BcacheInv, TypeOK, KeepsItsBlock, OwnerInside, Owning
        <3>2. \A q \in Callers : ~Uses(q, want[p])
            BY <3>1, UserHasBuffer
        <3>3. \A q \in Callers, t \in Blocks :
                 Uses(q, t)' <=> Uses(q, t) \/ (q = p /\ t = want[p])
            BY <2>5 DEF SdRead, Goto, Uses, BcacheInv, TypeOK
        <3>4. User[want[p]] = NULL /\ User' = [User EXCEPT ![want[p]] = p]
            BY <2>0, <3>1, <3>2, <3>3, BeginsToUse
        <3>5. ASSUME NEW t \in Blocks PROVE Content'[t] = Content[t]
            <4>1. CASE t = want[p]
                <5>1. \A c \in Bufs : ~(blockno[c] = t /\ valid[c])
                    BY <3>1, <4>1, BcacheAssumption DEF BcacheInv, OneBufferPerBlock
                <5>2. Content[t] = disk[t]
                    BY <2>0, <5>1 DEF ViewExact
                <5>3. blockno'[got[p]] = t /\ valid'[got[p]] /\ data'[got[p]] = disk[t]
                    BY <2>5, <3>1, <4>1 DEF SdRead, BcacheInv, TypeOK
                <5>4. QED
                    BY <2>0, <3>1, <5>2, <5>3 DEF ViewExact
            <4>2. CASE t # want[p]
                <5>1. \A c \in Bufs : /\ blockno'[c] = blockno[c]
                                      /\ blockno[c] = t => /\ valid'[c] <=> valid[c]
                                                           /\ data'[c] = data[c]
                    BY <2>5, <3>1, <4>2 DEF SdRead, BcacheInv, TypeOK
                <5>2. disk' = disk
                    BY <2>5 DEF SdRead
                <5>3. CASE \E c \in Bufs : blockno[c] = t /\ valid[c]
                    <6>1. PICK c \in Bufs : blockno[c] = t /\ valid[c]
                        BY <5>3
                    <6>2. blockno'[c] = t /\ valid'[c] /\ data'[c] = data[c]
                        BY <5>1, <6>1
                    <6>3. QED
                        BY <2>0, <6>1, <6>2 DEF ViewExact
                <5>4. CASE \A c \in Bufs : ~(blockno[c] = t /\ valid[c])
                    <6>1. \A c \in Bufs : ~(blockno'[c] = t /\ valid'[c])
                        BY <5>1, <5>4
                    <6>2. QED
                        BY <2>0, <5>2, <5>4, <6>1 DEF ViewExact
                <5>5. QED
                    BY <5>3, <5>4
            <4>3. QED
                BY <4>1, <4>2
        <3>6. Content' = Content
            BY <2>0, <3>5 DEF ViewExact
        <3>7. QED
            BY <3>1, <3>4, <3>6 DEF Store!Next, Store!Get
    <2>6. ASSUME NEW p \in Callers, NEW v \in Vals, LogWrite(p, v) \/ BWrite(p, v)
          PROVE  Store!Next
        <3>1. /\ pc[p] = "use" /\ want[p] \in Blocks /\ Uses(p, want[p])
              /\ disk' = disk /\ blockno' = blockno /\ valid' = valid /\ want' = want
              /\ data' = [data EXCEPT ![got[p]] = v]
            BY <2>6 DEF LogWrite, BWrite, Goto, Uses, BcacheInv, TypeOK
        <3>2. /\ got[p] \in Bufs /\ blockno[got[p]] = want[p] /\ valid[got[p]]
              /\ owner[got[p]] = p
              /\ \A c \in Bufs : blockno[c] = want[p] => c = got[p]
            BY <3>1, UserHasBuffer
        <3>3. \A q \in Callers, t \in Blocks : Uses(q, t)' <=> Uses(q, t)
            BY <2>6, <3>1, <3>2 DEF LogWrite, BWrite, Goto, Uses, BcacheInv, TypeOK
        <3>4. User' = User /\ User[want[p]] = p
            BY <2>0, <3>1, <3>3 DEF User, ViewExact
        <3>5. ASSUME NEW t \in Blocks
              PROVE  Content'[t] = IF t = want[p] THEN v ELSE Content[t]
            <4>1. CASE t = want[p]
                <5>1. data'[got[p]] = v
                    BY <3>1, <3>2 DEF BcacheInv, TypeOK
                <5>2. QED
                    BY <2>0, <3>1, <3>2, <4>1, <5>1 DEF ViewExact
            <4>2. CASE t # want[p]
                <5>1. \A c \in Bufs : blockno[c] = t => data'[c] = data[c]
                    BY <3>1, <3>2, <4>2 DEF BcacheInv, TypeOK
                <5>2. CASE \E c \in Bufs : blockno[c] = t /\ valid[c]
                    BY <2>0, <3>1, <4>2, <5>1, <5>2 DEF ViewExact
                <5>3. CASE \A c \in Bufs : ~(blockno[c] = t /\ valid[c])
                    BY <2>0, <3>1, <4>2, <5>3 DEF ViewExact
                <5>4. QED
                    BY <5>2, <5>3
            <4>3. QED
                BY <4>1, <4>2
        <3>6. Content' = [Content EXCEPT ![want[p]] = v]
            BY <2>0, <3>5 DEF ViewExact
        <3>7. QED
            BY <3>1, <3>4, <3>6 DEF Store!Next, Store!Put
    <2>7. ASSUME NEW p \in Callers, SdWrite(p) PROVE UNCHANGED <<Content, User>>
        <3>1. /\ pc[p] = "write" /\ want[p] \in Blocks /\ Uses(p, want[p])
              /\ blockno' = blockno /\ data' = data
            BY <2>7 DEF SdWrite, Goto, Uses, BcacheInv, TypeOK
        <3>2. got[p] \in Bufs /\ blockno[got[p]] = want[p] /\ valid[got[p]]
            BY <3>1, UserHasBuffer
        <3>3. \A q \in Callers, t \in Blocks : Uses(q, t)' <=> Uses(q, t)
            BY <2>7 DEF SdWrite, Goto, Uses, BcacheInv, TypeOK
        <3>4. valid' = valid /\ \A t \in Blocks : t # want[p] => disk'[t] = disk[t]
            BY <2>7, <3>2 DEF SdWrite, BcacheInv, TypeOK
        <3>5. ASSUME NEW t \in Blocks PROVE Content'[t] = Content[t]
            <4>1. CASE \E c \in Bufs : blockno[c] = t /\ valid[c]
                BY <2>0, <3>1, <3>4, <4>1 DEF ViewExact
            <4>2. CASE \A c \in Bufs : ~(blockno[c] = t /\ valid[c])
                BY <2>0, <3>1, <3>2, <3>4, <4>2 DEF ViewExact
            <4>3. QED
                BY <4>1, <4>2
        <3>6. QED
            BY <2>0, <3>3, <3>5 DEF ViewExact, User
    <2>8. ASSUME NEW p \in Callers, BrelseUnlock(p) PROVE Store!Next
        <3>1. pc[p] = "use" /\ want[p] \in Blocks /\ Uses(p, want[p])
            BY <2>8 DEF BrelseUnlock, Goto, Uses, BcacheInv, TypeOK
        <3>2. \A q \in Callers, t \in Blocks : Uses(q, t)' <=> Uses(q, t) /\ q # p
            BY <2>8 DEF BrelseUnlock, Goto, Uses, BcacheInv, TypeOK
        <3>3. User[want[p]] = p /\ User' = [User EXCEPT ![want[p]] = NULL]
            BY <2>0, <3>1, <3>2, StopsUsing
        <3>4. Content' = Content
            BY <2>8 DEF BrelseUnlock, bufVars, Content, Holds
        <3>5. QED
            BY <3>1, <3>3, <3>4 DEF Store!Next, Store!Release
    <2>9. ASSUME NEW p \in Callers, BrelseDrop(p) PROVE UNCHANGED <<Content, User>>
        <3>1. \A q \in Callers, t \in Blocks : Uses(q, t)' <=> Uses(q, t)
            BY <2>9 DEF BrelseDrop, Goto, Uses, BcacheInv, TypeOK
        <3>2. QED
            BY <2>9, <3>1 DEF BrelseDrop, Content, Holds, User
    <2>10. QED
        BY <2>1, <2>2, <2>3, <2>4, <2>5, <2>6, <2>7, <2>8, <2>9 DEF Next
<1>4. QED
    BY <1>1, <1>3, BcacheInvariant, PTL DEF Spec, ImplementsBlockStore, Store!Spec
=============================================================================

------------------------------- MODULE Bcache -------------------------------
(***************************************************************************)
(* kern/bio.c: the buffer cache.                                            *)
(*                                                                          *)
(* bget() and the second half of brelse() run under bcache.lock; the        *)
(* contents of a buffer are under its sleeplock.  Between the two a caller  *)
(* has only its reference: others may find the buffer, lock it first, read  *)
(* the block into it or look for a buffer to recycle.                       *)
(*                                                                          *)
(* A caller is one use of a buffer, from bread() to brelse(); a process     *)
(* that has two buffers counts as two callers.  sdrw() is one step (module  *)
(* SdDriver), and so are the sleeplock's operations (module SleepLock).     *)
(***************************************************************************)
EXTENDS Naturals, FiniteSets

CONSTANTS Callers,    \* uses of the cache at one time
          Blocks,     \* blocks of the file system
          Vals,       \* contents of a block
          NBUF,       \* number of buffers
          MaxPinned,  \* bound: blocks that log_write() keeps in the cache
          NULL        \* no block, no caller

ASSUME BcacheAssumption ==
    /\ IsFiniteSet(Callers)
    /\ NBUF \in Nat \ {0} /\ MaxPinned \in Nat
    /\ Vals # {}
    /\ NULL \notin Blocks /\ NULL \notin Callers /\ NULL \notin Nat

Bufs == 1..NBUF

VARIABLES disk,      \* blocks on disk
          blockno, refcnt, valid, dirty, data,  \* fields of struct buf
          rank,      \* place in the list from bcache.head: 1 is most recently used
          owner,     \* holder of the buffer's sleeplock
          pc, want, got  \* per caller: place, block and buffer

bufVars == <<blockno, refcnt, valid, dirty, data, rank>>
vars    == <<disk, bufVars, owner, pc, want, got>>

\* "full" is the panic of bget(), "panic" that of bwrite() and brelse()
Places == {"idle", "lock", "read", "use", "write", "drop", "full", "panic"}

TypeOK ==
    /\ disk \in [Blocks -> Vals]
    /\ blockno \in [Bufs -> Blocks \cup {NULL}]
    /\ refcnt \in [Bufs -> Nat]
    /\ valid \in [Bufs -> BOOLEAN]
    /\ dirty \in [Bufs -> BOOLEAN]
    /\ data \in [Bufs -> Vals]
    /\ rank \in [Bufs -> Bufs]
    /\ owner \in [Bufs -> Callers \cup {NULL}]
    /\ pc \in [Callers -> Places]
    /\ want \in [Callers -> Blocks \cup {NULL}]
    /\ got \in [Callers -> Bufs \cup {NULL}]

(* binit(): each buffer goes to the front of the list; none has a block. *)
Init ==
    /\ disk \in [Blocks -> Vals]
    /\ blockno = [b \in Bufs |-> NULL]
    /\ refcnt = [b \in Bufs |-> 0]
    /\ valid = [b \in Bufs |-> FALSE]
    /\ dirty = [b \in Bufs |-> FALSE]
    /\ data = [b \in Bufs |-> CHOOSE v \in Vals : TRUE]
    /\ rank = [b \in Bufs |-> NBUF + 1 - b]
    /\ owner = [b \in Bufs |-> NULL]
    /\ pc = [p \in Callers |-> "idle"]
    /\ want = [p \in Callers |-> NULL]
    /\ got = [p \in Callers |-> NULL]

Goto(p, from, to) ==
    /\ pc[p] = from
    /\ pc' = [pc EXCEPT ![p] = to]

-----------------------------------------------------------------------------
(* bget(), under bcache.lock.  A core that panics there keeps the lock. *)

LockFree == \A q \in Callers : pc[q] # "full"

Cached(s) == \E b \in Bufs : blockno[b] = s

(* The first buffer of the block, from the most recently used on. *)
IsHit(b, s) ==
    /\ blockno[b] = s
    /\ \A c \in Bufs : blockno[c] = s => rank[b] <= rank[c]

(* A bget() that takes no reference to the buffer it found. *)
BgetHitUncounted(p, s) ==
    /\ LockFree
    /\ \E b \in Bufs :
          /\ IsHit(b, s)
          /\ got' = [got EXCEPT ![p] = b]
    /\ want' = [want EXCEPT ![p] = s]
    /\ Goto(p, "idle", "lock")
    /\ UNCHANGED <<disk, bufVars, owner>>

BgetHit(p, s) ==
    /\ LockFree
    /\ \E b \in Bufs :
          /\ IsHit(b, s)
          /\ refcnt' = [refcnt EXCEPT ![b] = @ + 1]
          /\ got' = [got EXCEPT ![p] = b]
    /\ want' = [want EXCEPT ![p] = s]
    /\ Goto(p, "idle", "lock")
    /\ UNCHANGED <<disk, blockno, valid, dirty, data, rank, owner>>

(* A cache that may recycle what log.c has modified but not yet committed. *)
RecyclableDirty(b) == refcnt[b] = 0

(* A cache that may recycle a buffer somebody waits for. *)
RecyclableReferenced(b) == ~dirty[b] /\ owner[b] = NULL

Recyclable(b) == refcnt[b] = 0 /\ ~dirty[b]

(* The first buffer that can be recycled, from the least recently used on. *)
IsVictim(b) ==
    /\ Recyclable(b)
    /\ \A c \in Bufs : Recyclable(c) => rank[c] <= rank[b]

(* Not cached: recycle, or panic("bget: no buffers"). *)
BgetMiss(p, s) ==
    /\ pc[p] = "idle" /\ LockFree
    /\ ~Cached(s)
    /\ IF \E b \in Bufs : Recyclable(b)
       THEN \E b \in Bufs :
               /\ IsVictim(b)
               /\ blockno' = [blockno EXCEPT ![b] = s]
               /\ valid' = [valid EXCEPT ![b] = FALSE]
               /\ dirty' = [dirty EXCEPT ![b] = FALSE]
               /\ refcnt' = [refcnt EXCEPT ![b] = 1]
               /\ got' = [got EXCEPT ![p] = b]
               /\ want' = [want EXCEPT ![p] = s]
               /\ pc' = [pc EXCEPT ![p] = "lock"]
       ELSE /\ pc' = [pc EXCEPT ![p] = "full"]
            /\ UNCHANGED <<blockno, valid, dirty, refcnt, got, want>>
    /\ UNCHANGED <<disk, data, rank, owner>>

(* acquiresleep(&b->lock); bread() then looks at B_VALID. *)
AcquireSleep(p) ==
    /\ pc[p] = "lock" /\ owner[got[p]] = NULL
    /\ owner' = [owner EXCEPT ![got[p]] = p]
    /\ pc' = [pc EXCEPT ![p] = IF valid[got[p]] THEN "use" ELSE "read"]
    /\ UNCHANGED <<disk, bufVars, want, got>>

(* bread(): sdrw() reads the block. *)
SdRead(p) ==
    /\ Goto(p, "read", "use")
    /\ data' = [data EXCEPT ![got[p]] = disk[blockno[got[p]]]]
    /\ valid' = [valid EXCEPT ![got[p]] = TRUE]
    /\ UNCHANGED <<disk, blockno, refcnt, dirty, rank, owner, want, got>>

-----------------------------------------------------------------------------
(* The holder of a buffer *)

(* Buffers that stay in the cache for the log. *)
Pinned == {c \in Bufs : dirty[c] /\ \A q \in Callers : ~(pc[q] = "write" /\ got[q] = c)}

(* Modify the data and log_write(): B_DIRTY, no disk write. *)
LogWrite(p, v) ==
    /\ pc[p] = "use"
    /\ Cardinality(Pinned \cup {got[p]}) <= MaxPinned
    /\ data' = [data EXCEPT ![got[p]] = v]
    /\ dirty' = [dirty EXCEPT ![got[p]] = TRUE]
    /\ UNCHANGED <<disk, blockno, refcnt, valid, rank, owner, pc, want, got>>

(* Modify the data and bwrite(): B_DIRTY, *)
BWrite(p, v) ==
    /\ Goto(p, "use", IF owner[got[p]] = p THEN "write" ELSE "panic")
    /\ data' = [data EXCEPT ![got[p]] = v]
    /\ dirty' = [dirty EXCEPT ![got[p]] = TRUE]
    /\ UNCHANGED <<disk, blockno, refcnt, valid, rank, owner, want, got>>

(* and sdrw() writes the block. *)
SdWrite(p) ==
    /\ Goto(p, "write", "use")
    /\ disk' = [disk EXCEPT ![blockno[got[p]]] = data[got[p]]]
    /\ valid' = [valid EXCEPT ![got[p]] = TRUE]
    /\ dirty' = [dirty EXCEPT ![got[p]] = FALSE]
    /\ UNCHANGED <<blockno, refcnt, data, rank, owner, want, got>>

-----------------------------------------------------------------------------
(* brelse(): releasesleep(), then drop the reference under bcache.lock. *)

BrelseUnlock(p) ==
    /\ Goto(p, "use", IF owner[got[p]] = p THEN "drop" ELSE "panic")
    /\ owner' = IF owner[got[p]] = p THEN [owner EXCEPT ![got[p]] = NULL] ELSE owner
    /\ UNCHANGED <<disk, bufVars, want, got>>

(* Unlink the buffer and put it behind bcache.head. *)
ToFront(b) == [c \in Bufs |-> IF c = b THEN 1
                              ELSE IF rank[c] < rank[b] THEN rank[c] + 1 ELSE rank[c]]

(* A brelse() that forgets its reference. *)
BrelseDropForgotten(p) ==
    /\ LockFree /\ Goto(p, "drop", "idle")
    /\ got' = [got EXCEPT ![p] = NULL]
    /\ want' = [want EXCEPT ![p] = NULL]
    /\ UNCHANGED <<disk, bufVars, owner>>

BrelseDrop(p) ==
    /\ LockFree /\ Goto(p, "drop", "idle")
    /\ refcnt' = [refcnt EXCEPT ![got[p]] = @ - 1]
    /\ rank' = IF refcnt[got[p]] = 1 THEN ToFront(got[p]) ELSE rank
    /\ got' = [got EXCEPT ![p] = NULL]
    /\ want' = [want EXCEPT ![p] = NULL]
    /\ UNCHANGED <<disk, blockno, valid, dirty, data, owner>>

-----------------------------------------------------------------------------
Next == \E p \in Callers :
    \/ \E s \in Blocks : BgetHit(p, s) \/ BgetMiss(p, s)
    \/ AcquireSleep(p) \/ SdRead(p)
    \/ \E v \in Vals : LogWrite(p, v) \/ BWrite(p, v)
    \/ SdWrite(p) \/ BrelseUnlock(p) \/ BrelseDrop(p)

Spec == Init /\ [][Next]_vars

-----------------------------------------------------------------------------
Users(b) == {p \in Callers : got[p] = b}
Owning == {"read", "use", "write"}

(* A block is in one buffer at most, so that all its users meet there. *)
OneBufferPerBlock ==
    \A b, c \in Bufs : blockno[b] = blockno[c] /\ blockno[b] # NULL => b = c

(* A caller that has found its buffer keeps it: the buffer is not recycled  *)
(* for another block while the caller waits for the lock, uses the data or  *)
(* has only its reference left to drop.                                     *)
KeepsItsBlock ==
    \A p \in Callers : got[p] # NULL => blockno[got[p]] = want[p]

(* b->refcnt counts the callers that have the buffer. *)
RefcntCounts == \A b \in Bufs : refcnt[b] = Cardinality(Users(b))

(* One caller at a time is inside a buffer, and it is the owner of its lock. *)
OwnerInside ==
    \A p \in Callers, b \in Bufs :
        owner[b] = p <=> got[p] = b /\ pc[p] \in Owning

(* A buffer that is valid and not dirty has what is on disk, except while   *)
(* it is being written.                                                     *)
CleanIsSynced ==
    \A b \in Bufs : blockno[b] # NULL /\ valid[b] /\ ~dirty[b] => data[b] = disk[blockno[b]]

(* The callers that have a buffer. *)
Busy == {p \in Callers : got[p] # NULL}

(* "bget: no buffers" means what it says: when bget() panics the blocks     *)
(* that the log keeps and the uses in progress fill the cache, so that no   *)
(* buffer is lost to a forgotten reference or a stale B_DIRTY.  bwrite()    *)
(* and brelse() never panic.                                                *)
PanicOnlyWhenFull ==
    /\ \A p \in Callers : pc[p] # "panic"
    /\ ~LockFree => NBUF <= Cardinality(Pinned) + Cardinality(Busy)

(* Why, and why it stays so: every buffer is taken, and nobody can give one *)
(* back while the lock of the cache is held.                                *)
PanicInv ==
    /\ \A p \in Callers : pc[p] # "panic"
    /\ ~LockFree => \A b \in Bufs : dirty[b] \/ \E q \in Callers : got[q] = b

(* The inductive invariant. *)
BcacheInv ==
    /\ TypeOK
    /\ OneBufferPerBlock
    /\ KeepsItsBlock
    /\ RefcntCounts
    /\ OwnerInside
    /\ CleanIsSynced
    /\ \A b, c \in Bufs : rank[b] = rank[c] => b = c
    /\ \A b \in Bufs : dirty[b] => valid[b]
    /\ \A b \in Bufs : blockno[b] = NULL => ~valid[b]
    /\ \A p \in Callers : got[p] # NULL <=> pc[p] \in {"lock", "read", "use", "write", "drop"}
    /\ \A p \in Callers : got[p] # NULL => want[p] # NULL
    /\ \A p \in Callers : pc[p] = "read" => ~valid[got[p]]
    /\ \A p \in Callers : pc[p] \in {"use", "write"} => valid[got[p]]

(* What the file system sees in each block, and the caller that uses it. *)
Holds(s) == IF \E b \in Bufs : blockno[b] = s /\ valid[b]
            THEN data[CHOOSE b \in Bufs : blockno[b] = s /\ valid[b]]
            ELSE disk[s]

Uses(p, s) == pc[p] \in {"use", "write"} /\ want[p] = s

Content == [s \in Blocks |-> Holds(s)]
User    == [s \in Blocks |-> IF \E p \in Callers : Uses(p, s)
                             THEN CHOOSE p \in Callers : Uses(p, s) ELSE NULL]

Store == INSTANCE BlockStore WITH Nobody <- NULL, content <- Content, user <- User

(* The cache is invisible: callers get a block one at a time, find in it    *)
(* what was last put there, and neither recycling a buffer nor reading or   *)
(* writing the disk changes what they see.                                  *)
ImplementsBlockStore == Store!Spec
=============================================================================

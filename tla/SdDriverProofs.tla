--------------------------- MODULE SdDriverProofs ---------------------------
(***************************************************************************)
(* Proofs about the request queue of kern/sd.c, for any number of buffers   *)
(* and blocks.                                                              *)
(***************************************************************************)
EXTENDS SdDriver, TLAPS

(* The boot state has an empty queue and satisfies both invariants. *)
LEMMA InitInv == Init => QueueInv /\ DataInv
<1> SUFFICES ASSUME Init PROVE QueueInv /\ DataInv
  OBVIOUS
<1>1. sector \in Sectors /\ fifo \in Vals
  BY SdAssumption DEF Init
<1>2. TypeOK
  <2>1. disk \in [Sectors -> Contents]
    BY DEF Init, Contents
  <2>2. flags \in [Bufs -> SUBSET {VALID, DIRTY}]
    BY DEF Init
  <2>3. blockno \in [Bufs -> Sectors] /\ data \in [Bufs -> Contents]
    BY <1>1 DEF Init, Contents
  <2>4. pc \in [Bufs -> {"idle", "sdrw", "asleep", "woken", "stuck", "panic"}]
    BY DEF Init
  <2>5. cmd = "none" /\ irq = {} /\ sdque = <<>> /\ panicked = "no"
    BY DEF Init
  <2> QED BY <1>1, <2>1, <2>2, <2>3, <2>4, <2>5 DEF TypeOK, Contents
<1>3. QueueInv
  BY <1>2 DEF Init, QueueInv, PanicOnlyOnFault, DeviceServesHead, SleeperIsQueued, FlagsFollow,
              Working, StuckIsHalted, InterruptFits, Expected, READ_RDY, DATA_DONE
<1>4. DataInv
  BY DEF Init, DataInv, OneBufferPerBlock, PortHoldsBlock, CleanIsWritten, VALID
<1> QED BY <1>3, <1>4

(* What Tail does to the members of a queue: position i of the tail is      *)
(* position i + 1 of the queue.                                             *)
LEMMA TailMembers ==
    ASSUME NEW q \in Seq(Bufs), q # <<>>
    PROVE  /\ Head(q) \in Bufs /\ Head(q) = q[1] /\ 1 \in 1..Len(q)
           /\ Tail(q) \in Seq(Bufs) /\ Len(Tail(q)) = Len(q) - 1 /\ Len(q) \in Nat \ {0}
           /\ \A i \in 1..Len(Tail(q)) : Tail(q)[i] = q[i + 1]
  OBVIOUS

(* What sd_start(b) does once no interrupt is pending: the transfer of b is *)
(* under way, or a fault of the controller has halted the driver.           *)
LEMMA StartOutcome ==
    ASSUME TypeOK, Working, NEW b \in Bufs, Start(b), irq' = {}
    PROVE  /\ \/ /\ cmd' = (IF Dirty(b) THEN "write" ELSE "read")
                 /\ sector' = blockno[b]
                 /\ fifo' = (IF Dirty(b) THEN data[b] ELSE fifo)
                 /\ panicked' = "no"
              \/ /\ panicked' \in Faults /\ panicked' \in {"command", "ready"}
                 /\ cmd' = "none" /\ sector' = sector /\ fifo' = fifo
           /\ cmd' \in {"none", "read", "write"}
           /\ sector' \in Sectors /\ fifo' \in Contents
           /\ panicked' \in {"no", "flag", "command", "ready", "alone"}
  BY DEF Start, Halt, Stop, TypeOK, Working

-----------------------------------------------------------------------------
(* Every step keeps the queue invariant. *)
LEMMA NextQueueInv == QueueInv /\ [Next]_vars => QueueInv'
<1> SUFFICES ASSUME QueueInv, [Next]_vars PROVE QueueInv'
  OBVIOUS
<1> USE DEF QueueInv
<1>1. ASSUME NEW b \in Bufs, NEW s \in Sectors, BRead(b, s) PROVE QueueInv'
  <2> USE <1>1 DEF BRead, devVars
  <2>1. TypeOK'
    BY DEF TypeOK
  <2>2. pc[b] = "idle" /\ ~\E i \in 1..Len(sdque) : sdque[i] = b
    BY DEF SleeperIsQueued
  <2>3. PanicOnlyOnFault' /\ SleeperIsQueued' /\ FlagsFollow' /\ StuckIsHalted'
    BY <2>2 DEF TypeOK, PanicOnlyOnFault, SleeperIsQueued, FlagsFollow, StuckIsHalted, Working
  <2>4. sdque # <<>> => Head(sdque) \in Bufs \ {b}
    BY <2>2, TailMembers DEF TypeOK
  <2>5. DeviceServesHead'
    BY <2>4 DEF TypeOK, DeviceServesHead, Dirty, Working
  <2> QED BY <2>1, <2>3, <2>5 DEF InterruptFits, Expected
<1>2. ASSUME NEW b \in Bufs, NEW v \in Vals, BWrite(b, v) PROVE QueueInv'
  <2> USE <1>2 DEF BWrite, devVars
  <2>1. TypeOK'
    BY DEF TypeOK, Contents
  <2>2. pc[b] = "idle" /\ ~\E i \in 1..Len(sdque) : sdque[i] = b
    BY DEF SleeperIsQueued
  <2>3. flags'[b] = {VALID, DIRTY}
    BY DEF TypeOK, FlagsFollow
  <2>4. PanicOnlyOnFault' /\ SleeperIsQueued' /\ FlagsFollow' /\ StuckIsHalted'
    BY <2>2, <2>3 DEF TypeOK, PanicOnlyOnFault, SleeperIsQueued, FlagsFollow, StuckIsHalted, Working
  <2>5. sdque # <<>> => Head(sdque) \in Bufs \ {b}
    BY <2>2, TailMembers DEF TypeOK
  <2>6. DeviceServesHead'
    BY <2>5 DEF TypeOK, DeviceServesHead, Dirty, Working
  <2> QED BY <2>1, <2>4, <2>6 DEF InterruptFits, Expected
<1>3. ASSUME NEW b \in Bufs, SdRw(b) PROVE QueueInv'
  <2> USE <1>3 DEF SdRw
  <2>1. flags[b] # {VALID} /\ (Working /\ sdque = <<>> => irq = {})
    BY DEF FlagsFollow, VALID, DIRTY, DeviceServesHead
  <2>2. /\ Working
        /\ sdque' = Append(sdque, b)
        /\ IF sdque = <<>> THEN Start(b) ELSE UNCHANGED <<devVars, panicked>>
        /\ pc' = [pc EXCEPT ![b] = IF panicked' = "no" THEN "asleep" ELSE "stuck"]
        /\ UNCHANGED <<disk, irq, bufVars>>
    BY <2>1 DEF SdRwNothing, SdRwQueue
  <2>s. /\ cmd' \in {"none", "read", "write"}
        /\ sector' \in Sectors /\ fifo' \in Contents
        /\ panicked' \in {"no", "flag", "command", "ready", "alone"}
        /\ panicked' \in {"no"} \cup Faults
    BY <2>1, <2>2, StartOutcome DEF TypeOK, devVars, Working
  <2>3. TypeOK'
    BY <2>2, <2>s DEF TypeOK, bufVars
  <2>4. ~\E i \in 1..Len(sdque) : sdque[i] = b
    BY DEF SleeperIsQueued
  <2>5. /\ Len(sdque) \in Nat /\ Len(sdque') = Len(sdque) + 1 /\ sdque'[Len(sdque) + 1] = b
        /\ \A i \in 1..Len(sdque) : sdque'[i] = sdque[i]
    BY <2>2 DEF TypeOK
  <2>p. pc'[b] \in {"asleep", "stuck"} /\ \A c \in Bufs \ {b} : pc'[c] = pc[c]
    BY <2>2 DEF TypeOK
  <2>6. SleeperIsQueued'
    <3>1. \A i \in 1..Len(sdque') : i \in 1..Len(sdque) \/ i = Len(sdque) + 1
      BY <2>5
    <3>2. Len(sdque) + 1 \in 1..Len(sdque') /\ \A i \in 1..Len(sdque) : i \in 1..Len(sdque')
      BY <2>5
    <3>3. ASSUME NEW c \in Bufs PROVE pc'[c] \in {"asleep", "stuck"}
                                      <=> \E i \in 1..Len(sdque') : sdque'[i] = c
      BY <3>1, <3>2, <2>p, <2>4, <2>5 DEF SleeperIsQueued
    <3>4. ASSUME NEW i \in 1..Len(sdque'), NEW j \in 1..Len(sdque'), sdque'[i] = sdque'[j]
          PROVE  i = j
      BY <3>1, <3>4, <2>4, <2>5 DEF SleeperIsQueued
    <3> QED BY <3>3, <3>4 DEF SleeperIsQueued
  <2>7. PanicOnlyOnFault' /\ FlagsFollow'
    BY <2>2, <2>p, <2>s DEF PanicOnlyOnFault, FlagsFollow, bufVars
  <2>k. StuckIsHalted'
    BY <2>2, <2>p DEF TypeOK, Working, StuckIsHalted
  <2>8. DeviceServesHead'
    <3>1. CASE sdque = <<>>
      <4>1. Head(sdque') = b /\ sdque' # <<>> /\ irq' = {} /\ Start(b)
        BY <3>1, <2>1, <2>2 DEF TypeOK
      <4>2. Dirty(b)' <=> Dirty(b)
        BY <2>2 DEF Dirty, bufVars
      <4> QED BY <4>1, <4>2, <2>2, StartOutcome DEF DeviceServesHead, Dirty, bufVars, Working
    <3>2. CASE sdque # <<>>
      <4>1. Head(sdque') = Head(sdque) /\ sdque' # <<>>
        BY <3>2, <2>2 DEF TypeOK
      <4> QED BY <4>1, <3>2, <2>2 DEF TypeOK, DeviceServesHead, Dirty, devVars, bufVars, Working
    <3> QED BY <3>1, <3>2
  <2>9. InterruptFits'
    BY <2>1, <2>2 DEF InterruptFits, Expected, devVars, READ_RDY, DATA_DONE
  <2> QED BY <2>3, <2>6, <2>7, <2>8, <2>9, <2>k
<1>4. ASSUME NEW b \in Bufs, SdRwReturn(b) PROVE QueueInv'
  <2> USE <1>4 DEF SdRwReturn, devVars, bufVars, Working
  <2>1. flags[b] = {VALID} /\ pc' = [pc EXCEPT ![b] = "idle"]
    BY DEF FlagsFollow
  <2>2. TypeOK'
    BY <2>1 DEF TypeOK
  <2>3. PanicOnlyOnFault' /\ SleeperIsQueued' /\ FlagsFollow'
    BY <2>1 DEF TypeOK, PanicOnlyOnFault, SleeperIsQueued, FlagsFollow
  <2>4. StuckIsHalted'
    BY <2>1 DEF TypeOK, StuckIsHalted
  <2> QED BY <2>2, <2>3, <2>4 DEF DeviceServesHead, Dirty, InterruptFits, Expected
<1>5. CASE DeviceStep \/ DeviceReadFails \/ DeviceWriteFails \/ DeviceErrs
  <2> USE <1>5 DEF DeviceStep, DeviceRead, DeviceWrite, DeviceReadFails, DeviceWriteFails,
                  DeviceErrs, devVars, bufVars, Working
  <2>1. TypeOK'
    BY DEF TypeOK, Contents
  <2>2. DeviceServesHead'
    BY DEF DeviceServesHead, Dirty
  <2>3. InterruptFits'
    BY DEF InterruptFits, Expected, READ_RDY, DATA_DONE, ERROR
  <2> QED BY <2>1, <2>2, <2>3 DEF PanicOnlyOnFault, SleeperIsQueued, FlagsFollow, StuckIsHalted
<1>u. CASE IntrUnexpected
  <2> USE <1>u DEF IntrUnexpected, Serving, devVars, bufVars
  <2>1. irq # {} /\ "alone" \in Faults
    BY DEF InterruptFits
  <2>2. TypeOK'
    BY DEF TypeOK
  <2>3. PanicOnlyOnFault' /\ DeviceServesHead'
    BY <2>1 DEF PanicOnlyOnFault, DeviceServesHead, Working
  <2> QED BY <2>2, <2>3
          DEF SleeperIsQueued, FlagsFollow, Working, StuckIsHalted, InterruptFits, Expected
<1>6. CASE IntrRestart
  <2>1. /\ Head(sdque) \in Bufs /\ Working /\ sdque # <<>> /\ irq' = {}
        /\ Start(Head(sdque)) /\ UNCHANGED <<disk, sdque, bufVars, pc>>
    BY <1>6, TailMembers DEF IntrRestart, Serving, TypeOK
  <2>2. /\ cmd' \in {"none", "read", "write"}
        /\ sector' \in Sectors /\ fifo' \in Contents
        /\ panicked' \in {"no", "flag", "command", "ready", "alone"}
        /\ panicked' \in {"no"} \cup Faults
    BY <2>1, StartOutcome
  <2>3. TypeOK'
    BY <2>1, <2>2 DEF TypeOK, bufVars
  <2>4. DeviceServesHead'
    BY <2>1, StartOutcome DEF DeviceServesHead, Dirty, Working, bufVars
  <2>5. PanicOnlyOnFault' /\ StuckIsHalted'
    BY <2>1, <2>2 DEF PanicOnlyOnFault, Working, StuckIsHalted
  <2>6. InterruptFits'
    BY <2>1 DEF InterruptFits
  <2> QED BY <2>1, <2>3, <2>4, <2>5, <2>6 DEF SleeperIsQueued, FlagsFollow, bufVars
<1>7. CASE IntrDone
  <2> DEFINE b == Head(sdque)
  <2>1. /\ b \in Bufs /\ b = sdque[1] /\ 1 \in 1..Len(sdque)
        /\ Tail(sdque) \in Seq(Bufs) /\ Len(Tail(sdque)) = Len(sdque) - 1
        /\ Len(sdque) \in Nat \ {0}
        /\ \A i \in 1..Len(Tail(sdque)) : Tail(sdque)[i] = sdque[i + 1]
    BY <1>7, TailMembers DEF IntrDone, Serving, TypeOK
  <2>2. pc[b] = "asleep" /\ Working
    BY <1>7, <2>1 DEF SleeperIsQueued, StuckIsHalted, IntrDone, Serving
  <2> HIDE DEF b
  <2>3. /\ data' = IF Dirty(b) THEN data ELSE [data EXCEPT ![b] = fifo]
        /\ flags' = [flags EXCEPT ![b] = {VALID}]
        /\ pc' = [pc EXCEPT ![b] = "woken"]
        /\ irq' = {} /\ sdque' = Tail(sdque) /\ StartNext
        /\ UNCHANGED <<disk, blockno>>
    BY <1>7, <2>2 DEF IntrDone, Finish, b
  <2>4. sdque' # <<>> => Head(sdque') \in Bufs /\ Head(sdque') = sdque[2] /\ 2 \in 1..Len(sdque)
    BY <2>1, <2>3, TailMembers
  <2>s. /\ cmd' \in {"none", "read", "write"}
        /\ sector' \in Sectors /\ fifo' \in Contents
        /\ panicked' \in {"no", "flag", "command", "ready", "alone"}
        /\ panicked' \in {"no"} \cup Faults
    <3>1. CASE sdque' = <<>>
      BY <3>1, <2>2, <2>3 DEF TypeOK, StartNext, Stop, Working
    <3>2. CASE sdque' # <<>>
      BY <3>2, <2>2, <2>3, <2>4, StartOutcome DEF StartNext
    <3> QED BY <3>1, <3>2
  <2>5. TypeOK'
    BY <2>1, <2>3, <2>s DEF TypeOK
  <2>6. SleeperIsQueued'
    <3>1. \A c \in Bufs : pc'[c] \in {"asleep", "stuck"}
                             <=> pc[c] \in {"asleep", "stuck"} /\ c # b
      BY <2>1, <2>3 DEF TypeOK
    <3>2. ASSUME NEW c \in Bufs PROVE
             (\E i \in 1..Len(sdque') : sdque'[i] = c)
                <=> (\E i \in 1..Len(sdque) : sdque[i] = c) /\ c # b
      <4>1. ASSUME NEW i \in 1..Len(sdque'), sdque'[i] = c
            PROVE  (\E j \in 1..Len(sdque) : sdque[j] = c) /\ c # b
        <5>1. i + 1 \in 1..Len(sdque) /\ i + 1 # 1 /\ sdque[i + 1] = c
          BY <4>1, <2>1, <2>3
        <5> QED BY <5>1, <2>1 DEF SleeperIsQueued
      <4>2. ASSUME NEW i \in 1..Len(sdque), sdque[i] = c, c # b
            PROVE  \E j \in 1..Len(sdque') : sdque'[j] = c
        <5>1. i - 1 \in 1..Len(sdque') /\ sdque'[i - 1] = c
          BY <4>2, <2>1, <2>3
        <5> QED BY <5>1
      <4> QED BY <4>1, <4>2
    <3>3. ASSUME NEW i \in 1..Len(sdque'), NEW j \in 1..Len(sdque'), sdque'[i] = sdque'[j]
          PROVE  i = j
      <4>1. /\ i + 1 \in 1..Len(sdque) /\ j + 1 \in 1..Len(sdque)
            /\ sdque[i + 1] = sdque[j + 1]
        BY <3>3, <2>1, <2>3
      <4>2. i + 1 = j + 1
        BY <4>1 DEF SleeperIsQueued
      <4> QED BY <4>2
    <3> QED BY <3>1, <3>2, <3>3 DEF SleeperIsQueued
  <2>7. PanicOnlyOnFault' /\ FlagsFollow'
    BY <2>1, <2>3, <2>s DEF TypeOK, PanicOnlyOnFault, FlagsFollow
  <2>k. StuckIsHalted'
    BY <2>1, <2>2, <2>3 DEF TypeOK, StuckIsHalted
  <2>8. DeviceServesHead'
    <3>1. CASE sdque' = <<>>
      BY <3>1, <2>2, <2>3 DEF DeviceServesHead, StartNext, Stop, Working
    <3>2. CASE sdque' # <<>>
      <4>1. Head(sdque') \in Bufs /\ Head(sdque') # b
        BY <3>2, <2>1, <2>4 DEF SleeperIsQueued
      <4>2. Start(Head(sdque')) /\ (Dirty(Head(sdque')) <=> DIRTY \in flags'[Head(sdque')])
        BY <3>2, <4>1, <2>1, <2>3 DEF TypeOK, StartNext, Dirty
      <4> QED BY <3>2, <4>1, <4>2, <2>2, <2>3, StartOutcome DEF DeviceServesHead, Dirty, Working
    <3> QED BY <3>1, <3>2
  <2>9. InterruptFits'
    BY <2>3 DEF InterruptFits
  <2> QED BY <2>5, <2>6, <2>7, <2>8, <2>9, <2>k
<1>8. CASE UNCHANGED vars
  BY <1>8 DEF vars, devVars, bufVars, TypeOK, PanicOnlyOnFault, DeviceServesHead, Dirty,
              SleeperIsQueued, FlagsFollow, Working, StuckIsHalted, InterruptFits, Expected
<1> QED BY <1>1, <1>2, <1>3, <1>4, <1>5, <1>u, <1>6, <1>7, <1>8 DEF Next

-----------------------------------------------------------------------------
(* Every step keeps the data invariant. *)
LEMMA NextDataInv == QueueInv /\ QueueInv' /\ DataInv /\ [Next]_vars => DataInv'
<1> SUFFICES ASSUME QueueInv, QueueInv', DataInv, [Next]_vars PROVE DataInv'
  OBVIOUS
<1>0. TypeOK /\ TypeOK' /\ FlagsFollow /\ SleeperIsQueued /\ DeviceServesHead
  BY DEF QueueInv
<1>h. ASSUME sdque # <<>> PROVE Head(sdque) \in Bufs /\ pc[Head(sdque)] \in {"asleep", "stuck"}
  BY <1>h, <1>0, TailMembers DEF TypeOK, SleeperIsQueued
<1>w. cmd # "none" => sdque # <<>>
  BY <1>0 DEF DeviceServesHead
<1>a. cmd = "read" => DATA_DONE \notin irq
  BY DEF QueueInv, InterruptFits
<1> USE <1>0 DEF DataInv
<1>1. ASSUME NEW b \in Bufs, NEW s \in Sectors, BRead(b, s) PROVE DataInv'
  <2> USE <1>1 DEF BRead, devVars
  <2>1. OneBufferPerBlock'
    BY DEF TypeOK, OneBufferPerBlock, InUse
  <2>2. PortHoldsBlock'
    BY DEF PortHoldsBlock
  <2>3. CleanIsWritten'
    BY DEF TypeOK, CleanIsWritten, VALID
  <2> QED BY <2>1, <2>2, <2>3
<1>2. ASSUME NEW b \in Bufs, NEW v \in Vals, BWrite(b, v) PROVE DataInv'
  <2> USE <1>2 DEF BWrite, devVars
  <2>1. flags'[b] = {VALID, DIRTY}
    BY DEF TypeOK, FlagsFollow
  <2>2. OneBufferPerBlock'
    BY DEF TypeOK, OneBufferPerBlock
  <2>3. sdque # <<>> => Head(sdque) # b
    BY <1>h
  <2>4. PortHoldsBlock'
    BY <2>3, <1>h DEF TypeOK, PortHoldsBlock, DeviceServesHead
  <2>5. CleanIsWritten'
    BY <2>1 DEF TypeOK, CleanIsWritten, VALID, DIRTY
  <2> QED BY <2>2, <2>4, <2>5
<1>3. ASSUME NEW b \in Bufs, SdRw(b) PROVE DataInv'
  <2>1. /\ pc[b] = "sdrw" /\ flags[b] # {VALID} /\ Working /\ (sdque = <<>> => irq = {})
        /\ sdque' = Append(sdque, b)
        /\ IF sdque = <<>> THEN Start(b) ELSE UNCHANGED <<devVars, panicked>>
        /\ pc' = [pc EXCEPT ![b] = IF panicked' = "no" THEN "asleep" ELSE "stuck"]
        /\ UNCHANGED <<disk, irq, bufVars>>
    <3>1. flags[b] # {VALID}
      BY <1>3 DEF SdRw, FlagsFollow, VALID, DIRTY
    <3> QED BY <3>1, <1>3 DEF SdRw, SdRwNothing, SdRwQueue, DeviceServesHead
  <2>2. \A c \in Bufs : pc'[c] = "idle" <=> pc[c] = "idle"
    BY <2>1 DEF TypeOK
  <2>3. OneBufferPerBlock' /\ (CleanIsWritten')
    BY <2>1, <2>2 DEF OneBufferPerBlock, CleanIsWritten, bufVars
  <2>4. PortHoldsBlock'
    <3>1. CASE sdque = <<>>
      <4>1. Head(sdque') = b /\ irq' = {} /\ Start(b) /\ data' = data
        BY <3>1, <2>1 DEF TypeOK, bufVars
      <4> QED BY <4>1, <2>1, StartOutcome DEF PortHoldsBlock
    <3>2. CASE sdque # <<>>
      <4>1. Head(sdque') = Head(sdque)
        BY <3>2, <2>1 DEF TypeOK
      <4> QED BY <4>1, <3>2, <2>1 DEF PortHoldsBlock, devVars, bufVars
    <3> QED BY <3>1, <3>2
  <2> QED BY <2>3, <2>4
<1>4. ASSUME NEW b \in Bufs, SdRwReturn(b) PROVE DataInv'
  BY <1>4 DEF SdRwReturn, devVars, bufVars, TypeOK, FlagsFollow, OneBufferPerBlock,
              PortHoldsBlock, CleanIsWritten, VALID
<1>5. CASE DeviceRead \/ DeviceReadFails
  BY <1>5 DEF DeviceRead, DeviceReadFails, bufVars, OneBufferPerBlock, PortHoldsBlock,
              CleanIsWritten
<1>e. CASE DeviceErrs \/ IntrUnexpected
  BY <1>e DEF DeviceErrs, IntrUnexpected, devVars, bufVars, OneBufferPerBlock,
              PortHoldsBlock, CleanIsWritten, ERROR, READ_RDY, DATA_DONE
<1>6. CASE DeviceWrite \/ DeviceWriteFails
  <2> USE <1>6 DEF DeviceWrite, DeviceWriteFails, devVars, bufVars
  <2>1. cmd = "write" /\ Working /\ sdque # <<>> /\ sector = blockno[Head(sdque)]
    BY DEF DeviceServesHead
  <2>2. DIRTY \in flags[Head(sdque)]
    BY <2>1 DEF DeviceServesHead, Dirty
  <2>3. OneBufferPerBlock'
    BY DEF OneBufferPerBlock
  <2>p. PortHoldsBlock'
    <3>1. cmd' = "write" /\ fifo' = fifo /\ sector' = sector /\ sector \in Sectors
      BY <2>1 DEF TypeOK
    <3>2. fifo' = data'[Head(sdque')]
      BY <2>1 DEF PortHoldsBlock
    <3>3. ASSUME irq' = {DATA_DONE} PROVE disk'[sector] = fifo
      <4>1. DeviceWrite
        BY <3>3 DEF ERROR, DATA_DONE
      <4> QED BY <4>1, <3>1 DEF TypeOK
    <3> QED BY <3>1, <3>2, <3>3 DEF PortHoldsBlock
  <2>4. ASSUME NEW c \in Bufs, flags[c] = {VALID} PROVE blockno[c] # sector
    BY <2>1, <2>2, <2>4, <1>h DEF OneBufferPerBlock, VALID, DIRTY
  <2>5. CleanIsWritten'
    BY <2>4 DEF TypeOK, CleanIsWritten
  <2> QED BY <2>3, <2>p, <2>5
<1>7. CASE IntrRestart
  <2>1. /\ Head(sdque) \in Bufs /\ Working /\ irq' = {}
        /\ Start(Head(sdque)) /\ UNCHANGED <<disk, sdque, bufVars, pc>>
    BY <1>7, <1>h DEF IntrRestart, Serving
  <2>2. OneBufferPerBlock' /\ (CleanIsWritten')
    BY <2>1 DEF OneBufferPerBlock, CleanIsWritten, bufVars
  <2>3. PortHoldsBlock'
    BY <2>1, StartOutcome DEF PortHoldsBlock, bufVars
  <2> QED BY <2>2, <2>3
<1>8. CASE IntrDone
  <2> DEFINE b == Head(sdque)
  <2>1. /\ b \in Bufs /\ pc[b] = "asleep" /\ Working /\ sdque # <<>>
        /\ sector = blockno[b] /\ cmd = (IF Dirty(b) THEN "write" ELSE "read")
    BY <1>8, <1>h DEF IntrDone, Serving, DeviceServesHead, QueueInv, StuckIsHalted
  <2>2. Dirty(b) => data[b] = disk[blockno[b]]
    BY <1>8, <2>1 DEF IntrDone, Finish, Over, PortHoldsBlock
  <2>3. ~Dirty(b) => fifo = disk[blockno[b]] \/ ("read" \in Faults /\ fifo = Garbage)
    <3>1. ~Dirty(b) => cmd = "read" /\ READ_RDY \in irq
      BY <1>8, <2>1, <1>a DEF IntrDone, Expected
    <3> QED BY <3>1, <2>1 DEF PortHoldsBlock
  <2>4. /\ data' = IF Dirty(b) THEN data ELSE [data EXCEPT ![b] = fifo]
        /\ flags' = [flags EXCEPT ![b] = {VALID}]
        /\ pc' = [pc EXCEPT ![b] = "woken"]
        /\ irq' = {} /\ sdque' = Tail(sdque) /\ StartNext
        /\ UNCHANGED <<disk, blockno>>
    BY <1>8, <2>1 DEF IntrDone, Finish
  <2>5. sdque' # <<>> => Head(sdque') \in Bufs /\ Head(sdque') # b
    <3>1. sdque' # <<>> => /\ 1 \in 1..Len(sdque) /\ 2 \in 1..Len(sdque)
                           /\ Head(sdque') = sdque[2] /\ b = sdque[1] /\ sdque[2] \in Bufs
      BY <2>1, <2>4 DEF TypeOK
    <3> QED BY <3>1 DEF SleeperIsQueued
  <2> HIDE DEF b
  <2>6. OneBufferPerBlock'
    BY <2>1, <2>4 DEF TypeOK, OneBufferPerBlock
  <2>7. CleanIsWritten'
    BY <2>1, <2>2, <2>3, <2>4 DEF TypeOK, CleanIsWritten
  <2>8. PortHoldsBlock'
    <3>1. CASE sdque' = <<>>
      BY <3>1, <2>4 DEF PortHoldsBlock, StartNext, Stop
    <3>2. CASE sdque' # <<>>
      <4>1. Start(Head(sdque')) /\ data'[Head(sdque')] = data[Head(sdque')]
        BY <3>2, <2>1, <2>4, <2>5 DEF TypeOK, StartNext
      <4> QED BY <4>1, <2>1, <2>4, <2>5, <3>2, StartOutcome DEF PortHoldsBlock
    <3> QED BY <3>1, <3>2
  <2> QED BY <2>6, <2>7, <2>8
<1>9. CASE UNCHANGED vars
  BY <1>9 DEF vars, devVars, bufVars, OneBufferPerBlock, PortHoldsBlock, CleanIsWritten
<1> QED BY <1>1, <1>2, <1>3, <1>4, <1>5, <1>e, <1>6, <1>7, <1>8, <1>9 DEF Next, DeviceStep

-----------------------------------------------------------------------------
(* The queue invariant holds in every reachable state, whatever faults the  *)
(* controller has: until a fault halts the driver the controller works for  *)
(* the first request, and every sleeper of sdrw() is in the queue once.     *)
THEOREM SdQueueInvariant == Spec => []QueueInv
<1>1. Init => QueueInv
  BY InitInv
<1> QED BY <1>1, NextQueueInv, PTL DEF Spec

(* sdrw(), sd_start() and sd_intr() panic only where the controller has the *)
(* fault they panic on: a failed command, a WRITE_RDY that does not come or *)
(* an error that comes alone.  No sequence of requests, failed transfers    *)
(* and restarts makes them panic by itself.                                 *)
THEOREM SdPanicOnlyOnFault == Spec => []PanicOnlyOnFault
<1>1. QueueInv => PanicOnlyOnFault
  BY DEF QueueInv
<1> QED BY <1>1, SdQueueInvariant, PTL

(* A buffer that is valid and not dirty holds what is on the card, however  *)
(* many writes failed and were restarted, unless a failed read filled it.   *)
THEOREM SdCleanIsWritten == Spec => []CleanIsWritten
<1>1. Init => QueueInv /\ DataInv
  BY InitInv
<1>2. QueueInv /\ DataInv /\ [Next]_vars => QueueInv' /\ DataInv'
  BY NextQueueInv, NextDataInv
<1>3. DataInv => CleanIsWritten
  BY DEF DataInv
<1> QED BY <1>1, <1>2, <1>3, PTL DEF Spec

(* With a controller whose reads do not fail, sdrw() keeps its promise: a   *)
(* clean buffer is in sync with its block.                                  *)
THEOREM SdCleanIsSynced == "read" \notin Faults => (Spec => []CleanIsSynced)
<1> SUFFICES ASSUME "read" \notin Faults PROVE Spec => []CleanIsSynced
  OBVIOUS
<1>1. CleanIsWritten => CleanIsSynced
  BY DEF CleanIsWritten, CleanIsSynced
<1> QED BY <1>1, SdCleanIsWritten, PTL
=============================================================================

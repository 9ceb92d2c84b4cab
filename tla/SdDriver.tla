------------------------------ MODULE SdDriver ------------------------------
(***************************************************************************)
(* The request queue of kern/sd.c: sdrw(), sd_start() and the interrupt     *)
(* handler sd_intr(), against an SD host controller that carries out one    *)
(* command at a time and raises READ_RDY or DATA_DONE.                      *)
(*                                                                          *)
(* A buffer is used by the one process that holds its lock, so a buffer     *)
(* stands for that process too.  Every section under sdlock is one action;  *)
(* sleep(b, &sdlock) loses no wakeup (module SleepLock).  A core that       *)
(* panics under sdlock keeps it for ever, and with it the whole driver.     *)
(***************************************************************************)
EXTENDS Sequences, Naturals

CONSTANTS Bufs,         \* buffers of the cache
          Sectors,      \* blocks of the card
          Vals,         \* contents of a block
          Garbage,      \* what a failed transfer leaves behind
          Faults        \* what the controller may do besides failing a write:
                        \* "read"     an error comes with READ_RDY
                        \* "command"  a command ends in an error or a timeout
                        \* "ready"    WRITE_RDY does not come, or not alone
                        \* "alone"    an error comes without READ_RDY and DATA_DONE

ASSUME SdAssumption ==
    /\ Faults \subseteq {"read", "command", "ready", "alone"}
    /\ Garbage \notin Vals
    /\ Sectors # {} /\ Vals # {}

VARIABLES disk,     \* contents of the card
          cmd,      \* command of the controller: "none", "read" or "write"
          sector, fifo,            \* its block and its data port
          irq,      \* *EMMC_INTERRUPT, without the bits that are polled
          sdque,    \* requests, the one in progress first
          blockno, flags, data,    \* fields of struct buf
          pc,       \* where the holder of each buffer is
          panicked  \* "no", or why a core panicked with sdlock held

devVars == <<cmd, sector, fifo>>
bufVars == <<blockno, flags, data>>
vars    == <<disk, devVars, irq, sdque, bufVars, pc, panicked>>

VALID     == "B_VALID"
DIRTY     == "B_DIRTY"
READ_RDY  == "INT_READ_RDY"
DATA_DONE == "INT_DATA_DONE"
ERROR     == "INT_ERROR"

Contents == Vals \cup {Garbage}

TypeOK ==
    /\ disk \in [Sectors -> Contents]
    /\ cmd \in {"none", "read", "write"}
    /\ sector \in Sectors
    /\ fifo \in Contents
    /\ irq \subseteq {READ_RDY, DATA_DONE, ERROR}
    /\ sdque \in Seq(Bufs)
    /\ blockno \in [Bufs -> Sectors]
    /\ flags \in [Bufs -> SUBSET {VALID, DIRTY}]
    /\ data \in [Bufs -> Contents]
    /\ pc \in [Bufs -> {"idle", "sdrw", "asleep", "woken", "stuck", "panic"}]
    /\ panicked \in {"no", "flag", "command", "ready", "alone"}

Init ==
    /\ disk \in [Sectors -> Vals]
    /\ cmd = "none"
    /\ irq = {}
    /\ sdque = <<>>
    /\ sector = CHOOSE s \in Sectors : TRUE
    /\ fifo = CHOOSE v \in Vals : TRUE
    /\ blockno = [b \in Bufs |-> sector]
    /\ flags = [b \in Bufs |-> {}]
    /\ data = [b \in Bufs |-> fifo]
    /\ pc = [b \in Bufs |-> "idle"]
    /\ panicked = "no"

-----------------------------------------------------------------------------
(* The buffer cache's use of the driver *)

InUse(s) == \E b \in Bufs : blockno[b] = s /\ (flags[b] # {} \/ pc[b] # "idle")

(* bread() of a block that is not cached, in a recycled buffer. *)
BRead(b, s) ==
    /\ pc[b] = "idle"
    /\ DIRTY \notin flags[b]
    /\ ~InUse(s)
    /\ blockno' = [blockno EXCEPT ![b] = s]
    /\ flags' = [flags EXCEPT ![b] = {}]
    /\ pc' = [pc EXCEPT ![b] = "sdrw"]
    /\ UNCHANGED <<disk, devVars, irq, sdque, data, panicked>>

(* The holder changes the data and calls bwrite(). *)
BWrite(b, v) ==
    /\ pc[b] = "idle"
    /\ VALID \in flags[b]
    /\ data' = [data EXCEPT ![b] = v]
    /\ flags' = [flags EXCEPT ![b] = @ \cup {DIRTY}]
    /\ pc' = [pc EXCEPT ![b] = "sdrw"]
    /\ UNCHANGED <<disk, devVars, irq, sdque, blockno, panicked>>

-----------------------------------------------------------------------------
Dirty(b) == DIRTY \in flags[b]

Working == panicked = "no"

Stop == cmd' = "none" /\ UNCHANGED <<sector, fifo>>

(* A panic of sd_start(): the transfer does not take place. *)
Halt(why) == panicked' = why /\ Stop

(* sd_start(b): asserts that no interrupt is pending (the test of irq' is   *)
(* made after the caller has cleared it), sends the command and, for a      *)
(* write, waits for WRITE_RDY and fills the data port.  A bad answer to     *)
(* either is a panic.  Its polls are part of the step.                      *)
Start(b) ==
    IF irq' # {}
    THEN Halt("flag")
    ELSE \/ "command" \in Faults /\ Halt("command")
         \/ "ready" \in Faults /\ Dirty(b) /\ Halt("ready")
         \/ /\ cmd' = IF Dirty(b) THEN "write" ELSE "read"
            /\ sector' = blockno[b]
            /\ fifo' = IF Dirty(b) THEN data[b] ELSE fifo
            /\ UNCHANGED panicked

(* sdrw() called with nothing to do panics before it takes sdlock. *)
SdRwNothing(b) ==
    /\ flags[b] = {VALID}
    /\ pc' = [pc EXCEPT ![b] = "panic"]
    /\ UNCHANGED <<devVars, sdque, panicked>>

(* sdrw(b) up to its first sleep: queue the request, and start it if it is  *)
(* alone.                                                                   *)
SdRwQueue(b) ==
    /\ flags[b] # {VALID} /\ Working
    /\ sdque' = Append(sdque, b)
    /\ IF sdque = <<>> THEN Start(b) ELSE UNCHANGED <<devVars, panicked>>
    /\ pc' = [pc EXCEPT ![b] = IF panicked' = "no" THEN "asleep" ELSE "stuck"]

SdRw(b) ==
    /\ pc[b] = "sdrw"
    /\ UNCHANGED <<disk, irq, bufVars>>
    /\ SdRwNothing(b) \/ SdRwQueue(b)

(* Back from sleep(): test the flags again. *)
SdRwReturn(b) ==
    /\ pc[b] = "woken" /\ Working
    /\ pc' = [pc EXCEPT ![b] = IF flags[b] = {VALID} THEN "idle" ELSE "asleep"]
    /\ UNCHANGED <<disk, devVars, irq, sdque, bufVars, panicked>>

-----------------------------------------------------------------------------
(* The controller.  An error of a write comes with DATA_DONE; an error of a *)
(* read comes with READ_RDY or while sd_intr() waits for DATA_DONE with     *)
(* sdWaitForInterrupt(), whose result it ignores; any error may come alone. *)

DeviceRead ==
    /\ cmd = "read" /\ irq = {}
    /\ fifo' = disk[sector]
    /\ irq' = {READ_RDY}
    /\ UNCHANGED <<disk, cmd, sector, sdque, bufVars, pc, panicked>>

DeviceReadFails ==
    /\ "read" \in Faults
    /\ cmd = "read" /\ irq = {}
    /\ fifo' = Garbage
    /\ irq' = {READ_RDY, ERROR}
    /\ UNCHANGED <<disk, cmd, sector, sdque, bufVars, pc, panicked>>

DeviceWrite ==
    /\ cmd = "write" /\ irq = {}
    /\ disk' = [disk EXCEPT ![sector] = fifo]
    /\ irq' = {DATA_DONE}
    /\ UNCHANGED <<devVars, sdque, bufVars, pc, panicked>>

DeviceWriteFails ==
    /\ cmd = "write" /\ irq = {}
    /\ disk' = [disk EXCEPT ![sector] = Garbage]
    /\ irq' = {DATA_DONE, ERROR}
    /\ UNCHANGED <<devVars, sdque, bufVars, pc, panicked>>

DeviceErrs ==
    /\ "alone" \in Faults
    /\ cmd # "none" /\ irq = {}
    /\ irq' = {ERROR}
    /\ UNCHANGED <<disk, devVars, sdque, bufVars, pc, panicked>>

-----------------------------------------------------------------------------
(* sd_intr(), on core 0 while it runs user code.  With an empty queue it    *)
(* neither clears nor handles the interrupt.                                *)
Serving == irq # {} /\ sdque # <<>> /\ Working

Expected == irq \cap {READ_RDY, DATA_DONE} # {}

(* "unexpected sd intr": the handler panics. *)
IntrUnexpected ==
    /\ Serving /\ ~Expected
    /\ panicked' = "alone"
    /\ UNCHANGED <<disk, devVars, irq, sdque, bufVars, pc>>

(* A handler that takes any DATA_DONE for success. *)
OverOnAnyDone(b) == IF Dirty(b) THEN DATA_DONE \in irq ELSE TRUE

(* The test at its heart: the request is over unless a write ended with     *)
(* anything but DATA_DONE alone.  (For a read the code tests the constant   *)
(* INT_READ_RDY, which is true.)                                            *)
Over(b) == IF Dirty(b) THEN irq = {DATA_DONE} ELSE TRUE

(* The transfer failed: clear the interrupt and start the request again. *)
IntrRestart ==
    /\ Serving /\ Expected
    /\ ~Over(Head(sdque))
    /\ irq' = {}
    /\ Start(Head(sdque))
    /\ UNCHANGED <<disk, sdque, bufVars, pc>>

(* The transfer of b is over: take the data of a read, mark the buffer and  *)
(* wake its holder.                                                         *)
Finish(b) ==
    /\ Over(b)
    /\ data' = IF Dirty(b) THEN data ELSE [data EXCEPT ![b] = fifo]
    /\ flags' = [flags EXCEPT ![b] = {VALID}]
    /\ pc' = [pc EXCEPT ![b] = IF @ = "asleep" THEN "woken" ELSE @]

(* Start the request that follows the one that is over. *)
StartNext ==
    IF Tail(sdque) = <<>> THEN Stop /\ UNCHANGED panicked ELSE Start(Head(Tail(sdque)))

(* A handler that forgets to start the next request. *)
IntrDoneStops ==
    /\ Serving /\ Expected
    /\ Finish(Head(sdque))
    /\ irq' = {}
    /\ sdque' = Tail(sdque)
    /\ Stop
    /\ UNCHANGED <<disk, blockno, panicked>>

(* A handler that leaves the interrupt pending. *)
IntrDoneUncleared ==
    /\ Serving /\ Expected
    /\ Finish(Head(sdque))
    /\ irq' = irq
    /\ sdque' = Tail(sdque)
    /\ StartNext
    /\ UNCHANGED <<disk, blockno>>

(* A handler that leaves the finished request in the queue. *)
IntrDoneKeeps ==
    /\ Serving /\ Expected
    /\ Finish(Head(sdque))
    /\ irq' = {}
    /\ StartNext
    /\ UNCHANGED <<disk, sdque, blockno>>

(* The request is over: remove it and start the next one. *)
IntrDone ==
    /\ Serving /\ Expected
    /\ Finish(Head(sdque))
    /\ irq' = {}
    /\ sdque' = Tail(sdque)
    /\ StartNext
    /\ UNCHANGED <<disk, blockno>>

-----------------------------------------------------------------------------
DeviceStep == DeviceRead \/ DeviceWrite

Next ==
    \/ \E b \in Bufs :
          \/ SdRw(b) \/ SdRwReturn(b)
          \/ \E s \in Sectors : BRead(b, s)
          \/ \E v \in Vals : BWrite(b, v)
    \/ DeviceStep \/ DeviceReadFails \/ DeviceWriteFails \/ DeviceErrs
    \/ IntrUnexpected \/ IntrRestart \/ IntrDone

(* The controller answers and does not fail every retry; its interrupt      *)
(* stays raised until core 0 takes it.                                      *)
Fairness ==
    /\ \A b \in Bufs : WF_vars(SdRw(b)) /\ WF_vars(SdRwReturn(b))
    /\ SF_vars(DeviceStep)
    /\ WF_vars(IntrUnexpected \/ IntrRestart \/ IntrDone)

Spec == Init /\ [][Next]_vars
FairSpec == Spec /\ Fairness

-----------------------------------------------------------------------------
(* "Sync buf with disk": a buffer that is B_VALID and not B_DIRTY holds     *)
(* what its block holds on the card, whatever transfers failed on the way.  *)
CleanIsSynced ==
    \A b \in Bufs : flags[b] = {VALID} => data[b] = disk[blockno[b]]

(* The same as far as the driver sees errors: a failed write is never taken *)
(* for done, so what a clean buffer holds is on the card, unless it came    *)
(* from a failed read.                                                      *)
CleanIsWritten ==
    \A b \in Bufs : flags[b] = {VALID} =>
        data[b] = disk[blockno[b]] \/ ("read" \in Faults /\ data[b] = Garbage)

(* The controller works for the first request of the queue and for nothing  *)
(* else, so that sd_intr() never meets an interrupt that belongs to no      *)
(* request, which it would neither clear nor handle.  After a panic under   *)
(* sdlock it does nothing any more.                                         *)
DeviceServesHead ==
    /\ cmd # "none" => sdque # <<>>
    /\ Working =>
          /\ irq # {} => sdque # <<>>
          /\ sdque # <<>> =>
                /\ sector = blockno[Head(sdque)]
                /\ cmd = IF Dirty(Head(sdque)) THEN "write" ELSE "read"
    /\ ~Working => cmd = "none" \/ irq # {}

(* The holder of a buffer sleeps in sdrw(), or is stuck in sd_start(),      *)
(* exactly while the buffer is in the queue, where it is once: no request   *)
(* is lost or served twice.                                                 *)
SleeperIsQueued ==
    /\ \A b \in Bufs : pc[b] \in {"asleep", "stuck"} <=> \E i \in 1..Len(sdque) : sdque[i] = b
    /\ \A i, j \in 1..Len(sdque) : sdque[i] = sdque[j] => i = j

(* The driver panics on faults of the controller only: on a command that    *)
(* fails, on a WRITE_RDY that does not come and on an error that comes      *)
(* alone, if the controller has that fault.  Failed reads and writes,       *)
(* restarts and any order of requests never lead to "sdrw: nothing to do"   *)
(* or to "emmc interrupt flag should be empty".                             *)
PanicOnlyOnFault ==
    /\ \A b \in Bufs : pc[b] # "panic"
    /\ panicked \in {"no"} \cup Faults

(* The flags of a buffer follow the place of its holder. *)
FlagsFollow ==
    \A b \in Bufs :
       /\ pc[b] = "idle" => flags[b] \in {{}, {VALID}}
       /\ pc[b] \in {"sdrw", "asleep", "stuck"} => flags[b] \in {{}, {VALID, DIRTY}}
       /\ pc[b] = "woken" => flags[b] = {VALID}

(* A process is stuck in sdrw() only after a panic of sd_start(). *)
StuckIsHalted == \A b \in Bufs : pc[b] = "stuck" => ~Working

(* The interrupt is that of the command; one without READ_RDY and DATA_DONE *)
(* is a fault.                                                              *)
InterruptFits ==
    /\ READ_RDY \in irq => cmd = "read"
    /\ DATA_DONE \in irq => cmd = "write"
    /\ irq # {} /\ ~Expected => "alone" \in Faults

(* The inductive invariant of the request queue. *)
QueueInv ==
    /\ TypeOK
    /\ PanicOnlyOnFault
    /\ StuckIsHalted
    /\ InterruptFits
    /\ DeviceServesHead
    /\ SleeperIsQueued
    /\ FlagsFollow

(* A block has at most one buffer. *)
OneBufferPerBlock ==
    \A b, c \in Bufs : b # c /\ blockno[b] = blockno[c] =>
        \E d \in {b, c} : flags[d] = {} /\ pc[d] = "idle"

(* What is in the data port: the buffer's data for a write, which are on    *)
(* the card once DATA_DONE alone is up; the block, or nothing sensible, for a read. *)
PortHoldsBlock ==
    /\ cmd = "write" => fifo = data[Head(sdque)]
    /\ cmd = "write" /\ irq = {DATA_DONE} => disk[sector] = fifo
    /\ cmd = "read" /\ READ_RDY \in irq =>
          fifo = disk[sector] \/ ("read" \in Faults /\ fifo = Garbage)

(* The inductive invariant of the data. *)
DataInv ==
    /\ OneBufferPerBlock
    /\ PortHoldsBlock
    /\ CleanIsWritten

(* Every request is answered, whatever is queued behind it, unless a fault  *)
(* of the controller makes the driver panic.                                *)
EveryRequestCompletes ==
    \A b \in Bufs : pc[b] = "asleep" ~> pc[b] = "idle" \/ ~Working
=============================================================================

------------------------------- MODULE Console -------------------------------
(***************************************************************************)
(* The console: the input ring that console_intr() fills and console_read()*)
(* empties, console_write(), and cprintf() and panic() of the kernel, all  *)
(* under conslock.  console_read() and console_write() are called by       *)
(* readi() and writei() with the lock of the console's inode, which they   *)
(* release meanwhile.                                                      *)
(*                                                                         *)
(* The indices r, w, e are counters of width WRAP (2^64 in the code).      *)
(* sleep(&input.r, &conslock) releases conslock and sleeps in one step,    *)
(* which is what SleepLock shows of it.  Characters on their way out are   *)
(* left out.                                                               *)
(***************************************************************************)
EXTENDS Naturals, Sequences, FiniteSets

CONSTANTS
    Procs,          \* processes with the console open
    Cpus,
    Core0,          \* the core that device interrupts go to
    INPUT_BUF,
    WRAP,
    Letters,        \* characters without a meaning to the console
    NL, EOF,        \* '\n' and C('D')
    NONE

ASSUME ConsoleAssumption ==
    /\ INPUT_BUF \in Nat \ {0} /\ WRAP \in Nat
    /\ WRAP > INPUT_BUF /\ WRAP % INPUT_BUF = 0
    /\ NONE \notin Procs \cup Cpus /\ Procs \cap Cpus = {} /\ Core0 \in Cpus
    /\ Letters # {}

VARIABLES
    buf, r, w, e,   \* input
    conslock,       \* who holds conslock: a process, a core or nobody
    ilk,            \* the process that holds the inode's lock
    pc,             \* of the processes
    rd,             \* [want, got, eof]: arguments and results of console_read()
    cpc,            \* of the cores, for the kernel's own messages and the interrupt
    panicked

input == <<buf, r, w, e>>
vars == <<buf, r, w, e, conslock, ilk, pc, rd, cpc, panicked>>

Chars == Letters \cup {NL, EOF}
Plus(i, n) == (i + n) % WRAP
Minus(i, n) == (i + WRAP - n) % WRAP
At(i) == buf[i % INPUT_BUF]
NoRead == [want |-> 0, got |-> <<>>, eof |-> FALSE]

Init ==
    /\ buf \in [0..(INPUT_BUF - 1) -> {CHOOSE c \in Letters : TRUE}]
    /\ r = 0 /\ w = 0 /\ e = 0
    /\ conslock = NONE /\ ilk = NONE
    /\ pc = [p \in Procs |-> "idle"]
    /\ rd = [p \in Procs |-> NoRead]
    /\ cpc = [c \in Cpus |-> "run"]
    /\ panicked = NONE

Goto(p, from, to) ==
    /\ pc[p] = from
    /\ pc' = [pc EXCEPT ![p] = to]

-----------------------------------------------------------------------------
(* console_read() and console_write() *)

(* fileread() or filewrite() has the inode's lock, readi() or writei()      *)
(* calls the device.                                                        *)
Ilock(p) ==
    /\ Goto(p, "idle", "called")
    /\ ilk = NONE /\ ilk' = p
    /\ UNCHANGED <<input, conslock, rd, cpc, panicked>>

(* A console_read() that keeps the inode locked while it waits. *)
ReadKeepsInode(p, n) ==
    /\ Goto(p, "called", "read")
    /\ rd' = [rd EXCEPT ![p].want = n]
    /\ UNCHANGED <<input, conslock, ilk, cpc, panicked>>

Read(p, n) ==
    /\ Goto(p, "called", "read")
    /\ ilk' = NONE
    /\ rd' = [rd EXCEPT ![p].want = n]
    /\ UNCHANGED <<input, conslock, cpc, panicked>>

Write(p) ==
    /\ Goto(p, "called", "write")
    /\ ilk' = NONE
    /\ UNCHANGED <<input, conslock, rd, cpc, panicked>>

Acquire(p) ==
    /\ conslock = NONE
    /\ conslock' = p
    /\ \/ Goto(p, "read", "reading")
       \/ Goto(p, "write", "writing")
    /\ UNCHANGED <<input, ilk, rd, cpc, panicked>>

(* console_write(): the characters go out, conslock is released. *)
Put(p) ==
    /\ Goto(p, "writing", "relock")
    /\ conslock' = NONE
    /\ UNCHANGED <<input, ilk, rd, cpc, panicked>>

(* The end of the loop of console_read(). *)
Complete(p) ==
    \/ rd[p].eof
    \/ Len(rd[p].got) = rd[p].want
    \/ rd[p].got # <<>> /\ rd[p].got[Len(rd[p].got)] = NL

(* sleep(&input.r, &conslock) *)
Sleep(p) ==
    /\ ~Complete(p) /\ r = w
    /\ Goto(p, "reading", "asleep")
    /\ conslock' = NONE
    /\ UNCHANGED <<input, ilk, rd, cpc, panicked>>

(* A console_read() that does not put ^D back. *)
TakeDropsEof(p) ==
    /\ pc[p] = "reading" /\ ~Complete(p) /\ r # w
    /\ r' = Plus(r, 1)
    /\ rd' = IF At(r) = EOF THEN [rd EXCEPT ![p].eof = TRUE]
             ELSE [rd EXCEPT ![p].got = Append(@, At(r))]
    /\ UNCHANGED <<buf, w, e, conslock, ilk, pc, cpc, panicked>>

(* One character; ^D is put back for the next call unless it comes first. *)
Take(p) ==
    /\ pc[p] = "reading" /\ ~Complete(p) /\ r # w
    /\ \/ /\ At(r) = EOF
          /\ r' = IF rd[p].got = <<>> THEN Plus(r, 1) ELSE r
          /\ rd' = [rd EXCEPT ![p].eof = TRUE]
       \/ /\ At(r) # EOF
          /\ r' = Plus(r, 1)
          /\ rd' = [rd EXCEPT ![p].got = Append(@, At(r))]
    /\ UNCHANGED <<buf, w, e, conslock, ilk, pc, cpc, panicked>>

ReadDone(p) ==
    /\ Complete(p)
    /\ Goto(p, "reading", "relock")
    /\ conslock' = NONE
    /\ rd' = [rd EXCEPT ![p] = NoRead]
    /\ UNCHANGED <<input, ilk, cpc, panicked>>

(* The last line of both, ilock(), and the iunlock() of fileread() or       *)
(* filewrite() that follows.                                                *)
Return(p) ==
    /\ Goto(p, "relock", "idle")
    /\ ilk = NONE
    /\ UNCHANGED <<input, conslock, ilk, rd, cpc, panicked>>

-----------------------------------------------------------------------------
(* console_intr(), called by uart_intr() on core 0, where irq_init() routes it *)

(* It takes conslock and, after a panic, gives it back and spins.           *)
IntrEnter(c) ==
    /\ cpc[c] = "run" /\ conslock = NONE
    /\ IF panicked = NONE
       THEN conslock' = c /\ cpc' = [cpc EXCEPT ![c] = "intr"]
       ELSE cpc' = [cpc EXCEPT ![c] = "halted"] /\ UNCHANGED conslock
    /\ UNCHANGED <<input, ilk, pc, rd, panicked>>

Awake == [p \in Procs |-> IF pc[p] = "asleep" THEN "read" ELSE pc[p]]

(* A commit that wakes nobody. *)
InsertSilent(c, ch) ==
    /\ cpc[c] = "intr"
    /\ Minus(e, r) < INPUT_BUF
    /\ buf' = [buf EXCEPT ![e % INPUT_BUF] = ch]
    /\ e' = Plus(e, 1)
    /\ w' = IF ch \in {NL, EOF} \/ e' = Plus(r, INPUT_BUF) THEN e' ELSE w
    /\ UNCHANGED <<r, conslock, ilk, pc, rd, cpc, panicked>>

(* A character goes into the ring, if there is room; '\r' counts as NL.     *)
(* Complete lines, ^D and a full ring are handed to the readers.            *)
Insert(c, ch) ==
    /\ cpc[c] = "intr"
    /\ Minus(e, r) < INPUT_BUF
    /\ buf' = [buf EXCEPT ![e % INPUT_BUF] = ch]
    /\ e' = Plus(e, 1)
    /\ IF ch \in {NL, EOF} \/ e' = Plus(r, INPUT_BUF)
       THEN w' = e' /\ pc' = Awake
       ELSE UNCHANGED <<w, pc>>
    /\ UNCHANGED <<r, conslock, ilk, rd, cpc, panicked>>

(* ^H *)
Backspace(c) ==
    /\ cpc[c] = "intr"
    /\ e # w
    /\ e' = Minus(e, 1)
    /\ UNCHANGED <<buf, r, w, conslock, ilk, pc, rd, cpc, panicked>>

(* ^U: back to w, or to the end of a line before it. *)
KillLine(c) ==
    /\ cpc[c] = "intr"
    /\ \E n \in 0..Minus(e, w) :
          /\ \A i \in 1..n : At(Minus(e, i)) # NL
          /\ n = Minus(e, w) \/ At(Minus(e, n + 1)) = NL
          /\ e' = Minus(e, n)
    /\ UNCHANGED <<buf, r, w, conslock, ilk, pc, rd, cpc, panicked>>

IntrLeave(c) ==
    /\ cpc[c] = "intr"
    /\ conslock' = NONE
    /\ cpc' = [cpc EXCEPT ![c] = "run"]
    /\ UNCHANGED <<input, ilk, pc, rd, panicked>>

-----------------------------------------------------------------------------
(* cprintf() and panic() *)

(* A core gets conslock for a cprintf(), its own or the one in panic(). *)
Message(c) ==
    /\ cpc[c] \in {"run", "stopping"} /\ conslock = NONE
    /\ conslock' = c
    /\ cpc' = [cpc EXCEPT ![c] = "cprintf"]
    /\ UNCHANGED <<input, ilk, pc, rd, panicked>>

(* The panic of another core stops the caller before it prints; the core    *)
(* that panicked prints its last message and stops in panic().              *)
PutMessage(c) ==
    /\ cpc[c] = "cprintf"
    /\ conslock' = NONE
    /\ cpc' = [cpc EXCEPT ![c] = IF panicked = NONE THEN "run" ELSE "halted"]
    /\ UNCHANGED <<input, ilk, pc, rd, panicked>>

(* panic(), up to the release of conslock: the first core that gets here    *)
(* goes on to print, a later one stops.                                     *)
Panic(c) ==
    /\ cpc[c] = "run" /\ conslock = NONE
    /\ panicked' = IF panicked = NONE THEN c ELSE panicked
    /\ cpc' = [cpc EXCEPT ![c] = IF panicked = NONE THEN "stopping" ELSE "halted"]
    /\ UNCHANGED <<input, conslock, ilk, pc, rd>>

-----------------------------------------------------------------------------
ProcStep(p) ==
    \/ Write(p) \/ Acquire(p) \/ Put(p) \/ Take(p) \/ Sleep(p) \/ ReadDone(p) \/ Return(p)
    \/ \E n \in 1..INPUT_BUF : Read(p, n)

Intr(c) ==
    /\ c = Core0
    /\ \/ IntrEnter(c) \/ Backspace(c) \/ KillLine(c)
       \/ \E ch \in Chars : Insert(c, ch)

Next ==
    \/ \E p \in Procs : Ilock(p) \/ ProcStep(p)
    \/ \E c \in Cpus : Intr(c) \/ IntrLeave(c) \/ Message(c) \/ PutMessage(c) \/ Panic(c)

(* A process in the kernel goes on; one that spins for conslock or waits    *)
(* for the inode gets it if it is free again and again.  A core leaves the  *)
(* handler (the UART's queue is finite) and prints its message.             *)
Fairness ==
    /\ \A p \in Procs : SF_vars(ProcStep(p))
    /\ \A c \in Cpus : WF_vars(IntrLeave(c) \/ PutMessage(c))

Spec == Init /\ [][Next]_vars
FairSpec == Spec /\ Fairness

-----------------------------------------------------------------------------
TypeOK ==
    /\ buf \in [0..(INPUT_BUF - 1) -> Chars]
    /\ {r, w, e} \subseteq 0..(WRAP - 1)
    /\ conslock \in Procs \cup Cpus \cup {NONE}
    /\ ilk \in Procs \cup {NONE}
    /\ pc \in [Procs -> {"idle", "called", "read", "reading", "asleep", "write", "writing",
                         "relock"}]
    /\ rd \in [Procs -> [want : 0..INPUT_BUF, got : Seq(Chars), eof : BOOLEAN]]
    /\ cpc \in [Cpus -> {"run", "intr", "cprintf", "stopping", "halted"}]
    /\ panicked \in Cpus \cup {NONE}

(* r, w and e stay in this order around the ring, over any number of wraps. *)
IndicesInOrder == Minus(w, r) <= Minus(e, r) /\ Minus(e, r) <= INPUT_BUF

(* No reader sleeps while there is something to read: a line, a ^D or the   *)
(* last place of the ring, committed by the interrupt, wakes all readers.   *)
SleepersHaveNothing == (\E p \in Procs : pc[p] = "asleep") => r = w

(* conslock is held by whoever is between its acquire and its release. *)
ConslockExcludes ==
    /\ \A p \in Procs : pc[p] \in {"reading", "writing"} => conslock = p
    /\ \A c \in Cpus : cpc[c] \in {"intr", "cprintf"} => conslock = c

(* A console_read() under way wants something, and nobody else has a result. *)
ReadsUnderWay ==
    \A p \in Procs : IF pc[p] \in {"read", "reading", "asleep"} THEN rd[p].want > 0
                     ELSE rd[p] = NoRead

(* What ^H and ^U may erase holds no end of a line: ^U goes back to w. *)
EditHasNoLine == \A k \in 0..(Minus(e, w) - 1) : At(Plus(w, k)) # NL

ConsoleInv ==
    /\ TypeOK /\ IndicesInOrder /\ SleepersHaveNothing
    /\ ConslockExcludes /\ ReadsUnderWay /\ EditHasNoLine

(* The ring is a queue of lines with an editable end: no character is lost, *)
(* read twice or out of order, an erased one is never read, and ^D gives a  *)
(* read of no characters.                                                   *)
Ring(i, n) == [k \in 1..n |-> At(Plus(i, k - 1))]

Line == INSTANCE Tty WITH
           Size <- INPUT_BUF,
           line <- Ring(r, Minus(w, r)),
           edit <- Ring(w, Minus(e, w))

ImplementsTty == Line!Spec

(* A write to the console returns although a reader waits for ever for      *)
(* input: console_read() does not wait with the inode locked.               *)
WriteReturns ==
    \A p \in Procs : pc[p] = "write" ~> pc[p] = "idle" \/ panicked # NONE
=============================================================================

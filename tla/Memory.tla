------------------------------- MODULE Memory -------------------------------
(***************************************************************************)
(* Physical pages and user address spaces: the page allocator of kalloc.c, *)
(* the four-level page tables of vm.c, and what execve(), fork(), wait(),  *)
(* growproc() and scheduler() do with them.                                *)
(*                                                                         *)
(* kalloc() and kfree() take a page from, or put it on, the front of one   *)
(* list under kmem.lock, and a page table is touched only by the process   *)
(* it belongs to, or by the parent that reaps it: so a system call is one  *)
(* step here, computed by folds over the memory m = [free, pt, panic] that *)
(* follow the loops of the code, their failures half way included.         *)
(*                                                                         *)
(* Addresses count units of which a page has PGSIZE, and a table has       *)
(* ENTRYSZ entries, so that unaligned sizes and a second table of every    *)
(* level happen in a small memory.                                         *)
(***************************************************************************)
EXTENDS Integers, Sequences, FiniteSets, SequencesExt

CONSTANTS
    NPAGES,     \* pages between end and PHYSTOP
    ENTRYSZ,    \* entries of a table, 512 in the code
    PGSIZE,     \* units of a page
    UADDR_SZ,   \* bound on the size of a user address space
    Procs,      \* slots of the process table
    First,      \* the slot user_init() takes
    Cpus,
    Images,     \* programs: sequences of segments [vaddr, memsz, aligned, short]
    ArgSizes,   \* units of stack that execve() fills with arguments
    Deltas,     \* what brk() is called with
    INT_BITS,   \* width of an int, 32 in the code
    LONG_BITS,  \* width of an address, 64 in the code
    Lengths,    \* what read() and write() are called with
    MaxCalls    \* bound on the system calls of a behaviour

NULL == 0
Pages == 1..NPAGES
BKSIZE == PGSIZE * ENTRYSZ
Vpns == 0..((UADDR_SZ + PGSIZE - 1) \div PGSIZE - 1)

ASSUME MemoryAssumption ==
    /\ {NPAGES, ENTRYSZ, PGSIZE, UADDR_SZ} \subseteq Nat \ {0}
    /\ UADDR_SZ <= PGSIZE * ENTRYSZ ^ 4
    /\ First \in Procs
    /\ ArgSizes \subseteq 0..(2 * PGSIZE)
    /\ {INT_BITS, LONG_BITS} \subseteq Nat \ {0}
    /\ UADDR_SZ < 2 ^ (INT_BITS - 1) /\ INT_BITS < LONG_BITS
    /\ Lengths \subseteq 0..(2 ^ LONG_BITS - 1)

VARIABLES
    mem,    \* [free, pt, panic]: kmem.free_list, the tables' entries, the message of panic()
    proc,   \* [state, parent, pgdir, kstack, sz, hollow] of every slot
    on,     \* the process that runs on a core
    ttbr0,  \* the root a core translates user addresses with
    calls,  \* system calls so far
    tlb,    \* translations the core may have cached since its last tlbi
    kept    \* whether a brk() has since freed pages and returned -1 (history)

vars == <<mem, proc, on, ttbr0, calls, tlb, kept>>

Pte == [pa : Pages \cup {NULL}, user : BOOLEAN]
NoPte == [pa |-> NULL, user |-> FALSE]
ZeroTable == [i \in 0..(ENTRYSZ - 1) |-> NoPte]

(* A rounding to the wrong side. *)
RoundDown(a, n) == (a \div n) * n

RoundUp(a, n) == ((a + n - 1) \div n) * n

(* A loop over whole pages only. *)
WholePageSeq(lo, hi) ==
    [i \in 1..(IF lo < hi THEN (hi - lo) \div PGSIZE ELSE 0) |-> lo + (i - 1) * PGSIZE]

(* The page addresses a loop of vm.c visits: from lo up, below hi. *)
PageSeq(lo, hi) ==
    [i \in 1..(IF lo < hi THEN (hi - lo + PGSIZE - 1) \div PGSIZE ELSE 0) |-> lo + (i - 1) * PGSIZE]

-----------------------------------------------------------------------------
(* kalloc.c *)

Panic(m, why) == [m EXCEPT !.panic = IF @ = "" THEN why ELSE @]

(* kalloc(): the page is Head(m.free), and every caller clears it. *)
Kalloc(m) == [m EXCEPT !.free = Tail(@), !.pt[Head(m.free)] = ZeroTable]

Kfree(m, pg) == [m EXCEPT !.free = <<pg>> \o @, !.pt[pg] = ZeroTable]

(* alloc_init(): free_range() frees the pages in ascending order. *)
AllMemory == [free  |-> [i \in 1..NPAGES |-> NPAGES + 1 - i],
              pt    |-> [p \in Pages |-> ZeroTable],
              panic |-> ""]

-----------------------------------------------------------------------------
(* Page tables *)

PTX(level, vpn) == (vpn \div ENTRYSZ ^ (3 - level)) % ENTRYSZ

(* pgdir_walk() without alloc: the last-level table of a page, or NULL. *)
Walk(m, pgdir, vpn) ==
    FoldLeft(LAMBDA t, level : IF t = NULL THEN NULL ELSE m.pt[t][PTX(level, vpn)].pa,
             pgdir, <<0, 1, 2>>)

EntryOf(m, t, vpn) == IF t = NULL THEN NoPte ELSE m.pt[t][PTX(3, vpn)]
PteOf(m, pgdir, vpn) == EntryOf(m, Walk(m, pgdir, vpn), vpn)

(* pgdir_walk() with alloc: tables are added as needed, t is NULL when     *)
(* memory is exhausted, and the tables added before that stay.             *)
Down(x, i) ==
    IF x.t = NULL THEN x
    ELSE IF x.m.pt[x.t][i].pa # NULL THEN [x EXCEPT !.t = x.m.pt[x.t][i].pa]
    ELSE IF x.m.free = <<>> THEN [x EXCEPT !.t = NULL]
    ELSE [t |-> Head(x.m.free),
          m |-> [Kalloc(x.m) EXCEPT !.pt[x.t][i] = [pa |-> Head(x.m.free), user |-> FALSE]]]

WalkAlloc(m, pgdir, vpn) ==
    FoldLeft(LAMBDA x, level : Down(x, PTX(level, vpn)), [m |-> m, t |-> pgdir], <<0, 1, 2>>)

(* map_region() of one page, as all its callers use it. *)
SetPte(w, i, pte) ==
    IF w.t = NULL THEN [m |-> w.m, ok |-> FALSE]
    ELSE IF w.m.pt[w.t][i].pa # NULL THEN [m |-> Panic(w.m, "remap"), ok |-> FALSE]
    ELSE [m |-> [w.m EXCEPT !.pt[w.t][i] = pte], ok |-> TRUE]

MapPage(m, pgdir, vpn, pte) == SetPte(WalkAlloc(m, pgdir, vpn), PTX(3, vpn), pte)

(* The pages that the entries of a table name, in order. *)
Entries(m, t) ==
    SelectSeq([i \in 1..ENTRYSZ |-> m.pt[t][i - 1].pa], LAMBDA pg : pg # NULL)

(* vm_free(pgdir, level), for the levels its recursion reaches from 1, the  *)
(* level that all callers pass for the root.                                *)
VmFree3(m, t) == FoldLeft(Kfree, m, Entries(m, t))
VmFree2(m, t) == Kfree(FoldLeft(VmFree3, m, Entries(m, t)), t)
VmFree(m, pgdir) == Kfree(FoldLeft(VmFree2, m, Entries(m, pgdir)), pgdir)

(* pgdir_init(): like kalloc(), with a panic. *)
PgdirInit(m) == IF m.free = <<>> THEN Panic(m, "out of memory") ELSE Kalloc(m)

(* A release that leaves the entry of the freed page in the table. *)
ReleaseKeepsPte(m, t, i) == Kfree(m, m.pt[t][i].pa)

ReleasePte(m, t, i) == [Kfree(m, m.pt[t][i].pa) EXCEPT !.pt[t][i] = NoPte]

(* uvm_dealloc(): where a table is missing the loop goes on after the next  *)
(* multiple of BKSIZE.                                                      *)
Release(x, a, t) ==
    IF a < x.next THEN x
    ELSE IF t = NULL THEN [x EXCEPT !.next = RoundUp(a, BKSIZE) + PGSIZE]
    ELSE IF EntryOf(x.m, t, a \div PGSIZE) = NoPte THEN x
    ELSE [x EXCEPT !.m = ReleasePte(@, t, PTX(3, a \div PGSIZE))]

UvmDealloc(m, pgdir, oldsz, newsz) ==
    FoldLeft(LAMBDA x, a : Release(x, a, Walk(x.m, pgdir, a \div PGSIZE)),
             [m |-> m, next |-> 0], PageSeq(RoundUp(newsz, PGSIZE), oldsz)).m

(* The loops of uvm_alloc() and copyuvm() allocate a page and map it; r is  *)
(* [m, ok], m as it is when the page, or a table for it, cannot be had.     *)
NewPage(m, pgdir, vpn, user) ==
    IF m.free = <<>> THEN [m |-> m, ok |-> FALSE]
    ELSE MapPage(Kalloc(m), pgdir, vpn, [pa |-> Head(m.free), user |-> user])

(* uvm_alloc() gives back a page that it has no table for; copyuvm() does   *)
(* not.                                                                     *)
GiveBack(m, r) == IF m.free = <<>> THEN r.m ELSE Kfree(r.m, Head(m.free))

(* uvm_alloc(): the new size, or 0 when it had to give back what it added.  *)
Grow(x, r, pgdir, oldsz, newsz) ==
    IF x.sz = 0 THEN x
    ELSE IF ~r.ok THEN [m |-> GiveBack(x.m, [r EXCEPT !.m = UvmDealloc(@, pgdir, newsz, oldsz)]), sz |-> 0]
    ELSE [x EXCEPT !.m = r.m]

UvmAlloc(m, pgdir, oldsz, newsz) ==
    IF newsz >= UADDR_SZ THEN [m |-> m, sz |-> 0]
    ELSE IF newsz < oldsz THEN [m |-> m, sz |-> oldsz]
    ELSE FoldLeft(LAMBDA x, a : Grow(x, NewPage(x.m, pgdir, a \div PGSIZE, TRUE), pgdir, oldsz, newsz),
                  [m |-> m, sz |-> newsz], PageSeq(RoundUp(oldsz, PGSIZE), newsz))

(* copyuvm(): the copy's root, NULL when memory ran out; then only the root *)
(* is given back.                                                           *)
CopyPage(x, pte, r) ==
    IF x.pgdir = NULL THEN x
    ELSE IF pte = NoPte THEN [m |-> Panic(x.m, "copyuvm"), pgdir |-> NULL]
    ELSE IF ~r.ok THEN [m |-> Kfree(r.m, x.pgdir), pgdir |-> NULL]
    ELSE [x EXCEPT !.m = r.m]

CopyAs(m, new, pgdir, sz) ==
    FoldLeft(LAMBDA x, a : CopyPage(x, PteOf(x.m, pgdir, a \div PGSIZE),
                                    NewPage(x.m, new, a \div PGSIZE, PteOf(x.m, pgdir, a \div PGSIZE).user)),
             [m |-> m, pgdir |-> new], PageSeq(0, sz))

CopyUvm(m, pgdir, sz) ==
    IF m.free = <<>> THEN [m |-> PgdirInit(m), pgdir |-> NULL]
    ELSE CopyAs(PgdirInit(m), Head(m.free), pgdir, sz)

(* copyout(): uva2ka() wants every page of the range present and PTE_USER. *)
CopyOut(m, pgdir, lo, hi) ==
    \A vpn \in (lo \div PGSIZE)..((hi - 1) \div PGSIZE) : PteOf(m, pgdir, vpn).user

-----------------------------------------------------------------------------
(* What a core may have cached while it runs p. *)
Mapping(m, pgdir) ==
    {<<vpn, PteOf(m, pgdir, vpn).pa>> : vpn \in {v \in Vpns : PteOf(m, pgdir, v).pa # NULL}}

(* uvm_switch(): lttbr0() loads the root and drops the cached translations. *)
UvmSwitch(c, p) ==
    /\ ttbr0' = [ttbr0 EXCEPT ![c] = proc'[p].pgdir]
    /\ tlb' = [tlb EXCEPT ![c] = Mapping(mem', proc'[p].pgdir)]
    /\ kept' = [kept EXCEPT ![c] = FALSE]

(* A system call that returns without one: old translations stay. *)
NoSwitch(c, freed) ==
    /\ UNCHANGED ttbr0
    /\ tlb' = [tlb EXCEPT ![c] = @ \cup Mapping(mem', ttbr0[c])]
    /\ kept' = [kept EXCEPT ![c] = @ \/ freed]

Unused == [state |-> "UNUSED", parent |-> NULL, pgdir |-> NULL, kstack |-> NULL,
           sz |-> 0, hollow |-> FALSE]

(* main(): alloc_init(), then user_init() with a stack, a root and, from    *)
(* uvm_init(), one page of code.                                            *)
Init ==
    LET stack == Kalloc(AllMemory)
        root == PgdirInit(stack)
        code == MapPage(Kalloc(root), Head(stack.free), 0, [pa |-> Head(root.free), user |-> TRUE])
    IN  /\ mem = code.m
        /\ proc = [p \in Procs |-> IF p # First THEN Unused
                   ELSE [Unused EXCEPT !.state = "RUNNABLE", !.kstack = Head(AllMemory.free),
                                       !.pgdir = Head(stack.free), !.sz = PGSIZE]]
        /\ on = [c \in Cpus |-> NULL]
        /\ ttbr0 = [c \in Cpus |-> NULL]
        /\ calls = 0
        /\ tlb = [c \in Cpus |-> {}]
        /\ kept = [c \in Cpus |-> FALSE]

Alive == mem.panic = ""

(* The process on c makes a system call. *)
Call(c) ==
    /\ Alive /\ on[c] # NULL
    /\ calls < MaxCalls
    /\ calls' = calls + 1

(* scheduler() *)
Dispatch(c, p) ==
    /\ Alive /\ on[c] = NULL /\ proc[p].state = "RUNNABLE"
    /\ proc' = [proc EXCEPT ![p].state = "RUNNING"]
    /\ on' = [on EXCEPT ![c] = p]
    /\ UNCHANGED <<mem, calls>>
    /\ UvmSwitch(c, p)

(* yield() or sleep(): the core stays on the tables of the last process. *)
Leave(c) ==
    /\ Alive /\ on[c] # NULL
    /\ proc' = [proc EXCEPT ![on[c]].state = "RUNNABLE"]
    /\ on' = [on EXCEPT ![c] = NULL]
    /\ UNCHANGED <<mem, ttbr0, calls, tlb, kept>>

(* proc_alloc() and fork(); without a free slot fork() returns -1. *)
Fork(c, q) ==
    LET p == on[c]
        stack == Head(mem.free)
    IN  /\ Call(c) /\ proc[q].state = "UNUSED"
        /\ UNCHANGED <<on, ttbr0, tlb, kept>>
        /\ \/ /\ mem.free = <<>>
              /\ mem' = Panic(mem, "out of memory")
              /\ UNCHANGED proc
           \/ /\ mem.free # <<>>
              /\ \E r \in {CopyUvm(Kalloc(mem), proc[p].pgdir, proc[p].sz)} :
                    \/ /\ r.pgdir # NULL
                       /\ mem' = r.m
                       /\ proc' = [proc EXCEPT ![q] = [proc[p] EXCEPT !.state = "RUNNABLE", !.parent = p,
                                                                      !.pgdir = r.pgdir, !.kstack = stack]]
                    \/ /\ r.pgdir = NULL
                       /\ mem' = IF r.m.panic = "" THEN Kfree(r.m, stack) ELSE r.m
                       /\ UNCHANGED proc

(* exit(); the children go to a process that never waits for them. *)
Exit(c) ==
    /\ Call(c) /\ on[c] # First
    /\ proc' = [q \in Procs |-> [proc[q] EXCEPT !.state = IF q = on[c] THEN "ZOMBIE" ELSE @,
                                                !.parent = IF @ = on[c] THEN NULL ELSE @]]
    /\ on' = [on EXCEPT ![c] = NULL]
    /\ UNCHANGED <<mem, ttbr0, tlb, kept>>

(* wait() finds the zombie q. *)
Wait(c, q) ==
    /\ Call(c)
    /\ proc[q].state = "ZOMBIE" /\ proc[q].parent = on[c]
    /\ mem' = Kfree(VmFree(mem, proc[q].pgdir), proc[q].kstack)
    /\ proc' = [proc EXCEPT ![q] = Unused]
    /\ UNCHANGED <<on, ttbr0, tlb, kept>>

(* growproc(): a size of 0 is taken for a failure, whether uvm_alloc()      *)
(* failed or uvm_dealloc() has freed every page of the process.  sz + n is  *)
(* huge, and nothing happens, if more is given back than there is.          *)
Resize(m, pgdir, sz, n) ==
    IF n >= 0 THEN UvmAlloc(m, pgdir, sz, sz + n)
    ELSE IF sz + n < 0 THEN [m |-> m, sz |-> sz]
    ELSE [m |-> UvmDealloc(m, pgdir, sz, sz + n), sz |-> sz + n]

(* A growproc() that keeps the old translations. *)
GrowprocNoSwitch(c, n) ==
    LET p == on[c]
    IN  /\ Call(c)
        /\ UNCHANGED on
        /\ \E r \in {Resize(mem, proc[p].pgdir, proc[p].sz, n)} :
              /\ mem' = r.m
              /\ proc' = [proc EXCEPT ![p].sz = IF r.sz # 0 THEN r.sz ELSE @,
                                        ![p].hollow = @ \/ (r.sz = 0 /\ n < 0)]
              /\ NoSwitch(c, r.sz = 0 /\ n < 0)

Growproc(c, n) ==
    LET p == on[c]
    IN  /\ Call(c)
        /\ UNCHANGED on
        /\ \E r \in {Resize(mem, proc[p].pgdir, proc[p].sz, n)} :
              /\ mem' = r.m
              /\ \/ /\ r.sz # 0
                    /\ proc' = [proc EXCEPT ![p].sz = r.sz]
                    /\ UvmSwitch(c, p)
                 \/ /\ r.sz = 0
                    /\ proc' = [proc EXCEPT ![p].hollow = @ \/ n < 0]
                    /\ NoSwitch(c, n < 0)

(* uvm_load() panics on a segment whose address and offset in the file do   *)
(* not agree, and on one with a page that has no table: a page of the       *)
(* program ("loaduvm"), or the page of an empty segment.  A page of the     *)
(* program that has a table and no entry would be read into physical page 0 *)
(* and counts as "loaduvm" too.  No message means that it loads.            *)
LoadProblem(m, root, s) ==
    LET first == s.vaddr \div PGSIZE
    IN  IF ~s.aligned THEN "misaligned"
        ELSE IF s.memsz = 0 THEN IF Walk(m, root, first) = NULL THEN "empty" ELSE ""
        ELSE IF \E vpn \in first..((s.vaddr + s.memsz - 1) \div PGSIZE) : PteOf(m, root, vpn) = NoPte
             THEN "loaduvm" ELSE ""

(* execve() as far as the new address space x = [m, sz, ok]; the file may   *)
(* be too short for a segment.                                              *)
Segment(r, s, root) ==
    IF r.sz = 0 THEN [m |-> r.m, sz |-> 0, ok |-> FALSE]
    ELSE [m  |-> Panic(r.m, LoadProblem(r.m, root, s)), sz |-> r.sz,
          ok |-> LoadProblem(r.m, root, s) = "" /\ ~s.short]

LoadSegments(m, root, image) ==
    FoldLeft(LAMBDA x, s : IF ~x.ok THEN x
                           ELSE Segment(UvmAlloc(x.m, root, x.sz, s.vaddr + s.memsz), s, root),
             [m |-> m, sz |-> 0, ok |-> TRUE], image)

(* clearpteu(): the page below the stack. *)
ClearPteu(m, t, vpn) == [m EXCEPT !.pt[t][PTX(3, vpn)].user = FALSE]

(* Two pages above the program, the lower one inaccessible, then the        *)
(* arguments from the top down.                                             *)
PushArgs(x, root, args) == [x EXCEPT !.ok = CopyOut(x.m, root, x.sz - args, x.sz)]

Stack(r, root, guard, args) ==
    IF r.sz = 0 THEN [m |-> r.m, sz |-> 0, ok |-> FALSE]
    ELSE PushArgs([m |-> ClearPteu(r.m, Walk(r.m, root, guard), guard), sz |-> r.sz, ok |-> TRUE],
                  root, args)

AddStack(x, root, args) ==
    IF ~x.ok THEN x
    ELSE Stack(UvmAlloc(x.m, root, RoundUp(x.sz, PGSIZE), RoundUp(x.sz, PGSIZE) + 2 * PGSIZE),
               root, RoundUp(x.sz, PGSIZE) \div PGSIZE, args)

Load(m, root, image, args) == AddStack(LoadSegments(m, root, image), root, args)

Exec(c, image, args) ==
    LET p == on[c]
        root == Head(mem.free)
    IN  /\ Call(c)
        /\ UNCHANGED on
        /\ \/ /\ mem.free = <<>>
              /\ mem' = PgdirInit(mem)
              /\ UNCHANGED <<proc, ttbr0, tlb, kept>>
           \/ /\ mem.free # <<>>
              /\ \E r \in {Load(PgdirInit(mem), root, image, args)} :
                    \/ /\ ~r.ok
                       /\ mem' = IF r.m.panic = "" THEN VmFree(r.m, root) ELSE r.m
                       /\ UNCHANGED proc
                       /\ NoSwitch(c, FALSE)
                    \/ /\ r.ok
                       /\ mem' = VmFree(r.m, proc[p].pgdir)
                       /\ proc' = [proc EXCEPT ![p].pgdir = root, ![p].sz = r.sz, ![p].hollow = FALSE]
                       /\ UvmSwitch(c, p)

Next ==
    \E c \in Cpus :
       \/ Leave(c) \/ Exit(c)
       \/ \E p \in Procs : Dispatch(c, p) \/ Fork(c, p) \/ Wait(c, p)
       \/ \E n \in Deltas : Growproc(c, n)
       \/ \E image \in Images, args \in ArgSizes : Exec(c, image, args)

Spec == Init /\ [][Next]_vars

-----------------------------------------------------------------------------
(* A 64-bit value passed as an int. *)
AsInt(n) == ((n + 2 ^ (INT_BITS - 1)) % 2 ^ INT_BITS) - 2 ^ (INT_BITS - 1)

(* argptr(), called with a length n of 64 bits: its size is an int, which   *)
(* is widened again for the sum.                                            *)
Argptr(p, i, n) ==
    /\ i < proc[p].sz
    /\ (i + AsInt(n)) % 2 ^ LONG_BITS <= proc[p].sz

(* The range whose end argptr() has compared with p->sz. *)
ArgptrRange(i, n) == i..(i + AsInt(n) - 1)

(* What fetchstr() may read in its search for the end of a string. *)
FetchstrRange(p, addr) == addr..(proc[p].sz - 1)

Live == {p \in Procs : proc[p].state # "UNUSED"}

Below(tables) == UNION {{mem.pt[t][i].pa : i \in 0..(ENTRYSZ - 1)} : t \in tables} \ {NULL}

(* The page tables of all processes, level by level. *)
Roots == {proc[p].pgdir : p \in Live}
Tables == Roots \cup Below(Roots) \cup Below(Below(Roots)) \cup Below(Below(Below(Roots)))
Stacks == {proc[p].kstack : p \in Live}

TypeOK ==
    /\ mem.free \in Seq(Pages)
    /\ mem.pt \in [Pages -> [0..(ENTRYSZ - 1) -> Pte]]
    /\ proc \in [Procs -> [state : {"UNUSED", "RUNNABLE", "RUNNING", "ZOMBIE"},
                           parent : Procs \cup {NULL}, pgdir : Pages \cup {NULL},
                           kstack : Pages \cup {NULL}, sz : 0..UADDR_SZ, hollow : BOOLEAN]]
    /\ on \in [Cpus -> Procs \cup {NULL}]
    /\ ttbr0 \in [Cpus -> Pages \cup {NULL}]
    /\ tlb \in [Cpus -> SUBSET (Vpns \X Pages)]
    /\ kept \in [Cpus -> BOOLEAN]

(* No page is free twice, free and in use, or in use for two purposes: the  *)
(* list, the stacks and the entries of the tables name as many pages as     *)
(* there are names, whatever failed half way in fork(), execve() or brk().  *)
PagesOwnedOnce ==
    LET entries == {e \in Tables \X (0..(ENTRYSZ - 1)) : mem.pt[e[1]][e[2]].pa # NULL}
    IN  Len(mem.free) + 2 * Cardinality(Live) + Cardinality(entries)
          = Cardinality(ToSet(mem.free) \cup Stacks \cup Roots \cup Below(Tables))

MemoryInv == TypeOK /\ PagesOwnedOnce

(* The range that argptr() has checked, and all that fetchstr() may scan,   *)
(* is mapped: the kernel does not fault there.  Two exceptions belong to    *)
(* the code.  A process whose brk() gave back everything keeps its old size *)
(* (hollow).  And a length that does not fit an int is not the length that  *)
(* is checked: read() and write() then use more than ArgptrRange.           *)
CheckedPointersAreMapped ==
    \A p \in Live : ~proc[p].hollow =>
       LET mapped == {a \in 0..UADDR_SZ : PteOf(mem, proc[p].pgdir, a \div PGSIZE) # NoPte}
       IN  /\ FetchstrRange(p, 0) \subseteq mapped
           /\ \A i \in 0..(2 ^ LONG_BITS - 1), n \in Lengths :
                 Argptr(p, i, n) => ArgptrRange(i, n) \subseteq mapped

(* A process that runs uses its own page table and no translation the table *)
(* does not have: not one of the program before execve(), nor of a page     *)
(* that brk() gave back.  The exception is a brk() of everything: growproc()*)
(* frees the pages and returns -1 before uvm_switch(), and the core keeps   *)
(* their translations until it next switches (kept).                        *)
TranslationsFresh ==
    Alive => \A c \in Cpus : on[c] # NULL =>
       /\ ttbr0[c] = proc[on[c]].pgdir
       /\ kept[c] \/ tlb[c] \subseteq Mapping(mem, ttbr0[c])

(* The kernel panics for reasons only that its callers give it.  It never   *)
(* finds a page mapped twice ("remap") or a page of a program missing       *)
(* ("loaduvm"); it is out of memory when no page is left; copyuvm() misses  *)
(* a page of a process that gave back all its memory.  The other panics are *)
(* those of uvm_load() on a file whose header asks for a segment that is    *)
(* misaligned, or empty and beyond the last table.                          *)
PanicsAreJustified ==
    /\ mem.panic \notin {"remap", "loaduvm"}
    /\ mem.panic = "out of memory" => mem.free = <<>>
    /\ mem.panic = "copyuvm" => \E p \in Live : proc[p].hollow

(* "Free a page table": what wait() and execve() free is back on the list,  *)
(* every page is free or some process's.                                    *)
NoPageLost == ToSet(mem.free) \cup Stacks \cup Tables \cup Below(Tables) = Pages
=============================================================================

----------------------------- MODULE FilesProofs -----------------------------
(***************************************************************************)
(* Proofs about module Files.                                              *)
(*                                                                         *)
(* The invariants of Files speak of moments when no call is in progress,   *)
(* so they are not inductive.  What makes them so is an account, for every *)
(* process and for every place in its program, of what the process holds:  *)
(* an operation of the log, references to inodes and files, inode locks,   *)
(* a name that it is looking up.  Trans says how a step changes what is    *)
(* held, Fits that a rest of a program leads from what is held to nothing. *)
(***************************************************************************)
EXTENDS Files, FiniteSetTheorems, SequenceTheorems, WellFoundedInduction, TLAPS

(* What a process holds in the middle of a call:                           *)
(*   op     an operation of the log;                                       *)
(*   ip, dp a reference in this local variable, and the lock of the inode; *)
(*          "use" is the inode of an open file, whose reference it is;     *)
(*   f      a new file with a descriptor, but not set up; a file without   *)
(*          descriptor, not set up ("void") or set up ("own"); a file with *)
(*          a descriptor that has no reference yet ("dup");                *)
(*   cwd    a reference to the current directory; "dead" has no files;     *)
(*   path   a name, or the parent of one, to look up or in the middle of   *)
(*          it; the last element; one that the directory does not have;    *)
(*   stale  a descriptor that has no reference;                            *)
(*   shut   the descriptors that exit() has closed.                        *)
Holdings ==
    [op : {0, 1}, ip : {"none", "ref", "lock", "use", "uselock"},
     dp : {"none", "ref", "lock"}, f : {"none", "new", "void", "own", "dup"},
     cwd : {"own", "out", "dead"},
     path : {"none", "name", "parent", "walk", "walkparent", "last", "absent"},
     stale : 0..NOFILE, shut : 0..NOFILE]

(* In the middle of an operation; outside of one, with a name to look up,   *)
(* with a file or directory to set up, or closing files.                    *)
InOp(ip, path, f) == [op |-> 1, ip |-> ip, dp |-> "none", f |-> f, cwd |-> "own",
                      path |-> path, stale |-> 0, shut |-> 0]
Idling(ip, f, d) == [op |-> 0, ip |-> ip, dp |-> "none", f |-> f, cwd |-> d,
                     path |-> "none", stale |-> 0, shut |-> 0]
Naming(path) == [op |-> 0, ip |-> "none", dp |-> "none", f |-> "none", cwd |-> "own",
                 path |-> path, stale |-> 0, shut |-> 0]
Closing(f, d, stale, shut) ==
    [op |-> 0, ip |-> "none", dp |-> "none", f |-> f, cwd |-> d,
     path |-> "none", stale |-> stale, shut |-> shut]
Nothing == Idling("none", "none", "own")
Gone == Idling("none", "none", "dead")

NoLock(h) == h.ip \notin {"lock", "uselock"} /\ h.dp # "lock"

(* What a process holds before a step, and after it. *)
Trans(s, h, g) ==
    /\ s[1] # "link" => h.path # "absent"
    /\ s[1] = "begin_op" => h.op = 0 /\ NoLock(h) /\ g = [h EXCEPT !.op = 1]
    /\ s[1] = "end_op" => h.op = 1 /\ g = [h EXCEPT !.op = 0]
    /\ s[1] = "ilock" => /\ s[2] = "ip" /\ h.dp = "none"
                         /\ \/ h.ip = "ref" /\ g = [h EXCEPT !.ip = "lock"]
                            \/ h.ip = "use" /\ g = [h EXCEPT !.ip = "uselock"]
    /\ s[1] = "iunlock" => \/ /\ s[2] = "ip" /\ h.ip = "lock" /\ h.dp # "lock"
                              /\ g = [h EXCEPT !.ip = "ref"]
                           \/ /\ s[2] = "ip" /\ h.ip = "uselock" /\ h.dp # "lock"
                              /\ g \in {[h EXCEPT !.ip = "use"], [h EXCEPT !.ip = "none"]}
                           \/ /\ s[2] = "dp" /\ h.dp = "lock" /\ h.ip # "uselock"
                              /\ g = [h EXCEPT !.dp = "ref"]
    /\ s[1] = "iput" => /\ g = h
                        /\ \/ s[2] = "ip" /\ h.ip = "ref" /\ NoLock(h)
                           \/ s[2] = "dp" /\ h.dp = "ref" /\ h.ip # "uselock"
                           \/ s[2] = "cwd" /\ h.cwd = "own" /\ NoLock(h)
    /\ s[1] = "drop" => \/ /\ s[2] = "ip" /\ h.ip = "ref" /\ h.path = "none"
                           /\ g = [h EXCEPT !.ip = "none"]
                        \/ s[2] = "dp" /\ h.dp = "ref" /\ g = [h EXCEPT !.dp = "none"]
                        \/ s[2] = "cwd" /\ h.cwd = "own" /\ g = [h EXCEPT !.cwd = "out"]
    /\ s[1] = "namex" => \/ h = InOp("none", "name", "none") /\ g = InOp("ref", "none", "none")
                         \/ h = InOp("none", "parent", "none") /\ g = InOp("ref", "last", "none")
    /\ s[1] = "element" => \/ h = InOp("lock", "walk", "none") /\ g = InOp("ref", "none", "none")
                           \/ h = InOp("lock", "walkparent", "none") /\ g = InOp("ref", "last", "none")
    /\ s[1] = "lookup" => h = InOp("lock", "last", "none") /\ g = InOp("lock", "absent", "none")
    /\ s[1] = "link" => h = InOp("lock", "absent", "none") /\ g = InOp("lock", "none", "none")
    /\ s[1] \in {"existing", "isdir", "notdir"} => h = InOp("lock", "none", "none") /\ g = h
    /\ s[1] = "filealloc" => h = InOp("lock", "none", "none") /\ g = InOp("lock", "none", "new")
    /\ s[1] = "setfile" => h = Idling("ref", "new", "own") /\ g = Nothing
    /\ s[1] = "setcwd" => h = Idling("ref", "none", "out") /\ g = Nothing
    /\ s[1] = "device" => h.ip = "uselock" /\ h.dp = "none" /\ g = h
    /\ s[1] = "filedup" => h = Closing("dup", "own", h.stale, 0) /\ h.stale # 0 /\ g = Nothing
    /\ s[1] = "fileclose" => \/ /\ h = InOp("lock", "none", "void")
                                /\ g = InOp("lock", "none", "none")
                             \/ /\ h = Closing("own", "own", h.stale, h.shut)
                                /\ g = Closing("none", "own", h.stale, h.shut)
    /\ s[1] = "close" => /\ h = Closing("none", "own", 0, s[2] - 1)
                         /\ g = Closing("none", "own", 0, s[2])
    /\ s[1] = "clear" => /\ h = Closing("none", "own", s[2], s[2] - 1)
                         /\ g = Closing("none", "own", 0, s[2])
    /\ s[1] = "dead" => h = Closing("none", "out", 0, NOFILE) /\ g = Gone

Verbs == {"begin_op", "end_op", "ilock", "iunlock", "iput", "drop", "namex", "element", "lookup",
          "existing", "link", "isdir", "notdir", "filealloc", "setfile", "setcwd", "device",
          "filedup", "fileclose", "close", "clear", "dead"}
Words == Verbs \cup Registers \cup Types \cup Modes \cup CreateModes \cup 1..NOFILE
Steps == Seq(Words)

(* The steps t lead from holding h to holding g. *)
Leads(t, h, g) ==
    /\ t \in Seq(Steps)
    /\ \E st \in [1..(Len(t) + 1) -> Holdings] :
          /\ st[1] = h /\ st[Len(t) + 1] = g
          /\ \A i \in 1..Len(t) : Trans(t[i], st[i], st[i + 1])

(* The rest t of a program fits what its process holds. *)
Fits(t, h) == Leads(t, h, Nothing) \/ Leads(t, h, Gone)

-----------------------------------------------------------------------------
(* Programs *)

LEMMA LeadsHolding ==
    ASSUME NEW t, NEW h, NEW g, Leads(t, h, g)
    PROVE  h \in Holdings /\ g \in Holdings /\ t \in Seq(Steps)
<1>1. Len(t) \in Nat
    BY DEF Leads
<1>2. QED
    BY <1>1 DEF Leads

LEMMA FitsHolding == ASSUME NEW t, NEW h, Fits(t, h) PROVE h \in Holdings /\ t \in Seq(Steps)
BY LeadsHolding DEF Fits

LEMMA FitsEmpty ==
    /\ \A h : Fits(<<>>, h) => h \in {Nothing, Gone}
    /\ Fits(<<>>, Nothing) /\ Fits(<<>>, Gone)
<1>1. ASSUME NEW h, Fits(<<>>, h) PROVE h \in {Nothing, Gone}
    BY <1>1 DEF Fits, Leads
<1>2. Nothing \in Holdings /\ Gone \in Holdings
    BY FilesAssumption DEF Nothing, Gone, Idling, Holdings
<1>3. ASSUME NEW h \in {Nothing, Gone} PROVE Leads(<<>>, h, h)
    <2> DEFINE st == [i \in 1..1 |-> h]
    <2>1. Len(<<>>) + 1 = 1 /\ <<>> \in Seq(Steps) /\ 1..Len(<<>>) = {}
        OBVIOUS
    <2>2. st \in [1..1 -> Holdings] /\ st[1] = h
        BY <1>2, <1>3
    <2>3. QED
        BY <2>1, <2>2, <1>3 DEF Leads
<1>4. QED
    BY <1>1, <1>3 DEF Fits

(* A step is taken. *)
LEMMA LeadsHead ==
    ASSUME NEW t, NEW h, NEW k, Leads(t, h, k), t # <<>>
    PROVE  \E g \in Holdings : Trans(Head(t), h, g) /\ Leads(Tail(t), g, k)
<1>1. PICK st \in [1..(Len(t) + 1) -> Holdings] :
          /\ st[1] = h /\ st[Len(t) + 1] = k
          /\ \A i \in 1..Len(t) : Trans(t[i], st[i], st[i + 1])
    BY DEF Leads
<1>2. /\ t \in Seq(Steps) /\ Len(t) \in Nat \ {0} /\ Tail(t) \in Seq(Steps)
      /\ Len(Tail(t)) = Len(t) - 1 /\ Head(t) = t[1]
      /\ \A i \in 1..Len(Tail(t)) : Tail(t)[i] = t[i + 1]
    BY DEF Leads
<1> DEFINE su == [i \in 1..(Len(Tail(t)) + 1) |-> st[i + 1]]
<1>3. su \in [1..(Len(Tail(t)) + 1) -> Holdings]
    BY <1>2
<1>4. /\ su[1] = st[2] /\ su[Len(Tail(t)) + 1] = k
      /\ \A i \in 1..Len(Tail(t)) : Trans(Tail(t)[i], su[i], su[i + 1])
    BY <1>1, <1>2
<1>5. Leads(Tail(t), st[2], k)
    BY <1>2, <1>3, <1>4 DEF Leads
<1>6. Trans(Head(t), h, st[2]) /\ st[2] \in Holdings
    BY <1>1, <1>2
<1>7. QED
    BY <1>5, <1>6

LEMMA FitsHead ==
    ASSUME NEW t, NEW h, Fits(t, h), t # <<>>
    PROVE  \E g \in Holdings : Trans(Head(t), h, g) /\ Fits(Tail(t), g)
BY LeadsHead DEF Fits

(* Programs one after the other. *)
LEMMA LeadsConcat ==
    ASSUME NEW t, NEW u, NEW h, NEW g, NEW k, Leads(t, h, g), Leads(u, g, k)
    PROVE  Leads(t \o u, h, k)
<1>1. PICK st \in [1..(Len(t) + 1) -> Holdings] :
          /\ st[1] = h /\ st[Len(t) + 1] = g
          /\ \A i \in 1..Len(t) : Trans(t[i], st[i], st[i + 1])
    BY DEF Leads
<1>2. PICK su \in [1..(Len(u) + 1) -> Holdings] :
          /\ su[1] = g /\ su[Len(u) + 1] = k
          /\ \A i \in 1..Len(u) : Trans(u[i], su[i], su[i + 1])
    BY DEF Leads
<1> DEFINE v == t \o u
<1>3. /\ t \in Seq(Steps) /\ u \in Seq(Steps) /\ v \in Seq(Steps)
      /\ Len(t) \in Nat /\ Len(u) \in Nat /\ Len(v) = Len(t) + Len(u)
      /\ \A i \in 1..Len(v) : v[i] = IF i <= Len(t) THEN t[i] ELSE u[i - Len(t)]
    BY DEF Leads
<1> DEFINE sv == [i \in 1..(Len(v) + 1) |-> IF i <= Len(t) THEN st[i] ELSE su[i - Len(t)]]
<1>4. sv \in [1..(Len(v) + 1) -> Holdings]
    <2>1. ASSUME NEW i \in 1..(Len(v) + 1)
          PROVE  (IF i <= Len(t) THEN st[i] ELSE su[i - Len(t)]) \in Holdings
        <3>1. i <= Len(t) \/ i - Len(t) \in 1..(Len(u) + 1)
            BY <1>3
        <3>2. i <= Len(t) => i \in 1..(Len(t) + 1)
            BY <1>3
        <3>3. QED
            BY <3>1, <3>2
    <2>2. QED
        BY <2>1
<1>5. sv[1] = h /\ sv[Len(v) + 1] = k
    <2>1. 1 \in 1..(Len(v) + 1) /\ Len(v) + 1 \in 1..(Len(v) + 1)
        BY <1>3
    <2>2. QED
        BY <2>1, <1>1, <1>2, <1>3
<1>6. ASSUME NEW i \in 1..Len(v) PROVE Trans(v[i], sv[i], sv[i + 1])
    <2>1. CASE i < Len(t)
        <3>1. v[i] = t[i] /\ sv[i] = st[i] /\ sv[i + 1] = st[i + 1] /\ i \in 1..Len(t)
            BY <2>1, <1>3
        <3>2. QED
            BY <3>1, <1>1
    <2>2. CASE i = Len(t)
        <3>1. v[i] = t[i] /\ sv[i] = st[i] /\ sv[i + 1] = su[1] /\ i \in 1..Len(t)
            BY <2>2, <1>3
        <3>2. QED
            BY <3>1, <2>2, <1>1, <1>2
    <2>3. CASE i > Len(t)
        <3>1. /\ v[i] = u[i - Len(t)] /\ sv[i] = su[i - Len(t)] /\ sv[i + 1] = su[i - Len(t) + 1]
              /\ i - Len(t) \in 1..Len(u)
            BY <2>3, <1>3
        <3>2. QED
            BY <3>1, <1>2
    <2>4. QED
        BY <2>1, <2>2, <2>3, <1>3
<1>7. QED
    BY <1>3, <1>4, <1>5, <1>6 DEF Leads

LEMMA FitsConcat ==
    ASSUME NEW t, NEW u, NEW h, NEW g, Leads(t, h, g), Fits(u, g)
    PROVE  Fits(t \o u, h)
BY LeadsConcat DEF Fits

LEMMA StepTypes ==
    /\ \A o \in Verbs : <<o>> \in Steps
    /\ \A o \in Verbs, x \in Words : <<o, x>> \in Steps
    /\ Registers \cup Types \cup Modes \cup CreateModes \cup 1..NOFILE \subseteq Words
BY DEF Steps, Words

(* The programs of one to six steps. *)
LEMMA Leads1 ==
    ASSUME NEW a \in Steps, NEW h \in Holdings, NEW g \in Holdings, Trans(a, h, g)
    PROVE  Leads(<<a>>, h, g)
<1> DEFINE st == [i \in 1..2 |-> IF i = 1 THEN h ELSE g]
<1>1. <<a>> \in Seq(Steps) /\ Len(<<a>>) = 1 /\ Len(<<a>>) + 1 = 2 /\ <<a>>[1] = a
    OBVIOUS
<1>2. st \in [1..2 -> Holdings] /\ st[1] = h /\ st[2] = g
    OBVIOUS
<1>3. \A i \in 1..1 : Trans(<<a>>[i], st[i], st[i + 1])
    <2>1. \A i \in 1..1 : i = 1 /\ i + 1 = 2
        OBVIOUS
    <2>2. QED
        BY <2>1, <1>1, <1>2
<1>4. QED
    BY <1>1, <1>2, <1>3 DEF Leads

LEMMA Leads2 ==
    ASSUME NEW a \in Steps, NEW b \in Steps,
           NEW h, NEW k, NEW g, Leads(<<a>>, h, k), Leads(<<b>>, k, g)
    PROVE  Leads(<<a, b>>, h, g)
<1> DEFINE u == <<a>> \o <<b>>
           v == <<a, b>>
<1>1. Leads(u, h, g) /\ u \in Seq(Steps) /\ v \in Seq(Steps)
    BY LeadsConcat, LeadsHolding
<1>2. Len(u) = 2 /\ Len(v) = 2
    OBVIOUS
<1>3. \A i \in 1..2 : u[i] = v[i]
    OBVIOUS
<1>4. u = v
    BY <1>1, <1>2, <1>3, SeqEqual
<1>5. QED
    BY <1>1, <1>4

LEMMA Leads3 ==
    ASSUME NEW a \in Steps, NEW b \in Steps, NEW c \in Steps,
           NEW h, NEW k, NEW g, Leads(<<a>>, h, k), Leads(<<b, c>>, k, g)
    PROVE  Leads(<<a, b, c>>, h, g)
<1> DEFINE u == <<a>> \o <<b, c>>
           v == <<a, b, c>>
<1>1. Leads(u, h, g) /\ u \in Seq(Steps) /\ v \in Seq(Steps)
    BY LeadsConcat, LeadsHolding
<1>2. Len(u) = 3 /\ Len(v) = 3
    OBVIOUS
<1>3. \A i \in 1..3 : u[i] = v[i]
    OBVIOUS
<1>4. u = v
    BY <1>1, <1>2, <1>3, SeqEqual
<1>5. QED
    BY <1>1, <1>4

LEMMA Leads4 ==
    ASSUME NEW a \in Steps, NEW b \in Steps, NEW c \in Steps, NEW d \in Steps,
           NEW h, NEW k, NEW g, Leads(<<a>>, h, k), Leads(<<b, c, d>>, k, g)
    PROVE  Leads(<<a, b, c, d>>, h, g)
<1> DEFINE u == <<a>> \o <<b, c, d>>
           v == <<a, b, c, d>>
<1>1. Leads(u, h, g) /\ u \in Seq(Steps) /\ v \in Seq(Steps)
    BY LeadsConcat, LeadsHolding
<1>2. Len(u) = 4 /\ Len(v) = 4
    OBVIOUS
<1>3. \A i \in 1..4 : u[i] = v[i]
    OBVIOUS
<1>4. u = v
    BY <1>1, <1>2, <1>3, SeqEqual
<1>5. QED
    BY <1>1, <1>4

LEMMA Leads5 ==
    ASSUME NEW a \in Steps, NEW b \in Steps, NEW c \in Steps, NEW d \in Steps, NEW e \in Steps,
           NEW h, NEW k, NEW g, Leads(<<a>>, h, k), Leads(<<b, c, d, e>>, k, g)
    PROVE  Leads(<<a, b, c, d, e>>, h, g)
<1> DEFINE u == <<a>> \o <<b, c, d, e>>
           v == <<a, b, c, d, e>>
<1>1. Leads(u, h, g) /\ u \in Seq(Steps) /\ v \in Seq(Steps)
    BY LeadsConcat, LeadsHolding
<1>2. Len(u) = 5 /\ Len(v) = 5
    OBVIOUS
<1>3. \A i \in 1..5 : u[i] = v[i]
    OBVIOUS
<1>4. u = v
    BY <1>1, <1>2, <1>3, SeqEqual
<1>5. QED
    BY <1>1, <1>4

LEMMA Leads6 ==
    ASSUME NEW a \in Steps, NEW b \in Steps, NEW c \in Steps, NEW d \in Steps, NEW e \in Steps, NEW f \in Steps,
           NEW h, NEW k, NEW g, Leads(<<a>>, h, k), Leads(<<b, c, d, e, f>>, k, g)
    PROVE  Leads(<<a, b, c, d, e, f>>, h, g)
<1> DEFINE u == <<a>> \o <<b, c, d, e, f>>
           v == <<a, b, c, d, e, f>>
<1>1. Leads(u, h, g) /\ u \in Seq(Steps) /\ v \in Seq(Steps)
    BY LeadsConcat, LeadsHolding
<1>2. Len(u) = 6 /\ Len(v) = 6
    OBVIOUS
<1>3. \A i \in 1..6 : u[i] = v[i]
    OBVIOUS
<1>4. u = v
    BY <1>1, <1>2, <1>3, SeqEqual
<1>5. QED
    BY <1>1, <1>4

(* What the steps that programs share do to what is held. *)
LEMMA OpSteps ==
    ASSUME NEW h \in Holdings, h.path # "absent"
    PROVE  /\ h.op = 0 /\ NoLock(h) => Leads(<<<<"begin_op">>>>, h, [h EXCEPT !.op = 1])
           /\ h.op = 1 => Leads(<<<<"end_op">>>>, h, [h EXCEPT !.op = 0])
<1>1. [h EXCEPT !.op = 1] \in Holdings /\ [h EXCEPT !.op = 0] \in Holdings
    BY DEF Holdings
<1>2. <<"begin_op">> \in Steps /\ <<"end_op">> \in Steps
    BY StepTypes DEF Verbs
<1>3. h.op = 0 /\ NoLock(h) => Trans(<<"begin_op">>, h, [h EXCEPT !.op = 1])
    BY DEF Trans
<1>4. h.op = 1 => Trans(<<"end_op">>, h, [h EXCEPT !.op = 0])
    BY DEF Trans
<1>5. QED
    BY <1>1, <1>2, <1>3, <1>4, Leads1

LEMMA LockSteps ==
    ASSUME NEW h \in Holdings, h.path # "absent"
    PROVE  /\ h.ip = "ref" /\ h.dp = "none" =>
                Leads(<<<<"ilock", "ip">>>>, h, [h EXCEPT !.ip = "lock"])
           /\ h.ip = "use" /\ h.dp = "none" =>
                Leads(<<<<"ilock", "ip">>>>, h, [h EXCEPT !.ip = "uselock"])
           /\ h.ip = "lock" /\ h.dp # "lock" =>
                Leads(<<<<"iunlock", "ip">>>>, h, [h EXCEPT !.ip = "ref"])
           /\ h.ip = "uselock" /\ h.dp # "lock" =>
                /\ Leads(<<<<"iunlock", "ip">>>>, h, [h EXCEPT !.ip = "use"])
                /\ Leads(<<<<"iunlock", "ip">>>>, h, [h EXCEPT !.ip = "none"])
           /\ h.dp = "lock" /\ h.ip # "uselock" =>
                Leads(<<<<"iunlock", "dp">>>>, h, [h EXCEPT !.dp = "ref"])
<1>1. /\ \A x \in {"none", "ref", "lock", "use", "uselock"} : [h EXCEPT !.ip = x] \in Holdings
      /\ [h EXCEPT !.dp = "ref"] \in Holdings
    BY DEF Holdings
<1>2. <<"ilock", "ip">> \in Steps /\ <<"iunlock", "ip">> \in Steps /\ <<"iunlock", "dp">> \in Steps
    BY StepTypes DEF Verbs, Registers
<1>3. h.dp = "none" =>
         /\ h.ip = "ref" => Trans(<<"ilock", "ip">>, h, [h EXCEPT !.ip = "lock"])
         /\ h.ip = "use" => Trans(<<"ilock", "ip">>, h, [h EXCEPT !.ip = "uselock"])
    BY DEF Trans
<1>4. h.dp # "lock" =>
         /\ h.ip = "lock" => Trans(<<"iunlock", "ip">>, h, [h EXCEPT !.ip = "ref"])
         /\ h.ip = "uselock" => /\ Trans(<<"iunlock", "ip">>, h, [h EXCEPT !.ip = "use"])
                                /\ Trans(<<"iunlock", "ip">>, h, [h EXCEPT !.ip = "none"])
    BY DEF Trans
<1>5. h.dp = "lock" /\ h.ip # "uselock" => Trans(<<"iunlock", "dp">>, h, [h EXCEPT !.dp = "ref"])
    BY DEF Trans
<1>6. QED
    BY <1>1, <1>2, <1>3, <1>4, <1>5, Leads1

LEMMA IputSteps ==
    ASSUME NEW h \in Holdings, h.path # "absent"
    PROVE  /\ h.ip = "ref" /\ h.dp # "lock" /\ h.path = "none" =>
                Leads(Iput("ip"), h, [h EXCEPT !.ip = "none"])
           /\ h.dp = "ref" /\ h.ip # "uselock" => Leads(Iput("dp"), h, [h EXCEPT !.dp = "none"])
           /\ h.cwd = "own" /\ NoLock(h) => Leads(Iput("cwd"), h, [h EXCEPT !.cwd = "out"])
<1>1. /\ [h EXCEPT !.ip = "none"] \in Holdings /\ [h EXCEPT !.dp = "none"] \in Holdings
      /\ [h EXCEPT !.cwd = "out"] \in Holdings
    BY DEF Holdings
<1>2. \A r \in Registers : <<"iput", r>> \in Steps /\ <<"drop", r>> \in Steps
    BY StepTypes DEF Verbs
<1>3. ASSUME NEW r \in Registers, NEW g \in Holdings,
             Trans(<<"iput", r>>, h, h), Trans(<<"drop", r>>, h, g)
      PROVE  Leads(Iput(r), h, g)
    <2>1. Leads(<<<<"iput", r>>>>, h, h) /\ Leads(<<<<"drop", r>>>>, h, g)
        BY <1>2, <1>3, Leads1
    <2>2. QED
        BY <2>1, <1>2, Leads2 DEF Iput
<1>4. CASE h.ip = "ref" /\ h.dp # "lock" /\ h.path = "none"
    BY <1>1, <1>3, <1>4 DEF Trans, NoLock, Registers
<1>5. CASE h.dp = "ref" /\ h.ip # "uselock"
    BY <1>1, <1>3, <1>5 DEF Trans, NoLock, Registers
<1>6. CASE h.cwd = "own" /\ NoLock(h)
    BY <1>1, <1>3, <1>6 DEF Trans, NoLock, Registers
<1>7. QED
    BY <1>4, <1>5, <1>6

LEMMA IunlockputSteps ==
    ASSUME NEW h \in Holdings, h.path # "absent"
    PROVE  /\ h.ip = "lock" /\ h.dp # "lock" /\ h.path = "none" =>
                Leads(Iunlockput("ip"), h, [h EXCEPT !.ip = "none"])
           /\ h.dp = "lock" /\ h.ip # "uselock" =>
                Leads(Iunlockput("dp"), h, [h EXCEPT !.dp = "none"])
<1>1. CASE h.ip = "lock" /\ h.dp # "lock" /\ h.path = "none"
    <2> DEFINE k == [h EXCEPT !.ip = "ref"]
    <2>1. /\ k \in Holdings /\ k.ip = "ref" /\ k.dp # "lock" /\ k.path = "none"
          /\ [k EXCEPT !.ip = "none"] = [h EXCEPT !.ip = "none"]
        BY <1>1 DEF Holdings
    <2>2. Leads(<<<<"iunlock", "ip">>>>, h, k)
        BY <1>1, LockSteps
    <2>3. Leads(Iput("ip"), k, [h EXCEPT !.ip = "none"])
        BY <2>1, IputSteps
    <2>4. Leads(Iunlockput("ip"), h, [h EXCEPT !.ip = "none"])
        BY <2>2, <2>3, LeadsConcat DEF Iunlockput
    <2>5. QED
        BY <2>4, <1>1
<1>2. CASE h.dp = "lock" /\ h.ip # "uselock"
    <2> DEFINE k == [h EXCEPT !.dp = "ref"]
    <2>1. /\ k \in Holdings /\ k.dp = "ref" /\ k.ip # "uselock" /\ k.path # "absent"
          /\ [k EXCEPT !.dp = "none"] = [h EXCEPT !.dp = "none"]
        BY <1>2 DEF Holdings
    <2>2. Leads(<<<<"iunlock", "dp">>>>, h, k)
        BY <1>2, LockSteps
    <2>3. Leads(Iput("dp"), k, [h EXCEPT !.dp = "none"])
        BY <2>1, IputSteps
    <2>4. Leads(Iunlockput("dp"), h, [h EXCEPT !.dp = "none"])
        BY <2>2, <2>3, LeadsConcat DEF Iunlockput
    <2>5. QED
        BY <2>4, <1>2
<1>3. QED
    BY <1>1, <1>2

Inodes == {"none", "ref", "lock", "use", "uselock"}
Lookups == {"none", "name", "parent", "walk", "walkparent", "last", "absent"}

LEMMA HoldingTypes ==
    /\ Nothing \in Holdings /\ Gone \in Holdings
    /\ \A w \in Lookups : Naming(w) \in Holdings
    /\ \A x \in Inodes, f \in {"none", "new"}, d \in {"own", "out"} : Idling(x, f, d) \in Holdings
    /\ \A x \in Inodes, w \in Lookups, f \in {"none", "new", "void"} : InOp(x, w, f) \in Holdings
    /\ \A f \in {"none", "own", "dup"}, d \in {"own", "out"}, s, fd \in 0..NOFILE :
          Closing(f, d, s, fd) \in Holdings
<1>1. 0 \in 0..NOFILE
    BY FilesAssumption
<1>2. Nothing \in Holdings /\ Gone \in Holdings
    BY <1>1 DEF Holdings, Nothing, Gone, Idling
<1>3. \A w \in Lookups : Naming(w) \in Holdings
    BY <1>1 DEF Holdings, Lookups, Naming
<1>4. \A x \in Inodes, f \in {"none", "new"}, d \in {"own", "out"} : Idling(x, f, d) \in Holdings
    BY <1>1 DEF Holdings, Inodes, Idling
<1>5. \A x \in Inodes, w \in Lookups, f \in {"none", "new", "void"} : InOp(x, w, f) \in Holdings
    BY <1>1 DEF Holdings, Inodes, Lookups, InOp
<1>6. \A f \in {"none", "own", "dup"}, d \in {"own", "out"}, s, fd \in 0..NOFILE :
          Closing(f, d, s, fd) \in Holdings
    BY <1>1 DEF Holdings, Closing
<1>7. QED
    BY <1>2, <1>3, <1>4, <1>5, <1>6

LEMMA HoldingExt ==
    ASSUME NEW h \in Holdings, NEW g \in Holdings,
           h.op = g.op, h.ip = g.ip, h.dp = g.dp, h.f = g.f, h.cwd = g.cwd, h.path = g.path,
           h.stale = g.stale, h.shut = g.shut
    PROVE  h = g
BY DEF Holdings

LEMMA HoldingExcept ==
    ASSUME NEW h \in Holdings
    PROVE  /\ \A x \in {0, 1} : [h EXCEPT !.op = x] \in Holdings
           /\ \A x \in Inodes : [h EXCEPT !.ip = x] \in Holdings
           /\ \A x \in {"none", "ref", "lock"} : [h EXCEPT !.dp = x] \in Holdings
           /\ \A x \in {"own", "out"} : [h EXCEPT !.cwd = x] \in Holdings
BY DEF Holdings, Inodes

(* One field is set. *)
LEMMA HoldingSet ==
    ASSUME NEW h \in Holdings, NEW g \in Holdings, h.f = g.f, h.stale = g.stale, h.shut = g.shut, h.path = g.path
    PROVE  /\ h.ip = g.ip /\ h.dp = g.dp /\ h.cwd = g.cwd => [h EXCEPT !.op = g.op] = g
           /\ h.op = g.op /\ h.dp = g.dp /\ h.cwd = g.cwd => [h EXCEPT !.ip = g.ip] = g
           /\ h.op = g.op /\ h.ip = g.ip /\ h.cwd = g.cwd => [h EXCEPT !.dp = g.dp] = g
           /\ h.op = g.op /\ h.ip = g.ip /\ h.dp = g.dp => [h EXCEPT !.cwd = g.cwd] = g
BY HoldingExt DEF Holdings

LEMMA BeginNaming ==
    ASSUME NEW w \in {"name", "parent"}
    PROVE  Leads(<<<<"begin_op">>>>, Naming(w), InOp("none", w, "none"))
<1> DEFINE h == Naming(w)
           g == InOp("none", w, "none")
<1>1. h \in Holdings /\ g \in Holdings
    BY HoldingTypes DEF Lookups, Inodes
<1>2. h.path # "absent" /\ h.op = 0 /\ NoLock(h)
    BY DEF Naming, NoLock
<1>3. [h EXCEPT !.op = 1] = g
    BY <1>1, HoldingSet DEF Naming, InOp
<1>4. QED
    BY <1>1, <1>2, <1>3, OpSteps

LEMMA LockNaming ==
    ASSUME NEW w \in {"none", "walk", "walkparent", "last"}, NEW f \in {"none", "new", "void"}
    PROVE  /\ Leads(<<<<"ilock", "ip">>>>, InOp("ref", w, f), InOp("lock", w, f))
           /\ Leads(<<<<"iunlock", "ip">>>>, InOp("lock", w, f), InOp("ref", w, f))
<1> DEFINE h == InOp("ref", w, f)
           g == InOp("lock", w, f)
<1>1. h \in Holdings /\ g \in Holdings
    BY HoldingTypes DEF Lookups, Inodes
<1>2. /\ h.path # "absent" /\ h.ip = "ref" /\ h.dp = "none"
      /\ g.path # "absent" /\ g.ip = "lock" /\ g.dp # "lock"
    BY DEF InOp
<1>3. [h EXCEPT !.ip = "lock"] = g
    BY <1>1, HoldingSet DEF InOp
<1>4. [g EXCEPT !.ip = "ref"] = h
    BY <1>1, HoldingSet DEF InOp
<1> HIDE DEF h, g
<1>5. Leads(<<<<"ilock", "ip">>>>, h, g)
    BY <1>1, <1>2, <1>3, LockSteps
<1>6. Leads(<<<<"iunlock", "ip">>>>, g, h)
    BY <1>1, <1>2, <1>4, LockSteps
<1>7. QED
    BY <1>5, <1>6 DEF h, g

LEMMA EndNaming ==
    ASSUME NEW x \in {"none", "ref"}, NEW f \in {"none", "new"}
    PROVE  Leads(<<<<"end_op">>>>, InOp(x, "none", f), Idling(x, f, "own"))
<1> DEFINE h == InOp(x, "none", f)
           g == Idling(x, f, "own")
<1>1. h \in Holdings /\ g \in Holdings
    BY HoldingTypes DEF Lookups, Inodes
<1>2. h.path # "absent" /\ h.op = 1
    BY DEF InOp
<1>3. [h EXCEPT !.op = 0] = g
    BY <1>1, HoldingSet DEF InOp, Idling
<1> HIDE DEF h, g
<1>4. QED
    BY <1>1, <1>2, <1>3, OpSteps DEF h, g

LEMMA PutNaming ==
    /\ Leads(Iput("ip"), InOp("ref", "none", "none"), InOp("none", "none", "none"))
    /\ Leads(Iunlockput("ip"), InOp("lock", "none", "none"), InOp("none", "none", "none"))
<1> DEFINE h == InOp("ref", "none", "none")
           k == InOp("lock", "none", "none")
           g == InOp("none", "none", "none")
<1>1. h \in Holdings /\ k \in Holdings /\ g \in Holdings
    BY HoldingTypes DEF Lookups, Inodes
<1>2. /\ h.path = "none" /\ h.ip = "ref" /\ h.dp # "lock"
      /\ k.path = "none" /\ k.ip = "lock" /\ k.dp # "lock"
    BY DEF InOp
<1>3. [h EXCEPT !.ip = "none"] = g
    BY <1>1, HoldingSet DEF InOp
<1>4. [k EXCEPT !.ip = "none"] = g
    BY <1>1, HoldingSet DEF InOp
<1> HIDE DEF h, k, g
<1>5. QED
    BY <1>1, <1>2, <1>3, <1>4, IputSteps, IunlockputSteps DEF h, k, g

LEMMA NamexSteps ==
    /\ Leads(<<<<"namex">>>>, InOp("none", "name", "none"), InOp("ref", "none", "none"))
    /\ Leads(<<<<"namex">>>>, InOp("none", "parent", "none"), InOp("ref", "last", "none"))
    /\ Leads(<<<<"element">>>>, InOp("lock", "walk", "none"), InOp("ref", "none", "none"))
    /\ Leads(<<<<"element">>>>, InOp("lock", "walkparent", "none"), InOp("ref", "last", "none"))
<1>1. <<"namex">> \in Steps /\ <<"element">> \in Steps
    BY StepTypes DEF Verbs
<1>2. /\ Trans(<<"namex">>, InOp("none", "name", "none"), InOp("ref", "none", "none"))
      /\ Trans(<<"namex">>, InOp("none", "parent", "none"), InOp("ref", "last", "none"))
    BY DEF Trans, InOp
<1>3. /\ Trans(<<"element">>, InOp("lock", "walk", "none"), InOp("ref", "none", "none"))
      /\ Trans(<<"element">>, InOp("lock", "walkparent", "none"), InOp("ref", "last", "none"))
    BY DEF Trans, InOp
<1>4. QED
    BY <1>1, <1>2, <1>3, Leads1, HoldingTypes DEF Inodes, Lookups

(* The other steps of the calls on names. *)
LEMMA NameSteps ==
    /\ \A type \in Types :
          /\ Leads(<<<<"lookup", type>>>>, InOp("lock", "last", "none"), InOp("lock", "absent", "none"))
          /\ Leads(<<<<"link", type>>>>, InOp("lock", "absent", "none"), InOp("lock", "none", "none"))
          /\ Leads(<<<<"existing", type>>>>, InOp("lock", "none", "none"), InOp("lock", "none", "none"))
          /\ <<"lookup", type>> \in Steps /\ <<"link", type>> \in Steps /\ <<"existing", type>> \in Steps
    /\ \A mode \in Modes \cup CreateModes :
          /\ Leads(<<<<"isdir", mode>>>>, InOp("lock", "none", "none"), InOp("lock", "none", "none"))
          /\ Leads(<<<<"setfile", mode>>>>, Idling("ref", "new", "own"), Nothing)
          /\ <<"isdir", mode>> \in Steps /\ <<"setfile", mode>> \in Steps
    /\ Leads(<<<<"notdir">>>>, InOp("lock", "none", "none"), InOp("lock", "none", "none"))
    /\ Leads(<<<<"filealloc">>>>, InOp("lock", "none", "none"), InOp("lock", "none", "new"))
    /\ Leads(<<<<"setcwd">>>>, Idling("ref", "none", "out"), Nothing)
    /\ <<"notdir">> \in Steps /\ <<"filealloc">> \in Steps /\ <<"setcwd">> \in Steps
    /\ <<"begin_op">> \in Steps /\ <<"end_op">> \in Steps /\ <<"namex">> \in Steps
    /\ <<"element">> \in Steps
    /\ <<"ilock", "ip">> \in Steps /\ <<"iunlock", "ip">> \in Steps
<1> USE HoldingTypes, StepTypes DEF Inodes, Lookups
<1>1. ASSUME NEW type \in Types
      PROVE  /\ Leads(<<<<"lookup", type>>>>, InOp("lock", "last", "none"), InOp("lock", "absent", "none"))
             /\ <<"lookup", type>> \in Steps
    <2>1. Trans(<<"lookup", type>>, InOp("lock", "last", "none"), InOp("lock", "absent", "none"))
        BY DEF Trans, InOp
    <2>2. QED
        BY <2>1, Leads1 DEF Verbs
<1>2. ASSUME NEW type \in Types
      PROVE  /\ Leads(<<<<"link", type>>>>, InOp("lock", "absent", "none"), InOp("lock", "none", "none"))
             /\ <<"link", type>> \in Steps
    <2>1. Trans(<<"link", type>>, InOp("lock", "absent", "none"), InOp("lock", "none", "none"))
        BY DEF Trans, InOp
    <2>2. QED
        BY <2>1, Leads1 DEF Verbs
<1>3. ASSUME NEW type \in Types
      PROVE  /\ Leads(<<<<"existing", type>>>>, InOp("lock", "none", "none"), InOp("lock", "none", "none"))
             /\ <<"existing", type>> \in Steps
    <2>1. Trans(<<"existing", type>>, InOp("lock", "none", "none"), InOp("lock", "none", "none"))
        BY DEF Trans, InOp
    <2>2. QED
        BY <2>1, Leads1 DEF Verbs
<1>4. ASSUME NEW mode \in Modes \cup CreateModes
      PROVE  /\ Leads(<<<<"isdir", mode>>>>, InOp("lock", "none", "none"), InOp("lock", "none", "none"))
             /\ <<"isdir", mode>> \in Steps
    <2>1. Trans(<<"isdir", mode>>, InOp("lock", "none", "none"), InOp("lock", "none", "none"))
        BY DEF Trans, InOp
    <2>2. QED
        BY <2>1, Leads1 DEF Verbs
<1>5. ASSUME NEW mode \in Modes \cup CreateModes
      PROVE  /\ Leads(<<<<"setfile", mode>>>>, Idling("ref", "new", "own"), Nothing)
             /\ <<"setfile", mode>> \in Steps
    <2>1. Trans(<<"setfile", mode>>, Idling("ref", "new", "own"), Nothing)
        BY DEF Trans, Idling
    <2>2. QED
        BY <2>1, Leads1 DEF Verbs
<1>6. /\ Trans(<<"notdir">>, InOp("lock", "none", "none"), InOp("lock", "none", "none"))
      /\ Trans(<<"filealloc">>, InOp("lock", "none", "none"), InOp("lock", "none", "new"))
      /\ Trans(<<"setcwd">>, Idling("ref", "none", "out"), Nothing)
    BY DEF Trans, InOp, Idling
<1>7. /\ <<"notdir">> \in Steps /\ <<"filealloc">> \in Steps /\ <<"setcwd">> \in Steps
      /\ <<"begin_op">> \in Steps /\ <<"end_op">> \in Steps /\ <<"namex">> \in Steps
      /\ <<"element">> \in Steps
      /\ <<"ilock", "ip">> \in Steps /\ <<"iunlock", "ip">> \in Steps
    BY DEF Verbs, Registers
<1>8. /\ Leads(<<<<"notdir">>>>, InOp("lock", "none", "none"), InOp("lock", "none", "none"))
      /\ Leads(<<<<"filealloc">>>>, InOp("lock", "none", "none"), InOp("lock", "none", "new"))
      /\ Leads(<<<<"setcwd">>>>, Idling("ref", "none", "out"), Nothing)
    BY <1>6, <1>7, Leads1
<1>9. QED
    BY <1>1, <1>2, <1>3, <1>4, <1>5, <1>7, <1>8

(* How calls fail. *)
LEMMA FailFits ==
    /\ Fits(Iput("ip") \o <<<<"end_op">>>>, InOp("ref", "none", "none"))
    /\ Fits(Iunlockput("ip") \o <<<<"end_op">>>>, InOp("lock", "none", "none"))
<1>1. Fits(<<<<"end_op">>>>, InOp("none", "none", "none"))
    BY EndNaming DEF Fits, Nothing
<1>2. QED
    BY <1>1, PutNaming, FitsConcat

LEMMA NameiLeads ==
    /\ Leads(<<<<"begin_op">>>> \o Namei, Naming("name"), InOp("ref", "none", "none"))
    /\ Leads(<<<<"begin_op">>>> \o Namei \o <<<<"ilock", "ip">>>>, Naming("name"), InOp("lock", "none", "none"))
<1>1. Leads(<<<<"begin_op">>>> \o Namei, Naming("name"), InOp("ref", "none", "none"))
    BY BeginNaming, NamexSteps, LeadsConcat DEF Namei
<1>2. QED
    BY <1>1, LockNaming, LeadsConcat

LEMMA StatFits == Fits(Stat, Naming("name"))
<1>1. Leads(<<<<"begin_op">>>> \o Namei \o <<<<"ilock", "ip">>>> \o Iunlockput("ip"),
            Naming("name"), InOp("none", "none", "none"))
    BY NameiLeads, PutNaming, LeadsConcat
<1>2. Fits(<<<<"end_op">>>>, InOp("none", "none", "none"))
    BY EndNaming DEF Fits, Nothing
<1>3. QED
    BY <1>1, <1>2, FitsConcat DEF Stat

LEMMA ChdirFits == Fits(Chdir, Naming("name"))
<1> DEFINE h == InOp("ref", "none", "none")
           g == [h EXCEPT !.cwd = "out"]
           k == Idling("ref", "none", "out")
<1>1. h \in Holdings /\ g \in Holdings /\ k \in Holdings
    BY HoldingTypes, HoldingExcept DEF Lookups, Inodes
<1>2. h.cwd = "own" /\ NoLock(h) /\ h.path # "absent" /\ g.path # "absent" /\ g.op = 1
    BY DEF InOp, NoLock
<1>3. [g EXCEPT !.op = 0] = k
    <2>1. /\ g.op = 1 /\ g.ip = "ref" /\ g.dp = "none" /\ g.f = "none" /\ g.cwd = "out"
          /\ g.path = "none" /\ g.stale = 0 /\ g.shut = 0
        BY DEF InOp
    <2>2. /\ k.op = 0 /\ k.ip = "ref" /\ k.dp = "none" /\ k.f = "none" /\ k.cwd = "out"
          /\ k.path = "none" /\ k.stale = 0 /\ k.shut = 0
        BY DEF Idling
    <2> HIDE DEF g, k
    <2>3. QED
        BY <1>1, <2>1, <2>2, HoldingSet
<1>4. Leads(Iput("cwd"), h, g)
    BY <1>1, <1>2, IputSteps
<1>5. Leads(<<<<"end_op">>>>, g, k)
    <2> HIDE DEF g, k
    <2>1. QED
        BY <1>1, <1>2, <1>3, OpSteps
<1>6. Leads(<<<<"notdir">>, <<"iunlock", "ip">>>>, InOp("lock", "none", "none"), h)
    BY NameSteps, LockNaming, Leads2
<1>7. Leads(<<<<"ilock", "ip">>, <<"notdir">>, <<"iunlock", "ip">>>>, h, h)
    <2>1. Leads(<<<<"ilock", "ip">>>>, h, InOp("lock", "none", "none"))
        BY LockNaming
    <2>2. <<"ilock", "ip">> \in Steps /\ <<"notdir">> \in Steps /\ <<"iunlock", "ip">> \in Steps
        BY NameSteps
    <2> HIDE DEF h
    <2>3. QED
        BY <1>6, <2>1, <2>2, Leads3
<1>8. Leads(<<<<"end_op">>, <<"setcwd">>>>, g, Nothing)
    BY <1>5, NameSteps, Leads2
<1>9. Leads(<<<<"begin_op">>>> \o Namei \o <<<<"ilock", "ip">>, <<"notdir">>, <<"iunlock", "ip">>>>,
            Naming("name"), h)
    BY <1>7, NameiLeads, LeadsConcat
<1> HIDE DEF h, g, k
<1>10. Leads(Chdir, Naming("name"), Nothing)
    BY <1>4, <1>8, <1>9, LeadsConcat DEF Chdir
<1>11. QED
    BY <1>10 DEF Fits

(* The end of openat(), with the inode found and locked. *)
LEMMA OpenedLeads ==
    ASSUME NEW mode \in Modes \cup CreateModes
    PROVE  /\ Leads(<<<<"filealloc">>, <<"iunlock", "ip">>, <<"end_op">>, <<"setfile", mode>>>>,
                    InOp("lock", "none", "none"), Nothing)
           /\ Leads(<<<<"iunlock", "ip">>, <<"end_op">>, <<"setfile", mode>>>>,
                    InOp("lock", "none", "new"), Nothing)
<1>1. Leads(<<<<"end_op">>, <<"setfile", mode>>>>, InOp("ref", "none", "new"), Nothing)
    BY EndNaming, NameSteps, Leads2
<1>2. Leads(<<<<"iunlock", "ip">>, <<"end_op">>, <<"setfile", mode>>>>, InOp("lock", "none", "new"), Nothing)
    BY <1>1, LockNaming, NameSteps, Leads3
<1>3. QED
    BY <1>2, NameSteps, Leads4

LEMMA OpenFits == ASSUME NEW mode \in Modes PROVE Fits(Open(mode), Naming("name"))
<1>1. Leads(<<<<"isdir", mode>>, <<"filealloc">>, <<"iunlock", "ip">>, <<"end_op">>, <<"setfile", mode>>>>,
            InOp("lock", "none", "none"), Nothing)
    BY OpenedLeads, NameSteps, Leads5
<1>2. Leads(<<<<"ilock", "ip">>, <<"isdir", mode>>, <<"filealloc">>, <<"iunlock", "ip">>, <<"end_op">>,
              <<"setfile", mode>>>>, InOp("ref", "none", "none"), Nothing)
    BY <1>1, NameSteps, LockNaming, Leads6
<1>3. QED
    BY <1>2, NameiLeads, LeadsConcat DEF Open, Fits

LEMMA CreateLeads ==
    ASSUME NEW type \in Types
    PROVE  Leads(<<<<"begin_op">>>> \o Create(type), Naming("parent"), InOp("lock", "none", "none"))
<1>1. Leads(<<<<"lookup", type>>, <<"link", type>>>>, InOp("lock", "last", "none"), InOp("lock", "none", "none"))
    BY NameSteps, Leads2
<1>2. Leads(<<<<"ilock", "ip">>, <<"lookup", type>>, <<"link", type>>>>,
            InOp("ref", "last", "none"), InOp("lock", "none", "none"))
    BY <1>1, NameSteps, LockNaming, Leads3
<1>3. Leads(Create(type), InOp("none", "parent", "none"), InOp("lock", "none", "none"))
    <2>1. /\ <<"lookup", type>> \in Steps /\ <<"link", type>> \in Steps
          /\ <<"namex">> \in Steps /\ <<"ilock", "ip">> \in Steps
        BY NameSteps
    <2>2. Leads(<<<<"namex">>>>, InOp("none", "parent", "none"), InOp("ref", "last", "none"))
        BY NamexSteps
    <2>3. QED
        BY <1>2, <2>1, <2>2, Leads4 DEF Create
<1>4. QED
    BY <1>3, BeginNaming, LeadsConcat

LEMMA MakeFits == ASSUME NEW type \in Types PROVE Fits(Make(type), Naming("parent"))
<1>1. Leads(<<<<"begin_op">>>> \o Create(type) \o Iunlockput("ip"), Naming("parent"), InOp("none", "none", "none"))
    BY CreateLeads, PutNaming, LeadsConcat
<1>2. Fits(<<<<"end_op">>>>, InOp("none", "none", "none"))
    BY EndNaming DEF Fits, Nothing
<1>3. QED
    BY <1>1, <1>2, FitsConcat DEF Make

LEMMA OpenCreateFits == ASSUME NEW mode \in CreateModes PROVE Fits(OpenCreate(mode), Naming("parent"))
BY CreateLeads, OpenedLeads, LeadsConcat DEF OpenCreate, Fits, Types

(* The calls on open files. *)
LEMMA FileSteps ==
    /\ Leads(<<<<"ilock", "ip">>>>, Idling("use", "none", "own"), Idling("uselock", "none", "own"))
    /\ Leads(<<<<"device">>>>, Idling("uselock", "none", "own"), Idling("uselock", "none", "own"))
    /\ Leads(<<<<"iunlock", "ip">>>>, Idling("uselock", "none", "own"), Nothing)
    /\ Trans(<<"begin_op">>, Idling("use", "none", "own"), InOp("use", "none", "none"))
    /\ Trans(<<"ilock", "ip">>, InOp("use", "none", "none"), InOp("uselock", "none", "none"))
    /\ Trans(<<"device">>, InOp("uselock", "none", "none"), InOp("uselock", "none", "none"))
    /\ Trans(<<"iunlock", "ip">>, InOp("uselock", "none", "none"), InOp("use", "none", "none"))
    /\ Trans(<<"iunlock", "ip">>, InOp("uselock", "none", "none"), InOp("none", "none", "none"))
    /\ Trans(<<"end_op">>, InOp("use", "none", "none"), Idling("use", "none", "own"))
    /\ Trans(<<"end_op">>, InOp("none", "none", "none"), Nothing)
<1>1. /\ \A x \in Inodes : Idling(x, "none", "own") \in Holdings /\ InOp(x, "none", "none") \in Holdings
      /\ <<"device">> \in Steps /\ <<"ilock", "ip">> \in Steps /\ <<"iunlock", "ip">> \in Steps
    BY HoldingTypes, StepTypes DEF Lookups, Verbs, Registers
<1>2. \A x, y \in Inodes :
         /\ [Idling(x, "none", "own") EXCEPT !.ip = y] = Idling(y, "none", "own")
         /\ [InOp(x, "none", "none") EXCEPT !.ip = y] = InOp(y, "none", "none")
         /\ [Idling(x, "none", "own") EXCEPT !.op = 1] = InOp(x, "none", "none")
         /\ [InOp(x, "none", "none") EXCEPT !.op = 0] = Idling(x, "none", "own")
    <2>1. ASSUME NEW x \in Inodes, NEW y \in Inodes PROVE [Idling(x, "none", "own") EXCEPT !.ip = y] = Idling(y, "none", "own")
        BY <1>1, <2>1, HoldingSet DEF Idling
    <2>2. ASSUME NEW x \in Inodes, NEW y \in Inodes PROVE [InOp(x, "none", "none") EXCEPT !.ip = y] = InOp(y, "none", "none")
        BY <1>1, <2>2, HoldingSet DEF InOp
    <2>3. ASSUME NEW x \in Inodes PROVE [Idling(x, "none", "own") EXCEPT !.op = 1] = InOp(x, "none", "none")
        BY <1>1, <2>3, HoldingSet DEF Idling, InOp
    <2>4. ASSUME NEW x \in Inodes PROVE [InOp(x, "none", "none") EXCEPT !.op = 0] = Idling(x, "none", "own")
        BY <1>1, <2>4, HoldingSet DEF Idling, InOp
    <2>5. QED
        BY <2>1, <2>2, <2>3, <2>4
<1>3. \A x \in Inodes :
         /\ Idling(x, "none", "own").ip = x /\ Idling(x, "none", "own").dp = "none"
         /\ Idling(x, "none", "own").op = 0 /\ Idling(x, "none", "own").path = "none"
         /\ InOp(x, "none", "none").ip = x /\ InOp(x, "none", "none").dp = "none"
         /\ InOp(x, "none", "none").op = 1 /\ InOp(x, "none", "none").path = "none"
    BY DEF Idling, InOp
<1>4. "none" \in Inodes /\ "use" \in Inodes /\ "uselock" \in Inodes /\ Nothing = Idling("none", "none", "own")
    BY DEF Inodes, Nothing
<1>5. /\ Trans(<<"ilock", "ip">>, Idling("use", "none", "own"), Idling("uselock", "none", "own"))
      /\ Trans(<<"ilock", "ip">>, InOp("use", "none", "none"), InOp("uselock", "none", "none"))
    BY <1>2, <1>3, <1>4 DEF Trans
<1>6. /\ Trans(<<"device">>, Idling("uselock", "none", "own"), Idling("uselock", "none", "own"))
      /\ Trans(<<"device">>, InOp("uselock", "none", "none"), InOp("uselock", "none", "none"))
    BY <1>2, <1>3, <1>4 DEF Trans
<1>7. /\ Trans(<<"iunlock", "ip">>, Idling("uselock", "none", "own"), Nothing)
      /\ Trans(<<"iunlock", "ip">>, InOp("uselock", "none", "none"), InOp("use", "none", "none"))
      /\ Trans(<<"iunlock", "ip">>, InOp("uselock", "none", "none"), InOp("none", "none", "none"))
    BY <1>2, <1>3, <1>4 DEF Trans
<1>8. Trans(<<"begin_op">>, Idling("use", "none", "own"), InOp("use", "none", "none"))
    BY <1>2, <1>3, <1>4 DEF Trans, NoLock
<1>9. /\ Trans(<<"end_op">>, InOp("use", "none", "none"), Idling("use", "none", "own"))
      /\ Trans(<<"end_op">>, InOp("none", "none", "none"), Nothing)
    BY <1>2, <1>3, <1>4 DEF Trans
<1>10. QED
    BY <1>1, <1>4, <1>5, <1>6, <1>7, <1>8, <1>9, Leads1

LEMMA FstatFits == Fits(Fstat, Idling("use", "none", "own"))
<1>1. <<"ilock", "ip">> \in Steps /\ <<"iunlock", "ip">> \in Steps
    BY NameSteps
<1>2. QED
    BY <1>1, FileSteps, Leads2 DEF Fstat, Fits

LEMMA FreadFits == Fits(Fread, Idling("use", "none", "own"))
<1>1. <<"ilock", "ip">> \in Steps /\ <<"iunlock", "ip">> \in Steps /\ <<"device">> \in Steps
    BY StepTypes DEF Verbs, Registers
<1>2. Leads(<<<<"device">>, <<"iunlock", "ip">>>>, Idling("uselock", "none", "own"), Nothing)
    BY <1>1, FileSteps, Leads2
<1>3. QED
    BY <1>1, <1>2, FileSteps, Leads3 DEF Fread, Fits

LEMMA FiveSteps == ASSUME NEW c \in Seq(Steps), Len(c) = 5 PROVE \A j \in 1..5 : c[j] \in Steps
<1>1. c \in [1..5 -> Steps]
    BY Zenon, LenProperties
<1>2. QED
    BY <1>1

LEMMA FwriteFits == ASSUME NEW n \in 1..MaxChunks PROVE Fits(Fwrite(n), Idling("use", "none", "own"))
<1> DEFINE N == 5 * n
           t == Fwrite(n)
           At5(m) == IF m = 0 THEN Idling("use", "none", "own")
                     ELSE IF m \in {1, 4} THEN InOp("use", "none", "none")
                     ELSE InOp("uselock", "none", "none")
           st == [i \in 1..(N + 1) |-> IF i = N + 1 THEN Nothing
                                       ELSE IF i = N THEN InOp("none", "none", "none")
                                       ELSE At5((i - 1) % 5)]
<1>1. n \in Nat /\ n >= 1 /\ N \in Nat /\ N >= 5
    BY FilesAssumption
<1>2. /\ Chunk \in Seq(Steps) /\ Len(Chunk) = 5 /\ Chunk[1] = <<"begin_op">> /\ Chunk[2] = <<"ilock", "ip">>
      /\ Chunk[3] = <<"device">> /\ Chunk[4] = <<"iunlock", "ip">> /\ Chunk[5] = <<"end_op">>
    <2>1. /\ <<"ilock", "ip">> \in Steps /\ <<"iunlock", "ip">> \in Steps /\ <<"device">> \in Steps
          /\ <<"begin_op">> \in Steps /\ <<"end_op">> \in Steps
        BY StepTypes DEF Verbs, Registers
    <2>2. QED
        BY <2>1 DEF Chunk
<1>3. t \in Seq(Steps) /\ Len(t) = N /\ \A i \in 1..N : t[i] = Chunk[((i - 1) % 5) + 1]
    <2>1. \A i \in 1..N : ((i - 1) % 5) + 1 \in 1..5
        BY <1>1
    <2>2. \A i \in 1..N : Chunk[((i - 1) % 5) + 1] \in Steps
        <3>1. \A j \in 1..5 : Chunk[j] \in Steps
            BY <1>2, FiveSteps
        <3>2. QED
            BY <2>1, <3>1
    <2>3. QED
        BY <2>2, <1>1 DEF Fwrite
<1>4. st \in [1..(N + 1) -> Holdings] /\ st[1] = Idling("use", "none", "own") /\ st[N + 1] = Nothing
    <2>1. \A m : At5(m) \in Holdings
        BY HoldingTypes DEF Inodes, Lookups
    <2>2. Nothing \in Holdings /\ InOp("none", "none", "none") \in Holdings
        BY HoldingTypes DEF Inodes, Lookups
    <2>3. (1 - 1) % 5 = 0 /\ 1 # N /\ 1 # N + 1 /\ 1 \in 1..(N + 1) /\ N + 1 \in 1..(N + 1)
        BY <1>1
    <2> HIDE DEF N
    <2>4. QED
        BY <2>1, <2>2, <2>3
<1>5. ASSUME NEW i \in 1..N PROVE Trans(t[i], st[i], st[i + 1])
    <2> DEFINE m == (i - 1) % 5
    <2>1. m \in 0..4 /\ (m < 4 => i % 5 = m + 1) /\ (m = 4 => i % 5 = 0) /\ (i + 1 - 1) % 5 = i % 5
        OBVIOUS
    <2>2. i = N => m = 4
        BY <1>1
    <2>3. i + 1 = N => m = 3
        BY <1>1
    <2>4. t[i] = Chunk[m + 1]
        BY <1>3
    <2>5. st[i] = IF i = N THEN InOp("none", "none", "none") ELSE At5(m)
        BY <1>1
    <2>6. st[i + 1] = IF i = N THEN Nothing ELSE IF i + 1 = N THEN InOp("none", "none", "none")
                      ELSE IF m = 4 THEN At5(0) ELSE At5(m + 1)
        <3>1. i + 1 \in 1..(N + 1) /\ (i + 1 = N + 1 <=> i = N)
            BY <1>1
        <3>2. st[i + 1] = IF i + 1 = N + 1 THEN Nothing ELSE IF i + 1 = N THEN InOp("none", "none", "none")
                          ELSE At5(i % 5)
            BY <3>1, <2>1
        <3>3. QED
            BY <3>1, <3>2, <2>1
    <2> HIDE DEF m, st, t, N
    <2>7. m = 0 \/ m = 1 \/ m = 2 \/ m = 3 \/ m = 4
        BY <2>1
    <2>8. CASE m = 0
        <3>1. t[i] = <<"begin_op">> /\ i # N /\ i + 1 # N
            BY <2>8, <2>2, <2>3, <2>4, <1>2
        <3>2. st[i] = Idling("use", "none", "own") /\ st[i + 1] = InOp("use", "none", "none")
            BY <2>8, <3>1, <2>5, <2>6
        <3>3. QED
            BY <3>1, <3>2, FileSteps
    <2>9. CASE m = 1
        BY <2>9, <2>2, <2>3, <2>4, <2>5, <2>6, <1>2, FileSteps
    <2>10. CASE m = 2
        <3>1. t[i] = <<"device">> /\ i # N /\ i + 1 # N
            BY <2>10, <2>2, <2>3, <2>4, <1>2
        <3>2. st[i] = InOp("uselock", "none", "none") /\ st[i + 1] = InOp("uselock", "none", "none")
            BY <2>10, <3>1, <2>5, <2>6
        <3>3. QED
            BY <3>1, <3>2, FileSteps
    <2>11. CASE m = 3
        <3>1. t[i] = <<"iunlock", "ip">> /\ st[i] = InOp("uselock", "none", "none") /\ i # N
            BY <2>11, <2>2, <2>4, <2>5, <1>2
        <3>2. st[i + 1] \in {InOp("none", "none", "none"), InOp("use", "none", "none")}
            BY <2>11, <3>1, <2>6
        <3>3. QED
            BY <3>1, <3>2, FileSteps
    <2>12. CASE m = 4
        <3>1. t[i] = <<"end_op">> /\ i + 1 # N
            BY <2>12, <2>3, <2>4, <1>2
        <3>2. CASE i = N
            BY <3>1, <3>2, <2>5, <2>6, FileSteps
        <3>3. CASE i # N
            BY <2>12, <3>1, <3>3, <2>5, <2>6, FileSteps
        <3>4. QED
            BY <3>2, <3>3
    <2>13. QED
        BY <2>7, <2>8, <2>9, <2>10, <2>11, <2>12
<1>6. Leads(t, Idling("use", "none", "own"), Nothing)
    <2> HIDE DEF st, t, N
    <2>1. QED
        BY <1>3, <1>4, <1>5 DEF Leads
<1>7. QED
    BY <1>6 DEF Fits

(* exit(): the descriptors, then the current directory. *)
LEMMA ExitFits == Fits(Exit, Nothing)
<1> DEFINE t == [fd \in 1..NOFILE |-> <<"close", fd>>]
           h == Closing("none", "own", 0, NOFILE)
           k == [h EXCEPT !.op = 1]
           l == [k EXCEPT !.cwd = "out"]
           g == Closing("none", "out", 0, NOFILE)
           st == [i \in 1..(NOFILE + 1) |-> Closing("none", "own", 0, i - 1)]
<1>0. NOFILE \in Nat
    BY FilesAssumption
<1>1. Leads(t, Nothing, h)
    <2>1. t \in Seq(Steps) /\ Len(t) = NOFILE /\ \A i \in 1..NOFILE : t[i] = <<"close", i>>
        <3>1. \A fd \in 1..NOFILE : <<"close", fd>> \in Steps
            BY StepTypes DEF Verbs
        <3>2. QED
            BY <3>1, <1>0
    <2>2. st \in [1..(NOFILE + 1) -> Holdings]
        <3>1. \A i \in 1..(NOFILE + 1) : i - 1 \in 0..NOFILE /\ 0 \in 0..NOFILE
            BY <1>0
        <3>2. QED
            BY <3>1, HoldingTypes
    <2>3. st[1] = Nothing /\ st[NOFILE + 1] = h
        BY <1>0 DEF Nothing, Idling, Closing
    <2>4. ASSUME NEW i \in 1..NOFILE PROVE Trans(t[i], st[i], st[i + 1])
        <3>1. i + 1 - 1 = i /\ i \in 1..(NOFILE + 1) /\ i + 1 \in 1..(NOFILE + 1)
            BY <1>0
        <3>2. /\ st[i] = Closing("none", "own", 0, i - 1)
              /\ st[i + 1] = Closing("none", "own", 0, i)
              /\ t[i] = <<"close", i>>
            BY <3>1, <2>1
        <3>3. Trans(<<"close", i>>, Closing("none", "own", 0, i - 1), Closing("none", "own", 0, i))
            BY DEF Trans, Closing
        <3>4. QED
            BY <3>2, <3>3
    <2> HIDE DEF t, st, h
    <2>5. QED
        BY <2>1, <2>2, <2>3, <2>4 DEF Leads
<1>2. h \in Holdings /\ k \in Holdings /\ l \in Holdings /\ g \in Holdings
    <2>1. h \in Holdings /\ g \in Holdings
        BY <1>0, HoldingTypes
    <2>2. k \in Holdings
        BY <2>1, HoldingExcept
    <2>3. l \in Holdings
        <3> HIDE DEF k
        <3>1. QED
            BY <2>2, HoldingExcept
    <2>4. QED
        BY <2>1, <2>2, <2>3
<1>3. h.path = "none" /\ h.op = 0 /\ NoLock(h)
    BY DEF Closing, NoLock
<1>4. k.path = "none" /\ k.op = 1 /\ k.cwd = "own" /\ NoLock(k)
    BY DEF Closing, NoLock
<1>5. l.path = "none" /\ l.op = 1 /\ [l EXCEPT !.op = 0] = g
    <2>1. /\ l.op = 1 /\ l.ip = "none" /\ l.dp = "none" /\ l.f = "none" /\ l.cwd = "out"
          /\ l.path = "none" /\ l.stale = 0 /\ l.shut = NOFILE
        BY DEF Closing
    <2>2. /\ g.op = 0 /\ g.ip = "none" /\ g.dp = "none" /\ g.f = "none" /\ g.cwd = "out"
          /\ g.path = "none" /\ g.stale = 0 /\ g.shut = NOFILE
        BY DEF Closing
    <2> HIDE DEF l, g
    <2>3. QED
        BY <1>2, <2>1, <2>2, HoldingSet
<1>6. Leads(<<<<"begin_op">>>>, h, k)
    BY <1>2, <1>3, OpSteps
<1>7. Leads(Iput("cwd"), k, l)
    <2> HIDE DEF k
    <2>1. QED
        BY <1>2, <1>4, IputSteps
<1>8. Leads(<<<<"end_op">>>>, l, g)
    <2> HIDE DEF l, g
    <2>1. QED
        BY <1>2, <1>5, OpSteps
<1>9. Leads(<<<<"dead">>>>, g, Gone)
    <2>1. Trans(<<"dead">>, g, Gone)
        BY DEF Trans, Closing
    <2>2. <<"dead">> \in Steps
        BY StepTypes DEF Verbs
    <2> HIDE DEF g
    <2>3. QED
        BY <1>2, <2>1, <2>2, HoldingTypes, Leads1
<1>10. Leads(<<<<"end_op">>, <<"dead">>>>, l, Gone)
    <2>1. <<"dead">> \in Steps /\ <<"end_op">> \in Steps
        BY StepTypes DEF Verbs
    <2> HIDE DEF l, g
    <2>2. QED
        BY <1>8, <1>9, <2>1, Leads2
<1> HIDE DEF t, h, k, l, g
<1>11. Leads(t \o <<<<"begin_op">>>>, Nothing, k)
    BY <1>1, <1>6, LeadsConcat
<1>12. Leads(t \o <<<<"begin_op">>>> \o Iput("cwd"), Nothing, l)
    BY <1>11, <1>7, LeadsConcat
<1>13. Leads(t \o <<<<"begin_op">>>> \o Iput("cwd") \o <<<<"end_op">>, <<"dead">>>>, Nothing, Gone)
    BY <1>12, <1>10, LeadsConcat
<1>14. QED
    BY <1>13 DEF Exit, t, Fits

(* Steps that a step puts in front of the rest. *)
LEMMA WalkFits ==
    ASSUME NEW t, NEW path
    PROVE  /\ Fits(t, InOp("ref", "none", "none")) /\ path # <<>> =>
                Fits(Walk(path) \o t, InOp("ref", "walk", "none"))
           /\ Fits(t, InOp("ref", "last", "none")) /\ path # <<>> =>
                Fits(Walk(path) \o t, InOp("ref", "walkparent", "none"))
           /\ Fits(t, InOp("ref", "none", "none")) /\ path = <<>> =>
                Fits(Walk(path) \o t, InOp("ref", "none", "none"))
<1>1. <<"ilock", "ip">> \in Steps /\ <<"element">> \in Steps
    BY NameSteps
<1>2. /\ Leads(<<<<"ilock", "ip">>, <<"element">>>>, InOp("ref", "walk", "none"), InOp("ref", "none", "none"))
      /\ Leads(<<<<"ilock", "ip">>, <<"element">>>>, InOp("ref", "walkparent", "none"), InOp("ref", "last", "none"))
    BY <1>1, LockNaming, NamexSteps, Leads2
<1>3. Fits(t, InOp("ref", "none", "none")) => <<>> \o t = t
    BY FitsHolding
<1>4. QED
    BY <1>2, <1>3, FitsConcat DEF Walk

-----------------------------------------------------------------------------
(* The invariant *)

Locals == [ip : 0..NINODE, dp : 0..NINODE, f : 0..NFILE,
           path : Seq(Names \cup {"/"}), parent : BOOLEAN]
RegOK == reg \in [Procs -> Locals]

(* The directories are a tree, and every name in them leads somewhere. *)
TreeOK ==
    /\ TreeInv
    /\ disk[1].type = "dir"
    /\ \A i \in Inums :
          /\ disk[i].type # "free" => disk[i].nlink >= 1
          /\ disk[i].type = "dir" => dir[i]["."] # 0 /\ dir[i][".."] # 0
          /\ disk[i].type # "dir" => dir[i] = Empty
          /\ \A n \in Names : dir[i][n] # 0 => disk[dir[i][n]].type # "free"

(* An entry of the inode cache that is in use is an inode in use, one of a *)
(* kind, and as on disk once it has been read.                             *)
CacheOK ==
    /\ \A k, m \in 1..NINODE :
          k # m /\ icache[k].ref > 0 /\ icache[m].ref > 0 => icache[k].inum # icache[m].inum
    /\ \A k \in 1..NINODE :
          /\ icache[k].ref > 0 => icache[k].inum \in Inums /\ disk[icache[k].inum].type # "free"
          /\ icache[k].ref > 0 /\ icache[k].valid =>
                disk[icache[k].inum].type = icache[k].type /\ disk[icache[k].inum].nlink = icache[k].nlink
          /\ icache[k].lock # NONE => icache[k].valid /\ icache[k].ref > 0

(* Programs fit, operations are those of the programs, and a lock belongs  *)
(* to a process that holds it.                                             *)
Control(h) == \A p \in Procs : Fits(todo[p], h[p]) /\ ops[p] = h[p].op

Owners(h) ==
    \A k \in 1..NINODE : icache[k].lock # NONE =>
       \E q \in Procs : /\ icache[k].lock = q
                        /\ \/ h[q].ip \in {"lock", "uselock"} /\ reg[q].ip = k
                           \/ h[q].dp = "lock" /\ reg[q].dp = k

(* The name that a process looks up. *)
NameLocal(p, m) ==
    /\ m.path \in {"name", "parent"} => reg[p].path # <<>> /\ Tail(reg[p].path) \in Seq(Names)
    /\ m.path \in {"walk", "walkparent"} => reg[p].path # <<>> /\ reg[p].path \in Seq(Names)
    /\ m.path \in {"name", "walk"} => ~reg[p].parent
    /\ m.path \in {"parent", "walkparent"} => reg[p].parent
    /\ m.path \in {"last", "absent"} =>
          /\ m.ip \in {"ref", "lock"} /\ disk[icache[reg[p].ip].inum].type = "dir"
          /\ reg[p].path \in Seq(Names) /\ Len(reg[p].path) = 1
    /\ m.path = "absent" => m.ip = "lock" /\ Found(p) = 0

(* The inodes and locks that it holds. *)
InodeLocal(p, m) ==
    /\ m.ip \in {"ref", "lock"} => reg[p].ip \in 1..NINODE
    /\ m.dp # "none" => reg[p].dp \in 1..NINODE
    /\ m.cwd = "own" => cwd[p] \in 1..NINODE
    /\ m.cwd = "dead" => cwd[p] = 0
    /\ m.ip \in {"lock", "uselock"} => icache[reg[p].ip].lock = p
    /\ m.dp = "lock" => icache[reg[p].dp].lock = p

(* The files that it holds. *)
FileLocal(p, m) ==
    /\ m.ip \in {"use", "uselock"} =>
          \E fd \in 1..NOFILE : /\ fd # m.stale /\ ofile[p][fd] # 0
                                /\ ftable[ofile[p][fd]].type = "inode"
                                /\ ftable[ofile[p][fd]].ip = reg[p].ip
    /\ m.f # "none" => reg[p].f \in 1..NFILE
    /\ m.f \in {"new", "void"} => ftable[reg[p].f].ref = 1 /\ ftable[reg[p].f].type = "none"
    /\ m.f = "own" => ftable[reg[p].f].type = "inode"
    /\ m.f \in {"new", "dup"} => \E fd \in 1..NOFILE : fd # m.stale /\ ofile[p][fd] = reg[p].f
    /\ m.f = "dup" => m.stale # 0 /\ ofile[p][m.stale] = reg[p].f
    /\ \A fd \in 1..NOFILE : fd <= m.shut \/ m.cwd = "dead" => ofile[p][fd] = 0

(* The references to an inode, and to a file. *)
IpUsers(h, k) == {p \in Procs : h[p].ip \in {"ref", "lock"} /\ reg[p].ip = k}
DpUsers(h, k) == {p \in Procs : h[p].dp # "none" /\ reg[p].dp = k}
CwdUsers(h, k) == {p \in Procs : h[p].cwd = "own" /\ cwd[p] = k}
InodeCount(h) ==
    \A k \in 1..NINODE :
       icache[k].ref = Cardinality(IpUsers(h, k)) + Cardinality(DpUsers(h, k))
                       + Cardinality(CwdUsers(h, k)) + Cardinality(Users(k))

FdUsers(h, f) == {pf \in Procs \X (1..NOFILE) : ofile[pf[1]][pf[2]] = f /\ pf[2] # h[pf[1]].stale}
RegUsers(h, f) == {p \in Procs : h[p].f \in {"void", "own"} /\ reg[p].f = f}
FileCount(h) ==
    \A f \in 1..NFILE :
       ftable[f].ref = Cardinality(FdUsers(h, f)) + Cardinality(RegUsers(h, f))

(* A file that is in use is set up, or about to be. *)
FileTypes(h) ==
    \A f \in 1..NFILE :
       /\ ftable[f].type = "inode" => ftable[f].ref >= 1 /\ ftable[f].ip \in 1..NINODE
       /\ ftable[f].type = "none" /\ ftable[f].ref >= 1 =>
             \E q \in Procs : h[q].f \in {"new", "void"} /\ reg[q].f = f

(* A process that has made an inode and still refers to its directory. *)
Fresh(m) == m.ip = "lock" /\ m.dp # "none"

(* Such a directory is not an inode that another one is still making. *)
NoCycle(h) ==
    \A p, q \in Procs : Fresh(h[p]) /\ Fresh(h[q]) => reg[p].dp # reg[q].ip

Books(h) ==
    /\ \A p \in Procs : NameLocal(p, h[p]) /\ InodeLocal(p, h[p]) /\ FileLocal(p, h[p])
    /\ InodeCount(h) /\ FileCount(h) /\ FileTypes(h) /\ NoCycle(h)

Core == TypeOK /\ RegOK /\ TreeOK /\ CacheOK /\ PanicOnlyWhenFull

Accounts(h) == Control(h) /\ Owners(h) /\ (panicked = "no" => Books(h))

FullInv ==
    Core /\ DOMAIN todo = Procs /\ \E h \in [Procs -> Holdings] : Accounts(h)

-----------------------------------------------------------------------------
(* Numbers of elements *)

One(b) == IF b THEN 1 ELSE 0

(* Two sets that differ in one element at most. *)
LEMMA OneChange ==
    ASSUME NEW S, NEW T, NEW x, IsFiniteSet(S), T \ {x} = S \ {x}
    PROVE  /\ IsFiniteSet(T) /\ Cardinality(S) \in Nat /\ Cardinality(T) \in Nat
           /\ Cardinality(T) = Cardinality(S) - One(x \in S) + One(x \in T)
<1>1. IsFiniteSet(S \ {x}) /\ Cardinality(S \ {x}) = Cardinality(S) - One(x \in S)
    <2>1. Cardinality(S) \in Nat
        BY FS_CardinalityType
    <2>2. QED
        BY <2>1, FS_RemoveElement DEF One
<1>2. T = IF x \in T THEN (S \ {x}) \cup {x} ELSE S \ {x}
    OBVIOUS
<1>3. /\ IsFiniteSet((S \ {x}) \cup {x})
      /\ Cardinality((S \ {x}) \cup {x}) = Cardinality(S \ {x}) + 1
    BY <1>1, FS_AddElement
<1>4. IsFiniteSet(T)
    BY <1>1, <1>2, <1>3
<1>5. Cardinality(S) \in Nat /\ Cardinality(T) \in Nat
    BY <1>4, FS_CardinalityType
<1>6. Cardinality(T) = Cardinality(S \ {x}) + One(x \in T)
    <2>1. CASE x \in T
        BY <2>1, <1>2, <1>3 DEF One
    <2>2. CASE x \notin T
        <3>1. Cardinality(T) = Cardinality(S \ {x})
            BY <2>2, <1>2
        <3>2. QED
            BY <2>2, <3>1, <1>5 DEF One
    <2>3. QED
        BY <2>1, <2>2
<1>7. QED
    BY <1>1, <1>4, <1>5, <1>6

LEMMA MinIn == ASSUME NEW n \in Nat, NEW S \in SUBSET (1..n), S # {} PROVE Min(S) \in S
<1>1. S \subseteq Nat
    OBVIOUS
<1>2. PICK x \in S : \A y \in S : ~(<<y, x>> \in OpToRel(<, Nat))
    BY <1>1, NatLessThanWellFounded, WFMin
<1>3. \A y \in S : x <= y
    <2>1. SUFFICES ASSUME NEW y \in S, y < x PROVE FALSE
        BY <1>1
    <2>2. <<y, x>> \in OpToRel(<, Nat)
        BY <1>1, <2>1 DEF OpToRel
    <2>3. QED
        BY <2>2, <1>2
<1>4. QED
    BY <1>3 DEF Min

LEMMA Finite ==
    ASSUME NEW h, NEW k
    PROVE  /\ IsFiniteSet(IpUsers(h, k)) /\ IsFiniteSet(DpUsers(h, k)) /\ IsFiniteSet(CwdUsers(h, k))
           /\ IsFiniteSet(Users(k)) /\ IsFiniteSet(RegUsers(h, k)) /\ IsFiniteSet(FdUsers(h, k))
<1>1. IsFiniteSet(Procs)
    BY FilesAssumption
<1>2. /\ IpUsers(h, k) \in SUBSET Procs /\ DpUsers(h, k) \in SUBSET Procs
      /\ CwdUsers(h, k) \in SUBSET Procs /\ RegUsers(h, k) \in SUBSET Procs
    BY DEF IpUsers, DpUsers, CwdUsers, RegUsers
<1>3. Users(k) \in SUBSET (1..NFILE) /\ IsFiniteSet(1..NFILE)
    BY FilesAssumption, FS_Interval DEF Users
<1>4. IsFiniteSet(1..NOFILE)
    BY FilesAssumption, FS_Interval
<1>5. IsFiniteSet(Procs \X (1..NOFILE))
    BY <1>1, <1>4, FS_Product
<1>6. FdUsers(h, k) \in SUBSET (Procs \X (1..NOFILE))
    BY DEF FdUsers
<1>7. QED
    BY <1>1, <1>2, <1>3, <1>5, <1>6, FS_Subset

(* The references that a process, or a file, has to an inode. *)
Held(p, m, k) ==
    One(m.ip \in {"ref", "lock"} /\ reg[p].ip = k) + One(m.dp # "none" /\ reg[p].dp = k)
    + One(m.cwd = "own" /\ cwd[p] = k)
Used(f, k) == One(ftable[f].type = "inode" /\ ftable[f].ip = k)

(* A step of p that touches a file f at most. *)
LEMMA InodeCounts ==
    ASSUME NEW h \in [Procs -> Holdings], NEW p \in Procs, NEW g \in Holdings, InodeCount(h),
           \A q \in Procs : q # p => cwd'[q] = cwd[q] /\ (reg'[q] = reg[q] \/ h[q] = Nothing),
           NEW f \in 1..NFILE,
           \A e \in 1..NFILE : e # f =>
              ftable'[e].type = ftable[e].type /\ ftable'[e].ip = ftable[e].ip,
           \A k \in 1..NINODE : icache[k].ref \in Nat,
           \A k \in 1..NINODE :
              icache'[k].ref = icache[k].ref - Held(p, h[p], k) - Used(f, k)
                               + Held(p, g, k)' + Used(f, k)'
    PROVE  InodeCount([h EXCEPT ![p] = g])'
<1> DEFINE h2 == [h EXCEPT ![p] = g]
<1> SUFFICES ASSUME NEW k \in 1..NINODE
             PROVE  icache'[k].ref = Cardinality(IpUsers(h2, k)') + Cardinality(DpUsers(h2, k)')
                                     + Cardinality(CwdUsers(h2, k)') + Cardinality(Users(k)')
    BY DEF InodeCount
<1>1. /\ IsFiniteSet(IpUsers(h, k)) /\ IsFiniteSet(DpUsers(h, k)) /\ IsFiniteSet(CwdUsers(h, k))
      /\ IsFiniteSet(Users(k))
    BY Finite
<1>2. /\ Cardinality(IpUsers(h2, k)') \in Nat /\ Cardinality(IpUsers(h, k)) \in Nat
      /\ Cardinality(IpUsers(h2, k)') = Cardinality(IpUsers(h, k)) - One(p \in IpUsers(h, k))
                                        + One(p \in IpUsers(h2, k)')
    <2>1. IpUsers(h2, k)' \ {p} = IpUsers(h, k) \ {p}
        BY DEF IpUsers, Nothing, Idling
    <2>2. QED
        BY <1>1, <2>1, OneChange
<1>3. /\ Cardinality(DpUsers(h2, k)') \in Nat /\ Cardinality(DpUsers(h, k)) \in Nat
      /\ Cardinality(DpUsers(h2, k)') = Cardinality(DpUsers(h, k)) - One(p \in DpUsers(h, k))
                                        + One(p \in DpUsers(h2, k)')
    <2>1. DpUsers(h2, k)' \ {p} = DpUsers(h, k) \ {p}
        BY DEF DpUsers, Nothing, Idling
    <2>2. QED
        BY <1>1, <2>1, OneChange
<1>4. /\ Cardinality(CwdUsers(h2, k)') \in Nat /\ Cardinality(CwdUsers(h, k)) \in Nat
      /\ Cardinality(CwdUsers(h2, k)') = Cardinality(CwdUsers(h, k)) - One(p \in CwdUsers(h, k))
                                         + One(p \in CwdUsers(h2, k)')
    <2>1. CwdUsers(h2, k)' \ {p} = CwdUsers(h, k) \ {p}
        BY DEF CwdUsers
    <2>2. QED
        BY <1>1, <2>1, OneChange
<1>5. /\ Cardinality(Users(k)') \in Nat /\ Cardinality(Users(k)) \in Nat
      /\ Cardinality(Users(k)') = Cardinality(Users(k)) - One(f \in Users(k)) + One(f \in Users(k)')
    <2>1. Users(k)' \ {f} = Users(k) \ {f}
        BY DEF Users
    <2>2. QED
        BY <1>1, <2>1, OneChange
<1>6. /\ Held(p, h[p], k) = One(p \in IpUsers(h, k)) + One(p \in DpUsers(h, k)) + One(p \in CwdUsers(h, k))
      /\ Used(f, k) = One(f \in Users(k))
    BY DEF Held, Used, IpUsers, DpUsers, CwdUsers, Users
<1>7. /\ Held(p, g, k)' = One(p \in IpUsers(h2, k)') + One(p \in DpUsers(h2, k)') + One(p \in CwdUsers(h2, k)')
      /\ Used(f, k)' = One(f \in Users(k)')
    BY DEF Held, Used, IpUsers, DpUsers, CwdUsers, Users
<1>8. icache[k].ref = Cardinality(IpUsers(h, k)) + Cardinality(DpUsers(h, k))
                      + Cardinality(CwdUsers(h, k)) + Cardinality(Users(k))
    BY DEF InodeCount
<1>9. /\ One(p \in IpUsers(h, k)) \in Int /\ One(p \in DpUsers(h, k)) \in Int
      /\ One(p \in CwdUsers(h, k)) \in Int /\ One(f \in Users(k)) \in Int
      /\ One(p \in IpUsers(h2, k)') \in Int /\ One(p \in DpUsers(h2, k)') \in Int
      /\ One(p \in CwdUsers(h2, k)') \in Int /\ One(f \in Users(k)') \in Int
    BY DEF One
<1>10. icache'[k].ref = icache[k].ref - Held(p, h[p], k) - Used(f, k) + Held(p, g, k)' + Used(f, k)'
    OBVIOUS
<1> HIDE DEF h2
<1>11. QED
    BY <1>2, <1>3, <1>4, <1>5, <1>6, <1>7, <1>8, <1>9, <1>10

LEMMA InodeCountStep ==
    ASSUME NEW h \in [Procs -> Holdings], NEW p \in Procs, NEW g \in Holdings, InodeCount(h),
           \A q \in Procs : q # p => cwd'[q] = cwd[q] /\ (reg'[q] = reg[q] \/ h[q] = Nothing),
           NEW f \in 1..NFILE, \A e \in 1..NFILE : e # f => ftable'[e] = ftable[e],
           \A k \in 1..NINODE : icache[k].ref \in Nat,
           \A k \in 1..NINODE :
              icache'[k].ref = icache[k].ref - Held(p, h[p], k) - Used(f, k)
                               + Held(p, g, k)' + Used(f, k)'
    PROVE  InodeCount([h EXCEPT ![p] = g])'
<1>1. \A e \in 1..NFILE : e # f => ftable'[e].type = ftable[e].type /\ ftable'[e].ip = ftable[e].ip
    OBVIOUS
<1>2. QED
    BY <1>1, InodeCounts

(* Whoever uses an inode has a reference to it. *)
UsesInode(p, m, k) ==
    \/ m.ip \in {"ref", "lock"} /\ reg[p].ip = k
    \/ m.dp # "none" /\ reg[p].dp = k
    \/ m.cwd = "own" /\ cwd[p] = k

LEMMA Nonempty == ASSUME NEW S, NEW x \in S, IsFiniteSet(S) PROVE Cardinality(S) \in Nat \ {0}
BY FS_CardinalityType, FS_EmptySet

LEMMA Pair ==
    ASSUME NEW S, NEW x \in S, NEW y \in S, x # y, IsFiniteSet(S)
    PROVE  Cardinality(S) \in Nat /\ Cardinality(S) >= 2
<1>1. /\ IsFiniteSet(S \ {x}) /\ Cardinality(S \ {x}) = Cardinality(S) - 1
      /\ y \in S \ {x} /\ Cardinality(S) \in Nat
    BY FS_RemoveElement, FS_CardinalityType
<1>2. Cardinality(S \ {x}) \in Nat \ {0}
    BY <1>1, Nonempty
<1>3. QED
    BY <1>1, <1>2

LEMMA InodeHeld ==
    ASSUME NEW h \in [Procs -> Holdings], InodeCount(h), NEW k \in 1..NINODE
    PROVE  /\ \A q \in Procs : UsesInode(q, h[q], k) => icache[k].ref >= 1
           /\ \A f \in 1..NFILE : ftable[f].type = "inode" /\ ftable[f].ip = k => icache[k].ref >= 1
           /\ icache[k].ref \in Nat
<1>1. /\ IsFiniteSet(IpUsers(h, k)) /\ IsFiniteSet(DpUsers(h, k)) /\ IsFiniteSet(CwdUsers(h, k))
      /\ IsFiniteSet(Users(k))
    BY Finite
<1>2. /\ Cardinality(IpUsers(h, k)) \in Nat /\ Cardinality(DpUsers(h, k)) \in Nat
      /\ Cardinality(CwdUsers(h, k)) \in Nat /\ Cardinality(Users(k)) \in Nat
    BY <1>1, FS_CardinalityType
<1>3. icache[k].ref = Cardinality(IpUsers(h, k)) + Cardinality(DpUsers(h, k))
                      + Cardinality(CwdUsers(h, k)) + Cardinality(Users(k))
    BY DEF InodeCount
<1>4. ASSUME NEW q \in Procs, UsesInode(q, h[q], k) PROVE icache[k].ref >= 1
    <2>1. q \in IpUsers(h, k) \/ q \in DpUsers(h, k) \/ q \in CwdUsers(h, k)
        BY <1>4 DEF UsesInode, IpUsers, DpUsers, CwdUsers
    <2>2. \/ Cardinality(IpUsers(h, k)) \in Nat \ {0} \/ Cardinality(DpUsers(h, k)) \in Nat \ {0}
          \/ Cardinality(CwdUsers(h, k)) \in Nat \ {0}
        BY <2>1, <1>1, Nonempty
    <2>3. QED
        BY <2>2, <1>2, <1>3
<1>5. ASSUME NEW f \in 1..NFILE, ftable[f].type = "inode", ftable[f].ip = k PROVE icache[k].ref >= 1
    <2>1. f \in Users(k)
        BY <1>5 DEF Users
    <2>2. Cardinality(Users(k)) \in Nat \ {0}
        BY <2>1, <1>1, Nonempty
    <2>3. QED
        BY <2>2, <1>2, <1>3
<1>6. QED
    BY <1>2, <1>3, <1>4, <1>5

(* Whoever uses a file has a reference to it. *)
UsesFile(p, m, f) ==
    \/ \E fd \in 1..NOFILE : ofile[p][fd] = f /\ fd # m.stale
    \/ m.f \in {"void", "own"} /\ reg[p].f = f

LEMMA FileHeld ==
    ASSUME NEW h \in [Procs -> Holdings], FileCount(h), NEW f \in 1..NFILE
    PROVE  /\ \A q \in Procs : UsesFile(q, h[q], f) => ftable[f].ref >= 1
           /\ \A p, q \in Procs :
                 p # q /\ UsesFile(p, h[p], f) /\ UsesFile(q, h[q], f) => ftable[f].ref >= 2
           /\ ftable[f].ref \in Nat
<1>1. IsFiniteSet(FdUsers(h, f)) /\ IsFiniteSet(RegUsers(h, f))
    BY Finite
<1>2. Cardinality(FdUsers(h, f)) \in Nat /\ Cardinality(RegUsers(h, f)) \in Nat
    BY <1>1, FS_CardinalityType
<1>3. ftable[f].ref = Cardinality(FdUsers(h, f)) + Cardinality(RegUsers(h, f))
    BY DEF FileCount
<1>4. ASSUME NEW q \in Procs, UsesFile(q, h[q], f)
      PROVE  (\E fd \in 1..NOFILE : <<q, fd>> \in FdUsers(h, f)) \/ q \in RegUsers(h, f)
    BY <1>4 DEF UsesFile, FdUsers, RegUsers
<1>5. ASSUME NEW q \in Procs, UsesFile(q, h[q], f) PROVE ftable[f].ref >= 1
    <2>1. Cardinality(FdUsers(h, f)) \in Nat \ {0} \/ Cardinality(RegUsers(h, f)) \in Nat \ {0}
        BY <1>1, <1>4, <1>5, Nonempty
    <2>2. QED
        BY <2>1, <1>2, <1>3
<1>6. ASSUME NEW p \in Procs, NEW q \in Procs, p # q, UsesFile(p, h[p], f), UsesFile(q, h[q], f)
      PROVE  ftable[f].ref >= 2
    <2>1. CASE p \in RegUsers(h, f) /\ q \in RegUsers(h, f)
        BY <2>1, <1>1, <1>2, <1>3, <1>6, Pair
    <2>2. CASE p \in RegUsers(h, f) /\ \E fd \in 1..NOFILE : <<q, fd>> \in FdUsers(h, f)
        <3>1. Cardinality(RegUsers(h, f)) \in Nat \ {0} /\ Cardinality(FdUsers(h, f)) \in Nat \ {0}
            BY <2>2, <1>1, Nonempty
        <3>2. QED
            BY <3>1, <1>3
    <2>3. CASE q \in RegUsers(h, f) /\ \E fd \in 1..NOFILE : <<p, fd>> \in FdUsers(h, f)
        <3>1. Cardinality(RegUsers(h, f)) \in Nat \ {0} /\ Cardinality(FdUsers(h, f)) \in Nat \ {0}
            BY <2>3, <1>1, Nonempty
        <3>2. QED
            BY <3>1, <1>3
    <2>4. ASSUME NEW c \in 1..NOFILE, NEW d \in 1..NOFILE,
                 <<p, c>> \in FdUsers(h, f), <<q, d>> \in FdUsers(h, f)
          PROVE  ftable[f].ref >= 2
        <3>1. <<p, c>> # <<q, d>>
            BY <1>6
        <3>2. QED
            BY <2>4, <3>1, <1>1, <1>2, <1>3, Pair
    <2>5. QED
        BY <2>1, <2>2, <2>3, <2>4, <1>4, <1>6
<1>7. QED
    BY <1>2, <1>3, <1>5, <1>6

(* A step of p that touches one descriptor fd at most. *)
HeldFile(p, m, fd, f) ==
    One(ofile[p][fd] = f /\ fd # m.stale) + One(m.f \in {"void", "own"} /\ reg[p].f = f)

LEMMA FileCountStep ==
    ASSUME NEW h \in [Procs -> Holdings], NEW p \in Procs, NEW g \in Holdings, FileCount(h),
           \A q \in Procs : q # p => reg'[q] = reg[q] /\ ofile'[q] = ofile[q],
           NEW fd \in 1..NOFILE,
           \A e \in 1..NOFILE : e # fd => ofile'[p][e] = ofile[p][e] /\ (e = g.stale <=> e = h[p].stale),
           \A f \in 1..NFILE : ftable[f].ref \in Nat,
           \A f \in 1..NFILE :
              ftable'[f].ref = ftable[f].ref - HeldFile(p, h[p], fd, f) + HeldFile(p, g, fd, f)'
    PROVE  FileCount([h EXCEPT ![p] = g])'
<1> DEFINE h2 == [h EXCEPT ![p] = g]
<1> SUFFICES ASSUME NEW f \in 1..NFILE
             PROVE  ftable'[f].ref = Cardinality(FdUsers(h2, f)') + Cardinality(RegUsers(h2, f)')
    BY DEF FileCount
<1>1. IsFiniteSet(FdUsers(h, f)) /\ IsFiniteSet(RegUsers(h, f))
    BY Finite
<1>2. RegUsers(h2, f)' \ {p} = RegUsers(h, f) \ {p}
    BY DEF RegUsers
<1>3. FdUsers(h2, f)' \ {<<p, fd>>} = FdUsers(h, f) \ {<<p, fd>>}
    <2>1. ASSUME NEW q \in Procs, NEW e \in 1..NOFILE, <<q, e>> # <<p, fd>>
          PROVE  <<q, e>> \in FdUsers(h2, f)' <=> <<q, e>> \in FdUsers(h, f)
        BY <2>1 DEF FdUsers
    <2>2. ASSUME NEW x, x # <<p, fd>> PROVE x \in FdUsers(h2, f)' <=> x \in FdUsers(h, f)
        <3>1. CASE x \in Procs \X (1..NOFILE)
            <4>1. PICK q \in Procs, e \in 1..NOFILE : x = <<q, e>>
                BY <3>1
            <4>2. QED
                BY <4>1, <2>1, <2>2
        <3>2. CASE x \notin Procs \X (1..NOFILE)
            BY <3>2 DEF FdUsers
        <3>3. QED
            BY <3>1, <3>2
    <2> HIDE DEF h2
    <2>3. QED
        BY <2>2
<1>6. HeldFile(p, h[p], fd, f) = One(<<p, fd>> \in FdUsers(h, f)) + One(p \in RegUsers(h, f))
    BY DEF HeldFile, FdUsers, RegUsers
<1>7. HeldFile(p, g, fd, f)' = One(<<p, fd>> \in FdUsers(h2, f)') + One(p \in RegUsers(h2, f)')
    BY DEF HeldFile, FdUsers, RegUsers
<1> HIDE DEF h2
<1>4. /\ Cardinality(RegUsers(h2, f)') \in Nat /\ Cardinality(RegUsers(h, f)) \in Nat
      /\ Cardinality(RegUsers(h2, f)') = Cardinality(RegUsers(h, f)) - One(p \in RegUsers(h, f))
                                         + One(p \in RegUsers(h2, f)')
    BY <1>1, <1>2, OneChange
<1>5. /\ Cardinality(FdUsers(h2, f)') \in Nat /\ Cardinality(FdUsers(h, f)) \in Nat
      /\ Cardinality(FdUsers(h2, f)') = Cardinality(FdUsers(h, f)) - One(<<p, fd>> \in FdUsers(h, f))
                                        + One(<<p, fd>> \in FdUsers(h2, f)')
    BY <1>1, <1>3, OneChange
<1>8. ftable[f].ref = Cardinality(FdUsers(h, f)) + Cardinality(RegUsers(h, f))
    BY DEF FileCount
<1>9. /\ One(p \in RegUsers(h, f)) \in Int /\ One(<<p, fd>> \in FdUsers(h, f)) \in Int
      /\ One(p \in RegUsers(h2, f)') \in Int /\ One(<<p, fd>> \in FdUsers(h2, f)') \in Int
    BY DEF One
<1>10. ftable'[f].ref = ftable[f].ref - HeldFile(p, h[p], fd, f) + HeldFile(p, g, fd, f)'
    OBVIOUS
<1>11. QED
    BY <1>4, <1>5, <1>6, <1>7, <1>8, <1>9, <1>10

-----------------------------------------------------------------------------
(* Steps of one process p, which holds g afterwards and has t left *)

Step1(h, p, g, t) ==
    /\ Core /\ DOMAIN todo = Procs /\ h \in [Procs -> Holdings] /\ Accounts(h) /\ panicked = "no"
    /\ p \in Procs /\ g \in Holdings /\ Fits(t, g)
    /\ todo' = [todo EXCEPT ![p] = t] /\ ops' = [ops EXCEPT ![p] = g.op]
    /\ \A q \in Procs : q # p => reg'[q] = reg[q] /\ cwd'[q] = cwd[q] /\ ofile'[q] = ofile[q]

LEMMA ControlStep ==
    ASSUME NEW h, NEW p, NEW g, NEW t, Step1(h, p, g, t)
    PROVE  /\ [h EXCEPT ![p] = g] \in [Procs -> Holdings] /\ Control([h EXCEPT ![p] = g])'
           /\ DOMAIN todo' = Procs /\ ops' \in [Procs -> Nat]
<1>1. Control(h) /\ h \in [Procs -> Holdings] /\ ops \in [Procs -> Nat]
    BY DEF Step1, Accounts, Core, TypeOK
<1>2. g.op \in Nat
    BY DEF Step1, Holdings
<1>3. ASSUME NEW q \in Procs
      PROVE  Fits(todo'[q], [h EXCEPT ![p] = g][q]) /\ ops'[q] = [h EXCEPT ![p] = g][q].op
    <2>1. CASE q = p
        BY <2>1, <1>1, <1>2 DEF Step1
    <2>2. CASE q # p
        BY <2>2, <1>1, <1>2 DEF Step1, Control
    <2>3. QED
        BY <2>1, <2>2
<1>4. Control([h EXCEPT ![p] = g])'
    BY <1>3 DEF Control, Fits, Leads
<1>5. QED
    BY <1>1, <1>2, <1>4 DEF Step1

(* The lock of an inode that p holds, and what p says of itself. *)
Locking(p, m, k) ==
    \/ m.ip \in {"lock", "uselock"} /\ reg[p].ip = k
    \/ m.dp = "lock" /\ reg[p].dp = k

LEMMA OwnersStep ==
    ASSUME NEW h, NEW p, NEW g, NEW t, Step1(h, p, g, t),
           \A k \in 1..NINODE : icache'[k].lock # NONE =>
              \/ icache'[k].lock = icache[k].lock /\ icache[k].lock # p
              \/ icache'[k].lock = p /\ Locking(p, g, k)'
    PROVE  Owners([h EXCEPT ![p] = g])'
<1> DEFINE h2 == [h EXCEPT ![p] = g]
<1> SUFFICES ASSUME NEW k \in 1..NINODE, icache'[k].lock # NONE
             PROVE  \E q \in Procs : icache'[k].lock = q /\ Locking(q, h2[q], k)'
    BY DEF Owners, Locking
<1>1. h \in [Procs -> Holdings] /\ p \in Procs
    BY DEF Step1
<1>2. CASE icache'[k].lock = icache[k].lock /\ icache[k].lock # p
    <2>1. PICK q \in Procs : icache[k].lock = q /\ Locking(q, h[q], k)
        BY <1>2 DEF Owners, Locking, Step1, Accounts
    <2>2. q # p /\ reg'[q] = reg[q] /\ h2[q] = h[q]
        BY <2>1, <1>1, <1>2 DEF Step1
    <2>3. QED
        BY <2>1, <2>2, <1>2 DEF Locking
<1>3. CASE icache'[k].lock = p /\ Locking(p, g, k)'
    BY <1>1, <1>3
<1>4. QED
    BY <1>2, <1>3

(* A lock that p has is one that it knows of. *)
LEMMA OwnLock ==
    ASSUME NEW h, Accounts(h), NEW p \in Procs, NEW k \in 1..NINODE, icache[k].lock = p
    PROVE  Locking(p, h[p], k)
<1>1. p # NONE
    BY FilesAssumption
<1>2. QED
    BY <1>1 DEF Accounts, Owners, Locking

(* Nothing that a step changes is what another process relies on. *)
LEMMA NameKept ==
    ASSUME NEW h, NEW p, NEW g, NEW t, Step1(h, p, g, t), NEW q \in Procs, q # p,
           \A k \in 1..NINODE : icache[k].ref > 0 =>
              /\ icache'[k].inum = icache[k].inum
              /\ disk'[icache[k].inum].type = disk[icache[k].inum].type
              /\ icache[k].lock = q => dir'[icache[k].inum] = dir[icache[k].inum]
    PROVE  NameLocal(q, h[q])'
<1>1. NameLocal(q, h[q]) /\ InodeLocal(q, h[q]) /\ InodeCount(h) /\ h \in [Procs -> Holdings]
    BY DEF Step1, Accounts, Books
<1>2. reg'[q] = reg[q]
    BY DEF Step1
<1>3. h[q].path \in {"last", "absent"} =>
         /\ reg[q].ip \in 1..NINODE /\ icache[reg[q].ip].ref > 0
    <2>1. SUFFICES ASSUME h[q].path \in {"last", "absent"}
                   PROVE  reg[q].ip \in 1..NINODE /\ icache[reg[q].ip].ref > 0
        OBVIOUS
    <2>2. h[q].ip \in {"ref", "lock"} /\ reg[q].ip \in 1..NINODE
        BY <1>1, <2>1 DEF NameLocal, InodeLocal
    <2>3. UsesInode(q, h[q], reg[q].ip)
        BY <2>2 DEF UsesInode
    <2>4. QED
        BY <2>2, <2>3, <1>1, InodeHeld
<1>4. h[q].path \in {"last", "absent"} =>
         disk'[icache'[reg'[q].ip].inum].type = disk[icache[reg[q].ip].inum].type
    BY <1>2, <1>3
<1>5. h[q].path = "absent" => Found(q)' = Found(q)
    <2>1. SUFFICES ASSUME h[q].path = "absent" PROVE Found(q)' = Found(q)
        OBVIOUS
    <2>2. icache[reg[q].ip].lock = q
        BY <2>1, <1>1 DEF NameLocal, InodeLocal
    <2>3. QED
        BY <2>1, <2>2, <1>2, <1>3 DEF Found
<1>6. QED
    BY <1>1, <1>2, <1>4, <1>5 DEF NameLocal

(* An inode in use through a file. *)
LEMMA UseInode ==
    ASSUME NEW h \in [Procs -> Holdings], Books(h), TypeOK, NEW q \in Procs, h[q].ip \in {"use", "uselock"}
    PROVE  reg[q].ip \in 1..NINODE /\ icache[reg[q].ip].ref >= 1
<1>1. FileLocal(q, h[q]) /\ FileTypes(h) /\ InodeCount(h)
    BY DEF Books
<1>2. PICK fd \in 1..NOFILE : /\ fd # h[q].stale /\ ofile[q][fd] # 0
                              /\ ftable[ofile[q][fd]].type = "inode"
                              /\ ftable[ofile[q][fd]].ip = reg[q].ip
    BY <1>1 DEF FileLocal
<1>3. ofile[q][fd] \in 1..NFILE
    <2>1. ofile \in [Procs -> [1..NOFILE -> 0..NFILE]]
        BY DEF TypeOK
    <2>2. ofile[q][fd] \in 0..NFILE
        BY <2>1
    <2>3. QED
        BY <2>2, <1>2
<1>4. reg[q].ip \in 1..NINODE
    BY <1>1, <1>2, <1>3 DEF FileTypes
<1>5. QED
    BY <1>1, <1>2, <1>3, <1>4, InodeHeld

LEMMA InodeKept ==
    ASSUME NEW h, NEW p, NEW g, NEW t, Step1(h, p, g, t), NEW q \in Procs, q # p,
           \A k \in 1..NINODE : icache[k].lock = q => icache'[k].lock = q
    PROVE  InodeLocal(q, h[q])'
<1>1. InodeLocal(q, h[q]) /\ Books(h) /\ TypeOK /\ h \in [Procs -> Holdings]
    BY DEF Step1, Accounts, Books, Core
<1>2. reg'[q] = reg[q] /\ cwd'[q] = cwd[q]
    BY DEF Step1
<1>3. h[q].ip \in {"lock", "uselock"} => reg[q].ip \in 1..NINODE
    BY <1>1, UseInode DEF InodeLocal
<1>4. QED
    BY <1>1, <1>2, <1>3 DEF InodeLocal

LEMMA FileKept ==
    ASSUME NEW h, NEW p, NEW g, NEW t, Step1(h, p, g, t), NEW q \in Procs, q # p,
           \A f \in 1..NFILE : UsesFile(q, h[q], f) =>
              /\ ftable'[f].type = ftable[f].type /\ ftable'[f].ip = ftable[f].ip
              /\ h[q].f \in {"new", "void"} /\ reg[q].f = f => ftable'[f].ref = ftable[f].ref
    PROVE  FileLocal(q, h[q])'
<1>1. FileLocal(q, h[q]) /\ TypeOK
    BY DEF Step1, Accounts, Books, Core
<1>2. reg'[q] = reg[q] /\ ofile'[q] = ofile[q] /\ cwd'[q] = cwd[q]
    BY DEF Step1
<1>3. \A fd \in 1..NOFILE : ofile[q][fd] \in 0..NFILE
    <2>1. ofile \in [Procs -> [1..NOFILE -> 0..NFILE]]
        BY <1>1 DEF TypeOK
    <2>2. QED
        BY <2>1
<1>4. h[q].ip \in {"use", "uselock"} =>
          \E fd \in 1..NOFILE : /\ fd # h[q].stale /\ ofile'[q][fd] # 0
                                /\ ftable'[ofile'[q][fd]].type = "inode"
                                /\ ftable'[ofile'[q][fd]].ip = reg'[q].ip
    <2>1. SUFFICES ASSUME h[q].ip \in {"use", "uselock"}
                   PROVE  \E fd \in 1..NOFILE : /\ fd # h[q].stale /\ ofile'[q][fd] # 0
                                /\ ftable'[ofile'[q][fd]].type = "inode"
                                /\ ftable'[ofile'[q][fd]].ip = reg'[q].ip
        OBVIOUS
    <2>2. PICK fd \in 1..NOFILE : /\ fd # h[q].stale /\ ofile[q][fd] # 0
                                  /\ ftable[ofile[q][fd]].type = "inode"
                                  /\ ftable[ofile[q][fd]].ip = reg[q].ip
        BY <2>1, <1>1 DEF FileLocal
    <2>3. ofile[q][fd] \in 1..NFILE /\ UsesFile(q, h[q], ofile[q][fd])
        BY <2>2, <1>3 DEF UsesFile
    <2>4. QED
        BY <2>2, <2>3, <1>2
<1>5. /\ h[q].f \in {"new", "void"} =>
            ftable'[reg'[q].f].ref = 1 /\ ftable'[reg'[q].f].type = "none"
      /\ h[q].f = "own" => ftable'[reg'[q].f].type = "inode"
    <2>1. CASE h[q].f \in {"new", "void", "own"}
        <3>1. reg[q].f \in 1..NFILE /\ UsesFile(q, h[q], reg[q].f)
            BY <2>1, <1>1 DEF UsesFile, FileLocal
        <3>2. QED
            BY <3>1, <1>1, <1>2 DEF FileLocal
    <2>2. QED
        BY <2>1
<1>6. QED
    BY <1>1, <1>2, <1>4, <1>5 DEF FileLocal

LEMMA NoCycleStep ==
    ASSUME NEW h, NEW p, NEW g, NEW t, Step1(h, p, g, t),
           Fresh(g) => Fresh(h[p]) /\ reg'[p].ip = reg[p].ip /\ reg'[p].dp = reg[p].dp
    PROVE  NoCycle([h EXCEPT ![p] = g])'
<1> DEFINE h2 == [h EXCEPT ![p] = g]
<1>1. NoCycle(h) /\ h \in [Procs -> Holdings]
    BY DEF Step1, Accounts, Books
<1>2. ASSUME NEW q \in Procs, Fresh(h2[q])
      PROVE  Fresh(h[q]) /\ reg'[q].ip = reg[q].ip /\ reg'[q].dp = reg[q].dp
    BY <1>1, <1>2 DEF Step1
<1>3. \A q, s \in Procs : Fresh(h2[q]) /\ Fresh(h2[s]) => reg'[q].dp # reg'[s].ip
    BY <1>1, <1>2 DEF NoCycle
<1>4. QED
    BY <1>3 DEF NoCycle, Fresh

(* What is left to show of a step, for the process itself and for sums. *)
LEMMA BooksStep ==
    ASSUME NEW h, NEW p, NEW g, NEW t, Step1(h, p, g, t),
           NameLocal(p, g)', InodeLocal(p, g)', FileLocal(p, g)',
           \A q \in Procs : q # p => NameLocal(q, h[q])' /\ InodeLocal(q, h[q])' /\ FileLocal(q, h[q])',
           InodeCount([h EXCEPT ![p] = g])', FileCount([h EXCEPT ![p] = g])',
           FileTypes([h EXCEPT ![p] = g])', NoCycle([h EXCEPT ![p] = g])'
    PROVE  Books([h EXCEPT ![p] = g])'
<1> DEFINE h2 == [h EXCEPT ![p] = g]
<1>1. h \in [Procs -> Holdings] /\ p \in Procs
    BY DEF Step1
<1>2. ASSUME NEW q \in Procs PROVE NameLocal(q, h2[q])' /\ InodeLocal(q, h2[q])' /\ FileLocal(q, h2[q])'
    <2>1. CASE q = p
        <3>1. h2[q] = g
            BY <2>1, <1>1
        <3>2. QED
            BY <2>1, <3>1
    <2>2. CASE q # p
        <3>1. h2[q] = h[q]
            BY <2>2, <1>1
        <3>2. QED
            BY <2>2, <3>1
    <2>3. QED
        BY <2>1, <2>2
<1> HIDE DEF h2
<1>3. QED
    BY <1>2 DEF Books, h2

LEMMA Assemble ==
    ASSUME NEW h, NEW p, NEW g, NEW t, Step1(h, p, g, t), Core',
           Owners([h EXCEPT ![p] = g])', panicked' = "no" => Books([h EXCEPT ![p] = g])'
    PROVE  FullInv'
<1> DEFINE h2 == [h EXCEPT ![p] = g]
<1>1. h2 \in [Procs -> Holdings] /\ Control(h2)' /\ DOMAIN todo' = Procs
    BY ControlStep
<1> HIDE DEF h2
<1>2. Accounts(h2)'
    BY <1>1 DEF Accounts, h2
<1>3. QED
    BY <1>1, <1>2 DEF FullInv

LEMMA CoreFrame ==
    ASSUME Core
    PROVE  /\ UNCHANGED <<disk, dir>> => TreeOK'
           /\ UNCHANGED <<disk, icache>> => CacheOK'
           /\ UNCHANGED <<disk, icache, panicked>> => PanicOnlyWhenFull'
<1>1. UNCHANGED <<disk, dir>> => TreeOK'
    BY DEF Core, TreeOK, TreeInv, Entries
<1>2. UNCHANGED <<disk, icache>> => CacheOK'
    BY DEF Core, CacheOK
<1>3. UNCHANGED <<disk, icache, panicked>> => PanicOnlyWhenFull'
    BY DEF Core, PanicOnlyWhenFull
<1>4. QED
    BY <1>1, <1>2, <1>3

(* A step that changes local variables at most. *)
LEMMA QuietStep ==
    ASSUME NEW h, NEW p, NEW g, NEW t, Step1(h, p, g, t),
           UNCHANGED <<disk, dir, icache, ftable, ofile, cwd, panicked>>, RegOK',
           g.cwd = h[p].cwd, g.dp = h[p].dp, g.f = h[p].f, g.stale = h[p].stale,
           g.ip = h[p].ip \/ {g.ip, h[p].ip} \subseteq {"none", "use"},
           reg'[p] = reg[p] \/ (h[p].ip \in {"none", "use"} /\ h[p].dp = "none" /\ h[p].f = "none"),
           NameLocal(p, g)', FileLocal(p, g)'
    PROVE  FullInv'
<1>1. /\ Core /\ Accounts(h) /\ Books(h) /\ h \in [Procs -> Holdings] /\ p \in Procs /\ g \in Holdings
      /\ h[p] \in Holdings
    BY DEF Step1, Accounts
<1>2. Core'
    BY <1>1, CoreFrame, ControlStep DEF Core, TypeOK
<1>3. \A k : Locking(p, h[p], k) => Locking(p, g, k)'
    BY DEF Locking
<1>4. Owners([h EXCEPT ![p] = g])'
    <2>1. ASSUME NEW k \in 1..NINODE, icache'[k].lock # NONE
          PROVE  \/ icache'[k].lock = icache[k].lock /\ icache[k].lock # p
                 \/ icache'[k].lock = p /\ Locking(p, g, k)'
        BY <1>1, <1>3, OwnLock
    <2>2. QED
        BY <2>1, OwnersStep
<1>5. \A q \in Procs : q # p => NameLocal(q, h[q])' /\ InodeLocal(q, h[q])' /\ FileLocal(q, h[q])'
    <2>1. SUFFICES ASSUME NEW q \in Procs, q # p
                   PROVE  NameLocal(q, h[q])' /\ InodeLocal(q, h[q])' /\ FileLocal(q, h[q])'
        OBVIOUS
    <2>2. NameLocal(q, h[q])'
        BY <2>1, NameKept
    <2>3. InodeLocal(q, h[q])'
        BY <2>1, InodeKept
    <2>4. FileLocal(q, h[q])'
        BY <2>1, FileKept
    <2>5. QED
        BY <2>2, <2>3, <2>4
<1>6. InodeLocal(p, g)'
    BY <1>1 DEF Books, InodeLocal
<1>7. InodeCount([h EXCEPT ![p] = g])'
    <2>1. 1 \in 1..NFILE
        BY FilesAssumption
    <2>2. \A k \in 1..NINODE : icache[k].ref \in Nat
        BY <1>1 DEF Core, TypeOK
    <2>3. ASSUME NEW k \in 1..NINODE
          PROVE  icache'[k].ref = icache[k].ref - Held(p, h[p], k) - Used(1, k)
                                  + Held(p, g, k)' + Used(1, k)'
        <3>1. Held(p, g, k)' = Held(p, h[p], k) /\ Held(p, h[p], k) \in Int
            BY DEF Held, One
        <3>2. Used(1, k)' = Used(1, k) /\ Used(1, k) \in Int
            BY DEF Used, One
        <3>3. QED
            BY <3>1, <3>2, <2>2
    <2>4. InodeCount(h) /\ \A q \in Procs : q # p => cwd'[q] = cwd[q] /\ reg'[q] = reg[q]
        BY <1>1 DEF Books, Step1
    <2>5. QED
        BY <1>1, <2>1, <2>2, <2>3, <2>4, InodeCountStep
<1>8. FileCount([h EXCEPT ![p] = g])'
    <2>1. 1 \in 1..NOFILE
        BY FilesAssumption
    <2>2. \A f \in 1..NFILE : ftable[f].ref \in Nat
        BY <1>1 DEF Core, TypeOK
    <2>3. ASSUME NEW f \in 1..NFILE
          PROVE  ftable'[f].ref = ftable[f].ref - HeldFile(p, h[p], 1, f) + HeldFile(p, g, 1, f)'
        <3>1. HeldFile(p, g, 1, f)' = HeldFile(p, h[p], 1, f) /\ HeldFile(p, h[p], 1, f) \in Int
            BY DEF HeldFile, One
        <3>2. QED
            BY <3>1, <2>2
    <2>4. FileCount(h) /\ \A q \in Procs : q # p => ofile'[q] = ofile[q] /\ reg'[q] = reg[q]
        BY <1>1 DEF Books, Step1
    <2>5. QED
        BY <1>1, <2>1, <2>2, <2>3, <2>4, FileCountStep
<1>9. FileTypes([h EXCEPT ![p] = g])'
    <2> DEFINE h2 == [h EXCEPT ![p] = g]
    <2>1. ASSUME NEW q \in Procs, NEW f, h[q].f \in {"new", "void"}, reg[q].f = f
          PROVE  h2[q].f \in {"new", "void"} /\ reg'[q].f = f
        BY <1>1, <2>1 DEF Step1
    <2>2. FileTypes(h)
        BY <1>1 DEF Books
    <2>3. QED
        BY <2>1, <2>2 DEF FileTypes
<1>10. NoCycle([h EXCEPT ![p] = g])'
    BY NoCycleStep DEF Fresh
<1>11. Books([h EXCEPT ![p] = g])'
    BY <1>5, <1>6, <1>7, <1>8, <1>9, <1>10, BooksStep
<1>12. QED
    BY <1>2, <1>4, <1>11, Assemble

-----------------------------------------------------------------------------
(* Steps that change what a process has left to do, and little else *)

Now(h) == Core /\ DOMAIN todo = Procs /\ h \in [Procs -> Holdings] /\ Accounts(h)

LEMMA AtStep ==
    ASSUME NEW h, Now(h), NEW p \in Procs, NEW s, At(p, s)
    PROVE  /\ panicked = "no" /\ Books(h) /\ h[p] \in Holdings /\ ops[p] = h[p].op
           /\ NameLocal(p, h[p]) /\ InodeLocal(p, h[p]) /\ FileLocal(p, h[p])
           /\ todo[p] \in Seq(Steps) /\ todo[p] # <<>> /\ Tail(todo[p]) \in Seq(Steps)
           /\ <<>> \o Tail(todo[p]) = Tail(todo[p])
           /\ \E g \in Holdings : Trans(s, h[p], g) /\ Fits(Tail(todo[p]), g)
<1>1. panicked = "no" /\ todo[p] # <<>> /\ Head(todo[p]) = s
    BY DEF At
<1>2. Books(h) /\ h[p] \in Holdings /\ ops[p] = h[p].op /\ Fits(todo[p], h[p])
    BY <1>1 DEF Now, Accounts, Control
<1>3. NameLocal(p, h[p]) /\ InodeLocal(p, h[p]) /\ FileLocal(p, h[p])
    BY <1>2 DEF Books
<1>4. todo[p] \in Seq(Steps)
    BY <1>2, FitsHolding
<1>5. Tail(todo[p]) \in Seq(Steps) /\ <<>> \o Tail(todo[p]) = Tail(todo[p])
    BY <1>1, <1>4
<1>6. \E g \in Holdings : Trans(s, h[p], g) /\ Fits(Tail(todo[p]), g)
    BY <1>1, <1>2, FitsHead
<1>7. QED
    BY <1>1, <1>2, <1>3, <1>4, <1>5, <1>6

LEMMA TodoStep ==
    ASSUME NEW h, NEW p, NEW g, NEW t, Step1(h, p, g, t),
           UNCHANGED <<disk, dir, icache, ftable, ofile, cwd, reg, panicked>>,
           g.ip = h[p].ip, g.dp = h[p].dp, g.f = h[p].f, g.cwd = h[p].cwd,
           g.stale = h[p].stale, g.shut = h[p].shut,
           g.path = h[p].path \/ g.path = "none" \/ NameLocal(p, g)
    PROVE  FullInv'
<1>1. Core /\ Books(h) /\ p \in Procs
    BY DEF Step1, Accounts
<1>2. NameLocal(p, g)'
    <2>1. NameLocal(p, g)
        BY <1>1 DEF Books, NameLocal
    <2>2. QED
        BY <2>1 DEF NameLocal, Found
<1>3. FileLocal(p, g)'
    BY <1>1 DEF Books, FileLocal
<1>4. RegOK'
    BY <1>1 DEF Core, RegOK
<1>5. QED
    BY <1>2, <1>3, <1>4, QuietStep

(* A step of a process other than its operation leaves the operations. *)
LEMMA OpsKept ==
    ASSUME NEW h, Now(h), NEW p \in Procs, NEW g, g.op = h[p].op, ops' = ops
    PROVE  ops' = [ops EXCEPT ![p] = g.op]
<1>1. ops \in [Procs -> Nat] /\ ops[p] = h[p].op
    BY DEF Now, Core, TypeOK, Accounts, Control
<1>2. QED
    BY <1>1

LEMMA BeginOpStep == ASSUME NEW h, Now(h), NEW p \in Procs, BeginOp(p) PROVE FullInv'
<1>1. At(p, <<"begin_op">>)
    BY DEF BeginOp
<1>2. PICK g \in Holdings : Trans(<<"begin_op">>, h[p], g) /\ Fits(Tail(todo[p]), g)
    BY <1>1, AtStep
<1>3. h[p].op = 0 /\ g = [h[p] EXCEPT !.op = 1] /\ h[p] \in Holdings /\ ops[p] = h[p].op
    BY <1>1, <1>2, AtStep DEF Trans
<1>4. /\ g.ip = h[p].ip /\ g.dp = h[p].dp /\ g.f = h[p].f /\ g.cwd = h[p].cwd /\ g.path = h[p].path
      /\ g.stale = h[p].stale /\ g.shut = h[p].shut /\ g.op = 1
    BY <1>3 DEF Holdings
<1>5. todo' = [todo EXCEPT ![p] = Tail(todo[p])]
    BY <1>1, AtStep DEF BeginOp, Then
<1>6. ops' = [ops EXCEPT ![p] = g.op]
    BY <1>3, <1>4 DEF BeginOp
<1>7. panicked = "no"
    BY <1>1, AtStep
<1>8. Step1(h, p, g, Tail(todo[p]))
    BY <1>2, <1>5, <1>6, <1>7 DEF Step1, Now, BeginOp, fileVars
<1>9. QED
    BY <1>4, <1>8, TodoStep DEF BeginOp, fileVars, fsVars

LEMMA LastStep == ASSUME NEW t \in Seq(Steps), Len(t) = 1 PROVE Tail(t) = <<>>
<1>1. t # <<>> /\ Tail(t) \in Seq(Steps) /\ Len(Tail(t)) = 0
    OBVIOUS
<1>2. QED
    BY <1>1, EmptySeq

LEMMA EndOpStep == ASSUME NEW h, Now(h), NEW p \in Procs, EndOp(p) PROVE FullInv'
<1>1. At(p, <<"end_op">>)
    BY DEF EndOp
<1>2. PICK g \in Holdings : Trans(<<"end_op">>, h[p], g) /\ Fits(Tail(todo[p]), g)
    BY <1>1, AtStep
<1>3. /\ h[p].op = 1 /\ g = [h[p] EXCEPT !.op = 0] /\ h[p] \in Holdings /\ ops[p] = h[p].op
      /\ FileLocal(p, h[p])
    BY <1>1, <1>2, AtStep DEF Trans
<1>4. /\ g.ip = h[p].ip /\ g.dp = h[p].dp /\ g.f = h[p].f /\ g.cwd = h[p].cwd /\ g.path = h[p].path
      /\ g.stale = h[p].stale /\ g.shut = h[p].shut /\ g.op = 0
    BY <1>3 DEF Holdings
<1>5. todo' = [todo EXCEPT ![p] = Tail(todo[p])]
    BY <1>1, AtStep DEF EndOp, Then
<1>6. ops' = [ops EXCEPT ![p] = g.op]
    BY <1>3, <1>4 DEF EndOp
<1>7. panicked = "no" /\ todo[p] \in Seq(Steps) /\ todo[p] # <<>>
    BY <1>1, AtStep
<1>8. reg \in [Procs -> Locals] /\ NoReg \in Locals
    <2>1. 0 \in 0..NINODE /\ 0 \in 0..NFILE
        BY FilesAssumption
    <2>2. QED
        BY <2>1 DEF Now, Core, RegOK, Locals, NoReg
<1>9. Step1(h, p, g, Tail(todo[p]))
    BY <1>2, <1>5, <1>6, <1>7, <1>8 DEF Step1, Now, EndOp, Forget, fileVars
<1>10. CASE Len(todo[p]) = 1
    <2>1. Tail(todo[p]) = <<>>
        BY <1>7, <1>10, LastStep
    <2>2. g \in {Nothing, Gone}
        BY <2>1, <1>2, FitsEmpty
    <2>3. g.ip = "none" /\ g.dp = "none" /\ g.f = "none" /\ g.path = "none" /\ g.shut = 0
        BY <2>2 DEF Nothing, Gone, Idling
    <2>4. RegOK'
        BY <1>8, <1>10 DEF RegOK, EndOp, Forget
    <2>5. NameLocal(p, g)'
        BY <2>3 DEF NameLocal
    <2>6. FileLocal(p, g)'
        BY <2>3, <1>3, <1>4 DEF FileLocal, EndOp, fileVars
    <2>7. QED
        BY <2>3, <2>4, <2>5, <2>6, <1>4, <1>9, QuietStep DEF EndOp, fileVars, fsVars
<1>11. CASE Len(todo[p]) # 1
    BY <1>4, <1>9, <1>11, TodoStep DEF EndOp, Forget, fileVars, fsVars
<1>12. QED
    BY <1>10, <1>11

LEMMA BranchStep ==
    ASSUME NEW h, Now(h), NEW p \in Procs, NEW s, At(p, s), s[1] \in {"existing", "isdir", "notdir"},
           Then(p, <<>>) \/ Fail(p, Iunlockput("ip")),
           UNCHANGED <<disk, dir, icache, ftable, ofile, cwd, reg, ops, panicked>>
    PROVE  FullInv'
<1>1. PICK g \in Holdings : Trans(s, h[p], g) /\ Fits(Tail(todo[p]), g)
    BY AtStep
<1>2. h[p] = InOp("lock", "none", "none") /\ g = h[p]
    BY <1>1 DEF Trans
<1>3. panicked = "no" /\ ops' = [ops EXCEPT ![p] = g.op]
    BY <1>2, AtStep, OpsKept
<1>4. PICK t : Fits(t, g) /\ todo' = [todo EXCEPT ![p] = t]
    <2>1. CASE Then(p, <<>>)
        BY <2>1, <1>1, AtStep DEF Then
    <2>2. CASE Fail(p, Iunlockput("ip"))
        BY <2>2, <1>2, FailFits DEF Fail
    <2>3. QED
        BY <2>1, <2>2
<1>5. Step1(h, p, g, t)
    BY <1>3, <1>4 DEF Step1, Now
<1>6. QED
    BY <1>2, <1>5, TodoStep

LEMMA BranchSteps ==
    ASSUME NEW h, Now(h), NEW p \in Procs,
           \/ NotDir(p) \/ \E mode \in Modes \cup CreateModes : IsDir(p, mode)
           \/ \E type \in Types : Existing(p, type)
    PROVE  FullInv'
<1>1. CASE NotDir(p)
    BY <1>1, BranchStep DEF NotDir, fsVars, fileVars
<1>2. ASSUME NEW mode \in Modes \cup CreateModes, IsDir(p, mode) PROVE FullInv'
    <2> DEFINE s == <<"isdir", mode>>
    <2>1. s[1] = "isdir" /\ At(p, s)
        BY <1>2 DEF IsDir
    <2>2. QED
        BY <1>2, <2>1, BranchStep DEF IsDir, fsVars, fileVars
<1>3. ASSUME NEW type \in Types, Existing(p, type) PROVE FullInv'
    <2> DEFINE s == <<"existing", type>>
    <2>1. s[1] = "existing" /\ At(p, s)
        BY <1>3 DEF Existing
    <2>2. QED
        BY <1>3, <2>1, BranchStep DEF Existing, fsVars, fileVars
<1>4. QED
    BY <1>1, <1>2, <1>3

LEMMA DeviceStep == ASSUME NEW h, Now(h), NEW p \in Procs, Device(p) PROVE FullInv'
<1>1. At(p, <<"device">>)
    BY DEF Device
<1>2. PICK g \in Holdings : Trans(<<"device">>, h[p], g) /\ Fits(Tail(todo[p]), g)
    BY <1>1, AtStep
<1>3. g = h[p] /\ g.ip = "uselock" /\ g.dp = "none" /\ g.path # "absent"
    BY <1>2 DEF Trans
<1>4. panicked = "no" /\ ops' = [ops EXCEPT ![p] = g.op]
    BY <1>1, <1>3, AtStep, OpsKept DEF Device
<1>5. Fits(<<<<"iunlock", "ip">>, <<"ilock", "ip">>>> \o Tail(todo[p]), g)
    <2> DEFINE k == [g EXCEPT !.ip = "use"]
    <2>1. k \in Holdings /\ k.ip = "use" /\ k.dp = "none" /\ k.path # "absent" /\ [k EXCEPT !.ip = "uselock"] = g
        BY <1>3 DEF Holdings
    <2>2. Leads(<<<<"iunlock", "ip">>>>, g, k)
        BY <1>3, LockSteps
    <2> HIDE DEF k
    <2>3. Leads(<<<<"ilock", "ip">>>>, k, g)
        BY <2>1, LockSteps
    <2>4. Leads(<<<<"iunlock", "ip">>, <<"ilock", "ip">>>>, g, g)
        BY <2>2, <2>3, Leads2, NameSteps
    <2>5. QED
        BY <2>4, <1>2, FitsConcat
<1>6. PICK t : Fits(t, g) /\ todo' = [todo EXCEPT ![p] = t]
    BY <1>1, <1>2, <1>5, AtStep DEF Device, Then
<1>7. Step1(h, p, g, t)
    BY <1>4, <1>6 DEF Step1, Now, Device, fileVars
<1>8. QED
    BY <1>3, <1>7, TodoStep DEF Device, fsVars, fileVars

(* A process between two calls holds nothing but its directory and files. *)
LEMMA Between ==
    ASSUME NEW h, Now(h), NEW p \in Procs, panicked = "no", cwd[p] # 0, todo[p] = <<>>
    PROVE  h[p] = Nothing /\ Books(h) /\ InodeLocal(p, h[p]) /\ FileLocal(p, h[p])
<1>1. Books(h) /\ Fits(<<>>, h[p])
    BY DEF Now, Accounts, Control
<1>2. InodeLocal(p, h[p]) /\ FileLocal(p, h[p]) /\ h[p] \in {Nothing, Gone}
    BY <1>1, FitsEmpty DEF Books
<1>3. h[p] # Gone
    BY <1>2 DEF InodeLocal, Gone, Idling
<1>4. QED
    BY <1>1, <1>2, <1>3

LEMMA NoRegLocal == NoReg \in Locals /\ NoReg.ip = 0 /\ NoReg.f = 0 /\ NoReg.dp = 0
<1>1. 0 \in 0..NINODE /\ 0 \in 0..NFILE
    BY FilesAssumption
<1>2. QED
    BY <1>1 DEF Locals, NoReg

LEMMA QuietCall ==
    ASSUME NEW h, Now(h), NEW p \in Procs, NEW g \in Holdings, NEW t, NEW r \in Locals, Call(p, t, r), Fits(t, g),
           g \in {Nothing, Naming("name"), Naming("parent"), Idling("use", "none", "own")},
           UNCHANGED <<disk, dir, icache, ftable, ofile, cwd, ops, panicked>>,
           NameLocal(p, g)', g.ip = "use" => FileLocal(p, g)'
    PROVE  FullInv'
<1>1. h[p] = Nothing /\ panicked = "no" /\ FileLocal(p, h[p])
    BY Between DEF Call
<1>2. /\ g.cwd = "own" /\ g.dp = "none" /\ g.f = "none" /\ g.stale = 0 /\ g.shut = 0 /\ g.op = 0
      /\ g.ip \in {"none", "use"}
    BY DEF Nothing, Naming, Idling
<1>3. /\ h[p].cwd = "own" /\ h[p].dp = "none" /\ h[p].f = "none" /\ h[p].stale = 0 /\ h[p].shut = 0
      /\ h[p].op = 0 /\ h[p].ip = "none"
    BY <1>1 DEF Nothing, Idling
<1>4. ops' = [ops EXCEPT ![p] = g.op]
    BY <1>2, <1>3, OpsKept
<1>5. RegOK' /\ \A q \in Procs : q # p => reg'[q] = reg[q]
    BY DEF Now, Core, RegOK, Call
<1>6. Step1(h, p, g, t)
    BY <1>1, <1>4, <1>5 DEF Step1, Now, Call
<1>7. FileLocal(p, g)'
    BY <1>1, <1>2, <1>3 DEF FileLocal
<1>8. QED
    BY <1>2, <1>3, <1>5, <1>6, <1>7, QuietStep

(* A file that is not set up is used by the process that opens it only. *)
LEMMA Exclusive ==
    ASSUME NEW h \in [Procs -> Holdings], Books(h), NEW q \in Procs, h[q].f \in {"new", "void"}
    PROVE  /\ UsesFile(q, h[q], reg[q].f) /\ reg[q].f \in 1..NFILE
           /\ \A p \in Procs : p # q => ~UsesFile(p, h[p], reg[q].f)
<1>1. FileLocal(q, h[q]) /\ FileCount(h)
    BY DEF Books
<1>2. reg[q].f \in 1..NFILE /\ ftable[reg[q].f].ref = 1
    BY <1>1 DEF FileLocal
<1>3. UsesFile(q, h[q], reg[q].f)
    BY <1>1 DEF FileLocal, UsesFile
<1>4. ASSUME NEW p \in Procs, p # q, UsesFile(p, h[p], reg[q].f) PROVE FALSE
    <2>1. ftable[reg[q].f].ref >= 2
        BY <1>1, <1>2, <1>3, <1>4, FileHeld
    <2>2. QED
        BY <2>1, <1>2
<1>5. QED
    BY <1>2, <1>3, <1>4

(* A file that a process uses and does not open is set up. *)
LEMMA OpenFile ==
    ASSUME NEW h \in [Procs -> Holdings], Books(h), TypeOK, NEW p \in Procs, h[p].f \notin {"new", "void"},
           NEW f \in 1..NFILE, UsesFile(p, h[p], f)
    PROVE  ftable[f].type = "inode" /\ ftable[f].ip \in 1..NINODE /\ ftable[f].ref >= 1
<1>1. FileCount(h) /\ FileTypes(h)
    BY DEF Books
<1>2. ftable[f].ref >= 1
    BY <1>1, FileHeld
<1>3. ftable[f].type \in {"none", "inode"}
    BY DEF TypeOK
<1>4. SUFFICES ASSUME ftable[f].type = "none" PROVE FALSE
    BY <1>1, <1>2, <1>3 DEF FileTypes
<1>5. PICK q \in Procs : h[q].f \in {"new", "void"} /\ reg[q].f = f
    BY <1>1, <1>2, <1>4 DEF FileTypes
<1>6. QED
    BY <1>5, Exclusive

LEMMA ExitCallStep == ASSUME NEW h, Now(h), NEW p \in Procs, ExitCall(p) PROVE FullInv'
<1>1. NameLocal(p, Nothing)' /\ Nothing.ip # "use"
    BY DEF NameLocal, Nothing, Idling
<1>2. QED
    BY <1>1, ExitFits, HoldingTypes, NoRegLocal, QuietCall DEF ExitCall, fsVars, fileVars

LEMMA NameCallStep ==
    ASSUME NEW h, Now(h), NEW p \in Procs, NEW path \in Paths, NameCall(p, path)
    PROVE  FullInv'
<1> DEFINE r == [NoReg EXCEPT !.path = path]
           g == Naming("name")
<1>1. path \in Seq(Names \cup {"/"}) /\ path # <<>> /\ Tail(path) \in Seq(Names)
    BY FilesAssumption
<1>2. r \in Locals /\ r.path = path /\ ~r.parent
    BY <1>1, NoRegLocal DEF Locals, NoReg
<1>3. PICK t \in {Stat, Chdir} \cup {Open(mode) : mode \in Modes} : Call(p, t, r)
    BY DEF NameCall
<1>4. Fits(t, g)
    BY StatFits, ChdirFits, OpenFits
<1>5. g \in Holdings /\ g.ip # "use" /\ g.path = "name"
    BY HoldingTypes DEF Lookups, Naming
<1>6. reg' = [reg EXCEPT ![p] = r] /\ reg \in [Procs -> Locals]
    BY <1>3 DEF Call, Now, Core, RegOK
<1>7. reg'[p] = r
    BY <1>6
<1>8. NameLocal(p, g)'
    BY <1>1, <1>2, <1>5, <1>7 DEF NameLocal
<1> HIDE DEF g, r
<1>9. g \in {Nothing, Naming("name"), Naming("parent"), Idling("use", "none", "own")}
    BY DEF g
<1>10. QED
    BY <1>2, <1>3, <1>4, <1>5, <1>8, <1>9, QuietCall DEF NameCall, fsVars, fileVars

LEMMA CreateCallStep ==
    ASSUME NEW h, Now(h), NEW p \in Procs, NEW path \in Paths, CreateCall(p, path)
    PROVE  FullInv'
<1> DEFINE r == [NoReg EXCEPT !.path = path, !.parent = TRUE]
           g == Naming("parent")
<1>1. path \in Seq(Names \cup {"/"}) /\ path # <<>> /\ Tail(path) \in Seq(Names)
    BY FilesAssumption
<1>2. r \in Locals /\ r.path = path /\ r.parent
    BY <1>1, NoRegLocal DEF Locals, NoReg
<1>3. PICK t \in {Make("dir"), Make("dev")} \cup {OpenCreate(mode) : mode \in CreateModes} : Call(p, t, r)
    BY DEF CreateCall
<1>4. Fits(t, g)
    BY MakeFits, OpenCreateFits DEF Types
<1>5. g \in Holdings /\ g.ip # "use" /\ g.path = "parent"
    BY HoldingTypes DEF Lookups, Naming
<1>6. reg' = [reg EXCEPT ![p] = r] /\ reg \in [Procs -> Locals]
    BY <1>3 DEF Call, Now, Core, RegOK
<1>7. reg'[p] = r
    BY <1>6
<1>8. NameLocal(p, g)'
    BY <1>1, <1>2, <1>5, <1>7 DEF NameLocal
<1> HIDE DEF g, r
<1>9. g \in {Nothing, Naming("name"), Naming("parent"), Idling("use", "none", "own")}
    BY DEF g
<1>10. QED
    BY <1>2, <1>3, <1>4, <1>5, <1>8, <1>9, QuietCall DEF CreateCall, fsVars, fileVars

LEMMA FileCallStep ==
    ASSUME NEW h, Now(h), NEW p \in Procs, NEW fd \in 1..NOFILE, FileCall(p, fd)
    PROVE  FullInv'
<1> DEFINE f == ftable[ofile[p][fd]]
           r == [NoReg EXCEPT !.ip = f.ip]
           g == Idling("use", "none", "own")
<1>1. PICK t \in {Fstat} \cup (IF f.readable THEN {Fread} ELSE {})
                 \cup (IF f.writable THEN {Fwrite(n) : n \in 1..MaxChunks} ELSE {}) : Call(p, t, r)
    BY DEF FileCall
<1>2. h[p] = Nothing /\ Books(h) /\ h \in [Procs -> Holdings] /\ TypeOK /\ FileLocal(p, h[p])
    BY <1>1, Between DEF Call, Now, Core
<1>3. h[p].f = "none" /\ h[p].stale = 0
    BY <1>2 DEF Nothing, Idling
<1>4. ofile[p][fd] \in 1..NFILE
    <2>1. ofile \in [Procs -> [1..NOFILE -> 0..NFILE]] /\ ofile[p][fd] # 0
        BY <1>2 DEF TypeOK, FileCall, Argfd
    <2>2. ofile[p][fd] \in 0..NFILE
        BY <2>1
    <2>3. QED
        BY <2>1, <2>2
<1>5. UsesFile(p, h[p], ofile[p][fd])
    BY <1>3 DEF UsesFile
<1>6. f.type = "inode" /\ f.ip \in 1..NINODE
    BY <1>2, <1>3, <1>4, <1>5, OpenFile
<1>7. panicked' = panicked
    BY <1>6 DEF FileCall, Check
<1>8. Fits(t, g)
    BY FstatFits, FreadFits, FwriteFits
<1>9. g \in Holdings /\ g.ip = "use" /\ g.path = "none" /\ g.f = "none" /\ g.stale = 0 /\ g.shut = 0 /\ g.cwd = "own"
    BY HoldingTypes DEF Inodes, Idling
<1>10. r \in Locals /\ r.ip = f.ip
    <2>1. f.ip \in 0..NINODE
        BY <1>6
    <2>2. QED
        BY <2>1, NoRegLocal DEF Locals, NoReg
<1>11. reg' = [reg EXCEPT ![p] = r] /\ reg \in [Procs -> Locals]
    BY <1>1 DEF Call, Now, Core, RegOK
<1>12. reg'[p].ip = f.ip
    BY <1>10, <1>11
<1>13. NameLocal(p, g)'
    BY <1>9 DEF NameLocal
<1>14. FileLocal(p, g)'
    <2>1. UNCHANGED <<ftable, ofile>> /\ ofile[p][fd] # 0
        BY <1>4 DEF FileCall, fileVars
    <2>2. QED
        BY <1>6, <1>9, <1>12, <2>1 DEF FileLocal
<1> HIDE DEF g, r
<1>15. g \in {Nothing, Naming("name"), Naming("parent"), Idling("use", "none", "own")}
    BY DEF g
<1>16. QED
    BY <1>1, <1>7, <1>8, <1>9, <1>10, <1>13, <1>14, <1>15, QuietCall DEF FileCall, fsVars, fileVars

-----------------------------------------------------------------------------
(* Steps that touch inodes and no files *)

Inode1(h, p, g, t) ==
    /\ Step1(h, p, g, t) /\ UNCHANGED <<ftable, ofile, cwd>>
    /\ reg'[p].f = reg[p].f \/ g.f = "none"
    /\ g.f = h[p].f /\ g.stale = h[p].stale /\ g.shut = h[p].shut
    /\ g.cwd = "dead" => h[p].cwd = "dead"
    /\ g.ip \in {"use", "uselock"} => h[p].ip \in {"use", "uselock"} /\ reg'[p].ip = reg[p].ip

(* The inodes of other processes stay what they are. *)
Others(p) ==
    \A k \in 1..NINODE, q \in Procs :
       /\ icache[k].ref > 0 => /\ icache'[k].inum = icache[k].inum
                               /\ disk'[icache[k].inum].type = disk[icache[k].inum].type
       /\ icache[k].lock = q /\ q # p =>
             icache'[k].lock = q /\ dir'[icache[k].inum] = dir[icache[k].inum]

Locked(p, g) ==
    \A k \in 1..NINODE : icache'[k].lock # NONE =>
       \/ icache'[k].lock = icache[k].lock /\ icache[k].lock # p
       \/ icache'[k].lock = p /\ Locking(p, g, k)'

Counted(h, p, g) ==
    \A k \in 1..NINODE : icache'[k].ref = icache[k].ref - Held(p, h[p], k) + Held(p, g, k)'

LEMMA InodeStep ==
    ASSUME NEW h, NEW p, NEW g, NEW t, Inode1(h, p, g, t), Core', Locked(p, g),
           panicked' = "no" => /\ Others(p) /\ Counted(h, p, g)
                               /\ NameLocal(p, g)' /\ InodeLocal(p, g)'
                               /\ NoCycle([h EXCEPT ![p] = g])'
    PROVE  FullInv'
<1>1. /\ Core /\ Accounts(h) /\ Books(h) /\ h \in [Procs -> Holdings] /\ p \in Procs /\ g \in Holdings
      /\ h[p] \in Holdings /\ Step1(h, p, g, t)
    BY DEF Inode1, Step1, Accounts
<1>2. Owners([h EXCEPT ![p] = g])'
    BY <1>1, OwnersStep DEF Locked
<1>3. SUFFICES ASSUME panicked' = "no" PROVE Books([h EXCEPT ![p] = g])'
    BY <1>1, <1>2, Assemble
<1>4. \A q \in Procs : q # p => NameLocal(q, h[q])' /\ InodeLocal(q, h[q])' /\ FileLocal(q, h[q])'
    <2>1. SUFFICES ASSUME NEW q \in Procs, q # p
                   PROVE  NameLocal(q, h[q])' /\ InodeLocal(q, h[q])' /\ FileLocal(q, h[q])'
        OBVIOUS
    <2>2. Others(p)
        BY <1>3
    <2>3. NameLocal(q, h[q])'
        BY <1>1, <2>1, <2>2, NameKept DEF Others
    <2>4. InodeLocal(q, h[q])'
        BY <1>1, <2>1, <2>2, InodeKept DEF Others
    <2>5. FileLocal(q, h[q])'
        BY <1>1, <2>1, FileKept DEF Inode1
    <2>6. QED
        BY <2>3, <2>4, <2>5
<1>5. FileLocal(p, g)'
    BY <1>1 DEF Books, FileLocal, Inode1
<1>6. InodeCount([h EXCEPT ![p] = g])'
    <2>1. 1 \in 1..NFILE
        BY FilesAssumption
    <2>2. \A k \in 1..NINODE : icache[k].ref \in Nat
        BY <1>1 DEF Core, TypeOK
    <2>3. ASSUME NEW k \in 1..NINODE
          PROVE  icache'[k].ref = icache[k].ref - Held(p, h[p], k) - Used(1, k)
                                  + Held(p, g, k)' + Used(1, k)'
        <3>1. Held(p, g, k)' \in Int /\ Held(p, h[p], k) \in Int
            BY DEF Held, One
        <3>2. Used(1, k)' = Used(1, k) /\ Used(1, k) \in Int
            BY DEF Used, One, Inode1
        <3>3. QED
            BY <1>3, <3>1, <3>2, <2>2 DEF Counted
    <2>4. /\ InodeCount(h) /\ \A q \in Procs : q # p => cwd'[q] = cwd[q] /\ reg'[q] = reg[q]
          /\ ftable' = ftable
        BY <1>1 DEF Books, Step1, Inode1
    <2>5. QED
        BY <1>1, <2>1, <2>2, <2>3, <2>4, InodeCountStep
<1>7. FileCount([h EXCEPT ![p] = g])'
    <2>1. 1 \in 1..NOFILE
        BY FilesAssumption
    <2>2. \A f \in 1..NFILE : ftable[f].ref \in Nat
        BY <1>1 DEF Core, TypeOK
    <2>3. ASSUME NEW f \in 1..NFILE
          PROVE  ftable'[f].ref = ftable[f].ref - HeldFile(p, h[p], 1, f) + HeldFile(p, g, 1, f)'
        <3>1. HeldFile(p, g, 1, f)' = HeldFile(p, h[p], 1, f) /\ HeldFile(p, h[p], 1, f) \in Int
            BY DEF HeldFile, One, Inode1
        <3>2. QED
            BY <3>1, <2>2 DEF Inode1
    <2>4. /\ FileCount(h) /\ \A q \in Procs : q # p => ofile'[q] = ofile[q] /\ reg'[q] = reg[q]
          /\ ofile' = ofile /\ g.stale = h[p].stale
        BY <1>1 DEF Books, Step1, Inode1
    <2>5. QED
        BY <1>1, <2>1, <2>2, <2>3, <2>4, FileCountStep
<1>8. FileTypes([h EXCEPT ![p] = g])'
    <2> DEFINE h2 == [h EXCEPT ![p] = g]
    <2>1. ASSUME NEW q \in Procs, NEW f, h[q].f \in {"new", "void"}, reg[q].f = f
          PROVE  h2[q].f \in {"new", "void"} /\ reg'[q].f = f
        BY <1>1, <2>1 DEF Step1, Inode1
    <2>2. FileTypes(h) /\ ftable' = ftable
        BY <1>1 DEF Books, Inode1
    <2>3. QED
        BY <2>1, <2>2 DEF FileTypes
<1>9. QED
    BY <1>1, <1>3, <1>4, <1>5, <1>6, <1>7, <1>8, BooksStep

Cached == [inum : Inums \cup {0}, ref : Nat, valid : BOOLEAN, lock : Procs \cup {NONE},
           type : Types \cup {"free"}, nlink : Nat]

(* One entry of the inode cache changes. *)
LEMMA CacheStep ==
    ASSUME CacheOK, disk' = disk, NEW k \in 1..NINODE, \A m \in 1..NINODE : m # k => icache'[m] = icache[m],
           icache'[k].ref > 0 =>
              /\ icache'[k].inum \in Inums /\ disk[icache'[k].inum].type # "free"
              /\ \A m \in 1..NINODE : m # k /\ icache[m].ref > 0 => icache[m].inum # icache'[k].inum,
           icache'[k].ref > 0 /\ icache'[k].valid =>
              /\ disk[icache'[k].inum].type = icache'[k].type
              /\ disk[icache'[k].inum].nlink = icache'[k].nlink,
           icache'[k].lock # NONE => icache'[k].valid /\ icache'[k].ref > 0
    PROVE  CacheOK'
<1>1. ASSUME NEW m \in 1..NINODE, NEW n \in 1..NINODE, m # n, icache'[m].ref > 0, icache'[n].ref > 0
      PROVE  icache'[m].inum # icache'[n].inum
    BY <1>1 DEF CacheOK
<1>2. ASSUME NEW m \in 1..NINODE
      PROVE  /\ icache'[m].ref > 0 => icache'[m].inum \in Inums /\ disk'[icache'[m].inum].type # "free"
             /\ icache'[m].ref > 0 /\ icache'[m].valid =>
                   /\ disk'[icache'[m].inum].type = icache'[m].type
                   /\ disk'[icache'[m].inum].nlink = icache'[m].nlink
             /\ icache'[m].lock # NONE => icache'[m].valid /\ icache'[m].ref > 0
    <2>1. CASE m = k
        BY <2>1
    <2>2. CASE m # k
        BY <2>2 DEF CacheOK
    <2>3. QED
        BY <2>1, <2>2
<1>3. QED
    BY <1>1, <1>2 DEF CacheOK

LEMMA IlockStep == ASSUME NEW h, Now(h), NEW p \in Procs, NEW r \in Registers, Ilock(p, r) PROVE FullInv'
<1> DEFINE s == <<"ilock", r>>
<1>0. PICK k : k = reg[p].ip
    OBVIOUS
<1> USE <1>0
<1>1. At(p, s) /\ s[1] = "ilock" /\ s[2] = r
    BY DEF Ilock
<1>2. PICK g \in Holdings : Trans(s, h[p], g) /\ Fits(Tail(todo[p]), g)
    BY <1>1, AtStep
<1>3. /\ panicked = "no" /\ Books(h) /\ h[p] \in Holdings /\ h \in [Procs -> Holdings] /\ Core
      /\ NameLocal(p, h[p]) /\ InodeLocal(p, h[p]) /\ Accounts(h)
    BY <1>1, AtStep DEF Now
<1>4. /\ r = "ip" /\ h[p].dp = "none" /\ h[p].path # "absent"
      /\ \/ h[p].ip = "ref" /\ g = [h[p] EXCEPT !.ip = "lock"]
         \/ h[p].ip = "use" /\ g = [h[p] EXCEPT !.ip = "uselock"]
    BY <1>1, <1>2 DEF Trans
<1>5. /\ g.op = h[p].op /\ g.dp = h[p].dp /\ g.f = h[p].f /\ g.cwd = h[p].cwd /\ g.path = h[p].path
      /\ g.stale = h[p].stale /\ g.shut = h[p].shut
      /\ h[p].ip = "ref" => g.ip = "lock"
      /\ h[p].ip = "use" => g.ip = "uselock"
    BY <1>3, <1>4 DEF Holdings
<1>6. k \in 1..NINODE /\ icache[k].ref >= 1
    <2>1. CASE h[p].ip = "ref"
        <3>1. k \in 1..NINODE /\ UsesInode(p, h[p], k) /\ InodeCount(h)
            BY <2>1, <1>3 DEF InodeLocal, UsesInode, Books
        <3>2. QED
            BY <3>1, <1>3, InodeHeld
    <2>2. CASE h[p].ip = "use"
        BY <2>2, <1>3, UseInode DEF Core
    <2>3. QED
        BY <2>1, <2>2, <1>4
<1>7. /\ icache[k].lock = NONE
      /\ icache' = [icache EXCEPT ![k] =
                       IF @.valid THEN [@ EXCEPT !.lock = p]
                       ELSE [@ EXCEPT !.lock = p, !.valid = TRUE,
                                      !.type = disk[icache[k].inum].type,
                                      !.nlink = disk[icache[k].inum].nlink]]
      /\ Check(icache[k].ref >= 1 /\ icache'[k].type # "free", "ilock")
    BY <1>4 DEF Ilock, Index
<1>8. icache \in [1..NINODE -> Cached]
    BY <1>3 DEF Core, TypeOK, Cached
<1>9. /\ icache[k].inum \in Inums /\ disk[icache[k].inum].type # "free"
      /\ disk[icache[k].inum] \in [type : Types \cup {"free"}, nlink : Nat]
      /\ icache[k].valid => /\ disk[icache[k].inum].type = icache[k].type
                            /\ disk[icache[k].inum].nlink = icache[k].nlink
    <2>1. icache[k].ref > 0
        BY <1>6, <1>8 DEF Cached
    <2>2. icache[k].inum \in Inums /\ disk[icache[k].inum].type # "free"
        BY <1>3, <1>6, <2>1 DEF Core, CacheOK
    <2>3. icache[k].valid => /\ disk[icache[k].inum].type = icache[k].type
                             /\ disk[icache[k].inum].nlink = icache[k].nlink
        BY <1>3, <1>6, <2>1 DEF Core, CacheOK
    <2>4. disk[icache[k].inum] \in [type : Types \cup {"free"}, nlink : Nat]
        BY <1>3, <2>2 DEF Core, TypeOK
    <2>5. QED
        BY <2>2, <2>3, <2>4
<1>10. /\ icache'[k].inum = icache[k].inum /\ icache'[k].ref = icache[k].ref /\ icache'[k].valid
       /\ icache'[k].lock = p
       /\ icache'[k].type = disk[icache[k].inum].type /\ icache'[k].nlink = disk[icache[k].inum].nlink
       /\ icache'[k] \in Cached
    <2>1. icache[k] \in Cached
        BY <1>6, <1>8
    <2>2. icache'[k] = IF icache[k].valid THEN [icache[k] EXCEPT !.lock = p]
                       ELSE [icache[k] EXCEPT !.lock = p, !.valid = TRUE,
                                      !.type = disk[icache[k].inum].type,
                                      !.nlink = disk[icache[k].inum].nlink]
        BY <1>6, <1>7, <1>8
    <2>3. QED
        BY <2>1, <2>2, <1>9 DEF Cached
<1>11. \A m \in 1..NINODE : m # k => icache'[m] = icache[m]
    BY <1>7, <1>8
<1>12. panicked' = panicked /\ UNCHANGED <<disk, dir, ftable, ofile, cwd, reg, ops>>
    BY <1>6, <1>7, <1>9, <1>10 DEF Check, Ilock, fsVars, fileVars
<1>13. Step1(h, p, g, Tail(todo[p]))
    <2>1. todo' = [todo EXCEPT ![p] = Tail(todo[p])]
        BY <1>1, AtStep DEF Ilock, Then
    <2>2. ops' = [ops EXCEPT ![p] = g.op]
        BY <1>5, <1>12, OpsKept
    <2>3. QED
        BY <2>1, <2>2, <1>2, <1>3, <1>12 DEF Step1, Now
<1>14. Core'
    <2>1. icache' \in [1..NINODE -> Cached]
        <3>1. PICK e : icache' = [icache EXCEPT ![k] = e]
            BY <1>6, <1>7, <1>8
        <3>2. QED
            BY <3>1, <1>6, <1>8, <1>10
    <2>2. TypeOK' /\ RegOK'
        BY <2>1, <1>3, <1>12 DEF Core, TypeOK, RegOK, Cached
    <2>3. TreeOK'
        BY <1>3, <1>12, CoreFrame
    <2>4. CacheOK'
        <3>1. CacheOK /\ icache[k].ref > 0
            BY <1>3, <1>6, <1>8 DEF Core, Cached
        <3>2. \A m \in 1..NINODE : m # k /\ icache[m].ref > 0 => icache[m].inum # icache'[k].inum
            BY <3>1, <1>6, <1>10 DEF CacheOK
        <3>3. QED
            BY <3>1, <3>2, <1>6, <1>9, <1>10, <1>11, <1>12, CacheStep
    <2>5. PanicOnlyWhenFull'
        BY <1>3, <1>12 DEF Core, PanicOnlyWhenFull
    <2>6. QED
        BY <2>2, <2>3, <2>4, <2>5 DEF Core
<1>15. Locked(p, g)
    <2>1. ASSUME NEW m \in 1..NINODE, m # k, icache[m].lock = p PROVE FALSE
        <3>1. Locking(p, h[p], m)
            BY <2>1, <1>3, OwnLock
        <3>2. QED
            BY <3>1, <1>4 DEF Locking
    <2>2. Locking(p, g, k)'
        BY <1>4, <1>5, <1>12 DEF Locking
    <2>3. QED
        BY <2>1, <2>2, <1>10, <1>11 DEF Locked
<1>16. Others(p)
    <2>1. \A q \in Procs : q # NONE
        BY FilesAssumption
    <2>2. QED
        BY <2>1, <1>7, <1>10, <1>11, <1>12 DEF Others
<1>17. Counted(h, p, g)
    <2>1. ASSUME NEW m \in 1..NINODE PROVE icache'[m].ref = icache[m].ref /\ icache[m].ref \in Nat
        BY <1>8, <1>10, <1>11 DEF Cached
    <2>2. ASSUME NEW m \in 1..NINODE PROVE Held(p, g, m)' = Held(p, h[p], m) /\ Held(p, h[p], m) \in Int
        BY <1>4, <1>5, <1>12 DEF Held, One
    <2>3. QED
        BY <2>1, <2>2 DEF Counted
<1>18. NameLocal(p, g)'
    <2>1. h[p].path \in {"last", "absent"} => icache'[reg[p].ip].inum = icache[reg[p].ip].inum /\ h[p].ip = "ref"
        BY <1>3, <1>4, <1>10 DEF NameLocal
    <2>2. QED
        BY <2>1, <1>3, <1>4, <1>5, <1>12 DEF NameLocal
<1>19. InodeLocal(p, g)'
    BY <1>3, <1>4, <1>5, <1>6, <1>10, <1>12 DEF InodeLocal
<1>20. NoCycle([h EXCEPT ![p] = g])'
    BY <1>4, <1>5, <1>13, NoCycleStep DEF Fresh
<1>21. Inode1(h, p, g, Tail(todo[p]))
    BY <1>4, <1>5, <1>12, <1>13 DEF Inode1
<1>22. QED
    BY <1>14, <1>15, <1>16, <1>17, <1>18, <1>19, <1>20, <1>21, InodeStep

LEMMA IunlockStep == ASSUME NEW h, Now(h), NEW p \in Procs, NEW r \in Registers, Iunlock(p, r) PROVE FullInv'
<1> DEFINE s == <<"iunlock", r>>
<1>0. PICK k : k = Index(p, r)
    OBVIOUS
<1>1. At(p, s) /\ s[1] = "iunlock" /\ s[2] = r
    BY DEF Iunlock
<1>2. PICK g \in Holdings : Trans(s, h[p], g) /\ Fits(Tail(todo[p]), g)
    BY <1>1, AtStep
<1>3. /\ panicked = "no" /\ Books(h) /\ h[p] \in Holdings /\ h \in [Procs -> Holdings] /\ Core
      /\ NameLocal(p, h[p]) /\ InodeLocal(p, h[p]) /\ Accounts(h) /\ todo[p] \in Seq(Steps)
    BY <1>1, AtStep DEF Now
<1>4. /\ h[p].path # "absent"
      /\ \/ r = "ip" /\ h[p].ip = "lock" /\ h[p].dp # "lock" /\ g = [h[p] EXCEPT !.ip = "ref"]
         \/ /\ r = "ip" /\ h[p].ip = "uselock" /\ h[p].dp # "lock"
            /\ g \in {[h[p] EXCEPT !.ip = "use"], [h[p] EXCEPT !.ip = "none"]}
         \/ r = "dp" /\ h[p].dp = "lock" /\ h[p].ip # "uselock" /\ g = [h[p] EXCEPT !.dp = "ref"]
    BY <1>1, <1>2 DEF Trans
<1>5. /\ g.op = h[p].op /\ g.f = h[p].f /\ g.cwd = h[p].cwd /\ g.path = h[p].path
      /\ g.stale = h[p].stale /\ g.shut = h[p].shut
      /\ \/ /\ r = "ip" /\ h[p].ip = "lock" /\ h[p].dp # "lock" /\ g.ip = "ref" /\ g.dp = h[p].dp
         \/ /\ r = "ip" /\ h[p].ip = "uselock" /\ h[p].dp # "lock" /\ g.ip \in {"use", "none"}
            /\ g.dp = h[p].dp
         \/ /\ r = "dp" /\ h[p].dp = "lock" /\ h[p].ip # "uselock" /\ g.dp = "ref" /\ g.ip = h[p].ip
    BY <1>3, <1>4 DEF Holdings
<1>6. /\ k \in 1..NINODE /\ icache[k].lock = p /\ icache[k].ref >= 1 /\ icache[k].ref > 0
      /\ k = IF r = "ip" THEN reg[p].ip ELSE reg[p].dp
    <2>1. k = IF r = "ip" THEN reg[p].ip ELSE reg[p].dp
        BY <1>0, <1>5 DEF Index
    <2>2. k \in 1..NINODE /\ icache[k].lock = p
        BY <2>1, <1>3, <1>5, UseInode DEF InodeLocal, Core
    <2>3. p # NONE
        BY FilesAssumption
    <2>4. icache[k].ref > 0 /\ icache[k].ref \in Nat
        BY <2>2, <2>3, <1>3 DEF Core, CacheOK, TypeOK
    <2>5. QED
        BY <2>1, <2>2, <2>4
<1>7. icache' = [icache EXCEPT ![k].lock = NONE] /\ panicked' = panicked
    BY <1>0, <1>6 DEF Iunlock, Check
<1>8. icache \in [1..NINODE -> Cached] /\ icache[k] \in Cached
    BY <1>3, <1>6 DEF Core, TypeOK, Cached
<1>9. /\ icache'[k] = [icache[k] EXCEPT !.lock = NONE]
      /\ \A m \in 1..NINODE : m # k => icache'[m] = icache[m]
    BY <1>6, <1>7, <1>8
<1>10. /\ icache'[k].inum = icache[k].inum /\ icache'[k].ref = icache[k].ref
       /\ icache'[k].valid = icache[k].valid /\ icache'[k].lock = NONE
       /\ icache'[k].type = icache[k].type /\ icache'[k].nlink = icache[k].nlink
       /\ icache'[k] \in Cached
    BY <1>8, <1>9 DEF Cached
<1>11. icache' \in [1..NINODE -> Cached]
    <2>1. icache' = [icache EXCEPT ![k] = icache'[k]]
        BY <1>6, <1>7, <1>8
    <2>2. QED
        BY <2>1, <1>6, <1>8, <1>10
<1>12. UNCHANGED <<disk, dir, ftable, ofile, cwd, ops>>
    BY DEF Iunlock, fsVars, fileVars
<1>13. reg' = reg \/ (reg' = [reg EXCEPT ![p] = NoReg] /\ g.ip = "none" /\ g.dp = "none" /\ g.f = "none"
                      /\ g.path = "none")
    <2>1. CASE Len(todo[p]) = 1
        <3>1. g \in {Nothing, Gone}
            BY <2>1, <1>2, <1>3, LastStep, FitsEmpty
        <3>2. QED
            BY <2>1, <3>1 DEF Iunlock, Forget, Nothing, Gone, Idling
    <2>2. CASE Len(todo[p]) # 1
        BY <2>2 DEF Iunlock, Forget
    <2>3. QED
        BY <2>1, <2>2
<1>14. /\ \A q \in Procs : q # p => reg'[q] = reg[q]
       /\ reg'[p] = reg[p] \/ (g.ip = "none" /\ g.dp = "none" /\ g.f = "none" /\ g.path = "none")
       /\ RegOK'
    BY <1>3, <1>13, NoRegLocal DEF Core, RegOK
<1>15. Step1(h, p, g, Tail(todo[p]))
    <2>1. todo' = [todo EXCEPT ![p] = Tail(todo[p])]
        BY <1>1, AtStep DEF Iunlock, Then
    <2>2. ops' = [ops EXCEPT ![p] = g.op]
        BY <1>5, <1>12, OpsKept
    <2>3. QED
        BY <2>1, <2>2, <1>2, <1>3, <1>12, <1>14 DEF Step1, Now
<1>16. Core'
    <2>1. TypeOK'
        BY <1>3, <1>11, <1>12 DEF Core, TypeOK, Cached
    <2>2. TreeOK'
        BY <1>3, <1>12, CoreFrame
    <2>3. CacheOK'
        <3>1. CacheOK
            BY <1>3 DEF Core
        <3>2. /\ icache[k].inum \in Inums /\ disk[icache[k].inum].type # "free"
              /\ icache[k].valid => /\ disk[icache[k].inum].type = icache[k].type
                                    /\ disk[icache[k].inum].nlink = icache[k].nlink
              /\ \A m \in 1..NINODE : m # k /\ icache[m].ref > 0 => icache[m].inum # icache[k].inum
            BY <3>1, <1>6 DEF CacheOK
        <3>3. icache'[k].valid => icache[k].valid
            BY <1>10
        <3>4. /\ icache'[k].inum \in Inums /\ disk[icache'[k].inum].type # "free"
              /\ icache'[k].valid => /\ disk[icache'[k].inum].type = icache'[k].type
                                     /\ disk[icache'[k].inum].nlink = icache'[k].nlink
              /\ \A m \in 1..NINODE : m # k /\ icache[m].ref > 0 => icache[m].inum # icache'[k].inum
            BY <3>2, <3>3, <1>10
        <3>5. icache'[k].lock = NONE /\ disk' = disk
            BY <1>10, <1>12
        <3>6. QED
            BY <3>1, <3>4, <3>5, <1>6, <1>9, CacheStep
    <2>4. PanicOnlyWhenFull'
        BY <1>3, <1>7, <1>9, <1>10, <1>12 DEF Core, PanicOnlyWhenFull
    <2>5. QED
        BY <2>1, <2>2, <2>3, <2>4, <1>14 DEF Core
<1>17. h[p].ip = "lock" /\ h[p].dp = "lock" => reg[p].ip # reg[p].dp
    BY <1>3 DEF Books, NoCycle, Fresh
<1>18. Locked(p, g)
    <2>1. ASSUME NEW m \in 1..NINODE, m # k, icache[m].lock = p PROVE Locking(p, g, m)'
        <3>1. Locking(p, h[p], m)
            BY <2>1, <1>3, OwnLock
        <3>2. r = "dp" /\ h[p].ip = "lock" /\ reg[p].ip = m
            BY <3>1, <2>1, <1>5, <1>6 DEF Locking
        <3>3. QED
            BY <3>2, <1>5, <1>14 DEF Locking
    <2>2. QED
        BY <2>1, <1>9, <1>10 DEF Locked
<1>19. Others(p)
    BY <1>6, <1>9, <1>10, <1>12 DEF Others
<1>20. Counted(h, p, g)
    <2>1. ASSUME NEW m \in 1..NINODE PROVE icache'[m].ref = icache[m].ref /\ icache[m].ref \in Nat
        BY <1>8, <1>9, <1>10 DEF Cached
    <2>2. ASSUME NEW m \in 1..NINODE PROVE Held(p, g, m)' = Held(p, h[p], m) /\ Held(p, h[p], m) \in Int
        BY <1>5, <1>12, <1>14 DEF Held, One
    <2>3. QED
        BY <2>1, <2>2 DEF Counted
<1>21. NameLocal(p, g)'
    <2>1. h[p].path \in {"last", "absent"} => icache'[reg[p].ip].inum = icache[reg[p].ip].inum
        <3>1. SUFFICES ASSUME h[p].path \in {"last", "absent"} PROVE icache'[reg[p].ip].inum = icache[reg[p].ip].inum
            OBVIOUS
        <3>2. reg[p].ip \in 1..NINODE
            BY <3>1, <1>3 DEF NameLocal, InodeLocal
        <3>3. QED
            BY <3>2, <1>9, <1>10
    <2>2. CASE g.path = "none"
        BY <2>2 DEF NameLocal
    <2>3. CASE reg'[p] = reg[p]
        BY <2>1, <2>3, <1>3, <1>4, <1>5, <1>12 DEF NameLocal
    <2>4. QED
        BY <2>2, <2>3, <1>14
<1>22. InodeLocal(p, g)'
    BY <1>3, <1>5, <1>6, <1>9, <1>12, <1>14, <1>17 DEF InodeLocal
<1>23. NoCycle([h EXCEPT ![p] = g])'
    BY <1>5, <1>14, <1>15, NoCycleStep DEF Fresh
<1>24. Inode1(h, p, g, Tail(todo[p]))
    BY <1>5, <1>12, <1>14, <1>15 DEF Inode1
<1>25. QED
    BY <1>16, <1>18, <1>19, <1>20, <1>21, <1>22, <1>23, <1>24, InodeStep

LEMMA IputLockedStep ==
    ASSUME NEW h, Now(h), NEW p \in Procs, NEW r \in Registers, IputLocked(p, r)
    PROVE  FullInv'
<1> DEFINE s == <<"iput", r>>
<1>0. PICK k : k = Index(p, r)
    OBVIOUS
<1>1. At(p, s) /\ s[1] = "iput" /\ s[2] = r
    BY DEF IputLocked
<1>2. PICK g \in Holdings : Trans(s, h[p], g) /\ Fits(Tail(todo[p]), g)
    BY <1>1, AtStep
<1>3. /\ panicked = "no" /\ Books(h) /\ h[p] \in Holdings /\ h \in [Procs -> Holdings] /\ Core
      /\ InodeLocal(p, h[p]) /\ Accounts(h)
    BY <1>1, AtStep DEF Now
<1>4. /\ g = h[p]
      /\ (r = "ip" /\ h[p].ip = "ref") \/ (r = "dp" /\ h[p].dp = "ref") \/ (r = "cwd" /\ h[p].cwd = "own")
    BY <1>1, <1>2 DEF Trans
<1>5. k \in 1..NINODE /\ icache[k].ref >= 1
    <2>1. k = IF r = "cwd" THEN cwd[p] ELSE IF r = "ip" THEN reg[p].ip ELSE reg[p].dp
        BY <1>0, <1>4 DEF Index
    <2>2. k \in 1..NINODE
        BY <2>1, <1>3, <1>4 DEF InodeLocal
    <2>3. UsesInode(p, h[p], k) /\ InodeCount(h)
        BY <2>1, <1>3, <1>4 DEF UsesInode, Books
    <2>4. QED
        BY <2>2, <2>3, <1>3, InodeHeld
<1>6. icache \in [1..NINODE -> Cached] /\ icache[k] \in Cached
    BY <1>3, <1>5 DEF Core, TypeOK, Cached
<1>7. icache[k].inum \in Inums /\ (icache[k].valid => icache[k].nlink # 0)
    <2>1. icache[k].ref > 0
        BY <1>5, <1>6 DEF Cached
    <2>2. icache[k].inum \in Inums /\ disk[icache[k].inum].type # "free"
        BY <2>1, <1>3, <1>5 DEF Core, CacheOK
    <2>3. icache[k].valid => icache[k].nlink = disk[icache[k].inum].nlink
        BY <2>1, <1>3, <1>5 DEF Core, CacheOK
    <2>4. disk[icache[k].inum].nlink >= 1
        BY <2>2, <1>3 DEF Core, TreeOK
    <2>5. QED
        BY <2>2, <2>3, <2>4
<1>8. PICK i \in {icache[k].inum}, last \in {icache[k].valid /\ icache[k].nlink = 0 /\ icache[k].ref = 1} :
            /\ icache' = [icache EXCEPT ![k].valid = @ /\ ~last, ![k].type = Freed(last, @)]
            /\ disk' = [disk EXCEPT ![i].type = Freed(last, @)]
    BY <1>0 DEF IputLocked
<1>9. last = FALSE /\ i \in Inums
    BY <1>7
<1>10. icache' = icache
    <2>1. icache' = [icache EXCEPT ![k].valid = @ /\ TRUE, ![k].type = @]
        BY <1>8, <1>9 DEF Freed
    <2>2. QED
        BY <2>1, <1>5, <1>6 DEF Cached
<1>11. disk' = disk
    <2>1. disk \in [Inums -> [type : Types \cup {"free"}, nlink : Nat]]
        BY <1>3 DEF Core, TypeOK
    <2>2. disk' = [disk EXCEPT ![i].type = @]
        BY <1>8, <1>9 DEF Freed
    <2>3. QED
        BY <2>1, <2>2, <1>9
<1>12. Step1(h, p, g, Tail(todo[p]))
    <2>1. todo' = [todo EXCEPT ![p] = Tail(todo[p])]
        BY <1>1, AtStep DEF IputLocked, Then
    <2>2. ops' = [ops EXCEPT ![p] = g.op]
        BY <1>4, OpsKept DEF IputLocked
    <2>3. QED
        BY <2>1, <2>2, <1>2, <1>3 DEF Step1, Now, IputLocked, fileVars
<1>13. QED
    BY <1>4, <1>10, <1>11, <1>12, TodoStep DEF IputLocked, fileVars

(* A lock counts as a reference of its own. *)
LEMMA LockHeld ==
    ASSUME NEW h \in [Procs -> Holdings], Accounts(h), Books(h), TypeOK, NEW k \in 1..NINODE, icache[k].lock # NONE,
           NEW p \in Procs
    PROVE  /\ h[p].ip = "ref" /\ reg[p].ip = k => icache[k].ref >= 2
           /\ h[p].dp = "ref" /\ reg[p].dp = k => icache[k].ref >= 2
           /\ h[p].cwd = "own" /\ cwd[p] = k => icache[k].ref >= 2
<1>1. /\ IsFiniteSet(IpUsers(h, k)) /\ IsFiniteSet(DpUsers(h, k)) /\ IsFiniteSet(CwdUsers(h, k))
      /\ IsFiniteSet(Users(k))
    BY Finite
<1>2. /\ Cardinality(IpUsers(h, k)) \in Nat /\ Cardinality(DpUsers(h, k)) \in Nat
      /\ Cardinality(CwdUsers(h, k)) \in Nat /\ Cardinality(Users(k)) \in Nat
    BY <1>1, FS_CardinalityType
<1>3. icache[k].ref = Cardinality(IpUsers(h, k)) + Cardinality(DpUsers(h, k))
                      + Cardinality(CwdUsers(h, k)) + Cardinality(Users(k))
    BY DEF Books, InodeCount
<1>4. PICK q \in Procs : Locking(q, h[q], k)
    BY DEF Accounts, Owners, Locking
<1>5. \/ q \in IpUsers(h, k) /\ h[q].ip = "lock"
      \/ q \in DpUsers(h, k) /\ h[q].dp = "lock"
      \/ \E f \in 1..NFILE : f \in Users(k)
    <2>1. CASE h[q].ip = "lock" /\ reg[q].ip = k
        BY <2>1 DEF IpUsers
    <2>2. CASE h[q].dp = "lock" /\ reg[q].dp = k
        BY <2>2 DEF DpUsers
    <2>3. CASE h[q].ip = "uselock" /\ reg[q].ip = k
        <3>1. FileLocal(q, h[q]) /\ ofile \in [Procs -> [1..NOFILE -> 0..NFILE]]
            BY DEF Books, TypeOK
        <3>2. PICK fd \in 1..NOFILE : /\ ofile[q][fd] # 0
                                      /\ ftable[ofile[q][fd]].type = "inode"
                                      /\ ftable[ofile[q][fd]].ip = k
            BY <2>3, <3>1 DEF FileLocal
        <3>3. ofile[q][fd] \in 0..NFILE
            BY <3>1
        <3>4. ofile[q][fd] \in 1..NFILE
            BY <3>2, <3>3
        <3>5. QED
            BY <3>2, <3>4 DEF Users
    <2>4. QED
        BY <2>1, <2>2, <2>3, <1>4 DEF Locking
<1>6. /\ (\E x : x \in IpUsers(h, k)) => Cardinality(IpUsers(h, k)) >= 1
      /\ (\E x : x \in DpUsers(h, k)) => Cardinality(DpUsers(h, k)) >= 1
      /\ (\E x : x \in CwdUsers(h, k)) => Cardinality(CwdUsers(h, k)) >= 1
      /\ (\E x : x \in Users(k)) => Cardinality(Users(k)) >= 1
    BY <1>1, <1>2, Nonempty
<1>7. ASSUME h[p].ip = "ref", reg[p].ip = k PROVE icache[k].ref >= 2
    <2>1. p \in IpUsers(h, k)
        BY <1>7 DEF IpUsers
    <2>2. q \in IpUsers(h, k) /\ h[q].ip = "lock" => Cardinality(IpUsers(h, k)) >= 2
        BY <1>1, <1>7, <2>1, Pair
    <2>3. QED
        BY <2>1, <2>2, <1>2, <1>3, <1>5, <1>6
<1>8. ASSUME h[p].dp = "ref", reg[p].dp = k PROVE icache[k].ref >= 2
    <2>1. p \in DpUsers(h, k)
        BY <1>8 DEF DpUsers
    <2>2. q \in DpUsers(h, k) /\ h[q].dp = "lock" => Cardinality(DpUsers(h, k)) >= 2
        BY <1>1, <1>8, <2>1, Pair
    <2>3. QED
        BY <2>1, <2>2, <1>2, <1>3, <1>5, <1>6
<1>9. ASSUME h[p].cwd = "own", cwd[p] = k PROVE icache[k].ref >= 2
    <2>1. p \in CwdUsers(h, k)
        BY <1>9 DEF CwdUsers
    <2>2. QED
        BY <2>1, <1>2, <1>3, <1>5, <1>6
<1>10. QED
    BY <1>7, <1>8, <1>9

LEMMA DropStep == ASSUME NEW h, Now(h), NEW p \in Procs, NEW r \in Registers, Drop(p, r) PROVE FullInv'
<1> DEFINE s == <<"drop", r>>
<1>0. PICK k : k = Index(p, r)
    OBVIOUS
<1>1. At(p, s) /\ s[1] = "drop" /\ s[2] = r
    BY DEF Drop
<1>2. PICK g \in Holdings : Trans(s, h[p], g) /\ Fits(Tail(todo[p]), g)
    BY <1>1, AtStep
<1>3. /\ panicked = "no" /\ Books(h) /\ h[p] \in Holdings /\ h \in [Procs -> Holdings] /\ Core
      /\ NameLocal(p, h[p]) /\ InodeLocal(p, h[p]) /\ Accounts(h)
    BY <1>1, AtStep DEF Now
<1>4. /\ h[p].path # "absent"
      /\ \/ r = "ip" /\ h[p].ip = "ref" /\ h[p].path = "none" /\ g = [h[p] EXCEPT !.ip = "none"]
         \/ r = "dp" /\ h[p].dp = "ref" /\ g = [h[p] EXCEPT !.dp = "none"]
         \/ r = "cwd" /\ h[p].cwd = "own" /\ g = [h[p] EXCEPT !.cwd = "out"]
    BY <1>1, <1>2 DEF Trans
<1>5. /\ g.op = h[p].op /\ g.f = h[p].f /\ g.path = h[p].path
      /\ g.stale = h[p].stale /\ g.shut = h[p].shut
      /\ \/ /\ r = "ip" /\ h[p].ip = "ref" /\ g.ip = "none" /\ g.dp = h[p].dp /\ g.cwd = h[p].cwd
            /\ g.path = "none"
         \/ r = "dp" /\ h[p].dp = "ref" /\ g.dp = "none" /\ g.ip = h[p].ip /\ g.cwd = h[p].cwd
         \/ r = "cwd" /\ h[p].cwd = "own" /\ g.cwd = "out" /\ g.ip = h[p].ip /\ g.dp = h[p].dp
    BY <1>3, <1>4 DEF Holdings
<1>6. /\ k = IF r = "cwd" THEN cwd[p] ELSE IF r = "ip" THEN reg[p].ip ELSE reg[p].dp
      /\ k \in 1..NINODE /\ icache[k].ref >= 1
      /\ icache[k].lock # NONE => icache[k].ref >= 2
    <2>1. k = IF r = "cwd" THEN cwd[p] ELSE IF r = "ip" THEN reg[p].ip ELSE reg[p].dp
        BY <1>0, <1>4 DEF Index
    <2>2. k \in 1..NINODE
        BY <2>1, <1>3, <1>5 DEF InodeLocal
    <2>3. UsesInode(p, h[p], k) /\ InodeCount(h) /\ TypeOK
        BY <2>1, <1>3, <1>5 DEF UsesInode, Books, Core
    <2>4. icache[k].ref >= 1
        BY <2>2, <2>3, <1>3, InodeHeld
    <2>5. icache[k].lock # NONE => icache[k].ref >= 2
        BY <2>1, <2>2, <2>3, <1>3, <1>5, LockHeld
    <2>6. QED
        BY <2>1, <2>2, <2>4, <2>5
<1>7. icache' = [icache EXCEPT ![k].ref = @ - 1]
    BY <1>0 DEF Drop
<1>8. icache \in [1..NINODE -> Cached] /\ icache[k] \in Cached
    BY <1>3, <1>6 DEF Core, TypeOK, Cached
<1>9. /\ icache'[k] = [icache[k] EXCEPT !.ref = icache[k].ref - 1]
      /\ \A m \in 1..NINODE : m # k => icache'[m] = icache[m]
    BY <1>6, <1>7, <1>8
<1>10. /\ icache'[k].inum = icache[k].inum /\ icache'[k].ref = icache[k].ref - 1
       /\ icache'[k].valid = icache[k].valid /\ icache'[k].lock = icache[k].lock
       /\ icache'[k].type = icache[k].type /\ icache'[k].nlink = icache[k].nlink
       /\ icache'[k] \in Cached
    BY <1>6, <1>8, <1>9 DEF Cached
<1>11. icache' \in [1..NINODE -> Cached]
    <2>1. icache' = [icache EXCEPT ![k] = icache'[k]]
        BY <1>6, <1>7, <1>8
    <2>2. QED
        BY <2>1, <1>6, <1>8, <1>10
<1>12. UNCHANGED <<disk, dir, ftable, ofile, cwd, ops, panicked>>
    BY DEF Drop, fsVars, fileVars
<1>13. /\ RegOK' /\ \A q \in Procs : q # p => reg'[q] = reg[q]
       /\ reg'[p].f = reg[p].f /\ reg'[p].path = reg[p].path /\ reg'[p].parent = reg[p].parent
       /\ r # "ip" => reg'[p].ip = reg[p].ip
       /\ r # "dp" => reg'[p].dp = reg[p].dp
    <2>1. reg \in [Procs -> Locals] /\ 0 \in 0..NINODE
        BY <1>3, FilesAssumption DEF Core, RegOK
    <2>2. CASE r = "cwd"
        BY <2>1, <2>2 DEF Drop, RegOK
    <2>3. CASE r = "ip"
        <3>1. reg' = [reg EXCEPT ![p].ip = 0]
            BY <2>3 DEF Drop
        <3>2. QED
            BY <2>1, <2>3, <3>1 DEF RegOK, Locals
    <2>4. CASE r = "dp"
        <3>1. reg' = [reg EXCEPT ![p].dp = 0]
            BY <2>4 DEF Drop
        <3>2. QED
            BY <2>1, <2>4, <3>1 DEF RegOK, Locals
    <2>5. QED
        BY <2>2, <2>3, <2>4, <1>5
<1>15. Step1(h, p, g, Tail(todo[p]))
    <2>1. todo' = [todo EXCEPT ![p] = Tail(todo[p])]
        BY <1>1, AtStep DEF Drop, Then
    <2>2. ops' = [ops EXCEPT ![p] = g.op]
        BY <1>5, <1>12, OpsKept
    <2>3. QED
        BY <2>1, <2>2, <1>2, <1>3, <1>12, <1>13 DEF Step1, Now
<1>16. Core'
    <2>1. TypeOK'
        BY <1>3, <1>11, <1>12 DEF Core, TypeOK, Cached
    <2>2. TreeOK'
        BY <1>3, <1>12, CoreFrame
    <2>3. CacheOK'
        <3>1. CacheOK /\ icache[k].ref > 0
            BY <1>3, <1>6, <1>8 DEF Core, Cached
        <3>2. /\ icache[k].inum \in Inums /\ disk[icache[k].inum].type # "free"
              /\ icache[k].valid => /\ disk[icache[k].inum].type = icache[k].type
                                    /\ disk[icache[k].inum].nlink = icache[k].nlink
              /\ \A m \in 1..NINODE : m # k /\ icache[m].ref > 0 => icache[m].inum # icache[k].inum
              /\ icache[k].lock # NONE => icache[k].valid
            BY <3>1, <1>6 DEF CacheOK
        <3>3. (icache'[k].valid => icache[k].valid) /\ (icache[k].valid => icache'[k].valid)
            BY <1>10
        <3>4. /\ icache'[k].inum \in Inums /\ disk[icache'[k].inum].type # "free"
              /\ icache'[k].valid => /\ disk[icache'[k].inum].type = icache'[k].type
                                     /\ disk[icache'[k].inum].nlink = icache'[k].nlink
              /\ \A m \in 1..NINODE : m # k /\ icache[m].ref > 0 => icache[m].inum # icache'[k].inum
            BY <3>2, <3>3, <1>10
        <3>5. (icache'[k].lock # NONE => icache'[k].valid /\ icache'[k].ref > 0) /\ disk' = disk
            <4>1. icache[k].lock # NONE => icache[k].ref - 1 > 0
                BY <1>6, <1>8 DEF Cached
            <4>2. QED
                BY <4>1, <3>2, <3>3, <1>10, <1>12
        <3>6. QED
            BY <3>1, <3>4, <3>5, <1>6, <1>9, CacheStep
    <2>4. PanicOnlyWhenFull'
        BY <1>3, <1>12 DEF Core, PanicOnlyWhenFull
    <2>5. QED
        BY <2>1, <2>2, <2>3, <2>4, <1>13 DEF Core
<1>18. Locked(p, g)
    <2>1. ASSUME NEW m \in 1..NINODE, icache[m].lock = p PROVE Locking(p, g, m)'
        <3>1. Locking(p, h[p], m)
            BY <2>1, <1>3, OwnLock
        <3>2. QED
            BY <3>1, <1>5, <1>13 DEF Locking
    <2>2. ASSUME NEW m \in 1..NINODE PROVE icache'[m].lock = icache[m].lock
        BY <1>9, <1>10
    <2>3. QED
        BY <2>1, <2>2 DEF Locked
<1>19. Others(p)
    BY <1>6, <1>9, <1>10, <1>12 DEF Others
<1>20. Counted(h, p, g)
    <2>1. ASSUME NEW m \in 1..NINODE
          PROVE  icache'[m].ref = icache[m].ref - One(m = k) /\ icache[m].ref \in Nat
        BY <1>8, <1>9, <1>10 DEF Cached, One
    <2>2. ASSUME NEW m \in 1..NINODE
          PROVE  Held(p, g, m)' = Held(p, h[p], m) - One(m = k) /\ Held(p, h[p], m) \in Int
        BY <1>5, <1>6, <1>12, <1>13 DEF Held, One
    <2>3. ASSUME NEW m \in 1..NINODE
          PROVE  icache'[m].ref = icache[m].ref - Held(p, h[p], m) + Held(p, g, m)'
        <3>1. One(m = k) \in Int
            BY DEF One
        <3>2. QED
            BY <3>1, <2>1, <2>2
    <2>4. QED
        BY <2>3 DEF Counted
<1>21. NameLocal(p, g)'
    <2>1. CASE g.path = "none"
        BY <2>1 DEF NameLocal
    <2>2. CASE g.path # "none"
        <3>1. reg'[p].ip = reg[p].ip /\ g.ip = h[p].ip /\ g.path = h[p].path
            BY <2>2, <1>5, <1>13
        <3>2. g.path \in {"last", "absent"} => icache'[reg[p].ip].inum = icache[reg[p].ip].inum
            BY <3>1, <1>3, <1>9, <1>10 DEF NameLocal, InodeLocal
        <3>3. QED
            BY <3>1, <3>2, <1>3, <1>4, <1>12, <1>13 DEF NameLocal
    <2>3. QED
        BY <2>1, <2>2
<1>22. InodeLocal(p, g)'
    <2>1. ASSUME NEW m, icache[m].lock = p, m \in 1..NINODE PROVE icache'[m].lock = p
        BY <2>1, <1>9, <1>10
    <2>2. h[p].ip = "uselock" => reg[p].ip \in 1..NINODE
        BY <1>3, UseInode DEF Core
    <2>3. QED
        BY <2>1, <2>2, <1>3, <1>5, <1>6, <1>12, <1>13 DEF InodeLocal
<1>23. NoCycle([h EXCEPT ![p] = g])'
    BY <1>5, <1>13, <1>15, NoCycleStep DEF Fresh
<1>24. Inode1(h, p, g, Tail(todo[p]))
    BY <1>5, <1>12, <1>13, <1>15 DEF Inode1
<1>25. QED
    BY <1>16, <1>18, <1>19, <1>20, <1>21, <1>22, <1>23, <1>24, InodeStep

-----------------------------------------------------------------------------
(* Steps that take a reference *)

(* An entry that iget() may return for an inode. *)
GoodSlot(k, inum) ==
    /\ k \in 1..NINODE
    /\ icache[k].ref > 0 => icache[k].inum = inum
    /\ icache[k].ref = 0 => \A m \in 1..NINODE : icache[m].ref > 0 => icache[m].inum # inum

LEMMA Slots ==
    ASSUME TypeOK, NEW inum
    PROVE  \/ Slot(inum) = 0 /\ \A k \in 1..NINODE : icache[k].ref > 0
           \/ GoodSlot(Slot(inum), inum)
<1> DEFINE cached == {k \in 1..NINODE : icache[k].ref > 0 /\ icache[k].inum = inum}
           unused == {k \in 1..NINODE : icache[k].ref = 0}
<1>1. \A k \in 1..NINODE : icache[k].ref \in Nat
    BY DEF TypeOK
<1>2. Slot(inum) = IF cached # {} THEN Min(cached) ELSE IF unused # {} THEN Min(unused) ELSE 0
    BY DEF Slot
<1>3. NINODE \in Nat
    BY FilesAssumption
<1>4. cached # {} => Min(cached) \in cached
    BY <1>3, MinIn
<1>5. unused # {} => Min(unused) \in unused
    BY <1>3, MinIn
<1>6. CASE cached # {}
    BY <1>2, <1>4, <1>6 DEF GoodSlot
<1>7. CASE cached = {} /\ unused # {}
    BY <1>2, <1>5, <1>7 DEF GoodSlot
<1>8. CASE cached = {} /\ unused = {}
    BY <1>1, <1>2, <1>8
<1>9. QED
    BY <1>6, <1>7, <1>8

LEMMA IgetTakes ==
    ASSUME Core, disk' = disk, NEW inum \in Inums, disk[inum].type # "free",
           NEW k, GoodSlot(k, inum), Iget(k, inum)
    PROVE  /\ k \in 1..NINODE /\ icache' \in [1..NINODE -> Cached] /\ CacheOK'
           /\ \A m \in 1..NINODE : m # k => icache'[m] = icache[m]
           /\ icache'[k].inum = inum /\ icache'[k].ref = icache[k].ref + 1
           /\ icache'[k].lock = icache[k].lock
<1>1. /\ k \in 1..NINODE /\ icache \in [1..NINODE -> Cached] /\ CacheOK /\ k # 0
      /\ icache[k] \in Cached
    BY DEF GoodSlot, Core, TypeOK, Cached
<1>2. CASE icache[k].ref > 0
    <2>1. icache' = [icache EXCEPT ![k].ref = @ + 1] /\ icache[k].inum = inum
        BY <1>1, <1>2 DEF Iget, GoodSlot
    <2>2. /\ icache'[k] = [icache[k] EXCEPT !.ref = icache[k].ref + 1]
          /\ \A m \in 1..NINODE : m # k => icache'[m] = icache[m]
          /\ icache' = [icache EXCEPT ![k] = icache'[k]]
        BY <1>1, <2>1
    <2>3. /\ icache'[k].inum = inum /\ icache'[k].ref = icache[k].ref + 1
          /\ icache'[k].lock = icache[k].lock /\ icache'[k].type = icache[k].type
          /\ icache'[k].nlink = icache[k].nlink /\ icache'[k].valid = icache[k].valid
          /\ icache'[k] \in Cached
        BY <1>1, <2>1, <2>2 DEF Cached
    <2>4. icache' \in [1..NINODE -> Cached]
        BY <1>1, <2>2, <2>3
    <2>5. /\ icache[k].valid => /\ disk[inum].type = icache[k].type
                                /\ disk[inum].nlink = icache[k].nlink
          /\ \A m \in 1..NINODE : m # k /\ icache[m].ref > 0 => icache[m].inum # inum
          /\ icache[k].lock # NONE => icache[k].valid
        BY <1>1, <1>2, <2>1 DEF CacheOK
    <2>6. icache'[k].ref > 0
        BY <1>1, <1>2, <2>3 DEF Cached
    <2>7. (icache'[k].valid => icache[k].valid) /\ (icache[k].valid => icache'[k].valid)
        BY <2>3
    <2>8. CacheOK'
        BY <1>1, <2>2, <2>3, <2>5, <2>6, <2>7, CacheStep
    <2>9. QED
        BY <1>1, <2>2, <2>3, <2>4, <2>8
<1>3. CASE icache[k].ref = 0
    <2>1. icache' = [icache EXCEPT ![k].inum = inum, ![k].ref = 1, ![k].valid = FALSE]
        BY <1>1, <1>3 DEF Iget
    <2>2. /\ icache'[k] = [icache[k] EXCEPT !.inum = inum, !.ref = 1, !.valid = FALSE]
          /\ \A m \in 1..NINODE : m # k => icache'[m] = icache[m]
          /\ icache' = [icache EXCEPT ![k] = icache'[k]]
        BY <1>1, <2>1 DEF Cached
    <2>3. /\ icache'[k].inum = inum /\ icache'[k].ref = 1 /\ ~icache'[k].valid
          /\ icache'[k].lock = icache[k].lock /\ icache'[k] \in Cached
        <3>1. inum \in Inums \cup {0} /\ FALSE \in BOOLEAN /\ 1 \in Nat
            OBVIOUS
        <3>2. /\ icache'[k].inum = inum /\ icache'[k].ref = 1 /\ icache'[k].valid = FALSE
              /\ icache'[k].lock = icache[k].lock
            BY <1>1, <2>2 DEF Cached
        <3>3. icache'[k] \in Cached
            BY <1>1, <2>2, <3>1 DEF Cached
        <3>4. QED
            BY <3>2, <3>3
    <2>4. icache' \in [1..NINODE -> Cached]
        BY <1>1, <2>2, <2>3
    <2>5. icache[k].lock = NONE /\ \A m \in 1..NINODE : icache[m].ref > 0 => icache[m].inum # inum
        BY <1>1, <1>3 DEF CacheOK, GoodSlot
    <2>6. CacheOK'
        BY <1>1, <2>2, <2>3, <2>5, CacheStep
    <2>7. QED
        BY <1>1, <1>3, <2>2, <2>3, <2>4, <2>6
<1>4. QED
    BY <1>1, <1>2, <1>3 DEF Cached

(* p takes a reference in ip; it may keep a locked directory, now in dp. *)
LEMMA GetStep ==
    ASSUME NEW h, NEW p, NEW g, NEW t, Step1(h, p, g, t),
           NEW inum \in Inums, disk[inum].type # "free", NEW k, Iget(k, inum),
           GoodSlot(k, inum) \/ (k = 0 /\ \A m \in 1..NINODE : icache[m].ref > 0),
           Check(k # 0, "iget"),
           UNCHANGED <<disk, dir, ftable, ofile, cwd>>,
           RegOK', reg'[p].ip = k, reg'[p].f = reg[p].f,
           g.f = h[p].f, g.stale = h[p].stale, g.shut = h[p].shut, g.cwd = h[p].cwd, g.ip = "ref",
           h[p].dp = "none",
           \/ h[p].ip = "none" /\ g.dp = "none"
           \/ h[p].ip = "lock" /\ g.dp = "lock" /\ reg'[p].dp = reg[p].ip,
           NameLocal(p, g)'
    PROVE  FullInv'
<1>1. /\ Core /\ Accounts(h) /\ Books(h) /\ h \in [Procs -> Holdings] /\ p \in Procs /\ g \in Holdings
      /\ h[p] \in Holdings /\ InodeLocal(p, h[p]) /\ panicked = "no"
      /\ icache \in [1..NINODE -> Cached]
    BY DEF Step1, Accounts, Books, Core, TypeOK, Cached
<1>2. k \in 1..NINODE \/ (k = 0 /\ \A m \in 1..NINODE : icache[m].ref > 0)
    BY DEF GoodSlot
<1>3. CASE k # 0
    <2>1. GoodSlot(k, inum) /\ panicked' = "no"
        BY <1>1, <1>3 DEF Check
    <2>2. /\ k \in 1..NINODE /\ icache' \in [1..NINODE -> Cached] /\ CacheOK'
          /\ \A m \in 1..NINODE : m # k => icache'[m] = icache[m]
          /\ icache'[k].inum = inum /\ icache'[k].ref = icache[k].ref + 1
          /\ icache'[k].lock = icache[k].lock
        BY <1>1, <2>1, IgetTakes
    <2>3. Core'
        <3>1. TypeOK'
            BY <1>1, <2>2, ControlStep DEF Core, TypeOK, Cached
        <3>2. TreeOK'
            BY <1>1, CoreFrame
        <3>3. PanicOnlyWhenFull'
            BY <2>1 DEF PanicOnlyWhenFull
        <3>4. QED
            BY <2>2, <3>1, <3>2, <3>3 DEF Core
    <2>4. Locked(p, g)
        <3>1. ASSUME NEW m \in 1..NINODE, icache[m].lock = p PROVE Locking(p, g, m)'
            <4>1. Locking(p, h[p], m)
                BY <3>1, <1>1, OwnLock
            <4>2. QED
                BY <4>1 DEF Locking
        <3>2. ASSUME NEW m \in 1..NINODE PROVE icache'[m].lock = icache[m].lock
            BY <2>2
        <3>3. QED
            BY <3>1, <3>2 DEF Locked
    <2>5. Others(p)
        BY <2>1, <2>2 DEF Others, GoodSlot
    <2>6. Counted(h, p, g)
        <3>1. ASSUME NEW m \in 1..NINODE
              PROVE  icache'[m].ref = icache[m].ref - Held(p, h[p], m) + Held(p, g, m)'
            <4>1. icache'[m].ref = icache[m].ref + One(m = k) /\ icache[m].ref \in Nat
                BY <1>1, <2>2 DEF Cached, One
            <4>2. Held(p, g, m)' = Held(p, h[p], m) + One(m = k) /\ Held(p, h[p], m) \in Int
                BY DEF Held, One
            <4>3. One(m = k) \in Int
                BY DEF One
            <4>4. QED
                BY <4>1, <4>2, <4>3
        <3>2. QED
            BY <3>1 DEF Counted
    <2>7. InodeLocal(p, g)'
        BY <1>1, <2>2 DEF InodeLocal
    <2>8. NoCycle([h EXCEPT ![p] = g])'
        BY NoCycleStep DEF Fresh
    <2>9. Inode1(h, p, g, t)
        BY DEF Inode1
    <2>10. QED
        BY <2>3, <2>4, <2>5, <2>6, <2>7, <2>8, <2>9, InodeStep
<1>4. CASE k = 0
    <2>1. panicked' = "iget" /\ icache' = icache
        BY <1>4 DEF Check, Iget
    <2>2. \A m \in 1..NINODE : icache[m].ref > 0
        BY <1>4 DEF GoodSlot
    <2>3. Core'
        <3>1. TypeOK'
            BY <1>1, <2>1, ControlStep DEF Core, TypeOK, Cached
        <3>2. TreeOK' /\ CacheOK'
            BY <1>1, <2>1, CoreFrame
        <3>3. PanicOnlyWhenFull'
            BY <2>1, <2>2 DEF PanicOnlyWhenFull
        <3>4. QED
            BY <3>1, <3>2, <3>3 DEF Core
    <2>4. Locked(p, g)
        <3>1. ASSUME NEW m \in 1..NINODE, icache[m].lock = p PROVE Locking(p, g, m)'
            <4>1. Locking(p, h[p], m)
                BY <3>1, <1>1, OwnLock
            <4>2. QED
                BY <4>1 DEF Locking
        <3>2. QED
            BY <3>1, <2>1 DEF Locked
    <2>5. Inode1(h, p, g, t)
        BY DEF Inode1
    <2>6. QED
        BY <2>1, <2>3, <2>4, <2>5, InodeStep
<1>5. QED
    BY <1>3, <1>4

LEMMA RelativeName ==
    ASSUME NEW path \in Seq(Names \cup {"/"}), path # <<>>, Head(path) # "/", Tail(path) \in Seq(Names)
    PROVE  path \in Seq(Names)
<1>1. Len(path) \in Nat \ {0} /\ path \in [1..Len(path) -> Names \cup {"/"}]
    OBVIOUS
<1>2. ASSUME NEW i \in 1..Len(path) PROVE path[i] \in Names
    <2>1. CASE i = 1
        <3>1. path[1] = Head(path) /\ path[1] \in Names \cup {"/"}
            BY <1>1
        <3>2. QED
            BY <2>1, <3>1
    <2>2. CASE i # 1
        <3>1. i - 1 \in 1..Len(Tail(path)) /\ Tail(path)[i - 1] = path[i]
            BY <2>2, <1>1
        <3>2. QED
            BY <3>1
    <2>3. QED
        BY <2>1, <2>2
<1>3. path \in [1..Len(path) -> Names]
    BY <1>1, <1>2
<1>4. QED
    BY <1>1, <1>3, IsASeq

(* A process that refers to an inode and has its directory locked. *)
Parent(x, w) == [op |-> 1, ip |-> x, dp |-> "lock", f |-> "none", cwd |-> "own",
                 path |-> w, stale |-> 0, shut |-> 0]

LEMMA ParentLeads ==
    ASSUME NEW x \in {"ref", "lock"}, NEW w \in {"none", "walk", "walkparent"}
    PROVE  Parent(x, w) \in Holdings /\ Leads(Iunlockput("dp"), Parent(x, w), InOp(x, w, "none"))
<1> DEFINE h == Parent(x, w)
           g == InOp(x, w, "none")
<1>1. g \in Holdings
    BY HoldingTypes DEF Lookups, Inodes
<1>2. h \in Holdings
    <2>1. 0 \in 0..NOFILE
        BY FilesAssumption
    <2>2. QED
        BY <2>1 DEF Holdings, Parent
<1>3. /\ h.path # "absent" /\ h.dp = "lock" /\ h.ip # "uselock"
    BY DEF Parent
<1>4. [h EXCEPT !.dp = "none"] = g
    BY <1>1, <1>2, HoldingSet DEF InOp, Parent
<1> HIDE DEF h, g
<1>5. Leads(Iunlockput("dp"), h, g)
    BY <1>1, <1>2, <1>3, <1>4, IunlockputSteps
<1>6. QED
    BY <1>2, <1>5 DEF h, g

LEMMA ParentWalk ==
    ASSUME NEW t, NEW path
    PROVE  /\ Fits(t, InOp("ref", "none", "none")) /\ path # <<>> =>
                Fits(Iunlockput("dp") \o Walk(path) \o t, Parent("ref", "walk"))
           /\ Fits(t, InOp("ref", "last", "none")) /\ path # <<>> =>
                Fits(Iunlockput("dp") \o Walk(path) \o t, Parent("ref", "walkparent"))
           /\ Fits(t, InOp("ref", "none", "none")) /\ path = <<>> =>
                Fits(Iunlockput("dp") \o Walk(path) \o t, Parent("ref", "none"))
<1>1. <<"ilock", "ip">> \in Steps /\ <<"element">> \in Steps
    BY NameSteps
<1>2. /\ Leads(<<<<"ilock", "ip">>, <<"element">>>>, InOp("ref", "walk", "none"), InOp("ref", "none", "none"))
      /\ Leads(<<<<"ilock", "ip">>, <<"element">>>>, InOp("ref", "walkparent", "none"), InOp("ref", "last", "none"))
    BY <1>1, LockNaming, NamexSteps, Leads2
<1>3. path # <<>> =>
        /\ Leads(Iunlockput("dp") \o Walk(path), Parent("ref", "walk"), InOp("ref", "none", "none"))
        /\ Leads(Iunlockput("dp") \o Walk(path), Parent("ref", "walkparent"), InOp("ref", "last", "none"))
    BY <1>2, ParentLeads, LeadsConcat DEF Walk
<1>4. path = <<>> => Leads(Iunlockput("dp") \o Walk(path), Parent("ref", "none"), InOp("ref", "none", "none"))
    <2>1. Leads(Iunlockput("dp"), Parent("ref", "none"), InOp("ref", "none", "none"))
        BY ParentLeads
    <2>2. Iunlockput("dp") \in Seq(Steps)
        BY <2>1, LeadsHolding
    <2>3. Iunlockput("dp") \o <<>> = Iunlockput("dp")
        BY <2>2
    <2>4. QED
        BY <2>1, <2>3 DEF Walk
<1>5. QED
    BY <1>3, <1>4, FitsConcat

LEMMA NamexStep == ASSUME NEW h, Now(h), NEW p \in Procs, Namex(p) PROVE FullInv'
<1>1. At(p, <<"namex">>)
    BY DEF Namex
<1>2. PICK e \in Holdings : Trans(<<"namex">>, h[p], e) /\ Fits(Tail(todo[p]), e)
    BY <1>1, AtStep
<1>3. /\ panicked = "no" /\ Books(h) /\ h[p] \in Holdings /\ h \in [Procs -> Holdings] /\ Core
      /\ NameLocal(p, h[p]) /\ InodeLocal(p, h[p]) /\ Accounts(h)
    BY <1>1, AtStep DEF Now
<1>4. \/ h[p] = InOp("none", "name", "none") /\ e = InOp("ref", "none", "none")
      \/ h[p] = InOp("none", "parent", "none") /\ e = InOp("ref", "last", "none")
    BY <1>2 DEF Trans
<1>5. /\ h[p].ip = "none" /\ h[p].dp = "none" /\ h[p].f = "none" /\ h[p].cwd = "own" /\ h[p].stale = 0
      /\ h[p].shut = 0 /\ h[p].op = 1
      /\ \/ h[p].path = "name" /\ e = InOp("ref", "none", "none")
         \/ h[p].path = "parent" /\ e = InOp("ref", "last", "none")
    BY <1>4 DEF InOp
<1>6. PICK root \in {Head(reg[p].path) = "/"} :
      \E inum \in {IF root THEN 1 ELSE icache[cwd[p]].inum} :
       \E k \in {IF root THEN Slot(1) ELSE cwd[p]},
          rest \in {IF root THEN Tail(reg[p].path) ELSE reg[p].path} :
          /\ Iget(k, inum)
          /\ Check(k # 0, "iget")
          /\ reg' = [reg EXCEPT ![p].ip = k, ![p].path = rest]
          /\ IF rest = <<>> /\ reg[p].parent THEN Fail(p, Iput("ip")) ELSE Then(p, Walk(rest))
    BY DEF Namex
<1>7. PICK inum \in {IF root THEN 1 ELSE icache[cwd[p]].inum} :
       \E k \in {IF root THEN Slot(1) ELSE cwd[p]},
          rest \in {IF root THEN Tail(reg[p].path) ELSE reg[p].path} :
          /\ Iget(k, inum)
          /\ Check(k # 0, "iget")
          /\ reg' = [reg EXCEPT ![p].ip = k, ![p].path = rest]
          /\ IF rest = <<>> /\ reg[p].parent THEN Fail(p, Iput("ip")) ELSE Then(p, Walk(rest))
    BY <1>6
<1>8. PICK k \in {IF root THEN Slot(1) ELSE cwd[p]}, rest \in {IF root THEN Tail(reg[p].path) ELSE reg[p].path} :
          /\ Iget(k, inum)
          /\ Check(k # 0, "iget")
          /\ reg' = [reg EXCEPT ![p].ip = k, ![p].path = rest]
          /\ IF rest = <<>> /\ reg[p].parent THEN Fail(p, Iput("ip")) ELSE Then(p, Walk(rest))
    BY <1>7
<1>9. TypeOK /\ RegOK /\ TreeOK /\ CacheOK
    BY <1>3 DEF Core
<1>10. reg[p].path \in Seq(Names \cup {"/"}) /\ reg[p].path # <<>> /\ Tail(reg[p].path) \in Seq(Names)
    BY <1>3, <1>5, <1>9 DEF NameLocal, RegOK, Locals
<1>11. rest \in Seq(Names) /\ rest \in Seq(Names \cup {"/"})
    <2>1. rest \in Seq(Names)
        <3>1. CASE root
            BY <3>1, <1>10
        <3>2. CASE ~root
            <4>1. Head(reg[p].path) # "/"
                BY <3>2, <1>6
            <4>2. QED
                BY <4>1, <3>2, <1>10, RelativeName
        <3>3. QED
            BY <3>1, <3>2
    <2>2. QED
        BY <2>1, <1>10
<1>12. /\ inum \in Inums /\ disk[inum].type # "free"
       /\ GoodSlot(k, inum) \/ (k = 0 /\ \A m \in 1..NINODE : icache[m].ref > 0)
    <2>1. CASE root
        <3>1. inum = 1 /\ k = Slot(1)
            BY <2>1
        <3>2. 1 \in Inums /\ disk[1].type # "free"
            BY <1>9, FilesAssumption DEF Inums, TreeOK
        <3>3. QED
            BY <3>1, <3>2, <1>9, Slots
    <2>2. CASE ~root
        <3>1. inum = icache[cwd[p]].inum /\ k = cwd[p]
            BY <2>2, <1>6
        <3>2. k \in 1..NINODE /\ UsesInode(p, h[p], k) /\ InodeCount(h)
            BY <3>1, <1>3, <1>5 DEF InodeLocal, UsesInode, Books
        <3>3. icache[k].ref >= 1 /\ icache[k].ref \in Nat
            BY <3>2, <1>3, InodeHeld
        <3>4. icache[k].ref > 0 /\ icache[k].ref # 0
            BY <3>3
        <3>5. inum \in Inums /\ disk[inum].type # "free"
            BY <3>1, <3>2, <3>4, <1>9 DEF CacheOK
        <3>6. QED
            BY <3>1, <3>2, <3>4, <3>5 DEF GoodSlot
    <2>3. QED
        BY <2>1, <2>2, <1>6
<1>13. /\ RegOK' /\ \A q \in Procs : q # p => reg'[q] = reg[q]
       /\ reg'[p].ip = k /\ reg'[p].path = rest /\ reg'[p].f = reg[p].f /\ reg'[p].parent = reg[p].parent
    <2>1. k \in 0..NINODE
        BY <1>12, FilesAssumption DEF GoodSlot
    <2>2. reg \in [Procs -> Locals]
        BY <1>9 DEF RegOK
    <2>3. QED
        BY <2>1, <2>2, <1>8, <1>11 DEF RegOK, Locals
<1>14. PICK g, t :
           /\ g \in Holdings /\ todo' = [todo EXCEPT ![p] = t] /\ Fits(t, g)
           /\ \/ g = InOp("ref", "none", "none")
              \/ g = InOp("ref", "walk", "none") /\ rest # <<>> /\ h[p].path = "name"
              \/ g = InOp("ref", "walkparent", "none") /\ rest # <<>> /\ h[p].path = "parent"
    <2>0. \A w \in {"none", "walk", "walkparent"} : InOp("ref", w, "none") \in Holdings
        BY HoldingTypes DEF Lookups, Inodes
    <2>1. CASE rest = <<>> /\ reg[p].parent
        <3>1. todo' = [todo EXCEPT ![p] = Iput("ip") \o <<<<"end_op">>>>]
            BY <2>1, <1>8 DEF Fail
        <3>2. QED
            BY <2>0, <3>1, FailFits
    <2>2. CASE ~(rest = <<>> /\ reg[p].parent)
        <3>1. todo' = [todo EXCEPT ![p] = Walk(rest) \o Tail(todo[p])]
            BY <2>2, <1>8 DEF Then
        <3>2. h[p].path = "parent" => rest # <<>>
            BY <2>2, <1>3 DEF NameLocal
        <3>3. CASE h[p].path = "name" /\ rest = <<>>
            BY <2>0, <3>1, <3>3, <1>2, <1>5, WalkFits
        <3>4. CASE h[p].path = "name" /\ rest # <<>>
            BY <2>0, <3>1, <3>4, <1>2, <1>5, WalkFits
        <3>5. CASE h[p].path = "parent"
            BY <2>0, <3>1, <3>2, <3>5, <1>2, <1>5, WalkFits
        <3>6. QED
            BY <3>3, <3>4, <3>5, <1>5
    <2>3. QED
        BY <2>1, <2>2
<1>15. /\ g.op = 1 /\ g.ip = "ref" /\ g.dp = "none" /\ g.f = "none" /\ g.cwd = "own" /\ g.stale = 0
       /\ g.shut = 0
       /\ \/ g.path = "none"
          \/ g.path = "walk" /\ rest # <<>> /\ h[p].path = "name"
          \/ g.path = "walkparent" /\ rest # <<>> /\ h[p].path = "parent"
    BY <1>14 DEF InOp
<1>16. UNCHANGED <<disk, dir, ftable, ofile, cwd, ops>>
    BY DEF Namex, fsVars, fileVars
<1>17. ops' = [ops EXCEPT ![p] = g.op]
    BY <1>5, <1>15, <1>16, OpsKept
<1>18. Step1(h, p, g, t)
    BY <1>3, <1>13, <1>14, <1>16, <1>17 DEF Step1, Now
<1>19. NameLocal(p, g)'
    BY <1>3, <1>11, <1>13, <1>15 DEF NameLocal
<1>20. Iget(k, inum) /\ Check(k # 0, "iget")
    BY <1>8
<1>21. QED
    BY <1>5, <1>12, <1>13, <1>15, <1>16, <1>18, <1>19, <1>20, GetStep

(* The inode that p has locked in ip, and what dirlookup() finds in it. *)
LEMMA LockedInode ==
    ASSUME NEW h, Now(h), Books(h), NEW p \in Procs, h[p].ip = "lock"
    PROVE  /\ reg[p].ip \in 1..NINODE /\ icache[reg[p].ip].ref > 0 /\ icache[reg[p].ip].lock = p
           /\ icache[reg[p].ip].inum \in Inums /\ icache[reg[p].ip].valid
           /\ disk[icache[reg[p].ip].inum].type = icache[reg[p].ip].type
           /\ disk[icache[reg[p].ip].inum].nlink = icache[reg[p].ip].nlink
           /\ disk[icache[reg[p].ip].inum].type # "free"
<1>1. CacheOK /\ InodeLocal(p, h[p]) /\ p # NONE
    BY FilesAssumption DEF Now, Core, Books
<1>2. reg[p].ip \in 1..NINODE /\ icache[reg[p].ip].lock = p
    BY <1>1 DEF InodeLocal
<1>3. icache[reg[p].ip].valid /\ icache[reg[p].ip].ref > 0
    BY <1>1, <1>2 DEF CacheOK
<1>4. QED
    BY <1>1, <1>2, <1>3 DEF CacheOK

LEMMA Finds ==
    ASSUME NEW h, Now(h), Books(h), NEW p \in Procs, h[p].ip = "lock",
           reg[p].path \in Seq(Names), reg[p].path # <<>>
    PROVE  /\ Found(p) \in Inums \cup {0} /\ Head(reg[p].path) \in Names
           /\ Found(p) # 0 => Found(p) \in Inums /\ disk[Found(p)].type # "free"
<1>1. TreeOK /\ dir \in [Inums -> [Names -> Inums \cup {0}]]
    BY DEF Now, Core, TypeOK
<1>2. icache[reg[p].ip].inum \in Inums /\ Head(reg[p].path) \in Names
    BY LockedInode
<1>3. Found(p) \in Inums \cup {0}
    BY <1>1, <1>2 DEF Found
<1>4. Found(p) # 0 => disk[Found(p)].type # "free"
    BY <1>1, <1>2 DEF Found, TreeOK
<1>5. QED
    BY <1>2, <1>3, <1>4

LEMMA ElementStep == ASSUME NEW h, Now(h), NEW p \in Procs, Element(p) PROVE FullInv'
<1>1. At(p, <<"element">>)
    BY DEF Element
<1>2. PICK e \in Holdings : Trans(<<"element">>, h[p], e) /\ Fits(Tail(todo[p]), e)
    BY <1>1, AtStep
<1>3. /\ panicked = "no" /\ Books(h) /\ h[p] \in Holdings /\ h \in [Procs -> Holdings] /\ Core
      /\ NameLocal(p, h[p]) /\ InodeLocal(p, h[p]) /\ Accounts(h)
    BY <1>1, AtStep DEF Now
<1>4. \/ h[p] = InOp("lock", "walk", "none") /\ e = InOp("ref", "none", "none")
      \/ h[p] = InOp("lock", "walkparent", "none") /\ e = InOp("ref", "last", "none")
    BY <1>2 DEF Trans
<1>5. /\ h[p].ip = "lock" /\ h[p].dp = "none" /\ h[p].f = "none" /\ h[p].cwd = "own" /\ h[p].stale = 0
      /\ h[p].shut = 0 /\ h[p].op = 1
      /\ \/ h[p].path = "walk" /\ e = InOp("ref", "none", "none")
         \/ h[p].path = "walkparent" /\ e = InOp("ref", "last", "none")
    BY <1>4 DEF InOp
<1>6. UNCHANGED <<disk, dir, ftable, ofile, cwd, ops>>
    BY DEF Element, fsVars, fileVars
<1>7. /\ reg[p].path # <<>> /\ reg[p].path \in Seq(Names)
      /\ h[p].path = "walk" => ~reg[p].parent
      /\ h[p].path = "walkparent" => reg[p].parent
    BY <1>3, <1>5 DEF NameLocal
<1>8. /\ Found(p) \in Inums \cup {0}
      /\ Found(p) # 0 => Found(p) \in Inums /\ disk[Found(p)].type # "free"
    BY <1>3, <1>5, <1>7, Finds
<1>9. ASSUME Fail(p, Iunlockput("ip")), UNCHANGED <<icache, reg, panicked>> PROVE FullInv'
    <2> DEFINE g == InOp("lock", "none", "none")
               t == Iunlockput("ip") \o <<<<"end_op">>>>
    <2>1. g \in Holdings
        BY HoldingTypes DEF Lookups, Inodes
    <2>2. /\ g.op = 1 /\ g.ip = "lock" /\ g.dp = "none" /\ g.f = "none" /\ g.cwd = "own" /\ g.stale = 0
          /\ g.shut = 0 /\ g.path = "none"
        BY DEF InOp
    <2>3. Fits(t, g)
        BY FailFits
    <2>4. todo' = [todo EXCEPT ![p] = t]
        BY <1>9 DEF Fail
    <2> HIDE DEF g, t
    <2>5. ops' = [ops EXCEPT ![p] = g.op]
        BY <1>5, <1>6, <2>2, OpsKept
    <2>6. Step1(h, p, g, t)
        BY <1>3, <1>6, <1>9, <2>1, <2>3, <2>4, <2>5 DEF Step1, Now
    <2>7. QED
        BY <1>5, <1>6, <1>9, <2>2, <2>6, TodoStep
<1>10. ASSUME icache[reg[p].ip].type = "dir", reg[p].parent, Len(reg[p].path) = 1,
              Then(p, <<<<"iunlock", "ip">>>>), UNCHANGED <<icache, reg, panicked>>
       PROVE  FullInv'
    <2> DEFINE g == InOp("lock", "last", "none")
               t == <<<<"iunlock", "ip">>>> \o Tail(todo[p])
    <2>1. g \in Holdings
        BY HoldingTypes DEF Lookups, Inodes
    <2>2. /\ g.op = 1 /\ g.ip = "lock" /\ g.dp = "none" /\ g.f = "none" /\ g.cwd = "own" /\ g.stale = 0
          /\ g.shut = 0 /\ g.path = "last"
        BY DEF InOp
    <2>3. Fits(t, g)
        <3>1. e = InOp("ref", "last", "none")
            BY <1>5, <1>7, <1>10
        <3>2. Leads(<<<<"iunlock", "ip">>>>, InOp("lock", "last", "none"), InOp("ref", "last", "none"))
            BY LockNaming
        <3>3. QED
            BY <3>1, <3>2, <1>2, FitsConcat
    <2>4. todo' = [todo EXCEPT ![p] = t]
        BY <1>10 DEF Then
    <2> HIDE DEF g, t
    <2>5. ops' = [ops EXCEPT ![p] = g.op]
        BY <1>5, <1>6, <2>2, OpsKept
    <2>6. Step1(h, p, g, t)
        BY <1>3, <1>6, <1>10, <2>1, <2>3, <2>4, <2>5 DEF Step1, Now
    <2>7. NameLocal(p, g)
        <3>1. disk[icache[reg[p].ip].inum].type = "dir"
            BY <1>3, <1>5, <1>10, LockedInode
        <3>2. QED
            BY <3>1, <2>2, <1>7, <1>10 DEF NameLocal
    <2>8. QED
        BY <1>5, <1>6, <1>10, <2>2, <2>6, <2>7, TodoStep
<1>11. ASSUME ~(reg[p].parent /\ Len(reg[p].path) = 1), Found(p) # 0, NEW k, k = Slot(Found(p)),
              Iget(k, Found(p)), Check(k # 0, "iget"),
              reg' = [reg EXCEPT ![p].dp = reg[p].ip, ![p].ip = k, ![p].path = Tail(@)],
              Then(p, Iunlockput("dp") \o Walk(Tail(reg[p].path)))
       PROVE  FullInv'
    <2>1. PICK inum : inum = Found(p)
        OBVIOUS
    <2>2. inum \in Inums /\ disk[inum].type # "free" /\ Iget(k, inum)
        BY <1>8, <1>11, <2>1
    <2>3. GoodSlot(k, inum) \/ (k = 0 /\ \A m \in 1..NINODE : icache[m].ref > 0)
        BY <1>3, <1>11, <2>1, Slots DEF Core
    <2>4. PICK rest : rest = Tail(reg[p].path)
        OBVIOUS
    <2>5. rest \in Seq(Names) /\ rest \in Seq(Names \cup {"/"})
        BY <2>4, <1>7
    <2>6. h[p].path = "walkparent" => rest # <<>>
        <3>1. Len(rest) = Len(reg[p].path) - 1 /\ Len(reg[p].path) \in Nat \ {0}
            BY <2>4, <1>7
        <3>2. rest = <<>> => Len(rest) = 0
            OBVIOUS
        <3>3. QED
            BY <3>1, <3>2, <1>7, <1>11
    <2>7. PICK w \in {"none", "walk", "walkparent"} :
              /\ Fits(Iunlockput("dp") \o Walk(rest) \o Tail(todo[p]), Parent("ref", w))
              /\ w = "walk" => h[p].path = "walk" /\ rest # <<>>
              /\ w = "walkparent" => h[p].path = "walkparent" /\ rest # <<>>
        <3>1. CASE h[p].path = "walkparent"
            BY <3>1, <2>6, <1>2, <1>5, ParentWalk
        <3>2. CASE h[p].path = "walk" /\ rest # <<>>
            BY <3>2, <1>2, <1>5, ParentWalk
        <3>3. CASE h[p].path = "walk" /\ rest = <<>>
            BY <3>3, <1>2, <1>5, ParentWalk
        <3>4. QED
            BY <3>1, <3>2, <3>3, <1>5
    <2> DEFINE g == Parent("ref", w)
               t == Iunlockput("dp") \o Walk(rest) \o Tail(todo[p])
    <2>8. g \in Holdings
        BY ParentLeads
    <2>9. /\ g.op = 1 /\ g.ip = "ref" /\ g.dp = "lock" /\ g.f = "none" /\ g.cwd = "own" /\ g.stale = 0
          /\ g.shut = 0 /\ g.path = w
        BY DEF Parent
    <2>10. Fits(t, g) /\ todo' = [todo EXCEPT ![p] = t]
        BY <2>4, <2>7, <1>11 DEF Then
    <2> HIDE DEF g, t
    <2>11. ops' = [ops EXCEPT ![p] = g.op]
        BY <1>5, <1>6, <2>9, OpsKept
    <2>12. k \in 0..NINODE /\ reg[p].ip \in 0..NINODE /\ reg \in [Procs -> Locals]
        <3>1. reg \in [Procs -> Locals]
            BY <1>3 DEF Core, RegOK
        <3>2. k \in 0..NINODE
            BY <2>3, FilesAssumption DEF GoodSlot
        <3>3. QED
            BY <3>1, <3>2 DEF Locals
    <2>13. reg' = [reg EXCEPT ![p] = [reg[p] EXCEPT !.dp = reg[p].ip, !.ip = k, !.path = rest]]
        BY <2>4, <2>12, <1>11 DEF Locals
    <2>14. /\ RegOK' /\ \A q \in Procs : q # p => reg'[q] = reg[q]
           /\ reg'[p].ip = k /\ reg'[p].dp = reg[p].ip /\ reg'[p].path = rest
           /\ reg'[p].f = reg[p].f /\ reg'[p].parent = reg[p].parent
        BY <2>5, <2>12, <2>13 DEF RegOK, Locals
    <2>15. Step1(h, p, g, t)
        BY <1>3, <1>6, <2>8, <2>10, <2>11, <2>14 DEF Step1, Now
    <2>16. NameLocal(p, g)'
        BY <2>5, <2>7, <2>9, <2>14, <1>7 DEF NameLocal
    <2>17. Iget(k, inum) /\ Check(k # 0, "iget")
        BY <1>11, <2>2
    <2>18. QED
        BY <1>5, <1>6, <2>2, <2>3, <2>9, <2>14, <2>15, <2>16, <2>17, GetStep
<1>12. QED
    BY <1>9, <1>10, <1>11 DEF Element

LEMMA ExistingFits ==
    ASSUME NEW t, Fits(t, InOp("lock", "absent", "none")), NEW type \in Types
    PROVE  Fits(Iunlockput("dp") \o <<<<"ilock", "ip">>, <<"existing", type>>>> \o Tail(t),
                Parent("ref", "none"))
<1> DEFINE e == InOp("lock", "absent", "none")
<1>1. e.path = "absent" /\ e # Nothing /\ e # Gone
    BY DEF InOp, Nothing, Gone, Idling
<1>2. t # <<>>
    BY <1>1, FitsEmpty
<1>3. PICK g \in Holdings : Trans(Head(t), e, g) /\ Fits(Tail(t), g)
    BY <1>2, FitsHead
<1>4. g = InOp("lock", "none", "none")
    BY <1>1, <1>3 DEF Trans
<1>5. /\ Leads(<<<<"ilock", "ip">>>>, InOp("ref", "none", "none"), InOp("lock", "none", "none"))
      /\ Leads(<<<<"existing", type>>>>, InOp("lock", "none", "none"), InOp("lock", "none", "none"))
      /\ <<"ilock", "ip">> \in Steps /\ <<"existing", type>> \in Steps
    BY LockNaming, NameSteps
<1>6. Leads(<<<<"ilock", "ip">>, <<"existing", type>>>>, InOp("ref", "none", "none"),
            InOp("lock", "none", "none"))
    BY <1>5, Leads2
<1>7. Leads(Iunlockput("dp"), Parent("ref", "none"), InOp("ref", "none", "none"))
    BY ParentLeads
<1>8. Leads(Iunlockput("dp") \o <<<<"ilock", "ip">>, <<"existing", type>>>>, Parent("ref", "none"),
            InOp("lock", "none", "none"))
    BY <1>6, <1>7, LeadsConcat
<1>9. QED
    BY <1>3, <1>4, <1>8, FitsConcat

LEMMA Len0 == Len(<<>>) = 0
OBVIOUS

LEMMA LookupStep ==
    ASSUME NEW h, Now(h), NEW p \in Procs, NEW type \in Types, Lookup(p, type) PROVE FullInv'
<1> DEFINE s == <<"lookup", type>>
<1>1. At(p, s) /\ s[1] = "lookup"
    BY DEF Lookup
<1>2. PICK e \in Holdings : Trans(s, h[p], e) /\ Fits(Tail(todo[p]), e)
    BY <1>1, AtStep
<1>3. /\ panicked = "no" /\ Books(h) /\ h[p] \in Holdings /\ h \in [Procs -> Holdings] /\ Core
      /\ NameLocal(p, h[p]) /\ InodeLocal(p, h[p]) /\ Accounts(h)
    BY <1>1, AtStep DEF Now
<1>4. h[p] = InOp("lock", "last", "none") /\ e = InOp("lock", "absent", "none")
    BY <1>1, <1>2 DEF Trans
<1>5. /\ h[p].ip = "lock" /\ h[p].dp = "none" /\ h[p].f = "none" /\ h[p].cwd = "own" /\ h[p].stale = 0
      /\ h[p].shut = 0 /\ h[p].op = 1 /\ h[p].path = "last"
    BY <1>4 DEF InOp
<1>6. UNCHANGED <<disk, dir, ftable, ofile, cwd, ops>>
    BY DEF Lookup, fsVars, fileVars
<1>7. reg[p].path # <<>> /\ reg[p].path \in Seq(Names) /\ Len(reg[p].path) = 1
    <2>1. reg[p].path \in Seq(Names) /\ Len(reg[p].path) = 1
        BY <1>3, <1>5 DEF NameLocal
    <2>2. reg[p].path = <<>> => Len(reg[p].path) = 0
        BY Zenon, Len0
    <2>3. QED
        BY <2>1, <2>2
<1>8. /\ Found(p) \in Inums \cup {0}
      /\ Found(p) # 0 => Found(p) \in Inums /\ disk[Found(p)].type # "free"
    BY <1>3, <1>5, <1>7, Finds
<1>9. CASE Found(p) = 0
    <2>1. Then(p, <<>>) /\ UNCHANGED <<icache, reg, panicked>>
        BY <1>9 DEF Lookup
    <2>2. /\ e.op = 1 /\ e.ip = "lock" /\ e.dp = "none" /\ e.f = "none" /\ e.cwd = "own" /\ e.stale = 0
          /\ e.shut = 0 /\ e.path = "absent"
        BY <1>4 DEF InOp
    <2>3. todo' = [todo EXCEPT ![p] = Tail(todo[p])]
        BY <1>1, <2>1, AtStep DEF Then
    <2>4. ops' = [ops EXCEPT ![p] = e.op]
        BY <1>5, <1>6, <2>2, OpsKept
    <2>5. Step1(h, p, e, Tail(todo[p]))
        BY <1>2, <1>3, <1>6, <2>1, <2>3, <2>4 DEF Step1, Now
    <2>6. NameLocal(p, e)
        BY <1>3, <1>5, <1>9, <2>2 DEF NameLocal
    <2>7. QED
        BY <1>5, <1>6, <2>1, <2>2, <2>5, <2>6, TodoStep
<1>10. CASE Found(p) # 0
    <2>1. PICK inum : inum = Found(p)
        OBVIOUS
    <2>2. PICK k : /\ k = Slot(inum) /\ Iget(k, inum) /\ Check(k # 0, "iget")
                   /\ reg' = [reg EXCEPT ![p].dp = reg[p].ip, ![p].ip = k]
        BY <1>10, <2>1 DEF Lookup
    <2>3. inum \in Inums /\ disk[inum].type # "free"
        BY <1>8, <1>10, <2>1
    <2>4. GoodSlot(k, inum) \/ (k = 0 /\ \A m \in 1..NINODE : icache[m].ref > 0)
        BY <1>3, <2>2, Slots DEF Core
    <2> DEFINE g == Parent("ref", "none")
               t == Iunlockput("dp") \o <<<<"ilock", "ip">>, <<"existing", type>>>> \o Tail(Tail(todo[p]))
    <2>5. g \in Holdings
        BY ParentLeads
    <2>6. /\ g.op = 1 /\ g.ip = "ref" /\ g.dp = "lock" /\ g.f = "none" /\ g.cwd = "own" /\ g.stale = 0
          /\ g.shut = 0 /\ g.path = "none"
        BY DEF Parent
    <2>7. Fits(t, g) /\ todo' = [todo EXCEPT ![p] = t]
        BY <1>2, <1>4, <1>10, ExistingFits DEF Lookup
    <2> HIDE DEF g, t
    <2>8. ops' = [ops EXCEPT ![p] = g.op]
        BY <1>5, <1>6, <2>6, OpsKept
    <2>9. k \in 0..NINODE /\ reg[p].ip \in 0..NINODE /\ reg \in [Procs -> Locals]
        <3>1. reg \in [Procs -> Locals]
            BY <1>3 DEF Core, RegOK
        <3>2. k \in 0..NINODE
            BY <2>4, FilesAssumption DEF GoodSlot
        <3>3. QED
            BY <3>1, <3>2 DEF Locals
    <2>10. reg' = [reg EXCEPT ![p] = [reg[p] EXCEPT !.dp = reg[p].ip, !.ip = k]]
        BY <2>2, <2>9 DEF Locals
    <2>11. /\ RegOK' /\ \A q \in Procs : q # p => reg'[q] = reg[q]
           /\ reg'[p].ip = k /\ reg'[p].dp = reg[p].ip /\ reg'[p].f = reg[p].f
        BY <2>9, <2>10 DEF RegOK, Locals
    <2>12. Step1(h, p, g, t)
        BY <1>3, <1>6, <2>5, <2>7, <2>8, <2>11 DEF Step1, Now
    <2>13. NameLocal(p, g)'
        BY <2>6 DEF NameLocal
    <2>14. Iget(k, inum) /\ Check(k # 0, "iget")
        BY <2>2
    <2>15. QED
        BY <1>5, <1>6, <2>3, <2>4, <2>6, <2>11, <2>12, <2>13, <2>14, GetStep
<1>11. QED
    BY <1>9, <1>10

-----------------------------------------------------------------------------
(* create() *)

LEMMA Replaced ==
    ASSUME NEW S, NEW T, NEW e \in [S -> T], NEW x \in S, NEW y \in T
    PROVE  /\ [e EXCEPT ![x] = y] \in [S -> T] /\ [e EXCEPT ![x] = y][x] = y
           /\ \A z \in S : z # x => [e EXCEPT ![x] = y][z] = e[z]
OBVIOUS

(* One more inode i, with the name n in the directory d. *)
Planted(type, i, d, n) ==
    /\ disk' = [disk EXCEPT ![i] = [type |-> type, nlink |-> 1],
                            ![d].nlink = disk[d].nlink + UpLink(type)]
    /\ dir' = [dir EXCEPT ![i] = IF type # "dir" THEN Empty
                                 ELSE Dirlink(Dirlink(Empty, ".", i), "..", d),
                          ![d] = Dirlink(@, n, i)]

LEMMA LinkTree ==
    ASSUME TypeOK, TreeOK, NEW i \in Inums, disk[i].type = "free", NEW d \in Inums, disk[d].type = "dir",
           NEW n \in Elements, dir[d][n] = 0, NEW type \in Types,
           Planted(type, i, d, n)
    PROVE  /\ disk' \in [Inums -> [type : Types \cup {"free"}, nlink : Nat]]
           /\ dir' \in [Inums -> [Names -> Inums \cup {0}]]
           /\ TreeOK' /\ i # d /\ i # 1
           /\ \A j \in Inums : j \notin {i, d} => disk'[j] = disk[j] /\ dir'[j] = dir[j]
           /\ disk'[i] = [type |-> type, nlink |-> 1]
           /\ disk'[d].type = "dir" /\ disk'[d].nlink = disk[d].nlink + UpLink(type)
<1>1. i # d /\ i # 1 /\ 1 \in Inums /\ type # "free" /\ n \in Names /\ n # "." /\ n # ".." /\ i # 0
      /\ 0 \notin Inums
    BY FilesAssumption DEF TreeOK, Inums, Types, Names
<1>2. /\ disk \in [Inums -> [type : Types \cup {"free"}, nlink : Nat]]
      /\ dir \in [Inums -> [Names -> Inums \cup {0}]]
    BY DEF TypeOK
<1>3. UpLink(type) \in Nat /\ (type = "dir" => UpLink(type) = 1) /\ (type # "dir" => UpLink(type) = 0)
    BY DEF UpLink
<1>4. /\ disk'[i] = [type |-> type, nlink |-> 1]
      /\ disk'[d] = [disk[d] EXCEPT !.nlink = disk[d].nlink + UpLink(type)]
      /\ \A j \in Inums : j \notin {i, d} => disk'[j] = disk[j]
      /\ DOMAIN disk' = Inums
      /\ disk' = [disk EXCEPT ![i] = disk'[i], ![d] = disk'[d]]
    BY <1>1, <1>2 DEF Planted
<1>5. /\ disk'[i].type = type /\ disk'[i].nlink = 1
      /\ disk'[d].type = "dir" /\ disk'[d].nlink = disk[d].nlink + UpLink(type)
      /\ disk[d].nlink \in Nat
      /\ disk'[i] \in [type : Types \cup {"free"}, nlink : Nat]
      /\ disk'[d] \in [type : Types \cup {"free"}, nlink : Nat]
    BY <1>2, <1>3, <1>4
<1>6. disk' \in [Inums -> [type : Types \cup {"free"}, nlink : Nat]]
    BY <1>2, <1>4, <1>5
<1>7. Empty \in [Names -> Inums \cup {0}] /\ \A m \in Names : Empty[m] = 0
    BY DEF Empty
<1>8. /\ dir'[i] = IF type # "dir" THEN Empty ELSE Dirlink(Dirlink(Empty, ".", i), "..", d)
      /\ dir'[d] = [dir[d] EXCEPT ![n] = i]
      /\ \A j \in Inums : j \notin {i, d} => dir'[j] = dir[j]
      /\ dir' = [dir EXCEPT ![i] = dir'[i], ![d] = dir'[d]]
    BY <1>1, <1>2 DEF Dirlink, Planted
<1>9. /\ dir'[i] \in [Names -> Inums \cup {0}] /\ dir'[d] \in [Names -> Inums \cup {0}]
      /\ \A m \in Names : m \notin {".", ".."} => dir'[i][m] = 0
      /\ type = "dir" => dir'[i]["."] = i /\ dir'[i][".."] = d
      /\ type # "dir" => dir'[i] = Empty
      /\ dir'[d][n] = i /\ \A m \in Names : m # n => dir'[d][m] = dir[d][m]
    <2>1. "." \in Names /\ ".." \in Names
        BY DEF Names
    <2>2. dir[d] \in [Names -> Inums \cup {0}]
        BY <1>2
    <2>3. type = "dir" => dir'[i] = [[Empty EXCEPT !["."] = i] EXCEPT ![".."] = d]
        BY <1>8 DEF Dirlink
    <2>4. /\ dir'[d] \in [Names -> Inums \cup {0}]
          /\ dir'[d][n] = i /\ \A m \in Names : m # n => dir'[d][m] = dir[d][m]
        <3>1. i \in Inums \cup {0} /\ n \in Names
            BY <1>1
        <3>2. /\ [dir[d] EXCEPT ![n] = i] \in [Names -> Inums \cup {0}] /\ [dir[d] EXCEPT ![n] = i][n] = i
              /\ \A m \in Names : m # n => [dir[d] EXCEPT ![n] = i][m] = dir[d][m]
            BY <2>2, <3>1, Replaced
        <3>3. QED
            BY <3>2, <1>8
    <2>5. CASE type = "dir"
        <3>1. PICK E : E = [Empty EXCEPT !["."] = i]
            OBVIOUS
        <3>2. /\ E \in [Names -> Inums \cup {0}] /\ E["."] = i
              /\ \A m \in Names : m # "." => E[m] = 0
            BY <3>1, <2>1, <1>7
        <3>3. dir'[i] = [E EXCEPT ![".."] = d]
            BY <2>3, <2>5, <3>1
        <3>4. /\ dir'[i] \in [Names -> Inums \cup {0}]
              /\ dir'[i]["."] = i /\ dir'[i][".."] = d
              /\ \A m \in Names : m \notin {".", ".."} => dir'[i][m] = 0
            <4>1. d \in Inums \cup {0} /\ ".." # "."
                OBVIOUS
            <4>2. /\ dir'[i] \in [Names -> Inums \cup {0}] /\ dir'[i][".."] = d
                  /\ \A m \in Names : m # ".." => dir'[i][m] = E[m]
                <5>1. /\ [E EXCEPT ![".."] = d] \in [Names -> Inums \cup {0}]
                      /\ [E EXCEPT ![".."] = d][".."] = d
                      /\ \A m \in Names : m # ".." => [E EXCEPT ![".."] = d][m] = E[m]
                    BY <4>1, <2>1, <3>2, Replaced
                <5>2. QED
                    BY <5>1, <3>3
            <4>3. QED
                BY <4>1, <4>2, <2>1, <3>2
        <3>5. QED
            BY <2>4, <2>5, <3>4
    <2>6. CASE type # "dir"
        <3>1. dir'[i] = Empty
            BY <2>6, <1>8
        <3>2. QED
            BY <3>1, <2>4, <2>6, <1>7
    <2>7. QED
        BY <2>5, <2>6
<1>10. dir' \in [Inums -> [Names -> Inums \cup {0}]]
    BY <1>2, <1>8, <1>9
<1>11. dir[i] = Empty /\ \A j \in Inums, m \in Names : dir[j][m] # i
    <2>1. dir[i] = Empty
        BY DEF TreeOK
    <2>2. ASSUME NEW j \in Inums, NEW m \in Names, dir[j][m] = i PROVE FALSE
        BY <2>2, <1>1 DEF TreeOK
    <2>3. QED
        BY <2>1, <2>2
<1>12. dir'[i][".."] \in {0, d} /\ dir[i][".."] = 0 /\ dir'[d][".."] = dir[d][".."] /\ ".." \in Names
    BY <1>1, <1>7, <1>9, <1>11 DEF Names
<1>13. /\ Entries(i)' = {<<d, n>>}
       /\ \A j \in Inums : j # i => Entries(j)' = Entries(j)
    <2>1. ASSUME NEW x \in Inums, NEW m \in Elements
          PROVE  /\ dir'[x][m] = i <=> x = d /\ m = n
                 /\ \A j \in Inums : j # i => (dir'[x][m] = j <=> dir[x][m] = j)
        <3>1. m \in Names /\ m \notin {".", ".."}
            BY FilesAssumption DEF Names
        <3>a. dir[x][m] # i
            BY <3>1, <1>11
        <3>b. 0 # i /\ \A j \in Inums : 0 # j
            BY <1>1
        <3>2. CASE x = d
            <4>1. CASE m = n
                <5>1. dir'[x][m] = i /\ dir[x][m] = 0
                    BY <3>2, <4>1, <1>9
                <5>2. QED
                    BY <5>1, <3>2, <3>b, <4>1
            <4>2. CASE m # n
                <5>1. dir'[x][m] = dir[x][m]
                    BY <3>1, <3>2, <4>2, <1>9
                <5>2. QED
                    BY <5>1, <3>a, <3>2, <4>2
            <4>3. QED
                BY <4>1, <4>2
        <3>3. CASE x = i
            <4>1. dir'[x][m] = 0 /\ dir[x][m] = 0
                BY <3>1, <3>3, <1>7, <1>9, <1>11
            <4>2. QED
                BY <4>1, <3>3, <3>b, <1>1
        <3>4. CASE x \notin {i, d}
            <4>1. dir'[x][m] = dir[x][m]
                BY <3>4, <1>8
            <4>2. QED
                BY <4>1, <3>a, <3>4
        <3>5. QED
            BY <3>2, <3>3, <3>4
    <2>2. Entries(i)' = {<<d, n>>}
        <3>1. ASSUME NEW z \in Inums \X Elements
              PROVE  dir'[z[1]][z[2]] = i <=> z = <<d, n>>
            <4>1. PICK x \in Inums, m \in Elements : z = <<x, m>>
                OBVIOUS
            <4>2. dir'[x][m] = i <=> x = d /\ m = n
                BY <2>1
            <4>3. z[1] = x /\ z[2] = m /\ (z = <<d, n>> <=> x = d /\ m = n)
                BY <4>1
            <4>4. QED
                BY <4>2, <4>3
        <3>2. <<d, n>> \in Inums \X Elements
            OBVIOUS
        <3>3. QED
            BY <3>1, <3>2 DEF Entries
    <2>3. ASSUME NEW j \in Inums, j # i PROVE Entries(j)' = Entries(j)
        <3>1. ASSUME NEW z \in Inums \X Elements
              PROVE  dir'[z[1]][z[2]] = j <=> dir[z[1]][z[2]] = j
            <4>1. PICK x \in Inums, m \in Elements : z = <<x, m>>
                OBVIOUS
            <4>2. dir'[x][m] = j <=> dir[x][m] = j
                <5>1. \A y \in Inums : y # i => (dir'[x][m] = y <=> dir[x][m] = y)
                    BY <2>1
                <5>2. QED
                    BY <5>1, <2>3
            <4>3. z[1] = x /\ z[2] = m
                BY <4>1
            <4>4. QED
                BY <4>2, <4>3
        <3>2. QED
            BY <3>1 DEF Entries
    <2>4. QED
        BY <2>2, <2>3
<1>14. Entries(i) = {}
    BY <1>1 DEF TreeOK, TreeInv
<1> DEFINE Up(j) == {x \in Inums \ {1} : dir[x][".."] = j}
<1>15. /\ Up(i)' = {} /\ \A j \in Inums : j \notin {i, d} => Up(j)' = Up(j)
       /\ Up(d)' = IF type = "dir" THEN Up(d) \cup {i} ELSE Up(d)
       /\ i \notin Up(d)
    <2>1. ASSUME NEW x \in Inums, x # i PROVE dir'[x][".."] = dir[x][".."]
        BY <2>1, <1>8, <1>12
    <2>2. Up(i)' = {}
        BY <2>1, <1>1, <1>11, <1>12
    <2>3. ASSUME NEW j \in Inums, j \notin {i, d} PROVE Up(j)' = Up(j)
        <3>1. ASSUME NEW x \in Inums PROVE dir'[x][".."] = j <=> dir[x][".."] = j
            BY <2>1, <2>3, <1>1, <1>12
        <3>2. QED
            BY <3>1
    <2>4. i \notin Up(d)
        BY <1>12 DEF Inums
    <2>5. Up(d)' = IF type = "dir" THEN Up(d) \cup {i} ELSE Up(d)
        <3>1. type = "dir" => dir'[i][".."] = d
            BY <1>9
        <3>2. type # "dir" => dir'[i][".."] = 0
            BY <1>7, <1>9, <1>12
        <3>3. d # 0
            BY DEF Inums
        <3>4. QED
            BY <2>1, <3>1, <3>2, <3>3, <1>1, <1>12
    <2>6. QED
        BY <2>2, <2>3, <2>4, <2>5
<1>16. Cardinality(Up(d)') = Cardinality(Up(d)) + UpLink(type) /\ Cardinality(Up(d)) \in Nat
    <2>1. IsFiniteSet(Inums)
        <3>1. 1 \in Int /\ NINODES \in Int
            BY FilesAssumption
        <3>2. QED
            BY <3>1, FS_Interval DEF Inums
    <2>2. IsFiniteSet(Up(d))
        BY <2>1, FS_Subset
    <2>3. Cardinality(Up(d)) \in Nat
        BY <2>2, FS_CardinalityType
    <2> HIDE DEF Up
    <2>4. Cardinality(Up(d) \cup {i}) = Cardinality(Up(d)) + 1
        BY <2>2, <1>15, FS_AddElement
    <2>5. QED
        BY <2>3, <2>4, <1>3, <1>15
<1>17. Cardinality({}) = 0 /\ Cardinality({<<d, n>>}) = 1
    BY FS_EmptySet, FS_Singleton
<1>18. TreeInv'
    <2>1. ASSUME NEW j \in Inums
          PROVE  /\ disk'[j].type # "free" <=> j = 1 \/ Entries(j)' # {}
                 /\ Cardinality(Entries(j)') <= 1
                 /\ disk'[j].type = "dir" => disk'[j].nlink = 1 + Cardinality(Up(j)')
        <3>0. /\ disk[j].type # "free" <=> j = 1 \/ Entries(j) # {}
              /\ Cardinality(Entries(j)) <= 1
              /\ disk[j].type = "dir" => disk[j].nlink = 1 + Cardinality(Up(j))
            BY DEF TreeOK, TreeInv
        <3>1. CASE j = i
            <4>1. Entries(j)' = {<<d, n>>} /\ Up(j)' = {}
                BY <3>1, <1>13, <1>15
            <4> HIDE DEF Up
            <4>2. QED
                BY <3>1, <4>1, <1>1, <1>5, <1>17
        <3>2. CASE j = d
            <4> HIDE DEF Up
            <4>1. disk'[j].nlink = 1 + Cardinality(Up(j)')
                BY <3>0, <3>2, <1>3, <1>5, <1>16
            <4>2. QED
                BY <4>1, <3>0, <3>2, <1>1, <1>5, <1>13
        <3>3. CASE j \notin {i, d}
            <4>1. Entries(j)' = Entries(j) /\ Up(j)' = Up(j) /\ disk'[j] = disk[j]
                BY <3>3, <1>4, <1>13, <1>15
            <4> HIDE DEF Up
            <4>2. QED
                BY <3>0, <4>1
        <3>4. QED
            BY <3>1, <3>2, <3>3
    <2>2. QED
        BY <2>1 DEF TreeInv
<1>19. ASSUME NEW j \in Inums
       PROVE  /\ disk'[j].type # "free" => disk'[j].nlink >= 1
              /\ disk'[j].type = "dir" => dir'[j]["."] # 0 /\ dir'[j][".."] # 0
              /\ disk'[j].type # "dir" => dir'[j] = Empty
              /\ \A m \in Names : dir'[j][m] # 0 => disk'[dir'[j][m]].type # "free"
    <2>0. /\ disk[j].type # "free" => disk[j].nlink >= 1
          /\ disk[j].type = "dir" => dir[j]["."] # 0 /\ dir[j][".."] # 0
          /\ disk[j].type # "dir" => dir[j] = Empty
          /\ \A m \in Names : dir[j][m] # 0 => disk[dir[j][m]].type # "free"
        BY DEF TreeOK
    <2>1. \A x \in Inums : disk[x].type # "free" => disk'[x].type # "free"
        BY <1>4, <1>5
    <2>2. disk'[i].type # "free" /\ disk'[d].type # "free" /\ d # 0
        BY <1>1, <1>5 DEF Inums
    <2>3. dir[j] \in [Names -> Inums \cup {0}]
        BY <1>2
    <2>4. CASE j = i
        <3>1. \A m \in Names : dir'[j][m] \in {0, i, d}
            <4>1. ASSUME NEW m \in Names PROVE dir'[j][m] \in {0, i, d}
                BY <2>4, <1>7, <1>9
            <4>2. QED
                BY <4>1
        <3>2. \A m \in Names : dir'[j][m] # 0 => disk'[dir'[j][m]].type # "free"
            BY <2>2, <3>1
        <3>3. QED
            <4>1. disk'[j].nlink >= 1
                BY <2>4, <1>5
            <4>2. type = "dir" => dir'[j]["."] # 0 /\ dir'[j][".."] # 0
                BY <2>2, <2>4, <1>1, <1>9
            <4>3. type # "dir" => dir'[j] = Empty
                BY <2>4, <1>9
            <4>4. disk'[j].type = type
                BY <2>4, <1>5
            <4>5. QED
                BY <3>2, <4>1, <4>2, <4>3, <4>4
    <2>5. CASE j = d
        <3>1. disk'[j].nlink >= 1
            BY <2>0, <2>5, <1>3, <1>5
        <3>2. dir'[j]["."] # 0 /\ dir'[j][".."] # 0
            BY <2>0, <2>5, <1>1, <1>9 DEF Names
        <3>3. ASSUME NEW m \in Names, dir'[j][m] # 0 PROVE disk'[dir'[j][m]].type # "free"
            <4>1. CASE m = n
                BY <4>1, <2>2, <2>5, <1>9
            <4>2. CASE m # n
                <5>1. dir'[j][m] = dir[j][m]
                    BY <4>2, <2>5, <1>9
                <5>2. dir[j][m] \in Inums /\ disk[dir[j][m]].type # "free"
                    BY <5>1, <3>3, <2>0, <2>3
                <5>3. QED
                    BY <5>1, <5>2, <2>1
            <4>3. QED
                BY <4>1, <4>2
        <3>4. QED
            BY <3>1, <3>2, <3>3, <2>5, <1>5
    <2>6. CASE j \notin {i, d}
        <3>1. disk'[j] = disk[j] /\ dir'[j] = dir[j]
            BY <2>6, <1>4, <1>8
        <3>2. ASSUME NEW m \in Names, dir'[j][m] # 0 PROVE disk'[dir'[j][m]].type # "free"
            BY <3>1, <3>2, <2>0, <2>1, <2>3
        <3>3. QED
            BY <3>1, <3>2, <2>0
    <2>7. QED
        BY <2>4, <2>5, <2>6
<1>20. disk'[1].type = "dir"
    <2>1. disk[1].type = "dir"
        BY DEF TreeOK
    <2>2. CASE d = 1
        BY <2>2, <1>5
    <2>3. CASE d # 1
        BY <2>1, <2>3, <1>1, <1>4
    <2>4. QED
        BY <2>2, <2>3
<1>21. TreeOK'
    BY <1>18, <1>19, <1>20 DEF TreeOK
<1>22. QED
    BY <1>1, <1>4, <1>5, <1>6, <1>8, <1>10, <1>21

(* The new inode is cached in an entry that nobody used. *)
Entered(p, type, i, k, d) ==
    icache' = [icache EXCEPT
                 ![k] = [inum |-> i, ref |-> @.ref + 1, valid |-> TRUE, lock |-> p,
                         type |-> type, nlink |-> 1],
                 ![d].nlink = @ + UpLink(type)]

LEMMA LinkCache ==
    ASSUME Core, NEW p \in Procs, NEW i \in Inums, disk[i].type = "free", NEW d \in 1..NINODE,
           icache[d].ref > 0, icache[d].inum \in Inums, icache[d].valid, icache[d].lock = p,
           NEW k \in 1..NINODE, icache[k].ref = 0, NEW type \in Types,
           Entered(p, type, i, k, d),
           \A j \in Inums : j \notin {i, icache[d].inum} => disk'[j] = disk[j],
           disk'[i] = [type |-> type, nlink |-> 1],
           disk'[icache[d].inum].type = disk[icache[d].inum].type,
           disk'[icache[d].inum].nlink = icache[d].nlink + UpLink(type)
    PROVE  /\ icache' \in [1..NINODE -> Cached] /\ CacheOK' /\ k # d
           /\ icache'[k].ref = 1 /\ icache'[k].lock = p
           /\ icache'[d].ref = icache[d].ref /\ icache'[d].lock = p /\ icache'[d].inum = icache[d].inum
           /\ \A m \in 1..NINODE : m \notin {k, d} => icache'[m] = icache[m]
           /\ \A m \in 1..NINODE : icache[m].ref > 0 /\ m # d => icache[m].inum \notin {i, icache[d].inum}
           /\ icache[d].inum # i
<1>1. icache \in [1..NINODE -> Cached] /\ CacheOK /\ k # d /\ i \in Inums \cup {0} /\ p \in Procs \cup {NONE}
    BY DEF Core, TypeOK, Cached
<1>2. UpLink(type) \in Nat /\ type \in Types \cup {"free"} /\ type # "free"
    BY DEF UpLink, Types
<1>3. /\ icache'[k] = [inum |-> i, ref |-> icache[k].ref + 1, valid |-> TRUE, lock |-> p,
                       type |-> type, nlink |-> 1]
      /\ icache'[d] = [icache[d] EXCEPT !.nlink = icache[d].nlink + UpLink(type)]
      /\ \A m \in 1..NINODE : m \notin {k, d} => icache'[m] = icache[m]
      /\ icache' = [icache EXCEPT ![k] = icache'[k], ![d] = icache'[d]]
    BY <1>1 DEF Entered
<1>4. /\ icache'[k].inum = i /\ icache'[k].ref = 1 /\ icache'[k].valid /\ icache'[k].lock = p
      /\ icache'[k].type = type /\ icache'[k].nlink = 1 /\ icache'[k] \in Cached
    <2>1. icache[k].ref + 1 = 1 /\ 1 \in Nat /\ TRUE \in BOOLEAN
        OBVIOUS
    <2>2. QED
        BY <2>1, <1>1, <1>2, <1>3 DEF Cached
<1>5. /\ icache'[d].inum = icache[d].inum /\ icache'[d].ref = icache[d].ref
      /\ icache'[d].lock = icache[d].lock /\ icache'[d].type = icache[d].type
      /\ icache'[d].nlink = icache[d].nlink + UpLink(type) /\ icache'[d].valid = icache[d].valid
      /\ icache'[d] \in Cached
    <2>1. icache[d] \in Cached
        BY <1>1
    <2>2. icache[d].nlink + UpLink(type) \in Nat
        BY <2>1, <1>2 DEF Cached
    <2>3. PICK e : e = icache[d]
        OBVIOUS
    <2>4. PICK n : n = icache[d].nlink + UpLink(type)
        OBVIOUS
    <2>5. e \in Cached /\ n \in Nat /\ icache'[d] = [e EXCEPT !.nlink = n]
        BY <2>1, <2>2, <2>3, <2>4, <1>3
    <2>6. /\ [e EXCEPT !.nlink = n] \in Cached /\ [e EXCEPT !.nlink = n].nlink = n
          /\ [e EXCEPT !.nlink = n].inum = e.inum /\ [e EXCEPT !.nlink = n].ref = e.ref
          /\ [e EXCEPT !.nlink = n].lock = e.lock /\ [e EXCEPT !.nlink = n].type = e.type
          /\ [e EXCEPT !.nlink = n].valid = e.valid
        BY <2>5 DEF Cached
    <2>7. QED
        BY <2>3, <2>4, <2>5, <2>6
<1>6. icache' \in [1..NINODE -> Cached]
    BY <1>1, <1>3, <1>4, <1>5
<1>7. ASSUME NEW m \in 1..NINODE, icache[m].ref > 0
      PROVE  /\ icache[m].inum \in Inums /\ icache[m].inum # i
             /\ m # d => icache[m].inum # icache[d].inum
    BY <1>7, <1>1 DEF CacheOK
<1>8. ASSUME NEW m \in 1..NINODE, NEW n \in 1..NINODE, m # n, icache'[m].ref > 0, icache'[n].ref > 0
      PROVE  icache'[m].inum # icache'[n].inum
    <2>1. ASSUME NEW x \in 1..NINODE, x # k, icache'[x].ref > 0
          PROVE  icache[x].ref > 0 /\ icache'[x].inum = icache[x].inum
        BY <2>1, <1>3, <1>5
    <2>2. CASE m = k
        <3>1. icache'[m].inum = i /\ n # k
            BY <2>2, <1>4, <1>8
        <3>2. icache[n].ref > 0 /\ icache'[n].inum = icache[n].inum
            BY <2>1, <3>1, <1>8
        <3>3. QED
            BY <3>1, <3>2, <1>7
    <2>3. CASE n = k
        <3>1. icache'[n].inum = i /\ m # k
            BY <2>3, <1>4, <1>8
        <3>2. icache[m].ref > 0 /\ icache'[m].inum = icache[m].inum
            BY <2>1, <3>1, <1>8
        <3>3. QED
            BY <3>1, <3>2, <1>7
    <2>4. CASE m # k /\ n # k
        BY <2>1, <2>4, <1>1, <1>8 DEF CacheOK
    <2>5. QED
        BY <2>2, <2>3, <2>4
<1>9. ASSUME NEW m \in 1..NINODE
      PROVE  /\ icache'[m].ref > 0 => icache'[m].inum \in Inums /\ disk'[icache'[m].inum].type # "free"
             /\ icache'[m].ref > 0 /\ icache'[m].valid =>
                   /\ disk'[icache'[m].inum].type = icache'[m].type
                   /\ disk'[icache'[m].inum].nlink = icache'[m].nlink
             /\ icache'[m].lock # NONE => icache'[m].valid /\ icache'[m].ref > 0
    <2>1. CASE m = k
        <3>1. disk'[i].type = type /\ disk'[i].nlink = 1
            OBVIOUS
        <3>2. QED
            BY <2>1, <3>1, <1>2, <1>4
    <2>2. CASE m = d
        <3>1. /\ disk[icache[d].inum].type = icache[d].type /\ disk[icache[d].inum].type # "free"
            BY <1>1 DEF CacheOK
        <3>2. icache'[d].valid
            BY <1>5
        <3>3. QED
            BY <2>2, <3>1, <3>2, <1>5
    <2>3. CASE m \notin {k, d}
        <3>1. icache'[m] = icache[m]
            BY <2>3, <1>3
        <3>2. icache[m].ref > 0 => disk'[icache[m].inum] = disk[icache[m].inum]
            BY <2>3, <1>7
        <3>3. QED
            BY <3>1, <3>2, <1>1 DEF CacheOK
    <2>4. QED
        BY <2>1, <2>2, <2>3
<1>10. CacheOK'
    BY <1>8, <1>9 DEF CacheOK
<1>11. QED
    BY <1>1, <1>3, <1>4, <1>5, <1>6, <1>7, <1>10

LEMMA LinkFits ==
    ASSUME NEW t, Fits(t, InOp("lock", "none", "none"))
    PROVE  Parent("lock", "none") \in Holdings /\ Fits(Iunlockput("dp") \o t, Parent("lock", "none"))
BY ParentLeads, FitsConcat

LEMMA FreeInodes ==
    ASSUME TypeOK
    PROVE  \/ FreeInode = 0 /\ \A i \in Inums : disk[i].type # "free"
           \/ FreeInode \in Inums /\ disk[FreeInode].type = "free"
<1> DEFINE free == {i \in Inums : disk[i].type = "free"}
<1>1. free # {} => Min(free) \in free
    <2>1. NINODES \in Nat /\ free \in SUBSET (1..NINODES)
        BY FilesAssumption DEF Inums
    <2> HIDE DEF free
    <2>2. QED
        BY <2>1, MinIn
<1>2. FreeInode = IF free = {} THEN 0 ELSE Min(free)
    BY DEF FreeInode
<1>3. QED
    BY <1>1, <1>2

(* What create() does for the new inode i in the entry k, with the name n in *)
(* the directory of the entry d.                                              *)
Making(p, type, i, k, d, n) ==
    /\ Entered(p, type, i, k, d)
    /\ disk' = [disk EXCEPT ![i] = [type |-> type, nlink |-> 1],
                            ![icache[d].inum].nlink = icache[d].nlink + UpLink(type)]
    /\ dir' = [dir EXCEPT
                  ![i] = IF type # "dir" THEN Empty
                         ELSE Dirlink(Dirlink(Empty, ".", i), "..", icache[d].inum),
                  ![icache[d].inum] = Dirlink(@, n, i)]

(* A new inode: what is left to show when neither table is full. *)
LEMMA MakeStep ==
    ASSUME NEW h, NEW p, NEW g, NEW t, Step1(h, p, g, t), Now(h),
           h[p].ip = "lock", h[p].dp = "none", h[p].f = "none", h[p].cwd = "own", h[p].stale = 0, h[p].shut = 0,
           g = Parent("lock", "none"),
           NEW i \in Inums, disk[i].type = "free", NEW d, d = reg[p].ip, NEW k \in 1..NINODE, GoodSlot(k, i),
           NEW type \in Types, disk[icache[d].inum].type = "dir",
           NEW n \in Elements, dir[icache[d].inum][n] = 0,
           Making(p, type, i, k, d, n),
           RegOK', reg'[p].ip = k, reg'[p].dp = d, reg'[p].f = reg[p].f,
           UNCHANGED <<ftable, ofile, cwd, panicked>>
    PROVE  FullInv'
<1>1. /\ Core /\ Accounts(h) /\ Books(h) /\ h \in [Procs -> Holdings] /\ p \in Procs /\ g \in Holdings
      /\ h[p] \in Holdings /\ InodeLocal(p, h[p]) /\ panicked = "no" /\ panicked' = "no"
      /\ TypeOK /\ CacheOK /\ TreeOK /\ InodeCount(h) /\ NoCycle(h)
    BY DEF Step1, Accounts, Books, Core
<1>2. /\ g.op = 1 /\ g.ip = "lock" /\ g.dp = "lock" /\ g.f = "none" /\ g.cwd = "own" /\ g.stale = 0
      /\ g.shut = 0 /\ g.path = "none"
    BY DEF Parent
<1>3. /\ d \in 1..NINODE /\ icache[d].ref > 0 /\ icache[d].lock = p
      /\ icache[d].inum \in Inums /\ icache[d].valid
      /\ disk[icache[d].inum].nlink = icache[d].nlink
    BY <1>1, LockedInode
<1>4. icache[k].ref = 0
    <2>1. icache[k].ref \in Nat
        BY <1>1 DEF TypeOK
    <2>2. CASE icache[k].ref > 0
        BY <2>2, <1>1 DEF GoodSlot, CacheOK
    <2>3. QED
        BY <2>1, <2>2
<1>5. PICK y : y = icache[d].inum
    OBVIOUS
<1>6. /\ disk' \in [Inums -> [type : Types \cup {"free"}, nlink : Nat]]
      /\ dir' \in [Inums -> [Names -> Inums \cup {0}]]
      /\ TreeOK' /\ i # y
      /\ \A j \in Inums : j \notin {i, y} => disk'[j] = disk[j] /\ dir'[j] = dir[j]
      /\ disk'[i] = [type |-> type, nlink |-> 1]
      /\ disk'[y].type = "dir" /\ disk'[y].nlink = disk[y].nlink + UpLink(type)
    <2>1. /\ y \in Inums /\ disk[y].type = "dir" /\ dir[y][n] = 0
          /\ Planted(type, i, y, n)
        BY <1>3, <1>5 DEF Making, Planted
    <2>2. QED
        BY <2>1, <1>1, LinkTree
<1>7. /\ icache' \in [1..NINODE -> Cached] /\ CacheOK' /\ k # d
      /\ icache'[k].ref = 1 /\ icache'[k].lock = p
      /\ icache'[d].ref = icache[d].ref /\ icache'[d].lock = p /\ icache'[d].inum = icache[d].inum
      /\ \A m \in 1..NINODE : m \notin {k, d} => icache'[m] = icache[m]
      /\ \A m \in 1..NINODE : icache[m].ref > 0 /\ m # d => icache[m].inum \notin {i, icache[d].inum}
    <2>1. Entered(p, type, i, k, d)
        BY DEF Making
    <2>2. /\ \A j \in Inums : j \notin {i, icache[d].inum} => disk'[j] = disk[j]
          /\ disk'[icache[d].inum].type = disk[icache[d].inum].type
          /\ disk'[icache[d].inum].nlink = icache[d].nlink + UpLink(type)
        BY <1>3, <1>5, <1>6
    <2>3. QED
        <3>1. disk'[i] = [type |-> type, nlink |-> 1] /\ icache[d].valid
            BY <1>3, <1>6
        <3>2. /\ d \in 1..NINODE /\ icache[d].ref > 0 /\ icache[d].lock = p /\ icache[d].inum \in Inums
              /\ icache[k].ref = 0 /\ Core /\ p \in Procs
            BY <1>1, <1>3, <1>4
        <3>3. QED
            BY <2>1, <2>2, <3>1, <3>2, LinkCache
<1>8. Core'
    <2>1. TypeOK'
        BY <1>1, <1>6, <1>7, ControlStep DEF TypeOK, Cached
    <2>2. PanicOnlyWhenFull'
        BY <1>1 DEF PanicOnlyWhenFull
    <2>3. QED
        BY <1>6, <1>7, <2>1, <2>2 DEF Core
<1>9. Locked(p, g)
    <2>1. Locking(p, g, k)' /\ Locking(p, g, d)'
        BY <1>2 DEF Locking
    <2>2. ASSUME NEW m \in 1..NINODE, m # d, icache[m].lock = p PROVE FALSE
        <3>1. Locking(p, h[p], m)
            BY <2>2, <1>1, OwnLock
        <3>2. QED
            BY <3>1, <2>2 DEF Locking
    <2>3. QED
        BY <2>1, <2>2, <1>7 DEF Locked
<1>10. icache[k].lock = NONE
    BY <1>1, <1>4 DEF CacheOK
<1>11. Others(p)
    <2>1. ASSUME NEW m \in 1..NINODE, icache[m].ref > 0
          PROVE  /\ icache'[m].inum = icache[m].inum
                 /\ disk'[icache[m].inum].type = disk[icache[m].inum].type
        <3>1. CASE m = d
            BY <3>1, <1>5, <1>6, <1>7
        <3>2. CASE m # d
            <4>1. m # k /\ icache[m].inum \notin {i, y} /\ icache[m].inum \in Inums
                BY <3>2, <2>1, <1>1, <1>4, <1>5, <1>7 DEF CacheOK
            <4>2. QED
                BY <4>1, <3>2, <1>6, <1>7
        <3>3. QED
            BY <3>1, <3>2
    <2>2. ASSUME NEW m \in 1..NINODE, NEW q \in Procs, icache[m].lock = q, q # p
          PROVE  icache'[m].lock = q /\ dir'[icache[m].inum] = dir[icache[m].inum]
        <3>1. m # k /\ m # d /\ icache[m].ref > 0
            BY <2>2, <1>1, <1>3, <1>10, FilesAssumption DEF CacheOK
        <3>2. icache[m].inum \notin {i, y} /\ icache[m].inum \in Inums
            BY <3>1, <1>1, <1>5, <1>7 DEF CacheOK
        <3>3. QED
            BY <2>2, <3>1, <3>2, <1>6, <1>7
    <2>3. QED
        BY <2>1, <2>2 DEF Others
<1>12. Counted(h, p, g)
    <2>1. ASSUME NEW m \in 1..NINODE
          PROVE  icache'[m].ref = icache[m].ref - Held(p, h[p], m) + Held(p, g, m)'
        <3>1. icache'[m].ref = icache[m].ref + One(m = k) /\ icache[m].ref \in Nat
            <4>1. icache[m].ref \in Nat
                BY <1>1 DEF TypeOK
            <4>2. QED
                BY <4>1, <1>4, <1>7 DEF One
        <3>2. Held(p, g, m)' = Held(p, h[p], m) + One(m = k) /\ Held(p, h[p], m) \in Int
            BY <1>2 DEF Held, One
        <3>3. One(m = k) \in Int
            BY DEF One
        <3>4. QED
            BY <3>1, <3>2, <3>3
    <2>2. QED
        BY <2>1 DEF Counted
<1>13. InodeLocal(p, g)'
    BY <1>1, <1>2, <1>3, <1>7 DEF InodeLocal
<1>14. NameLocal(p, g)'
    BY <1>2 DEF NameLocal
<1>15. NoCycle([h EXCEPT ![p] = g])'
    <2> DEFINE h2 == [h EXCEPT ![p] = g]
    <2>1. ASSUME NEW a \in Procs, NEW b \in Procs, Fresh(h2[a]), Fresh(h2[b])
          PROVE  reg'[a].dp # reg'[b].ip
        <3>0. /\ a # p => h2[a] = h[a] /\ reg'[a] = reg[a]
              /\ b # p => h2[b] = h[b] /\ reg'[b] = reg[b]
            BY <1>1 DEF Step1
        <3> HIDE DEF h2
        <3>1. CASE a = p /\ b = p
            BY <3>1, <1>7
        <3>2. CASE a = p /\ b # p
            <4>1. h[b].ip = "lock" /\ InodeLocal(b, h[b])
                BY <3>0, <3>2, <2>1, <1>1 DEF Fresh, Books
            <4>2. icache[reg[b].ip].lock = b
                BY <4>1 DEF InodeLocal
            <4>3. QED
                BY <4>2, <3>0, <3>2, <1>3
        <3>3. CASE a # p /\ b = p
            <4>1. h[a].dp # "none"
                BY <3>0, <3>3, <2>1 DEF Fresh
            <4>2. reg[a].dp = k => UsesInode(a, h[a], k)
                BY <4>1 DEF UsesInode
            <4>3. ~UsesInode(a, h[a], k)
                <5>1. UsesInode(a, h[a], k) => icache[k].ref >= 1
                    BY <1>1, InodeHeld
                <5>2. QED
                    BY <5>1, <1>4
            <4>4. QED
                BY <4>2, <4>3, <3>0, <3>3
        <3>4. CASE a # p /\ b # p
            BY <3>0, <3>4, <2>1, <1>1 DEF NoCycle
        <3>5. QED
            BY <3>1, <3>2, <3>3, <3>4
    <2>2. QED
        BY <2>1 DEF NoCycle, Fresh
<1>16. Inode1(h, p, g, t)
    BY <1>2 DEF Inode1
<1>17. QED
    BY <1>8, <1>9, <1>11, <1>12, <1>13, <1>14, <1>15, <1>16, InodeStep

LEMMA LinkStep ==
    ASSUME NEW h, Now(h), NEW p \in Procs, NEW type \in Types, Link(p, type) PROVE FullInv'
<1> DEFINE s == <<"link", type>>
<1>1. At(p, s) /\ s[1] = "link"
    BY DEF Link
<1>2. PICK e \in Holdings : Trans(s, h[p], e) /\ Fits(Tail(todo[p]), e)
    BY <1>1, AtStep
<1>3. /\ panicked = "no" /\ Books(h) /\ h[p] \in Holdings /\ h \in [Procs -> Holdings] /\ Core
      /\ NameLocal(p, h[p]) /\ InodeLocal(p, h[p]) /\ Accounts(h)
    BY <1>1, AtStep DEF Now
<1>4. h[p] = InOp("lock", "absent", "none") /\ e = InOp("lock", "none", "none")
    BY <1>1, <1>2 DEF Trans
<1>5. /\ h[p].ip = "lock" /\ h[p].dp = "none" /\ h[p].f = "none" /\ h[p].cwd = "own" /\ h[p].stale = 0
      /\ h[p].shut = 0 /\ h[p].op = 1 /\ h[p].path = "absent"
    BY <1>4 DEF InOp
<1>6. UNCHANGED <<ftable, ofile, cwd, ops>>
    BY DEF Link, fileVars
<1>7. /\ reg[p].path # <<>> /\ reg[p].path \in Seq(Names) /\ Found(p) = 0
      /\ disk[icache[reg[p].ip].inum].type = "dir"
    <2>1. /\ reg[p].path \in Seq(Names) /\ Len(reg[p].path) = 1 /\ Found(p) = 0
          /\ disk[icache[reg[p].ip].inum].type = "dir"
        BY <1>3, <1>5 DEF NameLocal
    <2>2. reg[p].path = <<>> => Len(reg[p].path) = 0
        BY Zenon, Len0
    <2>3. QED
        BY <2>1, <2>2
<1>a. PICK i \in {FreeInode}, d \in {reg[p].ip} : \E k \in {IF i = 0 THEN 0 ELSE Slot(i)} :
         /\ Check(k # 0 /\ Found(p) = 0, IF i = 0 THEN "ialloc" ELSE "iget")
         /\ IF k = 0 THEN UNCHANGED <<icache, disk, dir>>
            ELSE Making(p, type, i, k, d, Head(reg[p].path))
         /\ reg' = [reg EXCEPT ![p].dp = d, ![p].ip = k]
    BY DEF Link, Making, Entered
<1>b. PICK k \in {IF i = 0 THEN 0 ELSE Slot(i)} :
         /\ Check(k # 0 /\ Found(p) = 0, IF i = 0 THEN "ialloc" ELSE "iget")
         /\ IF k = 0 THEN UNCHANGED <<icache, disk, dir>>
            ELSE Making(p, type, i, k, d, Head(reg[p].path))
         /\ reg' = [reg EXCEPT ![p].dp = d, ![p].ip = k]
    BY <1>a
<1>8. d = reg[p].ip
    OBVIOUS
<1>9. i = FreeInode
    OBVIOUS
<1>10. k = IF i = 0 THEN 0 ELSE Slot(i)
    OBVIOUS
<1>11. PICK n : n = Head(reg[p].path)
    OBVIOUS
<1>12. /\ Check(k # 0, IF i = 0 THEN "ialloc" ELSE "iget")
       /\ k = 0 => UNCHANGED <<icache, disk, dir>>
       /\ k # 0 => Making(p, type, i, k, d, n)
       /\ reg' = [reg EXCEPT ![p].dp = d, ![p].ip = k]
       /\ Then(p, Iunlockput("dp"))
    <2>1. Then(p, Iunlockput("dp"))
        BY DEF Link
    <2>2. QED
        BY <2>1, <1>b, <1>7, <1>11 DEF Check
<1>13. n \in Elements /\ dir[icache[d].inum][n] = 0
    <2>1. n \in Names
        BY <1>3, <1>5, <1>7, <1>11, Finds
    <2>2. dir[icache[d].inum][n] = 0
        BY <1>7, <1>8, <1>11 DEF Found
    <2>3. icache[d].inum \in Inums
        BY <1>3, <1>5, <1>8, LockedInode
    <2>4. dir[icache[d].inum]["."] # 0 /\ dir[icache[d].inum][".."] # 0
        BY <2>3, <1>3, <1>7, <1>8 DEF Core, TreeOK
    <2>5. QED
        BY <2>1, <2>2, <2>4 DEF Names
<1>14. \/ i = 0 /\ k = 0 /\ \A j \in Inums : disk[j].type # "free"
       \/ i # 0 /\ k = 0 /\ \A m \in 1..NINODE : icache[m].ref > 0
       \/ /\ i \in Inums /\ disk[i].type = "free" /\ k \in 1..NINODE /\ GoodSlot(k, i) /\ k # 0
    <2>1. TypeOK
        BY <1>3 DEF Core
    <2>2. CASE i = 0
        BY <2>1, <2>2, <1>9, <1>10, FreeInodes DEF Inums
    <2>3. CASE i # 0
        <3>1. i \in Inums /\ disk[i].type = "free"
            BY <2>1, <2>3, <1>9, FreeInodes
        <3>2. \/ k = 0 /\ \A m \in 1..NINODE : icache[m].ref > 0
              \/ GoodSlot(k, i)
            BY <2>1, <2>3, <1>10, Slots
        <3>3. GoodSlot(k, i) => k \in 1..NINODE /\ k # 0
            BY DEF GoodSlot
        <3>4. QED
            BY <2>3, <3>1, <3>2, <3>3
    <2>4. QED
        BY <2>2, <2>3
<1> DEFINE g == Parent("lock", "none")
           t == Iunlockput("dp") \o Tail(todo[p])
<1>15. g \in Holdings /\ Fits(t, g) /\ todo' = [todo EXCEPT ![p] = t]
    BY <1>2, <1>4, <1>12, LinkFits DEF Then
<1>16. /\ g.op = 1 /\ g.ip = "lock" /\ g.dp = "lock" /\ g.f = "none" /\ g.cwd = "own" /\ g.stale = 0
       /\ g.shut = 0 /\ g.path = "none" /\ g = Parent("lock", "none")
    BY DEF Parent
<1> HIDE DEF g, t, s
<1>17. ops' = [ops EXCEPT ![p] = g.op]
    BY <1>5, <1>6, <1>16, OpsKept
<1>18. k \in 0..NINODE /\ d \in 0..NINODE /\ reg \in [Procs -> Locals]
    <2>1. reg \in [Procs -> Locals]
        BY <1>3 DEF Core, RegOK
    <2>2. k \in 0..NINODE
        BY <1>14, FilesAssumption
    <2>3. QED
        BY <2>1, <2>2, <1>8 DEF Locals
<1>19. reg' = [reg EXCEPT ![p] = [reg[p] EXCEPT !.dp = d, !.ip = k]]
    BY <1>12, <1>18 DEF Locals
<1>20. /\ RegOK' /\ \A q \in Procs : q # p => reg'[q] = reg[q]
       /\ reg'[p].ip = k /\ reg'[p].dp = d /\ reg'[p].f = reg[p].f
    BY <1>18, <1>19 DEF RegOK, Locals
<1>21. Step1(h, p, g, t)
    BY <1>3, <1>6, <1>15, <1>17, <1>20 DEF Step1, Now
<1>22. CASE k # 0
    <2>1. Making(p, type, i, k, d, n) /\ panicked' = panicked
        BY <1>12, <1>22 DEF Check
    <2>2. i \in Inums /\ disk[i].type = "free" /\ k \in 1..NINODE /\ GoodSlot(k, i)
        BY <1>14, <1>22
    <2>3. disk[icache[d].inum].type = "dir"
        BY <1>7, <1>8
    <2>4. QED
        BY <2>1, <2>2, <2>3, <1>5, <1>6, <1>8, <1>13, <1>16, <1>20, <1>21, MakeStep
<1>23. CASE k = 0
    <2>1. UNCHANGED <<icache, disk, dir>> /\ panicked' = IF i = 0 THEN "ialloc" ELSE "iget"
        BY <1>12, <1>23 DEF Check
    <2>2. Core'
        <3>1. TypeOK'
            BY <1>3, <1>6, <1>21, <2>1, ControlStep DEF Core, TypeOK
        <3>2. TreeOK' /\ CacheOK'
            BY <1>3, <2>1, CoreFrame
        <3>3. PanicOnlyWhenFull'
            BY <2>1, <1>14, <1>23 DEF PanicOnlyWhenFull
        <3>4. QED
            BY <3>1, <3>2, <3>3, <1>20 DEF Core
    <2>3. Locked(p, g)
        <3>1. ASSUME NEW m \in 1..NINODE, icache[m].lock = p PROVE Locking(p, g, m)'
            <4>1. Locking(p, h[p], m)
                BY <3>1, <1>3, OwnLock
            <4>2. QED
                BY <4>1, <1>5, <1>8, <1>16, <1>20 DEF Locking
        <3>2. QED
            BY <3>1, <2>1 DEF Locked
    <2>4. Inode1(h, p, g, t)
        BY <1>5, <1>6, <1>16, <1>21 DEF Inode1
    <2>5. panicked' # "no"
        BY <2>1
    <2>6. QED
        BY <2>2, <2>3, <2>4, <2>5, InodeStep
<1>24. QED
    BY <1>22, <1>23

-----------------------------------------------------------------------------
(* Steps on open files, descriptors and current directories *)

Filed == [ref : Nat, type : {"none", "inode"}, ip : 0..NINODE, readable : BOOLEAN, writable : BOOLEAN]

(* One file, one descriptor of p and its current directory may change. *)
File1(h, p, g, t) ==
    /\ Step1(h, p, g, t) /\ UNCHANGED <<disk, dir, icache, panicked>>
    /\ ftable' \in [1..NFILE -> Filed] /\ ofile' \in [Procs -> [1..NOFILE -> 0..NFILE]]
    /\ cwd' \in [Procs -> 0..NINODE] /\ RegOK'
    /\ \A k \in 1..NINODE : Locking(p, h[p], k) => Locking(p, g, k)'
    /\ ~Fresh(g)

(* What others know of the file f. *)
Shared(h, p, f) ==
    /\ \A e \in 1..NFILE : e # f => ftable'[e] = ftable[e]
    /\ \A q \in Procs : q # p /\ UsesFile(q, h[q], f) =>
          /\ ftable'[f].type = ftable[f].type /\ ftable'[f].ip = ftable[f].ip
          /\ h[q].f \in {"new", "void"} /\ reg[q].f = f => ftable'[f].ref = ftable[f].ref

Typed(h, p, g, f) ==
    \/ ftable' = ftable /\ h[p].f \notin {"new", "void"}
    \/ /\ ftable'[f].type = "inode" => ftable'[f].ref >= 1 /\ ftable'[f].ip \in 1..NINODE
       /\ ftable'[f].type = "none" /\ ftable'[f].ref >= 1 =>
             g.f \in {"new", "void"} /\ reg'[p].f = f
       /\ h[p].f \in {"new", "void"} => reg[p].f = f

InodesEven(h, p, g, f) ==
    \A k \in 1..NINODE : Held(p, g, k)' + Used(f, k)' = Held(p, h[p], k) + Used(f, k)

FilesEven(h, p, g, fd) ==
    /\ \A e \in 1..NOFILE : e # fd => ofile'[p][e] = ofile[p][e] /\ (e = g.stale <=> e = h[p].stale)
    /\ \A e \in 1..NFILE :
          ftable'[e].ref = ftable[e].ref - HeldFile(p, h[p], fd, e) + HeldFile(p, g, fd, e)'

LEMMA FileStep ==
    ASSUME NEW h, NEW p, NEW g, NEW t, File1(h, p, g, t),
           NEW f \in 1..NFILE, Shared(h, p, f), Typed(h, p, g, f), InodesEven(h, p, g, f),
           NEW fd \in 1..NOFILE, FilesEven(h, p, g, fd),
           NameLocal(p, g)', InodeLocal(p, g)', FileLocal(p, g)'
    PROVE  FullInv'
<1>1. /\ Core /\ Accounts(h) /\ Books(h) /\ h \in [Procs -> Holdings] /\ p \in Procs /\ g \in Holdings
      /\ h[p] \in Holdings /\ Step1(h, p, g, t) /\ UNCHANGED <<disk, dir, icache, panicked>>
    BY DEF File1, Step1, Accounts
<1>2. Core'
    <2>1. TypeOK'
        BY <1>1, ControlStep DEF Core, TypeOK, File1, Filed
    <2>2. QED
        BY <2>1, <1>1, CoreFrame DEF Core, File1
<1>3. Owners([h EXCEPT ![p] = g])'
    <2>1. ASSUME NEW k \in 1..NINODE, icache'[k].lock # NONE
          PROVE  \/ icache'[k].lock = icache[k].lock /\ icache[k].lock # p
                 \/ icache'[k].lock = p /\ Locking(p, g, k)'
        BY <1>1, OwnLock DEF File1
    <2>2. QED
        BY <1>1, <2>1, OwnersStep
<1>4. \A q \in Procs : q # p => NameLocal(q, h[q])' /\ InodeLocal(q, h[q])' /\ FileLocal(q, h[q])'
    <2>1. SUFFICES ASSUME NEW q \in Procs, q # p
                   PROVE  NameLocal(q, h[q])' /\ InodeLocal(q, h[q])' /\ FileLocal(q, h[q])'
        OBVIOUS
    <2>2. NameLocal(q, h[q])'
        BY <1>1, <2>1, NameKept
    <2>3. InodeLocal(q, h[q])'
        BY <1>1, <2>1, InodeKept
    <2>4. FileLocal(q, h[q])'
        BY <1>1, <2>1, FileKept DEF Shared
    <2>5. QED
        BY <2>2, <2>3, <2>4
<1>5. InodeCount([h EXCEPT ![p] = g])'
    <2>1. \A k \in 1..NINODE : icache[k].ref \in Nat
        BY <1>1 DEF Core, TypeOK
    <2>2. ASSUME NEW k \in 1..NINODE
          PROVE  icache'[k].ref = icache[k].ref - Held(p, h[p], k) - Used(f, k)
                                  + Held(p, g, k)' + Used(f, k)'
        <3>1. Held(p, g, k)' \in Int /\ Held(p, h[p], k) \in Int
            BY DEF Held, One
        <3>2. Used(f, k)' \in Int /\ Used(f, k) \in Int
            BY DEF Used, One
        <3>3. QED
            BY <1>1, <2>1, <3>1, <3>2 DEF InodesEven
    <2>3. /\ InodeCount(h) /\ \A q \in Procs : q # p => cwd'[q] = cwd[q] /\ reg'[q] = reg[q]
          /\ \A e \in 1..NFILE : e # f => ftable'[e] = ftable[e]
        BY <1>1 DEF Books, Step1, Shared
    <2>4. QED
        BY <1>1, <2>1, <2>2, <2>3, InodeCountStep
<1>6. FileCount([h EXCEPT ![p] = g])'
    <2>1. \A e \in 1..NFILE : ftable[e].ref \in Nat
        BY <1>1 DEF Core, TypeOK
    <2>2. /\ FileCount(h) /\ \A q \in Procs : q # p => ofile'[q] = ofile[q] /\ reg'[q] = reg[q]
        BY <1>1 DEF Books, Step1
    <2>3. QED
        BY <1>1, <2>1, <2>2, FileCountStep DEF FilesEven
<1>7. FileTypes([h EXCEPT ![p] = g])'
    <2> DEFINE h2 == [h EXCEPT ![p] = g]
    <2>1. FileTypes(h)
        BY <1>1 DEF Books
    <2>2. /\ h2[p] = g
          /\ \A q \in Procs : q # p => h2[q] = h[q] /\ reg'[q] = reg[q]
        BY <1>1 DEF Step1
    <2> HIDE DEF h2
    <2>3. ASSUME NEW e \in 1..NFILE
          PROVE  /\ ftable'[e].type = "inode" => ftable'[e].ref >= 1 /\ ftable'[e].ip \in 1..NINODE
                 /\ ftable'[e].type = "none" /\ ftable'[e].ref >= 1 =>
                       \E q \in Procs : h2[q].f \in {"new", "void"} /\ reg'[q].f = e
        <3>1. CASE ftable'[e] = ftable[e] /\ (h[p].f \in {"new", "void"} => reg[p].f # e)
            <4>1. /\ ftable[e].type = "inode" => ftable[e].ref >= 1 /\ ftable[e].ip \in 1..NINODE
                  /\ ftable[e].type = "none" /\ ftable[e].ref >= 1 =>
                        \E q \in Procs : h[q].f \in {"new", "void"} /\ reg[q].f = e
                BY <2>1 DEF FileTypes
            <4>2. ASSUME NEW q \in Procs, h[q].f \in {"new", "void"}, reg[q].f = e
                  PROVE  h2[q].f \in {"new", "void"} /\ reg'[q].f = e
                BY <2>2, <3>1, <4>2
            <4>3. QED
                BY <3>1, <4>1, <4>2
        <3>2. CASE e # f
            <4>1. ftable'[e] = ftable[e]
                BY <3>2 DEF Shared
            <4>2. QED
                BY <3>1, <3>2, <4>1 DEF Typed
        <3>3. CASE e = f /\ ~(ftable' = ftable /\ h[p].f \notin {"new", "void"})
            BY <1>1, <2>2, <3>3 DEF Typed
        <3>4. CASE ftable' = ftable /\ h[p].f \notin {"new", "void"}
            BY <3>1, <3>4
        <3>5. QED
            BY <3>2, <3>3, <3>4
    <2>4. QED
        BY <2>3 DEF FileTypes, h2
<1>8. NoCycle([h EXCEPT ![p] = g])'
    BY <1>1, NoCycleStep DEF File1
<1>9. QED
    BY <1>1, <1>2, <1>3, <1>4, <1>5, <1>6, <1>7, <1>8, BooksStep, Assemble

(* A step that leaves the files alone. *)
LEMMA SameFiles ==
    ASSUME NEW h, NEW p, NEW g, NEW t, Step1(h, p, g, t), ftable' = ftable, h[p].f \notin {"new", "void"}
    PROVE  /\ 1 \in 1..NFILE /\ Shared(h, p, 1) /\ Typed(h, p, g, 1) /\ ftable' \in [1..NFILE -> Filed]
           /\ \A k \in 1..NINODE : Held(p, g, k)' = Held(p, h[p], k) => Held(p, g, k)' + Used(1, k)' = Held(p, h[p], k) + Used(1, k)
           /\ \A e \in 1..NFILE : ftable[e].ref \in Nat
<1>1. 1 \in 1..NFILE
    BY FilesAssumption
<1>2. \A k : Used(1, k)' = Used(1, k)
    BY DEF Used
<1>3. ftable \in [1..NFILE -> Filed]
    BY DEF Step1, Core, TypeOK, Filed
<1>4. \A e \in 1..NFILE : ftable[e].ref \in Nat
    BY <1>3 DEF Filed
<1>5. QED
    BY <1>1, <1>2, <1>3, <1>4 DEF Shared, Typed

LEMMA SetCwdStep == ASSUME NEW h, Now(h), NEW p \in Procs, SetCwd(p) PROVE FullInv'
<1>1. At(p, <<"setcwd">>)
    BY DEF SetCwd
<1>2. PICK g \in Holdings : Trans(<<"setcwd">>, h[p], g) /\ Fits(Tail(todo[p]), g)
    BY <1>1, AtStep
<1>3. /\ panicked = "no" /\ Books(h) /\ h[p] \in Holdings /\ h \in [Procs -> Holdings] /\ Core
      /\ InodeLocal(p, h[p]) /\ FileLocal(p, h[p]) /\ Accounts(h)
    BY <1>1, AtStep DEF Now
<1>4. h[p] = Idling("ref", "none", "out") /\ g = Nothing
    BY <1>2 DEF Trans
<1>5. /\ h[p].ip = "ref" /\ h[p].dp = "none" /\ h[p].f = "none" /\ h[p].cwd = "out" /\ h[p].stale = 0
      /\ h[p].shut = 0 /\ h[p].op = 0
      /\ g.ip = "none" /\ g.dp = "none" /\ g.f = "none" /\ g.cwd = "own" /\ g.stale = 0
      /\ g.shut = 0 /\ g.op = 0 /\ g.path = "none"
    BY <1>4 DEF Nothing, Idling
<1>6. UNCHANGED <<disk, dir, icache, ftable, ofile, ops, panicked>>
    BY DEF SetCwd, fsVars, fileVars
<1>7. reg[p].ip \in 1..NINODE /\ reg \in [Procs -> Locals] /\ cwd \in [Procs -> 0..NINODE]
      /\ ofile \in [Procs -> [1..NOFILE -> 0..NFILE]]
    BY <1>3, <1>5 DEF InodeLocal, Core, RegOK, TypeOK
<1>8. /\ cwd'[p] = reg[p].ip /\ \A q \in Procs : q # p => cwd'[q] = cwd[q] /\ reg'[q] = reg[q]
      /\ cwd' \in [Procs -> 0..NINODE] /\ RegOK'
    BY <1>7, NoRegLocal DEF SetCwd, RegOK
<1>9. todo' = [todo EXCEPT ![p] = Tail(todo[p])]
    BY <1>1, AtStep DEF SetCwd, Then
<1>10. ops' = [ops EXCEPT ![p] = g.op]
    BY <1>5, <1>6, OpsKept
<1>11. Step1(h, p, g, Tail(todo[p]))
    BY <1>2, <1>3, <1>6, <1>8, <1>9, <1>10 DEF Step1, Now
<1>12. /\ 1 \in 1..NFILE /\ Shared(h, p, 1) /\ Typed(h, p, g, 1) /\ ftable' \in [1..NFILE -> Filed]
       /\ \A k \in 1..NINODE : Held(p, g, k)' = Held(p, h[p], k) => Held(p, g, k)' + Used(1, k)' = Held(p, h[p], k) + Used(1, k)
       /\ \A e \in 1..NFILE : ftable[e].ref \in Nat
    BY <1>5, <1>6, <1>11, SameFiles
<1>13. File1(h, p, g, Tail(todo[p]))
    BY <1>5, <1>6, <1>7, <1>8, <1>11, <1>12 DEF File1, Fresh, Locking
<1>14. InodesEven(h, p, g, 1)
    <2>1. ASSUME NEW k \in 1..NINODE PROVE Held(p, g, k)' = Held(p, h[p], k)
        BY <1>5, <1>8 DEF Held, One
    <2>2. QED
        BY <2>1, <1>12 DEF InodesEven
<1>15. 1 \in 1..NOFILE /\ FilesEven(h, p, g, 1)
    <2>1. 1 \in 1..NOFILE
        BY FilesAssumption
    <2>2. ASSUME NEW e \in 1..NFILE
          PROVE  HeldFile(p, g, 1, e)' = HeldFile(p, h[p], 1, e) /\ HeldFile(p, h[p], 1, e) \in Int
        BY <1>5, <1>6 DEF HeldFile, One
    <2>3. QED
        BY <2>1, <2>2, <1>5, <1>6, <1>12 DEF FilesEven
<1>16. NameLocal(p, g)'
    BY <1>5 DEF NameLocal
<1>17. InodeLocal(p, g)'
    BY <1>5, <1>7, <1>8 DEF InodeLocal
<1>18. FileLocal(p, g)'
    BY <1>5 DEF FileLocal
<1>19. QED
    BY <1>12, <1>13, <1>14, <1>15, <1>16, <1>17, <1>18, FileStep

LEMMA DeadStep == ASSUME NEW h, Now(h), NEW p \in Procs, Dead(p) PROVE FullInv'
<1>1. At(p, <<"dead">>)
    BY DEF Dead
<1>2. PICK g \in Holdings : Trans(<<"dead">>, h[p], g) /\ Fits(Tail(todo[p]), g)
    BY <1>1, AtStep
<1>3. /\ panicked = "no" /\ Books(h) /\ h[p] \in Holdings /\ h \in [Procs -> Holdings] /\ Core
      /\ InodeLocal(p, h[p]) /\ FileLocal(p, h[p]) /\ Accounts(h)
    BY <1>1, AtStep DEF Now
<1>4. h[p] = Closing("none", "out", 0, NOFILE) /\ g = Gone
    BY <1>2 DEF Trans
<1>5. /\ h[p].ip = "none" /\ h[p].dp = "none" /\ h[p].f = "none" /\ h[p].cwd = "out" /\ h[p].stale = 0
      /\ h[p].shut = NOFILE /\ h[p].op = 0
      /\ g.ip = "none" /\ g.dp = "none" /\ g.f = "none" /\ g.cwd = "dead" /\ g.stale = 0
      /\ g.shut = 0 /\ g.op = 0 /\ g.path = "none"
    BY <1>4 DEF Gone, Idling, Closing
<1>6. UNCHANGED <<disk, dir, icache, ftable, ofile, ops, panicked, reg>>
    BY DEF Dead, fsVars, fileVars
<1>7. reg \in [Procs -> Locals] /\ cwd \in [Procs -> 0..NINODE]
      /\ ofile \in [Procs -> [1..NOFILE -> 0..NFILE]] /\ NINODE \in Nat /\ NOFILE \in Nat
    BY <1>3, FilesAssumption DEF Core, RegOK, TypeOK
<1>8. /\ cwd'[p] = 0 /\ \A q \in Procs : q # p => cwd'[q] = cwd[q]
      /\ cwd' \in [Procs -> 0..NINODE] /\ RegOK'
    BY <1>6, <1>7 DEF Dead, RegOK
<1>9. todo' = [todo EXCEPT ![p] = Tail(todo[p])]
    BY <1>1, AtStep DEF Dead, Then
<1>10. ops' = [ops EXCEPT ![p] = g.op]
    BY <1>5, <1>6, OpsKept
<1>11. Step1(h, p, g, Tail(todo[p]))
    BY <1>2, <1>3, <1>6, <1>8, <1>9, <1>10 DEF Step1, Now
<1>12. /\ 1 \in 1..NFILE /\ Shared(h, p, 1) /\ Typed(h, p, g, 1) /\ ftable' \in [1..NFILE -> Filed]
       /\ \A k \in 1..NINODE : Held(p, g, k)' = Held(p, h[p], k) => Held(p, g, k)' + Used(1, k)' = Held(p, h[p], k) + Used(1, k)
       /\ \A e \in 1..NFILE : ftable[e].ref \in Nat
    BY <1>5, <1>6, <1>11, SameFiles
<1>13. File1(h, p, g, Tail(todo[p]))
    BY <1>5, <1>6, <1>7, <1>8, <1>11, <1>12 DEF File1, Fresh, Locking
<1>14. InodesEven(h, p, g, 1)
    <2>1. ASSUME NEW k \in 1..NINODE PROVE Held(p, g, k)' = Held(p, h[p], k)
        BY <1>5, <1>8 DEF Held, One
    <2>2. QED
        BY <2>1, <1>12 DEF InodesEven
<1>15. 1 \in 1..NOFILE /\ FilesEven(h, p, g, 1)
    <2>1. 1 \in 1..NOFILE
        BY FilesAssumption
    <2>2. ASSUME NEW e \in 1..NFILE
          PROVE  HeldFile(p, g, 1, e)' = HeldFile(p, h[p], 1, e) /\ HeldFile(p, h[p], 1, e) \in Int
        BY <1>5, <1>6 DEF HeldFile, One
    <2>3. QED
        BY <2>1, <2>2, <1>5, <1>6, <1>12 DEF FilesEven
<1>16. NameLocal(p, g)'
    BY <1>5 DEF NameLocal
<1>17. InodeLocal(p, g)'
    BY <1>5, <1>8 DEF InodeLocal
<1>18. FileLocal(p, g)'
    BY <1>3, <1>5, <1>6, <1>7 DEF FileLocal
<1>19. QED
    BY <1>12, <1>13, <1>14, <1>15, <1>16, <1>17, <1>18, FileStep

(* exit() closes a descriptor. *)
LEMMA CloseFdFits ==
    ASSUME NEW fd \in 1..NOFILE, NEW t, Fits(t, Closing("none", "own", 0, fd))
    PROVE  /\ Closing("own", "own", fd, fd - 1) \in Holdings
           /\ Fits(<<<<"fileclose">>, <<"clear", fd>>>> \o t, Closing("own", "own", fd, fd - 1))
<1> DEFINE a == Closing("own", "own", fd, fd - 1)
           b == Closing("none", "own", fd, fd - 1)
           c == Closing("none", "own", 0, fd)
           s == <<"clear", fd>>
<1>1. fd \in 0..NOFILE /\ fd - 1 \in 0..NOFILE /\ 0 \in 0..NOFILE
    BY FilesAssumption
<1>2. a \in Holdings /\ b \in Holdings /\ c \in Holdings
    BY <1>1, HoldingTypes
<1>3. "fileclose" \in Verbs /\ "clear" \in Verbs /\ fd \in Words
    BY DEF Verbs, Words
<1>4. <<"fileclose">> \in Steps /\ s \in Steps /\ s[1] = "clear" /\ s[2] = fd
    BY <1>3, StepTypes
<1>5. Trans(<<"fileclose">>, a, b)
    <2>1. a.path = "none" /\ a.stale = fd /\ a.shut = fd - 1
        BY DEF Closing
    <2>2. QED
        BY <2>1 DEF Trans
<1>6. Trans(s, b, c)
    <2>1. b.path = "none"
        BY DEF Closing
    <2>2. QED
        BY <1>4, <2>1 DEF Trans
<1>7. Leads(<<<<"fileclose">>>>, a, b) /\ Leads(<<s>>, b, c)
    BY <1>2, <1>4, <1>5, <1>6, Leads1
<1>8. Leads(<<<<"fileclose">>, s>>, a, c)
    BY <1>4, <1>7, Leads2
<1>9. QED
    BY <1>2, <1>8, FitsConcat

LEMMA CloseFdStep ==
    ASSUME NEW h, Now(h), NEW p \in Procs, NEW fd \in 1..NOFILE, CloseFd(p, fd) PROVE FullInv'
<1> DEFINE s == <<"close", fd>>
<1>1. At(p, s) /\ s[1] = "close" /\ s[2] = fd
    BY DEF CloseFd
<1>2. PICK e \in Holdings : Trans(s, h[p], e) /\ Fits(Tail(todo[p]), e)
    BY <1>1, AtStep
<1>3. /\ panicked = "no" /\ Books(h) /\ h[p] \in Holdings /\ h \in [Procs -> Holdings] /\ Core
      /\ InodeLocal(p, h[p]) /\ FileLocal(p, h[p]) /\ Accounts(h) /\ todo[p] # <<>>
      /\ <<>> \o Tail(todo[p]) = Tail(todo[p])
    BY <1>1, AtStep DEF Now
<1>4. h[p] = Closing("none", "own", 0, fd - 1) /\ e = Closing("none", "own", 0, fd)
    BY <1>1, <1>2 DEF Trans
<1>5. /\ h[p].ip = "none" /\ h[p].dp = "none" /\ h[p].f = "none" /\ h[p].cwd = "own" /\ h[p].stale = 0
      /\ h[p].shut = fd - 1 /\ h[p].op = 0
    BY <1>4 DEF Closing
<1>6. UNCHANGED <<disk, dir, icache, ftable, ofile, cwd, ops, panicked>>
    BY DEF CloseFd, fsVars, fileVars
<1>7. reg \in [Procs -> Locals] /\ cwd \in [Procs -> 0..NINODE]
      /\ ofile \in [Procs -> [1..NOFILE -> 0..NFILE]] /\ NOFILE \in Nat
    BY <1>3, FilesAssumption DEF Core, RegOK, TypeOK
<1>8. ofile[p][fd] \in 0..NFILE
    BY <1>7
<1>9. reg' = [reg EXCEPT ![p] = [reg[p] EXCEPT !.f = ofile[p][fd]]]
    BY <1>7 DEF CloseFd, Locals
<1>10. /\ RegOK' /\ reg'[p].f = ofile[p][fd] /\ \A q \in Procs : q # p => reg'[q] = reg[q]
       /\ reg'[p].ip = reg[p].ip
    BY <1>7, <1>8, <1>9 DEF RegOK, Locals
<1>11. CASE ofile[p][fd] = 0
    <2>1. /\ e.ip = "none" /\ e.dp = "none" /\ e.f = "none" /\ e.cwd = "own" /\ e.stale = 0
          /\ e.shut = fd /\ e.op = 0 /\ e.path = "none"
        BY <1>4 DEF Closing
    <2>2. todo' = [todo EXCEPT ![p] = Tail(todo[p])]
        BY <1>3, <1>11 DEF CloseFd, Then
    <2>3. ops' = [ops EXCEPT ![p] = e.op]
        BY <1>5, <1>6, <2>1, OpsKept
    <2>4. Step1(h, p, e, Tail(todo[p]))
        BY <1>2, <1>3, <1>6, <1>10, <2>2, <2>3 DEF Step1, Now
    <2>5. NameLocal(p, e)'
        BY <2>1 DEF NameLocal
    <2>6. FileLocal(p, e)'
        <3>1. ASSUME NEW x \in 1..NOFILE, x <= fd PROVE ofile[p][x] = 0
            <4>1. x = fd \/ x <= fd - 1
                BY <3>1
            <4>2. QED
                BY <4>1, <1>3, <1>5, <1>11 DEF FileLocal
        <3>2. QED
            BY <3>1, <2>1, <1>6 DEF FileLocal
    <2>7. QED
        BY <1>5, <1>6, <1>10, <2>1, <2>4, <2>5, <2>6, QuietStep
<1>12. CASE ofile[p][fd] # 0
    <2> DEFINE g == Closing("own", "own", fd, fd - 1)
               t == <<<<"fileclose">>, <<"clear", fd>>>> \o Tail(todo[p])
    <2>1. g \in Holdings /\ Fits(t, g)
        BY <1>2, <1>4, CloseFdFits
    <2>2. /\ g.ip = "none" /\ g.dp = "none" /\ g.f = "own" /\ g.cwd = "own" /\ g.stale = fd
          /\ g.shut = fd - 1 /\ g.op = 0 /\ g.path = "none"
        BY DEF Closing
    <2>3. todo' = [todo EXCEPT ![p] = t]
        BY <1>3, <1>12 DEF CloseFd, Then
    <2> HIDE DEF g, t
    <2>4. ops' = [ops EXCEPT ![p] = g.op]
        BY <1>5, <1>6, <2>2, OpsKept
    <2>5. Step1(h, p, g, t)
        BY <1>3, <1>6, <1>10, <2>1, <2>3, <2>4 DEF Step1, Now
    <2>6. /\ 1 \in 1..NFILE /\ Shared(h, p, 1) /\ Typed(h, p, g, 1) /\ ftable' \in [1..NFILE -> Filed]
          /\ \A k \in 1..NINODE : Held(p, g, k)' = Held(p, h[p], k) => Held(p, g, k)' + Used(1, k)' = Held(p, h[p], k) + Used(1, k)
          /\ \A x \in 1..NFILE : ftable[x].ref \in Nat
        BY <1>5, <1>6, <2>5, SameFiles
    <2>7. File1(h, p, g, t)
        BY <1>5, <1>6, <1>7, <1>10, <2>2, <2>5, <2>6 DEF File1, Fresh, Locking
    <2>8. InodesEven(h, p, g, 1)
        <3>1. ASSUME NEW k \in 1..NINODE PROVE Held(p, g, k)' = Held(p, h[p], k)
            BY <1>5, <1>6, <2>2 DEF Held, One
        <3>2. QED
            BY <3>1, <2>6 DEF InodesEven
    <2>9. FilesEven(h, p, g, fd)
        <3>1. ASSUME NEW x \in 1..NFILE
              PROVE  HeldFile(p, g, fd, x)' = HeldFile(p, h[p], fd, x) /\ HeldFile(p, h[p], fd, x) \in Int
            BY <1>5, <1>6, <1>10, <2>2 DEF HeldFile, One
        <3>2. \A x \in 1..NOFILE : x # fd => ofile'[p][x] = ofile[p][x] /\ (x = g.stale <=> x = h[p].stale)
            BY <1>5, <1>6, <2>2
        <3>3. QED
            BY <3>1, <3>2, <2>6, <1>6 DEF FilesEven
    <2>10. NameLocal(p, g)'
        BY <2>2 DEF NameLocal
    <2>11. InodeLocal(p, g)'
        BY <1>3, <1>5, <1>6, <2>2 DEF InodeLocal
    <2>12. FileLocal(p, g)'
        <3>1. ofile[p][fd] \in 1..NFILE /\ UsesFile(p, h[p], ofile[p][fd])
            BY <1>5, <1>8, <1>12 DEF UsesFile
        <3>2. ftable[ofile[p][fd]].type = "inode"
            BY <3>1, <1>3, <1>5, OpenFile DEF Core
        <3>3. QED
            BY <3>1, <3>2, <1>3, <1>5, <1>6, <1>10, <2>2 DEF FileLocal
    <2>13. QED
        BY <2>6, <2>7, <2>8, <2>9, <2>10, <2>11, <2>12, FileStep
<1>13. QED
    BY <1>11, <1>12

LEMMA ClearFdStep ==
    ASSUME NEW h, Now(h), NEW p \in Procs, NEW fd \in 1..NOFILE, ClearFd(p, fd) PROVE FullInv'
<1> DEFINE s == <<"clear", fd>>
<1>1. At(p, s) /\ s[1] = "clear" /\ s[2] = fd
    BY DEF ClearFd
<1>2. PICK g \in Holdings : Trans(s, h[p], g) /\ Fits(Tail(todo[p]), g)
    BY <1>1, AtStep
<1>3. /\ panicked = "no" /\ Books(h) /\ h[p] \in Holdings /\ h \in [Procs -> Holdings] /\ Core
      /\ InodeLocal(p, h[p]) /\ FileLocal(p, h[p]) /\ Accounts(h)
    BY <1>1, AtStep DEF Now
<1>4. h[p] = Closing("none", "own", fd, fd - 1) /\ g = Closing("none", "own", 0, fd)
    BY <1>1, <1>2 DEF Trans
<1>5. /\ h[p].ip = "none" /\ h[p].dp = "none" /\ h[p].f = "none" /\ h[p].cwd = "own" /\ h[p].stale = fd
      /\ h[p].shut = fd - 1 /\ h[p].op = 0
      /\ g.ip = "none" /\ g.dp = "none" /\ g.f = "none" /\ g.cwd = "own" /\ g.stale = 0
      /\ g.shut = fd /\ g.op = 0 /\ g.path = "none"
    BY <1>4 DEF Closing
<1>6. UNCHANGED <<disk, dir, icache, ftable, cwd, reg, ops, panicked>>
    BY DEF ClearFd, fsVars
<1>7. reg \in [Procs -> Locals] /\ cwd \in [Procs -> 0..NINODE]
      /\ ofile \in [Procs -> [1..NOFILE -> 0..NFILE]] /\ NOFILE \in Nat /\ 0 \in 0..NFILE
    BY <1>3, FilesAssumption DEF Core, RegOK, TypeOK
<1>8. ofile' = [ofile EXCEPT ![p] = [ofile[p] EXCEPT ![fd] = 0]]
    BY <1>7 DEF ClearFd
<1>9. /\ ofile' \in [Procs -> [1..NOFILE -> 0..NFILE]] /\ ofile'[p][fd] = 0
      /\ \A x \in 1..NOFILE : x # fd => ofile'[p][x] = ofile[p][x]
      /\ \A q \in Procs : q # p => ofile'[q] = ofile[q]
    BY <1>7, <1>8
<1>10. todo' = [todo EXCEPT ![p] = Tail(todo[p])]
    BY <1>1, AtStep DEF ClearFd, Then
<1>11. ops' = [ops EXCEPT ![p] = g.op]
    BY <1>5, <1>6, OpsKept
<1>12. Step1(h, p, g, Tail(todo[p]))
    BY <1>2, <1>3, <1>6, <1>9, <1>10, <1>11 DEF Step1, Now
<1>13. /\ 1 \in 1..NFILE /\ Shared(h, p, 1) /\ Typed(h, p, g, 1) /\ ftable' \in [1..NFILE -> Filed]
       /\ \A k \in 1..NINODE : Held(p, g, k)' = Held(p, h[p], k) => Held(p, g, k)' + Used(1, k)' = Held(p, h[p], k) + Used(1, k)
       /\ \A e \in 1..NFILE : ftable[e].ref \in Nat
    BY <1>5, <1>6, <1>12, SameFiles
<1>14. File1(h, p, g, Tail(todo[p]))
    BY <1>5, <1>6, <1>7, <1>9, <1>12, <1>13 DEF File1, Fresh, Locking, RegOK
<1>15. InodesEven(h, p, g, 1)
    <2>1. ASSUME NEW k \in 1..NINODE PROVE Held(p, g, k)' = Held(p, h[p], k)
        BY <1>5, <1>6 DEF Held, One
    <2>2. QED
        BY <2>1, <1>13 DEF InodesEven
<1>16. FilesEven(h, p, g, fd)
    <2>1. ASSUME NEW x \in 1..NFILE
          PROVE  HeldFile(p, g, fd, x)' = HeldFile(p, h[p], fd, x) /\ HeldFile(p, h[p], fd, x) \in Int
        BY <1>5, <1>9 DEF HeldFile, One
    <2>2. QED
        BY <2>1, <1>5, <1>6, <1>9, <1>13 DEF FilesEven
<1>17. NameLocal(p, g)'
    BY <1>5 DEF NameLocal
<1>18. InodeLocal(p, g)'
    BY <1>3, <1>5, <1>6 DEF InodeLocal
<1>19. FileLocal(p, g)'
    <2>1. ASSUME NEW x \in 1..NOFILE, x <= fd PROVE ofile'[p][x] = 0
        <3>1. CASE x = fd
            BY <3>1, <1>9
        <3>2. CASE x # fd
            <4>1. x <= fd - 1
                BY <2>1, <3>2
            <4>2. QED
                BY <4>1, <3>2, <1>3, <1>5, <1>9 DEF FileLocal
        <3>3. QED
            BY <3>1, <3>2
    <2>2. QED
        BY <2>1, <1>5 DEF FileLocal
<1>20. QED
    BY <1>13, <1>14, <1>15, <1>16, <1>17, <1>18, <1>19, FileStep

LEMMA CallFits ==
    /\ \A n \in 1..NOFILE :
          Closing("dup", "own", n, 0) \in Holdings /\ Fits(<<<<"filedup">>>>, Closing("dup", "own", n, 0))
    /\ Closing("own", "own", 0, 0) \in Holdings /\ Fits(<<<<"fileclose">>>>, Closing("own", "own", 0, 0))
<1>1. 0 \in 0..NOFILE /\ \A n \in 1..NOFILE : n \in 0..NOFILE
    BY FilesAssumption
<1>2. Nothing \in Holdings /\ Closing("none", "own", 0, 0) = Nothing
    BY HoldingTypes DEF Nothing, Idling, Closing
<1>3. <<"filedup">> \in Steps /\ <<"fileclose">> \in Steps
    BY StepTypes DEF Verbs
<1>4. ASSUME NEW n \in 1..NOFILE
      PROVE  Closing("dup", "own", n, 0) \in Holdings /\ Fits(<<<<"filedup">>>>, Closing("dup", "own", n, 0))
    <2> DEFINE a == Closing("dup", "own", n, 0)
    <2>1. a \in Holdings
        BY <1>1, HoldingTypes
    <2>2. Trans(<<"filedup">>, a, Nothing)
        <3>1. a.stale = n /\ n # 0 /\ a.path = "none"
            BY DEF Closing
        <3>2. QED
            BY <3>1 DEF Trans
    <2> HIDE DEF a
    <2>3. Fits(<<<<"filedup">>>>, a)
        BY <2>1, <2>2, <1>2, <1>3, Leads1 DEF Fits
    <2>4. QED
        BY <2>1, <2>3 DEF a
<1>5. Closing("own", "own", 0, 0) \in Holdings /\ Fits(<<<<"fileclose">>>>, Closing("own", "own", 0, 0))
    <2> DEFINE a == Closing("own", "own", 0, 0)
    <2>1. a \in Holdings
        BY <1>1, HoldingTypes
    <2>2. Trans(<<"fileclose">>, a, Nothing)
        <3>1. a.stale = 0 /\ a.shut = 0 /\ a.path = "none"
            BY DEF Closing
        <3>2. QED
            BY <3>1, <1>2 DEF Trans
    <2> HIDE DEF a
    <2>3. Fits(<<<<"fileclose">>>>, a)
        BY <2>1, <2>2, <1>2, <1>3, Leads1 DEF Fits
    <2>4. QED
        BY <2>1, <2>3 DEF a
<1>6. QED
    BY <1>4, <1>5

LEMMA FreeFds ==
    ASSUME NEW p, FreeFd(p) # {}
    PROVE  Min(FreeFd(p)) \in 1..NOFILE /\ ofile[p][Min(FreeFd(p))] = 0
<1>1. NOFILE \in Nat /\ FreeFd(p) \in SUBSET (1..NOFILE)
    BY FilesAssumption DEF FreeFd
<1>2. Min(FreeFd(p)) \in FreeFd(p)
    BY <1>1, MinIn
<1>3. QED
    BY <1>2 DEF FreeFd

(* A call that changes the descriptor n of p, from v to w. *)
LEMMA FdCall ==
    ASSUME NEW h, Now(h), NEW p \in Procs, NEW f \in 1..NFILE, UsesFile(p, h[p], f),
           NEW n \in 1..NOFILE, NEW w \in 0..NFILE, ofile' = [ofile EXCEPT ![p][n] = w],
           NEW t, Call(p, t, [NoReg EXCEPT !.f = f]),
           UNCHANGED <<disk, dir, icache, ftable, cwd, ops, panicked>>,
           NEW g \in Holdings, Fits(t, g),
           \/ /\ g = Closing("dup", "own", n, 0) /\ w = f /\ ofile[p][n] = 0
              /\ \E fd \in 1..NOFILE : ofile[p][fd] = f
           \/ g = Closing("own", "own", 0, 0) /\ w = 0 /\ ofile[p][n] = f
    PROVE  FullInv'
<1>1. h[p] = Nothing /\ Books(h) /\ InodeLocal(p, h[p]) /\ FileLocal(p, h[p]) /\ panicked = "no" /\ Core
    BY Between DEF Call, Now
<1>2. /\ h[p].ip = "none" /\ h[p].dp = "none" /\ h[p].f = "none" /\ h[p].cwd = "own" /\ h[p].stale = 0
      /\ h[p].shut = 0 /\ h[p].op = 0
    BY <1>1 DEF Nothing, Idling
<1>3. /\ g.ip = "none" /\ g.dp = "none" /\ g.cwd = "own" /\ g.shut = 0 /\ g.op = 0 /\ g.path = "none"
      /\ \/ /\ g.f = "dup" /\ g.stale = n /\ w = f /\ ofile[p][n] = 0
            /\ \E fd \in 1..NOFILE : ofile[p][fd] = f
         \/ g.f = "own" /\ g.stale = 0 /\ w = 0 /\ ofile[p][n] = f
    BY DEF Closing
<1>4. ops' = [ops EXCEPT ![p] = g.op]
    BY <1>2, <1>3, OpsKept
<1>5. reg \in [Procs -> Locals] /\ cwd \in [Procs -> 0..NINODE]
      /\ ofile \in [Procs -> [1..NOFILE -> 0..NFILE]]
    BY <1>1 DEF Core, RegOK, TypeOK
<1>6. /\ ofile' \in [Procs -> [1..NOFILE -> 0..NFILE]] /\ ofile'[p][n] = w
      /\ \A x \in 1..NOFILE : x # n => ofile'[p][x] = ofile[p][x]
      /\ \A q \in Procs : q # p => ofile'[q] = ofile[q]
    <2>1. ofile' = [ofile EXCEPT ![p] = [ofile[p] EXCEPT ![n] = w]]
        BY <1>5
    <2>2. PICK F : F = [ofile[p] EXCEPT ![n] = w]
        OBVIOUS
    <2>3. ofile[p] \in [1..NOFILE -> 0..NFILE]
        BY <1>5
    <2>4. F \in [1..NOFILE -> 0..NFILE] /\ F[n] = w /\ \A x \in 1..NOFILE : x # n => F[x] = ofile[p][x]
        BY <2>2, <2>3, Replaced
    <2>5. ofile' = [ofile EXCEPT ![p] = F]
        BY <2>1, <2>2
    <2>6. ofile'[p] = F /\ ofile' \in [Procs -> [1..NOFILE -> 0..NFILE]]
          /\ \A q \in Procs : q # p => ofile'[q] = ofile[q]
        BY <2>4, <2>5, <1>5
    <2>7. QED
        BY <2>4, <2>6
<1>7. [NoReg EXCEPT !.f = f] \in Locals /\ [NoReg EXCEPT !.f = f].f = f
    <2>1. f \in 0..NFILE
        OBVIOUS
    <2>2. QED
        BY <2>1, NoRegLocal DEF Locals
<1>8. /\ RegOK' /\ reg'[p].f = f /\ \A q \in Procs : q # p => reg'[q] = reg[q]
    BY <1>5, <1>7 DEF RegOK, Call
<1>9. Step1(h, p, g, t)
    BY <1>1, <1>4, <1>6, <1>8 DEF Step1, Now, Call
<1>10. /\ 1 \in 1..NFILE /\ Shared(h, p, 1) /\ Typed(h, p, g, 1) /\ ftable' \in [1..NFILE -> Filed]
       /\ \A k \in 1..NINODE : Held(p, g, k)' = Held(p, h[p], k) => Held(p, g, k)' + Used(1, k)' = Held(p, h[p], k) + Used(1, k)
       /\ \A e \in 1..NFILE : ftable[e].ref \in Nat
    BY <1>2, <1>9, SameFiles
<1>11. File1(h, p, g, t)
    BY <1>2, <1>3, <1>5, <1>6, <1>8, <1>9, <1>10 DEF File1, Fresh, Locking
<1>12. InodesEven(h, p, g, 1)
    <2>1. ASSUME NEW k \in 1..NINODE PROVE Held(p, g, k)' = Held(p, h[p], k)
        BY <1>2, <1>3 DEF Held, One
    <2>2. QED
        BY <2>1, <1>10 DEF InodesEven
<1>13. FilesEven(h, p, g, n)
    <2>1. ASSUME NEW x \in 1..NFILE
          PROVE  HeldFile(p, g, n, x)' = HeldFile(p, h[p], n, x) /\ HeldFile(p, h[p], n, x) \in Int
        <3>1. x # 0 /\ n # 0
            OBVIOUS
        <3>2. QED
            BY <3>1, <1>2, <1>3, <1>6, <1>8 DEF HeldFile, One
    <2>2. \A x \in 1..NOFILE : x # n => ofile'[p][x] = ofile[p][x] /\ (x = g.stale <=> x = h[p].stale)
        BY <1>2, <1>3, <1>6
    <2>3. QED
        BY <2>1, <2>2, <1>10 DEF FilesEven
<1>14. NameLocal(p, g)'
    BY <1>3 DEF NameLocal
<1>15. InodeLocal(p, g)'
    BY <1>1, <1>2, <1>3 DEF InodeLocal
<1>16. FileLocal(p, g)'
    <2>1. ftable[f].type = "inode"
        BY <1>1, <1>2, OpenFile DEF Core, Now
    <2>2. g.f = "dup" => \E fd \in 1..NOFILE : fd # g.stale /\ ofile'[p][fd] = reg'[p].f
        <3>1. SUFFICES ASSUME g.f = "dup" PROVE \E fd \in 1..NOFILE : fd # g.stale /\ ofile'[p][fd] = reg'[p].f
            OBVIOUS
        <3>2. PICK fd \in 1..NOFILE : ofile[p][fd] = f
            BY <3>1, <1>3
        <3>3. fd # n /\ g.stale = n
            BY <3>1, <3>2, <1>3
        <3>4. QED
            BY <3>2, <3>3, <1>6, <1>8
    <2>3. QED
        BY <2>1, <2>2, <1>3, <1>6, <1>8 DEF FileLocal
<1>17. QED
    BY <1>10, <1>11, <1>12, <1>13, <1>14, <1>15, <1>16, FileStep

LEMMA OpenFd ==
    ASSUME NEW h, Now(h), NEW p \in Procs, NEW fd \in 1..NOFILE, Argfd(p, fd), panicked = "no", cwd[p] # 0, todo[p] = <<>>
    PROVE  ofile[p][fd] \in 1..NFILE /\ UsesFile(p, h[p], ofile[p][fd])
<1>1. h[p] = Nothing
    BY Between
<1>2. h[p].stale = 0
    BY <1>1 DEF Nothing, Idling
<1>3. ofile \in [Procs -> [1..NOFILE -> 0..NFILE]]
    BY DEF Now, Core, TypeOK
<1>4. ofile[p][fd] \in 0..NFILE
    BY <1>3
<1>5. QED
    BY <1>2, <1>4 DEF Argfd, UsesFile

LEMMA DupStep ==
    ASSUME NEW h, Now(h), NEW p \in Procs, NEW fd \in 1..NOFILE, Dup(p, fd) PROVE FullInv'
<1>1. panicked = "no" /\ cwd[p] # 0 /\ todo[p] = <<>>
    BY DEF Dup, Call
<1>2. PICK f : f = ofile[p][fd]
    OBVIOUS
<1>3. PICK n : n = Min(FreeFd(p))
    OBVIOUS
<1>4. f \in 1..NFILE /\ UsesFile(p, h[p], f)
    BY <1>1, <1>2, OpenFd DEF Dup
<1>5. n \in 1..NOFILE /\ ofile[p][n] = 0
    BY <1>3, FreeFds DEF Dup
<1>6. ofile' = [ofile EXCEPT ![p][n] = f] /\ Call(p, <<<<"filedup">>>>, [NoReg EXCEPT !.f = f])
    BY <1>2, <1>3 DEF Dup
<1>7. f \in 0..NFILE
    BY <1>4
<1>8. UNCHANGED <<disk, dir, icache, ftable, cwd, ops, panicked>>
    BY DEF Dup, fsVars
<1>9. PICK g : g = Closing("dup", "own", n, 0)
    OBVIOUS
<1>10. g \in Holdings /\ Fits(<<<<"filedup">>>>, g)
    BY <1>5, <1>9, CallFits
<1>11. QED
    BY <1>2, <1>4, <1>5, <1>6, <1>7, <1>8, <1>9, <1>10, FdCall

LEMMA CloseStep ==
    ASSUME NEW h, Now(h), NEW p \in Procs, NEW fd \in 1..NOFILE, Close(p, fd) PROVE FullInv'
<1>1. panicked = "no" /\ cwd[p] # 0 /\ todo[p] = <<>>
    BY DEF Close, Call
<1>2. PICK f : f = ofile[p][fd]
    OBVIOUS
<1>3. f \in 1..NFILE /\ UsesFile(p, h[p], f)
    BY <1>1, <1>2, OpenFd DEF Close
<1>4. ofile' = [ofile EXCEPT ![p][fd] = 0] /\ Call(p, <<<<"fileclose">>>>, [NoReg EXCEPT !.f = f])
    BY <1>2 DEF Close
<1>5. 0 \in 0..NFILE
    BY FilesAssumption
<1>6. UNCHANGED <<disk, dir, icache, ftable, cwd, ops, panicked>>
    BY DEF Close, fsVars
<1>7. PICK g : g = Closing("own", "own", 0, 0)
    OBVIOUS
<1>8. g \in Holdings /\ Fits(<<<<"fileclose">>>>, g)
    BY <1>7, CallFits
<1>9. QED
    BY <1>2, <1>3, <1>4, <1>5, <1>6, <1>7, <1>8, FdCall

(* A file with a reference that nobody else shares: what changes is p's. *)
LEMMA OneFile ==
    ASSUME NEW h, NEW p, NEW f \in 1..NFILE, ftable \in [1..NFILE -> Filed], NEW v \in Filed,
           ftable' = [ftable EXCEPT ![f] = v]
    PROVE  /\ ftable' \in [1..NFILE -> Filed] /\ ftable'[f] = v
           /\ \A e \in 1..NFILE : e # f => ftable'[e] = ftable[e]
           /\ \A e \in 1..NFILE : ftable[e].ref \in Nat
BY DEF Filed

LEMMA SetFileStep ==
    ASSUME NEW h, Now(h), NEW p \in Procs, NEW mode \in Modes \cup CreateModes, SetFile(p, mode)
    PROVE  FullInv'
<1> DEFINE s == <<"setfile", mode>>
<1>1. At(p, s) /\ s[1] = "setfile"
    BY DEF SetFile
<1>2. PICK g \in Holdings : Trans(s, h[p], g) /\ Fits(Tail(todo[p]), g)
    BY <1>1, AtStep
<1>3. /\ panicked = "no" /\ Books(h) /\ h[p] \in Holdings /\ h \in [Procs -> Holdings] /\ Core
      /\ InodeLocal(p, h[p]) /\ FileLocal(p, h[p]) /\ Accounts(h)
    BY <1>1, AtStep DEF Now
<1>4. h[p] = Idling("ref", "new", "own") /\ g = Nothing
    BY <1>1, <1>2 DEF Trans
<1>5. /\ h[p].ip = "ref" /\ h[p].dp = "none" /\ h[p].f = "new" /\ h[p].cwd = "own" /\ h[p].stale = 0
      /\ h[p].shut = 0 /\ h[p].op = 0
      /\ g.ip = "none" /\ g.dp = "none" /\ g.f = "none" /\ g.cwd = "own" /\ g.stale = 0
      /\ g.shut = 0 /\ g.op = 0 /\ g.path = "none"
    BY <1>4 DEF Nothing, Idling
<1>6. UNCHANGED <<disk, dir, icache, ofile, cwd, ops, panicked>>
    BY DEF SetFile, fsVars
<1>7. /\ reg[p].ip \in 1..NINODE /\ reg \in [Procs -> Locals] /\ cwd \in [Procs -> 0..NINODE]
      /\ ofile \in [Procs -> [1..NOFILE -> 0..NFILE]] /\ ftable \in [1..NFILE -> Filed]
    BY <1>3, <1>5 DEF InodeLocal, Core, RegOK, TypeOK, Filed
<1>8. PICK f : f = reg[p].f
    OBVIOUS
<1>9. f \in 1..NFILE /\ ftable[f].ref = 1 /\ ftable[f].type = "none"
    BY <1>3, <1>5, <1>8 DEF FileLocal
<1>10. PICK v : v = [ref |-> ftable[f].ref, type |-> "inode", ip |-> reg[p].ip,
                     readable |-> mode # "w", writable |-> mode # "r"]
    OBVIOUS
<1>11. v \in Filed /\ v.ref = 1 /\ v.type = "inode" /\ v.ip = reg[p].ip
    <2>1. (mode # "w") \in BOOLEAN /\ (mode # "r") \in BOOLEAN /\ reg[p].ip \in 0..NINODE
        BY <1>7
    <2>2. QED
        BY <2>1, <1>9, <1>10 DEF Filed
<1>12. ftable' = [ftable EXCEPT ![f] = v]
    BY <1>7, <1>8, <1>9, <1>10 DEF SetFile
<1>13. /\ ftable' \in [1..NFILE -> Filed] /\ ftable'[f] = v
       /\ \A e \in 1..NFILE : e # f => ftable'[e] = ftable[e]
       /\ \A e \in 1..NFILE : ftable[e].ref \in Nat
    BY <1>7, <1>9, <1>11, <1>12, OneFile
<1>14. RegOK' /\ \A q \in Procs : q # p => reg'[q] = reg[q]
    BY <1>7, NoRegLocal DEF SetFile, RegOK
<1>15. todo' = [todo EXCEPT ![p] = Tail(todo[p])]
    BY <1>1, AtStep DEF SetFile, Then
<1>16. ops' = [ops EXCEPT ![p] = g.op]
    BY <1>5, <1>6, OpsKept
<1>17. Step1(h, p, g, Tail(todo[p]))
    BY <1>2, <1>3, <1>6, <1>14, <1>15, <1>16 DEF Step1, Now
<1>18. File1(h, p, g, Tail(todo[p]))
    BY <1>5, <1>6, <1>7, <1>13, <1>14, <1>17 DEF File1, Fresh, Locking
<1>19. Shared(h, p, f)
    <2>1. \A q \in Procs : q # p => ~UsesFile(q, h[q], f)
        BY <1>3, <1>5, <1>8, Exclusive
    <2>2. QED
        BY <2>1, <1>13 DEF Shared
<1>20. Typed(h, p, g, f)
    BY <1>5, <1>7, <1>8, <1>11, <1>13 DEF Typed
<1>21. InodesEven(h, p, g, f)
    <2>1. ASSUME NEW k \in 1..NINODE PROVE Held(p, g, k)' + Used(f, k)' = Held(p, h[p], k) + Used(f, k)
        <3>1. Held(p, g, k)' = One(cwd[p] = k) /\ Held(p, h[p], k) = One(reg[p].ip = k) + One(cwd[p] = k)
            BY <1>5, <1>6 DEF Held, One
        <3>2. Used(f, k)' = One(reg[p].ip = k) /\ Used(f, k) = 0
            BY <1>9, <1>11, <1>13 DEF Used, One
        <3>3. One(cwd[p] = k) \in Int /\ One(reg[p].ip = k) \in Int
            BY DEF One
        <3>4. QED
            BY <3>1, <3>2, <3>3
    <2>2. QED
        BY <2>1 DEF InodesEven
<1>22. 1 \in 1..NOFILE /\ FilesEven(h, p, g, 1)
    <2>1. 1 \in 1..NOFILE
        BY FilesAssumption
    <2>2. ASSUME NEW e \in 1..NFILE
          PROVE  HeldFile(p, g, 1, e)' = HeldFile(p, h[p], 1, e) /\ HeldFile(p, h[p], 1, e) \in Int
        BY <1>5, <1>6 DEF HeldFile, One
    <2>3. ASSUME NEW e \in 1..NFILE PROVE ftable'[e].ref = ftable[e].ref
        BY <1>9, <1>11, <1>13
    <2>4. QED
        BY <2>1, <2>2, <2>3, <1>5, <1>6, <1>13 DEF FilesEven
<1>23. NameLocal(p, g)'
    BY <1>5 DEF NameLocal
<1>24. InodeLocal(p, g)'
    BY <1>3, <1>5, <1>6 DEF InodeLocal
<1>25. FileLocal(p, g)'
    BY <1>5 DEF FileLocal
<1>26. QED
    BY <1>9, <1>18, <1>19, <1>20, <1>21, <1>22, <1>23, <1>24, <1>25, FileStep

LEMMA FiledupStep == ASSUME NEW h, Now(h), NEW p \in Procs, Filedup(p) PROVE FullInv'
<1>1. At(p, <<"filedup">>)
    BY DEF Filedup
<1>2. PICK g \in Holdings : Trans(<<"filedup">>, h[p], g) /\ Fits(Tail(todo[p]), g)
    BY <1>1, AtStep
<1>3. /\ panicked = "no" /\ Books(h) /\ h[p] \in Holdings /\ h \in [Procs -> Holdings] /\ Core
      /\ InodeLocal(p, h[p]) /\ FileLocal(p, h[p]) /\ Accounts(h)
    BY <1>1, AtStep DEF Now
<1>n. PICK n : n = h[p].stale
    OBVIOUS
<1>4. h[p] = Closing("dup", "own", n, 0) /\ n # 0 /\ g = Nothing
    BY <1>2, <1>n DEF Trans
<1>5. /\ h[p].ip = "none" /\ h[p].dp = "none" /\ h[p].f = "dup" /\ h[p].cwd = "own" /\ h[p].stale = n
      /\ h[p].shut = 0 /\ h[p].op = 0
      /\ g.ip = "none" /\ g.dp = "none" /\ g.f = "none" /\ g.cwd = "own" /\ g.stale = 0
      /\ g.shut = 0 /\ g.op = 0 /\ g.path = "none"
    BY <1>4 DEF Nothing, Idling, Closing
<1>6. n \in 1..NOFILE
    <2>1. n \in 0..NOFILE
        BY <1>3, <1>n DEF Holdings
    <2>2. QED
        BY <2>1, <1>4
<1>7. /\ reg \in [Procs -> Locals] /\ cwd \in [Procs -> 0..NINODE]
      /\ ofile \in [Procs -> [1..NOFILE -> 0..NFILE]] /\ ftable \in [1..NFILE -> Filed]
    BY <1>3 DEF Core, RegOK, TypeOK, Filed
<1>8. PICK f : f = reg[p].f
    OBVIOUS
<1>9. /\ f \in 1..NFILE /\ ofile[p][n] = f /\ UsesFile(p, h[p], f)
    BY <1>3, <1>5, <1>8 DEF FileLocal, UsesFile
<1>10. ftable[f].type = "inode" /\ ftable[f].ip \in 1..NINODE /\ ftable[f].ref >= 1 /\ ftable[f] \in Filed
    BY <1>3, <1>5, <1>7, <1>9, OpenFile DEF Core
<1>11. UNCHANGED <<disk, dir, icache, ofile, cwd, ops, panicked>>
    BY <1>8, <1>10 DEF Filedup, Check, fsVars
<1>12. PICK v : v = [ftable[f] EXCEPT !.ref = ftable[f].ref + 1]
    OBVIOUS
<1>13. v \in Filed /\ v.ref = ftable[f].ref + 1 /\ v.type = "inode" /\ v.ip = ftable[f].ip
    BY <1>10, <1>12 DEF Filed
<1>14. ftable' = [ftable EXCEPT ![f] = v]
    BY <1>7, <1>8, <1>9, <1>12 DEF Filedup
<1>15. /\ ftable' \in [1..NFILE -> Filed] /\ ftable'[f] = v
       /\ \A e \in 1..NFILE : e # f => ftable'[e] = ftable[e]
       /\ \A e \in 1..NFILE : ftable[e].ref \in Nat
    BY <1>7, <1>9, <1>13, <1>14, OneFile
<1>16. RegOK' /\ \A q \in Procs : q # p => reg'[q] = reg[q]
    <2>1. 0 \in 0..NFILE
        BY FilesAssumption
    <2>2. reg' = [reg EXCEPT ![p] = [reg[p] EXCEPT !.f = 0]]
        BY <1>7 DEF Filedup, Locals
    <2>3. QED
        BY <2>1, <2>2, <1>7 DEF RegOK, Locals
<1>17. todo' = [todo EXCEPT ![p] = Tail(todo[p])]
    BY <1>1, AtStep DEF Filedup, Then
<1>18. ops' = [ops EXCEPT ![p] = g.op]
    BY <1>5, <1>11, OpsKept
<1>19. Step1(h, p, g, Tail(todo[p]))
    BY <1>2, <1>3, <1>11, <1>16, <1>17, <1>18 DEF Step1, Now
<1>20. File1(h, p, g, Tail(todo[p]))
    BY <1>5, <1>7, <1>11, <1>15, <1>16, <1>19 DEF File1, Fresh, Locking
<1>21. Shared(h, p, f)
    <2>1. ASSUME NEW q \in Procs, q # p, h[q].f \in {"new", "void"}, reg[q].f = f PROVE FALSE
        BY <2>1, <1>3, <1>9, Exclusive
    <2>2. QED
        BY <2>1, <1>10, <1>13, <1>15 DEF Shared
<1>22. Typed(h, p, g, f)
    <2>1. ftable'[f].type = "inode" /\ ftable'[f].ref >= 1 /\ ftable'[f].ip \in 1..NINODE
        BY <1>9, <1>10, <1>13, <1>15
    <2>2. QED
        BY <2>1, <1>5 DEF Typed
<1>23. InodesEven(h, p, g, f)
    <2>1. ASSUME NEW k \in 1..NINODE
          PROVE  /\ Held(p, g, k)' = Held(p, h[p], k) /\ Used(f, k)' = Used(f, k)
        BY <1>5, <1>10, <1>11, <1>13, <1>15 DEF Held, Used, One
    <2>2. QED
        BY <2>1 DEF InodesEven
<1>24. FilesEven(h, p, g, n)
    <2>1. ASSUME NEW e \in 1..NFILE
          PROVE  HeldFile(p, g, n, e)' = One(e = f) /\ HeldFile(p, h[p], n, e) = 0
        BY <1>4, <1>5, <1>9, <1>11 DEF HeldFile, One
    <2>2. ASSUME NEW e \in 1..NFILE PROVE ftable'[e].ref = ftable[e].ref + One(e = f) /\ ftable[e].ref \in Nat
        BY <1>9, <1>13, <1>15 DEF One
    <2>3. ASSUME NEW e \in 1..NFILE
          PROVE  ftable'[e].ref = ftable[e].ref - HeldFile(p, h[p], n, e) + HeldFile(p, g, n, e)'
        <3>1. One(e = f) \in Int
            BY DEF One
        <3>2. QED
            BY <2>1, <2>2, <3>1
    <2>4. \A x \in 1..NOFILE : x # n => ofile'[p][x] = ofile[p][x] /\ (x = g.stale <=> x = h[p].stale)
        BY <1>5, <1>11
    <2>5. QED
        BY <2>3, <2>4 DEF FilesEven
<1>25. NameLocal(p, g)'
    BY <1>5 DEF NameLocal
<1>26. InodeLocal(p, g)'
    BY <1>3, <1>5, <1>11 DEF InodeLocal
<1>27. FileLocal(p, g)'
    BY <1>5 DEF FileLocal
<1>28. QED
    BY <1>6, <1>9, <1>20, <1>21, <1>22, <1>23, <1>24, <1>25, <1>26, <1>27, FileStep

(* The last close of a file: its inode is put in an operation of its own. *)
Putting(o, d, stale, shut) ==
    [op |-> o, ip |-> "none", dp |-> d, f |-> "none", cwd |-> "own",
     path |-> "none", stale |-> stale, shut |-> shut]

LEMMA LastCloseFits ==
    ASSUME NEW m \in 0..NOFILE, NEW n \in 0..NOFILE, NEW t, Fits(t, Closing("none", "own", m, n))
    PROVE  /\ Putting(0, "ref", m, n) \in Holdings
           /\ Fits(<<<<"begin_op">>>> \o Iput("dp") \o <<<<"end_op">>>> \o t, Putting(0, "ref", m, n))
<1> DEFINE a == Putting(0, "ref", m, n)
           b == Putting(1, "ref", m, n)
           c == Putting(1, "none", m, n)
           d == Closing("none", "own", m, n)
<1>1. a \in Holdings /\ b \in Holdings /\ c \in Holdings
    BY DEF Holdings, Putting
<1>2. d \in Holdings
    BY HoldingTypes
<1>3. a.path # "absent" /\ a.op = 0 /\ NoLock(a) /\ [a EXCEPT !.op = 1] = b
    BY <1>1, HoldingSet DEF Putting, NoLock
<1>4. b.path # "absent" /\ b.dp = "ref" /\ b.ip # "uselock" /\ [b EXCEPT !.dp = "none"] = c
    BY <1>1, HoldingSet DEF Putting
<1>5. c.path # "absent" /\ c.op = 1 /\ [c EXCEPT !.op = 0] = d
    BY <1>1, <1>2, HoldingSet DEF Putting, Closing
<1> HIDE DEF a, b, c, d
<1>6. Leads(<<<<"begin_op">>>>, a, b)
    BY <1>1, <1>3, OpSteps
<1>7. Leads(Iput("dp"), b, c)
    BY <1>1, <1>4, IputSteps
<1>8. Leads(<<<<"end_op">>>>, c, d)
    BY <1>1, <1>5, OpSteps
<1>9. Leads(<<<<"begin_op">>>> \o Iput("dp") \o <<<<"end_op">>>>, a, d)
    BY <1>6, <1>7, <1>8, LeadsConcat
<1>10. Fits(<<<<"begin_op">>>> \o Iput("dp") \o <<<<"end_op">>>> \o t, a)
    BY <1>9, FitsConcat DEF d
<1>11. QED
    BY <1>1, <1>10 DEF a

LEMMA FilecloseStep == ASSUME NEW h, Now(h), NEW p \in Procs, Fileclose(p) PROVE FullInv'
<1>1. At(p, <<"fileclose">>)
    BY DEF Fileclose
<1>2. PICK e \in Holdings : Trans(<<"fileclose">>, h[p], e) /\ Fits(Tail(todo[p]), e)
    BY <1>1, AtStep
<1>3. /\ panicked = "no" /\ Books(h) /\ h[p] \in Holdings /\ h \in [Procs -> Holdings] /\ Core
      /\ InodeLocal(p, h[p]) /\ FileLocal(p, h[p]) /\ Accounts(h)
      /\ <<>> \o Tail(todo[p]) = Tail(todo[p])
    BY <1>1, AtStep DEF Now
<1>4. PICK m, n : m = h[p].stale /\ n = h[p].shut
    OBVIOUS
<1>5. \/ h[p] = InOp("lock", "none", "void") /\ e = InOp("lock", "none", "none")
      \/ h[p] = Closing("own", "own", m, n) /\ e = Closing("none", "own", m, n)
    BY <1>2, <1>4 DEF Trans
<1>6. m \in 0..NOFILE /\ n \in 0..NOFILE
    BY <1>3, <1>4 DEF Holdings
<1>7. /\ h[p].dp = "none" /\ h[p].f \in {"void", "own"} /\ h[p].cwd = "own" /\ h[p].stale = m /\ h[p].shut = n
      /\ e.dp = "none" /\ e.f = "none" /\ e.cwd = "own" /\ e.stale = m /\ e.shut = n /\ e.op = h[p].op
      /\ e.path = "none" /\ e.ip = h[p].ip
      /\ h[p].f = "void" => h[p].ip = "lock"
      /\ h[p].f = "own" => h[p].ip = "none" /\ h[p].op = 0 /\ e = Closing("none", "own", m, n)
    BY <1>4, <1>5 DEF InOp, Closing
<1>8. /\ reg \in [Procs -> Locals] /\ cwd \in [Procs -> 0..NINODE]
      /\ ofile \in [Procs -> [1..NOFILE -> 0..NFILE]] /\ ftable \in [1..NFILE -> Filed]
    BY <1>3 DEF Core, RegOK, TypeOK, Filed
<1>9. PICK f : f = reg[p].f
    OBVIOUS
<1>10. /\ f \in 1..NFILE /\ UsesFile(p, h[p], f) /\ ftable[f] \in Filed
       /\ h[p].f = "void" => ftable[f].ref = 1 /\ ftable[f].type = "none"
       /\ h[p].f = "own" => ftable[f].type = "inode"
    BY <1>3, <1>7, <1>8, <1>9 DEF FileLocal, UsesFile
<1>11. ftable[f].ref >= 1 /\ ftable[f].ref \in Nat
    BY <1>3, <1>10, FileHeld DEF Books
<1>12. UNCHANGED <<disk, dir, icache, ofile, cwd, ops, panicked>>
    BY <1>9, <1>11 DEF Fileclose, Check, fsVars
<1>13. PICK v : v = Closed(ftable[f])
    OBVIOUS
<1>14. /\ v \in Filed /\ v.ref = ftable[f].ref - 1 /\ v.ip = ftable[f].ip
       /\ v.type = IF ftable[f].ref > 1 THEN ftable[f].type ELSE "none"
    <2>1. v = [ftable[f] EXCEPT !.ref = ftable[f].ref - 1, !.type = IF ftable[f].ref > 1 THEN ftable[f].type ELSE "none"]
        BY <1>13 DEF Closed
    <2>2. ftable[f].ref - 1 \in Nat
        BY <1>11
    <2>3. QED
        BY <2>1, <2>2, <1>10 DEF Filed
<1>15. ftable' = [ftable EXCEPT ![f] = v]
    BY <1>8, <1>9, <1>10, <1>13 DEF Fileclose
<1>16. /\ ftable' \in [1..NFILE -> Filed] /\ ftable'[f] = v
       /\ \A x \in 1..NFILE : x # f => ftable'[x] = ftable[x]
       /\ \A x \in 1..NFILE : ftable[x].ref \in Nat
    BY <1>8, <1>10, <1>14, <1>15, OneFile
<1>17. Shared(h, p, f)
    <2>1. ASSUME NEW q \in Procs, q # p, UsesFile(q, h[q], f)
          PROVE  /\ ftable'[f].type = ftable[f].type /\ ftable'[f].ip = ftable[f].ip
                 /\ ~(h[q].f \in {"new", "void"} /\ reg[q].f = f)
        <3>1. ftable[f].ref >= 2
            BY <2>1, <1>3, <1>10, FileHeld DEF Books
        <3>2. ~(h[q].f \in {"new", "void"} /\ reg[q].f = f)
            BY <2>1, <1>3, <1>10, Exclusive
        <3>3. QED
            BY <3>1, <3>2, <1>11, <1>14, <1>16
    <2>2. QED
        BY <2>1, <1>16 DEF Shared
<1>18. \A g : g.f = "none" => Typed(h, p, g, f)
    <2>1. ftable'[f].type = "inode" => ftable'[f].ref >= 1 /\ ftable'[f].ip \in 1..NINODE
        <3>1. SUFFICES ASSUME ftable'[f].type = "inode"
                       PROVE  ftable'[f].ref >= 1 /\ ftable'[f].ip \in 1..NINODE
            OBVIOUS
        <3>2. ftable[f].ref > 1 /\ ftable[f].type = "inode"
            BY <3>1, <1>14, <1>16
        <3>3. ftable[f].ip \in 1..NINODE
            BY <3>2, <1>3, <1>10 DEF Books, FileTypes
        <3>4. QED
            BY <3>2, <3>3, <1>11, <1>14, <1>16
    <2>2. ~(ftable'[f].type = "none" /\ ftable'[f].ref >= 1)
        <3>1. CASE ftable[f].ref > 1
            BY <3>1, <1>7, <1>10, <1>14, <1>16
        <3>2. CASE ftable[f].ref = 1
            BY <3>2, <1>14, <1>16
        <3>3. QED
            BY <3>1, <3>2, <1>11
    <2>3. QED
        BY <2>1, <2>2, <1>9 DEF Typed
<1>19. ASSUME NEW g \in Holdings, g.f = "none", g.stale = m,
              \A k \in 1..NINODE : Held(p, g, k)' + Used(f, k)' = Held(p, h[p], k) + Used(f, k)
       PROVE  InodesEven(h, p, g, f) /\ 1 \in 1..NOFILE /\ FilesEven(h, p, g, 1)
    <2>1. 1 \in 1..NOFILE
        BY FilesAssumption
    <2>2. ASSUME NEW x \in 1..NFILE
          PROVE  ftable'[x].ref = ftable[x].ref - HeldFile(p, h[p], 1, x) + HeldFile(p, g, 1, x)'
        <3>1. ftable'[x].ref = ftable[x].ref - One(x = f) /\ ftable[x].ref \in Nat
            BY <1>10, <1>11, <1>14, <1>16 DEF One
        <3>2. HeldFile(p, h[p], 1, x) = HeldFile(p, g, 1, x)' + One(x = f) /\ HeldFile(p, g, 1, x)' \in Int
            BY <1>7, <1>9, <1>12, <1>19 DEF HeldFile, One
        <3>3. One(x = f) \in Int
            BY DEF One
        <3>4. QED
            BY <3>1, <3>2, <3>3
    <2>3. QED
        BY <2>1, <2>2, <1>7, <1>12, <1>19 DEF InodesEven, FilesEven
<1>20. CASE ftable[f].ref = 1 /\ ftable[f].type = "inode"
    <2> DEFINE g == Putting(0, "ref", m, n)
               t == <<<<"begin_op">>>> \o Iput("dp") \o <<<<"end_op">>>> \o Tail(todo[p])
    <2>1. h[p].f = "own" /\ h[p].ip = "none" /\ h[p].op = 0 /\ e = Closing("none", "own", m, n)
        BY <1>7, <1>10, <1>20
    <2>2. g \in Holdings /\ Fits(t, g)
        BY <2>1, <1>2, <1>6, LastCloseFits
    <2>3. /\ g.ip = "none" /\ g.dp = "ref" /\ g.f = "none" /\ g.cwd = "own" /\ g.stale = m
          /\ g.shut = n /\ g.op = 0 /\ g.path = "none"
        BY DEF Putting
    <2>4. todo' = [todo EXCEPT ![p] = t]
        BY <1>9, <1>20 DEF Fileclose, Then
    <2> HIDE DEF g, t
    <2>5. ops' = [ops EXCEPT ![p] = g.op]
        BY <1>12, <2>1, <2>3, OpsKept
    <2>6. reg' = [reg EXCEPT ![p] = [reg[p] EXCEPT !.f = 0, !.dp = ftable[f].ip]]
        BY <1>8, <1>9, <1>20 DEF Fileclose, Locals
    <2>7. ftable[f].ip \in 1..NINODE
        BY <1>3, <1>10, <1>20 DEF Books, FileTypes
    <2>8. RegOK' /\ reg'[p].dp = ftable[f].ip /\ \A q \in Procs : q # p => reg'[q] = reg[q]
        <3>1. 0 \in 0..NFILE /\ ftable[f].ip \in 0..NINODE
            BY <2>7, FilesAssumption
        <3>2. QED
            BY <3>1, <2>6, <1>8 DEF RegOK, Locals
    <2>9. Step1(h, p, g, t)
        BY <1>3, <1>12, <2>2, <2>4, <2>5, <2>8 DEF Step1, Now
    <2>10. File1(h, p, g, t)
        BY <1>7, <1>8, <1>12, <1>16, <2>1, <2>3, <2>8, <2>9 DEF File1, Fresh, Locking
    <2>11. InodesEven(h, p, g, f) /\ 1 \in 1..NOFILE /\ FilesEven(h, p, g, 1)
        <3>1. ASSUME NEW k \in 1..NINODE
              PROVE  Held(p, g, k)' + Used(f, k)' = Held(p, h[p], k) + Used(f, k)
            <4>1. Held(p, g, k)' = One(ftable[f].ip = k) + One(cwd[p] = k) /\ Held(p, h[p], k) = One(cwd[p] = k)
                BY <1>7, <1>12, <2>1, <2>3, <2>8 DEF Held, One
            <4>2. Used(f, k)' = 0 /\ Used(f, k) = One(ftable[f].ip = k)
                BY <1>14, <1>16, <1>20 DEF Used, One
            <4>3. One(cwd[p] = k) \in Int /\ One(ftable[f].ip = k) \in Int
                BY DEF One
            <4>4. QED
                BY <4>1, <4>2, <4>3
        <3>2. QED
            BY <3>1, <2>2, <2>3, <1>19
    <2>12. NameLocal(p, g)'
        BY <2>3 DEF NameLocal
    <2>13. InodeLocal(p, g)'
        BY <1>3, <1>7, <1>12, <2>3, <2>7, <2>8 DEF InodeLocal
    <2>14. FileLocal(p, g)'
        BY <1>3, <1>7, <1>12, <2>3 DEF FileLocal
    <2>15. QED
        BY <1>10, <1>17, <1>18, <2>3, <2>10, <2>11, <2>12, <2>13, <2>14, FileStep
<1>21. CASE ~(ftable[f].ref = 1 /\ ftable[f].type = "inode")
    <2>1. todo' = [todo EXCEPT ![p] = Tail(todo[p])]
        BY <1>3, <1>9, <1>21 DEF Fileclose, Then
    <2>2. ops' = [ops EXCEPT ![p] = e.op]
        BY <1>7, <1>12, OpsKept
    <2>3. reg' = [reg EXCEPT ![p] = [reg[p] EXCEPT !.f = 0]]
        BY <1>8, <1>9, <1>21 DEF Fileclose, Locals
    <2>4. RegOK' /\ reg'[p].ip = reg[p].ip /\ \A q \in Procs : q # p => reg'[q] = reg[q]
        <3>1. 0 \in 0..NFILE
            BY FilesAssumption
        <3>2. QED
            BY <3>1, <2>3, <1>8 DEF RegOK, Locals
    <2>5. Step1(h, p, e, Tail(todo[p]))
        BY <1>2, <1>3, <1>12, <2>1, <2>2, <2>4 DEF Step1, Now
    <2>6. File1(h, p, e, Tail(todo[p]))
        BY <1>7, <1>8, <1>12, <1>16, <2>4, <2>5 DEF File1, Fresh, Locking
    <2>7. InodesEven(h, p, e, f) /\ 1 \in 1..NOFILE /\ FilesEven(h, p, e, 1)
        <3>1. ASSUME NEW k \in 1..NINODE
              PROVE  Held(p, e, k)' = Held(p, h[p], k) /\ Used(f, k)' = Used(f, k)
            <4>1. Held(p, e, k)' = Held(p, h[p], k)
                BY <1>7, <1>12, <2>4 DEF Held, One
            <4>2. ftable'[f].type = ftable[f].type /\ ftable'[f].ip = ftable[f].ip
                BY <1>7, <1>10, <1>11, <1>14, <1>16, <1>21
            <4>3. QED
                BY <4>1, <4>2 DEF Used
        <3>2. QED
            BY <3>1, <1>7, <1>19
    <2>8. NameLocal(p, e)'
        BY <1>7 DEF NameLocal
    <2>9. InodeLocal(p, e)'
        BY <1>3, <1>7, <1>12, <2>4 DEF InodeLocal
    <2>10. FileLocal(p, e)'
        BY <1>3, <1>7, <1>12 DEF FileLocal
    <2>11. QED
        BY <1>7, <1>10, <1>17, <1>18, <2>6, <2>7, <2>8, <2>9, <2>10, FileStep
<1>22. QED
    BY <1>20, <1>21

LEMMA NoFdFits ==
    /\ InOp("lock", "none", "void") \in Holdings
    /\ Fits((<<<<"fileclose">>>> \o Iunlockput("ip")) \o <<<<"end_op">>>>, InOp("lock", "none", "void"))
<1> DEFINE a == InOp("lock", "none", "void")
           b == InOp("lock", "none", "none")
<1>1. a \in Holdings /\ b \in Holdings
    BY HoldingTypes DEF Lookups, Inodes
<1>2. <<"fileclose">> \in Steps
    BY StepTypes DEF Verbs
<1>3. Trans(<<"fileclose">>, a, b)
    <2>1. a.path = "none"
        BY DEF InOp
    <2>2. QED
        BY <2>1 DEF Trans
<1>4. Fits(<<<<"end_op">>>>, InOp("none", "none", "none"))
    BY EndNaming DEF Fits, Nothing
<1> HIDE DEF a
<1>5. Leads(<<<<"fileclose">>>>, a, b)
    BY <1>1, <1>2, <1>3, Leads1
<1>6. Leads(<<<<"fileclose">>>> \o Iunlockput("ip"), a, InOp("none", "none", "none"))
    BY <1>5, PutNaming, LeadsConcat
<1>7. QED
    BY <1>1, <1>4, <1>6, FitsConcat DEF a

(* A file f is taken, with the descriptor n or without one. *)
LEMMA AllocStep ==
    ASSUME NEW h, Now(h), NEW p \in Procs, panicked = "no", h[p] = InOp("lock", "none", "none"),
           NEW f \in 1..NFILE, ftable[f].ref = 0, ftable' = [ftable EXCEPT ![f].ref = 1],
           reg' = [reg EXCEPT ![p].f = f], UNCHANGED <<disk, dir, icache, cwd, ops, panicked>>,
           NEW g \in Holdings, NEW t, Fits(t, g), todo' = [todo EXCEPT ![p] = t], NEW n \in 1..NOFILE,
           \/ g = InOp("lock", "none", "void") /\ ofile' = ofile
           \/ /\ g = InOp("lock", "none", "new") /\ ofile[p][n] = 0
              /\ ofile' = [ofile EXCEPT ![p][n] = f]
    PROVE  FullInv'
<1>1. Books(h) /\ InodeLocal(p, h[p]) /\ FileLocal(p, h[p]) /\ Core /\ h \in [Procs -> Holdings]
    BY DEF Now, Accounts, Books
<1>2. /\ h[p].ip = "lock" /\ h[p].dp = "none" /\ h[p].f = "none" /\ h[p].cwd = "own" /\ h[p].stale = 0
      /\ h[p].shut = 0 /\ h[p].op = 1
    BY DEF InOp
<1>3. /\ g.ip = "lock" /\ g.dp = "none" /\ g.cwd = "own" /\ g.shut = 0 /\ g.op = 1 /\ g.path = "none"
      /\ g.stale = 0
      /\ \/ g.f = "void" /\ ofile' = ofile
         \/ g.f = "new" /\ ofile[p][n] = 0 /\ ofile' = [ofile EXCEPT ![p][n] = f]
    BY DEF InOp
<1>4. ops' = [ops EXCEPT ![p] = g.op]
    BY <1>2, <1>3, OpsKept
<1>5. /\ reg \in [Procs -> Locals] /\ cwd \in [Procs -> 0..NINODE]
      /\ ofile \in [Procs -> [1..NOFILE -> 0..NFILE]] /\ ftable \in [1..NFILE -> Filed]
    BY <1>1 DEF Core, RegOK, TypeOK, Filed
<1>6. ftable[f] \in Filed /\ ftable[f].type = "none"
    <2>1. ftable[f] \in Filed
        BY <1>5
    <2>2. ftable[f].type \in {"none", "inode"}
        BY <2>1 DEF Filed
    <2>3. QED
        BY <2>1, <2>2, <1>1 DEF Books, FileTypes
<1>7. \A q \in Procs : ~UsesFile(q, h[q], f)
    <2>1. FileCount(h)
        BY <1>1 DEF Books
    <2>2. QED
        BY <2>1, <1>1, FileHeld
<1>8. PICK v : v = [ftable[f] EXCEPT !.ref = 1]
    OBVIOUS
<1>9. v \in Filed /\ v.ref = 1 /\ v.type = "none"
    BY <1>6, <1>8 DEF Filed
<1>10. ftable' = [ftable EXCEPT ![f] = v]
    BY <1>5, <1>8
<1>11. /\ ftable' \in [1..NFILE -> Filed] /\ ftable'[f] = v
       /\ \A e \in 1..NFILE : e # f => ftable'[e] = ftable[e]
       /\ \A e \in 1..NFILE : ftable[e].ref \in Nat
    BY <1>5, <1>9, <1>10, OneFile
<1>12. /\ RegOK' /\ reg'[p].f = f /\ reg'[p].ip = reg[p].ip
       /\ \A q \in Procs : q # p => reg'[q] = reg[q]
    <2>1. f \in 0..NFILE
        OBVIOUS
    <2>2. reg' = [reg EXCEPT ![p] = [reg[p] EXCEPT !.f = f]]
        BY <1>5 DEF Locals
    <2>3. PICK r : r = [reg[p] EXCEPT !.f = f]
        OBVIOUS
    <2>4. reg[p] \in Locals
        BY <1>5
    <2>5. r \in Locals /\ r.f = f /\ r.ip = reg[p].ip
        BY <2>1, <2>3, <2>4 DEF Locals
    <2>6. reg' = [reg EXCEPT ![p] = r]
        BY <2>2, <2>3
    <2>7. QED
        BY <2>5, <2>6, <1>5 DEF RegOK
<1>13. /\ ofile' \in [Procs -> [1..NOFILE -> 0..NFILE]]
       /\ g.f = "new" => ofile'[p][n] = f
       /\ \A x \in 1..NOFILE : x # n => ofile'[p][x] = ofile[p][x]
       /\ \A q \in Procs : q # p => ofile'[q] = ofile[q]
    <2>1. CASE g.f = "void"
        BY <2>1, <1>3, <1>5
    <2>2. CASE g.f = "new"
        <3>1. ofile' = [ofile EXCEPT ![p] = [ofile[p] EXCEPT ![n] = f]]
            BY <2>2, <1>3, <1>5
        <3>2. PICK F : F = [ofile[p] EXCEPT ![n] = f]
            OBVIOUS
        <3>3. ofile[p] \in [1..NOFILE -> 0..NFILE] /\ f \in 0..NFILE
            BY <1>5
        <3>4. F \in [1..NOFILE -> 0..NFILE] /\ F[n] = f /\ \A x \in 1..NOFILE : x # n => F[x] = ofile[p][x]
            BY <3>2, <3>3, Replaced
        <3>5. ofile' = [ofile EXCEPT ![p] = F]
            BY <3>1, <3>2
        <3>6. ofile'[p] = F /\ ofile' \in [Procs -> [1..NOFILE -> 0..NFILE]]
              /\ \A q \in Procs : q # p => ofile'[q] = ofile[q]
            BY <3>4, <3>5, <1>5
        <3>7. QED
            BY <3>4, <3>6
    <2>3. QED
        BY <2>1, <2>2, <1>3
<1>14. Step1(h, p, g, t)
    BY <1>1, <1>4, <1>12, <1>13 DEF Step1, Now
<1>15. File1(h, p, g, t)
    <2>1. \A k \in 1..NINODE : Locking(p, h[p], k) => Locking(p, g, k)'
        BY <1>2, <1>3, <1>12 DEF Locking
    <2>2. ~Fresh(g)
        BY <1>3 DEF Fresh
    <2>3. cwd' \in [Procs -> 0..NINODE]
        BY <1>5
    <2>4. QED
        BY <2>1, <2>2, <2>3, <1>11, <1>12, <1>13, <1>14 DEF File1
<1>16. Shared(h, p, f) /\ Typed(h, p, g, f)
    BY <1>2, <1>3, <1>7, <1>9, <1>11, <1>12 DEF Shared, Typed
<1>17. InodesEven(h, p, g, f)
    <2>1. ASSUME NEW k \in 1..NINODE
          PROVE  Held(p, g, k)' = Held(p, h[p], k) /\ Used(f, k)' = Used(f, k)
        BY <1>2, <1>3, <1>6, <1>9, <1>11, <1>12 DEF Held, Used, One
    <2>2. QED
        BY <2>1 DEF InodesEven
<1>18. FilesEven(h, p, g, n)
    <2>1. ASSUME NEW e \in 1..NFILE
          PROVE  HeldFile(p, g, n, e)' = HeldFile(p, h[p], n, e) + One(e = f) /\ HeldFile(p, h[p], n, e) \in Int
        <3>1. e # 0 /\ n # 0
            OBVIOUS
        <3>2. HeldFile(p, h[p], n, e) = One(ofile[p][n] = e)
            BY <3>1, <1>2 DEF HeldFile, One
        <3>3. HeldFile(p, g, n, e)' = One(ofile'[p][n] = e) + One(g.f = "void" /\ f = e)
            BY <3>1, <1>3, <1>12 DEF HeldFile, One
        <3>4. CASE g.f = "void"
            BY <3>2, <3>3, <3>4, <1>3 DEF One
        <3>5. CASE g.f = "new"
            BY <3>1, <3>2, <3>3, <3>5, <1>3, <1>13 DEF One
        <3>6. QED
            BY <3>4, <3>5, <1>3
    <2>2. ASSUME NEW e \in 1..NFILE PROVE ftable'[e].ref = ftable[e].ref + One(e = f) /\ ftable[e].ref \in Nat
        BY <1>9, <1>11 DEF One
    <2>3. ASSUME NEW e \in 1..NFILE
          PROVE  ftable'[e].ref = ftable[e].ref - HeldFile(p, h[p], n, e) + HeldFile(p, g, n, e)'
        <3>1. One(e = f) \in Int
            BY DEF One
        <3>2. QED
            BY <2>1, <2>2, <3>1
    <2>4. QED
        BY <2>3, <1>2, <1>3, <1>13 DEF FilesEven
<1>19. NameLocal(p, g)'
    BY <1>3 DEF NameLocal
<1>20. InodeLocal(p, g)'
    BY <1>1, <1>2, <1>3, <1>12 DEF InodeLocal
<1>21. FileLocal(p, g)'
    <2>1. n # g.stale
        BY <1>3
    <2>2. \A fd \in 1..NOFILE : ~(fd <= g.shut)
        BY <1>3
    <2>3. ftable'[reg'[p].f].ref = 1 /\ ftable'[reg'[p].f].type = "none" /\ reg'[p].f \in 1..NFILE
        BY <1>9, <1>11, <1>12
    <2>4. g.f = "new" => \E fd \in 1..NOFILE : fd # g.stale /\ ofile'[p][fd] = reg'[p].f
        BY <2>1, <1>12, <1>13
    <2>5. g.f \in {"void", "new"}
        BY <1>3
    <2>6. QED
        BY <2>2, <2>3, <2>4, <2>5, <1>3 DEF FileLocal
<1>22. QED
    BY <1>15, <1>16, <1>17, <1>18, <1>19, <1>20, <1>21, FileStep

LEMMA FileallocStep == ASSUME NEW h, Now(h), NEW p \in Procs, Filealloc(p) PROVE FullInv'
<1>1. At(p, <<"filealloc">>)
    BY DEF Filealloc
<1>2. PICK e \in Holdings : Trans(<<"filealloc">>, h[p], e) /\ Fits(Tail(todo[p]), e)
    BY <1>1, AtStep
<1>3. panicked = "no" /\ h[p] \in Holdings /\ <<>> \o Tail(todo[p]) = Tail(todo[p])
    BY <1>1, AtStep
<1>4. h[p] = InOp("lock", "none", "none") /\ e = InOp("lock", "none", "new")
    BY <1>2 DEF Trans
<1>5. UNCHANGED <<disk, dir, icache, cwd, ops, panicked>>
    BY DEF Filealloc, fsVars
<1>6. PICK free : free = {f \in 1..NFILE : ftable[f].ref = 0}
    OBVIOUS
<1>7. CASE free = {}
    <2> DEFINE t == Iunlockput("ip") \o <<<<"end_op">>>>
    <2>1. todo' = [todo EXCEPT ![p] = t] /\ UNCHANGED <<ftable, ofile, reg>>
        BY <1>6, <1>7 DEF Filealloc, Fail, fileVars
    <2>2. Fits(t, h[p]) /\ ops' = [ops EXCEPT ![p] = h[p].op]
        BY <1>4, <1>5, FailFits, OpsKept
    <2> HIDE DEF t
    <2>3. Step1(h, p, h[p], t)
        BY <1>3, <1>5, <2>1, <2>2 DEF Step1, Now
    <2>4. QED
        BY <1>5, <2>1, <2>3, TodoStep
<1>8. CASE free # {}
    <2>1. PICK f : f = Min(free)
        OBVIOUS
    <2>2. f \in 1..NFILE /\ ftable[f].ref = 0
        <3>1. NFILE \in Nat /\ free \in SUBSET (1..NFILE)
            BY <1>6, FilesAssumption
        <3>2. f \in free
            BY <3>1, <2>1, <1>8, MinIn
        <3>3. QED
            BY <3>2, <1>6
    <2>3. ftable' = [ftable EXCEPT ![f].ref = 1] /\ reg' = [reg EXCEPT ![p].f = f]
        BY <2>1, <1>6, <1>8 DEF Filealloc
    <2>4. CASE FreeFd(p) = {}
        <3> DEFINE t == (<<<<"fileclose">>>> \o Iunlockput("ip")) \o <<<<"end_op">>>>
        <3>1. todo' = [todo EXCEPT ![p] = t] /\ ofile' = ofile
            BY <2>4, <1>6, <1>8 DEF Filealloc, Fail
        <3>2. PICK g : g = InOp("lock", "none", "void")
            OBVIOUS
        <3>3. g \in Holdings /\ Fits(t, g)
            BY <3>2, NoFdFits
        <3>4. 1 \in 1..NOFILE
            BY FilesAssumption
        <3> HIDE DEF t
        <3>5. QED
            BY <3>1, <3>2, <3>3, <3>4, <2>2, <2>3, <1>3, <1>4, <1>5, AllocStep
    <2>5. CASE FreeFd(p) # {}
        <3>1. PICK n : n = Min(FreeFd(p))
            OBVIOUS
        <3>2. n \in 1..NOFILE /\ ofile[p][n] = 0
            BY <3>1, <2>5, FreeFds
        <3>3. ofile' = [ofile EXCEPT ![p][n] = f] /\ todo' = [todo EXCEPT ![p] = Tail(todo[p])]
            BY <3>1, <2>1, <2>5, <1>3, <1>6, <1>8 DEF Filealloc, Then
        <3>4. QED
            BY <3>2, <3>3, <2>2, <2>3, <1>2, <1>3, <1>4, <1>5, AllocStep
    <2>6. QED
        BY <2>4, <2>5
<1>9. QED
    BY <1>7, <1>8

-----------------------------------------------------------------------------
(* fork(): the child has been nobody, and shares what the parent has *)

Fds(p, f) == {fd \in 1..NOFILE : ofile[p][fd] = f}

Forked(h, p, c) ==
    /\ Now(h) /\ p \in Procs /\ c \in Procs /\ c # p /\ h[p] = Nothing /\ h[c] = Gone
    /\ panicked = "no" /\ Books(h) /\ cwd[p] \in 1..NINODE /\ todo[p] = <<>> /\ todo[c] = <<>>
    /\ \A fd \in 1..NOFILE : ofile[c][fd] = 0
    /\ reg' = [reg EXCEPT ![p] = NoReg] /\ todo' = [todo EXCEPT ![p] = <<>>]
    /\ ftable' = [f \in 1..NFILE |-> [ftable[f] EXCEPT !.ref = @ + Cardinality(Fds(p, f))]]
    /\ ofile' = [ofile EXCEPT ![c] = ofile[p]] /\ cwd' = [cwd EXCEPT ![c] = cwd[p]]
    /\ icache' = [icache EXCEPT ![cwd[p]].ref = @ + 1]
    /\ UNCHANGED <<disk, dir, ops, panicked>>

LEMMA ForkedFacts ==
    ASSUME NEW h, Now(h), NEW p \in Procs, NEW c \in Procs, Fork(p, c)
    PROVE  Forked(h, p, c)
<1>1. panicked = "no" /\ cwd[p] # 0 /\ todo[p] = <<>> /\ cwd[c] = 0 /\ todo[c] = <<>> /\ c # p
    BY DEF Fork, Call
<1>2. h[p] = Nothing /\ Books(h) /\ InodeLocal(p, h[p])
    BY <1>1, Between
<1>3. cwd[p] \in 1..NINODE
    BY <1>2 DEF InodeLocal, Nothing, Idling
<1>4. h[c] \in {Nothing, Gone} /\ InodeLocal(c, h[c]) /\ FileLocal(c, h[c])
    <2>1. Fits(<<>>, h[c])
        BY <1>1 DEF Now, Accounts, Control
    <2>2. QED
        BY <2>1, <1>2, FitsEmpty DEF Books
<1>5. h[c] = Gone
    <2>1. SUFFICES ASSUME h[c] = Nothing PROVE FALSE
        BY <1>4
    <2>2. cwd[c] \in 1..NINODE
        BY <2>1, <1>4 DEF InodeLocal, Nothing, Idling
    <2>3. QED
        BY <2>2, <1>1
<1>6. \A fd \in 1..NOFILE : ofile[c][fd] = 0
    <2>1. h[c].cwd = "dead"
        BY <1>5 DEF Gone, Idling
    <2>2. QED
        BY <2>1, <1>4 DEF FileLocal
<1>7. ftable' = [f \in 1..NFILE |-> [ftable[f] EXCEPT !.ref = @ + Cardinality(Fds(p, f))]]
    BY DEF Fork, Fds
<1>8. QED
    BY <1>1, <1>2, <1>3, <1>5, <1>6, <1>7 DEF Forked, Fork, Call, fsVars

(* What the files and the cache entries are then. *)
LEMMA ForkedFiles ==
    ASSUME NEW h, NEW p, NEW c, Forked(h, p, c), NEW f \in 1..NFILE
    PROVE  /\ IsFiniteSet(Fds(p, f)) /\ Cardinality(Fds(p, f)) \in Nat
           /\ ftable[f] \in Filed /\ ftable'[f] \in Filed
           /\ ftable'[f].ref = ftable[f].ref + Cardinality(Fds(p, f))
           /\ ftable'[f].type = ftable[f].type /\ ftable'[f].ip = ftable[f].ip
           /\ Cardinality(Fds(p, f)) # 0 => UsesFile(p, h[p], f)
<1>1. IsFiniteSet(Fds(p, f)) /\ Cardinality(Fds(p, f)) \in Nat
    <2>1. 1 \in Int /\ NOFILE \in Int
        BY FilesAssumption
    <2>2. IsFiniteSet(1..NOFILE) /\ Fds(p, f) \in SUBSET (1..NOFILE)
        BY <2>1, FS_Interval DEF Fds
    <2>3. QED
        BY <2>2, FS_Subset, FS_CardinalityType
<1>2. PICK n : n = Cardinality(Fds(p, f))
    OBVIOUS
<1>3. ftable[f] \in Filed
    <2>1. ftable \in [1..NFILE -> Filed]
        BY DEF Forked, Now, Core, TypeOK, Filed
    <2>2. QED
        BY <2>1
<1>4. ftable'[f] = [ftable[f] EXCEPT !.ref = ftable[f].ref + n]
    BY <1>2 DEF Forked
<1>5. ftable[f].ref + n \in Nat
    BY <1>1, <1>2, <1>3 DEF Filed
<1>6. /\ ftable'[f] \in Filed /\ ftable'[f].ref = ftable[f].ref + n
      /\ ftable'[f].type = ftable[f].type /\ ftable'[f].ip = ftable[f].ip
    BY <1>3, <1>4, <1>5 DEF Filed
<1>7. n # 0 => UsesFile(p, h[p], f)
    <2>1. SUFFICES ASSUME n # 0 PROVE UsesFile(p, h[p], f)
        OBVIOUS
    <2>2. Fds(p, f) # {}
        BY <2>1, <1>2, FS_EmptySet
    <2>3. PICK fd \in 1..NOFILE : ofile[p][fd] = f
        BY <2>2 DEF Fds
    <2>4. h[p].stale = 0
        BY DEF Forked, Nothing, Idling
    <2>5. QED
        BY <2>3, <2>4 DEF UsesFile
<1>8. QED
    BY <1>1, <1>2, <1>3, <1>6, <1>7

LEMMA ForkedCache ==
    ASSUME NEW h, NEW p, NEW c, Forked(h, p, c), NEW k \in 1..NINODE
    PROVE  /\ icache[k] \in Cached /\ icache'[k] \in Cached
           /\ icache'[k].ref = icache[k].ref + One(k = cwd[p]) /\ icache[k].ref \in Nat
           /\ icache'[k].inum = icache[k].inum /\ icache'[k].valid = icache[k].valid
           /\ icache'[k].lock = icache[k].lock /\ icache'[k].type = icache[k].type
           /\ icache'[k].nlink = icache[k].nlink
           /\ icache'[k].ref > 0 => icache[k].ref > 0
<1>1. icache \in [1..NINODE -> Cached]
    BY DEF Forked, Now, Core, TypeOK, Cached
<1>2. icache[k] \in Cached /\ icache[k].ref \in Nat
    BY <1>1 DEF Cached
<1>3. icache' = [icache EXCEPT ![cwd[p]] = [icache[cwd[p]] EXCEPT !.ref = icache[cwd[p]].ref + 1]]
    BY <1>1 DEF Forked
<1>4. CASE k # cwd[p]
    <2>1. icache'[k] = icache[k]
        BY <1>1, <1>3, <1>4 DEF Forked
    <2>2. QED
        BY <2>1, <1>2, <1>4 DEF One
<1>5. CASE k = cwd[p]
    <2>1. icache'[k] = [icache[k] EXCEPT !.ref = icache[k].ref + 1] /\ icache[k].ref + 1 \in Nat
        BY <1>1, <1>2, <1>3, <1>5
    <2>2. /\ icache'[k] \in Cached /\ icache'[k].ref = icache[k].ref + 1
          /\ icache'[k].inum = icache[k].inum /\ icache'[k].valid = icache[k].valid
          /\ icache'[k].lock = icache[k].lock /\ icache'[k].type = icache[k].type
          /\ icache'[k].nlink = icache[k].nlink
        BY <2>1, <1>2 DEF Cached
    <2>3. UsesInode(p, h[p], k)
        BY <1>5 DEF UsesInode, Forked, Nothing, Idling
    <2>4. icache[k].ref >= 1
        BY <2>3, InodeHeld DEF Forked, Books, Now
    <2>5. QED
        BY <2>2, <2>4, <1>2, <1>5 DEF One
<1>6. QED
    BY <1>4, <1>5

LEMMA ForkedOthers ==
    ASSUME NEW h, NEW p, NEW c, Forked(h, p, c), NEW q \in Procs
    PROVE  /\ q # p => reg'[q] = reg[q]
           /\ q # c => cwd'[q] = cwd[q] /\ ofile'[q] = ofile[q]
           /\ cwd'[c] = cwd[p] /\ ofile'[c] = ofile[p]
           /\ RegOK' /\ cwd' \in [Procs -> 0..NINODE] /\ ofile' \in [Procs -> [1..NOFILE -> 0..NFILE]]
           /\ todo'[q] = todo[q] /\ DOMAIN todo' = Procs
<1>1. /\ reg \in [Procs -> Locals] /\ cwd \in [Procs -> 0..NINODE] /\ DOMAIN todo = Procs
      /\ ofile \in [Procs -> [1..NOFILE -> 0..NFILE]] /\ p \in Procs /\ c \in Procs
    BY DEF Forked, Now, Core, TypeOK, RegOK
<1>2. RegOK' /\ (q # p => reg'[q] = reg[q])
    BY <1>1, NoRegLocal DEF RegOK, Forked
<1>3. /\ cwd' \in [Procs -> 0..NINODE] /\ cwd'[c] = cwd[p]
      /\ q # c => cwd'[q] = cwd[q]
    BY <1>1 DEF Forked
<1>4. /\ ofile' \in [Procs -> [1..NOFILE -> 0..NFILE]] /\ ofile'[c] = ofile[p]
      /\ q # c => ofile'[q] = ofile[q]
    BY <1>1 DEF Forked
<1>5. todo'[q] = todo[q] /\ DOMAIN todo' = Procs
    BY <1>1 DEF Forked
<1>6. QED
    BY <1>1, <1>2, <1>3, <1>4, <1>5

LEMMA ForkCore == ASSUME NEW h, NEW p, NEW c, Forked(h, p, c) PROVE Core'
<1>1. Core /\ p \in Procs /\ UNCHANGED <<disk, dir, ops, panicked>> /\ panicked = "no"
    BY DEF Forked, Now
<1>2. icache' \in [1..NINODE -> Cached]
    <2>1. DOMAIN icache' = 1..NINODE /\ icache' = [k \in DOMAIN icache' |-> icache'[k]]
        <3>1. icache \in [1..NINODE -> Cached]
            BY <1>1 DEF Core, TypeOK, Cached
        <3>2. QED
            BY <3>1 DEF Forked
    <2>2. \A k \in 1..NINODE : icache'[k] \in Cached
        BY ForkedCache
    <2>3. QED
        BY <2>1, <2>2
<1>3. ftable' \in [1..NFILE -> Filed]
    <2>1. DOMAIN ftable' = 1..NFILE /\ ftable' = [k \in DOMAIN ftable' |-> ftable'[k]]
        BY DEF Forked
    <2>2. \A f \in 1..NFILE : ftable'[f] \in Filed
        BY ForkedFiles
    <2>3. QED
        BY <2>1, <2>2
<1>4. RegOK' /\ cwd' \in [Procs -> 0..NINODE] /\ ofile' \in [Procs -> [1..NOFILE -> 0..NFILE]]
    BY <1>1, ForkedOthers
<1>5. TypeOK'
    BY <1>1, <1>2, <1>3, <1>4 DEF Core, TypeOK, Cached, Filed
<1>6. CacheOK'
    <2>1. CacheOK
        BY <1>1 DEF Core
    <2>2. ASSUME NEW k \in 1..NINODE
          PROVE  /\ icache'[k].inum = icache[k].inum /\ icache'[k].valid = icache[k].valid
                 /\ icache'[k].lock = icache[k].lock /\ icache'[k].type = icache[k].type
                 /\ icache'[k].nlink = icache[k].nlink
                 /\ icache'[k].ref > 0 => icache[k].ref > 0
                 /\ icache[k].ref > 0 => icache'[k].ref > 0
        <3>1. One(k = cwd[p]) \in Nat
            BY DEF One
        <3>2. QED
            BY <3>1, ForkedCache
    <2>3. QED
        BY <2>1, <2>2, <1>1 DEF CacheOK
<1>7. TreeOK'
    BY <1>1, CoreFrame
<1>8. PanicOnlyWhenFull'
    BY <1>1 DEF PanicOnlyWhenFull
<1>9. QED
    BY <1>4, <1>5, <1>6, <1>7, <1>8 DEF Core

LEMMA ForkFiles ==
    ASSUME NEW h, NEW p, NEW c, Forked(h, p, c)
    PROVE  FileCount([h EXCEPT ![c] = Nothing])'
<1> DEFINE h2 == [h EXCEPT ![c] = Nothing]
<1>1. /\ h \in [Procs -> Holdings] /\ p \in Procs /\ c \in Procs /\ c # p /\ h[p] = Nothing /\ h[c] = Gone
      /\ FileCount(h) /\ \A fd \in 1..NOFILE : ofile[c][fd] = 0
    BY DEF Forked, Now, Books
<1>2. /\ h2[c] = Nothing /\ h2[p] = Nothing /\ \A q \in Procs : q # c => h2[q] = h[q]
    BY <1>1
<1>3. /\ Nothing.stale = 0 /\ Nothing.f = "none" /\ Gone.stale = 0 /\ Gone.f = "none"
    BY DEF Nothing, Gone, Idling
<1> HIDE DEF h2
<1> SUFFICES ASSUME NEW f \in 1..NFILE
             PROVE  ftable'[f].ref = Cardinality(FdUsers(h2, f)') + Cardinality(RegUsers(h2, f)')
    BY DEF FileCount, h2
<1>4. RegUsers(h2, f)' = RegUsers(h, f)
    <2>1. ASSUME NEW q \in Procs PROVE q \in RegUsers(h2, f)' <=> q \in RegUsers(h, f)
        <3>1. CASE q \in {p, c}
            BY <3>1, <1>1, <1>2, <1>3 DEF RegUsers
        <3>2. CASE q \notin {p, c}
            <4>1. reg'[q] = reg[q] /\ h2[q] = h[q]
                BY <3>2, <1>2, ForkedOthers
            <4>2. QED
                BY <4>1 DEF RegUsers
        <3>3. QED
            BY <3>1, <3>2
    <2>2. QED
        BY <2>1 DEF RegUsers
<1>5. PICK T : T = {c} \X Fds(p, f)
    OBVIOUS
<1>6. FdUsers(h2, f)' = FdUsers(h, f) \cup T /\ FdUsers(h, f) \cap T = {}
    <2>1. ASSUME NEW q \in Procs, NEW e \in 1..NOFILE
          PROVE  /\ <<q, e>> \in FdUsers(h2, f)' <=> <<q, e>> \in FdUsers(h, f) \/ <<q, e>> \in T
                 /\ ~(<<q, e>> \in FdUsers(h, f) /\ <<q, e>> \in T)
        <3>1. CASE q = c
            <4>1. /\ <<q, e>> \in FdUsers(h2, f)' <=> ofile[p][e] = f
                <5>1. h2[q].stale = 0 /\ ofile'[q] = ofile[p] /\ e # 0
                    BY <3>1, <1>2, <1>3, ForkedOthers
                <5>2. QED
                    BY <5>1 DEF FdUsers
            <4>2. <<q, e>> \notin FdUsers(h, f)
                BY <3>1, <1>1 DEF FdUsers
            <4>3. <<q, e>> \in T <=> ofile[p][e] = f
                BY <3>1, <1>5 DEF Fds
            <4>4. QED
                BY <4>1, <4>2, <4>3
        <3>2. CASE q # c
            <4>1. ofile'[q] = ofile[q] /\ h2[q] = h[q]
                BY <3>2, <1>2, ForkedOthers
            <4>2. <<q, e>> \in FdUsers(h2, f)' <=> <<q, e>> \in FdUsers(h, f)
                BY <4>1 DEF FdUsers
            <4>3. <<q, e>> \notin T
                BY <3>2, <1>5
            <4>4. QED
                BY <4>2, <4>3
        <3>3. QED
            BY <3>1, <3>2
    <2>2. FdUsers(h2, f)' \subseteq Procs \X (1..NOFILE) /\ FdUsers(h, f) \subseteq Procs \X (1..NOFILE)
        BY DEF FdUsers
    <2>3. T \subseteq Procs \X (1..NOFILE)
        BY <1>1, <1>5 DEF Fds
    <2>4. ASSUME NEW x \in Procs \X (1..NOFILE)
          PROVE  /\ x \in FdUsers(h2, f)' <=> x \in FdUsers(h, f) \/ x \in T
                 /\ ~(x \in FdUsers(h, f) /\ x \in T)
        <3>1. PICK q \in Procs, e \in 1..NOFILE : x = <<q, e>>
            OBVIOUS
        <3>2. QED
            BY <3>1, <2>1
    <2>5. QED
        BY <2>2, <2>3, <2>4
<1>7. /\ IsFiniteSet(FdUsers(h, f)) /\ IsFiniteSet(RegUsers(h, f))
      /\ IsFiniteSet(T) /\ Cardinality(T) = Cardinality(Fds(p, f)) /\ Cardinality(T) \in Nat
    <2>1. IsFiniteSet(Fds(p, f)) /\ Cardinality(Fds(p, f)) \in Nat
        BY ForkedFiles
    <2>2. IsFiniteSet({c}) /\ Cardinality({c}) = 1
        BY FS_Singleton
    <2>3. IsFiniteSet(T) /\ Cardinality(T) = Cardinality({c}) * Cardinality(Fds(p, f))
        BY <2>1, <2>2, <1>5, FS_Product
    <2>4. QED
        BY <2>1, <2>2, <2>3, Finite
<1>8. /\ Cardinality(FdUsers(h2, f)') = Cardinality(FdUsers(h, f)) + Cardinality(T)
      /\ Cardinality(FdUsers(h, f)) \in Nat /\ Cardinality(RegUsers(h, f)) \in Nat
    <2>1. Cardinality(FdUsers(h, f) \cup T)
             = Cardinality(FdUsers(h, f)) + Cardinality(T) - Cardinality(FdUsers(h, f) \cap T)
        BY <1>7, FS_Union
    <2>2. Cardinality(FdUsers(h, f) \cap T) = 0
        BY <1>6, FS_EmptySet
    <2>3. Cardinality(FdUsers(h, f)) \in Nat /\ Cardinality(RegUsers(h, f)) \in Nat
        BY <1>7, FS_CardinalityType
    <2>4. QED
        BY <2>1, <2>2, <2>3, <1>6, <1>7
<1>9. ftable'[f].ref = ftable[f].ref + Cardinality(Fds(p, f))
    BY ForkedFiles
<1>10. ftable[f].ref = Cardinality(FdUsers(h, f)) + Cardinality(RegUsers(h, f))
    BY <1>1 DEF FileCount
<1>11. QED
    BY <1>4, <1>7, <1>8, <1>9, <1>10

LEMMA ForkInodes ==
    ASSUME NEW h, NEW p, NEW c, Forked(h, p, c)
    PROVE  InodeCount([h EXCEPT ![c] = Nothing])'
<1>1. /\ h \in [Procs -> Holdings] /\ p \in Procs /\ c \in Procs /\ c # p /\ h[p] = Nothing /\ h[c] = Gone
      /\ InodeCount(h) /\ cwd[p] \in 1..NINODE
    BY DEF Forked, Now, Books
<1>2. 1 \in 1..NFILE /\ Nothing \in Holdings
    BY FilesAssumption, HoldingTypes
<1>3. \A q \in Procs : q # c => cwd'[q] = cwd[q] /\ (reg'[q] = reg[q] \/ h[q] = Nothing)
    BY <1>1, ForkedOthers
<1>4. \A e \in 1..NFILE : ftable'[e].type = ftable[e].type /\ ftable'[e].ip = ftable[e].ip
    BY ForkedFiles
<1>5. \A k \in 1..NINODE : icache[k].ref \in Nat
    BY ForkedCache
<1>6. ASSUME NEW k \in 1..NINODE
      PROVE  icache'[k].ref = icache[k].ref - Held(c, h[c], k) - Used(1, k)
                              + Held(c, Nothing, k)' + Used(1, k)'
    <2>1. Held(c, h[c], k) = 0
        BY <1>1 DEF Held, Gone, Idling, One
    <2>2. Held(c, Nothing, k)' = One(cwd[p] = k)
        <3>1. cwd'[c] = cwd[p]
            BY <1>1, ForkedOthers
        <3>2. QED
            BY <3>1 DEF Held, Nothing, Idling, One
    <2>3. Used(1, k)' = Used(1, k) /\ Used(1, k) \in Int
        BY <1>2, <1>4 DEF Used, One
    <2>4. icache'[k].ref = icache[k].ref + One(cwd[p] = k) /\ icache[k].ref \in Nat
        BY ForkedCache DEF One
    <2>5. One(cwd[p] = k) \in Int
        BY DEF One
    <2>6. QED
        BY <2>1, <2>2, <2>3, <2>4, <2>5
<1>7. QED
    BY <1>1, <1>2, <1>3, <1>4, <1>5, <1>6, InodeCounts

(* A file that is not set up is not one of the parent's. *)
LEMMA ForkNew ==
    ASSUME NEW h, NEW p, NEW c, Forked(h, p, c), NEW q \in Procs, h[q].f \in {"new", "void"}
    PROVE  q # p /\ q # c /\ reg[q].f \in 1..NFILE /\ ftable'[reg[q].f].ref = ftable[reg[q].f].ref
<1>1. q # p /\ q # c
    BY DEF Forked, Nothing, Gone, Idling
<1>2. h \in [Procs -> Holdings] /\ Books(h) /\ p \in Procs
    BY DEF Forked, Now
<1>3. reg[q].f \in 1..NFILE /\ ~UsesFile(p, h[p], reg[q].f)
    BY <1>1, <1>2, Exclusive
<1>4. PICK n : n = Cardinality(Fds(p, reg[q].f))
    OBVIOUS
<1>5. n = 0 /\ ftable'[reg[q].f].ref = ftable[reg[q].f].ref + n /\ ftable[reg[q].f] \in Filed
    BY <1>3, <1>4, ForkedFiles
<1>6. ftable[reg[q].f].ref \in Nat
    BY <1>5 DEF Filed
<1>7. QED
    BY <1>1, <1>3, <1>5, <1>6

LEMMA ForkTypes ==
    ASSUME NEW h, NEW p, NEW c, Forked(h, p, c)
    PROVE  FileTypes([h EXCEPT ![c] = Nothing])'
<1> DEFINE h2 == [h EXCEPT ![c] = Nothing]
<1>1. h \in [Procs -> Holdings] /\ FileTypes(h) /\ FileCount(h) /\ p \in Procs /\ c \in Procs
    BY DEF Forked, Now, Books
<1>2. \A q \in Procs : q # c => h2[q] = h[q]
    BY <1>1
<1> HIDE DEF h2
<1>3. ASSUME NEW f \in 1..NFILE
      PROVE  /\ ftable'[f].type = "inode" => ftable'[f].ref >= 1 /\ ftable'[f].ip \in 1..NINODE
             /\ ftable'[f].type = "none" /\ ftable'[f].ref >= 1 =>
                   \E q \in Procs : h2[q].f \in {"new", "void"} /\ reg'[q].f = f
    <2>1. PICK n : n = Cardinality(Fds(p, f))
        OBVIOUS
    <2>2. /\ n \in Nat /\ ftable'[f].ref = ftable[f].ref + n /\ ftable'[f].type = ftable[f].type
          /\ ftable'[f].ip = ftable[f].ip /\ ftable[f] \in Filed
          /\ n # 0 => UsesFile(p, h[p], f)
        BY <2>1, ForkedFiles
    <2>3. ftable[f].ref \in Nat
        BY <2>2 DEF Filed
    <2>4. n # 0 => ftable[f].ref >= 1
        BY <2>2, <1>1, FileHeld
    <2>5. ftable'[f].type = "inode" => ftable'[f].ref >= 1 /\ ftable'[f].ip \in 1..NINODE
        <3>1. ftable[f].type = "inode" => ftable[f].ref >= 1 /\ ftable[f].ip \in 1..NINODE
            BY <1>1 DEF FileTypes
        <3>2. QED
            BY <3>1, <2>2, <2>3
    <2>6. ASSUME ftable'[f].type = "none", ftable'[f].ref >= 1
          PROVE  \E q \in Procs : h2[q].f \in {"new", "void"} /\ reg'[q].f = f
        <3>1. ftable[f].type = "none" /\ ftable[f].ref >= 1
            BY <2>2, <2>3, <2>4, <2>6
        <3>2. PICK q \in Procs : h[q].f \in {"new", "void"} /\ reg[q].f = f
            BY <3>1, <1>1 DEF FileTypes
        <3>3. q # p /\ q # c
            BY <3>2, ForkNew
        <3>4. reg'[q] = reg[q] /\ h2[q] = h[q]
            BY <3>3, <1>2, ForkedOthers
        <3>5. QED
            BY <3>2, <3>4
    <2>7. QED
        BY <2>5, <2>6
<1>4. QED
    BY <1>3 DEF FileTypes, h2

LEMMA ForkLocals ==
    ASSUME NEW h, NEW p, NEW c, Forked(h, p, c), NEW q \in Procs
    PROVE  LET g == IF q = c THEN Nothing ELSE h[q]
           IN  NameLocal(q, g)' /\ InodeLocal(q, g)' /\ FileLocal(q, g)'
<1>1. /\ h \in [Procs -> Holdings] /\ p \in Procs /\ c \in Procs /\ c # p /\ h[p] = Nothing /\ h[c] = Gone
      /\ Books(h) /\ Core /\ cwd[p] \in 1..NINODE /\ UNCHANGED <<disk, dir, ops, panicked>>
    BY DEF Forked, Now
<1>2. /\ Nothing.ip = "none" /\ Nothing.dp = "none" /\ Nothing.f = "none" /\ Nothing.cwd = "own"
      /\ Nothing.stale = 0 /\ Nothing.shut = 0 /\ Nothing.path = "none"
    BY DEF Nothing, Idling
<1>3. ASSUME cwd'[q] \in 1..NINODE
      PROVE  NameLocal(q, Nothing)' /\ InodeLocal(q, Nothing)' /\ FileLocal(q, Nothing)'
    <2>1. NameLocal(q, Nothing)'
        BY <1>2 DEF NameLocal
    <2>2. InodeLocal(q, Nothing)'
        BY <1>2, <1>3 DEF InodeLocal
    <2>3. FileLocal(q, Nothing)'
        BY <1>2 DEF FileLocal
    <2>4. QED
        BY <2>1, <2>2, <2>3
<1>4. CASE q = c
    <2>1. cwd'[q] \in 1..NINODE
        BY <1>1, <1>4, ForkedOthers
    <2>2. QED
        BY <2>1, <1>3, <1>4
<1>5. CASE q = p
    <2>1. cwd'[q] \in 1..NINODE
        BY <1>1, <1>5, ForkedOthers
    <2>2. QED
        BY <2>1, <1>1, <1>3, <1>5
<1>6. CASE q # c /\ q # p
    <2>1. reg'[q] = reg[q] /\ cwd'[q] = cwd[q] /\ ofile'[q] = ofile[q]
        BY <1>6, ForkedOthers
    <2>2. NameLocal(q, h[q]) /\ InodeLocal(q, h[q]) /\ FileLocal(q, h[q])
        BY <1>1 DEF Books
    <2>3. \A k \in 1..NINODE : icache'[k].inum = icache[k].inum /\ icache'[k].lock = icache[k].lock
        BY ForkedCache
    <2>4. NameLocal(q, h[q])'
        <3>1. h[q].path \in {"last", "absent"} => reg[q].ip \in 1..NINODE
            BY <2>2 DEF NameLocal, InodeLocal
        <3>2. h[q].path \in {"last", "absent"} => icache'[reg[q].ip].inum = icache[reg[q].ip].inum
            BY <3>1, <2>3
        <3>3. h[q].path \in {"last", "absent"} => Found(q)' = Found(q)
            BY <3>2, <2>1, <1>1 DEF Found
        <3>4. QED
            BY <3>2, <3>3, <2>1, <2>2, <1>1 DEF NameLocal
    <2>5. InodeLocal(q, h[q])'
        <3>1. h[q].ip \in {"lock", "uselock"} => reg[q].ip \in 1..NINODE
            BY <2>2, <1>1, UseInode DEF InodeLocal, Core
        <3>2. QED
            BY <3>1, <2>1, <2>2, <2>3 DEF InodeLocal
    <2>6. FileLocal(q, h[q])'
        <3>1. \A f \in 1..NFILE : ftable'[f].type = ftable[f].type /\ ftable'[f].ip = ftable[f].ip
            BY ForkedFiles
        <3>2. \A fd \in 1..NOFILE : ofile[q][fd] # 0 => ofile[q][fd] \in 1..NFILE
            <4>1. ofile \in [Procs -> [1..NOFILE -> 0..NFILE]]
                BY <1>1 DEF Core, TypeOK
            <4>2. \A fd \in 1..NOFILE : ofile[q][fd] \in 0..NFILE
                BY <4>1
            <4>3. QED
                BY <4>2
        <3>3. h[q].ip \in {"use", "uselock"} =>
                 \E fd \in 1..NOFILE : /\ fd # h[q].stale /\ ofile'[q][fd] # 0
                                       /\ ftable'[ofile'[q][fd]].type = "inode"
                                       /\ ftable'[ofile'[q][fd]].ip = reg'[q].ip
            <4>1. SUFFICES ASSUME h[q].ip \in {"use", "uselock"}
                           PROVE  \E fd \in 1..NOFILE : /\ fd # h[q].stale /\ ofile'[q][fd] # 0
                                       /\ ftable'[ofile'[q][fd]].type = "inode"
                                       /\ ftable'[ofile'[q][fd]].ip = reg'[q].ip
                OBVIOUS
            <4>2. PICK fd \in 1..NOFILE : /\ fd # h[q].stale /\ ofile[q][fd] # 0
                                          /\ ftable[ofile[q][fd]].type = "inode"
                                          /\ ftable[ofile[q][fd]].ip = reg[q].ip
                BY <4>1, <2>2 DEF FileLocal
            <4>3. QED
                BY <4>2, <3>1, <3>2, <2>1
        <3>4. /\ h[q].f \in {"new", "void"} => ftable'[reg[q].f].ref = 1 /\ ftable'[reg[q].f].type = "none"
              /\ h[q].f = "own" => ftable'[reg[q].f].type = "inode"
              /\ h[q].f # "none" => reg[q].f \in 1..NFILE
            <4>1. h[q].f # "none" => reg[q].f \in 1..NFILE
                BY <2>2 DEF FileLocal
            <4>2. h[q].f \in {"new", "void"} => ftable'[reg[q].f].ref = ftable[reg[q].f].ref
                BY ForkNew
            <4>3. QED
                BY <4>1, <4>2, <3>1, <2>2 DEF FileLocal
        <3>5. QED
            BY <3>3, <3>4, <2>1, <2>2 DEF FileLocal
    <2>7. QED
        BY <2>4, <2>5, <2>6, <1>6
<1>7. QED
    BY <1>4, <1>5, <1>6

LEMMA ForkStep == ASSUME NEW h, Now(h), NEW p \in Procs, NEW c \in Procs, Fork(p, c) PROVE FullInv'
<1> DEFINE h2 == [h EXCEPT ![c] = Nothing]
<1>1. Forked(h, p, c)
    BY ForkedFacts
<1>2. /\ h \in [Procs -> Holdings] /\ c # p /\ h[p] = Nothing /\ h[c] = Gone /\ Books(h) /\ Accounts(h)
      /\ UNCHANGED <<ops, panicked>> /\ todo[c] = <<>>
    BY <1>1 DEF Forked, Now
<1>3. /\ h2 \in [Procs -> Holdings] /\ h2[c] = Nothing /\ \A q \in Procs : q # c => h2[q] = h[q]
    BY <1>2, HoldingTypes
<1>4. Core' /\ InodeCount(h2)' /\ FileCount(h2)' /\ FileTypes(h2)'
    BY <1>1, ForkCore, ForkInodes, ForkFiles, ForkTypes
<1> HIDE DEF h2
<1>5. \A q \in Procs : NameLocal(q, h2[q])' /\ InodeLocal(q, h2[q])' /\ FileLocal(q, h2[q])'
    <2>1. SUFFICES ASSUME NEW q \in Procs
                   PROVE  NameLocal(q, h2[q])' /\ InodeLocal(q, h2[q])' /\ FileLocal(q, h2[q])'
        OBVIOUS
    <2>2. h2[q] = IF q = c THEN Nothing ELSE h[q]
        BY <1>3
    <2>3. QED
        BY <2>2, <1>1, ForkLocals
<1>6. Nothing.ip = "none" /\ Nothing.dp = "none" /\ Nothing.op = 0 /\ Gone.op = 0
    BY DEF Nothing, Gone, Idling
<1>7. NoCycle(h2)'
    <2>1. NoCycle(h)
        BY <1>2 DEF Books
    <2>2. ASSUME NEW q \in Procs, Fresh(h2[q]) PROVE Fresh(h[q]) /\ reg'[q] = reg[q]
        <3>1. q # c /\ q # p
            BY <2>2, <1>2, <1>3, <1>6 DEF Fresh
        <3>2. QED
            BY <3>1, <2>2, <1>1, <1>3, ForkedOthers
    <2>3. \A q, s \in Procs : Fresh(h2[q]) /\ Fresh(h2[s]) => reg'[q].dp # reg'[s].ip
        BY <2>1, <2>2 DEF NoCycle
    <2>4. QED
        BY <2>3 DEF NoCycle, Fresh
<1>8. Control(h2)' /\ DOMAIN todo' = Procs
    <2>1. ASSUME NEW q \in Procs PROVE Fits(todo'[q], h2[q]) /\ ops'[q] = h2[q].op
        <3>1. Fits(todo[q], h[q]) /\ ops[q] = h[q].op /\ todo'[q] = todo[q] /\ ops' = ops
            BY <1>1, <1>2, ForkedOthers DEF Accounts, Control
        <3>2. QED
            BY <3>1, <1>2, <1>3, <1>6, FitsEmpty
    <2>2. DOMAIN todo' = Procs
        BY <1>1, ForkedOthers
    <2>3. QED
        BY <2>1, <2>2 DEF Control, Fits, Leads
<1>9. Owners(h2)'
    <2>1. SUFFICES ASSUME NEW k \in 1..NINODE, icache'[k].lock # NONE
                   PROVE  \E q \in Procs : icache'[k].lock = q /\ Locking(q, h2[q], k)'
        BY DEF Owners, Locking
    <2>2. icache'[k].lock = icache[k].lock
        BY <1>1, ForkedCache
    <2>3. PICK q \in Procs : icache[k].lock = q /\ Locking(q, h[q], k)
        BY <2>1, <2>2, <1>2 DEF Owners, Locking, Accounts
    <2>4. q # p /\ q # c
        BY <2>3, <1>2 DEF Locking, Nothing, Gone, Idling
    <2>5. reg'[q] = reg[q] /\ h2[q] = h[q]
        BY <2>4, <1>1, <1>3, ForkedOthers
    <2>6. QED
        BY <2>2, <2>3, <2>5 DEF Locking
<1>10. Books(h2)'
    BY <1>4, <1>5, <1>7 DEF Books
<1>11. Accounts(h2)'
    BY <1>8, <1>9, <1>10 DEF Accounts
<1>12. QED
    BY <1>3, <1>4, <1>8, <1>11 DEF FullInv

-----------------------------------------------------------------------------
(* Every step *)

LEMMA Stutter == ASSUME NEW h, Now(h), UNCHANGED vars PROVE FullInv'
<1>1. /\ disk' = disk /\ dir' = dir /\ icache' = icache /\ ftable' = ftable /\ ofile' = ofile
      /\ cwd' = cwd /\ todo' = todo /\ reg' = reg /\ ops' = ops /\ panicked' = panicked
    BY DEF vars
<1>2. Core /\ DOMAIN todo = Procs /\ h \in [Procs -> Holdings] /\ Accounts(h)
    BY DEF Now
<1>3. Core'
    BY <1>1, <1>2, CoreFrame DEF Core, TypeOK, RegOK
<1>4. Control(h)'
    BY <1>1, <1>2 DEF Accounts, Control, Fits, Leads
<1>5. Owners(h)'
    BY <1>1, <1>2 DEF Accounts, Owners
<1>6. Books(h) => Books(h)'
    <2>1. SUFFICES ASSUME Books(h) PROVE Books(h)'
        OBVIOUS
    <2>2. ASSUME NEW q \in Procs PROVE NameLocal(q, h[q])' /\ InodeLocal(q, h[q])' /\ FileLocal(q, h[q])'
        <3>1. NameLocal(q, h[q])'
            BY <2>1, <1>1 DEF Books, NameLocal, Found
        <3>2. InodeLocal(q, h[q])'
            BY <2>1, <1>1 DEF Books, InodeLocal
        <3>3. FileLocal(q, h[q])'
            BY <2>1, <1>1 DEF Books, FileLocal
        <3>4. QED
            BY <3>1, <3>2, <3>3
    <2>3. InodeCount(h)'
        BY <2>1, <1>1 DEF Books, InodeCount, IpUsers, DpUsers, CwdUsers, Users
    <2>4. FileCount(h)'
        BY <2>1, <1>1 DEF Books, FileCount, FdUsers, RegUsers
    <2>5. FileTypes(h)' /\ NoCycle(h)'
        BY <2>1, <1>1 DEF Books, FileTypes, NoCycle, Fresh
    <2>6. QED
        BY <2>2, <2>3, <2>4, <2>5 DEF Books
<1>7. Accounts(h)'
    BY <1>1, <1>2, <1>4, <1>5, <1>6 DEF Accounts
<1>8. QED
    BY <1>1, <1>2, <1>3, <1>7 DEF FullInv

LEMMA NextStep == ASSUME NEW h, Now(h), [Next]_vars PROVE FullInv'
<1>1. CASE UNCHANGED vars
    BY <1>1, Stutter
<1>2. ASSUME NEW p \in Procs, Step(p) PROVE FullInv'
    <2>1. CASE EndOp(p) \/ Namex(p) \/ Element(p) \/ NotDir(p) \/ Filealloc(p) \/ SetCwd(p)
        BY <2>1, EndOpStep, NamexStep, ElementStep, BranchSteps, FileallocStep, SetCwdStep
    <2>2. CASE Device(p) \/ Filedup(p) \/ Fileclose(p) \/ Dead(p)
        BY <2>2, DeviceStep, FiledupStep, FilecloseStep, DeadStep
    <2>3. CASE \E r \in Registers : Ilock(p, r) \/ Iunlock(p, r) \/ IputLocked(p, r) \/ Drop(p, r)
        BY <2>3, IlockStep, IunlockStep, IputLockedStep, DropStep
    <2>4. CASE \E type \in Types : Lookup(p, type) \/ Existing(p, type) \/ Link(p, type)
        BY <2>4, LookupStep, BranchSteps, LinkStep
    <2>5. CASE \E mode \in Modes \cup CreateModes : IsDir(p, mode) \/ SetFile(p, mode)
        BY <2>5, BranchSteps, SetFileStep
    <2>6. CASE \E fd \in 1..NOFILE : CloseFd(p, fd) \/ ClearFd(p, fd)
        BY <2>6, CloseFdStep, ClearFdStep
    <2>7. QED
        BY <1>2, <2>1, <2>2, <2>3, <2>4, <2>5, <2>6 DEF Step
<1>3. ASSUME NEW p \in Procs, BeginOp(p) \/ ExitCall(p) PROVE FullInv'
    BY <1>3, BeginOpStep, ExitCallStep
<1>4. ASSUME NEW p \in Procs, NEW path \in Paths, NameCall(p, path) \/ CreateCall(p, path) PROVE FullInv'
    BY <1>4, NameCallStep, CreateCallStep
<1>5. ASSUME NEW p \in Procs, NEW fd \in 1..NOFILE, FileCall(p, fd) \/ Dup(p, fd) \/ Close(p, fd)
      PROVE  FullInv'
    BY <1>5, FileCallStep, DupStep, CloseStep
<1>6. ASSUME NEW p \in Procs, NEW c \in Procs, Fork(p, c) PROVE FullInv'
    BY <1>6, ForkStep
<1>7. CASE Next
    BY <1>7, <1>2, <1>3, <1>4, <1>5, <1>6 DEF Next
<1>8. QED
    BY <1>1, <1>7

-----------------------------------------------------------------------------
(* The state that mkfs and user_init() leave *)

(* The directories: the root, and one in it if n = 2. *)
Made(n, a) ==
    /\ 1 \in Inums /\ 2 \in Inums /\ Inums \subseteq Nat
    /\ dir \in [Inums -> [Names -> Inums \cup {0}]]
    /\ \A i \in Inums :
          /\ disk[i].type = IF i > n THEN "free" ELSE "dir"
          /\ i <= n => disk[i].nlink = IF i = 1 THEN n ELSE 1
          /\ i > n => dir[i] = Empty
          /\ i <= n => dir[i]["."] = i /\ dir[i][".."] = 1
          /\ \A e \in Elements : dir[i][e] = IF i < n /\ e = a THEN 2 ELSE 0
          /\ i > n => dir[i][".."] = 0

LEMMA InitDirs ==
    ASSUME NEW n \in {1, 2}, NEW a \in Elements,
           disk = [i \in Inums |->
                      IF i > n THEN [type |-> "free", nlink |-> 0]
                      ELSE [type |-> "dir", nlink |-> IF i = 1 THEN n ELSE 1]],
           dir = [i \in Inums |->
                     IF i > n THEN Empty
                     ELSE [Empty EXCEPT !["."] = i, ![".."] = 1, ![a] = IF i < n THEN 2 ELSE 0]]
    PROVE  /\ Made(n, a)
           /\ disk \in [Inums -> [type : Types \cup {"free"}, nlink : Nat]]
<1>1. NINODES \in Nat /\ NINODES >= 2
    BY FilesAssumption
<1>2. 1 \in Inums /\ 2 \in Inums /\ Inums \subseteq Nat
    BY <1>1 DEF Inums
<1>3. /\ "." \in Names /\ ".." \in Names /\ a \in Names /\ Elements \subseteq Names
      /\ "." \notin Elements /\ ".." \notin Elements
    BY FilesAssumption DEF Names
<1>4. Empty \in [Names -> Inums \cup {0}] /\ \A e \in Names : Empty[e] = 0
    BY DEF Empty
<1>5. disk \in [Inums -> [type : Types \cup {"free"}, nlink : Nat]]
    <2>1. ASSUME NEW i \in Inums
          PROVE  disk[i] \in [type : Types \cup {"free"}, nlink : Nat]
        BY <1>2 DEF Types
    <2>2. QED
        BY <2>1
<1>6. ASSUME NEW i \in Inums
      PROVE  /\ disk[i].type = IF i > n THEN "free" ELSE "dir"
             /\ i <= n => disk[i].nlink = IF i = 1 THEN n ELSE 1
    <2>1. i \in Nat
        BY <1>2
    <2>2. QED
        BY <2>1
<1>7. ASSUME NEW i \in Inums, i <= n
      PROVE  /\ dir[i] \in [Names -> Inums \cup {0}] /\ dir[i]["."] = i /\ dir[i][".."] = 1
             /\ \A e \in Elements : dir[i][e] = IF i < n /\ e = a THEN 2 ELSE 0
    <2>1. i \in Nat /\ ~(i > n)
        BY <1>2, <1>7
    <2>2. PICK v : v = IF i < n THEN 2 ELSE 0
        OBVIOUS
    <2>3. v \in Inums \cup {0}
        BY <2>2, <1>2
    <2>4. dir[i] = [[[Empty EXCEPT !["."] = i] EXCEPT ![".."] = 1] EXCEPT ![a] = v]
        BY <2>1, <2>2
    <2>5. dir[i] = [x \in Names |-> IF x = a THEN v ELSE IF x = ".." THEN 1 ELSE IF x = "." THEN i ELSE 0]
        BY <2>4, <1>3, <1>4 DEF Empty
    <2>6. QED
        BY <2>2, <2>3, <2>5, <1>2, <1>3
<1>8. ASSUME NEW i \in Inums, i > n PROVE dir[i] = Empty
    BY <1>8
<1>9. dir \in [Inums -> [Names -> Inums \cup {0}]]
    <2>1. ASSUME NEW i \in Inums PROVE dir[i] \in [Names -> Inums \cup {0}]
        <3>1. i > n \/ i <= n
            BY <1>2
        <3>2. QED
            BY <3>1, <1>4, <1>7, <1>8
    <2>2. QED
        BY <2>1
<1>10. ASSUME NEW i \in Inums, NEW e \in Elements PROVE dir[i][e] = IF i < n /\ e = a THEN 2 ELSE 0
    <2>1. i > n \/ i <= n
        BY <1>2
    <2>2. i > n => ~(i < n)
        BY <1>2
    <2>3. QED
        BY <2>1, <2>2, <1>3, <1>4, <1>7, <1>8
<1>11. QED
    BY <1>2, <1>3, <1>4, <1>5, <1>6, <1>7, <1>8, <1>9, <1>10 DEF Made

LEMMA EntryNames ==
    ASSUME NEW i, NEW x \in Entries(i) PROVE \E d \in Inums, e \in Elements : x = <<d, e>>
<1>1. x \in Inums \X Elements
    BY DEF Entries
<1>2. QED
    BY <1>1

LEMMA InitTree == ASSUME NEW n \in {1, 2}, NEW a \in Elements, Made(n, a) PROVE TreeOK
<1>0. /\ 1 \in Inums /\ 2 \in Inums /\ Inums \subseteq Nat
      /\ dir \in [Inums -> [Names -> Inums \cup {0}]]
      /\ \A i \in Inums :
            /\ disk[i].type = IF i > n THEN "free" ELSE "dir"
            /\ i <= n => disk[i].nlink = IF i = 1 THEN n ELSE 1
            /\ i > n => dir[i] = Empty
            /\ i <= n => dir[i]["."] = i /\ dir[i][".."] = 1
            /\ \A e \in Elements : dir[i][e] = IF i < n /\ e = a THEN 2 ELSE 0
            /\ i > n => dir[i][".."] = 0
    BY DEF Made
<1>1. \A i \in Inums : i \in Nat /\ i >= 1
    BY <1>0 DEF Inums
<1>2. ASSUME NEW i \in Inums PROVE Entries(i) = IF n = 2 /\ i = 2 THEN {<<1, a>>} ELSE {}
    <2>1. ASSUME NEW d \in Inums, NEW e \in Elements
          PROVE  <<d, e>> \in Entries(i) <=> n = 2 /\ i = 2 /\ d = 1 /\ e = a
        <3>1. <<d, e>> \in Entries(i) <=> dir[d][e] = i
            BY <1>0 DEF Entries
        <3>2. dir[d][e] = IF d < n /\ e = a THEN 2 ELSE 0
            BY <1>0
        <3>3. d < n <=> n = 2 /\ d = 1
            BY <1>1
        <3>4. QED
            BY <3>1, <3>2, <3>3, <1>1
    <2>2. Entries(i) \subseteq Inums \X Elements
        BY <1>0 DEF Entries
    <2>3. ASSUME NEW x \in Entries(i) PROVE n = 2 /\ i = 2 /\ x = <<1, a>>
        <3>1. PICK d \in Inums, e \in Elements : x = <<d, e>>
            BY Zenon, EntryNames
        <3>2. QED
            BY <3>1, <2>1
    <2>4. n = 2 /\ i = 2 => <<1, a>> \in Entries(i)
        BY <1>0, <2>1
    <2>5. QED
        BY <2>3, <2>4
<1>3. ASSUME NEW i \in Inums PROVE Cardinality(Entries(i)) <= 1
    <2>1. PICK x : x = <<1, a>>
        OBVIOUS
    <2>2. Cardinality({x}) = 1 /\ Cardinality({}) = 0
        BY FS_Singleton, FS_EmptySet
    <2>3. Entries(i) = {x} \/ Entries(i) = {}
        BY <2>1, <1>2
    <2>4. QED
        BY <2>2, <2>3
<1>4. ASSUME NEW i \in Inums PROVE disk[i].type # "free" <=> i = 1 \/ Entries(i) # {}
    <2>1. disk[i].type # "free" <=> i <= n
        <3>1. disk[i].type = IF i > n THEN "free" ELSE "dir"
            BY <1>0
        <3>2. i <= n <=> ~(i > n)
            BY <1>1
        <3>3. QED
            BY <3>1, <3>2
    <2>2. i <= n <=> i = 1 \/ (n = 2 /\ i = 2)
        BY <1>1
    <2>3. Entries(i) # {} <=> n = 2 /\ i = 2
        BY <1>2
    <2>4. QED
        BY <2>1, <2>2, <2>3
<1>5. ASSUME NEW i \in Inums, disk[i].type = "dir"
      PROVE  disk[i].nlink = 1 + Cardinality({j \in Inums \ {1} : dir[j][".."] = i})
    <2>1. i <= n
        BY <1>0, <1>1, <1>5
    <2>2. PICK S : S = {j \in Inums \ {1} : dir[j][".."] = i}
        OBVIOUS
    <2>3. ASSUME NEW j \in Inums \ {1} PROVE dir[j][".."] = i <=> n = 2 /\ i = 1 /\ j = 2
        <3>1. CASE j > n
            BY <1>0, <3>1, <1>1
        <3>2. CASE j <= n
            <4>1. n = 2 /\ j = 2 /\ dir[j][".."] = 1
                BY <1>0, <3>2, <1>1
            <4>2. QED
                BY <4>1
        <3>3. QED
            BY <3>1, <3>2, <1>1
    <2>4. S = IF n = 2 /\ i = 1 THEN {2} ELSE {}
        <3>1. n = 2 /\ i = 1 => 2 \in S
            BY <1>0, <2>2, <2>3
        <3>2. \A x \in S : n = 2 /\ i = 1 /\ x = 2
            BY <2>2, <2>3
        <3>3. QED
            BY <3>1, <3>2
    <2>5. Cardinality(S) = IF n = 2 /\ i = 1 THEN 1 ELSE 0
        BY <2>4, FS_Singleton, FS_EmptySet
    <2>6. disk[i].nlink = IF i = 1 THEN n ELSE 1
        BY <1>0, <2>1
    <2>7. QED
        BY <2>2, <2>5, <2>6
<1>6. TreeInv
    BY <1>3, <1>4, <1>5 DEF TreeInv
<1>7. ASSUME NEW i \in Inums, NEW e \in Names, dir[i][e] # 0 PROVE disk[dir[i][e]].type # "free"
    <2>1. i <= n
        <3>1. SUFFICES ASSUME i > n PROVE FALSE
            BY <1>1
        <3>2. QED
            BY <1>0, <3>1, <1>7 DEF Empty
    <2>2. dir[i][e] <= n /\ dir[i][e] \in Inums
        <3>1. CASE e \in Elements
            <4>1. dir[i][e] = IF i < n /\ e = a THEN 2 ELSE 0
                BY <1>0, <3>1
            <4>2. i < n => n = 2
                BY <1>1
            <4>3. QED
                BY <1>0, <4>1, <4>2, <1>7
        <3>2. CASE e \in {".", ".."}
            BY <1>0, <3>2, <2>1, <1>1
        <3>3. QED
            BY <3>1, <3>2 DEF Names
    <2>3. QED
        <3>1. PICK x : x = dir[i][e]
            OBVIOUS
        <3>2. x \in Inums /\ ~(x > n)
            BY <3>1, <2>2, <1>1
        <3>3. disk[x].type = "dir"
            BY <1>0, <3>2
        <3>4. QED
            BY <3>1, <3>3
<1>8. disk[1].type = "dir"
    BY <1>0
<1>9. ASSUME NEW i \in Inums
      PROVE  /\ disk[i].type # "free" => disk[i].nlink >= 1
             /\ disk[i].type = "dir" => dir[i]["."] # 0 /\ dir[i][".."] # 0
             /\ disk[i].type # "dir" => dir[i] = Empty
    <2>1. CASE i > n
        BY <1>0, <2>1
    <2>2. CASE i <= n
        <3>1. disk[i].nlink >= 1 /\ dir[i]["."] # 0 /\ dir[i][".."] # 0 /\ disk[i].type = "dir"
            BY <1>0, <2>2, <1>1
        <3>2. QED
            BY <3>1
    <2>3. QED
        BY <2>1, <2>2, <1>1
<1>10. QED
    BY <1>6, <1>7, <1>8, <1>9 DEF TreeOK

(* The cache: one entry for each directory, as many references as there are *)
(* processes in it.                                                         *)
Looked(n) ==
    /\ cwd = [p \in Procs |-> IF p \notin Started THEN 0 ELSE IF p = Booter THEN 1 ELSE n]
    /\ icache = [k \in 1..NINODE |->
          IF k > n THEN NoEntry
          ELSE [NoEntry EXCEPT !.inum = k, !.ref = Cardinality({p \in Procs : cwd[p] = k})]]

LEMMA InitCache ==
    ASSUME NEW n \in {1, 2}, NEW a \in Elements, Made(n, a), Looked(n)
    PROVE  /\ cwd \in [Procs -> 0..NINODE] /\ icache \in [1..NINODE -> Cached] /\ CacheOK
           /\ \A p \in Procs : IF p \in Started THEN cwd[p] \in 1..NINODE ELSE cwd[p] = 0
           /\ \A k \in 1..NINODE : icache[k].ref = Cardinality({p \in Procs : cwd[p] = k})
           /\ \A k \in 1..NINODE : icache[k].lock = NONE
<1>1. NINODE \in Nat /\ NINODE >= 2 /\ n \in 1..NINODE /\ 1 \in 1..NINODE
    BY FilesAssumption
<1>2. \A k \in 1..NINODE : k \in Nat
    BY <1>1
<1>3. ASSUME NEW p \in Procs
      PROVE  /\ p \in Started => cwd[p] \in 1..NINODE /\ cwd[p] <= n
             /\ p \notin Started => cwd[p] = 0
    <2>1. cwd[p] = IF p \notin Started THEN 0 ELSE IF p = Booter THEN 1 ELSE n
        BY Zenon DEF Looked
    <2>2. QED
        BY <2>1, <1>1
<1>4. cwd \in [Procs -> 0..NINODE]
    <2>1. cwd = [p \in Procs |-> cwd[p]]
        BY Zenon DEF Looked
    <2>2. \A p \in Procs : cwd[p] \in 0..NINODE
        BY <1>1, <1>3
    <2>3. QED
        BY <2>1, <2>2
<1>5. ASSUME NEW k \in 1..NINODE
      PROVE  /\ icache[k] \in Cached /\ icache[k].ref = Cardinality({p \in Procs : cwd[p] = k})
             /\ icache[k].lock = NONE /\ ~icache[k].valid
             /\ k > n => icache[k].ref = 0
             /\ k <= n => icache[k].inum = k
    <2>1. PICK S : S = {p \in Procs : cwd[p] = k}
        OBVIOUS
    <2>2. IsFiniteSet(S) /\ Cardinality(S) \in Nat
        <3>1. IsFiniteSet(Procs) /\ S \subseteq Procs
            BY <2>1, FilesAssumption
        <3>2. QED
            BY <3>1, FS_Subset, FS_CardinalityType
    <2>3. /\ NoEntry \in Cached /\ NoEntry.ref = 0 /\ NoEntry.lock = NONE /\ NoEntry.valid = FALSE
        BY DEF NoEntry, Cached
    <2>4. CASE k > n
        <3>1. icache[k] = NoEntry
            BY <2>4 DEF Looked
        <3>2. S = {}
            <4>1. SUFFICES ASSUME NEW p \in Procs, cwd[p] = k PROVE FALSE
                BY <2>1
            <4>2. p \in Started \/ cwd[p] = 0
                BY <1>3
            <4>3. QED
                BY <4>1, <4>2, <2>4, <1>2, <1>3
        <3>3. Cardinality(S) = 0
            BY <3>2, FS_EmptySet
        <3>4. QED
            BY <3>1, <3>3, <2>1, <2>3, <2>4, <1>2
    <2>5. CASE k <= n
        <3>1. icache[k] = [NoEntry EXCEPT !.inum = k, !.ref = Cardinality(S)]
            <4>1. icache[k] = IF k > n THEN NoEntry
                              ELSE [NoEntry EXCEPT !.inum = k, !.ref = Cardinality(S)]
                BY Zenon, <2>1 DEF Looked
            <4>2. ~(k > n)
                BY <2>5, <1>2
            <4>3. QED
                BY Zenon, <4>1, <4>2
        <3>2. k \in Inums
            BY <2>5, <1>2 DEF Made
        <3>3. PICK e : e = icache[k]
            OBVIOUS
        <3>4. /\ e \in Cached /\ e.ref = Cardinality(S) /\ e.lock = NONE
              /\ e.valid = FALSE /\ e.inum = k
            <4>1. PICK c : c = Cardinality(S)
                OBVIOUS
            <4>2. c \in Nat /\ e = [NoEntry EXCEPT !.inum = k, !.ref = c]
                BY <4>1, <3>1, <3>3, <2>2
            <4>3. e = [inum |-> k, ref |-> c, valid |-> FALSE, lock |-> NONE, type |-> "free", nlink |-> 0]
                BY <4>2 DEF NoEntry
            <4>4. e.ref = c /\ e.lock = NONE /\ e.valid = FALSE /\ e.inum = k
                BY <4>3
            <4>5. k \in Inums \cup {0} /\ c \in Nat /\ FALSE \in BOOLEAN /\ NONE \in Procs \cup {NONE}
                  /\ "free" \in Types \cup {"free"} /\ 0 \in Nat
                BY <4>2, <3>2
            <4>6. e \in Cached
                BY <4>3, <4>5 DEF Cached
            <4>7. QED
                BY <4>1, <4>4, <4>6
        <3>5. QED
            BY <3>3, <3>4, <2>1, <2>5, <1>2
    <2>6. QED
        BY <2>4, <2>5, <1>2
<1>6. icache \in [1..NINODE -> Cached]
    <2>1. DOMAIN icache = 1..NINODE /\ icache = [k \in DOMAIN icache |-> icache[k]]
        BY DEF Looked
    <2>2. QED
        BY <2>1, <1>5
<1>7. CacheOK
    <2>1. ASSUME NEW k \in 1..NINODE, icache[k].ref > 0
          PROVE  k <= n /\ icache[k].inum = k /\ k \in Inums /\ disk[k].type # "free"
        <3>1. k <= n
            <4>1. k \in Nat /\ (k > n => icache[k].ref = 0)
                BY <1>2, <1>5
            <4>2. QED
                BY <4>1, <2>1
        <3>2. k \in Inums
            BY <3>1, <1>2 DEF Made
        <3>3. disk[k].type = IF k > n THEN "free" ELSE "dir"
            BY <3>2 DEF Made
        <3>4. ~(k > n)
            BY <3>1, <1>2
        <3>5. QED
            BY <3>1, <3>2, <3>3, <3>4, <1>5
    <2>2. \A k \in 1..NINODE : icache[k].lock = NONE /\ ~icache[k].valid
        BY <1>5
    <2>3. QED
        BY <2>1, <2>2 DEF CacheOK
<1>8. QED
    BY <1>3, <1>4, <1>5, <1>6, <1>7

LEMMA InitFull == Init => FullInv
<1> SUFFICES ASSUME Init PROVE FullInv
    OBVIOUS
<1>1. PICK n \in {1, 2}, a \in Elements :
          /\ disk = [i \in Inums |->
                IF i > n THEN [type |-> "free", nlink |-> 0]
                ELSE [type |-> "dir", nlink |-> IF i = 1 THEN n ELSE 1]]
          /\ dir = [i \in Inums |->
                IF i > n THEN Empty
                ELSE [Empty EXCEPT !["."] = i, ![".."] = 1, ![a] = IF i < n THEN 2 ELSE 0]]
          /\ cwd = [p \in Procs |-> IF p \notin Started THEN 0 ELSE IF p = Booter THEN 1 ELSE n]
          /\ icache = [k \in 1..NINODE |->
                IF k > n THEN NoEntry
                ELSE [NoEntry EXCEPT !.inum = k, !.ref = Cardinality({p \in Procs : cwd[p] = k})]]
    BY DEF Init
<1>2. /\ ftable = [f \in 1..NFILE |-> NoFile]
      /\ ofile = [p \in Procs |-> [fd \in 1..NOFILE |-> 0]]
      /\ todo = [p \in Procs |-> <<>>]
      /\ reg = [p \in Procs |-> NoReg]
      /\ ops = [p \in Procs |-> 0]
      /\ panicked = "no"
    BY DEF Init
<1>3. Made(n, a) /\ disk \in [Inums -> [type : Types \cup {"free"}, nlink : Nat]]
    BY <1>1, InitDirs
<1>4. /\ cwd \in [Procs -> 0..NINODE] /\ icache \in [1..NINODE -> Cached] /\ CacheOK
      /\ \A p \in Procs : IF p \in Started THEN cwd[p] \in 1..NINODE ELSE cwd[p] = 0
      /\ \A k \in 1..NINODE : icache[k].ref = Cardinality({p \in Procs : cwd[p] = k})
      /\ \A k \in 1..NINODE : icache[k].lock = NONE
    <2>1. Looked(n)
        BY <1>1 DEF Looked
    <2>2. QED
        BY <2>1, <1>3, InitCache
<1>5. ftable \in [1..NFILE -> Filed] /\ ofile \in [Procs -> [1..NOFILE -> 0..NFILE]]
    <2>1. 0 \in 0..NINODE /\ 0 \in 0..NFILE
        BY FilesAssumption
    <2>2. NoFile \in Filed
        BY <2>1 DEF NoFile, Filed
    <2>3. QED
        BY <2>1, <2>2, <1>2
<1>6. TypeOK
    <2>1. dir \in [Inums -> [Names -> Inums \cup {0}]]
        BY <1>3 DEF Made
    <2>2. ops \in [Procs -> Nat]
        BY <1>2
    <2>3. QED
        BY <2>1, <2>2, <1>3, <1>4, <1>5 DEF TypeOK, Cached, Filed
<1>7. RegOK
    BY <1>2, NoRegLocal DEF RegOK
<1>8. TreeOK
    BY <1>3, InitTree
<1>9. Core
    BY <1>2, <1>4, <1>6, <1>7, <1>8 DEF Core, PanicOnlyWhenFull
<1>10. PICK h : h = [p \in Procs |-> IF p \in Started THEN Nothing ELSE Gone]
    OBVIOUS
<1>11. /\ h \in [Procs -> Holdings]
       /\ \A p \in Procs : h[p] = IF p \in Started THEN Nothing ELSE Gone
    BY <1>10, HoldingTypes
<1>12. ASSUME NEW p \in Procs
       PROVE  /\ h[p].ip = "none" /\ h[p].dp = "none" /\ h[p].f = "none" /\ h[p].stale = 0 /\ h[p].op = 0
              /\ h[p].shut = 0 /\ h[p].path = "none" /\ h[p] \in {Nothing, Gone}
              /\ h[p].cwd = IF p \in Started THEN "own" ELSE "dead"
    <2>1. CASE p \in Started
        BY <2>1, <1>11 DEF Nothing, Idling
    <2>2. CASE p \notin Started
        BY <2>2, <1>11 DEF Gone, Idling
    <2>3. QED
        BY <2>1, <2>2
<1>13. Control(h)
    BY <1>2, <1>12, FitsEmpty DEF Control
<1>14. Owners(h)
    BY <1>4 DEF Owners
<1>15. ASSUME NEW p \in Procs PROVE NameLocal(p, h[p]) /\ InodeLocal(p, h[p]) /\ FileLocal(p, h[p])
    <2>1. NameLocal(p, h[p])
        BY <1>12 DEF NameLocal
    <2>2. InodeLocal(p, h[p])
        BY <1>4, <1>12 DEF InodeLocal
    <2>3. FileLocal(p, h[p])
        BY <1>2, <1>12 DEF FileLocal
    <2>4. QED
        BY <2>1, <2>2, <2>3
<1>16. InodeCount(h)
    <2>1. SUFFICES ASSUME NEW k \in 1..NINODE
                   PROVE  icache[k].ref = Cardinality(IpUsers(h, k)) + Cardinality(DpUsers(h, k))
                                          + Cardinality(CwdUsers(h, k)) + Cardinality(Users(k))
        BY DEF InodeCount
    <2>2. IpUsers(h, k) = {} /\ DpUsers(h, k) = {}
        BY <1>12 DEF IpUsers, DpUsers
    <2>3. Users(k) = {}
        BY <1>2 DEF Users, NoFile
    <2>4. CwdUsers(h, k) = {p \in Procs : cwd[p] = k}
        <3>1. ASSUME NEW p \in Procs, cwd[p] = k PROVE h[p].cwd = "own"
            BY <3>1, <1>4, <1>12
        <3>2. QED
            BY <3>1 DEF CwdUsers
    <2>5. Cardinality(CwdUsers(h, k)) \in Nat /\ Cardinality({}) = 0
        BY Finite, FS_CardinalityType, FS_EmptySet
    <2>6. QED
        BY <2>2, <2>3, <2>4, <2>5, <1>4
<1>17. FileCount(h)
    <2>1. SUFFICES ASSUME NEW f \in 1..NFILE
                   PROVE  ftable[f].ref = Cardinality(FdUsers(h, f)) + Cardinality(RegUsers(h, f))
        BY DEF FileCount
    <2>2. FdUsers(h, f) = {} /\ RegUsers(h, f) = {}
        BY <1>2, <1>12 DEF FdUsers, RegUsers
    <2>3. Cardinality({}) = 0 /\ ftable[f].ref = 0
        BY <1>2, FS_EmptySet DEF NoFile
    <2>4. QED
        BY <2>2, <2>3
<1>18. FileTypes(h) /\ NoCycle(h)
    BY <1>2, <1>12 DEF FileTypes, NoCycle, Fresh, NoFile
<1>19. Books(h)
    BY <1>15, <1>16, <1>17, <1>18 DEF Books
<1>20. Accounts(h)
    BY <1>13, <1>14, <1>19 DEF Accounts
<1>21. QED
    BY <1>2, <1>9, <1>11, <1>20 DEF FullInv

-----------------------------------------------------------------------------
(* The invariants of Files *)

LEMMA FilesInductive == Spec => []FullInv
<1>1. Init => FullInv
    BY InitFull
<1>2. FullInv /\ [Next]_vars => FullInv'
    <2>1. SUFFICES ASSUME FullInv, [Next]_vars PROVE FullInv'
        OBVIOUS
    <2>2. PICK h : Now(h)
        BY <2>1 DEF FullInv, Now
    <2>3. QED
        BY <2>1, <2>2, NextStep
<1>3. QED
    BY <1>1, <1>2, PTL DEF Spec

(* A process that is in no call holds nothing. *)
LEMMA Returned ==
    ASSUME NEW h, Now(h), NEW p \in Procs, todo[p] = <<>>
    PROVE  /\ h[p] \in {Nothing, Gone} /\ h[p].ip = "none" /\ h[p].dp = "none" /\ h[p].f = "none"
           /\ h[p].stale = 0 /\ h[p].op = 0 /\ ops[p] = 0
           /\ h[p].cwd = IF h[p] = Nothing THEN "own" ELSE "dead"
<1>1. h[p] \in {Nothing, Gone} /\ ops[p] = h[p].op
    BY FitsEmpty DEF Now, Accounts, Control
<1>2. QED
    BY <1>1 DEF Nothing, Gone, Idling

LEMMA FullCoherent == ASSUME Core PROVE CacheCoherent
<1>1. CacheOK /\ disk \in [Inums -> [type : Types \cup {"free"}, nlink : Nat]]
    BY DEF Core, TypeOK
<1>2. ASSUME NEW k \in 1..NINODE, icache[k].ref > 0, icache[k].valid
      PROVE  disk[icache[k].inum] = [type |-> icache[k].type, nlink |-> icache[k].nlink]
    <2>1. icache[k].inum \in Inums
        BY <1>1, <1>2 DEF CacheOK
    <2>2. PICK d : d = disk[icache[k].inum]
        OBVIOUS
    <2>3. d \in [type : Types \cup {"free"}, nlink : Nat]
        BY <2>1, <2>2, <1>1
    <2>4. d.type = icache[k].type /\ d.nlink = icache[k].nlink
        BY <2>2, <1>1, <1>2 DEF CacheOK
    <2>5. d = [type |-> d.type, nlink |-> d.nlink]
        BY <2>3
    <2>6. QED
        BY <2>2, <2>4, <2>5
<1>3. QED
    BY <1>1, <1>2 DEF CacheOK, CacheCoherent

LEMMA FullCounted == ASSUME NEW h, Now(h) PROVE ReferencesCounted
<1>1. SUFFICES ASSUME Idle, panicked = "no"
               PROVE  /\ \A f \in 1..NFILE : ftable[f].ref = Cardinality(Descriptors(f))
                      /\ \A k \in 1..NINODE : icache[k].ref = Cardinality(Users(k)) + Cardinality(Inside(k))
    BY DEF ReferencesCounted
<1>2. ASSUME NEW p \in Procs
      PROVE  /\ h[p] \in {Nothing, Gone} /\ h[p].ip = "none" /\ h[p].dp = "none" /\ h[p].f = "none"
             /\ h[p].stale = 0 /\ h[p].cwd = IF h[p] = Nothing THEN "own" ELSE "dead"
    BY <1>1, Returned DEF Idle
<1>3. Books(h)
    BY <1>1 DEF Now, Accounts
<1>4. ASSUME NEW f \in 1..NFILE PROVE ftable[f].ref = Cardinality(Descriptors(f))
    <2>1. RegUsers(h, f) = {}
        BY <1>2 DEF RegUsers
    <2>2. FdUsers(h, f) = Descriptors(f)
        <3>1. ASSUME NEW x \in Procs \X (1..NOFILE) PROVE x \in FdUsers(h, f) <=> x \in Descriptors(f)
            <4>1. PICK q \in Procs, e \in 1..NOFILE : x = <<q, e>>
                OBVIOUS
            <4>2. h[q].stale = 0 /\ e # 0
                BY <1>2
            <4>3. QED
                BY <4>1, <4>2 DEF FdUsers, Descriptors
        <3>2. QED
            BY <3>1 DEF FdUsers, Descriptors
    <2>3. Cardinality(FdUsers(h, f)) \in Nat /\ Cardinality({}) = 0
        BY Finite, FS_CardinalityType, FS_EmptySet
    <2>4. ftable[f].ref = Cardinality(FdUsers(h, f)) + Cardinality(RegUsers(h, f))
        BY <1>3 DEF Books, FileCount
    <2>5. QED
        BY <2>1, <2>2, <2>3, <2>4
<1>5. ASSUME NEW k \in 1..NINODE PROVE icache[k].ref = Cardinality(Users(k)) + Cardinality(Inside(k))
    <2>1. IpUsers(h, k) = {} /\ DpUsers(h, k) = {}
        BY <1>2 DEF IpUsers, DpUsers
    <2>2. CwdUsers(h, k) = Inside(k)
        <3>1. ASSUME NEW p \in Procs, cwd[p] = k PROVE h[p].cwd = "own"
            <4>1. h[p].cwd = "dead" => cwd[p] = 0
                BY <1>3 DEF Books, InodeLocal
            <4>2. QED
                BY <4>1, <3>1, <1>2
        <3>2. QED
            BY <3>1 DEF CwdUsers, Inside
    <2>3. Cardinality(CwdUsers(h, k)) \in Nat /\ Cardinality(Users(k)) \in Nat /\ Cardinality({}) = 0
        BY Finite, FS_CardinalityType, FS_EmptySet
    <2>4. icache[k].ref = Cardinality(IpUsers(h, k)) + Cardinality(DpUsers(h, k))
                          + Cardinality(CwdUsers(h, k)) + Cardinality(Users(k))
        BY <1>3 DEF Books, InodeCount
    <2>5. QED
        BY <2>1, <2>2, <2>3, <2>4
<1>6. QED
    BY <1>4, <1>5

LEMMA FullNest == ASSUME NEW h, Now(h) PROVE OperationsNest
<1>1. ASSUME NEW p \in Procs PROVE ops[p] <= 1
    <2>1. ops[p] = h[p].op /\ h[p] \in Holdings
        BY DEF Now, Accounts, Control
    <2>2. h[p].op \in {0, 1}
        BY <2>1 DEF Holdings
    <2>3. QED
        BY <2>1, <2>2
<1>2. ASSUME NEW p \in Procs, todo[p] = <<>>
      PROVE  ops[p] = 0 /\ \A k \in 1..NINODE : icache[k].lock # p
    <2>1. ops[p] = 0 /\ h[p].ip = "none" /\ h[p].dp = "none"
        BY <1>2, Returned
    <2>2. ASSUME NEW k \in 1..NINODE, icache[k].lock = p PROVE FALSE
        <3>1. Locking(p, h[p], k)
            BY <2>2, OwnLock DEF Now
        <3>2. QED
            BY <3>1, <2>1 DEF Locking
    <2>3. QED
        BY <2>1, <2>2
<1>3. QED
    BY <1>1, <1>2 DEF OperationsNest

(* What a process that waits holds: no lock, or that of an inode which it   *)
(* has just made, while it waits for the directory.                         *)
LEMMA Waiting ==
    ASSUME NEW h, Now(h), panicked = "no", NEW p \in Procs, todo[p] # <<>>, Blocked(p)
    PROVE  \/ h[p].op = 0 /\ NoLock(h[p]) /\ \E q \in Procs : ops[q] > 0
           \/ NoLock(h[p]) /\ \E k \in 1..NINODE : icache[k].lock # NONE
           \/ /\ h[p].dp = "ref" /\ h[p].ip # "uselock" /\ reg[p].dp \in 1..NINODE
              /\ icache[reg[p].dp].lock # NONE
<1>1. /\ Books(h) /\ h \in [Procs -> Holdings] /\ h[p] \in Holdings /\ TypeOK /\ InodeLocal(p, h[p])
      /\ Fits(todo[p], h[p])
    BY DEF Now, Accounts, Control, Core, Books
<1>2. PICK g \in Holdings : Trans(Head(todo[p]), h[p], g)
    BY <1>1, FitsHead
<1>3. CASE Head(todo[p]) = <<"begin_op">> /\ \E q \in Procs : ops[q] > 0
    BY <1>2, <1>3 DEF Trans
<1>4. ASSUME NEW r \in Registers, Head(todo[p]) = <<"ilock", r>>, icache[Index(p, r)].lock # NONE
      PROVE  NoLock(h[p]) /\ \E k \in 1..NINODE : icache[k].lock # NONE
    <2>1. r = "ip" /\ h[p].dp = "none" /\ h[p].ip \in {"ref", "use"}
        BY <1>2, <1>4 DEF Trans
    <2>2. reg[p].ip \in 1..NINODE
        BY <2>1, <1>1, UseInode DEF InodeLocal
    <2>3. QED
        BY <2>1, <2>2, <1>4 DEF NoLock, Index
<1>5. ASSUME NEW r \in Registers, Head(todo[p]) = <<"iput", r>>, icache[Index(p, r)].lock # NONE
      PROVE  \/ NoLock(h[p]) /\ \E k \in 1..NINODE : icache[k].lock # NONE
             \/ /\ h[p].dp = "ref" /\ h[p].ip # "uselock" /\ reg[p].dp \in 1..NINODE
                /\ icache[reg[p].dp].lock # NONE
    <2>1. \/ r = "ip" /\ h[p].ip = "ref" /\ NoLock(h[p])
          \/ r = "dp" /\ h[p].dp = "ref" /\ h[p].ip # "uselock"
          \/ r = "cwd" /\ h[p].cwd = "own" /\ NoLock(h[p])
        BY <1>2, <1>5 DEF Trans
    <2>2. CASE r = "ip" /\ h[p].ip = "ref" /\ NoLock(h[p])
        BY <2>2, <1>1, <1>5 DEF InodeLocal, Index
    <2>3. CASE r = "dp" /\ h[p].dp = "ref" /\ h[p].ip # "uselock"
        BY <2>3, <1>1, <1>5 DEF InodeLocal, Index
    <2>4. CASE r = "cwd" /\ h[p].cwd = "own" /\ NoLock(h[p])
        BY <2>4, <1>1, <1>5 DEF InodeLocal, Index
    <2>5. QED
        BY <2>1, <2>2, <2>3, <2>4
<1>6. QED
    BY <1>3, <1>4, <1>5 DEF Blocked

LEMMA FullGoesOn == ASSUME NEW h, Now(h) PROVE SomeoneGoesOn
<1>1. SUFFICES ASSUME ~Idle, panicked = "no", \A p \in Procs : Blocked(p) PROVE FALSE
    BY DEF SomeoneGoesOn
<1>2. Accounts(h) /\ NoCycle(h)
    BY <1>1 DEF Now, Accounts, Books
<1>3. ASSUME NEW k \in 1..NINODE, icache[k].lock # NONE
      PROVE  \E q \in Procs : /\ Fresh(h[q]) /\ reg[q].ip = k /\ reg[q].dp \in 1..NINODE
                              /\ icache[reg[q].dp].lock # NONE
    <2>1. PICK q \in Procs : icache[k].lock = q /\ Locking(q, h[q], k)
        BY <1>2, <1>3 DEF Accounts, Owners, Locking
    <2>2. ~NoLock(h[q])
        BY <2>1 DEF Locking, NoLock
    <2>3. todo[q] # <<>>
        BY <2>2, Returned DEF NoLock
    <2>4. h[q].dp = "ref" /\ h[q].ip # "uselock" /\ reg[q].dp \in 1..NINODE /\ icache[reg[q].dp].lock # NONE
        BY <2>2, <2>3, <1>1, Waiting
    <2>5. QED
        BY <2>1, <2>4 DEF Locking, Fresh
<1>4. ASSUME NEW k \in 1..NINODE PROVE icache[k].lock = NONE
    <2>1. SUFFICES ASSUME icache[k].lock # NONE PROVE FALSE
        OBVIOUS
    <2>2. PICK q \in Procs : /\ Fresh(h[q]) /\ reg[q].ip = k /\ reg[q].dp \in 1..NINODE
                             /\ icache[reg[q].dp].lock # NONE
        BY <2>1, <1>3
    <2>3. PICK s \in Procs : Fresh(h[s]) /\ reg[s].ip = reg[q].dp
        BY <2>2, <1>3
    <2>4. QED
        BY <2>2, <2>3, <1>2 DEF NoCycle
<1>5. ASSUME NEW p \in Procs, todo[p] # <<>> PROVE h[p].op = 0 /\ \E q \in Procs : ops[q] > 0
    <2>1. h[p].dp = "ref" /\ reg[p].dp \in 1..NINODE => icache[reg[p].dp].lock = NONE
        BY <1>4
    <2>2. QED
        BY <2>1, <1>1, <1>4, <1>5, Waiting
<1>6. PICK p \in Procs : todo[p] # <<>>
    BY <1>1 DEF Idle
<1>7. PICK q \in Procs : ops[q] > 0
    BY <1>5, <1>6
<1>8. ops[q] = h[q].op
    BY <1>2 DEF Accounts, Control
<1>9. todo[q] # <<>>
    BY <1>7, Returned
<1>10. QED
    BY <1>5, <1>7, <1>8, <1>9

(* The inode cache never has two entries for an inode, and an inode that    *)
(* nobody has locked is as on disk; when no system call is in progress,     *)
(* every reference to a file or an inode is accounted for, however the      *)
(* calls before have failed or raced; no operation of the log is nested and *)
(* no call returns with one, or with an inode locked.  The paths of         *)
(* sysfile.c, file.c and namex() all give back what they take.              *)
THEOREM FilesCorrect == Spec => []FilesInv
<1>1. FullInv => FilesInv
    <2>1. SUFFICES ASSUME FullInv PROVE FilesInv
        OBVIOUS
    <2>2. PICK h : Now(h)
        BY <2>1 DEF FullInv, Now
    <2>3. Core
        BY <2>1 DEF FullInv
    <2>4. CacheCoherent /\ ReferencesCounted /\ OperationsNest
        BY <2>2, <2>3, FullCoherent, FullCounted, FullNest
    <2>5. QED
        BY <2>3, <2>4 DEF FilesInv, Core
<1>2. QED
    BY <1>1, FilesInductive, PTL

(* The directories stay a tree with the right link counts, whatever calls   *)
(* of create() race: dirlookup() and dirlink() are under the lock of the    *)
(* parent, and a new inode is locked until it is linked.                    *)
THEOREM FilesTree == Spec => []TreeInv
<1>1. FullInv => TreeInv
    BY DEF FullInv, Core, TreeOK
<1>2. QED
    BY <1>1, FilesInductive, PTL

(* None of the panics of ilock(), iunlock(), filedup(), fileclose(),        *)
(* fileread(), dirlink() in create() happens: this code stops only when     *)
(* iget() finds no entry or ialloc() no inode (the blocks, and balloc()'s   *)
(* panic, are not in this model).                                           *)
THEOREM FilesPanic == Spec => []PanicOnlyWhenFull
<1>1. FullInv => PanicOnlyWhenFull
    BY DEF FullInv, Core
<1>2. QED
    BY <1>1, FilesInductive, PTL

(* No deadlock over inode locks and room in the log: while a call is in     *)
(* progress, some process can go on.  The only one that waits for a lock    *)
(* with another in its hand is create(), which puts the parent with the new *)
(* inode locked; a directory it waits for is nobody's new inode.            *)
THEOREM FilesGoOn == Spec => []SomeoneGoesOn
<1>1. FullInv => SomeoneGoesOn
    BY FullGoesOn DEF FullInv, Now
<1>2. QED
    BY <1>1, FilesInductive, PTL
=============================================================================

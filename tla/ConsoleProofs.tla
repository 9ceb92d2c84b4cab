--------------------------- MODULE ConsoleProofs ---------------------------
(***************************************************************************)
(* Proofs about Console, for any size of the ring and any width of its      *)
(* counters that is a multiple of it: the indices stay in order, and the    *)
(* ring is a queue of lines.                                                *)
(***************************************************************************)
EXTENDS Console, SequenceTheorems, TLAPS

-----------------------------------------------------------------------------
(* Counters that wrap *)

(* Numbers less than n apart have different remainders. *)
LEMMA RemaindersDiffer ==
    ASSUME NEW n \in Nat \ {0}, NEW a \in Nat, NEW b \in Nat, a < b, b < a + n
    PROVE  a % n # b % n
<1> DEFINE p == a \div n
           q == b \div n
<1>1. /\ p \in Nat /\ a = n * p + (a % n) /\ a % n \in Nat
      /\ q \in Nat /\ b = n * q + (b % n) /\ b % n \in Nat
    OBVIOUS
<1> HIDE DEF p, q
<1>2. SUFFICES ASSUME a % n = b % n PROVE FALSE
    OBVIOUS
<1>3. b - a = n * (q - p)
    BY <1>1, <1>2
<1>4. CASE q - p <= 0
    <2>1. n * (q - p) <= 0
        BY <1>1, <1>4
    <2>2. QED
        BY <1>3, <2>1
<1>5. CASE q - p >= 1
    <2>1. n * (q - p) >= n
        BY <1>1, <1>5
    <2>2. QED
        BY <1>3, <2>1
<1>6. QED
    BY <1>1, <1>4, <1>5

(* A multiple of n does not change the remainder. *)
LEMMA RemainderOfSum ==
    ASSUME NEW n \in Nat \ {0}, NEW a \in Nat, NEW b \in Nat, b % n = 0
    PROVE  (a + b) % n = a % n
<1> DEFINE p == a \div n
           q == b \div n
           s == (a + b) \div n
           x == a % n
           y == (a + b) % n
<1>1. /\ p \in Nat /\ a = n * p + x /\ x \in 0..(n - 1)
      /\ q \in Nat /\ b = n * q + (b % n)
      /\ s \in Nat /\ a + b = n * s + y /\ y \in 0..(n - 1)
    OBVIOUS
<1> HIDE DEF p, q, s, x, y
<1> DEFINE d == p + q - s
<1>2. d \in Int /\ n * d = y - x
    BY <1>1
<1> HIDE DEF d
<1>3. CASE d >= 1
    <2>1. n * d >= n
        BY <1>2, <1>3
    <2>2. QED
        BY <1>1, <1>2, <2>1
<1>4. CASE d <= -1
    <2>1. n * d <= -n
        BY <1>2, <1>4
    <2>2. QED
        BY <1>1, <1>2, <2>1
<1>5. CASE d = 0
    <2>1. y = x
        BY <1>1, <1>2, <1>5
    <2>2. QED
        BY <2>1 DEF x, y
<1>6. QED
    BY <1>2, <1>3, <1>4, <1>5

Index == 0..(WRAP - 1)

(* The counters without remainders. *)
LEMMA Counting ==
    ASSUME NEW i \in Index, NEW n \in 0..WRAP
    PROVE  /\ Plus(i, n) = IF i + n < WRAP THEN i + n ELSE i + n - WRAP
           /\ Minus(i, n) = IF i >= n THEN i - n ELSE i + WRAP - n
           /\ Plus(i, n) \in Index /\ Minus(i, n) \in Index
<1>1. WRAP \in Nat /\ WRAP > 0
    BY ConsoleAssumption
<1>2. \A x \in 0..(WRAP - 1) : x % WRAP = x
    BY <1>1
<1>3. \A x \in WRAP..(WRAP + WRAP - 1) : x % WRAP = x - WRAP
    BY <1>1
<1>4. Plus(i, n) = IF i + n < WRAP THEN i + n ELSE i + n - WRAP
    <2>1. CASE i + n < WRAP
        BY <1>1, <1>2, <2>1 DEF Plus, Index
    <2>2. CASE i + n >= WRAP
        BY <1>1, <1>3, <2>2 DEF Plus, Index
    <2>3. QED
        BY <1>1, <2>1, <2>2 DEF Index
<1>5. Minus(i, n) = IF i >= n THEN i - n ELSE i + WRAP - n
    <2>1. CASE i < n
        BY <1>1, <1>2, <2>1 DEF Minus, Index
    <2>2. CASE i >= n
        <3>1. i + WRAP - n \in WRAP..(WRAP + WRAP - 1)
            BY <1>1, <2>2 DEF Index
        <3>2. QED
            BY <1>1, <1>3, <2>2, <3>1 DEF Minus, Index
    <2>3. QED
        BY <1>1, <2>1, <2>2 DEF Index
<1>6. QED
    BY <1>1, <1>4, <1>5 DEF Index

(* The place of a counter in the ring does not depend on the wrap. *)
LEMMA PlaceOfPlus ==
    ASSUME NEW i \in Index, NEW n \in 0..WRAP
    PROVE  Plus(i, n) % INPUT_BUF = (i + n) % INPUT_BUF
<1>1. /\ WRAP \in Nat /\ WRAP % INPUT_BUF = 0 /\ INPUT_BUF \in Nat \ {0} /\ i \in Nat /\ n \in Nat
    BY ConsoleAssumption DEF Index
<1>2. CASE i + n < WRAP
    BY <1>1, <1>2, Counting
<1>3. CASE i + n >= WRAP
    <2>1. i + n - WRAP \in Nat
        BY <1>1, <1>3
    <2>2. ((i + n - WRAP) + WRAP) % INPUT_BUF = (i + n - WRAP) % INPUT_BUF
        BY <1>1, <2>1, RemainderOfSum
    <2>3. (i + n - WRAP) + WRAP = i + n
        BY <1>1
    <2>4. Plus(i, n) = i + n - WRAP
        BY <1>1, <1>3, Counting
    <2>5. QED
        BY <2>2, <2>3, <2>4
<1>4. QED
    BY <1>1, <1>2, <1>3

(* Two of INPUT_BUF successive counters have different places in the ring. *)
LEMMA PlacesDiffer ==
    ASSUME NEW i \in Index, NEW n \in 0..(INPUT_BUF - 1), NEW k \in 0..(n - 1)
    PROVE  Plus(i, k) % INPUT_BUF # Plus(i, n) % INPUT_BUF
<1>1. /\ WRAP \in Nat /\ INPUT_BUF \in Nat \ {0} /\ WRAP > INPUT_BUF
    BY ConsoleAssumption
<1>2. n \in 0..WRAP /\ k \in 0..WRAP /\ i + k \in Nat /\ i + n \in Nat /\ i + k < i + n /\ i + n < i + k + INPUT_BUF
    BY <1>1 DEF Index
<1>3. (i + k) % INPUT_BUF # (i + n) % INPUT_BUF
    BY <1>1, <1>2, RemaindersDiffer
<1>4. QED
    BY <1>2, <1>3, PlaceOfPlus

(* How far apart counters are, after one of them moves. *)
LEMMA Distances ==
    ASSUME NEW i \in Index, NEW j \in Index
    PROVE  /\ Minus(i, j) \in Index /\ Minus(i, i) = 0 /\ i = Plus(j, Minus(i, j))
           /\ Minus(i, j) = 0 => i = j
           /\ Minus(i, j) + 1 < WRAP => Minus(Plus(i, 1), j) = Minus(i, j) + 1
           /\ i # j => Minus(i, Plus(j, 1)) = Minus(i, j) - 1
           /\ \A n \in 0..Minus(i, j) : Minus(Minus(i, n), j) = Minus(i, j) - n
<1>1. WRAP \in Nat /\ WRAP > 0 /\ 1 \in 0..WRAP /\ i \in Nat /\ j \in Nat /\ i < WRAP /\ j < WRAP
    BY ConsoleAssumption DEF Index
<1>2. \A n \in 0..WRAP, x \in Index :
         /\ Plus(x, n) = IF x + n < WRAP THEN x + n ELSE x + n - WRAP
         /\ Minus(x, n) = IF x >= n THEN x - n ELSE x + WRAP - n
    BY Counting
<1>3. Minus(i, j) = IF i >= j THEN i - j ELSE i + WRAP - j
    BY <1>1, <1>2
<1>4. Minus(i, j) \in Index /\ Minus(i, i) = 0 /\ (Minus(i, j) = 0 => i = j)
    BY <1>1, <1>2, <1>3 DEF Index
<1>5. i = Plus(j, Minus(i, j))
    <2>1. Minus(i, j) \in 0..WRAP
        BY <1>1, <1>4 DEF Index
    <2>2. QED
        BY <1>1, <1>2, <1>3, <2>1
<1>6. ASSUME Minus(i, j) + 1 < WRAP PROVE Minus(Plus(i, 1), j) = Minus(i, j) + 1
    <2>1. Plus(i, 1) = (IF i + 1 < WRAP THEN i + 1 ELSE i + 1 - WRAP) /\ Plus(i, 1) \in Index
        BY <1>1, Counting
    <2>2. j \in 0..WRAP
        BY <1>1
    <2>3. Minus(Plus(i, 1), j) = IF Plus(i, 1) >= j THEN Plus(i, 1) - j ELSE Plus(i, 1) + WRAP - j
        BY <2>1, <2>2, Counting
    <2>4. QED
        BY <1>1, <1>3, <1>6, <2>1, <2>3
<1>7. ASSUME i # j PROVE Minus(i, Plus(j, 1)) = Minus(i, j) - 1
    <2>1. Plus(j, 1) = (IF j + 1 < WRAP THEN j + 1 ELSE j + 1 - WRAP) /\ Plus(j, 1) \in Index
        BY <1>1, Counting
    <2>2. Plus(j, 1) \in 0..WRAP
        BY <1>1, <2>1 DEF Index
    <2>3. Minus(i, Plus(j, 1)) = IF i >= Plus(j, 1) THEN i - Plus(j, 1) ELSE i + WRAP - Plus(j, 1)
        BY <2>2, Counting
    <2>4. QED
        BY <1>1, <1>3, <1>7, <2>1, <2>3
<1>8. ASSUME NEW n \in 0..Minus(i, j) PROVE Minus(Minus(i, n), j) = Minus(i, j) - n
    <2>1. n \in 0..WRAP /\ j \in 0..WRAP
        BY <1>1, <1>4 DEF Index
    <2>2. Minus(i, n) = (IF i >= n THEN i - n ELSE i + WRAP - n) /\ Minus(i, n) \in Index
        BY <2>1, Counting
    <2>3. Minus(Minus(i, n), j) = IF Minus(i, n) >= j THEN Minus(i, n) - j ELSE Minus(i, n) + WRAP - j
        BY <2>1, <2>2, Counting
    <2>4. QED
        BY <1>1, <1>3, <1>4, <2>1, <2>2, <2>3 DEF Index
<1>9. QED
    BY <1>4, <1>5, <1>6, <1>7, <1>8

(* Three counters in order. *)
LEMMA InOrder ==
    ASSUME NEW i \in Index, NEW j \in Index, NEW k \in Index, Minus(j, i) <= Minus(k, i)
    PROVE  Minus(k, i) = Minus(j, i) + Minus(k, j)
<1>1. WRAP \in Nat /\ i \in 0..WRAP /\ j \in 0..WRAP /\ i < WRAP /\ j < WRAP
    BY ConsoleAssumption DEF Index
<1>2. /\ Minus(j, i) = IF j >= i THEN j - i ELSE j + WRAP - i
      /\ Minus(k, i) = IF k >= i THEN k - i ELSE k + WRAP - i
      /\ Minus(k, j) = IF k >= j THEN k - j ELSE k + WRAP - j
    BY <1>1, Counting
<1>3. QED
    BY <1>1, <1>2 DEF Index

-----------------------------------------------------------------------------
(* The ring as a sequence *)

(* n characters of a ring b from the counter i on. *)
RingOf(b, i, n) == [k \in 1..n |-> b[Plus(i, k - 1) % INPUT_BUF]]

Rings == [0..(INPUT_BUF - 1) -> Chars]

LEMMA RingIsSeq ==
    ASSUME NEW b \in Rings, NEW i \in Index, NEW n \in 0..INPUT_BUF
    PROVE  /\ RingOf(b, i, n) \in Seq(Chars) /\ Len(RingOf(b, i, n)) = n
           /\ \A k \in 1..n : /\ RingOf(b, i, n)[k] = b[Plus(i, k - 1) % INPUT_BUF]
                              /\ Plus(i, k - 1) \in Index
           /\ n = 0 => RingOf(b, i, n) = <<>>
<1>1. /\ WRAP \in Nat /\ INPUT_BUF \in Nat \ {0} /\ WRAP > INPUT_BUF
    BY ConsoleAssumption
<1>2. ASSUME NEW k \in 1..n PROVE Plus(i, k - 1) \in Index /\ b[Plus(i, k - 1) % INPUT_BUF] \in Chars
    <2>1. k - 1 \in 0..WRAP
        BY <1>1
    <2>2. Plus(i, k - 1) \in Index
        BY <2>1, Counting
    <2>3. Plus(i, k - 1) % INPUT_BUF \in 0..(INPUT_BUF - 1)
        BY <1>1, <2>2 DEF Index
    <2>4. QED
        BY <2>2, <2>3 DEF Rings
<1>3. RingOf(b, i, n) \in [1..n -> Chars]
    BY <1>2 DEF RingOf
<1>4. n \in Nat
    BY <1>1
<1>5. RingOf(b, i, n) \in Seq(Chars) /\ Len(RingOf(b, i, n)) = n
    BY <1>3, <1>4
<1>6. QED
    BY <1>2, <1>5, EmptySeq DEF RingOf

(* What a place outside of it holds does not change a part of the ring. *)
LEMMA RingKept ==
    ASSUME NEW b \in Rings, NEW i \in Index, NEW n \in 0..(INPUT_BUF - 1), NEW m \in 0..n,
           NEW c \in Chars
    PROVE  /\ [b EXCEPT ![Plus(i, n) % INPUT_BUF] = c] \in Rings
           /\ RingOf([b EXCEPT ![Plus(i, n) % INPUT_BUF] = c], i, m) = RingOf(b, i, m)
<1>1. /\ WRAP \in Nat /\ INPUT_BUF \in Nat \ {0} /\ WRAP > INPUT_BUF
    BY ConsoleAssumption
<1> DEFINE a == Plus(i, n) % INPUT_BUF
           d == [b EXCEPT ![a] = c]
<1>2. d \in Rings
    BY DEF Rings
<1>3. ASSUME NEW k \in 1..m PROVE d[Plus(i, k - 1) % INPUT_BUF] = b[Plus(i, k - 1) % INPUT_BUF]
    <2>1. k - 1 \in 0..(n - 1)
        BY <1>1
    <2>2. Plus(i, k - 1) % INPUT_BUF # a
        BY <2>1, PlacesDiffer
    <2>3. k - 1 \in 0..WRAP
        BY <1>1
    <2>4. Plus(i, k - 1) \in Index
        BY <2>3, Counting
    <2>5. Plus(i, k - 1) % INPUT_BUF \in 0..(INPUT_BUF - 1)
        BY <1>1, <2>4 DEF Index
    <2>6. QED
        BY <2>2, <2>5 DEF Rings
<1>4. RingOf(d, i, m) = RingOf(b, i, m)
    BY <1>3 DEF RingOf
<1>5. QED
    BY <1>2, <1>4

(* A character after the last one. *)
LEMMA RingAppend ==
    ASSUME NEW b \in Rings, NEW i \in Index, NEW n \in 0..(INPUT_BUF - 1), NEW c \in Chars
    PROVE  RingOf([b EXCEPT ![Plus(i, n) % INPUT_BUF] = c], i, n + 1) = Append(RingOf(b, i, n), c)
<1>1. /\ WRAP \in Nat /\ INPUT_BUF \in Nat \ {0} /\ WRAP > INPUT_BUF
    BY ConsoleAssumption
<1> DEFINE a == Plus(i, n) % INPUT_BUF
           d == [b EXCEPT ![a] = c]
           s == RingOf(b, i, n)
           t == RingOf(d, i, n + 1)
<1>2. d \in Rings /\ RingOf(d, i, n) = s
    BY <1>1, RingKept
<1>3. n \in 0..INPUT_BUF /\ n + 1 \in 0..INPUT_BUF /\ n \in 0..WRAP
    BY <1>1
<1>4. s \in Seq(Chars) /\ Len(s) = n
    BY <1>3, RingIsSeq
<1>5. /\ t \in Seq(Chars) /\ Len(t) = n + 1
      /\ \A k \in 1..(n + 1) : t[k] = d[Plus(i, k - 1) % INPUT_BUF]
    BY <1>2, <1>3, RingIsSeq
<1>6. a \in 0..(INPUT_BUF - 1)
    <2>1. Plus(i, n) \in Index
        BY <1>3, Counting
    <2>2. QED
        BY <1>1, <2>1 DEF Index
<1>7. \A k \in 1..n : t[k] = s[k]
    <2>1. \A k \in 1..n : RingOf(d, i, n)[k] = d[Plus(i, k - 1) % INPUT_BUF]
        BY <1>2, <1>3, RingIsSeq
    <2>2. \A k \in 1..n : s[k] = d[Plus(i, k - 1) % INPUT_BUF]
        BY <1>2, <2>1
    <2> HIDE DEF s, t, d
    <2>3. QED
        BY <1>3, <1>5, <2>2
<1>8. t[n + 1] = c
    <2>1. t[n + 1] = d[Plus(i, (n + 1) - 1) % INPUT_BUF]
        <3> HIDE DEF t, d
        <3>1. QED
            BY <1>3, <1>5
    <2>2. (n + 1) - 1 = n
        BY <1>1
    <2>3. t[n + 1] = d[a]
        BY <2>1, <2>2
    <2> HIDE DEF a, t
    <2>4. QED
        BY <1>6, <2>3 DEF Rings
<1> HIDE DEF a, d, s, t
<1>9. t = Append(s, c)
    <2>1. Append(s, c) \in Seq(Chars) /\ Len(Append(s, c)) = n + 1
        BY <1>4, AppendProperties
    <2>2. \A k \in 1..(n + 1) : t[k] = Append(s, c)[k]
        BY <1>1, <1>3, <1>4, <1>7, <1>8, AppendProperties
    <2>3. QED
        BY <1>5, <2>1, <2>2, SeqEqual
<1>10. QED
    BY <1>9 DEF a, d, s, t

(* Two parts of the ring that follow each other. *)
LEMMA RingSplit ==
    ASSUME NEW b \in Rings, NEW i \in Index, NEW m \in Nat, NEW n \in Nat, m + n <= INPUT_BUF
    PROVE  RingOf(b, i, m + n) = RingOf(b, i, m) \o RingOf(b, Plus(i, m), n)
<1>1. /\ WRAP \in Nat /\ INPUT_BUF \in Nat \ {0} /\ WRAP > INPUT_BUF
    BY ConsoleAssumption
<1> DEFINE j == Plus(i, m)
           s == RingOf(b, i, m)
           t == RingOf(b, j, n)
           u == RingOf(b, i, m + n)
<1>2. /\ m \in 0..INPUT_BUF /\ n \in 0..INPUT_BUF /\ m + n \in 0..INPUT_BUF /\ m \in 0..WRAP
    BY <1>1
<1>3. j \in Index
    BY <1>2, Counting
<1>4. /\ s \in Seq(Chars) /\ Len(s) = m /\ t \in Seq(Chars) /\ Len(t) = n
      /\ u \in Seq(Chars) /\ Len(u) = m + n
    BY <1>2, <1>3, RingIsSeq
<1>5. s \o t \in Seq(Chars) /\ Len(s \o t) = m + n
    BY <1>4, ConcatProperties
<1>6. ASSUME NEW k \in 1..(m + n) PROVE u[k] = (s \o t)[k]
    <2>1. u[k] = b[Plus(i, k - 1) % INPUT_BUF]
        BY <1>2, RingIsSeq
    <2>2. (s \o t)[k] = IF k <= m THEN s[k] ELSE t[k - m]
        <3> HIDE DEF s, t
        <3>1. QED
            BY <1>4, ConcatProperties
    <2>3. CASE k <= m
        <3>1. k \in 1..m
            BY <1>2, <2>3
        <3>2. s[k] = b[Plus(i, k - 1) % INPUT_BUF]
            BY <1>2, <3>1, RingIsSeq
        <3>3. QED
            BY <2>1, <2>2, <2>3, <3>2
    <2>4. CASE k > m
        <3>1. k - m \in 1..n /\ k - 1 \in 0..WRAP /\ k - m - 1 \in 0..WRAP
            BY <1>1, <1>2, <2>4
        <3>2. t[k - m] = b[Plus(j, (k - m) - 1) % INPUT_BUF]
            BY <1>2, <1>3, <3>1, RingIsSeq
        <3>3. Plus(j, (k - m) - 1) = Plus(i, k - 1)
            <4>1. j = IF i + m < WRAP THEN i + m ELSE i + m - WRAP
                BY <1>2, Counting
            <4>2. Plus(i, k - 1) = IF i + (k - 1) < WRAP THEN i + (k - 1) ELSE i + (k - 1) - WRAP
                BY <3>1, Counting
            <4>3. Plus(j, k - m - 1) = IF j + (k - m - 1) < WRAP THEN j + (k - m - 1)
                                       ELSE j + (k - m - 1) - WRAP
                BY <1>3, <3>1, Counting
            <4> HIDE DEF j
            <4>4. i \in Nat /\ k \in Nat /\ k > m
                BY <1>1, <2>4 DEF Index
            <4>5. j + (k - m - 1) = IF i + m < WRAP THEN i + (k - 1) ELSE i + (k - 1) - WRAP
                BY <1>1, <4>1, <4>4
            <4>6. CASE i + m < WRAP
                <5>1. j + (k - m - 1) = i + (k - 1)
                    BY <4>5, <4>6
                <5>2. QED
                    BY <1>1, <1>3, <4>2, <4>3, <4>4, <5>1, SMT DEF Index
            <4>7. CASE ~(i + m < WRAP)
                <5>1. j + (k - m - 1) = i + (k - 1) - WRAP
                    BY <4>5, <4>7
                <5>2. ~(i + (k - 1) < WRAP) /\ i + (k - 1) - WRAP < WRAP
                    BY <1>1, <3>1, <4>4, <4>7 DEF Index
                <5>3. QED
                    BY <4>2, <4>3, <5>1, <5>2
            <4>8. QED
                BY <4>6, <4>7
        <3>4. QED
            BY <1>2, <2>1, <2>2, <2>4, <3>2, <3>3
    <2>5. k <= m \/ k > m
        BY <1>2
    <2> HIDE DEF s, t, u
    <2>6. QED
        BY <2>3, <2>4, <2>5
<1> HIDE DEF j, s, t, u
<1>7. u = s \o t
    BY <1>4, <1>5, <1>6, SeqEqual
<1>8. QED
    BY <1>7 DEF j, s, t, u

(* The first character, and what follows it. *)
LEMMA RingTail ==
    ASSUME NEW b \in Rings, NEW i \in Index, NEW n \in 1..INPUT_BUF
    PROVE  /\ RingOf(b, i, n) # <<>> /\ Head(RingOf(b, i, n)) = b[i % INPUT_BUF]
           /\ Tail(RingOf(b, i, n)) = RingOf(b, Plus(i, 1), n - 1)
<1>1. /\ WRAP \in Nat /\ INPUT_BUF \in Nat \ {0} /\ WRAP > INPUT_BUF
    BY ConsoleAssumption
<1> DEFINE s == RingOf(b, i, 1)
           t == RingOf(b, Plus(i, 1), n - 1)
           u == RingOf(b, i, n)
<1>2. /\ 1 \in 0..INPUT_BUF /\ n - 1 \in 0..INPUT_BUF /\ n \in 0..INPUT_BUF /\ 1 \in 0..WRAP
      /\ n - 1 \in Nat /\ 1 + (n - 1) = n /\ 0 \in 0..WRAP
    BY <1>1
<1>3. Plus(i, 1) \in Index /\ Plus(i, 0) = i
    <2>1. Plus(i, 1) \in Index
        BY <1>2, Counting
    <2>2. Plus(i, 0) = IF i + 0 < WRAP THEN i + 0 ELSE i + 0 - WRAP
        BY <1>2, Counting
    <2>3. QED
        BY <1>1, <2>1, <2>2 DEF Index
<1>4. /\ s \in Seq(Chars) /\ Len(s) = 1 /\ t \in Seq(Chars) /\ Len(t) = n - 1
      /\ u \in Seq(Chars) /\ Len(u) = n /\ s[1] = b[Plus(i, 1 - 1) % INPUT_BUF]
    <2>1. s \in Seq(Chars) /\ Len(s) = 1 /\ \A k \in 1..1 : s[k] = b[Plus(i, k - 1) % INPUT_BUF]
        BY <1>2, RingIsSeq
    <2>2. t \in Seq(Chars) /\ Len(t) = n - 1
        BY <1>2, <1>3, RingIsSeq
    <2>3. u \in Seq(Chars) /\ Len(u) = n
        BY <1>2, RingIsSeq
    <2> HIDE DEF s, t, u
    <2>4. QED
        BY <2>1, <2>2, <2>3
<1>5. RingOf(b, i, 1 + (n - 1)) = s \o t
    BY <1>2, RingSplit
<1>6. u = s \o t
    BY <1>2, <1>5
<1>7. s[1] = b[i % INPUT_BUF]
    BY <1>3, <1>4
<1> HIDE DEF s, t, u
<1>8. u # <<>>
    BY <1>4
<1>9. Head(u) = s[1]
    <2>1. u[1] = s[1]
        BY <1>4, <1>6, ConcatProperties
    <2>2. QED
        BY <1>4, <1>8, <2>1
<1>10. Tail(u) = t
    <2>1. Tail(u) \in Seq(Chars) /\ Len(Tail(u)) = n - 1
        BY <1>4, <1>8, HeadTailProperties
    <2>2. ASSUME NEW k \in 1..(n - 1) PROVE Tail(u)[k] = t[k]
        <3>1. Tail(u)[k] = u[k + 1]
            BY <1>4, <1>8, <2>1, HeadTailProperties
        <3>2. u[k + 1] = t[(k + 1) - 1]
            BY <1>2, <1>4, <1>6, ConcatProperties
        <3>3. (k + 1) - 1 = k
            BY <1>2
        <3>4. QED
            BY <3>1, <3>2, <3>3
    <2>3. QED
        BY <1>4, <2>1, <2>2, SeqEqual
<1>11. QED
    BY <1>7, <1>8, <1>9, <1>10 DEF s, t, u

(* Without its last character. *)
LEMMA RingFront ==
    ASSUME NEW b \in Rings, NEW i \in Index, NEW n \in 1..INPUT_BUF
    PROVE  SubSeq(RingOf(b, i, n), 1, n - 1) = RingOf(b, i, n - 1)
<1>1. INPUT_BUF \in Nat \ {0}
    BY ConsoleAssumption
<1> DEFINE s == RingOf(b, i, n)
           t == RingOf(b, i, n - 1)
<1>2. n \in 0..INPUT_BUF /\ n - 1 \in 0..INPUT_BUF
    BY <1>1
<1>3. /\ s \in Seq(Chars) /\ Len(s) = n /\ t \in Seq(Chars) /\ Len(t) = n - 1
      /\ \A k \in 1..n : s[k] = b[Plus(i, k - 1) % INPUT_BUF]
      /\ \A k \in 1..(n - 1) : t[k] = b[Plus(i, k - 1) % INPUT_BUF]
    BY <1>2, RingIsSeq
<1>4. \A k \in 1..(n - 1) : s[k] = t[k] /\ s[k] \in Chars
    BY <1>2, <1>3, ElementOfSeq
<1> HIDE DEF s, t
<1>5. /\ SubSeq(s, 1, n - 1) \in Seq(Chars) /\ Len(SubSeq(s, 1, n - 1)) = n - 1
      /\ \A k \in 1..(n - 1) : SubSeq(s, 1, n - 1)[k] = s[k]
    BY <1>2, <1>4, SubSeqProperties
<1>6. SubSeq(s, 1, n - 1) = t
    BY <1>3, <1>4, <1>5, SeqEqual
<1>7. QED
    BY <1>6 DEF s, t

-----------------------------------------------------------------------------
(* The invariant *)

LEMMA InitConsoleInv == Init => ConsoleInv
<1> SUFFICES ASSUME Init PROVE ConsoleInv
    OBVIOUS
<1>1. WRAP \in Nat /\ WRAP > 0 /\ 0 \in Index /\ INPUT_BUF \in Nat \ {0}
    BY ConsoleAssumption DEF Index
<1>2. Minus(0, 0) = 0
    BY <1>1, Distances
<1>3. buf \in [0..(INPUT_BUF - 1) -> Chars]
    <2>1. (CHOOSE c \in Letters : TRUE) \in Letters
        BY ConsoleAssumption
    <2>2. QED
        BY <2>1 DEF Init, Chars
<1>4. NoRead \in [want : 0..INPUT_BUF, got : Seq(Chars), eof : BOOLEAN]
    BY <1>1 DEF NoRead
<1>5. TypeOK
    BY <1>1, <1>3, <1>4 DEF Init, TypeOK, Index
<1>6. IndicesInOrder /\ EditHasNoLine
    BY <1>1, <1>2 DEF Init, IndicesInOrder, EditHasNoLine
<1>7. SleepersHaveNothing /\ ConslockExcludes /\ ReadsUnderWay
    BY DEF Init, SleepersHaveNothing, ConslockExcludes, ReadsUnderWay
<1>8. QED
    BY <1>5, <1>6, <1>7 DEF ConsoleInv

(* The parts of the invariant that are about the ring alone. *)
RingInv == buf \in Rings /\ {r, w, e} \subseteq Index /\ IndicesInOrder /\ EditHasNoLine

(* What the interrupt does to the ring. *)
LEMMA InsertRing ==
    ASSUME RingInv, NEW c \in Cpus, NEW ch \in Chars, Insert(c, ch)
    PROVE  /\ RingInv'
           /\ Minus(e, r) \in 0..(INPUT_BUF - 1) /\ Minus(e', r) = Minus(e, r) + 1
           /\ Minus(e, w) \in 0..(INPUT_BUF - 1) /\ Minus(e', w) = Minus(e, w) + 1
           /\ buf' = [buf EXCEPT ![Plus(r, Minus(e, r)) % INPUT_BUF] = ch]
           /\ buf' = [buf EXCEPT ![Plus(w, Minus(e, w)) % INPUT_BUF] = ch]
           /\ (e' = Plus(r, INPUT_BUF)) <=> (Minus(e, r) + 1 = INPUT_BUF)
<1>1. WRAP \in Nat /\ INPUT_BUF \in Nat \ {0} /\ WRAP > INPUT_BUF /\ 1 \in 0..WRAP /\ INPUT_BUF \in 0..WRAP
    BY ConsoleAssumption
<1>2. r \in Index /\ w \in Index /\ e \in Index /\ r' = r /\ e' = Plus(e, 1) /\ e' \in Index
    BY <1>1, Counting DEF RingInv, Insert
<1>3. /\ Minus(e, r) \in Index /\ Minus(w, r) \in Index /\ Minus(e, w) \in Index
      /\ Minus(e, r) = Minus(w, r) + Minus(e, w)
    BY <1>2, Distances, InOrder DEF RingInv, IndicesInOrder
<1>4. Minus(e, r) \in 0..(INPUT_BUF - 1) /\ Minus(e, w) \in 0..(INPUT_BUF - 1) /\ Minus(e, w) <= Minus(e, r)
    BY <1>1, <1>3 DEF Insert, Index
<1>5. Minus(e', r) = Minus(e, r) + 1 /\ Minus(e', w) = Minus(e, w) + 1
    BY <1>1, <1>2, <1>4, Distances
<1>6. e = Plus(r, Minus(e, r)) /\ e = Plus(w, Minus(e, w))
    BY <1>2, Distances
<1>7. /\ buf' = [buf EXCEPT ![Plus(r, Minus(e, r)) % INPUT_BUF] = ch]
      /\ buf' = [buf EXCEPT ![Plus(w, Minus(e, w)) % INPUT_BUF] = ch]
    BY <1>6 DEF Insert
<1>8. buf' \in Rings
    BY DEF RingInv, Rings, Insert
<1>9. (e' = Plus(r, INPUT_BUF)) <=> (Minus(e, r) + 1 = INPUT_BUF)
    <2>1. Plus(r, INPUT_BUF) = IF r + INPUT_BUF < WRAP THEN r + INPUT_BUF ELSE r + INPUT_BUF - WRAP
        BY <1>1, <1>2, Counting
    <2>2. e' = IF e + 1 < WRAP THEN e + 1 ELSE e + 1 - WRAP
        BY <1>1, <1>2, Counting
    <2>3. Minus(e, r) = IF e >= r THEN e - r ELSE e + WRAP - r
        <3>1. r \in 0..WRAP
            BY <1>1, <1>2 DEF Index
        <3>2. QED
            BY <1>2, <3>1, Counting
    <2>4. QED
        BY <1>1, <1>2, <1>4, <2>1, <2>2, <2>3 DEF Index
<1>10. CASE ch \in {NL, EOF} \/ e' = Plus(r, INPUT_BUF)
    <2>1. w' = e'
        BY <1>10 DEF Insert
    <2>2. Minus(w', r') = Minus(e', r') /\ Minus(e', r') <= INPUT_BUF /\ Minus(e', w') = 0
        BY <1>1, <1>2, <1>4, <1>5, <2>1, Distances
    <2>3. IndicesInOrder' /\ EditHasNoLine'
        BY <1>1, <1>2, <1>4, <1>5, <2>2 DEF IndicesInOrder, EditHasNoLine
    <2>4. QED
        BY <1>2, <1>4, <1>5, <1>7, <1>8, <1>9, <2>1, <2>3 DEF RingInv
<1>11. CASE ~(ch \in {NL, EOF} \/ e' = Plus(r, INPUT_BUF))
    <2>1. w' = w /\ ch # NL
        BY <1>11 DEF Insert
    <2>2. IndicesInOrder'
        BY <1>1, <1>2, <1>3, <1>4, <1>5, <2>1 DEF IndicesInOrder, RingInv, Index
    <2>3. ASSUME NEW k \in 0..(Minus(e', w') - 1) PROVE buf'[Plus(w, k) % INPUT_BUF] # NL
        <3>1. k \in 0..Minus(e, w) /\ k \in 0..WRAP
            BY <1>1, <1>4, <1>5, <2>1
        <3>2. Plus(w, k) \in Index
            BY <1>2, <3>1, Counting
        <3>3. Plus(w, k) % INPUT_BUF \in 0..(INPUT_BUF - 1)
            BY <1>1, <3>2 DEF Index
        <3>4. CASE k = Minus(e, w)
            BY <1>7, <2>1, <3>3, <3>4 DEF RingInv, Rings
        <3>5. CASE k # Minus(e, w)
            <4>1. k \in 0..(Minus(e, w) - 1)
                BY <1>4, <3>1, <3>5
            <4>2. Plus(w, k) % INPUT_BUF # Plus(w, Minus(e, w)) % INPUT_BUF
                BY <1>2, <1>4, <4>1, PlacesDiffer
            <4>3. buf[Plus(w, k) % INPUT_BUF] # NL
                BY <4>1 DEF RingInv, EditHasNoLine, At
            <4>4. QED
                BY <1>7, <3>3, <4>2, <4>3 DEF RingInv, Rings
        <3>6. QED
            BY <3>4, <3>5
    <2>4. EditHasNoLine'
        BY <2>1, <2>3 DEF EditHasNoLine, At
    <2>5. QED
        BY <1>2, <1>4, <1>5, <1>7, <1>8, <1>9, <2>1, <2>2, <2>4 DEF RingInv
<1>12. QED
    BY <1>10, <1>11

(* ^H and ^U take something off the end that is still edited, ^U all of it. *)
LEMMA EraseRing ==
    ASSUME RingInv, NEW c \in Cpus, Backspace(c) \/ KillLine(c)
    PROVE  /\ RingInv' /\ UNCHANGED <<buf, r, w, pc, rd>>
           /\ Backspace(c) => Minus(e, w) \in 1..INPUT_BUF /\ Minus(e', w) = Minus(e, w) - 1
           /\ KillLine(c) => Minus(e', w) = 0
<1>1. WRAP \in Nat /\ INPUT_BUF \in Nat \ {0} /\ WRAP > INPUT_BUF /\ 1 \in 0..WRAP
    BY ConsoleAssumption
<1>2. r \in Index /\ w \in Index /\ e \in Index
    BY DEF RingInv
<1>3. UNCHANGED <<buf, r, w, pc, rd>>
    BY DEF Backspace, KillLine
<1>4. /\ Minus(e, r) \in Index /\ Minus(w, r) \in Index /\ Minus(e, w) \in Index
      /\ Minus(e, r) = Minus(w, r) + Minus(e, w) /\ Minus(e, r) <= INPUT_BUF
    BY <1>2, Distances, InOrder DEF RingInv, IndicesInOrder
\* n characters are erased.
<1>5. ASSUME NEW n \in 0..Minus(e, w), e' = Minus(e, n) PROVE RingInv' /\ Minus(e', w) = Minus(e, w) - n
    <2>1. n \in 0..WRAP /\ n \in 0..Minus(e, r)
        BY <1>1, <1>4 DEF Index
    <2>2. e' \in Index
        BY <1>2, <1>5, <2>1, Counting
    <2>3. Minus(e', w) = Minus(e, w) - n /\ Minus(e', r) = Minus(e, r) - n
        BY <1>2, <1>5, <2>1, Distances
    <2>4. IndicesInOrder'
        BY <1>1, <1>3, <1>4, <2>1, <2>3 DEF IndicesInOrder, Index
    <2>5. EditHasNoLine'
        BY <1>1, <1>3, <1>4, <2>1, <2>3 DEF EditHasNoLine, At, RingInv, Index
    <2>6. QED
        BY <1>3, <2>2, <2>3, <2>4, <2>5 DEF RingInv
<1>6. ASSUME Backspace(c)
      PROVE  RingInv' /\ Minus(e, w) \in 1..INPUT_BUF /\ Minus(e', w) = Minus(e, w) - 1
    <2>1. e # w /\ e' = Minus(e, 1)
        BY <1>6 DEF Backspace
    <2>2. Minus(e, w) # 0
        BY <1>2, <2>1, Distances
    <2>3. 1 \in 0..Minus(e, w) /\ Minus(e, w) \in 1..INPUT_BUF
        BY <1>1, <1>4, <2>2 DEF Index
    <2>4. QED
        BY <1>5, <2>1, <2>3
<1>7. ASSUME KillLine(c) PROVE RingInv' /\ Minus(e', w) = 0
    <2>1. PICK n \in 0..Minus(e, w) : /\ n = Minus(e, w) \/ At(Minus(e, n + 1)) = NL
                                     /\ e' = Minus(e, n)
        BY <1>7 DEF KillLine
    <2>2. RingInv' /\ Minus(e', w) = Minus(e, w) - n
        BY <1>5, <2>1
    <2>3. ASSUME n # Minus(e, w) PROVE FALSE
        <3>1. /\ n + 1 \in 0..Minus(e, w) /\ n + 1 \in 0..WRAP
              /\ Minus(e, w) - (n + 1) \in 0..(Minus(e, w) - 1)
            BY <1>1, <1>4, <2>3 DEF Index
        <3>2. Minus(e, n + 1) \in Index
            BY <1>2, <3>1, Counting
        <3>3. Minus(Minus(e, n + 1), w) = Minus(e, w) - (n + 1)
            BY <1>2, <3>1, Distances
        <3>4. Minus(e, n + 1) = Plus(w, Minus(e, w) - (n + 1))
            BY <1>2, <3>2, <3>3, Distances
        <3>5. At(Minus(e, n + 1)) # NL
            BY <3>1, <3>4 DEF RingInv, EditHasNoLine
        <3>6. QED
            BY <2>1, <2>3, <3>5
    <2>4. QED
        BY <1>4, <2>2, <2>3 DEF Index
<1>8. QED
    BY <1>3, <1>6, <1>7

(* console_read() takes a character. *)
LEMMA TakeRing ==
    ASSUME RingInv, NEW p \in Procs, Take(p)
    PROVE  /\ RingInv' /\ Minus(w, r) \in 1..INPUT_BUF /\ At(r) \in Chars
           /\ UNCHANGED <<buf, w, e, pc>>
           /\ r' \in {r, Plus(r, 1)} /\ Minus(w, Plus(r, 1)) = Minus(w, r) - 1
<1>1. WRAP \in Nat /\ INPUT_BUF \in Nat \ {0} /\ WRAP > INPUT_BUF /\ 1 \in 0..WRAP
    BY ConsoleAssumption
<1>2. r \in Index /\ w \in Index /\ e \in Index /\ Plus(r, 1) \in Index
    BY <1>1, Counting DEF RingInv
<1>3. UNCHANGED <<buf, w, e, pc>> /\ r # w /\ r' \in {r, Plus(r, 1)}
    BY DEF Take
<1>4. /\ Minus(e, r) \in Index /\ Minus(w, r) \in Index
      /\ Minus(w, r) <= Minus(e, r) /\ Minus(e, r) <= INPUT_BUF /\ Minus(w, r) # 0
    BY <1>2, <1>3, Distances DEF RingInv, IndicesInOrder
<1>5. e # r
    <2>1. Minus(r, r) = 0
        BY <1>2, Distances
    <2>2. QED
        BY <1>1, <1>4, <2>1 DEF Index
<1>6. Minus(w, Plus(r, 1)) = Minus(w, r) - 1 /\ Minus(e, Plus(r, 1)) = Minus(e, r) - 1
    BY <1>2, <1>3, <1>5, Distances
<1>7. IndicesInOrder' /\ EditHasNoLine'
    <2>1. CASE r' = r
        BY <1>3, <2>1 DEF RingInv, IndicesInOrder, EditHasNoLine, At
    <2>2. CASE r' = Plus(r, 1)
        BY <1>1, <1>3, <1>4, <1>6, <2>2 DEF RingInv, IndicesInOrder, EditHasNoLine, At, Index
    <2>3. QED
        BY <1>3, <2>1, <2>2
<1>8. At(r) \in Chars
    <2>1. r % INPUT_BUF \in 0..(INPUT_BUF - 1)
        BY <1>1, <1>2 DEF Index
    <2>2. QED
        BY <2>1 DEF At, RingInv, Rings
<1>9. Minus(w, r) \in 1..INPUT_BUF
    BY <1>1, <1>4 DEF Index
<1>10. QED
    BY <1>2, <1>3, <1>6, <1>7, <1>8, <1>9 DEF RingInv

(* Every other step leaves the ring alone. *)
LEMMA NextRing ==
    ASSUME RingInv, [Next]_vars
    PROVE  RingInv'
<1>1. ASSUME UNCHANGED input PROVE RingInv'
    BY <1>1 DEF RingInv, input, IndicesInOrder, EditHasNoLine, At
<1>2. ASSUME NEW p \in Procs, Ilock(p) \/ ProcStep(p) PROVE RingInv'
    <2>1. CASE Take(p)
        BY <2>1, TakeRing
    <2>2. CASE ~Take(p)
        BY <1>1, <1>2, <2>2
        DEF ProcStep, Ilock, Read, Write, Acquire, Put, Sleep, ReadDone, Return, input
    <2>3. QED
        BY <2>1, <2>2
<1>3. ASSUME NEW c \in Cpus, Intr(c) \/ IntrLeave(c) \/ Message(c) \/ PutMessage(c) \/ Panic(c)
      PROVE  RingInv'
    <2>1. CASE \E ch \in Chars : Insert(c, ch)
        BY <2>1, InsertRing
    <2>2. CASE Backspace(c) \/ KillLine(c)
        BY <2>2, EraseRing
    <2>3. CASE IntrEnter(c) \/ IntrLeave(c) \/ Message(c) \/ PutMessage(c) \/ Panic(c)
        BY <1>1, <2>3 DEF IntrEnter, IntrLeave, Message, PutMessage, Panic, input
    <2>4. QED
        BY <1>3, <2>1, <2>2, <2>3 DEF Intr
<1>4. CASE UNCHANGED vars
    BY <1>1, <1>4 DEF vars, input
<1>5. QED
    BY <1>2, <1>3, <1>4 DEF Next

Record == [want : 0..INPUT_BUF, got : Seq(Chars), eof : BOOLEAN]

(* The arguments and results of a console_read() keep their types. *)
LEMMA RecordUpdates ==
    ASSUME NEW x \in Record, NEW n \in 1..INPUT_BUF, NEW ch \in Chars
    PROVE  /\ [x EXCEPT !.want = n] \in Record /\ [x EXCEPT !.want = n].want > 0
           /\ [x EXCEPT !.eof = TRUE] \in Record /\ [x EXCEPT !.eof = TRUE].want = x.want
           /\ [x EXCEPT !.got = Append(@, ch)] \in Record
           /\ [x EXCEPT !.got = Append(@, ch)].want = x.want
<1>1. INPUT_BUF \in Nat
    BY ConsoleAssumption
<1>2. x.got \in Seq(Chars) /\ Append(x.got, ch) \in Seq(Chars)
    BY AppendProperties DEF Record
<1>3. [x EXCEPT !.want = n] \in Record /\ [x EXCEPT !.want = n].want > 0
    BY <1>1 DEF Record
<1>4. [x EXCEPT !.eof = TRUE] \in Record /\ [x EXCEPT !.eof = TRUE].want = x.want
    BY DEF Record
<1>5. ASSUME NEW y \in Seq(Chars)
      PROVE  [x EXCEPT !.got = y] \in Record /\ [x EXCEPT !.got = y].want = x.want
    BY DEF Record
<1>6. QED
    BY <1>2, <1>3, <1>4, <1>5

LEMMA NextConsoleInv == ConsoleInv /\ [Next]_vars => ConsoleInv'
<1> SUFFICES ASSUME ConsoleInv, [Next]_vars PROVE ConsoleInv'
    OBVIOUS
<1> USE DEF ConsoleInv
<1>1. RingInv
    BY DEF RingInv, Rings, Index, TypeOK
<1>2. RingInv'
    BY <1>1, NextRing
<1>3. /\ NONE \notin Procs \cup Cpus /\ Procs \cap Cpus = {} /\ INPUT_BUF \in Nat \ {0}
    BY ConsoleAssumption
<1>4. SUFFICES TypeOK' /\ SleepersHaveNothing' /\ ConslockExcludes' /\ ReadsUnderWay'
    BY <1>2 DEF RingInv
<1>5. SUFFICES /\ conslock' \in Procs \cup Cpus \cup {NONE} /\ ilk' \in Procs \cup {NONE}
               /\ pc' \in [Procs -> {"idle", "called", "read", "reading", "asleep", "write", "writing",
                                      "relock"}]
               /\ rd' \in [Procs -> [want : 0..INPUT_BUF, got : Seq(Chars), eof : BOOLEAN]]
               /\ cpc' \in [Cpus -> {"run", "intr", "cprintf", "stopping", "halted"}]
               /\ panicked' \in Cpus \cup {NONE}
               /\ SleepersHaveNothing' /\ ConslockExcludes' /\ ReadsUnderWay'
    BY <1>2 DEF RingInv, Rings, Index, TypeOK
<1> USE <1>3 DEF TypeOK, SleepersHaveNothing, ConslockExcludes, ReadsUnderWay, Goto, input, NoRead
<1> USE DEF Record
<1>6. CASE UNCHANGED vars
    BY <1>6 DEF vars
<1>7. CASE \E p \in Procs : Ilock(p) \/ ProcStep(p)
    <2> PICK p \in Procs : Ilock(p) \/ ProcStep(p)
        BY <1>7
    <2>1. CASE Ilock(p)
        BY <2>1 DEF Ilock
    <2>2. CASE Write(p)
        BY <2>2 DEF Write
    <2>3. CASE Acquire(p)
        BY <2>3 DEF Acquire
    <2>4. CASE Put(p)
        BY <2>4 DEF Put
    <2>5. CASE Take(p)
        <3>1. At(r) \in Chars /\ pc' = pc /\ pc[p] = "reading" /\ rd[p] \in Record /\ r # w
            BY <1>1, <2>5, TakeRing DEF Take
        <3>2. PICK x \in Record : rd' = [rd EXCEPT ![p] = x] /\ x.want = rd[p].want
            <4>1. 1 \in 1..INPUT_BUF
                OBVIOUS
            <4>2. [rd[p] EXCEPT !.eof = TRUE] \in Record
                BY <3>1
            <4>3. [rd[p] EXCEPT !.got = Append(@, At(r))] \in Record
                BY <3>1, <4>1, RecordUpdates
            <4>4. rd' \in {[rd EXCEPT ![p].eof = TRUE], [rd EXCEPT ![p].got = Append(@, At(r))]}
                BY <2>5 DEF Take
            <4>5. QED
                BY <4>2, <4>3, <4>4
        <3>3. QED
            BY <2>5, <3>1, <3>2 DEF Take
    <2>6. CASE Sleep(p)
        BY <2>6 DEF Sleep
    <2>7. CASE ReadDone(p)
        <3>1. NoRead \in Record
            OBVIOUS
        <3>2. rd' \in [Procs -> Record] /\ \A q \in Procs : rd'[q] = IF q = p THEN NoRead ELSE rd[q]
            BY <2>7, <3>1 DEF ReadDone
        <3>3. QED
            BY <2>7, <3>2 DEF ReadDone
    <2>8. CASE Return(p)
        BY <2>8 DEF Return
    <2>9. CASE \E n \in 1..INPUT_BUF : Read(p, n)
        <3>1. PICK n \in 1..INPUT_BUF : Read(p, n)
            BY <2>9
        <3> DEFINE x == [rd[p] EXCEPT !.want = n]
        <3>2. x \in Record /\ x.want > 0
            <4>1. rd[p] \in Record /\ NL \in Chars
                BY DEF Chars
            <4> HIDE DEF Record
            <4>2. QED
                BY <4>1, RecordUpdates
        <3>3. rd' = [rd EXCEPT ![p] = x]
            BY <3>1 DEF Read
        <3> HIDE DEF x
        <3>4. rd' \in [Procs -> Record] /\ \A q \in Procs : rd'[q] = IF q = p THEN x ELSE rd[q]
            BY <3>2, <3>3
        <3>5. QED
            BY <3>1, <3>2, <3>4 DEF Read
    <2>10. QED
        BY <2>1, <2>2, <2>3, <2>4, <2>5, <2>6, <2>7, <2>8, <2>9 DEF ProcStep
<1>8. CASE \E c \in Cpus : Intr(c) \/ IntrLeave(c) \/ Message(c) \/ PutMessage(c) \/ Panic(c)
    <2> PICK c \in Cpus : Intr(c) \/ IntrLeave(c) \/ Message(c) \/ PutMessage(c) \/ Panic(c)
        BY <1>8
    <2>1. CASE IntrEnter(c)
        BY <2>1 DEF IntrEnter
    <2>2. CASE Backspace(c) \/ KillLine(c)
        BY <2>2 DEF Backspace, KillLine
    <2>3. CASE \E ch \in Chars : Insert(c, ch)
        BY <2>3 DEF Insert, Awake
    <2>4. CASE IntrLeave(c)
        BY <2>4 DEF IntrLeave
    <2>5. CASE Message(c)
        BY <2>5 DEF Message
    <2>6. CASE PutMessage(c)
        BY <2>6 DEF PutMessage
    <2>7. CASE Panic(c)
        BY <2>7 DEF Panic
    <2>8. QED
        BY <2>1, <2>2, <2>3, <2>4, <2>5, <2>6, <2>7 DEF Intr
<1>9. QED
    BY <1>6, <1>7, <1>8 DEF Next

(* The indices of the ring stay in order over any number of wraps, no       *)
(* reader sleeps while there is something to read, and conslock keeps       *)
(* readers, writers, the interrupt and the kernel's messages apart.         *)
THEOREM ConsoleInvariant == Spec => []ConsoleInv
<1>1. QED
    BY InitConsoleInv, NextConsoleInv, PTL DEF Spec

-----------------------------------------------------------------------------
(* The ring is a queue of lines *)

(* The refinement mapping: what may be read, and what may still be erased. *)
LineOf == RingOf(buf, r, Minus(w, r))
EditOf == RingOf(buf, w, Minus(e, w))

LEMMA Mapping ==
    /\ Ring(r, Minus(w, r)) = LineOf /\ Ring(w, Minus(e, w)) = EditOf
    /\ Ring(r, Minus(w, r))' = LineOf' /\ Ring(w, Minus(e, w))' = EditOf'
    /\ LineOf' = RingOf(buf', r', Minus(w', r')) /\ EditOf' = RingOf(buf', w', Minus(e', w'))
BY DEF Ring, RingOf, At, LineOf, EditOf

LEMMA MappingTypes ==
    ASSUME RingInv
    PROVE  /\ LineOf \in Seq(Chars) /\ Len(LineOf) = Minus(w, r)
           /\ EditOf \in Seq(Chars) /\ Len(EditOf) = Minus(e, w)
           /\ Minus(w, r) \in 0..INPUT_BUF /\ Minus(e, w) \in 0..INPUT_BUF
           /\ Minus(e, r) = Minus(w, r) + Minus(e, w)
           /\ r \in Index /\ w \in Index /\ e \in Index /\ buf \in Rings
           /\ w = Plus(r, Minus(w, r))
<1>1. WRAP \in Nat /\ INPUT_BUF \in Nat \ {0} /\ WRAP > INPUT_BUF
    BY ConsoleAssumption
<1>2. r \in Index /\ w \in Index /\ e \in Index /\ buf \in Rings
    BY DEF RingInv
<1>3. /\ Minus(e, r) \in Index /\ Minus(w, r) \in Index /\ Minus(e, w) \in Index
      /\ Minus(e, r) = Minus(w, r) + Minus(e, w) /\ Minus(e, r) <= INPUT_BUF /\ w = Plus(r, Minus(w, r))
    BY <1>2, Distances, InOrder DEF RingInv, IndicesInOrder
<1>4. Minus(w, r) \in 0..INPUT_BUF /\ Minus(e, w) \in 0..INPUT_BUF
    BY <1>1, <1>3 DEF Index
<1>5. QED
    BY <1>2, <1>3, <1>4, RingIsSeq DEF LineOf, EditOf

(* A typed character, committed or not. *)
LEMMA TypeStep ==
    ASSUME RingInv, NEW c \in Cpus, NEW ch \in Chars, Insert(c, ch)
    PROVE  Line!Type(ch)
<1> DEFINE n == Minus(e, r)
<1>1. WRAP \in Nat /\ INPUT_BUF \in Nat \ {0} /\ WRAP > INPUT_BUF
    BY ConsoleAssumption
<1>2. /\ n \in 0..(INPUT_BUF - 1) /\ Minus(e', r) = n + 1
      /\ Minus(e, w) \in 0..(INPUT_BUF - 1) /\ Minus(e', w) = Minus(e, w) + 1
      /\ buf' = [buf EXCEPT ![Plus(r, n) % INPUT_BUF] = ch]
      /\ buf' = [buf EXCEPT ![Plus(w, Minus(e, w)) % INPUT_BUF] = ch]
      /\ (e' = Plus(r, INPUT_BUF)) <=> (n + 1 = INPUT_BUF)
      /\ buf' \in Rings /\ e' \in Index
    BY InsertRing DEF RingInv
<1>3. /\ LineOf \in Seq(Chars) /\ EditOf \in Seq(Chars)
      /\ Len(LineOf) = Minus(w, r) /\ Len(EditOf) = Minus(e, w)
      /\ Minus(w, r) \in 0..INPUT_BUF /\ n = Minus(w, r) + Minus(e, w)
      /\ r \in Index /\ w \in Index /\ buf \in Rings /\ w = Plus(r, Minus(w, r))
    BY MappingTypes
<1>4. r' = r /\ rd' = rd
    BY DEF Insert
<1> HIDE DEF n
<1>5. n \in 0..(INPUT_BUF - 1) /\ Minus(e, w) \in 0..(INPUT_BUF - 1) /\ Minus(w, r) \in 0..n
    BY <1>1, <1>2, <1>3
<1>6. r \in Index /\ w \in Index /\ buf \in Rings
    BY <1>3
<1>7. Len(LineOf) + Len(EditOf) < INPUT_BUF
    BY <1>1, <1>2, <1>3
<1>8. CASE ch \in {NL, EOF} \/ e' = Plus(r, INPUT_BUF)
    <2>1. w' = e'
        BY <1>8 DEF Insert
    <2>2. LineOf' = RingOf(buf', r, n + 1)
        BY <1>2, <1>4, <2>1, Mapping
    <2>3. RingOf(buf', r, n + 1) = Append(RingOf(buf, r, n), ch)
        <3>1. RingOf([buf EXCEPT ![Plus(r, n) % INPUT_BUF] = ch], r, n + 1) = Append(RingOf(buf, r, n), ch)
            BY <1>5, <1>6, RingAppend
        <3>2. QED
            BY <1>2, <3>1
    <2>4. RingOf(buf, r, n) = LineOf \o EditOf
        <3>1. RingOf(buf, r, Minus(w, r) + Minus(e, w)) = RingOf(buf, r, Minus(w, r)) \o RingOf(buf, w, Minus(e, w))
            <4>1. Minus(w, r) \in Nat /\ Minus(e, w) \in Nat /\ Minus(w, r) + Minus(e, w) <= INPUT_BUF
                BY <1>1, <1>2, <1>3
            <4>2. RingOf(buf, r, Minus(w, r) + Minus(e, w))
                     = RingOf(buf, r, Minus(w, r)) \o RingOf(buf, Plus(r, Minus(w, r)), Minus(e, w))
                BY <1>3, <4>1, RingSplit
            <4>3. QED
                BY <1>3, <4>2
        <3>2. QED
            BY <1>3, <3>1 DEF LineOf, EditOf
    <2>5. Append(LineOf \o EditOf, ch) = LineOf \o Append(EditOf, ch)
        <3>1. /\ LineOf \o EditOf \in Seq(Chars) /\ <<ch>> \in Seq(Chars)
            BY <1>3, ConcatProperties
        <3>2. Append(LineOf \o EditOf, ch) = (LineOf \o EditOf) \o <<ch>>
            BY <3>1, AppendIsConcat
        <3>3. Append(EditOf, ch) = EditOf \o <<ch>>
            BY <1>3, AppendIsConcat
        <3>4. QED
            BY <1>3, <3>1, <3>2, <3>3, ConcatAssociative
    <2>6. EditOf' = <<>>
        <3>1. Minus(e', w') = 0
            BY <1>2, <2>1, Distances
        <3>2. EditOf' = RingOf(buf', e', 0)
            BY <2>1, <3>1, Mapping
        <3>3. 0 \in 0..INPUT_BUF
            BY <1>1
        <3>4. QED
            BY <1>2, <3>2, <3>3, RingIsSeq
    <2>7. ch \in {NL, EOF} \/ Len(LineOf) + Len(EditOf) + 1 = INPUT_BUF
        BY <1>2, <1>3, <1>8
    <2>8. LineOf' = LineOf \o Append(EditOf, ch)
        BY <2>2, <2>3, <2>4, <2>5
    <2>9. QED
        BY <1>4, <1>7, <2>6, <2>7, <2>8, Mapping DEF Line!Type
<1>9. CASE ~(ch \in {NL, EOF} \/ e' = Plus(r, INPUT_BUF))
    <2>1. w' = w
        BY <1>9 DEF Insert
    <2>2. LineOf' = LineOf
        <3>1. RingOf([buf EXCEPT ![Plus(r, n) % INPUT_BUF] = ch], r, Minus(w, r)) = RingOf(buf, r, Minus(w, r))
            BY <1>5, <1>6, RingKept
        <3>2. RingOf(buf', r, Minus(w, r)) = RingOf(buf, r, Minus(w, r))
            BY <1>2, <3>1
        <3>3. QED
            BY <1>4, <2>1, <3>2, Mapping DEF LineOf
    <2>3. EditOf' = Append(EditOf, ch)
        <3>1. RingOf([buf EXCEPT ![Plus(w, Minus(e, w)) % INPUT_BUF] = ch], w, Minus(e, w) + 1)
                = Append(RingOf(buf, w, Minus(e, w)), ch)
            BY <1>5, <1>6, RingAppend
        <3>2. RingOf(buf', w, Minus(e, w) + 1) = Append(RingOf(buf, w, Minus(e, w)), ch)
            BY <1>2, <3>1
        <3>3. QED
            BY <1>2, <2>1, <3>2, Mapping DEF EditOf
    <2>4. ~(ch \in {NL, EOF} \/ Len(LineOf) + Len(EditOf) + 1 = INPUT_BUF)
        BY <1>2, <1>3, <1>9
    <2>5. QED
        BY <1>4, <1>7, <2>2, <2>3, <2>4, Mapping DEF Line!Type
<1>10. QED
    BY <1>8, <1>9

(* ^H and ^U. *)
LEMMA EraseStep ==
    ASSUME RingInv, NEW c \in Cpus, Backspace(c) \/ KillLine(c)
    PROVE  Line!Erase \/ Line!Kill
<1>1. /\ INPUT_BUF \in Nat /\ 0 \in 0..INPUT_BUF
    BY ConsoleAssumption
<1>2. UNCHANGED <<buf, r, w, rd>>
    BY EraseRing
<1>3. LineOf' = LineOf
    BY <1>2, Mapping DEF LineOf
<1>4. CASE Backspace(c)
    <2>1. Minus(e, w) \in 1..INPUT_BUF /\ Minus(e', w) = Minus(e, w) - 1
        BY <1>4, EraseRing
    <2>2. EditOf \in Seq(Chars) /\ Len(EditOf) = Minus(e, w) /\ buf \in Rings /\ w \in Index
        BY MappingTypes
    <2>3. EditOf # <<>>
        BY <1>1, <2>1, <2>2
    <2>4. EditOf' = SubSeq(EditOf, 1, Len(EditOf) - 1)
        BY <1>2, <2>1, <2>2, RingFront, Mapping DEF EditOf
    <2>5. Line!Erase
        BY <1>2, <1>3, <2>3, <2>4, Mapping DEF Line!Erase, Line!Front
    <2>6. QED
        BY <2>5
<1>5. CASE KillLine(c)
    <2>1. Minus(e', w) = 0
        BY <1>5, EraseRing
    <2>2. buf \in Rings /\ w \in Index
        BY MappingTypes
    <2>3. EditOf' = <<>>
        BY <1>1, <1>2, <2>1, <2>2, RingIsSeq, Mapping
    <2>4. Line!Kill
        BY <1>2, <1>3, <2>3, Mapping DEF Line!Kill
    <2>5. QED
        BY <2>4
<1>6. QED
    BY <1>4, <1>5

(* The end of a read, in the words of both specifications. *)
LEMMA SameComplete == \A p \in Procs : Line!Complete(p) <=> Complete(p)
BY DEF Complete, Line!Complete, Line!Last

(* A character for a reader. *)
LEMMA TakeStep ==
    ASSUME RingInv, NEW p \in Procs, Take(p), rd[p].want > 0
    PROVE  Line!Take(p)
<1>1. /\ Minus(w, r) \in 1..INPUT_BUF /\ UNCHANGED <<buf, w, e>>
      /\ Minus(w, Plus(r, 1)) = Minus(w, r) - 1
    BY TakeRing
<1>2. r \in Index /\ w \in Index /\ buf \in Rings
    BY MappingTypes
<1>3. /\ LineOf # <<>> /\ Head(LineOf) = At(r)
      /\ Tail(LineOf) = RingOf(buf, Plus(r, 1), Minus(w, Plus(r, 1)))
    BY <1>1, <1>2, RingTail DEF LineOf, At
<1>4. EditOf' = EditOf
    BY <1>1, Mapping DEF EditOf
<1>5. (r' = r => LineOf' = LineOf) /\ (r' = Plus(r, 1) => LineOf' = Tail(LineOf))
    BY <1>1, <1>3, Mapping DEF LineOf
<1>6. ~Line!Complete(p)
    BY SameComplete DEF Take
<1>7. CASE At(r) = EOF
    <2>1. rd' = [rd EXCEPT ![p].eof = TRUE] /\ r' = IF rd[p].got = <<>> THEN Plus(r, 1) ELSE r
        BY <1>7 DEF Take
    <2>2. LineOf' = IF rd[p].got = <<>> THEN Tail(LineOf) ELSE LineOf
        BY <1>5, <2>1
    <2>3. QED
        BY <1>3, <1>4, <1>6, <1>7, <2>1, <2>2, Mapping DEF Line!Take
<1>8. CASE At(r) # EOF
    <2>1. rd' = [rd EXCEPT ![p].got = Append(@, At(r))] /\ r' = Plus(r, 1)
        BY <1>8 DEF Take
    <2>2. LineOf' = Tail(LineOf)
        BY <1>5, <2>1
    <2>3. QED
        BY <1>3, <1>4, <1>6, <1>8, <2>1, <2>2, Mapping DEF Line!Take
<1>9. QED
    BY <1>7, <1>8

(* The console implements a queue of lines with an editable end: no         *)
(* character is lost, read twice or out of order, an erased one is never    *)
(* read, and ^D ends a read and is used up only by an empty one.            *)
THEOREM ConsoleIsTty == Spec => ImplementsTty
<1>1. Init => Line!Init
    <2> SUFFICES ASSUME Init PROVE Line!Init
        OBVIOUS
    <2>1. RingInv /\ Minus(0, 0) = 0
        <3>1. 0 \in Index
            BY ConsoleAssumption DEF Index
        <3>2. QED
            BY <3>1, InitConsoleInv, Distances DEF RingInv, ConsoleInv, TypeOK, Rings, Index
    <2>2. Len(LineOf) = 0 /\ Len(EditOf) = 0 /\ LineOf \in Seq(Chars) /\ EditOf \in Seq(Chars)
        BY <2>1, MappingTypes DEF Init
    <2>3. LineOf = <<>> /\ EditOf = <<>>
        BY <2>2, EmptySeq
    <2>4. QED
        BY <2>3, Mapping DEF Init, Line!Init, NoRead, Line!NoRead
<1>2. ConsoleInv /\ [Next]_vars => [Line!Next]_(Line!vars)
    <2> SUFFICES ASSUME ConsoleInv, [Next]_vars PROVE [Line!Next]_(Line!vars)
        OBVIOUS
    <2>1. RingInv
        BY DEF RingInv, ConsoleInv, Rings, Index, TypeOK
    <2>2. ASSUME UNCHANGED input PROVE LineOf' = LineOf /\ EditOf' = EditOf
        BY <2>2, Mapping DEF input, LineOf, EditOf
    <2>3. ASSUME UNCHANGED <<input, rd>> PROVE UNCHANGED Line!vars
        BY <2>2, <2>3, Mapping DEF Line!vars
    <2>4. ASSUME NEW p \in Procs, NEW n \in 1..INPUT_BUF, Read(p, n) PROVE Line!Begin(p, n)
        <3>1. rd[p] = Line!NoRead
            BY <2>4 DEF Read, Goto, ConsoleInv, ReadsUnderWay, NoRead, Line!NoRead
        <3>2. UNCHANGED input /\ rd' = [rd EXCEPT ![p].want = n]
            BY <2>4 DEF Read
        <3>3. QED
            BY <2>2, <3>1, <3>2, Mapping DEF Line!Begin
    <2>5. ASSUME NEW p \in Procs, Take(p) PROVE Line!Take(p)
        <3>1. rd[p].want > 0
            BY <2>5 DEF Take, ConsoleInv, ReadsUnderWay
        <3>2. QED
            BY <2>1, <2>5, <3>1, TakeStep
    <2>6. ASSUME NEW p \in Procs, ReadDone(p) PROVE Line!Return(p)
        <3>1. rd[p].want > 0 /\ Complete(p) /\ UNCHANGED input /\ rd' = [rd EXCEPT ![p] = NoRead]
            BY <2>6 DEF ReadDone, Goto, ConsoleInv, ReadsUnderWay
        <3>2. QED
            BY <2>2, <3>1, SameComplete, Mapping DEF Line!Return, NoRead, Line!NoRead
    <2>7. CASE \E p \in Procs : Ilock(p) \/ ProcStep(p)
        <3> PICK p \in Procs : Ilock(p) \/ ProcStep(p)
            BY <2>7
        <3>1. CASE Take(p) \/ ReadDone(p) \/ \E n \in 1..INPUT_BUF : Read(p, n)
            BY <2>4, <2>5, <2>6, <3>1 DEF Line!Next
        <3>2. CASE ~(Take(p) \/ ReadDone(p) \/ \E n \in 1..INPUT_BUF : Read(p, n))
            <4>1. UNCHANGED <<input, rd>>
                BY <3>2 DEF ProcStep, Ilock, Write, Acquire, Put, Sleep, Return
            <4>2. QED
                BY <2>3, <4>1
        <3>3. QED
            BY <3>1, <3>2
    <2>8. CASE \E c \in Cpus : Intr(c) \/ IntrLeave(c) \/ Message(c) \/ PutMessage(c) \/ Panic(c)
        <3> PICK c \in Cpus : Intr(c) \/ IntrLeave(c) \/ Message(c) \/ PutMessage(c) \/ Panic(c)
            BY <2>8
        <3>1. CASE \E ch \in Chars : Insert(c, ch)
            BY <2>1, <3>1, TypeStep DEF Line!Next, Chars
        <3>2. CASE Backspace(c) \/ KillLine(c)
            BY <2>1, <3>2, EraseStep DEF Line!Next
        <3>3. CASE IntrEnter(c) \/ IntrLeave(c) \/ Message(c) \/ PutMessage(c) \/ Panic(c)
            <4>1. UNCHANGED <<input, rd>>
                BY <3>3 DEF IntrEnter, IntrLeave, Message, PutMessage, Panic
            <4>2. QED
                BY <2>3, <4>1
        <3>4. QED
            BY <3>1, <3>2, <3>3 DEF Intr
    <2>9. CASE UNCHANGED vars
        BY <2>3, <2>9 DEF vars, input
    <2>10. QED
        BY <2>7, <2>8, <2>9 DEF Next
<1>3. QED
    BY InitConsoleInv, NextConsoleInv, <1>1, <1>2, PTL DEF Spec, ImplementsTty, Line!Spec
=============================================================================

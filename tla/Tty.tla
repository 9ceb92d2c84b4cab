--------------------------------- MODULE Tty ---------------------------------
(***************************************************************************)
(* What the console promises to the programs that read it: a queue of      *)
(* complete lines and one line that is still being typed, which together   *)
(* never exceed Size characters.                                           *)
(***************************************************************************)
EXTENDS Naturals, Sequences, SequencesExt

CONSTANTS Procs, Size, Letters, NL, EOF

VARIABLES
    line,   \* characters that may be read
    edit,   \* characters that may still be erased
    rd      \* [want, got, eof] of each process's read, want = 0 for none

vars == <<line, edit, rd>>

NoRead == [want |-> 0, got |-> <<>>, eof |-> FALSE]

Complete(p) ==
    \/ rd[p].eof
    \/ Len(rd[p].got) = rd[p].want
    \/ rd[p].got # <<>> /\ Last(rd[p].got) = NL

Init == line = <<>> /\ edit = <<>> /\ rd = [p \in Procs |-> NoRead]

(* A character is typed; the end of a line, the end-of-file character and   *)
(* the last place of the buffer make what was typed readable.               *)
Type(c) ==
    /\ Len(line) + Len(edit) < Size
    /\ IF c \in {NL, EOF} \/ Len(line) + Len(edit) + 1 = Size
       THEN line' = line \o Append(edit, c) /\ edit' = <<>>
       ELSE edit' = Append(edit, c) /\ UNCHANGED line
    /\ UNCHANGED rd

Erase == edit # <<>> /\ edit' = Front(edit) /\ UNCHANGED <<line, rd>>

Kill == edit' = <<>> /\ UNCHANGED <<line, rd>>

Begin(p, n) ==
    /\ rd[p] = NoRead
    /\ rd' = [rd EXCEPT ![p].want = n]
    /\ UNCHANGED <<line, edit>>

(* The next character goes to p.  An end-of-file character ends the read,   *)
(* and is used up only by a read that has nothing to return.                *)
Take(p) ==
    /\ rd[p].want > 0 /\ ~Complete(p)
    /\ line # <<>>
    /\ \/ /\ Head(line) = EOF
          /\ rd' = [rd EXCEPT ![p].eof = TRUE]
          /\ line' = IF rd[p].got = <<>> THEN Tail(line) ELSE line
       \/ /\ Head(line) # EOF
          /\ rd' = [rd EXCEPT ![p].got = Append(@, Head(line))]
          /\ line' = Tail(line)
    /\ UNCHANGED edit

Return(p) ==
    /\ rd[p].want > 0 /\ Complete(p)
    /\ rd' = [rd EXCEPT ![p] = NoRead]
    /\ UNCHANGED <<line, edit>>

Next ==
    \/ Erase \/ Kill \/ \E c \in Letters \cup {NL, EOF} : Type(c)
    \/ \E p \in Procs : Take(p) \/ Return(p) \/ \E n \in 1..Size : Begin(p, n)

Spec == Init /\ [][Next]_vars
=============================================================================

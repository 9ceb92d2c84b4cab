------------------------------- MODULE Mutex -------------------------------
(***************************************************************************)
(* What a lock of this kernel promises, whatever it is built from: it has   *)
(* at most one holder, it passes from nobody to a contender and from its    *)
(* holder to nobody.  kern/spinlock.c and kern/sleeplock.c are both shown   *)
(* to implement this.                                                       *)
(***************************************************************************)
CONSTANTS Contenders,  \* the CPUs of a spinlock, the processes of a sleeplock
          Nobody       \* not a contender

VARIABLE holder

TypeOK == holder \in Contenders \cup {Nobody}

Init == holder = Nobody

Take(p) ==
    /\ holder = Nobody
    /\ holder' = p

Give(p) ==
    /\ holder = p
    /\ holder' = Nobody

Next == \E p \in Contenders : Take(p) \/ Give(p)

Spec == Init /\ [][Next]_holder
=============================================================================

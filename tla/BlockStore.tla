----------------------------- MODULE BlockStore -----------------------------
(***************************************************************************)
(* What the buffer cache promises to its callers: blocks that one caller at *)
(* a time holds, and that hold what was last put into them, whether they    *)
(* are cached or not.                                                       *)
(***************************************************************************)
CONSTANTS Callers, Blocks, Vals, Nobody

VARIABLES content,  \* what each block holds
          user      \* the caller that holds it

vars == <<content, user>>

Init ==
    /\ content \in [Blocks -> Vals]
    /\ user = [s \in Blocks |-> Nobody]

Get(p, s) ==
    /\ user[s] = Nobody
    /\ user' = [user EXCEPT ![s] = p]
    /\ UNCHANGED content

Put(p, s, v) ==
    /\ user[s] = p
    /\ content' = [content EXCEPT ![s] = v]
    /\ UNCHANGED user

Release(p, s) ==
    /\ user[s] = p
    /\ user' = [user EXCEPT ![s] = Nobody]
    /\ UNCHANGED content

Next == \E p \in Callers, s \in Blocks :
    Get(p, s) \/ Release(p, s) \/ \E v \in Vals : Put(p, s, v)

Spec == Init /\ [][Next]_vars
=============================================================================

------------------------------- MODULE TxDisk -------------------------------
(***************************************************************************)
(* What the logging layer promises to the file system: a disk of blocks     *)
(* whose updates are grouped in operations.  Updates become durable only    *)
(* while no operation is active and all of them at once, so that a crash    *)
(* never leaves a part of an operation behind.                              *)
(***************************************************************************)
CONSTANTS Procs, Blocks, Vals

VARIABLES vol,    \* what a read of each block returns
          dur,    \* what each block holds after a crash and a restart
          active  \* the processes with an operation in progress

vars == <<vol, dur, active>>

Init ==
    /\ vol \in [Blocks -> Vals]
    /\ dur = vol
    /\ active = {}

Begin(p) ==
    /\ p \notin active
    /\ active' = active \cup {p}
    /\ UNCHANGED <<vol, dur>>

Write(p, b, v) ==
    /\ p \in active
    /\ vol' = [vol EXCEPT ![b] = v]
    /\ UNCHANGED <<dur, active>>

End(p) ==
    /\ p \in active
    /\ active' = active \ {p}
    /\ UNCHANGED <<vol, dur>>

Commit ==
    /\ active = {}
    /\ dur' = vol
    /\ UNCHANGED <<vol, active>>

Crash ==
    /\ vol' = dur
    /\ active' = {}
    /\ UNCHANGED dur

Next ==
    \/ \E p \in Procs : Begin(p) \/ End(p) \/ \E b \in Blocks, v \in Vals : Write(p, b, v)
    \/ Commit
    \/ Crash

Spec == Init /\ [][Next]_vars
=============================================================================

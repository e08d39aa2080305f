---------------------------- MODULE ChangeReport ----------------------------
(***************************************************************************)
(* What a device object promises the listener of its event callback: every *)
(* event carries a whole snapshot of the registers, and differs from what  *)
(* the listener was last told on the same connection.  A new connection    *)
(* starts from the assumption that every register is 0.                    *)
(***************************************************************************)
CONSTANTS
    Snapshots,     \* the values an event can carry
    Blank          \* the snapshot a connection starts from

VARIABLES
    view,          \* the snapshot of the last event
    told           \* an event was raised on the present connection

Baseline == IF told THEN view ELSE Blank

Init == view = Blank /\ told = FALSE

Report(s) ==
    /\ s # Baseline
    /\ view' = s
    /\ told' = TRUE

StartOver ==
    /\ told' = FALSE
    /\ UNCHANGED view

Next == StartOver \/ \E s \in Snapshots : Report(s)

Spec == Init /\ [][Next]_<<view, told>>
==============================================================================

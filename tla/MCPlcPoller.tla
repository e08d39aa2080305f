----------------------------- MODULE MCPlcPoller -----------------------------
(* The instances of PlcPoller that TLC checks: two registers, so that a    *)
(* reply can belong to another register than the one it is stored for, and *)
(* the least values that tell 0, a change and a second change apart.       *)
EXTENDS PlcPoller

MCVals == {0, 1, 2}
TwoVals == {0, 1}
MisframedValue == 770       \* function 3 and byte count 2, read as a value
AllButCut == {"refuse", "close", "reset", "stop"}
Everything == {"cut", "refuse", "ignore", "close", "reset", "stop"}
OnlyCut == {"cut"}
==============================================================================

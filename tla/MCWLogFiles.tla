----------------------------- MODULE MCWLogFiles -----------------------------
(* The instance of WLogFiles that TLC checks.                              *)
EXTENDS WLogFiles

MCLineSizes == {1, 2}
MCShortages == {0, 3}
==============================================================================

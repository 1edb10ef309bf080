------------------------------ MODULE MCRunner ------------------------------
(* Small instances of Runner for TLC.                                       *)
EXTENDS Runner

CONSTANTS c1

TwoJobs == 1..2
ShortAndLong == {0, 1, 2}
ShortBackoffs == {0, 1}
OneCaller == {c1}
=============================================================================

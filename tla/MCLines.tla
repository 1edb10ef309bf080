------------------------------ MODULE MCLines -------------------------------
(* Small instances of Lines for TLC.                                        *)
EXTENDS Lines

CONSTANTS a, b, c

SixItems == 1..6
UpstreamWords == {a, b}
PeoplesWords == {a, c}
TwoEdits == 1..2
=============================================================================

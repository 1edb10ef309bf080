------------------------------ MODULE MCOutbox ------------------------------
(* Small instances of Outbox for TLC.                                       *)
EXTENDS Outbox

CONSTANTS p1, p2

TwoProcesses == {p1, p2}
OneAuthor == {p1}
TwoOperations == {1, 2}
TheFirst == {1}
TheSecond == {2}
=============================================================================

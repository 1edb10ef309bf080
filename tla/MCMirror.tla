------------------------------ MODULE MCMirror ------------------------------
(* Small instances of Mirror for TLC.                                       *)
EXTENDS Mirror

CONSTANTS item, other, c1, c2, j1, j2, j3

OneItem == {item}
OneOther == {other}
TwoContents == {c1, c2}
ThreeJobs == {j1, j2, j3}
=============================================================================

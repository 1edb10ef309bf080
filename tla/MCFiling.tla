------------------------------ MODULE MCFiling ------------------------------
(* Small instances of Filing for TLC.                                       *)
EXTENDS Filing, TLC

CONSTANTS i1, t1, t2, g1, g2, r1, r2, c1, c2, c3, n1, p1, p2

OneItem == {i1}
OneTemplate == {t1}
TwoTemplates == {t1, t2}
OneTag == {g1}
TwoTags == {g1, g2}
TwoRecords == {r1, r2}
TwoCalls == {c1, c2}
ThreeCalls == {c1, c2, c3}
OneChange == {n1}
OnePlace == {p1}
TwoPlaces == {p1, p2}

Interchangeable ==
    Permutations(Templates) \cup Permutations(Tags) \cup Permutations(Records)
        \cup Permutations(Calls)
=============================================================================

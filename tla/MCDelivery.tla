----------------------------- MODULE MCDelivery -----------------------------
(* Small instances of Delivery for TLC.                                    *)
EXTENDS Delivery, TLC

CONSTANTS i1, i2, w1, w2, r1, r2, k1, k2

OneItem == {i1}
OneWord == {w1}
OneRecord == {r1}
OneWorker == {k1}
NoRecord == {}

TwoItems == {i1, i2}
TwoWords == {w1, w2}
TwoRecords == {r1, r2}
TwoWorkers == {k1, k2}

\* Items, words and workers are interchangeable; records are of three kinds.
Interchangeable ==
    Permutations(Items) \cup Permutations(Words) \cup Permutations(Workers)
=============================================================================

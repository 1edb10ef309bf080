------------------------------ MODULE MCAssets ------------------------------
(* Small instances of Assets for TLC.                                      *)
EXTENDS Assets

CONSTANTS b1, b2, a1, r1, i1, t1

OneBlob == {b1}
TwoBlobs == {b1, b2}
OneAsset == {a1}
OneRecord == {r1}
OneItem == {i1}
OneNamer == {t1}
=============================================================================

----------------------------- MODULE MCSurfaces -----------------------------
(* Small instances of Surfaces for TLC.                                     *)
EXTENDS Surfaces
=============================================================================

--------------------------- MODULE MCCaptureStore ---------------------------
(* Small instances of CaptureStore: sessions and entries are alike. *)
EXTENDS CaptureStore, TLC

Symmetry == Permutations(Session) \cup Permutations(Entry)
=============================================================================

---------------------------- MODULE MCAssetStore ----------------------------
(* Small instances of AssetStore: every entry has object o1, so that a      *)
(* collection has to count, but e3, whose object is longer than o1.         *)
EXTENDS AssetStore, TLC

CONSTANTS e3, o1, o2

MCObjectOf == [e \in Entry |-> IF e = e3 THEN o2 ELSE o1]
MCLength == [o \in Object |-> IF o = o2 THEN 2 ELSE 1]

Symmetry == Permutations(Proc)
=============================================================================

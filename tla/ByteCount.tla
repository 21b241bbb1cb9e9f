------------------------------ MODULE ByteCount -------------------------------
(***************************************************************************)
(* How many bytes files or fragments have together.  A byte is a pair of    *)
(* what it belongs to and its place there, and bytes are counted as a set.  *)
(***************************************************************************)
EXTENDS Naturals, FiniteSets

(* Every byte of everything that has a length. *)
ByteSet(length) == UNION {{x} \X (1 .. length[x]) : x \in DOMAIN length}

Total(length) == Cardinality(ByteSet(length))
=============================================================================

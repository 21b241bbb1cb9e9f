--------------------------- MODULE RetainedBytes ---------------------------
(***************************************************************************)
(* What a store of verified bytes promises whoever keeps the ID of an      *)
(* entry: an entry can be read from its import on, and while it is rooted  *)
(* no collection takes it away.  AssetStore implements this; CaptureStore  *)
(* relies on it.                                                           *)
(***************************************************************************)
CONSTANT Entry

VARIABLES
  retained,   \* entries whose bytes can be read
  roots       \* entries a reference, an unexpired pin or a lease holds

TypeOK == retained \subseteq Entry /\ roots \subseteq Entry

Init == retained = {} /\ roots = {}

Import(e) ==
  /\ e \notin retained
  /\ retained' = retained \cup {e}
  /\ roots' \in {roots, roots \cup {e}}

Collect(S) ==
  /\ S \cap roots = {}
  /\ retained' = retained \ S
  /\ UNCHANGED roots

(* Of entries that exist and, before a pinned import, of one that does not. *)
ChangeRoots ==
  /\ roots' \in SUBSET Entry
  /\ UNCHANGED retained

Next ==
  \/ \E e \in Entry : Import(e)
  \/ \E S \in SUBSET Entry : Collect(S)
  \/ ChangeRoots

Spec == Init /\ [][Next]_<<retained, roots>>
=============================================================================

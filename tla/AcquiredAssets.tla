---------------------------- MODULE AcquiredAssets ----------------------------
(***************************************************************************)
(* Current URLs and deterministic values on one store, under the same       *)
(* collections and retention rules.  Which of the two the key belongs to    *)
(* is chosen at the beginning; keys share nothing but collections.          *)
(***************************************************************************)
EXTENDS CurrentUrl, ValueAssets

vars == <<key, now, store, access, record, collection, calls, reader, origin, value>>

Init == StoreInit /\ OriginInit /\ ValueInit

Next ==
  \/ StoreNext /\ UNCHANGED <<origin, value>>
  \/ (OpenUrl \/ ChangeBody) /\ UNCHANGED value
  \/ OpenDeterministic /\ UNCHANGED origin

Spec == Init /\ [][Next]_vars

Call ==
  [usable : BOOLEAN, attempt : 0..1, entry : Entry \cup {NoEntry},
   body : Body \cup {NoBody}, since : Int, requested : Time, responded : Time]

TypeOK ==
  /\ source \in {"download", "complete_array"} /\ request \in Requests \cup {Plain}
  /\ now \in Time
  /\ retained \subseteq Entry
  /\ contents \in [Entry -> Body \cup {NoBody}]
  /\ created \in [Entry -> Time] /\ access \in [Entry -> Time \cup {Never}]
  /\ record.entry \in Entry \cup {NoEntry}
  /\ collection \in [planned : SUBSET Entry, at : Time \cup {Never}, pressure : BOOLEAN]
  /\ holder \in Proc \cup {NoProc}
  /\ pc \in {"idle", "resolve", "send", "sent", "answered", "record", "open",
             "find", "reopen", "compare", "import", "name", "read"}
  /\ call \in Call
  /\ reader \in [Proc -> [entry : Entry \cup {NoEntry}, body : Body \cup {NoBody},
                           since : Int]]
  /\ version \in Body /\ retired \in [Body -> Time]
  /\ value \in [object : Body \cup {NoBody}, entry : Entry \cup {NoEntry},
                invalidated : BOOLEAN]
=============================================================================

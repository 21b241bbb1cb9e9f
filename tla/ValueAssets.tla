----------------------------- MODULE ValueAssets -----------------------------
(***************************************************************************)
(* open_deterministic_asset of reccy/runtime/value_assets.py: the bytes of  *)
(* a declared value, produced again when they were collected and refused   *)
(* when they differ from the first ones.                                   *)
(***************************************************************************)
EXTENDS AcquiredStore

VARIABLE value   \* state/values/<key>.json, or NoValue

NoValue == [object |-> NoBody, entry |-> NoEntry, invalidated |-> FALSE]

ValueInit == value = NoValue

Step(label) == pc' = label /\ UNCHANGED <<holder, answer>>
Rest == <<key, now, store, access, record, collection, reader>>

(* _retained_entry, then the entry is opened, in spite of collections. *)
FindValue ==
  /\ pc = "find"
  /\ ~ value.invalidated /\ value.entry \in retained
  /\ Step("reopen") /\ call' = [call EXCEPT !.entry = value.entry]
  /\ UNCHANGED <<Rest, value>>

ReopenValue ==
  /\ pc = "reopen" /\ call.entry \in retained
  /\ Yield(call.entry, contents[call.entry], 0)
  /\ UNCHANGED <<key, now, store, access, record, collection, value>>

Produce(body) ==
  /\ (pc = "find" /\ ~ value.invalidated) \/ pc = "reopen"
  /\ value.entry \notin retained
  /\ Step("compare") /\ call' = [call EXCEPT !.body = body, !.entry = NoEntry]
  /\ UNCHANGED <<Rest, value>>

Refused ==
  /\ pc = "find" /\ value.invalidated
  /\ Release
  /\ UNCHANGED <<Rest, value>>

(* A mistake: the newest bytes are believed. *)
Replace ==
  /\ pc = "compare" /\ value # NoValue /\ value.object # call.body
  /\ value' = [object |-> call.body, entry |-> NoEntry, invalidated |-> FALSE]
  /\ Release
  /\ UNCHANGED Rest

Conflict ==
  /\ pc = "compare" /\ value # NoValue /\ value.object # call.body
  /\ value' = [value EXCEPT !.invalidated = TRUE, !.entry = NoEntry]
  /\ Release
  /\ UNCHANGED Rest

(* A mistake: the identity is remembered with the entry, not before it. *)
RememberLater ==
  /\ pc = "compare" /\ (value = NoValue \/ value.object = call.body)
  /\ Step("import") /\ UNCHANGED call
  /\ UNCHANGED <<Rest, value>>

(* The identity is on disk before any entry of it can be. *)
RememberIdentity ==
  /\ pc = "compare" /\ (value = NoValue \/ value.object = call.body)
  /\ value' = [value EXCEPT !.object = call.body]
  /\ Step("import") /\ UNCHANGED call
  /\ UNCHANGED Rest

ImportValue(e) ==
  /\ pc = "import" /\ NewEntry(e) /\ e # value.entry
  /\ Import(e, call.body)
  /\ Step("name") /\ call' = [call EXCEPT !.entry = e]
  /\ UNCHANGED <<key, now, access, record, collection, reader, value>>

NameEntry ==
  /\ pc = "name"
  /\ value' = [object |-> call.body, entry |-> call.entry, invalidated |-> FALSE]
  /\ Step("read") /\ UNCHANGED call
  /\ UNCHANGED Rest

(* Collected before it was leased, the new entry cannot be opened. *)
OpenValue ==
  /\ pc = "read" /\ call.entry \in retained
  /\ Yield(call.entry, contents[call.entry], 0)
  /\ UNCHANGED <<key, now, store, access, record, collection, value>>

ClaimValue(p) ==
  /\ source = "complete_array"
  /\ Claim(p, "find")
  /\ UNCHANGED value

OpenDeterministic ==
  \/ \E p \in Proc : ClaimValue(p)
  \/ FindValue \/ ReopenValue \/ Refused \/ Conflict \/ RememberIdentity
  \/ NameEntry \/ OpenValue
  \/ \E body \in Body : Produce(body)
  \/ \E e \in Entry : ImportValue(e)

-----------------------------------------------------------------------------
(* Every entry that was ever imported for the key and is still there, also   *)
(* by a call that a crash cut short, has the bytes the record remembers.     *)
OneValue ==
  source = "complete_array" =>
    \A e \in retained : contents[e] = value.object

(* The first identity of a key is its identity for good, collected or not,   *)
(* and a conflict is never forgotten: a later call cannot replace it.        *)
ValueIsPermanent ==
  [][ value # NoValue =>
        /\ value'.object = value.object
        /\ value.invalidated => value'.invalidated ]_value
=============================================================================

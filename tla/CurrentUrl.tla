------------------------------ MODULE CurrentUrl ------------------------------
(***************************************************************************)
(* open_current_https_asset of reccy/runtime/http_current.py, for one       *)
(* request key: reuse a fresh response, revalidate a stale one, or fetch,   *)
(* against an origin whose body changes and caches on the way to it.        *)
(***************************************************************************)
EXTENDS AcquiredStore

CONSTANT Responses   \* headers an origin answers with, dates as offsets

ASSUME ResponsesAssumption ==
  \A headers \in Responses :
    /\ \A name \in DOMAIN headers \cap {"date", "expires"} : headers[name] \in Int
    /\ Header(headers, "age", 0) \in Nat
    /\ Control(headers).maxAge \in Int

VARIABLES
  version,   \* origin: the version of the body
  retired    \* origin: the last instant of each version, for those that ended

origin == <<version, retired>>

OriginInit == version = 1 /\ retired = [v \in Body |-> MaxNow]

(* A body changes at most so often, and only while it is asked for. *)
ChangeBody ==
  /\ source = "download" /\ version < MaxBody
  /\ version' = version + 1
  /\ retired' = [retired EXCEPT ![version] = now]
  /\ UNCHANGED <<key, now, store, access, record, collection, calls, reader>>

(* v was the body at the instant at. *)
WasCurrent(v, at) ==
  /\ v <= version /\ at >= 0 /\ at <= retired[v]
  /\ v > 1 => retired[v - 1] <= at

(* The headers of a response produced at an instant, by the origin or on the *)
(* way to it, and handed on since.                                          *)
Stamp(headers, v, at) ==
  [name \in DOMAIN headers |->
     IF name \in {"date", "expires"} THEN at + headers[name]
     ELSE IF name = "etag" THEN v ELSE headers[name]]

-----------------------------------------------------------------------------
Go(label) == pc' = label /\ UNCHANGED holder
Files == <<key, now, store, access, record, collection, reader, origin>>

(* _resolve_current up to the network.  A call without storage ignores what  *)
(* is stored.                                                               *)
Usable ==
  ~ request.noStore /\ record # NoRecord /\ record.entry \in retained

FreshNow ==
  Fresh(record.headers, request, record.requested, record.responded, now)

(* Only what is read again is kept of the locals. *)
Opening(entry, since) ==
  /\ Go("open")
  /\ call' = [NoCall EXCEPT !.entry = entry, !.since = since, !.attempt = call.attempt]
  /\ answer' = NoAnswer

Reuse ==
  /\ pc = "resolve"
  /\ Usable /\ FreshNow
  /\ Opening(record.entry, now - Lifetime(record.headers, record.responded) + 1)
  /\ UNCHANGED Files

GoOnline ==
  /\ pc = "resolve"
  /\ ~ (Usable /\ FreshNow) /\ ~ request.onlyIfCached
  /\ Go("send")
  /\ call' = [call EXCEPT !.usable = Usable]
  /\ UNCHANGED <<answer, Files>>

Send ==
  /\ pc = "send"
  /\ Go("sent")
  /\ call' = [call EXCEPT !.requested = now]
  /\ UNCHANGED <<answer, Files>>

Conditional == call.usable /\ "etag" \in DOMAIN record.headers

(* The origin, or a cache that has had its answer for "age", sends a 304 if  *)
(* that is the version asked about.  A confused cache sends one about        *)
(* another version, and says so.                                            *)
Answer(v, headers, confused) ==
  LET produced == now - Header(headers, "age", 0)
  IN  /\ pc = "sent"
      /\ WasCurrent(v, produced)
      /\ confused => "etag" \in DOMAIN headers
      /\ Go("answered")
      /\ answer' = [version |-> v, headers |-> Stamp(headers, v, produced),
           unchanged |-> Conditional /\ (confused \/ record.headers["etag"] = v)]
      /\ UNCHANGED <<call, Files>>

NotModified == pc = "answered" /\ answer.unchanged
Modified == pc = "answered" /\ ~ answer.unchanged

(* A mistake: every 304 is about the body that is stored. *)
Believed == TRUE

Confirmed ==
  "etag" \in DOMAIN answer.headers =>
    answer.headers["etag"] = record.headers["etag"]

(* A 304 about a body that is gone, or about another one than was asked      *)
(* about; the next round asks without a condition and takes no 304, so that  *)
(* there is never a third.                                                  *)
AskAgain ==
  /\ NotModified
  /\ record.entry \notin retained \/ ~ Confirmed
  /\ Go("send")
  /\ call' = [NoCall EXCEPT !.attempt = call.attempt]
  /\ answer' = NoAnswer
  /\ UNCHANGED Files

(* record.headers | updated *)
Combined ==
  [name \in DOMAIN record.headers \cup DOMAIN answer.headers |->
     IF name \in DOMAIN answer.headers THEN answer.headers[name]
     ELSE record.headers[name]]

MayStore(headers) == Storable(headers, request) /\ ~ VaryAny(headers)

(* _write_record or _remove_record. *)
Remember(entry, headers, responded) ==
  record' = IF MayStore(headers)
            THEN [entry |-> entry, headers |-> headers,
                  requested |-> call.requested, responded |-> responded]
            ELSE NoRecord

(* The instant from which on the answer has been current once. *)
Since == call.requested - Header(answer.headers, "age", 0)

Revalidate ==
  /\ NotModified /\ Confirmed /\ record.entry \in retained
  /\ Remember(record.entry, Combined, now)
  /\ Opening(record.entry, Since)
  /\ UNCHANGED <<key, now, store, access, collection, reader, origin>>

(* no-store and Vary: * bodies are for this caller only. *)
FetchTransient ==
  /\ Modified /\ ~ MayStore(answer.headers)
  /\ record' = NoRecord
  /\ Yield(NoEntry, answer.version, Since)
  /\ UNCHANGED <<key, now, store, access, collection, origin>>

Fetch(e) ==
  /\ Modified /\ MayStore(answer.headers)
  /\ NewEntry(e)
  /\ Import(e, answer.version)
  /\ Go("record")
  /\ call' = [call EXCEPT !.entry = e, !.responded = now]
  /\ UNCHANGED <<key, now, access, record, collection, answer, reader, origin>>

WriteRecord ==
  /\ pc = "record"
  /\ Remember(call.entry, answer.headers, call.responded)
  /\ Opening(call.entry, Since)
  /\ UNCHANGED <<key, now, store, access, collection, reader, origin>>

OpenEntry ==
  /\ pc = "open" /\ call.entry \in retained
  /\ Yield(call.entry, contents[call.entry], call.since)
  /\ UNCHANGED <<key, now, store, access, record, collection, origin>>

(* A mistake: it starts again whenever the entry is gone. *)
RetryAlways ==
  /\ pc = "open" /\ call.entry \notin retained
  /\ Go("resolve")
  /\ call' = [NoCall EXCEPT !.attempt = call.attempt + 1]
  /\ UNCHANGED <<answer, Files>>

(* Collected before it was leased: once more from the beginning. *)
Retry ==
  /\ pc = "open" /\ call.entry \notin retained /\ call.attempt = 0
  /\ Go("resolve")
  /\ call' = [NoCall EXCEPT !.attempt = 1]
  /\ UNCHANGED <<answer, Files>>

(* Not cached and asked not to go online, or collected twice. *)
Miss ==
  /\ \/ pc = "resolve" /\ ~ (Usable /\ FreshNow) /\ request.onlyIfCached
     \/ pc = "open" /\ call.entry \notin retained /\ call.attempt = 1
  /\ Release
  /\ UNCHANGED Files

ClaimUrl(p) ==
  /\ source = "download"
  /\ Claim(p, "resolve")
  /\ UNCHANGED origin

OpenUrl ==
  \/ Reuse \/ GoOnline \/ Send \/ AskAgain \/ Revalidate \/ FetchTransient
  \/ WriteRecord \/ OpenEntry \/ Retry \/ Miss
  \/ \E p \in Proc : ClaimUrl(p)
  \/ \E e \in Entry : Fetch(e)
  \/ \E v \in Body, headers \in Responses, confused \in BOOLEAN :
       Answer(v, headers, confused)

-----------------------------------------------------------------------------
(* What a caller is given was the body at some instant that its cache        *)
(* permits: since the request, but for the age an answer admits to, or less  *)
(* than the lifetime of the stored response ago.  No delay, revalidation,    *)
(* collection or crash in between makes it older.                           *)
NeverStale ==
  source = "download" =>
    \A p \in Proc : reader[p] # NoReader => reader[p].since <= retired[reader[p].body]

(* The record, whoever rewrote it last, never names an entry with another    *)
(* body than the one its headers describe, which a 304 would then confirm.   *)
RecordDescribesEntry ==
  record.entry \in retained /\ "etag" \in DOMAIN record.headers
    => contents[record.entry] = record.headers["etag"]
=============================================================================

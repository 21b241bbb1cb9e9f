--------------------------- MODULE AcquiredProofs ---------------------------
(***************************************************************************)
(* Proofs about AcquiredAssets: what a caller is given is never staler than *)
(* its response permits, and a deterministic value is one value.            *)
(***************************************************************************)
EXTENDS AcquiredAssets, TLAPS

(* What ResponsesAssumption says, of headers that were stamped or combined. *)
HeadersOK(headers) ==
  /\ \A name \in DOMAIN headers \cap {"date", "expires"} : headers[name] \in Int
  /\ Header(headers, "age", 0) \in Nat
  /\ Control(headers).maxAge \in Int

-----------------------------------------------------------------------------
(* HttpFreshness. *)

LEMMA LifetimeType ==
  ASSUME NEW headers, HeadersOK(headers), NEW responded \in Int
  PROVE  Lifetime(headers, responded) \in Nat
BY DEF HeadersOK, Lifetime, Date, Header, Larger, Control, Absent

LEMMA AgeType ==
  ASSUME NEW headers, HeadersOK(headers),
         NEW requested \in Int, NEW responded \in Int, NEW at \in Int
  PROVE  Age(headers, requested, responded, at) \in Int
BY DEF HeadersOK, Age, Date, Header, Larger

(* The age of a response covers all the time since it was asked for. *)
LEMMA AgeCoversDelay ==
  ASSUME NEW headers, HeadersOK(headers),
         NEW requested \in Int, NEW responded \in Int, NEW at \in Int
  PROVE  Age(headers, requested, responded, at)
           >= at - requested + Header(headers, "age", 0)
BY DEF HeadersOK, Age, Date, Header, Larger

(* A fresh response was current less than its lifetime ago. *)
LEMMA FreshIsYoung ==
  ASSUME NEW headers, HeadersOK(headers), NEW wishes,
         NEW requested \in Int, NEW responded \in Int, NEW at \in Int,
         Fresh(headers, wishes, requested, responded, at), requested <= at
  PROVE  /\ at - Lifetime(headers, responded) + 1
              <= requested - Header(headers, "age", 0)
         /\ Lifetime(headers, responded) >= 1
<1>1. Age(headers, requested, responded, at) < Lifetime(headers, responded)
  BY DEF Fresh
<1>2. Header(headers, "age", 0) \in Nat
  BY DEF HeadersOK
<1>3. QED BY <1>1, <1>2, LifetimeType, AgeType, AgeCoversDelay

LEMMA StampedHeaders ==
  ASSUME NEW headers \in Responses, NEW v \in Body, NEW at \in Int
  PROVE  /\ HeadersOK(Stamp(headers, v, at))
         /\ Header(Stamp(headers, v, at), "age", 0) = Header(headers, "age", 0)
         /\ "etag" \in DOMAIN Stamp(headers, v, at) =>
              Stamp(headers, v, at)["etag"] = v
         /\ "etag" \in DOMAIN Stamp(headers, v, at) <=> "etag" \in DOMAIN headers
BY ResponsesAssumption DEF HeadersOK, Stamp, Header, Control, NoControl, Absent

-----------------------------------------------------------------------------
(* The invariant.                                                           *)

AgeOf(headers) == Header(headers, "age", 0)

(* What is on disk and what was answered have the shape that is expected. *)
StoredType ==
  /\ source \in {"download", "complete_array"} /\ request \in Requests \cup {Plain}
  /\ now \in Time
  /\ retained \subseteq Entry
  /\ contents \in [Entry -> Body \cup {NoBody}]
  /\ \A e \in retained : contents[e] \in Body
  /\ created \in [Entry -> Time] /\ access \in [Entry -> Time \cup {Never}]
  /\ collection \in [planned : SUBSET Entry, at : Time \cup {Never}, pressure : BOOLEAN]

RecordType ==
  /\ record.entry \in Entry \cup {NoEntry}
  /\ record # NoRecord =>
       /\ record.requested \in Time /\ record.responded \in Time
       /\ HeadersOK(record.headers)

CallType ==
  /\ holder \in Proc \cup {NoProc}
  /\ pc \in {"idle", "resolve", "send", "sent", "answered", "record", "open",
             "find", "reopen", "compare", "import", "name", "read"}
  /\ call \in Call
  /\ pc \in {"compare", "import", "name"} => call.body \in Body

AnswerType ==
  pc \in {"answered", "record"} => answer.version \in Body /\ HeadersOK(answer.headers)

ReaderType ==
  reader \in [Proc -> [entry : Entry \cup {NoEntry}, body : Body \cup {NoBody},
                       since : Int]]

OriginType == version \in Body /\ retired \in [Body -> Time]

ValueType ==
  value \in [object : Body \cup {NoBody}, entry : Entry \cup {NoEntry},
            invalidated : BOOLEAN]

TypeInv ==
  /\ StoredType /\ RecordType /\ CallType /\ AnswerType /\ ReaderType
  /\ OriginType /\ ValueType

(* The stored response, whoever wrote it, was asked for before now and while *)
(* its body was current, but for its age; its ETag is that of the body.     *)
RecordInv ==
  record # NoRecord =>
    /\ record.requested <= now
    /\ record.entry \in retained =>
         /\ record.requested - AgeOf(record.headers) <= retired[contents[record.entry]]
         /\ "etag" \in DOMAIN record.headers =>
              contents[record.entry] = record.headers["etag"]

CallInv == call.requested <= now /\ call.since <= now

(* An answer was asked for while its body was current, but for its age; one  *)
(* without a body is about the stored one if it does not say otherwise.     *)
AnswerInv ==
  /\ pc \in {"send", "sent", "answered"} /\ call.usable => record # NoRecord
  /\ pc \in {"answered", "record"} =>
       /\ call.requested - AgeOf(answer.headers) <= retired[answer.version]
       /\ "etag" \in DOMAIN answer.headers =>
            answer.headers["etag"] = answer.version
  /\ pc = "answered" /\ answer.unchanged =>
       /\ record # NoRecord /\ "etag" \in DOMAIN record.headers
       /\ \/ answer.version = record.headers["etag"]
          \/ "etag" \in DOMAIN answer.headers

(* The entry a call is about to record, or to open, has the answer's body or *)
(* one that was current when the call says.                                 *)
OpenInv ==
  /\ pc = "record" /\ call.entry \in retained =>
       contents[call.entry] = answer.version
  /\ pc = "open" /\ call.entry \in retained =>
       call.since <= retired[contents[call.entry]]

(* What is known to have been current once was so before now, and a version  *)
(* that ends does so now.                                                   *)
ReaderInv ==
  \A p \in Proc :
    /\ reader[p].since <= now
    /\ reader[p] # NoReader =>
         reader[p].body \in Body /\ reader[p].since <= retired[reader[p].body]

UrlInv == TypeInv /\ RecordInv /\ CallInv /\ AnswerInv /\ OpenInv /\ ReaderInv

(* All bytes of a value's key are those remembered, and those about to be    *)
(* imported or named are too; a conflict ends the call that found it.       *)
ValueInv ==
  /\ OneValue
  /\ pc \in {"import", "name"} => call.body = value.object
  /\ pc \in {"reopen", "compare", "import", "name"} => ~ value.invalidated
  /\ pc \in {"resolve", "send", "sent", "answered", "record", "open"} =>
       source = "download"
  /\ pc \in {"find", "reopen", "compare", "import", "name", "read"} =>
       source = "complete_array"
  /\ record # NoRecord => source = "download"

-----------------------------------------------------------------------------
(* Types.                                                                   *)

LEMMA EntryFacts ==
  /\ NoEntry \notin Entry /\ NoBody \notin Body
  /\ Body \subseteq Nat /\ Time \subseteq Nat /\ 1 \in Body /\ 0 \in Time
  /\ MaxNow \in Time
BY StoreAssumption DEF NoEntry, NoBody, Entry, Body, Time

LEMMA Typed == TypeInv => TypeOK
BY DEF TypeInv, TypeOK, StoredType, RecordType, CallType, ReaderType, OriginType,
   ValueType

LEMMA InitType == Init => TypeInv
BY EntryFacts, StoreAssumption
DEF Init, StoreInit, OriginInit, ValueInit, TypeInv, StoredType, RecordType, CallType,
    AnswerType, ReaderType, OriginType, ValueType, NoRecord, NoCollection,
    NoAnswer, NoCall, Call, NoReader, NoValue, Never

(* What the headers of a combined response are made of. *)
LEMMA CombinedHeaders ==
  ASSUME HeadersOK(record.headers), HeadersOK(answer.headers)
  PROVE  /\ HeadersOK(Combined)
         /\ AgeOf(answer.headers) <= AgeOf(Combined)
         /\ "etag" \in DOMAIN Combined =>
              Combined["etag"] = IF "etag" \in DOMAIN answer.headers
                                 THEN answer.headers["etag"] ELSE record.headers["etag"]
BY DEF HeadersOK, Combined, Header, Control, AgeOf, NoControl, Absent

(* A step that leaves the store alone keeps the types of what is stored. *)
LEMMA StoredFrame ==
  ASSUME StoredType, UNCHANGED <<key, now, store, access, collection>>
  PROVE  StoredType'
BY DEF StoredType, key, store

LEMMA OriginFrame ==
  ASSUME OriginType, UNCHANGED origin
  PROVE  OriginType'
BY DEF OriginType, origin

LEMMA RecordFrame ==
  ASSUME RecordType, UNCHANGED record
  PROVE  RecordType'
BY DEF RecordType

LEMMA ReaderFrame ==
  ASSUME ReaderType, UNCHANGED reader
  PROVE  ReaderType'
BY DEF ReaderType

LEMMA ValueFrame ==
  ASSUME ValueType, UNCHANGED value
  PROVE  ValueType'
BY DEF ValueType

LEMMA CallsFrame ==
  ASSUME CallType, AnswerType, UNCHANGED calls
  PROVE  CallType' /\ AnswerType'
BY DEF CallType, AnswerType, calls

(* The claim is given up, with or without something to read. *)
LEMMA ReleaseType ==
  ASSUME Release
  PROVE  CallType' /\ AnswerType'
BY EntryFacts DEF Release, CallType, AnswerType, NoCall, Call

LEMMA YieldType ==
  ASSUME ReaderType, NEW e \in Entry \cup {NoEntry}, NEW body \in Body \cup {NoBody},
         NEW since \in Int, Yield(e, body, since)
  PROVE  CallType' /\ AnswerType' /\ ReaderType'
<1>1. ReaderType'
  BY DEF Yield, ReaderType
<1>2. QED BY <1>1, ReleaseType DEF Yield

LEMMA StoreType ==
  ASSUME TypeInv, StoreNext, UNCHANGED <<origin, value>>
  PROVE  TypeInv'
<1> USE DEF TypeInv
<1>1. CASE Tick
  <2>1. StoredType'
    BY <1>1, StoreAssumption DEF Tick, StoredType, Time, store, key
  <2>2. QED
    BY <1>1, <2>1, RecordFrame, CallsFrame, ReaderFrame, OriginFrame, ValueFrame DEF Tick
<1>2. CASE Collect
  <2>1. StoredType'
    BY <1>2, EntryFacts DEF Collect, Renewed, Forget, NoCollection, Never, StoredType, key
  <2>2. QED
    BY <1>2, <2>1, RecordFrame, CallsFrame, ReaderFrame, OriginFrame, ValueFrame DEF Collect
<1>3. CASE Abandon
  BY <1>3, StoredFrame, RecordFrame, ReleaseType, ReaderFrame, OriginFrame, ValueFrame
  DEF Abandon
<1>4. ASSUME NEW pressure \in BOOLEAN, PlanCollection(pressure) PROVE TypeInv'
  <2>1. StoredType'
    BY <1>4 DEF PlanCollection, EligibleEntries, StoredType, key, store
  <2>2. QED
    BY <1>4, <2>1, RecordFrame, CallsFrame, ReaderFrame, OriginFrame, ValueFrame
    DEF PlanCollection
<1>5. ASSUME NEW p \in Proc, NEW consumed \in BOOLEAN, CloseReader(p, consumed)
      PROVE  TypeInv'
  <2>1. StoredType'
    BY <1>5 DEF CloseReader, StoredType, ReaderType, key, store
  <2>2. ReaderType'
    BY <1>5, EntryFacts DEF CloseReader, NoReader, ReaderType
  <2>3. QED
    BY <1>5, <2>1, <2>2, RecordFrame, CallsFrame, OriginFrame, ValueFrame DEF CloseReader
<1>6. QED BY <1>1, <1>2, <1>3, <1>4, <1>5 DEF StoreNext

(* The record a call writes, and the moment it calls its answer current. *)
LEMMA RememberType ==
  ASSUME CallType, NEW e \in Entry, NEW headers, HeadersOK(headers),
         NEW responded \in Time, Remember(e, headers, responded)
  PROVE  RecordType'
BY EntryFacts DEF Remember, RecordType, CallType, Call, NoRecord

LEMMA SinceType ==
  ASSUME CallType, AnswerType, pc \in {"answered", "record"}
  PROVE  Since \in Int
<1>1. Header(answer.headers, "age", 0) \in Nat
  BY DEF AnswerType, HeadersOK
<1>2. call.requested \in Time
  BY DEF CallType, Call
<1>3. QED BY <1>1, <1>2 DEF Since, Time

(* Where a call starts over, it keeps at most the count of its attempts. *)
LEMMA AfreshType ==
  ASSUME NEW attempt \in 0..1
  PROVE  [NoCall EXCEPT !.attempt = attempt] \in Call
<1>1. NoCall \in Call
  BY EntryFacts DEF NoCall, Call
<1>2. QED BY <1>1 DEF Call

LEMMA OpeningType ==
  ASSUME CallType, NEW e \in Entry \cup {NoEntry}, NEW since \in Int, Opening(e, since)
  PROVE  CallType' /\ AnswerType'
BY EntryFacts DEF Opening, Go, NoCall, CallType, AnswerType, Call

LEMMA UrlType ==
  ASSUME TypeInv, OpenUrl, UNCHANGED value
  PROVE  TypeInv'
<1> USE DEF TypeInv
<1>1. CASE Reuse
  <2>1. /\ record.responded \in Time /\ HeadersOK(record.headers)
        /\ record.entry \in Entry \cup {NoEntry} /\ now \in Time
    BY <1>1 DEF Reuse, Usable, StoredType, RecordType
  <2>2. now - Lifetime(record.headers, record.responded) + 1 \in Int
    BY <2>1, LifetimeType DEF Time
  <2>3. CallType' /\ AnswerType'
    BY <1>1, <2>1, <2>2, OpeningType DEF Reuse
  <2>4. QED
    BY <1>1, <2>3, StoredFrame, RecordFrame, ReaderFrame, OriginFrame, ValueFrame
    DEF Reuse, Files
<1>2. CASE GoOnline
  <2>1. CallType' /\ AnswerType'
    BY <1>2 DEF GoOnline, Go, CallType, AnswerType, Call, Usable
  <2>2. QED
    BY <1>2, <2>1, StoredFrame, RecordFrame, ReaderFrame, OriginFrame, ValueFrame
    DEF GoOnline, Files
<1>3. CASE Send
  <2>1. CallType' /\ AnswerType'
    BY <1>3 DEF Send, Go, CallType, AnswerType, Call, StoredType
  <2>2. QED
    BY <1>3, <2>1, StoredFrame, RecordFrame, ReaderFrame, OriginFrame, ValueFrame
    DEF Send, Files
<1>4. CASE AskAgain
  <2>1. CallType' /\ AnswerType'
    <3>1. call.attempt \in 0..1
      BY DEF CallType, Call
    <3>2. QED BY <1>4, <3>1, AfreshType DEF AskAgain, Go, CallType, AnswerType
  <2>2. QED
    BY <1>4, <2>1, StoredFrame, RecordFrame, ReaderFrame, OriginFrame, ValueFrame
    DEF AskAgain, Files
<1>5. CASE Revalidate
  <2>1. /\ record.entry \in Entry /\ record # NoRecord
        /\ HeadersOK(answer.headers) /\ now \in Time
        /\ pc = "answered"
    BY <1>5, EntryFacts
    DEF Revalidate, NotModified, StoredType, AnswerType, NoRecord
  <2>2. HeadersOK(Combined)
    BY <2>1, CombinedHeaders DEF RecordType
  <2>3. RecordType'
    BY <1>5, <2>1, <2>2, RememberType DEF Revalidate
  <2>4. CallType' /\ AnswerType'
    BY <1>5, <2>1, OpeningType, SinceType DEF Revalidate
  <2>5. QED
    BY <1>5, <2>3, <2>4, StoredFrame, ReaderFrame, OriginFrame, ValueFrame DEF Revalidate
<1>6. CASE FetchTransient
  <2>1. RecordType'
    BY <1>6, EntryFacts DEF FetchTransient, RecordType, NoRecord
  <2>2. CallType' /\ AnswerType' /\ ReaderType'
    BY <1>6, SinceType, YieldType DEF FetchTransient, Modified, AnswerType
  <2>3. QED
    BY <1>6, <2>1, <2>2, StoredFrame, OriginFrame, ValueFrame DEF FetchTransient
<1>7. CASE WriteRecord
  <2>1. RecordType'
    <3>1. CASE MayStore(answer.headers)
      BY <1>7, <3>1, EntryFacts
      DEF WriteRecord, Remember, RecordType, CallType, Call, AnswerType, NoRecord
    <3>2. CASE ~ MayStore(answer.headers)
      BY <1>7, <3>2, EntryFacts DEF WriteRecord, Remember, RecordType, NoRecord
    <3>3. QED BY <3>1, <3>2
  <2>2. CallType' /\ AnswerType'
    BY <1>7, SinceType, OpeningType DEF WriteRecord, CallType, Call
  <2>3. QED
    BY <1>7, <2>1, <2>2, StoredFrame, ReaderFrame, OriginFrame, ValueFrame DEF WriteRecord
<1>8. CASE OpenEntry
  <2>1. CallType' /\ AnswerType' /\ ReaderType'
    BY <1>8, YieldType DEF OpenEntry, StoredType, CallType, Call
  <2>2. QED
    BY <1>8, <2>1, StoredFrame, RecordFrame, OriginFrame, ValueFrame DEF OpenEntry
<1>9. CASE Retry
  <2>1. CallType' /\ AnswerType'
    BY <1>9, AfreshType DEF Retry, Go, CallType, AnswerType
  <2>2. QED
    BY <1>9, <2>1, StoredFrame, RecordFrame, ReaderFrame, OriginFrame, ValueFrame
    DEF Retry, Files
<1>10. CASE Miss
  BY <1>10, ReleaseType, StoredFrame, RecordFrame, ReaderFrame, OriginFrame, ValueFrame
  DEF Miss, Files
<1>11. ASSUME NEW p \in Proc, ClaimUrl(p) PROVE TypeInv'
  <2>1. CallType' /\ AnswerType'
    BY <1>11 DEF ClaimUrl, Claim, CallType, AnswerType
  <2>2. QED
    BY <1>11, <2>1, StoredFrame, RecordFrame, ReaderFrame, OriginFrame, ValueFrame
    DEF ClaimUrl, Claim
<1>12. ASSUME NEW e \in Entry, Fetch(e) PROVE TypeInv'
  <2>1. StoredType'
    BY <1>12 DEF Fetch, Modified, Import, StoredType, AnswerType, key
  <2>2. CallType' /\ AnswerType'
    BY <1>12
    DEF Fetch, Modified, Go, CallType, AnswerType, Call, StoredType
  <2>3. QED
    BY <1>12, <2>1, <2>2, RecordFrame, ReaderFrame, OriginFrame, ValueFrame DEF Fetch
<1>13. ASSUME NEW v \in Body, NEW headers \in Responses, NEW confused \in BOOLEAN,
              Answer(v, headers, confused)
       PROVE  TypeInv'
  <2>1. CallType'
    BY <1>13 DEF Answer, Go, CallType
  <2>2. now - Header(headers, "age", 0) \in Int
    BY ResponsesAssumption, EntryFacts DEF StoredType
  <2>3. AnswerType'
    BY <1>13, <2>2, StampedHeaders DEF Answer, AnswerType
  <2>4. QED
    BY <1>13, <2>1, <2>3, StoredFrame, RecordFrame, ReaderFrame, OriginFrame, ValueFrame
    DEF Answer, Files
<1>14. QED
  BY <1>1, <1>2, <1>3, <1>4, <1>5, <1>6, <1>7, <1>8, <1>9, <1>10, <1>11, <1>12, <1>13
  DEF OpenUrl

LEMMA DeterministicType ==
  ASSUME TypeInv, OpenDeterministic, UNCHANGED origin
  PROVE  TypeInv'
<1> USE DEF TypeInv
<1>1. ASSUME NEW p \in Proc, ClaimValue(p) PROVE TypeInv'
  <2>1. CallType' /\ AnswerType'
    BY <1>1 DEF ClaimValue, Claim, CallType, AnswerType
  <2>2. QED
    BY <1>1, <2>1, StoredFrame, RecordFrame, ReaderFrame, OriginFrame, ValueFrame
    DEF ClaimValue, Claim
<1>2. CASE FindValue
  <2>1. CallType' /\ AnswerType'
    BY <1>2 DEF FindValue, Step, CallType, AnswerType, Call, ValueType
  <2>2. QED
    BY <1>2, <2>1, StoredFrame, RecordFrame, ReaderFrame, OriginFrame, ValueFrame
    DEF FindValue, Rest
<1>3. CASE ReopenValue
  <2>1. CallType' /\ AnswerType' /\ ReaderType'
    BY <1>3, YieldType DEF ReopenValue, StoredType
  <2>2. QED
    BY <1>3, <2>1, StoredFrame, RecordFrame, OriginFrame, ValueFrame DEF ReopenValue
<1>4. CASE Refused
  BY <1>4, ReleaseType, StoredFrame, RecordFrame, ReaderFrame, OriginFrame, ValueFrame
  DEF Refused, Rest
<1>5. CASE Conflict
  <2>1. ValueType'
    BY <1>5 DEF Conflict, ValueType
  <2>2. QED
    BY <1>5, <2>1, ReleaseType, StoredFrame, RecordFrame, ReaderFrame, OriginFrame
    DEF Conflict, Rest
<1>6. CASE RememberIdentity
  <2>1. ValueType' /\ CallType' /\ AnswerType'
    BY <1>6 DEF RememberIdentity, Step, ValueType, CallType, AnswerType
  <2>2. QED
    BY <1>6, <2>1, StoredFrame, RecordFrame, ReaderFrame, OriginFrame
    DEF RememberIdentity, Rest
<1>7. CASE NameEntry
  <2>1. ValueType' /\ CallType' /\ AnswerType'
    BY <1>7 DEF NameEntry, Step, ValueType, CallType, AnswerType, Call
  <2>2. QED
    BY <1>7, <2>1, StoredFrame, RecordFrame, ReaderFrame, OriginFrame DEF NameEntry, Rest
<1>8. CASE OpenValue
  <2>1. CallType' /\ AnswerType' /\ ReaderType'
    BY <1>8, YieldType DEF OpenValue, StoredType
  <2>2. QED
    BY <1>8, <2>1, StoredFrame, RecordFrame, OriginFrame, ValueFrame DEF OpenValue
<1>9. ASSUME NEW body \in Body, Produce(body) PROVE TypeInv'
  <2>1. CallType' /\ AnswerType'
    BY <1>9 DEF Produce, Step, CallType, AnswerType, Call
  <2>2. QED
    BY <1>9, <2>1, StoredFrame, RecordFrame, ReaderFrame, OriginFrame, ValueFrame
    DEF Produce, Rest
<1>10. ASSUME NEW e \in Entry, ImportValue(e) PROVE TypeInv'
  <2>1. StoredType'
    BY <1>10 DEF ImportValue, Import, StoredType, CallType, key
  <2>2. CallType' /\ AnswerType'
    BY <1>10 DEF ImportValue, Step, CallType, AnswerType, Call
  <2>3. QED
    BY <1>10, <2>1, <2>2, RecordFrame, ReaderFrame, OriginFrame, ValueFrame
    DEF ImportValue
<1>11. QED
  BY <1>1, <1>2, <1>3, <1>4, <1>5, <1>6, <1>7, <1>8, <1>9, <1>10
  DEF OpenDeterministic

LEMMA ChangeType ==
  ASSUME TypeInv, ChangeBody, UNCHANGED value
  PROVE  TypeInv'
<1>1. OriginType'
  BY StoreAssumption DEF TypeInv, StoredType, OriginType, ChangeBody, Body
<1>2. QED
  BY <1>1, StoredFrame, RecordFrame, CallsFrame, ReaderFrame, ValueFrame
  DEF TypeInv, ChangeBody

-----------------------------------------------------------------------------
(* No body is staler than its response permits.                             *)

LEMMA InitUrl == Init => UrlInv
BY InitType, EntryFacts
DEF Init, StoreInit, UrlInv, RecordInv, CallInv, AnswerInv, OpenInv, ReaderInv, NoCall,
    NoReader

(* An entry that is still there is still the same. *)
Same(e) == e \in retained' => e \in retained /\ contents'[e] = contents[e]

LEMMA RecordKept ==
  ASSUME RecordInv, UNCHANGED <<now, record, origin>>, Same(record.entry)
  PROVE  RecordInv'
BY DEF RecordInv, Same, origin

LEMMA OpenKept ==
  ASSUME OpenInv, UNCHANGED <<calls, origin>>, Same(call.entry)
  PROVE  OpenInv'
BY DEF OpenInv, Same, origin, calls

LEMMA CallKept ==
  ASSUME CallInv, AnswerInv, UNCHANGED <<now, record, calls, origin>>
  PROVE  CallInv' /\ AnswerInv'
BY DEF CallInv, AnswerInv, origin, calls

LEMMA ReaderKept ==
  ASSUME ReaderInv, UNCHANGED <<now, reader, origin>>
  PROVE  ReaderInv'
BY DEF ReaderInv, origin

LEMMA Unmoved ==
  ASSUME UNCHANGED store, NEW e
  PROVE  Same(e)
BY DEF Same, store

LEMMA Released ==
  ASSUME TypeInv, Release, now' = now
  PROVE  CallInv' /\ AnswerInv' /\ OpenInv'
<1>1. 0 <= now
  BY DEF TypeInv, StoredType, Time
<1>2. QED BY <1>1 DEF Release, NoCall, CallInv, AnswerInv, OpenInv

LEMMA Yielded ==
  ASSUME TypeInv, ReaderInv, now' = now, UNCHANGED origin, NEW e,
         NEW body \in Body, NEW since \in Int, since <= now, since <= retired[body],
         Yield(e, body, since)
  PROVE  CallInv' /\ AnswerInv' /\ OpenInv' /\ ReaderInv'
<1>1. ReaderInv'
  BY DEF Yield, ReaderInv, TypeInv, ReaderType, origin
<1>2. QED BY <1>1, Released DEF Yield

LEMMA StoreUrl ==
  ASSUME UrlInv, StoreNext, UNCHANGED <<origin, value>>
  PROVE  UrlInv'
<1> USE DEF UrlInv
<1>0. TypeInv'
  BY StoreType
<1>1. CASE Tick
  <2>1. now \in Int /\ now' = now + 1
    BY <1>1 DEF Tick, TypeInv, StoredType, Time
  <2>2. RecordInv'
    BY <1>1, <2>1, EntryFacts
    DEF Tick, RecordInv, store, key, origin, TypeInv, RecordType, Time
  <2>3. CallInv'
    BY <1>1, <2>1 DEF Tick, CallInv, calls, TypeInv, CallType, Call, Time
  <2>4. AnswerInv' /\ OpenInv'
    BY <1>1 DEF Tick, AnswerInv, OpenInv, calls, store, origin
  <2>5. ReaderInv'
    BY <1>1, <2>1 DEF Tick, ReaderInv, origin, TypeInv, ReaderType
  <2>6. QED BY <1>0, <2>2, <2>3, <2>4, <2>5
<1>2. CASE Collect
  <2>1. \A e : Same(e)
    BY <1>2 DEF Collect, Forget, Same, TypeInv, StoredType
  <2>2. QED
    BY <1>0, <1>2, <2>1, RecordKept, OpenKept, CallKept, ReaderKept DEF Collect
<1>3. CASE Abandon
  BY <1>0, <1>3, Unmoved, RecordKept, Released, ReaderKept DEF Abandon
<1>4. ASSUME NEW pressure \in BOOLEAN, PlanCollection(pressure) PROVE UrlInv'
  BY <1>0, <1>4, Unmoved, RecordKept, OpenKept, CallKept, ReaderKept DEF PlanCollection
<1>5. ASSUME NEW p \in Proc, NEW consumed \in BOOLEAN, CloseReader(p, consumed)
      PROVE  UrlInv'
  <2>1. ReaderInv'
    BY <1>5 DEF CloseReader, ReaderInv, NoReader, TypeInv, ReaderType, StoredType, Time,
       origin
  <2>2. QED
    BY <1>0, <1>5, <2>1, Unmoved, RecordKept, OpenKept, CallKept DEF CloseReader
<1>6. QED BY <1>1, <1>2, <1>3, <1>4, <1>5 DEF StoreNext

LEMMA AgeIsNat ==
  ASSUME NEW headers, HeadersOK(headers)
  PROVE  AgeOf(headers) \in Nat
BY DEF HeadersOK, AgeOf

(* The answer was current at the instant it is said to have been. *)
LEMMA SinceIsCurrent ==
  ASSUME UrlInv, pc \in {"answered", "record"}
  PROVE  /\ Since \in Int /\ Since <= now /\ Since <= retired[answer.version]
         /\ Since = call.requested - AgeOf(answer.headers)
         /\ AgeOf(answer.headers) \in Nat
         /\ answer.version \in Body
         /\ call.requested \in Time /\ now \in Time
<1>1. /\ answer.version \in Body /\ AgeOf(answer.headers) \in Nat
      /\ call.requested - AgeOf(answer.headers) <= retired[answer.version]
  BY AgeIsNat DEF UrlInv, TypeInv, AnswerType, AnswerInv
<1>2. call.requested \in Time /\ now \in Time /\ call.requested <= now
  BY DEF UrlInv, TypeInv, StoredType, CallType, Call, CallInv
<1>3. Since = call.requested - AgeOf(answer.headers)
  BY DEF Since, AgeOf
<1>4. QED BY <1>1, <1>2, <1>3 DEF Time

(* A confirmed 304 is about the body that is stored. *)
LEMMA ConfirmedIsStored ==
  ASSUME UrlInv, NotModified, Confirmed, record.entry \in retained
  PROVE  /\ record # NoRecord
         /\ contents[record.entry] = answer.version
         /\ record.headers["etag"] = answer.version
BY DEF UrlInv, NotModified, Confirmed, AnswerInv, RecordInv

LEMMA OpenUrlStep ==
  ASSUME UrlInv, OpenUrl, UNCHANGED value
  PROVE  UrlInv'
<1>0. TypeInv'
  BY UrlType DEF UrlInv
<1>1. CASE Reuse
  <2>1. /\ record # NoRecord /\ record.entry \in retained /\ HeadersOK(record.headers)
        /\ record.requested \in Int /\ record.responded \in Int /\ now \in Int
        /\ record.requested <= now /\ 0 <= now
        /\ record.requested - AgeOf(record.headers) <= retired[contents[record.entry]]
        /\ retired[contents[record.entry]] \in Int
    BY <1>1 DEF Reuse, Usable, UrlInv, TypeInv, RecordType, StoredType, OriginType,
       RecordInv, Time
  <2> DEFINE since == now - Lifetime(record.headers, record.responded) + 1
  <2>2. since \in Int /\ since <= now /\ since <= retired[contents[record.entry]]
    BY <1>1, <2>1, FreshIsYoung, LifetimeType, AgeIsNat DEF Reuse, FreshNow, AgeOf
  <2>3. CallInv' /\ AnswerInv' /\ OpenInv'
    <3>1. /\ call'.entry = record.entry /\ call'.since = since /\ call'.requested = 0
          /\ pc' = "open"
      BY <1>1 DEF Reuse, Opening, Go, NoCall
    <3>2. UNCHANGED <<now, retained, contents, retired>>
      BY <1>1 DEF Reuse, Files, store, origin
    <3> HIDE DEF since
    <3>3. QED BY <2>1, <2>2, <3>1, <3>2 DEF CallInv, AnswerInv, OpenInv
  <2>4. QED
    BY <1>0, <1>1, <2>3, Unmoved, RecordKept, ReaderKept DEF Reuse, Files, UrlInv
<1>2. CASE GoOnline
  <2>1. CallInv' /\ AnswerInv' /\ OpenInv'
    BY <1>2
    DEF GoOnline, Go, Files, Usable, UrlInv, TypeInv, CallType, Call, CallInv, AnswerInv,
        OpenInv
  <2>2. QED
    BY <1>0, <1>2, <2>1, Unmoved, RecordKept, ReaderKept DEF GoOnline, Files, UrlInv
<1>3. CASE Send
  <2>1. CallInv' /\ AnswerInv' /\ OpenInv'
    BY <1>3
    DEF Send, Go, Files, UrlInv, TypeInv, CallType, StoredType, Time, Call, CallInv,
        AnswerInv, OpenInv
  <2>2. QED
    BY <1>0, <1>3, <2>1, Unmoved, RecordKept, ReaderKept DEF Send, Files, UrlInv
<1>4. CASE AskAgain
  <2>1. CallInv' /\ AnswerInv' /\ OpenInv'
    BY <1>4
    DEF AskAgain, Go, Files, NoCall, UrlInv, TypeInv, StoredType, Time, CallInv, AnswerInv,
        OpenInv
  <2>2. QED
    BY <1>0, <1>4, <2>1, Unmoved, RecordKept, ReaderKept DEF AskAgain, Files, UrlInv
<1>5. CASE Revalidate
  <2>1. /\ record # NoRecord /\ contents[record.entry] = answer.version
        /\ record.headers["etag"] = answer.version /\ record.entry \in retained
    BY <1>5, ConfirmedIsStored DEF Revalidate
  <2>2. /\ AgeOf(answer.headers) <= AgeOf(Combined) /\ AgeOf(Combined) \in Nat
        /\ "etag" \in DOMAIN Combined => Combined["etag"] = answer.version
    BY <1>5, <2>1, CombinedHeaders, AgeIsNat
    DEF Revalidate, NotModified, UrlInv, TypeInv, RecordType, AnswerType, AnswerInv
  <2>3. /\ Since \in Int /\ Since <= now /\ Since <= retired[answer.version]
        /\ Since = call.requested - AgeOf(answer.headers)
        /\ AgeOf(answer.headers) \in Nat /\ call.requested \in Int /\ 0 <= now
        /\ retired[answer.version] \in Int
    BY <1>5, SinceIsCurrent DEF Revalidate, NotModified, Time, UrlInv, TypeInv, OriginType
  <2>4. UNCHANGED <<now, retained, contents, retired>>
    BY <1>5 DEF Revalidate, store, origin
  <2>5. RecordInv'
    <3>1. CASE MayStore(Combined)
      <4>1. record' = [entry |-> record.entry, headers |-> Combined,
                       requested |-> call.requested, responded |-> now]
        BY <1>5, <3>1 DEF Revalidate, Remember
      <4>2. call.requested <= now
        BY DEF UrlInv, CallInv
      <4>3. call.requested - AgeOf(Combined) <= retired[answer.version]
        BY <2>2, <2>3
      <4>4. QED BY <2>1, <2>2, <2>4, <4>1, <4>2, <4>3 DEF RecordInv
    <3>2. CASE ~ MayStore(Combined)
      BY <1>5, <3>2 DEF Revalidate, Remember, RecordInv
    <3>3. QED BY <3>1, <3>2
  <2>6. CallInv' /\ AnswerInv' /\ OpenInv'
    <3>1. /\ call'.entry = record.entry /\ call'.since = Since /\ call'.requested = 0
          /\ pc' = "open"
      BY <1>5 DEF Revalidate, Opening, Go, NoCall
    <3>2. QED BY <2>1, <2>3, <2>4, <3>1 DEF CallInv, AnswerInv, OpenInv
  <2>7. QED
    BY <1>0, <1>5, <2>5, <2>6, ReaderKept DEF Revalidate, UrlInv
<1>6. CASE FetchTransient
  <2>1. RecordInv'
    BY <1>6 DEF FetchTransient, RecordInv
  <2>2. CallInv' /\ AnswerInv' /\ OpenInv' /\ ReaderInv'
    BY <1>6, SinceIsCurrent, Yielded DEF FetchTransient, Modified, UrlInv
  <2>3. QED BY <1>0, <2>1, <2>2 DEF UrlInv
<1>7. CASE WriteRecord
  <2>1. /\ Since \in Int /\ Since <= now /\ Since <= retired[answer.version]
        /\ Since = call.requested - AgeOf(answer.headers)
        /\ call.requested <= now /\ 0 <= now
    BY <1>7, SinceIsCurrent DEF WriteRecord, Time, UrlInv, CallInv
  <2>2. UNCHANGED <<now, retained, contents, retired>>
    BY <1>7 DEF WriteRecord, store, origin
  <2>3. call.entry \in retained => contents[call.entry] = answer.version
    BY <1>7 DEF WriteRecord, UrlInv, OpenInv
  <2>4. RecordInv'
    <3>1. CASE MayStore(answer.headers)
      <4>1. record' = [entry |-> call.entry, headers |-> answer.headers,
                       requested |-> call.requested, responded |-> call.responded]
        BY <1>7, <3>1 DEF WriteRecord, Remember
      <4>2. "etag" \in DOMAIN answer.headers => answer.headers["etag"] = answer.version
        BY <1>7 DEF WriteRecord, UrlInv, AnswerInv
      <4>3. QED BY <2>1, <2>2, <2>3, <4>1, <4>2 DEF RecordInv
    <3>2. CASE ~ MayStore(answer.headers)
      BY <1>7, <3>2 DEF WriteRecord, Remember, RecordInv
    <3>3. QED BY <3>1, <3>2
  <2>5. CallInv' /\ AnswerInv' /\ OpenInv'
    <3>1. /\ call'.entry = call.entry /\ call'.since = Since /\ call'.requested = 0
          /\ pc' = "open"
      BY <1>7 DEF WriteRecord, Opening, Go, NoCall
    <3>2. QED BY <2>1, <2>2, <2>3, <3>1 DEF CallInv, AnswerInv, OpenInv
  <2>6. QED
    BY <1>0, <1>7, <2>4, <2>5, ReaderKept DEF WriteRecord, UrlInv
<1>8. CASE OpenEntry
  <2>1. /\ contents[call.entry] \in Body /\ call.since \in Int /\ call.since <= now
        /\ call.since <= retired[contents[call.entry]]
    BY <1>8 DEF OpenEntry, UrlInv, TypeInv, StoredType, CallType, Call, CallInv, OpenInv
  <2>2. QED
    BY <1>0, <1>8, <2>1, Unmoved, RecordKept, Yielded DEF OpenEntry, UrlInv
<1>9. CASE Retry
  <2>1. CallInv' /\ AnswerInv' /\ OpenInv'
    BY <1>9
    DEF Retry, Go, Files, NoCall, UrlInv, TypeInv, StoredType, Time, CallInv, AnswerInv,
        OpenInv
  <2>2. QED
    BY <1>0, <1>9, <2>1, Unmoved, RecordKept, ReaderKept DEF Retry, Files, UrlInv
<1>10. CASE Miss
  BY <1>0, <1>10, Unmoved, RecordKept, Released, ReaderKept DEF Miss, Files, UrlInv
<1>11. ASSUME NEW p \in Proc, ClaimUrl(p) PROVE UrlInv'
  <2>1. CallInv' /\ AnswerInv' /\ OpenInv'
    BY <1>11 DEF ClaimUrl, Claim, UrlInv, CallInv, AnswerInv, OpenInv
  <2>2. QED
    BY <1>0, <1>11, <2>1, Unmoved, RecordKept, ReaderKept DEF ClaimUrl, Claim, UrlInv
<1>12. ASSUME NEW e \in Entry, Fetch(e) PROVE UrlInv'
  <2>1. Same(record.entry) /\ contents'[e] = answer.version
    BY <1>12 DEF Fetch, NewEntry, Import, Same, UrlInv, TypeInv, StoredType
  <2>2. /\ call'.entry = e /\ call'.since = call.since /\ pc' = "record"
        /\ call'.requested = call.requested /\ pc = "answered"
    BY <1>12 DEF Fetch, Modified, Go, UrlInv, TypeInv, CallType, Call
  <2>3. CallInv' /\ AnswerInv' /\ OpenInv'
    BY <1>12, <2>1, <2>2 DEF Fetch, UrlInv, CallInv, AnswerInv, OpenInv, origin
  <2>4. QED
    BY <1>0, <1>12, <2>1, <2>3, RecordKept, ReaderKept DEF Fetch, UrlInv
<1>13. ASSUME NEW v \in Body, NEW headers \in Responses, NEW confused \in BOOLEAN,
              Answer(v, headers, confused)
       PROVE  UrlInv'
  <2> DEFINE produced == now - Header(headers, "age", 0)
  <2>1. /\ produced \in Int /\ now \in Int /\ call.requested \in Int
        /\ call.requested <= now /\ retired[v] \in Int
    BY ResponsesAssumption
    DEF UrlInv, TypeInv, StoredType, CallType, Call, CallInv, OriginType, Time
  <2>2. produced <= retired[v]
    BY <1>13 DEF Answer, WasCurrent
  <2>3. /\ answer'.headers = Stamp(headers, v, produced) /\ answer'.version = v
        /\ answer'.unchanged = (Conditional /\ (confused \/ record.headers["etag"] = v))
    BY <1>13 DEF Answer
  <2>4. /\ AgeOf(answer'.headers) = Header(headers, "age", 0)
        /\ "etag" \in DOMAIN answer'.headers => answer'.headers["etag"] = v
        /\ "etag" \in DOMAIN answer'.headers <=> "etag" \in DOMAIN headers
    BY <2>1, <2>3, StampedHeaders DEF AgeOf
  <2>5. Header(headers, "age", 0) \in Nat
    BY ResponsesAssumption
  <2>6. call.requested - AgeOf(answer'.headers) <= retired[v]
    BY <2>1, <2>2, <2>4, <2>5
  <2>7. UNCHANGED <<call, record, retired, now>> /\ pc = "sent" /\ pc' = "answered"
        /\ (confused => "etag" \in DOMAIN headers)
    BY <1>13 DEF Answer, Go, Files, origin
  <2> HIDE DEF produced
  <2>8. AnswerInv'
    BY <2>3, <2>4, <2>6, <2>7 DEF AnswerInv, UrlInv, Conditional
  <2>9. CallInv' /\ OpenInv'
    BY <2>7 DEF CallInv, OpenInv, UrlInv
  <2>10. QED
    BY <1>0, <1>13, <2>8, <2>9, Unmoved, RecordKept, ReaderKept DEF Answer, Files, UrlInv
<1>14. QED
  BY <1>1, <1>2, <1>3, <1>4, <1>5, <1>6, <1>7, <1>8, <1>9, <1>10, <1>11, <1>12, <1>13
  DEF OpenUrl

LEMMA ChangeStep ==
  ASSUME UrlInv, ChangeBody, UNCHANGED value
  PROVE  UrlInv'
<1>0. TypeInv'
  BY ChangeType DEF UrlInv
<1>1. /\ now \in Int /\ version \in Body /\ retired \in [Body -> Time]
      /\ retired' = [retired EXCEPT ![version] = now]
      /\ UNCHANGED <<now, retained, contents, record, holder, pc, call, answer, reader>>
  BY DEF ChangeBody, store, calls, UrlInv, TypeInv, StoredType, OriginType, Time
(* Whatever was current at an instant that has passed still was. *)
<1>2. ASSUME NEW v, NEW at \in Int, at <= now, at <= retired[v]
      PROVE  at <= retired'[v]
  BY <1>1, <1>2
<1>3. RecordInv'
  BY <1>1, <1>2, AgeIsNat, EntryFacts DEF RecordInv, UrlInv, TypeInv, RecordType, Time
<1>4. CallInv'
  BY <1>1 DEF CallInv, UrlInv
<1>5. AnswerInv'
  <2>1. CASE pc \in {"answered", "record"}
    BY <1>1, <1>2, <2>1, SinceIsCurrent DEF AnswerInv, UrlInv
  <2>2. CASE pc \notin {"answered", "record"}
    BY <1>1, <2>2 DEF AnswerInv, UrlInv
  <2>3. QED BY <2>1, <2>2
<1>6. OpenInv'
  BY <1>1, <1>2 DEF OpenInv, CallInv, UrlInv, TypeInv, CallType, Call
<1>7. ReaderInv'
  BY <1>1, <1>2 DEF ReaderInv, UrlInv, TypeInv, ReaderType
<1>8. QED BY <1>0, <1>3, <1>4, <1>5, <1>6, <1>7 DEF UrlInv

LEMMA DeterministicStep ==
  ASSUME UrlInv, OpenDeterministic, UNCHANGED origin
  PROVE  UrlInv'
<1>0. TypeInv'
  BY DeterministicType DEF UrlInv
<1>1. 0 <= now /\ 0 \in Int /\ \A v \in Body : 0 <= retired[v]
  BY DEF UrlInv, TypeInv, StoredType, OriginType, Time
<1>2. ASSUME pc' \in {"find", "reopen", "compare", "import", "name", "read"},
             UNCHANGED now, call'.requested = call.requested, call'.since = call.since
      PROVE  CallInv' /\ AnswerInv' /\ OpenInv'
  BY <1>2 DEF CallInv, AnswerInv, OpenInv, UrlInv
<1>3. ASSUME NEW p \in Proc, ClaimValue(p) PROVE UrlInv'
  BY <1>0, <1>2, <1>3, Unmoved, RecordKept, ReaderKept DEF ClaimValue, Claim, UrlInv
<1>4. CASE FindValue
  <2>1. call'.requested = call.requested /\ call'.since = call.since
    BY <1>4 DEF FindValue, UrlInv, TypeInv, CallType, Call
  <2>2. QED
    BY <1>0, <1>2, <1>4, <2>1, Unmoved, RecordKept, ReaderKept
    DEF FindValue, Step, Rest, UrlInv
<1>5. CASE ReopenValue
  BY <1>0, <1>1, <1>5, Unmoved, RecordKept, Yielded
  DEF ReopenValue, UrlInv, TypeInv, StoredType
<1>6. CASE Refused
  BY <1>0, <1>6, Unmoved, RecordKept, Released, ReaderKept DEF Refused, Rest, UrlInv
<1>7. CASE Conflict
  BY <1>0, <1>7, Unmoved, RecordKept, Released, ReaderKept DEF Conflict, Rest, UrlInv
<1>8. CASE RememberIdentity
  BY <1>0, <1>2, <1>8, Unmoved, RecordKept, ReaderKept
  DEF RememberIdentity, Step, Rest, UrlInv
<1>9. CASE NameEntry
  BY <1>0, <1>2, <1>9, Unmoved, RecordKept, ReaderKept DEF NameEntry, Step, Rest, UrlInv
<1>10. CASE OpenValue
  BY <1>0, <1>1, <1>10, Unmoved, RecordKept, Yielded
  DEF OpenValue, UrlInv, TypeInv, StoredType
<1>11. ASSUME NEW body \in Body, Produce(body) PROVE UrlInv'
  <2>1. call'.requested = call.requested /\ call'.since = call.since
    BY <1>11 DEF Produce, UrlInv, TypeInv, CallType, Call
  <2>2. QED
    BY <1>0, <1>2, <1>11, <2>1, Unmoved, RecordKept, ReaderKept
    DEF Produce, Step, Rest, UrlInv
<1>12. ASSUME NEW e \in Entry, ImportValue(e) PROVE UrlInv'
  <2>1. call'.requested = call.requested /\ call'.since = call.since
    BY <1>12 DEF ImportValue, UrlInv, TypeInv, CallType, Call
  <2>2. Same(record.entry)
    BY <1>12 DEF ImportValue, NewEntry, Import, Same, UrlInv, TypeInv, StoredType
  <2>3. QED
    BY <1>0, <1>2, <1>12, <2>1, <2>2, RecordKept, ReaderKept DEF ImportValue, Step, UrlInv
<1>13. QED
  BY <1>3, <1>4, <1>5, <1>6, <1>7, <1>8, <1>9, <1>10, <1>11, <1>12
  DEF OpenDeterministic

LEMMA UrlStep == UrlInv /\ [Next]_vars => UrlInv'
<1> SUFFICES ASSUME UrlInv, [Next]_vars PROVE UrlInv'
  OBVIOUS
<1>1. CASE UNCHANGED vars
  BY <1>1
  DEF vars, key, store, calls, origin, UrlInv, TypeInv, StoredType, RecordType, CallType,
      AnswerType, ReaderType, OriginType, ValueType, RecordInv, CallInv, AnswerInv,
      OpenInv, ReaderInv
<1>2. CASE Next
  BY <1>2, StoreUrl, OpenUrlStep, ChangeStep, DeterministicStep DEF Next
<1>3. QED BY <1>1, <1>2

LEMMA UrlCorrect == Spec => []UrlInv
BY InitUrl, UrlStep, PTL DEF Spec

(* The records, locals and readers of the calls always have their types. *)
THEOREM AcquiredTypes == Spec => []TypeOK
BY UrlCorrect, Typed, PTL DEF UrlInv

(* For any threads, headers, rules and bounds, and whatever crashes or is    *)
(* collected in between: what a caller was given was the body at an instant *)
(* that its response permits.                                               *)
THEOREM ReadersAreNeverStale == Spec => []NeverStale
<1>1. UrlInv => NeverStale
  BY DEF UrlInv, ReaderInv, NeverStale
<1>2. QED BY <1>1, UrlCorrect, PTL

(* The body of a stored response is the one its ETag names. *)
THEOREM RecordsDescribeEntries == Spec => []RecordDescribesEntry
<1>1. UrlInv => RecordDescribesEntry
  BY EntryFacts DEF UrlInv, TypeInv, StoredType, RecordInv, RecordDescribesEntry, NoRecord
<1>2. QED BY <1>1, UrlCorrect, PTL

-----------------------------------------------------------------------------
(* A deterministic value is one value.                                      *)

LEMMA InitValue == Init => ValueInv
BY DEF Init, StoreInit, ValueInv, OneValue

LEMMA StoreValue ==
  ASSUME UrlInv, ValueInv, StoreNext, UNCHANGED <<origin, value>>
  PROVE  ValueInv'
<1> USE DEF ValueInv, OneValue, key, store, calls
<1>1. CASE Tick
  BY <1>1 DEF Tick
<1>2. CASE Collect
  <2>1. retained' \subseteq retained /\ \A e \in retained' : contents'[e] = contents[e]
    BY <1>2 DEF Collect, Forget, UrlInv, TypeInv, StoredType
  <2>2. QED BY <1>2, <2>1 DEF Collect
<1>3. CASE Abandon
  BY <1>3 DEF Abandon, Release
<1>4. ASSUME NEW pressure \in BOOLEAN, PlanCollection(pressure) PROVE ValueInv'
  BY <1>4 DEF PlanCollection
<1>5. ASSUME NEW p \in Proc, NEW consumed \in BOOLEAN, CloseReader(p, consumed)
      PROVE  ValueInv'
  BY <1>5 DEF CloseReader
<1>6. QED BY <1>1, <1>2, <1>3, <1>4, <1>5 DEF StoreNext

(* The origin and the calls of a URL have nothing to do with values. *)
LEMMA UrlLeavesValues ==
  ASSUME ValueInv, OpenUrl \/ ChangeBody, UNCHANGED value
  PROVE  ValueInv'
<1>1. source = "download" /\ UNCHANGED source
  BY DEF OpenUrl, ChangeBody, Reuse, GoOnline, Send, AskAgain, NotModified, Revalidate,
     FetchTransient, Modified, WriteRecord, OpenEntry, Retry, Miss, ClaimUrl, Claim, Fetch,
     Answer, Files, key, ValueInv
<1>2. pc' \notin {"find", "reopen", "compare", "import", "name", "read"}
  BY DEF OpenUrl, ChangeBody, Reuse, GoOnline, Send, AskAgain, NotModified, Revalidate,
     FetchTransient, Modified, WriteRecord, OpenEntry, Retry, Miss, ClaimUrl, Claim, Fetch,
     Answer, Opening, Go, Yield, Release, calls, ValueInv
<1>3. QED BY <1>1, <1>2 DEF ValueInv, OneValue

LEMMA DeterministicValue ==
  ASSUME UrlInv, ValueInv, OpenDeterministic, UNCHANGED origin
  PROVE  /\ ValueInv'
         /\ value # NoValue => /\ value'.object = value.object
                               /\ value.invalidated => value'.invalidated
<1> DEFINE Permanent == value # NoValue => /\ value'.object = value.object
                                           /\ value.invalidated => value'.invalidated
<1> USE DEF ValueInv, OneValue, key, store, calls, Step, Rest
<1>0. \A e \in retained : contents[e] \in Body
  BY DEF UrlInv, TypeInv, StoredType
<1>1. ASSUME NEW p \in Proc, ClaimValue(p) PROVE ValueInv' /\ Permanent
  BY <1>1 DEF ClaimValue, Claim
<1>2. CASE FindValue
  BY <1>2 DEF FindValue
<1>3. CASE ReopenValue
  BY <1>3 DEF ReopenValue, Yield, Release
<1>4. CASE Refused
  BY <1>4 DEF Refused, Release
<1>5. CASE Conflict
  <2>1. value'.object = value.object /\ value'.invalidated
    BY <1>5 DEF Conflict, UrlInv, TypeInv, ValueType
  <2>2. QED BY <1>5, <2>1 DEF Conflict, Release
<1>6. CASE RememberIdentity
  <2>1. value'.object = call.body /\ value'.invalidated = value.invalidated
    BY <1>6 DEF RememberIdentity, UrlInv, TypeInv, ValueType
  <2>2. value = NoValue => retained = {}
    BY <1>0, <1>6, EntryFacts DEF NoValue, RememberIdentity
  <2>3. QED BY <1>6, <2>1, <2>2 DEF RememberIdentity
<1>7. CASE NameEntry
  <2>1. value'.object = value.object /\ ~ value'.invalidated /\ ~ value.invalidated
    BY <1>7 DEF NameEntry
  <2>2. QED BY <1>7, <2>1 DEF NameEntry
<1>8. CASE OpenValue
  BY <1>8 DEF OpenValue, Yield, Release
<1>9. ASSUME NEW body \in Body, Produce(body) PROVE ValueInv' /\ Permanent
  BY <1>9 DEF Produce
<1>10. ASSUME NEW e \in Entry, ImportValue(e) PROVE ValueInv' /\ Permanent
  <2>1. \A f \in retained' : contents'[f] = value.object
    BY <1>10 DEF ImportValue, Import, UrlInv, TypeInv, StoredType
  <2>2. call'.body = call.body
    BY <1>10 DEF ImportValue, UrlInv, TypeInv, CallType, Call
  <2>3. QED BY <1>10, <2>1, <2>2 DEF ImportValue
<1>11. QED
  BY <1>1, <1>2, <1>3, <1>4, <1>5, <1>6, <1>7, <1>8, <1>9, <1>10
  DEF OpenDeterministic

LEMMA ValueStep == UrlInv /\ ValueInv /\ [Next]_vars => ValueInv'
<1> SUFFICES ASSUME UrlInv, ValueInv, [Next]_vars PROVE ValueInv'
  OBVIOUS
<1>1. CASE UNCHANGED vars
  BY <1>1 DEF vars, key, store, calls, origin, ValueInv, OneValue
<1>2. CASE Next
  BY <1>2, StoreValue, UrlLeavesValues, DeterministicValue DEF Next
<1>3. QED BY <1>1, <1>2

LEMMA ValueCorrect == Spec => []ValueInv
BY UrlCorrect, InitValue, ValueStep, PTL DEF Spec

(* Whatever a provider returns and whatever is collected or cut short by a   *)
(* crash: all stored bytes of a value's key are the same.                   *)
THEOREM ValuesAreOne == Spec => []OneValue
BY ValueCorrect, PTL DEF ValueInv

(* Nothing replaces the identity of a value or forgets a conflict. *)
THEOREM IdentityIsPermanent == Spec => ValueIsPermanent
<1>1. UrlInv /\ ValueInv /\ [Next]_vars =>
        [ value # NoValue =>
            /\ value'.object = value.object
            /\ value.invalidated => value'.invalidated ]_value
  BY DeterministicValue DEF Next, vars
<1>2. QED BY <1>1, UrlCorrect, ValueCorrect, PTL DEF Spec, ValueIsPermanent

-----------------------------------------------------------------------------
(* Collections.                                                             *)

(* Only the collector ends a collection. *)
LEMMA OnlyCollect ==
  ASSUME [Next]_vars, collection' # collection, collection # NoCollection
  PROVE  Collect
BY DEF Next, vars, StoreNext, Tick, Abandon, PlanCollection, CloseReader, OpenUrl,
   ChangeBody, Reuse, GoOnline, Send, AskAgain, Revalidate, FetchTransient, WriteRecord,
   OpenEntry, Retry, Miss, ClaimUrl, Claim, Fetch, Answer, Files, OpenDeterministic,
   ClaimValue, FindValue, ReopenValue, Refused, Conflict, RememberIdentity, NameEntry,
   OpenValue, Produce, ImportValue, Rest

LEMMA FreshIsNotEligible ==
  ASSUME ValueInv, NEW at, NEW rule \in Rules, rule.retain = WhileFresh
  PROVE  FreshEntryIds(at) \cap EligibleEntries(at, FALSE) = {}
<1> SUFFICES ASSUME NEW e \in FreshEntryIds(at), e \in EligibleEntries(at, FALSE)
             PROVE  FALSE
  OBVIOUS
<1>1. source = "download"
  BY DEF FreshEntryIds, ValueInv
<1>2. rule.sources = {"download"}
  BY StoreAssumption DEF ValidRule
<1>3. Retained(Manifest(e), Rules, Manifests, FreshEntryIds(at), at)
  BY <1>1, <1>2 DEF Retained, Matches, Manifest
<1>4. ~ Retained(Manifest(e), Rules, Manifests, FreshEntryIds(at), at)
  BY DEF EligibleEntries, Eligible
<1>5. QED BY <1>3, <1>4

(* Where some rule keeps what is fresh, no ordinary collection takes the     *)
(* body of a response that is fresh at its instant.                         *)
THEOREM FreshBodiesAreKept ==
  ASSUME \E rule \in Rules : rule.retain = WhileFresh
  PROVE  Spec => FreshIsKept
<1>1. UrlInv /\ ValueInv /\ [Next]_vars =>
        [ collection # NoCollection /\ ~ collection.pressure
          /\ collection' = NoCollection
          => FreshEntryIds(collection.at) \subseteq retained' ]_<<store, collection>>
  <2> SUFFICES ASSUME UrlInv, ValueInv, [Next]_vars, collection # NoCollection,
                      ~ collection.pressure, collection' = NoCollection
               PROVE  FreshEntryIds(collection.at) \subseteq retained'
    OBVIOUS
  <2>1. Collect
    BY OnlyCollect
  <2>2. PICK rule \in Rules : rule.retain = WhileFresh
    OBVIOUS
  <2>3. FreshEntryIds(collection.at) \cap EligibleEntries(collection.at, FALSE) = {}
    BY <2>2, FreshIsNotEligible
  <2>4. FreshEntryIds(collection.at) \subseteq retained
    BY DEF FreshEntryIds
  <2>5. retained \ EligibleEntries(collection.at, FALSE) \subseteq retained'
    <3>1. collection.pressure = FALSE
      BY DEF UrlInv, TypeInv, StoredType
    <3>2. QED BY <2>1, <3>1 DEF Collect, Forget, Renewed
  <2>6. QED BY <2>3, <2>4, <2>5
<1>2. QED BY <1>1, UrlCorrect, ValueCorrect, PTL DEF Spec, FreshIsKept

-----------------------------------------------------------------------------
(* What RetainedBytes promises. *)

(* A step that leaves the entries alone may change who leases them. *)
LEMMA OnlyLeases ==
  ASSUME ReaderType', UNCHANGED retained
  PROVE  Bytes!ChangeRoots
<1>1. Leased' \subseteq Entry
  BY DEF ReaderType, Leased
<1>2. QED BY <1>1 DEF Bytes!ChangeRoots

LEMMA ImportIsAllowed ==
  ASSUME NEW e \in Entry, NEW body, NewEntry(e), Import(e, body), UNCHANGED reader
  PROVE  Bytes!Import(e)
<1>1. UNCHANGED Leased
  BY DEF Leased
<1>2. QED BY <1>1 DEF NewEntry, Import, Bytes!Import

(* The collector looks for leases again under its second claim, so that what *)
(* was leased since the plan stays, under pressure too.                     *)
LEMMA CollectIsAllowed ==
  ASSUME TypeInv, Collect
  PROVE  \E S \in SUBSET Entry : Bytes!Collect(S)
<1>1. PICK S \in SUBSET Renewed : retained' = retained \ S
  BY DEF Collect, Forget
<1>2. S \subseteq Entry /\ S \cap Leased = {}
  BY DEF Renewed, EligibleEntries, TypeInv, StoredType
<1>3. UNCHANGED Leased
  BY DEF Collect, Leased
<1>4. QED BY <1>1, <1>2, <1>3 DEF Bytes!Collect

(* Every other step of a call leaves the entries alone. *)
LEMMA CallLeavesEntries ==
  ASSUME OpenUrl \/ ChangeBody \/ OpenDeterministic,
         \A e \in Entry : ~ Fetch(e) /\ ~ ImportValue(e)
  PROVE  UNCHANGED retained
BY DEF OpenUrl, ChangeBody, Reuse, GoOnline, Send, AskAgain, Revalidate, FetchTransient,
   WriteRecord, OpenEntry, Retry, Miss, ClaimUrl, Claim, Answer, Files, store,
   OpenDeterministic, ClaimValue, FindValue, ReopenValue, Refused, Conflict,
   RememberIdentity, NameEntry, OpenValue, Produce, Rest

(* Current URLs and deterministic values take the store at its word: what    *)
(* their calls, readers and collections do to the entries is what           *)
(* RetainedBytes allows, so that an entry stays as long as it is leased,    *)
(* although its collection was planned before.                              *)
THEOREM LeasedBytesStay == Spec => Bytes!Spec
<1>1. Init => Bytes!Init
  BY DEF Init, StoreInit, Bytes!Init, Leased, NoReader
<1>2. UrlInv /\ UrlInv' /\ [Next]_vars => [Bytes!Next]_<<retained, Leased>>
  <2> SUFFICES ASSUME UrlInv, UrlInv', [Next]_vars
               PROVE  [Bytes!Next]_<<retained, Leased>>
    OBVIOUS
  <2>1. TypeInv /\ ReaderType'
    BY DEF UrlInv, TypeInv
  <2>2. CASE UNCHANGED retained
    BY <2>1, <2>2, OnlyLeases DEF Bytes!Next
  <2>3. CASE Collect
    BY <2>1, <2>3, CollectIsAllowed DEF Bytes!Next
  <2>4. ASSUME NEW e \in Entry, Fetch(e) \/ ImportValue(e)
        PROVE  Bytes!Next
    <3>1. PICK body : NewEntry(e) /\ Import(e, body) /\ UNCHANGED reader
      BY <2>4 DEF Fetch, ImportValue
    <3>2. QED BY <3>1, ImportIsAllowed DEF Bytes!Next
  <2>5. CASE StoreNext /\ ~ Collect
    <3>1. UNCHANGED retained
      BY <2>5 DEF StoreNext, Tick, Abandon, PlanCollection, CloseReader, store
    <3>2. QED BY <2>2, <3>1
  <2>6. CASE UNCHANGED vars
    <3>1. UNCHANGED retained
      BY <2>6 DEF vars, store
    <3>2. QED BY <2>2, <3>1
  <2>7. CASE OpenUrl \/ ChangeBody \/ OpenDeterministic
    BY <2>2, <2>4, <2>7, CallLeavesEntries
  <2>8. QED BY <2>3, <2>5, <2>6, <2>7 DEF Next
<1>3. QED BY <1>1, <1>2, UrlCorrect, PTL DEF Spec, Bytes!Spec
=============================================================================

---------------------------- MODULE HttpFreshness ----------------------------
(***************************************************************************)
(* response_freshness of reccy/runtime/http_freshness.py.                  *)
(*                                                                         *)
(* The headers of a response are a function from the names of those it has *)
(* to their parsed values: "control" to its directives, "vary" to "any"    *)
(* for a *, "date" and "expires" to instants, "age" to seconds.  A request *)
(* is the record of what its own headers ask for.  Numbers of seconds are   *)
(* below the 2^31 at which _delta caps them.                               *)
(***************************************************************************)
EXTENDS Integers

Absent == -1    \* a directive that is not there
Invalid == -2   \* one without a value that _delta accepts

NoControl == [noStore |-> FALSE, noCache |-> FALSE, maxAge |-> Absent]

Plain == [noStore |-> FALSE, noCache |-> FALSE, maxAge |-> Absent,
          onlyIfCached |-> FALSE]

Header(headers, name, default) ==
  IF name \in DOMAIN headers THEN headers[name] ELSE default

Control(headers) == Header(headers, "control", NoControl)

Larger(a, b) == IF a < b THEN b ELSE a

Date(headers, responded) == Header(headers, "date", responded)

(* An invalid max-age hides Expires. *)
Lifetime(headers, responded) ==
  IF Control(headers).maxAge >= 0 THEN Control(headers).maxAge
  ELSE IF Control(headers).maxAge = Absent /\ "expires" \in DOMAIN headers
    THEN Larger(0, headers["expires"] - Date(headers, responded))
    ELSE 0

(* A mistake: the response counts as new when it arrives. *)
AgeOnArrival(headers, requested, responded, at) ==
  Larger(Larger(0, responded - Date(headers, responded)),
         Header(headers, "age", 0))
  + (at - responded)

Age(headers, requested, responded, at) ==
  Larger(Larger(0, responded - Date(headers, responded)),
         Header(headers, "age", 0) + (responded - requested))
  + (at - responded)

Storable(headers, request) == ~ Control(headers).noStore /\ ~ request.noStore

VaryAny(headers) == Header(headers, "vary", "some") = "any"

Fresh(headers, request, requested, responded, at) ==
  LET age == Age(headers, requested, responded, at)
  IN  /\ Storable(headers, request) /\ ~ VaryAny(headers)
      /\ ~ Control(headers).noCache /\ ~ request.noCache
      /\ request.maxAge # Invalid
      /\ age < Lifetime(headers, responded)
      /\ request.maxAge # Absent => age <= request.maxAge
=============================================================================

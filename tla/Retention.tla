------------------------------ MODULE Retention ------------------------------
(***************************************************************************)
(* The retention rules of reccy/runtime/assets.py: which entries a         *)
(* collection may take.  An entry is [id, source, created, access]; a rule *)
(* is [sources, protect, retain, newest], its protect and retain an action *)
(* [kind, seconds], its newest a count or 0.  Categories, media kinds and  *)
(* tags select entries the way source kinds do and are left out; entries   *)
(* have one source key, so both forms of group_by are one group.           *)
(***************************************************************************)
EXTENDS Integers, FiniteSets

Never == -1   \* no access was recorded

Forever == [kind |-> "forever", seconds |-> 0]
WhileFresh == [kind |-> "while_fresh", seconds |-> 0]
NoAction == [kind |-> "none", seconds |-> 0]
Duration(kind, seconds) == [kind |-> kind, seconds |-> seconds]

(* RetentionRule.validate_rule, for what is not a matter of its type. *)
ValidRule(rule) ==
  /\ rule.protect # NoAction => rule.retain = NoAction /\ rule.newest = 0
  /\ rule.protect # NoAction \/ rule.retain # NoAction \/ rule.newest # 0
  /\ rule.protect # WhileFresh
  /\ rule.retain = WhileFresh => rule.sources = {"download"}
  /\ rule.newest # 0 => rule.retain # Forever

Matches(rule, entry) == entry.source \in rule.sources

(* _deadline: a rule since the access keeps nothing that was never read. *)
Deadline(action, entry) ==
  IF action.kind = "created" THEN entry.created + action.seconds
  ELSE IF entry.access = Never THEN entry.created
  ELSE entry.access + action.seconds

Lasts(action, entry, at) ==
  \/ action = Forever
  \/ action.kind \in {"created", "access"} /\ at < Deadline(action, entry)

(* _newest_matches: ties go to the larger ID. *)
Rank(entry, rule, entries) ==
  1 + Cardinality({other \in entries :
        /\ Matches(rule, other)
        /\ \/ other.created > entry.created
           \/ other.created = entry.created /\ other.id > entry.id})

Protected(entry, rules, at) ==
  \E rule \in rules : Matches(rule, entry) /\ Lasts(rule.protect, entry, at)

Retained(entry, rules, entries, fresh, at) ==
  \E rule \in rules :
    /\ Matches(rule, entry)
    /\ \/ Lasts(rule.retain, entry, at)
       \/ rule.retain = WhileFresh /\ entry.id \in fresh
       \/ rule.newest # 0 /\ Rank(entry, rule, entries) <= rule.newest

(* Pressure overrides what is only retained. *)
Eligible(entry, rules, entries, fresh, at, pressure) ==
  /\ ~ Protected(entry, rules, at)
  /\ pressure \/ ~ Retained(entry, rules, entries, fresh, at)
=============================================================================

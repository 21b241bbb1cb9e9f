------------------------- MODULE CaptureStoreProofs -------------------------
(***************************************************************************)
(* Theorems about CaptureStore for every set of sessions, entries,         *)
(* collectors and readers.                                                 *)
(*                                                                         *)
(* That a record keeps the bytes of its fragments is not inductive: it     *)
(* rests on the pins.  FragmentInv says which fragments are pinned at each *)
(* moment: those of the sessions still open and of every record on disk.   *)
(* CollectInv says what a collection under its claim is still allowed to   *)
(* unlink.                                                                 *)
(***************************************************************************)
EXTENDS CaptureStore, TLAPS

USE NamesAssumption DEF Kind, Record, assets, sessions, roots, collectors

(* A session keeps the pins of what it drained until a record of it, or     *)
(* both, have been collected; only a torn salvage loses them earlier.       *)
Keeps(s) ==
  \/ s \in open \ torn
  \/ \E kind \in Kind : <<kind, s>> \in records /\ s \notin torn

FragmentInv ==
  /\ \A s \in Session : s \in open \ torn /\ metadata # s =>
       \A kind \in Kind : <<kind, s>> \notin records
  /\ \A s \in Session : Keeps(s) => fragments[s] \subseteq retained \cap pins
  /\ \A s, t \in Session : s # t => fragments[s] \cap fragments[t] = {}
  /\ metadata \in Session => metadata \in open

CollectInv ==
  \A c \in Collector :
    /\ pc[c] \in {"records", "pins"} =>
         /\ metadata = c
         /\ listed[c] \subseteq records
         /\ listed[c] \cap RecordRoots = {}
         /\ released[c] \cap FragmentsOf(records \ listed[c]) = {}
         /\ \A s \in open \ torn : released[c] \cap fragments[s] = {}
    /\ pc[c] = "pins" => listed[c] = {}

IInv == TypeOK /\ FragmentInv /\ CollectInv /\ RootsResolve

LEMMA InitIInv == Init => IInv
<1> SUFFICES ASSUME Init PROVE IInv
  OBVIOUS
<1> QED
  BY DEF Init, Assets!Init, IInv, TypeOK, FragmentInv, Keeps, CollectInv, RootsResolve,
     RecordRoots, Leased

-----------------------------------------------------------------------------
(* Types. *)

LEMMA TypeStep == ASSUME TypeOK, [Next]_vars PROVE TypeOK'
<1> USE DEF TypeOK
<1>1. ASSUME NEW s \in Session, Capture(s) PROVE TypeOK'
  <2>1. ASSUME NEW e \in Entry, Drain(s, e) \/ FailDrain(s, e) PROVE TypeOK'
    BY <1>1, <2>1 DEF Capture, Drain, FailDrain, Assets!Import, Assets!ChangeRoots
  <2>2. ASSUME NEW kind \in Kind, PublishRecord(s, kind) PROVE TypeOK'
    BY <1>1, <2>2 DEF Capture, PublishRecord
  <2>3. ASSUME \/ SalvageRecovery(s) \/ SalvageCapture(s) \/ FailSalvage(s)
               \/ CrashSession(s)
        PROVE  TypeOK'
    BY <1>1, <2>3 DEF Capture, SalvageRecovery, SalvageCapture, FailSalvage, CrashSession
  <2> QED
    BY <1>1, <2>1, <2>2, <2>3 DEF Capture
<1>2. CASE UpdateRoot
  <2> USE <1>2 DEF UpdateRoot
  <2>1. ASSUME NEW r \in Reference, NEW s \in Session, SetReference(r, s) PROVE TypeOK'
    BY <2>1 DEF SetReference
  <2>2. ASSUME NEW r \in Reference, RemoveReference(r) \/ PinReference(r) PROVE TypeOK'
    BY <2>2 DEF RemoveReference, PinReference
  <2>3. ASSUME NEW s \in Session, RemovePin(s) PROVE TypeOK'
    BY <2>3 DEF RemovePin
  <2>4. ASSUME NEW d \in Reader, NEW record \in Record, OpenRecord(d, record)
        PROVE  TypeOK'
    BY <2>4 DEF OpenRecord
  <2>5. ASSUME NEW d \in Reader, CloseRecord(d) PROVE TypeOK'
    BY <2>5 DEF CloseRecord
  <2> QED
    BY <2>1, <2>2, <2>3, <2>4, <2>5
<1>3. ASSUME RecoverLeases \/ \E d \in Reader : LeaveLease(d) PROVE TypeOK'
  BY <1>3 DEF RecoverLeases, LeaveLease
<1>4. ASSUME NEW c \in Collector, Collect(c) PROVE TypeOK'
  <2> USE <1>4 DEF Collect
  <2>1. CASE Plan(c)
    BY <2>1 DEF Plan
  <2>2. CASE Claim(c)
    BY <2>2 DEF Claim, Renewed, Released, FragmentsOf
  <2>3. CASE RecordsUnlinked(c) \/ Leave(c)
    BY <2>3 DEF RecordsUnlinked, Leave
  <2>4. ASSUME NEW record \in Record, UnlinkRecord(c, record) PROVE TypeOK'
    BY <2>4 DEF UnlinkRecord
  <2>5. ASSUME NEW e \in Entry, UnlinkPin(c, e) PROVE TypeOK'
    BY <2>5 DEF UnlinkPin
  <2> QED
    BY <2>1, <2>2, <2>3, <2>4, <2>5
<1>5. CASE CollectAssets
  BY <1>5 DEF CollectAssets, Assets!Collect
<1>6. CASE UNCHANGED vars
  BY <1>6 DEF vars
<1> QED
  BY <1>1, <1>2, <1>3, <1>4, <1>5, <1>6 DEF Next

-----------------------------------------------------------------------------
(* Sessions. *)

LEMMA CaptureStep ==
  ASSUME IInv, TypeOK', NEW s \in Session, Capture(s)
  PROVE  FragmentInv' /\ CollectInv' /\ RootsResolve'
<1> USE DEF IInv, TypeOK, Capture
<1>1. UNCHANGED RecordRoots
  BY DEF RecordRoots, Leased
<1>2. ASSUME metadata = Nobody \/ metadata = s PROVE CollectInv'
  <2>1. \A c \in Collector : pc[c] \notin {"records", "pins"}
    <3> SUFFICES ASSUME NEW c \in Collector, pc[c] \in {"records", "pins"} PROVE FALSE
      OBVIOUS
    <3>1. metadata = c
      BY DEF CollectInv
    <3>2. c # Nobody /\ c # s
      OBVIOUS
    <3> QED
      BY <1>2, <3>1, <3>2
  <2>2. pc' = pc
    OBVIOUS
  <2> QED
    BY <2>1, <2>2 DEF CollectInv
<1>3. RootsResolve'
  BY <1>1 DEF RootsResolve, Drain, FailDrain, PublishRecord, SalvageRecovery,
     SalvageCapture, FailSalvage, CrashSession
<1>4. ASSUME NEW e \in Entry, Drain(s, e) PROVE FragmentInv' /\ CollectInv'
  BY <1>2, <1>4 DEF Drain, Unused, Assets!Import, FragmentInv, Keeps
<1>5. ASSUME NEW e \in Entry, FailDrain(s, e) PROVE FragmentInv' /\ CollectInv'
  BY <1>2, <1>5 DEF FailDrain, Assets!ChangeRoots, FragmentInv, Keeps
<1>6. ASSUME NEW kind \in Kind, PublishRecord(s, kind) PROVE FragmentInv' /\ CollectInv'
  BY <1>2, <1>6 DEF PublishRecord, FragmentInv, Keeps
<1>7. CASE SalvageRecovery(s)
  BY <1>2, <1>3, <1>7 DEF SalvageRecovery, FragmentInv, Keeps
<1>8. CASE SalvageCapture(s)
  BY <1>2, <1>3, <1>8 DEF SalvageCapture, FragmentInv, Keeps
<1>9. CASE FailSalvage(s)
  BY <1>2, <1>3, <1>9 DEF FailSalvage, FragmentInv, Keeps
<1>10. CASE CrashSession(s)
  <2>1. FragmentInv'
    BY <1>10 DEF CrashSession, FragmentInv, Keeps
  <2>2. CollectInv'
    BY <1>1, <1>10 DEF CrashSession, CollectInv, FragmentsOf
  <2> QED
    BY <1>3, <2>1, <2>2
<1> QED
  BY <1>3, <1>4, <1>5, <1>6, <1>7, <1>8, <1>9, <1>10

-----------------------------------------------------------------------------
(* Roots. *)

LEMMA RootStep ==
  ASSUME IInv, TypeOK', UpdateRoot \/ RecoverLeases \/ \E d \in Reader : LeaveLease(d)
  PROVE  FragmentInv' /\ CollectInv' /\ RootsResolve'
<1> USE DEF IInv, TypeOK
<1>1. FragmentInv'
  BY DEF UpdateRoot, RecoverLeases, LeaveLease, FragmentInv, Keeps
<1>2. CASE UpdateRoot
  <2> USE <1>2 DEF UpdateRoot
  <2>1. CollectInv'
    BY DEF CollectInv
  <2>2. ASSUME NEW r \in Reference, NEW s \in Session, SetReference(r, s)
        PROVE  RootsResolve'
    BY <2>2 DEF SetReference, RootsResolve, RecordRoots, Leased
  <2>3. ASSUME NEW r \in Reference, RemoveReference(r) \/ PinReference(r)
        PROVE  RootsResolve'
    BY <2>3 DEF RemoveReference, PinReference, RootsResolve, RecordRoots, Leased
  <2>4. ASSUME NEW s \in Session, RemovePin(s) PROVE RootsResolve'
    BY <2>4 DEF RemovePin, RootsResolve, RecordRoots, Leased
  <2>5. ASSUME NEW d \in Reader, NEW record \in Record, OpenRecord(d, record)
        PROVE  RootsResolve'
    BY <2>5 DEF OpenRecord, RootsResolve, RecordRoots, Leased
  <2>6. ASSUME NEW d \in Reader, CloseRecord(d) PROVE RootsResolve'
    BY <2>6 DEF CloseRecord, RootsResolve, RecordRoots, Leased
  <2> QED
    BY <1>1, <2>1, <2>2, <2>3, <2>4, <2>5, <2>6
<1>3. CASE RecoverLeases
  <2>1. CollectInv'
    BY <1>3 DEF RecoverLeases, CollectInv
  <2>2. RecordRoots' \subseteq RecordRoots
    BY <1>3 DEF RecoverLeases, RecordRoots, Leased
  <2> QED
    BY <1>1, <1>3, <2>1, <2>2 DEF RecoverLeases, RootsResolve
<1>4. ASSUME NEW d \in Reader, LeaveLease(d) PROVE CollectInv' /\ RootsResolve'
  <2>1. Leased' \subseteq Leased /\ stale' \subseteq stale \cup Leased
    BY <1>4 DEF LeaveLease, Leased
  <2>2. RecordRoots' \subseteq RecordRoots
    BY <1>4, <2>1 DEF LeaveLease, RecordRoots
  <2> QED
    BY <1>4, <2>2 DEF LeaveLease, CollectInv, FragmentsOf, RootsResolve
<1> QED
  BY <1>1, <1>2, <1>3, <1>4

-----------------------------------------------------------------------------
(* Collections. *)

LEMMA CollectStep ==
  ASSUME IInv, TypeOK', NEW c \in Collector, Collect(c)
  PROVE  FragmentInv' /\ CollectInv' /\ RootsResolve'
<1> USE DEF IInv, TypeOK, Collect
<1>1. UNCHANGED RecordRoots
  BY DEF RecordRoots, Leased
<1>2. CASE Plan(c)
  BY <1>1, <1>2 DEF Plan, FragmentInv, Keeps, CollectInv, FragmentsOf, RootsResolve
<1>3. CASE Claim(c)
  <2>1. FragmentInv' /\ RootsResolve'
    BY <1>1, <1>3 DEF Claim, FragmentInv, Keeps, RootsResolve
  <2>2. PICK deleted \in SUBSET Renewed(listed[c]) :
          /\ listed' = [listed EXCEPT ![c] = deleted]
          /\ released' = [released EXCEPT ![c] = Released(deleted)]
    BY <1>3 DEF Claim
  <2>3. deleted \subseteq records /\ deleted \cap RecordRoots = {}
    BY <2>2 DEF Renewed
  <2>4. Released(deleted) \cap FragmentsOf(records \ deleted) = {}
    BY DEF Released
  <2>5. ASSUME NEW s \in open \ torn, NEW e \in Released(deleted) PROVE e \notin fragments[s]
    <3>1. PICK record \in deleted : e \in fragments[record[2]]
      BY DEF Released, FragmentsOf
    <3>2. record \in Kind \X Session /\ record = <<record[1], record[2]>>
      BY <2>3
    <3>3. record[2] # s
      <4>1. metadata # s /\ s \in Session
        BY <1>3 DEF Claim
      <4>2. \A kind \in Kind : <<kind, s>> \notin records
        BY <4>1 DEF FragmentInv
      <4> QED
        BY <2>3, <3>2, <4>2
    <3> QED
      BY <3>1, <3>2, <3>3 DEF FragmentInv
  <2>6. CollectInv'
    BY <1>1, <1>3, <2>2, <2>3, <2>4, <2>5 DEF Claim, CollectInv, FragmentsOf
  <2> QED
    BY <2>1, <2>6
<1>4. CASE RecordsUnlinked(c)
  BY <1>1, <1>4 DEF RecordsUnlinked, FragmentInv, Keeps, CollectInv, FragmentsOf,
     RootsResolve
<1>5. CASE Leave(c)
  BY <1>1, <1>5 DEF Leave, FragmentInv, Keeps, CollectInv, FragmentsOf, RootsResolve
<1>6. ASSUME NEW record \in Record, UnlinkRecord(c, record)
      PROVE  FragmentInv' /\ CollectInv' /\ RootsResolve'
  <2>1. FragmentInv'
    BY <1>6 DEF UnlinkRecord, FragmentInv, Keeps
  <2>2. records' \ listed'[c] = records \ listed[c]
    BY <1>6 DEF UnlinkRecord
  <2>3. CollectInv'
    BY <1>1, <1>6, <2>2 DEF UnlinkRecord, CollectInv, FragmentsOf
  <2>4. record \notin RecordRoots
    BY <1>6 DEF UnlinkRecord, CollectInv
  <2>5. RootsResolve'
    BY <1>1, <1>6, <2>4 DEF UnlinkRecord, RootsResolve
  <2> QED
    BY <2>1, <2>3, <2>5
<1>7. ASSUME NEW e \in Entry, UnlinkPin(c, e)
      PROVE  FragmentInv' /\ CollectInv' /\ RootsResolve'
  <2>1. ASSUME NEW s \in Session, Keeps(s) PROVE e \notin fragments[s]
    <3>1. CASE s \in open \ torn
      BY <1>7, <3>1 DEF UnlinkPin, CollectInv
    <3>2. ASSUME NEW kind \in Kind, <<kind, s>> \in records PROVE e \notin fragments[s]
      BY <1>7, <3>2 DEF UnlinkPin, CollectInv, FragmentsOf
    <3> QED
      BY <2>1, <3>1, <3>2 DEF Keeps
  <2>2. FragmentInv'
    BY <1>7, <2>1 DEF UnlinkPin, FragmentInv, Keeps
  <2>3. CollectInv' /\ RootsResolve'
    BY <1>1, <1>7 DEF UnlinkPin, CollectInv, FragmentsOf, RootsResolve
  <2> QED
    BY <2>2, <2>3
<1> QED
  BY <1>2, <1>3, <1>4, <1>5, <1>6, <1>7

LEMMA CollectAssetsStep ==
  ASSUME IInv, CollectAssets
  PROVE  FragmentInv' /\ CollectInv' /\ RootsResolve'
<1>1. UNCHANGED RecordRoots
  BY DEF CollectAssets, RecordRoots, Leased
<1> QED
  BY <1>1 DEF IInv, TypeOK, CollectAssets, Assets!Collect, FragmentInv, Keeps, CollectInv,
     FragmentsOf, RootsResolve

-----------------------------------------------------------------------------
(* The theorems *)

LEMMA InductiveInvariant == Spec => []IInv
<1>1. IInv /\ [Next]_vars => IInv'
  <2> SUFFICES ASSUME IInv, [Next]_vars PROVE IInv'
    OBVIOUS
  <2>1. TypeOK'
    BY TypeStep DEF IInv
  <2>2. CASE UNCHANGED vars
    BY <2>2 DEF vars, IInv, TypeOK, FragmentInv, Keeps, CollectInv, FragmentsOf,
       RootsResolve, RecordRoots, Leased
  <2> QED
    BY <2>1, <2>2, CaptureStep, RootStep, CollectStep, CollectAssetsStep DEF Next, IInv
<1> QED
  BY InitIInv, <1>1, PTL DEF Spec

(* Sessions, records, roots and collections keep their types. *)
THEOREM TypeCorrect == Spec => []TypeOK
<1>1. IInv => TypeOK
  BY DEF IInv
<1> QED
  BY <1>1, InductiveInvariant, PTL

(* No collection, failed, crashed or complete, of records or of assets      *)
(* takes bytes away that a record on disk names, unless its session's       *)
(* salvage failed between the two records.                                  *)
THEOREM FragmentsStay == Spec => []RecordsKeepFragments
<1>1. IInv => RecordsKeepFragments
  <2> SUFFICES ASSUME IInv, NEW record \in records, record[2] \notin torn
               PROVE  fragments[record[2]] \subseteq retained
    BY DEF RecordsKeepFragments
  <2>1. record \in Kind \X Session /\ record = <<record[1], record[2]>>
    BY DEF IInv, TypeOK
  <2>2. Keeps(record[2])
    BY <2>1 DEF Keeps
  <2> QED
    BY <2>1, <2>2 DEF IInv, FragmentInv
<1> QED
  BY <1>1, InductiveInvariant, PTL

(* What a root names can be opened. *)
THEOREM RootsStay == Spec => []RootsResolve
<1>1. IInv => RootsResolve
  BY DEF IInv
<1> QED
  BY <1>1, InductiveInvariant, PTL
=============================================================================

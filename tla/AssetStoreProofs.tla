-------------------------- MODULE AssetStoreProofs --------------------------
(***************************************************************************)
(* Theorems about AssetStore for every set of threads, entries, objects    *)
(* and reference names, and any number of faults.                          *)
(*                                                                         *)
(* The inductive invariant is built in layers, each proved from the ones   *)
(* before it: types, the claims an operation holds at each of its steps,   *)
(* the files a claim protects, the roots a collection has to respect, and  *)
(* the files an import and a recovery work on.  Every layer has one lemma  *)
(* per family of actions, with one case per action.                        *)
(***************************************************************************)
EXTENDS AssetStore, ByteCountProofs, TLAPS

ImportPC == {"stage", "write", "staged", "publish", "move", "unstage"}
RecordPC == {"create", "fill", "replace"}
ReaderPC == {"open", "reading", "close"}

USE ProcAssumption, EntryAssumption, ReferenceAssumption, ObjectAssumption,
    FaultAssumption
USE DEF Goto, Begin, List, Return, Acquire, StartRecord, Replacing,
        claims, payload, roots, locals, ImportPC, RecordPC, ReaderPC

-----------------------------------------------------------------------------
(* Types.  A step that uses its target has one. *)

TargetOK ==
  \A p \in Proc :
    pc[p] \in ImportPC \cup RecordPC \cup ReaderPC \cup {"unlink"} => target[p] \in Entry

TypeInv == TypeOK /\ TargetOK

LEMMA TypeInit == Init => TypeInv
BY DEF Init, TypeInv, TypeOK, TargetOK, PC, FileKind, EntryKind, PinKind, RootKind

LEMMA TypeImport ==
  ASSUME TypeInv, NEW p \in Proc, Import(p)
  PROVE  TypeInv'
<1> USE DEF TypeInv, TypeOK, TargetOK, PC, FileKind, EntryKind, PinKind,
            RootKind, Import
<1>1. CASE \E e \in Entry, pin \in BOOLEAN : AdmitImport(p, e, pin)
  BY <1>1 DEF AdmitImport, Fresh
<1>2. CASE RefuseStaging(p)
  BY <1>2 DEF RefuseStaging
<1>3. CASE OpenStaging(p)
  BY <1>3 DEF OpenStaging, Staged
<1>4. CASE WriteStaging(p)
  BY <1>4 DEF WriteStaging
<1>5. CASE AbandonImport(p)
  BY <1>5 DEF AbandonImport
<1>6. CASE ClaimPublish(p)
  BY <1>6 DEF ClaimPublish
<1>7. CASE ReuseObject(p)
  BY <1>7 DEF ReuseObject
<1>8. CASE AdmitObject(p)
  BY <1>8 DEF AdmitObject
<1>9. CASE MoveObject(p)
  BY <1>9 DEF MoveObject
<1>10. CASE PublishPin(p)
  BY <1>10 DEF PublishPin
<1>11. CASE PublishEntry(p)
  BY <1>11 DEF PublishEntry
<1>12. CASE Unstage(p)
  BY <1>12 DEF Unstage
<1> QED
  BY <1>1, <1>2, <1>3, <1>4, <1>5, <1>6, <1>7, <1>8, <1>9, <1>10, <1>11, <1>12

LEMMA TypeRead ==
  ASSUME TypeInv, NEW p \in Proc, Read(p)
  PROVE  TypeInv'
<1> USE DEF TypeInv, TypeOK, TargetOK, PC, FileKind, EntryKind, PinKind,
            RootKind, Read
<1>1. CASE ClaimReader(p)
  BY <1>1 DEF ClaimReader
<1>2. CASE \E e \in Entry : SelectEntry(p, e)
  BY <1>2 DEF SelectEntry
<1>3. CASE FailSelect(p)
  BY <1>3 DEF FailSelect
<1>4. CASE PublishLease(p)
  BY <1>4 DEF PublishLease
<1>5. CASE OpenObject(p)
  BY <1>5 DEF OpenObject
<1>6. CASE CloseReader(p)
  BY <1>6 DEF CloseReader
<1>7. CASE ReleaseLease(p)
  BY <1>7 DEF ReleaseLease, LeaseFile
<1> QED
  BY <1>1, <1>2, <1>3, <1>4, <1>5, <1>6, <1>7

LEMMA TypeCollect ==
  ASSUME TypeInv, NEW p \in Proc, Collect(p)
  PROVE  TypeInv'
<1> USE DEF TypeInv, TypeOK, TargetOK, PC, FileKind, EntryKind, PinKind,
            RootKind, Collect
<1>1. CASE PlanCollection(p)
  BY <1>1 DEF PlanCollection, Unrooted, Entries, Complete
<1>2. CASE AbandonCollection(p)
  BY <1>2 DEF AbandonCollection
<1>3. CASE ClaimCollection(p)
  BY <1>3 DEF ClaimCollection, Renewed, Unrooted, Entries, Complete
<1>4. CASE \E e \in Entry : UnlinkEntry(p, e)
  BY <1>4 DEF UnlinkEntry, LastOfObject
<1>5. CASE FailUnlink(p)
  BY <1>5 DEF FailUnlink
<1>6. CASE UnlinkObject(p)
  BY <1>6 DEF UnlinkObject
<1>7. CASE \E e \in Entry : UnlinkExpired(p, e)
  BY <1>7 DEF UnlinkExpired
<1>8. CASE EndCollection(p)
  BY <1>8 DEF EndCollection
<1> QED
  BY <1>1, <1>2, <1>3, <1>4, <1>5, <1>6, <1>7, <1>8

LEMMA TypeRecover ==
  ASSUME TypeInv, NEW p \in Proc, Recover(p)
  PROVE  TypeInv'
<1> USE DEF TypeInv, TypeOK, TargetOK, PC, FileKind, EntryKind, PinKind,
            RootKind, Recover
<1>1. CASE ClaimRecovery(p)
  BY <1>1 DEF ClaimRecovery, RecoveryClaims, Orphans
<1>2. CASE \E o \in Object : DiscardOrphan(p, o)
  BY <1>2 DEF DiscardOrphan
<1>3. CASE \E e \in Entry : DiscardStaging(p, e)
  BY <1>3 DEF DiscardStaging
<1>4. CASE \E e \in Entry : DiscardLease(p, e)
  BY <1>4 DEF DiscardLease, LeaseFiles
<1>5. CASE EndRecovery(p)
  BY <1>5 DEF EndRecovery
<1> QED
  BY <1>1, <1>2, <1>3, <1>4, <1>5

LEMMA TypeFault ==
  ASSUME TypeInv, NEW p \in Proc, Fault(p)
  PROVE  TypeInv'
<1> USE DEF TypeInv, TypeOK, TargetOK, PC, FileKind, EntryKind, PinKind,
            RootKind, Fault
<1>1. CASE FailRecord(p)
  BY <1>1 DEF FailRecord
<1>2. CASE Crash(p)
  <2>1. pc[p] \in {"fill", "replace"} =>
          [kind |-> kind[p], entry |-> target[p], full |-> pc[p] = "replace"]
            \in Temporary
    BY DEF Temporary
  <2>2. temporaries' \subseteq Temporary
    BY <1>2, <2>1 DEF Crash
  <2> QED
    BY <1>2, <2>2 DEF Crash, Vacated, LeaseFile
<1> QED
  BY <1>1, <1>2

LEMMA TypeUpdateRoot ==
  ASSUME TypeInv, UpdateRoot
  PROVE  TypeInv'
<1> USE DEF TypeInv, TypeOK, TargetOK, PC, FileKind, EntryKind, PinKind,
            RootKind, UpdateRoot
<1>1. CASE \E p \in Proc, r \in Reference, e \in Entry : SetReference(p, r, e)
  BY <1>1 DEF SetReference
<1>2. CASE \E p \in Proc : ReplaceReference(p)
  BY <1>2 DEF ReplaceReference
<1>3. CASE \E r \in Reference : RemoveReference(r)
  BY <1>3 DEF RemoveReference
<1>4. CASE \E p \in Proc, e \in Entry, life \in PinKind : AddPin(p, e, life)
  BY <1>4 DEF AddPin
<1>5. CASE \E p \in Proc : ReplacePin(p)
  BY <1>5 DEF ReplacePin
<1>6. CASE \E e \in Entry : RemovePin(e)
  BY <1>6 DEF RemovePin
<1> QED
  BY <1>1, <1>2, <1>3, <1>4, <1>5, <1>6

LEMMA TypeStep ==
  ASSUME TypeInv, [Next]_vars
  PROVE  TypeInv'
<1> USE DEF TypeInv, TypeOK, TargetOK, PC, FileKind, EntryKind, PinKind,
            RootKind
<1>1. ASSUME NEW p \in Proc, WriteTemporary(p) PROVE TypeInv'
  BY <1>1 DEF WriteTemporary
<1>2. ASSUME NEW e \in Entry, ExpirePin(e) PROVE TypeInv'
  BY <1>2 DEF ExpirePin, Temporary
<1>3. CASE UNCHANGED vars
  BY <1>3 DEF vars
<1> QED
  BY <1>1, <1>2, <1>3, TypeImport, TypeRead, TypeCollect, TypeRecover,
     TypeFault, TypeUpdateRoot DEF Next
-----------------------------------------------------------------------------
(* Claims.  What a position in an operation says about the three lock       *)
(* files; two operations at positions that need one claim are one.          *)

ClaimInv ==
  /\ \A p \in Proc :
       /\ pc[p] \in ImportPC \cup {"recover"} => admission = p
       /\ pc[p] \in RecordPC /\ kind[p] \in EntryKind => admission = p
       /\ admission = p => pc[p] \in ImportPC \cup RecordPC \cup {"recover"}
       /\ admission = p /\ pc[p] \in RecordPC => kind[p] \in EntryKind \cup {"pin"}
       /\ pc[p] \in ImportPC \ {"unstage"} => kind[p] \in {"entry", "pin"}
       /\ kind[p] = "pinned" => pc[p] \in RecordPC \cup {"unstage"}
       /\ pc[p] \in RecordPC \cup {"publish", "move", "sweep", "unlink", "recover"} =>
            metadata = p
       /\ pc[p] \in ReaderPC \cup {"select"} => p \in readers
       /\ pc[p] \in RecordPC /\ kind[p] = "lease" => p \in readers
       /\ pc[p] = "recover" => recoverer = p
  /\ recoverer # NoProc => readers = {}

LEMMA ClaimInit == Init => ClaimInv
BY DEF Init, ClaimInv

LEMMA ClaimImport ==
  ASSUME TypeInv, TypeInv', ClaimInv, NEW p \in Proc, Import(p)
  PROVE  ClaimInv'
<1> USE DEF TypeInv, TypeOK, ClaimInv, PC, FileKind, EntryKind, PinKind,
            RootKind, Import
<1>1. CASE \E e \in Entry, pin \in BOOLEAN : AdmitImport(p, e, pin)
  BY <1>1 DEF AdmitImport, Fresh
<1>2. CASE RefuseStaging(p)
  BY <1>2 DEF RefuseStaging
<1>3. CASE OpenStaging(p)
  BY <1>3 DEF OpenStaging, Staged
<1>4. CASE WriteStaging(p)
  BY <1>4 DEF WriteStaging
<1>5. CASE AbandonImport(p)
  BY <1>5 DEF AbandonImport
<1>6. CASE ClaimPublish(p)
  BY <1>6 DEF ClaimPublish
<1>7. CASE ReuseObject(p)
  BY <1>7 DEF ReuseObject
<1>8. CASE AdmitObject(p)
  BY <1>8 DEF AdmitObject
<1>9. CASE MoveObject(p)
  BY <1>9 DEF MoveObject
<1>10. CASE PublishPin(p)
  BY <1>10 DEF PublishPin
<1>11. CASE PublishEntry(p)
  BY <1>11 DEF PublishEntry
<1>12. CASE Unstage(p)
  BY <1>12 DEF Unstage
<1> QED
  BY <1>1, <1>2, <1>3, <1>4, <1>5, <1>6, <1>7, <1>8, <1>9, <1>10, <1>11, <1>12

LEMMA ClaimRead ==
  ASSUME TypeInv, TypeInv', ClaimInv, NEW p \in Proc, Read(p)
  PROVE  ClaimInv'
<1> USE DEF TypeInv, TypeOK, ClaimInv, PC, FileKind, EntryKind, PinKind,
            RootKind, Read
<1>1. CASE ClaimReader(p)
  BY <1>1 DEF ClaimReader
<1>2. CASE \E e \in Entry : SelectEntry(p, e)
  BY <1>2 DEF SelectEntry
<1>3. CASE FailSelect(p)
  BY <1>3 DEF FailSelect
<1>4. CASE PublishLease(p)
  BY <1>4 DEF PublishLease
<1>5. CASE OpenObject(p)
  BY <1>5 DEF OpenObject
<1>6. CASE CloseReader(p)
  BY <1>6 DEF CloseReader
<1>7. CASE ReleaseLease(p)
  BY <1>7 DEF ReleaseLease, LeaseFile
<1> QED
  BY <1>1, <1>2, <1>3, <1>4, <1>5, <1>6, <1>7

LEMMA ClaimCollect ==
  ASSUME TypeInv, TypeInv', ClaimInv, NEW p \in Proc, Collect(p)
  PROVE  ClaimInv'
<1> USE DEF TypeInv, TypeOK, ClaimInv, PC, FileKind, EntryKind, PinKind,
            RootKind, Collect
<1>1. CASE PlanCollection(p)
  BY <1>1 DEF PlanCollection, Unrooted
<1>2. CASE AbandonCollection(p)
  BY <1>2 DEF AbandonCollection
<1>3. CASE ClaimCollection(p)
  BY <1>3 DEF ClaimCollection, Renewed, Unrooted
<1>4. CASE \E e \in Entry : UnlinkEntry(p, e)
  BY <1>4 DEF UnlinkEntry, LastOfObject
<1>5. CASE FailUnlink(p)
  BY <1>5 DEF FailUnlink
<1>6. CASE UnlinkObject(p)
  BY <1>6 DEF UnlinkObject
<1>7. CASE \E e \in Entry : UnlinkExpired(p, e)
  BY <1>7 DEF UnlinkExpired
<1>8. CASE EndCollection(p)
  BY <1>8 DEF EndCollection
<1> QED
  BY <1>1, <1>2, <1>3, <1>4, <1>5, <1>6, <1>7, <1>8

LEMMA ClaimRecover ==
  ASSUME TypeInv, TypeInv', ClaimInv, NEW p \in Proc, Recover(p)
  PROVE  ClaimInv'
<1> USE DEF TypeInv, TypeOK, ClaimInv, PC, FileKind, EntryKind, PinKind,
            RootKind, Recover
<1>1. CASE ClaimRecovery(p)
  BY <1>1 DEF ClaimRecovery, RecoveryClaims, Orphans
<1>2. CASE \E o \in Object : DiscardOrphan(p, o)
  BY <1>2 DEF DiscardOrphan
<1>3. CASE \E e \in Entry : DiscardStaging(p, e)
  BY <1>3 DEF DiscardStaging
<1>4. CASE \E e \in Entry : DiscardLease(p, e)
  BY <1>4 DEF DiscardLease, LeaseFiles
<1>5. CASE EndRecovery(p)
  BY <1>5 DEF EndRecovery
<1> QED
  BY <1>1, <1>2, <1>3, <1>4, <1>5

LEMMA ClaimFault ==
  ASSUME TypeInv, TypeInv', ClaimInv, NEW p \in Proc, Fault(p)
  PROVE  ClaimInv'
<1> USE DEF TypeInv, TypeOK, ClaimInv, PC, FileKind, EntryKind, PinKind,
            RootKind, Fault
<1>1. CASE FailRecord(p)
  BY <1>1 DEF FailRecord
<1>2. CASE Crash(p)
  BY <1>2 DEF Crash, Vacated, LeaseFile
<1> QED
  BY <1>1, <1>2

LEMMA ClaimUpdateRoot ==
  ASSUME TypeInv, TypeInv', ClaimInv, UpdateRoot
  PROVE  ClaimInv'
<1> USE DEF TypeInv, TypeOK, ClaimInv, PC, FileKind, EntryKind, PinKind,
            RootKind, UpdateRoot
<1>1. CASE \E p \in Proc, r \in Reference, e \in Entry : SetReference(p, r, e)
  BY <1>1 DEF SetReference
<1>2. CASE \E p \in Proc : ReplaceReference(p)
  BY <1>2 DEF ReplaceReference
<1>3. CASE \E r \in Reference : RemoveReference(r)
  BY <1>3 DEF RemoveReference
<1>4. CASE \E p \in Proc, e \in Entry, life \in PinKind : AddPin(p, e, life)
  BY <1>4 DEF AddPin
<1>5. CASE \E p \in Proc : ReplacePin(p)
  BY <1>5 DEF ReplacePin
<1>6. CASE \E e \in Entry : RemovePin(e)
  BY <1>6 DEF RemovePin
<1> QED
  BY <1>1, <1>2, <1>3, <1>4, <1>5, <1>6

LEMMA ClaimStep ==
  ASSUME TypeInv, TypeInv', ClaimInv, [Next]_vars
  PROVE  ClaimInv'
<1> USE DEF TypeInv, TypeOK, ClaimInv, PC, FileKind, EntryKind, PinKind,
            RootKind
<1>1. ASSUME NEW p \in Proc, WriteTemporary(p) PROVE ClaimInv'
  BY <1>1 DEF WriteTemporary
<1>2. ASSUME NEW e \in Entry, ExpirePin(e) PROVE ClaimInv'
  BY <1>2 DEF ExpirePin
<1>3. CASE UNCHANGED vars
  BY <1>3 DEF vars
<1> QED
  BY <1>1, <1>2, <1>3, ClaimImport, ClaimRead, ClaimCollect, ClaimRecover,
     ClaimFault, ClaimUpdateRoot DEF Next
-----------------------------------------------------------------------------
(* Manifests and objects.  The manifest an import is about to publish does  *)
(* not exist yet and its object does; object_counts is exact until the      *)
(* claim ends; what collect and recover are about to unlink is unused.      *)

FileInv ==
  /\ EntryHasObject
  /\ entries \cap Complete(EntryKind) = {}
  /\ \A p \in Proc :
       /\ pc[p] \in ImportPC \ {"unstage"} => target[p] \notin Entries
       /\ pc[p] \in RecordPC /\ admission = p =>
            target[p] \notin Entries /\ ObjectOf[target[p]] \in objects
       /\ pc[p] \in {"sweep", "unlink"} => counted[p] = Entries
       /\ pc[p] = "unlink" => \A e \in Entries : ObjectOf[e] # ObjectOf[target[p]]
       /\ pc[p] = "recover" => \A e \in Entries : ObjectOf[e] \notin orphans[p]

LEMMA FileInit == Init => FileInv
BY DEF Init, FileInv, EntryHasObject, Entries, Complete

LEMMA FileImport ==
  ASSUME TypeInv, ClaimInv, FileInv, NEW p \in Proc, Import(p)
  PROVE  FileInv'
<1> USE DEF TypeInv, TypeOK, TargetOK, ClaimInv, FileInv, EntryHasObject,
            Entries, Complete, EntryKind, Import
<1>1. CASE \E e \in Entry, pin \in BOOLEAN : AdmitImport(p, e, pin)
  BY <1>1 DEF AdmitImport, Fresh
<1>2. CASE RefuseStaging(p)
  BY <1>2 DEF RefuseStaging
<1>3. CASE OpenStaging(p)
  BY <1>3 DEF OpenStaging, Staged
<1>4. CASE WriteStaging(p)
  BY <1>4 DEF WriteStaging
<1>5. CASE AbandonImport(p)
  BY <1>5 DEF AbandonImport
<1>6. CASE ClaimPublish(p)
  BY <1>6 DEF ClaimPublish
<1>7. CASE ReuseObject(p)
  BY <1>7 DEF ReuseObject
<1>8. CASE AdmitObject(p)
  BY <1>8 DEF AdmitObject
<1>9. CASE MoveObject(p)
  BY <1>9 DEF MoveObject
<1>10. CASE PublishPin(p)
  BY <1>10 DEF PublishPin
<1>11. CASE PublishEntry(p)
  BY <1>11 DEF PublishEntry
<1>12. CASE Unstage(p)
  BY <1>12 DEF Unstage
<1> QED
  BY <1>1, <1>2, <1>3, <1>4, <1>5, <1>6, <1>7, <1>8, <1>9, <1>10, <1>11, <1>12

LEMMA FileRead ==
  ASSUME TypeInv, ClaimInv, FileInv, NEW p \in Proc, Read(p)
  PROVE  FileInv'
<1> USE DEF TypeInv, TypeOK, TargetOK, ClaimInv, FileInv, EntryHasObject,
            Entries, Complete, EntryKind, Read
<1>1. CASE ClaimReader(p)
  BY <1>1 DEF ClaimReader
<1>2. CASE \E e \in Entry : SelectEntry(p, e)
  BY <1>2 DEF SelectEntry
<1>3. CASE FailSelect(p)
  BY <1>3 DEF FailSelect
<1>4. CASE PublishLease(p)
  BY <1>4 DEF PublishLease
<1>5. CASE OpenObject(p)
  BY <1>5 DEF OpenObject
<1>6. CASE CloseReader(p)
  BY <1>6 DEF CloseReader
<1>7. CASE ReleaseLease(p)
  BY <1>7 DEF ReleaseLease, LeaseFile
<1> QED
  BY <1>1, <1>2, <1>3, <1>4, <1>5, <1>6, <1>7

LEMMA FileCollect ==
  ASSUME TypeInv, ClaimInv, FileInv, NEW p \in Proc, Collect(p)
  PROVE  FileInv'
<1> USE DEF TypeInv, TypeOK, TargetOK, ClaimInv, FileInv, EntryHasObject,
            Entries, Complete, EntryKind, Collect
<1>1. CASE PlanCollection(p)
  BY <1>1 DEF PlanCollection, Unrooted
<1>2. CASE AbandonCollection(p)
  BY <1>2 DEF AbandonCollection
<1>3. CASE ClaimCollection(p)
  BY <1>3 DEF ClaimCollection, Renewed, Unrooted
<1>4. CASE \E e \in Entry : UnlinkEntry(p, e)
  BY <1>4 DEF UnlinkEntry, LastOfObject
<1>5. CASE FailUnlink(p)
  BY <1>5 DEF FailUnlink
<1>6. CASE UnlinkObject(p)
  BY <1>6 DEF UnlinkObject
<1>7. CASE \E e \in Entry : UnlinkExpired(p, e)
  BY <1>7 DEF UnlinkExpired
<1>8. CASE EndCollection(p)
  BY <1>8 DEF EndCollection
<1> QED
  BY <1>1, <1>2, <1>3, <1>4, <1>5, <1>6, <1>7, <1>8

LEMMA FileRecover ==
  ASSUME TypeInv, ClaimInv, FileInv, NEW p \in Proc, Recover(p)
  PROVE  FileInv'
<1> USE DEF TypeInv, TypeOK, TargetOK, ClaimInv, FileInv, EntryHasObject,
            Entries, Complete, EntryKind, Recover
<1>1. CASE ClaimRecovery(p)
  BY <1>1 DEF ClaimRecovery, RecoveryClaims, Orphans
<1>2. CASE \E o \in Object : DiscardOrphan(p, o)
  BY <1>2 DEF DiscardOrphan
<1>3. CASE \E e \in Entry : DiscardStaging(p, e)
  BY <1>3 DEF DiscardStaging
<1>4. CASE \E e \in Entry : DiscardLease(p, e)
  BY <1>4 DEF DiscardLease, LeaseFiles
<1>5. CASE EndRecovery(p)
  BY <1>5 DEF EndRecovery
<1> QED
  BY <1>1, <1>2, <1>3, <1>4, <1>5

LEMMA FileFault ==
  ASSUME TypeInv, ClaimInv, FileInv, NEW p \in Proc, Fault(p)
  PROVE  FileInv'
<1> USE DEF TypeInv, TypeOK, TargetOK, ClaimInv, FileInv, EntryHasObject,
            Entries, Complete, EntryKind, Fault
<1>1. CASE FailRecord(p)
  BY <1>1 DEF FailRecord
<1>2. CASE Crash(p)
  BY <1>2 DEF Crash, Vacated, LeaseFile
<1> QED
  BY <1>1, <1>2

LEMMA FileUpdateRoot ==
  ASSUME TypeInv, ClaimInv, FileInv, UpdateRoot
  PROVE  FileInv'
<1> USE DEF TypeInv, TypeOK, TargetOK, ClaimInv, FileInv, EntryHasObject,
            Entries, Complete, EntryKind, UpdateRoot
<1>1. CASE \E p \in Proc, r \in Reference, e \in Entry : SetReference(p, r, e)
  BY <1>1 DEF SetReference
<1>2. CASE \E p \in Proc : ReplaceReference(p)
  BY <1>2 DEF ReplaceReference
<1>3. CASE \E r \in Reference : RemoveReference(r)
  BY <1>3 DEF RemoveReference
<1>4. CASE \E p \in Proc, e \in Entry, life \in PinKind : AddPin(p, e, life)
  BY <1>4 DEF AddPin
<1>5. CASE \E p \in Proc : ReplacePin(p)
  BY <1>5 DEF ReplacePin
<1>6. CASE \E e \in Entry : RemovePin(e)
  BY <1>6 DEF RemovePin
<1> QED
  BY <1>1, <1>2, <1>3, <1>4, <1>5, <1>6

LEMMA FileStep ==
  ASSUME TypeInv, ClaimInv, FileInv, [Next]_vars
  PROVE  FileInv'
<1> USE DEF TypeInv, TypeOK, TargetOK, ClaimInv, FileInv, EntryHasObject,
            Entries, Complete, EntryKind
<1>1. ASSUME NEW p \in Proc, WriteTemporary(p) PROVE FileInv'
  BY <1>1 DEF WriteTemporary
<1>2. ASSUME NEW e \in Entry, ExpirePin(e) PROVE FileInv'
  BY <1>2 DEF ExpirePin
<1>3. CASE UNCHANGED vars
  BY <1>3 DEF vars
<1> QED
  BY <1>1, <1>2, <1>3, FileImport, FileRead, FileCollect, FileRecover,
     FileFault, FileUpdateRoot DEF Next
-----------------------------------------------------------------------------
(* Roots.  A collection that holds the metadata claim deletes no root, and  *)
(* the lease of a reader is on disk while the reader needs it.              *)

RootInv ==
  /\ ReferencesResolve
  /\ \A p \in Proc :
       /\ pc[p] \in {"sweep", "unlink"} => listed[p] \cap RootEntryIds = {}
       /\ pc[p] \in ReaderPC => leases[p] = target[p] /\ target[p] \in Entries
       /\ pc[p] \in RecordPC /\ kind[p] = "lease" => target[p] \in Entries
       /\ pc[p] \in RecordPC /\ kind[p] \in Reference => target[p] \in entries

LEMMA RootInit == Init => RootInv
BY DEF Init, RootInv, ReferencesResolve

LEMMA RootImport ==
  ASSUME TypeInv, ClaimInv, FileInv, RootInv, NEW p \in Proc, Import(p)
  PROVE  RootInv'
<1> USE DEF TypeInv, TypeOK, TargetOK, ClaimInv, FileInv, RootInv,
            ReferencesResolve, RootEntryIds, RootKind, PinKind, FileKind,
            Entries, Complete, EntryKind, Import
<1>1. CASE \E e \in Entry, pin \in BOOLEAN : AdmitImport(p, e, pin)
  BY <1>1 DEF AdmitImport, Fresh
<1>2. CASE RefuseStaging(p)
  BY <1>2 DEF RefuseStaging
<1>3. CASE OpenStaging(p)
  BY <1>3 DEF OpenStaging, Staged
<1>4. CASE WriteStaging(p)
  BY <1>4 DEF WriteStaging
<1>5. CASE AbandonImport(p)
  BY <1>5 DEF AbandonImport
<1>6. CASE ClaimPublish(p)
  BY <1>6 DEF ClaimPublish
<1>7. CASE ReuseObject(p)
  BY <1>7 DEF ReuseObject
<1>8. CASE AdmitObject(p)
  BY <1>8 DEF AdmitObject
<1>9. CASE MoveObject(p)
  BY <1>9 DEF MoveObject
<1>10. CASE PublishPin(p)
  BY <1>10 DEF PublishPin
<1>11. CASE PublishEntry(p)
  BY <1>11 DEF PublishEntry
<1>12. CASE Unstage(p)
  BY <1>12 DEF Unstage
<1> QED
  BY <1>1, <1>2, <1>3, <1>4, <1>5, <1>6, <1>7, <1>8, <1>9, <1>10, <1>11, <1>12

LEMMA RootRead ==
  ASSUME TypeInv, ClaimInv, FileInv, RootInv, NEW p \in Proc, Read(p)
  PROVE  RootInv'
<1> USE DEF TypeInv, TypeOK, TargetOK, ClaimInv, FileInv, RootInv,
            ReferencesResolve, RootEntryIds, RootKind, PinKind, FileKind,
            Entries, Complete, EntryKind, Read
<1>1. CASE ClaimReader(p)
  BY <1>1 DEF ClaimReader
<1>2. CASE \E e \in Entry : SelectEntry(p, e)
  BY <1>2 DEF SelectEntry
<1>3. CASE FailSelect(p)
  BY <1>3 DEF FailSelect
<1>4. CASE PublishLease(p)
  BY <1>4 DEF PublishLease
<1>5. CASE OpenObject(p)
  BY <1>5 DEF OpenObject
<1>6. CASE CloseReader(p)
  BY <1>6 DEF CloseReader
<1>7. CASE ReleaseLease(p)
  BY <1>7 DEF ReleaseLease, LeaseFile
<1> QED
  BY <1>1, <1>2, <1>3, <1>4, <1>5, <1>6, <1>7

LEMMA RootCollect ==
  ASSUME TypeInv, ClaimInv, FileInv, RootInv, NEW p \in Proc, Collect(p)
  PROVE  RootInv'
<1> USE DEF TypeInv, TypeOK, TargetOK, ClaimInv, FileInv, RootInv,
            ReferencesResolve, RootEntryIds, RootKind, PinKind, FileKind,
            Entries, Complete, EntryKind, Collect
<1>1. CASE PlanCollection(p)
  BY <1>1 DEF PlanCollection, Unrooted
<1>2. CASE AbandonCollection(p)
  BY <1>2 DEF AbandonCollection
<1>3. CASE ClaimCollection(p)
  BY <1>3 DEF ClaimCollection, Renewed, Unrooted
<1>4. CASE \E e \in Entry : UnlinkEntry(p, e)
  BY <1>4 DEF UnlinkEntry, LastOfObject
<1>5. CASE FailUnlink(p)
  BY <1>5 DEF FailUnlink
<1>6. CASE UnlinkObject(p)
  BY <1>6 DEF UnlinkObject
<1>7. CASE \E e \in Entry : UnlinkExpired(p, e)
  BY <1>7 DEF UnlinkExpired
<1>8. CASE EndCollection(p)
  BY <1>8 DEF EndCollection
<1> QED
  BY <1>1, <1>2, <1>3, <1>4, <1>5, <1>6, <1>7, <1>8

LEMMA RootRecover ==
  ASSUME TypeInv, ClaimInv, FileInv, RootInv, NEW p \in Proc, Recover(p)
  PROVE  RootInv'
<1> USE DEF TypeInv, TypeOK, TargetOK, ClaimInv, FileInv, RootInv,
            ReferencesResolve, RootEntryIds, RootKind, PinKind, FileKind,
            Entries, Complete, EntryKind, Recover
<1>1. CASE ClaimRecovery(p)
  BY <1>1 DEF ClaimRecovery, RecoveryClaims, Orphans
<1>2. CASE \E o \in Object : DiscardOrphan(p, o)
  BY <1>2 DEF DiscardOrphan
<1>3. CASE \E e \in Entry : DiscardStaging(p, e)
  BY <1>3 DEF DiscardStaging
<1>4. CASE \E e \in Entry : DiscardLease(p, e)
  BY <1>4 DEF DiscardLease, LeaseFiles
<1>5. CASE EndRecovery(p)
  BY <1>5 DEF EndRecovery
<1> QED
  BY <1>1, <1>2, <1>3, <1>4, <1>5

LEMMA RootFault ==
  ASSUME TypeInv, ClaimInv, FileInv, RootInv, NEW p \in Proc, Fault(p)
  PROVE  RootInv'
<1> USE DEF TypeInv, TypeOK, TargetOK, ClaimInv, FileInv, RootInv,
            ReferencesResolve, RootEntryIds, RootKind, PinKind, FileKind,
            Entries, Complete, EntryKind, Fault
<1>1. CASE FailRecord(p)
  BY <1>1 DEF FailRecord
<1>2. CASE Crash(p)
  BY <1>2 DEF Crash, Vacated, LeaseFile
<1> QED
  BY <1>1, <1>2

LEMMA RootUpdateRoot ==
  ASSUME TypeInv, ClaimInv, FileInv, RootInv, UpdateRoot
  PROVE  RootInv'
<1> USE DEF TypeInv, TypeOK, TargetOK, ClaimInv, FileInv, RootInv,
            ReferencesResolve, RootEntryIds, RootKind, PinKind, FileKind,
            Entries, Complete, EntryKind, UpdateRoot
<1>1. CASE \E p \in Proc, r \in Reference, e \in Entry : SetReference(p, r, e)
  BY <1>1 DEF SetReference
<1>2. CASE \E p \in Proc : ReplaceReference(p)
  BY <1>2 DEF ReplaceReference
<1>3. CASE \E r \in Reference : RemoveReference(r)
  BY <1>3 DEF RemoveReference
<1>4. CASE \E p \in Proc, e \in Entry, life \in PinKind : AddPin(p, e, life)
  BY <1>4 DEF AddPin
<1>5. CASE \E p \in Proc : ReplacePin(p)
  BY <1>5 DEF ReplacePin
<1>6. CASE \E e \in Entry : RemovePin(e)
  BY <1>6 DEF RemovePin
<1> QED
  BY <1>1, <1>2, <1>3, <1>4, <1>5, <1>6

LEMMA RootStep ==
  ASSUME TypeInv, ClaimInv, FileInv, RootInv, [Next]_vars
  PROVE  RootInv'
<1> USE DEF TypeInv, TypeOK, TargetOK, ClaimInv, FileInv, RootInv,
            ReferencesResolve, RootEntryIds, RootKind, PinKind, FileKind,
            Entries, Complete, EntryKind
<1>1. ASSUME NEW p \in Proc, WriteTemporary(p) PROVE RootInv'
  BY <1>1 DEF WriteTemporary
<1>2. ASSUME NEW e \in Entry, ExpirePin(e) PROVE RootInv'
  BY <1>2 DEF ExpirePin
<1>3. CASE UNCHANGED vars
  BY <1>3 DEF vars
<1> QED
  BY <1>1, <1>2, <1>3, RootImport, RootRead, RootCollect, RootRecover,
     RootFault, RootUpdateRoot DEF Next
-----------------------------------------------------------------------------
(* Work in progress of imports and of a recovery. *)

WorkInv ==
  \A p \in Proc :
    /\ pc[p] \in {"staged", "publish", "move"} => staging[target[p]] = "full"
    /\ pc[p] \in RecordPC /\ kind[p] = "pinned" => pins[target[p]] = "pin"
    /\ pc[p] = "recover" =>
         /\ \A e \in Entry : staging[e] = "none" \/ e \in listed[p]
         /\ \A o \in objects : o \in orphans[p] \/ \E e \in Entries : o = ObjectOf[e]

LEMMA WorkInit == Init => WorkInv
BY DEF Init, WorkInv

LEMMA WorkImport ==
  ASSUME TypeInv, ClaimInv, FileInv, WorkInv, NEW p \in Proc, Import(p)
  PROVE  WorkInv'
<1> USE DEF TypeInv, TypeOK, TargetOK, ClaimInv, WorkInv, Entries, Complete,
            EntryKind, PinKind, Import
<1>1. CASE \E e \in Entry, pin \in BOOLEAN : AdmitImport(p, e, pin)
  BY <1>1 DEF AdmitImport, Fresh
<1>2. CASE RefuseStaging(p)
  BY <1>2 DEF RefuseStaging
<1>3. CASE OpenStaging(p)
  BY <1>3 DEF OpenStaging, Staged
<1>4. CASE WriteStaging(p)
  BY <1>4 DEF WriteStaging
<1>5. CASE AbandonImport(p)
  BY <1>5 DEF AbandonImport
<1>6. CASE ClaimPublish(p)
  BY <1>6 DEF ClaimPublish
<1>7. CASE ReuseObject(p)
  BY <1>7 DEF ReuseObject
<1>8. CASE AdmitObject(p)
  BY <1>8 DEF AdmitObject
<1>9. CASE MoveObject(p)
  BY <1>9 DEF MoveObject
<1>10. CASE PublishPin(p)
  BY <1>10 DEF PublishPin
<1>11. CASE PublishEntry(p)
  BY <1>11 DEF PublishEntry
<1>12. CASE Unstage(p)
  BY <1>12 DEF Unstage
<1> QED
  BY <1>1, <1>2, <1>3, <1>4, <1>5, <1>6, <1>7, <1>8, <1>9, <1>10, <1>11, <1>12

LEMMA WorkRead ==
  ASSUME TypeInv, ClaimInv, FileInv, WorkInv, NEW p \in Proc, Read(p)
  PROVE  WorkInv'
<1> USE DEF TypeInv, TypeOK, TargetOK, ClaimInv, WorkInv, Entries, Complete,
            EntryKind, PinKind, Read
<1>1. CASE ClaimReader(p)
  BY <1>1 DEF ClaimReader
<1>2. CASE \E e \in Entry : SelectEntry(p, e)
  BY <1>2 DEF SelectEntry
<1>3. CASE FailSelect(p)
  BY <1>3 DEF FailSelect
<1>4. CASE PublishLease(p)
  BY <1>4 DEF PublishLease
<1>5. CASE OpenObject(p)
  BY <1>5 DEF OpenObject
<1>6. CASE CloseReader(p)
  BY <1>6 DEF CloseReader
<1>7. CASE ReleaseLease(p)
  BY <1>7 DEF ReleaseLease, LeaseFile
<1> QED
  BY <1>1, <1>2, <1>3, <1>4, <1>5, <1>6, <1>7

LEMMA WorkCollect ==
  ASSUME TypeInv, ClaimInv, FileInv, WorkInv, NEW p \in Proc, Collect(p)
  PROVE  WorkInv'
<1> USE DEF TypeInv, TypeOK, TargetOK, ClaimInv, WorkInv, Entries, Complete,
            EntryKind, PinKind, Collect
<1>1. CASE PlanCollection(p)
  BY <1>1 DEF PlanCollection, Unrooted
<1>2. CASE AbandonCollection(p)
  BY <1>2 DEF AbandonCollection
<1>3. CASE ClaimCollection(p)
  BY <1>3 DEF ClaimCollection, Renewed, Unrooted
<1>4. CASE \E e \in Entry : UnlinkEntry(p, e)
  BY <1>4 DEF UnlinkEntry, LastOfObject
<1>5. CASE FailUnlink(p)
  BY <1>5 DEF FailUnlink
<1>6. CASE UnlinkObject(p)
  BY <1>6 DEF UnlinkObject
<1>7. CASE \E e \in Entry : UnlinkExpired(p, e)
  BY <1>7 DEF UnlinkExpired
<1>8. CASE EndCollection(p)
  BY <1>8 DEF EndCollection
<1> QED
  BY <1>1, <1>2, <1>3, <1>4, <1>5, <1>6, <1>7, <1>8

LEMMA WorkRecover ==
  ASSUME TypeInv, ClaimInv, FileInv, WorkInv, NEW p \in Proc, Recover(p)
  PROVE  WorkInv'
<1> USE DEF TypeInv, TypeOK, TargetOK, ClaimInv, WorkInv, Entries, Complete,
            EntryKind, PinKind, Recover
<1>1. CASE ClaimRecovery(p)
  BY <1>1 DEF ClaimRecovery, RecoveryClaims, Orphans
<1>2. CASE \E o \in Object : DiscardOrphan(p, o)
  BY <1>2 DEF DiscardOrphan
<1>3. CASE \E e \in Entry : DiscardStaging(p, e)
  BY <1>3 DEF DiscardStaging
<1>4. CASE \E e \in Entry : DiscardLease(p, e)
  BY <1>4 DEF DiscardLease, LeaseFiles
<1>5. CASE EndRecovery(p)
  BY <1>5 DEF EndRecovery
<1> QED
  BY <1>1, <1>2, <1>3, <1>4, <1>5

LEMMA WorkFault ==
  ASSUME TypeInv, ClaimInv, FileInv, WorkInv, NEW p \in Proc, Fault(p)
  PROVE  WorkInv'
<1> USE DEF TypeInv, TypeOK, TargetOK, ClaimInv, WorkInv, Entries, Complete,
            EntryKind, PinKind, Fault
<1>1. CASE FailRecord(p)
  BY <1>1 DEF FailRecord
<1>2. CASE Crash(p)
  BY <1>2 DEF Crash, Vacated, LeaseFile
<1> QED
  BY <1>1, <1>2

LEMMA WorkUpdateRoot ==
  ASSUME TypeInv, ClaimInv, FileInv, WorkInv, UpdateRoot
  PROVE  WorkInv'
<1> USE DEF TypeInv, TypeOK, TargetOK, ClaimInv, WorkInv, Entries, Complete,
            EntryKind, PinKind, UpdateRoot
<1>1. CASE \E p \in Proc, r \in Reference, e \in Entry : SetReference(p, r, e)
  BY <1>1 DEF SetReference
<1>2. CASE \E p \in Proc : ReplaceReference(p)
  BY <1>2 DEF ReplaceReference
<1>3. CASE \E r \in Reference : RemoveReference(r)
  BY <1>3 DEF RemoveReference
<1>4. CASE \E p \in Proc, e \in Entry, life \in PinKind : AddPin(p, e, life)
  BY <1>4 DEF AddPin
<1>5. CASE \E p \in Proc : ReplacePin(p)
  BY <1>5 DEF ReplacePin
<1>6. CASE \E e \in Entry : RemovePin(e)
  BY <1>6 DEF RemovePin
<1> QED
  BY <1>1, <1>2, <1>3, <1>4, <1>5, <1>6

LEMMA WorkStep ==
  ASSUME TypeInv, ClaimInv, FileInv, WorkInv, [Next]_vars
  PROVE  WorkInv'
<1> USE DEF TypeInv, TypeOK, TargetOK, ClaimInv, WorkInv, Entries, Complete,
            EntryKind, PinKind
<1>1. ASSUME NEW p \in Proc, WriteTemporary(p) PROVE WorkInv'
  BY <1>1 DEF WriteTemporary
<1>2. ASSUME NEW e \in Entry, ExpirePin(e) PROVE WorkInv'
  BY <1>2 DEF ExpirePin
<1>3. CASE UNCHANGED vars
  BY <1>3 DEF vars
<1> QED
  BY <1>1, <1>2, <1>3, WorkImport, WorkRead, WorkCollect, WorkRecover,
     WorkFault, WorkUpdateRoot DEF Next
-----------------------------------------------------------------------------
(* Capacity.  The files an import has measured include those there are now, *)
(* also when some were unlinked meanwhile, and the objects it counted are   *)
(* those there are: it is the only writer under each claim.                 *)

LEMMA ObjectBytesType ==
  ASSUME NEW S \in SUBSET Object, IsFiniteSet(S)
  PROVE  ObjectBytes(S) \in Nat
<1> DEFINE f == [o \in S |-> Length[o]]
<1>1. f \in [S -> Nat]
  BY LengthAssumption
<1> HIDE DEF f
<1>2. Total(f) \in Nat
  BY ONLY <1>1, IsFiniteSet(S), TotalType
<1> QED
  BY <1>2 DEF ObjectBytes, f

LEMMA ObjectBytesPart ==
  ASSUME NEW S \in SUBSET Object, IsFiniteSet(S), NEW R \in SUBSET S
  PROVE  IsFiniteSet(R) /\ ObjectBytes(R) <= ObjectBytes(S)
<1> DEFINE f == [o \in S |-> Length[o]]
           g == [o \in R |-> Length[o]]
<1>1. f \in [S -> Nat] /\ g \in [R -> Nat] /\ \A o \in R : g[o] = f[o]
  BY LengthAssumption
<1> HIDE DEF f, g
<1>2. Total(g) <= Total(f)
  BY ONLY <1>1, IsFiniteSet(S), R \in SUBSET S, TotalPart
<1> QED
  BY <1>2, FS_Subset DEF ObjectBytes, f, g

LEMMA ObjectBytesAdd ==
  ASSUME NEW S \in SUBSET Object, IsFiniteSet(S), NEW o \in Object, o \notin S
  PROVE  IsFiniteSet(S \cup {o}) /\ ObjectBytes(S \cup {o}) = ObjectBytes(S) + Length[o]
<1> DEFINE f == [x \in S \cup {o} |-> Length[x]]
           g == [x \in S |-> Length[x]]
<1>1. /\ f \in [S \cup {o} -> Nat] /\ g \in [S -> Nat]
      /\ \A x \in S : f[x] = g[x]
      /\ f[o] = Length[o]
  BY LengthAssumption
<1> HIDE DEF f, g
<1>2. Total(f) = Total(g) + f[o]
  BY ONLY <1>1, IsFiniteSet(S), o \notin S, TotalAdd
<1> QED
  BY <1>1, <1>2, FS_AddElement DEF ObjectBytes, f, g

LEMMA StagingBytesType ==
  ASSUME NEW S \in SUBSET Entry, IsFiniteSet(S)
  PROVE  StagingBytes(S) \in Nat
<1> DEFINE f == [e \in S |-> Length[ObjectOf[e]]]
<1>1. f \in [S -> Nat]
  BY LengthAssumption
<1> HIDE DEF f
<1>2. Total(f) \in Nat
  BY ONLY <1>1, IsFiniteSet(S), TotalType
<1> QED
  BY <1>2 DEF StagingBytes, f

LEMMA StagingBytesPart ==
  ASSUME NEW S \in SUBSET Entry, IsFiniteSet(S), NEW R \in SUBSET S
  PROVE  IsFiniteSet(R) /\ StagingBytes(R) <= StagingBytes(S)
<1> DEFINE f == [e \in S |-> Length[ObjectOf[e]]]
           g == [e \in R |-> Length[ObjectOf[e]]]
<1>1. f \in [S -> Nat] /\ g \in [R -> Nat] /\ \A e \in R : g[e] = f[e]
  BY LengthAssumption
<1> HIDE DEF f, g
<1>2. Total(g) <= Total(f)
  BY ONLY <1>1, IsFiniteSet(S), R \in SUBSET S, TotalPart
<1> QED
  BY <1>2, FS_Subset DEF StagingBytes, f, g

LEMMA StagingBytesAdd ==
  ASSUME NEW S \in SUBSET Entry, IsFiniteSet(S), NEW e \in Entry, e \notin S
  PROVE  /\ IsFiniteSet(S \cup {e})
         /\ StagingBytes(S \cup {e}) = StagingBytes(S) + Length[ObjectOf[e]]
<1> DEFINE f == [x \in S \cup {e} |-> Length[ObjectOf[x]]]
           g == [x \in S |-> Length[ObjectOf[x]]]
<1>1. /\ f \in [S \cup {e} -> Nat] /\ g \in [S -> Nat]
      /\ \A x \in S : f[x] = g[x]
      /\ f[e] = Length[ObjectOf[e]]
  BY LengthAssumption
<1> HIDE DEF f, g
<1>2. Total(f) = Total(g) + f[e]
  BY ONLY <1>1, IsFiniteSet(S), e \notin S, TotalAdd
<1> QED
  BY <1>1, <1>2, FS_AddElement DEF StagingBytes, f, g

CapacityInv ==
  /\ IsFiniteSet(objects) /\ IsFiniteSet(Staged)
  /\ WithinCapacity
  /\ \A p \in Proc :
       /\ pc[p] = "write" => Staged \subseteq listed[p] /\ IsFiniteSet(listed[p])
       /\ pc[p] = "move" => ObjectFits(ObjectOf[target[p]])

LEMMA CapacityInit == Init => CapacityInv
<1> SUFFICES ASSUME Init PROVE CapacityInv
  OBVIOUS
<1>1. objects = {} /\ Staged = {} /\ \A p \in Proc : pc[p] = "idle"
  BY DEF Init, Staged
<1>2. ObjectBytes({}) = 0
  BY TotalEmpty DEF ObjectBytes
<1>3. StagingBytes({}) = 0
  BY TotalEmpty DEF StagingBytes
<1>4. IsFiniteSet({})
  BY FS_EmptySet
<1> QED
  BY <1>1, <1>2, <1>3, <1>4, CapacityAssumption DEF CapacityInv, WithinCapacity

(* A step that adds no bytes and begins no write and no move. *)
LEMMA CapacityShrinks ==
  ASSUME TypeInv, TypeInv', CapacityInv, objects' \subseteq objects, Staged' \subseteq Staged,
         \A p \in Proc : pc'[p] = "write" => pc[p] = "write" /\ listed'[p] = listed[p],
         \A p \in Proc : pc'[p] = "move" => pc[p] = "move" /\ target'[p] = target[p]
  PROVE  CapacityInv'
<1>1. objects \in SUBSET Object /\ Staged \in SUBSET Entry
  BY DEF TypeInv, TypeOK, Staged
<1>2. /\ IsFiniteSet(objects') /\ ObjectBytes(objects') <= ObjectBytes(objects)
      /\ ObjectBytes(objects) \in Nat /\ ObjectBytes(objects') \in Nat
  <2>1. IsFiniteSet(objects)
    BY DEF CapacityInv
  <2>2. IsFiniteSet(objects') /\ ObjectBytes(objects') <= ObjectBytes(objects)
    BY <1>1, <2>1, ObjectBytesPart
  <2> QED
    BY <1>1, <2>1, <2>2, ObjectBytesType
<1>3. /\ IsFiniteSet(Staged') /\ StagingBytes(Staged') <= StagingBytes(Staged)
      /\ StagingBytes(Staged) \in Nat /\ StagingBytes(Staged') \in Nat
  <2>1. IsFiniteSet(Staged)
    BY DEF CapacityInv
  <2>2. IsFiniteSet(Staged') /\ StagingBytes(Staged') <= StagingBytes(Staged)
    BY <1>1, <2>1, StagingBytesPart
  <2> QED
    BY <1>1, <2>1, <2>2, StagingBytesType
<1>4. WithinCapacity'
  <2>1. ObjectBytes(objects)' = ObjectBytes(objects')
    BY DEF ObjectBytes
  <2>2. StagingBytes(Staged)' = StagingBytes(Staged')
    BY DEF StagingBytes
  <2> QED
    BY <1>2, <1>3, <2>1, <2>2, CapacityAssumption DEF CapacityInv, WithinCapacity
<1>5. ASSUME NEW p \in Proc, pc'[p] = "write"
      PROVE  Staged' \subseteq listed'[p] /\ IsFiniteSet(listed'[p])
  BY <1>5 DEF CapacityInv
<1>6. ASSUME NEW p \in Proc, pc'[p] = "move"
      PROVE  ObjectFits(ObjectOf[target[p]])'
  <2>1. ObjectFits(ObjectOf[target[p]]) /\ target'[p] = target[p] /\ target[p] \in Entry
    BY <1>6 DEF CapacityInv, TypeInv, TargetOK
  <2>2. Length[ObjectOf[target[p]]] \in Nat
    BY <2>1, LengthAssumption
  <2>3. ObjectBytes(objects)' = ObjectBytes(objects')
    BY DEF ObjectBytes
  <2> QED
    BY <1>2, <2>1, <2>2, <2>3, CapacityAssumption DEF ObjectFits
<1> QED
  BY <1>2, <1>3, <1>4, <1>5, <1>6 DEF CapacityInv

LEMMA CapacityImport ==
  ASSUME TypeInv, TypeInv', ClaimInv, CapacityInv, NEW p \in Proc, Import(p)
  PROVE  CapacityInv'
<1> USE DEF TypeInv, TypeOK, TargetOK, Import
<1>1. CASE \E e \in Entry, pin \in BOOLEAN : AdmitImport(p, e, pin)
  BY <1>1, CapacityShrinks DEF AdmitImport, Staged
<1>2. CASE RefuseStaging(p)
  BY <1>2, CapacityShrinks DEF RefuseStaging, Staged
<1>3. CASE OpenStaging(p)
  <2>1. Staged' \subseteq Staged
    BY <1>3 DEF OpenStaging, Staged
  <2>2. Staged \in SUBSET Entry /\ IsFiniteSet(Staged)
    BY DEF Staged, CapacityInv
  <2>3. IsFiniteSet(Staged') /\ StagingBytes(Staged') <= StagingBytes(Staged)
    BY <2>1, <2>2, StagingBytesPart
  <2>4. WithinCapacity'
    <3>1. StagingBytes(Staged)' = StagingBytes(Staged')
      BY DEF StagingBytes
    <3>2. ObjectBytes(objects)' = ObjectBytes(objects)
      BY <1>3 DEF OpenStaging, ObjectBytes
    <3>3. StagingBytes(Staged) \in Nat /\ StagingBytes(Staged') \in Nat
      BY <2>1, <2>2, <2>3, StagingBytesType
    <3> QED
      BY <2>3, <3>1, <3>2, <3>3, CapacityAssumption DEF CapacityInv, WithinCapacity
  <2>5. ASSUME NEW q \in Proc, pc'[q] = "write"
        PROVE  Staged' \subseteq listed'[q] /\ IsFiniteSet(listed'[q])
    <3>1. CASE q = p
      BY <1>3, <2>1, <2>2, <3>1 DEF OpenStaging
    <3>2. CASE q # p
      BY <1>3, <2>1, <2>5, <3>2 DEF OpenStaging, CapacityInv
    <3> QED
      BY <3>1, <3>2
  <2>6. ASSUME NEW q \in Proc, pc'[q] = "move"
        PROVE  ObjectFits(ObjectOf[target[q]])'
    BY <1>3, <2>6 DEF OpenStaging, CapacityInv, ObjectFits, ObjectBytes
  <2> QED
    BY <1>3, <2>3, <2>4, <2>5, <2>6 DEF OpenStaging, CapacityInv
<1>4. CASE WriteStaging(p)
  <2> DEFINE e == target[p]
  <2>1. e \in Entry /\ Staged' = Staged \cup {e} /\ Length[ObjectOf[e]] \in Nat
    BY <1>4, LengthAssumption DEF WriteStaging, Staged
  <2>2. /\ Staged \in SUBSET Entry /\ Staged \in SUBSET listed[p] /\ listed[p] \in SUBSET Entry
        /\ IsFiniteSet(Staged) /\ IsFiniteSet(listed[p])
    BY <1>4 DEF WriteStaging, Staged, CapacityInv
  <2>3. StagingBytes(listed[p]) + Length[ObjectOf[e]] <= MaximumStagingBytes
    BY <1>4 DEF WriteStaging, StagingFits
  <2>4. /\ StagingBytes(Staged) <= StagingBytes(listed[p])
        /\ StagingBytes(Staged) \in Nat /\ StagingBytes(listed[p]) \in Nat
    BY <2>2, StagingBytesPart, StagingBytesType
  <2>5. IsFiniteSet(Staged') /\ StagingBytes(Staged') <= MaximumStagingBytes
    <3>1. CASE e \in Staged
      <4>1. Staged' = Staged
        BY <2>1, <3>1
      <4> QED
        BY <2>2, <4>1 DEF CapacityInv, WithinCapacity
    <3>2. CASE e \notin Staged
      <4>1. /\ IsFiniteSet(Staged \cup {e})
            /\ StagingBytes(Staged \cup {e}) = StagingBytes(Staged) + Length[ObjectOf[e]]
        BY <2>1, <2>2, <3>2, StagingBytesAdd
      <4> HIDE DEF e
      <4> QED
        BY <2>1, <2>3, <2>4, <4>1, CapacityAssumption
    <3> QED
      BY <3>1, <3>2
  <2>6. WithinCapacity'
    <3>1. StagingBytes(Staged)' = StagingBytes(Staged')
      BY DEF StagingBytes
    <3>2. ObjectBytes(objects)' = ObjectBytes(objects)
      BY <1>4 DEF WriteStaging, ObjectBytes
    <3> QED
      BY <2>5, <3>1, <3>2 DEF CapacityInv, WithinCapacity
  <2>7. ASSUME NEW q \in Proc PROVE pc'[q] # "write"
    BY <1>4 DEF WriteStaging, ClaimInv
  <2>8. ASSUME NEW q \in Proc, pc'[q] = "move"
        PROVE  ObjectFits(ObjectOf[target[q]])'
    BY <1>4, <2>8 DEF WriteStaging, CapacityInv, ObjectFits, ObjectBytes
  <2> QED
    BY <1>4, <2>5, <2>6, <2>7, <2>8 DEF WriteStaging, CapacityInv
<1>5. CASE AbandonImport(p)
  BY <1>5, CapacityShrinks DEF AbandonImport, Staged
<1>6. CASE ClaimPublish(p)
  BY <1>6, CapacityShrinks DEF ClaimPublish, Staged
<1>7. CASE ReuseObject(p)
  BY <1>7, CapacityShrinks DEF ReuseObject, Staged
<1>8. CASE AdmitObject(p)
  <2>1. Staged' = Staged /\ UNCHANGED <<objects, listed, target>>
    BY <1>8 DEF AdmitObject, Staged
  <2>2. WithinCapacity'
    BY <2>1 DEF CapacityInv, WithinCapacity, ObjectBytes, StagingBytes
  <2>3. ASSUME NEW q \in Proc PROVE pc'[q] = "write" => pc[q] = "write"
    BY <1>8 DEF AdmitObject
  <2>4. ASSUME NEW q \in Proc, pc'[q] = "move"
        PROVE  ObjectFits(ObjectOf[target[q]])'
    <3>1. ObjectFits(ObjectOf[target[q]])
      <4>1. CASE q = p
        BY <1>8, <2>4, <4>1 DEF AdmitObject
      <4>2. CASE q # p
        BY <1>8, <2>4, <4>2 DEF AdmitObject, CapacityInv
      <4> QED
        BY <4>1, <4>2
    <3> QED
      BY <2>1, <3>1 DEF ObjectFits, ObjectBytes
  <2> QED
    BY <2>1, <2>2, <2>3, <2>4 DEF CapacityInv
<1>9. CASE MoveObject(p)
  <2> DEFINE o == ObjectOf[target[p]]
  <2>1. o \in Object /\ objects' = objects \cup {o} /\ Length[o] \in Nat
    BY <1>9, LengthAssumption DEF MoveObject
  <2>2. objects \in SUBSET Object /\ IsFiniteSet(objects) /\ ObjectFits(o)
    BY <1>9 DEF MoveObject, CapacityInv
  <2>3. IsFiniteSet(objects') /\ ObjectBytes(objects') <= MaximumObjectBytes
    <3>1. CASE o \in objects
      <4>1. objects' = objects
        BY <2>1, <3>1
      <4> QED
        BY <2>2, <4>1 DEF CapacityInv, WithinCapacity
    <3>2. CASE o \notin objects
      <4>1. /\ IsFiniteSet(objects \cup {o})
            /\ ObjectBytes(objects \cup {o}) = ObjectBytes(objects) + Length[o]
        BY <2>1, <2>2, <3>2, ObjectBytesAdd
      <4> HIDE DEF o
      <4> QED
        BY <2>1, <2>2, <4>1 DEF ObjectFits
    <3> QED
      BY <3>1, <3>2
  <2>4. Staged' \subseteq Staged
    BY <1>9 DEF MoveObject, Staged
  <2>5. /\ IsFiniteSet(Staged') /\ StagingBytes(Staged') <= StagingBytes(Staged)
        /\ StagingBytes(Staged) \in Nat /\ StagingBytes(Staged') \in Nat
    <3>1. Staged \in SUBSET Entry /\ IsFiniteSet(Staged)
      BY DEF Staged, CapacityInv
    <3>2. IsFiniteSet(Staged') /\ StagingBytes(Staged') <= StagingBytes(Staged)
      BY <2>4, <3>1, StagingBytesPart
    <3> QED
      BY <2>4, <3>1, <3>2, StagingBytesType
  <2>6. WithinCapacity'
    <3>1. StagingBytes(Staged)' = StagingBytes(Staged')
      BY DEF StagingBytes
    <3>2. ObjectBytes(objects)' = ObjectBytes(objects')
      BY DEF ObjectBytes
    <3> QED
      BY <2>3, <2>5, <3>1, <3>2, CapacityAssumption DEF CapacityInv, WithinCapacity
  <2>7. ASSUME NEW q \in Proc, pc'[q] = "write"
        PROVE  Staged' \subseteq listed'[q] /\ IsFiniteSet(listed'[q])
    BY <1>9, <2>4, <2>7 DEF MoveObject, CapacityInv
  <2>8. ASSUME NEW q \in Proc PROVE pc'[q] # "move"
    BY <1>9 DEF MoveObject, ClaimInv
  <2> QED
    BY <2>3, <2>5, <2>6, <2>7, <2>8 DEF CapacityInv
<1>10. CASE PublishPin(p)
  BY <1>10, CapacityShrinks DEF PublishPin, Staged
<1>11. CASE PublishEntry(p)
  BY <1>11, CapacityShrinks DEF PublishEntry, Staged
<1>12. CASE Unstage(p)
  BY <1>12, CapacityShrinks DEF Unstage, Staged
<1> QED
  BY <1>1, <1>2, <1>3, <1>4, <1>5, <1>6, <1>7, <1>8, <1>9, <1>10, <1>11, <1>12

LEMMA CapacityRead ==
  ASSUME TypeInv, TypeInv', CapacityInv, NEW p \in Proc, Read(p)
  PROVE  CapacityInv'
<1> USE DEF TypeInv, TypeOK, Staged, Read
<1>1. CASE ClaimReader(p)
  BY <1>1, CapacityShrinks DEF ClaimReader
<1>2. CASE \E e \in Entry : SelectEntry(p, e)
  BY <1>2, CapacityShrinks DEF SelectEntry
<1>3. CASE FailSelect(p)
  BY <1>3, CapacityShrinks DEF FailSelect
<1>4. CASE PublishLease(p)
  BY <1>4, CapacityShrinks DEF PublishLease
<1>5. CASE OpenObject(p)
  BY <1>5, CapacityShrinks DEF OpenObject
<1>6. CASE CloseReader(p)
  BY <1>6, CapacityShrinks DEF CloseReader
<1>7. CASE ReleaseLease(p)
  BY <1>7, CapacityShrinks DEF ReleaseLease
<1> QED
  BY <1>1, <1>2, <1>3, <1>4, <1>5, <1>6, <1>7

LEMMA CapacityCollect ==
  ASSUME TypeInv, TypeInv', CapacityInv, NEW p \in Proc, Collect(p)
  PROVE  CapacityInv'
<1> USE DEF TypeInv, TypeOK, Staged, Collect
<1>1. CASE PlanCollection(p)
  BY <1>1, CapacityShrinks DEF PlanCollection
<1>2. CASE AbandonCollection(p)
  BY <1>2, CapacityShrinks DEF AbandonCollection
<1>3. CASE ClaimCollection(p)
  BY <1>3, CapacityShrinks DEF ClaimCollection
<1>4. CASE \E e \in Entry : UnlinkEntry(p, e)
  BY <1>4, CapacityShrinks DEF UnlinkEntry
<1>5. CASE FailUnlink(p)
  BY <1>5, CapacityShrinks DEF FailUnlink
<1>6. CASE UnlinkObject(p)
  BY <1>6, CapacityShrinks DEF UnlinkObject
<1>7. CASE \E e \in Entry : UnlinkExpired(p, e)
  BY <1>7, CapacityShrinks DEF UnlinkExpired
<1>8. CASE EndCollection(p)
  BY <1>8, CapacityShrinks DEF EndCollection
<1> QED
  BY <1>1, <1>2, <1>3, <1>4, <1>5, <1>6, <1>7, <1>8

LEMMA CapacityRecover ==
  ASSUME TypeInv, TypeInv', CapacityInv, NEW p \in Proc, Recover(p)
  PROVE  CapacityInv'
<1> USE DEF TypeInv, TypeOK, Staged, Recover
<1>1. CASE ClaimRecovery(p)
  BY <1>1, CapacityShrinks DEF ClaimRecovery
<1>2. CASE \E o \in Object : DiscardOrphan(p, o)
  BY <1>2, CapacityShrinks DEF DiscardOrphan
<1>3. CASE \E e \in Entry : DiscardStaging(p, e)
  BY <1>3, CapacityShrinks DEF DiscardStaging
<1>4. CASE \E e \in Entry : DiscardLease(p, e)
  BY <1>4, CapacityShrinks DEF DiscardLease
<1>5. CASE EndRecovery(p)
  BY <1>5, CapacityShrinks DEF EndRecovery
<1> QED
  BY <1>1, <1>2, <1>3, <1>4, <1>5

LEMMA CapacityFault ==
  ASSUME TypeInv, TypeInv', CapacityInv, NEW p \in Proc, Fault(p)
  PROVE  CapacityInv'
<1> USE DEF TypeInv, TypeOK, Staged, Fault
<1>1. CASE FailRecord(p)
  BY <1>1, CapacityShrinks DEF FailRecord
<1>2. CASE Crash(p)
  BY <1>2, CapacityShrinks DEF Crash
<1> QED
  BY <1>1, <1>2

LEMMA CapacityUpdateRoot ==
  ASSUME TypeInv, TypeInv', CapacityInv, UpdateRoot
  PROVE  CapacityInv'
<1> USE DEF TypeInv, TypeOK, Staged, UpdateRoot
<1>1. CASE \E p \in Proc, r \in Reference, e \in Entry : SetReference(p, r, e)
  BY <1>1, CapacityShrinks DEF SetReference
<1>2. CASE \E p \in Proc : ReplaceReference(p)
  BY <1>2, CapacityShrinks DEF ReplaceReference
<1>3. CASE \E r \in Reference : RemoveReference(r)
  BY <1>3, CapacityShrinks DEF RemoveReference
<1>4. CASE \E p \in Proc, e \in Entry, life \in PinKind : AddPin(p, e, life)
  BY <1>4, CapacityShrinks DEF AddPin
<1>5. CASE \E p \in Proc : ReplacePin(p)
  BY <1>5, CapacityShrinks DEF ReplacePin
<1>6. CASE \E e \in Entry : RemovePin(e)
  BY <1>6, CapacityShrinks DEF RemovePin
<1> QED
  BY <1>1, <1>2, <1>3, <1>4, <1>5, <1>6

LEMMA CapacityStep ==
  ASSUME TypeInv, TypeInv', ClaimInv, CapacityInv, [Next]_vars
  PROVE  CapacityInv'
<1> USE DEF TypeInv, TypeOK, Staged
<1>1. ASSUME NEW p \in Proc, WriteTemporary(p) PROVE CapacityInv'
  BY <1>1, CapacityShrinks DEF WriteTemporary
<1>2. ASSUME NEW e \in Entry, ExpirePin(e) PROVE CapacityInv'
  BY <1>2, CapacityShrinks DEF ExpirePin
<1>3. CASE UNCHANGED vars
  BY <1>3, CapacityShrinks DEF vars
<1> QED
  BY <1>1, <1>2, <1>3, CapacityImport, CapacityRead, CapacityCollect, CapacityRecover,
     CapacityFault, CapacityUpdateRoot DEF Next
-----------------------------------------------------------------------------
(* The theorems *)

IInv == TypeInv /\ ClaimInv /\ FileInv /\ RootInv /\ WorkInv /\ CapacityInv

LEMMA InductiveInvariant == Spec => []IInv
<1>1. Init => IInv
  BY TypeInit, ClaimInit, FileInit, RootInit, WorkInit, CapacityInit DEF IInv
<1>2. IInv /\ [Next]_vars => IInv'
  BY TypeStep, ClaimStep, FileStep, RootStep, WorkStep, CapacityStep DEF IInv
<1> QED
  BY <1>1, <1>2, PTL DEF Spec

(* Every variable of the store and of its operations keeps its type. *)
THEOREM TypeCorrect == Spec => []TypeOK
<1>1. IInv => TypeOK
  BY DEF IInv, TypeInv
<1> QED
  BY <1>1, InductiveInvariant, PTL

(* No manifest ever names bytes that collect or recover took away, with any *)
(* number of operations interleaved and any number of crashes.              *)
THEOREM EntriesKeepObjects == Spec => []EntryHasObject
<1>1. IInv => EntryHasObject
  BY DEF IInv, FileInv
<1> QED
  BY <1>1, InductiveInvariant, PTL

(* What _open_selected leased stays on disk until its context closes. *)
THEOREM ReadersKeepEntries == Spec => []ReaderKeepsEntry
<1>1. IInv => ReaderKeepsEntry
  BY DEF IInv, TypeInv, TypeOK, FileInv, EntryHasObject, RootInv, ReaderKeepsEntry
<1> QED
  BY <1>1, InductiveInvariant, PTL

(* recover never discards the staged file of an import that is alive. *)
THEOREM ImportsKeepStaging == Spec => []LiveStagingStays
<1>1. IInv => LiveStagingStays
  BY DEF IInv, WorkInv, LiveStagingStays
<1> QED
  BY <1>1, InductiveInvariant, PTL

(* What is stored and what is staged stay within the budgets, whatever is   *)
(* imported at once and however many crashes leave files behind.            *)
THEOREM CapacityHolds == Spec => []WithinCapacity
<1>1. IInv => WithinCapacity
  BY DEF IInv, CapacityInv
<1> QED
  BY <1>1, InductiveInvariant, PTL

(* A reference names an entry that exists. *)
THEOREM ReferencesStay == Spec => []ReferencesResolve
<1>1. IInv => ReferencesResolve
  BY DEF IInv, RootInv
<1> QED
  BY <1>1, InductiveInvariant, PTL

LEMMA OnlyUnlinkEntryTakesEntries ==
  ASSUME IInv, [Next]_vars, NEW e \in entries, e \notin entries'
  PROVE  \E p \in Proc : UnlinkEntry(p, e) /\ Collect(p)
<1> USE DEF IInv, TypeInv, TypeOK
<1>1. ASSUME NEW p \in Proc, Import(p) PROVE e \in entries'
  BY <1>1 DEF Import, AdmitImport, RefuseStaging, OpenStaging, WriteStaging,
       AbandonImport, ClaimPublish, ReuseObject, AdmitObject, MoveObject, PublishPin,
       PublishEntry, Unstage
<1>2. ASSUME NEW p \in Proc, Read(p) \/ Recover(p) \/ WriteTemporary(p) \/ Fault(p)
      PROVE  e \in entries'
  BY <1>2 DEF Read, Recover, WriteTemporary, Fault
<1>3. ASSUME UpdateRoot \/ (\E x \in Entry : ExpirePin(x)) \/ UNCHANGED vars
      PROVE  e \in entries'
  BY <1>3 DEF UpdateRoot, ExpirePin, vars
<1>4. PICK p \in Proc : Collect(p)
  BY <1>1, <1>2, <1>3 DEF Next
<1>5. UnlinkEntry(p, e)
  BY <1>4 DEF Collect, PlanCollection, AbandonCollection, ClaimCollection, UnlinkEntry,
       FailUnlink, UnlinkObject, UnlinkExpired, EndCollection
<1> QED
  BY <1>4, <1>5

LEMMA OnlyPublishEntryAddsEntries ==
  ASSUME IInv, [Next]_vars, NEW e \in entries', e \notin entries
  PROVE  \E p \in Proc : PublishEntry(p) /\ Import(p) /\ target[p] = e
<1> USE DEF IInv, TypeInv, TypeOK
<1>1. ASSUME NEW p \in Proc, Collect(p) PROVE e \in entries
  BY <1>1 DEF Collect, PlanCollection, AbandonCollection, ClaimCollection, UnlinkEntry,
       FailUnlink, UnlinkObject, UnlinkExpired, EndCollection
<1>2. ASSUME NEW p \in Proc, Read(p) \/ Recover(p) \/ WriteTemporary(p) \/ Fault(p)
      PROVE  e \in entries
  BY <1>2 DEF Read, Recover, WriteTemporary, Fault
<1>3. ASSUME UpdateRoot \/ (\E x \in Entry : ExpirePin(x)) \/ UNCHANGED vars
      PROVE  e \in entries
  BY <1>3 DEF UpdateRoot, ExpirePin, vars
<1>4. PICK p \in Proc : Import(p)
  BY <1>1, <1>2, <1>3 DEF Next
<1>5. PublishEntry(p) /\ target[p] = e
  BY <1>4 DEF Import, AdmitImport, RefuseStaging, OpenStaging, WriteStaging,
       AbandonImport, ClaimPublish, ReuseObject, AdmitObject, MoveObject, PublishPin,
       PublishEntry, Unstage
<1> QED
  BY <1>4, <1>5

(* The store implements RetainedBytes: the manifest and the bytes of a      *)
(* rooted entry are never taken away.                                       *)
THEOREM ImplementsRetainedBytes == Spec => RetainsRooted
<1> DEFINE kept == {e \in entries : ObjectOf[e] \in objects}
<1>1. Init => Retained!Init
  <2> SUFFICES ASSUME Init PROVE kept = {} /\ RootEntryIds = {}
    BY DEF Retained!Init
  <2>1. kept = {}
    BY DEF Init
  <2>2. ASSUME NEW e \in Entry, e \in RootEntryIds PROVE FALSE
    BY <2>2 DEF Init, RootEntryIds, Complete, PinKind
  <2>3. RootEntryIds \subseteq Entry
    BY DEF RootEntryIds
  <2> QED
    BY <2>1, <2>2, <2>3
<1>2. IInv /\ IInv' /\ [Next]_vars => [Retained!Next]_<<kept, RootEntryIds>>
  <2> SUFFICES ASSUME IInv, IInv', [Next]_vars PROVE Retained!Next
    OBVIOUS
  <2>1. kept = entries /\ kept' = entries'
    BY DEF IInv, FileInv, EntryHasObject, Entries
  <2>2. entries \subseteq Entry /\ entries' \subseteq Entry /\ RootEntryIds' \subseteq Entry
    BY DEF IInv, TypeInv, TypeOK, RootEntryIds
  <2>3. CASE entries' = entries
    BY <2>1, <2>2, <2>3 DEF Retained!Next, Retained!ChangeRoots
  <2>4. ASSUME NEW e \in entries, e \notin entries' PROVE Retained!Next
    <3>1. PICK p \in Proc : UnlinkEntry(p, e) /\ Collect(p)
      BY <2>4, OnlyUnlinkEntryTakesEntries
    <3>2. UNCHANGED RootEntryIds
      BY <3>1 DEF UnlinkEntry, Collect, RootEntryIds, Complete
    <3>3. e \notin RootEntryIds
      BY <3>1 DEF UnlinkEntry, IInv, RootInv
    <3>4. entries' = entries \ {e}
      BY <3>1 DEF UnlinkEntry
    <3>5. Retained!Collect({e})
      BY <2>1, <3>2, <3>3, <3>4 DEF Retained!Collect
    <3> QED
      BY <2>2, <3>5 DEF Retained!Next
  <2>5. ASSUME NEW e \in entries', e \notin entries PROVE Retained!Next
    <3>1. PICK p \in Proc : PublishEntry(p) /\ Import(p) /\ target[p] = e
      BY <2>5, OnlyPublishEntryAddsEntries
    <3>2. UNCHANGED RootEntryIds
      BY <3>1 DEF PublishEntry, Import, RootEntryIds, Complete
    <3>3. entries' = entries \cup {e}
      BY <3>1 DEF PublishEntry
    <3>4. Retained!Import(e)
      BY <2>1, <2>5, <3>2, <3>3 DEF Retained!Import
    <3> QED
      BY <2>2, <3>4 DEF Retained!Next
  <2> QED
    BY <2>3, <2>4, <2>5
<1> QED
  BY <1>1, <1>2, InductiveInvariant, PTL DEF Spec, RetainsRooted, Retained!Spec

(* The entry of a pinned import appears with its pin in place. *)
THEOREM PinnedImportsAreKept == Spec => PinnedFromBirth
<1>1. IInv /\ [Next]_vars =>
        [\A p \in Proc : kind[p] = "pinned" /\ target[p] \in entries' \ entries =>
           pins[target[p]] = "pin"]_vars
  <2> SUFFICES ASSUME IInv, [Next]_vars, NEW p \in Proc, kind[p] = "pinned",
                      target[p] \in entries', target[p] \notin entries
               PROVE  pins[target[p]] = "pin"
    OBVIOUS
  <2>1. PICK q \in Proc : PublishEntry(q) /\ target[q] = target[p]
    BY OnlyPublishEntryAddsEntries
  <2>2. p = q /\ pc[p] = "replace"
    BY <2>1 DEF PublishEntry, IInv, ClaimInv
  <2> QED
    BY <2>2 DEF IInv, WorkInv
<1> QED
  BY <1>1, InductiveInvariant, PTL DEF Spec, PinnedFromBirth

LEMMA OnlyEndRecoveryEnds ==
  ASSUME IInv, Next, NEW p \in Proc,
         pc[p] = "recover", pc'[p] = "idle", faults' = faults
  PROVE  EndRecovery(p) /\ UNCHANGED entries
<1> USE DEF IInv, TypeInv, TypeOK
<1>1. ASSUME NEW q \in Proc, Import(q) PROVE FALSE
  BY <1>1 DEF Import, AdmitImport, RefuseStaging, OpenStaging, WriteStaging,
       AbandonImport, ClaimPublish, ReuseObject, AdmitObject, MoveObject, PublishPin,
       PublishEntry, Unstage
<1>2. ASSUME NEW q \in Proc, Read(q) PROVE FALSE
  BY <1>2 DEF Read, ClaimReader, SelectEntry, FailSelect, PublishLease, OpenObject,
       CloseReader, ReleaseLease
<1>3. ASSUME NEW q \in Proc, Collect(q) PROVE FALSE
  BY <1>3 DEF Collect, PlanCollection, AbandonCollection, ClaimCollection, UnlinkEntry,
       FailUnlink, UnlinkObject, UnlinkExpired, EndCollection
<1>4. ASSUME NEW q \in Proc, WriteTemporary(q) \/ Fault(q) PROVE FALSE
  BY <1>4 DEF WriteTemporary, Fault
<1>5. ASSUME UpdateRoot PROVE FALSE
  BY <1>5 DEF UpdateRoot, SetReference, ReplaceReference, RemoveReference, AddPin,
       ReplacePin, RemovePin
<1>6. ASSUME NEW e \in Entry, ExpirePin(e) PROVE FALSE
  BY <1>6 DEF ExpirePin
<1>7. PICK q \in Proc : Recover(q)
  BY <1>1, <1>2, <1>3, <1>4, <1>5, <1>6 DEF Next
<1> QED
  BY <1>7 DEF Recover, ClaimRecovery, DiscardOrphan, DiscardStaging, DiscardLease,
       EndRecovery

(* When recover returns, the staging directory, the orphan objects and the  *)
(* asset leases it listed are gone and nothing new has taken their place.   *)
THEOREM RecoverReturnsClean == Spec => RecoveryIsComplete
<1> DEFINE Clean(p) ==
      /\ \A e \in Entry : staging'[e] = "none"
      /\ objects' = {ObjectOf[e] : e \in Entries'}
      /\ stale' = {}
<1>1. IInv /\ [Next]_vars =>
        [\A p \in Proc : (pc[p] = "recover" /\ pc'[p] = "idle" /\ faults' = faults) =>
           Clean(p)]_vars
  <2> SUFFICES ASSUME IInv, Next, NEW p \in Proc,
                      pc[p] = "recover", pc'[p] = "idle", faults' = faults
               PROVE  Clean(p)
    BY DEF vars
  <2>1. EndRecovery(p) /\ UNCHANGED entries
    BY OnlyEndRecoveryEnds
  <2>2. Entries' = Entries /\ UNCHANGED <<objects, staging, stale>>
    BY <2>1 DEF EndRecovery, Entries, Complete
  <2>3. \A e \in Entry : staging[e] = "none"
    BY <2>1 DEF EndRecovery, IInv, WorkInv
  <2>4. objects = {ObjectOf[e] : e \in Entries}
    BY <2>1 DEF EndRecovery, IInv, TypeInv, TypeOK, WorkInv, FileInv, EntryHasObject
  <2> QED
    BY <2>1, <2>2, <2>3, <2>4 DEF EndRecovery
<1> QED
  BY <1>1, InductiveInvariant, PTL DEF Spec, RecoveryIsComplete
=============================================================================

----------------------------- MODULE TransferProofs -----------------------------
(***************************************************************************)
(* Proofs about the hand-off, for any number of chunks, days and faults:   *)
(* custody of the data; an ACK is applied to the manifest it answers for   *)
(* and the transfer implements Handoff; the seal lists every chunk of its  *)
(* day, and a day on the central host is whole.                            *)
(***************************************************************************)
EXTENDS TransferProperties, TLAPS

USE DEF vars, diskVars, processVars, centralVars, readyVars, indexVars, ackVars,
        recoveryVars, serviceVars, publishVars, sealVars, applyVars, rawVars,
        ackOutVars, pullVars

\* The initial state is well typed.
LEMMA InitType == Init => TypeOK
BY DayAssumption DEF Init, TypeOK, NoListing, NoChunk, AckFile, FileState, Stage, Days, Version

\* Publication steps keep the types.
LEMMA PublishType == TypeOK /\ Publish => TypeOK'
<1> SUFFICES ASSUME TypeOK, Publish PROVE TypeOK'
  OBVIOUS
<1> USE DayAssumption DEF TypeOK, Stage, Advance
<1>1. ASSUME NEW c \in Chunks, OpenSession(c) PROVE TypeOK'
  BY <1>1 DEF OpenSession
<1>2. ASSUME NEW c \in Chunks, RenameData(c) PROVE TypeOK'
  BY <1>2 DEF RenameData
<1>3. ASSUME NEW c \in Chunks, WriteControl(c) PROVE TypeOK'
  BY <1>3 DEF WriteControl
<1>4. ASSUME NEW c \in Chunks, WriteManifest(c) PROVE TypeOK'
  BY <1>4 DEF WriteManifest, Version
<1>5. ASSUME NEW c \in Chunks, Record(c) PROVE TypeOK'
  BY <1>5 DEF Record, AppendRef
<1>6. ASSUME NEW c \in Chunks, SettleRoll(c) PROVE TypeOK'
  BY <1>6 DEF SettleRoll
<1>7. ASSUME NEW c \in Chunks, RecordRefused(c) PROVE TypeOK'
  BY <1>7 DEF RecordRefused, ProcessDies, AfterCrash, Version
<1> QED
  BY <1>1, <1>2, <1>3, <1>4, <1>5, <1>6, <1>7 DEF Publish, Finish

\* Seal steps keep the types.
LEMMA SealType == TypeOK /\ Seal => TypeOK'
<1> SUFFICES ASSUME TypeOK, Seal PROVE TypeOK'
  OBVIOUS
<1> USE DayAssumption DEF TypeOK, Days
<1>1. ASSUME NEW d \in Days, SealWrite(d) PROVE TypeOK'
  BY <1>1 DEF SealWrite, ReadRefs
<1>2. ASSUME NEW d \in Days, SealCleanJournal(d) PROVE TypeOK'
  BY <1>2 DEF SealCleanJournal
<1>3. ASSUME NEW d \in Days, SealCleanTombstones(d) PROVE TypeOK'
  BY <1>3 DEF SealCleanTombstones
<1> QED
  BY <1>1, <1>2, <1>3 DEF Seal

\* Life-cycle steps keep the types.
LEMMA ServiceType == TypeOK /\ Service => TypeOK'
<1> SUFFICES ASSUME TypeOK, Service PROVE TypeOK'
  OBVIOUS
<1> USE DayAssumption DEF TypeOK, Version
<1>1. CASE Boot
  <2>1. CASE WorkPending
    BY <1>1, <2>1 DEF Boot, ScanAcks
  <2>2. CASE ~WorkPending
    BY <1>1, <2>2 DEF Boot
  <2> QED
    BY <2>1, <2>2
<1>2. CASE RecoverLease
  <2>1. CASE lease = 0
    <3>1. UNCHANGED <<openGap, journalled>>
      BY <1>2, <2>1 DEF RecoverLease
    <3> QED
      BY <1>2, <3>1 DEF RecoverLease, Days
  <2>2. CASE lease # 0
    <3>1. PICK d \in Days : openGap' = (IF openGap \in 1 .. d THEN openGap ELSE d)
                             /\ journalled' = journalled \cup {d}
      BY <1>2, <2>2 DEF RecoverLease
    <3>2. openGap' \in Nat /\ journalled' \subseteq Days
      BY <3>1 DEF Days
    <3> QED
      BY <1>2, <3>2 DEF RecoverLease, Days
  <2> QED
    BY <2>1, <2>2
<1>3. CASE CloseStaleGaps
  BY <1>3 DEF CloseStaleGaps, RolledDays
<1>4. CASE StartSealing
  BY <1>4 DEF StartSealing, CompletedDates, Days
<1>5. CASE ServiceUp
  BY <1>5 DEF ServiceUp, EmitUniverse
<1>6. CASE EnterBoundary
  BY <1>6 DEF EnterBoundary
<1>7. CASE SealBoundary
  BY <1>7 DEF SealBoundary, EmitUniverse, Days
<1>8. CASE LeaveBoundary
  BY <1>8 DEF LeaveBoundary
<1>9. CASE Stopped
  <2>1. stage' \in [Chunks -> Stage]
    BY <1>9 DEF Stopped, ProcessDies, AfterCrash, Stage
  <2> QED
    BY <1>9, <2>1 DEF Stopped, ProcessDies
<1> QED
  BY <1>1, <1>2, <1>3, <1>4, <1>5, <1>6, <1>7, <1>8, <1>9 DEF Service

\* ACK application steps keep the types.
LEMMA ApplyType == TypeOK /\ Apply => TypeOK'
<1> SUFFICES ASSUME TypeOK, Apply PROVE TypeOK'
  OBVIOUS
<1> USE DayAssumption DEF TypeOK, AckHandled, AckFile, Version
<1>1. ASSUME NEW c \in Chunks, RejectAck(c) PROVE TypeOK'
  BY <1>1 DEF RejectAck
<1>2. ASSUME NEW c \in Chunks, ReplayAck(c) PROVE TypeOK'
  BY <1>2 DEF ReplayAck
<1>3. ASSUME NEW c \in Chunks, BeginTransaction(c) PROVE TypeOK'
  BY <1>3 DEF BeginTransaction
<1>4. ASSUME NEW c \in Chunks, AcceptAck(c) PROVE TypeOK'
  BY <1>4 DEF AcceptAck
<1>5. ASSUME NEW c \in Chunks, GcManifest(c) PROVE TypeOK'
  BY <1>5 DEF GcManifest, Tombstones
<1>6. ASSUME NEW c \in Chunks, GcData(c) PROVE TypeOK'
  BY <1>6 DEF GcData
<1>7. CASE AppendGcLedger
  BY <1>7 DEF AppendGcLedger, LedgerGc
<1>8. ASSUME NEW c \in Chunks, DropTransaction(c) PROVE TypeOK'
  BY <1>8 DEF DropTransaction
<1>9. CASE EndApply
  BY <1>9 DEF EndApply
<1> QED
  BY <1>1, <1>2, <1>3, <1>4, <1>5, <1>6, <1>7, <1>8, <1>9 DEF Apply

\* Pull steps keep the types.
LEMMA PullType == TypeOK /\ PullStep => TypeOK'
<1> SUFFICES ASSUME TypeOK, PullStep PROVE TypeOK'
  OBVIOUS
<1> USE DayAssumption DEF TypeOK, Downloads, NoListing, NoChunk, Version
<1>1. CASE ListReady
  BY <1>1 DEF ListReady
<1>2. CASE ListSealed
  BY <1>2 DEF ListSealed
<1>3. ASSUME NEW c \in Chunks, Fetch(c) PROVE TypeOK'
  <2>1. staged' \in [Chunks -> FileState] /\ faults' \in Nat
    BY <1>3 DEF Fetch, FileState, Fault
  <2> QED
    BY <1>3, <2>1 DEF Fetch
<1>4. CASE PublishInventory
  BY <1>4 DEF PublishInventory, FileState
<1>5. ASSUME NEW c \in Chunks, IngestData(c) PROVE TypeOK'
  <2>1. ingest' \in [Chunks -> {"no", "data", "manifest", "ack"}] /\ fresh' \subseteq Chunks
    BY <1>5 DEF IngestData
  <2>2. raw' \in [Chunks -> FileState] /\ staged' \in [Chunks -> FileState]
    BY <1>5 DEF IngestData, FileState
  <2> QED
    BY <1>5, <2>1, <2>2 DEF IngestData
<1>6. ASSUME NEW c \in Chunks, IngestManifest(c) PROVE TypeOK'
  <2>1. /\ ingest' \in [Chunks -> {"no", "data", "manifest", "ack"}] /\ fresh' \subseteq Chunks
        /\ rawManifest' \in [Chunks -> Version]
    BY <1>6 DEF IngestManifest
  <2> QED
    BY <1>6, <2>1 DEF IngestManifest
<1>7. ASSUME NEW c \in Chunks, WriteAck(c) PROVE TypeOK'
  BY <1>7 DEF WriteAck
<1>8. CASE PublishDays
  BY <1>8 DEF PublishDays
<1>9. CASE LedgerDurable
  BY <1>9 DEF LedgerDurable
<1>10. CASE PushAcks
  <2>1. inbox' \in [Chunks -> AckFile]
    BY <1>10 DEF PushAcks, Deliver, AckFile
  <2>2. CASE ackOut = {}
    BY <1>10, <2>1, <2>2 DEF PushAcks, RunEnds
  <2>3. CASE ackOut # {}
    BY <1>10, <2>1, <2>3 DEF PushAcks
  <2> QED
    BY <2>2, <2>3
<1>11. CASE UnlinkAcks
  BY <1>11 DEF UnlinkAcks, RunEnds
<1> QED
  BY <1>1, <1>2, <1>3, <1>4, <1>5, <1>6, <1>7, <1>8, <1>9, <1>10, <1>11 DEF PullStep

\* The remaining steps keep the types.
LEMMA OtherType ==
  ASSUME TypeOK,
         \/ StoragePass \/ Midnight \/ LeaseHeartbeat \/ PullAbort \/ EdgeCrash
         \/ StopRequested \/ \E c \in Chunks : DamageAck(c)
  PROVE  TypeOK'
<1> USE DayAssumption DEF TypeOK, Version
<1>1. CASE StoragePass
  BY <1>1 DEF StoragePass, ScanAcks
<1>2. CASE Midnight
  BY <1>2 DEF Midnight, Days
<1>3. CASE LeaseHeartbeat
  <2>1. PICK w \in lease .. today : lease' = w
    BY <1>3 DEF LeaseHeartbeat
  <2>2. lease' \in Nat
    BY <2>1 DEF Days
  <2> QED
    BY <1>3, <2>2 DEF LeaseHeartbeat
<1>4. CASE PullAbort
  <2>1. staged' \in [Chunks -> FileState]
    BY <1>4 DEF PullAbort, FileState
  <2>2. inbox' \in [Chunks -> AckFile]
    BY <1>4 DEF PullAbort, Deliver, AckFile
  <2> QED
    BY <1>4, <2>1, <2>2 DEF PullAbort, Fault, RunEnds, NoListing, NoChunk
<1>5. CASE EdgeCrash
  <2>1. stage' \in [Chunks -> Stage]
    BY <1>5 DEF EdgeCrash, ProcessDies, AfterCrash, Stage
  <2> QED
    BY <1>5, <2>1 DEF EdgeCrash, ProcessDies, Fault
<1>6. ASSUME NEW c \in Chunks, DamageAck(c) PROVE TypeOK'
  BY <1>6 DEF DamageAck, AckFile, Fault
<1>7. CASE StopRequested
  BY <1>7 DEF StopRequested, Days
<1> QED
  BY <1>1, <1>2, <1>3, <1>4, <1>5, <1>6, <1>7

\* Every step keeps the types.
LEMMA NextType == TypeOK /\ [Next]_vars => TypeOK'
<1>1. TypeOK /\ UNCHANGED vars => TypeOK'
  BY DEF TypeOK
<1> QED
  BY <1>1, PublishType, SealType, ServiceType, ApplyType, PullType, OtherType DEF Next

\* The state is well typed in every reachable state.
THEOREM TypeCorrect == Spec => []TypeOK
BY InitType, NextType, PTL DEF Spec

(***************************************************************************)
(* Custody is inductive.                                                   *)
(***************************************************************************)

\* It holds in the initial state.
LEMMA InitCustody == Init => Custody
BY DEF Init, Custody, AuthorityIsDurable, IngestIsDurable, GcHasTransaction,
       RenamedIsKept, LanesAreMissing, Published, NoListing, NoChunk

\* It does not depend on the rest of the state.
LEMMA CustodyFrame ==
  ASSUME Custody,
         UNCHANGED <<data, manifest, version, raw, ackOut, inbox, txn, gcLedger,
                     txnTodo, txnDone, listing, lanes, ingest>>,
         \A c \in Chunks : stage'[c] = "renamed" => stage[c] = "renamed",
         applyPc' \in {applyPc, "idle"},
         pullPc' = pullPc
  PROVE  Custody'
BY DEF Custody, AuthorityIsDurable, IngestIsDurable, GcHasTransaction,
       RenamedIsKept, LanesAreMissing, Published

\* A crash, whatever its reason, forgets only what apply_acks was doing.
LEMMA ProcessDiesCustody == IInv /\ ProcessDies /\ UNCHANGED <<readyVars, ackVars>> => Custody'
BY DEF IInv, TypeOK, ProcessDies, AfterCrash, Custody, AuthorityIsDurable, IngestIsDurable,
       GcHasTransaction, RenamedIsKept, LanesAreMissing, Published

\* Publication steps preserve it.
LEMMA PublishCustody == IInv /\ Publish => Custody'
<1> SUFFICES ASSUME IInv, Publish PROVE Custody'
  OBVIOUS
<1> USE DEF IInv, TypeOK, Advance
<1>1. ASSUME NEW c \in Chunks, OpenSession(c) PROVE Custody'
  BY <1>1, CustodyFrame DEF OpenSession
<1>2. ASSUME NEW c \in Chunks, RenameData(c) PROVE Custody'
  BY <1>2 DEF RenameData, Custody, AuthorityIsDurable, IngestIsDurable,
              GcHasTransaction, RenamedIsKept, LanesAreMissing, Published
<1>3. ASSUME NEW c \in Chunks, WriteControl(c) PROVE Custody'
  BY <1>3 DEF WriteControl, Custody, AuthorityIsDurable, IngestIsDurable,
              GcHasTransaction, RenamedIsKept, LanesAreMissing, Published
<1>4. ASSUME NEW c \in Chunks, WriteManifest(c) PROVE Custody'
  <2> USE <1>4 DEF WriteManifest, Version
  <2>1. \A b \in Chunks : Published(b)' <=> Published(b) \/ b = c
    BY DEF Published
  <2>2. RenamedIsKept'
    BY <2>1 DEF Custody, RenamedIsKept
  <2>3. LanesAreMissing'
    BY <2>1 DEF Custody, LanesAreMissing
  <2> QED
    BY <2>2, <2>3 DEF Custody, AuthorityIsDurable, IngestIsDurable, GcHasTransaction
<1>5. ASSUME NEW c \in Chunks, Record(c) PROVE Custody'
  BY <1>5, CustodyFrame DEF Record
<1>6. ASSUME NEW c \in Chunks, SettleRoll(c) PROVE Custody'
  BY <1>6, CustodyFrame DEF SettleRoll
<1>7. ASSUME NEW c \in Chunks, RecordRefused(c) PROVE Custody'
  BY <1>7, ProcessDiesCustody DEF RecordRefused
<1> QED
  BY <1>1, <1>2, <1>3, <1>4, <1>5, <1>6, <1>7 DEF Publish, Finish

\* A pass over the ACKs starts from the transactions on disk.
LEMMA ScanAcksCustody ==
  ASSUME IInv, ScanAcks,
         UNCHANGED <<readyVars, ackVars, publishVars, raw, ackOut, pullVars>>
  PROVE  Custody'
BY DEF IInv, TypeOK, ScanAcks, Custody, AuthorityIsDurable, IngestIsDurable,
       GcHasTransaction, RenamedIsKept, LanesAreMissing, Published

\* Life-cycle steps preserve it.
LEMMA ServiceCustody == IInv /\ Service => Custody'
<1> SUFFICES ASSUME IInv, Service PROVE Custody'
  OBVIOUS
<1> USE DEF IInv
<1>1. CASE Boot
  <2>1. CASE WorkPending
    BY <1>1, <2>1, ScanAcksCustody DEF Boot
  <2>2. CASE ~WorkPending
    BY <1>1, <2>2, CustodyFrame DEF Boot
  <2> QED
    BY <2>1, <2>2
<1>2. CASE RecoverLease
  BY <1>2, CustodyFrame DEF RecoverLease
<1>3. CASE CloseStaleGaps
  BY <1>3, CustodyFrame DEF CloseStaleGaps
<1>4. CASE StartSealing
  BY <1>4, CustodyFrame DEF StartSealing
<1>5. CASE ServiceUp
  BY <1>5, CustodyFrame DEF ServiceUp
<1>6. CASE EnterBoundary
  BY <1>6, CustodyFrame DEF EnterBoundary
<1>7. CASE SealBoundary
  BY <1>7, CustodyFrame DEF SealBoundary
<1>8. CASE LeaveBoundary
  BY <1>8, CustodyFrame DEF LeaveBoundary
<1>9. CASE Stopped
  BY <1>9, ProcessDiesCustody DEF Stopped
<1> QED
  BY <1>1, <1>2, <1>3, <1>4, <1>5, <1>6, <1>7, <1>8, <1>9 DEF Service

\* Seal steps preserve it.
LEMMA SealCustody == IInv /\ Seal => Custody'
<1> SUFFICES ASSUME IInv, NEW d \in Days,
                    SealWrite(d) \/ SealCleanJournal(d) \/ SealCleanTombstones(d)
             PROVE  Custody'
  BY DEF Seal
<1> QED
  BY CustodyFrame DEF IInv, SealWrite, SealCleanJournal, SealCleanTombstones

\* The steps of apply_acks preserve it: the transaction takes over from the
\* ACK, the ledger from the transaction.
LEMMA ApplyCustody == IInv /\ Apply => Custody'
<1> SUFFICES ASSUME IInv, Apply PROVE Custody'
  OBVIOUS
<1> USE DEF IInv, TypeOK, Version, AckHandled, Custody, AuthorityIsDurable, IngestIsDurable,
            GcHasTransaction, RenamedIsKept, LanesAreMissing, Published
<1>1. ASSUME NEW c \in Chunks, RejectAck(c) PROVE Custody'
  BY <1>1 DEF RejectAck
<1>2. ASSUME NEW c \in Chunks, ReplayAck(c) PROVE Custody'
  BY <1>2 DEF ReplayAck
<1>3. ASSUME NEW c \in Chunks, BeginTransaction(c) PROVE Custody'
  BY <1>3 DEF BeginTransaction, Refused
<1>4. ASSUME NEW c \in Chunks, AcceptAck(c) PROVE Custody'
  BY <1>4 DEF AcceptAck, Processing
<1>5. ASSUME NEW c \in Chunks, GcManifest(c) PROVE Custody'
  BY <1>5 DEF GcManifest
<1>6. ASSUME NEW c \in Chunks, GcData(c) PROVE Custody'
  <2>1. txn[c] # 0 /\ raw[c] = "whole"
    BY <1>6 DEF GcData
  <2>2. RenamedIsKept'
    BY <1>6, <2>1 DEF GcData
  <2> QED
    BY <1>6, <2>1, <2>2 DEF GcData
<1>7. CASE AppendGcLedger
  BY <1>7 DEF AppendGcLedger, LedgerGc
<1>8. ASSUME NEW c \in Chunks, DropTransaction(c) PROVE Custody'
  <2>1. c \in gcLedger /\ txnTodo = {}
    BY <1>8 DEF DropTransaction
  <2>2. RenamedIsKept'
    BY <1>8, <2>1 DEF DropTransaction
  <2> QED
    BY <1>8, <2>1, <2>2 DEF DropTransaction
<1>9. CASE EndApply
  BY <1>9 DEF EndApply
<1> QED
  BY <1>1, <1>2, <1>3, <1>4, <1>5, <1>6, <1>7, <1>8, <1>9 DEF Apply

\* The steps of a pull run preserve it: only a verified file is promoted, and
\* only a promoted chunk is acknowledged.
LEMMA PullCustody == IInv /\ PullStep => Custody'
<1> SUFFICES ASSUME IInv, PullStep PROVE Custody'
  OBVIOUS
<1> USE DEF IInv, TypeOK, Custody, AuthorityIsDurable, IngestIsDurable, GcHasTransaction,
            RenamedIsKept, LanesAreMissing, Published, NoListing, NoChunk
<1>1. CASE ListReady
  BY <1>1 DEF ListReady
<1>2. CASE ListSealed
  BY <1>2 DEF ListSealed, Downloads
<1>3. ASSUME NEW c \in Chunks, Fetch(c) PROVE Custody'
  BY <1>3 DEF Fetch
<1>4. CASE PublishInventory
  BY <1>4 DEF PublishInventory
<1>5. ASSUME NEW c \in Chunks, IngestData(c) PROVE Custody'
  BY <1>5 DEF IngestData, Verified
<1>6. ASSUME NEW c \in Chunks, IngestManifest(c) PROVE Custody'
  BY <1>6 DEF IngestManifest
<1>7. ASSUME NEW c \in Chunks, WriteAck(c) PROVE Custody'
  BY <1>7 DEF WriteAck
<1>8. CASE PublishDays
  BY <1>8 DEF PublishDays
<1>9. CASE LedgerDurable
  BY <1>9 DEF LedgerDurable
<1>10. CASE PushAcks
  BY <1>10 DEF PushAcks, Deliver, RunEnds
<1>11. CASE UnlinkAcks
  BY <1>11 DEF UnlinkAcks, RunEnds
<1> QED
  BY <1>1, <1>2, <1>3, <1>4, <1>5, <1>6, <1>7, <1>8, <1>9, <1>10, <1>11 DEF PullStep

\* The remaining steps preserve it: faults can take away an authority, never
\* create one.
LEMMA OtherCustody ==
  ASSUME IInv,
         \/ StoragePass \/ Midnight \/ LeaseHeartbeat \/ PullAbort \/ EdgeCrash
         \/ StopRequested \/ \E c \in Chunks : DamageAck(c)
  PROVE  Custody'
<1>1. CASE StoragePass
  BY <1>1, ScanAcksCustody DEF StoragePass
<1>2. CASE Midnight
  BY <1>2, CustodyFrame DEF IInv, Midnight
<1>3. CASE LeaseHeartbeat
  BY <1>3, CustodyFrame DEF IInv, LeaseHeartbeat
<1>4. CASE PullAbort
  <2>1. PICK S \in SUBSET ackOut : Deliver(S)
    BY <1>4 DEF PullAbort
  <2>2. AuthorityIsDurable'
    BY <1>4, <2>1 DEF IInv, Custody, AuthorityIsDurable, PullAbort, Deliver
  <2> QED
    BY <1>4, <2>2 DEF IInv, TypeOK, PullAbort, RunEnds, NoListing, NoChunk, Custody,
                      IngestIsDurable, GcHasTransaction, RenamedIsKept, LanesAreMissing,
                      Published
<1>5. CASE EdgeCrash
  BY <1>5, ProcessDiesCustody DEF EdgeCrash
<1>6. ASSUME NEW c \in Chunks, DamageAck(c) PROVE Custody'
  BY <1>6 DEF DamageAck, IInv, TypeOK, Custody, AuthorityIsDurable, IngestIsDurable,
              GcHasTransaction, RenamedIsKept, LanesAreMissing, Published
<1>7. CASE StopRequested
  BY <1>7, CustodyFrame DEF IInv, StopRequested
<1> QED
  BY <1>1, <1>2, <1>3, <1>4, <1>5, <1>6, <1>7

\* IInv is an inductive invariant.
THEOREM Inductive == Spec => []IInv
<1>1. Init => IInv
  BY InitType, InitCustody DEF IInv
<1>2. IInv /\ UNCHANGED vars => Custody'
  BY CustodyFrame DEF IInv
<1>3. IInv /\ [Next]_vars => Custody'
  BY <1>2, PublishCustody, SealCustody, ServiceCustody, ApplyCustody, PullCustody,
     OtherCustody DEF Next
<1>4. IInv /\ [Next]_vars => IInv'
  BY <1>3, NextType DEF IInv
<1> QED
  BY <1>1, <1>4, PTL DEF Spec

\* No announced chunk is ever lost, for any number of chunks, days and faults
\* of either host.
THEOREM NothingIsLost == Spec => []NoLoss
<1>1. IInv => NoLoss
  BY DEF IInv, Custody, RenamedIsKept, NoLoss
<1> QED
  BY <1>1, Inductive, PTL

\* The edge deletes a chunk only on the authority of a durable copy.
THEOREM AuthorityIsAlwaysDurable == Spec => []AuthorityIsDurable
<1>1. IInv => AuthorityIsDurable
  BY DEF IInv, Custody
<1> QED
  BY <1>1, Inductive, PTL

\* The concurrent deletion on the edge never takes a file from under a pull.
THEOREM DownloadsAreAvailable == Spec => []DownloadsStillOnEdge
<1>1. IInv => DownloadsStillOnEdge
  BY DEF IInv, TypeOK, Custody, RenamedIsKept, LanesAreMissing, DownloadsStillOnEdge
<1> QED
  BY <1>1, Inductive, PTL

\* Nothing is deleted on the edge without a trace in its ledger.
THEOREM DeletionIsLedgered == Spec => []GcIsLedgered
<1>1. IInv => GcIsLedgered
  BY DEF IInv, Custody, RenamedIsKept, GcIsLedgered
<1> QED
  BY <1>1, Inductive, PTL

(***************************************************************************)
(* What a pass over the ACKs relies on.                                    *)
(***************************************************************************)

\* The manifests a pass has read are still those in ready/.
SeenIsCurrent ==
  /\ \A c \in Chunks : seen[c] # 0 => applyPc = "acks" /\ c \in ackTodo /\ seen[c] = manifest[c]
  /\ applyPc # "acks" => ackTodo = {}

\* A pass ends with every transaction dropped, so that none is left outside
\* a pass, except by a crash.
TransactionsAreFinished ==
  \A c \in Chunks : txn[c] # 0 =>
    /\ Published(c)
    /\ applyPc = "idle" => mode = "down"
    /\ applyPc = "acks" => \/ c \in txnTodo \cup txnDone
                           \/ c \in ackTodo /\ inbox[c] = "good" /\ txn[c] = seen[c]
    /\ applyPc = "drop" => c \in txnDone

\* The operation lock, and the order of run: a pass runs in the boot or
\* beside the open day, never while stale gaps are closed or a boundary is
\* held.
PassExcludesBoundary ==
  /\ applyPc # "idle" => mode \in {"booting", "running", "stopping"}
  /\ boundary \in {"held", "sealing"} => applyPc = "idle"
  /\ boundary # "none" => mode = "running"

\* Only a rollover fact is written a second time, and no pass is under way
\* when it is.
OnlyRolloversRepeat ==
  \A c \in Chunks :
    /\ stage[c] \in {"idle", "open"} => version[c] = 0
    /\ stage[c] = "redo" => c \in RollChunks
    /\ stage[c] = "renamed" /\ version[c] # 0 =>
         /\ c \in RollChunks
         /\ applyPc = "idle"
         /\ mode \in {"starting", "stopping"} \/ boundary = "held"

\* What central holds or has answered for was announced by the edge.
OnlyAnnounced ==
  \A c \in Chunks :
    inbox[c] # "none" \/ c \in ackOut \/ ingest[c] # "no" \/ raw[c] # "absent" => Published(c)

\* A manifest that has left ready/ has a tombstone until its day is sealed,
\* and a pass that found no manifest still finds the tombstone.
TombstonesAreKept ==
  /\ \A c \in Chunks : Published(c) /\ manifest[c] = 0 => c \in acked \/ DayOf[c] \in sealed
  /\ \A c \in ackTodo : seen[c] = 0 => c \in acked \/ DayOf[c] \in sealed
  /\ sealing # 0 => sealing \in sealed

\* What holds of the passes of apply_acks.
PassInv == /\ SeenIsCurrent
           /\ TransactionsAreFinished
           /\ PassExcludesBoundary
           /\ OnlyRolloversRepeat
           /\ OnlyAnnounced
           /\ TombstonesAreKept
           /\ NoTransactionConflict

AckInv == IInv /\ PassInv

\* PassInv does not depend on the rest of the state.
LEMMA PassFrame ==
  ASSUME PassInv,
         UNCHANGED <<manifest, version, seen, applyPc, ackTodo, txn, txnTodo, txnDone,
                     inbox, mode, boundary, stage, ackOut, ingest, raw, acked, sealed>>,
         sealing' \in {0, sealing}
  PROVE  PassInv'
BY DEF PassInv, SeenIsCurrent, TransactionsAreFinished, PassExcludesBoundary,
       OnlyRolloversRepeat, OnlyAnnounced, TombstonesAreKept, NoTransactionConflict, Published

\* A crash ends the pass and leaves its transactions.
LEMMA ProcessDiesPass ==
  ASSUME AckInv, ProcessDies, UNCHANGED <<readyVars, indexVars, ackVars>>
  PROVE  PassInv'
<1> USE DEF AckInv, IInv, TypeOK, ProcessDies, PassInv, Published
<1>1. SeenIsCurrent' /\ TransactionsAreFinished' /\ PassExcludesBoundary'
  BY DEF SeenIsCurrent, TransactionsAreFinished, PassExcludesBoundary
<1>2. OnlyRolloversRepeat'
  BY DEF OnlyRolloversRepeat, AfterCrash, Stage
<1>3. OnlyAnnounced' /\ TombstonesAreKept' /\ NoTransactionConflict'
  BY DEF OnlyAnnounced, TombstonesAreKept, NoTransactionConflict
<1> QED
  BY <1>1, <1>2, <1>3

\* A pass starts from what is on disk.
LEMMA ScanAcksPass ==
  ASSUME AckInv, ScanAcks, UNCHANGED <<diskVars, publishVars, sealVars, centralVars>>,
         \A c \in Chunks : stage[c] = "renamed" => version[c] = 0,
         \/ mode' = "booting" /\ boundary' = "none"
         \/ mode' = "running" /\ boundary' \in {"none", "due"}
  PROVE  PassInv'
<1> USE DEF AckInv, IInv, TypeOK, ScanAcks, PassInv, Published
<1>1. SeenIsCurrent' /\ TransactionsAreFinished' /\ PassExcludesBoundary'
  BY DEF SeenIsCurrent, TransactionsAreFinished, PassExcludesBoundary
<1>2. OnlyRolloversRepeat'
  BY DEF OnlyRolloversRepeat
<1>3. OnlyAnnounced' /\ TombstonesAreKept' /\ NoTransactionConflict'
  BY DEF OnlyAnnounced, TombstonesAreKept, NoTransactionConflict
<1> QED
  BY <1>1, <1>2, <1>3

\* Publication steps preserve it: a manifest is written again only outside a
\* pass, when no transaction is left.
LEMMA PublishPass == AckInv /\ Publish => PassInv'
<1> SUFFICES ASSUME AckInv, Publish PROVE PassInv'
  OBVIOUS
<1> USE DEF AckInv, IInv, TypeOK, Advance, PassInv, SeenIsCurrent, TransactionsAreFinished,
            PassExcludesBoundary, OnlyAnnounced, TombstonesAreKept, NoTransactionConflict,
            Published
<1>1. ASSUME NEW c \in Chunks, OpenSession(c) PROVE PassInv'
  BY <1>1 DEF OpenSession, OnlyRolloversRepeat
<1>2. ASSUME NEW c \in Chunks, RenameData(c) PROVE PassInv'
  BY <1>2 DEF RenameData, OnlyRolloversRepeat
<1>3. ASSUME NEW c \in Chunks, WriteControl(c) PROVE PassInv'
  <2>1. OnlyRolloversRepeat'
    BY <1>3 DEF WriteControl, OnlyRolloversRepeat
  <2> QED
    BY <1>3, <2>1 DEF WriteControl
<1>4. ASSUME NEW c \in Chunks, WriteManifest(c) PROVE PassInv'
  <2> USE <1>4 DEF WriteManifest, Version
  <2>1. \A b \in Chunks : Published(b)' <=> Published(b) \/ b = c
    OBVIOUS
  <2>2. seen[c] = 0 /\ txn[c] = 0
    BY DEF OnlyRolloversRepeat, Custody, LanesAreMissing
  <2>3. SeenIsCurrent' /\ NoTransactionConflict'
    BY <2>2
  <2>4. TransactionsAreFinished' /\ OnlyAnnounced' /\ TombstonesAreKept'
    BY <2>1, <2>2
  <2>5. OnlyRolloversRepeat'
    BY DEF OnlyRolloversRepeat
  <2> QED
    BY <2>3, <2>4, <2>5
<1>5. ASSUME NEW c \in Chunks, Record(c) PROVE PassInv'
  BY <1>5 DEF Record, OnlyRolloversRepeat
<1>6. ASSUME NEW c \in Chunks, SettleRoll(c) PROVE PassInv'
  BY <1>6 DEF SettleRoll, OnlyRolloversRepeat
<1>7. ASSUME NEW c \in Chunks, RecordRefused(c) PROVE PassInv'
  BY <1>7, ProcessDiesPass DEF RecordRefused
<1> QED
  BY <1>1, <1>2, <1>3, <1>4, <1>5, <1>6, <1>7 DEF Publish, Finish

\* Life-cycle steps preserve it.
LEMMA ServicePass == AckInv /\ Service => PassInv'
<1> SUFFICES ASSUME AckInv, Service PROVE PassInv'
  OBVIOUS
<1> USE DEF AckInv, IInv, TypeOK
<1>1. CASE Boot
  <2>1. CASE WorkPending
    <3>1. \A c \in Chunks : stage[c] = "renamed" => version[c] = 0
      BY <1>1 DEF Boot, PassInv, OnlyRolloversRepeat, PassExcludesBoundary
    <3> QED
      BY <1>1, <2>1, <3>1, ScanAcksPass DEF Boot, PassInv, PassExcludesBoundary
  <2>2. CASE ~WorkPending
    BY <1>1, <2>2 DEF Boot, WorkPending, PassInv, SeenIsCurrent, TransactionsAreFinished,
                      PassExcludesBoundary, OnlyRolloversRepeat, OnlyAnnounced,
                      TombstonesAreKept, NoTransactionConflict, Published
  <2> QED
    BY <2>1, <2>2
<1>a. ASSUME UNCHANGED <<manifest, version, applyVars, txn, inbox, stage, ackOut, ingest, raw,
                         acked, sealed, sealing>>,
             mode \notin {"down", "booting"}, mode' # "down",
             applyPc # "idle" => mode' \in {"booting", "running", "stopping"},
             boundary' \in {"held", "sealing"} => applyPc = "idle",
             boundary' # "none" => mode' = "running",
             \A c \in Chunks : stage[c] = "renamed" /\ version[c] # 0 =>
                  mode' \in {"starting", "stopping"} \/ boundary' = "held"
      PROVE  PassInv'
  BY <1>a DEF PassInv, SeenIsCurrent, TransactionsAreFinished, PassExcludesBoundary,
              OnlyRolloversRepeat, OnlyAnnounced, TombstonesAreKept, NoTransactionConflict,
              Published
<1> USE DEF PassInv, PassExcludesBoundary, OnlyRolloversRepeat
<1>2. CASE RecoverLease
  BY <1>2, <1>a DEF RecoverLease
<1>3. CASE CloseStaleGaps
  BY <1>3, PassFrame DEF CloseStaleGaps
<1>4. CASE StartSealing
  BY <1>4, <1>a DEF StartSealing, RolloverDone
<1>5. CASE ServiceUp
  BY <1>5, <1>a DEF ServiceUp
<1>6. CASE EnterBoundary
  BY <1>6, <1>a DEF EnterBoundary
<1>7. CASE SealBoundary
  BY <1>7, <1>a DEF SealBoundary, RolloverDone
<1>8. CASE LeaveBoundary
  BY <1>8, <1>a DEF LeaveBoundary
<1>9. CASE Stopped
  BY <1>9, ProcessDiesPass DEF Stopped
<1> QED
  BY <1>1, <1>2, <1>3, <1>4, <1>5, <1>6, <1>7, <1>8, <1>9 DEF Service

\* Seal steps preserve it: tombstones go only after SEALED.json is written.
LEMMA SealPass == AckInv /\ Seal => PassInv'
<1> SUFFICES ASSUME AckInv, NEW d \in Days,
                    SealWrite(d) \/ SealCleanJournal(d) \/ SealCleanTombstones(d)
             PROVE  PassInv'
  BY DEF Seal
<1>1. CASE SealCleanJournal(d)
  BY <1>1, PassFrame DEF AckInv, SealCleanJournal
<1>2. CASE SealWrite(d) \/ SealCleanTombstones(d)
  BY <1>2 DEF AckInv, IInv, TypeOK, SealWrite, SealCleanTombstones, PassInv, SeenIsCurrent,
              TransactionsAreFinished, PassExcludesBoundary, OnlyRolloversRepeat,
              OnlyAnnounced, TombstonesAreKept, NoTransactionConflict, Published, Days
<1> QED
  BY <1>1, <1>2

\* The steps of apply_acks preserve it.
LEMMA ApplyPass == AckInv /\ Apply => PassInv'
<1> SUFFICES ASSUME AckInv, Apply PROVE PassInv'
  OBVIOUS
<1> USE DEF AckInv, IInv, TypeOK, Version, PassInv, SeenIsCurrent, TransactionsAreFinished,
            PassExcludesBoundary, OnlyRolloversRepeat, OnlyAnnounced, TombstonesAreKept,
            NoTransactionConflict, Published, Processing, Collecting
<1>1. ASSUME NEW c \in Chunks, RejectAck(c) PROVE PassInv'
  BY <1>1 DEF RejectAck, Refused, AckHandled
<1>2. ASSUME NEW c \in Chunks, ReplayAck(c) PROVE PassInv'
  BY <1>2 DEF ReplayAck, Refused, AckHandled
<1>3. ASSUME NEW c \in Chunks, BeginTransaction(c) PROVE PassInv'
  BY <1>3 DEF BeginTransaction, Refused
<1>4. ASSUME NEW c \in Chunks, AcceptAck(c) PROVE PassInv'
  BY <1>4 DEF AcceptAck, AckHandled
<1>5. ASSUME NEW c \in Chunks, GcManifest(c) PROVE PassInv'
  BY <1>5 DEF GcManifest, Tombstones
<1>6. ASSUME NEW c \in Chunks, GcData(c) PROVE PassInv'
  BY <1>6 DEF GcData
<1>7. CASE AppendGcLedger
  BY <1>7 DEF AppendGcLedger
<1>8. ASSUME NEW c \in Chunks, DropTransaction(c) PROVE PassInv'
  BY <1>8 DEF DropTransaction
<1>9. CASE EndApply
  BY <1>9 DEF EndApply
<1> QED
  BY <1>1, <1>2, <1>3, <1>4, <1>5, <1>6, <1>7, <1>8, <1>9 DEF Apply

\* The steps of a pull run preserve it: they change only what central holds.
LEMMA PullPass == AckInv /\ PullStep => PassInv'
<1> SUFFICES ASSUME AckInv, PullStep PROVE PassInv'
  OBVIOUS
<1>a. ASSUME UNCHANGED <<diskVars, processVars>>, OnlyAnnounced' PROVE PassInv'
  BY <1>a DEF AckInv, PassInv, SeenIsCurrent, TransactionsAreFinished, PassExcludesBoundary,
              OnlyRolloversRepeat, TombstonesAreKept, NoTransactionConflict, Published
<1> USE DEF AckInv, IInv, TypeOK, Custody, LanesAreMissing, PassInv, OnlyAnnounced, Published,
            NoChunk
<1>1. CASE ListReady
  BY <1>1, <1>a DEF ListReady
<1>2. CASE ListSealed
  BY <1>2, <1>a DEF ListSealed
<1>3. ASSUME NEW c \in Chunks, Fetch(c) PROVE PassInv'
  BY <1>3, <1>a DEF Fetch
<1>4. CASE PublishInventory
  BY <1>4, <1>a DEF PublishInventory
<1>5. ASSUME NEW c \in Chunks, IngestData(c) PROVE PassInv'
  BY <1>5, <1>a DEF IngestData, NextChunk
<1>6. ASSUME NEW c \in Chunks, IngestManifest(c) PROVE PassInv'
  BY <1>6, <1>a DEF IngestManifest
<1>7. ASSUME NEW c \in Chunks, WriteAck(c) PROVE PassInv'
  BY <1>7, <1>a DEF WriteAck
<1>8. CASE PublishDays
  BY <1>8, <1>a DEF PublishDays
<1>9. CASE LedgerDurable
  BY <1>9, <1>a DEF LedgerDurable
<1>10. CASE PushAcks
  BY <1>10 DEF PushAcks, Deliver, RunEnds, SeenIsCurrent, TransactionsAreFinished,
               PassExcludesBoundary, OnlyRolloversRepeat, TombstonesAreKept,
               NoTransactionConflict
<1>11. CASE UnlinkAcks
  BY <1>11, <1>a DEF UnlinkAcks, RunEnds
<1> QED
  BY <1>1, <1>2, <1>3, <1>4, <1>5, <1>6, <1>7, <1>8, <1>9, <1>10, <1>11 DEF PullStep

\* The remaining steps preserve it.
LEMMA OtherPass ==
  ASSUME AckInv,
         \/ StoragePass \/ Midnight \/ LeaseHeartbeat \/ PullAbort \/ EdgeCrash
         \/ StopRequested \/ \E c \in Chunks : DamageAck(c)
  PROVE  PassInv'
<1> USE DEF AckInv, IInv, TypeOK
<1>1. CASE StoragePass
  <2>1. \A c \in Chunks : stage[c] = "renamed" => version[c] = 0
    BY <1>1 DEF StoragePass, PassInv, OnlyRolloversRepeat
  <2> QED
    BY <1>1, <2>1, ScanAcksPass DEF StoragePass
<1>2. CASE Midnight
  BY <1>2 DEF Midnight, PassInv, SeenIsCurrent, TransactionsAreFinished,
              PassExcludesBoundary, OnlyRolloversRepeat, OnlyAnnounced, TombstonesAreKept,
              NoTransactionConflict, Published
<1>3. CASE LeaseHeartbeat
  BY <1>3, PassFrame DEF LeaseHeartbeat
<1>4. CASE PullAbort
  <2>1. PICK S \in SUBSET ackOut : Deliver(S)
    BY <1>4 DEF PullAbort
  <2>2. OnlyAnnounced'
    BY <1>4, <2>1 DEF PullAbort, Deliver, RunEnds, NoChunk, PassInv, OnlyAnnounced, Published
  <2>3. TransactionsAreFinished'
    BY <1>4, <2>1 DEF PullAbort, Deliver, PassInv, TransactionsAreFinished, Published
  <2> QED
    BY <1>4, <2>2, <2>3 DEF PullAbort, PassInv, SeenIsCurrent, PassExcludesBoundary,
                            OnlyRolloversRepeat, TombstonesAreKept, NoTransactionConflict,
                            Published
<1>5. CASE EdgeCrash
  BY <1>5, ProcessDiesPass DEF EdgeCrash
<1>6. ASSUME NEW c \in Chunks, DamageAck(c) PROVE PassInv'
  BY <1>6 DEF DamageAck, PassInv, SeenIsCurrent, TransactionsAreFinished,
              PassExcludesBoundary, OnlyRolloversRepeat, OnlyAnnounced, TombstonesAreKept,
              NoTransactionConflict, Published
<1>7. CASE StopRequested
  BY <1>7 DEF StopRequested, PassInv, SeenIsCurrent, TransactionsAreFinished,
              PassExcludesBoundary, OnlyRolloversRepeat, OnlyAnnounced, TombstonesAreKept,
              NoTransactionConflict, Published
<1> QED
  BY <1>1, <1>2, <1>3, <1>4, <1>5, <1>6, <1>7

\* AckInv is an inductive invariant.
THEOREM PassesAreExclusive == Spec => []AckInv
<1>1. Init => PassInv
  BY DEF Init, NoChunk, PassInv, SeenIsCurrent, TransactionsAreFinished,
         PassExcludesBoundary, OnlyRolloversRepeat, OnlyAnnounced, TombstonesAreKept,
         NoTransactionConflict, Published
<1>2. AckInv /\ UNCHANGED vars => PassInv'
  BY PassFrame DEF AckInv
<1>3. AckInv /\ [Next]_vars => PassInv'
  BY <1>2, PublishPass, SealPass, ServicePass, ApplyPass, PullPass, OtherPass DEF Next
<1>4. []IInv /\ PassInv /\ [][Next]_vars => []PassInv
  BY <1>3, PTL DEF AckInv
<1> QED
  BY <1>1, <1>4, Inductive, PTL DEF Spec, AckInv

\* A transaction left by a crash always belongs to the manifest in ready/:
\* ACK_TRANSACTION_CONFLICT is unreachable, whatever is published again.
THEOREM TransactionsNeverConflict == Spec => []NoTransactionConflict
<1>1. AckInv => NoTransactionConflict
  BY DEF AckInv, PassInv
<1> QED
  BY <1>1, PassesAreExclusive, PTL

\* An intact ACK of a chunk of an open day is never quarantined.
THEOREM AcksAreHonoured == Spec => GenuineAckHonoured
<1>1. ASSUME AckInv, NEW c \in Chunks, RejectAck(c)
      PROVE  inbox[c] # "good" \/ DayOf[c] \in sealed
  <2>1. CASE seen[c] = 0 /\ c \notin acked
    BY <1>1, <2>1 DEF RejectAck, Processing, AckInv, PassInv, TombstonesAreKept
  <2>2. CASE seen[c] # 0 /\ txn[c] \notin {0, seen[c]}
    BY <1>1, <2>2 DEF AckInv, PassInv, SeenIsCurrent, NoTransactionConflict
  <2> QED
    BY <1>1, <2>1, <2>2 DEF RejectAck, Refused
<1>2. AckInv => [\A c \in Chunks : RejectAck(c) => inbox[c] # "good" \/ DayOf[c] \in sealed]_vars
  BY <1>1
<1> QED
  BY <1>2, PassesAreExclusive, PTL DEF GenuineAckHonoured

(***************************************************************************)
(* The copy on the central host.                                           *)
(***************************************************************************)

\* Of all steps only the ingest touches raw data and the manifests beside it.
LEMMA RawFrame ==
  ASSUME Next PROVE UNCHANGED <<raw, rawManifest>>
                    \/ \E c \in Chunks : IngestData(c) \/ IngestManifest(c)
<1>1. CASE Publish
  BY <1>1 DEF Publish, Finish, OpenSession, RenameData, WriteControl, WriteManifest, Record,
              SettleRoll, RecordRefused, ProcessDies
<1>2. CASE Seal
  BY <1>2 DEF Seal, SealWrite, SealCleanJournal, SealCleanTombstones
<1>3. CASE Service
  BY <1>3 DEF Service, Boot, RecoverLease, CloseStaleGaps, StartSealing, ServiceUp,
              EnterBoundary, SealBoundary, LeaveBoundary, Stopped, ProcessDies
<1>4. CASE Apply
  BY <1>4 DEF Apply, RejectAck, ReplayAck, BeginTransaction, AcceptAck, GcManifest, GcData,
              DropTransaction, AppendGcLedger, EndApply
<1>5. CASE PullStep
  BY <1>5 DEF PullStep, ListReady, ListSealed, Fetch, PublishInventory, WriteAck,
              PublishDays, LedgerDurable, PushAcks, UnlinkAcks
<1>6. CASE StoragePass \/ Midnight \/ LeaseHeartbeat \/ PullAbort \/ EdgeCrash
           \/ StopRequested \/ \E c \in Chunks : DamageAck(c)
  BY <1>6 DEF StoragePass, Midnight, LeaseHeartbeat, PullAbort, EdgeCrash, ProcessDies,
              StopRequested, DamageAck
<1> QED
  BY <1>1, <1>2, <1>3, <1>4, <1>5, <1>6 DEF Next

\* Raw data and its manifest never change once written, even when the edge
\* announces a rollover fact a second time under another manifest.
THEOREM RawNeverChanges == Spec => RawIsImmutable
<1> DEFINE Kept == \A c \in Chunks : /\ raw[c] = "whole" => raw'[c] = "whole"
                                     /\ rawManifest[c] # 0 => rawManifest'[c] = rawManifest[c]
<1>1. ASSUME IInv, Next PROVE Kept
  <2>1. ASSUME NEW c \in Chunks, IngestData(c) PROVE Kept
    BY <1>1, <2>1 DEF IngestData, Verified, IInv, TypeOK
  <2>2. ASSUME NEW c \in Chunks, IngestManifest(c) PROVE Kept
    BY <1>1, <2>2 DEF IngestManifest, SameManifest, IInv, TypeOK
  <2> QED
    BY <1>1, <2>1, <2>2, RawFrame
<1>2. IInv /\ [Next]_vars => [Kept]_vars
  BY <1>1
<1> HIDE DEF Kept
<1>3. Spec => [][Kept]_vars
  BY <1>2, Inductive, PTL DEF Spec
<1> QED
  BY <1>3 DEF Kept, RawIsImmutable

(***************************************************************************)
(* The refinement: Held follows Handoff.                                   *)
(***************************************************************************)

\* Who holds a chunk depends on its version, on data and on raw only.
LEMMA HeldFrame == ASSUME UNCHANGED <<data, version, raw>> PROVE Held' = Held
BY DEF Held, Published

\* A step that touches one chunk moves that one.
LEMMA HeldMoves ==
  ASSUME NEW c \in Chunks, NEW h,
         \A b \in Chunks \ {c} : /\ Published(b)' <=> Published(b)
                                 /\ b \in data' <=> b \in data
                                 /\ raw'[b] = raw[b],
         Held'[c] = h
  PROVE  Held' = [Held EXCEPT ![c] = h]
<1> DEFINE New == [Held EXCEPT ![c] = h]
<1>1. \A b \in Chunks : Held'[b] = New[b]
  BY DEF Held
<1>2. Held' = [b \in Chunks |-> Held'[b]] /\ New = [b \in Chunks |-> New[b]]
  BY DEF Held
<1> QED
  BY <1>1, <1>2

\* Publication steps offer a chunk, or offer a rollover fact again.
LEMMA PublishHeld == ASSUME AckInv, Publish PROVE [Abstract!Next]_Held
<1> USE DEF AckInv, IInv, TypeOK, PassInv
<1>1. ASSUME NEW c \in Chunks, OpenSession(c) \/ Record(c) \/ SettleRoll(c) \/ RecordRefused(c)
      PROVE  [Abstract!Next]_Held
  BY <1>1, HeldFrame DEF OpenSession, Record, SettleRoll, RecordRefused, ProcessDies
<1>2. ASSUME NEW c \in Chunks, RenameData(c) PROVE [Abstract!Next]_Held
  <2>1. Held' = Held
    BY <1>2 DEF RenameData, OnlyRolloversRepeat, Held, Published
  <2> QED
    BY <2>1
<1>3. ASSUME NEW c \in Chunks, WriteControl(c) PROVE [Abstract!Next]_Held
  <2>1. CASE Published(c) /\ c \notin data
    <3>1. c \in RollChunks /\ raw[c] = "whole"
      BY <1>3, <2>1 DEF WriteControl, OnlyRolloversRepeat, Custody, RenamedIsKept, Published
    <3>2. Held[c] = "central" /\ Held' = [Held EXCEPT ![c] = "both"]
      BY <1>3, <2>1, <3>1 DEF WriteControl, Held, Published
    <3> QED
      BY <3>1, <3>2 DEF Abstract!Next, Abstract!Reoffer, Abstract!Move
  <2>2. CASE ~Published(c) \/ c \in data
    <3>1. Held' = Held
      BY <1>3, <2>2 DEF WriteControl, Held, Published
    <3> QED
      BY <3>1
  <2> QED
    BY <2>1, <2>2
<1>4. ASSUME NEW c \in Chunks, WriteManifest(c) PROVE [Abstract!Next]_Held
  <2>1. CASE Published(c)
    <3>1. Held' = Held
      BY <1>4, <2>1 DEF WriteManifest, Held, Published, Version
    <3> QED
      BY <3>1
  <2>2. CASE ~Published(c)
    <3>1. c \in data /\ raw[c] = "absent"
      BY <1>4, <2>2 DEF WriteManifest, Custody, RenamedIsKept, OnlyAnnounced
    <3>2. Held[c] = "nobody" /\ Held'[c] = "edge"
      BY <1>4, <2>2, <3>1 DEF WriteManifest, Held, Published, Version
    <3>3. Held' = [Held EXCEPT ![c] = "edge"]
      BY <1>4, <3>2, HeldMoves DEF WriteManifest, Published
    <3> QED
      BY <3>2, <3>3 DEF Abstract!Next, Abstract!Offer, Abstract!Move
  <2> QED
    BY <2>1, <2>2
<1> QED
  BY <1>1, <1>2, <1>3, <1>4 DEF Publish, Finish

\* The ingest copies a chunk the edge still has.
LEMMA IngestHeld == ASSUME AckInv, NEW c \in Chunks, IngestData(c) PROVE [Abstract!Next]_Held
<1>1. CASE raw[c] = "absent" /\ Verified(c)
  <2>1. Published(c) /\ c \in data
    BY <1>1 DEF IngestData, NextChunk, AckInv, IInv, PassInv, OnlyAnnounced, Custody,
                RenamedIsKept
  <2>2. raw' = [raw EXCEPT ![c] = "whole"] /\ UNCHANGED <<data, version>>
    BY <1>1 DEF IngestData, Verified
  <2>3. Held[c] = "edge" /\ Held' = [Held EXCEPT ![c] = "both"]
    BY <1>1, <2>1, <2>2 DEF AckInv, IInv, TypeOK, Held, Published
  <2> QED
    BY <2>3 DEF Abstract!Next, Abstract!Copy, Abstract!Move
<1>2. CASE ~(raw[c] = "absent" /\ Verified(c))
  BY <1>2, HeldFrame DEF IngestData
<1> QED
  BY <1>1, <1>2

\* The edge releases a chunk only when the central host holds it too.
LEMMA ApplyHeld == ASSUME AckInv, Apply PROVE [Abstract!Next]_Held
<1>1. ASSUME NEW c \in Chunks, GcData(c) PROVE [Abstract!Next]_Held
  <2>1. Published(c) /\ raw[c] = "whole"
    BY <1>1 DEF GcData, AckInv, IInv, PassInv, Custody, GcHasTransaction, AuthorityIsDurable,
                TransactionsAreFinished
  <2>2. CASE c \in data
    <3>1. Held[c] = "both" /\ Held'[c] = "central"
      BY <1>1, <2>1, <2>2 DEF GcData, Held, Published
    <3>2. Held' = [Held EXCEPT ![c] = "central"]
      BY <1>1, <3>1, HeldMoves DEF GcData, Published
    <3> QED
      BY <3>1, <3>2 DEF Abstract!Next, Abstract!Release, Abstract!Move
  <2>3. CASE c \notin data
    <3>1. UNCHANGED <<data, version, raw>>
      BY <1>1, <2>3 DEF GcData
    <3> QED
      BY <3>1, HeldFrame
  <2> QED
    BY <2>2, <2>3
<1>2. CASE \/ \E c \in Chunks : \/ RejectAck(c) \/ ReplayAck(c) \/ BeginTransaction(c)
                                \/ AcceptAck(c) \/ GcManifest(c) \/ DropTransaction(c)
           \/ AppendGcLedger \/ EndApply
  BY <1>2, HeldFrame DEF RejectAck, ReplayAck, BeginTransaction, AcceptAck, GcManifest,
                         DropTransaction, AppendGcLedger, EndApply
<1> QED
  BY <1>1, <1>2 DEF Apply

\* The transfer implements the abstract hand-off: a chunk is held by the edge,
\* then by both, then by the central host, and only a rollover fact comes back.
THEOREM HandoffIsImplemented == Spec => ImplementsHandoff
<1>1. Init => Abstract!Init
  BY DEF Init, Abstract!Init, Held, Published
<1>2. ASSUME AckInv, Next PROVE [Abstract!Next]_Held
  <2>1. CASE Seal \/ Service
    <3>1. UNCHANGED <<data, version, raw>>
      BY <2>1 DEF Seal, SealWrite, SealCleanJournal, SealCleanTombstones, Service, Boot,
                  RecoverLease, CloseStaleGaps, StartSealing, ServiceUp, EnterBoundary,
                  SealBoundary, LeaveBoundary, Stopped, ProcessDies
    <3> QED
      BY <3>1, HeldFrame
  <2>2. CASE PullStep
    <3>1. CASE \E c \in Chunks : IngestData(c)
      BY <1>2, <3>1, IngestHeld
    <3>2. CASE ~\E c \in Chunks : IngestData(c)
      <4>1. UNCHANGED <<data, version, raw>>
        BY <2>2, <3>2 DEF PullStep, ListReady, ListSealed, Fetch, PublishInventory,
              IngestManifest, WriteAck, PublishDays, LedgerDurable, PushAcks, UnlinkAcks
      <4> QED
        BY <4>1, HeldFrame
    <3> QED
      BY <3>1, <3>2
  <2>3. CASE StoragePass \/ Midnight \/ LeaseHeartbeat \/ PullAbort \/ EdgeCrash
             \/ StopRequested \/ \E c \in Chunks : DamageAck(c)
    <3>1. UNCHANGED <<data, version, raw>>
      BY <2>3 DEF StoragePass, Midnight, LeaseHeartbeat, PullAbort, EdgeCrash, ProcessDies,
                  StopRequested, DamageAck
    <3> QED
      BY <3>1, HeldFrame
  <2> QED
    BY <1>2, <2>1, <2>2, <2>3, PublishHeld, ApplyHeld DEF Next
<1>3. UNCHANGED vars => UNCHANGED Held
  BY HeldFrame
<1>4. AckInv /\ [Next]_vars => [Abstract!Next]_Held
  BY <1>2, <1>3
<1> QED
  BY <1>1, <1>4, PassesAreExclusive, PTL DEF Spec, ImplementsHandoff, Abstract!Spec

(***************************************************************************)
(* The inventory of a day: the seal lists every chunk of the day, and a    *)
(* day on the central host is whole.                                       *)
(***************************************************************************)

InFlight(c) == stage[c] \in {"open", "renamed", "listed"}

\* The collector is not up yet, or not any more.
Dead == mode \in {"down", "booting", "recovering"}

\* Which days the clock, the lease and the seal loop are about.
CalendarInv ==
  /\ \A d \in sealed \cup sealQueue : d < today
  /\ lease <= today
  /\ mode \in {"starting", "sealing", "running", "stopping"} => lease # 0
  /\ \A c \in Inventoried : stage[c] # "idle" => DayOf[c] <= today

\* When days are sealed: while starting, after the rollover, or at the end of a
\* midnight boundary; a stopped loop leaves at most the day it is working on.
SealLoopInv ==
  /\ mode = "sealing" \/ boundary = "sealing" \/ sealQueue \subseteq {sealing} \ {0}
  /\ Dead \/ mode = "starting" => sealing = 0
  /\ mode = "running" /\ boundary # "sealing" => sealing = 0
  /\ sealing # 0 => sealing \in sealQueue
  /\ mode \in {"sealing", "running"} => openGap = 0

\* A session of a writer is younger than every seal and not covered by the
\* lease; no session of a past day is left when days are sealed.
SessionsInv ==
  /\ \A c \in Inventoried : Dead => ~InFlight(c)
  /\ \A c \in DataChunks : InFlight(c) =>
       /\ lease <= DayOf[c]
       /\ \A s \in sealed : s < DayOf[c]
       /\ mode \in {"starting", "sealing"} \/ boundary = "sealing" => DayOf[c] = today

\* A gap fact being published holds the index lock; its day is open, and has
\* a journal unless it is the current day.
FactsInv ==
  \A c \in GapChunks : InFlight(c) =>
    /\ stage[c] # "open"
    /\ sealing = 0
    /\ DayOf[c] \notin sealed
    /\ DayOf[c] \in journalled \/ (DayOf[c] = today /\ mode # "stopping")

\* A running collector has the journal of the day that is, or was until the
\* boundary, the current one.
JournalInv ==
  mode = "running" =>
    (IF boundary \in {"due", "held"} THEN today - 1 ELSE today) \in journalled

\* An announced chunk of an open day will be found by the seal: the day has a
\* journal, or will have one before it can be sealed, from the publication
\* under way, from the stale gap, or from the lease of the boot that crashed.
FoundInv ==
  \A c \in Inventoried : Published(c) /\ DayOf[c] \notin sealed =>
    \/ DayOf[c] \in journalled
    \/ stage[c] = "listed"
    \/ openGap \in 1 .. DayOf[c]
    \/ Dead /\ lease \in 1 .. DayOf[c] /\ \A s \in sealed : s < DayOf[c]

\* What is published on the central host was sealed and is complete.
ArchiveInv ==
  /\ listedDays \cup published \subseteq sealed
  /\ \A d \in published : DayComplete(d)

DayInv == /\ CalendarInv
          /\ SealLoopInv
          /\ SessionsInv
          /\ FactsInv
          /\ JournalInv
          /\ FoundInv
          /\ ArchiveInv
          /\ SealedInventoryComplete

InventoryInv == AckInv /\ DayInv

\* DayInv does not depend on the rest of the state.
LEMMA DayFrame ==
  ASSUME DayInv,
         UNCHANGED <<version, stage, sealed, sealQueue, sealing, inventory, journalled,
                     today, mode, boundary, lease, openGap>>,
         ArchiveInv'
  PROVE  DayInv'
BY DEF DayInv, CalendarInv, SealLoopInv, SessionsInv, FactsInv, JournalInv, FoundInv,
       SealedInventoryComplete, Published, InFlight, Dead

\* What the central host has published does not depend on the edge's steps,
\* as long as a sealed day keeps its inventory.
LEMMA ArchiveFrame ==
  ASSUME ArchiveInv, UNCHANGED <<listedDays, published, raw>>,
         sealed \subseteq sealed',
         \A d \in sealed : inventory'[d] = inventory[d]
  PROVE  ArchiveInv'
BY DEF ArchiveInv, DayComplete

\* A crash: a chunk that was being announced is covered by the journal of its
\* day or by the lease.
LEMMA ProcessDiesDay ==
  ASSUME InventoryInv, ProcessDies,
         UNCHANGED <<readyVars, indexVars, ackVars, openGap>>,
         \/ UNCHANGED lease
         \/ lease' = 0 /\ ~Dead /\ \A c \in Inventoried : stage[c] # "listed"
  PROVE  DayInv'
<1> USE DayAssumption DEF InventoryInv, AckInv, IInv, TypeOK, ProcessDies, DayInv, Days
<1>1. CalendarInv'
  BY DEF CalendarInv, AfterCrash, Inventoried, Chunks
<1>2. SealLoopInv' /\ JournalInv'
  BY DEF SealLoopInv, JournalInv
<1>3. SessionsInv' /\ FactsInv'
  BY DEF SessionsInv, FactsInv, InFlight, AfterCrash, Dead, Inventoried, Chunks, Stage
<1>4. FoundInv'
  <2> SUFFICES ASSUME NEW c \in Inventoried, Published(c), DayOf[c] \notin sealed
               PROVE  \/ DayOf[c] \in journalled
                      \/ openGap \in 1 .. DayOf[c]
                      \/ lease' \in 1 .. DayOf[c] /\ \A s \in sealed : s < DayOf[c]
    BY DEF FoundInv, Published, Dead
  <2>1. c \in Chunks /\ DayOf[c] \in 1 .. MaxDay /\ today \in 1 .. MaxDay
    BY DEF Inventoried, Chunks
  <2>2. CASE stage[c] = "listed"
    <3>1. lease' = lease /\ lease # 0 /\ lease <= today
      BY <2>2 DEF CalendarInv, SessionsInv, InFlight, Dead
    <3>2. CASE c \in DataChunks
      BY <2>1, <2>2, <3>1, <3>2 DEF SessionsInv, InFlight
    <3>3. CASE c \in GapChunks
      BY <2>1, <2>2, <3>1, <3>3 DEF FactsInv, InFlight, CalendarInv
    <3> QED
      BY <3>2, <3>3 DEF Inventoried
  <2>3. CASE stage[c] # "listed"
    BY <2>1, <2>3 DEF FoundInv
  <2> QED
    BY <2>2, <2>3
<1>5. SealedInventoryComplete'
  BY DEF SealedInventoryComplete, Published
<1>6. ArchiveInv'
  BY ArchiveFrame
<1> QED
  BY <1>1, <1>2, <1>3, <1>4, <1>5, <1>6

\* Publication steps preserve it: a session is opened for the current day, a
\* fact is written into an open one.
LEMMA PublishDay == InventoryInv /\ Publish => DayInv'
<1> SUFFICES ASSUME InventoryInv, Publish PROVE DayInv'
  OBVIOUS
<1> USE DayAssumption, KindAssumption
        DEF InventoryInv, AckInv, IInv, TypeOK, DayInv, Days, Advance, Published
<1>a. ASSUME UNCHANGED <<version, sealed, sealVars, inventory, serviceVars, recoveryVars,
                         listedDays, published, raw>>,
             journalled \subseteq journalled',
             NEW c \in Chunks, NEW s, stage' = [stage EXCEPT ![c] = s], s # "idle",
             stage[c] = "listed" => DayOf[c] \in journalled',
             c \in Inventoried => DayOf[c] <= today,
             c \in Inventoried /\ s \in {"open", "renamed", "listed"} =>
               /\ ~Dead
               /\ InFlight(c) \/ DayOf[c] = today \/ c \in GapChunks,
             c \in GapChunks /\ s \in {"open", "renamed", "listed"} =>
               /\ s # "open" /\ sealing = 0 /\ DayOf[c] \notin sealed
               /\ DayOf[c] \in journalled \/ (DayOf[c] = today /\ mode # "stopping")
      PROVE  DayInv'
  <2>1. CalendarInv' /\ SealLoopInv' /\ JournalInv'
    BY <1>a DEF CalendarInv, SealLoopInv, JournalInv, Dead, Inventoried
  <2>2. SessionsInv'
    <3>1. \A b \in DataChunks : b \notin GapChunks /\ b \in Chunks
      BY DEF ControlChunks, Chunks
    <3>2. \A b \in Inventoried : Dead => stage'[b] \notin {"open", "renamed", "listed"}
      BY <1>a DEF SessionsInv, InFlight, Dead
    <3>3. ASSUME NEW b \in DataChunks, stage'[b] \in {"open", "renamed", "listed"}
          PROVE  /\ lease <= DayOf[b]
                 /\ \A t \in sealed : t < DayOf[b]
                 /\ mode \in {"starting", "sealing"} \/ boundary = "sealing" => DayOf[b] = today
      <4>1. InFlight(b) \/ DayOf[b] = today
        BY <1>a, <3>1, <3>3 DEF InFlight, Inventoried
      <4> QED
        BY <4>1 DEF SessionsInv, CalendarInv
    <3> QED
      BY <1>a, <3>2, <3>3 DEF SessionsInv, InFlight, Dead
  <2>3. FactsInv'
    BY <1>a DEF FactsInv, InFlight, Chunks
  <2>4. FoundInv'
    BY <1>a DEF FoundInv, Inventoried, Chunks, Dead
  <2>5. SealedInventoryComplete'
    BY <1>a DEF SealedInventoryComplete
  <2> QED
    BY <1>a, <2>1, <2>2, <2>3, <2>4, <2>5, ArchiveFrame
<1>1. ASSUME NEW c \in Chunks, OpenSession(c) PROVE DayInv'
  <2>1. c \notin GapChunks
    BY <1>1 DEF OpenSession, ControlChunks
  <2>2. ~Dead /\ DayOf[c] = today /\ DayOf[c] <= today /\ stage[c] = "idle"
    BY <1>1 DEF OpenSession, Alive, Dead
  <2> QED
    BY <1>1, <1>a, <2>1, <2>2 DEF OpenSession
<1>2. ASSUME NEW c \in Chunks, RenameData(c) PROVE DayInv'
  BY <1>2, <1>a DEF RenameData, SessionsInv, FactsInv, CalendarInv, InFlight
<1>3. ASSUME NEW c \in Chunks, WriteControl(c) PROVE DayInv'
  <2>1. c \in GapChunks => DayOf[c] \in journalled \/ (DayOf[c] = today /\ mode # "stopping")
    BY <1>3 DEF WriteControl, Alive, JournalInv, PassInv, PassExcludesBoundary
  <2>2. c \notin DataChunks /\ mode \notin {"down", "booting", "recovering"} /\ sealing = 0
    BY <1>3 DEF WriteControl, Alive, IndexLocked
  <2> QED
    BY <1>3, <1>a, <2>1, <2>2 DEF WriteControl, Dead, Inventoried
<1>4. ASSUME NEW c \in Chunks, WriteManifest(c) PROVE DayInv'
  <2> USE <1>4 DEF WriteManifest, Version
  <2>1. c \in Inventoried => DayOf[c] \notin sealed
    BY DEF SessionsInv, FactsInv, InFlight, Inventoried
  <2>2. CalendarInv' /\ SealLoopInv' /\ JournalInv'
    BY DEF CalendarInv, SealLoopInv, JournalInv, Dead, Inventoried
  <2>3. SessionsInv' /\ FactsInv'
    BY DEF SessionsInv, FactsInv, InFlight, Dead, Inventoried, Chunks
  <2>4. FoundInv' /\ SealedInventoryComplete'
    BY <2>1 DEF FoundInv, SealedInventoryComplete, Inventoried, Chunks, Dead
  <2> QED
    BY <2>2, <2>3, <2>4, ArchiveFrame
<1>5. ASSUME NEW c \in Chunks, Record(c) PROVE DayInv'
  BY <1>5, <1>a DEF Record, AppendRef, CalendarInv
<1>6. ASSUME NEW c \in Chunks, SettleRoll(c) PROVE DayInv'
  BY <1>6, <1>a DEF SettleRoll, Inventoried, ControlChunks
<1>7. ASSUME NEW c \in Chunks, RecordRefused(c) PROVE DayInv'
  BY <1>7, ProcessDiesDay DEF RecordRefused
<1> QED
  BY <1>1, <1>2, <1>3, <1>4, <1>5, <1>6, <1>7 DEF Publish, Finish

\* Seal steps preserve it: when SEALED.json is written, the day has a journal,
\* so that every manifest and every tombstone of the day is read.
LEMMA SealDay == InventoryInv /\ Seal => DayInv'
<1> SUFFICES ASSUME InventoryInv, Seal PROVE DayInv'
  OBVIOUS
<1> USE DayAssumption DEF InventoryInv, AckInv, IInv, TypeOK, DayInv, Days
<1>1. ASSUME NEW d \in Days, SealWrite(d) PROVE DayInv'
  <2> USE <1>1 DEF SealWrite
  <2>1. /\ sealing = 0 /\ (mode = "sealing" \/ (mode = "running" /\ boundary = "sealing"))
        /\ openGap = 0 /\ d < today /\ ~Dead
    BY DEF SealLoopInv, IndexLocked, CalendarInv, PassInv, PassExcludesBoundary, Dead
  <2>2. \A c \in GapChunks : ~InFlight(c)
    BY DEF IndexLocked, ControlChunks, FactsInv, InFlight
  <2>3. \A c \in DataChunks : InFlight(c) => DayOf[c] = today
    BY <2>1 DEF SessionsInv
  <2>4. CalendarInv' /\ SealLoopInv' /\ JournalInv'
    BY <2>1 DEF CalendarInv, SealLoopInv, JournalInv, Dead
  <2>5. SessionsInv' /\ FactsInv'
    BY <2>1, <2>2, <2>3 DEF SessionsInv, FactsInv, InFlight, Dead
  <2>6. FoundInv'
    BY <2>1 DEF FoundInv, Published, Dead
  <2>7. SealedInventoryComplete'
    <3> SUFFICES ASSUME NEW c \in Inventoried, Published(c), DayOf[c] = d, d \notin sealed
                 PROVE  c \in ReadRefs(d)
      BY DEF SealedInventoryComplete, Published, Inventoried, Chunks
    <3>1. stage[c] # "listed"
      BY <2>1, <2>2, <2>3 DEF InFlight, Inventoried
    <3>2. d \in journalled
      BY <2>1, <3>1 DEF FoundInv
    <3>3. manifest[c] # 0 \/ c \in acked
      BY DEF PassInv, TombstonesAreKept, Inventoried, Chunks
    <3> QED
      BY <3>2, <3>3 DEF ReadRefs, Inventoried, Chunks
  <2>8. ArchiveInv'
    BY ArchiveFrame
  <2> QED
    BY <2>4, <2>5, <2>6, <2>7, <2>8
<1>2. ASSUME NEW d \in Days, SealCleanJournal(d) PROVE DayInv'
  <2> USE <1>2 DEF SealCleanJournal
  <2>1. d \in sealed /\ d < today /\ sealing = d /\ d # 0
    BY DEF PassInv, TombstonesAreKept, CalendarInv
  <2>2. JournalInv'
    BY <2>1 DEF JournalInv, SealLoopInv
  <2>3. FactsInv' /\ FoundInv'
    BY <2>1 DEF FactsInv, FoundInv, InFlight, Published, Dead
  <2>4. CalendarInv' /\ SealLoopInv' /\ SessionsInv' /\ SealedInventoryComplete'
    BY DEF CalendarInv, SealLoopInv, SessionsInv, SealedInventoryComplete, InFlight,
           Published, Dead
  <2> QED
    BY <2>2, <2>3, <2>4, ArchiveFrame
<1>3. ASSUME NEW d \in Days, SealCleanTombstones(d) PROVE DayInv'
  BY <1>3, ArchiveFrame
     DEF SealCleanTombstones, CalendarInv, SealLoopInv, SessionsInv, FactsInv, JournalInv,
         FoundInv, SealedInventoryComplete, InFlight, Published, Dead
<1> QED
  BY <1>1, <1>2, <1>3 DEF Seal

\* Life-cycle steps preserve it.
LEMMA ServiceDay == InventoryInv /\ Service => DayInv'
<1> SUFFICES ASSUME InventoryInv, Service PROVE DayInv'
  OBVIOUS
<1> USE DayAssumption DEF InventoryInv, AckInv, IInv, TypeOK, DayInv, Days, Published
<1>1. CASE Boot
  <2>1. /\ mode = "down" /\ mode' \in {"booting", "recovering"} /\ boundary = "none"
        /\ UNCHANGED <<diskVars, today, boundary, publishVars, sealVars, centralVars>>
    BY <1>1 DEF Boot, PassInv, PassExcludesBoundary
  <2> QED
    BY <2>1, ArchiveFrame
       DEF CalendarInv, SealLoopInv, SessionsInv, FactsInv, JournalInv,
           FoundInv, SealedInventoryComplete, InFlight, Dead
<1>2. CASE RecoverLease
  <2> USE <1>2 DEF RecoverLease
  <2>1. /\ Dead /\ boundary = "none" /\ \A c \in Inventoried : ~InFlight(c)
        /\ journalled \subseteq journalled' /\ sealQueue = {}
    BY DEF Dead, SessionsInv, PassInv, PassExcludesBoundary, SealLoopInv
  <2>2. CalendarInv' /\ SealLoopInv' /\ JournalInv'
    BY <2>1 DEF CalendarInv, SealLoopInv, JournalInv, Dead
  <2>3. SessionsInv' /\ FactsInv'
    BY <2>1 DEF SessionsInv, FactsInv, InFlight, Dead, Inventoried
  <2>4. FoundInv'
    <3> SUFFICES ASSUME NEW c \in Inventoried, Published(c), DayOf[c] \notin sealed
                 PROVE  DayOf[c] \in journalled' \/ openGap' \in 1 .. DayOf[c]
      BY DEF FoundInv
    <3>1. DayOf[c] \in Days
      BY DEF Inventoried, Chunks
    <3>2. \/ DayOf[c] \in journalled
          \/ openGap \in 1 .. DayOf[c]
          \/ lease \in 1 .. DayOf[c] /\ Uncovered(DayOf[c])
      BY <2>1, <3>1 DEF FoundInv, InFlight, Uncovered
    <3>3. CASE lease = 0
      BY <2>1, <3>2, <3>3
    <3>4. CASE lease # 0
      <4>1. PICK d \in Days : /\ RecoveryDay(d)
                              /\ openGap' = IF openGap \in 1 .. d THEN openGap ELSE d
        BY <3>4
      <4>2. Uncovered(DayOf[c]) => d <= DayOf[c]
        BY <3>1, <4>1 DEF RecoveryDay
      <4> QED
        BY <2>1, <3>1, <3>2, <4>1, <4>2
    <3> QED
      BY <3>3, <3>4
  <2>5. SealedInventoryComplete'
    BY DEF SealedInventoryComplete
  <2> QED
    BY <2>2, <2>3, <2>4, <2>5, ArchiveFrame
<1>3. CASE CloseStaleGaps
  <2> USE <1>3 DEF CloseStaleGaps
  <2>1. ~Dead /\ journalled \subseteq journalled'
    BY DEF Dead, RolledDays
  <2>2. CalendarInv' /\ SealLoopInv' /\ JournalInv' /\ SealedInventoryComplete'
    BY <2>1 DEF CalendarInv, SealLoopInv, JournalInv, SealedInventoryComplete, Dead
  <2>3. SessionsInv' /\ FactsInv'
    BY <2>1 DEF SessionsInv, FactsInv, InFlight, Dead
  <2>4. FoundInv'
    <3> SUFFICES ASSUME NEW c \in Inventoried, Published(c), DayOf[c] \notin sealed
                 PROVE  DayOf[c] \in journalled' \/ stage[c] = "listed"
      BY DEF FoundInv
    <3>1. c \in Chunks /\ DayOf[c] \in Days /\ DayOf[c] <= today
      BY DEF Inventoried, Chunks, CalendarInv, PassInv, OnlyRolloversRepeat
    <3> QED
      BY <2>1, <3>1 DEF FoundInv, RolledDays
  <2> QED
    BY <2>2, <2>3, <2>4, ArchiveFrame
<1>4. CASE StartSealing
  <2>1. \A d \in sealQueue' : d < today
    BY <1>4 DEF StartSealing, CompletedDates
  <2>2. boundary = "none" /\ sealing = 0
    BY <1>4 DEF StartSealing, PassInv, PassExcludesBoundary, SealLoopInv
  <2> QED
    BY <1>4, <2>1, <2>2, ArchiveFrame
       DEF StartSealing, CalendarInv, SealLoopInv, SessionsInv, FactsInv, JournalInv, FoundInv,
           SealedInventoryComplete, InFlight, Dead
<1>5. CASE ServiceUp
  <2>1. boundary = "none" /\ sealing = 0
    BY <1>5 DEF ServiceUp, PassInv, PassExcludesBoundary, SealLoopInv
  <2> QED
    BY <1>5, <2>1, ArchiveFrame
       DEF ServiceUp, EmitUniverse, CalendarInv, SealLoopInv, SessionsInv, FactsInv,
           JournalInv, FoundInv, SealedInventoryComplete, InFlight, Dead
<1>6. CASE EnterBoundary
  BY <1>6, ArchiveFrame
     DEF EnterBoundary, CalendarInv, SealLoopInv, SessionsInv, FactsInv, JournalInv, FoundInv,
         SealedInventoryComplete, InFlight, Dead
<1>7. CASE SealBoundary
  <2>1. mode = "running" /\ sealing = 0
    BY <1>7 DEF SealBoundary, PassInv, PassExcludesBoundary, SealLoopInv
  <2>2. \A c \in DataChunks : InFlight(c) => DayOf[c] = today
    BY <1>7 DEF SealBoundary, WriterBarrier, InFlight, CalendarInv, Inventoried, Chunks
  <2>3. SessionsInv' /\ FactsInv' /\ FoundInv'
    BY <1>7, <2>1, <2>2 DEF SealBoundary, EmitUniverse, SessionsInv, FactsInv, FoundInv,
                            InFlight, Dead
  <2> QED
    BY <1>7, <2>1, <2>3, ArchiveFrame
       DEF SealBoundary, EmitUniverse, CalendarInv, SealLoopInv, JournalInv,
           SealedInventoryComplete, Dead
<1>8. CASE LeaveBoundary
  <2>1. mode = "running" /\ sealing = 0
    BY <1>8 DEF LeaveBoundary, PassInv, PassExcludesBoundary, SealLoopInv
  <2> QED
    BY <1>8, <2>1, ArchiveFrame
       DEF LeaveBoundary, CalendarInv, SealLoopInv, SessionsInv, FactsInv, JournalInv,
           FoundInv, SealedInventoryComplete, InFlight, Dead
<1>9. CASE Stopped
  BY <1>9, ProcessDiesDay DEF Stopped, Dead, IndexLocked, Inventoried, ControlChunks
<1> QED
  BY <1>1, <1>2, <1>3, <1>4, <1>5, <1>6, <1>7, <1>8, <1>9 DEF Service

\* The steps of apply_acks preserve it: they do not touch the index.
LEMMA ApplyDay == InventoryInv /\ Apply => DayInv'
<1> SUFFICES ASSUME InventoryInv, Apply PROVE DayInv'
  OBVIOUS
<1>1. CASE EndApply
  <2>1. mode' = mode \/ (mode = "booting" /\ mode' = "recovering")
    BY <1>1 DEF EndApply
  <2> QED
    BY <1>1, <2>1, ArchiveFrame
       DEF EndApply, InventoryInv, DayInv, CalendarInv, SealLoopInv, SessionsInv, FactsInv,
           JournalInv, FoundInv, SealedInventoryComplete, InFlight, Dead, Published
<1>2. CASE ~EndApply
  <2>1. UNCHANGED <<version, stage, sealed, sealQueue, sealing, inventory, journalled,
                    today, mode, boundary, lease, openGap, listedDays, published, raw>>
    BY <1>2 DEF Apply, RejectAck, ReplayAck, BeginTransaction, AcceptAck, GcManifest, GcData,
                DropTransaction, AppendGcLedger
  <2> QED
    BY <2>1, DayFrame, ArchiveFrame DEF InventoryInv, DayInv
<1> QED
  BY <1>1, <1>2

\* The steps of a pull run preserve it: a day is published when all of its
\* inventory is durable, and durable data stays.
LEMMA PullDay == InventoryInv /\ PullStep => DayInv'
<1> SUFFICES ASSUME InventoryInv, PullStep PROVE DayInv'
  OBVIOUS
<1>1. UNCHANGED <<version, stage, sealed, sealQueue, sealing, inventory, journalled,
                  today, mode, boundary, lease, openGap>>
  BY DEF PullStep, ListReady, ListSealed, Fetch, PublishInventory, IngestData,
         IngestManifest, WriteAck, PublishDays, LedgerDurable, PushAcks, UnlinkAcks
<1>2. ArchiveInv'
  <2> USE DEF InventoryInv, DayInv
  <2>1. CASE \E c \in Chunks : IngestData(c)
    BY <2>1 DEF IngestData, Verified, ArchiveInv, DayComplete, AckInv, IInv, TypeOK
  <2>2. CASE PublishDays
    BY <2>2 DEF PublishDays, ArchiveInv, DayComplete
  <2>3. CASE ListSealed
    BY <2>3 DEF ListSealed, ArchiveInv, DayComplete
  <2>4. CASE PushAcks \/ UnlinkAcks
    BY <2>4 DEF PushAcks, UnlinkAcks, RunEnds, ArchiveInv, DayComplete
  <2>5. CASE \/ \E c \in Chunks : Fetch(c) \/ IngestManifest(c) \/ WriteAck(c)
             \/ ListReady \/ PublishInventory \/ LedgerDurable
    BY <2>5, ArchiveFrame DEF Fetch, IngestManifest, WriteAck, ListReady, PublishInventory,
                              LedgerDurable
  <2> QED
    BY <2>1, <2>2, <2>3, <2>4, <2>5 DEF PullStep
<1> QED
  BY <1>1, <1>2, DayFrame DEF InventoryInv

\* The remaining steps preserve it.  This is where a boot over midnight would
\* break it: its sessions are of the day that is sealed without the barrier.
LEMMA OtherDay ==
  ASSUME InventoryInv, BootSpansMidnight = FALSE,
         \/ StoragePass \/ Midnight \/ LeaseHeartbeat \/ PullAbort \/ EdgeCrash
         \/ StopRequested \/ \E c \in Chunks : DamageAck(c)
  PROVE  DayInv'
<1> USE DayAssumption DEF InventoryInv, AckInv, IInv, TypeOK, DayInv, Days
<1>1. CASE StoragePass
  BY <1>1, DayFrame, ArchiveFrame DEF StoragePass
<1>2. CASE Midnight
  <2> USE <1>2 DEF Midnight
  <2>1. mode \in {"down", "running", "stopping"} /\ boundary = "none"
    OBVIOUS
  <2>2. CalendarInv'
    BY <2>1 DEF CalendarInv, Inventoried, Chunks
  <2>3. SealLoopInv' /\ JournalInv'
    BY <2>1 DEF SealLoopInv, JournalInv, Dead
  <2>4. SessionsInv' /\ FactsInv'
    BY <2>1 DEF SessionsInv, FactsInv, JournalInv, InFlight, Dead, Inventoried
  <2>5. FoundInv' /\ SealedInventoryComplete'
    BY DEF FoundInv, SealedInventoryComplete, Published, Dead
  <2> QED
    BY <2>2, <2>3, <2>4, <2>5, ArchiveFrame
<1>3. CASE LeaseHeartbeat
  <2>1. /\ lease' \in lease .. today
        /\ \A c \in DataChunks : InFlight(c) => lease' <= DayOf[c]
    BY <1>3 DEF LeaseHeartbeat, InFlight
  <2> QED
    BY <1>3, <2>1, ArchiveFrame
       DEF LeaseHeartbeat, CalendarInv, SealLoopInv, SessionsInv, FactsInv, JournalInv,
           FoundInv, SealedInventoryComplete, InFlight, Dead, Published
<1>4. CASE PullAbort
  <2>1. ArchiveInv'
    BY <1>4 DEF PullAbort, RunEnds, ArchiveInv, DayComplete
  <2> QED
    BY <1>4, <2>1, DayFrame DEF PullAbort
<1>5. CASE EdgeCrash
  BY <1>5, ProcessDiesDay DEF EdgeCrash
<1>6. ASSUME NEW c \in Chunks, DamageAck(c) PROVE DayInv'
  BY <1>6, DayFrame, ArchiveFrame DEF DamageAck
<1>7. CASE StopRequested
  <2> USE <1>7 DEF StopRequested
  <2>1. CalendarInv' /\ SealLoopInv' /\ JournalInv'
    BY DEF CalendarInv, SealLoopInv, JournalInv, PassInv, TombstonesAreKept, Dead
  <2>2. SessionsInv' /\ FactsInv'
    BY DEF SessionsInv, FactsInv, InFlight, Dead
  <2>3. FoundInv' /\ SealedInventoryComplete'
    BY DEF FoundInv, SealLoopInv, SealedInventoryComplete, Published, Dead
  <2> QED
    BY <2>1, <2>2, <2>3, ArchiveFrame
<1> QED
  BY <1>1, <1>2, <1>3, <1>4, <1>5, <1>6, <1>7

\* InventoryInv is an inductive invariant of a collector whose boots end
\* before midnight.
LEMMA InventoryInductive ==
  ASSUME BootSpansMidnight = FALSE PROVE Spec => []InventoryInv
<1>1. Init => DayInv
  BY DEF Init, DayInv, CalendarInv, SealLoopInv, SessionsInv, FactsInv, JournalInv, FoundInv,
         ArchiveInv, SealedInventoryComplete, InFlight, Dead, Published, Inventoried, Chunks
<1>2. InventoryInv /\ UNCHANGED vars => DayInv'
  BY DayFrame, ArchiveFrame DEF InventoryInv, DayInv
<1>3. InventoryInv /\ [Next]_vars => DayInv'
  BY <1>2, PublishDay, SealDay, ServiceDay, ApplyDay, PullDay, OtherDay DEF Next
<1>4. []AckInv /\ DayInv /\ [][Next]_vars => []DayInv
  BY <1>3, PTL DEF InventoryInv
<1> QED
  BY <1>1, <1>4, PassesAreExclusive, PTL DEF Spec, InventoryInv

\* SEALED.json lists every data chunk and every gap fact of its day that was
\* ever announced, whatever crashes happened before the seal.
THEOREM InventoriesAreComplete ==
  ASSUME BootSpansMidnight = FALSE PROVE Spec => []SealedInventoryComplete
<1>1. InventoryInv => SealedInventoryComplete
  BY DEF InventoryInv, DayInv
<1> QED
  BY <1>1, InventoryInductive, PTL

\* A day published on the central host has all its chunks, intact.
THEOREM PublishedDaysAreWhole ==
  ASSUME BootSpansMidnight = FALSE PROVE Spec => []PublishedDayIsWhole
<1>1. InventoryInv => PublishedDayIsWhole
  BY DEF InventoryInv, DayInv, ArchiveInv, DayComplete, SealedInventoryComplete,
         PublishedDayIsWhole
<1> QED
  BY <1>1, InventoryInductive, PTL
=============================================================================

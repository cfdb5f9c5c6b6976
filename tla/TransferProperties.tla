--------------------------- MODULE TransferProperties ---------------------------
(***************************************************************************)
(* What the hand-off has to guarantee, for the specification of Transfer.  *)
(***************************************************************************)
EXTENDS Transfer

Version == Nat

\* Every variable has its type.
TypeOK ==
  /\ data \subseteq Chunks /\ acked \subseteq Chunks
  /\ manifest \in [Chunks -> Version] /\ version \in [Chunks -> Version]
  /\ journal \in [Days -> SUBSET Chunks] /\ inventory \in [Days -> SUBSET Chunks]
  /\ sealed \subseteq Days /\ journalled \subseteq Days
  /\ lease \in Nat /\ openGap \in Nat
  /\ inbox \in [Chunks -> AckFile] /\ txn \in [Chunks -> Version]
  /\ gcLedger \subseteq Chunks
  /\ mode \in {"down", "booting", "recovering", "starting", "sealing", "running",
              "stopping"}
  /\ today \in Days /\ boundary \in {"none", "due", "held", "sealing"}
  /\ stage \in [Chunks -> Stage]
  /\ sealQueue \subseteq Nat /\ sealing \in Nat
  /\ applyPc \in {"idle", "acks", "drop"}
  /\ ackTodo \subseteq Chunks /\ seen \in [Chunks -> Version]
  /\ txnTodo \subseteq Chunks /\ txnDone \subseteq Chunks
  /\ staged \in [Chunks -> FileState] /\ raw \in [Chunks -> FileState]
  /\ rawManifest \in [Chunks -> Version]
  /\ ackOut \subseteq Chunks /\ published \subseteq Days
  /\ durableLedger \subseteq Chunks
  /\ pullPc \in {"idle", "sealed", "lanes", "ingest", "ledger", "push", "pushed"}
  /\ listing \in [Chunks -> Version] /\ listedDays \subseteq Days
  /\ lanes \subseteq Chunks /\ ingest \in [Chunks -> {"no", "data", "manifest", "ack"}]
  /\ fresh \subseteq Chunks
  /\ faults \in Nat

\* Whatever lets the edge delete a chunk - a staged ACK, an intact ACK in the
\* inbox, a transaction - answers for a chunk that is intact in raw.
AuthorityIsDurable ==
  \A c \in Chunks : c \in ackOut \/ inbox[c] = "good" \/ txn[c] # 0 => raw[c] = "whole"

\* A chunk that was ever announced by a manifest is at every moment in
\* ready/ on the edge or intact in raw on the central host, whatever crashes,
\* aborted pulls, torn files and replayed or damaged ACKs happen in between.
NoLoss == \A c \in Chunks : Published(c) => c \in data \/ raw[c] = "whole"

\* A pull never asks the edge for a file the edge has deleted meanwhile, so
\* that the concurrent ACK application cannot make a lane fail.
DownloadsStillOnEdge == lanes \subseteq data

\* What an inventory is answerable for.  A rollover fact is not: the boot does
\* not roll the gap of an exhausted spool (_close_stale_gaps skips it), so that
\* its next rollover may write the first chunk of a day long past, which a
\* crash leaves in ready/ without a journal.
Inventoried == DataChunks \cup GapChunks

\* The SEALED.json of a day lists every chunk of that day that was ever
\* announced: those in the journal, those a crash kept out of it, and those
\* that were ACKed and deleted before the day ended.
SealedInventoryComplete ==
  \A d \in sealed : \A c \in Inventoried : DayOf[c] = d /\ Published(c) => c \in inventory[d]

\* A day the central host has published has all its chunks, intact, in raw.
PublishedDayIsWhole ==
  \A d \in published : \A c \in Inventoried : DayOf[c] = d /\ Published(c) => raw[c] = "whole"

\* What the edge has deleted is in its ledger, or a transaction will still
\* put it there.
GcIsLedgered ==
  \A c \in Chunks : Published(c) /\ c \notin data => c \in gcLedger \/ txn[c] # 0

\* A transaction left by a crash always belongs to the manifest in ready/:
\* the ACK_TRANSACTION_CONFLICT branch cannot be taken, because a boot
\* finishes the transactions before a rollover can be published again.
NoTransactionConflict ==
  \A c \in Chunks : txn[c] # 0 /\ manifest[c] # 0 => txn[c] = manifest[c]

\* An intact ACK of a chunk whose day is not sealed is never quarantined: it
\* deletes the chunk or, when it is a repetition, meets the tombstone.
GenuineAckHonoured ==
  [][\A c \in Chunks : RejectAck(c) => inbox[c] # "good" \/ DayOf[c] \in sealed]_vars

\* Raw data, its manifest and a published day never change once written.
RawIsImmutable ==
  [][\A c \in Chunks : /\ raw[c] = "whole" => raw'[c] = "whole"
                       /\ rawManifest[c] # 0 => rawManifest'[c] = rawManifest[c]]_vars

\* Who holds a chunk, as Handoff sees it.
Held == [c \in Chunks |->
  IF ~Published(c) THEN "nobody"
  ELSE IF raw[c] = "whole" THEN (IF c \in data THEN "both" ELSE "central")
       ELSE (IF c \in data THEN "edge" ELSE "nobody")]

Abstract == INSTANCE Handoff WITH held <- Held, Reofferable <- RollChunks

\* The transfer implements the abstract hand-off.
ImplementsHandoff == Abstract!Spec

\* Every announced chunk eventually leaves ready/: the spool drains.
BacklogDrains == \A c \in Chunks : manifest[c] # 0 ~> manifest[c] = 0

\* Every past day with an announced chunk is eventually published on the central
\* host: the midnight boundary or a later boot seals it, and pulls bring the
\* seal and all its chunks (seal, _publish_complete_day).
PastDayArrives ==
  \A d \in Days :
    d < today /\ (\E c \in Chunks : DayOf[c] = d /\ Published(c)) ~> d \in published

(***************************************************************************)
(* The inductive invariant behind the safety theorems of TransferProofs.   *)
(***************************************************************************)

\* What a pull run still has to acknowledge is durable, and nothing torn is
\* ever promoted.
IngestIsDurable ==
  \A c \in Chunks : /\ raw[c] # "torn"
                    /\ ingest[c] \in {"manifest", "ack"} => raw[c] = "whole"

\* apply_acks deletes under a transaction only, and drops the transaction of
\* a chunk only after the ledger has it.
GcHasTransaction ==
  /\ \A c \in txnTodo \cup txnDone : txn[c] # 0
  /\ applyPc = "drop" => txnTodo = {} /\ txnDone \subseteq gcLedger

\* A file that was renamed into ready/ is there, or it was collected for a
\* reason: a durable copy, and a ledger entry or a transaction.
RenamedIsKept ==
  \A c \in Chunks :
    Published(c) \/ stage[c] = "renamed" =>
      c \in data \/ (raw[c] = "whole" /\ (c \in gcLedger \/ txn[c] # 0))

\* A listed chunk was announced; a chunk in a lane is not durable yet, and
\* the lanes are empty once the ingest begins.
LanesAreMissing ==
  /\ \A c \in Chunks : manifest[c] # 0 \/ listing[c] # 0 => Published(c)
  /\ \A c \in lanes : Published(c) /\ raw[c] = "absent"
  /\ pullPc = "ingest" => lanes = {}

\* Who answers for a chunk at every moment.
Custody == /\ AuthorityIsDurable
           /\ IngestIsDurable
           /\ GcHasTransaction
           /\ RenamedIsKept
           /\ LanesAreMissing

IInv == TypeOK /\ Custody
=============================================================================

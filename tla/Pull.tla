--------------------------------- MODULE Pull ---------------------------------
(***************************************************************************)
(* pipeline/pull.py, run_pull: one run of the central host, started every  *)
(* minute under a file lock, so that runs never overlap.                   *)
(*                                                                         *)
(*   RsyncTransport.pull_ready   ListReady, ListSealed, Fetch,             *)
(*                               PublishInventory                          *)
(*   Puller.run                  IngestData, IngestManifest, WriteAck,     *)
(*                               PublishDays                               *)
(*   run_pull, push_acks         LedgerDurable, PushAcks, UnlinkAcks       *)
(*                                                                         *)
(* rsync itself is external: what is known of it is the exit status.       *)
(***************************************************************************)
EXTENDS TransferState

NoChunk == [c \in Chunks |-> "no"]
NoListing == [c \in Chunks |-> 0]

\* The run is over; what it knew is gone, what it wrote remains.
RunEnds ==
  /\ pullPc' = "idle"
  /\ listing' = NoListing
  /\ listedDays' = {}
  /\ lanes' = {}
  /\ ingest' = NoChunk
  /\ fresh' = {}

\* Synchronise the manifests; date=... directories come before day-manifests.
ListReady ==
  /\ pullPc = "idle"
  /\ pullPc' = "sealed"
  /\ listing' = manifest
  /\ UNCHANGED <<diskVars, processVars, rawVars, ackOutVars, listedDays, lanes,
                 ingest, fresh, faults>>

\* Mutant: chunks that are durable already are downloaded again.
AllListed == {c \in Chunks : listing[c] # 0}

\* _inventory_downloads: every listed chunk that is not durable yet.
Downloads == {c \in Chunks : listing[c] # 0 /\ raw[c] = "absent"}

\* Synchronise the SEALED.json files and split the downloads into lanes.
ListSealed ==
  /\ pullPc = "sealed"
  /\ pullPc' = "lanes"
  /\ listedDays' = sealed
  /\ lanes' = Downloads
  /\ UNCHANGED <<diskVars, processVars, rawVars, ackOutVars, listing, ingest,
                 fresh, faults>>

\* _pull_lane: rsync reports success for one file.  A success that left a
\* wrong file is the fault the size and hash checks are there for.
Fetch(c) ==
  /\ pullPc = "lanes"
  /\ c \in lanes
  /\ c \in data
  /\ lanes' = lanes \ {c}
  /\ \/ staged' = [staged EXCEPT ![c] = "whole"] /\ UNCHANGED faults
     \/ staged' = [staged EXCEPT ![c] = "torn"] /\ Fault
  /\ UNCHANGED <<diskVars, processVars, raw, rawManifest, published, ackOutVars,
                 pullPc, listing, listedDays, ingest, fresh>>

\* _publish_inventory: after every lane succeeded, delete what is staged and
\* not expected, and hand the listed manifests to the Puller.
PublishInventory ==
  /\ pullPc = "lanes"
  /\ lanes = {}
  /\ pullPc' = "ingest"
  /\ staged' = [c \in Chunks |-> IF c \in Downloads THEN staged[c] ELSE "absent"]
  /\ ingest' = [c \in Chunks |-> IF listing[c] # 0 THEN "data" ELSE "no"]
  /\ UNCHANGED <<diskVars, processVars, raw, rawManifest, published, ackOutVars,
                 listing, listedDays, lanes, fresh, faults>>

\* Chunks are ingested one after the other.
NextChunk(c) == /\ ingest[c] = "data"
                /\ \A other \in Chunks : ingest[other] \in {"no", "data"}

\* Mutant: the staged file is renamed into raw without size and hash check.
PromoteUnverified(c) == staged[c] # "absent"

\* promote, or the copy of another device: the staged file has the size and
\* the hash of its manifest.
Verified(c) == staged[c] = "whole"

\* The data of c becomes durable, was durable already, or is refused.
IngestData(c) ==
  /\ pullPc = "ingest"
  /\ NextChunk(c)
  /\ \/ /\ raw[c] = "absent" /\ Verified(c)
        /\ raw' = [raw EXCEPT ![c] = staged[c]]
        /\ staged' = [staged EXCEPT ![c] = "absent"]
        /\ fresh' = fresh \cup {c}
        /\ ingest' = [ingest EXCEPT ![c] = "manifest"]
     \/ /\ raw[c] = "whole"
        /\ ingest' = [ingest EXCEPT ![c] = "manifest"]
        /\ UNCHANGED <<raw, staged, fresh>>
     \/ /\ raw[c] # "whole"
        /\ raw[c] = "absent" => ~Verified(c)
        /\ ingest' = [ingest EXCEPT ![c] = "no"]
        /\ UNCHANGED <<raw, staged, fresh>>
  /\ UNCHANGED <<diskVars, processVars, rawManifest, published, ackOutVars,
                 pullPc, listing, listedDays, lanes, faults>>

\* Mutant: the local manifest is not compared with the listed one.
AnyManifest(c) == TRUE

\* Mutant: a manifest that is already there counts as a conflict.
FirstManifest(c) == rawManifest[c] = 0

\* The raw manifest is absent or byte for byte the listed one.
SameManifest(c) == rawManifest[c] \in {0, listing[c]}

\* Keep the manifest beside the data, or fail on a conflicting one.
IngestManifest(c) ==
  /\ pullPc = "ingest"
  /\ ingest[c] = "manifest"
  /\ \/ /\ SameManifest(c)
        /\ rawManifest' = [rawManifest EXCEPT ![c] = listing[c]]
        /\ ingest' = [ingest EXCEPT ![c] = "ack"]
        /\ UNCHANGED fresh
     \/ /\ ~SameManifest(c)
        /\ ingest' = [ingest EXCEPT ![c] = "no"]
        /\ fresh' = fresh \ {c}
        /\ UNCHANGED rawManifest
  /\ UNCHANGED <<diskVars, processVars, staged, raw, published, ackOutVars,
                 pullPc, listing, listedDays, lanes, faults>>

\* Stage the ACK of a durable chunk.
WriteAck(c) ==
  /\ pullPc = "ingest"
  /\ ingest[c] = "ack"
  /\ ackOut' = ackOut \cup {c}
  /\ ingest' = [ingest EXCEPT ![c] = "no"]
  /\ UNCHANGED <<diskVars, processVars, rawVars, durableLedger,
                 pullPc, listing, listedDays, lanes, fresh, faults>>

\* Mutant: a day is published although chunks of it are still missing.
AnyDay(d) == TRUE

\* Mutant: only the chunks this run has written count.
DayOfThisRun(d) == \A c \in inventory[d] : c \in fresh

\* _publish_complete_day: every chunk of the inventory is in raw, intact.
DayComplete(d) == \A c \in inventory[d] : raw[c] = "whole"

PublishDays ==
  /\ pullPc = "ingest"
  /\ ingest = NoChunk
  /\ pullPc' = "ledger"
  /\ published' = published \cup {d \in listedDays : DayComplete(d)}
  /\ listing' = NoListing
  /\ listedDays' = {}
  /\ UNCHANGED <<diskVars, processVars, staged, raw, rawManifest, ackOutVars,
                 lanes, ingest, fresh, faults>>

\* LOCAL_DURABLE for the chunks whose data this run wrote.
LedgerDurable ==
  /\ pullPc = "ledger"
  /\ pullPc' = "push"
  /\ durableLedger' = durableLedger \cup fresh
  /\ fresh' = {}
  /\ UNCHANGED <<diskVars, processVars, rawVars, ackOut, listing, listedDays,
                 lanes, ingest, faults>>

Deliver(S) == inbox' = [c \in Chunks |-> IF c \in S THEN "good" ELSE inbox[c]]

\* push_acks: rsync every staged ACK; nothing to do if there is none.
PushAcks ==
  /\ pullPc = "push"
  /\ Deliver(ackOut)
  /\ IF ackOut = {}
     THEN RunEnds
     ELSE pullPc' = "pushed" /\ UNCHANGED <<listing, listedDays, lanes, ingest, fresh>>
  /\ UNCHANGED <<readyVars, indexVars, recoveryVars, txn, gcLedger, processVars,
                 rawVars, ackOutVars, faults>>

\* ACK_PUSHED goes to the ledger, and only now are the staged ACKs removed.
UnlinkAcks ==
  /\ pullPc = "pushed"
  /\ ackOut' = {}
  /\ RunEnds
  /\ UNCHANGED <<diskVars, processVars, rawVars, durableLedger, faults>>

\* A run fails or is killed.  rsync --partial may leave a torn file behind,
\* and a push that fails may have delivered some of the ACKs.
PullAbort ==
  /\ pullPc # "idle"
  /\ Fault
  /\ RunEnds
  /\ staged' \in {staged} \cup {[staged EXCEPT ![c] = "torn"] : c \in lanes}
  /\ \E S \in SUBSET (IF pullPc = "push" THEN ackOut ELSE {}) : Deliver(S)
  /\ UNCHANGED <<readyVars, indexVars, recoveryVars, txn, gcLedger, processVars,
                 raw, rawManifest, published, ackOutVars>>

PullStep ==
  \/ \E c \in Chunks : Fetch(c) \/ IngestData(c) \/ IngestManifest(c) \/ WriteAck(c)
  \/ ListReady \/ ListSealed \/ PublishInventory \/ PublishDays
  \/ LedgerDurable \/ PushAcks \/ UnlinkAcks
=============================================================================

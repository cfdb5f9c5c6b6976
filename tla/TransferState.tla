----------------------------- MODULE TransferState -----------------------------
(***************************************************************************)
(* The state shared by the two ends of the raw-data hand-off.              *)
(*                                                                         *)
(* The edge (the collector on the VPS) publishes immutable chunks under    *)
(* ready/, keeps an inventory of every UTC day and seals the day.  The     *)
(* central host pulls the chunks, makes them durable and answers with      *)
(* ACKs; an ACK is what allows the edge to delete its copy.                *)
(*                                                                         *)
(* A chunk stands for its data file: its bytes, and so its SHA-256, never  *)
(* change.  A manifest is represented by a version number, one per time    *)
(* the manifest file of the chunk was written: two writes differ in        *)
(* created_at, hence in their bytes.  Version 0 is "no such file".         *)
(***************************************************************************)
EXTENDS Naturals

CONSTANTS
  DataChunks,        \* Parquet chunks of the writers
  GapChunks,         \* gap facts, published once
  RollChunks,        \* gap facts of a rollover, published again after a crash
  DayOf,             \* [Chunks -> Days], the UTC day of each chunk
  MaxDay,            \* the clock stops at this day
  MaxFaults,         \* crashes, aborted pulls, torn files and damaged ACKs
  BootSpansMidnight  \* may midnight fall while the collector is starting?

Chunks == DataChunks \cup GapChunks \cup RollChunks
ControlChunks == GapChunks \cup RollChunks
Days == 1 .. MaxDay

ASSUME DayAssumption == MaxDay \in Nat \ {0} /\ DayOf \in [Chunks -> Days]
ASSUME FaultAssumption == MaxFaults \in Nat
ASSUME BootAssumption == BootSpansMidnight \in BOOLEAN
ASSUME KindAssumption == /\ DataChunks \cap ControlChunks = {}
                         /\ GapChunks \cap RollChunks = {}

VARIABLES
  \* The edge's disk.
  data,          \* chunks whose data file is in ready/
  manifest,      \* [Chunks -> version]: the manifest file in ready/
  acked,         \* chunks with a tombstone in control/acked-manifests
  journal,       \* [Days -> chunks]: the entries of control/day-index
  journalled,    \* days whose control/day-index file exists
  sealed,        \* days with a SEALED.json
  inventory,     \* [Days -> chunks]: what SEALED.json lists
  inbox,         \* [Chunks -> AckFile]: control/acks
  txn,           \* [Chunks -> version]: control/applying-acks
  gcLedger,      \* chunks with ACK_VALIDATED and REMOTE_GC in the ledger
  lease,         \* day of the watermark in collector-lease.json, 0 if none
  openGap,       \* day of the oldest gap in control/open-gaps, 0 if none
  \* The collector process.
  mode,          \* where CollectorService.run is
  today,         \* the UTC date
  boundary,      \* where the midnight loop is
  stage,         \* [Chunks -> Stage]: how far the chunk's publication is
  version,       \* [Chunks -> Nat]: manifests ever written for the chunk
  sealQueue,     \* days still to be sealed by the running seal loop
  sealing,       \* the day DayIndex.seal is working on, 0 if none
  applyPc, ackTodo, seen, txnTodo, txnDone,   \* locals of apply_acks
  \* The central host's disk.
  staged,        \* [Chunks -> FileState]: the rsync mirror
  raw,           \* [Chunks -> FileState]: permanent raw data
  rawManifest,   \* [Chunks -> version]: the manifest beside the raw data
  ackOut,        \* chunks with an ACK waiting to be pushed
  published,     \* days whose SEALED.json is in permanent raw
  durableLedger, \* chunks with LOCAL_DURABLE in the ledger
  \* The pull run.
  pullPc, listing, listedDays, lanes, ingest, fresh,
  \* How many faults have happened.
  faults

AckFile == {"none", "good", "mismatch", "invalid"}
FileState == {"absent", "torn", "whole"}
Stage == {"idle", "open", "renamed", "listed", "recorded", "redo", "ended", "lost"}

readyVars == <<data, manifest>>
indexVars == <<acked, journal, journalled, sealed, inventory>>
ackVars == <<inbox, txn, gcLedger>>
recoveryVars == <<lease, openGap>>
serviceVars == <<mode, today, boundary>>
publishVars == <<stage, version>>
sealVars == <<sealQueue, sealing>>
applyVars == <<applyPc, ackTodo, seen, txnTodo, txnDone>>
rawVars == <<staged, raw, rawManifest, published>>
ackOutVars == <<ackOut, durableLedger>>
pullVars == <<pullPc, listing, listedDays, lanes, ingest, fresh>>

diskVars == <<readyVars, indexVars, ackVars, recoveryVars>>
processVars == <<serviceVars, publishVars, sealVars, applyVars>>
centralVars == <<rawVars, ackOutVars, pullVars>>
vars == <<diskVars, processVars, centralVars, faults>>

\* A manifest of the chunk was written at least once.
Published(c) == version[c] # 0

\* Writers, sources and the gap journal are at work.
Alive == mode \in {"starting", "sealing", "running"}

\* One more fault, within the bound.
Fault == faults < MaxFaults /\ faults' = faults + 1
=============================================================================

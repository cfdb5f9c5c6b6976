------------------------------- MODULE DayIndex -------------------------------
(***************************************************************************)
(* collector/day_index.py: the journal of a UTC day's chunks and its seal. *)
(* record, record_generated and seal exclude one another by a lock.        *)
(***************************************************************************)
EXTENDS TransferState

\* The lock is held by a seal, or by a control chunk between the start of
\* record_generated and its journal entry.
IndexLocked == \/ sealing # 0
               \/ \E c \in ControlChunks : stage[c] \in {"renamed", "listed"}

\* _record: append the chunk to the journal of its day.
AppendRef(c) == /\ journal' = [journal EXCEPT ![DayOf[c]] = @ \cup {c}]
                /\ journalled' = journalled \cup {DayOf[c]}

\* Mutant: only the ready manifests and the journal are read, not the
\* tombstones of chunks that were already ACKed.
ReadRefsNoTombstones(d) ==
  IF d \notin journalled THEN {}
  ELSE {c \in Chunks : DayOf[c] = d /\ manifest[c] # 0}

\* _read_refs: nothing at all if the day has no journal file, otherwise the
\* journal and every manifest of the day in ready/ and in acked-manifests.
ReadRefs(d) ==
  IF d \notin journalled THEN {}
  ELSE journal[d] \cup {c \in Chunks : DayOf[c] = d /\ (manifest[c] # 0 \/ c \in acked)}

\* completed_dates: past days with a journal, a ready/ directory (never
\* removed once a chunk was renamed into it) or tombstones.
CompletedDates ==
  {d \in Days : /\ d < today
                /\ \/ d \in journalled
                   \/ \E c \in Chunks : DayOf[c] = d /\ (c \in data \/ Published(c))}

\* _seal: write SEALED.json unless it exists, then clean the day's state.
SealWrite(d) ==
  /\ d \in sealQueue
  /\ ~IndexLocked
  /\ sealing' = d
  /\ sealed' = sealed \cup {d}
  /\ inventory' = IF d \in sealed THEN inventory
                  ELSE [inventory EXCEPT ![d] = ReadRefs(d)]
  /\ UNCHANGED <<readyVars, acked, journal, journalled, ackVars, recoveryVars,
                 serviceVars, publishVars, sealQueue, applyVars, centralVars, faults>>

\* _clean_sealed_day_state, first half: remove the journal.
SealCleanJournal(d) ==
  /\ sealing = d
  /\ d \in journalled
  /\ journal' = [journal EXCEPT ![d] = {}]
  /\ journalled' = journalled \ {d}
  /\ UNCHANGED <<readyVars, acked, sealed, inventory, ackVars, recoveryVars,
                 processVars, centralVars, faults>>

\* _clean_sealed_day_state, second half: remove the day's tombstones.
SealCleanTombstones(d) ==
  /\ sealing = d
  /\ d \notin journalled
  /\ acked' = {c \in acked : DayOf[c] # d}
  /\ sealing' = 0
  /\ sealQueue' = sealQueue \ {d}
  /\ UNCHANGED <<readyVars, journal, journalled, sealed, inventory, ackVars,
                 recoveryVars, serviceVars, publishVars, applyVars, centralVars, faults>>

Seal == \E d \in Days : SealWrite(d) \/ SealCleanJournal(d) \/ SealCleanTombstones(d)
=============================================================================

----------------------------- MODULE Publication -----------------------------
(***************************************************************************)
(* How a chunk reaches ready/ and the day's journal.                       *)
(*                                                                         *)
(*   data chunk     collector/writer.py, ChunkSession.finish and _run      *)
(*                    idle -> open -> renamed -> listed -> ended           *)
(*   gap fact       collector/gaps.py, _publish and _write, inside         *)
(*                  DayIndex.record_generated                              *)
(*                    idle -> renamed -> listed -> ended                   *)
(*   rollover fact  the same, followed by the write of the open-gap state  *)
(*                    idle -> renamed -> listed -> recorded -> ended       *)
(*                  A crash before that last write leaves "redo": the      *)
(*                  next boot publishes the same artifact id once more.    *)
(***************************************************************************)
EXTENDS DayIndex

Advance(c, s) == stage' = [stage EXCEPT ![c] = s]

\* _run: an event of the current UTC date opens a new chunk session.
OpenSession(c) ==
  /\ c \in DataChunks
  /\ Alive
  /\ stage[c] = "idle"
  /\ DayOf[c] = today
  /\ Advance(c, "open")
  /\ UNCHANGED <<diskVars, serviceVars, version, sealVars, applyVars,
                 centralVars, faults>>

\* finish: close the partial file and rename it into ready/.
RenameData(c) ==
  /\ stage[c] = "open"
  /\ Advance(c, "renamed")
  /\ data' = data \cup {c}
  /\ UNCHANGED <<manifest, indexVars, ackVars, recoveryVars, serviceVars, version, sealVars,
                 applyVars, centralVars, faults>>

\* Gap._publish: take the index lock, refuse a sealed day, write the content.
\* A rollover, or a fact about the day that ended, belongs to a midnight
\* boundary; a stale gap is rolled while starting.
\* A rollover is repeated by _close_stale_gaps while starting, or by the
\* rollover of a midnight boundary.
WriteControl(c) ==
  /\ c \in ControlChunks
  /\ Alive
  /\ \/ stage[c] = "idle"
     \/ stage[c] = "redo" /\ (mode = "starting" \/ boundary = "held")
  /\ ~IndexLocked
  /\ DayOf[c] <= today
  /\ \/ c \in GapChunks /\ DayOf[c] = today
     \/ boundary \in {"due", "held"} /\ (c \in RollChunks \/ DayOf[c] + 1 = today)
     \/ c \in RollChunks /\ mode = "starting" /\ (stage[c] = "redo" \/ openGap \in 1 .. DayOf[c])
  /\ DayOf[c] \notin sealed
  /\ Advance(c, "renamed")
  /\ data' = data \cup {c}
  /\ UNCHANGED <<manifest, indexVars, ackVars, recoveryVars, serviceVars, version, sealVars,
                 applyVars, centralVars, faults>>

\* Write the manifest, a fresh version of it, beside the data.
WriteManifest(c) ==
  /\ stage[c] = "renamed"
  /\ Advance(c, "listed")
  /\ version' = [version EXCEPT ![c] = @ + 1]
  /\ manifest' = [manifest EXCEPT ![c] = version[c] + 1]
  /\ UNCHANGED <<data, indexVars, ackVars, recoveryVars, serviceVars, sealVars, applyVars,
                 centralVars, faults>>

\* DayIndex.record: a writer needs the lock and an unsealed day, a control
\* chunk has checked the day and holds the lock already.
Record(c) ==
  /\ stage[c] = "listed"
  /\ c \in DataChunks => ~IndexLocked /\ DayOf[c] \notin sealed
  /\ AppendRef(c)
  /\ Advance(c, IF c \in RollChunks THEN "recorded" ELSE "ended")
  /\ UNCHANGED <<readyVars, acked, sealed, inventory, ackVars, recoveryVars, serviceVars,
                 version, sealVars, applyVars, centralVars, faults>>

\* _roll_state_to: the open-gap state is rewritten, or the publication was
\* skipped because the day is sealed by now.
SettleRoll(c) ==
  /\ c \in RollChunks
  /\ \/ stage[c] = "recorded" /\ Alive
     \/ stage[c] = "redo" /\ DayOf[c] \in sealed /\ mode = "starting"
  /\ Advance(c, "ended")
  /\ UNCHANGED <<diskVars, serviceVars, version, sealVars, applyVars,
                 centralVars, faults>>

\* What is left of a publication: an unfinished rollover is repeated, a file
\* without manifest is an orphan, a manifest is found by the seal.
AfterCrash(c) ==
  IF c \in RollChunks /\ stage[c] \in {"renamed", "listed", "recorded"} THEN "redo"
  ELSE IF stage[c] \in {"open", "renamed"} THEN "lost"
  ELSE IF stage[c] = "listed" THEN "ended"
  ELSE stage[c]

\* The process is gone, and its volatile state with it.
ProcessDies ==
  /\ mode' = "down"
  /\ boundary' = "none"
  /\ stage' = [c \in Chunks |-> AfterCrash(c)]
  /\ sealQueue' = {}
  /\ sealing' = 0
  /\ applyPc' = "idle"
  /\ ackTodo' = {}
  /\ seen' = [c \in Chunks |-> 0]
  /\ txnTodo' = {}
  /\ txnDone' = {}
  /\ UNCHANGED <<today, version, centralVars>>

\* record raises for a sealed day: the writer task fails and takes the
\* collector down; the chunk stays in ready/ but in no inventory.
RecordRefused(c) ==
  /\ c \in DataChunks
  /\ stage[c] = "listed"
  /\ ~IndexLocked
  /\ DayOf[c] \in sealed
  /\ ProcessDies
  /\ UNCHANGED <<diskVars, faults>>

\* Steps that finish a publication once it has begun.
Finish == \E c \in Chunks : RenameData(c) \/ WriteManifest(c) \/ Record(c) \/ SettleRoll(c)

Publish == \/ \E c \in Chunks : OpenSession(c) \/ WriteControl(c) \/ RecordRefused(c)
           \/ Finish
=============================================================================

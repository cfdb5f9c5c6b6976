------------------------------ MODULE MCTransfer ------------------------------
(* Instances of Transfer for TLC. *)
EXTENDS TransferProperties

CONSTANT LateChunks  \* the chunks of the second day

\* The second day is there to seal the first one.
MCDayOf == [c \in DataChunks \cup GapChunks \cup RollChunks |->
              IF c \in LateChunks THEN 2 ELSE 1]
=============================================================================

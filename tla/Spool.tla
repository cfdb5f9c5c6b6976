-------------------------------- MODULE Spool --------------------------------
(***************************************************************************)
(* collector/spool.py, SpoolManager.apply_acks: validate the ACKs of the   *)
(* central host and delete what they authorise, surviving a crash between  *)
(* any two steps by means of the transaction files.                        *)
(***************************************************************************)
EXTENDS TransferState

\* List the ACKs and the transactions, then read the ready manifests; only
\* those an ACK asks for are of any use.
ScanAcks ==
  /\ applyPc' = "acks"
  /\ ackTodo' = {c \in Chunks : inbox[c] # "none"}
  /\ txnTodo' = {c \in Chunks : txn[c] # 0}
  /\ seen' = [c \in Chunks |-> IF inbox[c] = "none" THEN 0 ELSE manifest[c]]
  /\ txnDone' = {}

WorkPending == \E c \in Chunks : inbox[c] # "none" \/ txn[c] # 0

Processing(c) == applyPc = "acks" /\ c \in ackTodo

AckHandled(c) == /\ inbox' = [inbox EXCEPT ![c] = "none"]
                 /\ ackTodo' = ackTodo \ {c}
                 /\ seen' = [seen EXCEPT ![c] = 0]

\* Every ACK has been handled: on to the transactions.
Collecting == applyPc = "acks" /\ ackTodo = {}

\* Mutant: a replayed ACK is not looked up among the tombstones.
RefusedReplay(c) == inbox[c] # "good" \/ seen[c] = 0

\* Unreadable or misnamed; a wrong hash; an unknown chunk; a transaction of
\* another manifest.
Refused(c) ==
  \/ inbox[c] # "good"
  \/ seen[c] = 0 /\ c \notin acked
  \/ seen[c] # 0 /\ txn[c] \notin {0, seen[c]}

\* _quarantine: move the ACK to control/rejected-acks, which nothing reads.
RejectAck(c) ==
  /\ Processing(c)
  /\ Refused(c)
  /\ AckHandled(c)
  /\ UNCHANGED <<readyVars, indexVars, recoveryVars, txn, gcLedger, serviceVars, publishVars,
                 sealVars, applyPc, txnTodo, txnDone, centralVars, faults>>

\* ACK_REPLAYED: the chunk was deleted before, its tombstone is still there.
ReplayAck(c) ==
  /\ Processing(c)
  /\ ~Refused(c)
  /\ seen[c] = 0
  /\ AckHandled(c)
  /\ UNCHANGED <<readyVars, indexVars, recoveryVars, txn, gcLedger, serviceVars,
                 publishVars, sealVars, applyPc, txnTodo, txnDone,
                 centralVars, faults>>

\* Persist the transaction before the ACK is removed.
BeginTransaction(c) ==
  /\ Processing(c)
  /\ ~Refused(c)
  /\ seen[c] # 0
  /\ txn[c] = 0
  /\ txn' = [txn EXCEPT ![c] = seen[c]]
  /\ UNCHANGED <<readyVars, indexVars, recoveryVars, inbox, gcLedger, processVars,
                 centralVars, faults>>

\* Remove the ACK; the transaction now carries the authorisation.
AcceptAck(c) ==
  /\ Processing(c)
  /\ ~Refused(c)
  /\ seen[c] # 0
  /\ txn[c] # 0
  /\ AckHandled(c)
  /\ txnTodo' = txnTodo \cup {c}
  /\ UNCHANGED <<readyVars, indexVars, recoveryVars, txn, gcLedger, serviceVars,
                 publishVars, sealVars, applyPc, txnDone, centralVars, faults>>

\* The tombstones after the manifest of c has left ready/.
Tombstones(c) == IF DayOf[c] \in sealed THEN acked ELSE acked \cup {c}

\* Unlink the manifest, or move it to acked-manifests while the day is open.
GcManifest(c) ==
  /\ Collecting
  /\ c \in txnTodo
  /\ manifest[c] # 0
  /\ manifest' = [manifest EXCEPT ![c] = 0]
  /\ acked' = Tombstones(c)
  /\ UNCHANGED <<data, journal, journalled, sealed, inventory, recoveryVars, ackVars, processVars,
                 centralVars, faults>>

\* Unlink the data, once no manifest announces it any more.
GcData(c) ==
  /\ Collecting
  /\ c \in txnTodo
  /\ manifest[c] = 0
  /\ data' = data \ {c}
  /\ txnTodo' = txnTodo \ {c}
  /\ txnDone' = txnDone \cup {c}
  /\ UNCHANGED <<manifest, indexVars, recoveryVars, ackVars, serviceVars, publishVars,
                 sealVars, applyPc, ackTodo, seen, centralVars, faults>>

\* Mutant: the transactions are dropped without a ledger entry.
LedgerSkipped == UNCHANGED gcLedger

\* transfer_journal.append of ACK_VALIDATED and REMOTE_GC.
LedgerGc == gcLedger' = gcLedger \cup txnDone

AppendGcLedger ==
  /\ Collecting
  /\ txnTodo = {}
  /\ LedgerGc
  /\ applyPc' = "drop"
  /\ UNCHANGED <<readyVars, indexVars, recoveryVars, inbox, txn, serviceVars,
                 publishVars, sealVars, ackTodo, seen, txnTodo, txnDone,
                 centralVars, faults>>

\* Remove a completed transaction.
DropTransaction(c) ==
  /\ applyPc = "drop"
  /\ c \in txnDone
  /\ txn' = [txn EXCEPT ![c] = 0]
  /\ txnDone' = txnDone \ {c}
  /\ UNCHANGED <<readyVars, indexVars, recoveryVars, inbox, gcLedger, serviceVars,
                 publishVars, sealVars, applyPc, ackTodo, seen, txnTodo,
                 centralVars, faults>>

\* apply_acks returns; the first pass of a boot lets the recovery go on.
EndApply ==
  /\ applyPc = "drop"
  /\ txnDone = {}
  /\ applyPc' = "idle"
  /\ mode' = IF mode = "booting" THEN "recovering" ELSE mode
  /\ UNCHANGED <<diskVars, today, boundary, publishVars, sealVars, ackTodo,
                 seen, txnTodo, txnDone, centralVars, faults>>

Apply ==
  \/ \E c \in Chunks : \/ RejectAck(c) \/ ReplayAck(c) \/ BeginTransaction(c)
                       \/ AcceptAck(c) \/ GcManifest(c) \/ GcData(c)
                       \/ DropTransaction(c)
  \/ AppendGcLedger \/ EndApply
=============================================================================

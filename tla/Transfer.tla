------------------------------- MODULE Transfer -------------------------------
(***************************************************************************)
(* The composition: the collector's life cycle (collector/service.py),     *)
(* which drives publication, ACK application and day seals, beside the     *)
(* independent pull runs of the central host.                              *)
(***************************************************************************)
EXTENDS Publication, Spool, Pull

\* Mutant: a boot leaves the transactions to the storage loop.
BootWithoutAcks ==
  /\ mode = "down"
  /\ mode' = "recovering"
  /\ UNCHANGED <<diskVars, today, boundary, publishVars, sealVars, applyVars,
                 centralVars, faults>>

\* run: the first thing a boot does is to apply what ACKs there are.
Boot ==
  /\ mode = "down"
  /\ IF WorkPending THEN mode' = "booting" /\ ScanAcks
                    ELSE mode' = "recovering" /\ UNCHANGED applyVars
  /\ UNCHANGED <<diskVars, today, boundary, publishVars, sealVars, centralVars, faults>>

\* recovery_start_ns: the watermark's day, or the first day after the sealed
\* ones if that is later.
Uncovered(d) == lease <= d /\ \A s \in sealed : s < d
RecoveryDay(d) == Uncovered(d) /\ \A e \in Days : Uncovered(e) => d <= e

\* run: after an unclean end a COLLECTOR_STOPPED gap is opened at that day,
\* whose journal its fact starts.  Then the lease is written for this boot.
RecoverLease ==
  /\ mode = "recovering"
  /\ mode' = "starting"
  /\ \/ lease = 0 /\ UNCHANGED <<openGap, journalled>>
     \/ /\ lease # 0
        /\ \E d \in Days :
             /\ RecoveryDay(d)
             /\ openGap' = IF openGap \in 1 .. d THEN openGap ELSE d
             /\ journalled' = journalled \cup {d}
  /\ lease' = today
  /\ UNCHANGED <<readyVars, acked, journal, sealed, inventory, ackVars, today,
                 boundary, publishVars, sealVars, applyVars, centralVars, faults>>

\* _roll_state_to: every day the gap spans gets a fact of its own.
RolledDays == journalled \cup {d \in Days : openGap <= d /\ d <= today /\ d \notin sealed}

\* _close_stale_gaps, once the sources are ready.
CloseStaleGaps ==
  /\ mode = "starting"
  /\ openGap # 0
  /\ ~IndexLocked
  /\ journalled' = RolledDays
  /\ openGap' = 0
  /\ UNCHANGED <<readyVars, acked, journal, sealed, inventory, ackVars, lease,
                 processVars, centralVars, faults>>

\* _lease_loop: the watermark is the day of a chunk the critical writers have
\* recorded.  A writer finishes its sessions in order and the slower writer
\* counts, so the watermark never passes an unfinished session.
LeaseHeartbeat ==
  /\ mode = "running"
  /\ lease' \in {w \in lease .. today :
       /\ \E c \in DataChunks : stage[c] = "ended" /\ DayOf[c] = w
       /\ \A c \in DataChunks :
            stage[c] \in {"open", "renamed", "listed"} => w <= DayOf[c]}
  /\ UNCHANGED <<readyVars, indexVars, ackVars, openGap, processVars, centralVars, faults>>

\* _storage_loop: a pass under the operation lock.
StoragePass ==
  /\ mode = "running"
  /\ boundary \in {"none", "due"}
  /\ applyPc = "idle"
  /\ WorkPending
  /\ ScanAcks
  /\ UNCHANGED <<diskVars, serviceVars, publishVars, sealVars, centralVars, faults>>

\* _close_stale_gaps and rollover are awaited before what follows them.
RolloverDone == \A c \in RollChunks : stage[c] \notin {"renamed", "listed", "recorded"}

\* _seal_completed_days: the past days as of now, sealed one by one while
\* writers and sources are already running.
StartSealing ==
  /\ mode = "starting"
  /\ openGap = 0
  /\ RolloverDone
  /\ mode' = "sealing"
  /\ sealQueue' = CompletedDates
  /\ UNCHANGED <<diskVars, today, boundary, publishVars, sealing, applyVars,
                 centralVars, faults>>

\* The universe decision in force is emitted and rotated into a chunk of its
\* own: the journal of the current day exists from then on.
EmitUniverse == ~IndexLocked /\ journalled' = journalled \cup {today}

\* _mark_formal_start, then the background loops; the midnight loop waits for
\* the next midnight.
ServiceUp ==
  /\ mode = "sealing"
  /\ sealQueue = {}
  /\ EmitUniverse
  /\ mode' = "running"
  /\ UNCHANGED <<readyVars, acked, journal, sealed, inventory, ackVars,
                 recoveryVars, today, boundary, publishVars, sealVars, applyVars,
                 centralVars, faults>>

\* The UTC date changes.
Midnight ==
  /\ today < MaxDay
  /\ boundary = "none"
  /\ mode \in {"down", "running", "stopping"} \/ BootSpansMidnight
  /\ today' = today + 1
  /\ boundary' = IF mode = "running" THEN "due" ELSE "none"
  /\ UNCHANGED <<diskVars, mode, publishVars, sealVars, applyVars, centralVars, faults>>

\* _midnight_loop takes the operation lock.
EnterBoundary ==
  /\ mode = "running"
  /\ boundary = "due"
  /\ applyPc = "idle"
  /\ boundary' = "held"
  /\ UNCHANGED <<diskVars, mode, today, publishVars, sealVars, applyVars,
                 centralVars, faults>>

\* rotate: every session of a past day has been finished and recorded.
WriterBarrier == \A c \in DataChunks :
  DayOf[c] < today => stage[c] \notin {"open", "renamed", "listed"}

\* _apply_midnight_boundary: after the barrier and the grace period the day
\* that ended is sealed.
SealBoundary ==
  /\ boundary = "held"
  /\ RolloverDone
  /\ WriterBarrier
  /\ EmitUniverse
  /\ boundary' = "sealing"
  /\ sealQueue' = {today - 1}
  /\ UNCHANGED <<readyVars, acked, journal, sealed, inventory, ackVars,
                 recoveryVars, mode, today, publishVars, sealing, applyVars,
                 centralVars, faults>>

LeaveBoundary ==
  /\ boundary = "sealing"
  /\ sealQueue = {}
  /\ boundary' = "none"
  /\ UNCHANGED <<diskVars, mode, today, publishVars, sealVars, applyVars,
                 centralVars, faults>>

\* request_stop: the loops are cancelled, a COLLECTOR_STOPPED gap is opened
\* and the sources are stopped.  A cancelled loop abandons the thread it is
\* waiting for, which runs to its end.
StopRequested ==
  /\ mode = "running"
  /\ mode' = "stopping"
  /\ boundary' = "none"
  /\ sealQueue' = {sealing} \ {0}
  /\ openGap' = IF openGap = 0 THEN today ELSE openGap
  /\ journalled' = journalled \cup {today}
  /\ UNCHANGED <<readyVars, acked, journal, sealed, inventory, ackVars, lease, today,
                 publishVars, sealing, applyVars, centralVars, faults>>

\* Writers.stop has finished every session, the threads are done: write_clean.
Stopped ==
  /\ mode = "stopping"
  /\ applyPc = "idle"
  /\ ~IndexLocked
  /\ \A c \in DataChunks : stage[c] \notin {"open", "renamed", "listed"}
  /\ lease' = 0
  /\ ProcessDies
  /\ UNCHANGED <<readyVars, indexVars, ackVars, openGap, faults>>

\* Power loss, a kill, or an exception that ends the collector.
EdgeCrash == mode # "down" /\ Fault /\ ProcessDies /\ UNCHANGED diskVars

\* An ACK file waiting in the inbox is damaged, or answers for other bytes.
DamageAck(c) ==
  /\ inbox[c] = "good"
  /\ c \notin ackTodo
  /\ Fault
  /\ inbox' \in {[inbox EXCEPT ![c] = "invalid"], [inbox EXCEPT ![c] = "mismatch"]}
  /\ UNCHANGED <<readyVars, indexVars, txn, gcLedger, recoveryVars, processVars,
                 centralVars>>

Service == \/ Boot \/ RecoverLease \/ CloseStaleGaps \/ StartSealing \/ ServiceUp
           \/ EnterBoundary \/ SealBoundary \/ LeaveBoundary \/ Stopped

Init ==
  /\ data = {} /\ acked = {} /\ sealed = {} /\ gcLedger = {}
  /\ manifest = [c \in Chunks |-> 0]
  /\ txn = [c \in Chunks |-> 0]
  /\ inbox = [c \in Chunks |-> "none"]
  /\ journal = [d \in Days |-> {}]
  /\ inventory = [d \in Days |-> {}]
  /\ journalled = {} /\ lease = 0 /\ openGap = 0
  /\ mode = "down" /\ today = 1 /\ boundary = "none"
  /\ stage = [c \in Chunks |-> "idle"]
  /\ version = [c \in Chunks |-> 0]
  /\ sealQueue = {} /\ sealing = 0
  /\ applyPc = "idle" /\ ackTodo = {} /\ txnTodo = {} /\ txnDone = {}
  /\ seen = [c \in Chunks |-> 0]
  /\ staged = [c \in Chunks |-> "absent"]
  /\ raw = [c \in Chunks |-> "absent"]
  /\ rawManifest = [c \in Chunks |-> 0]
  /\ ackOut = {} /\ published = {} /\ durableLedger = {}
  /\ pullPc = "idle" /\ listedDays = {} /\ lanes = {} /\ fresh = {}
  /\ listing = NoListing
  /\ ingest = NoChunk
  /\ faults = 0

Next == \/ Publish \/ Seal \/ Service \/ StoragePass \/ Apply \/ Midnight \/ LeaseHeartbeat
        \/ PullStep \/ PullAbort \/ EdgeCrash \/ StopRequested
        \/ \E c \in Chunks : DamageAck(c)

Spec == Init /\ [][Next]_vars

(***************************************************************************)
(* Fairness: the supervisor restarts the collector and its loops keep      *)
(* running; a session is finished after max_seconds; cron starts a pull    *)
(* every minute.  Faults and midnight may or may not come.                 *)
(***************************************************************************)
Fairness == /\ WF_vars(Service)
            /\ WF_vars(Seal)
            /\ WF_vars(StoragePass \/ Apply)
            /\ WF_vars(Finish)
            /\ WF_vars(PullStep)

FairSpec == Spec /\ Fairness
=============================================================================

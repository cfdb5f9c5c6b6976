----------------------------- MODULE DepthRecovery -----------------------------
(***************************************************************************)
(* collector/websocket.py: one depth stream of one route, from its         *)
(* connection's bootstrap to the recovery after a lost update.             *)
(*                                                                         *)
(* Up to three tasks run _recover_snapshot_bridge on the same tracker:     *)
(*   bootstrap   the snapshot of a new connection                          *)
(*   reanchor    after a SEQUENCE_GAP of a joined stream                   *)
(*   refresh     a liveness refresh of a silent stream                     *)
(* beside the receive loop, which feeds the tracker.                       *)
(***************************************************************************)
EXTENDS SnapshotBridge

CONSTANTS
  MaxId,       \* the exchange stops after this update id
  Attempts,    \* SNAPSHOT_BRIDGE_ATTEMPTS
  MaxLosses,   \* updates that never arrive
  MaxFaults,   \* lost connections and failed snapshot requests
  MaxRefreshes \* liveness refreshes

ASSUME RecoveryAssumption ==
  /\ MaxId \in Nat /\ Attempts \in Nat \ {0}
  /\ MaxLosses \in Nat /\ MaxFaults \in Nat /\ MaxRefreshes \in Nat

VARIABLES
  emitted,    \* the exchange's last update id
  wire,       \* updates on their way
  tracker,    \* the SnapshotBridgeTracker of the stream
  conn,       \* "dead", "booting" or "ready"
  pc,         \* [Tasks -> where the task is, "none" if it does not run]
  attempt,    \* [Tasks -> its bridge_attempt]
  awaiting,   \* the stream is in _snapshot_pending
  receiver,   \* "recv", or "opening" while it awaits on_depth_gap
  openGaps,   \* the gaps of the stream the journal has open
  fresh,      \* an update has arrived since the stream was found silent
  liveness,   \* liveness_loop: "idle", "queued" while its update is in the
              \* route's queue, "waiting" while the update is being applied
  losses, faults, refreshes,
  \* History.
  received,   \* the updates the connection has received
  anchor,     \* the last snapshot the tracker was given
  rejoined    \* the gaps since whose opening the stream has been joined

Tasks == {"bootstrap", "reanchor", "refresh"}
NoTask == [t \in Tasks |-> "none"]
Running(t) == pc[t] # "none"

\* "sequence" L2_SEQUENCE of the running reanchor, "reanchor" L2_REANCHOR of
\* the route, "stale" CONNECTION_LOST of a silent stream, "orphan" a sequence
\* gap whose id died with its connection.
Gaps == {"sequence", "reanchor", "stale", "orphan"}

exchangeVars == <<emitted, losses>>
taskVars == <<pc, attempt, awaiting>>
gapVars == <<openGaps, rejoined>>
livenessVars == <<fresh, liveness, refreshes>>
streamVars == <<wire, tracker, received, anchor>>
vars == <<emitted, wire, tracker, conn, pc, attempt, awaiting, receiver, openGaps, fresh,
          liveness, losses, faults, refreshes, received, anchor, rejoined>>

Init ==
  /\ emitted = 0 /\ wire = <<>> /\ tracker = NoTracker
  /\ conn = "dead" /\ pc = NoTask /\ attempt = [t \in Tasks |-> 0]
  /\ awaiting = TRUE /\ receiver = "recv"
  /\ openGaps = {} /\ fresh = TRUE /\ liveness = "idle"
  /\ losses = 0 /\ faults = 0 /\ refreshes = 0
  /\ received = <<>> /\ anchor = 0 /\ rejoined = {}

\* The gaps a tracker that has become new leaves rejoined.
Rejoined(new) == IF Bridged(new) THEN Gaps ELSE rejoined

(***************************************************************************)
(* The exchange and the connection.                                        *)
(***************************************************************************)

\* An update of one or two ids; it may be lost.
Emit(width) ==
  /\ emitted + width <= MaxId
  /\ emitted' = emitted + width
  /\ \/ /\ conn # "dead"
        /\ wire' = Append(wire, [first |-> emitted + 1, final |-> emitted + width,
                                 prev |-> emitted])
        /\ UNCHANGED losses
     \/ conn # "dead" /\ losses < MaxLosses /\ losses' = losses + 1 /\ UNCHANGED wire
     \/ conn = "dead" /\ UNCHANGED <<wire, losses>>
  /\ UNCHANGED <<tracker, received, anchor, conn, taskVars, receiver, gapVars, livenessVars,
                 faults>>

\* _observe_depth_update, up to the await of on_depth_gap: a discontinuity is
\* left alone while a recovery of the stream is under way.
Receive ==
  /\ conn # "dead" /\ receiver = "recv" /\ wire # <<>>
  /\ LET result == OnDiff(tracker, Head(wire))
     IN  /\ tracker' = result.tracker
         /\ receiver' = IF result.status = "SEQUENCE_GAP" /\ ~Running("reanchor") /\ ~awaiting
                        THEN "opening" ELSE "recv"
         /\ rejoined' = Rejoined(result.tracker)
  /\ wire' = Tail(wire)
  /\ received' = Append(received, Head(wire))
  /\ fresh' = TRUE
  /\ UNCHANGED <<exchangeVars, conn, taskVars, openGaps, liveness, refreshes, faults, anchor>>

\* The gap is in the journal; the reanchor task starts.
GapOpened ==
  /\ receiver = "opening"
  /\ receiver' = "recv"
  /\ openGaps' = openGaps \cup {"sequence"}
  /\ rejoined' = rejoined \ {"sequence"}
  /\ pc' = [pc EXCEPT !["reanchor"] = "buffer"]
  /\ attempt' = [attempt EXCEPT !["reanchor"] = 1]
  /\ awaiting' = TRUE
  /\ UNCHANGED <<exchangeVars, streamVars, conn, livenessVars, faults>>

\* The connection ends and its tasks are cancelled.  The route opens an
\* L2_REANCHOR gap unless it has one; the id of a sequence gap is forgotten,
\* also of one whose opening was under way.
Dies ==
  /\ conn' = "dead"
  /\ wire' = <<>> /\ tracker' = NoTracker /\ received' = <<>> /\ anchor' = 0
  /\ pc' = NoTask /\ attempt' = [t \in Tasks |-> 0] /\ awaiting' = TRUE
  /\ receiver' = "recv" /\ rejoined' = {}
  /\ \E opened \in {{}, IF receiver = "opening" THEN {"orphan"} ELSE {}} :
       openGaps' = (openGaps \ {"sequence"}) \cup {"reanchor"} \cup opened
                     \cup (IF "sequence" \in openGaps THEN {"orphan"} ELSE {})
  /\ liveness' = IF liveness = "waiting" THEN "idle" ELSE liveness
  /\ UNCHANGED <<exchangeVars, fresh, refreshes>>

\* Closed, silent, its snapshot request or audit failed, or given up by the
\* route.
ConnectionLost ==
  /\ conn # "dead"
  /\ faults < MaxFaults
  /\ faults' = faults + 1
  /\ Dies

\* _start_ready_connection: a new connection with a new tracker.
Connect ==
  /\ conn = "dead"
  /\ conn' = "booting"
  /\ pc' = [pc EXCEPT !["bootstrap"] = "buffer"]
  /\ attempt' = [attempt EXCEPT !["bootstrap"] = 1]
  /\ UNCHANGED <<exchangeVars, streamVars, awaiting, receiver, gapVars, livenessVars, faults>>

(***************************************************************************)
(* _recover_snapshot_bridge, run by task t.                                *)
(***************************************************************************)

Goto(t, place) == pc' = [pc EXCEPT ![t] = place]

\* snapshot bridged: the caller goes on.
Succeeds(t) == Goto(t, "done") /\ awaiting' = FALSE /\ UNCHANGED attempt

\* The next of the attempts.
Retries(t) ==
  /\ attempt[t] < Attempts
  /\ attempt' = [attempt EXCEPT ![t] = @ + 1]
  /\ Goto(t, "buffer")
  /\ UNCHANGED awaiting

\* _wait_for_depth_buffer: some update is buffered.
BufferReady(t) ==
  /\ pc[t] = "buffer"
  /\ tracker.pending # <<>>
  /\ Goto(t, "fetch")
  /\ UNCHANGED <<exchangeVars, streamVars, conn, attempt, awaiting, receiver, gapVars,
                 livenessVars, faults>>

\* No update at all within the receive timeout: the connection fails.
BufferTimeout(t) ==
  /\ pc[t] = "buffer"
  /\ tracker.pending = <<>> /\ wire = <<>>
  /\ Dies
  /\ UNCHANGED faults

\* A snapshot of any moment so far arrives.  It bridges; it is stale or the
\* buffer is broken behind it; or its fate depends on updates to come.
Snapshot(t) ==
  /\ pc[t] = "fetch"
  /\ \E id \in 1 .. emitted :
       LET result == OnSnapshot(tracker, id)
       IN  /\ tracker' = result.tracker
           /\ anchor' = id
           /\ rejoined' = Rejoined(result.tracker)
           /\ \/ result.status = "BRIDGED" /\ Succeeds(t)
              \/ result.status \in {"STALE_SNAPSHOT", "SEQUENCE_GAP"} /\ Retries(t)
              \/ /\ result.status = "WAITING_FOR_EVENTS"
                 /\ Goto(t, "decide") /\ UNCHANGED <<attempt, awaiting>>
  /\ UNCHANGED <<exchangeVars, wire, received, conn, receiver, openGaps, livenessVars, faults>>

\* Mutant: the outcome of the wait is not looked at.
DecidedBlindly(t) == Succeeds(t)

\* Mutant: the stream stays in _snapshot_pending.
DecidedStillPending(t) ==
  IF Bridged(tracker) THEN Goto(t, "done") /\ UNCHANGED <<attempt, awaiting>> ELSE Retries(t)

\* _wait_for_snapshot_decision returned: joined, or on to the next attempt.
Decided(t) == IF Bridged(tracker) THEN Succeeds(t) ELSE Retries(t)

Decide(t) ==
  /\ pc[t] = "decide"
  /\ tracker.snapshot = 0 \/ Bridged(tracker)
  /\ Decided(t)
  /\ UNCHANGED <<exchangeVars, streamVars, conn, receiver, gapVars, livenessVars, faults>>

\* Mutant: the wait for the decisive update has no timeout.
NeverDecides(t) == FALSE

\* It timed out: start again from an empty tracker.  The timer may fire
\* after the update that decides and before the task has seen it.
DecideTimeout(t) ==
  /\ pc[t] = "decide"
  /\ tracker' = NoTracker
  /\ Retries(t)
  /\ UNCHANGED <<exchangeVars, wire, received, anchor, conn, receiver, gapVars, livenessVars,
                 faults>>

\* The last attempt did not bridge: SnapshotBridgeError ends the connection.
GiveUp(t) ==
  /\ attempt[t] = Attempts
  /\ \/ /\ pc[t] = "fetch"
        /\ \E id \in 1 .. emitted :
             OnSnapshot(tracker, id).status \in {"STALE_SNAPSHOT", "SEQUENCE_GAP"}
     \/ pc[t] = "decide"
  /\ Dies
  /\ UNCHANGED faults

(***************************************************************************)
(* What follows a recovery.                                                *)
(***************************************************************************)

TaskEnds(t) == Goto(t, "none") /\ attempt' = [attempt EXCEPT ![t] = 0]

\* Every stream of the route is bridged: the route closes its L2_REANCHOR gap.
BecomeReady ==
  /\ pc["bootstrap"] = "done"
  /\ conn' = "ready"
  /\ openGaps' = openGaps \ {"reanchor"}
  /\ TaskEnds("bootstrap")
  /\ UNCHANGED <<exchangeVars, streamVars, awaiting, receiver, rejoined, livenessVars, faults>>

\* on_depth_reanchored has closed the gap; only now does the task leave
\* _resync_tasks.
CloseGap ==
  /\ pc["reanchor"] = "done"
  /\ openGaps' = openGaps \ {"sequence"}
  /\ TaskEnds("reanchor")
  /\ UNCHANGED <<exchangeVars, streamVars, conn, awaiting, receiver, rejoined, livenessVars,
                 faults>>

\* liveness_loop: nothing has arrived for too long, so a gap is opened and an
\* update that subscribes the stream again is queued.
FoundSilent ==
  /\ refreshes < MaxRefreshes
  /\ liveness = "idle"
  /\ "stale" \in openGaps => ~fresh
  /\ refreshes' = refreshes + 1
  /\ liveness' = "queued"
  /\ fresh' = FALSE
  /\ openGaps' = openGaps \cup {"stale"}
  /\ UNCHANGED <<exchangeVars, streamVars, conn, taskVars, receiver, rejoined, faults>>

\* The subscription controller of a ready connection takes the update; the
\* requests are acknowledged and the snapshot is asked for.
StartRefresh ==
  /\ liveness = "queued" /\ conn = "ready" /\ ~Running("refresh")
  /\ liveness' = "waiting"
  /\ Goto("refresh", "buffer")
  /\ attempt' = [attempt EXCEPT !["refresh"] = 1]
  /\ awaiting' = TRUE
  /\ UNCHANGED <<exchangeVars, streamVars, conn, receiver, gapVars, fresh, refreshes, faults>>

\* The loop waits no longer: an update still in the queue is cancelled, a
\* recovery under way goes on.
RefreshTimeout ==
  /\ liveness # "idle"
  /\ liveness' = "idle"
  /\ UNCHANGED <<exchangeVars, streamVars, conn, taskVars, receiver, gapVars, fresh, refreshes,
                 faults>>

RefreshEnds ==
  /\ pc["refresh"] = "done"
  /\ TaskEnds("refresh")
  /\ liveness' = IF liveness = "waiting" THEN "idle" ELSE liveness
  /\ UNCHANGED <<exchangeVars, streamVars, conn, awaiting, receiver, gapVars, fresh, refreshes,
                 faults>>

\* The refresh came through and an update arrived, or the refresh timed out
\* and the stream is alive anyway.
CloseStale ==
  /\ "stale" \in openGaps
  /\ liveness = "idle" /\ fresh
  /\ openGaps' = openGaps \ {"stale"}
  /\ UNCHANGED <<exchangeVars, streamVars, conn, taskVars, receiver, rejoined, livenessVars, faults>>

\* The recovery of a stream and what its end leads to.
Recover == \/ \E t \in Tasks : \/ BufferReady(t) \/ BufferTimeout(t) \/ Snapshot(t)
                               \/ Decide(t) \/ DecideTimeout(t) \/ GiveUp(t)
           \/ BecomeReady \/ CloseGap \/ StartRefresh \/ RefreshEnds
           \/ RefreshTimeout

Next == \/ \E width \in 1 .. 2 : Emit(width)
        \/ Receive \/ GapOpened \/ ConnectionLost \/ Connect
        \/ Recover \/ FoundSilent \/ CloseStale

Spec == Init /\ [][Next]_vars

(***************************************************************************)
(* Fairness: tasks and timers of the event loop run; the exchange promises *)
(* nothing.                                                                *)
(***************************************************************************)
FairSpec == /\ Spec
            /\ WF_vars(Receive \/ GapOpened)
            /\ WF_vars(Connect)
            /\ WF_vars(Recover)
            /\ WF_vars(CloseStale)
=============================================================================

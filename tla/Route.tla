-------------------------------- MODULE Route --------------------------------
(***************************************************************************)
(* One route of the collector: RouteRunner (collector/routes.py) with its  *)
(* connection, the replacement of a rotation, the liveness loop and the    *)
(* live update of the instruments, and the SubscriptionController          *)
(* (ws_control.py) of each connection.  The tasks share the update lock,   *)
(* a queue of one update, and the flag that requests a reconnect.          *)
(*                                                                         *)
(* A connection is known by what it believes subscribed (active) and what  *)
(* the exchange really sends (server); the clock counts ticks, and in a    *)
(* tick every symbol the exchange sends on a live connection has an event. *)
(***************************************************************************)
EXTENDS Integers, FiniteSets, Sequences

CONSTANTS
  Symbols,
  Instruments,       \* those of the start
  Targets,           \* sets of instruments an update may ask for
  LivenessTimeout,   \* liveness_timeout_seconds, in ticks
  RefreshLimit,      \* refresh_failures_before_reconnect
  MaxTime, MaxFaults, MaxUpdates, MaxRotations

ASSUME RouteAssumption ==
  /\ Instruments \subseteq Symbols /\ Instruments # {}
  /\ Targets \subseteq SUBSET Symbols
  /\ LivenessTimeout \in Nat \ {0} /\ RefreshLimit \in Nat \ {0}
  /\ {MaxTime, MaxFaults, MaxUpdates, MaxRotations} \subseteq Nat

VARIABLES
  now,
  phase,       \* where RouteRunner.run is
  conn,        \* the current connection and the one that is being started
  gap, l2,     \* the start of gap_id and of l2_gap_id, None without
  instruments,
  lastEvent,   \* [Symbols -> time of the last event, None for no key]
  reconnect,   \* _reconnect_requested
  ready,       \* _connection_ready
  connected,   \* a connection has been active (_connection_connected > 0)
  lock,        \* _update_lock, first come first served: the holder, then those who wait
  sub,         \* the update between its submitter and a connection
  queue,       \* _updates: "empty", "live", or "stale" when its futures are cancelled
  apply,       \* the update a connection is applying
  update,      \* update_instruments: its step, target and start
  live,        \* liveness_loop: its step, keys, start, whether the connection is still
               \* the one of its start, and the failures on that connection
  keyGap,      \* active_gaps
  stop,
  faults, updates, rotations,
  \* History: <<symbol, time>> received, inside a closed route-wide gap, or lost
  \* before the first connection, in a rotation or by a drop of the exchange.
  accounted

runVars == <<phase, gap, l2, reconnect, ready, connected>>
subVars == <<sub, queue, apply>>
faultVars == <<faults, updates, rotations>>
vars == <<now, runVars, conn, instruments, lastEvent, lock, subVars, update, live, keyGap, stop,
          faultVars, accounted>>

None == -1
NoConn == [st |-> "none", overload |-> FALSE, keys |-> {}, active |-> {}, server |-> {},
           trans |-> FALSE, bridged |-> FALSE, forgotten |-> FALSE]
NoSub == [stage |-> "none", on |-> "none", add |-> {}, remove |-> {}]
NoApply == [on |-> "none", step |-> "idle", add |-> {}, remove |-> {}]
NoUpdate == [step |-> "idle", target |-> {}, since |-> None]
Sleeping == [step |-> "sleep", keys |-> {}, since |-> None, same |-> FALSE, failures |-> 0]

Init ==
  /\ now = 0 /\ phase = "start"
  /\ conn = [c \in {"cur", "next"} |-> NoConn]
  /\ gap = None /\ l2 = None /\ instruments = Instruments
  /\ lastEvent = [s \in Symbols |-> IF s \in Instruments THEN 0 ELSE None]
  /\ reconnect = FALSE /\ ready = FALSE /\ connected = FALSE /\ lock = <<>>
  /\ sub = NoSub /\ queue = "empty" /\ apply = NoApply /\ update = NoUpdate
  /\ live = Sleeping /\ keyGap = [s \in Symbols |-> None]
  /\ stop = FALSE /\ faults = 0 /\ updates = 0 /\ rotations = 0
  /\ accounted = {}

(***************************************************************************)
(* A connection: BinanceWebSocketConnection.run, as the runner sees it.    *)
(***************************************************************************)

Fresh == [NoConn EXCEPT !.st = "connecting", !.keys = instruments, !.active = instruments,
                         !.server = instruments]
Up(c) == conn[c].st = "up"
ReadyToTake(c) == Up(c) /\ conn[c].bridged /\ apply.on # c
Started(c) == conn[c].trans /\ conn[c].bridged
Unconnected == <<now, runVars, instruments, lastEvent, lock, update, live, keyGap, stop, updates,
                 rotations, accounted>>

\* connect and complete_initial.
Connected(c) ==
  /\ conn[c].st = "connecting"
  /\ conn' = [conn EXCEPT ![c].st = "up"]
  /\ UNCHANGED <<Unconnected, subVars, faults>>

\* _bootstrap: every snapshot is bridged; run_updates and run_audits start.
Bootstrapped(c) ==
  /\ Up(c) /\ ~conn[c].bridged
  /\ conn' = [conn EXCEPT ![c].bridged = TRUE]
  /\ UNCHANGED <<Unconnected, subVars, faults>>

\* _fail_subscription_update: what a connection held fails with it.
Abandoned(c) ==
  /\ apply' = IF apply.on = c THEN NoApply ELSE apply
  /\ sub' = IF sub.on = c THEN [sub EXCEPT !.stage = "failed", !.on = "none"] ELSE sub
  /\ UNCHANGED queue

Dies(c, overload) ==
  /\ conn' = [conn EXCEPT ![c] = [NoConn EXCEPT !.st = "dead", !.overload = overload]]
  /\ Abandoned(c)

\* The transport breaks, the watchdog fires, the ingest queue overloads, a
\* snapshot cannot be bridged.
Fails(c) ==
  /\ conn[c].st \in {"connecting", "up"} /\ faults < MaxFaults
  /\ faults' = faults + 1
  /\ \E overload \in BOOLEAN : Dies(c, overload)
  /\ UNCHANGED Unconnected

\* The exchange silently stops sending a subscribed stream.
ServerDrops(c) ==
  /\ Up(c) /\ faults < MaxFaults
  /\ faults' = faults + 1
  /\ \E s \in conn[c].server : conn' = [conn EXCEPT ![c].server = @ \ {s}]
  /\ UNCHANGED <<Unconnected, subVars>>

\* _validate_audit.
Mismatch(c) == conn[c].server # conn[c].active

\* run_audits: a mismatch ends the connection.  The audit waits for the lock
\* that an update's requests hold.
AuditFails(c) ==
  /\ Up(c) /\ conn[c].bridged /\ Mismatch(c)
  /\ ~(apply.on = c /\ apply.step = "requests")
  /\ Dies(c, FALSE)
  /\ UNCHANGED <<Unconnected, faults>>

(***************************************************************************)
(* RouteRunner.run.                                                        *)
(***************************************************************************)

HasLock(task) == lock # <<>> /\ Head(lock) = task
Acquire(task) == lock' = Append(lock, task)
Release == lock' = Tail(lock)

Keys == {s \in Symbols : lastEvent[s] # None}
Oldest == LET times == {lastEvent[s] : s \in Keys} IN
          IF times = {} THEN now ELSE CHOOSE t \in times : \A u \in times : t <= u
Unrun == <<now, instruments, lastEvent, update, keyGap, stop, updates>>

\* Mutant: the gap starts when it is noticed.
OpenedNow(g) == IF g = None THEN now ELSE g

\* _open_gap, _open_l2_reanchor_gap: from the oldest last event of a key.
Opened(g) == IF g = None THEN Oldest ELSE g

\* _close_transport_gap.
Closed == accounted' = accounted \cup
            (Instruments \X (IF gap = None THEN {} ELSE gap .. now - 1))

\* Every key an update added has had an event.
AddedFresh ==
  /\ update.step = "fresh"
  /\ \A s \in update.target \ instruments : lastEvent[s] > update.since

\* After the backoff, in which a submitter that was waiting has woken up.
StartConnection ==
  /\ phase = "start" /\ ~stop /\ ~AddedFresh /\ sub.stage # "done"
  /\ conn' = [conn EXCEPT !["next"] = Fresh]
  /\ phase' = "starting"
  /\ UNCHANGED <<Unrun, live, accounted, faults, gap, l2, reconnect, ready, connected, lock, subVars,
                 rotations>>

\* _maybe_mark_transport_ready: an event of every key.  While the route has no
\* other connection the runner closes the transport gap (report_transport_ready).
TransportReady ==
  /\ Up("next") /\ ~conn["next"].trans /\ conn["next"].keys \subseteq conn["next"].server
  /\ conn' = [conn EXCEPT !["next"].trans = TRUE]
  /\ Closed /\ gap' = None
  /\ UNCHANGED <<Unrun, live, faults, phase, l2, reconnect, ready, connected, lock, subVars, rotations>>

\* _activate_connection, of the connection that was being started.  It clears
\* a request for a reconnect, also one that concerns this connection, which
\* the history field forgotten records.
Activated ==
  /\ conn' = [conn EXCEPT !["cur"] = [conn["next"] EXCEPT !.forgotten = reconnect],
                          !["next"] = NoConn]
  /\ apply' = IF apply.on = "next" THEN [apply EXCEPT !.on = "cur"] ELSE NoApply
  /\ sub' = IF sub.on = "next" THEN [sub EXCEPT !.on = "cur"] ELSE sub
  /\ connected' = TRUE /\ reconnect' = FALSE /\ ready' = TRUE
  /\ live' = [live EXCEPT !.same = FALSE, !.failures = 0]
  /\ phase' = "wait"
  /\ UNCHANGED queue

\* _start_ready_connection returns; _close_l2_reanchor_gap.
ConnectionReady ==
  /\ phase = "starting" /\ Up("next") /\ Started("next")
  /\ Activated
  /\ l2' = None
  /\ UNCHANGED <<Unrun, accounted, faults, gap, lock, rotations>>

\* The connection that is being started is dead, or late.
TimesOut(late) ==
  \/ conn["next"].st = "dead" /\ UNCHANGED faults
  \/ late /\ faults < MaxFaults /\ faults' = faults + 1

\* It raises: the connection failed, or was not ready within 600 seconds.  A
\* gap is opened unless one is open.
StartFails ==
  /\ phase = "starting"
  /\ TimesOut(~Started("next"))
  /\ gap' = Opened(gap)
  /\ l2' = IF gap = None THEN Opened(l2) ELSE l2
  /\ phase' = IF conn["next"].overload THEN "overload" ELSE "start"
  /\ conn' = [conn EXCEPT !["next"] = NoConn] /\ Abandoned("next")
  /\ UNCHANGED <<Unrun, live, accounted, reconnect, ready, connected, lock, rotations>>

\* wait_until_resumable does not look at the stop.
OverloadEnds ==
  /\ phase = "overload"
  /\ phase' = "start"
  /\ UNCHANGED <<Unrun, live, accounted, faults, conn, gap, l2, reconnect, ready, connected, lock, subVars,
                 rotations>>

\* Both gaps of a connection that is lost.
LostBoth == gap' = Opened(None) /\ l2' = Opened(l2)

\* _wait_current: failed, or a reconnect is requested.
ConnectionLost ==
  /\ phase = "wait" /\ ~stop
  /\ conn["cur"].st = "dead" \/ reconnect
  /\ LostBoth
  /\ reconnect' = FALSE /\ ready' = FALSE
  /\ phase' = IF conn["cur"].overload THEN "overload" ELSE "start"
  /\ conn' = [conn EXCEPT !["cur"] = NoConn] /\ Abandoned("cur")
  /\ UNCHANGED <<Unrun, live, accounted, faults, connected, lock, rotations>>

\* Due hours after the activation, when an idle run_updates has emptied the
\* queue long ago.
Rotate ==
  /\ phase = "wait" /\ ~stop /\ Up("cur") /\ ~reconnect /\ rotations < MaxRotations
  /\ queue = "empty" \/ ~ReadyToTake("cur")
  /\ rotations' = rotations + 1
  /\ phase' = "rotate" /\ Acquire("rotate")
  /\ UNCHANGED <<Unrun, live, accounted, faults, conn, gap, l2, reconnect, ready, connected, subVars>>

StartReplacement ==
  /\ phase = "rotate" /\ HasLock("rotate") /\ ~stop
  /\ conn' = [conn EXCEPT !["next"] = Fresh]
  /\ phase' = "replacing"
  /\ UNCHANGED <<Unrun, live, accounted, faults, gap, l2, reconnect, ready, connected, lock, subVars,
                 rotations>>

ReplacementReady ==
  /\ phase = "replacing" /\ Up("next") /\ Started("next")
  /\ phase' = "overlap"
  /\ UNCHANGED <<Unrun, live, accounted, faults, conn, gap, l2, reconnect, ready, connected, lock, subVars,
                 rotations>>

\* The replacement fails or times out; the current one stays.
ReplacementFails ==
  /\ phase = "replacing"
  /\ TimesOut(~Started("next"))
  /\ conn' = [conn EXCEPT !["next"] = NoConn] /\ Abandoned("next")
  /\ Release /\ phase' = "wait"
  /\ UNCHANGED <<Unrun, live, accounted, gap, l2, reconnect, ready, connected, rotations>>

\* After the overlap the old connection is stopped, whatever became of it.
Replace ==
  /\ phase = "overlap" /\ ~stop
  /\ Activated
  /\ Release
  /\ UNCHANGED <<Unrun, accounted, faults, gap, l2, rotations>>

\* The stop is seen wherever the runner waits for it.
RunStops ==
  /\ stop
  /\ \/ phase \in {"start", "starting", "wait", "replacing", "overlap"}
     \/ phase = "rotate" /\ HasLock("rotate")
  /\ phase' = "stopped"
  /\ conn' = [c \in {"cur", "next"} |-> NoConn]
  /\ apply' = NoApply
  /\ sub' = IF sub.on # "none" THEN [sub EXCEPT !.stage = "failed", !.on = "none"] ELSE sub
  /\ lock' = IF HasLock("rotate") THEN Tail(lock) ELSE lock
  /\ UNCHANGED <<Unrun, live, accounted, faults, gap, l2, reconnect, ready, connected, queue, rotations>>

Stop ==
  /\ ~stop /\ stop' = TRUE
  /\ UNCHANGED <<now, runVars, conn, instruments, lastEvent, lock, subVars, update, live, keyGap,
                 faultVars, accounted>>

(***************************************************************************)
(* _submit_update, and run_updates of a connection.                        *)
(***************************************************************************)

Unsubmitted == <<now, runVars, instruments, lastEvent, lock, update, live, keyGap, stop,
                 faultVars, accounted>>

\* The put waits for room without a time limit.
Put ==
  /\ sub.stage = "put" /\ queue = "empty"
  /\ queue' = "live" /\ sub' = [sub EXCEPT !.stage = "queued"]
  /\ UNCHANGED <<Unsubmitted, conn, apply>>

\* run_updates takes the next update, one whose futures are cancelled for nothing.
Take(c) ==
  /\ ReadyToTake(c) /\ queue # "empty"
  /\ queue = "live" => apply.on = "none"
  /\ queue' = "empty"
  /\ IF queue = "live"
     THEN /\ sub' = [sub EXCEPT !.stage = "started", !.on = c]
          /\ apply' = [on |-> c, step |-> "requests", add |-> sub.add, remove |-> sub.remove]
     ELSE UNCHANGED <<sub, apply>>
  /\ UNCHANGED <<Unsubmitted, conn>>

\* _apply_update: the exchange confirms both requests.  The submitter may be
\* gone by then.  run_updates then waits for the snapshots of the update.
Applied(c) ==
  /\ apply.on = c /\ apply.step = "requests"
  /\ conn' = [conn EXCEPT ![c].active = (@ \ apply.remove) \cup apply.add,
                          ![c].server = (@ \ apply.remove) \cup apply.add]
  /\ apply' = IF apply.add # {} THEN [apply EXCEPT !.step = "snapshots"] ELSE NoApply
  /\ sub' = IF sub.on # c THEN sub
            ELSE IF apply.add # {} THEN [sub EXCEPT !.stage = "acked"]
            ELSE [sub EXCEPT !.stage = "done", !.on = "none"]
  /\ UNCHANGED <<Unsubmitted, queue>>

\* _fetch_requested_snapshots has bridged the books of the update.
SnapshotsBridged(c) ==
  /\ apply.on = c /\ apply.step = "snapshots"
  /\ apply' = NoApply
  /\ sub' = IF sub.on = c THEN [sub EXCEPT !.stage = "done", !.on = "none"] ELSE sub
  /\ UNCHANGED <<Unsubmitted, conn, queue>>

\* A wait for started, acknowledged or completion times out (180 seconds, in
\* which an idle run_updates takes what is queued); the futures are cancelled
\* and the update stays in the queue.
SubmitTimeout ==
  /\ \/ sub.stage = "queued" /\ \A c \in {"cur", "next"} : ~ReadyToTake(c)
     \/ sub.stage \in {"started", "acked"}
  /\ queue' = IF sub.stage = "queued" THEN "stale" ELSE queue
  /\ sub' = [sub EXCEPT !.stage = "failed", !.on = "none"]
  /\ UNCHANGED <<Unsubmitted, conn, apply>>

(***************************************************************************)
(* update_instruments.                                                     *)
(***************************************************************************)

Unupdated == <<now, phase, gap, l2, ready, connected, conn, queue, apply, live, keyGap,
               stop, faults, rotations, accounted>>

UpdateRequest ==
  /\ update.step = "idle" /\ updates < MaxUpdates /\ ~stop
  /\ \E target \in Targets \ {instruments} :
       update' = [NoUpdate EXCEPT !.step = "lock", !.target = target]
  /\ updates' = updates + 1 /\ Acquire("update")
  /\ UNCHANGED <<Unupdated, reconnect, instruments, lastEvent, sub>>

Added == update.target \ instruments

UpdateSubmits ==
  /\ update.step = "lock" /\ HasLock("update")
  /\ update' = [update EXCEPT !.step = "submit", !.since = now]
  /\ lastEvent' = [s \in Symbols |-> IF s \in Added THEN now ELSE lastEvent[s]]
  /\ sub' = [NoSub EXCEPT !.stage = "put", !.add = Added, !.remove = instruments \ update.target]
  /\ UNCHANGED <<Unupdated, reconnect, instruments, lock, updates>>

UpdateConfirmed ==
  /\ update.step = "submit" /\ sub.stage = "done"
  /\ sub' = NoSub /\ update' = [update EXCEPT !.step = "fresh"]
  /\ UNCHANGED <<Unupdated, reconnect, instruments, lastEvent, lock, updates>>

UpdateCommits ==
  /\ AddedFresh
  /\ instruments' = update.target
  /\ lastEvent' = [s \in Symbols |-> IF s \notin update.target THEN None
                                      ELSE IF lastEvent[s] = None THEN now ELSE lastEvent[s]]
  /\ Release /\ update' = NoUpdate
  /\ UNCHANGED <<Unupdated, reconnect, sub, updates>>

\* Mutant: a failed update asks for no reconnect.
NoRequest == reconnect

\* A failed update leaves the connection to a reconnect.
Requested == TRUE

UpdateFails ==
  /\ \/ update.step = "submit" /\ sub.stage = "failed"
     \/ update.step = "fresh" /\ \E s \in Added : lastEvent[s] <= update.since
  /\ lastEvent' = [s \in Symbols |-> IF s \in instruments THEN lastEvent[s] ELSE None]
  /\ reconnect' = Requested
  /\ sub' = NoSub /\ Release /\ update' = NoUpdate
  /\ UNCHANGED <<Unupdated, instruments, updates>>

(***************************************************************************)
(* liveness_loop.                                                          *)
(***************************************************************************)

Unlived == <<now, phase, gap, l2, ready, connected, conn, queue, apply, instruments,
             lastEvent, update, stop, faultVars, accounted>>

\* Resumed: the key has had an event since its gap was opened, or is gone.
Resumed(s) == keyGap[s] # None /\ (lastEvent[s] = None \/ lastEvent[s] > keyGap[s])
Silent == {s \in instruments \cap Keys : now - lastEvent[s] >= LivenessTimeout}

\* One round: the gaps of resumed keys are closed, gaps of silent keys opened.
Scan ==
  /\ live.step = "sleep" /\ ~stop
  /\ Silent # {} \/ \E s \in Symbols : Resumed(s)
  /\ keyGap' = [s \in Symbols |->
                  LET left == IF Resumed(s) THEN None ELSE keyGap[s] IN
                  IF left = None /\ s \in Silent THEN lastEvent[s] ELSE left]
  /\ live' = IF Silent = {} THEN live
             ELSE [live EXCEPT !.step = "found", !.keys = Silent, !.same = TRUE]
  /\ UNCHANGED <<Unlived, reconnect, lock, sub>>

\* _refresh_keys: the streams are unsubscribed and subscribed again.
RefreshWaits ==
  /\ live.step = "found"
  /\ live' = [live EXCEPT !.step = "lock"] /\ Acquire("refresh")
  /\ UNCHANGED <<Unlived, reconnect, sub, keyGap>>

\* The keys are not looked at again.
RefreshSubmits ==
  /\ live.step = "lock" /\ HasLock("refresh")
  /\ live' = [live EXCEPT !.step = "submit"]
  /\ sub' = [NoSub EXCEPT !.stage = "put", !.add = live.keys, !.remove = live.keys]
  /\ UNCHANGED <<Unlived, reconnect, lock, keyGap>>

\* _refresh_keys returns and the lock is free.
RefreshConfirmed ==
  /\ live.step = "submit" /\ sub.stage = "done"
  /\ Release /\ sub' = NoSub
  /\ live' = [live EXCEPT !.step = IF stop THEN "stopped" ELSE "fresh", !.since = now]
  /\ UNCHANGED <<Unlived, reconnect, keyGap>>

\* Every key has had an event after the refresh.
Refreshed ==
  /\ live.step = "fresh" /\ \A s \in live.keys : lastEvent[s] > live.since
  /\ keyGap' = [s \in Symbols |-> IF s \in live.keys THEN None ELSE keyGap[s]]
  /\ live' = Sleeping
  /\ UNCHANGED <<Unlived, reconnect, lock, sub>>

\* Failures on one active connection add up to a requested reconnect.
RefreshFails ==
  /\ \/ live.step = "submit" /\ sub.stage = "failed"
     \/ /\ live.step = "fresh" /\ live.keys \subseteq Keys
        /\ \E s \in live.keys : lastEvent[s] <= live.since
  /\ lock' = IF live.step = "submit" THEN Tail(lock) ELSE lock
  /\ sub' = IF live.step = "submit" THEN NoSub ELSE sub
  /\ LET count == IF live.failures < RefreshLimit THEN live.failures + 1 ELSE RefreshLimit IN
     IF live.same /\ ready
     THEN /\ live' = [Sleeping EXCEPT !.failures = count]
          /\ reconnect' = (reconnect \/ count >= RefreshLimit)
     ELSE live' = Sleeping /\ UNCHANGED reconnect
  /\ UNCHANGED <<Unlived, keyGap>>

\* _wait_for_fresh_events looks up a key that an update has removed: the
\* KeyError is not among the exceptions of the loop, and the group of source
\* tasks ends with it.
KeyRemoved ==
  /\ live.step = "fresh" /\ ~(live.keys \subseteq Keys)
  /\ live' = [live EXCEPT !.step = "raised"]
  /\ UNCHANGED <<Unlived, reconnect, lock, sub, keyGap>>

LiveStops ==
  /\ stop /\ live.step = "sleep"
  /\ live' = [live EXCEPT !.step = "stopped"]
  /\ UNCHANGED <<Unlived, reconnect, lock, sub, keyGap>>

(***************************************************************************)
(* Time.                                                                   *)
(***************************************************************************)

Received == UNION {conn[c].server : c \in {x \in {"cur", "next"} : Up(x)}}
Excused == \/ phase \in {"rotate", "replacing", "overlap"}
           \/ ~connected  \* a gap of the collector's start covers it
           \/ \E c \in {"cur", "next"} : Up(c)

Tick ==
  /\ now < MaxTime
  /\ now' = now + 1
  /\ lastEvent' = [s \in Symbols |-> IF lastEvent[s] # None /\ s \in Received THEN now + 1
                                     ELSE lastEvent[s]]
  /\ accounted' = accounted \cup
                    ((IF Excused THEN Instruments ELSE Instruments \cap Received) \X {now})
  /\ UNCHANGED <<runVars, conn, instruments, lock, subVars, update, live, keyGap, stop, faultVars>>

Connection == \E c \in {"cur", "next"} :
                \/ Connected(c) \/ Bootstrapped(c) \/ AuditFails(c)
                \/ Take(c) \/ Applied(c) \/ SnapshotsBridged(c)
Runner == \/ StartConnection \/ TransportReady \/ ConnectionReady \/ OverloadEnds
          \/ ConnectionLost \/ StartReplacement \/ ReplacementReady \/ Replace \/ RunStops
Waits == SubmitTimeout \/ StartFails \/ ReplacementFails
Updater == UpdateSubmits \/ UpdateConfirmed \/ UpdateCommits \/ UpdateFails
Liveness == Scan \/ RefreshWaits \/ RefreshSubmits \/ RefreshConfirmed \/ Refreshed \/ RefreshFails \/ KeyRemoved
            \/ LiveStops
Environment == \/ Stop \/ Tick \/ Rotate \/ UpdateRequest
               \/ \E c \in {"cur", "next"} : Fails(c) \/ ServerDrops(c)

Next == \/ Connection \/ Runner \/ Waits \/ Put \/ Updater \/ Liveness
        \/ Environment

Spec == Init /\ [][Next]_vars

(***************************************************************************)
(* Fairness: the tasks run; the exchange answers requests and snapshots; a *)
(* connection that keeps coming up is started some time; a time limit is   *)
(* reached unless what it waits for comes first.                           *)
(***************************************************************************)
FairSpec == /\ Spec
            /\ WF_vars(Put) /\ WF_vars(SubmitTimeout) /\ WF_vars(Tick) /\ WF_vars(Runner)
            /\ WF_vars(Updater) /\ WF_vars(Liveness)
            /\ SF_vars(TransportReady) /\ SF_vars(ConnectionReady)
            /\ WF_vars(conn["next"].st = "dead" /\ (StartFails \/ ReplacementFails))
            /\ \A c \in {"cur", "next"} :
                 /\ WF_vars(Connected(c)) /\ WF_vars(Bootstrapped(c)) /\ SF_vars(Take(c))
                 /\ WF_vars(Applied(c)) /\ WF_vars(SnapshotsBridged(c)) /\ SF_vars(AuditFails(c))
=============================================================================

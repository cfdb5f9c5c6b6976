--------------------------- MODULE RouteProperties ---------------------------
(***************************************************************************)
(* What a route promises about its data, its gaps and its subscriptions.   *)
(***************************************************************************)
EXTENDS Route

\* The types of the route's state.
TypeOK ==
  /\ now \in 0 .. MaxTime /\ gap \in -1 .. now /\ l2 \in -1 .. now
  /\ phase \in {"start", "starting", "overload", "wait", "rotate", "replacing", "overlap",
                "stopped"}
  /\ instruments \subseteq Symbols /\ lastEvent \in [Symbols -> -1 .. now]
  /\ \A c \in {"cur", "next"} : conn[c].active \subseteq Symbols
                               /\ conn[c].st \in {"none", "connecting", "up", "dead"}
  /\ Len(lock) <= 3 /\ \A i \in DOMAIN lock : lock[i] \in {"update", "refresh", "rotate"}
  /\ update.step \in {"submit", "fresh"} => HasLock("update")
  /\ live.step = "submit" => HasLock("refresh")
  /\ phase \in {"replacing", "overlap"} => HasLock("rotate")
  /\ sub.stage # "none" => HasLock("update") \/ HasLock("refresh")
  /\ keyGap \in [Symbols -> -1 .. now] /\ reconnect \in BOOLEAN /\ ready \in BOOLEAN

Steady == phase = "wait" /\ Up("cur") /\ ~reconnect

\* When a route is back to a live connection, every moment without data of an
\* instrument it has had from the start lies in a route-wide gap: the gap
\* reaches back to the last event (_open_gap) and closes at the first events
\* of the next connection (report_transport_ready), over second failures,
\* overloads and requested reconnects.  Times lost while a rotation runs and
\* streams the exchange drops are not its subject.
OutageIsCovered ==
  Steady => \A s \in Instruments \cap instruments, t \in 0 .. now - 1 :
              <<s, t>> \in accounted

\* A connection in use is subscribed to every instrument of the route, unless
\* an update is under way or a reconnect is requested: after updates that fail
\* half applied, refreshes and rotations (update_instruments).  A connection
\* whose activation cleared such a request is not its subject.
SubscriptionsAgree ==
  (Steady /\ lock = <<>> /\ apply.step # "requests" /\ ~conn["cur"].forgotten)
    => instruments \subseteq conn["cur"].active

\* A route comes back: again and again it has a live connection on which the
\* exchange sends every instrument, or it is stopped.  "Repeated timeouts, a
\* second disconnect, a concurrent universe update: no deadlock"
\* (docs/v0.3.3-gap-recovery.md).
RouteRecovers ==
  []<>((Steady /\ instruments \subseteq conn["cur"].server) \/ stop \/ live.step = "raised")
=============================================================================

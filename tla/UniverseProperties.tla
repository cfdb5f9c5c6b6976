-------------------------- MODULE UniverseProperties --------------------------
(***************************************************************************)
(* What the rotation of the universe promises.                             *)
(***************************************************************************)
EXTENDS Universe

\* The normaliser reads a day with the universe that was collected from its
\* start: over crashes, restarts, overrides and discoveries late in the day
\* (_active_universe, _next_effective_at, apply_due).  Days in which a restart
\* applied a decision, or one was planned after its midnight, are not its
\* subject.
ReadsWhatWasCollected ==
  [][(Day(now') > Day(now) /\ inForce # NoRoles /\ ~retro /\ ~late)
       => Normalized = inForce]_vars

\* Evidence and candidates that do not suffice freeze the universe and never
\* end in an error, which would stop the collector ("fail closed",
\* select_rolling_universe, _reconcile_bucket).
SelectionFailsClosed == ~failed

Gone == Candidates(file) \ Members(file')

\* A candidate that leaves the universe though it trades has been in it for
\* the dwell time, whoever decided; a crash between active.json and
\* membership-state.json is not its subject (_reconcile_bucket,
\* _decision_from_override, apply_due).
CandidatesDwell ==
  [][(file # NoDecision /\ ~torn) =>
       \A s \in Gone \ file'.inactive : joined[s] + CandidateDwell <= file'.eff]_vars

=============================================================================

---------------------------- MODULE GapProperties ----------------------------
(***************************************************************************)
(* What the gap journal promises the reader of a sealed day.               *)
(***************************************************************************)
EXTENDS GapJournal

\* The types of the journal's and the service's state.
TypeOK ==
  /\ now \in Nat /\ Instant(now)
  /\ \A f \in facts : f.gap \in Gaps /\ f.state \in {"OPEN", "CLOSED"} /\ f.at \in Nat
  /\ state \in [Gaps -> Nat \cup {None}] /\ sealed \subseteq 0 .. MaxDay
  /\ task \in [Gaps -> {"unused", "opening", "open", "closing", "rolled", "removing", "closed",
                        "lost"}]
  /\ roller.todo \subseteq Gaps /\ roller.gap \in Gaps \cup {NoGap}
  /\ stale \subseteq Gaps /\ storageGap \in Gaps \cup {NoGap}
  /\ running \in BOOLEAN /\ full \in BOOLEAN /\ lease \in Nat \cup {None}

FactsOf(d) == {f \in facts : Day(f.at) = d}
Invalid(d) == Points(Intervals(FactsOf(d), Midnight(d + 1)))
DayPoints(d) == Midnight(d) .. Midnight(d + 1) - 1

\* The times at which data were really missing.
LostByGap(g) ==
  IF since[g] = None THEN {} ELSE since[g] .. (IF until[g] = None THEN now ELSE until[g]) - 1
Lost == lost \cup (IF running \/ up = None THEN {} ELSE up .. now - 1)
             \cup UNION {LostByGap(g) : g \in Gaps}

\* The reader of a sealed day (quality._explicit_invalid_intervals) sees every
\* moment invalid at which the sources did not run or a gap was open: over
\* midnights, crashes, full disks and late opens (gaps.open, close, rollover,
\* lease.recovery_start_ns).
NoUnderReport == \A d \in sealed : Lost \cap DayPoints(d) \subseteq Invalid(d)

\* No fact of a gap arrives after its day is sealed: DayIndex.record_generated
\* would raise, and the collector stop (gaps.rollover before the grace period,
\* _close_stale_gaps before _seal_completed_days).  The gap of a full disk is
\* not among the stale ones a boot closes before it seals; when it has outlived
\* a restart by two midnights its close does meet a sealed day.
NothingRefused == refused \subseteq storage

\* A gap that was closed, and that no rollover was at in the same moment, makes
\* nothing invalid after the close in any day (gaps.close, gaps.rollover).
ClosedGapEnds ==
  \A g \in Gaps \ raced : (task[g] = "closed" /\ crashes = 0) =>
    \A d \in 0 .. Day(now) :
      \A t \in Points(Intervals({f \in FactsOf(d) : f.gap = g}, Midnight(d + 1))) : t < until[g]

=============================================================================

----------------------------- MODULE GapIntervals -----------------------------
(***************************************************************************)
(* How the central host reads the gap facts of a sealed day                *)
(* (pipeline/gaps.py, quality.py): the facts in order of their effective   *)
(* time become intervals in which the data are explicitly invalid.  A fact *)
(* is [gap, state, at, cont], with cont for the facts a rollover writes at *)
(* the last nanosecond of a day.                                           *)
(***************************************************************************)
EXTENDS Integers

\* _gap_sort_key: effective time, gap, state; "CLOSED" sorts before "OPEN".
Before(f, h) ==
  /\ f.gap = h.gap
  /\ f.at < h.at \/ (f.at = h.at /\ f.state = "CLOSED" /\ h.state = "OPEN")

NextFact(facts, f) ==
  {h \in facts : Before(f, h) /\ \A k \in facts : Before(f, k) => ~Before(k, h)}

\* Mutant: a rollover's fact ends its interval at the last nanosecond.
EndWithoutRollover(h) == h.at

\* A rollover's fact is inclusive of the last nanosecond.
EndOf(h) == IF h.cont THEN h.at + 1 ELSE h.at

\* _explicit_invalid_intervals: an OPEN fact lasts until the next fact of its
\* gap closes it, or until the window ends.  One that meets another OPEN fact
\* is overwritten by it.
Intervals(facts, end) ==
  {<<p[1].at, EndOf(p[2])>> : p \in
     {q \in facts \X facts : /\ q[1].state = "OPEN" /\ q[2].state = "CLOSED"
                             /\ q[2] \in NextFact(facts, q[1])}}
  \cup {<<f.at, end>> : f \in {g \in facts : g.state = "OPEN" /\ NextFact(facts, g) = {}}}

Points(intervals) == UNION {i[1] .. i[2] - 1 : i \in intervals}
=============================================================================

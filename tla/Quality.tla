-------------------------------- MODULE Quality --------------------------------
(***************************************************************************)
(* pipeline/quality.py: whether a day's validity, with its explicit gaps,  *)
(* meets the quality contract.  Intervals are pairs, end not included.     *)
(***************************************************************************)
EXTENDS GapIntervals, Sequences, SequencesExt, FiniteSetsExt

CONSTANTS RatioOver, RatioUnder   \* the least valid part of the window, 999 / 1000

ASSUME QualityAssumption == RatioOver \in Nat /\ RatioUnder \in Nat

Clipped(intervals, from, to) ==
  {c \in {<<Max({i[1], from}), Min({i[2], to})>> : i \in intervals} : c[1] < c[2]}

Earlier(i, j) == i[1] < j[1] \/ (i[1] = j[1] /\ i[2] < j[2])

Latest(intervals) == CHOOSE i \in intervals : \A j \in intervals \ {i} : Earlier(j, i)

\* An interval extends the current run or begins the next one; total is that of
\* the runs before the current one.
Joined(acc, i) ==
  IF acc.end = -1 THEN [total |-> 0, start |-> i[1], end |-> i[2]]
  ELSE IF i[1] <= acc.end THEN [acc EXCEPT !.end = Max({@, i[2]})]
  ELSE [total |-> acc.total + acc.end - acc.start, start |-> i[1], end |-> i[2]]

NoRun == [total |-> 0, start |-> -1, end |-> -1]

\* Mutant: what several intervals cover is counted as often.
SummedDuration(intervals, from, to) ==
  MapThenSumSet(LAMBDA i : i[2] - i[1], Clipped(intervals, from, to))

\* _union_duration: the intervals join in ascending order.
UnionDuration(intervals, from, to) ==
  LET last == MapThenFoldSet(LAMBDA i, acc : Joined(acc, i), NoRun, LAMBDA i : i, Latest,
                             Clipped(intervals, from, to))
  IN IF last.end = -1 THEN 0 ELSE last.total + last.end - last.start

\* _extend_invalid_until_valid: a gap whose book is not valid at its end lasts
\* until the book is valid again.
ExtendedUntilValid(invalid, valid, to) ==
  {IF \E v \in valid : v[1] <= i[2] /\ i[2] < v[2] THEN i
   ELSE LET later == {v[1] : v \in {w \in valid : w[1] >= i[2]}} IN
        <<i[1], IF later = {} THEN to ELSE Min(later)>> : i \in invalid}

\* _intersection_duration.
Intersections(left, right) ==
  {c \in {<<Max({p[1][1], p[2][1]}), Min({p[1][2], p[2][2]})>> : p \in left \X right} :
     c[1] < c[2]}

\* _validate_validity: in order, apart, and within the day.
ValidityOrdered(valid, from, to) ==
  /\ \A i \in DOMAIN valid : from <= valid[i][1] /\ valid[i][1] < valid[i][2] /\ valid[i][2] <= to
  /\ \A i \in 2 .. Len(valid) : valid[i - 1][2] <= valid[i][1]

ExplicitInvalid(facts, valid, from, to) ==
  ExtendedUntilValid(Clipped(Intervals(facts, to), from, to), valid, to)

\* Mutant: time that is neither valid nor in a gap is not looked for.
VerdictUnaccounted(validity, facts, dayStart, from, to) ==
  LET valid == ToSet(validity) IN
  IF UnionDuration(valid, from, to) * RatioUnder < (to - from) * RatioOver THEN "rejected"
  ELSE "processed"

\* finalize_day for one symbol, in the window from .. to of its day: processed,
\* rejected, or refused as malformed.
Verdict(validity, facts, dayStart, from, to) ==
  LET valid == ToSet(validity)
      invalid == ExplicitInvalid(facts, valid, from, to)
      duration(intervals) == UnionDuration(intervals, from, to)
  IN IF ~ValidityOrdered(validity, dayStart, to) THEN "refused"
     ELSE IF \/ duration(valid) * RatioUnder < (to - from) * RatioOver
             \/ duration(valid \cup invalid) # to - from
             \/ duration(Intersections(valid, invalid)) # 0
     THEN "rejected" ELSE "processed"
=============================================================================

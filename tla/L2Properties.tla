----------------------------- MODULE L2Properties -----------------------------
(***************************************************************************)
(* What the reconstruction of a day's order books promises.                *)
(***************************************************************************)
EXTENDS L2Day

\* The types of the reconstruction's state.
TypeOK ==
  /\ day \in 0 .. MaxDay /\ tick \in 0 .. Ticks - 1 /\ pos \in [Connections -> 0 .. Len(Log)]
  /\ authority \in Connections \cup {NoConn} /\ lastValid \in Connections \cup {NoConn}
  /\ active \subseteq opened /\ ended \subseteq opened /\ opened \subseteq Gaps
  /\ \A c \in Connections : books[c].state \in {"UNANCHORED", "VALID", "GAPPED"}
  /\ authority # NoConn => books[authority].state = "VALID"
  /\ ValidityOrdered(Proper(Closed(Now)), DayStart, DayEnd)

\* A book that is VALID is the exchange's after the update it stands at, over
\* lost and repeated rows, stale and early snapshots, gaps and checkpoints
\* (ConnectionBook, from_checkpoint).
BookIsExact ==
  \A c \in Connections :
    books[c].state = "VALID" => books[c].levels = Exchange(books[c].prev)

\* The validity of a day holds only moments at which the authority's book was
\* true and no gap open, but for the last moment of a day (run, handle_gap).
ValidTimeIsTrue == Points(ToSet(Closed(Now))) \ {DayEnd - 1} \subseteq good

\* The durations of quality.py are the numbers of moments: of the validity and
\* of the explicit gaps together, whatever overlaps (_union_duration).
CoverageIsExact ==
  LET valid == ToSet(Proper(Closed(Now)))
      all == valid \cup ExplicitInvalid(facts, valid, DayStart, DayEnd)
  IN UnionDuration(all, DayStart, DayEnd) = Cardinality(Points(all))

\* A valid book is gapped only by a span that does not follow the one before
\* it: a row that is repeated ends no validity (on_diff, seen_diffs).
NoFalseGap ==
  [][\A c \in Connections :
       (/\ books[c].state = "VALID" /\ books[c].anchor = 0 /\ books'[c].state = "GAPPED"
        /\ active' = active)
         => pos'[c] > pos[c] /\ books[c].prev # Log[pos[c]].final]_vars

\* The checkpoint keeps what the next day needs: whatever span a connection
\* receives next, the authority's book and an anchored one take it as they
\* would have done before midnight (_build_checkpoint, from_anchor_checkpoint).
CheckpointIsEnough ==
  [][(day' > day /\ opened = ended) =>
       \A c \in {d \in Connections : d = authority \/ Anchored(books[d])} :
         pos[c] < Len(Log) =>
           LET span == Log[pos[c] + 1]
               before == BookDiff(books[c], span)
               after == BookDiff(books'[c], span)
           IN /\ before.change = after.change /\ before.book.levels = after.book.levels
              /\ before.book.prev = after.book.prev]_vars

\* A day that is processed is what its marker says: at each moment of its window
\* the book was true or a gap stands for it, and enough of them are the former
\* (finalize_day).
ProcessedDayIsTrue ==
  [][(day' > day /\ verdict' = "processed") =>
       LET window == WindowStart .. DayEnd - 1
           valid == ToSet(Proper(Closed(DayEnd)))
           marked == Points(ExplicitInvalid(facts, valid, WindowStart, DayEnd)) IN
       /\ window \subseteq Passed \cup marked
       /\ Cardinality(window \cap Passed) * RatioUnder >= Cardinality(window) * RatioOver]_vars

=============================================================================

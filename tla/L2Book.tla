-------------------------------- MODULE L2Book --------------------------------
(***************************************************************************)
(* ConnectionBook (pipeline/l2.py): the order book of one connection as    *)
(* the daily reconstruction replays it from the recorded rows.             *)
(*                                                                         *)
(* An update k of the exchange sets the level k % 3, so that a book is the *)
(* last update seen at each level and can be compared with the exchange's  *)
(* own.  Both sides of a book are never empty here.  Rows come in order of *)
(* receive_seq, and the sort of _try_bridge changes nothing.               *)
(***************************************************************************)
EXTENDS SnapshotBridge, SequencesExt, FiniteSetsExt

Levels == 0 .. 2
Touched(from, to, p) == {k \in from .. to : k % 3 = p}

\* The exchange's book after the update id.
Exchange(id) == [p \in Levels |-> Max({0} \cup Touched(1, id, p))]

\* state; levels and prev (previous_update_id); pending; the anchor; seen_diffs.
NewBook == [state |-> "UNANCHORED", levels |-> Exchange(0), prev |-> 0, pending |-> <<>>,
            anchor |-> 0, seen |-> {}]

\* invalidate.
Invalidated(book) == [NewBook EXCEPT !.state = "GAPPED", !.seen = book.seen]

\* _apply.
Applied(book, span) ==
  [book EXCEPT !.levels = [p \in Levels |-> LET ks == Touched(span.first, span.final, p) IN
                                             IF ks = {} THEN book.levels[p] ELSE Max(ks)],
               !.prev = span.final]

\* The updates of a buffer one after the other.
Replayed(book, spans) == FoldLeft(Applied, book, spans)

\* What a row gives: the book, and the state of a StateChange.  Its time is that
\* of the row: a bridge is made by the later of the snapshot and the update it
\* overlaps, and a break before any bridge is of no authority.
Same(book) == [book |-> book, change |-> "none"]
Change(book) == [book |-> book, change |-> book.state]

\* Mutant: a buffer that breaks is applied all the same.
NoBreaks(spans) == {}

\* Where the updates after the bridge do not continue it.
BrokenAt(spans) == Breaks(spans)

\* _try_bridge.  A break loses the buffer but for the update it is found at.
TryBridge(book) ==
  LET first == FirstKept(book.anchor, book.pending)
      spans == SubSeq(book.pending, first, Len(book.pending))
      broken == BrokenAt(spans)
      break == Min(broken)
  IN IF book.anchor = 0 THEN Same(book)
     ELSE IF spans = <<>> THEN Same([book EXCEPT !.pending = spans])
     ELSE IF TooNew(spans[1], book.anchor)
     THEN Same([book EXCEPT !.levels = Exchange(0), !.prev = 0, !.anchor = 0, !.pending = spans])
     ELSE IF broken # {}
     THEN Change([Invalidated(book) EXCEPT !.pending = <<spans[break]>>])
     ELSE Change([Replayed(book, spans) EXCEPT !.state = "VALID", !.pending = <<>>, !.anchor = 0])

\* on_snapshot.
BookSnapshot(book, id) ==
  TryBridge([book EXCEPT !.levels = Exchange(id), !.prev = id, !.anchor = id])

\* Mutant: a row that is repeated is replayed.
NeverSeen(book, span) == FALSE

\* identity in seen_diffs.
Seen(book, span) == span.final \in book.seen

\* on_diff.
BookDiff(book, span) ==
  LET noted == [book EXCEPT !.seen = @ \cup {span.final}]
      waiting == [noted EXCEPT !.pending = Append(@, span)]
  IN IF Seen(book, span) THEN Same(book)
     ELSE IF book.state # "VALID"
     THEN IF book.anchor # 0 /\ ~(span.first <= book.anchor /\ book.anchor <= span.final)
          THEN Same(waiting) ELSE TryBridge(waiting)
     ELSE IF Continues(book.prev, span) THEN Same(Applied(noted, span))
     ELSE Change([Invalidated(noted) EXCEPT !.pending = <<span>>])

(***************************************************************************)
(* The checkpoint of a day: the book that is the authority, and the books  *)
(* that have an anchor.  Buffers without an anchor, seen_diffs and other   *)
(* valid books are not kept.                                               *)
(***************************************************************************)

Anchored(book) == book.anchor # 0

\* AnchoredBookCheckpoint refuses a book that is VALID.
Refused(book) == Anchored(book) /\ book.state = "VALID"

\* _anchor_checkpoint: of the buffer, which is in order, what is not older than
\* the anchor.
AnchorCheckpoint(book) ==
  [book EXCEPT !.pending = SubSeq(@, FirstKept(book.anchor, @), Len(@))]

\* Mutant: only the authority is kept.
NoAnchor(book) == NewBook

\* from_anchor_checkpoint and from_checkpoint.
FromAnchorCheckpoint(book) == [AnchorCheckpoint(book) EXCEPT !.seen = {}]
FromCheckpoint(book) == [book EXCEPT !.seen = {}]

\* _build_checkpoint, and the books of the next run.
Restored(book, isAuthority) ==
  IF isAuthority /\ book.state = "VALID" THEN FromCheckpoint(book)
  ELSE IF Anchored(book) THEN FromAnchorCheckpoint(book) ELSE NewBook
=============================================================================

---------------------------- MODULE SnapshotBridge ----------------------------
(***************************************************************************)
(* orderbook/bridge.py: how a depth snapshot is joined to the stream of    *)
(* depth updates.  The tracker of one stream is a record                   *)
(*                                                                         *)
(*   pending    updates buffered until a snapshot covers one of them       *)
(*   snapshot   last_update_id of a snapshot waiting for updates, 0 if none*)
(*   previous   final id of the last update of a joined stream, 0 if the   *)
(*              stream is not joined                                       *)
(*                                                                         *)
(* A span is an update [first, final, prev] with first <= final and prev   *)
(* the final id of the update before it.  Update ids start at 1.  One      *)
(* receive loop feeds the tracker, so that the buffer is always in order   *)
(* of receive_seq and the sort of _evaluate_snapshot changes nothing.      *)
(***************************************************************************)
EXTENDS Integers, Sequences

CONSTANT MaxBuffer  \* maximum_buffered_events

ASSUME BufferAssumption == MaxBuffer \in Nat \ {0}

NoTracker == [pending |-> <<>>, snapshot |-> 0, previous |-> 0]

Bridged(tracker) == tracker.previous # 0

Result(tracker, status) == [tracker |-> tracker, status |-> status]

\* sequence_continues
Continues(expected, span) == span.prev = expected

\* locate_snapshot_bridge: the first update that is not older than the
\* snapshot; the ones before it are discarded.
FirstKept(id, spans) ==
  CHOOSE i \in 1 .. Len(spans) + 1 :
    /\ i <= Len(spans) => spans[i].final >= id
    /\ \A j \in 1 .. i - 1 : spans[j].final < id

Kept(tracker) ==
  SubSeq(tracker.pending, FirstKept(tracker.snapshot, tracker.pending),
         Len(tracker.pending))

\* Positions at which a buffer is not contiguous.
Breaks(spans) == {i \in 2 .. Len(spans) : ~Continues(spans[i - 1].final, spans[i])}

\* The buffer from its first break on, to be joined to a later snapshot.
AfterBreak(spans) ==
  SubSeq(spans, CHOOSE i \in Breaks(spans) : \A j \in Breaks(spans) : i <= j, Len(spans))

\* Mutant: the first kept update need not cover the snapshot.
Disjoint(span, id) == FALSE

\* The first kept update begins behind the snapshot: something is missing.
TooNew(span, id) == span.first > id

\* _evaluate_snapshot
Evaluate(tracker) ==
  LET kept == Kept(tracker)
  IN  IF tracker.snapshot = 0 THEN Result(tracker, "WAITING_FOR_EVENTS")
      ELSE IF kept = <<>>
        THEN Result([tracker EXCEPT !.pending = <<>>], "WAITING_FOR_EVENTS")
      ELSE IF TooNew(kept[1], tracker.snapshot)
        THEN Result([tracker EXCEPT !.pending = kept, !.snapshot = 0], "STALE_SNAPSHOT")
      ELSE IF Breaks(kept) # {}
        THEN Result([tracker EXCEPT !.pending = AfterBreak(kept), !.snapshot = 0],
                    "SEQUENCE_GAP")
      ELSE Result([pending |-> <<>>, snapshot |-> 0, previous |-> kept[Len(kept)].final],
                  "BRIDGED")

\* on_snapshot: forget a joined stream and try the new snapshot.
OnSnapshot(tracker, id) == Evaluate([tracker EXCEPT !.snapshot = id, !.previous = 0])

\* The most recent updates of the buffer.
Recent(spans) ==
  IF Len(spans) <= MaxBuffer THEN spans
  ELSE SubSeq(spans, Len(spans) - MaxBuffer + 1, Len(spans))

\* on_diff
OnDiff(tracker, span) ==
  IF ~Bridged(tracker)
    THEN Evaluate([tracker EXCEPT !.pending = Recent(Append(@, span))])
  ELSE IF Continues(tracker.previous, span)
    THEN Result([tracker EXCEPT !.previous = span.final], "CONTIGUOUS")
  ELSE Result([NoTracker EXCEPT !.pending = <<span>>], "SEQUENCE_GAP")
=============================================================================

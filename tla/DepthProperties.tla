--------------------------- MODULE DepthProperties ---------------------------
(***************************************************************************)
(* What the recovery of a depth stream promises.                           *)
(***************************************************************************)
EXTENDS DepthRecovery

Spans == {s \in [first : 1 .. MaxId, final : 1 .. MaxId, prev : 0 .. MaxId] :
            s.first = s.prev + 1 /\ s.final \in s.first .. s.first + 1}

\* A buffer holds at most MaxBuffer updates, only while the stream is not
\* joined, and a snapshot waits only with an empty buffer (bridge.py:60-147).
TrackerShape ==
  /\ tracker.pending \in Seq(Spans) /\ Len(tracker.pending) <= MaxBuffer
  /\ tracker.snapshot \in 0 .. MaxId /\ tracker.previous \in 0 .. MaxId
  /\ tracker.previous # 0 \/ tracker.snapshot # 0 => tracker.pending = <<>>
  /\ tracker.previous # 0 => tracker.snapshot = 0

\* Types of the variables.
TypeOK ==
  /\ TrackerShape
  /\ emitted \in 0 .. MaxId /\ anchor \in 0 .. MaxId
  /\ wire \in Seq(Spans) /\ received \in Seq(Spans)
  /\ conn \in {"dead", "booting", "ready"}
  /\ pc \in [Tasks -> {"none", "buffer", "fetch", "decide", "done"}]
  /\ attempt \in [Tasks -> 0 .. Attempts]
  /\ awaiting \in BOOLEAN /\ fresh \in BOOLEAN
  /\ liveness \in {"idle", "queued", "waiting"}
  /\ receiver \in {"recv", "opening"}
  /\ openGaps \subseteq Gaps /\ rejoined \subseteq Gaps
  /\ losses \in 0 .. MaxLosses /\ faults \in 0 .. MaxFaults
  /\ refreshes \in 0 .. MaxRefreshes

\* A joined stream really is one: some received update covers the snapshot,
\* and every update after it continues its predecessor up to the one the
\* tracker remembers (bridge.py, "overlap and continuity").
BridgeIsSound ==
  Bridged(tracker) =>
    \E i \in 1 .. Len(received) :
      /\ received[i].first <= anchor /\ anchor <= received[i].final
      /\ \A j \in i + 1 .. Len(received) : received[j].prev = received[j - 1].final
      /\ tracker.previous = received[Len(received)].final

\* Discontinuities are suppressed on account of a pending snapshot only while
\* some recovery is still going to take one (websocket.py:534-539).
SuppressionHasOwner ==
  awaiting /\ conn # "dead" => \E t \in Tasks : pc[t] \in {"buffer", "fetch", "decide"}

\* A gap that stands for an unknown book is closed on a live connection only
\* after the stream was joined to a snapshot taken since (websocket.py:552-554,
\* routes.py:402-406).
GapClosedAfterBridge ==
  [][conn' # "dead" => (openGaps \ openGaps') \cap {"sequence", "reanchor"} \subseteq rejoined]_vars

\* Whatever the exchange sends or withholds, a recovery of a stream comes to
\* an end: joined, or with the connection rebuilt (websocket.py:414-512).
RecoveryEnds == \A t \in Tasks : Running(t) ~> ~Running(t)

=============================================================================

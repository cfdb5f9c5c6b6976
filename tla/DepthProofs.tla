------------------------------ MODULE DepthProofs ------------------------------
(***************************************************************************)
(* Proofs about the recovery of a depth stream, for any number of attempts,*)
(* losses and refreshes.                                                   *)
(***************************************************************************)
EXTENDS DepthProperties, SequenceTheorems, WellFoundedInduction, TLAPS

(***************************************************************************)
(* The buffer of SnapshotBridge.                                           *)
(***************************************************************************)

\* A non-empty set of naturals has a least element.
LEMMA LeastNumber ==
  ASSUME NEW T, T \subseteq Nat, T # {} PROVE \E x \in T : \A y \in T : x <= y
<1> DEFINE Less == OpToRel(<, Nat)
<1>1. IsWellFoundedOn(Less, Nat)
  BY NatLessThanWellFounded
<1>2. \A x, y \in Nat : x < y => <<x, y>> \in Less
  BY DEF OpToRel
<1> HIDE DEF Less
<1>3. PICK x \in T : \A y \in T : ~(<<y, x>> \in Less)
  BY <1>1, WFMin
<1>4. ASSUME NEW y \in T PROVE x <= y
  <2>1. x \in Nat /\ y \in Nat
    OBVIOUS
  <2>2. ~(y < x)
    BY <1>2, <1>3, <2>1
  <2> QED
    BY <2>1, <2>2
<1> QED
  BY <1>4

Span == [first : Nat \ {0}, final : Nat \ {0}, prev : Nat]

\* FirstKept finds the first update that is not older than the snapshot.
LEMMA FirstKeptIsFirst ==
  ASSUME NEW spans \in Seq(Span), NEW id \in Nat
  PROVE  /\ FirstKept(id, spans) \in 1 .. Len(spans) + 1
         /\ FirstKept(id, spans) <= Len(spans) => spans[FirstKept(id, spans)].final >= id
         /\ \A j \in 1 .. FirstKept(id, spans) - 1 : spans[j].final < id
<1> DEFINE T == {i \in 1 .. Len(spans) + 1 : i <= Len(spans) => spans[i].final >= id}
           P(i) == /\ i <= Len(spans) => spans[i].final >= id
                   /\ \A j \in 1 .. i - 1 : spans[j].final < id
<1>1. Len(spans) \in Nat /\ \A i \in 1 .. Len(spans) : spans[i] \in Span
  OBVIOUS
<1>2. Len(spans) + 1 \in T /\ T \subseteq Nat
  BY <1>1
<1> HIDE DEF T
<1>3. PICK x \in T : \A y \in T : x <= y
  BY <1>2, LeastNumber
<1>4. ASSUME NEW j \in 1 .. x - 1 PROVE spans[j].final < id
  <2>a. x \in 1 .. Len(spans) + 1 /\ j \notin T
    BY <1>2, <1>3 DEF T
  <2>1. j \notin T /\ j \in 1 .. Len(spans) + 1
    BY <1>1, <2>a
  <2>2. j <= Len(spans) /\ ~(spans[j].final >= id) /\ spans[j] \in Span
    BY <1>1, <2>1 DEF T
  <2> QED
    BY <2>2 DEF Span
<1>5. \E i \in 1 .. Len(spans) + 1 : P(i)
  BY <1>3, <1>4 DEF T
<1>6. FirstKept(id, spans) = CHOOSE i \in 1 .. Len(spans) + 1 : P(i)
  BY DEF FirstKept
<1> HIDE DEF P
<1>7. FirstKept(id, spans) \in 1 .. Len(spans) + 1 /\ P(FirstKept(id, spans))
  BY <1>5, <1>6
<1> QED
  BY <1>7 DEF P

(***************************************************************************)
(* Who owns the suppression.                                               *)
(***************************************************************************)

Places == {"none", "buffer", "fetch", "decide", "done"}

\* What the proof needs beside the property: tasks are at places of
\* _recover_snapshot_bridge, and the bootstrap ends with its connection.
OwnerInv ==
  /\ pc \in [Tasks -> Places]
  /\ conn = "dead" => pc["bootstrap"] = "none"
  /\ SuppressionHasOwner

\* A dead connection has no tasks and nothing to own.
LEMMA DeathKeeps == ASSUME Dies PROVE OwnerInv'
BY DEF Dies, OwnerInv, SuppressionHasOwner, NoTask, Places, Tasks

\* The invariant holds initially and is kept by every step.
LEMMA OwnerInductive == OwnerInv /\ [Next]_vars => OwnerInv'
<1> SUFFICES ASSUME OwnerInv, [Next]_vars PROVE OwnerInv'
  OBVIOUS
<1> USE DEF Places, Tasks, Goto, TaskEnds, Succeeds, Retries
<1>a. ASSUME UNCHANGED <<pc, conn, awaiting>> PROVE OwnerInv'
  BY <1>a DEF OwnerInv, SuppressionHasOwner
<1>1. CASE \E width \in 1 .. 2 : Emit(width)
  BY <1>1, <1>a DEF Emit, taskVars
<1>2. CASE Receive
  BY <1>2, <1>a DEF Receive, taskVars
<1>3. CASE GapOpened
  BY <1>3 DEF GapOpened, OwnerInv, SuppressionHasOwner
<1>4. CASE ConnectionLost
  BY <1>4, DeathKeeps DEF ConnectionLost
<1>5. CASE Connect
  BY <1>5 DEF Connect, OwnerInv, SuppressionHasOwner
<1>6. CASE FoundSilent
  BY <1>6, <1>a DEF FoundSilent, taskVars
<1>7. CASE CloseStale
  BY <1>7, <1>a DEF CloseStale, taskVars
<1>8. CASE UNCHANGED vars
  BY <1>8, <1>a DEF vars
<1>9. ASSUME NEW t \in Tasks, BufferReady(t) PROVE OwnerInv'
  BY <1>9 DEF BufferReady, OwnerInv, SuppressionHasOwner
<1>10. ASSUME NEW t \in Tasks, BufferTimeout(t) PROVE OwnerInv'
  BY <1>10, DeathKeeps DEF BufferTimeout
<1>11. ASSUME NEW t \in Tasks, Snapshot(t) PROVE OwnerInv'
  BY <1>11 DEF Snapshot, OwnerInv, SuppressionHasOwner
<1>12. ASSUME NEW t \in Tasks, Decide(t) PROVE OwnerInv'
  <2>1. CASE Bridged(tracker)
    BY <1>12, <2>1 DEF Decide, Decided, OwnerInv, SuppressionHasOwner
  <2>2. CASE ~Bridged(tracker)
    BY <1>12, <2>2 DEF Decide, Decided, OwnerInv, SuppressionHasOwner
  <2> QED BY <2>1, <2>2
<1>13. ASSUME NEW t \in Tasks, DecideTimeout(t) PROVE OwnerInv'
  BY <1>13 DEF DecideTimeout, OwnerInv, SuppressionHasOwner
<1>14. ASSUME NEW t \in Tasks, GiveUp(t) PROVE OwnerInv'
  BY <1>14, DeathKeeps DEF GiveUp
<1>15. CASE BecomeReady
  BY <1>15 DEF BecomeReady, OwnerInv, SuppressionHasOwner
<1>16. CASE CloseGap
  BY <1>16 DEF CloseGap, OwnerInv, SuppressionHasOwner
<1>17. CASE StartRefresh
  BY <1>17 DEF StartRefresh, OwnerInv, SuppressionHasOwner
<1>18. CASE RefreshEnds
  BY <1>18 DEF RefreshEnds, OwnerInv, SuppressionHasOwner
<1>19. CASE RefreshTimeout
  BY <1>19, <1>a DEF RefreshTimeout, taskVars
<1> QED
  BY <1>1, <1>2, <1>3, <1>4, <1>5, <1>6, <1>7, <1>8, <1>9, <1>10, <1>11, <1>12, <1>13, <1>14,
     <1>15, <1>16, <1>17, <1>18, <1>19 DEF Next, Recover

\* However many tasks recover a stream at once, its discontinuities are
\* suppressed only while one of them is still to take a snapshot.
THEOREM SuppressionIsOwned == Spec => []SuppressionHasOwner
<1>1. Init => OwnerInv
  BY DEF Init, OwnerInv, SuppressionHasOwner, NoTask, Places, Tasks
<1>2. OwnerInv => SuppressionHasOwner
  BY DEF OwnerInv
<1> QED
  BY <1>1, <1>2, OwnerInductive, PTL DEF Spec

(***************************************************************************)
(* The bridge: what Evaluate leaves of a buffer of received updates.       *)
(***************************************************************************)

Tracker == [pending : Seq(Span), snapshot : Nat, previous : Nat]

\* s is what was received last.
Latest(s, all) == /\ Len(s) <= Len(all)
                  /\ \A k \in 1 .. Len(s) : s[k] = all[Len(all) - Len(s) + k]

\* Some update of all covers id, and from it on they continue one another up to
\* the last one, whose final id is last.
Joined(all, id, last) ==
  \E i \in 1 .. Len(all) :
    /\ all[i].first <= id /\ id <= all[i].final
    /\ \A j \in i + 1 .. Len(all) : all[j].prev = all[j - 1].final
    /\ last = all[Len(all)].final

\* The end of what was received last is what was received last.
LEMMA LatestOfLatest ==
  ASSUME NEW all \in Seq(Span), NEW s \in Seq(Span), Latest(s, all),
         NEW i \in 1 .. Len(s) + 1
  PROVE  LET e == SubSeq(s, i, Len(s))
         IN  /\ e \in Seq(Span) /\ Latest(e, all)
             /\ Len(e) = Len(s) - i + 1
             /\ \A k \in 1 .. Len(e) : e[k] = s[i + k - 1]
<1> DEFINE e == SubSeq(s, i, Len(s))
<1>1. Len(s) \in Nat /\ Len(all) \in Nat /\ \A k \in i .. Len(s) : s[k] \in Span
  OBVIOUS
<1>2. /\ e \in Seq(Span)
      /\ Len(e) = IF i <= Len(s) THEN Len(s) - i + 1 ELSE 0
      /\ \A k \in 1 .. Len(s) - i + 1 : e[k] = s[i + k - 1]
  BY <1>1, SubSeqProperties
<1> HIDE DEF e
<1>3. Len(e) = Len(s) - i + 1
  BY <1>1, <1>2
<1>4. \A k \in 1 .. Len(e) : e[k] = s[i + k - 1]
  BY <1>2, <1>3
<1>5. Latest(e, all)
  BY <1>1, <1>3, <1>4 DEF Latest
<1> QED
  BY <1>2, <1>3, <1>4, <1>5 DEF e

\* What follows a break of a buffer is the end of the buffer.
LEMMA AfterBreakIsLatest ==
  ASSUME NEW all \in Seq(Span), NEW s \in Seq(Span), Latest(s, all), Breaks(s) # {}
  PROVE  AfterBreak(s) \in Seq(Span) /\ Latest(AfterBreak(s), all)
<1>1. Len(s) \in Nat /\ Breaks(s) \subseteq Nat
  BY DEF Breaks
<1>2. \E i \in Breaks(s) : \A j \in Breaks(s) : i <= j
  BY <1>1, LeastNumber
<1>3. PICK i \in Breaks(s) : AfterBreak(s) = SubSeq(s, i, Len(s))
  BY <1>2 DEF AfterBreak
<1>4. i \in 1 .. Len(s) + 1
  BY <1>1 DEF Breaks
<1> QED
  BY <1>3, <1>4, LatestOfLatest

\* What a result of the tracker promises about the updates received so far,
\* when the snapshot it was given is id.
Sound(result, all, id) ==
  /\ result.tracker \in Tracker
  /\ Latest(result.tracker.pending, all)
  /\ result.tracker.snapshot \in {0, id}
  /\ Bridged(result.tracker) =>
       result.tracker.pending = <<>> /\ Joined(all, id, result.tracker.previous)
  /\ result.status = "BRIDGED" => Bridged(result.tracker)

\* A tracker that buffers what was received last and is not joined is always
\* a sound result.
LEMMA WaitingIsSound ==
  ASSUME NEW all \in Seq(Span), NEW t \in Tracker, Latest(t.pending, all),
         t.previous = 0, NEW id, t.snapshot \in {0, id}, NEW status, status # "BRIDGED"
  PROVE  Sound(Result(t, status), all, id)
<1>1. Result(t, status).tracker = t /\ Result(t, status).status = status
  BY DEF Result
<1> QED
  BY <1>1 DEF Sound, Bridged

\* _evaluate_snapshot joins a stream only where the updates it has buffered
\* cover the snapshot and continue one another.
LEMMA EvaluateIsSound ==
  ASSUME NEW all \in Seq(Span), NEW tr \in Tracker, tr.previous = 0, Latest(tr.pending, all)
  PROVE  Sound(Evaluate(tr), all, tr.snapshot)
<1> DEFINE k == Kept(tr)
           i == FirstKept(tr.snapshot, tr.pending)
           r == Evaluate(tr)
<1>1. tr.pending \in Seq(Span) /\ tr.snapshot \in Nat
  BY DEF Tracker
<1>2. i \in 1 .. Len(tr.pending) + 1 /\ (i <= Len(tr.pending) => tr.pending[i].final >= tr.snapshot)
  BY <1>1, FirstKeptIsFirst
<1>3. /\ k \in Seq(Span) /\ Latest(k, all)
      /\ Len(k) = Len(tr.pending) - i + 1
      /\ \A n \in 1 .. Len(k) : k[n] = tr.pending[i + n - 1]
  <2> HIDE DEF i
  <2>1. k = SubSeq(tr.pending, i, Len(tr.pending))
    BY DEF Kept, i
  <2> QED
    BY <1>1, <1>2, <2>1, LatestOfLatest
<1>4. k # <<>> => k[1].final >= tr.snapshot /\ k[1] \in Span
  <2> HIDE DEF i, k
  <2> QED
    BY <1>1, <1>2, <1>3
<1>5. Latest(<<>>, all) /\ <<>> \in Seq(Span)
  BY DEF Latest
<1>6. CASE tr.snapshot = 0
  <2>1. r = Result(tr, "WAITING_FOR_EVENTS")
    BY <1>6 DEF Evaluate
  <2> QED
    BY <1>6, <2>1 DEF Sound, Result, Bridged
<1>7. CASE tr.snapshot # 0 /\ k = <<>>
  <2> DEFINE t == [tr EXCEPT !.pending = <<>>]
  <2>1. r = Result(t, "WAITING_FOR_EVENTS")
    BY <1>7 DEF Evaluate
  <2>2. t \in Tracker /\ t.pending = <<>> /\ t.previous = 0 /\ t.snapshot = tr.snapshot
    BY <1>5 DEF Tracker
  <2> HIDE DEF t, r
  <2>3. Sound(r, all, tr.snapshot)
    BY <1>5, <2>1, <2>2, WaitingIsSound
  <2> QED
    BY <2>3 DEF r
<1>8. CASE tr.snapshot # 0 /\ k # <<>> /\ TooNew(k[1], tr.snapshot)
  <2> DEFINE t == [tr EXCEPT !.pending = k, !.snapshot = 0]
  <2>1. r = Result(t, "STALE_SNAPSHOT")
    BY <1>8 DEF Evaluate
  <2> HIDE DEF k
  <2>2. t \in Tracker /\ t.pending = k /\ t.previous = 0 /\ t.snapshot = 0
    BY <1>3 DEF Tracker
  <2> HIDE DEF t, r
  <2>3. Sound(r, all, tr.snapshot)
    BY <1>3, <2>1, <2>2, WaitingIsSound
  <2> QED
    BY <2>3 DEF r
<1>9. CASE tr.snapshot # 0 /\ k # <<>> /\ ~TooNew(k[1], tr.snapshot) /\ Breaks(k) # {}
  <2> DEFINE rest == AfterBreak(k)
             t == [tr EXCEPT !.pending = rest, !.snapshot = 0]
  <2>1. r = Result(t, "SEQUENCE_GAP")
    BY <1>9 DEF Evaluate
  <2> HIDE DEF k
  <2>2. rest \in Seq(Span) /\ Latest(rest, all)
    BY <1>3, <1>9, AfterBreakIsLatest
  <2> HIDE DEF rest
  <2>3. t \in Tracker /\ t.pending = rest /\ t.previous = 0 /\ t.snapshot = 0
    BY <2>2 DEF Tracker
  <2> HIDE DEF t, r
  <2>4. Sound(r, all, tr.snapshot)
    BY <2>1, <2>2, <2>3, WaitingIsSound
  <2> QED
    BY <2>4 DEF r
<1>10. CASE tr.snapshot # 0 /\ k # <<>> /\ ~TooNew(k[1], tr.snapshot) /\ Breaks(k) = {}
  <2>1. r = Result([pending |-> <<>>, snapshot |-> 0, previous |-> k[Len(k)].final], "BRIDGED")
    BY <1>10 DEF Evaluate
  <2> HIDE DEF k
  <2>2. Len(k) \in Nat \ {0} /\ Len(all) \in Nat /\ Len(k) <= Len(all)
    BY <1>3, <1>10 DEF Latest
  <2>3. k[Len(k)] \in Span
    BY <1>3, <2>2
  <2>4. Joined(all, tr.snapshot, k[Len(k)].final)
    <3> DEFINE m == Len(all) - Len(k) + 1
    <3>1. m \in 1 .. Len(all)
      BY <2>2
    <3>2. ASSUME NEW j \in m .. Len(all)
          PROVE  all[j] = k[j - m + 1] /\ j - m + 1 \in 1 .. Len(k)
      <4>1. j - m + 1 \in 1 .. Len(k) /\ Len(all) - Len(k) + (j - m + 1) = j
        BY <2>2
      <4> QED
        BY <1>3, <4>1 DEF Latest
    <3>3. all[m].first <= tr.snapshot /\ tr.snapshot <= all[m].final
      <4>1. all[m] = k[1]
        BY <2>2, <3>1, <3>2
      <4> QED
        BY <1>1, <1>4, <1>10, <4>1 DEF TooNew, Span
    <3>4. ASSUME NEW j \in m + 1 .. Len(all) PROVE all[j].prev = all[j - 1].final
      <4>1. j - m + 1 \in 2 .. Len(k)
        BY <2>2
      <4>2. k[j - m + 1].prev = k[(j - m + 1) - 1].final
        BY <1>10, <4>1 DEF Breaks, Continues
      <4>3. all[j] = k[j - m + 1] /\ all[j - 1] = k[(j - m + 1) - 1]
        BY <2>2, <3>2
      <4> QED
        BY <4>2, <4>3
    <3>5. k[Len(k)].final = all[Len(all)].final
      BY <2>2, <3>2
    <3> HIDE DEF m
    <3> QED
      BY <3>1, <3>3, <3>4, <3>5 DEF Joined
  <2> QED
    BY <1>5, <2>1, <2>3, <2>4 DEF Sound, Result, Bridged, Tracker, Span
<1> QED
  BY <1>6, <1>7, <1>8, <1>9, <1>10

\* on_snapshot forgets the joined stream, never the buffer.
LEMMA OnSnapshotIsSound ==
  ASSUME NEW all \in Seq(Span), NEW tr \in Tracker, Latest(tr.pending, all), NEW id \in Nat
  PROVE  Sound(OnSnapshot(tr, id), all, id)
<1> DEFINE t == [tr EXCEPT !.snapshot = id, !.previous = 0]
<1>1. t \in Tracker /\ t.pending = tr.pending /\ t.snapshot = id /\ t.previous = 0
  BY DEF Tracker
<1>2. OnSnapshot(tr, id) = Evaluate(t)
  BY DEF OnSnapshot
<1> HIDE DEF t
<1> QED
  BY <1>1, <1>2, EvaluateIsSound

\* Dropping the oldest updates of the buffer keeps what was received last.
LEMMA RecentIsLatest ==
  ASSUME NEW all \in Seq(Span), NEW s \in Seq(Span), Latest(s, all), NEW span \in Span
  PROVE  /\ Recent(Append(s, span)) \in Seq(Span)
         /\ Latest(Recent(Append(s, span)), Append(all, span))
<1> DEFINE e == Append(s, span)
           a == Append(all, span)
<1>1. /\ e \in Seq(Span) /\ a \in Seq(Span)
      /\ Len(e) = Len(s) + 1 /\ Len(a) = Len(all) + 1 /\ Len(s) \in Nat /\ Len(all) \in Nat
      /\ \A k \in 1 .. Len(s) : e[k] = s[k]
      /\ \A k \in 1 .. Len(all) : a[k] = all[k]
      /\ e[Len(s) + 1] = span /\ a[Len(all) + 1] = span
  BY AppendProperties
<1> HIDE DEF e, a
<1>2. Latest(e, a)
  <2>1. ASSUME NEW k \in 1 .. Len(e) PROVE e[k] = a[Len(a) - Len(e) + k]
    <3>1. CASE k = Len(s) + 1
      <4>1. Len(a) - Len(e) + k = Len(all) + 1
        BY <1>1, <3>1
      <4> QED
        BY <1>1, <3>1, <4>1
    <3>2. CASE k \in 1 .. Len(s)
      <4>1. /\ Len(a) - Len(e) + k = Len(all) - Len(s) + k
            /\ Len(all) - Len(s) + k \in 1 .. Len(all)
        BY <1>1, <3>2 DEF Latest
      <4> QED
        BY <1>1, <3>2, <4>1 DEF Latest
    <3> QED
      BY <1>1, <3>1, <3>2
  <2>2. Len(e) <= Len(a)
    BY <1>1 DEF Latest
  <2> QED
    BY <2>1, <2>2 DEF Latest
<1>3. CASE Len(e) <= MaxBuffer
  BY <1>1, <1>2, <1>3 DEF Recent, e, a
<1>4. CASE ~(Len(e) <= MaxBuffer)
  <2>1. Len(e) - MaxBuffer + 1 \in 1 .. Len(e) + 1
    BY <1>1, <1>4, BufferAssumption
  <2>2. Recent(e) = SubSeq(e, Len(e) - MaxBuffer + 1, Len(e))
    BY <1>4 DEF Recent
  <2>3. Recent(e) \in Seq(Span) /\ Latest(Recent(e), a)
    BY <1>1, <1>2, <2>1, <2>2, LatestOfLatest
  <2> QED
    BY <2>3 DEF e, a
<1> QED
  BY <1>3, <1>4

\* What a tracker remembers of the updates received so far, when the last
\* snapshot it was given is id.
Faithful(tr, all, id) ==
  /\ tr \in Tracker
  /\ Latest(tr.pending, all)
  /\ tr.snapshot \in {0, id}
  /\ Bridged(tr) => tr.pending = <<>> /\ Joined(all, id, tr.previous)

\* A stream is joined to no snapshot of id 0.
LEMMA NothingJoinsZero ==
  ASSUME NEW all \in Seq(Span), NEW last PROVE ~Joined(all, 0, last)
<1>1. ASSUME NEW i \in 1 .. Len(all) PROVE all[i].first \in Nat \ {0}
  <2>1. all[i] \in Span
    OBVIOUS
  <2> QED
    BY <2>1 DEF Span
<1> QED
  BY <1>1 DEF Joined

\* on_diff keeps a tracker faithful.
LEMMA OnDiffIsFaithful ==
  ASSUME NEW all \in Seq(Span), NEW tr, NEW id \in Nat, Faithful(tr, all, id), NEW span \in Span
  PROVE  Faithful(OnDiff(tr, span).tracker, Append(all, span), id)
<1> DEFINE a == Append(all, span)
           r == OnDiff(tr, span)
<1>1. tr \in Tracker /\ tr.pending \in Seq(Span) /\ Latest(tr.pending, all)
  BY DEF Faithful, Tracker
<1>2. /\ a \in Seq(Span) /\ Len(a) = Len(all) + 1 /\ Len(all) \in Nat
      /\ \A k \in 1 .. Len(all) : a[k] = all[k]
      /\ a[Len(all) + 1] = span
  BY AppendProperties
<1> HIDE DEF a
<1>3. CASE ~Bridged(tr)
  <2> DEFINE p == Recent(Append(tr.pending, span))
             t == [tr EXCEPT !.pending = p]
  <2>1. p \in Seq(Span) /\ Latest(p, a)
    BY <1>1, RecentIsLatest DEF a
  <2>2. r = Evaluate(t)
    BY <1>3 DEF OnDiff
  <2> HIDE DEF p
  <2>3. t \in Tracker /\ t.pending = p /\ t.snapshot = tr.snapshot /\ t.previous = 0
    BY <1>1, <1>3, <2>1 DEF Tracker, Bridged
  <2> HIDE DEF t, r
  <2>4. Sound(r, a, tr.snapshot)
    BY <1>2, <2>1, <2>2, <2>3, EvaluateIsSound
  <2>5. Bridged(r.tracker) => tr.snapshot = id
    BY <1>2, <2>4, NothingJoinsZero DEF Sound, Faithful
  <2>6. Faithful(r.tracker, a, id)
    BY <2>4, <2>5 DEF Sound, Faithful
  <2> QED
    BY <2>6 DEF a, r
<1>4. CASE Bridged(tr) /\ Continues(tr.previous, span)
  <2> DEFINE t == [tr EXCEPT !.previous = span.final]
  <2>1. r.tracker = t
    BY <1>4 DEF OnDiff, Result
  <2>2. t \in Tracker /\ t.pending = <<>> /\ t.snapshot = tr.snapshot /\ t.previous = span.final
    BY <1>1, <1>4 DEF Tracker, Span, Faithful
  <2> HIDE DEF t, r
  <2>3. PICK i \in 1 .. Len(all) :
          /\ all[i].first <= id /\ id <= all[i].final
          /\ \A j \in i + 1 .. Len(all) : all[j].prev = all[j - 1].final
          /\ tr.previous = all[Len(all)].final
    BY <1>4 DEF Faithful, Joined
  <2>4. ASSUME NEW j \in i + 1 .. Len(a) PROVE a[j].prev = a[j - 1].final
    <3>1. CASE j = Len(all) + 1
      <4>1. j - 1 = Len(all) /\ Len(all) \in 1 .. Len(all)
        BY <1>2, <2>3, <3>1
      <4>2. a[j] = span /\ a[j - 1] = all[Len(all)]
        BY <1>2, <3>1, <4>1
      <4> QED
        BY <1>4, <2>3, <4>2 DEF Continues
    <3>2. CASE j \in i + 1 .. Len(all)
      <4>1. j \in 1 .. Len(all) /\ j - 1 \in 1 .. Len(all)
        BY <1>2, <2>3, <3>2
      <4> QED
        BY <1>2, <2>3, <3>2, <4>1
    <3> QED
      BY <1>2, <3>1, <3>2
  <2>5. Joined(a, id, span.final)
    BY <1>2, <2>3, <2>4 DEF Joined
  <2>6. Latest(<<>>, a)
    BY <1>2 DEF Latest
  <2>7. Faithful(r.tracker, a, id)
    BY <2>1, <2>2, <2>5, <2>6 DEF Faithful
  <2> QED
    BY <2>7 DEF a, r
<1>5. CASE Bridged(tr) /\ ~Continues(tr.previous, span)
  <2> DEFINE t == [NoTracker EXCEPT !.pending = <<span>>]
  <2>1. r.tracker = t
    BY <1>5 DEF OnDiff, Result
  <2>2. t \in Tracker /\ t.pending = <<span>> /\ t.snapshot = 0 /\ t.previous = 0
    <3> DEFINE one == <<span>>
    <3>1. one \in Seq(Span)
      OBVIOUS
    <3>2. t = [NoTracker EXCEPT !.pending = one]
      OBVIOUS
    <3> HIDE DEF one
    <3>3. t \in Tracker /\ t.pending = one /\ t.snapshot = 0 /\ t.previous = 0
      BY <3>1, <3>2 DEF Tracker, NoTracker
    <3> QED
      BY <3>3 DEF one
  <2> HIDE DEF t, r
  <2>3. Len(<<span>>) = 1 /\ <<span>>[1] = span
    OBVIOUS
  <2>4. Latest(<<span>>, a)
    <3>1. ASSUME NEW k \in 1 .. 1 PROVE <<span>>[k] = a[Len(a) - 1 + k]
      <4>1. k = 1 /\ Len(a) - 1 + k = Len(all) + 1
        BY <1>2
      <4> QED
        BY <1>2, <2>3, <4>1
    <3>2. Len(<<span>>) <= Len(a)
      BY <1>2, <2>3
    <3> QED
      BY <2>3, <3>1, <3>2 DEF Latest
  <2>5. Faithful(r.tracker, a, id)
    BY <2>1, <2>2, <2>4 DEF Faithful, Bridged
  <2> QED
    BY <2>5 DEF a, r
<1> QED
  BY <1>3, <1>4, <1>5

(***************************************************************************)
(* The stream: its tracker is faithful to what its connection received,    *)
(* whichever tasks feed it snapshots.                                      *)
(***************************************************************************)

StreamInv ==
  /\ emitted \in Nat /\ anchor \in Nat
  /\ wire \in Seq(Span) /\ received \in Seq(Span)
  /\ Faithful(tracker, received, anchor)

\* A task that is done has seen its stream joined since its gap was opened; a
\* gap is opened only while no reanchor runs, and a reanchor waits for the
\* outcome of a snapshot it has taken since.
ClosingInv ==
  /\ OwnerInv
  /\ Bridged(tracker) => "reanchor" \in rejoined
  /\ receiver = "opening" => pc["reanchor"] = "none"
  /\ pc["bootstrap"] = "done" => "reanchor" \in rejoined
  /\ pc["reanchor"] = "done" => "sequence" \in rejoined
  /\ pc["reanchor"] = "decide" /\ Bridged(tracker) => "sequence" \in rejoined

\* A new tracker knows nothing.
LEMMA NewIsFaithful ==
  ASSUME NEW all \in Seq(Span), NEW id \in Nat PROVE Faithful(NoTracker, all, id)
<1>1. NoTracker \in Tracker /\ NoTracker.pending = <<>> /\ NoTracker.snapshot = 0
      /\ NoTracker.previous = 0
  BY DEF NoTracker, Tracker
<1>2. Latest(<<>>, all)
  BY DEF Latest
<1> QED
  BY <1>1, <1>2 DEF Faithful, Bridged

\* What there is before anything was received.
LEMMA NothingReceived == Faithful(NoTracker, <<>>, 0) /\ <<>> \in Seq(Span)
<1>1. <<>> \in Seq(Span) /\ 0 \in Nat
  OBVIOUS
<1> QED
  BY <1>1, NewIsFaithful

\* A connection that ends leaves a new tracker and nothing received.
LEMMA DeathKeepsStream == ASSUME StreamInv, Dies PROVE StreamInv'
BY NothingReceived DEF Dies, StreamInv, exchangeVars

\* Every step keeps the tracker faithful.
LEMMA StreamInductive == StreamInv /\ [Next]_vars => StreamInv'
<1> SUFFICES ASSUME StreamInv, [Next]_vars PROVE StreamInv'
  OBVIOUS
<1>a. ASSUME UNCHANGED <<emitted, streamVars>> PROVE StreamInv'
  BY <1>a DEF StreamInv, streamVars
<1>b. tracker \in Tracker /\ tracker.pending \in Seq(Span) /\ Latest(tracker.pending, received)
  BY DEF StreamInv, Faithful, Tracker
<1> USE DEF exchangeVars
<1>1. ASSUME NEW width \in 1 .. 2, Emit(width) PROVE StreamInv'
  <2> DEFINE u == [first |-> emitted + 1, final |-> emitted + width, prev |-> emitted]
  <2>1. u \in Span /\ emitted + width \in Nat
    BY DEF StreamInv, Span
  <2> HIDE DEF u
  <2>2. Append(wire, u) \in Seq(Span)
    BY <2>1 DEF StreamInv
  <2>3. wire' = Append(wire, u) \/ wire' = wire
    BY <1>1 DEF Emit, u
  <2> QED
    BY <1>1, <2>1, <2>2, <2>3 DEF Emit, StreamInv
<1>2. CASE Receive
  <2>1. Head(wire) \in Span /\ Tail(wire) \in Seq(Span)
    BY <1>2 DEF Receive, StreamInv
  <2>2. Faithful(OnDiff(tracker, Head(wire)).tracker, Append(received, Head(wire)), anchor)
    BY <2>1, OnDiffIsFaithful DEF StreamInv
  <2>3. Append(received, Head(wire)) \in Seq(Span)
    BY <2>1 DEF StreamInv
  <2> QED
    BY <1>2, <2>1, <2>2, <2>3 DEF Receive, StreamInv
<1>3. CASE ConnectionLost
  BY <1>3, DeathKeepsStream DEF ConnectionLost
<1>4. ASSUME NEW t \in Tasks, BufferTimeout(t) PROVE StreamInv'
  BY <1>4, DeathKeepsStream DEF BufferTimeout
<1>5. ASSUME NEW t \in Tasks, GiveUp(t) PROVE StreamInv'
  BY <1>5, DeathKeepsStream DEF GiveUp
<1>6. ASSUME NEW t \in Tasks, Snapshot(t) PROVE StreamInv'
  <2>1. PICK id \in 1 .. emitted : tracker' = OnSnapshot(tracker, id).tracker /\ anchor' = id
    BY <1>6 DEF Snapshot
  <2>2. id \in Nat
    BY DEF StreamInv
  <2>3. Sound(OnSnapshot(tracker, id), received, id)
    BY <1>b, <2>2, OnSnapshotIsSound DEF StreamInv
  <2>4. Faithful(OnSnapshot(tracker, id).tracker, received, id)
    BY <2>3 DEF Sound, Faithful
  <2> QED
    BY <1>6, <2>1, <2>2, <2>4 DEF Snapshot, StreamInv
<1>7. ASSUME NEW t \in Tasks, DecideTimeout(t) PROVE StreamInv'
  BY <1>7, NewIsFaithful DEF DecideTimeout, StreamInv
<1>8. CASE GapOpened \/ Connect \/ FoundSilent \/ CloseStale \/ UNCHANGED vars
  BY <1>8, <1>a DEF GapOpened, Connect, FoundSilent, CloseStale, vars, streamVars
<1>9. ASSUME NEW t \in Tasks, BufferReady(t) \/ Decide(t) PROVE StreamInv'
  BY <1>9, <1>a DEF BufferReady, Decide
<1>10. CASE BecomeReady \/ CloseGap \/ StartRefresh \/ RefreshEnds \/ RefreshTimeout
  BY <1>10, <1>a DEF BecomeReady, CloseGap, StartRefresh, RefreshEnds, RefreshTimeout
<1> QED
  BY <1>1, <1>2, <1>3, <1>4, <1>5, <1>6, <1>7, <1>8, <1>9, <1>10 DEF Next, Recover

\* A stream that the tracker holds joined really is one, whatever was lost,
\* however short the buffer is and however many recoveries overlap.
THEOREM BridgesAreSound == Spec => []BridgeIsSound
<1>1. Init => StreamInv
  BY NothingReceived DEF Init, StreamInv
<1>2. StreamInv => BridgeIsSound
  BY DEF StreamInv, Faithful, Joined, BridgeIsSound
<1> QED
  BY <1>1, <1>2, StreamInductive, PTL DEF Spec

\* A dead connection has no task that could close a gap.
LEMMA DeathKeepsClosing == ASSUME Dies PROVE ClosingInv'
<1>1. OwnerInv'
  BY DeathKeeps
<1> QED
  BY <1>1 DEF Dies, ClosingInv, NoTask, NoTracker, Bridged, Tasks

\* The closing invariant is kept by every step.
LEMMA ClosingInductive == StreamInv /\ ClosingInv /\ [Next]_vars => ClosingInv'
<1> SUFFICES ASSUME StreamInv, ClosingInv, [Next]_vars PROVE ClosingInv'
  OBVIOUS
<1>o. OwnerInv' /\ pc \in [Tasks -> Places]
  BY OwnerInductive DEF ClosingInv, OwnerInv
<1> USE DEF Tasks, Goto, TaskEnds, Succeeds, Retries, Gaps, gapVars, streamVars, Running
<1>a. ASSUME UNCHANGED <<tracker, pc, receiver, rejoined>> PROVE ClosingInv'
  BY <1>a, <1>o DEF ClosingInv
<1>1. ASSUME NEW width \in 1 .. 2, Emit(width) PROVE ClosingInv'
  BY <1>1, <1>a DEF Emit, taskVars
<1>2. CASE Receive
  BY <1>2, <1>o DEF Receive, ClosingInv, Rejoined, taskVars
<1>3. CASE GapOpened
  BY <1>3, <1>o DEF GapOpened, ClosingInv
<1>4. CASE ConnectionLost
  BY <1>4, DeathKeepsClosing DEF ConnectionLost
<1>5. CASE Connect
  BY <1>5, <1>o DEF Connect, ClosingInv
<1>6. CASE FoundSilent \/ CloseStale \/ RefreshTimeout \/ UNCHANGED vars
  BY <1>6, <1>a DEF FoundSilent, CloseStale, RefreshTimeout, taskVars, vars
<1>7. ASSUME NEW t \in Tasks, BufferReady(t) PROVE ClosingInv'
  BY <1>7, <1>o DEF BufferReady, ClosingInv
<1>8. ASSUME NEW t \in Tasks, BufferTimeout(t) \/ GiveUp(t) PROVE ClosingInv'
  BY <1>8, DeathKeepsClosing DEF BufferTimeout, GiveUp
<1>9. ASSUME NEW t \in Tasks, Snapshot(t) PROVE ClosingInv'
  <2> DEFINE r(id) == OnSnapshot(tracker, id)
  <2>1. PICK id \in 1 .. emitted :
          /\ tracker' = r(id).tracker /\ rejoined' = Rejoined(r(id).tracker)
          /\ \/ r(id).status = "BRIDGED" /\ Succeeds(t)
             \/ Retries(t)
             \/ Goto(t, "decide") /\ UNCHANGED <<attempt, awaiting>>
    BY <1>9 DEF Snapshot
  <2>2. r(id).status = "BRIDGED" => Bridged(r(id).tracker)
    BY OnSnapshotIsSound DEF StreamInv, Faithful, Sound
  <2> HIDE DEF r
  <2>3. pc[t] = "fetch" /\ UNCHANGED receiver
    BY <1>9 DEF Snapshot
  <2>4. CASE Bridged(r(id).tracker)
    <3>1. rejoined' = Gaps
      BY <2>1, <2>4 DEF Rejoined
    <3> QED
      BY <1>o, <2>1, <2>3, <3>1 DEF ClosingInv
  <2>5. CASE ~Bridged(r(id).tracker)
    <3>1. rejoined' = rejoined /\ r(id).status # "BRIDGED"
      BY <2>1, <2>2, <2>5 DEF Rejoined
    <3>2. tracker'.previous = 0
      BY <2>1, <2>5 DEF Bridged
    <3> QED
      BY <1>o, <2>1, <2>3, <3>1, <3>2 DEF ClosingInv, Bridged
  <2> QED
    BY <2>4, <2>5
<1>10. ASSUME NEW t \in Tasks, Decide(t) PROVE ClosingInv'
  <2>1. CASE Bridged(tracker)
    BY <1>10, <1>o, <2>1 DEF Decide, Decided, ClosingInv
  <2>2. CASE ~Bridged(tracker)
    BY <1>10, <1>o, <2>2 DEF Decide, Decided, ClosingInv
  <2> QED
    BY <2>1, <2>2
<1>11. ASSUME NEW t \in Tasks, DecideTimeout(t) PROVE ClosingInv'
  <2>1. ~Bridged(tracker')
    BY <1>11 DEF DecideTimeout, NoTracker, Bridged
  <2> QED
    BY <1>11, <1>o, <2>1 DEF DecideTimeout, ClosingInv
<1>12. CASE BecomeReady
  BY <1>12, <1>o DEF BecomeReady, ClosingInv
<1>13. CASE CloseGap
  BY <1>13, <1>o DEF CloseGap, ClosingInv
<1>14. CASE StartRefresh
  BY <1>14, <1>o DEF StartRefresh, ClosingInv
<1>15. CASE RefreshEnds
  BY <1>15, <1>o DEF RefreshEnds, ClosingInv
<1> QED
  BY <1>1, <1>2, <1>3, <1>4, <1>5, <1>6, <1>7, <1>8, <1>9, <1>10, <1>11, <1>12, <1>13, <1>14,
     <1>15 DEF Next, Recover

\* A sequence or reanchor gap is closed on a live connection only after the
\* stream was joined to a snapshot taken since the gap was opened.
THEOREM GapsCloseAfterBridge == Spec => GapClosedAfterBridge
<1> DEFINE Closes == conn' # "dead" =>
                       (openGaps \ openGaps') \cap {"sequence", "reanchor"} \subseteq rejoined
<1>1. Init => StreamInv /\ ClosingInv
  BY NothingReceived DEF Init, StreamInv, ClosingInv, OwnerInv, SuppressionHasOwner, NoTask,
                         NoTracker, Bridged, Places, Tasks
<1>2. ClosingInv /\ [Next]_vars => [Closes]_vars
  <2> SUFFICES ASSUME ClosingInv, Next PROVE Closes
    OBVIOUS
  <2> USE DEF gapVars
  <2>1. CASE Dies
    BY <2>1 DEF Dies
  <2>2. CASE BecomeReady \/ CloseGap
    BY <2>2 DEF BecomeReady, CloseGap, ClosingInv
  <2>3. CASE GapOpened \/ FoundSilent \/ CloseStale
    BY <2>3 DEF GapOpened, FoundSilent, CloseStale
  <2>4. CASE UNCHANGED openGaps
    BY <2>4
  <2>5. \/ Dies \/ BecomeReady \/ CloseGap \/ GapOpened \/ FoundSilent \/ CloseStale
        \/ UNCHANGED openGaps
    BY DEF Next, Recover, Emit, Receive, ConnectionLost, Connect, BufferReady, BufferTimeout,
           Snapshot, Decide, DecideTimeout, GiveUp, StartRefresh, RefreshEnds, RefreshTimeout
  <2> QED
    BY <2>1, <2>2, <2>3, <2>4, <2>5
<1> QED
  BY <1>1, <1>2, StreamInductive, ClosingInductive, PTL DEF Spec, GapClosedAfterBridge
=============================================================================

-------------------------------- MODULE L2Day --------------------------------
(***************************************************************************)
(* L2DayReconstructor.run (pipeline/l2.py) for one symbol, day after day:  *)
(* the recorded rows of its connections and the gap facts in order of      *)
(* time, the book that is the authority, the intervals in which it is      *)
(* valid, and the checkpoint the next day starts from; finalize_day then   *)
(* judges the day.  The rows are those of a collector that asks for        *)
(* snapshots as websocket.py does: what it knows of a connection is the    *)
(* tracker of SnapshotBridge.                                              *)
(*                                                                         *)
(* The exchange sends its updates as the spans of Log.  A day has Ticks    *)
(* moments; at each of them gap facts come before rows.                    *)
(***************************************************************************)
EXTENDS L2Book, Quality

CONSTANTS
  Connections, Gaps,
  Log,                     \* the spans [first, final, prev] of the exchange
  Ticks, MaxDay,           \* moments of a day, and the last day
  FormalStart,             \* of the collection, on the first day
  MaxFaults,               \* spans lost, snapshots that time out, gaps opened
  MaxSnapshots

ASSUME L2Assumption ==
  /\ {Ticks, MaxDay, MaxFaults, MaxSnapshots, FormalStart} \subseteq Nat
  /\ FormalStart < Ticks

\* Each span names the one before it and begins where that one ended.
ASSUME LogAssumption ==
  /\ Log \in Seq([first : Nat \ {0}, final : Nat \ {0}, prev : Nat]) /\ Log # <<>>
  /\ \A i \in 1 .. Len(Log) : /\ Log[i].first <= Log[i].final
                              /\ Log[i].first = Log[i].prev + 1
                              /\ Log[i].prev = IF i = 1 THEN 0 ELSE Log[i - 1].final

VARIABLES
  day, tick, rows,   \* the moment, and whether it has had rows
  pos,             \* spans each connection has had, received or lost
  tracker,         \* the collector's SnapshotBridgeTracker of each connection
  books, authority, validFrom, lastValid, active, intervals,   \* of run
  opened, ended, facts,   \* gaps opened and ended, the facts of the day
  verdict,         \* of the day before
  failed,          \* the checkpoint of a day was refused: run raised
  good,            \* moments of the day that were over with a true, valid book
  faults, snapshots

run == <<authority, validFrom, lastValid, active, intervals>>
time == <<day, tick>>
gaps == <<opened, ended, facts>>
bounds == <<faults, snapshots>>
judged == <<verdict, failed>>
vars == <<time, rows, pos, tracker, books, run, gaps, judged, good, bounds>>

NoConn == "none"

ASSUME ConnectionAssumption == NoConn \notin Connections

DayStart == day * Ticks
DayEnd == DayStart + Ticks
Now == DayStart + tick
LastMoment == tick = Ticks - 1

Init ==
  /\ day = 0 /\ tick = 0 /\ rows = FALSE
  /\ pos = [c \in Connections |-> 0] /\ tracker = [c \in Connections |-> NoTracker]
  /\ books = [c \in Connections |-> NewBook]
  /\ authority = NoConn /\ validFrom = 0 /\ lastValid = NoConn /\ active = {} /\ intervals = <<>>
  /\ opened = {} /\ ended = {} /\ facts = {}
  /\ verdict = "none" /\ failed = FALSE /\ good = {}
  /\ faults = 0 /\ snapshots = 0

(***************************************************************************)
(* Rows.                                                                   *)
(***************************************************************************)

\* The intervals once the validity of now ends.
Closed(at) == IF authority = NoConn THEN intervals ELSE Append(intervals, <<validFrom, at>>)

NoAuthority == authority' = NoConn /\ validFrom' = 0

\* Mutant: a bridge makes its connection the authority while a gap is open.
NoGapActive == TRUE

\* not active_gaps
Unmarked == active = {}

\* The loop of run after on_diff or on_snapshot of a connection's book.
Row(c, result) ==
  /\ books' = [books EXCEPT ![c] = result.book]
  /\ rows' = TRUE
  /\ CASE result.change = "VALID" /\ Unmarked ->
            /\ lastValid' = c /\ intervals' = Closed(Now)
            /\ authority' = c /\ validFrom' = Now
       [] result.change = "VALID" /\ ~Unmarked ->
            lastValid' = c /\ UNCHANGED <<authority, validFrom, intervals>>
       [] result.change = "GAPPED" /\ authority = c ->
            /\ intervals' = Closed(Now) /\ NoAuthority
            /\ lastValid' = IF lastValid = c THEN NoConn ELSE lastValid
       [] OTHER -> UNCHANGED <<authority, validFrom, lastValid, intervals>>
  /\ UNCHANGED <<time, active, gaps, judged, good>>

\* The rollover's facts come before the rows of the last moment.
RowsMayCome == ~failed /\ (LastMoment => active = {})

Diff(c) ==
  /\ RowsMayCome /\ pos[c] < Len(Log)
  /\ pos' = [pos EXCEPT ![c] = @ + 1]
  /\ LET span == Log[pos'[c]] IN
     /\ tracker' = [tracker EXCEPT ![c] = OnDiff(@, span).tracker]
     /\ Row(c, BookDiff(books[c], span))
  /\ UNCHANGED bounds

Lose(c) ==
  /\ ~failed /\ pos[c] < Len(Log) /\ faults < MaxFaults
  /\ pos' = [pos EXCEPT ![c] = @ + 1] /\ faults' = faults + 1
  /\ UNCHANGED <<time, rows, tracker, books, run, gaps, judged, good, snapshots>>

\* The last row of a connection is there twice.
Repeat(c) ==
  /\ RowsMayCome /\ pos[c] > 0 /\ Log[pos[c]].final \in books[c].seen
  /\ Row(c, BookDiff(books[c], Log[pos[c]]))
  /\ UNCHANGED <<pos, tracker, bounds>>

\* _recover_snapshot_bridge: with updates buffered, until the stream is joined.
\* The exchange may be a span ahead of what the connection has had.
Snapshot(c) ==
  /\ RowsMayCome /\ snapshots < MaxSnapshots
  /\ tracker[c].pending # <<>> /\ tracker[c].snapshot = 0
  /\ snapshots' = snapshots + 1
  /\ \E id \in 1 .. Log[Min({pos[c] + 1, Len(Log)})].final :
       /\ tracker' = [tracker EXCEPT ![c] = OnSnapshot(@, id).tracker]
       /\ Row(c, BookSnapshot(books[c], id))
  /\ UNCHANGED <<pos, faults>>

\* _wait_for_snapshot_decision has timed out: the collector begins anew.
Timeout(c) ==
  /\ ~failed /\ tracker[c].snapshot # 0 /\ faults < MaxFaults
  /\ faults' = faults + 1
  /\ tracker' = [tracker EXCEPT ![c] = NoTracker]
  /\ UNCHANGED <<time, rows, pos, books, run, gaps, judged, good, snapshots>>

(***************************************************************************)
(* Gap facts: handle_gap.                                                  *)
(***************************************************************************)

Fact(g, state, at, cont) == [gap |-> g, state |-> state, at |-> at, cont |-> cont]

\* One fact at a moment, before its rows.
FactMayCome == ~failed /\ ~rows /\ \A f \in facts : f.at # Now

GapEndsValidity ==
  intervals' = Closed(Now) /\ NoAuthority /\ lastValid' = NoConn

Open(g) ==
  /\ FactMayCome /\ ~LastMoment /\ g \notin opened /\ faults < MaxFaults
  /\ faults' = faults + 1
  /\ opened' = opened \cup {g} /\ facts' = facts \cup {Fact(g, "OPEN", Now, FALSE)}
  /\ active' = active \cup {g}
  /\ GapEndsValidity
  /\ books' = [c \in Connections |-> Invalidated(books[c])]
  /\ tracker' = [c \in Connections |-> NoTracker]
  /\ UNCHANGED <<time, rows, pos, ended, judged, good, snapshots>>

\* With no gap left, the connection that became valid last is the authority.
LastGapClosed ==
  IF active' = {} /\ lastValid # NoConn /\ books[lastValid].state = "VALID"
  THEN authority' = lastValid /\ validFrom' = Now
  ELSE UNCHANGED <<authority, validFrom>>

Close(g) ==
  /\ FactMayCome /\ g \in active
  /\ ended' = ended \cup {g} /\ facts' = facts \cup {Fact(g, "CLOSED", Now, FALSE)}
  /\ active' = active \ {g}
  /\ LastGapClosed
  /\ UNCHANGED <<time, rows, pos, tracker, books, lastValid, intervals, opened, judged, good, bounds>>

\* The facts a rollover writes at the last moment of the day.
RollOver ==
  /\ FactMayCome /\ LastMoment /\ active # {}
  /\ facts' = facts \cup {Fact(g, "CLOSED", Now, TRUE) : g \in active}
  /\ active' = {}
  /\ LastGapClosed
  /\ UNCHANGED <<time, rows, pos, tracker, books, lastValid, intervals, opened, ended, judged, good,
                 bounds>>

(***************************************************************************)
(* Time, and the end of a day.                                             *)
(***************************************************************************)

\* The book of the authority is valid and the exchange's, and no gap is open.
TrueNow ==
  /\ opened = ended /\ authority # NoConn
  /\ books[authority].state = "VALID"
  /\ books[authority].levels = Exchange(books[authority].prev)

Passed == good \cup (IF TrueNow THEN {Now} ELSE {})

Tick ==
  /\ ~failed /\ ~LastMoment
  /\ tick' = tick + 1 /\ rows' = FALSE /\ good' = Passed
  /\ UNCHANGED <<day, pos, tracker, books, run, gaps, judged, bounds>>

\* The intervals that are not empty.
Nonempty(ivals, i) == IF i[2] > i[1] THEN Append(ivals, i) ELSE ivals
Proper(ivals) == FoldLeft(Nonempty, <<>>, ivals)

WindowStart == DayStart + (IF day = 0 THEN FormalStart ELSE 0)

Continuing == opened \ ended

\* The end of run, and finalize_day.
Judged == verdict' = Verdict(Proper(Closed(DayEnd)), facts, DayStart, WindowStart, DayEnd)

\* The start of the next run: _load_previous_checkpoint, then the OPEN facts of
\* the gaps that continue.
Resumed ==
  LET restored == [c \in Connections |-> Restored(books[c], c = authority)] IN
  /\ intervals' = <<>> /\ active' = Continuing
  /\ facts' = {Fact(g, "OPEN", DayEnd, FALSE) : g \in Continuing}
  /\ IF Continuing = {}
     THEN /\ books' = restored
          /\ authority' = authority /\ lastValid' = authority
          /\ validFrom' = IF authority = NoConn THEN 0 ELSE DayEnd
     ELSE /\ books' = [c \in Connections |-> Invalidated(restored[c])]
          /\ NoAuthority /\ lastValid' = NoConn

DayIsOver == ~failed /\ LastMoment /\ active = {} /\ day < MaxDay

Midnight ==
  /\ DayIsOver /\ ~\E c \in Connections : Refused(books[c])
  /\ day' = day + 1 /\ tick' = 0 /\ rows' = FALSE /\ good' = {}
  /\ Judged /\ Resumed
  /\ UNCHANGED <<pos, tracker, opened, ended, failed, bounds>>

\* A checkpoint that is refused: neither this day nor one after it is processed.
CheckpointRefused ==
  /\ DayIsOver /\ \E c \in Connections : Refused(books[c])
  /\ failed' = TRUE
  /\ UNCHANGED <<time, rows, pos, tracker, books, run, gaps, verdict, good, bounds>>

Next ==
  \/ Tick \/ Midnight \/ CheckpointRefused \/ RollOver
  \/ \E c \in Connections : Diff(c) \/ Lose(c) \/ Repeat(c) \/ Snapshot(c) \/ Timeout(c)
  \/ \E g \in Gaps : Open(g) \/ Close(g)

Spec == Init /\ [][Next]_vars
=============================================================================

------------------------------ MODULE GapProofs ------------------------------
(***************************************************************************)
(* A gap that was closed is over for every reader of its facts             *)
(* (ClosedGapEnds), for any number of days, gaps and full disks: the       *)
(* inductive invariant says what a running close relies on, who runs it,   *)
(* and why no seal and no rollover comes between.                          *)
(* No fact of a gap meets a sealed day (NothingRefused), as long as no     *)
(* close and rollover meet at a gap and no open outlasts a rollover.       *)
(***************************************************************************)
EXTENDS GapProperties, WellFoundedInduction, TLAPS

Tasks == {"unused", "opening", "open", "closing", "rolled", "removing", "closed", "lost"}
Times == Nat \cup {None}
FactRecord == [gap : Gaps, state : {"OPEN", "CLOSED"}, at : Nat, cont : BOOLEAN]
Roller == [todo : SUBSET Gaps, gap : Gaps \cup {NoGap}, day : Nat, step : {"idle", "facts", "state"}]

\* The clock, the days that are sealed and the midnight to handle, and when
\* the lease and the sources have a time.
ClockInv ==
  /\ now \in Nat /\ Instant(now) /\ crashes \in Nat
  /\ due \in Nat /\ due \in {0, Day(now)}
  /\ svc \in {"rollover", "grace"} => due # 0
  /\ sealed \subseteq Nat /\ \A d \in sealed : d < Day(now)
  /\ lease \in Times /\ lease <= now /\ up \in Times
  /\ svc \notin {"down", "recover", "list"} => lease \in Nat
  /\ svc \in {"down", "recover", "list", "bootSources", "sources"} => ~running
  /\ running => up \in Nat

JournalTypes ==
  /\ facts \subseteq FactRecord
  /\ state \in [Gaps -> Times] /\ since \in [Gaps -> Times] /\ until \in [Gaps -> Times]
  /\ task \in [Gaps -> Tasks] /\ observed \in [Gaps -> Times] /\ rolling \in [Gaps -> Nat]

\* A fact is about the past; a close is a nanosecond ahead of the clock.
FactOK(f, t) == IF f.state = "OPEN" THEN f.at <= t ELSE EndOf(f) <= t + 1
FactInv == \A f \in facts : FactOK(f, now)

RollerInv ==
  /\ roller \in Roller
  /\ roller.step # "idle" => roller.gap \in Gaps /\ roller.day >= 1

\* The files of a gap, at each step of what is done with it.
FileOf(g) ==
  /\ task[g] \in {"unused", "opening"} => state[g] = None /\ roller.gap # g
  /\ task[g] = "opening" => since[g] \in Nat
  /\ task[g] \in {"open", "closing", "rolled"} => state[g] \in Nat
  /\ Closing(g) => /\ observed[g] \in Nat /\ rolling[g] >= 1
                   /\ observed[g] <= now + 1 /\ Midnight(Day(observed[g])) < observed[g]
  /\ Closing(g) \/ task[g] = "closed" => until[g] \in Nat

FileInv == \A g \in Gaps : FileOf(g)

\* Who closes a gap, and where the service is meanwhile.
OwnerInv ==
  /\ stale \subseteq Gaps /\ storageGap \in Gaps \cup {NoGap}
  /\ svc \in {"storageOpen", "storageStop", "sources", "stale", "storageClose"} =>
       storageGap \in Gaps
  /\ \A g \in Gaps : Closing(g) =>
       \/ g \in OfSources /\ running
       \/ g \in stale \ {storageGap} /\ svc \in {"bootStale", "stale"}
       \/ g = storageGap /\ svc = "storageClose"

\* A close whose CLOSED fact is still to come, and midnight has passed.
Late(g) == task[g] \in {"closing", "rolled"} /\ Day(observed[g]) # Day(now)

\* A gap that is closed for the first time, and by the close alone: its facts
\* are before the end of its interval, and the last of them is there.
EndFacts(g) ==
  /\ until[g] # None =>
       /\ roller.gap # g
       /\ Closing(g) \/ (task[g] \in {"closed", "lost"} /\ state[g] = None)
  /\ Closing(g) => observed[g] = until[g]
  /\ Closing(g) \/ task[g] = "closed" =>
       \A f \in facts : f.gap = g =>
         IF f.state = "OPEN" THEN f.at < until[g] ELSE EndOf(f) <= until[g]
  /\ task[g] \in {"removing", "closed"} => Fact(g, "CLOSED", until[g], FALSE) \in facts

\* A late close finds its day unsealed, and no seal is next: the rollover that
\* comes before it meets the gap.
LateInTime(g) ==
  Late(g) => /\ Day(observed[g]) \notin sealed
             /\ svc \notin {"bootStale", "stale", "grace"}
             /\ svc = "rollover" => g \in roller.todo

EndOfGap(g) == EndFacts(g) /\ LateInTime(g)

EndInv == crashes = 0 => \A g \in Gaps \ raced : EndOfGap(g)

GapInv ==
  /\ ClockInv /\ JournalTypes /\ FactInv /\ RollerInv /\ FileInv /\ OwnerInv /\ EndInv

\* A non-empty set of naturals has a least element.
LEMMA LeastNumber ==
  ASSUME NEW T, T \subseteq Nat, T # {} PROVE \E x \in T : \A y \in T : x <= y
<1> DEFINE Less == OpToRel(<, Nat)
<1>1. IsWellFoundedOn(Less, Nat)
  BY NatLessThanWellFounded
<1>2. \A x, y \in Nat : x < y => <<x, y>> \in Less
  BY DEF OpToRel
<1> HIDE DEF Less
<1>3. PICK x \in T : \A y \in T : ~(<<y, x>> \in Less)
  BY <1>1, WFMin
<1>4. ASSUME NEW y \in T PROVE x <= y
  <2>1. x \in Nat /\ y \in Nat
    OBVIOUS
  <2>2. ~(y < x)
    BY <1>2, <1>3, <2>1
  <2> QED
    BY <2>1, <2>2
<1> QED
  BY <1>4

\* A day has at least six instants, and an even number of them.
LEMMA LengthIs ==
  DayLength \in Nat /\ DayLength >= 6 /\ DayLength % 2 = 0
  BY GapAssumption

\* Division with remainder.
LEMMA Division ==
  ASSUME NEW t \in Nat, NEW n \in Nat, n > 0
  PROVE  /\ t \div n \in Nat /\ n * (t \div n) <= t /\ t < n * (t \div n) + n
         /\ t % n = t - n * (t \div n)
<1>1. t \div n \in Nat /\ n * (t \div n) <= t
  OBVIOUS
<1>2. t < n * (t \div n) + n
  OBVIOUS
<1>3. t % n = t - n * (t \div n)
  BY SMTT(30)
<1> QED
  BY <1>1, <1>2, <1>3

\* Quotient and remainder are unique.
LEMMA Quotient ==
  ASSUME NEW t \in Nat, NEW n \in Nat, n > 0, NEW q \in Nat, n * q <= t, t < n * q + n
  PROVE  t \div n = q /\ t % n = t - n * q
<1>1. PICK r \in Nat : t = n * q + r /\ r < n
  <2>1. t - n * q \in Nat /\ t = n * q + (t - n * q) /\ t - n * q < n
    OBVIOUS
  <2> QED
    BY <2>1
<1>2. t \div n = q
  BY <1>1
<1>3. t % n = r
  BY <1>1
<1> QED
  BY <1>1, <1>2, <1>3

\* Midnights are a day's length apart.
LEMMA MidnightSteps ==
  ASSUME NEW d \in Nat PROVE Midnight(d) \in Nat /\ Midnight(d + 1) = Midnight(d) + DayLength
  BY LengthIs DEF Midnight

LEMMA MidnightOrder ==
  ASSUME NEW d \in Nat, NEW e \in Nat, d <= e PROVE Midnight(d) <= Midnight(e)
  BY LengthIs DEF Midnight

\* A moment lies between the midnights of its day.
LEMMA DayBounds ==
  ASSUME NEW t \in Nat
  PROVE  /\ Day(t) \in Nat /\ Midnight(Day(t)) \in Nat
         /\ Midnight(Day(t)) <= t /\ t < Midnight(Day(t)) + DayLength
         /\ t % DayLength = t - Midnight(Day(t))
<1>1. DayLength > 0 /\ DayLength \in Nat
  BY LengthIs
<1>2. Midnight(Day(t)) = DayLength * (t \div DayLength) /\ Day(t) = t \div DayLength
  BY LengthIs, Division, <1>1 DEF Midnight, Day
<1>3. Day(t) \in Nat
  BY <1>1, <1>2, Division
<1> QED
  BY <1>1, <1>2, <1>3, Division, MidnightSteps

LEMMA DayIs ==
  ASSUME NEW t \in Nat, NEW d \in Nat, Midnight(d) <= t, t < Midnight(d) + DayLength
  PROVE  Day(t) = d /\ t % DayLength = t - Midnight(d)
<1>1. DayLength > 0 /\ DayLength \in Nat
  BY LengthIs
<1>2. Midnight(d) = DayLength * d
  BY <1>1 DEF Midnight
<1> QED
  BY <1>1, <1>2, Quotient DEF Day

\* Days pass in order.
LEMMA DayOrder ==
  ASSUME NEW t \in Nat, NEW u \in Nat, t <= u PROVE Day(t) <= Day(u)
<1>1. Day(t) \in Nat /\ Day(u) \in Nat /\ Midnight(Day(t)) <= t /\ u < Midnight(Day(u)) + DayLength
  BY DayBounds
<1>2. SUFFICES ASSUME Day(u) + 1 <= Day(t) PROVE FALSE
  BY <1>1
<1>3. Midnight(Day(u) + 1) <= Midnight(Day(t)) /\ Midnight(Day(u) + 1) = Midnight(Day(u)) + DayLength
  BY <1>1, <1>2, MidnightOrder, MidnightSteps
<1>4. Midnight(Day(u)) \in Nat /\ Midnight(Day(t)) \in Nat
  BY <1>1, MidnightSteps
<1> QED
  BY <1>1, <1>3, <1>4, LengthIs

\* Midnight is even.
LEMMA MidnightEven ==
  ASSUME NEW d \in Nat PROVE \E k \in Nat : Midnight(d) = 2 * k
<1>1. PICK n \in 3 .. 100 : DayLength = 2 * n
  BY GapAssumption
<1>2. d * n \in Nat /\ Midnight(d) = 2 * (d * n)
  BY <1>1 DEF Midnight
<1> QED
  BY <1>2

\* An instant is neither midnight nor in the last four nanoseconds of its day.
LEMMA InstantBounds ==
  ASSUME NEW t \in Nat, Instant(t)
  PROVE  /\ Midnight(Day(t)) + 2 <= t /\ t <= Midnight(Day(t)) + DayLength - 4
         /\ Day(t + 1) = Day(t) /\ Midnight(Day(t + 1)) < t + 1
<1>1. /\ Day(t) \in Nat /\ Midnight(Day(t)) \in Nat
      /\ t % DayLength = t - Midnight(Day(t))
  BY DayBounds
<1>2. t % DayLength \in 2 .. DayLength - 4
  BY DEF Instant
<1>3. Midnight(Day(t)) + 2 <= t /\ t <= Midnight(Day(t)) + DayLength - 4
  BY <1>1, <1>2, LengthIs
<1>4. Day(t + 1) = Day(t)
  BY <1>1, <1>3, DayIs, LengthIs
<1> QED
  BY <1>1, <1>3, <1>4

\* The clock goes from instant to instant.
LEMMA LaterInstant ==
  ASSUME NEW t \in Nat, Instant(t)
  PROVE  Later(t) \in Nat /\ t < Later(t) /\ Instant(Later(t))
<1> DEFINE d == Day(t)
           m == Midnight(d)
<1>1. d \in Nat /\ m \in Nat /\ m + 2 <= t /\ t <= m + DayLength - 4
  BY DayBounds, InstantBounds
<1>2. PICK k \in Nat : m = 2 * k
  BY <1>1, MidnightEven
<1>3. PICK n \in 3 .. 100 : DayLength = 2 * n
  BY GapAssumption
<1>4. Midnight(d + 1) = m + DayLength
  BY <1>1, MidnightSteps
<1> HIDE DEF d, m
<1>5. t % 2 = 0
  BY DEF Instant
<1>6. CASE t + 2 <= m + DayLength - 4
  <2>1. (t + 2) % DayLength = t + 2 - m
    <3>1. m <= t + 2 /\ t + 2 < m + DayLength /\ t + 2 \in Nat
      BY <1>1, <1>6, LengthIs
    <3> QED
      BY <1>1, <3>1, DayIs DEF m
  <2>2. (t + 2) % 2 = 0
    BY <1>5
  <2>3. t + 2 - m \in 2 .. DayLength - 4
    BY <1>1, <1>6, LengthIs
  <2>4. Instant(t + 2)
    BY <2>1, <2>2, <2>3 DEF Instant
  <2> QED
    BY <2>4 DEF Later
<1>7. CASE ~(t + 2 <= m + DayLength - 4)
  <2>1. t = m + DayLength - 4
    BY <1>1, <1>2, <1>3, <1>5, <1>7
  <2>2. (t + 2) % DayLength = t + 2 - m
    <3>1. m <= t + 2 /\ t + 2 < m + DayLength /\ t + 2 \in Nat
      BY <1>1, <2>1, LengthIs
    <3> QED
      BY <1>1, <3>1, DayIs DEF m
  <2>3. ~Instant(t + 2)
    BY <2>1, <2>2, <1>1, LengthIs DEF Instant
  <2>4. (t + 6) % DayLength = 2
    <3>1. PICK u \in Nat : u = t + 6
      OBVIOUS
    <3>2. PICK e \in Nat : e = d + 1
      BY <1>1
    <3>3. Midnight(e) <= u /\ u < Midnight(e) + DayLength /\ u - Midnight(e) = 2
      BY <1>1, <1>4, <2>1, <3>1, <3>2, LengthIs
    <3>4. u % DayLength = u - Midnight(e)
      BY <3>3, DayIs
    <3> QED
      BY <3>1, <3>3, <3>4
  <2>5. (t + 6) % 2 = 0
    BY <1>5
  <2>6. Instant(t + 6)
    BY <2>4, <2>5, LengthIs DEF Instant
  <2> QED
    BY <2>3, <2>6 DEF Later
<1> QED
  BY <1>6, <1>7

LEMMA EarlierIs ==
  ASSUME NEW t \in Nat PROVE Earlier(t) \in Int /\ Earlier(t) <= t
  BY DEF Earlier

\* What the days that are sealed leave of the past, and the present.
LEMMA FloorIs ==
  ASSUME NEW D \in Nat, sealed \subseteq Nat, \A d \in sealed : d < D
  PROVE  SealedFloor \in Nat /\ SealedFloor <= Midnight(D)
<1>1. CASE sealed = {}
  BY <1>1, MidnightSteps DEF SealedFloor
<1>2. CASE sealed # {}
  <2> DEFINE T == {D - d : d \in sealed}
  <2>1. T \subseteq Nat /\ T # {}
    <3>1. ASSUME NEW d \in sealed PROVE D - d \in Nat
      OBVIOUS
    <3>2. T # {}
      BY <1>2
    <3> QED
      BY <3>1, <3>2
  <2>2. PICK x \in T : \A y \in T : x <= y
    BY <2>1, LeastNumber
  <2>3. PICK e \in sealed : x = D - e
    BY <2>2
  <2>4. ASSUME NEW d \in sealed PROVE d <= e
    <3>1. D - d \in T /\ d \in Nat /\ e \in Nat
      OBVIOUS
    <3>2. D - e <= D - d
      BY <2>2, <2>3, <3>1
    <3> QED
      BY <3>1, <3>2
  <2> DEFINE P(d) == \A u \in sealed : u <= d
             top == CHOOSE d \in sealed : P(d)
  <2>5. top \in sealed
    <3>1. \E d \in sealed : P(d)
      BY <2>3, <2>4
    <3> HIDE DEF P
    <3> QED
      BY <3>1
  <2>6. SealedFloor = Midnight(1 + top)
    BY <1>2 DEF SealedFloor
  <2> HIDE DEF top
  <2>7. 1 + top \in Nat /\ 1 + top <= D
    BY <2>5
  <2> QED
    BY <2>6, <2>7, MidnightSteps, MidnightOrder
<1> QED
  BY <1>1, <1>2

clockVars == <<now, crashes, due, svc, sealed, lease, up, running>>

LEMMA ClockStays ==
  ASSUME ClockInv, UNCHANGED clockVars PROVE ClockInv'
  BY DEF ClockInv, clockVars, Instant, Day

\* The steps of the service that only move svc.
LEMMA ServiceMoves ==
  ASSUME ClockInv, UNCHANGED <<now, crashes, due, sealed, lease, up, running>>,
         svc' \in {"rollover", "grace"} => due # 0,
         svc' \notin {"down", "recover", "list"} => lease \in Nat,
         svc' \in {"down", "recover", "list", "bootSources", "sources"} => ~running
  PROVE  ClockInv'
  BY DEF ClockInv, Instant, Day

\* The lease a stop or a crash leaves.
LEMMA LeaseIs ==
  ASSUME ClockInv, NEW l \in {t \in {now, Earlier(now)} : t >= lease}, lease \in Nat
  PROVE  l \in Nat /\ l <= now
<1>1. now \in Nat /\ Earlier(now) \in Int /\ Earlier(now) <= now
  BY EarlierIs DEF ClockInv
<1> QED
  BY <1>1

LEMMA StopKeepsClock ==
  ASSUME ClockInv, SourcesStop, UNCHANGED <<now, crashes, due, sealed>>,
         svc \in {"storageStop", "up", "stopping"}, svc' \in {"up", "stopping"}
  PROVE  ClockInv'
<1>1. lease' \in Nat /\ lease' <= now /\ running' = FALSE /\ up' = now
  BY LeaseIs DEF ClockInv, SourcesStop
<1> QED
  BY <1>1 DEF ClockInv, Times, Instant, Day

LEMMA EndKeepsClock ==
  ASSUME ClockInv, ProcessEnds, UNCHANGED <<now, sealed>>, crashes' \in Nat,
         lease' \in Times, lease' <= now
  PROVE  ClockInv'
  BY DEF ClockInv, ProcessEnds, Times, Instant, Day

LEMMA TickKeepsClock ==
  ASSUME ClockInv, Tick PROVE ClockInv'
<1>1. now' \in Nat /\ now < now' /\ Instant(now')
  BY LaterInstant DEF Tick, ClockInv
<1>2. Day(now) \in Nat /\ Day(now') \in Nat /\ Day(now) <= Day(now')
  BY <1>1, DayBounds, DayOrder DEF ClockInv
<1>3. due' \in Nat /\ due' \in {0, Day(now')}
  BY <1>2 DEF Tick, ClockInv
<1>4. svc \in {"rollover", "grace"} => due' # 0
  BY <1>2 DEF Tick, ClockInv
<1>5. \A d \in sealed : d < Day(now')
  BY <1>2 DEF ClockInv
<1>6. lease <= now'
  BY <1>1 DEF ClockInv, Times, None
<1>7. UNCHANGED <<svc, sealed, lease, up, running, crashes>>
  BY DEF Tick, serviceVars, faultVars
<1>8. Day(now)' = Day(now') /\ Instant(now)' = Instant(now')
  BY DEF Day, Instant
<1> QED
  BY <1>1, <1>3, <1>4, <1>5, <1>6, <1>7, <1>8 DEF ClockInv

\* The clock's part of the invariant.
LEMMA ClockStep ==
  ASSUME ClockInv, Next PROVE ClockInv'
<1> USE DEF serviceVars, faultVars, Unserved, Unlisted, Unsourced
<1>1. ASSUME NEW g \in Gaps, JournalStep(g) \/ SourceOpens(g) \/ SourceCloses(g) PROVE ClockInv'
  BY <1>1, ClockStays DEF JournalStep, SourceOpens, SourceCloses, clockVars
<1>2. CASE DiskFills \/ DiskDrains
  BY <1>2, ClockStays DEF DiskFills, DiskDrains, clockVars
<1>3. CASE CloseStale
  BY <1>3, ClockStays DEF CloseStale, clockVars
<1>4. CASE Tick
  BY <1>4, TickKeepsClock
<1>5. CASE RollPublish \/ RollState \/ RollNext
  BY <1>5, ClockStays DEF RollPublish, RollState, RollNext, clockVars
<1>6. CASE Boot
  BY <1>6, ServiceMoves DEF Boot, ClockInv
<1>7. CASE Recovered
  BY <1>7, ServiceMoves DEF Recovered, ClockInv
<1>8. CASE ListStale
  BY <1>8 DEF ListStale, ClockInv, Times, Instant, Day
<1>9. CASE SourcesReady
  BY <1>9 DEF SourcesReady, ClockInv, Times, Instant, Day
<1>10. CASE SourcesTimeout
  BY <1>10, ServiceMoves DEF SourcesTimeout, ClockInv
<1>11. CASE StaleClosed
  <2>1. UNCHANGED <<now, crashes, due, lease, up, running>> /\ svc' \in {"up", "storageClose"}
    BY <1>11 DEF StaleClosed
  <2>2. Day(now) \in Nat
    BY DayBounds DEF ClockInv
  <2> DEFINE D == Day(now)
  <2>3. sealed' \subseteq Nat /\ \A d \in sealed' : d < D
    <3>1. \A d \in sealed' : d \in sealed \/ d \in 0 .. D - 1
      BY <1>11 DEF StaleClosed
    <3>2. D \in Nat /\ \A d \in sealed : d \in Nat /\ d < D
      BY <2>2 DEF ClockInv
    <3> HIDE DEF D
    <3>3. ASSUME NEW d \in sealed' PROVE d \in Nat /\ d < D
      BY <3>1, <3>2
    <3> QED
      BY <3>3
  <2>4. lease \in Nat
    BY <1>11 DEF StaleClosed, ClockInv
  <2> QED
    BY <2>1, <2>3, <2>4 DEF ClockInv, Instant, Day
<1>12. CASE StorageFull
  BY <1>12, ServiceMoves DEF StorageFull, ClockInv
<1>13. CASE StorageOpened
  BY <1>13, ServiceMoves DEF StorageOpened, ClockInv
<1>14. CASE StorageStops
  BY <1>14, StopKeepsClock DEF StorageStops
<1>15. CASE StorageRecovers
  BY <1>15, ServiceMoves DEF StorageRecovers, ClockInv
<1>16. CASE StorageCloses
  BY <1>16, ServiceMoves DEF StorageCloses, ClockInv
<1>17. CASE StartRollover
  BY <1>17, ServiceMoves DEF StartRollover, ClockInv
<1>18. CASE RollRead
  BY <1>18, ServiceMoves DEF RollRead, ClockInv
<1>19. CASE RolloverDone
  BY <1>19, ServiceMoves DEF RolloverDone, ClockInv
<1>20. CASE SealDay
  <2>1. UNCHANGED <<now, crashes, lease, up, running>> /\ svc' = "up" /\ due' = 0
    BY <1>20 DEF SealDay
  <2>2. due # 0 /\ due = Day(now) /\ due \in Nat /\ lease \in Nat
    BY <1>20 DEF SealDay, ClockInv
  <2>3. sealed' \subseteq Nat /\ \A d \in sealed' : d < Day(now)
    <3>1. sealed' = sealed \cup {due - 1} /\ due - 1 \in Nat /\ due - 1 < due
      BY <1>20, <2>2 DEF SealDay
    <3> QED
      BY <2>2, <3>1 DEF ClockInv
  <2> QED
    BY <2>1, <2>2, <2>3 DEF ClockInv, Instant, Day
<1>21. CASE RequestStop
  BY <1>21 DEF RequestStop, ClockInv, Instant, Day
<1>22. CASE StopOpens
  BY <1>22, ServiceMoves DEF StopOpens, ClockInv
<1>23. CASE StopSources
  BY <1>23, StopKeepsClock DEF StopSources
<1>24. CASE Stopped
  BY <1>24, EndKeepsClock DEF Stopped, ClockInv, Times, None
<1>25. CASE Crash
  <2>1. lease' \in Times /\ lease' <= now
    <3>1. CASE running
      BY <1>25, <3>1, LeaseIs DEF Crash, ClockInv, Times
    <3>2. CASE ~running
      BY <1>25, <3>2 DEF Crash, ClockInv
    <3> QED
      BY <3>1, <3>2
  <2> QED
    BY <1>25, <2>1, EndKeepsClock DEF Crash, ClockInv
<1> QED
  BY <1>1, <1>2, <1>3, <1>4, <1>5, <1>6, <1>7, <1>8, <1>9, <1>10, <1>11, <1>12, <1>13, <1>14,
     <1>15, <1>16, <1>17, <1>18, <1>19, <1>20, <1>21, <1>22, <1>23, <1>24, <1>25
     DEF Next, Service

\* Who is at a gap: nobody new.
LEMMA OwnerStays ==
  ASSUME OwnerInv, UNCHANGED <<stale, storageGap, svc, running>>,
         \A g \in Gaps : Closing(g)' => Closing(g)
  PROVE  OwnerInv'
  BY DEF OwnerInv, OfSources

\* The service goes on from a step in which it closes nothing.
LEMMA OwnerMoves ==
  ASSUME OwnerInv, UNCHANGED <<stale, storageGap, running>>,
         svc \notin {"bootStale", "stale", "storageClose"},
         svc' \in {"storageOpen", "storageStop", "sources", "stale", "storageClose"} =>
           storageGap \in Gaps,
         \A g \in Gaps : Closing(g)' => Closing(g)
  PROVE  OwnerInv'
  BY DEF OwnerInv, OfSources

LEMMA OpeningClosesNothing ==
  ASSUME JournalTypes, NEW h, NEW from, OpenFact(h, from)
  PROVE  /\ h \in Gaps /\ task[h] = "unused" /\ task' = [task EXCEPT ![h] = "opening"]
         /\ \A g \in Gaps : Closing(g)' => Closing(g) /\ g # h
  BY DEF JournalTypes, OpenFact, Closing

LEMMA SameClosings ==
  ASSUME task' = task PROVE \A g \in Gaps : Closing(g)' => Closing(g)
  BY DEF Closing

LEMMA JournalClosesOn ==
  ASSUME JournalTypes, NEW h \in Gaps, JournalStep(h)
  PROVE  \A g \in Gaps : Closing(g)' => Closing(g)
<1>2. CASE OpenState(h)
  BY <1>2 DEF OpenState, Closing, JournalTypes
<1>3. CASE CloseRolls(h)
  BY <1>3 DEF CloseRolls, Closing, JournalTypes
<1>4. CASE CloseRolled(h)
  BY <1>4 DEF CloseRolled, Closing, JournalTypes
<1>5. CASE CloseFact(h)
  BY <1>5 DEF CloseFact, Closing, JournalTypes
<1>6. CASE CloseRemoves(h)
  BY <1>6 DEF CloseRemoves, Closing, JournalTypes
<1> QED
  BY <1>2, <1>3, <1>4, <1>5, <1>6 DEF JournalStep

\* A close is begun by the owner of the gap.
LEMMA CloseBegins ==
  ASSUME JournalTypes, NEW h \in Gaps, StartClose(h)
  PROVE  \A g \in Gaps : Closing(g)' => Closing(g) \/ g = h
  BY DEF JournalTypes, StartClose, Closing

LEMMA StopOwners ==
  ASSUME JournalTypes, OwnerInv, SourcesStop, UNCHANGED <<stale, storageGap>>,
         svc \in {"storageStop", "up", "stopping"}, svc' \in {"up", "stopping"}
  PROVE  OwnerInv'
<1>1. \A g \in Gaps : Closing(g)' => Closing(g)
  BY DEF JournalTypes, SourcesStop, Closing
<1>2. \A g \in Gaps : Closing(g) => g \in OfSources
  BY DEF OwnerInv
<1>3. \A g \in OfSources : ~Closing(g)
  BY DEF SourcesStop, Settled, Closing
<1>4. \A g \in Gaps : ~Closing(g)'
  BY <1>1, <1>2, <1>3
<1> QED
  BY <1>4 DEF OwnerInv, SourcesStop

LEMMA EndOwners ==
  ASSUME JournalTypes, ProcessEnds
  PROVE  OwnerInv' /\ \A g \in Gaps : ~Closing(g)'
<1>1. \A g \in Gaps : ~Closing(g)'
  BY DEF ProcessEnds, Closing
<1> QED
  BY <1>1 DEF OwnerInv, ProcessEnds

\* Nobody closes while the service starts its sources.
LEMMA NoCloserAtStart ==
  ASSUME OwnerInv, ~running, svc \notin {"bootStale", "stale", "storageClose"}
  PROVE  \A g \in Gaps : ~Closing(g)
  BY DEF OwnerInv

LEMMA OwnerStep ==
  ASSUME ClockInv, JournalTypes, OwnerInv, Next PROVE OwnerInv'
<1> USE DEF serviceVars, faultVars, Unserved, Unlisted, Unsourced
<1>1. ASSUME NEW g \in Gaps, JournalStep(g) PROVE OwnerInv'
  BY <1>1, JournalClosesOn, OwnerStays DEF JournalStep
<1>2. ASSUME NEW g \in Gaps, SourceOpens(g) PROVE OwnerInv'
  BY <1>2, OpeningClosesNothing, OwnerStays DEF SourceOpens
<1>3. ASSUME NEW g \in Gaps, SourceCloses(g) PROVE OwnerInv'
  <2>1. \A h \in Gaps : Closing(h)' => Closing(h) \/ h = g
    BY <1>3, CloseBegins DEF SourceCloses
  <2> QED
    BY <1>3, <2>1 DEF SourceCloses, OwnerInv, OfSources
<1>4. CASE DiskFills \/ DiskDrains \/ Tick
  BY <1>4, SameClosings, OwnerStays DEF DiskFills, DiskDrains, Tick, journalVars
<1>5. CASE RollPublish \/ RollState \/ RollNext
  BY <1>5, SameClosings, OwnerStays DEF RollPublish, RollState, RollNext, journalVars
<1>6. CASE CloseStale
  <2>1. PICK g \in stale \ {storageGap} : StartClose(g)
    BY <1>6 DEF CloseStale
  <2>2. \A h \in Gaps : Closing(h)' => Closing(h) \/ h = g
    BY <2>1, CloseBegins DEF OwnerInv
  <2> QED
    BY <1>6, <2>1, <2>2 DEF CloseStale, OwnerInv, OfSources
<1>7. CASE Boot
  <2>1. \A g \in Gaps : Closing(g)' => Closing(g)
    BY <1>7, OpeningClosesNothing, SameClosings DEF Boot, journalVars
  <2> QED
    BY <1>7, <2>1, OwnerMoves DEF Boot
<1>8. CASE Recovered \/ SourcesTimeout \/ StartRollover \/ RolloverDone \/ StorageOpened \/ RequestStop
  BY <1>8, OwnerMoves, SameClosings
     DEF Recovered, SourcesTimeout, StartRollover, RolloverDone, StorageOpened, RequestStop,
         journalVars, OwnerInv
<1>9. CASE ListStale
  <2>1. \A g \in Gaps : ~Closing(g)
    BY <1>9, NoCloserAtStart DEF ListStale, ClockInv
  <2>2. \A g \in Gaps : ~Closing(g)'
    BY <1>9, <2>1 DEF ListStale, Closing
  <2>3. stale' \subseteq Gaps /\ storageGap' \in Gaps \cup {NoGap} /\ svc' \in {"up", "bootSources"}
    BY <1>9 DEF ListStale
  <2> QED
    BY <2>2, <2>3 DEF OwnerInv
<1>10. CASE SourcesReady
  <2>1. \A g \in Gaps : ~Closing(g)
    BY <1>10, NoCloserAtStart DEF SourcesReady, ClockInv
  <2>2. \A g \in Gaps : ~Closing(g)'
    BY <1>10, <2>1, SameClosings DEF SourcesReady, journalVars
  <2> QED
    BY <1>10, <2>2 DEF OwnerInv, SourcesReady
<1>11. CASE StaleClosed
  <2>1. \A g \in Gaps : Closing(g)' => Closing(g) /\ g \in OfSources /\ running
    BY <1>11, SameClosings DEF StaleClosed, OwnerInv, journalVars, Closing
  <2>2. \A g \in OfSources : g \in OfSources'
    BY <1>11 DEF StaleClosed, OfSources
  <2> QED
    BY <1>11, <2>1, <2>2 DEF StaleClosed, OwnerInv
<1>12. CASE StorageFull
  <2>1. Fresh \in Gaps /\ \A g \in Gaps : Closing(g)' => Closing(g) /\ g # Fresh
    BY <1>12, OpeningClosesNothing DEF StorageFull
  <2>2. \A g \in Gaps : Closing(g)' => g \in OfSources /\ running
    BY <1>12, <2>1 DEF StorageFull, OwnerInv
  <2> QED
    BY <1>12, <2>1, <2>2 DEF StorageFull, OwnerInv, OfSources
<1>13. CASE StorageStops
  BY <1>13, StopOwners DEF StorageStops
<1>14. CASE StorageRecovers
  BY <1>14, OwnerMoves, SameClosings DEF StorageRecovers, OwnerInv, journalVars
<1>15. CASE StorageCloses
  <2>0. storageGap \in Gaps
    BY <1>15 DEF StorageCloses, OwnerInv
  <2>1. CASE StartClose(storageGap) /\ UNCHANGED serviceVars
    <3>1. \A h \in Gaps : Closing(h)' => Closing(h) \/ h = storageGap
      BY <2>0, <2>1, CloseBegins
    <3> QED
      BY <1>15, <2>1, <3>1 DEF StorageCloses, OwnerInv, OfSources
  <2>2. CASE /\ task[storageGap] = "closed"
             /\ storageGap' = NoGap /\ svc' = "up"
             /\ UNCHANGED <<journalVars, stale, storage, Unsourced, raced>>
    <3>1. \A g \in Gaps : Closing(g)' => Closing(g) /\ g \in OfSources /\ running
      BY <1>15, <2>2, SameClosings DEF StorageCloses, OwnerInv, journalVars, Closing
    <3>2. \A g \in OfSources : g \in OfSources'
      BY <2>2, GapIdAssumption DEF OfSources
    <3> QED
      BY <2>2, <3>1, <3>2 DEF OwnerInv
  <2> QED
    BY <1>15, <2>1, <2>2 DEF StorageCloses
<1>16. CASE RollRead
  BY <1>16, OwnerMoves, SameClosings DEF RollRead, journalVars
<1>17. CASE SealDay
  BY <1>17, OwnerMoves, SameClosings DEF SealDay, journalVars
<1>18. CASE StopOpens
  <2>1. \A g \in Gaps : Closing(g)' => Closing(g)
    BY <1>18, OpeningClosesNothing, SameClosings DEF StopOpens, journalVars
  <2> QED
    BY <1>18, <2>1, OwnerMoves DEF StopOpens
<1>19. CASE StopSources
  BY <1>19, StopOwners DEF StopSources
<1>20. CASE Stopped \/ Crash
  BY <1>20, EndOwners DEF Stopped, Crash
<1> QED
  BY <1>1, <1>2, <1>3, <1>4, <1>5, <1>6, <1>7, <1>8, <1>9, <1>10, <1>11, <1>12, <1>13, <1>14,
     <1>15, <1>16, <1>17, <1>18, <1>19, <1>20 DEF Next, Service

\* What a publication adds.
LEMMA PublishAdds ==
  ASSUME NEW new, Published(new)
  PROVE  /\ facts \subseteq facts' /\ facts' \subseteq facts \cup new
         /\ \A f \in new : Day(f.at) \notin sealed => f \in facts'
  BY DEF Published

LEMMA FactIs ==
  ASSUME NEW g \in Gaps, NEW s \in {"OPEN", "CLOSED"}, NEW t \in Nat, NEW c \in BOOLEAN
  PROVE  /\ Fact(g, s, t, c) \in FactRecord
         /\ Fact(g, s, t, c).gap = g /\ Fact(g, s, t, c).state = s /\ Fact(g, s, t, c).at = t
         /\ EndOf(Fact(g, s, t, c)) = IF c THEN t + 1 ELSE t
  BY DEF Fact, FactRecord, EndOf

\* The facts of a rollover are about its midnight.
LEMMA RollFactsAre ==
  ASSUME NEW g \in Gaps, NEW d \in Nat, d >= 1, NEW f \in RollFacts(g, d)
  PROVE  /\ f \in FactRecord /\ f.gap = g
         /\ IF f.state = "OPEN" THEN f.at = Midnight(d) ELSE EndOf(f) = Midnight(d)
<1>1. d - 1 \in Nat
  OBVIOUS
<1>2. Midnight(d) \in Nat /\ Midnight(d) = Midnight(d - 1) + DayLength /\ Midnight(d - 1) \in Nat
  <2>1. Midnight(d - 1 + 1) = Midnight(d - 1) + DayLength /\ Midnight(d - 1) \in Nat
    BY <1>1, MidnightSteps
  <2>2. d - 1 + 1 = d
    OBVIOUS
  <2> QED
    BY <2>1, <2>2, MidnightSteps
<1>3. Midnight(d) - 1 \in Nat
  BY <1>2, LengthIs
<1> DEFINE m == Midnight(d)
           n == Midnight(d) - 1
<1>a. m \in Nat /\ n \in Nat /\ n + 1 = m
  BY <1>2, <1>3
<1> HIDE DEF m, n
<1>4. CASE f = Fact(g, "OPEN", m, FALSE)
  <2>1. f \in FactRecord /\ f.gap = g /\ f.state = "OPEN" /\ f.at = m
    BY <1>a, <1>4 DEF Fact, FactRecord
  <2> QED
    BY <2>1 DEF m
<1>5. CASE f = Fact(g, "CLOSED", n, TRUE)
  <2>1. f \in FactRecord /\ f.gap = g /\ f.state = "CLOSED" /\ EndOf(f) = n + 1
    BY <1>a, <1>5 DEF Fact, FactRecord, EndOf
  <2> QED
    BY <1>a, <2>1 DEF m
<1> QED
  BY <1>4, <1>5 DEF RollFacts, m, n

\* Facts are about the past when they are published, and time goes on.
LEMMA FactsLater ==
  ASSUME FactInv, facts \subseteq FactRecord, NEW new \in SUBSET FactRecord,
         facts' \subseteq facts \cup new, now \in Nat, now' \in Nat, now <= now',
         \A f \in new : FactOK(f, now)
  PROVE  FactInv' /\ facts' \subseteq FactRecord
<1>1. ASSUME NEW f \in facts' PROVE FactOK(f, now')
  <2>1. f \in FactRecord /\ FactOK(f, now)
    BY DEF FactInv, FactOK
  <2>2. f.at \in Nat /\ EndOf(f) \in Nat
    BY <2>1 DEF FactRecord, EndOf
  <2> QED
    BY <2>1, <2>2 DEF FactOK
<1> QED
  BY <1>1 DEF FactInv, FactOK, EndOf

LEMMA FactsStay ==
  ASSUME FactInv, UNCHANGED <<facts, now>> PROVE FactInv'
  BY DEF FactInv, EndOf

Files == JournalTypes /\ FactInv /\ FileInv

\* The open of a gap.
LEMMA OpenKeepsFiles ==
  ASSUME Files, now \in Nat, NEW h, NEW from \in Nat, from <= now, OpenFact(h, from),
         UNCHANGED <<now, roller>>
  PROVE  Files'
<1>1. h \in Gaps /\ task[h] = "unused" /\ task' = [task EXCEPT ![h] = "opening"]
  BY OpeningClosesNothing DEF Files
<1>2. UNCHANGED <<state, observed, rolling, until>> /\ since' = [since EXCEPT ![h] = from]
  BY DEF OpenFact
<1>3. FactInv' /\ facts' \subseteq FactRecord
  <2> DEFINE f == Fact(h, "OPEN", from, FALSE)
  <2>1. f \in FactRecord /\ FactOK(f, now)
    BY <1>1 DEF Fact, FactRecord, FactOK
  <2>2. facts' \subseteq facts \cup {f}
    BY PublishAdds DEF OpenFact
  <2> HIDE DEF f
  <2>3. {f} \in SUBSET FactRecord /\ \A x \in {f} : FactOK(x, now)
    BY <2>1
  <2>4. now' \in Nat /\ now <= now'
    OBVIOUS
  <2> QED
    BY <2>2, <2>3, <2>4, FactsLater DEF Files, JournalTypes
<1>4. JournalTypes'
  BY <1>1, <1>2, <1>3 DEF Files, JournalTypes, Times, Tasks
<1>5. ASSUME NEW g \in Gaps PROVE FileOf(g)'
  <2>1. FileOf(g)
    BY DEF Files, FileInv
  <2>2. CASE g = h
    <3>1. task'[h] = "opening" /\ since'[h] = from /\ state'[h] = None /\ roller'.gap # h
      BY <1>1, <1>2, <2>1, <2>2 DEF FileOf, Files, JournalTypes
    <3> QED
      BY <2>2, <3>1 DEF FileOf, Closing
  <2>3. CASE g # h
    <3>1. task'[g] = task[g] /\ since'[g] = since[g]
      BY <1>1, <1>2, <2>3 DEF Files, JournalTypes
    <3> QED
      BY <1>2, <2>1, <3>1 DEF FileOf, Closing, Day, Midnight
  <2> QED
    BY <2>2, <2>3
<1> QED
  BY <1>3, <1>4, <1>5 DEF Files, FileInv

\* A gap none of whose files, facts and tasks change.
LEMMA FileStays ==
  ASSUME NEW g \in Gaps, FileOf(g), now' = now,
         task'[g] = task[g], state'[g] = state[g], since'[g] = since[g],
         observed'[g] = observed[g], rolling'[g] = rolling[g], until'[g] = until[g],
         roller'.gap # g \/ roller'.gap = roller.gap
  PROVE  FileOf(g)'
  BY DEF FileOf, Closing, Day, Midnight

\* The start of a close.
LEMMA CloseKeepsFiles ==
  ASSUME Files, ClockInv, NEW h \in Gaps, StartClose(h), UNCHANGED <<now, roller>>
  PROVE  Files'
<1>0. now \in Nat /\ Day(now) \in Nat
  BY DayBounds DEF ClockInv
<1>1. /\ UNCHANGED <<facts, state, since>> /\ task[h] = "open"
      /\ task' = [task EXCEPT ![h] = "closing"]
      /\ observed' = [observed EXCEPT ![h] = now + 1]
  BY DEF StartClose
<1>2. state[h] \in Nat /\ Day(state[h]) \in Nat
  BY <1>1, DayBounds DEF Files, FileInv, FileOf
<1>3. rolling' = [rolling EXCEPT ![h] = Day(state[h]) + 1] /\ Day(state[h]) + 1 \in Nat
  <2>1. state[h] # None
    BY <1>2 DEF None
  <2>2. (IF state[h] = None THEN Day(now) + 1 ELSE Day(state[h]) + 1) = Day(state[h]) + 1
    BY <2>1
  <2>3. rolling' = [rolling EXCEPT ![h] = IF state[h] = None THEN Day(now) + 1
                                          ELSE Day(state[h]) + 1]
    BY DEF StartClose
  <2>4. rolling' = [rolling EXCEPT ![h] = Day(state[h]) + 1]
    BY <2>2, <2>3, Zenon
  <2> QED
    BY <1>2, <2>4
<1>4. /\ until' \in [Gaps -> Times] /\ until'[h] \in Nat
      /\ \A g \in Gaps : g # h => until'[g] = until[g]
  <2> DEFINE v == IF until[h] = None THEN now + 1 ELSE until[h]
  <2>1. v \in Nat /\ v \in Times
    BY <1>0 DEF Files, JournalTypes, Times, None
  <2>2. until' = [until EXCEPT ![h] = v]
    BY DEF StartClose
  <2> HIDE DEF v
  <2> QED
    BY <2>1, <2>2 DEF Files, JournalTypes
<1>5. JournalTypes'
  <2>1. task' \in [Gaps -> Tasks]
    BY <1>1 DEF Files, JournalTypes, Tasks
  <2>2. observed' \in [Gaps -> Times]
    BY <1>0, <1>1 DEF Files, JournalTypes, Times
  <2>3. rolling' \in [Gaps -> Nat]
    BY <1>3 DEF Files, JournalTypes
  <2> QED
    BY <1>1, <1>4, <2>1, <2>2, <2>3 DEF Files, JournalTypes
<1>6. FactInv'
  BY <1>1, FactsStay DEF Files
<1>7. ASSUME NEW g \in Gaps PROVE FileOf(g)'
  <2>1. FileOf(g)
    BY DEF Files, FileInv
  <2>2. CASE g = h
    <3>1. /\ task'[h] = "closing" /\ observed'[h] = now + 1 /\ rolling'[h] = Day(state[h]) + 1
          /\ state'[h] \in Nat
      BY <1>1, <1>2, <1>3 DEF Files, JournalTypes
    <3>2. now + 1 \in Nat /\ Midnight(Day(now + 1)) < now + 1
      BY <1>0, InstantBounds DEF ClockInv
    <3>3. rolling'[h] >= 1
      BY <1>2, <3>1
    <3> QED
      BY <2>2, <3>1, <3>2, <3>3, <1>0, <1>4 DEF FileOf, Closing, Day, Midnight
  <2>3. CASE g # h
    BY <1>1, <1>3, <1>4, <2>1, <2>3, FileStays DEF Files, JournalTypes
  <2> QED
    BY <2>2, <2>3
<1> QED
  BY <1>5, <1>6, <1>7 DEF Files, FileInv

\* The facts a rollover or a close publishes at a midnight of the past.
LEMMA RollKeepsFacts ==
  ASSUME JournalTypes, FactInv, now \in Nat, now' = now,
         NEW h \in Gaps, NEW d \in Nat, d >= 1, Midnight(d) <= now, Published(RollFacts(h, d))
  PROVE  FactInv' /\ facts' \subseteq FactRecord
<1>1. Midnight(d) \in Nat
  BY MidnightSteps
<1>2. RollFacts(h, d) \in SUBSET FactRecord
  BY RollFactsAre
<1>3. \A f \in RollFacts(h, d) : FactOK(f, now)
  BY <1>1, RollFactsAre DEF FactOK
<1>4. facts' \subseteq facts \cup RollFacts(h, d)
  BY PublishAdds
<1>5. now' \in Nat /\ now <= now'
  OBVIOUS
<1> QED
  BY <1>2, <1>3, <1>4, <1>5, FactsLater DEF JournalTypes

\* A day that has begun began in the past.
LEMMA BegunDay ==
  ASSUME NEW t \in Nat, NEW d \in Nat, d <= Day(t)
  PROVE  Midnight(d) \in Nat /\ Midnight(d) <= Midnight(Day(t)) /\ Midnight(d) <= t
         /\ Midnight(Day(t)) \in Nat
<1>1. Day(t) \in Nat /\ Midnight(Day(t)) <= t /\ Midnight(Day(t)) \in Nat /\ Midnight(d) \in Nat
  BY DayBounds, MidnightSteps
<1>2. Midnight(d) <= Midnight(Day(t))
  BY <1>1, MidnightOrder
<1> QED
  BY <1>1, <1>2

\* One step of an open or of a close.
LEMMA JournalKeepsFiles ==
  ASSUME Files, ClockInv, NEW h \in Gaps, JournalStep(h)
  PROVE  Files'
<1>0. UNCHANGED <<now, roller>> /\ now \in Nat /\ FileOf(h)
  BY DEF JournalStep, ClockInv, Files, FileInv
<1>1. CASE OpenState(h)
  <2>1. /\ UNCHANGED <<facts, observed, rolling, since, until>> /\ task[h] = "opening"
        /\ state' = [state EXCEPT ![h] = since[h]] /\ task' = [task EXCEPT ![h] = "open"]
    BY <1>1 DEF OpenState
  <2>2. since[h] \in Nat
    BY <1>0, <2>1 DEF FileOf
  <2>3. JournalTypes'
    BY <2>1, <2>2 DEF Files, JournalTypes, Tasks, Times
  <2>4. ASSUME NEW g \in Gaps, g # h PROVE FileOf(g)'
    BY <1>0, <2>1, <2>4, FileStays DEF Files, JournalTypes, FileInv
  <2>5. FileOf(h)'
    <3>1. task'[h] = "open" /\ state'[h] \in Nat
      BY <2>1, <2>2 DEF Files, JournalTypes
    <3> QED
      BY <3>1 DEF FileOf, Closing
  <2> QED
    BY <1>0, <2>1, <2>3, <2>4, <2>5, FactsStay DEF Files, FileInv
<1>2. CASE CloseRolls(h)
  <2>1. /\ UNCHANGED <<state, observed, rolling, since, until>> /\ task[h] = "closing"
        /\ rolling[h] <= Day(observed[h]) /\ Published(RollFacts(h, rolling[h]))
        /\ task' = [task EXCEPT ![h] = "rolled"]
    BY <1>2 DEF CloseRolls, MustRoll
  <2>2. /\ state[h] \in Nat /\ observed[h] \in Nat /\ rolling[h] >= 1 /\ observed[h] <= now + 1
        /\ Midnight(Day(observed[h])) < observed[h] /\ until[h] \in Nat /\ rolling[h] \in Nat
    BY <1>0, <2>1 DEF FileOf, Closing, Files, JournalTypes
  <2>3. Midnight(rolling[h]) <= now
    <3>1. Midnight(rolling[h]) \in Nat /\ Midnight(rolling[h]) <= Midnight(Day(observed[h]))
          /\ Midnight(Day(observed[h])) \in Nat
      BY <2>1, <2>2, BegunDay
    <3> QED
      BY <1>0, <2>2, <3>1
  <2>4. FactInv' /\ facts' \subseteq FactRecord
    BY <1>0, <2>1, <2>2, <2>3, RollKeepsFacts DEF Files
  <2>5. JournalTypes'
    BY <2>1, <2>4 DEF Files, JournalTypes, Tasks
  <2>6. ASSUME NEW g \in Gaps, g # h PROVE FileOf(g)'
    BY <1>0, <2>1, <2>6, FileStays DEF Files, JournalTypes, FileInv
  <2>7. FileOf(h)'
    <3>1. task'[h] = "rolled"
      BY <2>1 DEF Files, JournalTypes
    <3> QED
      BY <1>0, <2>1, <2>2, <3>1 DEF FileOf, Closing, Midnight, Day
  <2> QED
    BY <2>4, <2>5, <2>6, <2>7 DEF Files, FileInv
<1>3. CASE CloseRolled(h)
  <2>1. /\ UNCHANGED <<facts, observed, since, until>> /\ task[h] = "rolled"
        /\ state' = [state EXCEPT ![h] = Midnight(rolling[h])]
        /\ rolling' = [rolling EXCEPT ![h] = rolling[h] + 1]
        /\ task' = [task EXCEPT ![h] = "closing"]
    BY <1>3 DEF CloseRolled
  <2>2. /\ observed[h] \in Nat /\ rolling[h] >= 1 /\ observed[h] <= now + 1
        /\ Midnight(Day(observed[h])) < observed[h] /\ until[h] \in Nat /\ rolling[h] \in Nat
    BY <1>0, <2>1 DEF FileOf, Closing, Files, JournalTypes
  <2>3. Midnight(rolling[h]) \in Nat
    BY <2>2, MidnightSteps
  <2>4. JournalTypes'
    <3>1. state' \in [Gaps -> Times]
      BY <2>1, <2>3 DEF Files, JournalTypes, Times
    <3>2. task' \in [Gaps -> Tasks] /\ rolling' \in [Gaps -> Nat]
      BY <2>1, <2>2 DEF Files, JournalTypes, Tasks
    <3> QED
      BY <2>1, <3>1, <3>2 DEF Files, JournalTypes
  <2>5. ASSUME NEW g \in Gaps, g # h PROVE FileOf(g)'
    BY <1>0, <2>1, <2>5, FileStays DEF Files, JournalTypes, FileInv
  <2>6. FileOf(h)'
    <3>1. task'[h] = "closing" /\ state'[h] \in Nat /\ rolling'[h] >= 1
      BY <2>1, <2>2, <2>3 DEF Files, JournalTypes
    <3> QED
      BY <1>0, <2>1, <2>2, <3>1 DEF FileOf, Closing, Midnight, Day
  <2> QED
    BY <1>0, <2>1, <2>4, <2>5, <2>6, FactsStay DEF Files, FileInv
<1>4. CASE CloseFact(h)
  <2> DEFINE f == Fact(h, "CLOSED", observed[h], FALSE)
  <2>1. /\ UNCHANGED <<state, observed, rolling, since, until>> /\ task[h] = "closing"
        /\ Published({f}) /\ task' = [task EXCEPT ![h] = "removing"]
    BY <1>4 DEF CloseFact
  <2>2. /\ state[h] \in Nat /\ observed[h] \in Nat /\ rolling[h] >= 1 /\ observed[h] <= now + 1
        /\ Midnight(Day(observed[h])) < observed[h] /\ until[h] \in Nat
    BY <1>0, <2>1 DEF FileOf, Closing
  <2>3. f \in FactRecord /\ FactOK(f, now)
    BY <2>2 DEF Fact, FactRecord, FactOK, EndOf
  <2>4. FactInv' /\ facts' \subseteq FactRecord
    <3> HIDE DEF f
    <3>1. {f} \in SUBSET FactRecord /\ \A x \in {f} : FactOK(x, now)
      BY <2>3
    <3>2. facts' \subseteq facts \cup {f} /\ now' \in Nat /\ now <= now'
      BY <1>0, <2>1, PublishAdds
    <3> QED
      BY <1>0, <3>1, <3>2, FactsLater DEF Files, JournalTypes
  <2>5. JournalTypes'
    BY <2>1, <2>4 DEF Files, JournalTypes, Tasks
  <2>6. ASSUME NEW g \in Gaps, g # h PROVE FileOf(g)'
    BY <1>0, <2>1, <2>6, FileStays DEF Files, JournalTypes, FileInv
  <2>7. FileOf(h)'
    <3>1. task'[h] = "removing"
      BY <2>1 DEF Files, JournalTypes
    <3> QED
      BY <1>0, <2>1, <2>2, <3>1 DEF FileOf, Closing, Midnight, Day
  <2> QED
    BY <2>4, <2>5, <2>6, <2>7 DEF Files, FileInv
<1>5. CASE CloseRemoves(h)
  <2>1. /\ UNCHANGED <<facts, since, until>> /\ task[h] = "removing"
        /\ state' = [state EXCEPT ![h] = None] /\ task' = [task EXCEPT ![h] = "closed"]
        /\ observed' = [observed EXCEPT ![h] = None] /\ rolling' = [rolling EXCEPT ![h] = 0]
    BY <1>5 DEF CloseRemoves
  <2>2. JournalTypes'
    BY <2>1 DEF Files, JournalTypes, Tasks, Times
  <2>3. ASSUME NEW g \in Gaps, g # h PROVE FileOf(g)'
    BY <1>0, <2>1, <2>3, FileStays DEF Files, JournalTypes, FileInv
  <2>4. FileOf(h)'
    <3>1. task'[h] = "closed" /\ until[h] \in Nat
      BY <1>0, <2>1 DEF Files, JournalTypes, FileOf, Closing
    <3> QED
      BY <2>1, <3>1 DEF FileOf, Closing
  <2> QED
    BY <1>0, <2>1, <2>2, <2>3, <2>4, FactsStay DEF Files, FileInv
<1> QED
  BY <1>1, <1>2, <1>3, <1>4, <1>5 DEF JournalStep

\* The files, when only the rollover's record and the service move.
LEMMA FilesStay ==
  ASSUME Files, UNCHANGED <<now, facts, state, since, until, task, observed, rolling>>,
         \A g \in Gaps : roller'.gap # g \/ roller'.gap = roller.gap \/ state[g] # None
  PROVE  Files'
<1>1. JournalTypes' /\ FactInv'
  BY FactsStay DEF Files, JournalTypes
<1>2. ASSUME NEW g \in Gaps PROVE FileOf(g)'
  BY DEF Files, FileInv, FileOf, Closing, Midnight, Day
<1> QED
  BY <1>1, <1>2 DEF Files, FileInv

\* The sources stop, or the boot takes over what is open.
LEMMA TasksKeepFiles ==
  ASSUME Files, UNCHANGED <<now, roller, facts, state, since, until, observed, rolling>>,
         task' \in [Gaps -> Tasks],
         \A g \in Gaps : \/ task'[g] = task[g]
                         \/ task'[g] = "lost"
                         \/ task'[g] = "open" /\ state[g] # None
  PROVE  Files'
<1>1. JournalTypes' /\ FactInv'
  BY FactsStay DEF Files, JournalTypes
<1>2. ASSUME NEW g \in Gaps PROVE FileOf(g)'
  <2>1. FileOf(g) /\ state[g] \in Times
    BY DEF Files, FileInv, JournalTypes
  <2>2. CASE task'[g] = task[g]
    BY <2>1, <2>2, FileStays
  <2>3. CASE task'[g] = "lost"
    BY <2>3 DEF FileOf, Closing
  <2>4. CASE task'[g] = "open" /\ state[g] # None
    BY <2>1, <2>4 DEF FileOf, Closing, Times
  <2> QED
    BY <2>2, <2>3, <2>4
<1> QED
  BY <1>1, <1>2 DEF Files, FileInv

LEMMA EndKeepsFiles ==
  ASSUME Files, now \in Nat, ProcessEnds, UNCHANGED <<now, facts, state, since>>
  PROVE  Files' /\ RollerInv' /\ roller'.gap = NoGap
<1>1. roller' = IdleRoller
  BY DEF ProcessEnds
<1>2. RollerInv' /\ roller'.gap = NoGap
  BY <1>1 DEF RollerInv, IdleRoller, Roller
<1>3. \A g \in Gaps : task'[g] = (IF task[g] \in {"unused", "closed"} THEN task[g] ELSE "lost")
                      /\ until'[g] = (IF task[g] = "opening" THEN now ELSE until[g])
  BY DEF ProcessEnds
<1>4. task' \in [Gaps -> Tasks]
  BY DEF ProcessEnds, Files, JournalTypes, Tasks
<1>5. until' \in [Gaps -> Times] /\ observed' \in [Gaps -> Times] /\ rolling' \in [Gaps -> Nat]
  BY DEF ProcessEnds, Files, JournalTypes, Times
<1>6. JournalTypes' /\ FactInv'
  BY <1>4, <1>5, FactsStay DEF Files, JournalTypes
<1>7. ASSUME NEW g \in Gaps PROVE FileOf(g)'
  <2>1. FileOf(g)
    BY DEF Files, FileInv
  <2> QED
    BY <1>2, <1>3, <2>1, GapIdAssumption DEF FileOf, Closing
<1> QED
  BY <1>2, <1>6, <1>7 DEF Files, FileInv

LEMMA TickKeepsFiles ==
  ASSUME Files, ClockInv, Tick PROVE Files'
<1>1. now \in Nat /\ now' \in Nat /\ now < now'
  BY LaterInstant DEF ClockInv, Tick
<1>2. UNCHANGED <<facts, state, since, until, task, observed, rolling, roller>>
  BY DEF Tick, journalVars
<1>3. JournalTypes'
  BY <1>2 DEF Files, JournalTypes
<1>4. FactInv'
  <2>1. facts' \subseteq facts \cup {} /\ {} \in SUBSET FactRecord /\ now <= now'
    BY <1>1, <1>2
  <2> QED
    BY <1>1, <2>1, FactsLater DEF Files, JournalTypes
<1>5. ASSUME NEW g \in Gaps PROVE FileOf(g)'
  <2>1. FileOf(g)
    BY DEF Files, FileInv
  <2>2. Closing(g) => observed[g] <= now' + 1
    BY <1>1, <2>1 DEF FileOf
  <2> QED
    BY <1>2, <2>1, <2>2 DEF FileOf, Closing, Midnight, Day
<1> QED
  BY <1>3, <1>4, <1>5 DEF Files, FileInv

LEMMA RollerStays ==
  ASSUME RollerInv, roller' = roller \/ roller' = IdleRoller PROVE RollerInv'
  BY DEF RollerInv, IdleRoller, Roller

\* The steps of the rollover.
LEMMA RollKeepsFiles ==
  ASSUME Files, ClockInv, RollerInv,
         StartRollover \/ RollRead \/ RollPublish \/ RollState \/ RollNext
  PROVE  Files' /\ RollerInv'
<1>0. now \in Nat /\ Day(now) \in Nat
  BY DayBounds DEF ClockInv
<1>1. CASE StartRollover
  <2> DEFINE T == {g \in Gaps : state[g] # None}
  <2>1. roller' = [IdleRoller EXCEPT !.todo = T] /\ T \in SUBSET Gaps
    BY <1>1 DEF StartRollover
  <2> HIDE DEF T
  <2>2. RollerInv' /\ roller'.gap = NoGap
    BY <2>1 DEF RollerInv, Roller, IdleRoller
  <2>3. UNCHANGED <<now, facts, state, since, until, task, observed, rolling>>
    BY <1>1 DEF StartRollover, journalVars
  <2> QED
    BY <2>2, <2>3, FilesStay, GapIdAssumption
<1>2. CASE RollRead
  <2>1. UNCHANGED <<now, facts, state, since, until, task, observed, rolling>>
    BY <1>2 DEF RollRead, journalVars
  <2>2. PICK g \in roller.todo :
          \/ /\ state[g] # None
             /\ roller' = [todo |-> roller.todo \ {g}, gap |-> g, day |-> Day(state[g]) + 1,
                           step |-> "facts"]
          \/ roller' = IdleRoller
    BY <1>2 DEF RollRead
  <2>3. CASE roller' = IdleRoller
    <3>1. roller'.gap = NoGap
      BY <2>3 DEF IdleRoller
    <3> QED
      BY <2>1, <2>3, <3>1, RollerStays, FilesStay, GapIdAssumption
  <2>4. CASE /\ state[g] # None
             /\ roller' = [todo |-> roller.todo \ {g}, gap |-> g, day |-> Day(state[g]) + 1,
                           step |-> "facts"]
    <3>1. g \in Gaps /\ roller.todo \in SUBSET Gaps
      BY DEF RollerInv, Roller
    <3>2. state[g] \in Nat /\ Day(state[g]) \in Nat
      BY <2>4, <3>1, DayBounds DEF Files, JournalTypes, Times
    <3>3. RollerInv' /\ roller'.gap = g
      BY <2>4, <3>1, <3>2 DEF RollerInv, Roller
    <3> QED
      BY <2>1, <2>4, <3>3, FilesStay
  <2> QED
    BY <2>2, <2>3, <2>4
<1>3. CASE RollPublish
  <2>1. /\ UNCHANGED <<now, state, since, until, task, observed, rolling>>
        /\ roller.step = "facts" /\ roller.day <= due
        /\ Published(RollFacts(roller.gap, roller.day))
        /\ roller' = [roller EXCEPT !.step = "state"]
    BY <1>3 DEF RollPublish
  <2>2. roller.gap \in Gaps /\ roller.day >= 1 /\ roller.day \in Nat
    BY <2>1 DEF RollerInv, Roller
  <2>3. roller.day <= Day(now)
    BY <1>0, <2>1, <2>2 DEF ClockInv
  <2>4. Midnight(roller.day) <= now
    BY <1>0, <2>2, <2>3, BegunDay
  <2>5. FactInv' /\ facts' \subseteq FactRecord
    BY <1>0, <2>1, <2>2, <2>4, RollKeepsFacts DEF Files
  <2>6. RollerInv' /\ roller'.gap = roller.gap
    BY <2>1, <2>2 DEF RollerInv, Roller
  <2>7. JournalTypes'
    BY <2>1, <2>5 DEF Files, JournalTypes
  <2>8. ASSUME NEW g \in Gaps PROVE FileOf(g)'
    BY <2>1, <2>6, FileStays DEF Files, FileInv
  <2> QED
    BY <2>5, <2>6, <2>7, <2>8 DEF Files, FileInv
<1>4. CASE RollState
  <2>1. /\ UNCHANGED <<now, facts, since, until, task, observed, rolling>>
        /\ roller.step = "state"
        /\ state' = [state EXCEPT ![roller.gap] = Midnight(roller.day)]
        /\ roller' = [roller EXCEPT !.day = roller.day + 1, !.step = "facts"]
    BY <1>4 DEF RollState
  <2>2. roller.gap \in Gaps /\ roller.day >= 1 /\ roller.day \in Nat /\ Midnight(roller.day) \in Nat
    BY <2>1, MidnightSteps DEF RollerInv, Roller
  <2>3. RollerInv' /\ roller'.gap = roller.gap
    <3>1. PICK e \in Nat : e = roller.day + 1 /\ e >= 1
      BY <2>2
    <3>2. roller' = [roller EXCEPT !.day = e, !.step = "facts"] /\ roller \in Roller
      BY <2>1, <3>1 DEF RollerInv
    <3>3. roller' \in Roller /\ roller'.gap = roller.gap /\ roller'.day = e
      BY <3>2 DEF Roller
    <3> QED
      BY <2>2, <3>1, <3>3 DEF RollerInv
  <2>4. state' \in [Gaps -> Times]
    BY <2>1, <2>2 DEF Files, JournalTypes, Times
  <2>5. JournalTypes' /\ FactInv'
    BY <2>1, <2>4, FactsStay DEF Files, JournalTypes
  <2>6. ASSUME NEW g \in Gaps PROVE FileOf(g)'
    <3>1. FileOf(g)
      BY DEF Files, FileInv
    <3>2. CASE g # roller.gap
      <4>1. state'[g] = state[g]
        BY <2>1, <2>2, <3>2 DEF Files, JournalTypes
      <4> QED
        BY <2>1, <2>3, <3>1, <4>1, FileStays
    <3>3. CASE g = roller.gap
      <4>1. state'[g] \in Nat
        BY <2>1, <2>2, <3>3 DEF Files, JournalTypes
      <4>2. task[g] \notin {"unused", "opening"}
        BY <3>1, <3>3 DEF FileOf
      <4> QED
        BY <2>1, <3>1, <4>1, <4>2 DEF FileOf, Closing, Midnight, Day
    <3> QED
      BY <3>2, <3>3
  <2> QED
    BY <2>3, <2>5, <2>6 DEF Files, FileInv
<1>5. CASE RollNext
  <2>1. UNCHANGED <<now, facts, state, since, until, task, observed, rolling>>
        /\ roller' = [IdleRoller EXCEPT !.todo = roller.todo]
    BY <1>5 DEF RollNext, journalVars
  <2> DEFINE T == roller.todo
  <2>2. T \in SUBSET Gaps /\ roller' = [IdleRoller EXCEPT !.todo = T]
    BY <2>1 DEF RollerInv, Roller
  <2> HIDE DEF T
  <2>3. RollerInv' /\ roller'.gap = NoGap
    BY <2>2 DEF RollerInv, Roller, IdleRoller
  <2> QED
    BY <2>1, <2>3, FilesStay, GapIdAssumption
<1> QED
  BY <1>1, <1>2, <1>3, <1>4, <1>5

\* The stop of the sources.
LEMMA StopKeepsFiles ==
  ASSUME Files, SourcesStop, UNCHANGED <<now, roller>> PROVE Files'
<1>1. UNCHANGED <<facts, state, since, until, observed, rolling>>
  BY DEF SourcesStop
<1>2. task' \in [Gaps -> Tasks]
  BY DEF SourcesStop, Files, JournalTypes, Tasks
<1>3. \A g \in Gaps : task'[g] = task[g] \/ task'[g] = "lost"
  BY DEF SourcesStop
<1> QED
  BY <1>1, <1>2, <1>3, TasksKeepFiles

\* The files' part of the invariant.
LEMMA FilesStep ==
  ASSUME ClockInv, Files, RollerInv, OwnerInv, Next PROVE Files' /\ RollerInv'
<1> USE DEF serviceVars, faultVars, Unserved, Unlisted, Unsourced
<1>0. now \in Nat
  BY DEF ClockInv
<1>1. ASSUME NEW g \in Gaps, JournalStep(g) PROVE Files' /\ RollerInv'
  BY <1>1, JournalKeepsFiles, RollerStays DEF JournalStep
<1>2. ASSUME NEW g \in Gaps, SourceOpens(g) PROVE Files' /\ RollerInv'
  <2>1. PICK from \in {now, Earlier(now)} : from >= up /\ OpenFact(g, from)
    BY <1>2 DEF SourceOpens
  <2>2. up \in Nat /\ Earlier(now) \in Int /\ Earlier(now) <= now
    BY <1>0, <1>2, EarlierIs DEF ClockInv, SourceOpens
  <2>3. from \in Nat /\ from <= now
    BY <1>0, <2>1, <2>2
  <2> QED
    BY <1>0, <1>2, <2>1, <2>3, OpenKeepsFiles, RollerStays DEF SourceOpens
<1>3. ASSUME NEW g \in Gaps, SourceCloses(g) PROVE Files' /\ RollerInv'
  BY <1>3, CloseKeepsFiles, RollerStays DEF SourceCloses
<1>4. CASE DiskFills \/ DiskDrains \/ Recovered \/ SourcesReady \/ SourcesTimeout \/ StaleClosed
           \/ StorageOpened \/ StorageRecovers \/ RolloverDone \/ SealDay \/ RequestStop
  <2>1. UNCHANGED <<now, journalVars, roller>>
    BY <1>4 DEF DiskFills, DiskDrains, Recovered, SourcesReady, SourcesTimeout, StaleClosed,
                StorageOpened, StorageRecovers, RolloverDone, SealDay, RequestStop
  <2> QED
    BY <2>1, FilesStay, RollerStays DEF journalVars
<1>5. CASE Tick
  BY <1>5, TickKeepsFiles, RollerStays DEF Tick
<1>6. CASE CloseStale
  BY <1>6, CloseKeepsFiles, RollerStays DEF CloseStale, OwnerInv
<1>7. CASE Boot
  <2>1. CASE lease = None /\ svc' = "list" /\ UNCHANGED journalVars
    BY <1>7, <2>1, FilesStay, RollerStays DEF Boot, journalVars
  <2>2. CASE /\ lease # None
             /\ OpenFact(Fresh, IF lease > SealedFloor THEN lease ELSE SealedFloor)
    <3> DEFINE from == IF lease > SealedFloor THEN lease ELSE SealedFloor
    <3>1. Day(now) \in Nat /\ Midnight(Day(now)) <= now /\ Midnight(Day(now)) \in Nat
      BY <1>0, DayBounds
    <3>2. SealedFloor \in Nat /\ SealedFloor <= Midnight(Day(now))
      BY <3>1, FloorIs DEF ClockInv
    <3>3. lease \in Nat /\ lease <= now
      BY <2>2 DEF ClockInv, Times
    <3>4. from \in Nat /\ from <= now
      BY <1>0, <3>1, <3>2, <3>3
    <3>5. OpenFact(Fresh, from)
      BY <2>2
    <3> HIDE DEF from
    <3> QED
      BY <1>0, <1>7, <3>4, <3>5, OpenKeepsFiles, RollerStays DEF Boot
  <2> QED
    BY <1>7, <2>1, <2>2 DEF Boot
<1>8. CASE ListStale
  <2>1. UNCHANGED <<now, roller, facts, state, since, until, observed, rolling>>
    BY <1>8 DEF ListStale
  <2>2. task' \in [Gaps -> Tasks]
    BY <1>8 DEF ListStale, Files, JournalTypes, Tasks
  <2>3. \A g \in Gaps : task'[g] = task[g] \/ (task'[g] = "open" /\ state[g] # None)
    BY <1>8 DEF ListStale
  <2> QED
    BY <2>1, <2>2, <2>3, TasksKeepFiles, RollerStays
<1>9. CASE StorageFull
  BY <1>0, <1>9, OpenKeepsFiles, RollerStays DEF StorageFull
<1>10. CASE StorageStops \/ StopSources
  BY <1>10, StopKeepsFiles, RollerStays DEF StorageStops, StopSources
<1>11. CASE StorageCloses
  <2>1. storageGap \in Gaps /\ UNCHANGED <<now, roller>>
    BY <1>11 DEF StorageCloses, OwnerInv
  <2>2. CASE StartClose(storageGap)
    BY <2>1, <2>2, CloseKeepsFiles, RollerStays
  <2>3. CASE UNCHANGED journalVars
    BY <2>1, <2>3, FilesStay, RollerStays DEF journalVars
  <2> QED
    BY <1>11, <2>2, <2>3 DEF StorageCloses
<1>12. CASE StartRollover \/ RollRead \/ RollPublish \/ RollState \/ RollNext
  BY <1>12, RollKeepsFiles
<1>13. CASE StopOpens
  <2>1. UNCHANGED <<now, roller>>
    BY <1>13 DEF StopOpens
  <2>2. CASE OpenFact(Fresh, now)
    BY <1>0, <2>1, <2>2, OpenKeepsFiles, RollerStays
  <2>3. CASE UNCHANGED journalVars
    BY <2>1, <2>3, FilesStay, RollerStays DEF journalVars
  <2> QED
    BY <1>13, <2>2, <2>3 DEF StopOpens
<1>14. CASE Stopped \/ Crash
  BY <1>0, <1>14, EndKeepsFiles DEF Stopped, Crash
<1> QED
  BY <1>1, <1>2, <1>3, <1>4, <1>5, <1>6, <1>7, <1>8, <1>9, <1>10, <1>11, <1>12, <1>13, <1>14
     DEF Next, Service

\* A step that does nothing to the gap.
LEMMA EndFactsStay ==
  ASSUME NEW g \in Gaps, EndFacts(g),
         task'[g] = task[g], state'[g] = state[g], observed'[g] = observed[g],
         until'[g] = until[g],
         facts \subseteq facts', \A f \in facts' : f.gap = g => f \in facts,
         roller'.gap # g \/ roller'.gap = roller.gap
  PROVE  EndFacts(g)'
<1>1. Closing(g)' = Closing(g)
  BY DEF Closing
<1>2. ASSUME Closing(g) \/ task[g] = "closed", NEW f \in facts', f.gap = g
      PROVE  IF f.state = "OPEN" THEN f.at < until[g] ELSE EndOf(f) <= until[g]
  BY <1>2 DEF EndFacts
<1>3. task[g] \in {"removing", "closed"} => Fact(g, "CLOSED", until[g], FALSE) \in facts'
  BY DEF EndFacts
<1> QED
  BY <1>1, <1>2, <1>3 DEF EndFacts, Fact, EndOf

LEMMA LateStays ==
  ASSUME NEW g \in Gaps, LateInTime(g), UNCHANGED <<now, sealed>>,
         Late(g)' => Late(g) /\ observed'[g] = observed[g],
         svc' = svc \/ svc' \notin {"bootStale", "stale", "grace", "rollover"},
         svc' = "rollover" => roller'.todo = roller.todo
  PROVE  LateInTime(g)'
  BY DEF LateInTime, Day

\* An open of another gap.
LEMMA OpenKeepsEnd ==
  ASSUME Files, NEW h, NEW from \in Nat, OpenFact(h, from), UNCHANGED <<now, sealed, roller>>,
         svc' = svc \/ svc' \notin {"bootStale", "stale", "grace", "rollover"},
         NEW g \in Gaps, EndOfGap(g)
  PROVE  EndOfGap(g)'
<1>1. /\ h \in Gaps /\ task[h] = "unused" /\ task' = [task EXCEPT ![h] = "opening"]
  BY OpeningClosesNothing DEF Files
<1>2. UNCHANGED <<state, observed, rolling, until>>
  BY DEF OpenFact
<1>3. facts \subseteq facts' /\ \A f \in facts' : f.gap # h => f \in facts
  <2>1. Fact(h, "OPEN", from, FALSE).gap = h
    BY DEF Fact
  <2> QED
    BY <2>1, PublishAdds DEF OpenFact
<1>4. CASE g # h
  <2>1. task'[g] = task[g]
    BY <1>1, <1>4 DEF Files, JournalTypes
  <2>2. EndFacts(g)'
    BY <1>2, <1>3, <1>4, <2>1, EndFactsStay DEF EndOfGap
  <2>3. Late(g)' => Late(g) /\ observed'[g] = observed[g]
    BY <1>2, <2>1 DEF Late, Day
  <2> QED
    BY <2>2, <2>3, LateStays DEF EndOfGap
<1>5. CASE g = h
  <2>1. task'[g] = "opening"
    BY <1>1, <1>5 DEF Files, JournalTypes
  <2>2. until[g] = None
    BY <1>1, <1>5 DEF EndOfGap, EndFacts, Closing
  <2> QED
    BY <1>2, <2>1, <2>2 DEF EndOfGap, EndFacts, LateInTime, Late, Closing
<1> QED
  BY <1>4, <1>5

\* The start of a close.
LEMMA CloseKeepsEnd ==
  ASSUME Files, ClockInv, NEW h \in Gaps, StartClose(h), UNCHANGED <<now, sealed, roller, svc>>,
         NEW g \in Gaps, g \notin raced', EndOfGap(g)
  PROVE  EndOfGap(g)'
<1>1. /\ UNCHANGED <<facts, state, since>> /\ task[h] = "open"
      /\ task' = [task EXCEPT ![h] = "closing"]
      /\ observed' = [observed EXCEPT ![h] = now + 1]
      /\ until' = [until EXCEPT ![h] = IF until[h] = None THEN now + 1 ELSE until[h]]
      /\ roller.gap = h => h \in raced'
  BY DEF StartClose
<1>2. CASE g # h
  <2>1. task'[g] = task[g] /\ observed'[g] = observed[g] /\ until'[g] = until[g]
    BY <1>1, <1>2 DEF Files, JournalTypes
  <2>2. EndFacts(g)'
    BY <1>1, <2>1, EndFactsStay DEF EndOfGap
  <2>3. Late(g)' => Late(g) /\ observed'[g] = observed[g]
    BY <2>1 DEF Late, Day
  <2> QED
    BY <2>2, <2>3, LateStays DEF EndOfGap
<1>3. CASE g = h
  <2>1. until[g] = None
    BY <1>1, <1>3 DEF EndOfGap, EndFacts, Closing
  <2>2. task'[g] = "closing" /\ observed'[g] = now + 1
    BY <1>1, <1>3 DEF Files, JournalTypes
  <2>3. until'[g] = now + 1
    <3>1. until'[g] = IF until[h] = None THEN now + 1 ELSE until[h]
      BY <1>1, <1>3 DEF Files, JournalTypes
    <3> QED
      BY <1>3, <2>1, <3>1
  <2>4. roller'.gap # g
    BY <1>1, <1>3
  <2>5. ASSUME NEW f \in facts PROVE IF f.state = "OPEN" THEN f.at < now + 1 ELSE EndOf(f) <= now + 1
    <3>1. f \in FactRecord /\ FactOK(f, now) /\ now \in Nat
      BY DEF Files, JournalTypes, FactInv, ClockInv
    <3> QED
      BY <3>1 DEF FactRecord, FactOK
  <2>6. EndFacts(g)'
    BY <1>1, <2>2, <2>3, <2>4, <2>5 DEF EndFacts, Closing, EndOf
  <2>7. ~Late(g)'
    <3>1. Day(now + 1) = Day(now)
      BY InstantBounds DEF ClockInv
    <3> QED
      BY <2>2, <3>1 DEF Late, Day
  <2> QED
    BY <2>6, <2>7 DEF EndOfGap, LateInTime
<1> QED
  BY <1>2, <1>3

\* One step of an open or of a close.
LEMMA JournalKeepsEnd ==
  ASSUME Files, ClockInv, NEW h \in Gaps, JournalStep(h), NEW g \in Gaps, EndOfGap(g)
  PROVE  EndOfGap(g)'
<1>0. UNCHANGED <<now, roller, sealed, svc>> /\ now \in Nat /\ FileOf(h)
  BY DEF JournalStep, ClockInv, Files, FileInv, serviceVars
<1>a. task \in [Gaps -> Tasks] /\ state \in [Gaps -> Times] /\ observed \in [Gaps -> Times]
      /\ until \in [Gaps -> Times] /\ rolling \in [Gaps -> Nat]
  BY DEF Files, JournalTypes
<1>b. /\ \A k \in Gaps : k # h => /\ task'[k] = task[k] /\ state'[k] = state[k]
                                  /\ observed'[k] = observed[k]
      /\ UNCHANGED until
  BY <1>a DEF JournalStep, OpenState, CloseRolls, CloseRolled, CloseFact, CloseRemoves
<1>c. facts \subseteq facts'
  BY PublishAdds DEF JournalStep, OpenState, CloseRolls, CloseRolled, CloseFact, CloseRemoves
<1>d. ASSUME task[h] \in {"closing", "rolled", "removing"}
      PROVE  /\ observed[h] \in Nat /\ rolling[h] >= 1 /\ rolling[h] \in Nat
             /\ Midnight(Day(observed[h])) < observed[h] /\ until[h] \in Nat /\ until[h] # None
  BY <1>0, <1>a, <1>d DEF FileOf, Closing, None
<1>e. \A f \in facts' : f.gap # h => f \in facts
  <2>1. CASE CloseRolls(h)
    BY <1>d, <2>1, PublishAdds, RollFactsAre DEF CloseRolls
  <2>2. CASE CloseFact(h)
    <3>1. Fact(h, "CLOSED", observed[h], FALSE).gap = h
      BY DEF Fact
    <3> QED
      BY <2>2, <3>1, PublishAdds DEF CloseFact
  <2> QED
    BY <2>1, <2>2 DEF JournalStep, OpenState, CloseRolled, CloseRemoves
<1>1. CASE g # h
  <2>1. EndFacts(g)'
    BY <1>0, <1>1, <1>b, <1>c, <1>e, EndFactsStay DEF EndOfGap
  <2>2. Late(g)' => Late(g) /\ observed'[g] = observed[g]
    BY <1>0, <1>1, <1>b DEF Late, Day
  <2> QED
    BY <1>0, <2>1, <2>2, LateStays DEF EndOfGap
<1>2. ASSUME g = h, OpenState(h) PROVE EndOfGap(g)'
  <2>1. task[g] = "opening" /\ task'[g] = "open" /\ until[g] = None
    BY <1>2, <1>a DEF OpenState, EndOfGap, EndFacts, Closing
  <2> QED
    BY <1>b, <2>1 DEF EndOfGap, EndFacts, LateInTime, Late, Closing
<1>3. ASSUME g = h, CloseRolls(h) PROVE EndOfGap(g)'
  <2>1. /\ task[g] = "closing" /\ task'[g] = "rolled" /\ UNCHANGED <<observed, until>>
        /\ rolling[g] <= Day(observed[g]) /\ Published(RollFacts(g, rolling[g]))
    BY <1>3, <1>a DEF CloseRolls, MustRoll
  <2>2. observed[g] = until[g] /\ until[g] # None /\ roller.gap # g
    BY <1>3, <1>d, <2>1 DEF EndOfGap, EndFacts, Closing
  <2>3. Midnight(rolling[g]) \in Nat /\ Midnight(rolling[g]) < until[g]
    <3>1. Midnight(rolling[g]) \in Nat /\ Midnight(rolling[g]) <= Midnight(Day(observed[g]))
          /\ Midnight(Day(observed[g])) \in Nat
      BY <1>3, <1>d, <2>1, BegunDay
    <3> QED
      BY <1>3, <1>d, <2>1, <2>2, <3>1
  <2>4. ASSUME NEW f \in facts', f.gap = g
        PROVE  IF f.state = "OPEN" THEN f.at < until[g] ELSE EndOf(f) <= until[g]
    <3>1. CASE f \in facts
      BY <2>1, <2>4, <3>1 DEF EndOfGap, EndFacts, Closing
    <3>2. CASE f \in RollFacts(g, rolling[g])
      <4>1. IF f.state = "OPEN" THEN f.at = Midnight(rolling[g]) ELSE EndOf(f) = Midnight(rolling[g])
        BY <1>3, <1>d, <2>1, <3>2, RollFactsAre
      <4>2. until[g] \in Nat
        BY <1>3, <1>d, <2>1
      <4> QED
        BY <2>3, <4>1, <4>2
    <3> QED
      BY <2>1, <3>1, <3>2, PublishAdds
  <2>5. EndFacts(g)'
    BY <1>0, <2>1, <2>2, <2>4 DEF EndFacts, Closing, EndOf
  <2>6. Late(g)' => Late(g) /\ observed'[g] = observed[g]
    BY <1>0, <2>1 DEF Late, Day
  <2> QED
    BY <1>0, <2>5, <2>6, LateStays DEF EndOfGap
<1>4. ASSUME g = h, CloseRolled(h) PROVE EndOfGap(g)'
  <2>1. task[g] = "rolled" /\ task'[g] = "closing" /\ UNCHANGED <<facts, observed, until>>
    BY <1>4, <1>a DEF CloseRolled
  <2>2. EndFacts(g)'
    BY <1>0, <2>1 DEF EndOfGap, EndFacts, Closing, EndOf
  <2>3. Late(g)' => Late(g) /\ observed'[g] = observed[g]
    BY <1>0, <2>1 DEF Late, Day
  <2> QED
    BY <1>0, <2>2, <2>3, LateStays DEF EndOfGap
<1>5. ASSUME g = h, CloseFact(h) PROVE EndOfGap(g)'
  <2> DEFINE f == Fact(g, "CLOSED", until[g], FALSE)
  <2>1. task[g] = "closing" /\ task'[g] = "removing" /\ UNCHANGED <<observed, until>>
    BY <1>5, <1>a DEF CloseFact
  <2>2. observed[g] = until[g] /\ until[g] \in Nat /\ until[g] # None /\ roller.gap # g
    BY <1>5, <1>d, <2>1 DEF EndOfGap, EndFacts, Closing
  <2>3. Published({f})
    BY <1>5, <2>2 DEF CloseFact
  <2>4. f.at = until[g] /\ EndOf(f) = until[g] /\ f.state = "CLOSED"
    BY DEF Fact, EndOf
  <2>5. f \in facts'
    <3>1. Day(until[g]) \notin sealed
      <4>1. CASE Late(g)
        BY <2>2, <4>1 DEF EndOfGap, LateInTime
      <4>2. CASE ~Late(g)
        <5>1. Day(until[g]) = Day(now) /\ Day(now) \in Nat
          BY <1>0, <2>1, <2>2, <4>2, DayBounds DEF Late
        <5> QED
          BY <5>1 DEF ClockInv
      <4> QED
        BY <4>1, <4>2
    <3> HIDE DEF f
    <3> QED
      BY <2>3, <2>4, <3>1, PublishAdds
  <2>6. ASSUME NEW k \in facts', k.gap = g
        PROVE  IF k.state = "OPEN" THEN k.at < until[g] ELSE EndOf(k) <= until[g]
    <3> HIDE DEF f
    <3>1. CASE k \in facts
      BY <2>1, <2>6, <3>1 DEF EndOfGap, EndFacts, Closing
    <3>2. CASE k = f
      BY <2>2, <2>4, <3>2
    <3>3. facts' \subseteq facts \cup {f}
      BY <2>3, PublishAdds
    <3> QED
      BY <3>1, <3>2, <3>3
  <2>7. EndFacts(g)'
    BY <1>0, <2>1, <2>2, <2>5, <2>6 DEF EndFacts, Closing, EndOf, Fact
  <2>8. ~Late(g)'
    BY <2>1 DEF Late
  <2> QED
    BY <2>7, <2>8 DEF EndOfGap, LateInTime
<1>6. ASSUME g = h, CloseRemoves(h) PROVE EndOfGap(g)'
  <2>1. task[g] = "removing" /\ task'[g] = "closed" /\ UNCHANGED <<facts, until>> /\ state'[g] = None
    BY <1>6, <1>a DEF CloseRemoves
  <2>2. until[g] # None /\ roller.gap # g
    BY <1>6, <1>d, <2>1 DEF EndOfGap, EndFacts, Closing
  <2>3. EndFacts(g)'
    BY <1>0, <2>1, <2>2 DEF EndOfGap, EndFacts, Closing, EndOf, Fact
  <2>4. ~Late(g)'
    BY <2>1 DEF Late
  <2> QED
    BY <2>3, <2>4 DEF EndOfGap, LateInTime
<1> QED
  BY <1>1, <1>2, <1>3, <1>4, <1>5, <1>6 DEF JournalStep

\* Steps in which the journal does nothing.
LEMMA QuietKeepsEnd ==
  ASSUME NEW g \in Gaps, EndOfGap(g), UNCHANGED <<now, journalVars, sealed>>,
         roller'.gap # g \/ roller'.gap = roller.gap,
         svc' = svc \/ svc' \notin {"bootStale", "stale", "grace", "rollover"},
         svc' = "rollover" => roller'.todo = roller.todo
  PROVE  EndOfGap(g)'
<1>1. EndFacts(g)'
  BY EndFactsStay DEF EndOfGap, journalVars
<1>2. Late(g)' => Late(g) /\ observed'[g] = observed[g]
  BY DEF Late, Day, journalVars
<1> QED
  BY <1>1, <1>2, LateStays DEF EndOfGap

\* Steps in which the journal does nothing, and no close is late.
LEMMA NotLateKeepsEnd ==
  ASSUME NEW g \in Gaps, EndOfGap(g), UNCHANGED <<now, journalVars>>, ~Late(g),
         roller'.gap # g \/ roller'.gap = roller.gap
  PROVE  EndOfGap(g)'
<1>1. EndFacts(g)'
  BY EndFactsStay DEF EndOfGap, journalVars
<1>2. ~Late(g)'
  BY DEF Late, Day, journalVars
<1> QED
  BY <1>1, <1>2 DEF EndOfGap, LateInTime

LEMMA StopKeepsEnd ==
  ASSUME Files, SourcesStop, UNCHANGED <<now, sealed, roller>>,
         svc' \notin {"bootStale", "stale", "grace", "rollover"},
         NEW g \in Gaps, EndOfGap(g)
  PROVE  EndOfGap(g)'
<1>1. UNCHANGED <<facts, state, observed, until>>
  BY DEF SourcesStop
<1>2. task'[g] = task[g] \/ (task'[g] = "lost" /\ task[g] = "open")
  BY DEF SourcesStop
<1>3. CASE task'[g] = task[g]
  <2>1. EndFacts(g)'
    BY <1>1, <1>3, EndFactsStay DEF EndOfGap
  <2>2. Late(g)' => Late(g) /\ observed'[g] = observed[g]
    BY <1>1, <1>3 DEF Late, Day
  <2> QED
    BY <2>1, <2>2, LateStays DEF EndOfGap
<1>4. CASE task'[g] = "lost" /\ task[g] = "open"
  <2>1. until[g] = None
    BY <1>4 DEF EndOfGap, EndFacts, Closing
  <2> QED
    BY <1>1, <1>4, <2>1 DEF EndOfGap, EndFacts, LateInTime, Late, Closing
<1> QED
  BY <1>2, <1>3, <1>4

\* A requested stop: nobody is closing when the process ends.
LEMMA EndKeepsEnd ==
  ASSUME Files, OwnerInv, Stopped, NEW g \in Gaps, EndOfGap(g)
  PROVE  EndOfGap(g)'
<1>1. ~Closing(g) /\ FileOf(g)
  BY NoCloserAtStart DEF Stopped, Files, FileInv
<1>2. /\ task'[g] = (IF task[g] \in {"unused", "closed"} THEN task[g] ELSE "lost")
      /\ until'[g] = (IF task[g] = "opening" THEN now ELSE until[g])
      /\ UNCHANGED <<facts, state>> /\ roller' = IdleRoller
  BY DEF Stopped, ProcessEnds
<1>3. roller'.gap # g
  BY <1>2, GapIdAssumption DEF IdleRoller
<1>4. ~Closing(g)' /\ ~Late(g)'
  BY <1>2 DEF Closing, Late
<1>5. CASE task[g] = "closed"
  <2>1. task'[g] = "closed" /\ until'[g] = until[g]
    BY <1>2, <1>5
  <2>2. EndFacts(g)'
    <3>1. \A f \in facts : f.gap = g =>
            IF f.state = "OPEN" THEN f.at < until[g] ELSE EndOf(f) <= until[g]
      BY <1>5 DEF EndOfGap, EndFacts
    <3>2. Fact(g, "CLOSED", until[g], FALSE) \in facts /\ (until[g] # None => state[g] = None)
      BY <1>1, <1>5 DEF EndOfGap, EndFacts
    <3> QED
      BY <1>2, <1>3, <1>4, <2>1, <3>1, <3>2 DEF EndFacts, EndOf, Fact
  <2> QED
    BY <1>4, <2>2 DEF EndOfGap, LateInTime
<1>6. CASE task[g] = "opening"
  <2>1. state[g] = None /\ task'[g] = "lost"
    BY <1>1, <1>2, <1>6 DEF FileOf
  <2> QED
    BY <1>2, <1>3, <1>4, <2>1 DEF EndOfGap, EndFacts, LateInTime
<1>7. CASE task[g] \notin {"closed", "opening"}
  <2>1. task'[g] \notin {"removing", "closed"} /\ until'[g] = until[g]
    BY <1>2, <1>7
  <2>2. until[g] # None => task[g] = "lost" /\ state[g] = None
    BY <1>1, <1>7 DEF EndOfGap, EndFacts
  <2> QED
    BY <1>2, <1>3, <1>4, <2>1, <2>2 DEF EndOfGap, EndFacts, LateInTime
<1> QED
  BY <1>5, <1>6, <1>7

\* Midnight passes: the closes that it makes late are of the day just ended.
LEMMA TickKeepsEnd ==
  ASSUME ClockInv, Tick, NEW g \in Gaps, EndOfGap(g) PROVE EndOfGap(g)'
<1>1. UNCHANGED <<facts, state, since, until, task, observed, rolling, roller, sealed, svc>>
  BY DEF Tick, journalVars, serviceVars
<1>2. EndFacts(g)'
  BY <1>1, EndFactsStay DEF EndOfGap
<1>3. ASSUME Late(g)' PROVE /\ Day(observed[g]) \notin sealed
                            /\ svc \notin {"bootStale", "stale", "grace"}
                            /\ svc = "rollover" => g \in roller.todo
  <2>1. Closing(g) /\ task[g] \in {"closing", "rolled"} /\ Day(observed[g]) # Day(now')
    BY <1>1, <1>3 DEF Late, Closing, Day
  <2>2. CASE Day(now') = Day(now)
    BY <2>1, <2>2 DEF EndOfGap, LateInTime, Late
  <2>3. CASE Day(now') # Day(now)
    <3>1. observed[g] = now + 1 /\ Day(now + 1) = Day(now) /\ Day(now) \in Nat
      BY <2>1, InstantBounds, DayBounds DEF Tick, ClockInv
    <3>2. svc \notin {"bootStale", "stale"} /\ due = 0
      BY <2>3 DEF Tick
    <3> QED
      BY <3>1, <3>2 DEF ClockInv
  <2> QED
    BY <2>2, <2>3
<1> QED
  BY <1>1, <1>2, <1>3 DEF EndOfGap, LateInTime, Day

\* The rollover leaves a gap alone that is closed, and races with one that is
\* being closed.
LEMMA RollKeepsEnd ==
  ASSUME Files, ClockInv, RollerInv, NEW g \in Gaps, g \notin raced', EndOfGap(g),
         StartRollover \/ RollRead \/ RollPublish \/ RollState \/ RollNext
  PROVE  EndOfGap(g)'
<1>0. FileOf(g)
  BY DEF Files, FileInv
<1>1. CASE StartRollover
  <2> DEFINE T == {k \in Gaps : state[k] # None}
  <2>1. roller' = [IdleRoller EXCEPT !.todo = T] /\ UNCHANGED <<now, journalVars, sealed>>
    BY <1>1 DEF StartRollover
  <2>2. Late(g) => g \in T
    BY <1>0 DEF Late, FileOf, None
  <2> HIDE DEF T
  <2>3. roller'.gap # g /\ roller'.todo = T
    BY <2>1, GapIdAssumption DEF IdleRoller
  <2>4. EndFacts(g)'
    BY <2>1, <2>3, EndFactsStay DEF EndOfGap, journalVars
  <2>5. Late(g)' => Late(g) /\ observed' = observed
    BY <2>1 DEF Late, Day, journalVars
  <2>6. svc' = "rollover"
    BY <1>1 DEF StartRollover
  <2> QED
    BY <2>1, <2>2, <2>3, <2>4, <2>5, <2>6 DEF EndOfGap, LateInTime, Day
<1>2. CASE RollRead
  <2>1. UNCHANGED <<now, journalVars, sealed>> /\ svc = "rollover"
    BY <1>2 DEF RollRead
  <2>2. PICK k \in roller.todo :
          \/ /\ state[k] # None
             /\ roller' = [todo |-> roller.todo \ {k}, gap |-> k, day |-> Day(state[k]) + 1,
                           step |-> "facts"]
             /\ raced' = IF Closing(k) THEN raced \cup {k} ELSE raced
             /\ UNCHANGED svc
          \/ roller' = IdleRoller /\ svc' = "stop"
    BY <1>2 DEF RollRead
  <2>3. CASE roller' = IdleRoller /\ svc' = "stop"
    <3>1. roller'.gap # g
      BY <2>3, GapIdAssumption DEF IdleRoller
    <3> QED
      BY <2>1, <2>3, <3>1, QuietKeepsEnd
  <2>4. CASE /\ state[k] # None
             /\ roller' = [todo |-> roller.todo \ {k}, gap |-> k, day |-> Day(state[k]) + 1,
                           step |-> "facts"]
             /\ raced' = IF Closing(k) THEN raced \cup {k} ELSE raced
             /\ UNCHANGED svc
    <3>1. roller'.gap = k /\ roller'.todo = roller.todo \ {k}
      BY <2>4
    <3>2. g = k => ~Closing(g) /\ until[g] = None
      BY <2>4 DEF EndOfGap, EndFacts
    <3>3. EndFacts(g)'
      <4>1. CASE g # k
        BY <2>1, <3>1, <4>1, EndFactsStay DEF EndOfGap, journalVars
      <4>2. CASE g = k
        <5>1. until'[g] = None /\ ~Closing(g)' /\ task'[g] = task[g] /\ task[g] # "closed"
          BY <1>0, <2>1, <3>2, <4>2 DEF journalVars, Closing, FileOf, None
        <5> QED
          BY <5>1 DEF EndFacts, Closing
      <4> QED
        BY <4>1, <4>2
    <3>4. Late(g)' => Late(g) /\ g # k /\ observed' = observed
      BY <2>1, <3>2 DEF Late, Day, Closing, journalVars
    <3> QED
      BY <2>1, <2>4, <3>1, <3>3, <3>4 DEF EndOfGap, LateInTime, Day
  <2> QED
    BY <2>2, <2>3, <2>4
<1>3. CASE RollPublish
  <2>1. /\ UNCHANGED <<now, state, since, until, task, observed, rolling, sealed, svc>>
        /\ roller.step = "facts" /\ Published(RollFacts(roller.gap, roller.day))
        /\ roller' = [roller EXCEPT !.step = "state"]
    BY <1>3 DEF RollPublish, serviceVars
  <2>2. roller.gap \in Gaps /\ roller.day >= 1 /\ roller.day \in Nat
    BY <2>1 DEF RollerInv, Roller
  <2>3. facts \subseteq facts' /\ \A f \in facts' : f.gap # roller.gap => f \in facts
    BY <2>1, <2>2, PublishAdds, RollFactsAre
  <2>4. roller'.gap = roller.gap /\ roller'.todo = roller.todo
    BY <2>1 DEF RollerInv, Roller
  <2>5. EndFacts(g)'
    <3>1. CASE g # roller.gap
      BY <2>1, <2>3, <2>4, <3>1, EndFactsStay DEF EndOfGap
    <3>2. CASE g = roller.gap
      <4>1. until[g] = None /\ ~Closing(g) /\ task[g] # "closed"
        BY <1>0, <3>2 DEF EndOfGap, EndFacts, FileOf, None
      <4> QED
        BY <2>1, <4>1 DEF EndFacts, Closing
    <3> QED
      BY <3>1, <3>2
  <2>6. Late(g)' => Late(g) /\ observed'[g] = observed[g]
    BY <2>1 DEF Late, Day
  <2> QED
    BY <2>1, <2>4, <2>5, <2>6, LateStays DEF EndOfGap
<1>4. CASE RollState
  <2>1. /\ UNCHANGED <<now, facts, until, task, observed, sealed, svc>>
        /\ state' = [state EXCEPT ![roller.gap] = Midnight(roller.day)]
        /\ roller' = [roller EXCEPT !.day = roller.day + 1, !.step = "facts"]
    BY <1>4 DEF RollState, serviceVars
  <2>2. roller'.gap = roller.gap /\ roller'.todo = roller.todo
    BY <2>1 DEF RollerInv, Roller
  <2>3. EndFacts(g)'
    <3>1. CASE g # roller.gap
      <4>1. state'[g] = state[g]
        BY <2>1, <3>1 DEF Files, JournalTypes
      <4> QED
        BY <2>1, <2>2, <4>1, EndFactsStay DEF EndOfGap
    <3>2. CASE g = roller.gap
      <4>1. until[g] = None /\ ~Closing(g) /\ task[g] # "closed"
        BY <1>0, <3>2 DEF EndOfGap, EndFacts, FileOf, None
      <4> QED
        BY <2>1, <4>1 DEF EndFacts, Closing
    <3> QED
      BY <3>1, <3>2
  <2>4. Late(g)' => Late(g) /\ observed'[g] = observed[g]
    BY <2>1 DEF Late, Day
  <2> QED
    BY <2>1, <2>2, <2>3, <2>4, LateStays DEF EndOfGap
<1>5. CASE RollNext
  <2>1. UNCHANGED <<now, journalVars, sealed, svc>>
        /\ roller' = [IdleRoller EXCEPT !.todo = roller.todo]
    BY <1>5 DEF RollNext, serviceVars
  <2>2. roller'.gap # g /\ roller'.todo = roller.todo
    BY <2>1, GapIdAssumption DEF IdleRoller
  <2> QED
    BY <2>1, <2>2, QuietKeepsEnd
<1> QED
  BY <1>1, <1>2, <1>3, <1>4, <1>5

\* Which gaps race, and how many crashes there were, only grows.
LEMMA FaultsGrow ==
  ASSUME Next, crashes \in Nat
  PROVE  raced \subseteq raced' /\ (crashes' = 0 => crashes = 0 /\ ~RequestStop /\ ~Crash)
<1> USE DEF serviceVars, faultVars, Unserved, Unlisted, Unsourced
<1>1. CASE \E g \in Gaps : JournalStep(g) \/ SourceOpens(g) \/ SourceCloses(g)
  BY <1>1 DEF JournalStep, SourceOpens, SourceCloses, StartClose, RequestStop, Crash
<1>2. CASE DiskFills \/ DiskDrains \/ Tick \/ RequestStop \/ Crash \/ SourcesReady \/ SourcesTimeout
  BY <1>2 DEF DiskFills, DiskDrains, Tick, RequestStop, Crash, SourcesReady, SourcesTimeout
<1>3. CASE Boot \/ Recovered \/ ListStale \/ CloseStale \/ StaleClosed
  BY <1>3 DEF Boot, Recovered, ListStale, CloseStale, StaleClosed, StartClose, RequestStop, Crash
<1>4. CASE StorageFull \/ StorageOpened \/ StorageStops \/ StorageRecovers \/ StorageCloses
  BY <1>4 DEF StorageFull, StorageOpened, StorageStops, StorageRecovers, StorageCloses, StartClose,
              RequestStop, Crash
<1>5. CASE StartRollover \/ RollRead \/ RollPublish \/ RollState \/ RollNext \/ RolloverDone
  BY <1>5 DEF StartRollover, RollRead, RollPublish, RollState, RollNext, RolloverDone, RequestStop,
              Crash
<1>6. CASE SealDay \/ StopOpens \/ StopSources \/ Stopped
  BY <1>6 DEF SealDay, StopOpens, StopSources, Stopped, RequestStop, Crash
<1> QED
  BY <1>1, <1>2, <1>3, <1>4, <1>5, <1>6 DEF Next, Service

\* The part of the invariant about ended gaps.
LEMMA EndStep ==
  ASSUME ClockInv, Files, RollerInv, OwnerInv, EndInv, Next PROVE EndInv'
<1> USE DEF serviceVars, faultVars, Unserved, Unlisted, Unsourced
<1> SUFFICES ASSUME crashes' = 0, NEW g \in Gaps, g \notin raced' PROVE EndOfGap(g)'
  BY DEF EndInv
<1>0. now \in Nat /\ FileOf(g) /\ ~RequestStop /\ ~Crash /\ EndOfGap(g)
  BY FaultsGrow DEF ClockInv, Files, FileInv, EndInv
<1>1. ASSUME NEW h \in Gaps, JournalStep(h) PROVE EndOfGap(g)'
  BY <1>0, <1>1, JournalKeepsEnd
<1>2. ASSUME NEW h \in Gaps, SourceOpens(h) PROVE EndOfGap(g)'
  <2>1. PICK from \in {now, Earlier(now)} : from >= up /\ OpenFact(h, from)
    BY <1>2 DEF SourceOpens
  <2>2. up \in Nat /\ Earlier(now) \in Int
    BY <1>0, <1>2, EarlierIs DEF ClockInv, SourceOpens
  <2>3. from \in Nat
    BY <1>0, <2>1, <2>2
  <2> QED
    BY <1>0, <1>2, <2>1, <2>3, OpenKeepsEnd DEF SourceOpens
<1>3. ASSUME NEW h \in Gaps, SourceCloses(h) PROVE EndOfGap(g)'
  BY <1>0, <1>3, CloseKeepsEnd DEF SourceCloses
<1>4. CASE DiskFills \/ DiskDrains \/ Recovered \/ SourcesTimeout \/ StorageOpened \/ StorageRecovers
  <2>1. UNCHANGED <<now, journalVars, sealed, roller>>
        /\ (svc' = svc \/ svc' \notin {"bootStale", "stale", "grace", "rollover"})
    BY <1>4 DEF DiskFills, DiskDrains, Recovered, SourcesTimeout, StorageOpened, StorageRecovers
  <2> QED
    BY <1>0, <2>1, QuietKeepsEnd
<1>5. CASE Tick
  BY <1>0, <1>5, TickKeepsEnd
<1>6. CASE CloseStale
  BY <1>0, <1>6, CloseKeepsEnd DEF CloseStale, OwnerInv
<1>7. CASE Boot
  <2>1. UNCHANGED <<now, sealed, roller>> /\ svc' \in {"recover", "list"}
    BY <1>7 DEF Boot
  <2>2. CASE UNCHANGED journalVars
    BY <1>0, <2>1, <2>2, QuietKeepsEnd
  <2>3. CASE /\ lease # None
             /\ OpenFact(Fresh, IF lease > SealedFloor THEN lease ELSE SealedFloor)
    <3> DEFINE from == IF lease > SealedFloor THEN lease ELSE SealedFloor
    <3>1. SealedFloor \in Nat
      BY <1>0, DayBounds, FloorIs DEF ClockInv
    <3>2. from \in Nat
      BY <2>3, <3>1 DEF ClockInv, Times
    <3>3. OpenFact(Fresh, from)
      BY <2>3
    <3> HIDE DEF from
    <3> QED
      BY <1>0, <2>1, <3>2, <3>3, OpenKeepsEnd
  <2> QED
    BY <1>7, <2>2, <2>3 DEF Boot
<1>8. CASE ListStale
  <2>1. ~Closing(g)
    BY <1>8, NoCloserAtStart DEF ListStale, ClockInv
  <2>2. UNCHANGED <<now, roller, sealed, facts, state, until, observed>>
        /\ task'[g] = (IF state[g] # None THEN "open" ELSE task[g])
        /\ svc' \in {"up", "bootSources"}
    BY <1>8 DEF ListStale
  <2>3. CASE state[g] = None
    <3>1. EndFacts(g)'
      BY <1>0, <2>2, <2>3, EndFactsStay DEF EndOfGap
    <3>2. ~Late(g)'
      BY <2>1, <2>2, <2>3 DEF Late, Closing
    <3> QED
      BY <3>1, <3>2 DEF EndOfGap, LateInTime
  <2>4. CASE state[g] # None
    <3>1. until[g] = None /\ task'[g] = "open"
      BY <1>0, <2>1, <2>2, <2>4 DEF EndOfGap, EndFacts
    <3> QED
      BY <2>2, <3>1 DEF EndOfGap, EndFacts, LateInTime, Late, Closing
  <2> QED
    BY <2>3, <2>4
<1>9. CASE SourcesReady
  <2>1. ~Late(g)
    BY <1>9, NoCloserAtStart DEF SourcesReady, ClockInv, Late, Closing
  <2> QED
    BY <1>0, <1>9, <2>1, NotLateKeepsEnd DEF SourcesReady
<1>10. CASE StaleClosed
  <2>1. ~Late(g)
    BY <1>0, <1>10 DEF StaleClosed, EndOfGap, LateInTime
  <2> QED
    BY <1>0, <1>10, <2>1, NotLateKeepsEnd DEF StaleClosed
<1>11. CASE SealDay
  <2>1. ~Late(g)
    BY <1>0, <1>11 DEF SealDay, EndOfGap, LateInTime
  <2> QED
    BY <1>0, <1>11, <2>1, NotLateKeepsEnd DEF SealDay
<1>12. CASE RolloverDone
  <2>1. ~Late(g)
    BY <1>0, <1>12 DEF RolloverDone, EndOfGap, LateInTime, IdleRoller
  <2> QED
    BY <1>0, <1>12, <2>1, NotLateKeepsEnd DEF RolloverDone
<1>13. CASE StorageFull
  BY <1>0, <1>13, OpenKeepsEnd DEF StorageFull
<1>14. CASE StorageStops \/ StopSources
  BY <1>0, <1>14, StopKeepsEnd DEF StorageStops, StopSources
<1>15. CASE StorageCloses
  <2>1. storageGap \in Gaps /\ UNCHANGED <<now, sealed, roller>>
    BY <1>15 DEF StorageCloses, OwnerInv
  <2>2. CASE StartClose(storageGap) /\ UNCHANGED serviceVars
    BY <1>0, <2>1, <2>2, CloseKeepsEnd
  <2>3. CASE svc' = "up" /\ UNCHANGED journalVars
    BY <1>0, <2>1, <2>3, QuietKeepsEnd
  <2> QED
    BY <1>15, <2>2, <2>3 DEF StorageCloses
<1>16. CASE StartRollover \/ RollRead \/ RollPublish \/ RollState \/ RollNext
  BY <1>0, <1>16, RollKeepsEnd
<1>17. CASE StopOpens
  <2>1. UNCHANGED <<now, sealed, roller>> /\ svc' = "stopping"
    BY <1>17 DEF StopOpens
  <2>2. CASE OpenFact(Fresh, now)
    BY <1>0, <2>1, <2>2, OpenKeepsEnd
  <2>3. CASE UNCHANGED journalVars
    BY <1>0, <2>1, <2>3, QuietKeepsEnd
  <2> QED
    BY <1>17, <2>2, <2>3 DEF StopOpens
<1>18. CASE Stopped
  BY <1>0, <1>18, EndKeepsEnd
<1> QED
  BY <1>0, <1>1, <1>2, <1>3, <1>4, <1>5, <1>6, <1>7, <1>8, <1>9, <1>10, <1>11, <1>12, <1>13, <1>14,
     <1>15, <1>16, <1>17, <1>18 DEF Next, Service

LEMMA GapInit ==
  ASSUME Init PROVE GapInv
<1>1. now = 2 /\ Instant(2)
  BY LengthIs DEF Init, Instant
<1>2. ClockInv
  <2>1. Day(now) \in Nat
    BY <1>1, DayBounds
  <2> QED
    BY <1>1, <2>1 DEF Init, ClockInv, Times, None
<1>3. JournalTypes /\ FactInv
  BY DEF Init, JournalTypes, FactInv, Times, Tasks
<1>4. RollerInv /\ roller.gap = NoGap
  BY DEF Init, RollerInv, IdleRoller, Roller
<1>5. FileInv
  BY <1>4, GapIdAssumption DEF Init, FileInv, FileOf, Closing
<1>6. OwnerInv
  BY DEF Init, OwnerInv, Closing
<1>7. EndInv
  BY DEF Init, EndInv, EndOfGap, EndFacts, LateInTime, Late, Closing
<1> QED
  BY <1>2, <1>3, <1>4, <1>5, <1>6, <1>7 DEF GapInv

LEMMA GapStep ==
  ASSUME GapInv, [Next]_vars PROVE GapInv'
<1>1. CASE Next
  BY <1>1, ClockStep, OwnerStep, FilesStep, EndStep DEF GapInv, Files
<1>2. CASE UNCHANGED vars
  <2>1. UNCHANGED <<now, journalVars, roller>> /\ UNCHANGED clockVars
        /\ UNCHANGED <<stale, storageGap, svc, running, raced>>
    BY <1>2 DEF vars, clockVars, serviceVars, faultVars
  <2>2. ClockInv' /\ RollerInv'
    BY <2>1, ClockStays, RollerStays DEF GapInv
  <2>3. Files'
    BY <2>1, FilesStay DEF GapInv, Files, journalVars
  <2>4. OwnerInv'
    BY <2>1, SameClosings, OwnerStays DEF GapInv, journalVars
  <2>5. EndInv'
    BY <2>1, QuietKeepsEnd DEF GapInv, EndInv, clockVars
  <2> QED
    BY <2>2, <2>3, <2>4, <2>5 DEF GapInv, Files
<1> QED
  BY <1>1, <1>2

\* A fact that has a later one of its gap has a next one.
Rank(h) == 2 * h.at + (IF h.state = "OPEN" THEN 1 ELSE 0)

LEMMA NextExists ==
  ASSUME NEW S \in SUBSET FactRecord, NEW f \in S, NEW c \in S, Before(f, c)
  PROVE  NextFact(S, f) # {}
<1> DEFINE H == {h \in S : Before(f, h)}
           T == {Rank(h) : h \in H}
<1>1. \A h \in FactRecord : Rank(h) \in Nat
  BY DEF FactRecord, Rank
<1>2. T \subseteq Nat /\ T # {}
  BY <1>1
<1>3. PICK x \in T : \A y \in T : x <= y
  BY <1>2, LeastNumber
<1>4. PICK h \in H : x = Rank(h)
  BY <1>3
<1>5. ASSUME NEW k \in S, Before(f, k), Before(k, h) PROVE FALSE
  <2>1. Rank(k) \in T /\ Rank(h) <= Rank(k)
    BY <1>3, <1>4, <1>5
  <2>2. Rank(k) < Rank(h)
    <3>1. k.at \in Nat /\ h.at \in Nat
      BY DEF FactRecord
    <3>2. k.at < h.at \/ (k.at = h.at /\ k.state = "CLOSED" /\ h.state = "OPEN")
      BY <1>5 DEF Before
    <3> QED
      BY <3>1, <3>2 DEF Rank
  <2> QED
    BY <1>1, <2>1, <2>2
<1>6. h \in NextFact(S, f)
  BY <1>4, <1>5 DEF NextFact
<1> QED
  BY <1>6

LEMMA EndsByFacts ==
  ASSUME GapInv PROVE ClosedGapEnds
<1> SUFFICES ASSUME NEW g \in Gaps \ raced, task[g] = "closed", crashes = 0, NEW d \in 0 .. Day(now),
                    NEW t \in Points(Intervals({f \in FactsOf(d) : f.gap = g}, Midnight(d + 1)))
             PROVE  t < until[g]
  BY DEF ClosedGapEnds
<1> DEFINE S == {f \in FactsOf(d) : f.gap = g}
           u == until[g]
           c == Fact(g, "CLOSED", u, FALSE)
<1>1. EndFacts(g) /\ FileOf(g)
  BY DEF GapInv, EndInv, EndOfGap, FileInv
<1>2. u \in Nat /\ c \in facts
  BY <1>1 DEF FileOf, EndFacts
<1>3. \A f \in facts : f.gap = g => IF f.state = "OPEN" THEN f.at < u ELSE EndOf(f) <= u
  BY <1>1 DEF EndFacts
<1>4. S \in SUBSET FactRecord /\ S \subseteq facts /\ \A f \in S : f.gap = g /\ Day(f.at) = d
  BY DEF GapInv, JournalTypes, FactsOf
<1>5. c.gap = g /\ c.state = "CLOSED" /\ c.at = u
  BY DEF Fact
<1>6. Day(u) = d => c \in S
  BY <1>2, <1>5 DEF FactsOf
<1> HIDE DEF S, u, c
<1>7. PICK i \in Intervals(S, Midnight(d + 1)) : t \in i[1] .. i[2] - 1
  BY DEF Points, S
<1>8. ASSUME NEW p \in S, NEW q \in S, q.state = "CLOSED", i = <<p.at, EndOf(q)>>
      PROVE  t < u
  <2>1. p \in FactRecord /\ q \in FactRecord /\ EndOf(q) <= u
    BY <1>3, <1>4, <1>8
  <2>2. p.at \in Nat /\ EndOf(q) \in Nat
    BY <2>1 DEF FactRecord, EndOf
  <2>3. t \in p.at .. EndOf(q) - 1
    BY <1>7, <1>8
  <2> QED
    BY <1>2, <2>1, <2>2, <2>3
<1>9. ASSUME NEW f \in S, f.state = "OPEN", NextFact(S, f) = {}, i = <<f.at, Midnight(d + 1)>>
      PROVE  t < u
  <2>a. f \in FactRecord /\ f \in facts /\ Day(f.at) = d /\ f.gap = g
    BY <1>4, <1>9
  <2>1. f.at \in Nat /\ f.at < u /\ Day(f.at) = d /\ f.gap = g
    BY <1>3, <1>9, <2>a DEF FactRecord
  <2>2. Day(u) \in Nat /\ Midnight(Day(u)) \in Nat /\ Midnight(Day(u)) <= u /\ d <= Day(u)
    BY <1>2, <2>1, DayBounds, DayOrder
  <2>3. Day(u) # d
    <3>1. SUFFICES ASSUME Day(u) = d PROVE FALSE
      OBVIOUS
    <3>2. c \in S /\ Before(f, c)
      BY <1>5, <1>6, <2>1, <3>1 DEF Before
    <3> QED
      BY <1>4, <1>9, <3>2, NextExists
  <2>b. Day(now) \in Nat
    BY DayBounds DEF GapInv, ClockInv
  <2>4. d \in Nat /\ d + 1 \in Nat /\ d + 1 <= Day(u)
    BY <2>2, <2>3, <2>b
  <2>5. Midnight(d + 1) \in Nat /\ Midnight(d + 1) <= Midnight(Day(u))
    BY <2>2, <2>4, MidnightOrder, MidnightSteps
  <2>6. t \in f.at .. Midnight(d + 1) - 1
    BY <1>7, <1>9
  <2> QED
    BY <1>2, <2>1, <2>2, <2>5, <2>6
<1>10. \/ \E p \in S, q \in S : q.state = "CLOSED" /\ i = <<p.at, EndOf(q)>>
       \/ \E f \in S : f.state = "OPEN" /\ NextFact(S, f) = {} /\ i = <<f.at, Midnight(d + 1)>>
  BY <1>7 DEF Intervals
<1>11. t < u
  BY <1>8, <1>9, <1>10
<1> QED
  BY <1>11 DEF u

\* A gap that was closed, by one close that no rollover was at in the same
\* moment, makes nothing invalid after the close, in any day a reader looks at
\* (gaps.close, gaps.rollover, service._seal_completed_days): whatever opens
\* and closes around it, however many midnights pass, and whatever the disk
\* does.
THEOREM ClosedGapsEnd == Spec => []ClosedGapEnds
<1>1. Init => GapInv
  BY GapInit
<1>2. GapInv /\ [Next]_vars => GapInv'
  BY GapStep
<1>3. GapInv => ClosedGapEnds
  BY EndsByFacts
<1> QED
  BY <1>1, <1>2, <1>3, PTL DEF Spec

(***************************************************************************)
(* No fact of a gap meets a sealed day: the inductive invariant says how   *)
(* far behind the clock an open, a file and a close can be, and why every  *)
(* file is in the day of a midnight when the day before it is sealed.      *)
(***************************************************************************)

\* An open that no rollover to come will meet is of the day it is in: no
\* rollover lists the files while one is under way, and no source looks back
\* over a midnight that has been handled.
OpensInTime ==
  (due = 0 /\ svc # "recover") \/ svc \in {"rollover", "grace"} =>
    \A g \in Gaps : task[g] = "opening" => Day(since[g]) = Day(now)

Undisturbed == raced = {} /\ OpensInTime

\* The rollover has the file of the gap it is at to itself, and leaves no file
\* of an earlier day behind.
RollInv ==
  /\ svc # "rollover" => roller = IdleRoller
  /\ roller.gap \in Gaps =>
       /\ task[roller.gap] \in {"open", "lost"} /\ state[roller.gap] \in Nat
       /\ roller.day = Day(state[roller.gap]) + 1
       /\ roller.step = "state" => roller.day <= due
  /\ svc \in {"rollover", "grace"} =>
       \A g \in Gaps : state[g] # None /\ g \notin roller.todo /\ g # roller.gap =>
         due <= Day(state[g])

\* Where the service starts its sources and where it seals.
StartInv ==
  /\ storageGap \in storage \cup {NoGap}
  /\ svc \in {"down", "list", "bootSources"} => \A g \in Gaps : task[g] # "opening"
  /\ svc = "bootSources" => \A g \in Gaps \ stale : state[g] = None
  /\ svc \in {"bootStale", "stale"} => Day(up) = Day(now)
  /\ running /\ due # 0 /\ Day(up) # Day(now) => due - 1 \notin sealed

\* A close goes on from the file of its gap, and its day is unsealed.
ClosesInTime(g) ==
  /\ task[g] = "closed" => state[g] = None
  /\ state[g] <= now
  /\ task[g] = "opening" => since[g] <= now
  /\ task[g] \in {"closing", "rolled"} =>
       rolling[g] = Day(state[g]) + 1 /\ Day(state[g]) <= Day(observed[g])
  /\ task[g] = "rolled" => rolling[g] <= Day(observed[g])
  /\ Late(g) => Day(observed[g]) \notin sealed /\ svc \notin {"bootStale", "stale"}

\* The day of an open is unsealed or the last that is sealed.
OpensInDays(g) ==
  task[g] = "opening" =>
    /\ \A d \in sealed : d <= Day(since[g])
    /\ svc # "recover" => Day(now) <= Day(since[g]) + 1

\* So is the day of a file.
FilesInDays(g) ==
  state[g] # None =>
    /\ g \notin storage => \A d \in sealed : d <= Day(state[g])
    /\ svc \notin Booting /\ g \notin storage \cup stale =>
         Day(now) <= Day(state[g]) + 1 /\ (due = 0 => Day(now) <= Day(state[g]))

RefusalInv ==
  /\ RollInv /\ StartInv /\ NothingRefused
  /\ \A g \in Gaps : ClosesInTime(g) /\ OpensInDays(g) /\ FilesInDays(g)

\* A publication that meets no sealed day but for a full disk's gap.
LEMMA PublishRefuses ==
  ASSUME NothingRefused, NEW new, Published(new), storage \subseteq storage',
         \A f \in new : Day(f.at) \in sealed => f.gap \in storage'
  PROVE  NothingRefused'
  BY DEF NothingRefused, Published

LEMMA OpenRefuses ==
  ASSUME NothingRefused, NEW h, NEW from, OpenFact(h, from), storage \subseteq storage',
         Day(from) \notin sealed
  PROVE  NothingRefused'
<1>1. \A f \in {Fact(h, "OPEN", from, FALSE)} : Day(f.at) \in sealed => f.gap \in storage'
  BY DEF Fact
<1>2. Published({Fact(h, "OPEN", from, FALSE)})
  BY DEF OpenFact
<1> QED
  BY <1>1, <1>2, PublishRefuses

\* A roll into a day that is not sealed meets no sealed day.
LEMMA RollRefuses ==
  ASSUME NothingRefused, NEW h \in Gaps, NEW d \in Nat, d >= 1, Published(RollFacts(h, d)),
         storage \subseteq storage', d \notin sealed \/ h \in storage
  PROVE  NothingRefused'
<1>1. Midnight(d) \in Nat /\ Day(Midnight(d)) = d
  <2>1. PICK t \in Nat : t = Midnight(d)
    BY MidnightSteps
  <2> QED
    BY <2>1, DayIs, LengthIs
<1>2. Midnight(d) - 1 \in Nat /\ Day(Midnight(d) - 1) = d - 1
  <2>1. PICK e \in Nat : e = d - 1 /\ e + 1 = d
    OBVIOUS
  <2>2. Midnight(e) \in Nat /\ Midnight(d) = Midnight(e) + DayLength
    BY <2>1, MidnightSteps
  <2>3. PICK t \in Nat : t = Midnight(d) - 1
    BY <2>2, LengthIs
  <2>4. Midnight(e) <= t /\ t < Midnight(e) + DayLength
    BY <2>2, <2>3, LengthIs
  <2>5. Day(t) = e
    BY <2>4, DayIs
  <2> QED
    BY <2>1, <2>3, <2>5
<1>3. ASSUME NEW f \in RollFacts(h, d), Day(f.at) \in sealed PROVE f.gap \in storage'
  <2>1. f.gap = h
    BY DEF RollFacts, Fact
  <2>2. f.at = Midnight(d) \/ (f.at = Midnight(d) - 1 /\ d - 1 \notin sealed)
    BY DEF RollFacts, Fact
  <2>3. d \in sealed
    BY <1>1, <1>2, <1>3, <2>2
  <2> QED
    BY <2>1, <2>3
<1> QED
  BY <1>3, PublishRefuses

\* The day of a source's open: today, or a yesterday that is not sealed yet.
LEMMA SourceOpensInDays ==
  ASSUME GapInv, RefusalInv, Undisturbed', NEW h \in Gaps, SourceOpens(h),
         NEW from \in {now, Earlier(now)}, from >= up, OpenFact(h, from)
  PROVE  /\ from \in Nat /\ from <= now /\ Day(from) \in Nat
         /\ \A d \in sealed : d < Day(from)
         /\ Day(now) <= Day(from) + 1
<1> USE DEF serviceVars
<1>1. now \in Nat /\ up \in Nat /\ Instant(now) /\ due \in Nat /\ due \in {0, Day(now)}
      /\ sealed \subseteq Nat /\ \A d \in sealed : d < Day(now)
  BY DEF GapInv, ClockInv, SourceOpens
<1>2. from \in Nat /\ from <= now
  BY <1>1, EarlierIs
<1>3. Day(from) \in Nat /\ Day(now) \in Nat /\ Day(up) \in Nat
      /\ Day(from) <= Day(now) /\ Day(up) <= Day(from)
  BY <1>1, <1>2, DayBounds, DayOrder
<1>4. CASE Day(from) = Day(now)
  BY <1>1, <1>2, <1>3, <1>4
<1>5. CASE Day(from) # Day(now)
  <2>1. /\ task'[h] = "opening" /\ since'[h] = from /\ now' = now /\ due' = due /\ svc' = svc
        /\ running
    BY DEF SourceOpens, OpenFact, GapInv, JournalTypes
  <2>2. Day(since[h])' = Day(from) /\ Day(now)' = Day(now)
    BY <2>1 DEF Day
  <2>3. due # 0
    <3>1. svc # "recover"
      BY <2>1 DEF GapInv, ClockInv
    <3> QED
      BY <1>5, <2>1, <2>2, <3>1 DEF Undisturbed, OpensInTime
  <2>4. due - 1 \notin sealed /\ due = Day(now)
    BY <1>1, <1>3, <1>5, <2>1, <2>3 DEF RefusalInv, StartInv
  <2>5. Day(now) <= Day(from) + 1
    <3>1. SUFFICES ASSUME Day(from) + 2 <= Day(now) PROVE FALSE
      BY <1>3
    <3>2. from = Earlier(now) /\ from >= now - 6
      BY <1>1, <1>2, <1>5 DEF Earlier
    <3>3. Midnight(Day(now)) <= now /\ Midnight(Day(now)) \in Nat /\ Midnight(Day(from) + 1) \in Nat
          /\ from < Midnight(Day(from)) + DayLength
      BY <1>1, <1>2, <1>3, DayBounds, MidnightSteps
    <3>4. Midnight(Day(from) + 1) = Midnight(Day(from)) + DayLength
      BY <1>3, MidnightSteps
    <3>5. Midnight(Day(from) + 2) = Midnight(Day(from) + 1) + DayLength
      <4>1. PICK e \in Nat : e = Day(from) + 1 /\ e + 1 = Day(from) + 2
        BY <1>3
      <4> QED
        BY <4>1, MidnightSteps
    <3>6. Midnight(Day(from) + 2) <= Midnight(Day(now))
      <4>1. PICK e \in Nat : e = Day(from) + 2
        BY <1>3
      <4> QED
        BY <1>3, <3>1, <4>1, MidnightOrder
    <3>7. Midnight(Day(from)) \in Nat
      BY <1>3, MidnightSteps
    <3> QED
      BY <1>1, <1>2, <3>2, <3>3, <3>4, <3>5, <3>6, <3>7, LengthIs
  <2>6. ASSUME NEW d \in sealed PROVE d < Day(from)
    <3>1. d \in Nat /\ d < Day(now) /\ d # Day(now) - 1
      BY <1>1, <2>4
    <3> QED
      BY <1>3, <2>5, <3>1
  <2> QED
    BY <1>2, <1>3, <2>5, <2>6
<1> QED
  BY <1>4, <1>5

\* Past the sealed days is past each of them.
LEMMA FloorPassed ==
  ASSUME NEW D \in Nat, sealed \subseteq Nat, \A d \in sealed : d < D, NEW t \in Nat, t >= SealedFloor
  PROVE  \A d \in sealed : d < Day(t)
<1> SUFFICES ASSUME NEW d \in sealed PROVE d < Day(t)
  OBVIOUS
<1> DEFINE T == {D - e : e \in sealed}
<1>1. T \subseteq Nat /\ T # {}
  <2>1. ASSUME NEW e \in sealed PROVE D - e \in Nat
    OBVIOUS
  <2>2. T # {}
    OBVIOUS
  <2> QED
    BY <2>1, <2>2
<1>2. PICK x \in T : \A y \in T : x <= y
  BY <1>1, LeastNumber
<1>3. PICK e \in sealed : x = D - e
  BY <1>2
<1>4. ASSUME NEW u \in sealed PROVE u <= e
  <2>1. D - u \in T /\ u \in Nat /\ e \in Nat
    OBVIOUS
  <2>2. D - e <= D - u
    BY <1>2, <1>3, <2>1
  <2> QED
    BY <2>1, <2>2
<1> DEFINE P(v) == \A u \in sealed : u <= v
           top == CHOOSE v \in sealed : P(v)
<1>5. top \in sealed /\ P(top)
  <2>1. \E v \in sealed : P(v)
    BY <1>3, <1>4
  <2> HIDE DEF P
  <2> QED
    BY <2>1
<1>6. d <= top
  BY <1>5
<1>7. SealedFloor = Midnight(1 + top)
  BY DEF SealedFloor
<1> HIDE DEF top, P, T
<1>8. PICK k \in Nat : k = 1 + top
  BY <1>5
<1>9. Midnight(k) <= t /\ Midnight(k) \in Nat
  BY <1>7, <1>8, MidnightSteps
<1>10. k <= Day(t)
  <2>1. PICK m \in Nat : m = Midnight(k)
    BY <1>9
  <2>2. Day(m) = k
    BY <2>1, DayIs, LengthIs
  <2> QED
    BY <1>9, <2>1, <2>2, DayOrder
<1> QED
  BY <1>5, <1>6, <1>8, <1>10, DayBounds

\* The recovery gap of a boot opens after the sealed days.
LEMMA BootOpensInDays ==
  ASSUME ClockInv, lease # None,
         NEW from, from = IF lease > SealedFloor THEN lease ELSE SealedFloor
  PROVE  from \in Nat /\ from <= now /\ \A d \in sealed : d < Day(from)
<1>1. now \in Nat /\ Day(now) \in Nat /\ Midnight(Day(now)) <= now /\ Midnight(Day(now)) \in Nat
  BY DayBounds DEF ClockInv
<1>2. SealedFloor \in Nat /\ SealedFloor <= Midnight(Day(now))
  BY <1>1, FloorIs DEF ClockInv
<1>3. lease \in Nat /\ lease <= now
  BY DEF ClockInv, Times
<1>4. from \in Nat /\ from <= now /\ from >= SealedFloor
  BY <1>1, <1>2, <1>3
<1> QED
  BY <1>1, <1>4, FloorPassed DEF ClockInv
\* The day of the file a close or a rollover rolls is sealed at the most.
LEMMA RollsAhead ==
  ASSUME GapInv, RefusalInv, NEW g \in Gaps, g \notin storage, state[g] \in Nat
  PROVE  Day(state[g]) \in Nat /\ Day(state[g]) + 1 \notin sealed
<1>1. Day(state[g]) \in Nat /\ sealed \subseteq Nat
  BY DayBounds DEF GapInv, ClockInv
<1>2. \A d \in sealed : d <= Day(state[g])
  BY DEF RefusalInv, FilesInDays, None
<1> QED
  BY <1>1, <1>2

LEMMA RefusedStep ==
  ASSUME GapInv, RefusalInv, Undisturbed', Next PROVE NothingRefused'
<1> USE DEF serviceVars, faultVars, Unserved, Unlisted, Unsourced
<1>0. /\ NothingRefused /\ now \in Nat /\ Day(now) \in Nat /\ Day(now) \notin sealed
      /\ sealed \subseteq Nat /\ \A d \in sealed : d < Day(now)
  BY DayBounds DEF RefusalInv, GapInv, ClockInv
<1>1. ASSUME NEW g \in Gaps, JournalStep(g) PROVE NothingRefused'
  <2>0. storage' = storage /\ FileOf(g) /\ ClosesInTime(g)
    BY <1>1 DEF JournalStep, GapInv, FileInv, RefusalInv
  <2>1. CASE OpenState(g) \/ CloseRolled(g) \/ CloseRemoves(g)
    BY <1>0, <2>0, <2>1 DEF OpenState, CloseRolled, CloseRemoves, NothingRefused
  <2>2. CASE CloseRolls(g)
    <3>1. task[g] = "closing" /\ Published(RollFacts(g, rolling[g]))
      BY <2>2 DEF CloseRolls
    <3>2. state[g] \in Nat /\ rolling[g] = Day(state[g]) + 1
      BY <2>0, <3>1 DEF FileOf, ClosesInTime
    <3>3. rolling[g] \in Nat /\ rolling[g] >= 1
      BY <3>2, DayBounds
    <3>4. rolling[g] \notin sealed \/ g \in storage
      BY <3>2, RollsAhead
    <3> QED
      BY <1>0, <2>0, <3>1, <3>3, <3>4, RollRefuses
  <2>3. CASE CloseFact(g)
    <3>1. task[g] = "closing" /\ Published({Fact(g, "CLOSED", observed[g], FALSE)})
      BY <2>3 DEF CloseFact
    <3>2. Day(observed[g]) \notin sealed
      BY <1>0, <2>0, <3>1 DEF ClosesInTime, Late
    <3>3. \A f \in {Fact(g, "CLOSED", observed[g], FALSE)} : Day(f.at) \in sealed => f.gap \in storage'
      BY <3>2 DEF Fact
    <3> QED
      BY <1>0, <2>0, <3>1, <3>3, PublishRefuses
  <2> QED
    BY <1>1, <2>1, <2>2, <2>3 DEF JournalStep
<1>2. ASSUME NEW g \in Gaps, SourceOpens(g) PROVE NothingRefused'
  <2>1. PICK from \in {now, Earlier(now)} : from >= up /\ OpenFact(g, from)
    BY <1>2 DEF SourceOpens
  <2>2. Day(from) \in Nat /\ \A d \in sealed : d < Day(from)
    BY <1>2, <2>1, SourceOpensInDays
  <2>3. Day(from) \notin sealed
    BY <2>2
  <2> QED
    BY <1>0, <1>2, <2>1, <2>3, OpenRefuses DEF SourceOpens
<1>3. CASE Boot
  <2>1. CASE UNCHANGED journalVars
    BY <1>0, <1>3, <2>1 DEF Boot, journalVars, NothingRefused
  <2>2. CASE /\ lease # None
             /\ OpenFact(Fresh, IF lease > SealedFloor THEN lease ELSE SealedFloor)
    <3> DEFINE from == IF lease > SealedFloor THEN lease ELSE SealedFloor
    <3>1. Day(from) \notin sealed
      <4>1. from \in Nat /\ \A d \in sealed : d < Day(from)
        BY <2>2, BootOpensInDays DEF GapInv
      <4>2. Day(from) \in Nat
        BY <4>1, DayBounds
      <4> QED
        BY <4>1, <4>2
    <3>2. OpenFact(Fresh, from)
      BY <2>2
    <3> HIDE DEF from
    <3> QED
      BY <1>0, <1>3, <3>1, <3>2, OpenRefuses DEF Boot
  <2> QED
    BY <1>3, <2>1, <2>2 DEF Boot
<1>4. CASE StorageFull
  BY <1>0, <1>4, OpenRefuses DEF StorageFull
<1>5. CASE StopOpens
  BY <1>0, <1>5, OpenRefuses DEF StopOpens, NothingRefused, journalVars
<1>6. CASE RollPublish
  <2>1. /\ roller.step = "facts" /\ Published(RollFacts(roller.gap, roller.day))
        /\ storage' = storage
    BY <1>6 DEF RollPublish
  <2>2. roller.gap \in Gaps
    BY <2>1 DEF GapInv, RollerInv
  <2>3. state[roller.gap] \in Nat /\ roller.day = Day(state[roller.gap]) + 1
    BY <2>2 DEF RefusalInv, RollInv
  <2>4. roller.day \in Nat /\ roller.day >= 1
    BY <2>3, DayBounds
  <2>5. roller.day \notin sealed \/ roller.gap \in storage
    BY <2>2, <2>3, RollsAhead
  <2> QED
    BY <1>0, <2>1, <2>2, <2>4, <2>5, RollRefuses
<1>7. CASE \/ DiskFills \/ DiskDrains \/ Tick \/ Recovered \/ SourcesReady \/ SourcesTimeout
           \/ StaleClosed \/ StorageOpened \/ StorageRecovers \/ StartRollover \/ RollRead
           \/ RollNext \/ RolloverDone \/ SealDay \/ RequestStop
  BY <1>0, <1>7
     DEF DiskFills, DiskDrains, Tick, Recovered, SourcesReady, SourcesTimeout, StaleClosed,
         StorageOpened, StorageRecovers, StartRollover, RollRead, RollNext, RolloverDone, SealDay,
         RequestStop, journalVars, NothingRefused
<1>8. CASE ListStale \/ RollState \/ Stopped \/ Crash
  BY <1>0, <1>8 DEF ListStale, RollState, Stopped, Crash, NothingRefused
<1>9. CASE StorageStops \/ StopSources
  BY <1>0, <1>9 DEF StorageStops, StopSources, SourcesStop, NothingRefused
<1>10. CASE CloseStale \/ StorageCloses \/ \E g \in Gaps : SourceCloses(g)
  BY <1>0, <1>10 DEF CloseStale, StorageCloses, SourceCloses, StartClose, journalVars, NothingRefused
<1> QED
  BY <1>1, <1>2, <1>3, <1>4, <1>5, <1>6, <1>7, <1>8, <1>9, <1>10 DEF Next, Service

\* A tick passes one midnight at the most.
LEMMA NextDay ==
  ASSUME NEW t \in Nat, Instant(t) PROVE Day(Later(t)) <= Day(t) + 1
<1>1. Later(t) \in Nat /\ Later(t) <= t + 6
  BY LaterInstant DEF Later
<1>2. Day(t) \in Nat /\ Midnight(Day(t)) \in Nat /\ t <= Midnight(Day(t)) + DayLength - 4
  BY DayBounds, InstantBounds
<1>3. PICK u \in Nat : u = Later(t)
  BY <1>1
<1>4. PICK d \in Nat : d = Day(t)
  BY <1>2
<1>5. Midnight(d + 1) = Midnight(d) + DayLength /\ Midnight(d + 1) \in Nat
  BY <1>4, MidnightSteps
<1>6. SUFFICES ASSUME ~(Day(u) <= d + 1) PROVE FALSE
  BY <1>3, <1>4
<1>7. Day(u) \in Nat /\ Midnight(Day(u)) <= u /\ Midnight(Day(u)) \in Nat
  BY DayBounds
<1>8. PICK e \in Nat : e = d + 2
  OBVIOUS
<1>9. Midnight(e) <= Midnight(Day(u)) /\ Midnight(e) \in Nat
  BY <1>6, <1>7, <1>8, MidnightOrder, MidnightSteps
<1>10. Midnight(e) = Midnight(d + 1) + DayLength
  <2>1. PICK f \in Nat : f = d + 1 /\ e = f + 1
    BY <1>8
  <2> QED
    BY <2>1, MidnightSteps
<1> QED
  BY <1>1, <1>2, <1>3, <1>4, <1>5, <1>7, <1>9, <1>10, LengthIs
\* Opens under way that go on under way.
LEMMA OpensStay ==
  ASSUME NEW g \in Gaps, OpensInDays(g), UNCHANGED <<now, sealed>>,
         task'[g] = "opening" => task[g] = "opening" /\ since'[g] = since[g],
         svc = "recover" => svc' = "recover"
  PROVE  OpensInDays(g)'
  BY DEF OpensInDays, Day

LEMMA OpenedInDays ==
  ASSUME JournalTypes, NEW g \in Gaps, OpensInDays(g), NEW h, NEW from \in Nat, OpenFact(h, from),
         UNCHANGED <<now, sealed>>, \A d \in sealed : d <= Day(from),
         svc' # "recover" => Day(now) <= Day(from) + 1,
         svc = "recover" => svc' = "recover"
  PROVE  OpensInDays(g)'
<1>1. h \in Gaps /\ since' = [since EXCEPT ![h] = from] /\ task' = [task EXCEPT ![h] = "opening"]
  BY DEF OpenFact
<1>2. CASE g = h
  <2>1. since'[g] = from /\ task'[g] = "opening"
    BY <1>1, <1>2 DEF JournalTypes
  <2> QED
    BY <2>1 DEF OpensInDays, Day
<1>3. CASE g # h
  <2>1. since'[g] = since[g] /\ task'[g] = task[g]
    BY <1>1, <1>3 DEF JournalTypes
  <2> QED
    BY <2>1, OpensStay
<1> QED
  BY <1>2, <1>3

\* Every day that is sealed is past: the opens of today and yesterday stay
\* after it.
LEMMA OpensOutliveSeals ==
  ASSUME ClockInv', NEW g \in Gaps, OpensInDays(g), UNCHANGED <<now, task, since>>,
         since[g] \in Times, task[g] = "opening" => since[g] \in Nat, svc # "recover"
  PROVE  OpensInDays(g)'
<1> SUFFICES ASSUME task[g] = "opening" PROVE OpensInDays(g)'
  BY DEF OpensInDays
<1>1. now' \in Nat /\ Day(now') \in Nat /\ Day(since[g]) \in Nat
  BY DayBounds DEF ClockInv
<1>2. \A d \in sealed' : d \in Nat /\ d < Day(now')
  BY DEF ClockInv, Day
<1>3. Day(now') <= Day(since[g]) + 1
  BY DEF OpensInDays
<1>4. \A d \in sealed' : d <= Day(since[g])
  BY <1>1, <1>2, <1>3
<1> QED
  BY <1>3, <1>4 DEF OpensInDays, Day

LEMMA TickKeepsOpens ==
  ASSUME GapInv, RefusalInv, Undisturbed, Tick, NEW g \in Gaps PROVE OpensInDays(g)'
<1>0. UNCHANGED <<task, since, sealed, svc>> /\ now' = Later(now)
  BY DEF Tick, journalVars, serviceVars
<1> SUFFICES ASSUME task[g] = "opening" PROVE OpensInDays(g)'
  BY <1>0 DEF OpensInDays
<1>1. now \in Nat /\ Instant(now) /\ now' \in Nat /\ now < now' /\ since[g] \in Nat
  BY LaterInstant DEF Tick, GapInv, ClockInv, FileInv, FileOf
<1>2. Day(now) \in Nat /\ Day(now') \in Nat /\ Day(since[g]) \in Nat
  BY <1>1, DayBounds
<1>3. OpensInDays(g)
  BY DEF RefusalInv
<1>4. CASE Day(now') = Day(now)
  BY <1>0, <1>3, <1>4 DEF OpensInDays, Day
<1>5. CASE Day(now') # Day(now) /\ svc # "recover"
  <2>1. due = 0
    BY <1>0, <1>5 DEF Tick
  <2>2. Day(since[g]) = Day(now)
    BY <1>5, <2>1 DEF Undisturbed, OpensInTime
  <2>3. Day(now') <= Day(now) + 1
    BY <1>1, NextDay DEF Tick
  <2>4. Day(now') <= Day(since[g]) + 1
    BY <1>2, <2>2, <2>3
  <2> QED
    BY <1>0, <1>3, <2>4 DEF OpensInDays, Day
<1>6. CASE svc = "recover"
  BY <1>0, <1>3, <1>6 DEF OpensInDays, Day
<1> QED
  BY <1>4, <1>5, <1>6

LEMMA OpensStep ==
  ASSUME GapInv, GapInv', RefusalInv, Undisturbed, Undisturbed', Next, NEW g \in Gaps
  PROVE  OpensInDays(g)'
<1> USE DEF serviceVars, faultVars, Unserved, Unlisted, Unsourced
<1>0. /\ JournalTypes /\ FileOf(g) /\ OpensInDays(g) /\ ClockInv' /\ since[g] \in Times
      /\ now \in Nat /\ Day(now) \in Nat /\ \A d \in sealed : d \in Nat /\ d < Day(now)
  BY DayBounds DEF RefusalInv, GapInv, ClockInv, FileInv, JournalTypes
<1>1. ASSUME NEW h \in Gaps, JournalStep(h) PROVE OpensInDays(g)'
  <2>1. UNCHANGED <<now, sealed, svc>> /\ since' = since
    BY <1>1 DEF JournalStep, OpenState, CloseRolls, CloseRolled, CloseFact, CloseRemoves
  <2>2. task'[g] = "opening" => task[g] = "opening"
    BY <1>0, <1>1 DEF JournalStep, OpenState, CloseRolls, CloseRolled, CloseFact, CloseRemoves,
                      JournalTypes
  <2> QED
    BY <1>0, <2>1, <2>2, OpensStay
<1>2. ASSUME NEW h \in Gaps, SourceOpens(h) PROVE OpensInDays(g)'
  <2>1. PICK from \in {now, Earlier(now)} : from >= up /\ OpenFact(h, from)
    BY <1>2 DEF SourceOpens
  <2>2. /\ from \in Nat /\ Day(from) \in Nat
        /\ \A d \in sealed : d < Day(from)
        /\ Day(now) <= Day(from) + 1
    BY <1>2, <2>1, SourceOpensInDays
  <2>3. \A d \in sealed : d <= Day(from)
    BY <1>0, <2>2
  <2> QED
    BY <1>0, <1>2, <2>1, <2>2, <2>3, OpenedInDays DEF SourceOpens
<1>3. CASE \/ CloseStale \/ StorageCloses \/ \E h \in Gaps : SourceCloses(h)
  <2>1. PICK h \in Gaps : StartClose(h) \/ UNCHANGED journalVars
    BY <1>3 DEF CloseStale, StorageCloses, SourceCloses, GapInv, OwnerInv
  <2>2. UNCHANGED <<now, sealed>> /\ since' = since
    BY <1>3, <2>1 DEF CloseStale, StorageCloses, SourceCloses, StartClose, journalVars
  <2>3. task'[g] = "opening" => task[g] = "opening"
    BY <1>0, <2>1 DEF StartClose, journalVars, JournalTypes
  <2>4. svc = "recover" => svc' = "recover"
    BY <1>3 DEF CloseStale, StorageCloses, SourceCloses
  <2> QED
    BY <1>0, <2>2, <2>3, <2>4, OpensStay
<1>4. CASE \/ DiskFills \/ DiskDrains \/ SourcesReady \/ SourcesTimeout \/ StorageOpened
           \/ StorageRecovers \/ StartRollover \/ RollRead \/ RollPublish \/ RollState \/ RollNext
           \/ RolloverDone \/ RequestStop
  <2>1. UNCHANGED <<now, sealed, task, since>> /\ (svc = "recover" => svc' = "recover")
    BY <1>4
       DEF DiskFills, DiskDrains, SourcesReady, SourcesTimeout, StorageOpened, StorageRecovers,
           StartRollover, RollRead, RollPublish, RollState, RollNext, RolloverDone, RequestStop,
           journalVars
  <2> QED
    BY <1>0, <2>1, OpensStay
<1>5. CASE Tick
  BY <1>5, TickKeepsOpens
<1>6. CASE Recovered
  BY <1>6 DEF Recovered, journalVars, OpensInDays
<1>7. CASE Boot
  <2>1. CASE UNCHANGED journalVars
    BY <1>0, <1>7, <2>1, OpensStay DEF Boot, journalVars
  <2>2. CASE /\ lease # None
             /\ OpenFact(Fresh, IF lease > SealedFloor THEN lease ELSE SealedFloor)
             /\ svc' = "recover"
    <3> DEFINE from == IF lease > SealedFloor THEN lease ELSE SealedFloor
    <3>1. from \in Nat /\ \A d \in sealed : d < Day(from)
      BY <2>2, BootOpensInDays DEF GapInv
    <3>2. OpenFact(Fresh, from)
      BY <2>2
    <3> HIDE DEF from
    <3>3. Day(from) \in Nat
      BY <3>1, DayBounds
    <3>4. \A d \in sealed : d <= Day(from)
      BY <1>0, <3>1, <3>3
    <3> QED
      BY <1>0, <1>7, <2>2, <3>1, <3>2, <3>4, OpenedInDays DEF Boot
  <2> QED
    BY <1>7, <2>1, <2>2 DEF Boot
<1>8. CASE StorageFull \/ StopOpens
  <2>1. UNCHANGED <<now, sealed>> /\ svc # "recover"
    BY <1>8 DEF StorageFull, StopOpens
  <2>2. CASE UNCHANGED journalVars
    BY <1>0, <2>1, <2>2, OpensStay DEF journalVars
  <2>3. CASE OpenFact(Fresh, now)
    <3>1. (\A d \in sealed : d <= Day(now)) /\ Day(now) <= Day(now) + 1
      BY <1>0
    <3> QED
      BY <1>0, <2>1, <2>3, <3>1, OpenedInDays
  <2> QED
    BY <1>8, <2>2, <2>3 DEF StorageFull, StopOpens
<1>9. CASE StaleClosed \/ SealDay
  <2>1. UNCHANGED <<now, task, since>> /\ svc # "recover"
    BY <1>9 DEF StaleClosed, SealDay, journalVars
  <2> QED
    BY <1>0, <2>1, OpensOutliveSeals DEF FileOf
<1>10. CASE ListStale \/ StorageStops \/ StopSources
  <2>1. UNCHANGED <<now, sealed, since>> /\ svc # "recover"
    BY <1>10 DEF ListStale, StorageStops, StopSources, SourcesStop
  <2>2. task'[g] = "opening" => task[g] = "opening"
    BY <1>10 DEF ListStale, StorageStops, StopSources, SourcesStop
  <2> QED
    BY <1>0, <2>1, <2>2, OpensStay
<1>11. CASE Stopped \/ Crash
  BY <1>11 DEF Stopped, Crash, ProcessEnds, OpensInDays
<1> QED
  BY <1>1, <1>2, <1>3, <1>4, <1>5, <1>6, <1>7, <1>8, <1>9, <1>10, <1>11 DEF Next, Service

\* A file that stays, or moves to a later day.
LEMMA FilesRollOn ==
  ASSUME NEW g \in Gaps, FilesInDays(g), UNCHANGED <<now, sealed>>, sealed \subseteq Nat, now \in Nat,
         state'[g] # None => /\ state[g] \in Nat /\ state'[g] \in Nat
                             /\ Day(state[g]) <= Day(state'[g]),
         storage \subseteq storage', stale' = stale, due' = due,
         svc' \notin Booting => svc \notin Booting
  PROVE  FilesInDays(g)'
<1> SUFFICES ASSUME state'[g] # None PROVE FilesInDays(g)'
  BY DEF FilesInDays
<1>1. state[g] # None /\ Day(state[g]) \in Nat /\ Day(state'[g]) \in Nat /\ Day(now) \in Nat
  BY DayBounds DEF None
<1>2. g \notin storage' => \A d \in sealed' : d <= Day(state'[g])
  <2>1. ASSUME g \notin storage', NEW d \in sealed PROVE d <= Day(state'[g])
    <3>1. d <= Day(state[g]) /\ d \in Nat
      BY <1>1, <2>1 DEF FilesInDays
    <3> QED
      BY <1>1, <3>1
  <2> QED
    BY <2>1
<1>3. svc' \notin Booting /\ g \notin storage' \cup stale' =>
        Day(now') <= Day(state'[g]) + 1 /\ (due' = 0 => Day(now') <= Day(state'[g]))
  <2>1. SUFFICES ASSUME svc' \notin Booting, g \notin storage' \cup stale'
                 PROVE  Day(now) <= Day(state'[g]) + 1 /\ (due = 0 => Day(now) <= Day(state'[g]))
    OBVIOUS
  <2>2. Day(now) <= Day(state[g]) + 1 /\ (due = 0 => Day(now) <= Day(state[g]))
    BY <1>1, <2>1 DEF FilesInDays
  <2> QED
    BY <1>1, <2>2
<1>4. Booting' = Booting
  BY DEF Booting
<1> QED
  BY <1>2, <1>3, <1>4 DEF FilesInDays, Day

\* Nothing happens to the files, and no source starts.
LEMMA FilesWait ==
  ASSUME NEW g \in Gaps, FilesInDays(g), UNCHANGED <<now, sealed>>, state'[g] = state[g],
         storage \subseteq storage', svc' \in Booting \/ (stale' = stale /\ due' = due /\ svc \notin Booting)
  PROVE  FilesInDays(g)'
  BY DEF FilesInDays, Booting, Day

LEMMA TickKeepsDays ==
  ASSUME GapInv, RefusalInv, Tick, NEW g \in Gaps PROVE FilesInDays(g)'
<1>0. UNCHANGED <<state, sealed, svc, stale, storage>> /\ now' = Later(now) /\ FilesInDays(g)
  BY DEF Tick, journalVars, serviceVars, RefusalInv
<1> SUFFICES ASSUME state[g] # None PROVE FilesInDays(g)'
  BY <1>0 DEF FilesInDays
<1>1. now \in Nat /\ Instant(now) /\ now' \in Nat /\ now < now' /\ state[g] \in Nat
  BY LaterInstant DEF Tick, GapInv, ClockInv, JournalTypes, Times
<1>2. Day(now) \in Nat /\ Day(now') \in Nat /\ Day(state[g]) \in Nat
  BY <1>1, DayBounds
<1>3. CASE Day(now') = Day(now)
  <2>1. due' = due
    BY <1>0, <1>3 DEF Tick
  <2> QED
    BY <1>0, <1>3, <2>1 DEF FilesInDays, Booting, Day
<1>4. CASE Day(now') # Day(now)
  <2>1. due = 0 /\ (svc \notin Booting => due' = Day(now'))
    BY <1>0, <1>4 DEF Tick
  <2>2. Day(now') <= Day(now) + 1 /\ Day(now) <= Day(now')
    BY <1>1, NextDay, DayOrder DEF Tick
  <2>3. svc \notin Booting => due' # 0
    BY <1>2, <1>4, <2>1, <2>2
  <2>4. svc \notin Booting /\ g \notin storage \cup stale => Day(now') <= Day(state[g]) + 1
    <3>1. SUFFICES ASSUME svc \notin Booting /\ g \notin storage \cup stale
                   PROVE  Day(now') <= Day(state[g]) + 1
      OBVIOUS
    <3>2. Day(now) <= Day(state[g])
      BY <1>0, <2>1, <3>1 DEF FilesInDays
    <3> QED
      BY <1>2, <2>2, <3>2
  <2> QED
    BY <1>0, <2>3, <2>4 DEF FilesInDays, Booting, Day
<1> QED
  BY <1>3, <1>4

\* One step of an open or of a close.
LEMMA JournalKeepsDays ==
  ASSUME GapInv, RefusalInv, Undisturbed, NEW h \in Gaps, JournalStep(h), NEW g \in Gaps
  PROVE  FilesInDays(g)'
<1>0. /\ UNCHANGED <<now, sealed, due, svc, stale, storage>> /\ FilesInDays(g)
      /\ sealed \subseteq Nat /\ now \in Nat /\ FileOf(h) /\ state \in [Gaps -> Times]
  BY DEF JournalStep, serviceVars, RefusalInv, GapInv, ClockInv, FileInv, JournalTypes
<1>1. CASE state'[g] = state[g]
  <2>1. state'[g] # None => /\ state[g] \in Nat /\ state'[g] \in Nat
                            /\ Day(state[g]) <= Day(state'[g])
    <3>1. state[g] # None => state[g] \in Nat /\ Day(state[g]) \in Nat
      BY <1>0, DayBounds DEF Times
    <3> QED
      BY <1>1, <3>1
  <2> QED
    BY <1>0, <2>1, FilesRollOn
<1>2. CASE g = h /\ OpenState(h)
  <2>1. task[g] = "opening" /\ state'[g] = since[g] /\ since[g] \in Nat
    BY <1>0, <1>2 DEF OpenState, FileOf
  <2>2. OpensInDays(g)
    BY DEF RefusalInv
  <2>3. Day(now) \in Nat /\ Day(since[g]) \in Nat
    BY <1>0, <2>1, DayBounds
  <2>4. svc # "recover" /\ due = 0 => Day(now) <= Day(since[g])
    BY <2>1, <2>3 DEF Undisturbed, OpensInTime
  <2>5. svc \notin Booting => svc # "recover"
    BY DEF Booting
  <2> QED
    BY <1>0, <2>1, <2>2, <2>4, <2>5 DEF OpensInDays, FilesInDays, Booting, Day
<1>3. CASE g = h /\ CloseRolled(h)
  <2>1. task[h] = "rolled" /\ state'[h] = Midnight(rolling[h]) /\ state[h] \in Nat
    BY <1>0, <1>3 DEF CloseRolled, FileOf
  <2>2. rolling[h] = Day(state[h]) + 1
    BY <2>1 DEF RefusalInv, ClosesInTime
  <2>3. Day(state[h]) \in Nat
    BY <2>1, DayBounds
  <2>4. PICK e \in Nat : e = Day(state[h]) + 1
    BY <2>3
  <2>5. PICK m \in Nat : m = Midnight(e)
    BY MidnightSteps
  <2>6. Day(m) = e
    BY <2>5, DayIs, LengthIs
  <2>7. state'[h] = m /\ Day(state[h]) <= Day(state'[h])
    BY <2>1, <2>2, <2>3, <2>4, <2>5, <2>6
  <2> QED
    BY <1>0, <1>3, <2>1, <2>7, FilesRollOn
<1>4. CASE g = h /\ CloseRemoves(h)
  <2>1. state'[h] = None
    BY <1>0, <1>4 DEF CloseRemoves
  <2> QED
    BY <1>4, <2>1 DEF FilesInDays
<1>5. CASE g # h \/ CloseRolls(h) \/ CloseFact(h)
  <2>1. state'[g] = state[g]
    BY <1>0, <1>5 DEF JournalStep, OpenState, CloseRolls, CloseRolled, CloseFact, CloseRemoves
  <2> QED
    BY <1>1, <2>1
<1> QED
  BY <1>2, <1>3, <1>4, <1>5 DEF JournalStep

\* A seal leaves the files of today and yesterday.
LEMMA SealKeepsDays ==
  ASSUME GapInv, RefusalInv, StaleClosed, ClockInv', NEW g \in Gaps PROVE FilesInDays(g)'
<1>0. /\ UNCHANGED <<now, task, state, due, storage, storageGap>> /\ stale' = {}
      /\ svc \in {"bootStale", "stale"} /\ FilesInDays(g) /\ ClosesInTime(g)
  BY DEF StaleClosed, journalVars, RefusalInv
<1> SUFFICES ASSUME state[g] # None, g \notin storage PROVE FilesInDays(g)'
  BY <1>0 DEF FilesInDays
<1>1. g \notin stale
  <2>1. SUFFICES ASSUME g \in stale PROVE FALSE
    OBVIOUS
  <2>2. g # storageGap
    BY GapIdAssumption DEF RefusalInv, StartInv
  <2>3. task[g] = "closed"
    BY <2>1, <2>2 DEF StaleClosed
  <2> QED
    BY <1>0, <2>3 DEF ClosesInTime
<1>2. now \in Nat /\ state[g] \in Nat /\ \A d \in sealed' : d \in Nat /\ d < Day(now)
  BY <1>0 DEF GapInv, ClockInv, JournalTypes, Times, Day
<1>3. Day(now) \in Nat /\ Day(state[g]) \in Nat
  BY <1>2, DayBounds
<1>4. Day(now) <= Day(state[g]) + 1 /\ (due = 0 => Day(now) <= Day(state[g]))
  BY <1>0, <1>1 DEF FilesInDays, Booting
<1>5. \A d \in sealed' : d <= Day(state[g])
  BY <1>2, <1>3, <1>4
<1> QED
  BY <1>0, <1>4, <1>5 DEF FilesInDays, Day

LEMMA DaysStep ==
  ASSUME GapInv, GapInv', RefusalInv, Undisturbed, Next, NEW g \in Gaps
  PROVE  FilesInDays(g)'
<1> USE DEF serviceVars, faultVars, Unserved, Unlisted, Unsourced
<1>0. /\ FilesInDays(g) /\ ClockInv' /\ state \in [Gaps -> Times] /\ now \in Nat /\ due \in Nat
      /\ sealed \subseteq Nat /\ Day(now) \in Nat /\ (state[g] # None => Day(state[g]) \in Nat)
      /\ due \in {0, Day(now)}
  BY DayBounds DEF RefusalInv, GapInv, ClockInv, JournalTypes, Times
<1>a. state'[g] = state[g] /\ state'[g] # None =>
        state[g] \in Nat /\ state'[g] \in Nat /\ Day(state[g]) <= Day(state'[g])
  BY <1>0 DEF Times
<1>1. ASSUME NEW h \in Gaps, JournalStep(h) PROVE FilesInDays(g)'
  BY <1>1, JournalKeepsDays
<1>2. ASSUME NEW h \in Gaps, SourceOpens(h) PROVE FilesInDays(g)'
  BY <1>0, <1>a, <1>2, FilesRollOn DEF SourceOpens, OpenFact
<1>3. CASE \/ CloseStale \/ StorageCloses \/ \E h \in Gaps : SourceCloses(h)
  <2>1. /\ UNCHANGED <<now, sealed, state, stale, storage, due>>
        /\ svc' = svc \/ svc = "storageClose"
    BY <1>3 DEF CloseStale, StorageCloses, SourceCloses, StartClose, journalVars
  <2>2. svc' \notin Booting => svc \notin Booting
    BY <2>1 DEF Booting
  <2> QED
    BY <1>0, <1>a, <2>1, <2>2, FilesRollOn
<1>4. CASE \/ DiskFills \/ DiskDrains \/ Recovered \/ SourcesTimeout \/ StorageOpened
           \/ StorageRecovers \/ StartRollover \/ RollRead \/ RollPublish \/ RollNext
           \/ RolloverDone \/ RequestStop
  <2>1. UNCHANGED <<now, sealed, state, stale, storage, due>>
    BY <1>4
       DEF DiskFills, DiskDrains, Recovered, SourcesTimeout, StorageOpened, StorageRecovers,
           StartRollover, RollRead, RollPublish, RollNext, RolloverDone, RequestStop, journalVars
  <2>2. svc' \notin Booting => svc \notin Booting
    BY <1>4
       DEF DiskFills, DiskDrains, Recovered, SourcesTimeout, StorageOpened, StorageRecovers,
           StartRollover, RollRead, RollPublish, RollNext, RolloverDone, RequestStop, Booting
  <2> QED
    BY <1>0, <1>a, <2>1, <2>2, FilesRollOn
<1>5. CASE Tick
  BY <1>5, TickKeepsDays
<1>6. CASE Boot
  BY <1>0, <1>6, FilesWait DEF Boot, OpenFact, journalVars, Booting
<1>7. CASE StorageFull \/ StopOpens
  <2>1. UNCHANGED <<now, sealed, state, stale, due>> /\ storage \subseteq storage'
        /\ svc \notin Booting
    BY <1>7 DEF StorageFull, StopOpens, OpenFact, journalVars, Booting
  <2> QED
    BY <1>0, <2>1, FilesWait
<1>8. CASE ListStale
  <2>1. UNCHANGED <<now, sealed, state, storage>> /\ stale' = {h \in Gaps : state[h] # None}
    BY <1>8 DEF ListStale
  <2> QED
    BY <1>0, <2>1 DEF FilesInDays, Booting, Day
<1>9. CASE SourcesReady
  <2>1. UNCHANGED <<now, sealed, state, storage, stale, due>> /\ svc \in {"bootSources", "sources"}
    BY <1>9 DEF SourcesReady, journalVars
  <2>2. CASE svc = "sources"
    BY <1>0, <2>1, <2>2, FilesWait DEF Booting
  <2>3. CASE svc = "bootSources"
    <3>1. g \in stale \/ state[g] = None
      BY <2>3 DEF RefusalInv, StartInv
    <3> QED
      BY <1>0, <2>1, <3>1 DEF FilesInDays, Day
  <2> QED
    BY <2>1, <2>2, <2>3
<1>10. CASE StaleClosed
  BY <1>0, <1>10, SealKeepsDays
<1>11. CASE StorageStops \/ StopSources
  <2>1. UNCHANGED <<now, sealed, state, stale, storage, due>> /\ svc \notin Booting
    BY <1>11 DEF StorageStops, StopSources, SourcesStop, Booting
  <2> QED
    BY <1>0, <2>1, FilesWait
<1>12. CASE RollState
  <2>1. /\ UNCHANGED <<now, sealed, stale, storage, due, svc>> /\ roller.step = "state"
        /\ state' = [state EXCEPT ![roller.gap] = Midnight(roller.day)]
    BY <1>12 DEF RollState
  <2>2. CASE g # roller.gap
    <3>1. state'[g] = state[g]
      BY <1>0, <2>1, <2>2
    <3> QED
      BY <1>0, <1>a, <2>1, <3>1, FilesRollOn
  <2>3. CASE g = roller.gap
    <3>1. state[g] \in Nat /\ roller.day = Day(state[g]) + 1 /\ Day(state[g]) \in Nat
      BY <2>3, DayBounds DEF RefusalInv, RollInv
    <3>2. PICK e \in Nat : e = Day(state[g]) + 1
      BY <3>1
    <3>3. PICK m \in Nat : m = Midnight(e)
      BY MidnightSteps
    <3>4. Day(m) = e
      BY <3>3, DayIs, LengthIs
    <3>5. state'[g] = m
      BY <1>0, <2>1, <2>3, <3>1, <3>2, <3>3
    <3>6. Day(state[g]) <= Day(state'[g])
      BY <3>1, <3>2, <3>4, <3>5
    <3> QED
      BY <1>0, <2>1, <3>1, <3>5, <3>6, FilesRollOn
  <2> QED
    BY <2>2, <2>3
<1>13. CASE SealDay
  <2>1. /\ UNCHANGED <<now, state, stale, storage>> /\ svc = "grace" /\ due' = 0
        /\ sealed' = sealed \cup {due - 1} /\ due # 0
    BY <1>13 DEF SealDay, journalVars, GapInv, ClockInv
  <2>2. CASE state[g] = None
    BY <2>1, <2>2 DEF FilesInDays
  <2>3. CASE state[g] # None
    <3>1. roller = IdleRoller
      BY <2>1 DEF RefusalInv, RollInv
    <3>2. g \notin roller.todo /\ g # roller.gap
      BY <3>1, GapIdAssumption DEF IdleRoller
    <3>3. due <= Day(state[g]) /\ due = Day(now)
      BY <1>0, <2>1, <2>3, <3>2 DEF RefusalInv, RollInv
    <3>4. \A d \in sealed' : d <= Day(state[g])
      <4>1. \A d \in sealed' : d \in Nat /\ d < Day(now)
        BY <1>0, <2>1 DEF ClockInv, Day
      <4> QED
        BY <1>0, <2>3, <3>3, <4>1
    <3>5. Day(now) <= Day(state[g]) /\ Day(now) <= Day(state[g]) + 1
      BY <1>0, <2>3, <3>3
    <3> QED
      BY <2>1, <3>4, <3>5 DEF FilesInDays, Day
  <2> QED
    BY <2>2, <2>3
<1>14. CASE Stopped \/ Crash
  BY <1>0, <1>14, FilesWait DEF Stopped, Crash, ProcessEnds, Booting
<1> QED
  BY <1>1, <1>2, <1>3, <1>4, <1>5, <1>6, <1>7, <1>8, <1>9, <1>10, <1>11, <1>12, <1>13, <1>14
     DEF Next, Service

\* The day of a close is today or past.
LEMMA ClosesBehind ==
  ASSUME GapInv, NEW g \in Gaps, Closing(g)
  PROVE  observed[g] \in Nat /\ Day(observed[g]) \in Nat /\ Day(observed[g]) <= Day(now)
<1>1. now \in Nat /\ Instant(now) /\ observed[g] \in Nat /\ observed[g] <= now + 1
  BY DEF GapInv, ClockInv, FileInv, FileOf
<1>2. Day(now + 1) = Day(now) /\ Day(observed[g]) \in Nat /\ now + 1 \in Nat
  BY <1>1, InstantBounds, DayBounds
<1> QED
  BY <1>1, <1>2, DayOrder

\* A gap at which nothing happens.
LEMMA ClosesStay ==
  ASSUME NEW g \in Gaps, ClosesInTime(g), UNCHANGED <<now, sealed>>,
         task'[g] = task[g], state'[g] = state[g], since'[g] = since[g],
         observed'[g] = observed[g], rolling'[g] = rolling[g],
         svc' \in {"bootStale", "stale"} => svc' = svc \/ ~Late(g)
  PROVE  ClosesInTime(g)'
  BY DEF ClosesInTime, Late, Day

\* A gap that is given up, or taken over.
LEMMA ClosesRest ==
  ASSUME NEW g \in Gaps, ClosesInTime(g), now' = now, state'[g] = state[g],
         task'[g] \in {"unused", "open", "lost"} \/ (task'[g] = "closed" /\ task[g] = "closed")
  PROVE  ClosesInTime(g)'
  BY DEF ClosesInTime, Late

LEMMA OpenKeepsCloses ==
  ASSUME JournalTypes, now \in Nat, NEW g \in Gaps, ClosesInTime(g),
         NEW h, NEW from \in Nat, from <= now, OpenFact(h, from), UNCHANGED <<now, sealed>>,
         svc' \notin {"bootStale", "stale"} \/ svc' = svc
  PROVE  ClosesInTime(g)'
<1>1. /\ h \in Gaps /\ since' = [since EXCEPT ![h] = from] /\ task' = [task EXCEPT ![h] = "opening"]
      /\ UNCHANGED <<state, observed, rolling>>
  BY DEF OpenFact
<1>2. CASE g = h
  <2>1. since'[g] = from /\ task'[g] = "opening"
    BY <1>1, <1>2 DEF JournalTypes
  <2> QED
    BY <1>1, <2>1 DEF ClosesInTime, Late
<1>3. CASE g # h
  <2>1. since'[g] = since[g] /\ task'[g] = task[g]
    BY <1>1, <1>3 DEF JournalTypes
  <2> QED
    BY <1>1, <2>1, ClosesStay
<1> QED
  BY <1>2, <1>3

LEMMA CloseKeepsCloses ==
  ASSUME GapInv, NEW g \in Gaps, ClosesInTime(g), NEW h \in Gaps, StartClose(h),
         UNCHANGED <<now, sealed, svc>>
  PROVE  ClosesInTime(g)'
<1>0. now \in Nat /\ Day(now) \in Nat /\ Day(now + 1) = Day(now) /\ JournalTypes /\ FileOf(h)
  BY DayBounds, InstantBounds DEF GapInv, ClockInv, FileInv
<1>1. /\ UNCHANGED <<state, since>> /\ task[h] = "open" /\ task' = [task EXCEPT ![h] = "closing"]
      /\ observed' = [observed EXCEPT ![h] = now + 1]
      /\ rolling' = [rolling EXCEPT ![h] = IF state[h] = None THEN Day(now) + 1
                                           ELSE Day(state[h]) + 1]
  BY DEF StartClose
<1>2. CASE g = h
  <2>1. state[g] \in Nat /\ state[g] <= now
    BY <1>0, <1>1, <1>2 DEF FileOf, ClosesInTime
  <2>2. Day(state[g]) \in Nat /\ Day(state[g]) <= Day(now)
    BY <1>0, <2>1, DayBounds, DayOrder
  <2>3. task'[g] = "closing" /\ observed'[g] = now + 1 /\ rolling'[g] = Day(state[g]) + 1
    BY <1>0, <1>1, <1>2, <2>1 DEF JournalTypes, None
  <2>4. Day(observed'[g]) = Day(now)
    BY <1>0, <2>3
  <2>5. ~Late(g)'
    BY <2>4 DEF Late, Day
  <2> QED
    BY <1>1, <2>1, <2>2, <2>3, <2>4, <2>5 DEF ClosesInTime, Day
<1>3. CASE g # h
  BY <1>0, <1>1, <1>3, ClosesStay DEF JournalTypes
<1> QED
  BY <1>2, <1>3

\* Rolling to a midnight puts a file into the day of that midnight.
LEMMA RolledTo ==
  ASSUME GapInv, NEW d \in Nat, d <= Day(now)
  PROVE  Midnight(d) \in Nat /\ Day(Midnight(d)) = d /\ Midnight(d) <= now
<1>1. PICK m \in Nat : m = Midnight(d)
  BY MidnightSteps
<1>2. Day(m) = d
  BY <1>1, DayIs, LengthIs
<1>3. Midnight(d) <= now
  BY BegunDay DEF GapInv, ClockInv
<1> QED
  BY <1>1, <1>2, <1>3

LEMMA JournalKeepsCloses ==
  ASSUME GapInv, NEW g \in Gaps, ClosesInTime(g), NEW h \in Gaps, JournalStep(h)
  PROVE  ClosesInTime(g)'
<1>0. /\ UNCHANGED <<now, sealed, svc>> /\ JournalTypes /\ FileOf(g) /\ now \in Nat
      /\ Day(now) \in Nat
  BY DayBounds DEF JournalStep, serviceVars, GapInv, ClockInv, FileInv
<1>1. CASE g # h
  <2>1. /\ task'[g] = task[g] /\ state'[g] = state[g] /\ since'[g] = since[g]
        /\ observed'[g] = observed[g] /\ rolling'[g] = rolling[g]
    BY <1>0, <1>1 DEF JournalStep, OpenState, CloseRolls, CloseRolled, CloseFact, CloseRemoves,
                      JournalTypes
  <2> QED
    BY <1>0, <2>1, ClosesStay
<1>2. CASE g = h /\ OpenState(h)
  <2>1. task'[g] = "open" /\ state'[g] = since[g] /\ since[g] <= now
    BY <1>0, <1>2 DEF OpenState, JournalTypes, ClosesInTime
  <2> QED
    BY <1>0, <2>1 DEF ClosesInTime, Late
<1>3. CASE g = h /\ CloseRolls(h)
  <2>1. /\ UNCHANGED <<state, observed, rolling>> /\ task[g] = "closing" /\ task'[g] = "rolled"
        /\ rolling[g] <= Day(observed[g])
    BY <1>0, <1>3 DEF CloseRolls, MustRoll, JournalTypes
  <2> QED
    BY <1>0, <2>1 DEF ClosesInTime, Late, Day
<1>4. CASE g = h /\ CloseRolled(h)
  <2>1. /\ observed' = observed /\ task[g] = "rolled" /\ task'[g] = "closing"
        /\ state'[g] = Midnight(rolling[g]) /\ rolling'[g] = rolling[g] + 1 /\ rolling[g] \in Nat
    BY <1>0, <1>4 DEF CloseRolled, JournalTypes
  <2>2. rolling[g] <= Day(observed[g])
    BY <2>1 DEF ClosesInTime
  <2>3. Day(observed[g]) \in Nat /\ Day(observed[g]) <= Day(now)
    BY <2>1, ClosesBehind DEF Closing
  <2>4. rolling[g] <= Day(now)
    BY <1>0, <2>1, <2>2, <2>3
  <2>5. state'[g] <= now /\ Day(state'[g]) = rolling[g]
    BY <2>1, <2>4, RolledTo
  <2>6. Late(g)' => Late(g)
    BY <1>0, <2>1 DEF Late, Day
  <2> QED
    BY <1>0, <2>1, <2>2, <2>5, <2>6 DEF ClosesInTime, Day
<1>5. CASE g = h /\ CloseFact(h)
  <2>1. UNCHANGED <<state, observed, rolling>> /\ task'[g] = "removing"
    BY <1>0, <1>5 DEF CloseFact, JournalTypes
  <2> QED
    BY <1>0, <2>1 DEF ClosesInTime, Late
<1>6. CASE g = h /\ CloseRemoves(h)
  <2>1. state'[g] = None /\ task'[g] = "closed"
    BY <1>0, <1>6 DEF CloseRemoves, JournalTypes
  <2> QED
    BY <1>0, <2>1 DEF ClosesInTime, Late, None
<1> QED
  BY <1>1, <1>2, <1>3, <1>4, <1>5, <1>6 DEF JournalStep

LEMMA TickKeepsCloses ==
  ASSUME GapInv, Tick, NEW g \in Gaps, ClosesInTime(g) PROVE ClosesInTime(g)'
<1>0. UNCHANGED <<task, state, since, observed, rolling, sealed, svc>>
  BY DEF Tick, journalVars, serviceVars
<1>1. now \in Nat /\ Instant(now) /\ now' \in Nat /\ now < now' /\ Day(now) \notin sealed
  BY LaterInstant, DayBounds DEF Tick, GapInv, ClockInv
<1>2. state'[g] <= now' /\ (task'[g] = "opening" => since'[g] <= now')
  <2>1. state[g] \in Nat \cup {-1} /\ since[g] \in Nat \cup {-1}
    BY DEF GapInv, JournalTypes, Times, None
  <2> QED
    BY <1>0, <1>1, <2>1 DEF ClosesInTime
<1>3. Late(g)' => Day(observed[g]) \notin sealed /\ svc \notin {"bootStale", "stale"}
  <2>1. SUFFICES ASSUME Late(g)' PROVE Day(observed[g]) \notin sealed /\ svc \notin {"bootStale", "stale"}
    OBVIOUS
  <2>2. Closing(g) /\ task[g] \in {"closing", "rolled"} /\ Day(observed[g]) # Day(now')
    BY <1>0, <2>1 DEF Late, Closing, Day
  <2>3. Day(observed[g]) = Day(now)
    <3>1. observed[g] = now + 1
      BY <2>2 DEF Tick
    <3> QED
      BY <1>1, <3>1, InstantBounds
  <2>4. svc \notin {"bootStale", "stale"}
    <3>1. Day(Later(now)) # Day(now)
      BY <2>2, <2>3 DEF Tick
    <3> QED
      BY <3>1 DEF Tick
  <2> QED
    BY <1>1, <2>3, <2>4
<1> QED
  BY <1>0, <1>2, <1>3 DEF ClosesInTime, Day

LEMMA ClosesStep ==
  ASSUME GapInv, RefusalInv, Undisturbed', Next, NEW g \in Gaps PROVE ClosesInTime(g)'
<1> USE DEF serviceVars, faultVars, Unserved, Unlisted, Unsourced
<1>0. /\ JournalTypes /\ ClosesInTime(g) /\ ClockInv /\ OwnerInv /\ now \in Nat /\ Day(now) \in Nat
      /\ FileOf(g) /\ RollerInv
  BY DayBounds DEF RefusalInv, GapInv, ClockInv, FileInv
<1>1. ASSUME NEW h \in Gaps, JournalStep(h) PROVE ClosesInTime(g)'
  BY <1>0, <1>1, JournalKeepsCloses
<1>2. ASSUME NEW h \in Gaps, SourceOpens(h) PROVE ClosesInTime(g)'
  <2>1. PICK from \in {now, Earlier(now)} : from >= up /\ OpenFact(h, from)
    BY <1>2 DEF SourceOpens
  <2>2. from \in Nat /\ from <= now
    BY <1>2, <2>1, SourceOpensInDays
  <2> QED
    BY <1>0, <1>2, <2>1, <2>2, OpenKeepsCloses DEF SourceOpens
<1>3. ASSUME NEW h \in Gaps, SourceCloses(h) PROVE ClosesInTime(g)'
  BY <1>0, <1>3, CloseKeepsCloses DEF SourceCloses
<1>4. CASE CloseStale
  BY <1>0, <1>4, CloseKeepsCloses DEF CloseStale, OwnerInv
<1>5. CASE StorageCloses
  <2>1. CASE StartClose(storageGap) /\ UNCHANGED serviceVars
    BY <1>0, <1>5, <2>1, CloseKeepsCloses DEF StorageCloses, OwnerInv
  <2>2. CASE svc' = "up" /\ UNCHANGED journalVars
    BY <1>0, <1>5, <2>2, ClosesStay DEF StorageCloses, journalVars
  <2> QED
    BY <1>5, <2>1, <2>2 DEF StorageCloses
<1>6. CASE \/ DiskFills \/ DiskDrains \/ Recovered \/ SourcesTimeout \/ StorageOpened
           \/ StartRollover \/ RollRead \/ RollPublish \/ RollNext \/ RolloverDone \/ RequestStop
           \/ StorageRecovers
  <2>1. /\ UNCHANGED <<now, sealed, task, state, since, observed, rolling>>
        /\ svc' \notin {"bootStale", "stale"} \/ svc' = svc
    BY <1>6
       DEF DiskFills, DiskDrains, Recovered, SourcesTimeout, StorageOpened, StorageRecovers,
           StartRollover, RollRead, RollPublish, RollNext, RolloverDone, RequestStop, journalVars
  <2> QED
    BY <1>0, <2>1, ClosesStay
<1>7. CASE Tick
  BY <1>0, <1>7, TickKeepsCloses
<1>8. CASE Boot
  <2>1. UNCHANGED <<now, sealed>> /\ svc' \in {"recover", "list"}
    BY <1>8 DEF Boot
  <2>2. CASE UNCHANGED journalVars
    BY <1>0, <2>1, <2>2, ClosesStay DEF journalVars
  <2>3. CASE /\ lease # None
             /\ OpenFact(Fresh, IF lease > SealedFloor THEN lease ELSE SealedFloor)
    <3> DEFINE from == IF lease > SealedFloor THEN lease ELSE SealedFloor
    <3>1. from \in Nat /\ from <= now
      BY <1>0, <2>3, BootOpensInDays
    <3>2. OpenFact(Fresh, from)
      BY <2>3
    <3> HIDE DEF from
    <3> QED
      BY <1>0, <2>1, <3>1, <3>2, OpenKeepsCloses
  <2> QED
    BY <1>8, <2>2, <2>3 DEF Boot
<1>9. CASE StorageFull \/ StopOpens
  <2>1. UNCHANGED <<now, sealed>> /\ svc' \in {"storageOpen", "stopping"}
    BY <1>9 DEF StorageFull, StopOpens
  <2>2. CASE UNCHANGED journalVars
    BY <1>0, <2>1, <2>2, ClosesStay DEF journalVars
  <2>3. CASE OpenFact(Fresh, now)
    BY <1>0, <2>1, <2>3, OpenKeepsCloses
  <2> QED
    BY <1>9, <2>2, <2>3 DEF StorageFull, StopOpens
<1>10. CASE SourcesReady
  <2>1. ~Late(g)
    BY <1>0, <1>10, NoCloserAtStart DEF SourcesReady, ClockInv, Late, Closing
  <2> QED
    BY <1>0, <1>10, <2>1, ClosesStay DEF SourcesReady, journalVars
<1>11. CASE StaleClosed
  <2>1. ~Late(g)
    BY <1>0, <1>11 DEF StaleClosed, ClosesInTime
  <2> QED
    BY <1>0, <1>11, <2>1 DEF StaleClosed, journalVars, ClosesInTime, Late, Day
<1>12. CASE SealDay
  <2>1. ~Late(g)
    <3>1. SUFFICES ASSUME Late(g) PROVE FALSE
      OBVIOUS
    <3>2. Closing(g) /\ state[g] \in Nat /\ Day(state[g]) <= Day(observed[g])
          /\ Day(observed[g]) # Day(now)
      BY <1>0, <3>1 DEF Late, Closing, FileOf, ClosesInTime
    <3>3. Day(observed[g]) \in Nat /\ Day(observed[g]) <= Day(now) /\ Day(state[g]) \in Nat
      BY <3>2, ClosesBehind, DayBounds
    <3>4. svc = "grace" /\ due = Day(now)
      BY <1>0, <1>12 DEF SealDay, ClockInv
    <3>5. roller = IdleRoller
      BY <3>4 DEF RefusalInv, RollInv
    <3>6. g \notin roller.todo /\ g # roller.gap /\ state[g] # None
      BY <3>2, <3>5, GapIdAssumption DEF IdleRoller, None
    <3>7. due <= Day(state[g])
      BY <3>4, <3>6 DEF RefusalInv, RollInv
    <3> QED
      BY <1>0, <3>2, <3>3, <3>4, <3>7
  <2> QED
    BY <1>0, <1>12, <2>1 DEF SealDay, journalVars, ClosesInTime, Late, Day
<1>13. CASE ListStale
  <2>1. UNCHANGED <<now, sealed, state, since, observed, rolling>>
        /\ task'[g] = (IF state[g] # None THEN "open" ELSE task[g])
        /\ svc' \in {"up", "bootSources"}
    BY <1>13 DEF ListStale
  <2> QED
    BY <1>0, <2>1, ClosesStay, ClosesRest
<1>14. CASE StorageStops \/ StopSources
  <2>1. UNCHANGED <<now, sealed, state, since, observed, rolling>>
        /\ task'[g] \in {task[g], "lost"} /\ svc' \in {"up", "stopping"}
    BY <1>14 DEF StorageStops, StopSources, SourcesStop
  <2> QED
    BY <1>0, <2>1, ClosesStay, ClosesRest
<1>15. CASE RollState
  <2>1. /\ UNCHANGED <<now, sealed, task, since, observed, rolling, svc, due>>
        /\ roller.step = "state" /\ svc = "rollover"
        /\ state' = [state EXCEPT ![roller.gap] = Midnight(roller.day)]
    BY <1>15 DEF RollState
  <2>2. CASE g # roller.gap
    BY <1>0, <2>1, <2>2, ClosesStay DEF JournalTypes
  <2>3. CASE g = roller.gap
    <3>1. task[g] \in {"open", "lost"} /\ roller.day <= due
      BY <2>1, <2>3 DEF RefusalInv, RollInv
    <3>2. roller.day \in Nat /\ due = Day(now)
      BY <1>0, <2>1 DEF RollerInv, Roller, ClockInv
    <3>3. Midnight(roller.day) <= now
      BY <3>1, <3>2, RolledTo
    <3>4. state'[g] = Midnight(roller.day)
      BY <1>0, <2>1, <2>3 DEF JournalTypes
    <3> QED
      BY <1>0, <2>1, <3>1, <3>3, <3>4 DEF ClosesInTime, Late
  <2> QED
    BY <2>2, <2>3
<1>16. CASE Stopped \/ Crash
  <2>1. now' = now /\ state' = state
        /\ task'[g] = (IF task[g] \in {"unused", "closed"} THEN task[g] ELSE "lost")
    BY <1>16 DEF Stopped, Crash, ProcessEnds
  <2> QED
    BY <1>0, <2>1, ClosesRest
<1> QED
  BY <1>1, <1>2, <1>3, <1>4, <1>5, <1>6, <1>7, <1>8, <1>9, <1>10, <1>11, <1>12, <1>13, <1>14,
     <1>15, <1>16 DEF Next, Service

\* The service is elsewhere.
LEMMA RollRests ==
  ASSUME roller' = IdleRoller, svc' \notin {"rollover", "grace"} PROVE RollInv'
  BY GapIdAssumption DEF RollInv, IdleRoller

LEMMA RestsOn ==
  ASSUME RollInv, roller' = roller, svc # "rollover", svc' \notin {"rollover", "grace"}
  PROVE  RollInv'
  BY RollRests DEF RollInv

\* Others work while the rollover does not move.
LEMMA RollStays ==
  ASSUME RollInv, UNCHANGED <<roller, svc, due>>, due \in Nat, JournalTypes, JournalTypes',
         \A g \in Gaps : /\ g = roller.gap => task'[g] \in {"open", "lost"} /\ state'[g] = state[g]
                         /\ state'[g] # None /\ svc \in {"rollover", "grace"} =>
                              \/ due <= Day(state'[g])
                              \/ state[g] # None /\ Day(state[g]) <= Day(state'[g])
  PROVE  RollInv'
<1>1. roller.gap \in Gaps =>
        /\ task'[roller.gap] \in {"open", "lost"} /\ state'[roller.gap] \in Nat
        /\ roller.day = Day(state'[roller.gap]) + 1
        /\ roller.step = "state" => roller.day <= due
  BY DEF RollInv
<1>2. svc \in {"rollover", "grace"} =>
        \A g \in Gaps : state'[g] # None /\ g \notin roller.todo /\ g # roller.gap =>
          due <= Day(state'[g])
  <2>1. SUFFICES ASSUME svc \in {"rollover", "grace"}, NEW g \in Gaps, state'[g] # None,
                        g \notin roller.todo, g # roller.gap
                 PROVE  due <= Day(state'[g])
    OBVIOUS
  <2>2. SUFFICES ASSUME state[g] # None, Day(state[g]) <= Day(state'[g])
                 PROVE  due <= Day(state'[g])
    BY <2>1
  <2>3. state[g] \in Nat /\ state'[g] \in Nat
    BY <2>1, <2>2 DEF JournalTypes, Times
  <2>4. due <= Day(state[g])
    BY <2>1, <2>2 DEF RollInv
  <2> QED
    BY <2>2, <2>3, <2>4, DayBounds
<1>3. svc # "rollover" => roller = IdleRoller
  BY DEF RollInv
<1> QED
  BY <1>1, <1>2, <1>3 DEF RollInv, IdleRoller, Day

LEMMA JournalKeepsRoll ==
  ASSUME GapInv, GapInv', RefusalInv, Undisturbed, NEW h \in Gaps, JournalStep(h) PROVE RollInv'
<1>0. UNCHANGED <<roller, svc, due>> /\ RollInv /\ JournalTypes /\ FileOf(h) /\ ClosesInTime(h)
      /\ due \in Nat /\ JournalTypes'
  BY DEF JournalStep, serviceVars, RefusalInv, GapInv, FileInv, ClockInv
<1>1. ASSUME NEW g \in Gaps
      PROVE  /\ g = roller.gap => task'[g] \in {"open", "lost"} /\ state'[g] = state[g]
             /\ state'[g] # None /\ svc \in {"rollover", "grace"} =>
                  \/ due <= Day(state'[g])
                  \/ state[g] # None /\ Day(state[g]) <= Day(state'[g])
  <2>1. CASE g # h
    <3>1. task'[g] = task[g] /\ state'[g] = state[g]
      BY <1>0, <2>1 DEF JournalStep, OpenState, CloseRolls, CloseRolled, CloseFact, CloseRemoves,
                        JournalTypes
    <3> QED
      <4>1. state'[g] # None => state[g] # None /\ Day(state[g]) <= Day(state'[g])
        <5>1. state'[g] # None => state[g] \in Nat /\ Day(state[g]) \in Nat
          BY <1>0, <3>1, DayBounds DEF JournalTypes, Times
        <5> QED
          BY <3>1, <5>1
      <4> QED
        BY <1>0, <3>1, <4>1 DEF RollInv
  <2>2. CASE g = h
    <3>1. task[h] \in {"opening", "closing", "rolled", "removing"}
      BY DEF JournalStep, OpenState, CloseRolls, CloseRolled, CloseFact, CloseRemoves
    <3>2. g # roller.gap
      BY <1>0, <2>2, <3>1 DEF RollInv
    <3>3. ASSUME svc \in {"rollover", "grace"}, state'[h] # None
          PROVE  \/ due <= Day(state'[h])
                 \/ state[h] # None /\ Day(state[h]) <= Day(state'[h])
      <4>0. due = Day(now) /\ Day(now) \in Nat
        BY <3>3, DayBounds DEF GapInv, ClockInv
      <4>1. CASE OpenState(h)
        <5>1. task[h] = "opening" /\ state'[h] = since[h]
          BY <1>0, <4>1 DEF OpenState, JournalTypes
        <5>2. Day(since[h]) = Day(now)
          BY <3>3, <5>1 DEF Undisturbed, OpensInTime
        <5> QED
          BY <4>0, <5>1, <5>2
      <4>2. CASE CloseRolled(h)
        <5>1. task[h] = "rolled" /\ state'[h] = Midnight(rolling[h]) /\ state[h] \in Nat
          BY <1>0, <4>2 DEF CloseRolled, JournalTypes, FileOf
        <5>2. rolling[h] = Day(state[h]) + 1 /\ Day(state[h]) \in Nat
          BY <1>0, <5>1, DayBounds DEF ClosesInTime
        <5>3. PICK e \in Nat : e = Day(state[h]) + 1
          BY <5>2
        <5>4. PICK m \in Nat : m = Midnight(e)
          BY MidnightSteps
        <5>5. Day(m) = e
          BY <5>4, DayIs, LengthIs
        <5> QED
          BY <5>1, <5>2, <5>3, <5>4, <5>5 DEF None
      <4>3. CASE CloseRolls(h) \/ CloseFact(h) \/ CloseRemoves(h)
        <5>1. state'[h] = state[h]
          BY <1>0, <3>3, <4>3 DEF CloseRolls, CloseFact, CloseRemoves, JournalTypes
        <5>2. state[h] \in Nat /\ Day(state[h]) \in Nat
          BY <1>0, <3>3, <5>1, DayBounds DEF JournalTypes, Times
        <5> QED
          BY <5>1, <5>2 DEF None
      <4> QED
        BY <4>1, <4>2, <4>3 DEF JournalStep
    <3> QED
      BY <2>2, <3>2, <3>3
  <2> QED
    BY <2>1, <2>2
<1> QED
  BY <1>0, <1>1, RollStays

LEMMA RollStep ==
  ASSUME GapInv, GapInv', RefusalInv, Undisturbed, Undisturbed', Next PROVE RollInv'
<1> USE DEF serviceVars, faultVars, Unserved, Unlisted, Unsourced
<1>0. RollInv /\ JournalTypes /\ JournalTypes' /\ due \in Nat /\ RollerInv
  BY DEF RefusalInv, GapInv, ClockInv
<1>a. ASSUME NEW g \in Gaps, state'[g] = state[g], state'[g] # None
      PROVE  state[g] # None /\ Day(state[g]) <= Day(state'[g])
  <2>1. state[g] \in Nat /\ Day(state[g]) \in Nat
    BY <1>0, <1>a, DayBounds DEF JournalTypes, Times
  <2> QED
    BY <1>a, <2>1
<1>b. ASSUME NEW g \in Gaps, g = roller.gap PROVE task[g] \in {"open", "lost"}
  BY <1>0, <1>b DEF RollInv
<1>1. ASSUME NEW h \in Gaps, JournalStep(h) PROVE RollInv'
  BY <1>1, JournalKeepsRoll
<1>2. CASE \E h \in Gaps : SourceOpens(h)
  <2>1. PICK h \in Gaps : SourceOpens(h)
    BY <1>2
  <2>2. PICK from : OpenFact(h, from)
    BY <2>1 DEF SourceOpens
  <2>3. UNCHANGED <<roller, svc, due, state>> /\ task[h] = "unused"
        /\ task' = [task EXCEPT ![h] = "opening"]
    BY <2>1, <2>2 DEF SourceOpens, OpenFact
  <2>4. \A g \in Gaps : g = roller.gap => task'[g] \in {"open", "lost"}
    BY <1>0, <1>b, <2>3 DEF JournalTypes
  <2> QED
    BY <1>0, <1>a, <2>3, <2>4, RollStays
<1>3. CASE CloseStale \/ StorageCloses
  BY <1>0, <1>3, RestsOn DEF CloseStale, StorageCloses, StartClose, journalVars
<1>4. CASE \E h \in Gaps : SourceCloses(h)
  <2>1. PICK h \in Gaps : SourceCloses(h) /\ StartClose(h)
    BY <1>4 DEF SourceCloses
  <2>2. UNCHANGED <<roller, svc, due, state>> /\ task' = [task EXCEPT ![h] = "closing"]
    BY <2>1 DEF SourceCloses, StartClose
  <2>3. h # roller.gap
    BY <2>1 DEF StartClose, Undisturbed
  <2>4. \A g \in Gaps : g = roller.gap => task'[g] \in {"open", "lost"}
    BY <1>0, <1>b, <2>2, <2>3 DEF JournalTypes
  <2> QED
    BY <1>0, <1>a, <2>2, <2>4, RollStays
<1>5. CASE DiskFills \/ DiskDrains
  <2>1. UNCHANGED <<roller, svc, due, state, task>>
    BY <1>5 DEF DiskFills, DiskDrains, journalVars
  <2> QED
    BY <1>0, <1>a, <1>b, <2>1, RollStays
<1>6. CASE Tick
  <2>1. UNCHANGED <<roller, svc, state, task>>
    BY <1>6 DEF Tick, journalVars
  <2>2. CASE due' = due
    BY <1>0, <1>a, <1>b, <2>1, <2>2, RollStays
  <2>3. CASE due' # due
    <3>1. svc \notin {"rollover", "grace"}
      BY <1>6, <2>3 DEF Tick, GapInv, ClockInv
    <3> QED
      BY <1>0, <2>1, <3>1, RestsOn
  <2> QED
    BY <2>2, <2>3
<1>7. CASE Boot \/ Recovered \/ ListStale \/ SourcesReady \/ SourcesTimeout \/ StaleClosed
  BY <1>0, <1>7, RestsOn DEF Boot, Recovered, ListStale, SourcesReady, SourcesTimeout, StaleClosed
<1>8. CASE StorageFull \/ StorageOpened \/ StorageStops \/ StorageRecovers
  BY <1>0, <1>8, RestsOn DEF StorageFull, StorageOpened, StorageStops, StorageRecovers
<1>9. CASE RequestStop \/ StopOpens \/ StopSources
  BY <1>0, <1>9, RestsOn DEF RequestStop, StopOpens, StopSources
<1>10. CASE SealDay
  BY <1>0, <1>10, RestsOn DEF SealDay
<1>11. CASE Stopped \/ Crash
  BY <1>11, RollRests DEF Stopped, Crash, ProcessEnds
<1>12. CASE StartRollover
  <2>1. /\ svc' = "rollover" /\ state' = state
        /\ roller' = [IdleRoller EXCEPT !.todo = {g \in Gaps : state[g] # None}]
    BY <1>12 DEF StartRollover, journalVars
  <2>2. roller'.gap = NoGap /\ roller'.todo = {g \in Gaps : state[g] # None}
    BY <2>1 DEF IdleRoller
  <2> QED
    BY <2>1, <2>2, GapIdAssumption DEF RollInv
<1>13. CASE RollRead
  <2>1. /\ svc = "rollover" /\ roller.gap = NoGap /\ UNCHANGED <<state, task, due>>
    BY <1>13 DEF RollRead, journalVars
  <2>2. PICK g \in roller.todo :
          \/ /\ state[g] # None
             /\ roller' = [todo |-> roller.todo \ {g}, gap |-> g, day |-> Day(state[g]) + 1,
                           step |-> "facts"]
             /\ raced' = IF Closing(g) THEN raced \cup {g} ELSE raced
             /\ UNCHANGED svc
          \/ svc' = "stop" /\ roller' = IdleRoller
    BY <1>13 DEF RollRead
  <2>3. CASE svc' = "stop" /\ roller' = IdleRoller
    BY <2>3, RollRests
  <2>4. CASE /\ state[g] # None
             /\ roller' = [todo |-> roller.todo \ {g}, gap |-> g, day |-> Day(state[g]) + 1,
                           step |-> "facts"]
             /\ raced' = IF Closing(g) THEN raced \cup {g} ELSE raced
             /\ UNCHANGED svc
    <3>1. g \in Gaps /\ state[g] \in Nat
      BY <1>0, <2>4 DEF RollerInv, Roller, JournalTypes, Times
    <3>2. ~Closing(g)
      BY <2>4 DEF Undisturbed
    <3>3. FileOf(g) /\ ClosesInTime(g)
      BY <3>1 DEF GapInv, FileInv, RefusalInv
    <3>4. task[g] \in {"open", "lost"}
      BY <1>0, <2>4, <3>1, <3>2, <3>3 DEF FileOf, ClosesInTime, Closing, JournalTypes, Tasks
    <3>5. roller'.gap = g /\ roller'.todo = roller.todo \ {g} /\ roller'.day = Day(state[g]) + 1
          /\ roller'.step = "facts"
      BY <2>4
    <3>6. \A x \in Gaps : state[x] # None /\ x \notin roller'.todo /\ x # roller'.gap =>
            due <= Day(state[x])
      BY <1>0, <2>1, <3>5, GapIdAssumption DEF RollInv
    <3> QED
      BY <2>1, <2>4, <3>1, <3>4, <3>5, <3>6 DEF RollInv, Day
  <2> QED
    BY <2>2, <2>3, <2>4
<1>14. CASE RollPublish
  <2>1. /\ svc = "rollover" /\ roller.day <= due /\ UNCHANGED <<state, task, due, svc>>
        /\ roller' = [roller EXCEPT !.step = "state"]
    BY <1>14 DEF RollPublish
  <2>2. roller'.gap = roller.gap /\ roller'.todo = roller.todo /\ roller'.day = roller.day
    BY <1>0, <2>1 DEF RollerInv, Roller
  <2> QED
    BY <1>0, <2>1, <2>2 DEF RollInv, Day
<1>15. CASE RollState
  <2>1. /\ svc = "rollover" /\ roller.step = "state" /\ UNCHANGED <<task, due, svc>>
        /\ state' = [state EXCEPT ![roller.gap] = Midnight(roller.day)]
        /\ roller' = [roller EXCEPT !.day = roller.day + 1, !.step = "facts"]
    BY <1>15 DEF RollState
  <2>2. roller.gap \in Gaps /\ roller.day \in Nat
    BY <1>0, <2>1 DEF RollerInv, Roller
  <2>3. PICK e \in Nat : e = roller.day /\ e + 1 \in Nat
    BY <2>2
  <2>4. PICK m \in Nat : m = Midnight(e)
    BY MidnightSteps
  <2>5. Day(m) = e
    BY <2>4, DayIs, LengthIs
  <2>6. state'[roller.gap] = m /\ \A g \in Gaps : g # roller.gap => state'[g] = state[g]
    BY <1>0, <2>1, <2>2, <2>3, <2>4 DEF JournalTypes
  <2>7. roller'.gap = roller.gap /\ roller'.todo = roller.todo /\ roller'.day = e + 1
        /\ roller'.step = "facts"
    BY <1>0, <2>1, <2>3 DEF RollerInv, Roller
  <2>8. roller'.day = Day(state'[roller'.gap]) + 1 /\ state'[roller'.gap] \in Nat
    BY <2>5, <2>6, <2>7
  <2>9. task'[roller'.gap] \in {"open", "lost"}
    BY <1>b, <2>1, <2>2, <2>7
  <2>10. \A g \in Gaps : state'[g] # None /\ g \notin roller'.todo /\ g # roller'.gap =>
           due' <= Day(state'[g])
    BY <1>0, <2>1, <2>6, <2>7 DEF RollInv
  <2> QED
    BY <2>1, <2>7, <2>8, <2>9, <2>10 DEF RollInv, Day
<1>16. CASE RollNext
  <2>1. /\ svc = "rollover" /\ roller.step = "facts" /\ roller.day > due
        /\ UNCHANGED <<state, task, due, svc>>
        /\ roller' = [IdleRoller EXCEPT !.todo = roller.todo]
    BY <1>16 DEF RollNext, journalVars
  <2>2. roller.gap \in Gaps
    BY <1>0, <2>1 DEF RollerInv
  <2>3. due <= Day(state[roller.gap])
    <3>1. state[roller.gap] \in Nat /\ roller.day = Day(state[roller.gap]) + 1
      BY <1>0, <2>2 DEF RollInv
    <3> QED
      BY <1>0, <2>1, <3>1, DayBounds
  <2>4. roller'.gap = NoGap /\ roller'.todo = roller.todo
    BY <2>1 DEF IdleRoller
  <2> QED
    BY <1>0, <2>1, <2>3, <2>4, GapIdAssumption DEF RollInv, Day
<1>17. CASE RolloverDone
  <2>1. svc = "rollover" /\ roller = IdleRoller /\ svc' = "grace" /\ UNCHANGED <<state, due, roller>>
    BY <1>17 DEF RolloverDone, journalVars
  <2> QED
    BY <1>0, <2>1, GapIdAssumption DEF RollInv, IdleRoller, Day
<1> QED
  BY <1>1, <1>2, <1>3, <1>4, <1>5, <1>6, <1>7, <1>8, <1>9, <1>10, <1>11, <1>12, <1>13, <1>14,
     <1>15, <1>16, <1>17 DEF Next, Service

\* Nothing that the starts and the seals look at.
LEMMA StartStays ==
  ASSUME StartInv, UNCHANGED <<now, sealed, due, storageGap, stale, up, running, svc>>,
         storage \subseteq storage',
         svc \in {"down", "list", "bootSources"} => UNCHANGED <<task, state>>
  PROVE  StartInv'
  BY DEF StartInv, Day

\* The service moves on to where it neither starts nor seals.
LEMMA StartMoves ==
  ASSUME StartInv, UNCHANGED <<now, sealed, due, up, running>>,
         storageGap' \in storage' \cup {NoGap},
         svc' \notin {"down", "list", "bootSources", "bootStale", "stale"}
  PROVE  StartInv'
  BY DEF StartInv, Day

LEMMA StartStop ==
  ASSUME StartInv, SourcesStop, UNCHANGED <<now, storageGap, storage>>, svc' \in {"up", "stopping"}
  PROVE  StartInv'
  BY DEF StartInv, SourcesStop

LEMMA EndKeepsStart ==
  ASSUME ProcessEnds PROVE StartInv'
<1>1. svc' = "down" /\ storageGap' = NoGap /\ running' = FALSE
  BY DEF ProcessEnds
<1>2. \A g \in Gaps : task'[g] # "opening"
  BY DEF ProcessEnds
<1> QED
  BY <1>1, <1>2 DEF StartInv

\* No step of a close or an open while the service boots.
LEMMA QuietBoot ==
  ASSUME GapInv, RefusalInv, svc \in {"down", "list", "bootSources"}, NEW h \in Gaps
  PROVE  task[h] # "opening" /\ ~Closing(h)
<1>1. ~running
  BY DEF GapInv, ClockInv
<1>2. ~Closing(h)
  BY <1>1, NoCloserAtStart DEF GapInv
<1> QED
  BY <1>2 DEF RefusalInv, StartInv

LEMMA StartStep ==
  ASSUME GapInv, RefusalInv, Next PROVE StartInv'
<1> USE DEF serviceVars, faultVars, Unserved, Unlisted, Unsourced
<1>0. /\ StartInv /\ now \in Nat /\ Day(now) \in Nat /\ due \in Nat /\ due \in {0, Day(now)}
      /\ \A d \in sealed : d \in Nat /\ d < Day(now)
  BY DayBounds DEF RefusalInv, GapInv, ClockInv
<1>1. ASSUME NEW h \in Gaps, JournalStep(h) PROVE StartInv'
  <2>1. task[h] = "opening" \/ Closing(h)
    BY <1>1 DEF JournalStep, OpenState, CloseRolls, CloseRolled, CloseFact, CloseRemoves, Closing
  <2>2. svc \notin {"down", "list", "bootSources"}
    BY <2>1, QuietBoot
  <2> QED
    BY <1>0, <1>1, <2>2, StartStays DEF JournalStep
<1>2. CASE \E h \in Gaps : SourceOpens(h) \/ SourceCloses(h)
  <2>1. UNCHANGED <<now, sealed, due, storageGap, stale, up, running, svc, storage>> /\ running
    BY <1>2 DEF SourceOpens, SourceCloses
  <2>2. svc \notin {"down", "list", "bootSources"}
    BY <2>1 DEF GapInv, ClockInv
  <2> QED
    BY <1>0, <2>1, <2>2, StartStays
<1>3. CASE DiskFills \/ DiskDrains
  BY <1>0, <1>3, StartStays DEF DiskFills, DiskDrains, journalVars
<1>4. CASE CloseStale
  BY <1>0, <1>4, StartStays DEF CloseStale
<1>5. CASE RollPublish \/ RollState \/ RollNext
  BY <1>0, <1>5, StartStays DEF RollPublish, RollState, RollNext
<1>6. CASE Tick
  <2>0. UNCHANGED <<sealed, storageGap, storage, stale, up, running, svc, task, state>>
    BY <1>6 DEF Tick, journalVars
  <2>1. CASE Day(now') = Day(now)
    <3>1. due' = due
      BY <1>6, <2>1 DEF Tick
    <3> QED
      BY <1>0, <2>0, <2>1, <3>1 DEF StartInv, Day
  <2>2. CASE Day(now') # Day(now)
    <3>1. svc \notin {"bootStale", "stale"} /\ due = 0 /\ due' \in {0, Day(now')}
      BY <1>6, <2>2 DEF Tick
    <3>2. Day(now') <= Day(now) + 1 /\ Day(now) <= Day(now') /\ Day(now') \in Nat
      <4>1. now' \in Nat /\ now < now' /\ now' = Later(now) /\ Instant(now)
        BY <1>0, <1>6, LaterInstant DEF Tick, GapInv, ClockInv
      <4> QED
        BY <1>0, <4>1, NextDay, DayOrder, DayBounds
    <3>3. due' # 0 => due' - 1 = Day(now)
      BY <1>0, <2>2, <3>1, <3>2
    <3>4. due' # 0 => due' - 1 \notin sealed
      BY <1>0, <3>3
    <3> QED
      BY <1>0, <2>0, <3>1, <3>4 DEF StartInv
  <2> QED
    BY <2>1, <2>2
<1>7. CASE Boot
  <2>1. /\ UNCHANGED <<now, sealed, due, storageGap, storage, stale, up, running>>
        /\ svc = "down"
        /\ svc' = "recover" \/ (svc' = "list" /\ UNCHANGED <<task, state>>)
    BY <1>7 DEF Boot, journalVars
  <2> QED
    BY <1>0, <2>1 DEF StartInv, Day
<1>8. CASE Recovered
  <2>1. /\ UNCHANGED <<now, sealed, due, storageGap, storage, stale, up, running, task>>
        /\ svc' = "list" /\ \A g \in Gaps : task[g] # "opening"
    BY <1>8 DEF Recovered, journalVars
  <2> QED
    BY <1>0, <2>1 DEF StartInv, Day
<1>9. CASE ListStale
  <2>1. /\ UNCHANGED <<now, sealed, due, storage, up, running, state>>
        /\ svc = "list" /\ svc' \in {"up", "bootSources"}
        /\ stale' = {g \in Gaps : state[g] # None}
        /\ task' = [g \in Gaps |-> IF state[g] # None THEN "open" ELSE task[g]]
    BY <1>9 DEF ListStale
  <2>2. storageGap' \in storage' \cup {NoGap}
    BY <1>9 DEF ListStale
  <2>3. \A g \in Gaps : task'[g] # "opening"
    BY <1>0, <2>1 DEF StartInv
  <2> QED
    BY <1>0, <2>1, <2>2, <2>3 DEF StartInv, Day
<1>10. CASE SourcesReady
  <2>1. UNCHANGED <<now, sealed, due, storageGap, storage>> /\ up' = now
        /\ svc' \in {"stale", "bootStale"}
    BY <1>10 DEF SourcesReady
  <2> QED
    BY <1>0, <2>1 DEF StartInv, Day
<1>11. CASE \/ SourcesTimeout \/ StorageOpened \/ StorageRecovers \/ StartRollover \/ RollRead
            \/ RolloverDone \/ RequestStop \/ StopOpens
  <2>1. UNCHANGED <<now, sealed, due, up, running, storageGap, storage>>
        /\ (svc' \notin {"down", "list", "bootSources", "bootStale", "stale"})
    BY <1>11 DEF SourcesTimeout, StorageOpened, StorageRecovers, StartRollover, RollRead,
                 RolloverDone, RequestStop, StopOpens
  <2> QED
    BY <1>0, <2>1, StartMoves DEF StartInv
<1>12. CASE StaleClosed
  <2>1. /\ UNCHANGED <<now, due, storageGap, storage, up, running>>
        /\ svc \in {"bootStale", "stale"} /\ svc' \in {"up", "storageClose"}
    BY <1>12 DEF StaleClosed
  <2>2. Day(up) = Day(now)
    BY <1>0, <2>1 DEF StartInv
  <2> QED
    BY <1>0, <2>1, <2>2 DEF StartInv, Day
<1>13. CASE StorageFull
  BY <1>0, <1>13, StartMoves DEF StorageFull
<1>14. CASE StorageCloses
  <2>1. CASE UNCHANGED serviceVars
    BY <1>0, <1>14, <2>1, StartStays DEF StorageCloses
  <2>2. CASE storageGap' = NoGap /\ svc' = "up" /\ UNCHANGED <<up, running>>
    BY <1>0, <1>14, <2>2, StartMoves DEF StorageCloses
  <2> QED
    BY <1>14, <2>1, <2>2 DEF StorageCloses
<1>15. CASE StorageStops \/ StopSources
  BY <1>0, <1>15, StartStop DEF StorageStops, StopSources
<1>16. CASE SealDay
  BY <1>0, <1>16 DEF SealDay, StartInv, Day
<1>17. CASE Stopped \/ Crash
  BY <1>17, EndKeepsStart DEF Stopped, Crash
<1> QED
  BY <1>1, <1>2, <1>3, <1>4, <1>5, <1>6, <1>7, <1>8, <1>9, <1>10, <1>11, <1>12, <1>13, <1>14,
     <1>15, <1>16, <1>17 DEF Next, Service

LEMMA RefusalInit ==
  ASSUME Init PROVE RefusalInv
<1>1. RollInv /\ StartInv /\ NothingRefused
  BY GapIdAssumption DEF Init, RollInv, StartInv, NothingRefused, IdleRoller
<1>2. \A g \in Gaps : ClosesInTime(g) /\ OpensInDays(g) /\ FilesInDays(g)
  BY DEF Init, ClosesInTime, OpensInDays, FilesInDays, Late, None
<1> QED
  BY <1>1, <1>2 DEF RefusalInv

LEMMA RefusalStep ==
  ASSUME GapInv, GapInv', RefusalInv, Undisturbed, Undisturbed', [Next]_vars PROVE RefusalInv'
<1>1. CASE Next
  <2>1. RollInv' /\ StartInv' /\ NothingRefused'
    BY <1>1, RollStep, StartStep, RefusedStep
  <2>2. ASSUME NEW g \in Gaps PROVE ClosesInTime(g)' /\ OpensInDays(g)' /\ FilesInDays(g)'
    BY <1>1, ClosesStep, OpensStep, DaysStep
  <2> QED
    BY <2>1, <2>2 DEF RefusalInv
<1>2. CASE UNCHANGED vars
  <2>1. UNCHANGED <<now, facts, state, task, observed, rolling, since, until, refused>>
        /\ UNCHANGED <<sealed, roller, svc, stale, storageGap, running, lease, up, lost, storage, due>>
    BY <1>2 DEF vars, journalVars, serviceVars, faultVars
  <2>2. RollInv' /\ StartInv' /\ NothingRefused'
    BY <2>1 DEF RefusalInv, RollInv, StartInv, NothingRefused, IdleRoller, Day
  <2>3. ASSUME NEW g \in Gaps PROVE ClosesInTime(g)' /\ OpensInDays(g)' /\ FilesInDays(g)'
    <3>1. ClosesInTime(g) /\ OpensInDays(g) /\ FilesInDays(g)
      BY DEF RefusalInv
    <3> QED
      BY <2>1, <3>1 DEF ClosesInTime, OpensInDays, FilesInDays, Late, Booting, Day
  <2> QED
    BY <2>2, <2>3 DEF RefusalInv
<1> QED
  BY <1>1, <1>2

\* No fact of a gap meets a day that is sealed, but those of a full disk's gap
\* (gaps._publish, DayIndex.record_generated), for any number of days, gaps,
\* crashes and full disks: as long as no close and the rollover are at a gap in
\* the same moment, and no open is published over a midnight that the rollover
\* has handled or is handling.
THEOREM LateFactsAreNeverRefused == Spec /\ []Undisturbed => []NothingRefused
<1>1. Init => GapInv /\ RefusalInv
  BY GapInit, RefusalInit
<1>2. /\ GapInv /\ RefusalInv /\ Undisturbed /\ Undisturbed' /\ [Next]_vars
      => GapInv' /\ RefusalInv'
  BY GapStep, RefusalStep
<1>3. RefusalInv => NothingRefused
  BY DEF RefusalInv
<1> QED
  BY <1>1, <1>2, <1>3, PTL DEF Spec
=============================================================================

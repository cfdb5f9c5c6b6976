---------------------------- MODULE PipelineProofs ----------------------------
(***************************************************************************)
(* Proofs about the way from a source to a recorded chunk, for any number  *)
(* of writers, events, batches and faults and for any length of the day.   *)
(***************************************************************************)
EXTENDS PipelineProperties, SequenceTheorems, WellFoundedInduction, TLAPS

USE DEF sourceVars, queueVars, writerVars, diskVars, sealVars, serviceVars, historyVars

Places == {"none", "stamped", "held", "woken", "admitted", "rejected", "dropped"}
WriterPlaces == {"get", "flush", "close", "publish", "record", "reply", "ended", "failed"}
Services == {"boot", "bootBarrier", "bootRotate", "running", "rotate1", "emit",
             "secondBarrier", "rotate2", "grace", "seal", "failing", "stopping", "draining",
             "down"}
Items == {NoItem, StopItem} \cup {EventItem(e) : e \in All} \cup {RotateItem(u) : u \in Nat}
Session == [day : Int, universe : Nat, batch : SUBSET All, written : SUBSET All]
Chunk == [group : Groups, day : Int, universe : Nat, events : SUBSET All]

Types ==
  /\ now \in Nat /\ stamp \in [All -> Int]
  /\ \A e \in All : place[e] # "none" => stamp[e] \in 0 .. now
  /\ place \in [All -> Places]
  /\ queue \in [Groups -> Seq(Items)] /\ hand \in [Groups -> Items]
  /\ session \in [Groups -> Session] /\ pc \in [Groups -> WriterPlaces]
  /\ label \in [Groups -> Nat] /\ universe \in Nat /\ target \in Nat
  /\ watermark \in [Groups -> Int] /\ under \in [All -> Nat]
  /\ published \subseteq Chunk /\ journal \subseteq Chunk
  /\ svc \in Services /\ replies \subseteq Groups

Has(q, x) == \E i \in 1 .. Len(q) : q[i] = x
Queued(g, e) == Has(queue[g], EventItem(e))
Carried(g, e) == e \in Contents(session[g]) \/ hand[g] = EventItem(e)

\* What the places of _run say about the item and the session of a writer.
WriterInv ==
  \A g \in Groups :
    /\ pc[g] \in {"get", "flush", "ended"} => hand[g] = NoItem
    /\ pc[g] \in {"publish", "record"} => session[g].batch = {}
    /\ pc[g] \in {"reply", "ended"} => session[g] = NoSession
    /\ pc[g] \in {"flush", "close", "publish", "record"} => session[g] # NoSession

\* A mark is emitted once, and never held.
MarksInv ==
  /\ svc = "boot" => place[BootMark] = "none"
  /\ svc \in {"boot", "bootBarrier", "bootRotate", "rotate1", "emit"} => place[DayMark] = "none"
  /\ \A m \in Marks : place[m] \in {"none", "admitted", "rejected"}

\* What a writer has is admitted and of its group, and what is admitted is
\* with the writer of its group or recorded.
WhereInv ==
  /\ \A g \in Groups, e \in All :
       Queued(g, e) \/ Carried(g, e) => place[e] = "admitted" /\ Group(e) = g
  /\ \A c \in published \cup journal : \A e \in c.events : place[e] = "admitted"
  /\ \A e \in Admitted : e \in Recorded \/ Queued(Group(e), e) \/ Carried(Group(e), e)

\* Nothing follows a StopWriter.
StopInv ==
  /\ svc \in {"draining", "down"} => \A e \in All : place[e] # "woken"
  /\ \A g \in Groups :
       /\ pc[g] = "ended" => svc \in {"draining", "down"} /\ queue[g] = <<>>
       /\ hand[g] = StopItem => svc \in {"draining", "down"} /\ queue[g] = <<>>
       /\ \A i \in 1 .. Len(queue[g]) : queue[g][i] = StopItem =>
            svc \in {"draining", "down"} /\ i = Len(queue[g])
  /\ outcome = "clean" => svc = "down" /\ \A g \in Groups : pc[g] = "ended"

\* A session is of one day.
SessionInv ==
  /\ \A g \in Groups : \A e \in Contents(session[g]) : Day(stamp[e]) = session[g].day
  /\ \A c \in published, e \in All : e \in c.events => Day(stamp[e]) = c.day

Rotating == svc \in {"bootRotate", "rotate1", "rotate2"}

\* The admission is closed while a rotation runs, and a cancelled rotation is
\* followed by the stop.
LoopInv ==
  /\ cancelled => svc \in {"stopping", "draining", "down"}
  /\ ~accepting <=> Rotating
  /\ svc \in {"boot", "bootBarrier"} => \A e \in All : place[e] \notin {"held", "woken"}

\* A writer has the universe of the pool, and so have its session and the
\* events on their way to it, but for a writer that has passed the barrier.
UniverseInv ==
  \A g \in Groups :
    /\ label[g] = IF Rotating /\ g \in replies THEN target ELSE universe
    /\ session[g] # NoSession => session[g].universe = label[g]
    /\ \A e \in Contents(session[g]) : under[e] = session[g].universe
    /\ \A e \in All : Queued(g, e) \/ hand[g] = EventItem(e) => under[e] = universe

\* There is at most one barrier, the one of the running rotation; behind the
\* first barrier of midnight there is nothing.
BarrierInv ==
  \A g \in Groups :
    /\ hand[g].kind = "rotate" =>
         /\ Rotating /\ g \notin replies /\ hand[g].universe = target
         /\ \A i \in 1 .. Len(queue[g]) : queue[g][i].kind # "rotate"
         /\ svc = "rotate1" => queue[g] = <<>>
    /\ \A i \in 1 .. Len(queue[g]) : queue[g][i].kind = "rotate" =>
         /\ Rotating /\ g \notin replies /\ queue[g][i].universe = target
         /\ \A j \in 1 .. Len(queue[g]) : queue[g][j].kind = "rotate" => j = i
         /\ svc = "rotate1" => i = Len(queue[g])
    /\ svc = "rotate1" /\ g \in replies =>
         queue[g] = <<>> /\ hand[g] = NoItem /\ session[g] = NoSession

\* Only the first rotation of midnight changes the universe, and no held put
\* comes through during it.
TargetInv ==
  /\ svc \in {"bootRotate", "rotate2"} => target = universe
  /\ svc = "rotate1" => \A e \in All : place[e] # "woken"

ChunksAgree == \A c \in published, e \in All : e \in c.events => c.universe = under[e]

Agreed == UniverseInv /\ BarrierInv /\ TargetInv /\ ChunksAgree
LabelInv == LoopInv /\ (~Torn => Agreed)

\* The watermark of a writer is a stamp of its group.
MarkedInv ==
  \A g \in Groups :
    \/ watermark[g] = -1
    \/ \E o \in All : Group(o) = g /\ place[o] = "admitted" /\ watermark[g] = stamp[o]

\* A writer takes what was not overtaken in the order of its stamps: what is
\* recorded, in the session, in the hand and in the queue, in this order.
OrderInv ==
  \A g \in Groups : \A e \in All \ overtaken :
    /\ Queued(g, e) \/ Carried(g, e) => watermark[g] <= stamp[e]
    /\ Queued(g, e) \/ hand[g] = EventItem(e) =>
         \A o \in Contents(session[g]) : stamp[o] <= stamp[e]
    /\ Queued(g, e) => \A o \in All : hand[g] = EventItem(o) => stamp[o] <= stamp[e]
    /\ \A i, j \in 1 .. Len(queue[g]) : \A o \in All :
         j < i /\ queue[g][i] = EventItem(e) /\ queue[g][j] = EventItem(o) => stamp[o] <= stamp[e]

\* The service is behind a midnight, or in its grace period.
Behind == {"rotate1", "emit", "secondBarrier", "rotate2", "grace", "seal"}

\* Behind the grace period nothing of the day that ended is left.
GraceInv ==
  /\ svc \in Behind => now >= DayLength
  /\ sealed # "open" /\ ~early =>
       /\ now >= DayLength /\ ~Leftover
       /\ {c \in published : c.day = 0} \subseteq inventory

(***************************************************************************)
(* Items and sessions.                                                     *)
(***************************************************************************)

\* The kinds of items are distinct, and an item is known by its kind.
LEMMA ItemKinds ==
  /\ NoItem \in Items /\ StopItem \in Items
  /\ NoItem.kind = "none" /\ StopItem.kind = "stop"
  /\ \A e \in All : EventItem(e) \in Items /\ EventItem(e).kind = "event" /\ EventItem(e).event = e
  /\ \A u \in Nat : /\ RotateItem(u) \in Items /\ RotateItem(u).kind = "rotate"
                    /\ RotateItem(u).universe = u
  /\ \A x \in Items :
       /\ x.kind = "none" => x = NoItem
       /\ x.kind = "stop" => x = StopItem
       /\ x.kind = "event" => x.event \in All /\ x = EventItem(x.event)
       /\ x.kind = "rotate" => x.universe \in Nat /\ x = RotateItem(x.universe)
       /\ x.kind \in {"none", "stop", "event", "rotate"}
<1>1. NoItem.kind = "none" /\ StopItem.kind = "stop" /\ NoItem \in Items /\ StopItem \in Items
  BY DEF NoItem, StopItem, Items
<1>2. ASSUME NEW e PROVE EventItem(e).kind = "event" /\ EventItem(e).event = e
  BY DEF EventItem
<1>3. ASSUME NEW u PROVE RotateItem(u).kind = "rotate" /\ RotateItem(u).universe = u
  BY DEF RotateItem
<1>4. \A e \in All : EventItem(e) \in Items
  BY DEF Items
<1>5. \A u \in Nat : RotateItem(u) \in Items
  BY DEF Items
<1>6. ASSUME NEW x \in Items
      PROVE  \/ x = NoItem \/ x = StopItem
             \/ \E e \in All : x = EventItem(e)
             \/ \E u \in Nat : x = RotateItem(u)
  BY DEF Items
<1> QED
  BY <1>1, <1>2, <1>3, <1>4, <1>5, <1>6

\* No session is a session without events.
LEMMA NoSessionIsEmpty ==
  /\ NoSession \in Session /\ Contents(NoSession) = {} /\ NoSession.batch = {}
  /\ NoSession.written = {} /\ NoSession.day = -1
BY DEF NoSession, Session, Contents

\* A session is its four fields.
LEMMA SessionFields ==
  ASSUME NEW a \in Session, NEW b \in Session, a.day = b.day, a.universe = b.universe,
         a.batch = b.batch, a.written = b.written
  PROVE  a = b
BY DEF Session

\* add puts the event into the session, or into a new one of its day with the
\* label of the writer.
Added(g, s, e, new) ==
  /\ new \in Session /\ new # NoSession
  /\ Contents(new) = Contents(s) \cup {e}
  /\ new.day = IF s = NoSession THEN Day(stamp[e]) ELSE s.day
  /\ new.universe = IF s = NoSession THEN label[g] ELSE s.universe
  /\ session' = [session EXCEPT ![g] = new]
  /\ hand' = [hand EXCEPT ![g] = NoItem]
  /\ \E where \in {"flush", "close", "get"} : pc' = [pc EXCEPT ![g] = where]

LEMMA AddEffect ==
  ASSUME Types, NEW g \in Groups, NEW s \in Session, NEW e \in All, Add(g, s, e),
         Day(stamp[e]) \in Int
  PROVE  \E new : Added(g, s, e, new)
<1> DEFINE open == IF s # NoSession THEN s
                   ELSE [NoSession EXCEPT !.day = Day(stamp[e]), !.universe = label[g]]
           new == [open EXCEPT !.batch = @ \cup {e}]
<1>1. label[g] \in Nat
  BY DEF Types
<1>2. /\ open \in Session /\ open.batch = s.batch /\ open.written = s.written
      /\ open.day = IF s = NoSession THEN Day(stamp[e]) ELSE s.day
      /\ open.universe = IF s = NoSession THEN label[g] ELSE s.universe
  BY <1>1 DEF Session, NoSession
<1> HIDE DEF open
<1>3. /\ new \in Session /\ new.day = open.day /\ new.universe = open.universe
      /\ new.batch = s.batch \cup {e} /\ new.written = s.written
  BY <1>2 DEF Session
<1>4. /\ session' = [session EXCEPT ![g] = new]
      /\ hand' = [hand EXCEPT ![g] = NoItem]
      /\ \E where \in {"flush", "close", "get"} : pc' = [pc EXCEPT ![g] = where]
  BY DEF Add, Goto, open
<1> HIDE DEF new
<1>5. new # NoSession
  BY <1>3, NoSessionIsEmpty
<1>6. Contents(new) = Contents(s) \cup {e}
  BY <1>3 DEF Contents
<1> QED
  BY <1>2, <1>3, <1>4, <1>5, <1>6 DEF Added

\* The day of a stamp; the first day ends after DayLength.
LEMMA DayOfStamp ==
  /\ \A t \in Int : Day(t) \in Int
  /\ \A t \in Nat : t >= DayLength => Day(t) # 0
  /\ \A t \in Nat : Day(t) = 1 => t >= DayLength
<1>1. DayLength \in Nat \ {0}
  BY PipelineAssumption
<1>2. ASSUME NEW t \in Int PROVE Day(t) \in Int
  BY <1>1 DEF Day
<1>3. ASSUME NEW t \in Nat, t >= DayLength PROVE Day(t) # 0
  BY <1>1, <1>3 DEF Day
<1>4. ASSUME NEW t \in Nat, Day(t) = 1 PROVE t >= DayLength
  BY <1>1, <1>4 DEF Day
<1> QED
  BY <1>2, <1>3, <1>4

\* A set of integers with a bound has a greatest element, its Max.
LEMMA MaxIsGreatest ==
  ASSUME NEW S, S \subseteq Int, S # {}, NEW n \in Int, \A x \in S : x <= n
  PROVE  Max(S) \in S /\ \A y \in S : y <= Max(S)
<1> DEFINE Less == OpToRel(<, Nat)
           T == {n - x : x \in S}
<1>1. IsWellFoundedOn(Less, Nat)
  BY NatLessThanWellFounded
<1>2. \A x, y \in Nat : x < y => <<x, y>> \in Less
  BY DEF OpToRel
<1> HIDE DEF Less
<1>3. T \subseteq Nat /\ T # {}
  <2>1. ASSUME NEW x \in S PROVE n - x \in Nat
    <3>1. x \in Int /\ x <= n
      OBVIOUS
    <3> QED
      BY <3>1
  <2>2. T \subseteq Nat
    BY <2>1
  <2>3. PICK x : x \in S
    OBVIOUS
  <2>4. n - x \in T
    BY <2>3
  <2> QED
    BY <2>2, <2>4
<1>4. PICK d \in T : \A y \in T : ~(<<y, d>> \in Less)
  <2> HIDE DEF T
  <2> QED
    BY <1>1, <1>3, WFMin
<1>5. PICK x \in S : d = n - x
  OBVIOUS
<1>6. ASSUME NEW y \in S PROVE y <= x
  <2>1. n - y \in T /\ n - y \in Nat /\ n - x \in Nat
    OBVIOUS
  <2>2. ~(n - y < n - x)
    BY <1>2, <1>4, <1>5, <2>1
  <2> QED
    BY <2>2
<1>7. \E z \in S : \A y \in S : z >= y
  BY <1>6
<1> QED
  BY <1>7 DEF Max

(***************************************************************************)
(* The kinds of steps, as far as the events are concerned.                 *)
(***************************************************************************)

\* queue.put admits event e, stamped t.
Admits(e, t) ==
  /\ place[e] \in {"none", "stamped", "woken"} /\ t \in 0 .. now
  /\ place[e] # "none" => t = stamp[e]
  /\ stamp' = [stamp EXCEPT ![e] = t]
  /\ place' = [place EXCEPT ![e] = "admitted"]
  /\ queue' = [queue EXCEPT ![Group(e)] = Append(@, EventItem(e))]
  /\ under' = [under EXCEPT ![e] = universe]
  /\ overtaken' = overtaken \cup
       {x \in {e} : \E o \in All : Group(o) = Group(e) /\ place[o] = "admitted" /\ stamp[o] > t}
  /\ UNCHANGED <<writerVars, diskVars>>

\* Nothing that was admitted changes.
Quiet ==
  /\ UNCHANGED <<queue, writerVars, diskVars, under, overtaken>>
  /\ \A e \in All : /\ place'[e] = "admitted" <=> place[e] = "admitted"
                    /\ place[e] # "none" => stamp'[e] = stamp[e]

\* Every writer gets a RotateWriter.
Rotates ==
  /\ \E u \in Nat : BeginRotation(u)
  /\ UNCHANGED <<stamp, place, writerVars, diskVars, under, overtaken>>

LEMMA GroupOfEvent == \A e \in All : Group(e) \in Groups
BY PipelineAssumption DEF Group, All

\* Put admits an event, or rejects it.
LEMMA PutKinds ==
  ASSUME Types, NEW e \in All, NEW t \in 0 .. now, Put(e, t),
         place[e] \in {"none", "stamped", "woken"}, place[e] # "none" => t = stamp[e],
         UNCHANGED <<writerVars, diskVars>>
  PROVE  Admits(e, t) \/ (Quiet /\ ~Fits /\ place' = [place EXCEPT ![e] = "rejected"])
<1>1. CASE Fits
  BY <1>1 DEF Put, Admits
<1>2. CASE ~Fits
  <2>1. place' = [place EXCEPT ![e] = "rejected"] /\ stamp' = [stamp EXCEPT ![e] = t]
        /\ UNCHANGED <<queue, under, overtaken>>
    BY <1>2 DEF Put
  <2> QED
    BY <1>2, <2>1 DEF Quiet, Types
<1> QED
  BY <1>1, <1>2

\* What the sources do.
LEMMA SourceKinds ==
  ASSUME Types, MarksInv, Sources \/ Admission
  PROVE  \/ Quiet
         \/ \E e \in Events : Admits(e, now) /\ accepting /\ SourcesRun
         \/ \E e \in Events : Admits(e, stamp[e]) /\ accepting /\ SourcesRun
         \/ \E e \in Events : Admits(e, stamp[e]) /\ place[e] = "woken"
<1> USE DEF Others
<1>a. Events \subseteq All /\ now \in 0 .. now /\ \A e \in All : place[e] # "none" => stamp[e] \in 0 .. now
  BY DEF All, Types
<1>1. ASSUME NEW e \in Events, Receive(e)
      PROVE  Quiet \/ (Admits(e, now) /\ accepting /\ SourcesRun)
  <2>1. CASE accepting /\ Put(e, now)
    BY <1>1, <1>a, <2>1, PutKinds DEF Receive
  <2>2. CASE ~accepting
    BY <1>1, <1>a, <2>2 DEF Receive, Offer, Quiet, Types
  <2> QED
    BY <1>1, <2>1, <2>2 DEF Receive, Offer
<1>2. ASSUME NEW e \in Events, Observe(e) PROVE Quiet
  BY <1>2, <1>a DEF Observe, Quiet, Types
<1>3. ASSUME NEW e \in Events, PutObserved(e)
      PROVE  Quiet \/ (Admits(e, stamp[e]) /\ accepting /\ SourcesRun)
  <2>1. CASE accepting /\ Put(e, stamp[e])
    BY <1>3, <1>a, <2>1, PutKinds DEF PutObserved
  <2>2. CASE ~accepting
    BY <1>3, <1>a, <2>2 DEF PutObserved, Offer, Quiet, Types
  <2> QED
    BY <1>3, <2>1, <2>2 DEF PutObserved, Offer
<1>4. ASSUME NEW e \in Events, ResumePut(e)
      PROVE  Quiet \/ (Admits(e, stamp[e]) /\ place[e] = "woken")
  BY <1>4, <1>a, PutKinds DEF ResumePut
<1>5. ASSUME NEW g \in Groups, Resume(g) PROVE Quiet
  BY <1>5 DEF Resume, Quiet
<1> QED
  BY <1>1, <1>2, <1>3, <1>4, <1>5 DEF Sources, Admission

\* What the service does.
LEMMA MarkKinds ==
  ASSUME Types, MarksInv, NEW m \in Marks, NEW next, Emit(m, next), place[m] = "none"
  PROVE  \/ Quiet /\ ~Fits /\ place' = [place EXCEPT ![m] = "rejected"]
         \/ Admits(m, now)
<1>1. m \in All /\ now \in 0 .. now
  BY DEF All, Types
<1> QED
  BY <1>1, PutKinds DEF Emit

LEMMA ReopenIsQuiet ==
  ASSUME Types, Reopen, UNCHANGED <<stamp, queue, writerVars, diskVars, under, overtaken>>
  PROVE  Quiet
BY DEF Types, Reopen, Quiet

LEMMA ServiceKinds ==
  ASSUME Types, MarksInv, Boundary \/ Shutdown \/ Stop \/ Tick
  PROVE  \/ Quiet \/ Rotates \/ StopWriters
         \/ MarkStart /\ Admits(BootMark, now)
         \/ MarkDay /\ Admits(DayMark, now)
<1>1. CASE MarkStart
  BY <1>1, MarkKinds DEF MarkStart, Marks, MarksInv
<1>2. CASE MarkDay
  BY <1>2, MarkKinds DEF MarkDay, Marks, MarksInv
<1>3. CASE BootBarrier \/ SecondBarrier
  BY <1>3 DEF BootBarrier, SecondBarrier, Rotates, Types
<1>4. CASE MidnightBarrier
  <2>1. universe \in Nat /\ universe + 1 \in Nat
    BY DEF Types
  <2> QED
    BY <1>4, <2>1 DEF MidnightBarrier, Rotates
<1>5. CASE BootDone \/ FirstDone \/ SecondDone \/ RotationRaises
  BY <1>5, ReopenIsQuiet DEF BootDone, FirstDone, SecondDone, EndRotation, RotationRaises
<1>6. CASE EndGrace \/ SealWritten \/ Down \/ Tick
  BY <1>6 DEF EndGrace, SealWritten, Down, Tick, Quiet
<1>7. CASE Stop
  BY <1>7, ReopenIsQuiet DEF Stop
<1> QED
  BY <1>1, <1>2, <1>3, <1>4, <1>5, <1>6, <1>7 DEF Boundary, Shutdown

\* Every step is of one of the kinds.
LEMMA Kinds ==
  ASSUME Types, MarksInv, [Next]_vars
  PROVE  \/ Quiet \/ Rotates \/ StopWriters
         \/ \E e \in All, t \in 0 .. now : Admits(e, t)
         \/ \E g \in Groups : Step(g) \/ DiskError(g)
<1>1. CASE Sources \/ Admission
  BY <1>1, SourceKinds DEF Admits, All
<1>2. CASE Boundary \/ Shutdown \/ Stop \/ Tick
  BY <1>2, ServiceKinds DEF Admits, All, Marks
<1>3. CASE UNCHANGED vars
  BY <1>3 DEF vars, Quiet
<1> QED
  BY <1>1, <1>2, <1>3 DEF Next

(***************************************************************************)
(* Types and marks.                                                        *)
(***************************************************************************)

LEMMA PutTypes ==
  ASSUME Types, NEW e \in All, NEW t \in 0 .. now, Put(e, t), UNCHANGED <<now, universe>>
  PROVE  /\ stamp' \in [All -> Int] /\ place' \in [All -> Places]
         /\ \A o \in All : place'[o] # "none" => stamp'[o] \in 0 .. now
         /\ queue' \in [Groups -> Seq(Items)] /\ under' \in [All -> Nat]
<1>1. t \in Int /\ EventItem(e) \in Items /\ Group(e) \in Groups
  BY ItemKinds, GroupOfEvent DEF Types
<1>2. stamp' = [stamp EXCEPT ![e] = t]
      /\ \E where \in {"admitted", "rejected"} : place' = [place EXCEPT ![e] = where]
  BY DEF Put
<1>3. /\ queue' = [queue EXCEPT ![Group(e)] = Append(@, EventItem(e))] \/ queue' = queue
      /\ under' = [under EXCEPT ![e] = universe] \/ under' = under
  BY DEF Put
<1>4. queue' \in [Groups -> Seq(Items)]
  <2>1. queue \in [Groups -> Seq(Items)]
    BY DEF Types
  <2>2. Append(queue[Group(e)], EventItem(e)) \in Seq(Items)
    BY <1>1, <2>1
  <2> QED
    BY <1>1, <1>3, <2>1, <2>2
<1> QED
  BY <1>1, <1>2, <1>3, <1>4 DEF Types, Places

LEMMA SourcesKeepTypes == ASSUME Types, Sources \/ Admission PROVE Types'
<1> USE DEF Others
<1>a. Events \subseteq All /\ now \in 0 .. now /\ now \in Int
  BY DEF All, Types
<1>b. ASSUME NEW e \in All, NEW t \in 0 .. now, Put(e, t), UNCHANGED Others PROVE Types'
  BY <1>b, PutTypes DEF Types
<1>c. ASSUME NEW e \in All, NEW t \in 0 .. now, NEW where \in Places,
             stamp' = [stamp EXCEPT ![e] = t], place' = [place EXCEPT ![e] = where],
             UNCHANGED <<queue, under>>, UNCHANGED Others
      PROVE  Types'
  BY <1>c DEF Types
<1>1. ASSUME NEW e \in Events, Receive(e) PROVE Types'
  BY <1>1, <1>a, <1>b, <1>c DEF Receive, Offer, Places
<1>2. ASSUME NEW e \in Events, Observe(e) PROVE Types'
  BY <1>2, <1>a, <1>c DEF Observe, Places
<1>3. ASSUME NEW e \in Events, PutObserved(e) PROVE Types'
  <2>1. stamp[e] \in 0 .. now
    BY <1>3, <1>a DEF PutObserved, Types
  <2> QED
    BY <1>3, <1>a, <1>b, <1>c, <2>1 DEF PutObserved, Offer, Places
<1>4. ASSUME NEW e \in Events, ResumePut(e) PROVE Types'
  <2>1. stamp[e] \in 0 .. now
    BY <1>4, <1>a DEF ResumePut, Types
  <2> QED
    BY <1>4, <1>a, <1>b, <2>1 DEF ResumePut
<1>5. ASSUME NEW g \in Groups, Resume(g) PROVE Types'
  BY <1>5 DEF Resume, Types
<1> QED
  BY <1>1, <1>2, <1>3, <1>4, <1>5 DEF Sources, Admission

LEMMA ServiceKeepsTypes ==
  ASSUME Types, Boundary \/ Shutdown \/ Stop \/ Tick PROVE Types'
<1>a. ASSUME NEW m \in Marks, NEW next \in Services, Emit(m, next) PROVE Types'
  <2>1. m \in All /\ now \in 0 .. now
    BY DEF All, Types
  <2> QED
    BY <1>a, <2>1, PutTypes DEF Emit, Types, Services
<1>b. ASSUME NEW u \in Nat, BeginRotation(u)
      PROVE  queue' \in [Groups -> Seq(Items)] /\ target' = u /\ replies' = {}
  <2>1. RotateItem(u) \in Items
    BY ItemKinds
  <2>2. ASSUME NEW g \in Groups PROVE Append(queue[g], RotateItem(u)) \in Seq(Items)
    BY <2>1 DEF Types
  <2> QED
    BY <1>b, <2>2 DEF BeginRotation
<1>c. ASSUME Reopen, UNCHANGED <<stamp, now>>
      PROVE  /\ place' \in [All -> Places]
             /\ \A o \in All : place'[o] # "none" => stamp'[o] \in 0 .. now'
  BY <1>c DEF Reopen, Types, Places
<1>1. CASE MarkStart \/ MarkDay
  BY <1>1, <1>a DEF MarkStart, MarkDay, Marks, Services
<1>2. CASE BootBarrier \/ SecondBarrier
  BY <1>2, <1>b DEF BootBarrier, SecondBarrier, Types, Services
<1>3. CASE MidnightBarrier
  <2>1. universe \in Nat /\ universe + 1 \in Nat
    BY DEF Types
  <2> QED
    BY <1>3, <1>b, <2>1 DEF MidnightBarrier, Types, Services
<1>4. CASE BootDone \/ FirstDone \/ SecondDone \/ RotationRaises
  BY <1>4, <1>c DEF BootDone, FirstDone, SecondDone, EndRotation, RotationRaises, Types, Services
<1>5. CASE EndGrace \/ SealWritten \/ Down
  BY <1>5 DEF EndGrace, SealWritten, Down, Types, Services
<1>6. CASE Tick
  BY <1>6 DEF Tick, Types
<1>7. CASE Stop
  BY <1>7, <1>c DEF Stop, Types, Services
<1>8. CASE StopWriters
  <2>1. StopItem \in Items
    BY ItemKinds
  <2>2. ASSUME NEW g \in Groups PROVE Append(queue[g], StopItem) \in Seq(Items)
    BY <2>1 DEF Types
  <2>3. queue' \in [Groups -> Seq(Items)]
    BY <1>8, <2>2 DEF StopWriters, Types
  <2>4. /\ place' \in [All -> Places]
        /\ \A o \in All : place'[o] # "none" => stamp'[o] \in 0 .. now'
    BY <1>8 DEF StopWriters, Types, Places
  <2> QED
    BY <1>8, <2>3, <2>4 DEF StopWriters, Types, Services
<1> QED
  BY <1>1, <1>2, <1>3, <1>4, <1>5, <1>6, <1>7, <1>8 DEF Boundary, Shutdown

LEMMA ChunkType ==
  ASSUME Types, NEW g \in Groups
  PROVE  /\ ChunkOf(g) \in Chunk
         /\ ChunkOf(g).group = g /\ ChunkOf(g).day = session[g].day
         /\ ChunkOf(g).universe = session[g].universe /\ ChunkOf(g).events = session[g].written
BY DEF ChunkOf, Chunk, Types, Session

\* The head of a queue goes, the rest moves up.
LEMMA QueueTail ==
  ASSUME NEW q \in Seq(Items), q # <<>>
  PROVE  /\ Head(q) \in Items /\ Head(q) = q[1] /\ Tail(q) \in Seq(Items)
         /\ Len(q) \in Nat \ {0} /\ Len(Tail(q)) = Len(q) - 1
         /\ \A i \in 1 .. Len(Tail(q)) : Tail(q)[i] = q[i + 1] /\ i + 1 \in 1 .. Len(q)
<1>1. Len(q) \in Nat /\ Len(q) # 0
  OBVIOUS
<1> QED
  BY <1>1, HeadTailProperties

\* The new watermark is the old one or a stamp of the chunk, and not below
\* either.
LEMMA WatermarkEffect ==
  ASSUME Types, NEW g \in Groups, \A e \in session[g].written : place[e] = "admitted"
  PROVE  LET w == Watermark(g, ChunkOf(g))
         IN  /\ w \in [Groups -> Int] /\ \A h \in Groups \ {g} : w[h] = watermark[h]
             /\ w[g] = watermark[g] \/ \E e \in session[g].written : w[g] = stamp[e]
<1> DEFINE S == {watermark[g]} \cup {stamp[e] : e \in session[g].written}
           n == IF watermark[g] <= now THEN now ELSE watermark[g]
<1>1. watermark[g] \in Int /\ now \in Nat /\ session[g].written \subseteq All
  BY DEF Types, Session
<1>2. \A e \in session[g].written : stamp[e] \in 0 .. now
  BY <1>1 DEF Types
<1>3. n \in Int /\ watermark[g] <= n /\ now <= n
  BY <1>1
<1> HIDE DEF n
<1>4. S \subseteq Int /\ S # {} /\ \A x \in S : x <= n
  BY <1>1, <1>2, <1>3
<1>5. Max(S) \in S
  <2> HIDE DEF S
  <2> QED
    BY <1>3, <1>4, MaxIsGreatest
<1>6. Watermark(g, ChunkOf(g)) = [watermark EXCEPT ![g] = Max(S)]
  BY ChunkType DEF Watermark
<1>7. Max(S) = watermark[g] \/ \E e \in session[g].written : Max(S) = stamp[e]
  BY <1>5
<1> HIDE DEF S
<1>8. Max(S) \in Int
  BY <1>4, <1>5
<1> QED
  BY <1>6, <1>7, <1>8 DEF Types

(***************************************************************************)
(* The steps of a writer.                                                  *)
(***************************************************************************)

\* The writer takes the head of its queue: an event goes into the session, or
\* the item stays in its hand, behind the session if there is one.
Takes(g, x) ==
  /\ pc[g] = "get" /\ queue[g] # <<>> /\ x \in Items /\ x = Head(queue[g])
  /\ queue' = [queue EXCEPT ![g] = Tail(@)]
  /\ UNCHANGED <<Outside, label, diskVars, replies>>
  /\ \/ \E e \in All, new \in Session :
          /\ x = EventItem(e) /\ Added(g, session[g], e, new)
          /\ session[g] # NoSession => Day(stamp[e]) = session[g].day
     \/ /\ hand' = [hand EXCEPT ![g] = x] /\ UNCHANGED session
        /\ \/ session[g] = NoSession /\ x.kind # "event" /\ pc' = [pc EXCEPT ![g] = "reply"]
           \/ session[g] # NoSession /\ pc' = [pc EXCEPT ![g] = "close"]

\* The session is recorded, and the writer goes on with the item in its hand.
Records(g) ==
  /\ pc[g] = "record"
  /\ journal' = journal \cup {ChunkOf(g)} /\ watermark' = Watermark(g, ChunkOf(g))
  /\ UNCHANGED <<Outside, queue, label, published, replies>>
  /\ ~DayIsSealed(session[g].day)
  /\ \/ \E e \in All, new \in Session : hand[g] = EventItem(e) /\ Added(g, NoSession, e, new)
     \/ /\ hand[g].kind # "event" /\ UNCHANGED hand
        /\ session' = [session EXCEPT ![g] = NoSession]
        /\ \/ hand[g] = NoItem /\ pc' = [pc EXCEPT ![g] = "get"]
           \/ hand[g] # NoItem /\ pc' = [pc EXCEPT ![g] = "reply"]

Writes(g) ==
  /\ pc[g] \in {"flush", "close"}
  /\ \E s \in Session : /\ session' = [session EXCEPT ![g] = s]
                        /\ Contents(s) = Contents(session[g]) /\ s.batch = {}
                        /\ s.day = session[g].day /\ s.universe = session[g].universe
                        /\ s = NoSession => session[g] = NoSession
  /\ \E where \in {"publish", "close", "get"} :
       /\ pc' = [pc EXCEPT ![g] = where]
       /\ where = "get" => pc[g] = "flush"
  /\ UNCHANGED <<Outside, queue, hand, label, diskVars, replies>>

\* A barrier is passed, or the writer ends.
Replies(g) ==
  /\ pc[g] = "reply" /\ hand' = [hand EXCEPT ![g] = NoItem]
  /\ UNCHANGED <<Outside, queue, session, diskVars>>
  /\ \/ /\ \E u \in Nat : hand[g] = RotateItem(u) /\ label' = [label EXCEPT ![g] = u]
        /\ ~cancelled /\ replies' = replies \cup {g} /\ pc' = [pc EXCEPT ![g] = "get"]
     \/ /\ hand[g] = StopItem /\ pc' = [pc EXCEPT ![g] = "ended"]
        /\ UNCHANGED <<label, replies>>

\* The writer fails, or turns to its session.
Turns(g) ==
  /\ \/ /\ pc' = [pc EXCEPT ![g] = "failed"]
        /\ \/ pc[g] \in {"flush", "close", "publish", "record"}
           \/ pc[g] = "reply" /\ cancelled /\ hand[g].kind = "rotate"
     \/ pc' = [pc EXCEPT ![g] = "close"] /\ pc[g] = "get" /\ session[g] # NoSession
  /\ UNCHANGED <<Outside, queue, hand, session, label, diskVars, replies>>

LEMMA GetKind == ASSUME Types, NEW g \in Groups, Get(g) PROVE Takes(g, Head(queue[g]))
<1> DEFINE x == Head(queue[g])
           finish == /\ session[g] # NoSession
                     /\ x.kind = "event" => ShouldRotateBefore(session[g], x.event)
<1>1. queue[g] \in Seq(Items) /\ session[g] \in Session /\ queue[g] # <<>>
  BY DEF Types, Get
<1>2. x \in Items
  BY <1>1, QueueTail
<1>3. /\ pc[g] = "get" /\ queue' = [queue EXCEPT ![g] = Tail(@)]
      /\ UNCHANGED <<Outside, label, diskVars, replies>>
  BY DEF Get
<1>4. \/ ~finish /\ x.kind = "event" /\ Add(g, session[g], x.event)
      \/ /\ finish \/ x.kind # "event"
         /\ hand' = [hand EXCEPT ![g] = x]
         /\ pc' = [pc EXCEPT ![g] = IF finish THEN "close" ELSE "reply"]
         /\ UNCHANGED session
  BY DEF Get, Goto
<1> HIDE DEF x
<1>5. CASE ~finish /\ x.kind = "event" /\ Add(g, session[g], x.event)
  <2>1. x.event \in All /\ x = EventItem(x.event)
    BY <1>2, <1>5, ItemKinds
  <2>2. Day(stamp[x.event]) \in Int
    BY <2>1, DayOfStamp DEF Types
  <2>3. PICK new : Added(g, session[g], x.event, new)
    BY <1>1, <1>5, <2>1, <2>2, AddEffect
  <2>4. session[g] # NoSession => Day(stamp[x.event]) = session[g].day
    BY <1>5 DEF ShouldRotateBefore
  <2>5. new \in Session
    BY <2>3 DEF Added
  <2> QED
    BY <1>1, <1>2, <1>3, <2>1, <2>3, <2>4, <2>5 DEF Takes, x
<1>6. CASE finish \/ x.kind # "event"
  BY <1>1, <1>2, <1>3, <1>4, <1>6 DEF Takes, x
<1> QED
  BY <1>4, <1>5, <1>6

LEMMA RecordKind == ASSUME Types, NEW g \in Groups, Record(g) PROVE Records(g) \/ Turns(g)
<1>1. CASE DayIsSealed(session[g].day)
  BY <1>1 DEF Record, Fails, Turns, Goto, Outside
<1>2. CASE ~DayIsSealed(session[g].day)
  <2>a. hand[g] \in Items /\ NoSession \in Session
    BY NoSessionIsEmpty DEF Types
  <2>1. /\ pc[g] = "record"
        /\ journal' = journal \cup {ChunkOf(g)} /\ watermark' = Watermark(g, ChunkOf(g))
        /\ UNCHANGED <<Outside, queue, label, published, replies>>
        /\ \/ hand[g].kind = "event" /\ Add(g, NoSession, hand[g].event)
           \/ /\ hand[g].kind # "event"
              /\ session' = [session EXCEPT ![g] = NoSession]
              /\ pc' = [pc EXCEPT ![g] = IF hand[g].kind = "none" THEN "get" ELSE "reply"]
              /\ UNCHANGED hand
    BY <1>2 DEF Record, Goto
  <2>2. CASE hand[g].kind = "event" /\ Add(g, NoSession, hand[g].event)
    <3>1. hand[g].event \in All /\ hand[g] = EventItem(hand[g].event)
      BY <2>a, <2>2, ItemKinds
    <3>2. Day(stamp[hand[g].event]) \in Int
      BY <3>1, DayOfStamp DEF Types
    <3>3. PICK new : Added(g, NoSession, hand[g].event, new)
      BY <2>a, <2>2, <3>1, <3>2, AddEffect
    <3>4. new \in Session
      BY <3>3 DEF Added
    <3> QED
      BY <1>2, <2>1, <3>1, <3>3, <3>4 DEF Records
  <2>3. CASE hand[g].kind # "event"
    <3>1. hand[g].kind = "none" <=> hand[g] = NoItem
      BY <2>a, ItemKinds
    <3> QED
      BY <1>2, <2>1, <2>3, <3>1 DEF Records
  <2> QED
    BY <2>1, <2>2, <2>3
<1> QED
  BY <1>1, <1>2

LEMMA WriterKinds ==
  ASSUME Types, NEW g \in Groups, Step(g) \/ DiskError(g)
  PROVE  \/ Takes(g, Head(queue[g])) \/ Records(g) \/ Writes(g) \/ Replies(g) \/ Turns(g)
         \/ Publish(g)
<1>1. CASE Get(g)
  BY <1>1, GetKind
<1>2. CASE IdleFinish(g)
  BY <1>2 DEF IdleFinish, Turns, Goto
<1>3. CASE Flush(g)
  <2> DEFINE s == [session[g] EXCEPT !.batch = {}, !.written = @ \cup session[g].batch]
  <2>1. session[g] \in Session /\ session \in [Groups -> Session]
    BY DEF Types
  <2>2. /\ s \in Session /\ s.batch = {} /\ s.written = session[g].written \cup session[g].batch
        /\ s.day = session[g].day /\ s.universe = session[g].universe
    BY <2>1 DEF Session
  <2>3. session' = [session EXCEPT ![g] = s]
    BY <1>3, <2>1 DEF Flush, Session
  <2> HIDE DEF s
  <2>4. Contents(s) = Contents(session[g])
    BY <2>2 DEF Contents
  <2>6. s = NoSession => session[g] = NoSession
    <3>1. ASSUME s = NoSession
          PROVE  /\ session[g].batch = NoSession.batch /\ session[g].written = NoSession.written
                 /\ session[g].day = NoSession.day /\ session[g].universe = NoSession.universe
      BY <2>2, <3>1, NoSessionIsEmpty
    <3> QED
      BY <2>1, <3>1, NoSessionIsEmpty, SessionFields
  <2>5. /\ pc[g] \in {"flush", "close"}
        /\ \E where \in {"publish", "close", "get"} :
             pc' = [pc EXCEPT ![g] = where] /\ (where = "get" => pc[g] = "flush")
        /\ UNCHANGED <<Outside, queue, hand, label, diskVars, replies>>
    BY <1>3 DEF Flush, Goto
  <2> QED
    BY <2>2, <2>3, <2>4, <2>5, <2>6 DEF Writes
<1>4. CASE Publish(g)
  BY <1>4
<1>5. CASE Record(g)
  BY <1>5, RecordKind
<1>6. CASE Reply(g)
  <2>1. /\ hand[g].kind = "rotate" => hand[g].universe \in Nat /\ hand[g] = RotateItem(hand[g].universe)
        /\ hand[g].kind = "stop" => hand[g] = StopItem
    BY ItemKinds DEF Types
  <2> QED
    BY <1>6, <2>1 DEF Reply, Replies, Turns, Fails, Goto, Outside
<1>7. CASE DiskError(g)
  BY <1>7 DEF DiskError, Fails, Turns, Goto, Outside
<1> QED
  BY <1>1, <1>2, <1>3, <1>4, <1>5, <1>6, <1>7 DEF Step

LEMMA HasAppend ==
  ASSUME NEW q \in Seq(Items), NEW x \in Items, NEW y
  PROVE  Has(Append(q, x), y) <=> Has(q, y) \/ x = y
<1> DEFINE a == Append(q, x)
<1>1. Len(q) \in Nat /\ Len(a) = Len(q) + 1 /\ a[Len(q) + 1] = x
      /\ \A i \in 1 .. Len(q) : a[i] = q[i]
  BY AppendProperties
<1> HIDE DEF a
<1>a. ASSUME NEW i \in 1 .. Len(a), a[i] = y PROVE Has(q, y) \/ x = y
  <2>1. i = Len(q) + 1 \/ i \in 1 .. Len(q)
    BY <1>1
  <2> QED
    BY <1>1, <1>a, <2>1 DEF Has
<1>b. ASSUME NEW i \in 1 .. Len(q), q[i] = y PROVE Has(a, y)
  <2>1. i \in 1 .. Len(a)
    BY <1>1
  <2> QED
    BY <1>1, <1>b, <2>1 DEF Has
<1>c. x = y => Has(a, y)
  <2>1. Len(q) + 1 \in 1 .. Len(a)
    BY <1>1
  <2> QED
    BY <1>1, <2>1 DEF Has
<1>2. Has(a, y) <=> Has(q, y) \/ x = y
  BY <1>a, <1>b, <1>c DEF Has
<1> QED
  BY <1>2 DEF a

LEMMA HasTail ==
  ASSUME NEW q \in Seq(Items), q # <<>>, NEW y
  PROVE  Has(q, y) <=> Has(Tail(q), y) \/ Head(q) = y
<1> DEFINE r == Tail(q)
           h == Head(q)
<1>1. /\ h = q[1] /\ Len(q) \in Nat \ {0} /\ Len(r) = Len(q) - 1
      /\ \A i \in 1 .. Len(r) : r[i] = q[i + 1] /\ i + 1 \in 1 .. Len(q)
  BY QueueTail
<1> HIDE DEF r, h
<1>2. ASSUME NEW i \in 1 .. Len(q), q[i] = y PROVE Has(r, y) \/ h = y
  <2>1. CASE i = 1
    BY <1>1, <1>2, <2>1
  <2>2. CASE i # 1
    <3>1. i - 1 \in 1 .. Len(r) /\ (i - 1) + 1 = i
      BY <1>1, <2>2
    <3>2. r[i - 1] = q[i]
      BY <1>1, <3>1
    <3> QED
      BY <1>2, <3>1, <3>2 DEF Has
  <2> QED
    BY <2>1, <2>2
<1>3. Has(r, y) => Has(q, y)
  BY <1>1 DEF Has
<1>4. h = y => Has(q, y)
  <2>1. 1 \in 1 .. Len(q)
    BY <1>1
  <2> QED
    BY <1>1, <2>1 DEF Has
<1>5. Has(q, y) <=> Has(r, y) \/ h = y
  BY <1>2, <1>3, <1>4 DEF Has
<1> QED
  BY <1>5 DEF r, h

LEMMA WritersKeepTypes ==
  ASSUME Types, WhereInv, NEW g \in Groups, Step(g) \/ DiskError(g) PROVE Types'
<1> USE DEF Outside
<1>a. /\ queue \in [Groups -> Seq(Items)] /\ hand \in [Groups -> Items]
      /\ session \in [Groups -> Session] /\ pc \in [Groups -> WriterPlaces]
      /\ NoItem \in Items /\ NoSession \in Session
  BY ItemKinds, NoSessionIsEmpty DEF Types
<1>b. ASSUME NEW s, NEW e, NEW new \in Session, Added(g, s, e, new)
      PROVE  /\ session' \in [Groups -> Session] /\ hand' \in [Groups -> Items]
             /\ pc' \in [Groups -> WriterPlaces]
  BY <1>a, <1>b DEF Added, WriterPlaces
<1>1. CASE Takes(g, Head(queue[g]))
  <2>1. queue' \in [Groups -> Seq(Items)] /\ Head(queue[g]) \in Items
    BY <1>a, <1>1, QueueTail DEF Takes
  <2>2. /\ session' \in [Groups -> Session] /\ hand' \in [Groups -> Items]
        /\ pc' \in [Groups -> WriterPlaces]
    BY <1>a, <1>b, <1>1, <2>1 DEF Takes, WriterPlaces
  <2> QED
    BY <1>1, <2>1, <2>2 DEF Takes, Types
<1>2. CASE Records(g)
  <2>1. /\ session' \in [Groups -> Session] /\ hand' \in [Groups -> Items]
        /\ pc' \in [Groups -> WriterPlaces]
    BY <1>a, <1>b, <1>2 DEF Records, WriterPlaces
  <2>2. journal' \subseteq Chunk
    BY <1>2, ChunkType DEF Records, Types
  <2>3. \A e \in session[g].written : place[e] = "admitted"
    BY <1>a DEF WhereInv, Carried, Contents, Session
  <2>4. watermark' \in [Groups -> Int]
    BY <1>2, <2>3, WatermarkEffect DEF Records
  <2> QED
    BY <1>2, <2>1, <2>2, <2>4 DEF Records, Types
<1>3. CASE Writes(g)
  BY <1>3, <1>a DEF Writes, Types, WriterPlaces
<1>4. CASE Replies(g)
  <2>1. label' \in [Groups -> Nat] /\ pc' \in [Groups -> WriterPlaces] /\ hand' \in [Groups -> Items]
    BY <1>a, <1>4 DEF Replies, Types, WriterPlaces
  <2> QED
    BY <1>4, <2>1 DEF Replies, Types
<1>5. CASE Turns(g)
  BY <1>5, <1>a DEF Turns, Types, WriterPlaces
<1>6. CASE Publish(g)
  <2>1. published' \subseteq Chunk
    BY <1>6, ChunkType DEF Publish, Types
  <2> QED
    BY <1>6, <1>a, <2>1 DEF Publish, Goto, Types, WriterPlaces
<1> QED
  BY <1>1, <1>2, <1>3, <1>4, <1>5, <1>6, WriterKinds

\* Marks are emitted once, at their place of the service.
LEMMA MarksInductive == Types /\ MarksInv /\ [Next]_vars => MarksInv'
<1> SUFFICES ASSUME Types, MarksInv, [Next]_vars PROVE MarksInv'
  OBVIOUS
<1>a. /\ BootMark \in All /\ DayMark \in All /\ BootMark # DayMark
      /\ Marks = {BootMark, DayMark} /\ \A m \in Marks : m \notin Events
  BY PipelineAssumption DEF All, Marks
<1>1. CASE Sources \/ Admission
  <2>1. \A m \in Marks : place'[m] = place[m]
    BY <1>1, <1>a DEF Sources, Admission, Receive, Observe, PutObserved, ResumePut, Resume, Offer,
                      Put, Types
  <2>2. svc' = svc
    BY <1>1 DEF Sources, Admission, Receive, Observe, PutObserved, ResumePut, Resume, Others
  <2> QED
    BY <1>a, <2>1, <2>2 DEF MarksInv
<1>2. CASE MarkStart
  <2>1. \E where \in {"admitted", "rejected"} : place' = [place EXCEPT ![BootMark] = where]
    BY <1>2 DEF MarkStart, Emit, Put
  <2>2. svc = "boot" /\ svc' \in {"bootBarrier", "failing"}
    BY <1>2 DEF MarkStart, Emit
  <2> QED
    BY <1>a, <2>1, <2>2 DEF MarksInv, Types
<1>3. CASE MarkDay
  <2>1. \E where \in {"admitted", "rejected"} : place' = [place EXCEPT ![DayMark] = where]
    BY <1>3 DEF MarkDay, Emit, Put
  <2>2. svc' \in {"secondBarrier", "failing"}
    BY <1>3 DEF MarkDay, Emit
  <2> QED
    BY <1>a, <2>1, <2>2 DEF MarksInv, Types
<1>4. CASE BootBarrier \/ MidnightBarrier \/ SecondBarrier
  BY <1>4, <1>a DEF BootBarrier, MidnightBarrier, SecondBarrier, MarksInv
<1>5. ASSUME Reopen PROVE \A m \in Marks : place'[m] = place[m]
  BY <1>5, <1>a DEF Reopen, MarksInv
<1>6. CASE BootDone \/ FirstDone \/ SecondDone \/ RotationRaises \/ Stop
  BY <1>5, <1>6, <1>a DEF BootDone, FirstDone, SecondDone, EndRotation, RotationRaises, Stop, MarksInv
<1>7. CASE EndGrace \/ SealWritten \/ Down \/ Tick
  BY <1>7, <1>a DEF EndGrace, SealWritten, Down, Tick, MarksInv
<1>8. CASE StopWriters
  BY <1>8, <1>a DEF StopWriters, MarksInv
<1>9. ASSUME NEW g \in Groups, Step(g) \/ DiskError(g) PROVE MarksInv'
  <2>1. UNCHANGED Outside
    BY <1>9, WriterKinds DEF Takes, Records, Writes, Replies, Turns, Publish
  <2> QED
    BY <2>1 DEF MarksInv, Outside
<1>10. CASE UNCHANGED vars
  BY <1>10 DEF vars, MarksInv
<1> QED
  BY <1>1, <1>2, <1>3, <1>4, <1>6, <1>7, <1>8, <1>9, <1>10 DEF Next, Boundary, Shutdown

\* A writer knows what it has in its hand.
LEMMA WriterInductive ==
  Types /\ MarksInv /\ WriterInv /\ [Next]_vars => WriterInv'
<1> SUFFICES ASSUME Types, MarksInv, WriterInv, [Next]_vars PROVE WriterInv'
  OBVIOUS
<1>a. /\ hand \in [Groups -> Items] /\ session \in [Groups -> Session]
      /\ pc \in [Groups -> WriterPlaces]
  BY DEF Types
<1>1. CASE UNCHANGED <<pc, hand, session>>
  BY <1>1 DEF WriterInv
<1>2. ASSUME NEW g \in Groups, NEW s, NEW e, NEW new \in Session, Added(g, s, e, new)
      PROVE  WriterInv'
  BY <1>2, <1>a DEF Added, WriterInv
<1>3. ASSUME NEW g \in Groups, Takes(g, Head(queue[g])) PROVE WriterInv'
  BY <1>2, <1>3, <1>a DEF Takes, WriterInv
<1>4. ASSUME NEW g \in Groups, Records(g) PROVE WriterInv'
  BY <1>2, <1>4, <1>a DEF Records, WriterInv
<1>5. ASSUME NEW g \in Groups, Writes(g) PROVE WriterInv'
  BY <1>5, <1>a DEF Writes, WriterInv
<1>6. ASSUME NEW g \in Groups, Replies(g) PROVE WriterInv'
  BY <1>6, <1>a DEF Replies, WriterInv
<1>7. ASSUME NEW g \in Groups, Turns(g) PROVE WriterInv'
  BY <1>7, <1>a DEF Turns, WriterInv
<1>8. ASSUME NEW g \in Groups, Publish(g) PROVE WriterInv'
  BY <1>8, <1>a DEF Publish, Goto, WriterInv
<1>9. CASE Quiet \/ Rotates \/ StopWriters \/ \E e \in All, t \in 0 .. now : Admits(e, t)
  BY <1>1, <1>9 DEF Quiet, Rotates, StopWriters, Admits
<1> QED
  BY <1>3, <1>4, <1>5, <1>6, <1>7, <1>8, <1>9, Kinds, WriterKinds

(***************************************************************************)
(* How events move through a writer.                                       *)
(***************************************************************************)

LEMMA EventItems ==
  /\ \A e, o \in All : EventItem(e) = EventItem(o) => e = o
  /\ \A e \in All : EventItem(e) # NoItem /\ EventItem(e) # StopItem
  /\ \A e \in All, u \in Nat : EventItem(e) # RotateItem(u)
BY ItemKinds

\* Event e is appended to its queue.
LEMMA AdmitsFlow ==
  ASSUME Types, NEW e \in All, NEW t, Admits(e, t)
  PROVE  /\ \A g \in Groups, o \in All :
              /\ Queued(g, o)' <=> Queued(g, o) \/ (g = Group(e) /\ o = e)
              /\ Carried(g, o)' <=> Carried(g, o)
         /\ \A o \in All : place'[o] = "admitted" <=> place[o] = "admitted" \/ o = e
<1>1. queue \in [Groups -> Seq(Items)] /\ Group(e) \in Groups /\ EventItem(e) \in Items
  BY ItemKinds, GroupOfEvent DEF Types
<1>2. \A y : Has(Append(queue[Group(e)], EventItem(e)), y) <=>
               Has(queue[Group(e)], y) \/ EventItem(e) = y
  BY <1>1, HasAppend
<1>3. /\ queue'[Group(e)] = Append(queue[Group(e)], EventItem(e))
      /\ \A g \in Groups \ {Group(e)} : queue'[g] = queue[g]
  BY <1>1 DEF Admits
<1>4. ASSUME NEW g \in Groups, NEW o \in All
      PROVE  Queued(g, o)' <=> Queued(g, o) \/ (g = Group(e) /\ o = e)
  <2>1. EventItem(e) = EventItem(o) <=> o = e
    BY EventItems
  <2> QED
    BY <1>2, <1>3, <2>1 DEF Queued
<1>5. ASSUME NEW g \in Groups, NEW o \in All PROVE Carried(g, o)' <=> Carried(g, o)
  BY DEF Admits, Carried
<1> QED
  BY <1>4, <1>5 DEF Admits, Types

\* Control items are no events.
LEMMA ControlFlow ==
  ASSUME Types, Rotates \/ StopWriters
  PROVE  /\ \A g \in Groups, o \in All : /\ Queued(g, o)' <=> Queued(g, o)
                                         /\ Carried(g, o)' <=> Carried(g, o)
         /\ \A o \in All : place'[o] = "admitted" <=> place[o] = "admitted"
<1>1. queue \in [Groups -> Seq(Items)]
  BY DEF Types
<1>2. ASSUME NEW g \in Groups, NEW o \in All PROVE Queued(g, o)' <=> Queued(g, o)
  <2>1. PICK x \in Items : /\ queue'[g] \in {queue[g], Append(queue[g], x)}
                           /\ x # EventItem(o)
    <3>1. CASE Rotates
      BY <3>1, ItemKinds, EventItems DEF Rotates, BeginRotation
    <3>2. CASE StopWriters
      BY <3>2, ItemKinds, EventItems DEF StopWriters
    <3> QED
      BY <3>1, <3>2
  <2>2. Has(Append(queue[g], x), EventItem(o)) <=> Has(queue[g], EventItem(o))
    BY <1>1, <2>1, HasAppend
  <2> QED
    BY <2>1, <2>2 DEF Queued
<1>3. ASSUME NEW g \in Groups, NEW o \in All PROVE Carried(g, o)' <=> Carried(g, o)
  BY DEF Rotates, StopWriters, Carried
<1> QED
  BY <1>2, <1>3 DEF Rotates, StopWriters, Types

\* The head of the queue is carried now.
LEMMA TakesFlow ==
  ASSUME Types, WriterInv, NEW g \in Groups, Takes(g, Head(queue[g]))
  PROVE  /\ \A h \in Groups \ {g}, o \in All : /\ Queued(h, o)' <=> Queued(h, o)
                                               /\ Carried(h, o)' <=> Carried(h, o)
         /\ \A o \in All :
              /\ Queued(g, o) <=> Queued(g, o)' \/ Head(queue[g]) = EventItem(o)
              /\ Carried(g, o)' <=> Carried(g, o) \/ Head(queue[g]) = EventItem(o)
<1>1. /\ queue \in [Groups -> Seq(Items)] /\ hand \in [Groups -> Items]
      /\ session \in [Groups -> Session] /\ queue[g] \in Seq(Items) /\ queue[g] # <<>>
      /\ hand[g] = NoItem
  BY DEF Types, Takes, WriterInv
<1>2. queue'[g] = Tail(queue[g]) /\ \A h \in Groups \ {g} : queue'[h] = queue[h]
  BY <1>1 DEF Takes
<1>3. \A o \in All : Queued(g, o) <=> Queued(g, o)' \/ Head(queue[g]) = EventItem(o)
  BY <1>1, <1>2, HasTail DEF Queued
<1>4. \A h \in Groups \ {g}, o \in All : Queued(h, o)' <=> Queued(h, o)
  BY <1>2 DEF Queued
<1>5. \A h \in Groups \ {g} : session'[h] = session[h] /\ hand'[h] = hand[h]
  BY <1>1 DEF Takes, Added
<1>6. ASSUME NEW o \in All
      PROVE  Carried(g, o)' <=> Carried(g, o) \/ Head(queue[g]) = EventItem(o)
  <2>1. CASE \E e \in All, new \in Session :
               Head(queue[g]) = EventItem(e) /\ Added(g, session[g], e, new)
    <3>1. PICK e \in All, new \in Session :
            Head(queue[g]) = EventItem(e) /\ Added(g, session[g], e, new)
      BY <2>1
    <3>2. /\ Contents(session'[g]) = Contents(session[g]) \cup {e} /\ hand'[g] = NoItem
          /\ EventItem(e) = EventItem(o) <=> e = o
          /\ EventItem(o) # NoItem
      BY <1>1, <3>1, EventItems DEF Added
    <3> QED
      BY <1>1, <3>1, <3>2 DEF Carried
  <2>2. CASE hand' = [hand EXCEPT ![g] = Head(queue[g])] /\ UNCHANGED session
    BY <1>1, <2>2, EventItems DEF Carried
  <2> QED
    BY <2>1, <2>2 DEF Takes
<1> QED
  BY <1>3, <1>4, <1>5, <1>6 DEF Carried

\* What is written is carried no longer.
LEMMA RecordsFlow ==
  ASSUME Types, WriterInv, NEW g \in Groups, Records(g)
  PROVE  /\ \A h \in Groups, o \in All : Queued(h, o)' <=> Queued(h, o)
         /\ \A h \in Groups \ {g}, o \in All : Carried(h, o)' <=> Carried(h, o)
         /\ \A o \in All : Carried(g, o)' <=> hand[g] = EventItem(o)
         /\ Contents(session[g]) = session[g].written
         /\ Recorded' = Recorded \cup session[g].written
<1>1. /\ hand \in [Groups -> Items] /\ session \in [Groups -> Session]
      /\ session[g].batch = {}
  BY DEF Types, Records, WriterInv
<1>2. \A h \in Groups, o \in All : Queued(h, o)' <=> Queued(h, o)
  BY DEF Records, Queued
<1>3. \A h \in Groups \ {g} : session'[h] = session[h] /\ hand'[h] = hand[h]
  BY <1>1 DEF Records, Added
<1>4. ASSUME NEW o \in All PROVE Carried(g, o)' <=> hand[g] = EventItem(o)
  <2>1. CASE \E e \in All, new \in Session : hand[g] = EventItem(e) /\ Added(g, NoSession, e, new)
    <3>1. PICK e \in All, new \in Session : hand[g] = EventItem(e) /\ Added(g, NoSession, e, new)
      BY <2>1
    <3>2. /\ Contents(session'[g]) = {e} /\ hand'[g] = NoItem
          /\ EventItem(e) = EventItem(o) <=> e = o
          /\ EventItem(o) # NoItem
      BY <1>1, <3>1, EventItems, NoSessionIsEmpty DEF Added
    <3> QED
      BY <3>1, <3>2 DEF Carried
  <2>2. CASE /\ hand[g].kind # "event" /\ UNCHANGED hand
             /\ session' = [session EXCEPT ![g] = NoSession]
    BY <1>1, <2>2, ItemKinds, NoSessionIsEmpty DEF Carried
  <2> QED
    BY <2>1, <2>2 DEF Records
<1>5. Contents(session[g]) = session[g].written
  BY <1>1 DEF Contents
<1>6. Recorded' = Recorded \cup session[g].written
  BY ChunkType DEF Records, Recorded
<1> QED
  BY <1>2, <1>3, <1>4, <1>5, <1>6 DEF Carried

\* The other steps of a writer move no event.
LEMMA OtherFlow ==
  ASSUME Types, WriterInv, NEW g \in Groups, Writes(g) \/ Replies(g) \/ Turns(g) \/ Publish(g)
  PROVE  \A h \in Groups, o \in All : /\ Queued(h, o)' <=> Queued(h, o)
                                      /\ Carried(h, o)' <=> Carried(h, o)
<1>1. hand \in [Groups -> Items] /\ session \in [Groups -> Session]
  BY DEF Types
<1>2. \A h \in Groups, o \in All : Queued(h, o)' <=> Queued(h, o)
  BY DEF Writes, Replies, Turns, Publish, Queued
<1>3. \A h \in Groups : Contents(session'[h]) = Contents(session[h])
  BY <1>1 DEF Writes, Replies, Turns, Publish
<1>4. ASSUME NEW h \in Groups, NEW o \in All
      PROVE  hand'[h] = EventItem(o) <=> hand[h] = EventItem(o)
  BY <1>1, EventItems DEF Writes, Replies, Turns, Publish
<1> QED
  BY <1>2, <1>3, <1>4 DEF Carried

\* No event is lost on its way, and none appears from nowhere.
LEMMA WhereInductive ==
  Types /\ MarksInv /\ WriterInv /\ WhereInv /\ [Next]_vars => WhereInv'
<1> SUFFICES ASSUME Types, MarksInv, WriterInv, WhereInv, [Next]_vars PROVE WhereInv'
  OBVIOUS
<1> USE DEF Admitted
<1>a. \A e \in All : Group(e) \in Groups
  BY GroupOfEvent
<1>b. /\ published \subseteq Chunk /\ journal \subseteq Chunk
      /\ session \in [Groups -> Session] /\ \A c \in Chunk : c.events \subseteq All
  BY DEF Types, Chunk
<1>1. CASE Quiet
  BY <1>1, <1>a, <1>b DEF Quiet, WhereInv, Queued, Carried, Recorded
<1>2. CASE Rotates \/ StopWriters
  <2>1. UNCHANGED <<published, journal>>
    BY <1>2 DEF Rotates, StopWriters
  <2> QED
    BY <1>2, <1>a, <1>b, <2>1, ControlFlow DEF WhereInv, Recorded
<1>3. ASSUME NEW e \in All, NEW t \in 0 .. now, Admits(e, t) PROVE WhereInv'
  <2>1. UNCHANGED <<published, journal>> /\ place[e] # "admitted"
    BY <1>3 DEF Admits
  <2> QED
    BY <1>3, <1>a, <1>b, <2>1, AdmitsFlow DEF WhereInv, Recorded
<1>4. ASSUME NEW g \in Groups, Takes(g, Head(queue[g])) PROVE WhereInv'
  <2>1. UNCHANGED <<place, published, journal>>
    BY <1>4 DEF Takes, Outside
  <2> QED
    BY <1>4, <1>a, <2>1, TakesFlow DEF WhereInv, Recorded
<1>5. ASSUME NEW g \in Groups, Records(g) PROVE WhereInv'
  <2>1. UNCHANGED <<place, published>> /\ journal' = journal \cup {ChunkOf(g)}
    BY <1>5 DEF Records, Outside
  <2>2. ChunkOf(g).events = session[g].written /\ session[g].written \subseteq Contents(session[g])
    BY ChunkType DEF Contents
  <2>3. session[g].written \subseteq All
    BY <1>b DEF Session
  <2>4. \A e \in session[g].written : place[e] = "admitted" /\ Group(e) = g
    BY <2>2, <2>3 DEF WhereInv, Carried
  <2>5. \A c \in published' \cup journal' : \A e \in c.events : place'[e] = "admitted"
    BY <2>1, <2>2, <2>4 DEF WhereInv
  <2>6. \A h \in Groups, e \in All :
          (Queued(h, e) \/ Carried(h, e))' => place'[e] = "admitted" /\ Group(e) = h
    BY <1>5, <2>1, RecordsFlow DEF WhereInv, Carried
  <2>7. ASSUME NEW e \in Admitted'
        PROVE  e \in Recorded' \/ Queued(Group(e), e)' \/ Carried(Group(e), e)'
    <3>1. e \in Admitted
      BY <2>1
    <3>2. CASE e \in Recorded
      BY <1>5, <3>2, RecordsFlow
    <3>3. CASE Queued(Group(e), e)
      BY <1>5, <1>a, <3>1, <3>3, RecordsFlow
    <3>4. CASE Carried(Group(e), e)
      BY <1>5, <1>a, <3>1, <3>4, RecordsFlow DEF Carried
    <3> QED
      BY <3>1, <3>2, <3>3, <3>4 DEF WhereInv
  <2> QED
    BY <2>5, <2>6, <2>7 DEF WhereInv
<1>6. ASSUME NEW g \in Groups, Writes(g) \/ Replies(g) \/ Turns(g) PROVE WhereInv'
  <2>1. UNCHANGED <<place, published, journal>>
    BY <1>6 DEF Writes, Replies, Turns, Outside
  <2> QED
    BY <1>6, <1>a, <2>1, OtherFlow DEF WhereInv, Recorded
<1>7. ASSUME NEW g \in Groups, Publish(g) PROVE WhereInv'
  <2>1. UNCHANGED <<place, journal>> /\ published' = published \cup {ChunkOf(g)}
    BY <1>7 DEF Publish, Outside
  <2>2. ChunkOf(g).events = session[g].written /\ session[g].written \subseteq Contents(session[g])
    BY ChunkType DEF Contents
  <2>3. \A e \in session[g].written : place[e] = "admitted"
    BY <1>b, <2>2 DEF WhereInv, Carried, Session
  <2>4. \A c \in published' \cup journal' : \A e \in c.events : place'[e] = "admitted"
    BY <2>1, <2>2, <2>3 DEF WhereInv
  <2> QED
    BY <1>7, <1>a, <2>1, <2>4, OtherFlow DEF WhereInv, Recorded
<1> QED
  BY <1>1, <1>2, <1>3, <1>4, <1>5, <1>6, <1>7, Kinds, WriterKinds

BaseInv == Types /\ MarksInv /\ WriterInv /\ WhereInv

LEMMA BaseInductive == BaseInv /\ [Next]_vars => BaseInv'
<1> SUFFICES ASSUME BaseInv, [Next]_vars PROVE BaseInv'
  OBVIOUS
<1>1. Types'
  BY SourcesKeepTypes, ServiceKeepsTypes, WritersKeepTypes DEF Next, BaseInv, Types, vars
<1> QED
  BY <1>1, MarksInductive, WriterInductive, WhereInductive DEF BaseInv

LEMMA BaseInitially == Init => BaseInv
<1> SUFFICES ASSUME Init PROVE BaseInv
  OBVIOUS
<1>1. Types
  BY ItemKinds, NoSessionIsEmpty DEF Init, Types, Places, WriterPlaces, Services
<1>2. MarksInv
  BY DEF Init, MarksInv, All, Marks
<1>3. WriterInv
  BY NoSessionIsEmpty DEF Init, WriterInv
<1>4. WhereInv
  <2>1. \A g \in Groups, e \in All : ~Queued(g, e) /\ ~Carried(g, e)
    BY EventItems, NoSessionIsEmpty DEF Init, Queued, Has, Carried
  <2> QED
    BY <2>1 DEF Init, WhereInv, Admitted
<1> QED
  BY <1>1, <1>2, <1>3, <1>4 DEF BaseInv

(***************************************************************************)
(* The stop.                                                               *)
(***************************************************************************)

\* Before the writers are told to stop, no writer has ended or is about to.
NotStopped ==
  /\ outcome # "clean"
  /\ \A g \in Groups : /\ pc[g] # "ended" /\ hand[g] # StopItem
                       /\ \A i \in 1 .. Len(queue[g]) : queue[g][i] # StopItem

LEMMA StopInductive == BaseInv /\ StopInv /\ [Next]_vars => StopInv'
<1> SUFFICES ASSUME BaseInv, StopInv, [Next]_vars PROVE StopInv'
  OBVIOUS
<1>a. /\ queue \in [Groups -> Seq(Items)] /\ hand \in [Groups -> Items]
      /\ pc \in [Groups -> WriterPlaces] /\ Types /\ MarksInv /\ WriterInv
  BY DEF BaseInv, Types
<1>b. svc \notin {"draining", "down"} => NotStopped
  BY DEF StopInv, NotStopped
<1>c. ASSUME svc \notin {"draining", "down"}, svc' \notin {"draining", "down"},
             outcome' # "clean", UNCHANGED <<pc, hand>>,
             \A g \in Groups : \/ queue'[g] = queue[g]
                               \/ \E x \in Items : x # StopItem /\ queue'[g] = Append(queue[g], x)
      PROVE  StopInv'
  <2>1. ASSUME NEW g \in Groups, NEW i \in 1 .. Len(queue'[g]) PROVE queue'[g][i] # StopItem
    <3>1. CASE queue'[g] = queue[g]
      BY <1>b, <1>c, <3>1 DEF NotStopped
    <3>2. CASE \E x \in Items : x # StopItem /\ queue'[g] = Append(queue[g], x)
      <4>1. PICK x \in Items : x # StopItem /\ queue'[g] = Append(queue[g], x)
        BY <3>2
      <4>2. Has(Append(queue[g], x), StopItem) <=> Has(queue[g], StopItem) \/ x = StopItem
        BY <1>a, HasAppend
      <4>3. ~Has(queue[g], StopItem)
        BY <1>b, <1>c DEF NotStopped, Has
      <4> QED
        BY <4>1, <4>2, <4>3 DEF Has
    <3> QED
      BY <1>c, <3>1, <3>2
  <2> QED
    BY <1>b, <1>c, <2>1 DEF StopInv, NotStopped
<1>1. CASE Sources \/ Admission
  <2>1. /\ UNCHANGED <<svc, outcome>>
        /\ \A e \in All : place'[e] = "woken" => place[e] = "woken"
    BY <1>1, <1>a DEF Sources, Admission, Receive, Observe, PutObserved, ResumePut, Resume, Others,
                      Offer, Put, Types
  <2>2. CASE Quiet
    BY <2>1, <2>2 DEF Quiet, StopInv
  <2>3. ASSUME NEW e \in Events, NEW t, Admits(e, t), SourcesRun \/ place[e] = "woken"
        PROVE  StopInv'
    <3>1. e \in All /\ Group(e) \in Groups /\ EventItem(e) \in Items /\ EventItem(e) # StopItem
      BY ItemKinds, EventItems, GroupOfEvent DEF All
    <3>2. svc \notin {"draining", "down"}
      BY <2>3, <3>1 DEF StopInv, SourcesRun
    <3>3. \A g \in Groups : \/ queue'[g] = queue[g]
                            \/ \E x \in Items : x # StopItem /\ queue'[g] = Append(queue[g], x)
      BY <1>a, <2>3, <3>1 DEF Admits
    <3> QED
      BY <1>b, <1>c, <2>1, <2>3, <3>2, <3>3 DEF Admits, NotStopped
  <2> QED
    BY <1>1, <1>a, <2>2, <2>3, SourceKinds
<1>2. CASE MarkStart \/ MarkDay
  <2>1. /\ svc \notin {"draining", "down"} /\ svc' \notin {"draining", "down"}
        /\ outcome' \in {outcome, "failed"} /\ UNCHANGED <<pc, hand>>
    BY <1>2 DEF MarkStart, MarkDay, Emit
  <2>2. BootMark \in All /\ DayMark \in All
    BY DEF All, Marks
  <2>3. \A e \in {BootMark, DayMark} :
          Group(e) \in Groups /\ EventItem(e) \in Items /\ EventItem(e) # StopItem
    BY <2>2, ItemKinds, EventItems, GroupOfEvent
  <2>4. \A g \in Groups : \/ queue'[g] = queue[g]
                          \/ \E x \in Items : x # StopItem /\ queue'[g] = Append(queue[g], x)
    BY <1>2, <1>a, <2>3 DEF MarkStart, MarkDay, Emit, Put
  <2> QED
    BY <1>b, <1>c, <2>1, <2>4 DEF NotStopped
<1>3. CASE BootBarrier \/ MidnightBarrier \/ SecondBarrier
  <2>1. /\ svc \notin {"draining", "down"} /\ svc' \notin {"draining", "down"}
        /\ UNCHANGED <<pc, hand, outcome>>
    BY <1>3 DEF BootBarrier, MidnightBarrier, SecondBarrier
  <2>2. universe \in Nat /\ universe + 1 \in Nat
    BY <1>a DEF Types
  <2>3. PICK u \in Nat : BeginRotation(u)
    BY <1>3, <2>2 DEF BootBarrier, MidnightBarrier, SecondBarrier
  <2>4. RotateItem(u) \in Items /\ RotateItem(u) # StopItem
    BY ItemKinds
  <2>5. \A g \in Groups : queue'[g] = Append(queue[g], RotateItem(u))
    BY <2>3 DEF BeginRotation
  <2> QED
    BY <1>b, <1>c, <2>1, <2>4, <2>5 DEF NotStopped
<1>4. CASE BootDone \/ FirstDone \/ SecondDone \/ RotationRaises \/ Stop \/ EndGrace
  <2>1. /\ svc \notin {"draining", "down"} /\ svc' \notin {"draining", "down"}
        /\ UNCHANGED <<pc, hand, queue>> /\ outcome' \in {outcome, "failed"}
    BY <1>4 DEF BootDone, FirstDone, SecondDone, EndRotation, RotationRaises, Stop, InBackground,
                EndGrace
  <2> QED
    BY <1>b, <1>c, <2>1 DEF NotStopped
<1>5. CASE SealWritten \/ Tick \/ UNCHANGED vars
  BY <1>5 DEF SealWritten, Tick, vars, StopInv
<1>6. CASE Down
  BY <1>6 DEF Down, WritersDone, Ending, WriterFailed, StopInv
<1>7. CASE StopWriters
  <2>1. NotStopped /\ svc' = "draining" /\ UNCHANGED <<pc, hand, outcome>>
    BY <1>7, <1>b DEF StopWriters
  <2>2. \A e \in All : place'[e] # "woken"
    BY <1>7 DEF StopWriters
  <2>3. ASSUME NEW g \in Groups, NEW i \in 1 .. Len(queue'[g]), queue'[g][i] = StopItem
        PROVE  i = Len(queue'[g])
    <3>1. CASE queue'[g] = queue[g]
      BY <2>1, <2>3, <3>1 DEF NotStopped
    <3>2. CASE queue'[g] = Append(queue[g], StopItem)
      <4>1. Len(queue[g]) \in Nat /\ Len(queue'[g]) = Len(queue[g]) + 1
            /\ \A j \in 1 .. Len(queue[g]) : queue'[g][j] = queue[g][j]
        BY <1>a, <3>2, ItemKinds, AppendProperties
      <4>2. i \notin 1 .. Len(queue[g])
        BY <2>1, <2>3, <4>1 DEF NotStopped
      <4> QED
        BY <4>1, <4>2
    <3> QED
      BY <1>7, <3>1, <3>2 DEF StopWriters
  <2> QED
    BY <2>1, <2>2, <2>3 DEF StopInv, NotStopped
<1>8. ASSUME NEW g \in Groups, Takes(g, Head(queue[g])) PROVE StopInv'
  <2> DEFINE q == queue[g]
  <2>1. /\ q \in Seq(Items) /\ q # <<>> /\ pc[g] = "get" /\ UNCHANGED <<svc, place, outcome>>
        /\ queue'[g] = Tail(q) /\ \A h \in Groups \ {g} : queue'[h] = queue[h]
    BY <1>8, <1>a DEF Takes, Outside
  <2>2. /\ Head(q) = q[1] /\ Len(q) \in Nat \ {0} /\ Len(Tail(q)) = Len(q) - 1
        /\ \A i \in 1 .. Len(Tail(q)) : Tail(q)[i] = q[i + 1] /\ i + 1 \in 1 .. Len(q)
        /\ Tail(q) \in Seq(Items) /\ 1 \in 1 .. Len(q)
    BY <2>1, QueueTail
  <2>3. ASSUME NEW i \in 1 .. Len(Tail(q)), Tail(q)[i] = StopItem
        PROVE  svc \in {"draining", "down"} /\ i = Len(Tail(q))
    BY <2>2, <2>3 DEF StopInv
  <2>4. Head(q) = StopItem => svc \in {"draining", "down"} /\ Tail(q) = <<>>
    BY <2>2 DEF StopInv
  <2>5. \A h \in Groups \ {g} : hand'[h] = hand[h] /\ pc'[h] = pc[h]
    BY <1>8, <1>a DEF Takes, Added
  <2>6. hand'[g] \in {NoItem, Head(q)} /\ pc'[g] # "ended"
    BY <1>8, <1>a DEF Takes, Added
  <2>7. NoItem # StopItem
    BY ItemKinds
  <2>8. outcome # "clean"
    BY <2>1 DEF StopInv
  <2> HIDE DEF q
  <2>9. ASSUME NEW h \in Groups
        PROVE  /\ pc'[h] = "ended" => svc \in {"draining", "down"} /\ queue'[h] = <<>>
               /\ hand'[h] = StopItem => svc \in {"draining", "down"} /\ queue'[h] = <<>>
               /\ \A i \in 1 .. Len(queue'[h]) : queue'[h][i] = StopItem =>
                    svc \in {"draining", "down"} /\ i = Len(queue'[h])
    <3>1. CASE h = g
      BY <2>1, <2>3, <2>4, <2>6, <2>7, <3>1
    <3>2. CASE h # g
      <4>1. hand'[h] = hand[h] /\ pc'[h] = pc[h] /\ queue'[h] = queue[h]
        BY <2>1, <2>5, <3>2
      <4> QED
        BY <4>1 DEF StopInv
    <3> QED
      BY <3>1, <3>2
  <2> QED
    BY <2>1, <2>8, <2>9 DEF StopInv
<1>9. ASSUME NEW g \in Groups,
             Records(g) \/ Writes(g) \/ Replies(g) \/ Turns(g) \/ Publish(g)
      PROVE  StopInv'
  <2>1. UNCHANGED <<svc, place, outcome, queue>>
    BY <1>9 DEF Records, Writes, Replies, Turns, Publish, Outside
  <2>2. \A h \in Groups \ {g} : hand'[h] = hand[h] /\ pc'[h] = pc[h]
    BY <1>9, <1>a DEF Records, Writes, Replies, Turns, Publish, Goto, Added
  <2>3. hand'[g] = NoItem \/ hand'[g] = hand[g]
    BY <1>9, <1>a DEF Records, Writes, Replies, Turns, Publish, Added
  <2>4. pc'[g] = "ended" => hand[g] = StopItem
    BY <1>9, <1>a DEF Records, Writes, Replies, Turns, Publish, Goto, Added
  <2>5. outcome # "clean"
    BY <1>9, <1>a DEF StopInv, Records, Writes, Replies, Turns, Publish
  <2>6. NoItem # StopItem
    BY ItemKinds
  <2> QED
    BY <2>1, <2>2, <2>3, <2>4, <2>5, <2>6 DEF StopInv
<1> QED
  BY <1>1, <1>2, <1>3, <1>4, <1>5, <1>6, <1>7, <1>8, <1>9, <1>a, WriterKinds
     DEF Next, Boundary, Shutdown

\* The lease ends clean only when everything that was admitted is recorded:
\* nothing is behind the StopWriter of a writer, in its hand or in a session.
THEOREM CleanEndsAreComplete == Spec => []CleanMeansComplete
<1>1. Init => BaseInv /\ StopInv
  <2> SUFFICES ASSUME Init PROVE StopInv
    BY BaseInitially
  <2> QED
    BY ItemKinds DEF Init, StopInv
<1>2. BaseInv /\ StopInv => CleanMeansComplete
  <2> SUFFICES ASSUME BaseInv, StopInv, outcome = "clean", NEW e \in Admitted PROVE e \in Recorded
    BY DEF CleanMeansComplete
  <2>1. e \in All /\ Group(e) \in Groups
    BY GroupOfEvent DEF Admitted
  <2>2. pc[Group(e)] = "ended" /\ queue[Group(e)] = <<>>
    BY <2>1 DEF StopInv
  <2>3. hand[Group(e)] = NoItem /\ session[Group(e)] = NoSession
    BY <2>1, <2>2 DEF BaseInv, WriterInv
  <2>4. ~Queued(Group(e), e) /\ ~Carried(Group(e), e)
    BY <2>1, <2>2, <2>3, EventItems, NoSessionIsEmpty DEF Queued, Has, Carried
  <2> QED
    BY <2>4 DEF BaseInv, WhereInv
<1> QED
  BY <1>1, <1>2, BaseInductive, StopInductive, PTL DEF Spec

(***************************************************************************)
(* Sessions and chunks.                                                    *)
(***************************************************************************)

\* The events of a session or of a chunk are admitted.
LEMMA KeptAreAdmitted ==
  ASSUME BaseInv
  PROVE  /\ \A g \in Groups : Contents(session[g]) \subseteq All
         /\ \A g \in Groups : \A e \in Contents(session[g]) : place[e] = "admitted"
         /\ \A c \in published, e \in All : e \in c.events => place[e] = "admitted"
<1>1. \A g \in Groups : Contents(session[g]) \subseteq All
  BY DEF BaseInv, Types, Session, Contents
<1> QED
  BY <1>1 DEF BaseInv, WhereInv, Carried

\* Stamps and universes of admitted events stay.
LEMMA AdmittedStay ==
  ASSUME BaseInv, [Next]_vars
  PROVE  \A e \in All : place[e] = "admitted" =>
           place'[e] = "admitted" /\ stamp'[e] = stamp[e] /\ under'[e] = under[e]
<1> USE DEF BaseInv
<1>1. CASE Quiet
  BY <1>1 DEF Quiet
<1>2. CASE Rotates \/ StopWriters
  BY <1>2, ControlFlow DEF Rotates, StopWriters
<1>3. ASSUME NEW e \in All, NEW t, Admits(e, t)
      PROVE  \A o \in All : place[o] = "admitted" =>
               place'[o] = "admitted" /\ stamp'[o] = stamp[o] /\ under'[o] = under[o]
  BY <1>3 DEF Admits, Types
<1>4. ASSUME NEW g \in Groups, Step(g) \/ DiskError(g) PROVE UNCHANGED <<place, stamp, under>>
  <2>1. UNCHANGED Outside
    BY <1>4, WriterKinds DEF Takes, Records, Writes, Replies, Turns, Publish
  <2> QED
    BY <2>1 DEF Outside
<1> QED
  BY <1>1, <1>2, <1>3, <1>4, Kinds

\* A session is of one day, and so is its chunk.
LEMMA SessionInductive == BaseInv /\ SessionInv /\ [Next]_vars => SessionInv'
<1> SUFFICES ASSUME BaseInv, SessionInv, [Next]_vars PROVE SessionInv'
  OBVIOUS
<1>a. /\ session \in [Groups -> Session] /\ Types /\ MarksInv /\ WriterInv
      /\ published \subseteq Chunk
  BY DEF BaseInv, Types
<1>b. /\ \A g \in Groups : Contents(session[g]) \subseteq All
      /\ \A g \in Groups : \A e \in Contents(session[g]) : stamp'[e] = stamp[e]
      /\ \A c \in published, e \in All : e \in c.events => stamp'[e] = stamp[e]
  BY KeptAreAdmitted, AdmittedStay
<1>c. \A c \in published, e \in All : e \in c.events => Day(stamp'[e]) = c.day
  BY <1>b DEF SessionInv
<1>1. CASE UNCHANGED <<session, published>>
  BY <1>1, <1>b, <1>c DEF SessionInv
<1>2. ASSUME NEW g \in Groups, NEW s, NEW e \in All, NEW new \in Session, Added(g, s, e, new),
             s = NoSession \/ (s = session[g] /\ Day(stamp[e]) = session[g].day),
             UNCHANGED <<stamp, published>>
      PROVE  SessionInv'
  <2>1. session'[g] = new /\ \A h \in Groups \ {g} : session'[h] = session[h]
    BY <1>2, <1>a DEF Added
  <2>2. \A o \in Contents(new) : Day(stamp[o]) = new.day
    BY <1>2, NoSessionIsEmpty DEF Added, SessionInv
  <2> QED
    BY <1>2, <1>c, <2>1, <2>2 DEF SessionInv
<1>3. ASSUME NEW g \in Groups, Takes(g, Head(queue[g])) PROVE SessionInv'
  BY <1>1, <1>2, <1>3 DEF Takes, Outside
<1>4. ASSUME NEW g \in Groups, Records(g) PROVE SessionInv'
  <2>1. UNCHANGED <<stamp, published>>
    BY <1>4 DEF Records, Outside
  <2>2. CASE session' = [session EXCEPT ![g] = NoSession]
    BY <1>a, <1>c, <2>1, <2>2, NoSessionIsEmpty DEF SessionInv
  <2> QED
    BY <1>2, <1>4, <2>1, <2>2 DEF Records
<1>5. ASSUME NEW g \in Groups, Writes(g) PROVE SessionInv'
  <2>1. UNCHANGED <<stamp, published>>
    BY <1>5 DEF Writes, Outside
  <2>2. \A h \in Groups : /\ Contents(session'[h]) = Contents(session[h])
                          /\ session'[h].day = session[h].day
    BY <1>5, <1>a DEF Writes
  <2> QED
    BY <2>1, <2>2 DEF SessionInv
<1>6. ASSUME NEW g \in Groups, Publish(g) PROVE SessionInv'
  <2>1. UNCHANGED <<stamp, session>> /\ published' = published \cup {ChunkOf(g)}
    BY <1>6 DEF Publish, Outside
  <2>2. /\ ChunkOf(g).events \subseteq Contents(session[g]) /\ ChunkOf(g).day = session[g].day
    BY <1>a, ChunkType DEF Contents
  <2> QED
    BY <2>1, <2>2 DEF SessionInv
<1>7. ASSUME NEW g \in Groups, Replies(g) \/ Turns(g) PROVE SessionInv'
  BY <1>1, <1>7 DEF Replies, Turns
<1>8. CASE Quiet \/ Rotates \/ StopWriters \/ \E e \in All, t \in 0 .. now : Admits(e, t)
  BY <1>1, <1>8 DEF Quiet, Rotates, StopWriters, Admits
<1> QED
  BY <1>3, <1>4, <1>5, <1>6, <1>7, <1>8, <1>a, Kinds, WriterKinds

\* What a source may do to the place of an event.
LEMMA SourceMoves ==
  ASSUME BaseInv, Sources \/ Admission
  PROVE  /\ UNCHANGED <<svc, accepting, cancelled, universe, target, replies, pc, hand>>
         /\ \A e \in All : /\ place'[e] = "woken" => place[e] = "woken"
                           /\ place'[e] = "held" => place[e] = "held" \/ ~accepting
<1>1. place \in [All -> Places]
  BY DEF BaseInv, Types
<1>2. UNCHANGED <<svc, accepting, cancelled, universe, target, replies, pc, hand>>
  BY DEF Sources, Admission, Receive, Observe, PutObserved, ResumePut, Resume, Others
<1> QED
  BY <1>1, <1>2 DEF Sources, Admission, Receive, Observe, PutObserved, ResumePut, Resume, Offer, Put

LEMMA LoopInductive == BaseInv /\ LoopInv /\ [Next]_vars => LoopInv'
<1> SUFFICES ASSUME BaseInv, LoopInv, [Next]_vars PROVE LoopInv'
  OBVIOUS
<1>1. CASE Sources \/ Admission
  BY <1>1, SourceMoves DEF LoopInv, Rotating
<1>2. CASE MarkStart \/ MarkDay
  <2>1. \A e \in All : place'[e] \in {"held", "woken"} => place[e] \in {"held", "woken"}
    BY <1>2 DEF MarkStart, MarkDay, Emit, Put, BaseInv, Types
  <2>2. /\ svc \in {"boot", "emit"} /\ svc' \in {"bootBarrier", "secondBarrier", "failing"}
        /\ svc' = "bootBarrier" => svc = "boot"
        /\ UNCHANGED <<accepting, cancelled>>
    BY <1>2 DEF MarkStart, MarkDay, Emit
  <2> QED
    BY <2>1, <2>2 DEF LoopInv, Rotating
<1>3. CASE BootBarrier \/ MidnightBarrier \/ SecondBarrier
  BY <1>3 DEF BootBarrier, MidnightBarrier, SecondBarrier, BeginRotation, LoopInv, Rotating
<1>4. CASE BootDone \/ FirstDone \/ SecondDone \/ RotationRaises \/ Stop
  BY <1>4 DEF BootDone, FirstDone, SecondDone, EndRotation, RotationRaises, Stop, InBackground,
              Reopen, LoopInv, Rotating
<1>5. CASE EndGrace \/ SealWritten \/ Tick \/ Down \/ UNCHANGED vars
  BY <1>5 DEF EndGrace, SealWritten, Tick, Down, vars, LoopInv, Rotating
<1>6. CASE StopWriters
  BY <1>6 DEF StopWriters, LoopInv, Rotating
<1>7. ASSUME NEW g \in Groups, Step(g) \/ DiskError(g) PROVE LoopInv'
  <2>1. UNCHANGED Outside
    BY <1>7, WriterKinds DEF Takes, Records, Writes, Replies, Turns, Publish, BaseInv
  <2> QED
    BY <2>1 DEF LoopInv, Rotating, Outside
<1> QED
  BY <1>1, <1>2, <1>3, <1>4, <1>5, <1>6, <1>7 DEF Next, Boundary, Shutdown

\* A pool that is torn stays torn.
LEMMA TornStays == BaseInv /\ LoopInv /\ [Next]_vars /\ Torn => Torn'
<1> SUFFICES ASSUME BaseInv, LoopInv, [Next]_vars, Torn PROVE Torn'
  OBVIOUS
<1>1. CASE cancelled
  <2>1. svc \in {"stopping", "draining", "down"}
    BY <1>1 DEF LoopInv
  <2>2. cancelled' = cancelled
    <3>1. ASSUME NEW g \in Groups, Step(g) \/ DiskError(g) PROVE UNCHANGED cancelled
      BY <3>1, WriterKinds DEF Takes, Records, Writes, Replies, Turns, Publish, BaseInv, Outside
    <3>2. CASE Sources \/ Admission
      BY <3>2, SourceMoves
    <3>3. CASE Boundary \/ Shutdown \/ Stop \/ Tick \/ UNCHANGED vars
      BY <2>1, <3>3 DEF Boundary, Shutdown, MarkStart, MarkDay, Emit, BootBarrier, MidnightBarrier,
         SecondBarrier, BootDone, FirstDone, SecondDone, EndRotation, RotationRaises, EndGrace,
         SealWritten, StopWriters, Down, Stop, InBackground, Tick, vars
    <3> QED
      BY <3>1, <3>2, <3>3 DEF Next
  <2> QED
    BY <1>1, <2>2 DEF Torn
<1>2. ASSUME NEW g \in Groups, pc[g] = "failed", hand[g].kind = "rotate"
      PROVE  pc'[g] = "failed" /\ hand'[g] = hand[g]
  <2>1. ASSUME NEW h \in Groups, Step(h) \/ DiskError(h) PROVE pc'[g] = "failed" /\ hand'[g] = hand[g]
    <3>1. pc \in [Groups -> WriterPlaces] /\ hand \in [Groups -> Items]
      BY DEF BaseInv, Types
    <3>2. pc[h] # "failed"
      BY <2>1 DEF Step, DiskError, Get, IdleFinish, Flush, Publish, Record, Reply
    <3>3. h # g
      BY <1>2, <3>2
    <3>4. pc'[g] = pc[g] /\ hand'[g] = hand[g]
      BY <2>1, <3>1, <3>3, WriterKinds DEF Takes, Records, Writes, Replies, Turns, Publish, Goto,
         Added, BaseInv
    <3> QED
      BY <1>2, <3>4
  <2>2. CASE Quiet \/ Rotates \/ StopWriters \/ \E e \in All, t \in 0 .. now : Admits(e, t)
    BY <1>2, <2>2 DEF Quiet, Rotates, StopWriters, Admits
  <2> QED
    BY <2>1, <2>2, Kinds DEF BaseInv
<1> QED
  BY <1>1, <1>2 DEF Torn

(***************************************************************************)
(* The universe of a chunk.                                                *)
(***************************************************************************)

\* Chunks agree as long as none is published.
LEMMA ChunksStayAgreed ==
  ASSUME BaseInv, [Next]_vars, ChunksAgree, UNCHANGED published PROVE ChunksAgree'
BY KeptAreAdmitted, AdmittedStay DEF ChunksAgree

\* An event is admitted at a time when the universe cannot change under it.
LEMMA AdmitKeepsAgreed ==
  ASSUME BaseInv, [Next]_vars, Agreed, NEW e \in All, NEW t, Admits(e, t), ~Rotating \/ svc # "rotate1",
         UNCHANGED <<universe, target, replies>>,
         svc' = svc \/ (~Rotating /\ ~Rotating'), svc' # "rotate1"
  PROVE  Agreed'
<1>a. /\ queue \in [Groups -> Seq(Items)] /\ EventItem(e) \in Items /\ EventItem(e).kind = "event"
      /\ Group(e) \in Groups /\ place[e] # "admitted" /\ under'[e] = universe /\ Types
      /\ UNCHANGED <<hand, session, label, published, universe>>
  BY ItemKinds, GroupOfEvent DEF BaseInv, Types, Admits
<1>b. Rotating' <=> Rotating
  BY DEF Rotating
<1>1. UniverseInv'
  <2>1. \A g \in Groups : \A o \in Contents(session[g]) : under'[o] = under[o]
    BY KeptAreAdmitted, AdmittedStay
  <2>2. ASSUME NEW g \in Groups, NEW o \in All, (Queued(g, o) \/ hand[g] = EventItem(o))'
        PROVE  under'[o] = universe
    <3>1. CASE o = e
      BY <1>a, <3>1
    <3>2. CASE o # e
      <4>1. Queued(g, o) \/ hand[g] = EventItem(o)
        BY <1>a, <2>2, <3>2, AdmitsFlow
      <4>2. place[o] = "admitted" /\ under[o] = universe
        BY <4>1 DEF BaseInv, WhereInv, Carried, Agreed, UniverseInv
      <4> QED
        BY <4>2, AdmittedStay
    <3> QED
      BY <3>1, <3>2
  <2> QED
    BY <1>a, <1>b, <2>1, <2>2 DEF UniverseInv, Agreed
<1>2. BarrierInv'
  <2>1. ASSUME NEW g \in Groups, NEW i \in 1 .. Len(queue'[g]), queue'[g][i].kind = "rotate"
        PROVE  i \in 1 .. Len(queue[g]) /\ queue'[g][i] = queue[g][i]
    <3>1. CASE g # Group(e)
      BY <1>a, <2>1, <3>1 DEF Admits
    <3>2. CASE g = Group(e)
      <4>1. queue'[g] = Append(queue[g], EventItem(e)) /\ queue[g] \in Seq(Items)
        BY <1>a, <3>2 DEF Admits
      <4>2. /\ Len(queue[g]) \in Nat /\ Len(queue'[g]) = Len(queue[g]) + 1
            /\ queue'[g][Len(queue[g]) + 1] = EventItem(e)
            /\ \A j \in 1 .. Len(queue[g]) : queue'[g][j] = queue[g][j]
        BY <1>a, <4>1, AppendProperties
      <4>3. i # Len(queue[g]) + 1
        BY <1>a, <2>1, <4>2
      <4> QED
        BY <4>2, <4>3
    <3> QED
      BY <3>1, <3>2
  <2>2. ASSUME NEW g \in Groups, hand[g].kind = "rotate"
        PROVE  /\ Rotating' /\ g \notin replies /\ hand[g].universe = target
               /\ \A i \in 1 .. Len(queue'[g]) : queue'[g][i].kind # "rotate"
    BY <1>b, <2>1, <2>2 DEF BarrierInv, Agreed
  <2>3. ASSUME NEW g \in Groups, NEW i \in 1 .. Len(queue'[g]), queue'[g][i].kind = "rotate"
        PROVE  /\ Rotating' /\ g \notin replies /\ queue'[g][i].universe = target
               /\ \A j \in 1 .. Len(queue'[g]) : queue'[g][j].kind = "rotate" => j = i
    <3>1. i \in 1 .. Len(queue[g]) /\ queue'[g][i] = queue[g][i] /\ queue[g][i].kind = "rotate"
      BY <2>1, <2>3
    <3>2. ASSUME NEW j \in 1 .. Len(queue'[g]), queue'[g][j].kind = "rotate" PROVE j = i
      <4>1. j \in 1 .. Len(queue[g]) /\ queue[g][j].kind = "rotate"
        BY <2>1, <3>2
      <4> QED
        BY <3>1, <4>1 DEF BarrierInv, Agreed
    <3> QED
      BY <1>b, <3>1, <3>2 DEF BarrierInv, Agreed
  <2> QED
    BY <1>a, <2>2, <2>3 DEF BarrierInv
<1>3. TargetInv'
  BY DEF TargetInv, Agreed, Rotating
<1> QED
  BY <1>1, <1>2, <1>3, <1>a, ChunksStayAgreed DEF Agreed

\* A rotation begins behind everything that was admitted before.
LEMMA BarrierKeepsAgreed ==
  ASSUME BaseInv, [Next]_vars, Agreed, LoopInv, BootBarrier \/ MidnightBarrier \/ SecondBarrier
  PROVE  Agreed'
<1>a. /\ queue \in [Groups -> Seq(Items)] /\ Types /\ universe \in Nat /\ universe + 1 \in Nat
  BY DEF BaseInv, Types
<1>b. ~Rotating /\ Rotating' /\ UNCHANGED <<place, hand, session, label, published, universe, under>>
  BY DEF BootBarrier, MidnightBarrier, SecondBarrier, Rotating
<1>c. PICK u \in Nat : /\ BeginRotation(u) /\ svc' \in {"bootRotate", "rotate1", "rotate2"}
                       /\ svc' # "rotate1" => u = universe
                       /\ svc' = "rotate1" => \A e \in Events : place[e] # "woken"
  BY <1>a DEF BootBarrier, MidnightBarrier, SecondBarrier
<1>d. target' = u /\ replies' = {} /\ RotateItem(u) \in Items /\ RotateItem(u).kind = "rotate"
      /\ RotateItem(u).universe = u
  BY <1>c, ItemKinds DEF BeginRotation
<1>e. Rotates
  BY <1>b, <1>c DEF Rotates, BootBarrier, MidnightBarrier, SecondBarrier
<1>1. UniverseInv'
  BY <1>a, <1>b, <1>d, <1>e, ControlFlow DEF UniverseInv, Agreed
<1>2. BarrierInv'
  <2>1. \A g \in Groups : /\ hand[g].kind # "rotate"
                          /\ \A i \in 1 .. Len(queue[g]) : queue[g][i].kind # "rotate"
    BY <1>b DEF BarrierInv, Agreed
  <2>2. ASSUME NEW g \in Groups, NEW i \in 1 .. Len(queue'[g]), queue'[g][i].kind = "rotate"
        PROVE  i = Len(queue'[g]) /\ queue'[g][i].universe = u
    <3>1. queue'[g] = Append(queue[g], RotateItem(u)) /\ queue[g] \in Seq(Items)
      BY <1>a, <1>c DEF BeginRotation
    <3>2. /\ Len(queue[g]) \in Nat /\ Len(queue'[g]) = Len(queue[g]) + 1
          /\ queue'[g][Len(queue[g]) + 1] = RotateItem(u)
          /\ \A j \in 1 .. Len(queue[g]) : queue'[g][j] = queue[g][j]
      BY <1>d, <3>1, AppendProperties
    <3>3. i \notin 1 .. Len(queue[g])
      BY <2>1, <2>2, <3>2
    <3>4. i = Len(queue[g]) + 1
      BY <3>2, <3>3
    <3> QED
      BY <1>d, <3>2, <3>4
  <2> QED
    BY <1>b, <1>d, <2>1, <2>2 DEF BarrierInv
<1>3. TargetInv'
  BY <1>b, <1>c, <1>d DEF TargetInv, BaseInv, MarksInv, All
<1> QED
  BY <1>1, <1>2, <1>3, <1>b, ChunksStayAgreed DEF Agreed

\* A rotation ends when every writer has the new universe.
LEMMA DoneKeepsAgreed ==
  ASSUME BaseInv, [Next]_vars, Agreed, BootDone \/ FirstDone \/ SecondDone
  PROVE  Agreed'
<1>a. /\ Rotating /\ ~Rotating' /\ replies = Groups /\ universe' = target
      /\ UNCHANGED <<queue, hand, session, label, published, under, target, replies>>
      /\ svc' \notin {"bootRotate", "rotate1", "rotate2"}
      /\ svc \in {"bootRotate", "rotate1", "rotate2"}
  BY DEF BootDone, FirstDone, SecondDone, EndRotation, AllReplied, Rotating
<1>1. UniverseInv'
  <2>1. ASSUME NEW g \in Groups, NEW e \in All, Queued(g, e) \/ hand[g] = EventItem(e)
        PROVE  under[e] = target
    <3>1. CASE svc = "rotate1"
      <4>1. queue[g] = <<>> /\ hand[g] = NoItem
        BY <1>a, <3>1 DEF BarrierInv, Agreed
      <4> QED
        BY <2>1, <4>1, EventItems DEF Queued, Has
    <3>2. CASE svc \in {"bootRotate", "rotate2"}
      BY <2>1, <3>2 DEF TargetInv, UniverseInv, Agreed
    <3> QED
      BY <1>a, <3>1, <3>2
  <2>2. \A g \in Groups : label[g] = target
    BY <1>a DEF UniverseInv, Agreed
  <2>3. \A g \in Groups, e \in All : Queued(g, e)' <=> Queued(g, e)
    BY <1>a DEF Queued
  <2> QED
    BY <1>a, <2>1, <2>2, <2>3 DEF UniverseInv, Agreed
<1>2. BarrierInv'
  BY <1>a DEF BarrierInv, Agreed
<1>3. TargetInv'
  BY <1>a DEF TargetInv
<1> QED
  BY <1>1, <1>2, <1>3, <1>a, ChunksStayAgreed DEF Agreed

\* Nothing else the service does concerns the universe.
LEMMA ServiceKeepsAgreed ==
  ASSUME BaseInv, [Next]_vars, LabelInv, ~Torn, ~Torn', Boundary \/ Shutdown \/ Stop \/ Tick
  PROVE  Agreed'
<1>a. Agreed /\ LoopInv /\ Types /\ MarksInv
  BY DEF LabelInv, BaseInv
<1>b. ASSUME UNCHANGED <<queue, hand, session, label, published, under, universe>>,
             \/ ~Rotating /\ ~Rotating'
             \/ UNCHANGED <<svc, target, replies, place>>
      PROVE  Agreed'
  <2>1. \A g \in Groups, e \in All : Queued(g, e)' <=> Queued(g, e)
    BY <1>b DEF Queued
  <2>2. UniverseInv'
    BY <1>a, <1>b, <2>1 DEF UniverseInv, Agreed, Rotating
  <2>3. BarrierInv'
    BY <1>a, <1>b DEF BarrierInv, Agreed, Rotating
  <2>4. TargetInv'
    BY <1>a, <1>b DEF TargetInv, Agreed, Rotating
  <2> QED
    BY <1>a, <1>b, <2>2, <2>3, <2>4, ChunksStayAgreed DEF Agreed
<1>1. CASE BootBarrier \/ MidnightBarrier \/ SecondBarrier
  BY <1>1, <1>a, BarrierKeepsAgreed
<1>2. CASE BootDone \/ FirstDone \/ SecondDone
  BY <1>2, <1>a, DoneKeepsAgreed
<1>3. CASE RotationRaises
  BY <1>3 DEF RotationRaises, Torn
<1>4. CASE MarkStart \/ MarkDay
  <2>1. /\ UNCHANGED <<universe, target, replies>> /\ ~Rotating /\ ~Rotating' /\ svc' # "rotate1"
    BY <1>4 DEF MarkStart, MarkDay, Emit, Rotating
  <2>2. BootMark \in All /\ DayMark \in All /\ now \in 0 .. now
    BY <1>a DEF All, Marks, Types
  <2>3. \/ Quiet \/ Admits(BootMark, now) \/ Admits(DayMark, now)
    BY <1>4, <1>a, MarkKinds DEF MarkStart, MarkDay, Marks, MarksInv
  <2>4. CASE Quiet
    BY <1>b, <2>1, <2>4 DEF Quiet
  <2>5. CASE Admits(BootMark, now) \/ Admits(DayMark, now)
    BY <1>a, <2>1, <2>2, <2>5, AdmitKeepsAgreed
  <2> QED
    BY <2>3, <2>4, <2>5
<1>5. CASE Stop
  <2>1. svc \notin {"bootRotate", "rotate1", "rotate2"}
    BY <1>5 DEF Stop, InBackground, Torn
  <2> QED
    BY <1>5, <1>b, <2>1 DEF Stop, Rotating
<1>6. CASE EndGrace \/ SealWritten \/ Tick \/ Down
  BY <1>6, <1>b DEF EndGrace, SealWritten, Tick, Down, Rotating
<1>7. CASE StopWriters
  <2>1. /\ ~Rotating /\ ~Rotating' /\ svc' # "rotate1"
        /\ UNCHANGED <<hand, session, label, published, under, universe>>
    BY <1>7 DEF StopWriters, Rotating
  <2>2. \A g \in Groups, e \in All : Queued(g, e)' <=> Queued(g, e)
    BY <1>7, <1>a, ControlFlow
  <2>3. UniverseInv'
    BY <1>a, <2>1, <2>2 DEF UniverseInv, Agreed
  <2>4. ASSUME NEW g \in Groups, NEW i \in 1 .. Len(queue'[g]) PROVE queue'[g][i].kind # "rotate"
    <3>1. \A j \in 1 .. Len(queue[g]) : queue[g][j].kind # "rotate"
      BY <1>a, <2>1 DEF BarrierInv, Agreed
    <3>2. CASE queue'[g] = queue[g]
      BY <3>1, <3>2
    <3>3. CASE queue'[g] = Append(queue[g], StopItem)
      <4>1. queue[g] \in Seq(Items) /\ StopItem \in Items /\ StopItem.kind = "stop"
        BY <1>a, ItemKinds DEF Types
      <4>2. /\ Len(queue[g]) \in Nat /\ Len(queue'[g]) = Len(queue[g]) + 1
            /\ queue'[g][Len(queue[g]) + 1] = StopItem
            /\ \A j \in 1 .. Len(queue[g]) : queue'[g][j] = queue[g][j]
        BY <3>3, <4>1, AppendProperties
      <4>3. i \in 1 .. Len(queue[g]) \/ i = Len(queue[g]) + 1
        BY <4>2
      <4> QED
        BY <3>1, <4>1, <4>2, <4>3
    <3> QED
      BY <1>7, <3>2, <3>3 DEF StopWriters
  <2>5. BarrierInv'
    BY <1>a, <2>1, <2>4 DEF BarrierInv, Agreed
  <2>6. TargetInv'
    BY <2>1 DEF TargetInv, Rotating
  <2> QED
    BY <1>a, <2>1, <2>3, <2>5, <2>6, ChunksStayAgreed DEF Agreed
<1> QED
  BY <1>1, <1>2, <1>3, <1>4, <1>5, <1>6, <1>7 DEF Boundary, Shutdown

\* What is on its way to a writer was admitted under the label of the writer.
LEMMA LabelFits ==
  ASSUME BaseInv, Agreed, NEW g \in Groups, NEW e \in All, Queued(g, e) \/ hand[g] = EventItem(e)
  PROVE  under[e] = label[g]
<1>1. under[e] = universe /\ label[g] = IF Rotating /\ g \in replies THEN target ELSE universe
  BY DEF Agreed, UniverseInv
<1>2. CASE svc = "rotate1" /\ g \in replies
  <2>1. queue[g] = <<>> /\ hand[g] = NoItem
    BY <1>2 DEF Agreed, BarrierInv
  <2> QED
    BY <2>1, EventItems DEF Queued, Has
<1>3. CASE ~(svc = "rotate1" /\ g \in replies)
  BY <1>1, <1>3 DEF Agreed, TargetInv, Rotating
<1> QED
  BY <1>2, <1>3

\* A session gets an event of its own universe.
LEMMA AddedAgrees ==
  ASSUME BaseInv, Agreed, NEW g \in Groups, NEW s, NEW e \in All, NEW new \in Session,
         Added(g, s, e, new), s = NoSession \/ s = session[g], under[e] = label[g]
  PROVE  /\ new.universe = label[g] /\ \A o \in Contents(new) : under[o] = new.universe
         /\ session'[g] = new /\ \A h \in Groups \ {g} : session'[h] = session[h]
<1>1. session \in [Groups -> Session]
  BY DEF BaseInv, Types
<1>2. new.universe = label[g]
  BY DEF Added, Agreed, UniverseInv
<1>3. \A o \in Contents(s) : under[o] = new.universe
  BY NoSessionIsEmpty DEF Added, Agreed, UniverseInv
<1> QED
  BY <1>1, <1>2, <1>3 DEF Added

LEMMA TakesKeepsAgreed ==
  ASSUME BaseInv, [Next]_vars, Agreed, NEW g \in Groups, Takes(g, Head(queue[g]))
  PROVE  Agreed'
<1> DEFINE q == queue[g]
<1>a. /\ Types /\ WriterInv /\ q \in Seq(Items) /\ q # <<>> /\ hand[g] = NoItem
      /\ session \in [Groups -> Session] /\ hand \in [Groups -> Items]
      /\ queue'[g] = Tail(q) /\ \A h \in Groups \ {g} : queue'[h] = queue[h]
      /\ UNCHANGED <<svc, target, replies, universe, label, published, under, place>>
  BY DEF BaseInv, Types, WriterInv, Takes, Outside
<1>b. /\ Head(q) = q[1] /\ Len(q) \in Nat \ {0} /\ Len(Tail(q)) = Len(q) - 1
      /\ \A i \in 1 .. Len(Tail(q)) : Tail(q)[i] = q[i + 1] /\ i + 1 \in 1 .. Len(q)
      /\ Tail(q) \in Seq(Items) /\ 1 \in 1 .. Len(q) /\ Head(q) \in Items
  BY <1>a, QueueTail
<1>c. \A h \in Groups \ {g} : hand'[h] = hand[h] /\ session'[h] = session[h]
  BY <1>a DEF Takes, Added
<1>d. hand'[g] = NoItem \/ (hand'[g] = Head(q) /\ session'[g] = session[g])
  BY <1>a DEF Takes, Added
<1>e. ASSUME NEW e \in All, q[1] = EventItem(e) PROVE Queued(g, e)
  BY <1>b, <1>e DEF Queued, Has
<1>1. UniverseInv'
  <2>1. /\ session'[g] # NoSession => session'[g].universe = label[g]
        /\ \A e \in Contents(session'[g]) : under[e] = session'[g].universe
    <3>1. CASE session' = session
      BY <3>1 DEF Agreed, UniverseInv
    <3>2. CASE \E e \in All, new \in Session :
                 Head(q) = EventItem(e) /\ Added(g, session[g], e, new)
      <4>1. PICK e \in All, new \in Session :
              Head(q) = EventItem(e) /\ Added(g, session[g], e, new)
        BY <3>2
      <4>2. under[e] = label[g]
        BY <1>b, <1>e, <4>1, LabelFits
      <4> QED
        BY <4>1, <4>2, AddedAgrees
    <3> QED
      BY <3>1, <3>2 DEF Takes
  <2>2. ASSUME NEW e \in All, (Queued(g, e) \/ hand[g] = EventItem(e))' PROVE under[e] = universe
    <3>1. Queued(g, e)
      BY <1>a, <1>b, <1>d, <1>e, <2>2, TakesFlow, EventItems
    <3> QED
      BY <3>1 DEF Agreed, UniverseInv
  <2>3. \A h \in Groups \ {g}, e \in All : Queued(h, e)' <=> Queued(h, e)
    BY <1>a, TakesFlow
  <2>4. label[g] = IF Rotating /\ g \in replies THEN target ELSE universe
    BY DEF Agreed, UniverseInv
  <2>5. Rotating' <=> Rotating
    BY <1>a DEF Rotating
  <2>6. ASSUME NEW h \in Groups
        PROVE  /\ label[h] = IF Rotating' /\ h \in replies THEN target ELSE universe
               /\ session'[h] # NoSession => session'[h].universe = label[h]
               /\ \A e \in Contents(session'[h]) : under[e] = session'[h].universe
               /\ \A e \in All : (Queued(h, e) \/ hand[h] = EventItem(e))' => under[e] = universe
    <3>1. CASE h = g
      BY <2>1, <2>2, <2>4, <2>5, <3>1
    <3>2. CASE h # g
      BY <1>c, <2>3, <2>5, <3>2 DEF Agreed, UniverseInv
    <3> QED
      BY <3>1, <3>2
  <2> QED
    BY <1>a, <2>6 DEF UniverseInv
<1>2. BarrierInv'
  <2>1. ASSUME NEW i \in 1 .. Len(Tail(q)), Tail(q)[i].kind = "rotate"
        PROVE  /\ Rotating /\ g \notin replies /\ Tail(q)[i].universe = target
               /\ \A j \in 1 .. Len(Tail(q)) : Tail(q)[j].kind = "rotate" => j = i
               /\ svc = "rotate1" => i = Len(Tail(q))
               /\ Head(q).kind # "rotate"
    <3>1. q[i + 1].kind = "rotate" /\ i + 1 \in 1 .. Len(q) /\ Tail(q)[i] = q[i + 1]
      BY <1>b, <2>1
    <3>2. \A j \in 1 .. Len(q) : q[j].kind = "rotate" => j = i + 1
      BY <3>1 DEF Agreed, BarrierInv
    <3>3. ASSUME NEW j \in 1 .. Len(Tail(q)), Tail(q)[j].kind = "rotate" PROVE j = i
      <4>1. j + 1 \in 1 .. Len(q) /\ q[j + 1].kind = "rotate"
        BY <1>b, <3>3
      <4>2. j + 1 = i + 1
        BY <3>2, <4>1
      <4> QED
        BY <4>2
    <3>4. Head(q).kind # "rotate"
      BY <1>b, <3>2
    <3> QED
      BY <1>b, <3>1, <3>3, <3>4 DEF Agreed, BarrierInv
  <2>2. ASSUME Head(q).kind = "rotate"
        PROVE  /\ Rotating /\ g \notin replies /\ Head(q).universe = target
               /\ \A i \in 1 .. Len(Tail(q)) : Tail(q)[i].kind # "rotate"
               /\ svc = "rotate1" => Tail(q) = <<>>
    <3>1. q[1].kind = "rotate" /\ (svc = "rotate1" => 1 = Len(q))
      BY <1>b, <2>2 DEF Agreed, BarrierInv
    <3>2. Len(q) = 1 => Tail(q) = <<>>
      BY <1>b
    <3> QED
      BY <1>b, <2>1, <2>2, <3>1, <3>2 DEF Agreed, BarrierInv
  <2>3. ~(svc = "rotate1" /\ g \in replies)
    BY <1>a DEF Agreed, BarrierInv
  <2>4. NoItem.kind # "rotate"
    BY ItemKinds
  <2>5. Rotating' <=> Rotating
    BY <1>a DEF Rotating
  <2> HIDE DEF q
  <2>6. ASSUME NEW h \in Groups \ {g}
        PROVE  queue'[h] = queue[h] /\ hand'[h] = hand[h] /\ session'[h] = session[h]
    BY <1>a, <1>c
  <2>7. hand'[g].kind = "rotate" => Head(q).kind = "rotate" /\ hand'[g] = Head(q)
    BY <1>d, <2>4
  <2>8. ASSUME NEW h \in Groups
        PROVE  /\ hand'[h].kind = "rotate" =>
                    /\ Rotating' /\ h \notin replies /\ hand'[h].universe = target
                    /\ \A i \in 1 .. Len(queue'[h]) : queue'[h][i].kind # "rotate"
                    /\ svc = "rotate1" => queue'[h] = <<>>
               /\ \A i \in 1 .. Len(queue'[h]) : queue'[h][i].kind = "rotate" =>
                    /\ Rotating' /\ h \notin replies /\ queue'[h][i].universe = target
                    /\ \A j \in 1 .. Len(queue'[h]) : queue'[h][j].kind = "rotate" => j = i
                    /\ svc = "rotate1" => i = Len(queue'[h])
               /\ svc = "rotate1" /\ h \in replies =>
                    queue'[h] = <<>> /\ hand'[h] = NoItem /\ session'[h] = NoSession
    <3>1. CASE h = g
      BY <1>a, <2>1, <2>2, <2>3, <2>5, <2>7, <3>1
    <3>2. CASE h # g
      <4>1. queue'[h] = queue[h] /\ hand'[h] = hand[h] /\ session'[h] = session[h]
        BY <2>6, <3>2
      <4> QED
        BY <2>5, <4>1 DEF Agreed, BarrierInv
    <3> QED
      BY <3>1, <3>2
  <2> QED
    BY <1>a, <2>8 DEF BarrierInv
<1>3. TargetInv'
  BY <1>a DEF Agreed, TargetInv
<1> QED
  BY <1>1, <1>2, <1>3, <1>a, ChunksStayAgreed DEF Agreed

\* The other steps of a writer, but for a reply.
LEMMA WritesKeepAgreed ==
  ASSUME BaseInv, [Next]_vars, Agreed, NEW g \in Groups,
         Records(g) \/ Writes(g) \/ Turns(g) \/ Publish(g)
  PROVE  Agreed'
<1>a. /\ Types /\ WriterInv /\ session \in [Groups -> Session] /\ hand \in [Groups -> Items]
      /\ UNCHANGED <<svc, target, replies, universe, label, under, place, queue>>
  BY DEF BaseInv, Types, Records, Writes, Turns, Publish, Outside
<1>b. /\ pc[g] # "get" => session[g] # NoSession \/ pc[g] \in {"reply", "ended", "failed"}
  BY <1>a DEF WriterInv, Types, WriterPlaces
<1>c. \A h \in Groups \ {g} : hand'[h] = hand[h] /\ session'[h] = session[h]
  BY <1>a DEF Records, Writes, Turns, Publish, Added
<1>d. hand'[g] = hand[g] \/ (hand'[g] = NoItem /\ hand[g].kind = "event")
  BY <1>a, ItemKinds DEF Records, Writes, Turns, Publish, Added
<1>e. Rotating' <=> Rotating
  BY <1>a DEF Rotating
<1>1. /\ session'[g] # NoSession => session'[g].universe = label[g]
      /\ \A e \in Contents(session'[g]) : under[e] = session'[g].universe
  <2>1. CASE session' = session
    BY <2>1 DEF Agreed, UniverseInv
  <2>2. CASE session' = [session EXCEPT ![g] = NoSession]
    BY <1>a, <2>2, NoSessionIsEmpty
  <2>3. CASE \E e \in All, new \in Session : hand[g] = EventItem(e) /\ Added(g, NoSession, e, new)
    <3>1. PICK e \in All, new \in Session : hand[g] = EventItem(e) /\ Added(g, NoSession, e, new)
      BY <2>3
    <3>2. under[e] = label[g]
      BY <3>1, LabelFits
    <3> QED
      BY <3>1, <3>2, AddedAgrees
  <2>4. CASE Writes(g)
    <3>1. PICK s \in Session : /\ session' = [session EXCEPT ![g] = s]
                               /\ Contents(s) = Contents(session[g])
                               /\ s.universe = session[g].universe
                               /\ s = NoSession => session[g] = NoSession
      BY <2>4 DEF Writes
    <3>2. session'[g] = s /\ session[g] # NoSession
      BY <1>a, <2>4, <3>1 DEF Writes, WriterInv
    <3> QED
      BY <3>1, <3>2 DEF Agreed, UniverseInv
  <2> QED
    BY <2>1, <2>2, <2>3, <2>4 DEF Records, Turns, Publish
<1>2. \A h \in Groups, e \in All :
        (Queued(h, e) \/ hand[h] = EventItem(e))' => Queued(h, e) \/ hand[h] = EventItem(e)
  BY <1>a, <1>c, <1>d, EventItems DEF Queued
<1>3. UniverseInv'
  <2>1. ASSUME NEW h \in Groups
        PROVE  /\ label[h] = IF Rotating' /\ h \in replies THEN target ELSE universe
               /\ session'[h] # NoSession => session'[h].universe = label[h]
               /\ \A e \in Contents(session'[h]) : under[e] = session'[h].universe
               /\ \A e \in All : (Queued(h, e) \/ hand[h] = EventItem(e))' => under[e] = universe
    <3>1. label[h] = IF Rotating' /\ h \in replies THEN target ELSE universe
      BY <1>e DEF Agreed, UniverseInv
    <3>2. \A e \in All : (Queued(h, e) \/ hand[h] = EventItem(e))' => under[e] = universe
      BY <1>2 DEF Agreed, UniverseInv
    <3>3. /\ session'[h] # NoSession => session'[h].universe = label[h]
          /\ \A e \in Contents(session'[h]) : under[e] = session'[h].universe
      BY <1>1, <1>c DEF Agreed, UniverseInv
    <3> QED
      BY <3>1, <3>2, <3>3
  <2> QED
    BY <1>a, <2>1 DEF UniverseInv
<1>4. BarrierInv'
  <2>1. \A h \in Groups : hand'[h].kind = "rotate" => hand'[h] = hand[h]
    BY <1>c, <1>d, ItemKinds
  <2>2. ASSUME svc = "rotate1", g \in replies PROVE hand'[g] = NoItem /\ session'[g] = NoSession
    <3>1. hand[g] = NoItem /\ session[g] = NoSession
      BY <2>2 DEF Agreed, BarrierInv
    <3>2. pc[g] \notin {"flush", "close", "publish", "record"}
      BY <1>a, <3>1 DEF WriterInv
    <3>3. Turns(g)
      BY <3>2 DEF Records, Writes, Publish
    <3> QED
      BY <3>1, <3>3 DEF Turns
  <2>3. ASSUME NEW h \in Groups, svc = "rotate1", h \in replies
        PROVE  hand'[h] = NoItem /\ session'[h] = NoSession
    BY <1>c, <2>2, <2>3 DEF Agreed, BarrierInv
  <2> QED
    BY <1>a, <1>e, <2>1, <2>3 DEF Agreed, BarrierInv
<1>5. TargetInv'
  BY <1>a DEF Agreed, TargetInv
<1>6. ChunksAgree'
  <2>1. CASE UNCHANGED published
    BY <2>1, ChunksStayAgreed DEF Agreed
  <2>2. CASE Publish(g)
    <3>1. published' = published \cup {ChunkOf(g)}
      BY <2>2 DEF Publish
    <3>2. /\ ChunkOf(g).events \subseteq Contents(session[g])
          /\ ChunkOf(g).universe = session[g].universe
      BY <1>a, ChunkType DEF Contents
    <3> QED
      BY <1>a, <3>1, <3>2 DEF ChunksAgree, Agreed, UniverseInv
  <2> QED
    BY <2>1, <2>2 DEF Records, Writes, Turns
<1> QED
  BY <1>3, <1>4, <1>5, <1>6 DEF Agreed

\* A writer that passes the barrier has the new universe and nothing else.
LEMMA RepliesKeepAgreed ==
  ASSUME BaseInv, [Next]_vars, Agreed, NEW g \in Groups, Replies(g)
  PROVE  Agreed'
<1>a. /\ Types /\ WriterInv /\ hand \in [Groups -> Items] /\ label \in [Groups -> Nat]
      /\ UNCHANGED <<svc, target, universe, under, place, queue, session, published>>
      /\ session[g] = NoSession /\ hand'[g] = NoItem
      /\ \A h \in Groups \ {g} : hand'[h] = hand[h] /\ label'[h] = label[h]
  BY DEF BaseInv, Types, WriterInv, Replies, Outside
<1>e. Rotating' <=> Rotating
  BY <1>a DEF Rotating
<1>f. NoItem.kind # "rotate" /\ \A e \in All : NoItem # EventItem(e)
  BY ItemKinds, EventItems
<1>1. ASSUME NEW h \in Groups, NEW e \in All, (Queued(h, e) \/ hand[h] = EventItem(e))'
      PROVE  under[e] = universe
  <2>1. Queued(h, e) \/ hand[h] = EventItem(e)
    BY <1>1, <1>a, <1>f DEF Queued
  <2> QED
    BY <2>1 DEF Agreed, UniverseInv
<1>2. CASE hand[g] = StopItem
  <2>1. UNCHANGED <<label, replies>>
    BY <1>2, ItemKinds DEF Replies
  <2>2. UniverseInv'
    BY <1>1, <1>a, <1>e, <2>1 DEF Agreed, UniverseInv
  <2>3. \A h \in Groups : hand'[h] = hand[h] \/ hand'[h] = NoItem
    BY <1>a
  <2>4. BarrierInv'
    BY <1>a, <1>e, <1>f, <2>1, <2>3 DEF Agreed, BarrierInv
  <2> QED
    BY <1>a, <2>2, <2>4, ChunksStayAgreed DEF Agreed, TargetInv
<1>3. CASE hand[g] # StopItem
  <2>1. PICK u \in Nat : hand[g] = RotateItem(u) /\ label' = [label EXCEPT ![g] = u]
    BY <1>3 DEF Replies
  <2>2. replies' = replies \cup {g} /\ label'[g] = u
    BY <1>3, <1>a, <2>1 DEF Replies
  <2>3. hand[g].kind = "rotate" /\ hand[g].universe = u
    BY <2>1, ItemKinds
  <2>4. /\ Rotating /\ g \notin replies /\ u = target
        /\ \A i \in 1 .. Len(queue[g]) : queue[g][i].kind # "rotate"
        /\ svc = "rotate1" => queue[g] = <<>>
    BY <2>3 DEF Agreed, BarrierInv
  <2>5. UniverseInv'
    <3>1. ASSUME NEW h \in Groups
          PROVE  /\ label'[h] = IF Rotating' /\ h \in replies' THEN target ELSE universe
                 /\ session[h] # NoSession => session[h].universe = label'[h]
                 /\ \A e \in Contents(session[h]) : under[e] = session[h].universe
      BY <1>a, <1>e, <2>2, <2>4 DEF Agreed, UniverseInv
    <3> QED
      BY <1>1, <1>a, <3>1 DEF UniverseInv
  <2>6. BarrierInv'
    <3>1. ASSUME NEW h \in Groups
          PROVE  /\ hand'[h].kind = "rotate" =>
                      /\ Rotating' /\ h \notin replies' /\ hand'[h].universe = target
                      /\ \A i \in 1 .. Len(queue[h]) : queue[h][i].kind # "rotate"
                      /\ svc = "rotate1" => queue[h] = <<>>
                 /\ \A i \in 1 .. Len(queue[h]) : queue[h][i].kind = "rotate" =>
                      /\ Rotating' /\ h \notin replies' /\ queue[h][i].universe = target
                      /\ \A j \in 1 .. Len(queue[h]) : queue[h][j].kind = "rotate" => j = i
                      /\ svc = "rotate1" => i = Len(queue[h])
                 /\ svc = "rotate1" /\ h \in replies' =>
                      queue[h] = <<>> /\ hand'[h] = NoItem /\ session[h] = NoSession
      <4>1. CASE h = g
        BY <1>a, <1>f, <2>4, <4>1
      <4>2. CASE h # g
        <5>1. hand'[h] = hand[h] /\ (h \in replies' <=> h \in replies)
          BY <1>a, <2>2, <4>2
        <5> QED
          BY <1>e, <5>1 DEF Agreed, BarrierInv
      <4> QED
        BY <4>1, <4>2
    <3> QED
      BY <1>a, <3>1 DEF BarrierInv
  <2> QED
    BY <1>a, <2>5, <2>6, ChunksStayAgreed DEF Agreed, TargetInv
<1> QED
  BY <1>2, <1>3

LEMMA LabelInductive == BaseInv /\ LabelInv /\ [Next]_vars => LabelInv'
<1> SUFFICES ASSUME BaseInv, LabelInv, [Next]_vars, ~Torn' PROVE Agreed'
  BY LoopInductive DEF LabelInv
<1>a. ~Torn /\ Agreed /\ LoopInv /\ Types /\ MarksInv
  BY TornStays DEF LabelInv, BaseInv
<1>b. ASSUME UNCHANGED <<queue, hand, session, label, published, under, universe, svc, target, replies>>,
             \A e \in All : place'[e] = "woken" => place[e] = "woken"
      PROVE  Agreed'
  <2>1. \A g \in Groups, e \in All : Queued(g, e)' <=> Queued(g, e)
    BY <1>b DEF Queued
  <2>2. UniverseInv'
    BY <1>a, <1>b, <2>1 DEF UniverseInv, Agreed, Rotating
  <2>3. BarrierInv'
    BY <1>a, <1>b DEF BarrierInv, Agreed, Rotating
  <2>4. TargetInv'
    BY <1>a, <1>b DEF TargetInv, Agreed
  <2> QED
    BY <1>a, <1>b, <2>2, <2>3, <2>4, ChunksStayAgreed DEF Agreed
<1>1. CASE Sources \/ Admission
  <2>1. /\ UNCHANGED <<svc, universe, target, replies>>
        /\ \A e \in All : place'[e] = "woken" => place[e] = "woken"
    BY <1>1, SourceMoves
  <2>2. CASE Quiet
    BY <1>b, <2>1, <2>2 DEF Quiet
  <2>3. ASSUME NEW e \in Events, NEW t, Admits(e, t), accepting \/ place[e] = "woken"
        PROVE  Agreed'
    <3>1. e \in All
      BY DEF All
    <3>2. svc # "rotate1"
      BY <1>a, <2>3, <3>1 DEF LoopInv, Rotating, Agreed, TargetInv
    <3> QED
      BY <1>a, <2>1, <2>3, <3>1, <3>2, AdmitKeepsAgreed
  <2> QED
    BY <1>1, <1>a, <2>2, <2>3, SourceKinds
<1>2. CASE Boundary \/ Shutdown \/ Stop \/ Tick
  BY <1>2, <1>a, ServiceKeepsAgreed
<1>3. ASSUME NEW g \in Groups, Step(g) \/ DiskError(g) PROVE Agreed'
  BY <1>3, <1>a, WriterKinds, TakesKeepsAgreed, WritesKeepAgreed, RepliesKeepAgreed
<1>4. CASE UNCHANGED vars
  BY <1>4, <1>b DEF vars
<1> QED
  BY <1>1, <1>2, <1>3, <1>4 DEF Next

\* Every chunk is of one day and, unless a rotation was cut short, of the
\* universe under which its events were admitted, whatever is held at the
\* barriers and whichever writer is slow.
THEOREM ChunksKeepTheirContract == Spec => []ChunkKeepsContract
<1>1. Init => BaseInv /\ SessionInv /\ LabelInv
  <2> SUFFICES ASSUME Init PROVE SessionInv /\ LabelInv
    BY BaseInitially
  <2>1. \A g \in Groups, e \in All : ~Queued(g, e) /\ hand[g] # EventItem(e)
    BY EventItems DEF Init, Queued, Has
  <2>2. SessionInv
    BY NoSessionIsEmpty DEF Init, SessionInv
  <2>3. LoopInv
    BY DEF Init, LoopInv, Rotating
  <2>4. Agreed
    BY <2>1, ItemKinds, NoSessionIsEmpty DEF Init, Agreed, UniverseInv, BarrierInv, TargetInv,
       ChunksAgree, Rotating
  <2> QED
    BY <2>2, <2>3, <2>4 DEF LabelInv
<1>2. SessionInv /\ LabelInv => ChunkKeepsContract
  BY DEF SessionInv, LabelInv, Agreed, ChunksAgree, ChunkKeepsContract
<1> QED
  BY <1>1, <1>2, BaseInductive, SessionInductive, LabelInductive, PTL DEF Spec

(***************************************************************************)
(* The watermark.                                                          *)
(***************************************************************************)

LEMMA MarkedInductive == BaseInv /\ MarkedInv /\ [Next]_vars => MarkedInv'
<1> SUFFICES ASSUME BaseInv, MarkedInv, [Next]_vars PROVE MarkedInv'
  OBVIOUS
<1>1. CASE UNCHANGED watermark
  BY <1>1, AdmittedStay DEF MarkedInv
<1>2. ASSUME NEW g \in Groups, Records(g) PROVE MarkedInv'
  <2>1. /\ session[g].written \subseteq All
        /\ \A e \in session[g].written : place[e] = "admitted" /\ Group(e) = g
    BY DEF BaseInv, WhereInv, Carried, Contents, Types, Session
  <2>2. /\ \A h \in Groups \ {g} : watermark'[h] = watermark[h]
        /\ watermark'[g] = watermark[g] \/ \E e \in session[g].written : watermark'[g] = stamp[e]
    BY <1>2, <2>1, WatermarkEffect DEF Records, BaseInv
  <2>3. UNCHANGED <<stamp, place>>
    BY <1>2 DEF Records, Outside
  <2> QED
    BY <2>1, <2>2, <2>3 DEF MarkedInv
<1>3. CASE Quiet \/ Rotates \/ StopWriters \/ \E e \in All, t \in 0 .. now : Admits(e, t)
  BY <1>1, <1>3 DEF Quiet, Rotates, StopWriters, Admits
<1>4. ASSUME NEW g \in Groups, Step(g) \/ DiskError(g) PROVE MarkedInv'
  BY <1>1, <1>2, <1>4, WriterKinds DEF Takes, Writes, Replies, Turns, Publish, BaseInv
<1> QED
  BY <1>3, <1>4, Kinds DEF BaseInv

\* A step that moves no event keeps the order.
LEMMA StillKeepsOrder ==
  ASSUME BaseInv, OrderInv, [Next]_vars, overtaken' = overtaken, watermark' = watermark,
         \A g \in Groups, o \in All : hand'[g] = EventItem(o) <=> hand[g] = EventItem(o),
         \A g \in Groups : Contents(session'[g]) = Contents(session[g]),
         \A g \in Groups, o \in All : \A i \in 1 .. Len(queue'[g]) : queue'[g][i] = EventItem(o) =>
           i \in 1 .. Len(queue[g]) /\ queue[g][i] = EventItem(o)
  PROVE  OrderInv'
<1>a. \A g \in Groups, o \in All : Queued(g, o)' => Queued(g, o)
  BY DEF Queued, Has
<1>b. \A g \in Groups, o \in All : Queued(g, o) \/ Carried(g, o) => stamp'[o] = stamp[o]
  BY AdmittedStay DEF BaseInv, WhereInv
<1>c. \A g \in Groups : Contents(session[g]) \subseteq All
  BY KeptAreAdmitted
<1>1. ASSUME NEW g \in Groups, NEW o \in All \ overtaken', (Queued(g, o) \/ Carried(g, o))'
      PROVE  watermark'[g] <= stamp'[o]
  <2>1. Queued(g, o) \/ Carried(g, o)
    BY <1>1, <1>a DEF Carried
  <2> QED
    BY <1>b, <2>1 DEF OrderInv
<1>2. ASSUME NEW g \in Groups, NEW o \in All \ overtaken', (Queued(g, o) \/ hand[g] = EventItem(o))',
             NEW p \in Contents(session'[g])
      PROVE  stamp'[p] <= stamp'[o]
  <2>1. (Queued(g, o) \/ hand[g] = EventItem(o)) /\ p \in Contents(session[g]) /\ p \in All
    BY <1>2, <1>a, <1>c
  <2>2. stamp'[p] = stamp[p] /\ stamp'[o] = stamp[o]
    BY <1>b, <2>1 DEF Carried
  <2> QED
    BY <2>1, <2>2 DEF OrderInv
<1>3. ASSUME NEW g \in Groups, NEW o \in All \ overtaken', Queued(g, o)', NEW p \in All,
             hand'[g] = EventItem(p)
      PROVE  stamp'[p] <= stamp'[o]
  <2>1. Queued(g, o) /\ hand[g] = EventItem(p)
    BY <1>3, <1>a
  <2>2. stamp'[p] = stamp[p] /\ stamp'[o] = stamp[o]
    BY <1>b, <2>1 DEF Carried
  <2> QED
    BY <2>1, <2>2 DEF OrderInv
<1>4. ASSUME NEW g \in Groups, NEW o \in All \ overtaken', NEW i \in 1 .. Len(queue'[g]),
             NEW j \in 1 .. Len(queue'[g]), NEW p \in All, j < i, queue'[g][i] = EventItem(o),
             queue'[g][j] = EventItem(p)
      PROVE  stamp'[p] <= stamp'[o]
  <2>1. /\ i \in 1 .. Len(queue[g]) /\ queue[g][i] = EventItem(o)
        /\ j \in 1 .. Len(queue[g]) /\ queue[g][j] = EventItem(p)
    BY <1>4
  <2>2. stamp'[p] = stamp[p] /\ stamp'[o] = stamp[o]
    BY <1>b, <2>1 DEF Queued, Has
  <2> QED
    BY <1>4, <2>1, <2>2 DEF OrderInv
<1> QED
  BY <1>1, <1>2, <1>3, <1>4 DEF OrderInv

\* A control item comes last and is no event.
LEMMA ControlKeepsOrder ==
  ASSUME BaseInv, OrderInv, [Next]_vars, Rotates \/ StopWriters PROVE OrderInv'
<1>a. Types /\ UNCHANGED <<stamp, overtaken, watermark, hand, session>>
      /\ queue \in [Groups -> Seq(Items)]
  BY DEF BaseInv, Types, Rotates, StopWriters
<1>1. ASSUME NEW g \in Groups, NEW o \in All, NEW i \in 1 .. Len(queue'[g]),
             queue'[g][i] = EventItem(o)
      PROVE  i \in 1 .. Len(queue[g]) /\ queue[g][i] = EventItem(o)
  <2>1. CASE queue'[g] = queue[g]
    BY <1>1, <2>1
  <2>2. ASSUME NEW x \in Items, queue'[g] = Append(queue[g], x), x # EventItem(o)
        PROVE  i \in 1 .. Len(queue[g]) /\ queue[g][i] = EventItem(o)
    <3>1. /\ Len(queue[g]) \in Nat /\ Len(queue'[g]) = Len(queue[g]) + 1
          /\ queue'[g][Len(queue[g]) + 1] = x
          /\ \A j \in 1 .. Len(queue[g]) : queue'[g][j] = queue[g][j]
      BY <1>a, <2>2, AppendProperties
    <3>2. i # Len(queue[g]) + 1
      BY <1>1, <2>2, <3>1
    <3> QED
      BY <1>1, <3>1, <3>2
  <2>3. CASE Rotates
    BY <2>2, <2>3, ItemKinds, EventItems DEF Rotates, BeginRotation
  <2>4. CASE StopWriters
    BY <2>1, <2>2, <2>4, ItemKinds, EventItems DEF StopWriters
  <2> QED
    BY <2>3, <2>4
<1> QED
  BY <1>1, <1>a, StillKeepsOrder

\* An event that is not overtaken comes behind all of its group.
LEMMA AdmitKeepsOrder ==
  ASSUME BaseInv, MarkedInv, OrderInv, [Next]_vars, NEW e \in All, NEW t \in 0 .. now, Admits(e, t)
  PROVE  OrderInv'
<1>a. /\ Types /\ UNCHANGED <<watermark, hand, session>> /\ place[e] # "admitted"
      /\ queue \in [Groups -> Seq(Items)] /\ stamp'[e] = t /\ t \in Nat
      /\ EventItem(e) \in Items /\ Group(e) \in Groups /\ stamp \in [All -> Int]
      /\ overtaken \subseteq overtaken'
  BY ItemKinds, GroupOfEvent DEF BaseInv, Types, Admits
<1>b. \A o \in All : place[o] = "admitted" => stamp'[o] = stamp[o] /\ o # e
  BY <1>a, AdmittedStay
<1>c. e \notin overtaken' => \A o \in All : Group(o) = Group(e) /\ place[o] = "admitted" =>
                               stamp[o] <= t
  BY <1>a DEF Admits
<1>d. \A g \in Groups, o \in All :
        /\ Queued(g, o)' <=> Queued(g, o) \/ (g = Group(e) /\ o = e)
        /\ Carried(g, o)' <=> Carried(g, o)
        /\ Queued(g, o) \/ Carried(g, o) => place[o] = "admitted" /\ Group(o) = g
  BY <1>a, AdmitsFlow DEF BaseInv, WhereInv
<1>e. \A g \in Groups : Contents(session[g]) \subseteq All
  BY KeptAreAdmitted
<1>1. ASSUME NEW g \in Groups, NEW o \in All \ overtaken', (Queued(g, o) \/ Carried(g, o))'
      PROVE  watermark[g] <= stamp'[o]
  <2>1. CASE o = e
    <3>1. g = Group(e)
      BY <1>1, <1>a, <1>d, <2>1
    <3>2. watermark[g] = -1 \/ watermark[g] <= t
      BY <1>c, <2>1, <3>1 DEF MarkedInv
    <3> QED
      BY <1>a, <2>1, <3>2
  <2>2. CASE o # e
    <3>1. o \notin overtaken /\ (Queued(g, o) \/ Carried(g, o)) /\ stamp'[o] = stamp[o]
      BY <1>1, <1>a, <1>b, <1>d, <2>2
    <3> QED
      BY <3>1 DEF OrderInv
  <2> QED
    BY <2>1, <2>2
<1>2. ASSUME NEW g \in Groups, NEW o \in All \ overtaken', (Queued(g, o) \/ hand[g] = EventItem(o))',
             NEW p \in Contents(session[g])
      PROVE  stamp'[p] <= stamp'[o]
  <2>1. p \in All /\ place[p] = "admitted" /\ Group(p) = g /\ stamp'[p] = stamp[p]
    BY <1>b, <1>d, <1>e DEF Carried
  <2>2. CASE o = e
    <3>1. g = Group(e)
      BY <1>2, <1>a, <1>d, <2>2 DEF Carried
    <3> QED
      BY <1>a, <1>c, <2>1, <2>2, <3>1
  <2>3. CASE o # e
    <3>1. o \notin overtaken /\ (Queued(g, o) \/ hand[g] = EventItem(o)) /\ stamp'[o] = stamp[o]
      BY <1>2, <1>a, <1>b, <1>d, <2>3 DEF Carried
    <3> QED
      BY <2>1, <3>1 DEF OrderInv
  <2> QED
    BY <2>2, <2>3
<1>3. ASSUME NEW g \in Groups, NEW o \in All \ overtaken', Queued(g, o)', NEW p \in All,
             hand[g] = EventItem(p)
      PROVE  stamp'[p] <= stamp'[o]
  <2>1. place[p] = "admitted" /\ Group(p) = g /\ stamp'[p] = stamp[p]
    BY <1>3, <1>b, <1>d DEF Carried
  <2>2. CASE o = e
    <3>1. g = Group(e)
      BY <1>3, <1>a, <1>d, <2>2
    <3> QED
      BY <1>a, <1>c, <2>1, <2>2, <3>1
  <2>3. CASE o # e
    <3>1. o \notin overtaken /\ Queued(g, o) /\ stamp'[o] = stamp[o]
      BY <1>3, <1>a, <1>b, <1>d, <2>3
    <3> QED
      BY <1>3, <2>1, <3>1 DEF OrderInv
  <2> QED
    BY <2>2, <2>3
<1>4. ASSUME NEW g \in Groups, NEW o \in All \ overtaken', NEW i \in 1 .. Len(queue'[g]),
             NEW j \in 1 .. Len(queue'[g]), NEW p \in All, j < i, queue'[g][i] = EventItem(o),
             queue'[g][j] = EventItem(p)
      PROVE  stamp'[p] <= stamp'[o]
  <2>1. \/ queue'[g] = queue[g]
        \/ g = Group(e) /\ queue'[g] = Append(queue[g], EventItem(e))
    BY <1>a DEF Admits
  <2>2. /\ j \in 1 .. Len(queue[g]) /\ queue[g][j] = EventItem(p)
        /\ \/ i \in 1 .. Len(queue[g]) /\ queue[g][i] = EventItem(o)
           \/ g = Group(e) /\ o = e
    <3>1. CASE queue'[g] = queue[g]
      BY <1>4, <3>1
    <3>2. CASE g = Group(e) /\ queue'[g] = Append(queue[g], EventItem(e))
      <4>1. /\ Len(queue[g]) \in Nat /\ Len(queue'[g]) = Len(queue[g]) + 1
            /\ queue'[g][Len(queue[g]) + 1] = EventItem(e)
            /\ \A k \in 1 .. Len(queue[g]) : queue'[g][k] = queue[g][k]
        BY <1>a, <3>2, AppendProperties
      <4>2. j \in 1 .. Len(queue[g]) /\ (i = Len(queue[g]) + 1 \/ i \in 1 .. Len(queue[g]))
        BY <1>4, <4>1
      <4>3. i = Len(queue[g]) + 1 => o = e
        BY <1>4, <4>1, EventItems
      <4> QED
        BY <1>4, <3>2, <4>1, <4>2, <4>3
    <3> QED
      BY <2>1, <3>1, <3>2
  <2>3. Queued(g, p)
    BY <2>2 DEF Queued, Has
  <2>4. place[p] = "admitted" /\ Group(p) = g /\ stamp'[p] = stamp[p]
    BY <1>b, <1>d, <2>3
  <2>5. CASE g = Group(e) /\ o = e
    BY <1>a, <1>c, <2>4, <2>5
  <2>6. CASE i \in 1 .. Len(queue[g]) /\ queue[g][i] = EventItem(o)
    <3>1. Queued(g, o)
      BY <2>6 DEF Queued, Has
    <3>2. o \notin overtaken /\ stamp'[o] = stamp[o]
      BY <1>4, <1>a, <1>b, <1>d, <3>1
    <3> QED
      BY <1>4, <2>2, <2>4, <2>6, <3>2 DEF OrderInv
  <2> QED
    BY <2>2, <2>5, <2>6
<1> QED
  BY <1>1, <1>2, <1>3, <1>4, <1>a DEF OrderInv

\* The head of the queue comes behind the session and before the rest.
LEMMA TakesKeepsOrder ==
  ASSUME BaseInv, OrderInv, NEW g \in Groups, Takes(g, Head(queue[g])) PROVE OrderInv'
<1> DEFINE q == queue[g]
<1>a. /\ Types /\ WriterInv /\ UNCHANGED <<stamp, overtaken, watermark>>
      /\ q \in Seq(Items) /\ q # <<>> /\ hand[g] = NoItem
      /\ queue'[g] = Tail(q) /\ \A h \in Groups \ {g} : queue'[h] = queue[h]
  BY DEF BaseInv, Types, WriterInv, Takes, Outside
<1>b. \A h \in Groups \ {g} : session'[h] = session[h] /\ hand'[h] = hand[h]
  BY DEF BaseInv, Types, Takes, Added
<1>c. /\ Head(q) = q[1] /\ Len(q) \in Nat \ {0} /\ Len(Tail(q)) = Len(q) - 1
      /\ \A i \in 1 .. Len(Tail(q)) : Tail(q)[i] = q[i + 1] /\ i + 1 \in 1 .. Len(q)
  BY <1>a, QueueTail
<1>d. \A o \in All : /\ Queued(g, o) <=> Queued(g, o)' \/ Head(q) = EventItem(o)
                     /\ Carried(g, o)' <=> Carried(g, o) \/ Head(q) = EventItem(o)
  BY <1>a, TakesFlow
<1>e. \A o \in All : /\ hand'[g] = EventItem(o) => Head(q) = EventItem(o)
                     /\ o \in Contents(session'[g]) =>
                          \/ o \in Contents(session[g])
                          \/ Head(q) = EventItem(o) /\ hand'[g] = NoItem
  <2>1. CASE \E e \in All, new \in Session :
               Head(q) = EventItem(e) /\ Added(g, session[g], e, new)
    <3>1. PICK e \in All, new \in Session : Head(q) = EventItem(e) /\ Added(g, session[g], e, new)
      BY <2>1
    <3>2. Contents(session'[g]) = Contents(session[g]) \cup {e} /\ hand'[g] = NoItem
      BY <1>a, <3>1 DEF Added, Types
    <3> QED
      BY <3>1, <3>2, EventItems
  <2>2. CASE hand' = [hand EXCEPT ![g] = Head(q)] /\ UNCHANGED session
    BY <1>a, <2>2 DEF Types
  <2> QED
    BY <2>1, <2>2 DEF Takes
<1>f. Contents(session'[g]) \subseteq All
  <2>1. session'[g] \in Session
    BY <1>a DEF Takes, Added, Types
  <2> QED
    BY <2>1 DEF Session, Contents
<1>g. ASSUME NEW o \in All \ overtaken, Queued(g, o)', NEW p \in All, Head(q) = EventItem(p)
      PROVE  stamp[p] <= stamp[o]
  <2>1. PICK i \in 1 .. Len(Tail(q)) : Tail(q)[i] = EventItem(o)
    BY <1>a, <1>g DEF Queued, Has
  <2>2. i + 1 \in 1 .. Len(q) /\ 1 \in 1 .. Len(q) /\ 1 < i + 1
    BY <1>c
  <2>3. q[i + 1] = EventItem(o) /\ q[1] = EventItem(p)
    BY <1>c, <1>g, <2>1
  <2> QED
    BY <2>2, <2>3 DEF OrderInv
<1> HIDE DEF q
<1>1. ASSUME NEW h \in Groups, NEW o \in All \ overtaken', (Queued(h, o) \/ Carried(h, o))'
      PROVE  watermark'[h] <= stamp'[o]
  <2>1. Queued(h, o) \/ Carried(h, o)
    BY <1>1, <1>a, <1>b, <1>d DEF Queued, Carried
  <2> QED
    BY <1>a, <2>1 DEF OrderInv
<1>2. ASSUME NEW h \in Groups, NEW o \in All \ overtaken', (Queued(h, o) \/ hand[h] = EventItem(o))',
             NEW p \in Contents(session'[h])
      PROVE  stamp'[p] <= stamp'[o]
  <2>1. CASE h # g
    BY <1>2, <1>a, <1>b, <2>1 DEF OrderInv, Queued
  <2>2. CASE h = g
    <3>1. p \in All /\ Queued(g, o)
      BY <1>2, <1>d, <1>e, <1>f, <2>2
    <3>2. CASE p \in Contents(session[g])
      BY <1>a, <3>1, <3>2 DEF OrderInv
    <3>3. CASE Head(q) = EventItem(p) /\ hand'[g] = NoItem
      <4>1. Queued(g, o)'
        BY <1>2, <2>2, <3>3, EventItems
      <4> QED
        BY <1>a, <1>g, <3>1, <3>3, <4>1
    <3> QED
      BY <1>2, <1>e, <2>2, <3>1, <3>2, <3>3
  <2> QED
    BY <2>1, <2>2
<1>3. ASSUME NEW h \in Groups, NEW o \in All \ overtaken', Queued(h, o)', NEW p \in All,
             hand'[h] = EventItem(p)
      PROVE  stamp'[p] <= stamp'[o]
  <2>1. CASE h # g
    BY <1>3, <1>a, <1>b, <2>1 DEF OrderInv, Queued
  <2>2. CASE h = g
    BY <1>3, <1>a, <1>e, <1>g, <2>2
  <2> QED
    BY <2>1, <2>2
<1>4. ASSUME NEW h \in Groups, NEW o \in All \ overtaken', NEW i \in 1 .. Len(queue'[h]),
             NEW j \in 1 .. Len(queue'[h]), NEW p \in All, j < i, queue'[h][i] = EventItem(o),
             queue'[h][j] = EventItem(p)
      PROVE  stamp'[p] <= stamp'[o]
  <2>1. CASE h # g
    BY <1>4, <1>a, <2>1 DEF OrderInv
  <2>2. CASE h = g
    <3>1. i \in 1 .. Len(Tail(q)) /\ j \in 1 .. Len(Tail(q))
      BY <1>4, <1>a, <2>2
    <3>2. i + 1 \in 1 .. Len(q) /\ j + 1 \in 1 .. Len(q) /\ j + 1 < i + 1
      BY <1>4, <1>c, <3>1
    <3>3. q[i + 1] = EventItem(o) /\ q[j + 1] = EventItem(p)
      BY <1>4, <1>a, <1>c, <2>2, <3>1
    <3> QED
      BY <1>a, <3>2, <3>3 DEF OrderInv, q
  <2> QED
    BY <2>1, <2>2
<1> QED
  BY <1>1, <1>2, <1>3, <1>4 DEF OrderInv

\* What is recorded comes before what the writer has left.
LEMMA RecordsKeepOrder ==
  ASSUME BaseInv, OrderInv, NEW g \in Groups, Records(g) PROVE OrderInv'
<1>a. /\ Types /\ WriterInv /\ UNCHANGED <<stamp, overtaken, queue>>
      /\ watermark' = Watermark(g, ChunkOf(g))
  BY DEF BaseInv, Records, Outside
<1>b. \A h \in Groups \ {g} : session'[h] = session[h] /\ hand'[h] = hand[h]
  BY DEF BaseInv, Types, Records, Added
<1>c. \A e \in session[g].written : place[e] = "admitted"
  BY KeptAreAdmitted DEF Contents
<1>d. /\ \A h \in Groups \ {g} : watermark'[h] = watermark[h]
      /\ watermark'[g] = watermark[g] \/ \E e \in session[g].written : watermark'[g] = stamp[e]
  BY <1>a, <1>c, WatermarkEffect
<1>e. /\ Contents(session[g]) = session[g].written
      /\ \A o \in All : Carried(g, o)' <=> hand[g] = EventItem(o)
  BY <1>a, RecordsFlow
<1>f. /\ \A o \in All : hand'[g] # EventItem(o) /\ (o \in Contents(session'[g]) =>
                                                      hand[g] = EventItem(o))
      /\ Contents(session'[g]) \subseteq All
  <2>1. CASE \E e \in All, new \in Session : hand[g] = EventItem(e) /\ Added(g, NoSession, e, new)
    <3>1. PICK e \in All, new \in Session : hand[g] = EventItem(e) /\ Added(g, NoSession, e, new)
      BY <2>1
    <3>2. Contents(session'[g]) = {e} /\ hand'[g] = NoItem
      BY <1>a, <3>1, NoSessionIsEmpty DEF Added, Types
    <3> QED
      BY <3>1, <3>2, EventItems
  <2>2. CASE /\ hand[g].kind # "event" /\ UNCHANGED hand
             /\ session' = [session EXCEPT ![g] = NoSession]
    BY <1>a, <2>2, ItemKinds, NoSessionIsEmpty DEF Types
  <2> QED
    BY <2>1, <2>2 DEF Records
<1>1. ASSUME NEW h \in Groups, NEW o \in All \ overtaken', (Queued(h, o) \/ Carried(h, o))'
      PROVE  watermark'[h] <= stamp'[o]
  <2>1. CASE h # g
    BY <1>1, <1>a, <1>b, <1>d, <2>1 DEF OrderInv, Queued, Carried
  <2>2. CASE h = g
    <3>1. Queued(g, o) \/ hand[g] = EventItem(o)
      BY <1>1, <1>a, <1>e, <2>2 DEF Queued
    <3>2. watermark[g] <= stamp[o] /\ \A p \in Contents(session[g]) : stamp[p] <= stamp[o]
      BY <1>a, <3>1 DEF OrderInv, Carried
    <3> QED
      BY <1>a, <1>d, <1>e, <2>2, <3>2
  <2> QED
    BY <2>1, <2>2
<1>2. ASSUME NEW h \in Groups, NEW o \in All \ overtaken', (Queued(h, o) \/ hand[h] = EventItem(o))',
             NEW p \in Contents(session'[h])
      PROVE  stamp'[p] <= stamp'[o]
  <2>1. CASE h # g
    BY <1>2, <1>a, <1>b, <2>1 DEF OrderInv, Queued
  <2>2. CASE h = g
    <3>1. p \in All /\ hand[g] = EventItem(p) /\ Queued(g, o)
      BY <1>2, <1>a, <1>f, <2>2 DEF Queued
    <3> QED
      BY <1>a, <2>2, <3>1 DEF OrderInv
  <2> QED
    BY <2>1, <2>2
<1>3. ASSUME NEW h \in Groups, NEW o \in All \ overtaken', Queued(h, o)', NEW p \in All,
             hand'[h] = EventItem(p)
      PROVE  stamp'[p] <= stamp'[o]
  BY <1>3, <1>a, <1>b, <1>f DEF OrderInv, Queued
<1>4. ASSUME NEW h \in Groups, NEW o \in All \ overtaken', NEW i \in 1 .. Len(queue'[h]),
             NEW j \in 1 .. Len(queue'[h]), NEW p \in All, j < i, queue'[h][i] = EventItem(o),
             queue'[h][j] = EventItem(p)
      PROVE  stamp'[p] <= stamp'[o]
  BY <1>4, <1>a DEF OrderInv
<1> QED
  BY <1>1, <1>2, <1>3, <1>4 DEF OrderInv

LEMMA OrderInductive == BaseInv /\ MarkedInv /\ OrderInv /\ [Next]_vars => OrderInv'
<1> SUFFICES ASSUME BaseInv, MarkedInv, OrderInv, [Next]_vars PROVE OrderInv'
  OBVIOUS
<1>a. Types /\ MarksInv /\ WriterInv
  BY DEF BaseInv
<1>1. CASE Quiet
  BY <1>1, StillKeepsOrder DEF Quiet
<1>2. CASE Rotates \/ StopWriters
  BY <1>2, ControlKeepsOrder
<1>3. ASSUME NEW e \in All, NEW t \in 0 .. now, Admits(e, t) PROVE OrderInv'
  BY <1>3, AdmitKeepsOrder
<1>4. ASSUME NEW g \in Groups, Step(g) \/ DiskError(g) PROVE OrderInv'
  <2>1. CASE Takes(g, Head(queue[g]))
    BY <2>1, TakesKeepsOrder
  <2>2. CASE Records(g)
    BY <2>2, RecordsKeepOrder
  <2>3. CASE Writes(g) \/ Replies(g) \/ Turns(g) \/ Publish(g)
    <3>1. UNCHANGED <<queue, overtaken, watermark>>
      BY <2>3 DEF Writes, Replies, Turns, Publish, Outside
    <3>2. \A h \in Groups : Contents(session'[h]) = Contents(session[h])
      BY <1>a, <2>3 DEF Writes, Replies, Turns, Publish, Types
    <3>3. ASSUME NEW h \in Groups, NEW o \in All
          PROVE  hand'[h] = EventItem(o) <=> hand[h] = EventItem(o)
      BY <1>a, <2>3, EventItems DEF Writes, Replies, Turns, Publish, Types
    <3> QED
      BY <3>1, <3>2, <3>3, StillKeepsOrder
  <2> QED
    BY <1>a, <1>4, <2>1, <2>2, <2>3, WriterKinds
<1> QED
  BY <1>a, <1>1, <1>2, <1>3, <1>4, Kinds

\* What a crash loses lies, unless it was overtaken at its admission, behind
\* the watermark of its own group: the lease's watermark is never ahead of it.
THEOREM WatermarksCoverLosses == Spec => []WatermarkCoversLoss
<1>1. Init => BaseInv /\ MarkedInv /\ OrderInv
  <2> SUFFICES ASSUME Init PROVE MarkedInv /\ OrderInv
    BY BaseInitially
  <2>1. MarkedInv
    BY DEF Init, MarkedInv
  <2>2. \A g \in Groups, e \in All : ~Queued(g, e) /\ ~Carried(g, e)
    BY EventItems, NoSessionIsEmpty DEF Init, Queued, Has, Carried
  <2>3. \A g \in Groups, e \in All : hand[g] # EventItem(e)
    BY EventItems DEF Init
  <2>4. OrderInv
    BY <2>2, <2>3 DEF Init, OrderInv
  <2> QED
    BY <2>1, <2>4
<1>2. BaseInv /\ OrderInv => WatermarkCoversLoss
  <2> SUFFICES ASSUME BaseInv, OrderInv, NEW e \in Admitted \ (Recorded \cup overtaken),
                      Group(e) \in Critical
               PROVE  watermark[Group(e)] <= stamp[e]
    BY DEF WatermarkCoversLoss
  <2>1. e \in All /\ Group(e) \in Groups /\ (Queued(Group(e), e) \/ Carried(Group(e), e))
    BY GroupOfEvent DEF BaseInv, WhereInv, Admitted
  <2> QED
    BY <2>1 DEF OrderInv
<1> QED
  BY <1>1, <1>2, BaseInductive, MarkedInductive, OrderInductive, PTL DEF Spec

(***************************************************************************)
(* The grace period.                                                       *)
(***************************************************************************)

NothingLeft ==
  /\ \A g \in Groups : session[g].day # 0
  /\ \A e \in All : place[e] \in {"stamped", "held", "woken"} => Day(stamp[e]) # 0
  /\ \A g \in Groups, e \in All : Queued(g, e) \/ hand[g] = EventItem(e) => Day(stamp[e]) # 0

LEMMA LeftoverIsNone == ASSUME BaseInv PROVE ~Leftover <=> NothingLeft
<1>1. \A g \in Groups : DOMAIN queue[g] = 1 .. Len(queue[g])
  BY DEF BaseInv, Types
<1>2. \A g \in Groups, e \in All :
        Queued(g, e) <=> \E i \in DOMAIN queue[g] : queue[g][i] = EventItem(e)
  BY <1>1 DEF Queued, Has
<1>3. ASSUME NEW e \in All, place[e] \in {"stamped", "held", "woken"} PROVE stamp[e] # -1
  <2>1. stamp[e] \in 0 .. now
    BY <1>3 DEF BaseInv, Types
  <2> QED
    BY <2>1
<1>4. \A g \in Groups, e \in All : Queued(g, e) \/ hand[g] = EventItem(e) => Group(e) = g
  BY DEF BaseInv, WhereInv, Carried
<1> QED
  BY <1>2, <1>3, <1>4 DEF Leftover, NothingLeft

\* An event is stamped once, with the time of the clock, and before it waits
\* anywhere.
LEMMA StampedOnce ==
  ASSUME BaseInv, [Next]_vars
  PROVE  \A e \in All :
           /\ place[e] # "none" => stamp'[e] = stamp[e]
           /\ place[e] = "none" /\ place'[e] # "none" => stamp'[e] = now
           /\ place'[e] \in {"stamped", "held", "woken"} =>
                place[e] \in {"none", "stamped", "held", "woken"}
<1>a. /\ place \in [All -> Places] /\ stamp \in [All -> Int] /\ Events \subseteq All
      /\ Types /\ MarksInv
  BY DEF BaseInv, Types, All
<1>1. CASE Sources \/ Admission
  <2>1. ASSUME NEW e \in Events, NEW t, Put(e, t) \/ Offer(e, t),
               place[e] \in {"none", "stamped", "woken"}, t = IF place[e] = "none" THEN now ELSE stamp[e]
        PROVE  /\ stamp' = [stamp EXCEPT ![e] = t]
               /\ \E p \in {"admitted", "rejected", "held"} : place' = [place EXCEPT ![e] = p]
    BY <2>1 DEF Put, Offer
  <2>2. ASSUME NEW e \in Events, Receive(e) \/ PutObserved(e) \/ ResumePut(e)
        PROVE  /\ place[e] \in {"none", "stamped", "woken"}
               /\ stamp' = [stamp EXCEPT ![e] = IF place[e] = "none" THEN now ELSE stamp[e]]
               /\ \E p \in {"admitted", "rejected", "held"} : place' = [place EXCEPT ![e] = p]
    BY <2>1, <2>2 DEF Receive, PutObserved, ResumePut
  <2>3. ASSUME NEW e \in Events, Observe(e)
        PROVE  /\ place[e] = "none" /\ stamp' = [stamp EXCEPT ![e] = now]
               /\ place' = [place EXCEPT ![e] = "stamped"]
    BY <2>3 DEF Observe
  <2>4. CASE \E g \in Groups : Resume(g)
    BY <2>4 DEF Resume
  <2>5. CASE \E e \in Events : Receive(e) \/ PutObserved(e) \/ ResumePut(e)
    BY <1>a, <2>2, <2>5
  <2>6. CASE \E e \in Events : Observe(e)
    BY <1>a, <2>3, <2>6
  <2> QED
    BY <1>1, <2>4, <2>5, <2>6 DEF Sources, Admission
<1>2. CASE MarkStart \/ MarkDay
  <2>1. PICK m \in Marks : /\ place[m] = "none" /\ stamp' = [stamp EXCEPT ![m] = now]
                           /\ \E p \in {"admitted", "rejected"} : place' = [place EXCEPT ![m] = p]
    BY <1>2, <1>a DEF MarkStart, MarkDay, Emit, Put, MarksInv, Marks
  <2> QED
    BY <1>a, <2>1 DEF All
<1>3. CASE BootBarrier \/ MidnightBarrier \/ SecondBarrier
  BY <1>3 DEF BootBarrier, MidnightBarrier, SecondBarrier
<1>4. CASE BootDone \/ FirstDone \/ SecondDone \/ RotationRaises \/ Stop
  <2>1. UNCHANGED stamp /\ Reopen
    BY <1>4 DEF BootDone, FirstDone, SecondDone, EndRotation, RotationRaises, Stop
  <2> QED
    BY <1>a, <2>1 DEF Reopen
<1>5. CASE EndGrace \/ SealWritten \/ Tick \/ Down \/ UNCHANGED vars
  BY <1>5 DEF EndGrace, SealWritten, Tick, Down, vars
<1>6. CASE StopWriters
  BY <1>6, <1>a DEF StopWriters
<1>7. ASSUME NEW g \in Groups, Step(g) \/ DiskError(g) PROVE UNCHANGED <<place, stamp>>
  <2>1. UNCHANGED Outside
    BY <1>7, WriterKinds DEF Takes, Records, Writes, Replies, Turns, Publish, BaseInv
  <2> QED
    BY <2>1 DEF Outside
<1> QED
  BY <1>1, <1>2, <1>3, <1>4, <1>5, <1>6, <1>7 DEF Next, Boundary, Shutdown

\* Once nothing of the first day is left, nothing of it comes.
LEMMA NothingComes ==
  ASSUME BaseInv, [Next]_vars, now >= DayLength, NothingLeft
  PROVE  /\ NothingLeft'
         /\ \A c \in published' : c.day = 0 => c \in published
<1>a. Types /\ MarksInv /\ WriterInv /\ now \in Nat /\ Day(now) # 0
  BY DayOfStamp DEF BaseInv, Types
<1>b. \A e \in All : /\ place[e] # "none" => stamp'[e] = stamp[e]
                     /\ place[e] = "none" /\ place'[e] # "none" => stamp'[e] = now
                     /\ place'[e] \in {"stamped", "held", "woken"} =>
                          place[e] \in {"none", "stamped", "held", "woken"}
  BY StampedOnce
<1>1. \A e \in All : place'[e] \in {"stamped", "held", "woken"} => Day(stamp'[e]) # 0
  BY <1>a, <1>b DEF NothingLeft
<1>c. \A g \in Groups, e \in All : Queued(g, e) \/ Carried(g, e) => stamp'[e] = stamp[e]
  BY <1>b DEF BaseInv, WhereInv
<1>2. CASE Quiet \/ Rotates \/ StopWriters
  <2>1. UNCHANGED <<hand, session, published>>
    BY <1>2 DEF Quiet, Rotates, StopWriters
  <2>2. \A g \in Groups, e \in All : Queued(g, e)' <=> Queued(g, e)
    BY <1>2, <1>a, ControlFlow DEF Quiet, Queued
  <2> QED
    BY <1>1, <1>c, <2>1, <2>2 DEF NothingLeft, Carried
<1>3. ASSUME NEW e \in All, NEW t \in 0 .. now, Admits(e, t) PROVE
        NothingLeft' /\ UNCHANGED published
  <2>1. UNCHANGED <<hand, session, published>>
    BY <1>3 DEF Admits
  <2>2. \A g \in Groups, o \in All : Queued(g, o)' => Queued(g, o) \/ o = e
    BY <1>3, <1>a, AdmitsFlow
  <2>3. place[e] \in {"none", "stamped", "woken"} /\ place'[e] = "admitted"
    BY <1>3, <1>a DEF Admits, Types
  <2>4. Day(stamp'[e]) # 0
    BY <1>a, <1>b, <2>3 DEF NothingLeft
  <2> QED
    BY <1>1, <1>c, <2>1, <2>2, <2>4 DEF NothingLeft, Carried
<1>4. ASSUME NEW g \in Groups, Step(g) \/ DiskError(g)
      PROVE  NothingLeft' /\ \A c \in published' : c.day = 0 => c \in published
  <2>a. /\ session \in [Groups -> Session] /\ hand \in [Groups -> Items]
        /\ \A h \in Groups : session[h].day # 0
        /\ \A h \in Groups, e \in All : Queued(h, e) \/ hand[h] = EventItem(e) => Day(stamp[e]) # 0
        /\ NoSession.day # 0
    BY <1>a DEF NothingLeft, Types, NoSession
  <2>b. \A h \in Groups, e \in All : Queued(h, e) \/ hand[h] = EventItem(e) => Day(stamp'[e]) # 0
    BY <1>c, <2>a DEF Carried
  <2>1. CASE Takes(g, Head(queue[g]))
    <3>1. UNCHANGED published
      BY <2>1 DEF Takes
    <3>2. \A h \in Groups, e \in All : Queued(h, e)' => Queued(h, e)
      BY <1>a, <2>1, TakesFlow
    <3>3. \A e \in All : Head(queue[g]) = EventItem(e) => Queued(g, e)
      BY <1>a, <2>1, TakesFlow
    <3>4. CASE \E e \in All, new \in Session :
                 Head(queue[g]) = EventItem(e) /\ Added(g, session[g], e, new)
      <4>1. PICK e \in All, new \in Session :
              Head(queue[g]) = EventItem(e) /\ Added(g, session[g], e, new)
        BY <3>4
      <4>2. Day(stamp[e]) # 0
        BY <2>a, <3>3, <4>1
      <4>3. new.day # 0 /\ session' = [session EXCEPT ![g] = new]
            /\ hand' = [hand EXCEPT ![g] = NoItem]
        BY <2>a, <4>1, <4>2 DEF Added
      <4>4. \A h \in Groups : session'[h].day # 0
        BY <2>a, <4>3
      <4>5. \A h \in Groups, o \in All : hand'[h] = EventItem(o) => hand[h] = EventItem(o)
        BY <2>a, <4>3, EventItems
      <4> QED
        BY <1>1, <2>b, <3>1, <3>2, <4>4, <4>5 DEF NothingLeft
    <3>5. CASE hand' = [hand EXCEPT ![g] = Head(queue[g])] /\ UNCHANGED session
      <4>1. \A h \in Groups, o \in All : hand'[h] = EventItem(o) =>
              hand[h] = EventItem(o) \/ Queued(h, o)
        BY <2>a, <3>3, <3>5
      <4> QED
        BY <1>1, <2>a, <2>b, <3>1, <3>2, <3>5, <4>1 DEF NothingLeft
    <3> QED
      BY <2>1, <3>4, <3>5 DEF Takes
  <2>2. CASE Records(g)
    <3>1. UNCHANGED <<published, queue>>
      BY <2>2 DEF Records
    <3>2. CASE \E e \in All, new \in Session : hand[g] = EventItem(e) /\ Added(g, NoSession, e, new)
      <4>1. PICK e \in All, new \in Session : hand[g] = EventItem(e) /\ Added(g, NoSession, e, new)
        BY <3>2
      <4>2. new.day # 0 /\ session' = [session EXCEPT ![g] = new]
            /\ hand' = [hand EXCEPT ![g] = NoItem]
        BY <2>a, <4>1 DEF Added
      <4>3. \A h \in Groups : session'[h].day # 0
        BY <2>a, <4>2
      <4>4. \A h \in Groups, o \in All : hand'[h] = EventItem(o) => hand[h] = EventItem(o)
        BY <2>a, <4>2, EventItems
      <4> QED
        BY <1>1, <2>b, <3>1, <4>3, <4>4 DEF NothingLeft, Queued
    <3>3. CASE UNCHANGED hand /\ session' = [session EXCEPT ![g] = NoSession]
      <4>1. \A h \in Groups : session'[h].day # 0
        BY <2>a, <3>3
      <4> QED
        BY <1>1, <2>b, <3>1, <3>3, <4>1 DEF NothingLeft, Queued
    <3> QED
      BY <2>2, <3>2, <3>3 DEF Records
  <2>3. CASE Writes(g) \/ Replies(g) \/ Turns(g) \/ Publish(g)
    <3>1. \A h \in Groups : session'[h].day # 0
      BY <2>a, <2>3 DEF Writes, Replies, Turns, Publish
    <3>2. \A h \in Groups, o \in All : hand'[h] = EventItem(o) => hand[h] = EventItem(o)
      BY <2>a, <2>3, EventItems DEF Writes, Replies, Turns, Publish
    <3>3. UNCHANGED queue
      BY <2>3 DEF Writes, Replies, Turns, Publish
    <3>4. \A c \in published' : c \in published \/ c.day = session[g].day
      BY <2>3 DEF Writes, Replies, Turns, Publish, ChunkOf
    <3> QED
      BY <1>1, <2>a, <2>b, <3>1, <3>2, <3>3, <3>4 DEF NothingLeft, Queued
  <2> QED
    BY <1>a, <1>4, <2>1, <2>2, <2>3, WriterKinds
<1> QED
  BY <1>a, <1>2, <1>3, <1>4, Kinds DEF Quiet, Rotates, StopWriters

\* Who moves the clock, the service and the seal.
LEMMA SealKinds ==
  ASSUME Types, [Next]_vars
  PROVE  /\ now' = now \/ now' = now + 1
         /\ svc' \in Behind => svc \in Behind \/ MidnightBarrier
         /\ UNCHANGED <<sealed, inventory, early>> \/ EndGrace \/ SealWritten \/ early'
<1>1. CASE Sources \/ Admission
  BY <1>1 DEF Sources, Admission, Receive, Observe, PutObserved, ResumePut, Resume, Others
<1>2. ASSUME NEW g \in Groups, Step(g) \/ DiskError(g)
      PROVE  UNCHANGED <<now, svc, sealed, inventory, early>>
  <2>1. UNCHANGED Outside
    BY <1>2, WriterKinds DEF Takes, Records, Writes, Replies, Turns, Publish
  <2> QED
    BY <2>1 DEF Outside
<1>3. CASE MarkStart \/ MarkDay \/ BootBarrier \/ MidnightBarrier \/ SecondBarrier
  BY <1>3 DEF MarkStart, MarkDay, Emit, BootBarrier, MidnightBarrier, SecondBarrier, Behind
<1>4. CASE BootDone \/ FirstDone \/ SecondDone \/ RotationRaises
  BY <1>4 DEF BootDone, FirstDone, SecondDone, EndRotation, RotationRaises, Behind
<1>5. CASE EndGrace \/ SealWritten
  BY <1>5 DEF EndGrace, SealWritten, Behind
<1>6. CASE StopWriters \/ Down \/ Stop
  BY <1>6 DEF StopWriters, Down, Stop, Behind
<1>7. CASE Tick \/ UNCHANGED vars
  BY <1>7 DEF Tick, vars
<1> QED
  BY <1>1, <1>2, <1>3, <1>4, <1>5, <1>6, <1>7 DEF Next, Boundary, Shutdown

LEMMA GraceInductive == BaseInv /\ GraceInv /\ [Next]_vars => GraceInv'
<1> SUFFICES ASSUME BaseInv, GraceInv, [Next]_vars PROVE GraceInv'
  OBVIOUS
<1>1. /\ now' = now \/ now' = now + 1
      /\ svc' \in Behind => svc \in Behind \/ MidnightBarrier
      /\ UNCHANGED <<sealed, inventory, early>> \/ EndGrace \/ SealWritten \/ early'
  BY SealKinds DEF BaseInv
<1>a. BaseInv' /\ now \in Nat /\ now' \in Nat /\ now <= now' /\ DayLength \in Nat
  BY <1>1, BaseInductive, PipelineAssumption DEF BaseInv, Types
<1>2. MidnightBarrier => now >= DayLength
  BY <1>a, DayOfStamp DEF MidnightBarrier
<1>3. svc' \in Behind => now' >= DayLength
  BY <1>a, <1>1, <1>2 DEF GraceInv
<1>5. CASE EndGrace
  <2>1. UNCHANGED <<now, published, session, stamp, place, hand, queue>> /\ ~Leftover
        /\ inventory' = {c \in published : c.day = 0} /\ svc = "grace"
    BY <1>5 DEF EndGrace, Seal
  <2>2. ~Leftover'
    BY <2>1 DEF Leftover
  <2>3. now >= DayLength
    BY <2>1 DEF GraceInv, Behind
  <2>4. now' >= DayLength /\ {c \in published' : c.day = 0} \subseteq inventory'
    BY <2>1, <2>3
  <2> QED
    BY <1>3, <2>2, <2>4 DEF GraceInv
<1>6. CASE early'
  BY <1>3, <1>6 DEF GraceInv
<1>7. CASE ~early' /\ (UNCHANGED <<sealed, inventory, early>> \/ SealWritten)
  <2>1. UNCHANGED <<inventory, early>> /\ (sealed' # "open" => sealed # "open")
    BY <1>7 DEF SealWritten
  <2> SUFFICES ASSUME sealed' # "open"
               PROVE  now' >= DayLength /\ ~Leftover' /\ {c \in published' : c.day = 0} \subseteq inventory
    BY <1>3, <2>1 DEF GraceInv
  <2>2. now >= DayLength /\ ~Leftover /\ {c \in published : c.day = 0} \subseteq inventory
    BY <1>7, <2>1 DEF GraceInv
  <2>3. NothingLeft
    BY <2>2, LeftoverIsNone
  <2>4. NothingLeft' /\ \A c \in published' : c.day = 0 => c \in published
    BY <2>2, <2>3, NothingComes
  <2>5. ~Leftover'
    <3>1. (BaseInv => (~Leftover <=> NothingLeft))'
      BY LeftoverIsNone, PTL
    <3> QED
      BY <1>a, <2>4, <3>1
  <2> QED
    BY <1>a, <2>2, <2>4, <2>5
<1> QED
  BY <1>1, <1>5, <1>6, <1>7

\* A day that is sealed behind its grace period lists every chunk of it that
\* there is and that there ever will be.
THEOREM GraceCompletesDays == Spec => []GraceCompletesDay
<1>1. Init => BaseInv /\ GraceInv
  BY BaseInitially DEF Init, GraceInv, Behind
<1>2. GraceInv => GraceCompletesDay
  BY DEF GraceInv, GraceCompletesDay
<1> QED
  BY <1>1, <1>2, BaseInductive, GraceInductive, PTL DEF Spec
=============================================================================

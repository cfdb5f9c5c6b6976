----------------------------- MODULE RouteProofs -----------------------------
(***************************************************************************)
(* Proofs about a route: its subscriptions and its gaps, for any symbols,  *)
(* updates, rotations and faults.                                          *)
(***************************************************************************)
EXTENDS RouteProperties, SequenceTheorems, WellFoundedInduction, TLAPS

Conns == {"cur", "next"}
Tasks == {"update", "refresh", "rotate"}
Phases == {"start", "starting", "overload", "wait", "rotate", "replacing", "overlap", "stopped"}
Numbers == Int
Connections == [st : {"none", "connecting", "up", "dead"}, overload : BOOLEAN,
                keys : SUBSET Symbols, active : SUBSET Symbols, server : SUBSET Symbols,
                trans : BOOLEAN, bridged : BOOLEAN, forgotten : BOOLEAN]
Submissions == [stage : {"none", "put", "queued", "started", "acked", "done", "failed"},
                on : {"none", "cur", "next"}, add : SUBSET Symbols, remove : SUBSET Symbols]
Applications == [on : {"none", "cur", "next"}, step : {"idle", "requests", "snapshots"},
                 add : SUBSET Symbols, remove : SUBSET Symbols]
Updates == [step : {"idle", "lock", "submit", "fresh"}, target : SUBSET Symbols, since : Numbers]
Loops == [step : {"sleep", "found", "lock", "submit", "fresh", "raised", "stopped"},
          keys : SUBSET Symbols, since : Numbers, same : BOOLEAN, failures : Numbers]

Types ==
  /\ now \in Nat /\ phase \in Phases /\ conn \in [Conns -> Connections]
  /\ gap \in Int /\ gap >= -1 /\ gap <= now
  /\ instruments \subseteq Symbols /\ lastEvent \in [Symbols -> Int]
  /\ \A s \in Symbols : lastEvent[s] >= -1 /\ lastEvent[s] <= now
  /\ reconnect \in BOOLEAN /\ lock \in Seq(Tasks)
  /\ sub \in Submissions /\ queue \in {"empty", "live", "stale"} /\ apply \in Applications
  /\ update \in Updates /\ live \in Loops

\* Whoever uses the lock has it, and whoever waits for it is in its queue once.
In(q, x) == \E i \in 1 .. Len(q) : q[i] = x
Distinct(q) == \A i, j \in 1 .. Len(q) : q[i] = q[j] => i = j
LockInv ==
  /\ Distinct(lock)
  /\ In(lock, "update") <=> update.step # "idle"
  /\ In(lock, "refresh") <=> live.step \in {"lock", "submit"}
  /\ In(lock, "rotate") <=> phase \in {"rotate", "replacing", "overlap"}
  /\ update.step \in {"submit", "fresh"} => HasLock("update")
  /\ live.step = "submit" => HasLock("refresh")
  /\ phase \in {"replacing", "overlap"} => HasLock("rotate")

\* Which connections there are in a phase.
ConnInv ==
  /\ phase \in {"start", "starting", "overload", "stopped"} => conn["cur"].st = "none"
  /\ phase \in {"start", "overload", "wait", "rotate", "stopped"} => conn["next"].st = "none"
  /\ conn["cur"].st # "connecting"
  /\ phase = "overlap" => conn["next"].st # "connecting"
  /\ apply.on # "none" => Up(apply.on)

\* An update on its way from its submitter to a connection.
SubInv ==
  /\ sub.on # "none" <=> sub.stage \in {"started", "acked"}
  /\ sub.on # "none" => /\ apply.on = sub.on /\ apply.add = sub.add /\ apply.remove = sub.remove
                        /\ apply.step = IF sub.stage = "started" THEN "requests" ELSE "snapshots"
  /\ queue = "live" <=> sub.stage = "queued"
  /\ sub.stage # "none" <=> update.step = "submit" \/ live.step = "submit"
  /\ update.step = "submit" => sub.add = Added /\ sub.remove = instruments \ update.target
  /\ live.step = "submit" => sub.add = sub.remove
  /\ sub.stage = "done" \/ update.step = "fresh" => apply.on = "none"

Live(c) == conn[c].st \in {"connecting", "up"}
Pardoned(c) == reconnect \/ (c = "cur" /\ conn[c].forgotten)

\* What a connection has subscribed at each step of an update.  An update whose
\* connection was lost behind its confirmation meets a new one with the old
\* instruments, and waits in vain for an event of some key it added.
Subscribed(c) ==
  /\ update.step \in {"idle", "lock"} => instruments \subseteq conn[c].active
  /\ update.step = "submit" /\ sub.stage \in {"put", "queued", "started"} =>
       instruments \subseteq conn[c].active
  /\ update.step = "submit" /\ sub.stage \in {"acked", "done"} =>
       update.target \subseteq conn[c].active
  /\ update.step = "fresh" =>
       \/ update.target \subseteq conn[c].active
       \/ \E s \in Added \ conn[c].server : lastEvent[s] <= update.since
  /\ apply.on = c /\ apply.step = "requests" =>
       \/ apply.add = apply.remove
       \/ update.step = "submit" /\ (sub.on = c \/ sub.stage = "failed")
AgreeInv == \A c \in Conns : Live(c) /\ ~Pardoned(c) => Subscribed(c)

\* A moment of which some instrument has no account.
Open(t) == t \in 0 .. now - 1 /\ \E s \in Instruments : <<s, t>> \notin accounted

KeyInv ==
  /\ instruments # {} /\ \A s \in instruments : lastEvent[s] # None
  /\ update.step # "idle" => update.target # {}
  /\ update.step \in {"submit", "fresh"} => \A s \in Added : lastEvent[s] # None

\* A moment after the last event of every symbol, but for those that an update
\* counts as fresh until they are subscribed.
After(t) ==
  \A s \in Symbols : \/ lastEvent[s] <= t
                     \/ s \in Added /\ update.step = "submit" /\ sub.stage # "done"

\* An open moment lies behind the start of the gap, or without one behind the
\* last events, where the gap will start; then no connection is live.
OutageInv ==
  /\ ~connected \/ phase \in {"rotate", "replacing", "overlap"} => \A t \in Nat : ~Open(t)
  /\ phase \in {"wait", "rotate", "replacing", "overlap"} => gap = None
  /\ conn["next"].trans => gap = None /\ Up("next")
  /\ connected /\ phase \in {"start", "overload"} => gap # None
  /\ connected /\ phase = "starting" /\ conn["next"].st = "connecting" => gap # None
  /\ gap # None => \A t \in Nat : Open(t) => gap <= t
  /\ gap = None => \A t \in Nat : Open(t) => After(t) /\ \A c \in Conns : ~Live(c)
(***************************************************************************)
(* Types.                                                                  *)
(***************************************************************************)

USE DEF runVars, subVars, faultVars, None

LEMMA Values ==
  /\ NoConn \in Connections /\ NoSub \in Submissions /\ NoApply \in Applications
  /\ NoUpdate \in Updates /\ Sleeping \in Loops
  /\ NoConn.st = "none" /\ ~NoConn.trans /\ ~NoConn.forgotten
  /\ NoSub.stage = "none" /\ NoSub.on = "none" /\ NoApply.on = "none" /\ NoApply.step = "idle"
  /\ NoUpdate.step = "idle" /\ Sleeping.step = "sleep"
<1>1. 0 \in Numbers /\ -1 \in Numbers
  BY DEF Numbers
<1> QED
  BY <1>1 DEF NoConn, NoSub, NoApply, NoUpdate, Sleeping, Connections, Submissions, Applications,
     Updates, Loops

Dead(overload) == [NoConn EXCEPT !.st = "dead", !.overload = overload]

LEMMA DeadValue ==
  ASSUME NEW o \in BOOLEAN
  PROVE  Dead(o) \in Connections /\ Dead(o).st = "dead" /\ ~Dead(o).trans
BY DEF Dead, NoConn, Connections

LEMMA FreshValue ==
  ASSUME Types
  PROVE  /\ Fresh \in Connections /\ Fresh.st = "connecting" /\ ~Fresh.trans /\ ~Fresh.forgotten
         /\ Fresh.active = instruments /\ Fresh.server = instruments
BY DEF Types, Fresh, NoConn, Connections

\* The least element of a set of natural numbers.
LEMMA LeastNumber ==
  ASSUME NEW T, T \subseteq Nat, T # {} PROVE \E x \in T : \A y \in T : x <= y
<1> DEFINE Less == OpToRel(<, Nat)
<1>1. IsWellFoundedOn(Less, Nat)
  BY NatLessThanWellFounded
<1>2. \A x, y \in Nat : x < y => <<x, y>> \in Less
  BY DEF OpToRel
<1> HIDE DEF Less
<1>3. PICK x \in T : \A y \in T : ~(<<y, x>> \in Less)
  BY <1>1, WFMin
<1>4. ASSUME NEW y \in T PROVE x <= y
  <2>1. x \in Nat /\ y \in Nat
    OBVIOUS
  <2>2. ~(y < x)
    BY <1>2, <1>3, <2>1
  <2> QED
    BY <2>1, <2>2
<1> QED
  BY <1>4

LEMMA OldestEvent ==
  ASSUME Types
  PROVE  /\ Oldest \in Nat /\ Oldest <= now
         /\ \A s \in Symbols : lastEvent[s] # None => Oldest <= lastEvent[s]
<1> DEFINE times == {lastEvent[s] : s \in Keys}
<1>1. \A s \in Keys : s \in Symbols /\ lastEvent[s] \in Nat /\ lastEvent[s] <= now
  BY DEF Types, Keys
<1>2. times \in SUBSET Nat /\ \A t \in times : t <= now
  BY <1>1
<1>3. \A s \in Symbols : lastEvent[s] # None => lastEvent[s] \in times
  BY DEF Keys
<1>4. Oldest = IF times = {} THEN now ELSE CHOOSE t \in times : \A u \in times : t <= u
  BY DEF Oldest
<1> HIDE DEF times
<1>5. CASE times = {}
  BY <1>3, <1>4, <1>5 DEF Types
<1>6. CASE times # {}
  <2>1. \E t \in times : \A u \in times : t <= u
    BY <1>2, <1>6, LeastNumber
  <2>2. Oldest \in times /\ \A u \in times : Oldest <= u
    BY <1>4, <1>6, <2>1
  <2> QED
    BY <1>2, <1>3, <2>2
<1> QED
  BY <1>5, <1>6

LEMMA SeqLast ==
  ASSUME Types
  PROVE  /\ \A x \in Tasks : Append(lock, x) \in Seq(Tasks)
         /\ lock # <<>> => Tail(lock) \in Seq(Tasks)
BY DEF Types

LEMMA ConnectionTypes ==
  ASSUME Types, NEW c \in Conns,
         \/ Connected(c) \/ Bootstrapped(c) \/ AuditFails(c) \/ Fails(c) \/ ServerDrops(c)
         \/ Take(c) \/ Applied(c) \/ SnapshotsBridged(c)
  PROVE  Types'
<1> USE DEF Types, Unconnected, Unsubmitted
<1>1. CASE Connected(c) \/ Bootstrapped(c) \/ ServerDrops(c)
  <2>1. \E k \in Connections : conn' = [conn EXCEPT ![c] = k]
    BY <1>1 DEF Connected, Bootstrapped, ServerDrops, Connections
  <2> QED
    BY <1>1, <2>1 DEF Connected, Bootstrapped, ServerDrops
<1>2. CASE AuditFails(c) \/ Fails(c)
  <2>1. \E overload \in BOOLEAN : Dies(c, overload)
    BY <1>2 DEF AuditFails, Fails
  <2>2. conn' \in [Conns -> Connections]
    BY <2>1, DeadValue DEF Dies, Dead
  <2>3. apply' \in Applications /\ sub' \in Submissions /\ queue' = queue
    BY <2>1, Values DEF Dies, Abandoned, Submissions
  <2> QED
    BY <1>2, <2>2, <2>3 DEF AuditFails, Fails
<1>3. CASE Take(c)
  <2>1. c \in {"none", "cur", "next"}
    BY DEF Conns
  <2>2. sub' \in Submissions
    BY <1>3, <2>1 DEF Take, Submissions
  <2>3. apply' \in Applications
    BY <1>3, <2>1 DEF Take, Submissions, Applications
  <2> QED
    BY <1>3, <2>2, <2>3 DEF Take
<1>4. CASE Applied(c)
  <2> DEFINE k == [conn[c] EXCEPT !.active = (@ \ apply.remove) \cup apply.add,
                                  !.server = (@ \ apply.remove) \cup apply.add]
  <2>1. k \in Connections
    BY DEF Connections, Applications
  <2>2. conn' = [conn EXCEPT ![c] = k]
    BY <1>4 DEF Applied, Connections
  <2> HIDE DEF k
  <2>3. conn' \in [Conns -> Connections]
    BY <2>1, <2>2
  <2>4. apply' \in Applications /\ sub' \in Submissions
    BY <1>4, Values DEF Applied, Applications, Submissions
  <2> QED
    BY <1>4, <2>3, <2>4 DEF Applied
<1>5. CASE SnapshotsBridged(c)
  <2>1. apply' \in Applications /\ sub' \in Submissions
    BY <1>5, Values DEF SnapshotsBridged, Submissions
  <2> QED
    BY <1>5, <2>1 DEF SnapshotsBridged
<1> QED
  BY <1>1, <1>2, <1>3, <1>4, <1>5

LEMMA RunnerTypes ==
  ASSUME Types, LockInv, Runner \/ StartFails \/ ReplacementFails \/ Rotate \/ Stop PROVE Types'
<1> USE DEF Types, Unrun
<1>a. /\ NoConn \in Connections /\ Fresh \in Connections /\ NoApply \in Applications
      /\ Oldest \in Int /\ Oldest >= -1 /\ Oldest <= now
  BY Values, FreshValue, OldestEvent
<1>b. ASSUME NEW c \in Conns, Abandoned(c)
      PROVE  apply' \in Applications /\ sub' \in Submissions /\ queue' = queue
  BY <1>b, <1>a DEF Abandoned, Submissions
<1>1. CASE StartConnection \/ StartReplacement
  BY <1>1, <1>a DEF StartConnection, StartReplacement, Phases
<1>2. CASE TransportReady
  <2>1. conn' \in [Conns -> Connections]
    BY <1>2 DEF TransportReady, Connections, Conns
  <2> QED
    BY <1>2, <2>1 DEF TransportReady
<1>3. CASE ConnectionReady \/ Replace
  <2>0. lock' \in Seq(Tasks)
    BY <1>3, SeqLast DEF ConnectionReady, Replace, Release, LockInv, HasLock
  <2>1. Activated
    BY <1>3 DEF ConnectionReady, Replace
  <2>2. conn' \in [Conns -> Connections]
    <3>1. [conn["next"] EXCEPT !.forgotten = reconnect] \in Connections
      BY DEF Connections, Conns
    <3> QED
      BY <1>a, <2>1, <3>1 DEF Activated, Conns
  <2>3. apply' \in Applications
    BY <1>a, <2>1 DEF Activated, Applications
  <2>4. sub' \in Submissions
    BY <2>1 DEF Activated, Submissions
  <2>5. live' \in Loops
    <3>1. live \in Loops /\ 0 \in Numbers
      BY DEF Numbers
    <3> QED
      BY <2>1, <3>1 DEF Activated, Loops
  <2> QED
    BY <1>3, <2>0, <2>1, <2>2, <2>3, <2>4, <2>5 DEF ConnectionReady, Replace, Activated, Phases
<1>4. CASE StartFails
  <2>1. Abandoned("next") /\ conn' = [conn EXCEPT !["next"] = NoConn]
    BY <1>4 DEF StartFails
  <2>2. gap' \in Int /\ gap' >= -1 /\ gap' <= now
    BY <1>4, <1>a DEF StartFails, Opened
  <2> QED
    BY <1>4, <1>a, <1>b, <2>1, <2>2 DEF StartFails, Conns, Phases
<1>5. CASE ConnectionLost
  <2>1. Abandoned("cur") /\ conn' \in [Conns -> Connections]
    BY <1>5, <1>a DEF ConnectionLost
  <2>2. gap' \in Int /\ gap' >= -1 /\ gap' <= now
    BY <1>5, <1>a DEF ConnectionLost, LostBoth, Opened
  <2> QED
    BY <1>5, <1>b, <2>1, <2>2 DEF ConnectionLost, Conns, Phases
<1>6. CASE ReplacementFails
  <2>1. Abandoned("next") /\ conn' = [conn EXCEPT !["next"] = NoConn]
    BY <1>6 DEF ReplacementFails
  <2>2. lock' \in Seq(Tasks)
    BY <1>6, SeqLast DEF ReplacementFails, Release, LockInv, HasLock
  <2> QED
    BY <1>6, <1>a, <1>b, <2>1, <2>2 DEF ReplacementFails, Conns, Phases
<1>7. CASE OverloadEnds \/ ReplacementReady \/ Stop
  BY <1>7 DEF OverloadEnds, ReplacementReady, Stop, Phases
<1>8. CASE Rotate
  BY <1>8, SeqLast DEF Rotate, Acquire, Phases, Tasks
<1>9. CASE RunStops
  <2>1. sub' \in Submissions
    BY <1>9 DEF RunStops, Submissions
  <2>2. lock' \in Seq(Tasks)
    BY <1>9, SeqLast DEF RunStops, HasLock
  <2>3. conn' \in [Conns -> Connections]
    BY <1>9, <1>a DEF RunStops, Conns
  <2> QED
    BY <1>9, <1>a, <2>1, <2>2, <2>3 DEF RunStops, Phases
<1> QED
  BY <1>1, <1>2, <1>3, <1>4, <1>5, <1>6, <1>7, <1>8, <1>9 DEF Runner

LEMMA UpdaterTypes ==
  ASSUME Types, LockInv, Put \/ SubmitTimeout \/ Updater \/ UpdateRequest PROVE Types'
<1> USE DEF Types, Unsubmitted, Unupdated
<1>a. /\ NoSub \in Submissions /\ NoUpdate \in Updates /\ Targets \subseteq SUBSET Symbols
      /\ now \in Numbers
  BY Values, RouteAssumption DEF Numbers
<1>1. CASE Put \/ SubmitTimeout
  <2>1. sub' \in Submissions
    BY <1>1 DEF Put, SubmitTimeout, Submissions
  <2> QED
    BY <1>1, <2>1 DEF Put, SubmitTimeout
<1>2. CASE UpdateRequest
  <2>1. update' \in Updates
    <3>1. PICK target \in Targets :
            update' = [NoUpdate EXCEPT !.step = "lock", !.target = target]
      BY <1>2 DEF UpdateRequest
    <3>2. target \in SUBSET Symbols
      BY <1>a
    <3> QED
      BY <1>a, <3>1, <3>2 DEF Updates
  <2> QED
    BY <1>2, <2>1, SeqLast DEF UpdateRequest, Acquire, Tasks
<1>3. CASE UpdateSubmits
  <2>1. update' \in Updates
    BY <1>3, <1>a DEF UpdateSubmits, Updates
  <2>2. sub' \in Submissions
    BY <1>3 DEF UpdateSubmits, NoSub, Submissions, Updates, Added
  <2>3. lastEvent' \in [Symbols -> Int] /\ \A s \in Symbols : lastEvent'[s] >= -1 /\ lastEvent'[s] <= now
    BY <1>3 DEF UpdateSubmits
  <2> QED
    BY <1>3, <2>1, <2>2, <2>3 DEF UpdateSubmits
<1>4. CASE UpdateConfirmed
  <2>1. update' \in Updates
    BY <1>4 DEF UpdateConfirmed, Updates
  <2> QED
    BY <1>4, <1>a, <2>1 DEF UpdateConfirmed
<1>5. CASE UpdateCommits \/ UpdateFails
  <2>1. lock' \in Seq(Tasks)
    BY <1>5, SeqLast DEF UpdateCommits, UpdateFails, AddedFresh, Release, LockInv, HasLock
  <2>2. lastEvent' \in [Symbols -> Int] /\ \A s \in Symbols : lastEvent'[s] >= -1 /\ lastEvent'[s] <= now
    BY <1>5 DEF UpdateCommits, UpdateFails
  <2>3. instruments' \subseteq Symbols
    BY <1>5 DEF UpdateCommits, UpdateFails, Updates
  <2>4. reconnect' \in BOOLEAN /\ update' \in Updates /\ sub' \in Submissions
    BY <1>5, <1>a DEF UpdateCommits, UpdateFails, Requested
  <2> QED
    BY <1>5, <2>1, <2>2, <2>3, <2>4 DEF UpdateCommits, UpdateFails
<1> QED
  BY <1>1, <1>2, <1>3, <1>4, <1>5 DEF Updater

LEMMA LivenessTypes ==
  ASSUME Types, LockInv, Liveness \/ Tick PROVE Types'
<1> USE DEF Types, Unlived
<1>a. /\ NoSub \in Submissions /\ Sleeping \in Loops /\ RefreshLimit \in Int /\ live \in Loops
      /\ now \in Numbers
  BY Values, RouteAssumption DEF Numbers
<1>1. CASE Scan
  <2>1. Silent \subseteq Symbols
    BY DEF Silent
  <2>2. live' \in Loops
    BY <1>1, <1>a, <2>1 DEF Scan, Loops
  <2> QED
    BY <1>1, <2>2 DEF Scan
<1>2. CASE RefreshWaits
  <2>1. live' \in Loops
    BY <1>2, <1>a DEF RefreshWaits, Loops
  <2> QED
    BY <1>2, <2>1, SeqLast DEF RefreshWaits, Acquire, Tasks
<1>3. CASE RefreshSubmits
  <2>1. live' \in Loops
    BY <1>3, <1>a DEF RefreshSubmits, Loops
  <2>2. sub' \in Submissions
    BY <1>3, <1>a DEF RefreshSubmits, NoSub, Submissions, Loops
  <2> QED
    BY <1>3, <2>1, <2>2 DEF RefreshSubmits
<1>4. CASE RefreshConfirmed
  <2>1. live' \in Loops
    BY <1>4, <1>a DEF RefreshConfirmed, Loops
  <2>2. lock' \in Seq(Tasks)
    BY <1>4, SeqLast DEF RefreshConfirmed, Release, LockInv, HasLock
  <2> QED
    BY <1>4, <1>a, <2>1, <2>2 DEF RefreshConfirmed
<1>5. CASE Refreshed
  BY <1>5, <1>a DEF Refreshed
<1>6. CASE RefreshFails
  <2>1. live' \in Loops /\ reconnect' \in BOOLEAN
    <3> DEFINE count == IF live.failures < RefreshLimit THEN live.failures + 1 ELSE RefreshLimit
    <3>1. count \in Numbers
      BY <1>a DEF Loops, Numbers
    <3>2. live' \in {[Sleeping EXCEPT !.failures = count], Sleeping}
          /\ reconnect' \in BOOLEAN
      BY <1>6 DEF RefreshFails
    <3> HIDE DEF count
    <3>3. [Sleeping EXCEPT !.failures = count] \in Loops
      BY <1>a, <3>1 DEF Loops
    <3> QED
      BY <1>a, <3>2, <3>3
  <2>2. lock' \in Seq(Tasks)
    BY <1>6, SeqLast DEF RefreshFails, LockInv, HasLock
  <2> QED
    BY <1>6, <1>a, <2>1, <2>2 DEF RefreshFails
<1>7. CASE KeyRemoved \/ LiveStops
  <2>1. live' \in Loops
    BY <1>7, <1>a DEF KeyRemoved, LiveStops, Loops
  <2> QED
    BY <1>7, <2>1 DEF KeyRemoved, LiveStops
<1>8. CASE Tick
  BY <1>8 DEF Tick
<1> QED
  BY <1>1, <1>2, <1>3, <1>4, <1>5, <1>6, <1>7, <1>8 DEF Liveness

LEMMA TypesInductive == Types /\ LockInv /\ [Next]_vars => Types'
<1> SUFFICES ASSUME Types, LockInv, [Next]_vars PROVE Types'
  OBVIOUS
<1>1. CASE UNCHANGED vars
  BY <1>1 DEF vars, Types
<1>2. CASE \E c \in Conns : \/ Connected(c) \/ Bootstrapped(c) \/ AuditFails(c) \/ Fails(c)
                            \/ ServerDrops(c) \/ Take(c) \/ Applied(c) \/ SnapshotsBridged(c)
  BY <1>2, ConnectionTypes
<1> QED
  BY <1>1, <1>2, RunnerTypes, UpdaterTypes, LivenessTypes
     DEF Next, Connection, Waits, Environment, Conns

(***************************************************************************)
(* The lock.                                                               *)
(***************************************************************************)

LEMMA Appended ==
  ASSUME NEW q \in Seq(Tasks), NEW x \in Tasks, Distinct(q), ~In(q, x), NEW r, r = Append(q, x)
  PROVE  /\ Distinct(r) /\ r # <<>>
         /\ q # <<>> => Head(r) = Head(q)
         /\ \A y : In(r, y) <=> In(q, y) \/ y = x
<1>1. r \in Seq(Tasks) /\ Len(q) \in Nat /\ Len(r) = Len(q) + 1 /\ r[Len(q) + 1] = x
      /\ \A i \in 1 .. Len(q) : r[i] = q[i]
  BY AppendProperties
<1>2. \A i \in 1 .. Len(r) : i = Len(q) + 1 \/ i \in 1 .. Len(q)
  BY <1>1
<1>3. Distinct(r)
  BY <1>1, <1>2 DEF Distinct, In
<1>4. r # <<>>
  BY <1>1
<1>5. ASSUME q # <<>> PROVE Head(r) = Head(q)
  <2>1. 1 \in 1 .. Len(q)
    BY <1>1, <1>5
  <2>2. Head(r) = r[1] /\ Head(q) = q[1]
    BY <1>1, <1>4, <1>5
  <2> QED
    BY <1>1, <2>1, <2>2
<1>6. ASSUME NEW y PROVE In(r, y) <=> In(q, y) \/ y = x
  <2>1. Len(q) + 1 \in 1 .. Len(r) /\ \A i \in 1 .. Len(q) : i \in 1 .. Len(r)
    BY <1>1
  <2> QED
    BY <1>1, <1>2, <2>1 DEF In
<1> QED
  BY <1>3, <1>4, <1>5, <1>6

LEMMA Popped ==
  ASSUME NEW q \in Seq(Tasks), q # <<>>, Distinct(q), NEW r, r = Tail(q)
  PROVE  Distinct(r) /\ \A y : In(r, y) <=> In(q, y) /\ y # Head(q)
<1>1. /\ r \in Seq(Tasks) /\ Len(q) \in Nat \ {0} /\ Len(r) = Len(q) - 1 /\ Head(q) = q[1]
      /\ \A i \in 1 .. Len(r) : r[i] = q[i + 1]
  BY HeadTailProperties
<1>2. \A i \in 1 .. Len(r) : i + 1 \in 1 .. Len(q) /\ i + 1 # 1
  BY <1>1
<1>3. ASSUME NEW i \in 1 .. Len(r), NEW j \in 1 .. Len(r), r[i] = r[j] PROVE i = j
  <2>1. i + 1 = j + 1
    BY <1>1, <1>2, <1>3 DEF Distinct
  <2> QED
    BY <2>1
<1>4. ASSUME NEW y, In(r, y) PROVE In(q, y) /\ y # Head(q)
  <2>1. PICK i \in 1 .. Len(r) : r[i] = y
    BY <1>4 DEF In
  <2>2. i + 1 \in 1 .. Len(q) /\ i + 1 # 1 /\ q[i + 1] = y /\ 1 \in 1 .. Len(q)
    BY <1>1, <1>2, <2>1
  <2> QED
    BY <1>1, <2>2 DEF In, Distinct
<1>5. ASSUME NEW y, In(q, y), y # Head(q) PROVE In(r, y)
  <2>1. PICK i \in 1 .. Len(q) : q[i] = y
    BY <1>5 DEF In
  <2>2. i # 1
    BY <1>1, <1>5, <2>1
  <2>3. i - 1 \in 1 .. Len(r) /\ (i - 1) + 1 = i
    BY <1>1, <2>2
  <2>4. r[i - 1] = y
    BY <1>1, <2>1, <2>3
  <2> QED
    BY <2>3, <2>4 DEF In
<1> QED
  BY <1>3, <1>4, <1>5 DEF Distinct

InRotation == {"rotate", "replacing", "overlap"}

\* A task that has the lock keeps it, and so does the queue behind it.
LEMMA StillLocked ==
  ASSUME LockInv, UNCHANGED lock,
         update'.step # "idle" <=> update.step # "idle",
         live'.step \in {"lock", "submit"} <=> live.step \in {"lock", "submit"},
         phase' \in InRotation <=> phase \in InRotation,
         update'.step \in {"submit", "fresh"} => HasLock("update"),
         live'.step = "submit" => HasLock("refresh"),
         phase' \in {"replacing", "overlap"} => HasLock("rotate")
  PROVE  LockInv'
BY DEF LockInv, HasLock, InRotation

LEMMA Acquired ==
  ASSUME Types, LockInv, NEW t \in Tasks, ~In(lock, t), lock' = Append(lock, t),
         update'.step # "idle" <=> update.step # "idle" \/ t = "update",
         live'.step \in {"lock", "submit"} <=> live.step \in {"lock", "submit"} \/ t = "refresh",
         phase' \in InRotation <=> phase \in InRotation \/ t = "rotate",
         update'.step \in {"submit", "fresh"} => update.step \in {"submit", "fresh"},
         live'.step = "submit" => live.step = "submit",
         phase' \in {"replacing", "overlap"} => phase \in {"replacing", "overlap"}
  PROVE  LockInv'
<1>1. /\ Distinct(lock') /\ lock' # <<>>
      /\ lock # <<>> => Head(lock') = Head(lock)
      /\ \A y : In(lock', y) <=> In(lock, y) \/ y = t
  BY Appended DEF Types, LockInv
<1> QED
  BY <1>1 DEF LockInv, HasLock, InRotation

LEMMA Released ==
  ASSUME Types, LockInv, NEW t \in Tasks, HasLock(t), lock' = Tail(lock),
         update'.step # "idle" <=> update.step # "idle" /\ t # "update",
         live'.step \in {"lock", "submit"} <=> live.step \in {"lock", "submit"} /\ t # "refresh",
         phase' \in InRotation <=> phase \in InRotation /\ t # "rotate",
         update'.step \in {"submit", "fresh"} => update.step \in {"submit", "fresh"},
         live'.step = "submit" => live.step = "submit",
         phase' \in {"replacing", "overlap"} => phase \in {"replacing", "overlap"}
  PROVE  LockInv'
<1>1. lock # <<>> /\ Head(lock) = t
  BY DEF HasLock
<1>2. Distinct(lock') /\ \A y : In(lock', y) <=> In(lock, y) /\ y # t
  BY <1>1, Popped DEF Types, LockInv
<1>3. update'.step \notin {"submit", "fresh"}
  BY <1>1 DEF LockInv, HasLock
<1>4. live'.step # "submit"
  BY <1>1 DEF LockInv, HasLock
<1>5. phase' \notin {"replacing", "overlap"}
  BY <1>1 DEF LockInv, HasLock, InRotation
<1> QED
  BY <1>2, <1>3, <1>4, <1>5 DEF LockInv, InRotation

LEMMA LockInductive == Types /\ LockInv /\ [Next]_vars => LockInv'
<1> SUFFICES ASSUME Types, LockInv, [Next]_vars PROVE LockInv'
  OBVIOUS
<1>a. /\ update \in Updates /\ live \in Loops /\ {"update", "refresh", "rotate"} \subseteq Tasks
      /\ update.step \in {"submit", "fresh"} => HasLock("update")
      /\ live.step = "submit" => HasLock("refresh")
      /\ phase \in {"replacing", "overlap"} => HasLock("rotate")
  BY DEF Types, LockInv, Tasks
<1>b. /\ ~In(lock, "update") <=> update.step = "idle"
      /\ ~In(lock, "refresh") <=> live.step \notin {"lock", "submit"}
      /\ ~In(lock, "rotate") <=> phase \notin InRotation
  BY DEF LockInv, InRotation
<1> USE DEF InRotation
<1>1. CASE UNCHANGED <<lock, phase, update>> /\ live'.step = live.step
  BY <1>1, <1>a, StillLocked
<1>2. CASE \E c \in Conns : \/ Connected(c) \/ Bootstrapped(c) \/ AuditFails(c) \/ Fails(c)
                            \/ ServerDrops(c) \/ Take(c) \/ Applied(c) \/ SnapshotsBridged(c)
  BY <1>1, <1>2 DEF Connected, Bootstrapped, AuditFails, Fails, ServerDrops, Take, Applied,
                    SnapshotsBridged, Unconnected, Unsubmitted
<1>3. CASE TransportReady \/ Put \/ SubmitTimeout \/ Tick \/ Stop \/ UNCHANGED vars
  BY <1>1, <1>3 DEF TransportReady, Put, SubmitTimeout, Tick, Stop, vars, Unrun, Unsubmitted
<1>4. CASE StartConnection \/ OverloadEnds \/ ConnectionLost \/ StartFails \/ StartReplacement
           \/ ReplacementReady
  <2>1. UNCHANGED <<lock, update, live>>
    BY <1>4 DEF StartConnection, OverloadEnds, ConnectionLost, StartFails, StartReplacement,
                ReplacementReady, Unrun
  <2>2. phase' \in InRotation <=> phase \in InRotation
    BY <1>4 DEF StartConnection, OverloadEnds, ConnectionLost, StartFails, StartReplacement,
                ReplacementReady
  <2>3. phase' \in {"replacing", "overlap"} => HasLock("rotate")
    BY <1>4, <1>a DEF StartConnection, OverloadEnds, ConnectionLost, StartFails, StartReplacement,
                      ReplacementReady
  <2> QED
    BY <1>a, <2>1, <2>2, <2>3, StillLocked
<1>c. Activated => live'.step = live.step
  BY <1>a DEF Activated, Loops
<1>5. CASE ConnectionReady
  <2>1. UNCHANGED <<lock, update>> /\ live'.step = live.step /\ phase = "starting" /\ phase' = "wait"
    BY <1>5, <1>c DEF ConnectionReady, Activated, Unrun
  <2> QED
    BY <1>a, <2>1, StillLocked
<1>6. CASE UpdateSubmits \/ UpdateConfirmed
  <2>1. UNCHANGED <<lock, phase, live>> /\ HasLock("update") /\ update.step # "idle"
    BY <1>6, <1>a DEF UpdateSubmits, UpdateConfirmed, Unupdated
  <2>2. update'.step # "idle"
    BY <1>6, <1>a DEF UpdateSubmits, UpdateConfirmed, Updates
  <2> QED
    BY <1>a, <2>1, <2>2, StillLocked
<1>7. CASE Scan \/ RefreshSubmits \/ Refreshed \/ KeyRemoved \/ LiveStops
  <2>1. UNCHANGED <<lock, phase, update>>
    BY <1>7 DEF Scan, RefreshSubmits, Refreshed, KeyRemoved, LiveStops, Unlived
  <2>2. \/ live.step \notin {"lock", "submit"} /\ live'.step \notin {"lock", "submit"}
        \/ live.step = "lock" /\ live'.step = "submit" /\ HasLock("refresh")
    BY <1>7, <1>a, Values DEF Scan, RefreshSubmits, Refreshed, KeyRemoved, LiveStops, Loops
  <2> QED
    BY <1>a, <2>1, <2>2, StillLocked
<1>8. CASE Rotate
  BY <1>8, <1>a, <1>b, Acquired DEF Rotate, Acquire, Unrun
<1>9. CASE UpdateRequest
  <2>1. update'.step = "lock" /\ update.step = "idle"
    BY <1>9, Values DEF UpdateRequest, Updates
  <2> QED
    BY <1>9, <1>a, <1>b, <2>1, Acquired DEF UpdateRequest, Acquire, Unupdated
<1>10. CASE RefreshWaits
  <2>1. live'.step = "lock" /\ live.step = "found"
    BY <1>10, <1>a DEF RefreshWaits, Loops
  <2> QED
    BY <1>10, <1>a, <1>b, <2>1, Acquired DEF RefreshWaits, Acquire, Unlived
<1>11. CASE ReplacementFails \/ Replace
  <2>1. /\ lock' = Tail(lock) /\ UNCHANGED update /\ live'.step = live.step
        /\ phase \in {"replacing", "overlap"} /\ phase' = "wait"
    BY <1>11, <1>c DEF ReplacementFails, Replace, Release, Activated, Unrun
  <2> QED
    BY <1>a, <2>1, Released
<1>12. CASE UpdateCommits \/ UpdateFails
  <2>1. /\ lock' = Tail(lock) /\ UNCHANGED <<phase, live>> /\ update.step \in {"submit", "fresh"}
        /\ update' = NoUpdate
    BY <1>12 DEF UpdateCommits, UpdateFails, AddedFresh, Release, Unupdated
  <2> QED
    BY <1>a, <2>1, Values, Released
<1>13. CASE RefreshConfirmed
  <2>1. /\ lock' = Tail(lock) /\ UNCHANGED <<phase, update>> /\ live.step = "submit"
        /\ live'.step \in {"stopped", "fresh"}
    BY <1>13, <1>a DEF RefreshConfirmed, Release, Unlived, Loops
  <2> QED
    BY <1>a, <2>1, Released
<1>14. CASE RefreshFails
  <2>1. UNCHANGED <<phase, update>> /\ live.step \in {"submit", "fresh"}
    BY <1>14 DEF RefreshFails, Unlived
  <2>2. live'.step = "sleep"
    BY <1>14, Values DEF RefreshFails, Loops
  <2>3. lock' = IF live.step = "submit" THEN Tail(lock) ELSE lock
    BY <1>14 DEF RefreshFails
  <2>4. CASE live.step = "submit"
    BY <1>a, <2>1, <2>2, <2>3, <2>4, Released
  <2>5. CASE live.step = "fresh"
    BY <1>a, <2>1, <2>2, <2>3, <2>5, StillLocked
  <2> QED
    BY <2>1, <2>4, <2>5
<1>15. CASE RunStops
  <2>1. UNCHANGED <<update, live>> /\ phase' = "stopped"
    BY <1>15 DEF RunStops, Unrun
  <2>2. CASE HasLock("rotate")
    <3>1. lock' = Tail(lock)
      BY <1>15, <2>2 DEF RunStops
    <3> QED
      BY <1>a, <2>1, <2>2, <3>1, Released
  <2>3. CASE ~HasLock("rotate")
    <3>1. lock' = lock /\ phase \notin InRotation
      BY <1>15, <1>a, <2>3 DEF RunStops
    <3> QED
      BY <1>a, <2>1, <3>1, StillLocked
  <2> QED
    BY <2>2, <2>3
<1> QED
  BY <1>2, <1>3, <1>4, <1>5, <1>6, <1>7, <1>8, <1>9, <1>10, <1>11, <1>12, <1>13, <1>14, <1>15
     DEF Next, Connection, Runner, Waits, Updater, Liveness, Environment, Conns

(***************************************************************************)
(* The connections.                                                        *)
(***************************************************************************)

\* Only connection c changes, and not in what is told of it.
OnlyOf(c) == \A d \in Conns \ {c} : conn'[d] = conn[d]

LEMMA ConnectionEffects ==
  ASSUME Types, NEW c \in Conns
  PROVE  /\ Connected(c) => /\ OnlyOf(c) /\ conn[c].st = "connecting" /\ conn'[c].st = "up"
                            /\ conn'[c].active = conn[c].active /\ conn'[c].server = conn[c].server
                            /\ conn'[c].trans = conn[c].trans
                            /\ conn'[c].forgotten = conn[c].forgotten
         /\ Bootstrapped(c) \/ ServerDrops(c) =>
              /\ OnlyOf(c) /\ conn[c].st = "up" /\ conn'[c].st = "up"
              /\ conn'[c].active = conn[c].active /\ conn'[c].server \subseteq conn[c].server
              /\ conn'[c].trans = conn[c].trans /\ conn'[c].forgotten = conn[c].forgotten
         /\ AuditFails(c) \/ Fails(c) =>
              OnlyOf(c) /\ conn'[c].st = "dead" /\ ~conn'[c].trans /\ Abandoned(c) /\ Live(c)
         /\ Applied(c) =>
              /\ OnlyOf(c) /\ conn'[c].st = conn[c].st
              /\ conn'[c].active = (conn[c].active \ apply.remove) \cup apply.add
              /\ conn'[c].server = (conn[c].server \ apply.remove) \cup apply.add
              /\ conn'[c].trans = conn[c].trans /\ conn'[c].forgotten = conn[c].forgotten
         /\ Take(c) \/ SnapshotsBridged(c) => UNCHANGED conn
<1>a. conn \in [Conns -> Connections] /\ conn[c] \in Connections
  BY DEF Types
<1>1. ASSUME Connected(c)
      PROVE  /\ OnlyOf(c) /\ conn[c].st = "connecting" /\ conn'[c].st = "up"
             /\ conn'[c].active = conn[c].active /\ conn'[c].server = conn[c].server
             /\ conn'[c].trans = conn[c].trans /\ conn'[c].forgotten = conn[c].forgotten
  BY <1>1, <1>a DEF Connected, OnlyOf, Connections
<1>2. ASSUME Bootstrapped(c) \/ ServerDrops(c)
      PROVE  /\ OnlyOf(c) /\ conn[c].st = "up" /\ conn'[c].st = "up"
             /\ conn'[c].active = conn[c].active /\ conn'[c].server \subseteq conn[c].server
             /\ conn'[c].trans = conn[c].trans /\ conn'[c].forgotten = conn[c].forgotten
  BY <1>2, <1>a DEF Bootstrapped, ServerDrops, Up, OnlyOf, Connections
<1>3. ASSUME AuditFails(c) \/ Fails(c)
      PROVE  OnlyOf(c) /\ conn'[c].st = "dead" /\ ~conn'[c].trans /\ Abandoned(c) /\ Live(c)
  <2>1. PICK o \in BOOLEAN : Dies(c, o)
    BY <1>3 DEF AuditFails, Fails
  <2>2. conn' = [conn EXCEPT ![c] = Dead(o)] /\ Abandoned(c)
    BY <2>1 DEF Dies, Dead
  <2> QED
    BY <1>3, <1>a, <2>2, DeadValue DEF OnlyOf, Live, AuditFails, Fails, Up
<1>4. ASSUME Applied(c)
      PROVE  /\ OnlyOf(c) /\ conn'[c].st = conn[c].st
             /\ conn'[c].active = (conn[c].active \ apply.remove) \cup apply.add
             /\ conn'[c].server = (conn[c].server \ apply.remove) \cup apply.add
             /\ conn'[c].trans = conn[c].trans /\ conn'[c].forgotten = conn[c].forgotten
  <2> DEFINE k == [conn[c] EXCEPT !.active = (@ \ apply.remove) \cup apply.add,
                                  !.server = (@ \ apply.remove) \cup apply.add]
  <2>1. /\ k.st = conn[c].st /\ k.trans = conn[c].trans /\ k.forgotten = conn[c].forgotten
        /\ k.active = (conn[c].active \ apply.remove) \cup apply.add
        /\ k.server = (conn[c].server \ apply.remove) \cup apply.add
    BY <1>a DEF Connections
  <2>2. conn' = [conn EXCEPT ![c] = k]
    BY <1>4, <1>a DEF Applied, Connections
  <2> HIDE DEF k
  <2> QED
    BY <1>a, <2>1, <2>2 DEF OnlyOf
<1>5. Take(c) \/ SnapshotsBridged(c) => UNCHANGED conn
  BY DEF Take, SnapshotsBridged
<1> QED
  BY <1>1, <1>2, <1>3, <1>4, <1>5

\* The connection that is being started becomes the current one.
LEMMA ActivatedEffect ==
  ASSUME Types, Activated
  PROVE  /\ conn'["cur"].st = conn["next"].st /\ conn'["cur"].active = conn["next"].active
         /\ conn'["cur"].server = conn["next"].server /\ conn'["cur"].forgotten = reconnect
         /\ conn'["next"].st = "none" /\ ~conn'["next"].trans
         /\ ~reconnect' /\ connected' /\ phase' = "wait" /\ live'.step = live.step
         /\ queue' = queue
<1>a. conn \in [Conns -> Connections] /\ live \in Loops
  BY DEF Types
<1> DEFINE k == [conn["next"] EXCEPT !.forgotten = reconnect]
<1>1. /\ k.st = conn["next"].st /\ k.active = conn["next"].active
      /\ k.server = conn["next"].server /\ k.forgotten = reconnect
  BY <1>a DEF Connections, Conns
<1>2. conn' = [conn EXCEPT !["cur"] = k, !["next"] = NoConn]
  BY DEF Activated
<1> HIDE DEF k
<1>3. conn'["cur"] = k /\ conn'["next"] = NoConn
  BY <1>a, <1>2 DEF Conns
<1>4. live'.step = live.step
  BY <1>a DEF Activated, Loops
<1> QED
  BY <1>1, <1>3, <1>4, Values DEF Activated

LEMMA ConnInductive == Types /\ LockInv /\ ConnInv /\ [Next]_vars => ConnInv'
<1> SUFFICES ASSUME Types, LockInv, ConnInv, [Next]_vars PROVE ConnInv'
  OBVIOUS
<1>a. /\ conn \in [Conns -> Connections] /\ apply \in Applications /\ phase \in Phases
      /\ apply.on \in {"none", "cur", "next"} /\ "cur" \in Conns /\ "next" \in Conns
  BY DEF Types, Applications, Conns
<1> USE DEF Conns, Up
<1>1. ASSUME NEW c \in Conns, Connected(c) PROVE ConnInv'
  <2>1. UNCHANGED <<phase, apply>>
    BY <1>1 DEF Connected, Unconnected
  <2> QED
    BY <1>1, <1>a, <2>1, ConnectionEffects DEF ConnInv, OnlyOf
<1>2. ASSUME NEW c \in Conns, Bootstrapped(c) \/ ServerDrops(c) PROVE ConnInv'
  <2>1. UNCHANGED <<phase, apply>>
    BY <1>2 DEF Bootstrapped, ServerDrops, Unconnected
  <2> QED
    BY <1>2, <1>a, <2>1, ConnectionEffects DEF ConnInv, OnlyOf
<1>3. ASSUME NEW c \in Conns, AuditFails(c) \/ Fails(c) PROVE ConnInv'
  <2>1. UNCHANGED phase
    BY <1>3 DEF AuditFails, Fails, Unconnected
  <2>2. OnlyOf(c) /\ conn'[c].st = "dead" /\ Abandoned(c) /\ Live(c)
    BY <1>3, ConnectionEffects
  <2>3. apply' = NoApply \/ (apply' = apply /\ apply.on # c)
    BY <2>2 DEF Abandoned
  <2> QED
    BY <1>a, <2>1, <2>2, <2>3, Values DEF ConnInv, OnlyOf, Live
<1>4. ASSUME NEW c \in Conns, Take(c) \/ SnapshotsBridged(c) PROVE ConnInv'
  <2>1. UNCHANGED <<phase, conn>>
    BY <1>4 DEF Take, SnapshotsBridged, Unsubmitted
  <2>2. apply'.on = apply.on \/ apply'.on = "none" \/ (apply'.on = c /\ conn[c].st = "up")
    BY <1>4, Values DEF Take, SnapshotsBridged, ReadyToTake
  <2> QED
    BY <1>a, <2>1, <2>2 DEF ConnInv
<1>5. ASSUME NEW c \in Conns, Applied(c) PROVE ConnInv'
  <2>1. UNCHANGED phase
    BY <1>5 DEF Applied, Unsubmitted
  <2>2. apply'.on = apply.on \/ apply'.on = "none"
    BY <1>5, <1>a, Values DEF Applied, Applications
  <2> QED
    BY <1>5, <1>a, <2>1, <2>2, ConnectionEffects DEF ConnInv, OnlyOf
<1>6. CASE StartConnection \/ StartReplacement
  <2>1. /\ conn'["cur"] = conn["cur"] /\ conn'["next"].st = "connecting" /\ UNCHANGED apply
        /\ conn["next"].st = "none"
        /\ \/ phase = "start" /\ phase' = "starting"
           \/ phase = "rotate" /\ phase' = "replacing"
    BY <1>6, <1>a, FreshValue DEF StartConnection, StartReplacement, ConnInv
  <2> QED
    BY <1>a, <2>1 DEF ConnInv
<1>7. CASE TransportReady
  <2>1. conn'["cur"] = conn["cur"] /\ conn'["next"].st = conn["next"].st /\ UNCHANGED <<phase, apply>>
    BY <1>7, <1>a DEF TransportReady, Connections
  <2> QED
    BY <1>a, <2>1 DEF ConnInv
<1>8. CASE ConnectionReady \/ Replace
  <2>1. Activated /\ ((phase = "starting" /\ conn["next"].st = "up") \/ phase = "overlap")
    BY <1>8 DEF ConnectionReady, Replace
  <2>2. apply'.on \in {"none", "cur"} /\ (apply'.on = "cur" => apply.on = "next")
    BY <1>a, <2>1, Values DEF Activated, Applications
  <2> QED
    BY <1>a, <2>1, <2>2, ActivatedEffect DEF ConnInv
<1>9. CASE StartFails \/ ReplacementFails
  <2>1. conn'["cur"] = conn["cur"] /\ conn'["next"].st = "none" /\ Abandoned("next")
    BY <1>9, <1>a, Values DEF StartFails, ReplacementFails
  <2>2. apply' = NoApply \/ (apply' = apply /\ apply.on # "next")
    BY <2>1 DEF Abandoned
  <2>3. \/ phase = "starting" /\ phase' \in {"start", "overload"}
        \/ phase = "replacing" /\ phase' = "wait"
    BY <1>9 DEF StartFails, ReplacementFails
  <2> QED
    BY <1>a, <2>1, <2>2, <2>3, Values DEF ConnInv
<1>10. CASE ConnectionLost
  <2>1. /\ conn'["next"] = conn["next"] /\ conn'["cur"].st = "none" /\ Abandoned("cur")
        /\ phase = "wait" /\ phase' \in {"start", "overload"}
    BY <1>10, <1>a, Values DEF ConnectionLost
  <2>2. apply' = NoApply \/ (apply' = apply /\ apply.on # "cur")
    BY <2>1 DEF Abandoned
  <2> QED
    BY <1>a, <2>1, <2>2, Values DEF ConnInv
<1>11. CASE RunStops
  <2>1. conn'["cur"] = NoConn /\ conn'["next"] = NoConn /\ apply' = NoApply /\ phase' = "stopped"
    BY <1>11 DEF RunStops
  <2> QED
    BY <2>1, Values DEF ConnInv
<1>12. CASE OverloadEnds \/ Rotate \/ ReplacementReady
  <2>1. /\ UNCHANGED <<conn, apply>>
        /\ \/ phase = "overload" /\ phase' = "start"
           \/ phase = "wait" /\ phase' = "rotate"
           \/ phase = "replacing" /\ phase' = "overlap" /\ conn["next"].st = "up"
    BY <1>12 DEF OverloadEnds, Rotate, ReplacementReady
  <2> QED
    BY <2>1 DEF ConnInv
<1>13. CASE Put \/ SubmitTimeout \/ Updater \/ Liveness \/ Stop \/ Tick \/ UpdateRequest
            \/ UNCHANGED vars
  <2>1. UNCHANGED <<conn, apply, phase>>
    BY <1>13 DEF Put, SubmitTimeout, Updater, UpdateSubmits, UpdateConfirmed, UpdateCommits,
       UpdateFails, Liveness, Scan, RefreshWaits, RefreshSubmits, RefreshConfirmed, Refreshed,
       RefreshFails, KeyRemoved, LiveStops, Stop, Tick, UpdateRequest, vars, Unsubmitted,
       Unupdated, Unlived
  <2> QED
    BY <2>1 DEF ConnInv
<1> QED
  BY <1>1, <1>2, <1>3, <1>4, <1>5, <1>6, <1>7, <1>8, <1>9, <1>10, <1>11, <1>12, <1>13
     DEF Next, Connection, Runner, Waits, Environment

(***************************************************************************)
(* An update on its way.                                                   *)
(***************************************************************************)

\* One task at a time has the lock.
LEMMA OneHolder ==
  ASSUME LockInv
  PROVE  /\ update.step \in {"submit", "fresh"} => live.step # "submit" /\ ~HasLock("refresh")
         /\ HasLock("update") => live.step # "submit"
         /\ phase \in {"replacing", "overlap"} \/ HasLock("rotate") =>
              live.step # "submit" /\ update.step \notin {"submit", "fresh"}
BY DEF LockInv, HasLock

LEMMA AbandonedEffect ==
  ASSUME Types, SubInv, NEW c \in Conns, Abandoned(c)
  PROVE  /\ queue' = queue /\ sub'.add = sub.add /\ sub'.remove = sub.remove
         /\ \/ apply' = NoApply /\ apply.on = c
            \/ apply' = apply /\ apply.on # c
         /\ \/ sub'.stage = sub.stage /\ sub'.on = sub.on /\ sub.on # c
            \/ /\ sub.on = c /\ sub'.stage = "failed" /\ sub'.on = "none" /\ apply.on = c
               /\ sub.stage \in {"started", "acked"}
<1>1. c # "none"
  BY DEF Conns
<1> QED
  BY <1>1 DEF Types, Abandoned, Submissions, SubInv

LEMMA SubAbandoned ==
  ASSUME Types, SubInv, NEW c \in Conns, Abandoned(c), UNCHANGED <<update, live, instruments>>
  PROVE  SubInv'
<1>1. Added' = Added
  BY DEF Added
<1> QED
  BY <1>1, AbandonedEffect, Values DEF SubInv

LEMMA SubInductive == Types /\ LockInv /\ ConnInv /\ SubInv /\ [Next]_vars => SubInv'
<1> SUFFICES ASSUME Types, LockInv, ConnInv, SubInv, [Next]_vars PROVE SubInv'
  OBVIOUS
<1>a. /\ sub \in Submissions /\ apply \in Applications /\ live \in Loops /\ update \in Updates
      /\ "cur" \in Conns /\ "next" \in Conns /\ "none" \notin Conns
  BY DEF Types, Conns
<1>1. ASSUME NEW c \in Conns, Connected(c) \/ Bootstrapped(c) \/ ServerDrops(c) PROVE SubInv'
  <2>1. UNCHANGED <<sub, queue, apply, update, live, instruments>>
    BY <1>1 DEF Connected, Bootstrapped, ServerDrops, Unconnected
  <2> QED
    BY <2>1 DEF SubInv, Added
<1>2. ASSUME NEW c \in Conns, AuditFails(c) \/ Fails(c) PROVE SubInv'
  <2>1. Abandoned(c) /\ UNCHANGED <<update, live, instruments>>
    BY <1>2 DEF AuditFails, Fails, Dies, Unconnected
  <2> QED
    BY <2>1, SubAbandoned
<1>3. ASSUME NEW c \in Conns, Take(c) PROVE SubInv'
  <2>1. UNCHANGED <<update, live, instruments, Added>> /\ queue' = "empty"
    BY <1>3 DEF Take, Unsubmitted, Added
  <2>2. CASE queue = "live"
    <3>1. /\ sub'.stage = "started" /\ sub'.on = c /\ sub'.add = sub.add /\ sub'.remove = sub.remove
      BY <1>3, <1>a, <2>2 DEF Take, Submissions
    <3>2. /\ apply'.on = c /\ apply'.step = "requests" /\ apply'.add = sub.add
          /\ apply'.remove = sub.remove
      BY <1>3, <2>2 DEF Take
    <3>3. update.step # "fresh"
      BY <2>2, OneHolder DEF SubInv
    <3> QED
      BY <1>a, <2>1, <2>2, <3>1, <3>2, <3>3 DEF SubInv
  <2>3. CASE queue # "live"
    <3>1. UNCHANGED <<sub, apply>>
      BY <1>3, <2>3 DEF Take
    <3> QED
      BY <2>1, <2>3, <3>1 DEF SubInv
  <2> QED
    BY <2>2, <2>3
<1>4. ASSUME NEW c \in Conns, Applied(c) PROVE SubInv'
  <2>1. /\ UNCHANGED <<update, live, instruments, Added>> /\ queue' = queue
        /\ apply.on = c /\ apply.step = "requests"
    BY <1>4 DEF Applied, Unsubmitted, Added
  <2>2. \/ /\ apply'.on = c /\ apply'.step = "snapshots" /\ apply'.add = apply.add
           /\ apply'.remove = apply.remove /\ apply.add # {}
        \/ apply' = NoApply /\ apply.add = {}
    <3>1. apply' = IF apply.add # {} THEN [apply EXCEPT !.step = "snapshots"] ELSE NoApply
      BY <1>4 DEF Applied
    <3> QED
      BY <1>a, <2>1, <3>1 DEF Applications
  <2>3. CASE sub.on # c
    <3>1. UNCHANGED sub
      BY <1>4, <2>3 DEF Applied
    <3> QED
      BY <1>a, <2>1, <2>2, <2>3, <3>1, Values DEF SubInv
  <2>4. CASE sub.on = c
    <3>1. /\ sub'.add = sub.add /\ sub'.remove = sub.remove
          /\ \/ apply.add # {} /\ sub'.stage = "acked" /\ sub'.on = c
             \/ apply.add = {} /\ sub'.stage = "done" /\ sub'.on = "none"
      BY <1>4, <1>a, <2>4 DEF Applied, Submissions
    <3>2. sub.stage = "started"
      BY <1>a, <2>1, <2>4 DEF SubInv
    <3>3. update.step # "fresh"
      BY <1>a, <2>1 DEF SubInv
    <3> QED
      BY <1>a, <2>1, <2>2, <2>4, <3>1, <3>2, <3>3, Values DEF SubInv
  <2> QED
    BY <2>3, <2>4
<1>5. ASSUME NEW c \in Conns, SnapshotsBridged(c) PROVE SubInv'
  <2>1. /\ UNCHANGED <<update, live, instruments, Added>> /\ queue' = queue
        /\ apply.on = c /\ apply' = NoApply
    BY <1>5 DEF SnapshotsBridged, Unsubmitted, Added
  <2>2. /\ sub'.add = sub.add /\ sub'.remove = sub.remove
        /\ \/ sub.on = c /\ sub'.stage = "done" /\ sub'.on = "none"
           \/ sub.on # c /\ sub'.stage = sub.stage /\ sub'.on = sub.on
    BY <1>5, <1>a DEF SnapshotsBridged, Submissions
  <2> QED
    BY <1>a, <2>1, <2>2, Values DEF SubInv
<1>6. CASE StartFails \/ ReplacementFails
  <2>1. Abandoned("next") /\ UNCHANGED <<update, live, instruments>>
    BY <1>6 DEF StartFails, ReplacementFails, Unrun
  <2> QED
    BY <1>a, <2>1, SubAbandoned
<1>7. CASE ConnectionLost
  <2>1. Abandoned("cur") /\ UNCHANGED <<update, live, instruments>>
    BY <1>7 DEF ConnectionLost, Unrun
  <2> QED
    BY <1>a, <2>1, SubAbandoned
<1>8. CASE ConnectionReady \/ Replace
  <2>1. /\ Activated /\ UNCHANGED <<update, instruments, Added>>
        /\ (phase = "starting" \/ phase = "overlap")
    BY <1>8 DEF ConnectionReady, Replace, Unrun, Added
  <2>2. queue' = queue /\ live'.step = live.step
    BY <2>1, ActivatedEffect
  <2>3. /\ sub'.stage = sub.stage /\ sub'.add = sub.add /\ sub'.remove = sub.remove
        /\ sub'.on = IF sub.on = "next" THEN "cur" ELSE sub.on
    BY <1>a, <2>1 DEF Activated, Submissions
  <2>4. \/ /\ apply.on = "next" /\ apply'.on = "cur" /\ apply'.step = apply.step
           /\ apply'.add = apply.add /\ apply'.remove = apply.remove
        \/ apply.on # "next" /\ apply' = NoApply
    BY <1>a, <2>1 DEF Activated, Applications
  <2>5. sub.on # "cur"
    <3>1. CASE phase = "starting"
      BY <3>1 DEF SubInv, ConnInv, Up
    <3>2. CASE phase = "overlap"
      BY <3>2, OneHolder DEF SubInv
    <3> QED
      BY <2>1, <3>1, <3>2
  <2>6. sub.on \in {"none", "next"}
    BY <1>a, <2>5 DEF Submissions
  <2> QED
    BY <1>a, <2>1, <2>2, <2>3, <2>4, <2>6, Values DEF SubInv
<1>9. CASE RunStops
  <2>1. UNCHANGED <<update, live, instruments, queue, Added>> /\ apply' = NoApply
    BY <1>9 DEF RunStops, Unrun, Added
  <2>2. /\ sub'.add = sub.add /\ sub'.remove = sub.remove
        /\ \/ sub.on # "none" /\ sub'.stage = "failed" /\ sub'.on = "none"
           \/ sub.on = "none" /\ sub'.stage = sub.stage /\ sub'.on = sub.on
    BY <1>9, <1>a DEF RunStops, Submissions
  <2> QED
    BY <2>1, <2>2, Values DEF SubInv
<1>10. CASE Put \/ SubmitTimeout
  <2>1. UNCHANGED <<update, live, instruments, apply, Added>>
    BY <1>10 DEF Put, SubmitTimeout, Unsubmitted, Added
  <2>2. /\ sub'.add = sub.add /\ sub'.remove = sub.remove
        /\ \/ /\ sub.stage = "put" /\ sub'.stage = "queued" /\ sub'.on = sub.on /\ queue' = "live"
           \/ /\ sub.stage \in {"queued", "started", "acked"} /\ sub'.stage = "failed"
              /\ sub'.on = "none" /\ queue' = (IF sub.stage = "queued" THEN "stale" ELSE queue)
    BY <1>10, <1>a DEF Put, SubmitTimeout, Submissions
  <2> QED
    BY <2>1, <2>2 DEF SubInv
<1>11. CASE UpdateSubmits
  <2>1. UNCHANGED <<live, instruments, apply, queue>> /\ HasLock("update") /\ update.step = "lock"
    BY <1>11 DEF UpdateSubmits, Unupdated
  <2>2. update'.step = "submit" /\ update'.target = update.target
    BY <1>11, <1>a DEF UpdateSubmits, Updates
  <2>3. /\ sub'.stage = "put" /\ sub'.on = "none" /\ sub'.add = Added
        /\ sub'.remove = instruments \ update.target
    BY <1>11 DEF UpdateSubmits, NoSub
  <2>4. Added' = Added /\ live.step # "submit"
    BY <2>1, <2>2, OneHolder DEF Added
  <2> QED
    BY <2>1, <2>2, <2>3, <2>4 DEF SubInv
<1>12. CASE UpdateConfirmed \/ UpdateFails \/ UpdateCommits
  <2>1. UNCHANGED <<live, apply, queue>> /\ update.step \in {"submit", "fresh"}
    BY <1>12 DEF UpdateConfirmed, UpdateFails, UpdateCommits, AddedFresh, Unupdated
  <2>2. live.step # "submit"
    BY <2>1, OneHolder
  <2>3. /\ update'.step \in {"idle", "fresh"}
        /\ update'.step = "fresh" => sub.stage = "done"
    BY <1>12, <1>a, Values DEF UpdateConfirmed, UpdateFails, UpdateCommits, Updates
  <2>4. sub' = NoSub \/ (sub' = sub /\ update.step = "fresh")
    BY <1>12 DEF UpdateConfirmed, UpdateFails, UpdateCommits, AddedFresh
  <2>5. queue # "live"
    BY <1>12, <2>1, <2>2 DEF UpdateConfirmed, UpdateFails, UpdateCommits, AddedFresh, SubInv
  <2> QED
    BY <2>1, <2>2, <2>3, <2>4, <2>5, Values DEF SubInv
<1>13. CASE UpdateRequest
  <2>1. UNCHANGED <<live, apply, queue, sub>> /\ update.step = "idle"
    BY <1>13 DEF UpdateRequest, Unupdated
  <2>2. update'.step = "lock"
    BY <1>13, Values DEF UpdateRequest, Updates
  <2> QED
    BY <2>1, <2>2 DEF SubInv
<1>14. CASE RefreshSubmits
  <2>1. /\ UNCHANGED <<update, instruments, apply, queue, Added>> /\ HasLock("refresh")
        /\ live.step = "lock"
    BY <1>14 DEF RefreshSubmits, Unlived, Added
  <2>2. live'.step = "submit"
    BY <1>14, <1>a DEF RefreshSubmits, Loops
  <2>3. sub'.stage = "put" /\ sub'.on = "none" /\ sub'.add = sub'.remove
    BY <1>14 DEF RefreshSubmits, NoSub
  <2>4. update.step \notin {"submit", "fresh"}
    BY <2>1, OneHolder
  <2> QED
    BY <2>1, <2>2, <2>3, <2>4 DEF SubInv
<1>15. CASE RefreshConfirmed \/ RefreshFails
  <2>1. UNCHANGED <<update, instruments, apply, queue, Added>> /\ live.step \in {"submit", "fresh"}
    BY <1>15 DEF RefreshConfirmed, RefreshFails, Unlived, Added
  <2>2. live'.step # "submit"
    BY <1>15, <1>a, Values DEF RefreshConfirmed, RefreshFails, Loops
  <2>3. \/ sub' = NoSub /\ live.step = "submit" /\ sub.stage \in {"done", "failed"}
        \/ sub' = sub /\ live.step = "fresh"
    BY <1>15 DEF RefreshConfirmed, RefreshFails
  <2> QED
    BY <2>1, <2>2, <2>3, OneHolder, Values DEF SubInv
<1>16. CASE Scan \/ RefreshWaits \/ Refreshed \/ KeyRemoved \/ LiveStops
  <2>1. UNCHANGED <<sub, update, instruments, apply, queue, Added>>
    BY <1>16 DEF Scan, RefreshWaits, Refreshed, KeyRemoved, LiveStops, Unlived, Added
  <2>2. live.step # "submit" /\ live'.step # "submit"
    BY <1>16, <1>a, Values DEF Scan, RefreshWaits, Refreshed, KeyRemoved, LiveStops, Loops
  <2> QED
    BY <2>1, <2>2 DEF SubInv
<1>17. CASE StartConnection \/ TransportReady \/ OverloadEnds \/ StartReplacement
            \/ ReplacementReady \/ Rotate \/ Stop \/ Tick \/ UNCHANGED vars
  <2>1. UNCHANGED <<sub, update, instruments, apply, queue, live>>
    BY <1>17 DEF StartConnection, TransportReady, OverloadEnds, StartReplacement,
       ReplacementReady, Rotate, Stop, Tick, vars, Unrun
  <2> QED
    BY <2>1 DEF SubInv, Added
<1> QED
  BY <1>1, <1>2, <1>3, <1>4, <1>5, <1>6, <1>7, <1>8, <1>9, <1>10, <1>11, <1>12, <1>13, <1>14,
     <1>15, <1>16, <1>17
     DEF Next, Connection, Runner, Waits, Updater, Liveness, Environment, Conns

(***************************************************************************)
(* The subscriptions agree.                                                *)
(***************************************************************************)

\* Outside a rotation the route has one connection.
LEMMA OneLive ==
  ASSUME Types, LockInv, ConnInv, phase \notin {"replacing", "overlap"} \/ update.step \in {"submit", "fresh"},
         NEW c \in Conns, NEW d \in Conns, Live(c), Live(d)
  PROVE  c = d
<1>1. phase \notin {"replacing", "overlap"} /\ phase \in Phases
  BY OneHolder DEF Types
<1> QED
  BY <1>1 DEF ConnInv, Live, Conns, Phases

LEMMA AgreeAbandoned ==
  ASSUME Types, SubInv, AgreeInv, NEW c \in Conns, Abandoned(c), ~Live(c)', OnlyOf(c),
         UNCHANGED <<update, instruments, lastEvent, reconnect>>
  PROVE  AgreeInv'
<1> SUFFICES ASSUME NEW d \in Conns, Live(d)', ~Pardoned(d)' PROVE Subscribed(d)'
  BY DEF AgreeInv
<1>1. d # c /\ conn'[d] = conn[d] /\ Added' = Added
  BY DEF OnlyOf, Added
<1>2. Live(d) /\ ~Pardoned(d)
  BY <1>1 DEF Live, Pardoned
<1>3. Subscribed(d)
  BY <1>2 DEF AgreeInv
<1>4. d # "none"
  BY DEF Conns
<1> QED
  BY <1>1, <1>3, <1>4, AbandonedEffect, Values DEF Subscribed

\* The steps that leave connections, updates and events alone.
LEMMA AgreeStutter ==
  ASSUME AgreeInv, UNCHANGED <<conn, apply, update, instruments, lastEvent>>,
         reconnect => reconnect', sub' = sub \/ update.step # "submit"
  PROVE  AgreeInv'
<1> SUFFICES ASSUME NEW d \in Conns, Live(d)', ~Pardoned(d)' PROVE Subscribed(d)'
  BY DEF AgreeInv
<1>1. Live(d) /\ ~Pardoned(d) /\ Added' = Added
  BY DEF Live, Pardoned, Added
<1>2. Subscribed(d)
  BY <1>1 DEF AgreeInv
<1> QED
  BY <1>1, <1>2 DEF Subscribed

LEMMA AgreeApplied ==
  ASSUME Types, LockInv, ConnInv, SubInv, AgreeInv, NEW c \in Conns, Applied(c)
  PROVE  AgreeInv'
<1> SUFFICES ASSUME NEW d \in Conns, Live(d)', ~Pardoned(d)' PROVE Subscribed(d)'
  BY DEF AgreeInv
<1>a. /\ sub \in Submissions /\ apply \in Applications /\ "none" \notin Conns
  BY DEF Types, Conns
<1>1. /\ UNCHANGED <<update, instruments, lastEvent, reconnect, live, Added>>
      /\ apply.on = c /\ apply.step = "requests"
  BY DEF Applied, Unsubmitted, Added
<1>2. /\ OnlyOf(c) /\ conn'[c].st = conn[c].st
      /\ conn'[c].active = (conn[c].active \ apply.remove) \cup apply.add
      /\ conn'[c].forgotten = conn[c].forgotten
  BY ConnectionEffects
<1>3. Live(d) /\ ~Pardoned(d) /\ Live(c)
  BY <1>a, <1>1, <1>2 DEF Live, Pardoned, OnlyOf, ConnInv, Up
<1>4. Subscribed(d)
  BY <1>3 DEF AgreeInv
<1>5. apply'.step # "requests"
  <2>1. apply' = IF apply.add # {} THEN [apply EXCEPT !.step = "snapshots"] ELSE NoApply
    BY DEF Applied
  <2> QED
    BY <1>a, <2>1, Values DEF Applications
<1>6. update.step # "fresh"
  BY <1>a, <1>1 DEF SubInv
<1>7. \/ sub.on # c /\ sub' = sub /\ sub.on = "none" /\ sub.stage \notin {"acked", "done"}
      \/ sub.on = c /\ sub.stage = "started" /\ sub'.stage \in {"acked", "done"}
  <2>1. CASE sub.on # c
    BY <1>a, <1>1, <2>1 DEF Applied, SubInv
  <2>2. CASE sub.on = c
    <3>1. sub'.stage \in {"acked", "done"}
      BY <1>a, <2>2 DEF Applied, Submissions
    <3> QED
      BY <1>a, <1>1, <2>2, <3>1 DEF SubInv
  <2> QED
    BY <2>1, <2>2
<1>8. CASE d # c
  <2>1. update.step # "submit"
    BY <1>3, <1>8, OneLive
  <2>2. conn'[d] = conn[d]
    BY <1>2, <1>8 DEF OnlyOf
  <2> QED
    BY <1>1, <1>4, <1>5, <1>6, <2>1, <2>2 DEF Subscribed
<1>9. CASE d = c
  <2>1. \/ apply.add = apply.remove
        \/ update.step = "submit" /\ (sub.on = c \/ sub.stage = "failed")
    BY <1>1, <1>4, <1>9 DEF Subscribed
  <2>2. ASSUME update.step = "submit", sub.on = c PROVE update.target \subseteq conn'[c].active
    <3>1. apply.add = update.target \ instruments /\ apply.remove = instruments \ update.target
      BY <1>a, <2>2 DEF SubInv, Added
    <3>2. instruments \subseteq conn[c].active
      BY <1>4, <1>7, <1>9, <2>2 DEF Subscribed
    <3> QED
      BY <1>2, <3>1, <3>2
  <2>3. ASSUME ~(update.step = "submit" /\ (sub.on = c \/ sub.stage = "failed"))
        PROVE  conn[c].active \subseteq conn'[c].active
    BY <1>2, <2>1, <2>3
  <2>4. CASE update.step = "submit" /\ sub.on = c
    BY <1>1, <1>5, <1>7, <1>9, <2>2, <2>4 DEF Subscribed
  <2>5. CASE update.step = "submit" /\ sub.on # c
    BY <1>1, <1>4, <1>5, <1>7, <1>9, <2>3, <2>5 DEF Subscribed
  <2>6. CASE update.step # "submit"
    BY <1>1, <1>4, <1>5, <1>6, <1>9, <2>3, <2>6 DEF Subscribed
  <2> QED
    BY <2>4, <2>5, <2>6
<1> QED
  BY <1>8, <1>9

LEMMA AgreeConnections ==
  ASSUME Types, LockInv, ConnInv, SubInv, AgreeInv, NEW c \in Conns,
         \/ Connected(c) \/ Bootstrapped(c) \/ AuditFails(c) \/ Fails(c) \/ ServerDrops(c)
         \/ Take(c) \/ Applied(c) \/ SnapshotsBridged(c)
  PROVE  AgreeInv'
<1>a. /\ sub \in Submissions /\ apply \in Applications /\ "none" \notin Conns
  BY DEF Types, Conns
<1>1. CASE Connected(c) \/ Bootstrapped(c) \/ ServerDrops(c)
  <2> SUFFICES ASSUME NEW d \in Conns, Live(d)', ~Pardoned(d)' PROVE Subscribed(d)'
    BY DEF AgreeInv
  <2>1. UNCHANGED <<sub, apply, update, instruments, lastEvent, reconnect, Added>>
    BY <1>1 DEF Connected, Bootstrapped, ServerDrops, Unconnected, Added
  <2>2. /\ conn'[d].active = conn[d].active /\ conn'[d].server \subseteq conn[d].server
        /\ conn'[d].forgotten = conn[d].forgotten /\ Live(d)
    BY <1>1, ConnectionEffects DEF OnlyOf, Live
  <2>3. Subscribed(d)
    BY <2>1, <2>2 DEF AgreeInv, Pardoned
  <2> QED
    BY <2>1, <2>2, <2>3 DEF Subscribed
<1>2. CASE AuditFails(c) \/ Fails(c)
  <2>1. UNCHANGED <<update, instruments, lastEvent, reconnect>>
    BY <1>2 DEF AuditFails, Fails, Unconnected
  <2>2. Abandoned(c) /\ ~Live(c)' /\ OnlyOf(c)
    BY <1>2, ConnectionEffects DEF Live
  <2> QED
    BY <2>1, <2>2, AgreeAbandoned
<1>3. CASE Take(c)
  <2>1. UNCHANGED <<update, live, instruments, lastEvent, reconnect, conn, Added>>
    BY <1>3 DEF Take, Unsubmitted, Added
  <2>2. CASE queue = "live"
    <3> SUFFICES ASSUME NEW d \in Conns, Live(d)', ~Pardoned(d)' PROVE Subscribed(d)'
      BY DEF AgreeInv
    <3>1. sub'.stage = "started" /\ sub'.on = c
      BY <1>3, <1>a, <2>2 DEF Take, Submissions
    <3>2. apply'.on = c /\ apply'.add = sub.add /\ apply'.remove = sub.remove
      BY <1>3, <2>2 DEF Take
    <3>3. Subscribed(d) /\ sub.stage = "queued"
      BY <2>1, <2>2 DEF AgreeInv, Pardoned, Live, SubInv
    <3>4. update.step = "submit" \/ sub.add = sub.remove
      BY <3>3 DEF SubInv
    <3> QED
      BY <2>1, <3>1, <3>2, <3>3, <3>4 DEF Subscribed
  <2>3. CASE queue # "live"
    <3>1. UNCHANGED <<sub, apply>>
      BY <1>3, <2>3 DEF Take
    <3> QED
      BY <2>1, <3>1, AgreeStutter
  <2> QED
    BY <2>2, <2>3
<1>4. CASE SnapshotsBridged(c)
  <2> SUFFICES ASSUME NEW d \in Conns, Live(d)', ~Pardoned(d)' PROVE Subscribed(d)'
    BY DEF AgreeInv
  <2>1. /\ UNCHANGED <<update, instruments, lastEvent, reconnect, conn, Added>>
        /\ apply.on = c /\ apply.step = "snapshots" /\ apply' = NoApply
    BY <1>4 DEF SnapshotsBridged, Unsubmitted, Added
  <2>2. \/ sub.on = c /\ sub.stage = "acked" /\ sub'.stage = "done"
        \/ sub' = sub
    BY <1>4, <1>a, <2>1 DEF SnapshotsBridged, Submissions, SubInv
  <2>3. Subscribed(d)
    BY <2>1 DEF AgreeInv, Pardoned, Live
  <2> QED
    BY <1>a, <2>1, <2>2, <2>3, Values DEF Subscribed
<1> QED
  BY <1>1, <1>2, <1>3, <1>4, AgreeApplied

LEMMA AgreeRunner ==
  ASSUME Types, LockInv, ConnInv, SubInv, AgreeInv, Runner \/ StartFails \/ ReplacementFails
  PROVE  AgreeInv'
<1>a. /\ conn \in [Conns -> Connections] /\ sub \in Submissions /\ apply \in Applications
      /\ "cur" \in Conns /\ "next" \in Conns /\ "none" \notin Conns
      /\ update \in Updates /\ lastEvent \in [Symbols -> Int] /\ instruments \subseteq Symbols
  BY DEF Types, Conns
<1>1. CASE StartConnection
  <2> SUFFICES ASSUME NEW d \in Conns, Live(d)', ~Pardoned(d)' PROVE Subscribed(d)'
    BY DEF AgreeInv
  <2>1. UNCHANGED <<sub, apply, update, instruments, lastEvent, Added>>
    BY <1>1 DEF StartConnection, Unrun, Added
  <2>2. /\ conn'["cur"] = conn["cur"] /\ conn'["next"] = Fresh /\ phase = "start"
        /\ ~AddedFresh /\ sub.stage # "done"
    BY <1>1, <1>a DEF StartConnection
  <2>3. d = "next" /\ conn["next"].st = "none" /\ conn["cur"].st = "none"
    BY <2>2 DEF Live, ConnInv, Conns
  <2>4. conn'[d].active = instruments /\ conn'[d].server = instruments
    BY <2>2, <2>3, FreshValue
  <2>5. apply.on = "none"
    <3>1. apply.on \in {"none", "cur", "next"}
      BY <1>a DEF Applications
    <3> QED
      BY <2>3, <3>1 DEF ConnInv, Up
  <2>6. sub.stage # "acked"
    BY <1>a, <2>5 DEF SubInv
  <2>7. ASSUME update.step = "fresh"
        PROVE  \E s \in Added \ conn'[d].server : lastEvent[s] <= update.since
    <3>1. PICK s \in update.target \ instruments : ~(lastEvent[s] > update.since)
      BY <2>2, <2>7 DEF AddedFresh
    <3>2. update.since \in Int /\ update.target \subseteq Symbols
      BY <1>a DEF Updates, Numbers
    <3>3. lastEvent[s] \in Int
      BY <1>a, <3>2
    <3>4. lastEvent[s] <= update.since
      BY <3>1, <3>2, <3>3
    <3> QED
      BY <2>4, <3>4 DEF Added
  <2> QED
    BY <2>1, <2>2, <2>3, <2>4, <2>5, <2>6, <2>7 DEF Subscribed
<1>2. CASE StartReplacement
  <2> SUFFICES ASSUME NEW d \in Conns, Live(d)', ~Pardoned(d)' PROVE Subscribed(d)'
    BY DEF AgreeInv
  <2>1. UNCHANGED <<sub, apply, update, instruments, lastEvent, reconnect, Added>>
    BY <1>2 DEF StartReplacement, Unrun, Added
  <2>2. /\ conn'["cur"] = conn["cur"] /\ conn'["next"] = Fresh /\ phase = "rotate"
        /\ HasLock("rotate")
    BY <1>2, <1>a DEF StartReplacement
  <2>3. update.step \notin {"submit", "fresh"} /\ apply.on # "next"
    BY <2>2, OneHolder DEF ConnInv, Up
  <2>4. CASE d = "cur"
    <3>1. Subscribed(d)
      BY <2>1, <2>2, <2>4 DEF AgreeInv, Live, Pardoned
    <3> QED
      BY <2>1, <2>2, <2>4, <3>1 DEF Subscribed
  <2>5. CASE d = "next"
    BY <2>1, <2>2, <2>3, <2>5, FreshValue DEF Subscribed
  <2> QED
    BY <2>4, <2>5 DEF Conns
<1>3. CASE TransportReady
  <2> SUFFICES ASSUME NEW d \in Conns, Live(d)', ~Pardoned(d)' PROVE Subscribed(d)'
    BY DEF AgreeInv
  <2>1. UNCHANGED <<sub, apply, update, instruments, lastEvent, reconnect, Added>>
    BY <1>3 DEF TransportReady, Unrun, Added
  <2>2. /\ conn'[d].st = conn[d].st /\ conn'[d].active = conn[d].active
        /\ conn'[d].server = conn[d].server /\ conn'[d].forgotten = conn[d].forgotten
    BY <1>3, <1>a DEF TransportReady, Connections
  <2>3. Subscribed(d)
    BY <2>1, <2>2 DEF AgreeInv, Live, Pardoned
  <2> QED
    BY <2>1, <2>2, <2>3 DEF Subscribed
<1>4. CASE ConnectionReady \/ Replace
  <2> SUFFICES ASSUME NEW d \in Conns, Live(d)', ~Pardoned(d)' PROVE Subscribed(d)'
    BY DEF AgreeInv
  <2>1. Activated /\ UNCHANGED <<update, instruments, lastEvent, Added>>
    BY <1>4 DEF ConnectionReady, Replace, Unrun, Added
  <2>2. d = "cur" /\ Live("next") /\ ~Pardoned("next")
    BY <2>1, ActivatedEffect DEF Live, Pardoned, Conns
  <2>3. Subscribed("next")
    BY <1>a, <2>2 DEF AgreeInv
  <2>4. sub'.stage = sub.stage /\ (sub.on = "next" => sub'.on = "cur")
    BY <1>a, <2>1 DEF Activated, Submissions
  <2>5. \/ /\ apply.on = "next" /\ apply'.step = apply.step
           /\ apply'.add = apply.add /\ apply'.remove = apply.remove
        \/ apply' = NoApply
    BY <1>a, <2>1 DEF Activated, Applications
  <2> QED
    BY <2>1, <2>2, <2>3, <2>4, <2>5, ActivatedEffect, Values DEF Subscribed
<1>5. CASE StartFails \/ ReplacementFails
  <2>1. UNCHANGED <<update, instruments, lastEvent, reconnect>> /\ Abandoned("next")
    BY <1>5 DEF StartFails, ReplacementFails, Unrun
  <2>2. ~Live("next")' /\ OnlyOf("next")
    BY <1>5, <1>a, Values DEF StartFails, ReplacementFails, Live, OnlyOf
  <2> QED
    BY <1>a, <2>1, <2>2, AgreeAbandoned
<1>6. CASE ConnectionLost
  <2>1. conn'["cur"] = NoConn /\ conn'["next"] = conn["next"] /\ phase = "wait"
    BY <1>6, <1>a DEF ConnectionLost
  <2> QED
    BY <2>1, Values DEF AgreeInv, Live, ConnInv, Conns
<1>7. CASE RunStops
  <2>1. conn'["cur"] = NoConn /\ conn'["next"] = NoConn
    BY <1>7 DEF RunStops
  <2> QED
    BY <2>1, Values DEF AgreeInv, Live, Conns
<1>8. CASE OverloadEnds \/ ReplacementReady
  <2>1. UNCHANGED <<conn, apply, sub, update, instruments, lastEvent, reconnect>>
    BY <1>8 DEF OverloadEnds, ReplacementReady, Unrun
  <2> QED
    BY <2>1, AgreeStutter
<1> QED
  BY <1>1, <1>2, <1>3, <1>4, <1>5, <1>6, <1>7, <1>8 DEF Runner

LEMMA AgreeUpdater ==
  ASSUME Types, LockInv, ConnInv, SubInv, AgreeInv,
         Put \/ SubmitTimeout \/ Updater \/ UpdateRequest \/ Tick
  PROVE  AgreeInv'
<1> SUFFICES ASSUME NEW d \in Conns, Live(d)', ~Pardoned(d)' PROVE Subscribed(d)'
  BY DEF AgreeInv
<1>a. /\ sub \in Submissions /\ update \in Updates /\ lastEvent \in [Symbols -> Int]
      /\ now \in Nat /\ "none" \notin Conns
  BY DEF Types, Conns
<1>b. UNCHANGED <<conn, apply>>
  BY DEF Put, SubmitTimeout, Updater, UpdateSubmits, UpdateConfirmed, UpdateCommits, UpdateFails,
         UpdateRequest, Tick, Unsubmitted, Unupdated
<1>c. ~UpdateFails /\ UNCHANGED reconnect
  <2>1. UpdateFails => reconnect'
    BY DEF UpdateFails, Requested
  <2>2. ~UpdateFails
    BY <2>1 DEF Pardoned
  <2> QED
    BY <2>2 DEF Put, SubmitTimeout, Updater, UpdateSubmits, UpdateConfirmed, UpdateCommits,
       UpdateRequest, Tick, Unsubmitted, Unupdated
<1>d. Live(d) /\ Subscribed(d)
  BY <1>b, <1>c DEF AgreeInv, Live, Pardoned
<1>1. CASE Put \/ SubmitTimeout
  <2>1. UNCHANGED <<update, instruments, lastEvent, Added>>
    BY <1>1 DEF Put, SubmitTimeout, Unsubmitted, Added
  <2>2. \/ sub.stage = "put" /\ sub'.stage = "queued" /\ sub'.on = sub.on
        \/ sub'.stage = "failed"
    BY <1>1, <1>a DEF Put, SubmitTimeout, Submissions
  <2> QED
    BY <1>b, <1>d, <2>1, <2>2 DEF Subscribed
<1>2. CASE UpdateRequest \/ UpdateSubmits
  <2>1. UNCHANGED instruments /\ update.step \in {"idle", "lock"}
    BY <1>2 DEF UpdateRequest, UpdateSubmits, Unupdated
  <2>2. \/ update'.step = "lock"
        \/ update'.step = "submit" /\ sub'.stage = "put"
    BY <1>2, <1>a, Values DEF UpdateRequest, UpdateSubmits, Updates, NoSub
  <2> QED
    BY <1>b, <1>d, <2>1, <2>2 DEF Subscribed
<1>3. CASE UpdateConfirmed
  <2>1. UNCHANGED <<instruments, lastEvent>> /\ update.step = "submit" /\ sub.stage = "done"
    BY <1>3 DEF UpdateConfirmed, Unupdated
  <2>2. update'.step = "fresh" /\ update'.target = update.target
    BY <1>3, <1>a DEF UpdateConfirmed, Updates
  <2>3. apply.on = "none"
    BY <2>1 DEF SubInv
  <2> QED
    BY <1>a, <1>b, <1>d, <2>1, <2>2, <2>3 DEF Subscribed
<1>4. CASE UpdateCommits
  <2>1. AddedFresh /\ instruments' = update.target /\ update'.step = "idle"
    BY <1>4, Values DEF UpdateCommits
  <2>2. ASSUME NEW s \in Added, lastEvent[s] <= update.since PROVE FALSE
    <3>1. s \in Symbols /\ update.since \in Int
      BY <1>a DEF Added, Updates, Numbers
    <3>2. lastEvent[s] \in Int /\ lastEvent[s] > update.since
      BY <1>a, <2>1, <3>1 DEF AddedFresh, Added
    <3> QED
      BY <2>2, <3>1, <3>2
  <2>3. update.target \subseteq conn[d].active
    BY <1>d, <2>1, <2>2 DEF Subscribed, AddedFresh
  <2>4. apply.on = "none"
    BY <2>1 DEF SubInv, AddedFresh
  <2> QED
    BY <1>a, <1>b, <2>1, <2>3, <2>4 DEF Subscribed
<1>5. CASE Tick
  <2>1. UNCHANGED <<sub, update, instruments, Added>>
    BY <1>5 DEF Tick, Added
  <2>2. ASSUME update.step = "fresh", NEW s \in Added \ conn[d].server, lastEvent[s] <= update.since
        PROVE  lastEvent'[s] = lastEvent[s]
    <3>1. s \in Symbols
      BY <1>a DEF Added, Updates
    <3>2. ASSUME s \in Received PROVE FALSE
      <4>1. PICK e \in Conns : Up(e) /\ s \in conn[e].server
        BY <3>2 DEF Received, Conns
      <4>2. e = d
        BY <1>d, <2>2, <4>1, OneLive DEF Live, Up
      <4> QED
        BY <2>2, <4>1, <4>2
    <3> QED
      BY <1>5, <3>1, <3>2 DEF Tick
  <2> QED
    BY <1>b, <1>d, <2>1, <2>2 DEF Subscribed
<1> QED
  BY <1>c, <1>1, <1>2, <1>3, <1>4, <1>5 DEF Updater

LEMMA AgreeInductive ==
  Types /\ LockInv /\ ConnInv /\ SubInv /\ AgreeInv /\ [Next]_vars => AgreeInv'
<1> SUFFICES ASSUME Types, LockInv, ConnInv, SubInv, AgreeInv, [Next]_vars PROVE AgreeInv'
  OBVIOUS
<1>1. CASE Liveness
  <2>1. UNCHANGED <<conn, apply, update, instruments, lastEvent>>
    BY <1>1 DEF Liveness, Scan, RefreshWaits, RefreshSubmits, RefreshConfirmed, Refreshed,
       RefreshFails, KeyRemoved, LiveStops, Unlived
  <2>2. reconnect => reconnect'
    BY <1>1 DEF Types, Liveness, Scan, RefreshWaits, RefreshSubmits, RefreshConfirmed, Refreshed,
       RefreshFails, KeyRemoved, LiveStops
  <2>3. sub' = sub \/ HasLock("refresh")
    BY <1>1 DEF Liveness, Scan, RefreshWaits, RefreshSubmits, RefreshConfirmed, Refreshed,
       RefreshFails, KeyRemoved, LiveStops, LockInv
  <2> QED
    BY <2>1, <2>2, <2>3, AgreeStutter, OneHolder
<1>2. CASE Stop \/ Rotate \/ UNCHANGED vars
  <2>1. UNCHANGED <<conn, apply, sub, update, instruments, lastEvent, reconnect>>
    BY <1>2 DEF Stop, Rotate, vars, Unrun
  <2> QED
    BY <2>1, AgreeStutter
<1> QED
  BY <1>1, <1>2, AgreeConnections, AgreeRunner, AgreeUpdater
     DEF Next, Connection, Waits, Environment, Conns

LEMMA InitialStates == ASSUME Init PROVE Types /\ LockInv /\ ConnInv /\ SubInv
<1>1. Types
  <2>1. conn \in [Conns -> Connections] /\ phase \in Phases /\ lock \in Seq(Tasks)
    BY Values DEF Init, Conns, Phases
  <2>2. /\ sub \in Submissions /\ queue \in {"empty", "live", "stale"} /\ apply \in Applications
        /\ update \in Updates /\ live \in Loops
    BY Values DEF Init
  <2>3. lastEvent \in [Symbols -> Int] /\ \A s \in Symbols : lastEvent[s] \in {0, -1}
    BY DEF Init
  <2>4. /\ now = 0 /\ gap = -1 /\ instruments \subseteq Symbols /\ reconnect \in BOOLEAN
    BY RouteAssumption DEF Init
  <2> QED
    BY <2>1, <2>2, <2>3, <2>4 DEF Types
<1>2. LockInv
  BY Values DEF Init, LockInv, In, Distinct
<1>3. ConnInv
  BY Values DEF Init, ConnInv, Conns
<1>4. SubInv
  BY Values DEF Init, SubInv
<1> QED
  BY <1>1, <1>2, <1>3, <1>4

\* A connection in use is subscribed to every instrument of the route, whatever
\* updates, refreshes, rotations and faults went before.
THEOREM SubscriptionsAlwaysAgree == Spec => []SubscriptionsAgree
<1> DEFINE Inv == Types /\ LockInv /\ ConnInv /\ SubInv /\ AgreeInv
<1>1. Init => Inv
  <2> SUFFICES ASSUME Init PROVE Inv
    OBVIOUS
  <2>1. AgreeInv
    BY Values DEF Init, AgreeInv, Live, Conns
  <2> QED
    BY <2>1, InitialStates
<1>2. Inv /\ [Next]_vars => Inv'
  BY TypesInductive, LockInductive, ConnInductive, SubInductive, AgreeInductive
<1>3. Inv => SubscriptionsAgree
  <2> SUFFICES ASSUME Inv, Steady, lock = <<>>, ~conn["cur"].forgotten
               PROVE  instruments \subseteq conn["cur"].active
    BY DEF SubscriptionsAgree
  <2>1. update.step = "idle"
    BY DEF LockInv, In
  <2>2. "cur" \in Conns /\ Live("cur") /\ ~Pardoned("cur")
    BY DEF Steady, Conns, Live, Up, Pardoned
  <2> QED
    BY <2>1, <2>2 DEF AgreeInv, Subscribed
<1> QED
  BY <1>1, <1>2, <1>3, PTL DEF Spec

(***************************************************************************)
(* The outages are covered.                                                *)
(***************************************************************************)

LEMMA KeyInductive ==
  ASSUME {} \notin Targets PROVE Types /\ KeyInv /\ [Next]_vars => KeyInv'
<1> SUFFICES ASSUME Types, KeyInv, [Next]_vars PROVE KeyInv'
  OBVIOUS
<1>a. /\ update \in Updates /\ lastEvent \in [Symbols -> Int] /\ now \in Nat
      /\ instruments \subseteq Symbols /\ update.target \subseteq Symbols
  BY DEF Types, Updates
<1>1. CASE UpdateRequest
  <2>1. UNCHANGED <<instruments, lastEvent>>
    BY <1>1 DEF UpdateRequest
  <2>2. PICK target \in Targets : update' = [NoUpdate EXCEPT !.step = "lock", !.target = target]
    BY <1>1 DEF UpdateRequest
  <2>3. update'.step = "lock" /\ update'.target = target
    BY <2>2, Values DEF Updates
  <2> QED
    BY <2>1, <2>3 DEF KeyInv
<1>2. CASE UpdateSubmits
  <2>1. UNCHANGED instruments /\ update.step = "lock" /\ update'.target = update.target
    BY <1>2, <1>a DEF UpdateSubmits, Unupdated, Updates
  <2>2. Added' = Added /\ Added \subseteq Symbols
    BY <1>a, <2>1 DEF Added
  <2>3. \A s \in Symbols : lastEvent'[s] = IF s \in Added THEN now ELSE lastEvent[s]
    BY <1>2 DEF UpdateSubmits
  <2>4. \A s \in Symbols : s \in Added \/ lastEvent[s] # None => lastEvent'[s] # None
    BY <1>a, <2>3
  <2> QED
    BY <1>a, <2>1, <2>2, <2>4 DEF KeyInv
<1>3. CASE UpdateConfirmed
  <2>1. UNCHANGED <<instruments, lastEvent>> /\ update.step = "submit" /\ update'.target = update.target
    BY <1>3, <1>a DEF UpdateConfirmed, Unupdated, Updates
  <2> QED
    BY <2>1 DEF KeyInv, Added
<1>4. CASE UpdateCommits
  <2>1. instruments' = update.target /\ update'.step = "idle" /\ update.step = "fresh"
    BY <1>4, Values DEF UpdateCommits, AddedFresh
  <2>2. ASSUME NEW s \in update.target PROVE lastEvent'[s] # None
    BY <1>4, <1>a DEF UpdateCommits
  <2> QED
    BY <2>1, <2>2 DEF KeyInv
<1>5. CASE UpdateFails
  <2>1. instruments' = instruments /\ update'.step = "idle"
    BY <1>5, Values DEF UpdateFails, Unupdated
  <2>2. ASSUME NEW s \in instruments PROVE lastEvent'[s] = lastEvent[s]
    BY <1>5, <1>a DEF UpdateFails
  <2> QED
    BY <2>1, <2>2 DEF KeyInv
<1>6. CASE Tick
  <2>1. UNCHANGED <<instruments, update, Added>> /\ Added \subseteq Symbols
    BY <1>6, <1>a DEF Tick, Added
  <2>2. \A s \in Symbols : lastEvent'[s] = lastEvent[s] \/ lastEvent'[s] = now + 1
    BY <1>6 DEF Tick
  <2>3. \A s \in Symbols : lastEvent[s] # None => lastEvent'[s] # None
    BY <1>a, <2>2
  <2> QED
    BY <1>a, <2>1, <2>3 DEF KeyInv
<1>7. CASE ~(Updater \/ UpdateRequest \/ Tick)
  <2>1. UNCHANGED <<instruments, update, lastEvent>>
    <3>1. CASE Connection
      BY <3>1 DEF Connection, Connected, Bootstrapped, AuditFails, Take, Applied,
         SnapshotsBridged, Unconnected, Unsubmitted
    <3>2. CASE Runner \/ Waits \/ Put
      BY <3>2 DEF Runner, Waits, Put, StartConnection, TransportReady, ConnectionReady,
         OverloadEnds, ConnectionLost, StartReplacement, ReplacementReady, Replace, RunStops,
         SubmitTimeout, StartFails, ReplacementFails, Unrun, Unsubmitted
    <3>3. CASE Liveness
      BY <3>3 DEF Liveness, Scan, RefreshWaits, RefreshSubmits, RefreshConfirmed, Refreshed,
         RefreshFails, KeyRemoved, LiveStops, Unlived
    <3>4. CASE Environment \/ UNCHANGED vars
      BY <1>7, <3>4 DEF Environment, Stop, Rotate, Fails, ServerDrops, Unrun, Unconnected, vars
    <3> QED
      BY <1>7, <3>1, <3>2, <3>3, <3>4 DEF Next
  <2> QED
    BY <2>1 DEF KeyInv, Added
<1> QED
  BY <1>1, <1>2, <1>3, <1>4, <1>5, <1>6, <1>7 DEF Updater

\* The steps that neither let time pass nor move the runner or its gap.
LEMMA OutageKept ==
  ASSUME OutageInv, UNCHANGED <<now, accounted, connected, gap, phase>>,
         conn'["next"].trans => conn["next"].trans /\ conn'["next"].st = "up",
         conn'["next"].st = "connecting" => conn["next"].st = "connecting",
         \A c \in Conns : Live(c)' => Live(c),
         \A t \in Nat : After(t) /\ (\A c \in Conns : ~Live(c)) => After(t)'
  PROVE  OutageInv'
<1>1. \A t \in Nat : Open(t)' <=> Open(t)
  BY DEF Open
<1> QED
  BY <1>1 DEF OutageInv, Up

LEMMA AfterKept ==
  ASSUME UNCHANGED <<lastEvent, update, instruments>>,
         sub'.stage = "done" => sub.stage = "done" \/ update.step # "submit"
  PROVE  \A t \in Nat : After(t) => After(t)'
BY DEF After, Added

LEMMA OutageConnections ==
  ASSUME Types, ConnInv, SubInv, OutageInv, NEW c \in Conns,
         \/ Connected(c) \/ Bootstrapped(c) \/ AuditFails(c) \/ Fails(c) \/ ServerDrops(c)
         \/ Take(c) \/ Applied(c) \/ SnapshotsBridged(c)
  PROVE  OutageInv'
<1>a. /\ sub \in Submissions /\ apply \in Applications /\ "none" \notin Conns
      /\ "next" \in Conns
  BY DEF Types, Conns
<1>b. UNCHANGED <<now, accounted, connected, gap, phase, lastEvent, update, instruments>>
  BY DEF Connected, Bootstrapped, AuditFails, Fails, ServerDrops, Take, Applied, SnapshotsBridged,
         Unconnected, Unsubmitted
<1>1. /\ conn'["next"].trans => conn["next"].trans /\ conn'["next"].st = "up"
      /\ conn'["next"].st = "connecting" => conn["next"].st = "connecting"
      /\ \A d \in Conns : Live(d)' => Live(d)
  BY <1>a, ConnectionEffects DEF OutageInv, Up, OnlyOf, Live
<1>2. CASE Connected(c) \/ Bootstrapped(c) \/ ServerDrops(c)
  <2>1. UNCHANGED sub
    BY <1>2 DEF Connected, Bootstrapped, ServerDrops
  <2> QED
    BY <1>b, <1>1, <2>1, AfterKept, OutageKept
<1>3. CASE AuditFails(c) \/ Fails(c)
  <2>1. sub'.stage = "done" => sub.stage = "done"
    BY <1>3, ConnectionEffects, AbandonedEffect
  <2> QED
    BY <1>b, <1>1, <2>1, AfterKept, OutageKept
<1>4. CASE Take(c)
  <2>1. sub'.stage = "done" => sub.stage = "done"
    BY <1>4, <1>a DEF Take, Submissions
  <2> QED
    BY <1>b, <1>1, <2>1, AfterKept, OutageKept
<1>5. CASE Applied(c) \/ SnapshotsBridged(c)
  <2>1. Live(c)
    BY <1>5, <1>a DEF Applied, SnapshotsBridged, ConnInv, Up, Live
  <2> QED
    BY <1>b, <1>1, <2>1, OutageKept
<1> QED
  BY <1>2, <1>3, <1>4, <1>5

\* The gap that is opened reaches back to an open moment.
LEMMA GapReachesBack ==
  ASSUME Types, KeyInv, OutageInv, gap = None, NEW t \in Nat, Open(t) PROVE Oldest <= t
<1>1. PICK k \in instruments : lastEvent[k] # None
  BY DEF KeyInv
<1>2. k \in Symbols /\ k \notin Added /\ lastEvent[k] \in Int
  BY DEF Types, Added
<1>3. lastEvent[k] <= t
  BY <1>2 DEF OutageInv, After
<1>4. Oldest \in Nat /\ Oldest <= lastEvent[k]
  BY <1>1, <1>2, OldestEvent
<1> QED
  BY <1>2, <1>3, <1>4

LEMMA OutageRunner ==
  ASSUME Types, ConnInv, SubInv, KeyInv, OutageInv,
         Runner \/ StartFails \/ ReplacementFails \/ Rotate \/ Stop
  PROVE  OutageInv'
<1>a. /\ conn \in [Conns -> Connections] /\ sub \in Submissions /\ now \in Nat /\ gap \in Int
      /\ "cur" \in Conns /\ "next" \in Conns /\ gap >= -1 /\ gap <= now
      /\ Oldest \in Nat /\ Oldest # None
  BY OldestEvent DEF Types, Conns
<1>b. UNCHANGED <<now, lastEvent, update, instruments>>
  BY DEF Runner, StartConnection, TransportReady, ConnectionReady, OverloadEnds, ConnectionLost,
         StartReplacement, ReplacementReady, Replace, RunStops, StartFails, ReplacementFails,
         Rotate, Stop, Unrun
<1>1. CASE TransportReady
  <2>1. /\ conn["next"].st = "up" /\ conn'["next"].st = "up" /\ UNCHANGED <<phase, connected>>
        /\ gap' = None
    BY <1>1, <1>a DEF TransportReady, Up, Connections
  <2>2. ASSUME NEW t \in Nat, Open(t)' PROVE FALSE
    <3>1. accounted' = accounted \cup (Instruments \X (IF gap = None THEN {} ELSE gap .. now - 1))
      BY <1>1 DEF TransportReady, Closed
    <3>2. PICK s \in Instruments : <<s, t>> \notin accounted'
      BY <2>2 DEF Open
    <3>3. t \in 0 .. now - 1
      BY <1>b, <2>2 DEF Open
    <3>4. Open(t)
      BY <3>1, <3>2, <3>3 DEF Open
    <3>5. CASE gap = None
      BY <1>a, <2>1, <3>4, <3>5 DEF OutageInv, Live
    <3>6. CASE gap # None
      <4>1. gap <= t
        BY <3>4, <3>6 DEF OutageInv
      <4>2. t \in gap .. now - 1
        BY <1>a, <3>3, <4>1
      <4> QED
        BY <3>1, <3>2, <3>6, <4>2
    <3> QED
      BY <3>5, <3>6
  <2>3. phase \notin {"start", "overload"}
    BY <2>1 DEF ConnInv
  <2> QED
    BY <2>1, <2>2, <2>3 DEF OutageInv, Up
<1> SUFFICES ASSUME ~TransportReady PROVE OutageInv'
  BY <1>1
<1>c. accounted' = accounted /\ \A t \in Nat : Open(t)' <=> Open(t)
  <2>1. accounted' = accounted
    BY DEF Runner, StartConnection, ConnectionReady, OverloadEnds, ConnectionLost,
       StartReplacement, ReplacementReady, Replace, RunStops, StartFails, ReplacementFails,
       Rotate, Stop
  <2> QED
    BY <1>b, <2>1 DEF Open
<1>2. CASE StartConnection
  <2>1. /\ conn'["next"].st = "connecting" /\ ~conn'["next"].trans /\ phase = "start"
        /\ phase' = "starting" /\ UNCHANGED <<gap, connected>>
    BY <1>2, <1>a, FreshValue DEF StartConnection
  <2>2. gap = None => \A t \in Nat : ~Open(t)
    BY <2>1 DEF OutageInv
  <2> QED
    BY <1>c, <2>1, <2>2 DEF OutageInv
<1>3. CASE ConnectionReady
  <2>1. /\ phase = "starting" /\ conn["next"].st = "up" /\ conn["next"].trans /\ Activated
        /\ UNCHANGED gap
    BY <1>3 DEF ConnectionReady, Up, Started
  <2>2. gap = None /\ \A t \in Nat : ~Open(t)
    BY <1>a, <2>1 DEF OutageInv, Live
  <2> QED
    BY <1>c, <2>1, <2>2, ActivatedEffect DEF OutageInv
<1>4. CASE StartFails
  <2>1. /\ phase' \in {"start", "overload"} /\ conn'["next"] = NoConn /\ UNCHANGED connected
        /\ phase = "starting" /\ gap' = IF gap = None THEN Oldest ELSE gap
    BY <1>4, <1>a DEF StartFails, Opened
  <2>2. gap' # None /\ \A t \in Nat : Open(t) => gap' <= t
    BY <1>a, <2>1, GapReachesBack DEF OutageInv
  <2> QED
    BY <1>c, <2>1, <2>2, Values DEF OutageInv
<1>5. CASE ConnectionLost
  <2>1. /\ phase' \in {"start", "overload"} /\ conn'["next"] = conn["next"] /\ UNCHANGED connected
        /\ phase = "wait" /\ gap' = Oldest
    BY <1>5, <1>a DEF ConnectionLost, LostBoth, Opened
  <2>2. gap = None /\ ~conn'["next"].trans
    BY <2>1 DEF OutageInv, Up, ConnInv
  <2>3. gap' # None /\ \A t \in Nat : Open(t) => gap' <= t
    BY <1>a, <2>1, <2>2, GapReachesBack
  <2> QED
    BY <1>c, <2>1, <2>2, <2>3 DEF OutageInv
<1>6. CASE Rotate
  <2>1. /\ phase = "wait" /\ phase' = "rotate" /\ conn["cur"].st = "up"
        /\ UNCHANGED <<conn, gap, connected>>
    BY <1>6 DEF Rotate, Up
  <2>2. gap = None /\ \A t \in Nat : ~Open(t)
    BY <1>a, <2>1 DEF OutageInv, Live
  <2> QED
    BY <1>c, <2>1, <2>2 DEF OutageInv, Up
<1>7. CASE StartReplacement \/ ReplacementReady \/ ReplacementFails \/ Replace
  <2>1. /\ phase \in {"rotate", "replacing", "overlap"} /\ UNCHANGED gap
        /\ phase' \in {"wait", "replacing", "overlap"}
    BY <1>7 DEF StartReplacement, ReplacementReady, ReplacementFails, Replace, Activated
  <2>2. gap = None /\ \A t \in Nat : ~Open(t)
    BY <2>1 DEF OutageInv
  <2>3. conn'["next"].trans => conn'["next"].st = "up"
    <3>1. CASE StartReplacement
      BY <3>1, <1>a, FreshValue DEF StartReplacement
    <3>2. CASE ReplacementReady
      BY <3>2 DEF ReplacementReady, Up
    <3>3. CASE ReplacementFails
      BY <3>3, <1>a, Values DEF ReplacementFails
    <3>4. CASE Replace
      BY <3>4, ActivatedEffect DEF Replace
    <3> QED
      BY <1>7, <3>1, <3>2, <3>3, <3>4
  <2> QED
    BY <1>c, <2>1, <2>2, <2>3 DEF OutageInv, Up
<1>8. CASE RunStops
  <2>1. /\ phase' = "stopped" /\ UNCHANGED <<gap, connected>>
        /\ conn'["cur"] = NoConn /\ conn'["next"] = NoConn
    BY <1>8 DEF RunStops
  <2>2. sub'.stage = "done" => sub.stage = "done"
    BY <1>8, <1>a DEF RunStops, Submissions
  <2>3. \A t \in Nat : After(t) => After(t)'
    BY <1>b, <2>2, AfterKept
  <2>4. \A c \in Conns : ~Live(c)'
    BY <2>1, Values DEF Conns, Live
  <2> QED
    BY <1>c, <2>1, <2>3, <2>4, Values DEF OutageInv
<1>9. CASE OverloadEnds
  <2>1. /\ phase = "overload" /\ phase' = "start" /\ UNCHANGED <<gap, connected, conn, sub>>
    BY <1>9 DEF OverloadEnds
  <2>2. \A t \in Nat : After(t) => After(t)'
    BY <1>b, <2>1, AfterKept
  <2>3. \A c \in Conns : Live(c)' => Live(c)
    BY <2>1 DEF Live
  <2> QED
    BY <1>c, <2>1, <2>2, <2>3 DEF OutageInv, Up
<1>10. CASE Stop
  <2>1. UNCHANGED <<accounted, connected, gap, phase, conn, sub>>
    BY <1>10 DEF Stop
  <2>2. \A t \in Nat : After(t) => After(t)'
    BY <1>b, <2>1, AfterKept
  <2>3. \A c \in Conns : Live(c)' => Live(c)
    BY <2>1 DEF Live
  <2> QED
    BY <1>b, <1>c, <2>1, <2>2, <2>3 DEF OutageInv, Up
<1> QED
  BY <1>2, <1>3, <1>4, <1>5, <1>6, <1>7, <1>8, <1>9, <1>10 DEF Runner

LEMMA OutageUpdater ==
  ASSUME Types, LockInv, SubInv, KeyInv, OutageInv,
         Put \/ SubmitTimeout \/ Updater \/ UpdateRequest \/ Liveness \/ UNCHANGED vars
  PROVE  OutageInv'
<1>a. /\ sub \in Submissions /\ update \in Updates /\ lastEvent \in [Symbols -> Int]
      /\ now \in Nat
  BY DEF Types
<1>b. UNCHANGED <<now, accounted, connected, gap, phase, conn>>
  BY DEF Put, SubmitTimeout, Updater, UpdateSubmits, UpdateConfirmed, UpdateCommits, UpdateFails,
     Liveness, Scan, RefreshWaits, RefreshSubmits, RefreshConfirmed, Refreshed, RefreshFails,
     KeyRemoved, LiveStops, UpdateRequest, vars, Unsubmitted, Unupdated, Unlived
<1>c. /\ conn'["next"].trans => conn["next"].trans /\ conn'["next"].st = "up"
      /\ conn'["next"].st = "connecting" => conn["next"].st = "connecting"
      /\ \A c \in Conns : Live(c)' => Live(c)
  BY <1>b DEF OutageInv, Up, Live
<1> SUFFICES ASSUME NEW t \in Nat, After(t) PROVE After(t)'
  BY <1>b, <1>c, OutageKept
<1>1. CASE Put \/ SubmitTimeout \/ Liveness \/ UNCHANGED vars
  <2>1. UNCHANGED <<update, instruments, lastEvent>>
    BY <1>1 DEF Put, SubmitTimeout, Liveness, Scan, RefreshWaits, RefreshSubmits,
       RefreshConfirmed, Refreshed, RefreshFails, KeyRemoved, LiveStops, vars, Unsubmitted, Unlived
  <2>2. CASE Put \/ SubmitTimeout
    <3>1. sub'.stage # "done"
      BY <1>a, <2>2 DEF Put, SubmitTimeout, Submissions
    <3> QED
      BY <2>1, <3>1, AfterKept
  <2>3. CASE Liveness \/ UNCHANGED vars
    <3>1. sub' = sub \/ HasLock("refresh")
      BY <2>3 DEF Liveness, Scan, RefreshWaits, RefreshSubmits, RefreshConfirmed, Refreshed,
         RefreshFails, KeyRemoved, LiveStops, LockInv, vars
    <3> QED
      BY <2>1, <3>1, OneHolder, AfterKept
  <2> QED
    BY <1>1, <2>2, <2>3
<1>2. CASE UpdateRequest
  <2>1. UNCHANGED lastEvent /\ update.step = "idle"
    BY <1>2 DEF UpdateRequest
  <2> QED
    BY <2>1 DEF After
<1>3. CASE UpdateSubmits
  <2>1. UNCHANGED instruments /\ update.step = "lock"
    BY <1>3 DEF UpdateSubmits, Unupdated
  <2>2. /\ update'.step = "submit" /\ update'.target = update.target /\ sub'.stage = "put"
    BY <1>3, <1>a DEF UpdateSubmits, Updates, NoSub
  <2>3. \A s \in Symbols : s \notin Added => lastEvent'[s] = lastEvent[s]
    BY <1>3 DEF UpdateSubmits
  <2>4. Added' = Added
    BY <2>1, <2>2 DEF Added
  <2> QED
    BY <2>1, <2>2, <2>3, <2>4 DEF After
<1>4. CASE UpdateConfirmed
  <2>1. UNCHANGED lastEvent /\ sub.stage = "done"
    BY <1>4 DEF UpdateConfirmed
  <2> QED
    BY <2>1 DEF After
<1>5. CASE UpdateCommits
  <2>1. update.step = "fresh"
    BY <1>5 DEF UpdateCommits, AddedFresh
  <2>2. ASSUME NEW s \in Symbols PROVE lastEvent'[s] <= t
    <3>1. CASE s \notin update.target
      BY <1>5, <3>1 DEF UpdateCommits
    <3>2. CASE s \in update.target
      <4>1. lastEvent[s] # None
        BY <2>1, <3>2 DEF KeyInv, Added
      <4>2. lastEvent'[s] = lastEvent[s]
        BY <1>5, <3>2, <4>1 DEF UpdateCommits
      <4> QED
        BY <2>1, <4>2 DEF After
    <3> QED
      BY <3>1, <3>2
  <2> QED
    BY <2>2 DEF After
<1>6. CASE UpdateFails
  <2>1. ASSUME NEW s \in Symbols PROVE lastEvent'[s] <= t
    <3>1. CASE s \notin instruments
      BY <1>6, <3>1 DEF UpdateFails
    <3>2. CASE s \in instruments
      BY <1>6, <3>2 DEF UpdateFails, After, Added
    <3> QED
      BY <3>1, <3>2
  <2> QED
    BY <2>1 DEF After
<1> QED
  BY <1>1, <1>2, <1>3, <1>4, <1>5, <1>6 DEF Updater

LEMMA OutageTick ==
  ASSUME Types, ConnInv, OutageInv, Tick PROVE OutageInv'
<1>a. /\ lastEvent \in [Symbols -> Int] /\ now \in Nat /\ gap \in Int /\ gap <= now
      /\ \A s \in Symbols : lastEvent[s] <= now
      /\ "cur" \in Conns /\ "next" \in Conns /\ phase \in Phases
  BY DEF Types, Conns
<1>b. /\ UNCHANGED <<connected, gap, phase, conn, sub, update, instruments>> /\ now' = now + 1
      /\ accounted' = accounted \cup
           ((IF Excused THEN Instruments ELSE Instruments \cap Received) \X {now})
  BY DEF Tick
<1>1. ASSUME NEW t \in Nat, Open(t)' PROVE Open(t) \/ (t = now /\ ~Excused)
  <2>1. PICK s \in Instruments : <<s, t>> \notin accounted'
    BY <1>1 DEF Open
  <2>2. t \in 0 .. now
    BY <1>a, <1>b, <1>1 DEF Open
  <2>3. <<s, t>> \notin accounted
    BY <1>b, <2>1
  <2>4. CASE t = now
    BY <1>b, <2>1, <2>4
  <2>5. CASE t # now
    <3>1. t \in 0 .. now - 1
      BY <1>a, <2>2, <2>5
    <3> QED
      BY <2>3, <3>1 DEF Open
  <2> QED
    BY <2>4, <2>5
<1>2. ASSUME ~Excused
      PROVE  /\ connected /\ phase \notin {"rotate", "replacing", "overlap"}
             /\ \A c \in Conns : ~Up(c)
  BY <1>2 DEF Excused, Conns
<1>3. ASSUME \A c \in Conns : ~Up(c) PROVE lastEvent' = lastEvent
  <2>1. \A s : s \notin Received
    BY <1>3 DEF Received, Conns
  <2>2. \A s \in Symbols : lastEvent'[s] = lastEvent[s]
    BY <2>1 DEF Tick
  <2>3. lastEvent' = [s \in Symbols |-> lastEvent'[s]]
    BY DEF Tick
  <2> QED
    BY <1>a, <2>2, <2>3
<1>4. ASSUME NEW t \in Nat, Open(t)', gap # None PROVE gap <= t
  BY <1>a, <1>1, <1>4 DEF OutageInv
<1>5. ASSUME NEW t \in Nat, Open(t)', gap = None PROVE After(t) /\ \A c \in Conns : ~Live(c)
  <2>1. CASE Open(t)
    BY <1>5, <2>1 DEF OutageInv
  <2>2. CASE t = now /\ ~Excused
    <3>1. After(t)
      BY <1>a, <2>2 DEF After
    <3>2. conn["cur"].st # "connecting"
      BY DEF ConnInv
    <3>3. conn["next"].st # "connecting"
      BY <1>a, <1>2, <1>5, <2>2 DEF ConnInv, OutageInv, Phases
    <3> QED
      BY <1>2, <2>2, <3>1, <3>2, <3>3 DEF Live, Up, Conns
  <2> QED
    BY <1>1, <1>5, <2>1, <2>2
<1>6. ASSUME NEW t \in Nat, Open(t)', gap = None PROVE After(t)' /\ \A c \in Conns : ~Live(c)'
  <2>1. After(t) /\ \A c \in Conns : ~Live(c)
    BY <1>5, <1>6
  <2>2. \A c \in Conns : ~Up(c)
    BY <2>1 DEF Live, Up
  <2>3. lastEvent' = lastEvent
    BY <1>3, <2>2
  <2> QED
    BY <1>b, <2>1, <2>3 DEF After, Added, Live
<1>7. ASSUME ~connected \/ phase \in {"rotate", "replacing", "overlap"}, NEW t \in Nat
      PROVE  ~Open(t)'
  BY <1>1, <1>2, <1>7 DEF OutageInv
<1> QED
  BY <1>b, <1>4, <1>6, <1>7 DEF OutageInv, Up

\* When a route is back to a live connection, every moment without data of an
\* instrument it has had from the start lies in a route-wide gap.  A route that
\* an update empties has no event for the gap to reach back to.
THEOREM OutagesAreCovered ==
  ASSUME {} \notin Targets PROVE Spec => []OutageIsCovered
<1> DEFINE Inv == Types /\ LockInv /\ ConnInv /\ SubInv /\ KeyInv /\ OutageInv
<1>1. Init => Inv
  <2> SUFFICES ASSUME Init PROVE Inv
    OBVIOUS
  <2>1. Types /\ LockInv /\ ConnInv /\ SubInv
    BY InitialStates
  <2>2. KeyInv
    BY Values, RouteAssumption DEF Init, KeyInv
  <2>3. \A t \in Nat : ~Open(t)
    BY DEF Init, Open
  <2>4. OutageInv
    BY <2>3, Values DEF Init, OutageInv
  <2> QED
    BY <2>1, <2>2, <2>4
<1>2. Inv /\ [Next]_vars => Inv'
  <2> SUFFICES ASSUME Inv, [Next]_vars PROVE Inv'
    OBVIOUS
  <2>1. OutageInv'
    BY OutageConnections, OutageRunner, OutageUpdater, OutageTick
       DEF Next, Connection, Waits, Environment, Conns
  <2> QED
    BY <2>1, TypesInductive, LockInductive, ConnInductive, SubInductive, KeyInductive
<1>3. Inv => OutageIsCovered
  <2> SUFFICES ASSUME Inv, Steady, NEW s \in Instruments, NEW t \in 0 .. now - 1
               PROVE  <<s, t>> \in accounted
    BY DEF OutageIsCovered
  <2>1. t \in Nat /\ gap = None /\ Live("cur") /\ "cur" \in Conns
    BY DEF Types, Steady, OutageInv, Live, Up, Conns
  <2>2. ~Open(t)
    BY <2>1 DEF OutageInv
  <2> QED
    BY <2>2 DEF Open
<1> QED
  BY <1>1, <1>2, <1>3, PTL DEF Spec
=============================================================================

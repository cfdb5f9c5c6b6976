------------------------------ MODULE GapJournal ------------------------------
(***************************************************************************)
(* collector/gaps.py, and the tasks of collector/service.py that use it:   *)
(* the boot, the storage loop, the midnight boundary and the stop.  A gap  *)
(* is a pair of facts, OPEN and CLOSED, published with the chunks of their *)
(* day, and a state file while it is open; midnight splits an open gap     *)
(* into one pair per day.                                                  *)
(*                                                                         *)
(* Sources open and close gaps at any moment; only the service's own loops *)
(* exclude one another by the operation lock.  Every publication and every *)
(* write of a state file is an await.                                      *)
(***************************************************************************)
EXTENDS GapIntervals

CONSTANTS
  Gaps,       \* gap ids; each is used once
  SourceGaps, \* the ids the sources use, the others are the service's
  DayLength, MaxDay,
  Grace,      \* day_seal_grace_seconds
  MaxCrashes, MaxFull  \* crashes; times the disk reaches its hard limit

ASSUME GapAssumption ==
  /\ SourceGaps \subseteq Gaps
  /\ DayLength \in {2 * n : n \in 3 .. 100} /\ MaxDay \in Nat
  /\ Grace \in 1 .. DayLength - 5
  /\ MaxCrashes \in Nat /\ MaxFull \in Nat

None == -1
NoGap == "none"

ASSUME GapIdAssumption == NoGap \notin Gaps

VARIABLES
  now,
  facts,      \* published gap facts
  state,      \* [Gaps -> start in the state file, None without a file]
  sealed,     \* sealed days
  task,       \* [Gaps -> what its owner is doing with it]
  observed,   \* [Gaps -> observed_at of the running close]
  rolling,    \* [Gaps -> next day of the close's _roll_state_to]
  roller,     \* the rollover: gaps still to roll, the gap, its next day, its step
  svc,        \* where the service is
  due,        \* the day whose midnight the loop has to handle, 0 if none
  stale,      \* _stale_gaps
  storageGap, \* _storage_gap_id
  running,    \* the sources run
  full,       \* the spool is hard limited
  lease,      \* the watermark of a lease that says RUNNING, None otherwise
  crashes, fulls,
  \* History.
  since, until, \* [Gaps -> the interval the gap is about]
  up, lost,   \* when the sources last ran or started; times at which they did not run
  storage,    \* the gap ids of reason STORAGE_EXHAUSTED
  refused,    \* the gaps a fact of which met a sealed day
  raced       \* gaps that a close and the rollover were at together

journalVars == <<facts, state, task, observed, rolling, since, until, refused>>
serviceVars == <<svc, stale, storageGap, running, lease, up, lost, storage>>
faultVars == <<full, crashes, fulls>>
vars == <<now, journalVars, sealed, roller, serviceVars, due, faultVars, raced>>

Day(t) == t \div DayLength
Midnight(d) == d * DayLength

\* The clock's instants are even, and neither midnight nor the last nanosecond
\* of a day; a close comes a nanosecond after an open of the same instant.
Instant(t) == t % 2 = 0 /\ t % DayLength \in 2 .. DayLength - 4
Earlier(t) == IF Instant(t - 2) THEN t - 2 ELSE t - 6
Later(t) == IF Instant(t + 2) THEN t + 2 ELSE t + 6

IdleRoller == [todo |-> {}, gap |-> NoGap, day |-> 0, step |-> "idle"]

Init ==
  /\ now = 2 /\ facts = {} /\ state = [g \in Gaps |-> None] /\ sealed = {}
  /\ task = [g \in Gaps |-> "unused"] /\ observed = [g \in Gaps |-> None]
  /\ rolling = [g \in Gaps |-> 0]
  /\ roller = IdleRoller
  /\ svc = "down" /\ due = 0 /\ stale = {} /\ storageGap = NoGap
  /\ running = FALSE /\ full = FALSE /\ lease = None
  /\ crashes = 0 /\ fulls = 0
  /\ since = [g \in Gaps |-> None] /\ until = [g \in Gaps |-> None]
  /\ up = None /\ lost = {} /\ storage = {}
  /\ refused = {} /\ raced = {}

Fact(g, s, t, cont) == [gap |-> g, state |-> s, at |-> t, cont |-> cont]

(***************************************************************************)
(* The journal.                                                            *)
(***************************************************************************)

\* _publish, each fact into the day of its effective time: a sealed day
\* refuses it with an exception.
Published(new) ==
  LET accepted == {f \in new : Day(f.at) \notin sealed} IN
  /\ facts' = facts \cup accepted
  /\ refused' = refused \cup {f.gap : f \in new \ accepted}

\* open: the OPEN fact.
OpenFact(g, from) ==
  /\ g \in Gaps /\ task[g] = "unused"
  /\ Published({Fact(g, "OPEN", from, FALSE)})
  /\ since' = [since EXCEPT ![g] = from]
  /\ task' = [task EXCEPT ![g] = "opening"]
  /\ UNCHANGED <<state, observed, rolling, until>>

\* open: the state file.
OpenState(g) ==
  /\ task[g] = "opening"
  /\ state' = [state EXCEPT ![g] = since[g]]
  /\ task' = [task EXCEPT ![g] = "open"]
  /\ UNCHANGED <<facts, observed, rolling, since, until, refused>>

\* close: the time, and the roll of a state file to it.
StartClose(g) ==
  /\ task[g] = "open"
  /\ task' = [task EXCEPT ![g] = "closing"]
  /\ observed' = [observed EXCEPT ![g] = now + 1]
  /\ until' = [until EXCEPT ![g] = IF @ = None THEN now + 1 ELSE @]
  /\ rolling' = [rolling EXCEPT ![g] = IF state[g] = None THEN Day(now) + 1
                                       ELSE Day(state[g]) + 1]
  /\ raced' = IF roller.gap = g THEN raced \cup {g} ELSE raced
  /\ UNCHANGED <<facts, state, since, refused>>

\* _roll_state_to: the facts at the midnight before day d.  A sealed day takes
\* no CLOSED fact; its OPEN fact lasts to its end anyway.
RollFacts(g, d) ==
  {Fact(g, "OPEN", Midnight(d), FALSE)} \cup
  (IF d - 1 \in sealed THEN {} ELSE {Fact(g, "CLOSED", Midnight(d) - 1, TRUE)})

\* One round of _roll_state_to in a close is due.
MustRoll(g) == rolling[g] <= Day(observed[g])

CloseRolls(g) ==
  /\ task[g] = "closing" /\ MustRoll(g)
  /\ Published(RollFacts(g, rolling[g]))
  /\ task' = [task EXCEPT ![g] = "rolled"]
  /\ UNCHANGED <<state, observed, rolling, since, until>>

CloseRolled(g) ==
  /\ task[g] = "rolled"
  /\ state' = [state EXCEPT ![g] = Midnight(rolling[g])]
  /\ rolling' = [rolling EXCEPT ![g] = @ + 1]
  /\ task' = [task EXCEPT ![g] = "closing"]
  /\ UNCHANGED <<facts, observed, since, until, refused>>

\* The CLOSED fact, then the state file is removed.
CloseFact(g) ==
  /\ task[g] = "closing" /\ ~MustRoll(g)
  /\ Published({Fact(g, "CLOSED", observed[g], FALSE)})
  /\ task' = [task EXCEPT ![g] = "removing"]
  /\ UNCHANGED <<state, observed, rolling, since, until>>

\* Mutant: the state file stays.
CloseForgets(g) ==
  /\ task[g] = "removing"
  /\ task' = [task EXCEPT ![g] = "closed"]
  /\ UNCHANGED <<state, facts, observed, rolling, since, until, refused>>

CloseRemoves(g) ==
  /\ task[g] = "removing"
  /\ state' = [state EXCEPT ![g] = None]
  /\ task' = [task EXCEPT ![g] = "closed"]
  /\ observed' = [observed EXCEPT ![g] = None] /\ rolling' = [rolling EXCEPT ![g] = 0]
  /\ UNCHANGED <<facts, since, until, refused>>

JournalStep(g) ==
  /\ \/ OpenState(g) \/ CloseRolls(g) \/ CloseRolled(g) \/ CloseFact(g) \/ CloseRemoves(g)
  /\ UNCHANGED <<now, sealed, roller, serviceVars, due, faultVars, raced>>

Closing(g) == task[g] \in {"closing", "rolled", "removing"}
Settled(g) == task[g] \in {"unused", "open", "closed", "lost"}

(***************************************************************************)
(* Sources.                                                                *)
(***************************************************************************)

OfSources == Gaps \ (stale \cup {storageGap})

\* A source finds something wrong, possibly a little late, and closes the gap
\* once it has recovered.
SourceOpens(g) ==
  /\ running /\ svc \notin {"down", "stopping"} /\ g \in SourceGaps
  /\ \E from \in {now, Earlier(now)} : from >= up /\ OpenFact(g, from)
  /\ UNCHANGED <<now, sealed, roller, serviceVars, due, faultVars, raced>>

SourceCloses(g) ==
  /\ running /\ svc \notin {"down", "stopping"}
  /\ g \in OfSources
  /\ StartClose(g)
  /\ UNCHANGED <<now, sealed, roller, serviceVars, due, faultVars>>

\* sources.stop waits for the journal's operations of its tasks.  A gap that
\* is open then is held by nobody; its state file stays.
SourcesStop ==
  /\ running
  /\ \A g \in OfSources : Settled(g)
  /\ task' = [g \in Gaps |-> IF g \in OfSources /\ task[g] = "open" THEN "lost" ELSE task[g]]
  /\ running' = FALSE /\ up' = now
  /\ lease' \in {t \in {now, Earlier(now)} : t >= lease}
  /\ UNCHANGED <<facts, state, observed, rolling, since, until, refused>>

(***************************************************************************)
(* The service.                                                            *)
(***************************************************************************)

Unserved == <<now, sealed, roller, due, faultVars>>
Unlisted == <<stale, storageGap, storage>>
Unsourced == <<running, lease, up, lost>>

Fresh == CHOOSE g \in Gaps \ SourceGaps : task[g] = "unused"
SealedFloor == IF sealed = {} THEN 0 ELSE Midnight(1 + CHOOSE d \in sealed : \A e \in sealed : e <= d)

\* run: after an unclean end a COLLECTOR_STOPPED gap from the lease's
\* watermark, which recovery_start_ns lifts over the sealed days.
Boot ==
  /\ svc = "down"
  /\ \/ /\ lease # None
        /\ OpenFact(Fresh, IF lease > SealedFloor THEN lease ELSE SealedFloor)
        /\ svc' = "recover"
     \/ lease = None /\ svc' = "list" /\ UNCHANGED journalVars
  /\ UNCHANGED <<Unserved, Unlisted, Unsourced, raced>>

Recovered ==
  /\ svc = "recover"
  /\ \A g \in Gaps : task[g] # "opening"
  /\ svc' = "list"
  /\ UNCHANGED <<Unserved, journalVars, Unlisted, Unsourced, raced>>

\* stale_open_events and write_running: every gap with a state file is now the
\* boot's to close; a storage gap goes to the storage loop.
ListStale ==
  /\ svc = "list"
  /\ stale' = {g \in Gaps : state[g] # None}
  /\ storageGap' \in IF stale' \cap storage = {} THEN {NoGap} ELSE stale' \cap storage
  /\ task' = [g \in Gaps |-> IF state[g] # None THEN "open" ELSE task[g]]
  /\ lease' = now
  /\ svc' = IF full THEN "up" ELSE "bootSources"
  /\ UNCHANGED <<Unserved, facts, state, observed, rolling, since, until, refused, running, up,
                 lost, storage, raced>>

\* sources.start and readiness.
SourcesReady ==
  /\ svc \in {"bootSources", "sources"}
  /\ running' = TRUE
  /\ up' = now
  /\ lost' = IF up = None THEN lost ELSE lost \cup up .. now - 1
  /\ svc' = IF svc = "sources" THEN "stale" ELSE "bootStale"
  /\ UNCHANGED <<Unserved, journalVars, Unlisted, lease, raced>>

\* The storage recovery's readiness times out: stop, and try again.
SourcesTimeout ==
  /\ svc = "sources"
  /\ svc' = "up"
  /\ UNCHANGED <<Unserved, journalVars, Unlisted, Unsourced, raced>>

\* _close_stale_gaps, one gap after the other, all but the storage gap.
CloseStale ==
  /\ svc \in {"bootStale", "stale"}
  /\ \A g \in stale \ {storageGap} : Settled(g)
  /\ \E g \in stale \ {storageGap} : StartClose(g)
  /\ UNCHANGED <<Unserved, serviceVars>>

\* _seal_completed_days: the completed days that have any artifact.
StaleClosed ==
  /\ svc \in {"bootStale", "stale"}
  /\ \A g \in stale \ {storageGap} : task[g] = "closed"
  /\ stale' = {}
  /\ sealed' = sealed \cup {d \in 0 .. Day(now) - 1 : \E f \in facts : Day(f.at) = d}
  /\ svc' = IF svc = "bootStale" THEN "up" ELSE "storageClose"
  /\ UNCHANGED <<now, journalVars, roller, due, faultVars, storageGap, storage, Unsourced, raced>>

\* _storage_loop with the disk full: one gap, and then no sources.
StorageFull ==
  /\ svc = "up" /\ full /\ storageGap = NoGap
  /\ OpenFact(Fresh, now) /\ storageGap' = Fresh /\ storage' = storage \cup {Fresh}
  /\ svc' = "storageOpen"
  /\ UNCHANGED <<Unserved, stale, Unsourced, raced>>

StorageOpened ==
  /\ svc = "storageOpen" /\ task[storageGap] = "open"
  /\ svc' = IF running THEN "storageStop" ELSE "up"
  /\ UNCHANGED <<Unserved, journalVars, Unlisted, Unsourced, raced>>

StorageStops ==
  /\ svc = "storageStop" \/ (svc = "up" /\ full /\ storageGap # NoGap)
  /\ SourcesStop
  /\ svc' = "up"
  /\ UNCHANGED <<Unserved, Unlisted, lost, raced>>

\* _storage_loop with room again.
StorageRecovers ==
  /\ svc = "up" /\ ~full /\ storageGap # NoGap
  /\ svc' = IF running THEN "storageClose" ELSE "sources"
  /\ UNCHANGED <<Unserved, journalVars, Unlisted, Unsourced, raced>>

StorageCloses ==
  /\ svc = "storageClose"
  /\ \/ StartClose(storageGap) /\ UNCHANGED serviceVars
     \/ /\ task[storageGap] = "closed"
        /\ storageGap' = NoGap /\ svc' = "up"
        /\ UNCHANGED <<journalVars, stale, storage, Unsourced, raced>>
  /\ UNCHANGED Unserved

\* _midnight_loop takes the lock: rollover lists the state files.
StartRollover ==
  /\ svc = "up" /\ due # 0
  /\ svc' = "rollover"
  /\ roller' = [IdleRoller EXCEPT !.todo = {g \in Gaps : state[g] # None}]
  /\ UNCHANGED <<now, journalVars, sealed, due, faultVars, Unlisted, Unsourced, raced>>

\* _roll_state_to of the next file.  It is gone when a close was faster: the
\* exception ends the midnight loop and with it the collector.
RollRead ==
  /\ svc = "rollover" /\ roller.gap = NoGap
  /\ \E g \in roller.todo :
       \/ /\ state[g] # None
          /\ roller' = [todo |-> roller.todo \ {g}, gap |-> g, day |-> Day(state[g]) + 1,
                        step |-> "facts"]
          /\ raced' = IF Closing(g) THEN raced \cup {g} ELSE raced
          /\ UNCHANGED svc
       \/ state[g] = None /\ svc' = "stop" /\ roller' = IdleRoller /\ UNCHANGED raced
  /\ UNCHANGED <<now, journalVars, sealed, due, faultVars, Unlisted, Unsourced>>

RollPublish ==
  /\ svc = "rollover" /\ roller.step = "facts" /\ roller.day <= due
  /\ Published(RollFacts(roller.gap, roller.day))
  /\ roller' = [roller EXCEPT !.step = "state"]
  /\ UNCHANGED <<now, state, task, observed, rolling, since, until, sealed, serviceVars, due,
                 faultVars, raced>>

\* The state file is written, whether or not the gap is still open.
RollState ==
  /\ svc = "rollover" /\ roller.step = "state"
  /\ state' = [state EXCEPT ![roller.gap] = Midnight(roller.day)]
  /\ roller' = [roller EXCEPT !.day = @ + 1, !.step = "facts"]
  /\ UNCHANGED <<now, facts, task, observed, rolling, since, until, refused, sealed, serviceVars,
                 due, faultVars, raced>>

RollNext ==
  /\ svc = "rollover" /\ roller.step = "facts" /\ roller.day > due
  /\ roller' = [IdleRoller EXCEPT !.todo = roller.todo]
  /\ UNCHANGED <<now, journalVars, sealed, due, faultVars, serviceVars, raced>>

RolloverDone ==
  /\ svc = "rollover" /\ roller = IdleRoller
  /\ svc' = "grace"
  /\ UNCHANGED <<Unserved, journalVars, Unlisted, Unsourced, raced>>

\* Mutant: the day is sealed right after the rollover.
NoGrace == TRUE

\* The grace period of the midnight of day due.
GraceOver == now > Midnight(due) + Grace

SealDay ==
  /\ svc = "grace" /\ GraceOver
  /\ sealed' = sealed \cup {due - 1}
  /\ due' = 0
  /\ svc' = "up"
  /\ UNCHANGED <<now, journalVars, roller, faultVars, Unlisted, Unsourced, raced>>

\* A requested stop, or a failed loop: a COLLECTOR_STOPPED gap when sources
\* run, then the sources stop, and the lease is clean.
RequestStop ==
  /\ svc = "up" /\ crashes < MaxCrashes
  /\ crashes' = crashes + 1
  /\ svc' = "stop"
  /\ UNCHANGED <<now, journalVars, sealed, roller, due, full, fulls, Unlisted, Unsourced, raced>>

StopOpens ==
  /\ svc = "stop"
  /\ \/ running /\ OpenFact(Fresh, now)
     \/ ~running /\ UNCHANGED journalVars
  /\ svc' = "stopping"
  /\ UNCHANGED <<Unserved, Unlisted, Unsourced, raced>>

StopSources ==
  /\ svc = "stopping"
  /\ SourcesStop
  /\ UNCHANGED <<Unserved, Unlisted, svc, lost, raced>>

\* The end of the process: what is left of a gap is in its files.
ProcessEnds ==
  /\ svc' = "down"
  /\ task' = [g \in Gaps |-> IF task[g] \in {"unused", "closed"} THEN task[g] ELSE "lost"]
  /\ until' = [g \in Gaps |-> IF task[g] = "opening" THEN now ELSE until[g]]
  /\ observed' = [g \in Gaps |-> None] /\ rolling' = [g \in Gaps |-> 0]
  /\ roller' = IdleRoller /\ due' = 0 /\ stale' = {} /\ storageGap' = NoGap
  /\ running' = FALSE
  /\ up' = IF running THEN now ELSE up

Stopped ==
  /\ svc = "stopping" /\ ~running
  /\ ProcessEnds
  /\ lease' = None
  /\ UNCHANGED <<now, facts, state, since, refused, sealed, faultVars, lost, storage, raced>>

Crash ==
  /\ svc # "down" /\ crashes < MaxCrashes
  /\ crashes' = crashes + 1
  /\ ProcessEnds
  /\ lease' \in IF running THEN {t \in {now, Earlier(now)} : t >= lease} ELSE {lease}
  /\ UNCHANGED <<now, facts, state, since, refused, sealed, full, fulls, lost, storage, raced>>

(***************************************************************************)
(* The environment.                                                        *)
(***************************************************************************)

DiskFills ==
  /\ ~full /\ fulls < MaxFull
  /\ full' = TRUE /\ fulls' = fulls + 1
  /\ UNCHANGED <<now, journalVars, sealed, roller, serviceVars, due, crashes, raced>>

DiskDrains ==
  /\ full /\ full' = FALSE
  /\ UNCHANGED <<now, journalVars, sealed, roller, serviceVars, due, fulls, crashes, raced>>

Booting == {"down", "recover", "list", "bootSources"}

\* Time.  A midnight between the readiness of the sources and the seals of a
\* boot or of a storage recovery is a subject of Transfer;
\* boundaries do not overtake one another; a close ends within the grace.
Tick ==
  /\ Day(Later(now)) <= MaxDay
  /\ Day(Later(now)) # Day(now) => svc \notin {"bootStale", "stale"} /\ due = 0
  /\ \A g \in Gaps : Closing(g) => observed[g] = now + 1
  /\ now' = Later(now)
  /\ due' = IF Day(Later(now)) # Day(now) /\ svc \notin Booting THEN Day(Later(now)) ELSE due
  /\ UNCHANGED <<journalVars, sealed, roller, serviceVars, faultVars, raced>>

Service == \/ Boot \/ Recovered \/ ListStale \/ CloseStale \/ StaleClosed
           \/ StorageFull \/ StorageOpened \/ StorageStops \/ StorageRecovers \/ StorageCloses
           \/ StartRollover \/ RollRead \/ RollPublish \/ RollState \/ RollNext \/ RolloverDone
           \/ SealDay \/ StopOpens \/ StopSources \/ Stopped

Next == \/ Service \/ SourcesReady \/ SourcesTimeout \/ RequestStop \/ Crash
        \/ DiskFills \/ DiskDrains \/ Tick
        \/ \E g \in Gaps : JournalStep(g) \/ SourceOpens(g) \/ SourceCloses(g)

Spec == Init /\ [][Next]_vars
=============================================================================

------------------------------- MODULE Universe -------------------------------
(***************************************************************************)
(* The universe from its evidence to the days it is read from: discovery   *)
(* (polling.py), UniverseStore (membership.py), the midnight boundary, the *)
(* boot and the storage loop that share _operation_lock (service.py), and  *)
(* the choice of a day's universe in the normaliser (normalize.py).        *)
(*                                                                         *)
(* A day has three times: until discovery, from there to the cutoff of its *)
(* decisions, and from the cutoff to midnight.  A boot does not last over  *)
(* midnight (Transfer has those that do).  A file is written atomically; a *)
(* crash falls between two writes.                                         *)
(***************************************************************************)
EXTENDS Selection

CONSTANTS
  Bootstrap,     \* the configured roles
  Evidences,     \* what a discovery may find
  Proposals,     \* the candidates an override may name
  Week,          \* days of a week
  Automation,    \* automation_enabled
  MaxDay,
  MaxFaults      \* crashes, overrides and full disks together

ASSUME UniverseAssumption ==
  /\ Week \in Nat \ {0} /\ {MaxDay, MaxFaults} \subseteq Nat
  /\ Automation \in BOOLEAN
  /\ Whole(Bootstrap) /\ \A ev \in Evidences : IsEvidence(ev)
  /\ \A p \in Proposals : /\ IsRole(p.boundary, BucketSize) /\ IsRole(p.probe, BucketSize)
                         /\ p.boundary \cap p.probe = {}

Ticks == 3
Day(t) == t \div Ticks
Midnight(d) == d * Ticks
Monday(t) == Day(t) % Week = 0
None == -1

RolesOf(d) == Roles(d.core, d.boundary, d.probe)
Decision(seq, eff, created, roles, inactive) ==
  [seq |-> seq, eff |-> eff, created |-> created, core |-> roles.core,
   boundary |-> roles.boundary, probe |-> roles.probe, inactive |-> inactive]
NoRoles == Roles({}, {}, {})
NoDecision == Decision(0, 0, 0, NoRoles, {})
NoSince == [member |-> <<>>, core |-> <<>>]

VARIABLES
  now,
  file, state, pending, overrides,   \* the files of the store
  formal,        \* formal-start.json: its time
  active, since, \* _active, _member_since and _core_since
  hash,          \* the universe whose hash the ingest stamps on chunks
  mode, sources, \* of the service
  lock,          \* _operation_lock: its holder and those that wait
  apply,         \* an apply_due under way: its next write, the override it is from
  disc,          \* the discovery loop, and its snapshot
  storageGap, storage, full,
  events,        \* UNIVERSE_DECISION events in the chunks of the day
  inForce,       \* the universe collected from the start of the day
  joined, retro, late, torn, failed,   \* history
  faults

store == <<file, state, pending, overrides>>
memory == <<active, since>>
disk == <<storageGap, storage, full>>
history == <<inForce, joined, retro, late, torn, failed>>
vars == <<now, file, state, pending, overrides, formal, active, since, hash, mode, sources, lock,
          apply, disc, storageGap, storage, full, events, inForce, joined, retro, late, torn,
          failed, faults>>

NoApply == [step |-> "idle", source |-> {}]
NoDiscovery == [step |-> "idle", ready |-> FALSE, at |-> 0, ev |-> <<>>]
DueDiscovery == [NoDiscovery EXCEPT !.step = "due"]

Init ==
  /\ now = 0 /\ file = NoDecision /\ state = NoSince /\ pending = NoDecision /\ overrides = {}
  /\ formal = None /\ active = NoDecision /\ since = NoSince /\ hash = NoRoles
  /\ mode = "down" /\ sources = FALSE /\ lock = <<>> /\ apply = NoApply /\ disc = NoDiscovery
  /\ storageGap = FALSE /\ storage = "idle" /\ full = FALSE
  /\ events = <<>> /\ inForce = NoRoles
  /\ joined = <<>> /\ retro = FALSE /\ late = FALSE
  /\ torn = FALSE /\ failed = FALSE
  /\ faults = 0

(***************************************************************************)
(* Deciding: UniverseStore.observe_and_plan and _select_due.               *)
(***************************************************************************)

\* _next_effective_at
NextEffective(at) == Midnight(Day(at) + (IF at % Ticks = Ticks - 1 THEN 2 ELSE 1))

\* _decision_from_override, and what it refuses.
OverrideHolds(o) ==
  LET proposed == o.boundary \cup o.probe
      current == Candidates(active)
  IN /\ proposed \cap active.core = {}
     /\ Cardinality(proposed \ current) <= DailyReplacements
     /\ \A s \in current \ proposed :
          DwellComplete(Since(since.member, s, o.eff), o.eff, CandidateDwell)
FromOverride(o) ==
  Decision(active.seq + 1, o.eff, o.created, Roles(active.core, o.boundary, o.probe), {})

\* _select_due: the decisions that are due, each with the file it is from.
DueDecisions(t) ==
  (IF Automation /\ pending # NoDecision /\ pending.seq > active.seq /\ pending.eff <= t
   THEN {[decision |-> pending, source |-> {}]} ELSE {})
  \cup {[decision |-> FromOverride(o), source |-> {o}] :
          o \in {x \in overrides : OverrideHolds(x) /\ x.eff <= t}}
Before(x, y) == \/ x.seq < y.seq
                \/ x.seq = y.seq /\ x.eff < y.eff
                \/ x.seq = y.seq /\ x.eff = y.eff /\ x.created < y.created
Best(due) == {c \in due : \A x \in due : ~Before(c.decision, x.decision)}

\* setdefault for all members, and only for members.
Carried(sinceMap, members, eff) == [s \in members |-> Since(sinceMap, s, eff)]
CarriedCore(d) ==
  [s \in d.core |-> IF s \in active.core THEN Since(since.core, s, d.eff) ELSE d.eff]

(***************************************************************************)
(* apply_due, write by write.                                              *)
(***************************************************************************)

\* The decision becomes active, in memory and in active.json.
Activate(d) ==
  /\ active' = d /\ file' = d
  /\ since' = [member |-> Carried(since.member, Members(d), d.eff), core |-> CarriedCore(d)]
  /\ joined' = [s \in Members(d) |-> IF s \in DOMAIN joined THEN joined[s] ELSE d.eff]

SelectAndActivate(t) ==
  /\ apply = NoApply
  /\ overrides' = {o \in overrides : OverrideHolds(o)}
  /\ \/ /\ DueDecisions(t) = {}
        /\ apply' = [NoApply EXCEPT !.step = "done"]
        /\ UNCHANGED <<active, since, file, joined>>
     \/ \E c \in Best(DueDecisions(t)) :
          /\ Activate(c.decision)
          /\ apply' = [step |-> "state", source |-> c.source]

WriteState ==
  /\ apply.step = "state"
  /\ state' = since /\ apply' = [apply EXCEPT !.step = "unlink"]
  /\ UNCHANGED <<now, file, pending, overrides, formal, memory, hash, mode, sources, lock, disc,
                 disk, events, history, faults>>

UnlinkSource ==
  /\ apply.step = "unlink"
  /\ pending' = (IF apply.source = {} THEN NoDecision ELSE pending)
  /\ overrides' = overrides \ apply.source
  /\ apply' = [apply EXCEPT !.step = "pending"]
  /\ UNCHANGED <<now, file, state, formal, memory, hash, mode, sources, lock, disc, disk, events,
                 history, faults>>

UnlinkPending ==
  /\ apply.step = "pending"
  /\ pending' = NoDecision /\ apply' = [apply EXCEPT !.step = "done"]
  /\ UNCHANGED <<now, file, state, overrides, formal, memory, hash, mode, sources, lock, disc,
                 disk, events, history, faults>>

(***************************************************************************)
(* The boot, the midnight boundary and the storage loop (service.py).      *)
(***************************************************************************)

\* _emit_control_event: into a chunk of the day, under the ingest's universe.
Emitted(d, under) == Append(events, [decision |-> d, hash |-> under])

\* The universe of the day, from its boundary or from its first start.
Enforced == inForce' = (IF inForce # NoRoles \/ "midnight" \in ToSet(lock) THEN inForce
                       ELSE RolesOf(active))

\* UniverseStore.initialize.  Without membership-state.json it raises.
Boot ==
  /\ mode = "down" /\ file # NoDecision /\ state # NoSince
  /\ active' = file /\ since' = state /\ mode' = "boot"
  /\ UNCHANGED <<now, store, formal, hash, sources, lock, apply, disc, disk, events, history,
                 faults>>

FirstBoot ==
  /\ mode = "down" /\ file = NoDecision
  /\ LET d == Decision(1, now, now, Bootstrap, {}) IN
       /\ active' = d /\ file' = d
       /\ since' = [member |-> [s \in Members(d) |-> now], core |-> [s \in d.core |-> now]]
       /\ joined' = [s \in Members(d) |-> now]
  /\ mode' = "first"
  /\ UNCHANGED <<now, state, pending, overrides, formal, hash, sources, lock, apply, disc, disk,
                 events, inForce, retro, late, torn, failed, faults>>

FirstState ==
  /\ mode = "first" /\ state' = since /\ mode' = "boot"
  /\ UNCHANGED <<now, file, pending, overrides, formal, memory, hash, sources, lock, apply, disc,
                 disk, events, history, faults>>

\* apply_due at the boot.
BootApply ==
  /\ mode = "boot" /\ SelectAndActivate(now)
  /\ retro' = (retro \/ (active' # active /\ inForce # NoRoles))
  /\ UNCHANGED <<now, state, pending, formal, hash, mode, sources, lock, disc, disk, events,
                 inForce, late, torn, failed, faults>>

\* The sources start unless the disk is full.
BootStart ==
  /\ mode = "boot" /\ apply.step = "done" /\ apply' = NoApply
  /\ hash' = RolesOf(active) /\ sources' = ~full
  /\ mode' = (IF full THEN "run" ELSE "starting")
  /\ disc' = (IF full THEN NoDiscovery ELSE DueDiscovery)
  /\ UNCHANGED <<now, store, formal, memory, lock, disk, events, history, faults>>

\* _wait_source_readiness: the first start waits for a discovery, too.
SourcesReady == formal # None \/ disc.ready

\* _mark_formal_start
MarkFormalStart ==
  /\ events' = Emitted(active, hash) /\ Enforced
  /\ formal' = (IF formal = None THEN now ELSE formal)

BootReady ==
  /\ mode = "starting" /\ SourcesReady
  /\ MarkFormalStart /\ mode' = "run"
  /\ UNCHANGED <<now, store, memory, hash, sources, lock, apply, disc, disk, joined, retro, late,
                 torn, failed, faults>>

\* _apply_midnight_boundary, up to the store and from there.
BoundaryApply ==
  /\ mode = "run" /\ lock # <<>> /\ Head(lock) = "midnight"
  /\ SelectAndActivate(Midnight(Day(now)))
  /\ UNCHANGED <<now, state, pending, formal, hash, mode, sources, lock, disc, disk, events,
                 inForce, retro, late, torn, failed, faults>>

BoundaryEmit ==
  /\ mode = "run" /\ lock # <<>> /\ Head(lock) = "midnight" /\ apply.step = "done"
  /\ apply' = NoApply /\ lock' = Tail(lock)
  /\ hash' = RolesOf(active) /\ events' = Emitted(active, RolesOf(active))
  /\ inForce' = RolesOf(active)
  /\ UNCHANGED <<now, store, formal, memory, mode, sources, disc, disk, joined, retro, late,
                 torn, failed, faults>>

Waiting(list) == RemoveFirst(list, "discovery")

\* _storage_loop: it has something to do.
StorageRequest ==
  /\ mode = "run" /\ "storage" \notin ToSet(lock)
  /\ IF full THEN sources \/ ~storageGap ELSE storageGap
  /\ lock' = Append(lock, "storage")
  /\ UNCHANGED <<now, store, formal, memory, hash, mode, sources, apply, disc, disk, events,
                 history, faults>>

Holds(who) == mode = "run" /\ lock # <<>> /\ Head(lock) = who

\* The disk is full: the sources stop, and with them the discovery.
StorageStop ==
  /\ Holds("storage") /\ storage = "idle" /\ full
  /\ storageGap' = TRUE /\ sources' = FALSE /\ disc' = NoDiscovery
  /\ lock' = Waiting(Tail(lock))
  /\ UNCHANGED <<now, store, formal, memory, hash, mode, apply, storage, full, events, history,
                 faults>>

\* There is room again, or still.
StorageStart ==
  /\ Holds("storage") /\ storage = "idle" /\ ~full
  /\ IF storageGap /\ ~sources
     THEN /\ sources' = TRUE /\ disc' = DueDiscovery /\ storage' = "starting"
          /\ UNCHANGED <<storageGap, lock>>
     ELSE /\ storageGap' = FALSE /\ lock' = Tail(lock)
          /\ UNCHANGED <<sources, disc, storage>>
  /\ UNCHANGED <<now, store, formal, memory, hash, mode, apply, full, events, history, faults>>

StorageReady ==
  /\ Holds("storage") /\ storage = "starting" /\ SourcesReady
  /\ MarkFormalStart
  /\ storage' = "idle" /\ storageGap' = FALSE /\ lock' = Tail(lock)
  /\ UNCHANGED <<now, store, memory, hash, mode, sources, apply, disc, full, joined, retro, late,
                 torn, failed, faults>>

\* The sources are not ready in time: a later pass tries again.
StorageTimeout ==
  /\ Holds("storage") /\ storage = "starting"
  /\ storage' = "idle" /\ sources' = FALSE /\ disc' = NoDiscovery
  /\ lock' = Waiting(Tail(lock))
  /\ UNCHANGED <<now, store, formal, memory, hash, mode, apply, storageGap, full, events, history,
                 faults>>

(***************************************************************************)
(* Discovery (polling._discovery_loop, service._on_discovery).             *)
(***************************************************************************)

\* The snapshot is complete, and observed now; the plan waits for the lock.
Observe ==
  /\ sources /\ disc.step = "due"
  /\ \E ev \in Evidences : disc' = [disc EXCEPT !.step = "waiting", !.at = now, !.ev = ev]
  /\ lock' = Append(lock, "discovery")
  /\ UNCHANGED <<now, store, formal, memory, hash, mode, sources, apply, disk, events, history,
                 faults>>

\* An error that no loop handles ends the process.
Fails == /\ mode' = "down" /\ active' = NoDecision /\ since' = NoSince /\ hash' = NoRoles
         /\ sources' = FALSE /\ lock' = <<>> /\ apply' = NoApply /\ disc' = NoDiscovery
         /\ storage' = "idle"

Planning == mode \in {"starting", "run"} /\ lock # <<>> /\ Head(lock) = "discovery"
Evidence == [disc.ev EXCEPT !.inactive = @ \cap Members(active)]
Effective == NextEffective(disc.at)
Result == Select(active, Evidence, Effective, Monday(Effective), since)
Planned == /\ lock' = Tail(lock) /\ disc' = [NoDiscovery EXCEPT !.ready = TRUE]
           /\ UNCHANGED <<now, file, state, overrides, formal, memory, hash, mode, sources, apply,
                          disk, faults>>

\* Before the formal start the evidence has to bear out the configuration.
VerifyBootstrap ==
  /\ formal = None /\ BootstrapHolds(active, Evidence)
  /\ Planned /\ UNCHANGED <<pending, events, history>>

\* Nothing changes, or nothing may: a decision planned before is dropped.
KeepActive(result) ==
  /\ formal # None /\ result # Raises
  /\ ~Automation \/ result = RolesOf(active)
  /\ pending' = NoDecision /\ Planned /\ UNCHANGED <<events, history>>

PlanChange(result) ==
  /\ formal # None /\ Automation /\ result \notin {Raises, RolesOf(active)} /\ Whole(result)
  /\ pending' = Decision(active.seq + 1, Effective, disc.at, result, Evidence.inactive)
  /\ events' = Emitted(pending', hash)
  /\ late' = (late \/ Effective <= now)
  /\ Planned /\ UNCHANGED <<inForce, joined, retro, torn, failed>>

\* The configuration is not borne out, the selection raises, or its roles make
\* no decision.
EvidenceRefused(result) ==
  /\ IF formal = None THEN ~BootstrapHolds(active, Evidence)
     ELSE result = Raises \/ (Automation /\ ~Whole(result))
  /\ failed' = (formal # None) /\ Fails
  /\ UNCHANGED <<now, store, formal, storageGap, full, events, inForce, joined, retro, late, torn,
                 faults>>

(***************************************************************************)
(* The environment.                                                        *)
(***************************************************************************)

\* Holding the lock takes no time, but for a storage loop that waits for its
\* sources: from the evening until after midnight at most.
Tick ==
  /\ mode \in {"run", "down"} /\ file # NoDecision /\ apply = NoApply
  /\ now < Midnight(MaxDay + 1)
  /\ lock = <<>> \/ (storage = "starting" /\ now % Ticks # 0)
  /\ now' = now + 1
  /\ IF now' % Ticks = 0
     THEN /\ lock' = (IF mode = "run" THEN Append(lock, "midnight") ELSE lock)
          /\ events' = <<>> /\ inForce' = NoRoles /\ retro' = FALSE /\ late' = FALSE
     ELSE UNCHANGED <<lock, events, inForce, retro, late>>
  /\ disc' = (IF sources /\ now' % Ticks = 1 /\ disc.step = "idle"
              THEN [disc EXCEPT !.step = "due"] ELSE disc)
  /\ UNCHANGED <<store, formal, memory, hash, mode, sources, apply, disk, joined, torn, failed,
                 faults>>

Crash ==
  /\ mode # "down" /\ faults < MaxFaults /\ faults' = faults + 1
  /\ torn' = (torn \/ apply.step = "state") /\ Fails
  /\ UNCHANGED <<now, store, formal, storageGap, full, events, inForce, joined, retro, late, failed>>

\* miry-data-override, and the copy to the collector.
PlaceOverride ==
  /\ faults < MaxFaults /\ faults' = faults + 1
  /\ \E p \in Proposals :
       overrides' = overrides \cup {[created |-> now, eff |-> Midnight(Day(now) + 1),
                                    boundary |-> p.boundary, probe |-> p.probe]}
  /\ UNCHANGED <<now, file, state, pending, formal, memory, hash, mode, sources, lock, apply, disc,
                 disk, events, history>>

FillDisk ==
  /\ ~full /\ faults < MaxFaults /\ faults' = faults + 1 /\ full' = TRUE
  /\ UNCHANGED <<now, store, formal, memory, hash, mode, sources, lock, apply, disc, storageGap,
                 storage, events, history>>

FreeDisk ==
  /\ full /\ full' = FALSE
  /\ UNCHANGED <<now, store, formal, memory, hash, mode, sources, lock, apply, disc, storageGap,
                 storage, events, history, faults>>

Store == WriteState \/ UnlinkSource \/ UnlinkPending
Service == \/ Boot \/ FirstBoot \/ FirstState \/ BootApply \/ BootStart \/ BootReady
           \/ BoundaryApply \/ BoundaryEmit
           \/ StorageRequest \/ StorageStop \/ StorageStart \/ StorageReady
\* UniverseStore.observe_and_plan
ObserveAndPlan ==
  /\ Planning
  /\ \E result \in {Result} : \/ VerifyBootstrap \/ KeepActive(result) \/ PlanChange(result)
                              \/ EvidenceRefused(result)

Next == \/ Store \/ Service \/ StorageTimeout \/ Observe \/ ObserveAndPlan
        \/ Tick \/ Crash \/ PlaceOverride \/ FillDisk \/ FreeDisk

Spec == Init /\ [][Next]_vars

(***************************************************************************)
(* DayNormalizer._active_universe: the universe a day is read with.        *)
(***************************************************************************)

WindowStart == IF formal # None /\ Day(formal) = Day(now) THEN formal ELSE Midnight(Day(now))
\* Mutant: decisions count from their announcement.
Announced == DOMAIN events
InEffect == {i \in DOMAIN events : events[i].decision.eff <= WindowStart}
Unreadable == Roles({None}, {}, {})
Normalized ==
  LET i == CHOOSE i \in InEffect : \A j \in InEffect :
             LET x == events[i].decision
                 y == events[j].decision
             IN \/ x.seq > y.seq
                \/ x.seq = y.seq /\ (x.eff > y.eff \/ (x.eff = y.eff /\ i <= j))
  IN IF InEffect = {} THEN NoRoles
     ELSE IF RolesOf(events[i].decision) # events[i].hash THEN Unreadable
     ELSE RolesOf(events[i].decision)
=============================================================================

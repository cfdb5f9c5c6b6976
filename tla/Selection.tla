------------------------------- MODULE Selection -------------------------------
(***************************************************************************)
(* select_rolling_universe (universe/selection.py, evidence.py): the roles *)
(* the next universe gives, from the active ones and a day's evidence.     *)
(*                                                                         *)
(* Symbols are numbers, ordered like their names.  Evidence is what the    *)
(* rows of a snapshot come to: the mature pool and the recent one, each    *)
(* best first, the tracked symbols confirmed as not trading, and whether   *)
(* the market is steady.  A row of the mature pool has the history a probe *)
(* needs, so that the pool of the probes is the recent one, then the       *)
(* mature one (_probe_pool).                                               *)
(***************************************************************************)
EXTENDS Integers, Sequences, SequencesExt, FiniteSetsExt

CONSTANTS
  Symbols,
  CoreSize, BucketSize,               \* 50 and 5
  EntryRank, RetainRank,              \* core_entry_rank, core_retain_rank
  BoundaryRetainRank,
  WeeklyReplacements, DailyReplacements,
  CandidateDwell, CoreDwell           \* as times

ASSUME SelectionAssumption ==
  /\ Symbols \subseteq Nat
  /\ {CoreSize, BucketSize, EntryRank, RetainRank, BoundaryRetainRank, WeeklyReplacements,
      DailyReplacements, CandidateDwell, CoreDwell} \subseteq Nat \ {0}
  /\ EntryRank <= CoreSize /\ CoreSize <= RetainRank /\ BucketSize <= BoundaryRetainRank

Roles(core, boundary, probe) == [core |-> core, boundary |-> boundary, probe |-> probe]
Members(roles) == roles.core \cup roles.boundary \cup roles.probe
Candidates(roles) == roles.boundary \cup roles.probe
Raises == Roles({}, {}, {})

\* What UniverseDecision demands of its roles.
IsRole(symbols, size) ==
  symbols \subseteq Symbols /\ IsFiniteSet(symbols) /\ Cardinality(symbols) = size
Whole(roles) ==
  /\ IsRole(roles.core, CoreSize)
  /\ IsRole(roles.boundary, BucketSize) /\ IsRole(roles.probe, BucketSize)
  /\ roles.core \cap Candidates(roles) = {} /\ roles.boundary \cap roles.probe = {}

\* A pool is a function on its symbols, the less the better: the places in a
\* list of evidence of those that are not excluded.
Without(list, symbols) ==
  [s \in ToSet(list) \ symbols |-> CHOOSE i \in DOMAIN list : list[i] = s]
BestOf(pool, n) ==
  {s \in DOMAIN pool : Cardinality({t \in DOMAIN pool : pool[t] < pool[s]}) < n}
ProbePool(ev) == ev.recent \o ev.mature
\* A row is in one pool at most, and only rows of symbols that trade are.
IsEvidence(ev) ==
  /\ ev \in [mature : Seq(Symbols), recent : Seq(Symbols), inactive : SUBSET Symbols,
             steady : BOOLEAN]
  /\ IsInjective(ProbePool(ev)) /\ ToSet(ProbePool(ev)) \cap ev.inactive = {}
Since(since, s, default) == IF s \in DOMAIN since THEN since[s] ELSE default

\* Mutant: the day of the joining counts.
DwellRounded(joined, effective, required) == joined < effective
\* _dwell_complete
DwellComplete(joined, effective, required) == joined <= effective - required

\* Active members whose role lacks evidence, though they trade.
IncompleteActive(active, ev) ==
  {s \in Members(active) \ ev.inactive :
     s \notin (IF s \in active.probe THEN ToSet(ProbePool(ev)) ELSE ToSet(ev.mature))}

\* Members of the core that do not trade are replaced by the best others.
ReplacedCore(active, ev) ==
  LET gone == active.core \cap ev.inactive
  IN (active.core \ gone) \cup BestOf(Without(ev.mature, active.core), Cardinality(gone))

(***************************************************************************)
(* On Mondays challengers take the places of the worst members that may    *)
(* leave.  The loop, which swaps one pair at a time, is written by its     *)
(* result: no challenger is behind a member that may leave, since the      *)
(* entry rank is not behind the retain rank.                               *)
(***************************************************************************)
WeeklyCore(active, ev, effective, since, core) ==
  LET mature == Without(ev.mature, {})
      promotable == Restrict(mature, {s \in DOMAIN mature \ (active.core \cup core) :
                                        mature[s] <= EntryRank})
      removable == {s \in core \cap DOMAIN mature :
                      /\ mature[s] > RetainRank
                      /\ DwellComplete(Since(since.core, s, active.eff), effective, CoreDwell)}
      left == WeeklyReplacements - Cardinality(active.core \ core)
      changes == Min({Max({0, left}), Cardinality(DOMAIN promotable), Cardinality(removable)})
  IN (core \ BestOf([s \in removable |-> -mature[s]], changes)) \cup BestOf(promotable, changes)

(***************************************************************************)
(* _reconcile_bucket: what may stay stays, vacancies are filled in the     *)
(* order of preference, and at most limit incumbents that are not among    *)
(* the best and have dwelt give way, the last by name first.  A symbol     *)
(* that comes in is one of the best, so that it does not go out again.     *)
(***************************************************************************)
LastOf(symbols, n) == BestOf([s \in symbols |-> -s], n)
Others(pool, symbols) == Restrict(pool, DOMAIN pool \ symbols)

Filled(kept, pool) == kept \cup BestOf(Others(pool, kept), BucketSize - Cardinality(kept))
Replaced(filled, pool, removable, limit) ==
  LET better == Restrict(pool, BestOf(pool, BucketSize) \ filled)
      changes == Min({limit, Cardinality(DOMAIN better), Cardinality(removable)})
  IN (filled \ LastOf(removable, changes)) \cup BestOf(better, changes)

ReconcileBucket(current, preferred, forbidden, inactive, since, effective, limit) ==
  LET pool == Others(preferred, forbidden)
      kept == current \ (forbidden \cup inactive)
      filled == Filled(kept, pool)
      removable == {s \in filled \ BestOf(pool, BucketSize) :
                      DwellComplete(Since(since, s, effective), effective, CandidateDwell)}
      result == Replaced(filled, pool, removable, limit)
  IN IF \/ Cardinality(result) # BucketSize
        \/ Cardinality(kept) = BucketSize /\ Cardinality(current \ result) > limit
     THEN {} ELSE result

\* Mutant: one symbol too few is taken for enough.
NearlyEnough(pool) == Cardinality(DOMAIN pool) >= BucketSize - 1
\* The candidates of a role are enough to fill it.
Enough(pool) == Cardinality(DOMAIN pool) >= BucketSize

\* The boundary's pool: incumbents within the rank that may stay come first.
BoundaryPreferred(active, ev, taken) ==
  LET ranked == Without(ev.mature, taken)
      stays == BestOf(ranked, BoundaryRetainRank) \cap (active.boundary \ ev.inactive)
  IN [s \in DOMAIN ranked |-> IF s \in stays THEN ranked[s] - Len(ev.mature) ELSE ranked[s]]

\* select_rolling_universe
Select(active, ev, effective, monday, since) ==
  LET core == IF ev.steady /\ monday
              THEN WeeklyCore(active, ev, effective, since, ReplacedCore(active, ev))
              ELSE ReplacedCore(active, ev)
      probePreferred == Without(ProbePool(ev), core)
      probe == ReconcileBucket(active.probe, probePreferred, core, ev.inactive, since.member,
                               effective, IF ev.steady THEN 1 ELSE 0)
      boundaryPreferred == BoundaryPreferred(active, ev, core \cup probe)
      boundary ==
        ReconcileBucket(active.boundary, boundaryPreferred, core \cup probe, ev.inactive,
                        since.member, effective,
                        IF ev.steady THEN Max({1, DailyReplacements - 1}) ELSE 0)
      same == Roles(active.core, active.boundary, active.probe)
  IN IF \/ IncompleteActive(active, ev) # {}
        \/ Len(ev.mature) < CoreSize + BucketSize \/ ~Enough(Without(ProbePool(ev), {}))
        \/ ~ev.steady /\ ev.inactive = {}
     THEN same
     ELSE IF Cardinality(core) # CoreSize THEN Raises
     ELSE IF ~Enough(probePreferred) THEN same
     ELSE IF probe = {} THEN Raises
     ELSE IF ~Enough(boundaryPreferred) THEN same
     ELSE IF boundary = {} THEN Raises
     ELSE Roles(core, boundary, probe)

\* validate_bootstrap_universe
BootstrapHolds(active, ev) ==
  LET mature == Without(ev.mature, active.probe)
      probes == Without(ProbePool(ev), {})
  IN /\ active.core \cup active.boundary \subseteq DOMAIN mature
     /\ active.probe \subseteq DOMAIN probes
     /\ Cardinality(DOMAIN mature) >= CoreSize + BucketSize /\ Enough(probes)
=============================================================================

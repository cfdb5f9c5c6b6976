-------------------------------- MODULE Sources --------------------------------
(***************************************************************************)
(* The source group under a changing universe: BinanceSourceGroup's two    *)
(* phase update of its parts (sources.py), the midnight boundary, the      *)
(* retry of a failed update and the rebalancing of the public routes       *)
(* (service.py).                                                           *)
(*                                                                         *)
(* The parts are the public routes (one per shard), the market route and   *)
(* the open interest pollers.  The updates of one phase run concurrently   *)
(* and one step stands for them: in the adding phase a part only grows, in *)
(* the removing phase each shrinks to its own target.                      *)
(***************************************************************************)
EXTENDS Sharding

CONSTANTS
  Members,       \* of the universe at the start
  Universes,     \* those a decision may choose
  Tables,        \* the message rates the traffic recorder may have
  MaxDay, MaxFailures, MaxRebalances, MaxStops

ASSUME SourcesAssumption ==
  /\ Members \subseteq Symbols /\ Universes \subseteq SUBSET Symbols
  /\ \A t \in Tables : DOMAIN t \subseteq Symbols /\ t \in [DOMAIN t -> Nat]
  /\ {MaxDay, MaxFailures, MaxRebalances, MaxStops} \subseteq Nat

Market == Count
Oi == Count + 1
Parts == 0 .. Count + 1

VARIABLES
  day, active,    \* the day, and the members of the active universe
  running,        \* the sources run
  parts,          \* the instruments of each part
  instruments, assign,   \* _instruments and _public_sharder: the last committed
  table,          \* the message rates _public_sharder was made with
  op,             \* the update that holds _update_lock
  boundary,       \* the boundary that waits for the lock, or is in the update
  pending,        \* _pending_membership
  gaps,           \* the open PLANNED_BOUNDARY gaps: their day and their symbols
  failures, rebalances, stops

vars == <<day, active, running, parts, instruments, assign, table, op, boundary, pending, gaps,
          failures, rebalances, stops>>
bounds == <<failures, rebalances, stops>>

NoGap == [day |-> 0, symbols |-> {}]
Nothing == [members |-> {}, gap |-> NoGap]
NoOp == [by |-> "none", stage |-> "none", members |-> {}, gap |-> NoGap,
         current |-> [p \in Parts |-> {}], target |-> [p \in Parts |-> {}],
         assign |-> NoAssignment, table |-> [s \in {} |-> 0]]

PartsOf(members, a) == [p \in Parts |-> IF p \in Shards THEN Shard(a, p) ELSE members]

Init ==
  /\ day = 0 /\ active = Members /\ running = TRUE
  /\ table \in Tables
  /\ instruments = Members /\ assign = Assigned(table, NoAssignment, Members)
  /\ parts = PartsOf(Members, assign)
  /\ op = NoOp /\ boundary = Nothing /\ pending = Nothing /\ gaps = {}
  /\ failures = 0 /\ rebalances = 0 /\ stops = 0

(***************************************************************************)
(* _add_ready_remove.                                                      *)
(***************************************************************************)

Changed == {p \in Parts : op.current[p] # op.target[p]}
Expanded(p) == op.current[p] \cup op.target[p]

\* The parts an update fails in: a route then keeps its instruments, the
\* pollers those of the update (their tasks run, the first sample is late).
Updated(values, failed) ==
  [p \in Parts |-> IF p \in DOMAIN values /\ (p \notin failed \/ p = Oi) THEN values[p]
                   ELSE parts[p]]

May(failed) == /\ failed # {} => failures < MaxFailures
               /\ failures' = failures + (IF failed = {} THEN 0 ELSE 1)

Unphased == <<day, active, running, rebalances, stops>>
Uncommitted == <<instruments, assign, table, boundary, pending, gaps>>

\* Mutant: members that leave are dropped from the first update on.
AddOnlyTarget(p) == op.target[p]

\* The values of the first phase.
Grown(p) == Expanded(p)

Expand ==
  /\ op.stage = "add"
  /\ LET more == {p \in Changed : Expanded(p) # op.current[p]} IN
     \E failed \in SUBSET more :
       /\ May(failed)
       /\ parts' = Updated([p \in more |-> Grown(p)], failed)
       /\ op' = [op EXCEPT !.stage = IF failed = {} THEN "remove" ELSE "rollback"]
  /\ UNCHANGED <<Unphased, Uncommitted>>

\* The update of the boundary is over: the changed symbols' gap is closed,
\* unless an update is pending.
BoundaryOver == boundary' = Nothing

\* A SourceUpdateError: the boundary leaves the update to the membership
\* loop, which tries again later; a rebalance is tried again later.
Failed ==
  /\ op' = NoOp
  /\ IF op.by = "boundary"
     THEN BoundaryOver /\ pending' = [members |-> op.members, gap |-> op.gap]
     ELSE UNCHANGED <<boundary, pending>>
  /\ UNCHANGED <<instruments, assign, table, gaps>>

\* What was added is taken back where it can be.
RollBack ==
  /\ op.stage = "rollback"
  /\ LET more == {p \in Changed : Expanded(p) # op.current[p]} IN
     \E failed \in SUBSET more :
       /\ May(failed)
       /\ parts' = Updated([p \in more |-> op.current[p]], failed)
  /\ Failed
  /\ UNCHANGED Unphased

\* Mutant: an update that was applied stays pending.
KeepsPending == UNCHANGED pending

\* Only the update that was applied is taken off.
TakesOff ==
  pending' = IF pending = [members |-> op.members, gap |-> op.gap] THEN Nothing ELSE pending

Committed ==
  /\ op' = NoOp /\ assign' = op.assign /\ table' = op.table
  /\ \/ /\ op.by = "boundary"
        /\ instruments' = op.members /\ BoundaryOver
        /\ gaps' = IF pending = Nothing THEN gaps \ {op.gap} ELSE gaps
        /\ UNCHANGED pending
     \/ /\ op.by = "membership"
        /\ instruments' = op.members
        /\ gaps' = gaps \ {op.gap}
        /\ TakesOff /\ UNCHANGED boundary
     \/ /\ op.by \in {"reconcile", "rebalance"}
        /\ UNCHANGED <<instruments, boundary, pending, gaps>>

Shrink ==
  /\ op.stage = "remove"
  /\ LET fewer == {p \in Changed : Expanded(p) # op.target[p]} IN
     \E failed \in SUBSET fewer :
       /\ May(failed)
       /\ parts' = Updated([p \in fewer |-> op.target[p]], failed)
       /\ IF failed = {} THEN Committed ELSE Failed
  /\ UNCHANGED Unphased

\* The sources were stopped under an update: no part answers any more.
Orphaned ==
  /\ op.stage = "orphan"
  /\ Failed
  /\ UNCHANGED <<Unphased, parts, failures>>

(***************************************************************************)
(* update_instruments: of the boundary and of the membership loop.         *)
(***************************************************************************)

\* The plan: a route from its own instruments, the others from _instruments.
Plan(by, members, gap, a) ==
  op' = [by |-> by, stage |-> "add", members |-> members, gap |-> gap, assign |-> a,
         table |-> table,
         current |-> [p \in Parts |-> IF p \in Shards THEN parts[p] ELSE instruments],
         target |-> PartsOf(members, a)]

Unplanned == <<day, active, running, parts, instruments, assign, gaps, failures, stops>>

\* _apply_midnight_boundary: the decision is applied and the gap of the
\* changed symbols opened.
Boundary(members) ==
  /\ day < MaxDay /\ boundary = Nothing /\ op.by # "boundary"
  /\ day' = day + 1 /\ active' = members
  /\ LET gap == [day |-> day', symbols |-> (active \ members) \cup (members \ active)] IN
     IF running /\ gap.symbols # {}
     THEN gaps' = gaps \cup {gap} /\ boundary' = [members |-> members, gap |-> gap]
     ELSE UNCHANGED <<gaps, boundary>>
  /\ UNCHANGED <<running, parts, instruments, assign, table, op, pending, bounds>>

BoundaryUpdates ==
  /\ boundary # Nothing /\ op = NoOp
  /\ Plan("boundary", boundary.members, boundary.gap, Assigned(table, assign, boundary.members))
  /\ UNCHANGED <<Unplanned, table, boundary, pending, rebalances>>

\* _membership_loop, after its delay.
MembershipRetries ==
  /\ pending # Nothing /\ running /\ op = NoOp
  /\ Plan("membership", pending.members, pending.gap, Assigned(table, assign, pending.members))
  /\ UNCHANGED <<Unplanned, table, boundary, pending, rebalances>>

(***************************************************************************)
(* rebalance_public_routes.                                                *)
(***************************************************************************)

RoutesOnly(by, a, rates) ==
  op' = [NoOp EXCEPT !.by = by, !.stage = "add", !.assign = a, !.table = rates,
                     !.current = [p \in Parts |-> IF p \in Shards THEN parts[p] ELSE {}],
                     !.target = [p \in Parts |-> IF p \in Shards THEN Shard(a, p) ELSE {}]]

CommittedShards == [p \in Shards |-> Shard(assign, p)]
CurrentShards == [p \in Shards |-> parts[p]]

\* Routes that an update left behind first return to the committed shards.
Reconcile ==
  /\ running /\ op = NoOp /\ CurrentShards # CommittedShards
  /\ RoutesOnly("reconcile", assign, table)
  /\ UNCHANGED <<Unplanned, table, boundary, pending, rebalances>>

\* The routes agree with them: with the rates of now one pair may be swapped.
Rebalance ==
  /\ running /\ op = NoOp /\ CurrentShards = CommittedShards /\ rebalances < MaxRebalances
  /\ rebalances' = rebalances + 1
  /\ \E rates \in Tables :
       LET a == Rebalanced(rates, assign) IN
       IF a = assign THEN table' = rates /\ UNCHANGED op
       ELSE RoutesOnly("rebalance", a, rates) /\ UNCHANGED table
  /\ UNCHANGED <<Unplanned, boundary, pending>>

(***************************************************************************)
(* The storage loop stops and starts the sources, under the operation lock *)
(* that a boundary holds; a restart of the collector loses what was        *)
(* pending and closes the stale gaps when the sources are ready.           *)
(***************************************************************************)

Stop ==
  /\ running /\ boundary = Nothing /\ op.by # "boundary" /\ stops < MaxStops
  /\ stops' = stops + 1 /\ running' = FALSE
  /\ parts' = [p \in Parts |-> {}]
  /\ op' = IF op = NoOp THEN op ELSE [op EXCEPT !.stage = "orphan"]
  /\ UNCHANGED <<day, active, instruments, assign, table, boundary, pending, gaps, failures,
                 rebalances>>

Start ==
  /\ ~running /\ boundary = Nothing
  /\ running' = TRUE /\ instruments' = active
  /\ assign' = Assigned(table, assign, active)
  /\ parts' = PartsOf(active, assign')
  /\ UNCHANGED <<day, active, table, op, boundary, pending, gaps, bounds>>

Restart ==
  /\ running' = TRUE /\ instruments' = active /\ table' \in Tables
  /\ assign' = Assigned(table', NoAssignment, active)
  /\ parts' = PartsOf(active, assign')
  /\ op' = NoOp /\ boundary' = Nothing /\ pending' = Nothing /\ gaps' = {}
  /\ UNCHANGED <<day, active, bounds>>

Updating == Expand \/ RollBack \/ Shrink \/ Orphaned
Next == \/ Updating \/ BoundaryUpdates \/ MembershipRetries \/ Reconcile \/ Rebalance
        \/ Stop \/ Start \/ Restart
        \/ \E members \in Universes : Boundary(members)

Spec == Init /\ [][Next]_vars

(***************************************************************************)
(* Fairness: an update ends, the loops try again, stopped sources restart. *)
(***************************************************************************)
FairSpec == /\ Spec /\ WF_vars(Updating) /\ WF_vars(BoundaryUpdates) /\ WF_vars(Start)
            /\ SF_vars(MembershipRetries) /\ SF_vars(Reconcile)
=============================================================================

--------------------------- MODULE SourcesProperties ---------------------------
(***************************************************************************)
(* What a change of the universe and a rebalance may never do.             *)
(***************************************************************************)
EXTENDS Sources

\* The types of the state of the source group.
TypeOK ==
  /\ day \in 0 .. MaxDay /\ active \subseteq Symbols /\ instruments \subseteq Symbols
  /\ parts \in [Parts -> SUBSET Symbols]
  /\ assign \in [Symbols -> -1 .. Count - 1]
  /\ \A s \in Symbols : assign[s] # Unassigned <=> s \in instruments
  /\ op.by \in {"none", "boundary", "membership", "reconcile", "rebalance"}

Collected(s) == /\ \E p \in Shards : s \in parts[p]
                /\ s \in parts[Market] /\ s \in parts[Oi]
Marked == UNION {g.symbols : g \in gaps}

\* A member of the universe that no open boundary gap marks is collected by a
\* public route, by the market route and by a poller, whatever has failed,
\* been rolled back or is being moved ("不会先退订形成未登记空窗",
\* _add_ready_remove, _apply_midnight_boundary, _membership_loop).
UnmarkedAreCollected == running => \A s \in active \ Marked : Collected(s)

\* A rebalance is planned only to lower the spread of the loads, and moves one
\* pair of symbols; a new universe moves no symbol that stays (_improve_balance,
\* shards).
MovesAreJustified ==
  [][(op = NoOp /\ op' # NoOp) =>
       LET moved == {s \in instruments \cap UNION {op'.target[p] : p \in Shards} :
                       op'.assign[s] # assign[s]} IN
       IF op'.by = "rebalance"
       THEN /\ Spread(Loads(op'.table, op'.assign)) < Spread(Loads(op'.table, assign))
            /\ Cardinality(moved) = 2
       ELSE moved = {}]_vars

\* Routes that a failed update left with more return to the committed shards
\* ("route 恢复后先收敛到最后提交的 assignment", rebalance_public_routes), and a
\* pending update is applied some time (_membership_loop).
UpdatesConverge == []<>(pending = Nothing /\ CurrentShards = CommittedShards)
=============================================================================

------------------------------- MODULE Sharding -------------------------------
(***************************************************************************)
(* TrafficSharder (collector/sharding.py): which public route collects     *)
(* which symbol.  An assignment maps every symbol to a shard, Unassigned   *)
(* for a symbol that has none; symbols are numbers, ordered like their     *)
(* names.  A table gives the message rate of the symbols it knows.         *)
(***************************************************************************)
EXTENDS Integers, Sequences, SequencesExt, FiniteSetsExt

CONSTANTS Symbols, Count

ASSUME ShardingAssumption ==
  Symbols \subseteq Nat /\ IsFiniteSet(Symbols) /\ Count \in Nat \ {0}

Shards == 0 .. Count - 1
Unassigned == -1
NoAssignment == [s \in Symbols |-> Unassigned]
Shard(assign, i) == {s \in Symbols : assign[s] = i}

\* The median of a table: the least rate that more than half do not exceed.
Median(table) ==
  Min({table[s] : s \in {t \in DOMAIN table :
         2 * Cardinality({x \in DOMAIN table : table[x] <= table[t]}) > Cardinality(DOMAIN table)}})

\* _message_rate: a symbol the table does not know has the table's median.
MessageRate(table, s) ==
  IF s \in DOMAIN table THEN table[s] ELSE IF DOMAIN table = {} THEN 1 ELSE Median(table)

SetLoad(table, symbols) == MapThenSumSet(LAMBDA s : MessageRate(table, s), symbols)
Loads(table, assign) == [i \in Shards |-> SetLoad(table, Shard(assign, i))]
Spread(loads) == Max({loads[i] : i \in DOMAIN loads}) - Min({loads[i] : i \in DOMAIN loads})

(***************************************************************************)
(* _improve_balance, on the shards as lists: at orders the symbols of each *)
(* shard, and a symbol that is appended comes next.                        *)
(***************************************************************************)

Listed(assign, at) == [assign |-> assign, at |-> at, next |-> Cardinality(Symbols)]

\* Two symbols of different shards, and the lists when they change places.
Swaps(lists) ==
  {w \in Symbols \X Symbols : /\ lists.assign[w[1]] # Unassigned
                              /\ lists.assign[w[1]] < lists.assign[w[2]]}
Swapped(lists, w) ==
  [assign |-> [lists.assign EXCEPT ![w[1]] = lists.assign[w[2]], ![w[2]] = lists.assign[w[1]]],
   at |-> [lists.at EXCEPT ![w[1]] = lists.next, ![w[2]] = lists.next],
   next |-> lists.next + 1]

\* Which of two swaps is looked at first: by the shards, then by the places.
Rank(lists, w) ==
  <<lists.assign[w[1]], lists.assign[w[2]], lists.at[w[1]], lists.at[w[2]]>>
First(lists, v, w) ==
  \E k \in 1 .. 4 : /\ Rank(lists, v)[k] < Rank(lists, w)[k]
                    /\ \A m \in 1 .. k - 1 : Rank(lists, v)[m] = Rank(lists, w)[m]

\* Mutant: the first swap is taken for an improvement.
WorseSwap(table, lists) ==
  IF Swaps(lists) = {} THEN lists
  ELSE Swapped(lists, CHOOSE w \in Swaps(lists) : \A v \in Swaps(lists) \ {w} : First(lists, w, v))

\* One round of the loop: of the swaps that leave the least spread, when that
\* is less than now, the first.
BestSwap(table, lists) ==
  LET after == [w \in Swaps(lists) |-> Spread(Loads(table, Swapped(lists, w).assign))]
      best == {w \in Swaps(lists) :
                 /\ after[w] < Spread(Loads(table, lists.assign))
                 /\ \A v \in Swaps(lists) \ {w} :
                      after[w] < after[v] \/ (after[w] = after[v] /\ First(lists, w, v))}
  IN IF best = {} THEN lists ELSE Swapped(lists, CHOOSE w \in best : TRUE)

\* Every swap takes at least one from the spread.
Improved(table, lists) ==
  FoldLeft(LAMBDA l, i : BestSwap(table, l), lists,
           [i \in 1 .. Spread(Loads(table, lists.assign)) |-> i])

(***************************************************************************)
(* shards and rebalance.                                                   *)
(***************************************************************************)

\* max_symbols.
MaxSymbols(instruments) == (Cardinality(instruments) + Count - 1) \div Count + 1

\* The least loaded shard that has room.
Place(table, room, assign, s) ==
  LET loads == Loads(table, assign)
      open == {i \in Shards : Cardinality(Shard(assign, i)) < room}
      best == CHOOSE i \in open : \A j \in open : loads[i] < loads[j]
                                                  \/ (loads[i] = loads[j] /\ i <= j)
  IN [assign EXCEPT ![s] = best]

\* The order of the symbols that are placed.
Heavier(table, x, y) ==
  \/ MessageRate(table, x) > MessageRate(table, y)
  \/ MessageRate(table, x) = MessageRate(table, y) /\ x < y
Lightest(table, symbols) == CHOOSE s \in symbols : \A x \in symbols \ {s} : Heavier(table, x, s)

\* The symbols that stay keep their shard.
Kept(assign, instruments) ==
  [s \in Symbols |-> IF s \in instruments THEN assign[s] ELSE Unassigned]
New(assign, instruments) == {s \in instruments : assign[s] = Unassigned}

\* The new ones are placed, the lightest last.
Placed(table, assign, instruments) ==
  MapThenFoldSet(LAMBDA s, a : Place(table, MaxSymbols(instruments), a, s),
                 Kept(assign, instruments), LAMBDA s : s, LAMBDA todo : Lightest(table, todo),
                 New(assign, instruments))

\* shards: a first assignment is improved.  At least Count instruments are
\* assumed, as the contract has.
Assigned(table, assign, instruments) ==
  LET placed == Placed(table, assign, instruments)
      turn == [s \in Symbols |-> Cardinality({x \in instruments : Heavier(table, x, s)})]
  IN IF assign = NoAssignment THEN Improved(table, Listed(placed, turn)).assign ELSE placed

\* rebalance: at most one swap, when the largest load is above 1.25 of the mean.
Rebalanced(table, assign) ==
  LET loads == Loads(table, assign)
      total == MapThenSumSet(LAMBDA i : loads[i], Shards)
  IN IF Count < 2 \/ Max({loads[i] : i \in Shards}) * Count * 4 <= total * 5 THEN assign
     ELSE BestSwap(table, Listed(assign, [s \in Symbols |-> s])).assign
=============================================================================

--------------------------------- MODULE MCL2 ---------------------------------
(***************************************************************************)
(* A log of the exchange for the model checker: spans of two and of one    *)
(* updates.                                                                *)
(***************************************************************************)
EXTENDS L2Properties

MCSymmetry == Permutations(Connections) \cup Permutations(Gaps)

MCLog == <<[first |-> 1, final |-> 2, prev |-> 0], [first |-> 3, final |-> 3, prev |-> 2],
           [first |-> 4, final |-> 5, prev |-> 3]>>
=============================================================================

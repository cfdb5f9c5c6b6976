------------------------------ MODULE MCSources ------------------------------
(***************************************************************************)
(* Tables of message rates for the model checker: even ones, two heavy     *)
(* symbols that one route may have both of, and a single one that no swap  *)
(* can make up for.  None knows the symbol that enters.                    *)
(***************************************************************************)
EXTENDS SourcesProperties

MCTables == {[s \in 1 .. 4 |-> 2],
             [s \in 1 .. 4 |-> IF s \in {1, 3} THEN 4 ELSE 1],
             [s \in 1 .. 4 |-> IF s = 1 THEN 4 ELSE 1]}
=============================================================================

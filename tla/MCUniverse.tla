------------------------------ MODULE MCUniverse ------------------------------
(***************************************************************************)
(* Five symbols: 1 is the core, 2 the boundary and 3 the probe at first; 4 *)
(* is mature and 5 recent.                                                 *)
(***************************************************************************)
EXTENDS UniverseProperties

Finds(mature, recent, inactive, steady) ==
  [mature |-> mature, recent |-> recent, inactive |-> inactive, steady |-> steady]

MCBootstrap == Roles({1}, {2}, {3})
MCEvidences == {
  Finds(<<1, 4, 2>>, <<3, 5>>, {}, TRUE),
  Finds(<<4, 2, 1>>, <<5>>, {3}, TRUE),
  Finds(<<1, 2>>, <<>>, {3, 4, 5}, FALSE)}
MCProposals == {[boundary |-> {2}, probe |-> {5}]}
=============================================================================

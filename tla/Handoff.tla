-------------------------------- MODULE Handoff --------------------------------
(***************************************************************************)
(* What the transfer promises, seen from outside: a published chunk is     *)
(* held by the edge, then by both ends, then by the central host alone.    *)
(* The edge lets go only of what the central host holds.                   *)
(***************************************************************************)
CONSTANTS Chunks, Reofferable

VARIABLE held

Holders == {"nobody", "edge", "both", "central"}

Init == held = [c \in Chunks |-> "nobody"]

Move(c, from, to) == held[c] = from /\ held' = [held EXCEPT ![c] = to]

\* The edge publishes the chunk.
Offer(c) == Move(c, "nobody", "edge")

\* The central host makes its copy durable.
Copy(c) == Move(c, "edge", "both")

\* The edge deletes its copy.
Release(c) == Move(c, "both", "central")

\* A rollover fact is published once more after a crash.
Reoffer(c) == c \in Reofferable /\ Move(c, "central", "both")

Next == \E c \in Chunks : Offer(c) \/ Copy(c) \/ Release(c) \/ Reoffer(c)

Spec == Init /\ [][Next]_held
=============================================================================

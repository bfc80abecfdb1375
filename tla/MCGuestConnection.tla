-------------------------- MODULE MCGuestConnection --------------------------
(* TLC instances of GuestConnection. *)
EXTENDS GuestConnection, TLC

CONSTANTS b1, b2, c1, c2, w1, w2

MCBridges == {b1, b2}
MCCallers == {c1, c2}
MCWorkers == {w1, w2}
MCHostIntervals == {2}

\* Sound for safety: no property and no action tells these values apart.
Symmetry == Permutations(MCBridges) \cup Permutations(MCCallers)
              \cup Permutations(MCWorkers)
=============================================================================

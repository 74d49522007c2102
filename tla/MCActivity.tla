------------------------- MODULE MCActivity -------------------------
(* Values of the constants of Activity for TLC. *)
EXTENDS Activity, TLC

CONSTANTS u1, u2, r1

MCUsers == {u1, u2}
MCRounds == {r1}
MCCatches == {[won |-> 2, size |-> 3]}
Symmetry == Permutations(MCUsers)
=============================================================================

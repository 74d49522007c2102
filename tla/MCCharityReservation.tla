------------------------ MODULE MCCharityReservation ------------------------
(* Values of the constants of CharityReservation for TLC. *)
EXTENDS CharityReservation, TLC

CONSTANTS c1, c2, u1, u2, d1

MCCalls == {c1, c2}
MCUsers == {u1, u2}
MCDonations == {d1}
MCStart == {2}
MCDeltas == {-2}

\* Calls are interchangeable, and so are users: every set above that holds
\* them is whole, and no action names one of them.
Symmetry == Permutations(MCCalls) \cup Permutations(MCUsers)
=============================================================================

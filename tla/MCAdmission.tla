---------------------------- MODULE MCAdmission ----------------------------
(* Values of the constants of Admission for TLC. *)
EXTENDS Admission, TLC

CONSTANTS s1, s2, d1

MCSlots == {s1, s2}
MCDonations == {d1}
MCDonationLimit == [d \in MCDonations |-> 1]

\* One limit, for the three classes.
MCLimits == {1}
MCOverrides == {NoLimits}

\* One request at a time reads the limits: with one limit, what they read is the same.
MissesInTurn == Cardinality({s \in Slots : slot[s].pc \in {"missed", "half", "read"}}) <= 1

Symmetry == Permutations(MCSlots)
=============================================================================

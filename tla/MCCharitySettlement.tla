------------------------ MODULE MCCharitySettlement ------------------------
(* Values of the constants of CharitySettlement for TLC. *)
EXTENDS CharitySettlement, TLC

CONSTANTS c1, c2, u1, d1

MCCalls == {c1, c2}
MCUsers == {u1}
MCDonations == {d1}

\* Calls are interchangeable.
Symmetry == Permutations(MCCalls)

\* Liveness is checked with an administration that creates the donation, with
\* all the uses there can be, activates it and then leaves it alone, and with
\* processes that end by crashing: no step that is left out is fair, so these
\* are behaviours of the system.
Quiet ==
  /\ life' # "stopping"
  /\ UNCHANGED <<gone, users>>
  /\ \A d \in Donations :
       /\ dstatus'[d] # "deleted"
       /\ dstatus[d] = "unborn" => total'[d] \in {0, MaxTotal} /\ source'[d] = NoUser
       /\ dstatus[d] = "active" => dstatus'[d] # "inactive"
=============================================================================

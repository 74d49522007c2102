------------------------ MODULE MCDonationLifecycle ------------------------
(* Values of the constants of DonationLifecycle for TLC. *)
EXTENDS DonationLifecycle, TLC

CONSTANTS a1, a2, d1, d2, u1, p1

MCApplications == {a1, a2}
MCDonations == {d1, d2}
MCUsers == {u1}
MCPairs == {p1}

\* One pair of a template service: a plain service only drops steps.
MCService == [p \in MCPairs |-> p]
MCTemplates == {p1}

\* The endpoints that take several steps and are under way.
UnderWay ==
  Cardinality(toggles) + Cardinality(aftermath) + Cardinality(unused)
  + Cardinality({x \in DOMAIN download : download[x] # "idle"})
  + Cardinality({a \in Applications : app[a].pc \notin {"idle", "unattached", "done"}})

FewRequests == UnderWay <= 2

\* The limit is 1 or 2, and 1 again before the last submission goes on.
Limited ==
  /\ limit # 0
  /\ limit = 2 => \E a \in Applications : app[a].pc \in {"idle", "limited"}

\* The second donation shows what reviews do, the second download what becomes of
\* mappings: neither meets prices, status requests or calls.
Born == {d \in Donations : donation[d].status # "unborn"}
Aside ==
  Cardinality(Born) = 2 \/ made = 2 =>
    /\ busy = {} /\ exhausted = {} /\ toggles = {} /\ priced = {} /\ unused = {}
    /\ UnderWay <= 1
Symmetry == Permutations(MCApplications) \cup Permutations(MCDonations)
=============================================================================

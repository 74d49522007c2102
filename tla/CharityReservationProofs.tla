---------------------- MODULE CharityReservationProofs ----------------------
(***************************************************************************)
(* Proofs about CharityReservation, for any finite set of calls and any    *)
(* users, donations, prices, rewards and bounds.                           *)
(***************************************************************************)
EXTENDS CharityReservation, Sums, FiniteSetTheorems, TLAPS

USE DEF Terms, Held, Settled, Open, Existing

-----------------------------------------------------------------------------
(* Types *)

\* The first states have their types.
LEMMA InitTypeOK == Init => TypeOK
<1> SUFFICES ASSUME Init PROVE TypeOK
  OBVIOUS
<1>1. outside \in [Users -> Int]
  <2>1. StartCredits \subseteq Int
    BY ReservationAssumption DEF ReservationAssumption
  <2>2. outside \in [Users -> StartCredits]
    BY DEF Init
  <2> QED
    BY <2>1, <2>2
<1> QED
  BY <1>1 DEF Init, TypeOK

\* A settled row that loses a reference to a user is still a row.
LEMMA AnonymousType ==
  ASSUME NEW t \in Terms, NEW u
  PROVE  Anonymous(t, u) \in Terms
BY DEF Anonymous

\* Every step keeps the types.
LEMMA NextTypeOK == TypeOK /\ [Next]_vars => TypeOK'
<1> SUFFICES ASSUME TypeOK, [Next]_vars PROVE TypeOK'
  OBVIOUS
<1>1. ASSUME NEW c \in Calls, NEW u \in Users, NEW d \in Donations,
             NEW p \in Prices, NEW r \in Rewards, Reserve(c, u, d, p, r)
      PROVE  TypeOK'
  BY <1>1, ReservationAssumption DEF ReservationAssumption, TypeOK, Reserve, accounts, history
<1>2. ASSUME NEW c \in Calls, MarkDispatched(c) PROVE TypeOK'
  BY <1>2 DEF TypeOK, MarkDispatched, Live, accounts, donations, history
<1>3. ASSUME NEW c \in Calls, Commit(c) PROVE TypeOK'
  <2>1. terms[c].reward \in Nat
    BY <1>3, ReservationAssumption DEF ReservationAssumption, TypeOK, Commit, Live
  <2>2. contribution' \in [Users -> Nat]
    BY <1>3 DEF TypeOK, Commit
  <2>3. credits' \in [Users -> Int]
    BY <1>3, <2>1 DEF TypeOK, Commit
  <2> QED
    BY <1>3, <2>2, <2>3 DEF TypeOK, Commit, history
<1>4. ASSUME NEW c \in Calls, Release(c) PROVE TypeOK'
  <2>1. terms[c].price \in Nat
    BY <1>4, ReservationAssumption DEF ReservationAssumption, TypeOK, Release, Restored, Refund, Live
  <2>2. credits' \in [Users -> Int]
    BY <1>4, <2>1 DEF TypeOK, Release, Restored, Refund
  <2>3. remaining' \in [Donations -> Nat]
    BY <1>4 DEF TypeOK, Release, Restored, Refund
  <2>4. dstatus' \in [Donations -> Existing \cup {"unborn", "deleted"}]
    BY <1>4 DEF TypeOK, Release, Restored, Refund
  <2>5. status' \in [Calls -> Held \cup Settled \cup {"none"}]
    BY <1>4 DEF TypeOK, Release, Restored, Refund
  <2> QED
    BY <1>4, <2>1, <2>2, <2>3, <2>4, <2>5 DEF TypeOK, Release, Restored, Refund, Live, history
<1>5. ASSUME NEW old \in SUBSET Calls, PurgeSettled(old) PROVE TypeOK'
  BY <1>5 DEF TypeOK, PurgeSettled, accounts, donations, history
<1>6. ASSUME NEW d \in Donations, NEW n \in 1..MaxTotal,
             NEW src \in Users \cup {NoUser}, CreateDonation(d, n, src)
      PROVE  TypeOK'
  BY <1>6, ReservationAssumption DEF ReservationAssumption, TypeOK, CreateDonation, accounts, rows, history
<1>7. ASSUME NEW d \in Donations, DeadlinePasses(d) PROVE TypeOK'
  BY <1>7 DEF TypeOK, DeadlinePasses, accounts, donations, rows, history
<1>8. CASE ExpireOverdue
  BY <1>8 DEF TypeOK, ExpireOverdue, accounts, rows, history
<1>9. ASSUME NEW d \in Donations, NEW n \in 1..MaxTotal, NEW st \in Open,
             NEW extend \in BOOLEAN, PatchDonation(d, n, st, extend)
      PROVE  TypeOK'
  BY <1>9, ReservationAssumption DEF ReservationAssumption, TypeOK, PatchDonation, Clamped, Rest, accounts, rows
<1>10. ASSUME NEW d \in Donations, NEW st \in Open, CheckStatus(d, st) PROVE TypeOK'
  BY <1>10 DEF TypeOK, CheckStatus, accounts, donations, rows, history
<1>11. ASSUME NEW d \in Donations, NEW st \in Open, WriteStatus(d, st) PROVE TypeOK'
  BY <1>11 DEF TypeOK, WriteStatus, accounts, rows, history
<1>12. ASSUME NEW ids \in SUBSET Donations, NEW st \in Open, BatchSetStatus(ids, st)
       PROVE  TypeOK'
  BY <1>12 DEF TypeOK, BatchSetStatus, accounts, rows, history
<1>13. ASSUME NEW u \in Users, NEW ids \in SUBSET Donations, InvalidateExpired(u, ids)
       PROVE  TypeOK'
  BY <1>13 DEF TypeOK, InvalidateExpired, accounts, rows, history
<1>14. ASSUME NEW ids \in SUBSET Donations, DeleteDonations(ids) PROVE TypeOK'
  BY <1>14 DEF TypeOK, DeleteDonations, Deletable, accounts, rows, history
<1>15. ASSUME NEW u \in Users, NEW delta \in Deltas, MoveCredits(u, delta) PROVE TypeOK'
  BY <1>15, ReservationAssumption DEF ReservationAssumption, TypeOK, MoveCredits, donations, rows
<1>16. ASSUME NEW u \in Users, DeleteUser(u) PROVE TypeOK'
  <2>1. terms' \in [Calls -> Terms \cup {NoTerms}]
    BY <1>16, AnonymousType DEF TypeOK, DeleteUser, Concerns, Live
  <2>2. \A c \in Calls : status'[c] # "none" => terms'[c] \in Terms
    BY <1>16, AnonymousType DEF TypeOK, DeleteUser, Concerns, Live
  <2>3. gone' \subseteq Calls
    BY <1>16 DEF TypeOK, DeleteUser, Concerns, SolelyOf
  <2> QED
    BY <1>16, <2>1, <2>2, <2>3 DEF TypeOK, DeleteUser, Concerns, history
<1>17. CASE UNCHANGED vars
  BY <1>17 DEF TypeOK, vars, accounts, donations, rows, history
<1>18. ASSUME NEW ids \in SUBSET Users, NEW action \in {"add", "set"},
             NEW amount \in Deltas \cup StartCredits, AdminBatchCredits(ids, action, amount)
       PROVE  TypeOK'
  <2>1. amount \in Int
    BY ReservationAssumption DEF ReservationAssumption
  <2>2. credits' \in [Users -> Int]
    BY <1>18, <2>1 DEF AdminBatchCredits, BatchUpdateUserBalance, Rebalanced, TypeOK
  <2> QED
    BY <1>18, <2>2 DEF AdminBatchCredits, BatchUpdateUserBalance, TypeOK, donations, rows
<1> QED
  BY <1>1, <1>2, <1>3, <1>4, <1>5, <1>6, <1>7, <1>8, <1>9, <1>10, <1>11, <1>12,
     <1>13, <1>14, <1>15, <1>16, <1>17, <1>18 DEF Next, Administration

(***************************************************************************)
(* No step of the store leaves the types: in particular no order of        *)
(* reservations, refunds and clamped edits drives remaining_count below    *)
(* zero.                                                                   *)
(***************************************************************************)
THEOREM TypeCorrect == Spec => []TypeOK
BY InitTypeOK, NextTypeOK, PTL DEF Spec

-----------------------------------------------------------------------------
(* In-flight calls keep what they need *)

\* The steps that leave the rows and the accounts alone, and no existing
\* donation without a row.
LEMMA RowsKept ==
  ASSUME TypeOK, GoneSettled, InFlightBacked, UNCHANGED rows, UNCHANGED users,
         \A d \in Donations : dstatus[d] \in Existing => dstatus'[d] \in Existing
  PROVE  GoneSettled' /\ InFlightBacked'
<1>1. GoneSettled'
  BY DEF GoneSettled, rows
<1>2. ASSUME NEW c \in Calls, InFlight(c)'
      PROVE  Live(c)' /\ dstatus'[terms'[c].donation] \in Existing /\ terms'[c].user \in users'
  <2>1. InFlight(c) /\ terms[c] \in Terms
    BY <1>2 DEF rows, InFlight, TypeOK
  <2> QED
    BY <2>1 DEF rows, InFlightBacked, Live
<1> QED
  BY <1>1, <1>2 DEF InFlightBacked

\* Every step leaves in-flight calls what they need.
LEMMA BackedNext ==
  TypeOK /\ GoneSettled /\ InFlightBacked /\ [Next]_vars => GoneSettled' /\ InFlightBacked'
<1> SUFFICES ASSUME TypeOK, GoneSettled, InFlightBacked, [Next]_vars
             PROVE  GoneSettled' /\ InFlightBacked'
  OBVIOUS
<1>1. ASSUME NEW c \in Calls, NEW u \in Users, NEW d \in Donations,
             NEW p \in Prices, NEW r \in Rewards, Reserve(c, u, d, p, r)
      PROVE  GoneSettled' /\ InFlightBacked'
  <2>1. c \notin gone
    BY <1>1 DEF Reserve, GoneSettled
  <2>2. GoneSettled'
    BY <1>1, <2>1 DEF Reserve, GoneSettled, TypeOK
  <2>3. ASSUME NEW e \in Calls, InFlight(e)'
        PROVE  Live(e)' /\ dstatus'[terms'[e].donation] \in Existing /\ terms'[e].user \in users'
    <3>1. CASE e = c
      BY <1>1, <2>1, <3>1 DEF Reserve, Live, TypeOK
    <3>2. CASE e # c
      <4>1. InFlight(e) /\ terms[e] \in Terms /\ terms'[e] = terms[e] /\ status'[e] = status[e]
        BY <1>1, <2>3, <3>2 DEF Reserve, InFlight, TypeOK
      <4> QED
        BY <1>1, <4>1 DEF Reserve, InFlightBacked, Live, TypeOK
    <3> QED
      BY <3>1, <3>2
  <2> QED
    BY <2>2, <2>3 DEF InFlightBacked
<1>2. ASSUME NEW c \in Calls, MarkDispatched(c) PROVE GoneSettled' /\ InFlightBacked'
  <2>1. GoneSettled'
    BY <1>2 DEF MarkDispatched, Live, GoneSettled, TypeOK
  <2>2. \A e \in Calls : InFlight(e)' => InFlight(e)
    BY <1>2 DEF MarkDispatched, InFlight, TypeOK
  <2> QED
    BY <1>2, <2>1, <2>2 DEF MarkDispatched, InFlightBacked, Live, InFlight, TypeOK,
                            accounts, donations
<1>3. ASSUME NEW c \in Calls, Commit(c) PROVE GoneSettled' /\ InFlightBacked'
  <2>1. GoneSettled'
    BY <1>3 DEF Commit, GoneSettled, TypeOK
  <2>2. \A e \in Calls : InFlight(e)' => e # c /\ InFlight(e) /\ status'[e] = status[e]
    BY <1>3 DEF Commit, InFlight, TypeOK
  <2> QED
    BY <1>3, <2>1, <2>2 DEF Commit, InFlightBacked, Live
<1>4. ASSUME NEW c \in Calls, Release(c) PROVE GoneSettled' /\ InFlightBacked'
  <2>1. GoneSettled'
    BY <1>4 DEF Release, Restored, Refund, GoneSettled, TypeOK
  <2>2. \A e \in Calls : InFlight(e)' => e # c /\ InFlight(e) /\ status'[e] = status[e]
    BY <1>4 DEF Release, Restored, Refund, InFlight, TypeOK
  <2>3. \A d \in Donations : dstatus[d] \in Existing => dstatus'[d] \in Existing
    BY <1>4 DEF Release, Restored, Refund, TypeOK
  <2>4. \A e \in Calls : InFlight(e) => terms[e].donation \in Donations
    BY DEF InFlight, TypeOK
  <2> QED
    BY <1>4, <2>1, <2>2, <2>3, <2>4 DEF Release, Restored, Refund, InFlightBacked, Live
<1>5. ASSUME NEW old \in SUBSET Calls, PurgeSettled(old) PROVE GoneSettled' /\ InFlightBacked'
  <2>1. GoneSettled'
    BY <1>5 DEF PurgeSettled, GoneSettled
  <2>2. \A e \in Calls : InFlight(e)' => InFlight(e) /\ e \notin old
    BY <1>5 DEF PurgeSettled, InFlight
  <2> QED
    BY <1>5, <2>1, <2>2 DEF PurgeSettled, InFlightBacked, Live, accounts, donations
<1>6. ASSUME NEW d \in Donations, NEW n \in 1..MaxTotal,
             NEW src \in Users \cup {NoUser}, CreateDonation(d, n, src)
      PROVE  GoneSettled' /\ InFlightBacked'
  BY <1>6, RowsKept DEF CreateDonation, accounts, TypeOK
<1>7. ASSUME NEW d \in Donations, DeadlinePasses(d) PROVE GoneSettled' /\ InFlightBacked'
  BY <1>7, RowsKept DEF DeadlinePasses, accounts, donations
<1>8. CASE ExpireOverdue
  BY <1>8, RowsKept DEF ExpireOverdue, accounts, TypeOK
<1>9. ASSUME NEW d \in Donations, NEW n \in 1..MaxTotal, NEW st \in Open,
             NEW extend \in BOOLEAN, PatchDonation(d, n, st, extend)
      PROVE  GoneSettled' /\ InFlightBacked'
  BY <1>9, RowsKept DEF PatchDonation, Clamped, accounts, TypeOK
<1>10. ASSUME NEW d \in Donations, NEW st \in Open, CheckStatus(d, st)
       PROVE  GoneSettled' /\ InFlightBacked'
  BY <1>10, RowsKept DEF CheckStatus, accounts, donations
<1>11. ASSUME NEW d \in Donations, NEW st \in Open, WriteStatus(d, st)
       PROVE  GoneSettled' /\ InFlightBacked'
  BY <1>11, RowsKept DEF WriteStatus, accounts, TypeOK
<1>12. ASSUME NEW ids \in SUBSET Donations, NEW st \in Open, BatchSetStatus(ids, st)
       PROVE  GoneSettled' /\ InFlightBacked'
  BY <1>12, RowsKept DEF BatchSetStatus, accounts, TypeOK
<1>13. ASSUME NEW u \in Users, NEW ids \in SUBSET Donations, InvalidateExpired(u, ids)
       PROVE  GoneSettled' /\ InFlightBacked'
  BY <1>13, RowsKept DEF InvalidateExpired, accounts, TypeOK
<1>14. ASSUME NEW ids \in SUBSET Donations, DeleteDonations(ids)
       PROVE  GoneSettled' /\ InFlightBacked'
  <2>1. GoneSettled'
    BY <1>14 DEF DeleteDonations, Deletable, GoneSettled, rows
  <2>2. ASSUME NEW e \in Calls, InFlight(e)'
        PROVE  Live(e)' /\ dstatus'[terms'[e].donation] \in Existing /\ terms'[e].user \in users'
    <3>1. InFlight(e) /\ terms[e].donation \in Donations
      BY <1>14, <2>2 DEF DeleteDonations, Deletable, rows, InFlight, TypeOK
    <3>2. terms[e].donation \notin ids
      BY <1>14, <3>1 DEF DeleteDonations, Deletable, InFlightOn
    <3> QED
      BY <1>14, <3>1, <3>2 DEF DeleteDonations, Deletable, InFlightBacked, Live, rows, accounts
  <2> QED
    BY <2>1, <2>2 DEF InFlightBacked
<1>15. ASSUME NEW u \in Users, NEW delta \in Deltas, MoveCredits(u, delta)
       PROVE  GoneSettled' /\ InFlightBacked'
  BY <1>15, RowsKept DEF MoveCredits, donations
<1>16. ASSUME NEW u \in Users, DeleteUser(u) PROVE GoneSettled' /\ InFlightBacked'
  <2>1. GoneSettled'
    BY <1>16 DEF DeleteUser, Concerns, SolelyOf, InFlight, Live, GoneSettled, TypeOK
  <2>2. ASSUME NEW e \in Calls, InFlight(e)'
        PROVE  Live(e)' /\ dstatus'[terms'[e].donation] \in Existing /\ terms'[e].user \in users'
    <3>1. InFlight(e) /\ terms[e] \in Terms /\ Live(e) /\ terms[e].user \in users
      BY <1>16, <2>2 DEF DeleteUser, Concerns, InFlight, InFlightBacked, TypeOK
    <3>2. u \notin {terms[e].user, terms[e].donor}
      BY <1>16, <3>1 DEF DeleteUser, Concerns
    <3>3. terms'[e] = terms[e]
      BY <1>16, <3>1, <3>2 DEF DeleteUser, Concerns, Anonymous
    <3>4. e \notin SolelyOf(u)
      BY <3>2 DEF SolelyOf
    <3> QED
      BY <1>16, <3>1, <3>2, <3>3, <3>4 DEF DeleteUser, Concerns, InFlightBacked, Live
  <2> QED
    BY <2>1, <2>2 DEF InFlightBacked
<1>17. CASE UNCHANGED vars
  BY <1>17, RowsKept DEF vars, accounts, donations
<1>18. ASSUME NEW ids \in SUBSET Users, NEW action \in {"add", "set"},
             NEW amount \in Deltas \cup StartCredits, AdminBatchCredits(ids, action, amount)
       PROVE  GoneSettled' /\ InFlightBacked'
  BY <1>18, RowsKept DEF AdminBatchCredits, BatchUpdateUserBalance, donations
<1> QED
  BY <1>1, <1>2, <1>3, <1>4, <1>5, <1>6, <1>7, <1>8, <1>9, <1>10, <1>11, <1>12,
     <1>13, <1>14, <1>15, <1>16, <1>17, <1>18 DEF Next, Administration

\* Both hold in every reachable state.
LEMMA BackedInvariant == Spec => [](GoneSettled /\ InFlightBacked)
<1>1. Init => GoneSettled /\ InFlightBacked
  BY DEF Init, GoneSettled, InFlightBacked, InFlight
<1> QED
  BY <1>1, TypeCorrect, BackedNext, PTL DEF Spec

(***************************************************************************)
(* In-flight calls always find their row, their donation and their         *)
(* consumer, so settling one cannot fail for good.  The argument needs     *)
(* GoneSettled: a row that was purged or deleted is never one a later      *)
(* reservation or settlement meets.                                        *)
(***************************************************************************)
THEOREM SettlementPossible == Spec => []InFlightBacked
BY BackedInvariant, PTL

-----------------------------------------------------------------------------
(* Capacity *)

\* No step expires a donation that has uses left before its deadline.
LEMMA StrandedNext ==
  TypeOK /\ NoStrandedCapacity /\ [Next]_vars => NoStrandedCapacity'
<1> SUFFICES ASSUME TypeOK, NoStrandedCapacity, [Next]_vars
             PROVE  NoStrandedCapacity'
  OBVIOUS
<1> USE DEF TypeOK, NoStrandedCapacity
<1>1. ASSUME NEW c \in Calls, NEW u \in Users, NEW d \in Donations,
             NEW p \in Prices, NEW r \in Rewards, Reserve(c, u, d, p, r)
      PROVE  NoStrandedCapacity'
  BY <1>1 DEF Reserve
<1>2. ASSUME NEW c \in Calls, Release(c) PROVE NoStrandedCapacity'
  <2>1. terms[c].donation \in Donations
    BY <1>2 DEF Release, Restored, Refund, Live
  <2> QED
    BY <1>2, <2>1 DEF Release, Restored, Refund
<1>3. ASSUME NEW c \in Calls, MarkDispatched(c) \/ Commit(c) PROVE NoStrandedCapacity'
  BY <1>3 DEF MarkDispatched, Commit, donations
<1>4. ASSUME NEW old \in SUBSET Calls, PurgeSettled(old) PROVE NoStrandedCapacity'
  BY <1>4 DEF PurgeSettled, donations
<1>5. ASSUME NEW d \in Donations, NEW n \in 1..MaxTotal,
             NEW src \in Users \cup {NoUser}, CreateDonation(d, n, src)
      PROVE  NoStrandedCapacity'
  BY <1>5 DEF CreateDonation
<1>6. ASSUME NEW d \in Donations, DeadlinePasses(d) PROVE NoStrandedCapacity'
  BY <1>6 DEF DeadlinePasses, donations
<1>7. CASE ExpireOverdue
  BY <1>7 DEF ExpireOverdue
<1>8. ASSUME NEW d \in Donations, NEW n \in 1..MaxTotal, NEW st \in Open,
             NEW extend \in BOOLEAN, PatchDonation(d, n, st, extend)
      PROVE  NoStrandedCapacity'
  BY <1>8 DEF PatchDonation, Clamped
<1>9. ASSUME NEW d \in Donations, NEW st \in Open, CheckStatus(d, st) \/ WriteStatus(d, st)
      PROVE  NoStrandedCapacity'
  BY <1>9 DEF CheckStatus, WriteStatus, donations
<1>10. ASSUME NEW ids \in SUBSET Donations, NEW st \in Open, BatchSetStatus(ids, st)
       PROVE  NoStrandedCapacity'
  BY <1>10 DEF BatchSetStatus
<1>11. ASSUME NEW u \in Users, NEW ids \in SUBSET Donations, InvalidateExpired(u, ids)
       PROVE  NoStrandedCapacity'
  BY <1>11 DEF InvalidateExpired
<1>12. ASSUME NEW ids \in SUBSET Donations, DeleteDonations(ids) PROVE NoStrandedCapacity'
  BY <1>12 DEF DeleteDonations, Deletable
<1>13. ASSUME NEW u \in Users, NEW delta \in Deltas, MoveCredits(u, delta)
       PROVE  NoStrandedCapacity'
  BY <1>13 DEF MoveCredits, donations
<1>14. ASSUME NEW u \in Users, DeleteUser(u) PROVE NoStrandedCapacity'
  BY <1>14 DEF DeleteUser, Concerns
<1>15. CASE UNCHANGED vars
  BY <1>15 DEF vars, donations
<1>16. ASSUME NEW ids \in SUBSET Users, NEW action \in {"add", "set"},
             NEW amount \in Deltas \cup StartCredits, AdminBatchCredits(ids, action, amount)
       PROVE  NoStrandedCapacity'
  BY <1>16 DEF AdminBatchCredits, BatchUpdateUserBalance, donations
<1> HIDE DEF TypeOK, NoStrandedCapacity
<1> QED
  BY <1>1, <1>2, <1>3, <1>4, <1>5, <1>6, <1>7, <1>8, <1>9, <1>10, <1>11, <1>12,
     <1>13, <1>14, <1>15, <1>16 DEF Next, Administration

(***************************************************************************)
(* An unexpired deadline and an "expired" status mean an exhausted         *)
(* donation: every way of bringing a use back also brings the donation     *)
(* back.                                                                   *)
(***************************************************************************)
THEOREM NothingStranded == Spec => []NoStrandedCapacity
<1>1. Init => NoStrandedCapacity
  BY DEF Init, NoStrandedCapacity
<1> QED
  BY <1>1, TypeCorrect, StrandedNext, PTL DEF Spec

\* The calls in flight on a donation can be counted.
LEMMA InFlightFinite ==
  ASSUME NEW d
  PROVE  IsFiniteSet(InFlightOn(d)) /\ Cardinality(InFlightOn(d)) \in Nat
BY ReservationAssumption, FS_Subset, FS_CardinalityType DEF ReservationAssumption, InFlightOn

\* None is zero.
LEMMA NoneInFlight ==
  ASSUME NEW d, InFlightOn(d) = {}
  PROVE  Cardinality(InFlightOn(d)) = 0
BY FS_EmptySet

\* The steps that leave the rows of in-flight calls alone.
LEMMA SameInFlight ==
  ASSUME UNCHANGED <<status, terms>>, NEW d
  PROVE  InFlightOn(d)' = InFlightOn(d)
BY DEF InFlightOn, InFlight

\* A call that is settled gives up exactly one use of its donation.
LEMMA OneLessInFlight ==
  ASSUME TypeOK, NEW c \in Calls, InFlight(c), UNCHANGED terms, NEW st \in Settled,
         status' = [status EXCEPT ![c] = st], NEW e
  PROVE  Cardinality(InFlightOn(e)') =
           Cardinality(InFlightOn(e)) - IF e = terms[c].donation THEN 1 ELSE 0
<1>1. CASE e = terms[c].donation
  <2>1. InFlightOn(e)' = InFlightOn(e) \ {c} /\ c \in InFlightOn(e)
    BY <1>1 DEF InFlightOn, InFlight, TypeOK
  <2>2. Cardinality(InFlightOn(e) \ {c}) = Cardinality(InFlightOn(e)) - 1
    BY <2>1, InFlightFinite, FS_RemoveElement
  <2> QED
    BY <1>1, <2>1, <2>2
<1>2. CASE e # terms[c].donation
  <2>1. InFlightOn(e)' = InFlightOn(e)
    BY <1>2 DEF InFlightOn, InFlight, TypeOK
  <2> QED
    BY <1>2, <2>1, InFlightFinite
<1> QED
  BY <1>1, <1>2

\* The steps that change neither the counters, nor the rows, nor which
\* donations exist for good.
LEMMA CountersKept ==
  ASSUME CapacityConserved, UNCHANGED <<remaining, total, success, over, status, terms>>,
         \A d \in Donations : dstatus'[d] # "deleted" => dstatus[d] # "deleted"
  PROVE  CapacityConserved'
<1> SUFFICES ASSUME NEW d \in Donations, dstatus'[d] # "deleted"
             PROVE  remaining'[d] + Cardinality(InFlightOn(d)') + success'[d]
                      = total'[d] + over'[d]
  BY DEF CapacityConserved
<1> QED
  BY SameInFlight DEF CapacityConserved

\* What a donation has left, what its settled calls used up and what is in
\* flight always sum to its total.
LEMMA CapacityNext ==
  TypeOK /\ InFlightBacked /\ UnbornUnused /\ CapacityConserved /\ [Next]_vars
    => CapacityConserved'
<1> SUFFICES ASSUME TypeOK, InFlightBacked, UnbornUnused, CapacityConserved, [Next]_vars
             PROVE  CapacityConserved'
  OBVIOUS
<1>1. ASSUME NEW c \in Calls, NEW u \in Users, NEW d \in Donations,
             NEW p \in Prices, NEW r \in Rewards, Reserve(c, u, d, p, r)
      PROVE  CapacityConserved'
  <2> SUFFICES ASSUME NEW e \in Donations, dstatus'[e] # "deleted"
               PROVE  remaining'[e] + Cardinality(InFlightOn(e)') + success'[e]
                        = total'[e] + over'[e]
    BY DEF CapacityConserved
  <2>1. dstatus[e] # "deleted"
    BY <1>1 DEF Reserve, TypeOK
  <2>2. remaining[e] + Cardinality(InFlightOn(e)) + success[e] = total[e] + over[e]
    BY <2>1 DEF CapacityConserved
  <2>3. CASE e = d
    <3>1. InFlightOn(e)' = InFlightOn(e) \cup {c} /\ c \notin InFlightOn(e)
      BY <1>1, <2>3 DEF Reserve, InFlightOn, InFlight, TypeOK
    <3>2. Cardinality(InFlightOn(e)') = Cardinality(InFlightOn(e)) + 1
      BY <3>1, InFlightFinite, FS_AddElement
    <3> QED
      BY <1>1, <2>2, <2>3, <3>2, InFlightFinite DEF Reserve, TypeOK, history
  <2>4. CASE e # d
    <3>1. InFlightOn(e)' = InFlightOn(e)
      BY <1>1, <2>4 DEF Reserve, InFlightOn, InFlight, TypeOK
    <3> QED
      BY <1>1, <2>2, <2>4, <3>1 DEF Reserve, TypeOK, history
  <2> QED
    BY <2>3, <2>4
<1>2. ASSUME NEW c \in Calls, MarkDispatched(c) PROVE CapacityConserved'
  <2>1. \A d : InFlightOn(d)' = InFlightOn(d)
    BY <1>2 DEF MarkDispatched, InFlightOn, InFlight, TypeOK
  <2> QED
    BY <1>2, <2>1 DEF MarkDispatched, CapacityConserved, donations, history
<1>3. ASSUME NEW c \in Calls, Commit(c) PROVE CapacityConserved'
  <2> SUFFICES ASSUME NEW e \in Donations, dstatus'[e] # "deleted"
               PROVE  remaining'[e] + Cardinality(InFlightOn(e)') + success'[e]
                        = total'[e] + over'[e]
    BY DEF CapacityConserved
  <2>1. Cardinality(InFlightOn(e)') =
          Cardinality(InFlightOn(e)) - IF e = terms[c].donation THEN 1 ELSE 0
    BY <1>3, OneLessInFlight DEF Commit, InFlight
  <2>2. remaining[e] + Cardinality(InFlightOn(e)) + success[e] = total[e] + over[e]
    BY <1>3 DEF Commit, CapacityConserved
  <2> QED
    BY <1>3, <2>1, <2>2, InFlightFinite DEF Commit, TypeOK, history
<1>4. ASSUME NEW c \in Calls, Release(c) PROVE CapacityConserved'
  <2> SUFFICES ASSUME NEW e \in Donations, dstatus'[e] # "deleted"
               PROVE  remaining'[e] + Cardinality(InFlightOn(e)') + success'[e]
                        = total'[e] + over'[e]
    BY DEF CapacityConserved
  <2>1. Cardinality(InFlightOn(e)') =
          Cardinality(InFlightOn(e)) - IF e = terms[c].donation THEN 1 ELSE 0
    BY <1>4, OneLessInFlight DEF Release, Restored, Refund, InFlight
  <2>2. remaining[e] + Cardinality(InFlightOn(e)) + success[e] = total[e] + over[e]
    BY <1>4 DEF Release, Restored, Refund, CapacityConserved, TypeOK
  <2> QED
    BY <1>4, <2>1, <2>2, InFlightFinite DEF Release, Restored, Refund, TypeOK, history
<1>5. ASSUME NEW old \in SUBSET Calls, PurgeSettled(old) PROVE CapacityConserved'
  BY <1>5, CountersKept DEF PurgeSettled, donations, history
<1>6. ASSUME NEW d \in Donations, NEW n \in 1..MaxTotal,
             NEW src \in Users \cup {NoUser}, CreateDonation(d, n, src)
      PROVE  CapacityConserved'
  <2> SUFFICES ASSUME NEW e \in Donations, dstatus'[e] # "deleted"
               PROVE  remaining'[e] + Cardinality(InFlightOn(e)') + success'[e]
                        = total'[e] + over'[e]
    BY DEF CapacityConserved
  <2>1. InFlightOn(e)' = InFlightOn(e)
    BY <1>6, SameInFlight DEF CreateDonation, rows
  <2>2. dstatus[e] # "deleted"
    BY <1>6 DEF CreateDonation, TypeOK
  <2>3. remaining[e] + Cardinality(InFlightOn(e)) + success[e] = total[e] + over[e]
    BY <2>2 DEF CapacityConserved
  <2>4. CASE e = d
    <3>1. remaining[e] = 0 /\ total[e] = 0
      BY <1>6, <2>4 DEF CreateDonation, UnbornUnused
    <3> QED
      BY <1>6, <2>1, <2>3, <2>4, <3>1, InFlightFinite, ReservationAssumption
         DEF ReservationAssumption, CreateDonation, TypeOK, history
  <2>5. CASE e # d
    BY <1>6, <2>1, <2>3, <2>5 DEF CreateDonation, TypeOK, history
  <2> QED
    BY <2>4, <2>5
<1>7. ASSUME NEW d \in Donations, DeadlinePasses(d) PROVE CapacityConserved'
  BY <1>7, CountersKept DEF DeadlinePasses, donations, rows, history
<1>8. CASE ExpireOverdue
  BY <1>8, CountersKept DEF ExpireOverdue, TypeOK, rows, history
<1>9. ASSUME NEW d \in Donations, NEW n \in 1..MaxTotal, NEW st \in Open,
             NEW extend \in BOOLEAN, PatchDonation(d, n, st, extend)
      PROVE  CapacityConserved'
  <2> SUFFICES ASSUME NEW e \in Donations, dstatus'[e] # "deleted"
               PROVE  remaining'[e] + Cardinality(InFlightOn(e)') + success'[e]
                        = total'[e] + over'[e]
    BY DEF CapacityConserved
  <2>1. InFlightOn(e)' = InFlightOn(e)
    BY <1>9, SameInFlight DEF PatchDonation, Clamped, rows
  <2>2. remaining[e] + Cardinality(InFlightOn(e)) + success[e] = total[e] + over[e]
    BY <1>9 DEF PatchDonation, Clamped, CapacityConserved, TypeOK
  <2>3. CASE e = d
    <3> DEFINE rest == Rest(d, n)
    <3>1. rest = remaining[d] + n - total[d]
      BY DEF Rest
    <3>2. /\ n \in Nat /\ rest \in Int /\ remaining[d] \in Nat /\ total[d] \in Nat
          /\ success[d] \in Nat /\ over[d] \in Nat
      BY ReservationAssumption DEF ReservationAssumption, TypeOK, Rest
    <3>3. /\ total'[d] = n /\ success'[d] = success[d]
          /\ remaining'[d] = IF rest < 0 THEN 0 ELSE rest
          /\ over'[d] = over[d] + IF 0 - rest < 0 THEN 0 ELSE 0 - rest
      BY <1>9 DEF PatchDonation, Clamped, TypeOK
    <3>4. remaining'[d] - over'[d] = rest - over[d]
      <4> HIDE DEF rest
      <4> QED
        BY <3>2, <3>3
    <3>5. remaining'[d] \in Nat /\ over'[d] \in Nat
      <4> HIDE DEF rest
      <4> QED
        BY <3>2, <3>3
    <3> HIDE DEF rest
    <3> QED
      BY <2>1, <2>2, <2>3, <3>1, <3>2, <3>3, <3>4, <3>5, InFlightFinite
  <2>4. CASE e # d
    BY <1>9, <2>1, <2>2, <2>4 DEF PatchDonation, Clamped, TypeOK
  <2> QED
    BY <2>3, <2>4
<1>10. ASSUME NEW d \in Donations, NEW st \in Open, CheckStatus(d, st) \/ WriteStatus(d, st)
       PROVE  CapacityConserved'
  BY <1>10, CountersKept DEF CheckStatus, WriteStatus, TypeOK, donations, rows, history
<1>11. ASSUME NEW ids \in SUBSET Donations, NEW st \in Open, BatchSetStatus(ids, st)
       PROVE  CapacityConserved'
  BY <1>11, CountersKept DEF BatchSetStatus, TypeOK, rows, history
<1>12. ASSUME NEW u \in Users, NEW ids \in SUBSET Donations, InvalidateExpired(u, ids)
       PROVE  CapacityConserved'
  BY <1>12, CountersKept DEF InvalidateExpired, TypeOK, rows, history
<1>13. ASSUME NEW ids \in SUBSET Donations, DeleteDonations(ids) PROVE CapacityConserved'
  BY <1>13, CountersKept DEF DeleteDonations, Deletable, TypeOK, rows, history
<1>14. ASSUME NEW u \in Users, NEW delta \in Deltas, MoveCredits(u, delta)
       PROVE  CapacityConserved'
  BY <1>14, CountersKept DEF MoveCredits, donations, rows
<1>15. ASSUME NEW u \in Users, DeleteUser(u) PROVE CapacityConserved'
  <2>1. ASSUME NEW d \in Donations PROVE InFlightOn(d)' = InFlightOn(d)
    <3>1. ASSUME NEW c \in Calls, InFlight(c) PROVE terms'[c] = terms[c]
      <4>1. Live(c) /\ terms[c] \in Terms /\ u \notin {terms[c].user, terms[c].donor}
        BY <1>15, <3>1 DEF DeleteUser, Concerns, InFlightBacked, InFlight, TypeOK
      <4> QED
        BY <1>15, <4>1 DEF DeleteUser, Concerns, Anonymous
    <3> QED
      BY <1>15, <3>1 DEF DeleteUser, Concerns, InFlightOn, InFlight
  <2> QED
    BY <1>15, <2>1 DEF DeleteUser, Concerns, CapacityConserved, history
<1>16. CASE UNCHANGED vars
  BY <1>16, CountersKept DEF vars, donations, rows, history
<1>17. ASSUME NEW ids \in SUBSET Users, NEW action \in {"add", "set"},
             NEW amount \in Deltas \cup StartCredits, AdminBatchCredits(ids, action, amount)
       PROVE  CapacityConserved'
  BY <1>17, CountersKept DEF AdminBatchCredits, BatchUpdateUserBalance, donations, rows
<1> QED
  BY <1>1, <1>2, <1>3, <1>4, <1>5, <1>6, <1>7, <1>8, <1>9, <1>10, <1>11, <1>12,
     <1>13, <1>14, <1>15, <1>16, <1>17 DEF Next, Administration

\* A donation has nothing to give before it is created.
LEMMA UnbornNext == TypeOK /\ UnbornUnused /\ [Next]_vars => UnbornUnused'
<1> SUFFICES ASSUME TypeOK, UnbornUnused, [Next]_vars,
                    NEW d \in Donations, dstatus'[d] = "unborn"
             PROVE  remaining'[d] = 0 /\ total'[d] = 0
  BY DEF UnbornUnused
<1> DEFINE Kept == /\ dstatus[d] = "unborn"
                   /\ remaining'[d] = remaining[d]
                   /\ total'[d] = total[d]
<1> USE DEF TypeOK
<1>1. ASSUME NEW c \in Calls, NEW u \in Users, NEW e \in Donations,
             NEW p \in Prices, NEW r \in Rewards, Reserve(c, u, e, p, r)
      PROVE  Kept
  BY <1>1 DEF Reserve
<1>2. ASSUME NEW c \in Calls, MarkDispatched(c) \/ Commit(c) PROVE Kept
  BY <1>2 DEF MarkDispatched, Commit, donations
<1>3. ASSUME NEW c \in Calls, Release(c) PROVE Kept
  <2>1. terms[c].donation \in Donations
    BY <1>3 DEF Release, Restored, Refund, Live
  <2> QED
    BY <1>3, <2>1 DEF Release, Restored, Refund
<1>4. ASSUME NEW old \in SUBSET Calls, PurgeSettled(old) PROVE Kept
  BY <1>4 DEF PurgeSettled, donations
<1>5. ASSUME NEW e \in Donations, NEW n \in 1..MaxTotal,
             NEW src \in Users \cup {NoUser}, CreateDonation(e, n, src)
      PROVE  Kept
  BY <1>5 DEF CreateDonation
<1>6. ASSUME NEW e \in Donations, NEW n \in 1..MaxTotal, NEW st \in Open,
             NEW extend \in BOOLEAN, PatchDonation(e, n, st, extend)
      PROVE  Kept
  BY <1>6 DEF PatchDonation, Clamped
<1>7. ASSUME NEW e \in Donations, NEW st \in Open,
             CheckStatus(e, st) \/ WriteStatus(e, st)
      PROVE  Kept
  BY <1>7 DEF CheckStatus, WriteStatus, donations
<1>8. ASSUME NEW ids \in SUBSET Donations, NEW st \in Open, BatchSetStatus(ids, st)
      PROVE  Kept
  BY <1>8 DEF BatchSetStatus
<1>9. ASSUME NEW u \in Users, NEW delta \in Deltas, MoveCredits(u, delta) PROVE Kept
  BY <1>9 DEF MoveCredits, donations
<1>10. ASSUME NEW u \in Users, DeleteUser(u) PROVE Kept
  BY <1>10 DEF DeleteUser, Concerns
<1>11. ASSUME UNCHANGED vars PROVE Kept
  BY <1>11 DEF vars, donations
<1>12. ASSUME ExpireOverdue PROVE Kept
  BY <1>12 DEF ExpireOverdue
<1>13. ASSUME NEW e \in Donations, DeadlinePasses(e) PROVE Kept
  BY <1>13 DEF DeadlinePasses, donations
<1>14. ASSUME NEW ids \in SUBSET Donations, DeleteDonations(ids) PROVE Kept
  BY <1>14 DEF DeleteDonations, Deletable
<1>15. ASSUME NEW u \in Users, NEW ids \in SUBSET Donations, InvalidateExpired(u, ids)
       PROVE  Kept
  BY <1>15 DEF InvalidateExpired
<1>17. ASSUME NEW ids \in SUBSET Users, NEW action \in {"add", "set"},
             NEW amount \in Deltas \cup StartCredits, AdminBatchCredits(ids, action, amount)
       PROVE  Kept
  BY <1>17 DEF AdminBatchCredits, BatchUpdateUserBalance, donations
<1> HIDE DEF Kept, TypeOK
<1>16. Kept
  BY <1>1, <1>2, <1>3, <1>4, <1>5, <1>6, <1>7, <1>8, <1>9, <1>10, <1>11, <1>12,
     <1>13, <1>14, <1>15, <1>17 DEF Next, Administration
<1> QED
  BY <1>16 DEF Kept, UnbornUnused

(***************************************************************************)
(* Uses of a donation are conserved.  A settled call hands its one use on  *)
(* (OneLessInFlight), a reservation takes one; the proof needs             *)
(* InFlightBacked because the deletion of a user rewrites rows, and        *)
(* UnbornUnused because an id starts with nothing.                         *)
(***************************************************************************)
THEOREM CapacityIsConserved == Spec => []CapacityConserved
<1>1. Init => UnbornUnused /\ CapacityConserved
  <2> SUFFICES ASSUME Init PROVE UnbornUnused /\ CapacityConserved
    OBVIOUS
  <2>1. \A d \in Donations : InFlightOn(d) = {}
    BY DEF Init, InFlightOn, InFlight
  <2> QED
    BY <2>1, NoneInFlight DEF Init, UnbornUnused, CapacityConserved
<1> QED
  BY <1>1, TypeCorrect, SettlementPossible, UnbornNext, CapacityNext, PTL DEF Spec


-----------------------------------------------------------------------------
(* The ledger *)

\* A call in flight is held in the ledger; committing consumes it and
\* releasing refunds it.
LEMMA PhaseMoves ==
  ASSUME TypeOK, NEW c \in Calls, InFlight(c)
  PROVE  /\ Phase[c] = "held"
         /\ status' = [status EXCEPT ![c] = "committed"] => Phase' = [Phase EXCEPT ![c] = "consumed"]
         /\ status' = [status EXCEPT ![c] = "released"] => Phase' = [Phase EXCEPT ![c] = "refunded"]
<1>1. Phase[c] = "held"
  BY DEF Phase, InFlight
<1>2. ASSUME status' = [status EXCEPT ![c] = "committed"]
      PROVE  Phase' = [Phase EXCEPT ![c] = "consumed"]
  BY <1>2 DEF Phase, TypeOK
<1>3. ASSUME status' = [status EXCEPT ![c] = "released"]
      PROVE  Phase' = [Phase EXCEPT ![c] = "refunded"]
  BY <1>3 DEF Phase, TypeOK
<1> QED
  BY <1>1, <1>2, <1>3

\* Nothing but a movement of one balance shows in Net.
LEMMA NetMoves ==
  ASSUME TypeOK, NEW u \in Users, NEW amount \in Int, UNCHANGED outside,
         \A v \in Users : credits'[v] = credits[v] + IF v = u THEN amount ELSE 0
  PROVE  Net' = Ledger!Added(Net, u, amount)
<1>1. ASSUME NEW v \in Users
      PROVE  credits'[v] - outside[v] =
               IF v = u THEN credits[v] - outside[v] + amount ELSE credits[v] - outside[v]
  BY DEF TypeOK
<1>2. Ledger!Added(Net, u, amount) =
        [v \in Users |-> IF v = u THEN credits[v] - outside[v] + amount
                                  ELSE credits[v] - outside[v]]
  BY DEF Net, Ledger!Added
<1> QED
  BY <1>1, <1>2 DEF Net

\* The store starts with an empty ledger.
LEMMA LedgerInit == Init => Ledger!Init
<1> SUFFICES ASSUME Init PROVE Ledger!Init
  OBVIOUS
<1>1. outside \in [Users -> Int]
  BY InitTypeOK DEF TypeOK
<1>2. Net = [u \in Users |-> 0]
  BY <1>1 DEF Net, Init
<1>3. Phase = [c \in Calls |-> "idle"]
  BY DEF Phase, Init
<1> QED
  BY <1>2, <1>3 DEF Init, Ledger!Init

\* A step that leaves calls, users' balances and terms alone is not seen in
\* the ledger.
LEMMA LedgerStutter ==
  ASSUME UNCHANGED <<users, status, terms>>, Net' = Net
  PROVE  UNCHANGED Ledger!vars
BY DEF Phase, Ledger!vars

\* Every step of the store is a step of the ledger or none.
LEMMA LedgerNext ==
  TypeOK /\ InFlightBacked /\ [Next]_vars => [Ledger!Next]_(Ledger!vars)
<1> SUFFICES ASSUME TypeOK, InFlightBacked, [Next]_vars
             PROVE  Ledger!Next \/ UNCHANGED Ledger!vars
  OBVIOUS
<1>1. ASSUME NEW c \in Calls, NEW u \in Users, NEW d \in Donations,
             NEW p \in Prices, NEW r \in Rewards, Reserve(c, u, d, p, r)
      PROVE  Ledger!Next
  <2> DEFINE t == [user |-> u, donation |-> d, donor |-> source[d], price |-> p, reward |-> r]
  <2>1. t \in Terms
    BY DEF TypeOK
  <2>2. Phase' = [Phase EXCEPT ![c] = "held"]
    BY <1>1 DEF Reserve, Phase, TypeOK
  <2>3. Phase[c] = "idle"
    BY <1>1 DEF Reserve, Phase
  <2>4. p \in Int
    BY ReservationAssumption DEF ReservationAssumption
  <2>5. Net' = Ledger!Added(Net, u, 0 - p)
    BY <1>1, <2>4, NetMoves DEF Reserve, TypeOK, history
  <2>6. Ledger!Hold(c, t)
    BY <1>1, <2>2, <2>3, <2>5 DEF Reserve, Ledger!Hold
  <2> QED
    BY <2>1, <2>6 DEF Ledger!Next
<1>2. ASSUME NEW c \in Calls, MarkDispatched(c) PROVE UNCHANGED Ledger!vars
  <2>1. Phase' = Phase
    BY <1>2 DEF MarkDispatched, Phase, TypeOK
  <2> QED
    BY <1>2, <2>1 DEF MarkDispatched, Net, Ledger!vars, accounts, history
<1>3. ASSUME NEW c \in Calls, Commit(c) PROVE Ledger!Next
  <2>1. terms[c] \in Terms /\ terms[c].reward \in Int
    <3>1. terms[c] \in Terms
      BY <1>3 DEF Commit, Live, TypeOK
    <3>2. terms[c].reward \in Nat
      BY <3>1, ReservationAssumption DEF ReservationAssumption
    <3> QED
      BY <3>1, <3>2
  <2>2. Phase' = [Phase EXCEPT ![c] = "consumed"] /\ Phase[c] = "held"
    BY <1>3, PhaseMoves DEF Commit, InFlight
  <2>3. CASE terms[c].donor \in users
    <3>1. \A v \in Users : credits'[v] =
            credits[v] + IF v = terms[c].donor THEN terms[c].reward ELSE 0
      BY <1>3, <2>3 DEF Commit
    <3>2. Net' = Ledger!Added(Net, terms[c].donor, terms[c].reward)
      BY <1>3, <2>1, <2>3, <3>1, NetMoves DEF Commit, TypeOK, history
    <3> QED
      BY <1>3, <2>2, <2>3, <3>2 DEF Commit, Ledger!Consume, Ledger!Next
  <2>4. CASE terms[c].donor \notin users
    <3>1. Net' = Net
      BY <1>3, <2>4 DEF Commit, Net, TypeOK, history
    <3> QED
      BY <1>3, <2>2, <2>4, <3>1 DEF Commit, Ledger!Consume, Ledger!Next
  <2> QED
    BY <2>3, <2>4
<1>4. ASSUME NEW c \in Calls, Release(c) PROVE Ledger!Next
  <2>1. terms[c] \in Terms /\ terms[c].price \in Int
    <3>1. terms[c] \in Terms
      BY <1>4 DEF Release, Restored, Refund, Live, TypeOK
    <3>2. terms[c].price \in Nat
      BY <3>1, ReservationAssumption DEF ReservationAssumption
    <3> QED
      BY <3>1, <3>2
  <2>2. terms[c].user \in users
    BY <1>4 DEF Release, Restored, Refund, InFlightBacked, InFlight
  <2>3. Phase' = [Phase EXCEPT ![c] = "refunded"] /\ Phase[c] = "held"
    BY <1>4, PhaseMoves DEF Release, Restored, Refund, InFlight
  <2>4. Net' = Ledger!Added(Net, terms[c].user, terms[c].price)
    <3>1. \A v \in Users : credits'[v] =
            credits[v] + IF v = terms[c].user THEN terms[c].price ELSE 0
      BY <1>4, <2>2 DEF Release, Restored, Refund
    <3> QED
      BY <1>4, <2>1, <2>2, <3>1, NetMoves DEF Release, Restored, Refund, TypeOK, history
  <2> QED
    BY <1>4, <2>3, <2>4 DEF Release, Restored, Refund, Ledger!Refund, Ledger!Next
<1>5. ASSUME NEW old \in SUBSET Calls, PurgeSettled(old) PROVE UNCHANGED Ledger!vars
  BY <1>5, LedgerStutter DEF PurgeSettled, Net, accounts, history
<1>6. ASSUME NEW d \in Donations, NEW n \in 1..MaxTotal,
             NEW src \in Users \cup {NoUser}, CreateDonation(d, n, src)
      PROVE  UNCHANGED Ledger!vars
  BY <1>6, LedgerStutter DEF CreateDonation, Net, accounts, rows, history
<1>7. ASSUME NEW d \in Donations, DeadlinePasses(d) PROVE UNCHANGED Ledger!vars
  BY <1>7, LedgerStutter DEF DeadlinePasses, Net, accounts, rows, history
<1>8. ASSUME ExpireOverdue PROVE UNCHANGED Ledger!vars
  BY <1>8, LedgerStutter DEF ExpireOverdue, Net, accounts, rows, history
<1>9. ASSUME NEW d \in Donations, NEW n \in 1..MaxTotal, NEW st \in Open,
             NEW extend \in BOOLEAN, PatchDonation(d, n, st, extend)
      PROVE  UNCHANGED Ledger!vars
  BY <1>9, LedgerStutter DEF PatchDonation, Clamped, Net, accounts, rows
<1>10. ASSUME NEW d \in Donations, NEW st \in Open, CheckStatus(d, st) \/ WriteStatus(d, st)
       PROVE  UNCHANGED Ledger!vars
  BY <1>10, LedgerStutter DEF CheckStatus, WriteStatus, Net, accounts, rows, history
<1>11. ASSUME NEW ids \in SUBSET Donations, NEW st \in Open, BatchSetStatus(ids, st)
       PROVE  UNCHANGED Ledger!vars
  BY <1>11, LedgerStutter DEF BatchSetStatus, Net, accounts, rows, history
<1>12. ASSUME NEW u \in Users, NEW ids \in SUBSET Donations, InvalidateExpired(u, ids)
       PROVE  UNCHANGED Ledger!vars
  BY <1>12, LedgerStutter DEF InvalidateExpired, Net, accounts, rows, history
<1>13. ASSUME NEW ids \in SUBSET Donations, DeleteDonations(ids) PROVE UNCHANGED Ledger!vars
  BY <1>13, LedgerStutter DEF DeleteDonations, Deletable, Net, accounts, rows, history
<1>14. ASSUME NEW u \in Users, NEW delta \in Deltas, MoveCredits(u, delta)
       PROVE  UNCHANGED Ledger!vars
  <2>1. delta \in Int
    BY ReservationAssumption DEF ReservationAssumption
  <2>2. Net' = Net
    BY <1>14, <2>1 DEF MoveCredits, Net, TypeOK
  <2> QED
    BY <1>14, <2>2, LedgerStutter DEF MoveCredits, rows
<1>15. ASSUME NEW u \in Users, DeleteUser(u) PROVE Ledger!Next
  <2>1. ASSUME NEW c \in Calls, Phase[c] = "held"
        PROVE  u \notin {terms[c].user, terms[c].donor} /\ terms'[c] = terms[c]
    <3>1. InFlight(c) /\ Live(c) /\ terms[c] \in Terms
      BY <2>1 DEF Phase, InFlight, InFlightBacked, TypeOK
    <3> QED
      BY <1>15, <3>1 DEF DeleteUser, Concerns, Anonymous
  <2>2. Phase' = Phase /\ Net' = Net
    BY <1>15 DEF DeleteUser, Concerns, Phase, Net, history
  <2>3. Ledger!Leave(u)
    BY <1>15, <2>1, <2>2 DEF DeleteUser, Concerns, Ledger!Leave
  <2> QED
    BY <2>3 DEF Ledger!Next
<1>16. ASSUME UNCHANGED vars PROVE UNCHANGED Ledger!vars
  BY <1>16, LedgerStutter DEF vars, Net, accounts, rows, history
<1>17. ASSUME NEW ids \in SUBSET Users, NEW action \in {"add", "set"},
             NEW amount \in Deltas \cup StartCredits, AdminBatchCredits(ids, action, amount)
       PROVE  UNCHANGED Ledger!vars
  <2>1. amount \in Int
    BY ReservationAssumption DEF ReservationAssumption
  <2>2. credits' \in [Users -> Int]
    BY <1>17, <2>1 DEF AdminBatchCredits, BatchUpdateUserBalance, Rebalanced, TypeOK
  <2>3. Net' = Net
    BY <1>17, <2>2 DEF AdminBatchCredits, BatchUpdateUserBalance, Net, TypeOK
  <2> QED
    BY <1>17, <2>3, LedgerStutter DEF AdminBatchCredits, BatchUpdateUserBalance, rows
<1> QED
  BY <1>1, <1>2, <1>3, <1>4, <1>5, <1>6, <1>7, <1>8, <1>9, <1>10, <1>11, <1>12,
     <1>13, <1>14, <1>15, <1>16, <1>17 DEF Next, Administration

(***************************************************************************)
(* The tables and transactions implement the ledger: whatever is           *)
(* interleaved, each call is held once and then consumed once or refunded  *)
(* once, on the terms of its hold, and nothing else moves a balance in its *)
(* name.                                                                   *)
(***************************************************************************)
THEOREM ImplementsLedger == Spec => LedgerSpec
BY LedgerInit, LedgerNext, TypeCorrect, SettlementPossible, PTL
   DEF Spec, LedgerSpec, Ledger!Spec

-----------------------------------------------------------------------------
(* Money *)

\* The price and the reward of every call on terms t.
PriceOf(t) == [c \in Calls |-> t[c].price]
RewardOf(t) == [c \in Calls |-> t[c].reward]

\* What u has paid and earned, as sums.
Paid(u) == Sum(PriceOf(terms), Consumed(u))
Earned(u) == Sum(RewardOf(terms), Rewarded(u))
Balanced(u) == credits[u] = outside[u] - Paid(u) + Earned(u)
AllBalanced == \A u \in users : Balanced(u)

\* The folds of the invariant are these sums.
LEMMA FoldsAreSums ==
  ASSUME NEW t, NEW S \in SUBSET Calls
  PROVE  /\ MapThenSumSet(LAMBDA c : t[c].price, S) = Sum(PriceOf(t), S)
         /\ MapThenSumSet(LAMBDA c : t[c].reward, S) = Sum(RewardOf(t), S)
<1>0. IsFiniteSet(S)
  BY ReservationAssumption, FS_Subset DEF ReservationAssumption
<1>1. /\ MapThenSumSet(LAMBDA c : t[c].price, S) = Sum([c \in S |-> t[c].price], S)
      /\ MapThenSumSet(LAMBDA c : t[c].reward, S) = Sum([c \in S |-> t[c].reward], S)
  <2>1. MapThenSumSet(LAMBDA c : t[c].price, S) = Sum([c \in S |-> t[c].price], S)
    BY DEF Sum, MapThenSumSet, MapThenFoldSet
  <2>2. MapThenSumSet(LAMBDA c : t[c].reward, S) = Sum([c \in S |-> t[c].reward], S)
    BY DEF Sum, MapThenSumSet, MapThenFoldSet
  <2> QED
    BY <2>1, <2>2
<1>2. Sum([c \in S |-> t[c].price], S) = Sum(PriceOf(t), S)
  <2>1. \A c \in S : [x \in S |-> t[x].price][c] = PriceOf(t)[c]
    BY DEF PriceOf
  <2> QED
    BY <1>0, <2>1, SumEqual
<1>3. Sum([c \in S |-> t[c].reward], S) = Sum(RewardOf(t), S)
  <2>1. \A c \in S : [x \in S |-> t[x].reward][c] = RewardOf(t)[c]
    BY DEF RewardOf
  <2> QED
    BY <1>0, <2>1, SumEqual
<1> QED
  BY <1>1, <1>2, <1>3

\* The invariant says that everybody is balanced ...
LEMMA MoneyIsBalance == MoneyConserved <=> AllBalanced
<1>1. ASSUME NEW u
      PROVE  /\ MapThenSumSet(LAMBDA c : terms[c].price, Consumed(u)) = Paid(u)
             /\ MapThenSumSet(LAMBDA c : terms[c].reward, Rewarded(u)) = Earned(u)
  <2>1. Consumed(u) \in SUBSET Calls /\ Rewarded(u) \in SUBSET Calls
    BY DEF Consumed, Rewarded
  <2> QED
    BY <2>1, FoldsAreSums DEF Paid, Earned
<1> QED
  BY <1>1 DEF MoneyConserved, AllBalanced, Balanced

\* Calls that were made have a price ...
LEMMA PricesAreNumbers ==
  ASSUME TypeOK, NEW u
  PROVE  \A c \in Consumed(u) : terms[c].price \in Int
<1> SUFFICES ASSUME NEW c \in Consumed(u) PROVE terms[c].price \in Int
  OBVIOUS
<1>1. c \in Calls /\ status[c] # "none"
  BY DEF Consumed, Held
<1>2. terms[c] \in Terms
  BY <1>1 DEF TypeOK
<1>3. terms[c].price \in Nat
  BY <1>2, ReservationAssumption DEF ReservationAssumption
<1> QED
  BY <1>3

\* ... and a reward.
LEMMA RewardsAreNumbers ==
  ASSUME TypeOK, NEW u
  PROVE  \A c \in Rewarded(u) : terms[c].reward \in Int
<1> SUFFICES ASSUME NEW c \in Rewarded(u) PROVE terms[c].reward \in Int
  OBVIOUS
<1>1. c \in Calls /\ status[c] # "none"
  BY DEF Rewarded
<1>2. terms[c] \in Terms
  BY <1>1 DEF TypeOK
<1>3. terms[c].reward \in Nat
  BY <1>2, ReservationAssumption DEF ReservationAssumption
<1> QED
  BY <1>3

\* What u has paid and earned are numbers.
LEMMA AmountTypes ==
  ASSUME TypeOK, NEW u
  PROVE  Paid(u) \in Int /\ Earned(u) \in Int
<1>1. IsFiniteSet(Consumed(u)) /\ IsFiniteSet(Rewarded(u))
  BY ReservationAssumption, FS_Subset DEF ReservationAssumption, Consumed, Rewarded
<1>2. \A c \in Consumed(u) : PriceOf(terms)[c] \in Int
  BY PricesAreNumbers DEF PriceOf, Consumed
<1>3. \A c \in Rewarded(u) : RewardOf(terms)[c] \in Int
  BY RewardsAreNumbers DEF RewardOf, Rewarded
<1> QED
  BY <1>1, <1>2, <1>3, SumType DEF Paid, Earned

\* What u has paid and earned changes with the calls of u only.
LEMMA SamePaid ==
  ASSUME NEW u, Consumed(u)' = Consumed(u),
         \A c \in Consumed(u) : terms'[c].price = terms[c].price
  PROVE  Paid(u)' = Paid(u)
<1>1. IsFiniteSet(Consumed(u))
  BY ReservationAssumption, FS_Subset DEF ReservationAssumption, Consumed
<1>2. \A c \in Consumed(u) : PriceOf(terms')[c] = PriceOf(terms)[c]
  BY DEF PriceOf, Consumed
<1>3. Sum(PriceOf(terms'), Consumed(u)) = Sum(PriceOf(terms), Consumed(u))
  BY <1>1, <1>2, SumEqual
<1> QED
  BY <1>3 DEF Paid, PriceOf

\* The same for the rewards.
LEMMA SameEarned ==
  ASSUME NEW u, Rewarded(u)' = Rewarded(u),
         \A c \in Rewarded(u) : terms'[c].reward = terms[c].reward
  PROVE  Earned(u)' = Earned(u)
<1>1. IsFiniteSet(Rewarded(u))
  BY ReservationAssumption, FS_Subset DEF ReservationAssumption, Rewarded
<1>2. \A c \in Rewarded(u) : RewardOf(terms')[c] = RewardOf(terms)[c]
  BY DEF RewardOf, Rewarded
<1>3. Sum(RewardOf(terms'), Rewarded(u)) = Sum(RewardOf(terms), Rewarded(u))
  BY <1>1, <1>2, SumEqual
<1> QED
  BY <1>3 DEF Earned, RewardOf

\* A step that leaves the rows and the balances alone keeps everybody balanced.
LEMMA BalanceKept ==
  ASSUME AllBalanced, UNCHANGED <<users, credits, status, terms, outside>>
  PROVE  AllBalanced'
<1>1. ASSUME NEW u PROVE Paid(u)' = Paid(u) /\ Earned(u)' = Earned(u)
  <2>1. Consumed(u)' = Consumed(u) /\ Rewarded(u)' = Rewarded(u)
    BY DEF Consumed, Rewarded
  <2> QED
    BY <2>1, SamePaid, SameEarned
<1> QED
  BY <1>1 DEF AllBalanced, Balanced

\* One more call consumed costs its price ...
LEMMA PaidGrows ==
  ASSUME TypeOK, NEW u \in Users, NEW c \in Calls, c \notin Consumed(u),
         Consumed(u)' = Consumed(u) \cup {c}, terms'[c].price \in Int,
         \A x \in Consumed(u) : terms'[x].price = terms[x].price
  PROVE  Paid(u)' = Paid(u) + terms'[c].price
<1>1. IsFiniteSet(Consumed(u))
  BY ReservationAssumption, FS_Subset DEF ReservationAssumption, Consumed
<1>2. \A x \in Consumed(u) : PriceOf(terms')[x] = PriceOf(terms)[x] /\ PriceOf(terms)[x] \in Int
  BY PricesAreNumbers DEF PriceOf, Consumed
<1>3. PriceOf(terms')[c] = terms'[c].price
  BY DEF PriceOf
<1>4. Sum(PriceOf(terms'), Consumed(u) \cup {c})
        = PriceOf(terms')[c] + Sum(PriceOf(terms'), Consumed(u))
  <2>1. \A x \in Consumed(u) \cup {c} : PriceOf(terms')[x] \in Int
    BY <1>2, <1>3
  <2> QED
    BY <1>1, <2>1, SumAdd
<1>5. Sum(PriceOf(terms'), Consumed(u)) = Sum(PriceOf(terms), Consumed(u))
  BY <1>1, <1>2, SumEqual
<1>6. Sum(PriceOf(terms), Consumed(u)) \in Int
  BY <1>1, <1>2, SumType
<1>7. Paid(u)' = Sum(PriceOf(terms'), Consumed(u) \cup {c})
  BY DEF Paid, PriceOf
<1> QED
  BY <1>3, <1>4, <1>5, <1>6, <1>7 DEF Paid

\* ... and one call less gives it back.
LEMMA PaidShrinks ==
  ASSUME TypeOK, NEW u \in Users, NEW c \in Consumed(u),
         Consumed(u)' = Consumed(u) \ {c}, UNCHANGED terms
  PROVE  Paid(u) = Paid(u)' + terms[c].price
<1>1. IsFiniteSet(Consumed(u)) /\ c \in Calls
  BY ReservationAssumption, FS_Subset DEF ReservationAssumption, Consumed
<1>2. \A x \in Consumed(u) : PriceOf(terms)[x] \in Int
  BY PricesAreNumbers DEF PriceOf, Consumed
<1>3. PriceOf(terms)[c] = terms[c].price
  BY <1>1 DEF PriceOf
<1>4. Sum(PriceOf(terms), Consumed(u))
        = PriceOf(terms)[c] + Sum(PriceOf(terms), Consumed(u) \ {c})
  BY <1>1, <1>2, SumRemove
<1>5. Sum(PriceOf(terms), Consumed(u) \ {c}) \in Int
  BY <1>1, <1>2, SumType
<1>6. Paid(u)' = Sum(PriceOf(terms), Consumed(u) \ {c})
  BY DEF Paid, PriceOf
<1>7. terms[c].price \in Int
  BY <1>2, <1>3
<1> QED
  BY <1>3, <1>4, <1>5, <1>6, <1>7 DEF Paid

\* One more call served earns its reward.
LEMMA EarnedGrows ==
  ASSUME TypeOK, NEW u \in Users, NEW c \in Calls, c \notin Rewarded(u),
         Rewarded(u)' = Rewarded(u) \cup {c}, UNCHANGED terms, terms[c].reward \in Int
  PROVE  Earned(u)' = Earned(u) + terms[c].reward
<1>1. IsFiniteSet(Rewarded(u))
  BY ReservationAssumption, FS_Subset DEF ReservationAssumption, Rewarded
<1>2. \A x \in Rewarded(u) \cup {c} : RewardOf(terms)[x] \in Int
  BY RewardsAreNumbers DEF RewardOf, Rewarded
<1>3. RewardOf(terms)[c] = terms[c].reward
  BY DEF RewardOf
<1>4. Sum(RewardOf(terms), Rewarded(u) \cup {c})
        = RewardOf(terms)[c] + Sum(RewardOf(terms), Rewarded(u))
  BY <1>1, <1>2, SumAdd
<1>5. Sum(RewardOf(terms), Rewarded(u)) \in Int
  BY <1>1, <1>2, SumType
<1>6. Earned(u)' = Sum(RewardOf(terms), Rewarded(u) \cup {c})
  BY DEF Earned, RewardOf
<1> QED
  BY <1>3, <1>4, <1>5, <1>6 DEF Earned

\* A step that moves a balance and what is recorded outside alike, too.
LEMMA BalanceMoved ==
  ASSUME TypeOK, AllBalanced, UNCHANGED <<users, status, terms>>,
         \A v \in users : credits'[v] - outside'[v] = credits[v] - outside[v],
         \A v \in users : credits'[v] \in Int /\ outside'[v] \in Int
  PROVE  AllBalanced'
<1> SUFFICES ASSUME NEW v \in users
             PROVE  credits'[v] = outside'[v] - Paid(v)' + Earned(v)'
  BY DEF AllBalanced, Balanced
<1>1. Paid(v)' = Paid(v) /\ Earned(v)' = Earned(v)
  <2>1. Consumed(v)' = Consumed(v) /\ Rewarded(v)' = Rewarded(v)
    BY DEF Consumed, Rewarded
  <2> QED
    BY <2>1, SamePaid, SameEarned
<1>2. v \in Users /\ credits[v] \in Int /\ outside[v] \in Int
  BY DEF TypeOK
<1>3. credits[v] = outside[v] - Paid(v) + Earned(v) /\ Paid(v) \in Int /\ Earned(v) \in Int
  BY AmountTypes DEF AllBalanced, Balanced
<1> QED
  BY <1>1, <1>2, <1>3

\* Every step keeps everybody balanced.
LEMMA BalanceNext ==
  TypeOK /\ InFlightBacked /\ AllBalanced /\ [Next]_vars => AllBalanced'
<1> SUFFICES ASSUME TypeOK, InFlightBacked, AllBalanced, [Next]_vars
             PROVE  AllBalanced'
  OBVIOUS
<1>0. /\ users \subseteq Users
      /\ credits \in [Users -> Int] /\ outside \in [Users -> Int]
      /\ \A v \in users : credits[v] = outside[v] - Paid(v) + Earned(v)
      /\ \A v \in users : Paid(v) \in Int /\ Earned(v) \in Int
      /\ \A v \in users : credits[v] \in Int /\ outside[v] \in Int
  BY AmountTypes DEF TypeOK, AllBalanced, Balanced
<1>1. ASSUME NEW c \in Calls, NEW u \in Users, NEW d \in Donations,
             NEW p \in Prices, NEW r \in Rewards, Reserve(c, u, d, p, r)
      PROVE  AllBalanced'
  <2> SUFFICES ASSUME NEW v \in users
               PROVE  credits'[v] = outside'[v] - Paid(v)' + Earned(v)'
    BY <1>1 DEF AllBalanced, Balanced, Reserve
  <2>1. p \in Int /\ v \in Users
    BY <1>0, ReservationAssumption DEF ReservationAssumption
  <2>2. /\ status' = [status EXCEPT ![c] = "reserved"] /\ status[c] = "none"
        /\ \A x \in Calls \ {c} : terms'[x] = terms[x] /\ status'[x] = status[x]
        /\ terms'[c].user = u /\ terms'[c].price = p
        /\ status'[c] = "reserved"
    BY <1>1 DEF Reserve, TypeOK
  <2>3. Rewarded(v)' = Rewarded(v) /\ c \notin Rewarded(v)
    BY <2>2 DEF Rewarded
  <2>4. Earned(v)' = Earned(v)
    <3>1. \A x \in Rewarded(v) : terms'[x].reward = terms[x].reward
      BY <2>2, <2>3 DEF Rewarded
    <3> QED
      BY <2>3, <3>1, SameEarned
  <2>5. outside'[v] = outside[v]
        /\ credits'[v] = IF v = u THEN credits[v] - p ELSE credits[v]
    BY <1>1, <2>1 DEF Reserve, history, TypeOK
  <2>6. \A x \in Consumed(v) : x # c /\ terms'[x].price = terms[x].price
    BY <2>2 DEF Consumed
  <2>7. CASE v = u
    <3>1. Consumed(v)' = Consumed(v) \cup {c} /\ c \notin Consumed(v)
      BY <2>2, <2>7 DEF Consumed
    <3>2. Paid(v)' = Paid(v) + p
      <4>1. \A x \in Consumed(v) : terms'[x].price = terms[x].price
        BY <2>6
      <4>2. terms'[c].price \in Int
        BY <2>1, <2>2
      <4> QED
        BY <2>1, <2>2, <3>1, <4>1, <4>2, PaidGrows
    <3> QED
      BY <1>0, <2>1, <2>4, <2>5, <2>7, <3>2
  <2>8. CASE v # u
    <3>1. Consumed(v)' = Consumed(v)
      BY <2>2, <2>8 DEF Consumed
    <3>2. Paid(v)' = Paid(v)
      <4>1. \A x \in Consumed(v) : terms'[x].price = terms[x].price
        BY <2>6
      <4> QED
        BY <3>1, <4>1, SamePaid
    <3> QED
      BY <1>0, <2>4, <2>5, <2>8, <3>2
  <2> QED
    BY <2>7, <2>8
<1>2. ASSUME NEW c \in Calls, MarkDispatched(c) PROVE AllBalanced'
  <2>1. ASSUME NEW v \in users PROVE Paid(v)' = Paid(v) /\ Earned(v)' = Earned(v)
    <3>1. Consumed(v)' = Consumed(v) /\ Rewarded(v)' = Rewarded(v) /\ UNCHANGED terms
      BY <1>2 DEF MarkDispatched, Consumed, Rewarded, TypeOK
    <3> QED
      BY <3>1, SamePaid, SameEarned
  <2> QED
    BY <1>2, <2>1 DEF MarkDispatched, AllBalanced, Balanced, accounts, history
<1>3. ASSUME NEW c \in Calls, Commit(c) PROVE AllBalanced'
  <2> SUFFICES ASSUME NEW v \in users
               PROVE  credits'[v] = outside'[v] - Paid(v)' + Earned(v)'
    BY <1>3 DEF AllBalanced, Balanced, Commit
  <2>1. v \in Users
    BY <1>0
  <2>2. terms[c] \in Terms /\ terms[c].reward \in Int
    <3>1. terms[c] \in Terms
      BY <1>3 DEF Commit, Live, TypeOK
    <3>2. terms[c].reward \in Nat
      BY <3>1, ReservationAssumption DEF ReservationAssumption
    <3> QED
      BY <3>1, <3>2
  <2>3. /\ UNCHANGED terms /\ status[c] = "dispatched" /\ status'[c] = "committed"
        /\ \A x \in Calls \ {c} : status'[x] = status[x]
        /\ outside'[v] = outside[v]
        /\ credits'[v] = credits[v] + IF v = terms[c].donor THEN terms[c].reward ELSE 0
    BY <1>3, <2>1 DEF Commit, history, TypeOK
  <2>4. Paid(v)' = Paid(v)
    <3>1. Consumed(v)' = Consumed(v)
      BY <2>3 DEF Consumed
    <3> QED
      BY <2>3, <3>1, SamePaid
  <2>5. CASE v = terms[c].donor
    <3>1. Rewarded(v)' = Rewarded(v) \cup {c} /\ c \notin Rewarded(v)
      BY <2>3, <2>5 DEF Rewarded
    <3>2. Earned(v)' = Earned(v) + terms[c].reward
      BY <2>1, <2>2, <2>3, <3>1, EarnedGrows
    <3> QED
      BY <1>0, <2>2, <2>3, <2>4, <2>5, <3>2
  <2>6. CASE v # terms[c].donor
    <3>1. Rewarded(v)' = Rewarded(v)
      BY <2>3, <2>6 DEF Rewarded
    <3>2. Earned(v)' = Earned(v)
      BY <2>3, <3>1, SameEarned
    <3> QED
      BY <1>0, <2>3, <2>4, <2>6, <3>2
  <2> QED
    BY <2>5, <2>6
<1>4. ASSUME NEW c \in Calls, Release(c) PROVE AllBalanced'
  <2> SUFFICES ASSUME NEW v \in users
               PROVE  credits'[v] = outside'[v] - Paid(v)' + Earned(v)'
    BY <1>4 DEF AllBalanced, Balanced, Release
  <2>1. v \in Users
    BY <1>0
  <2>2. terms[c] \in Terms /\ terms[c].price \in Int
    <3>1. terms[c] \in Terms
      BY <1>4 DEF Release, Live, TypeOK
    <3>2. terms[c].price \in Nat
      BY <3>1, ReservationAssumption DEF ReservationAssumption
    <3> QED
      BY <3>1, <3>2
  <2>3. /\ UNCHANGED terms /\ status[c] = "reserved" /\ status'[c] = "released"
        /\ \A x \in Calls \ {c} : status'[x] = status[x]
        /\ outside'[v] = outside[v]
        /\ credits'[v] = credits[v] + IF v = terms[c].user THEN terms[c].price ELSE 0
    BY <1>4, <2>1 DEF Release, Refund, history, TypeOK
  <2>4. Earned(v)' = Earned(v)
    <3>1. Rewarded(v)' = Rewarded(v)
      BY <2>3 DEF Rewarded
    <3> QED
      BY <2>3, <3>1, SameEarned
  <2>5. CASE v = terms[c].user
    <3>1. Consumed(v)' = Consumed(v) \ {c} /\ c \in Consumed(v)
      BY <2>3, <2>5 DEF Consumed
    <3>2. Paid(v) = Paid(v)' + terms[c].price
      BY <2>1, <2>3, <3>1, PaidShrinks
    <3>3. Paid(v)' \in Int
      <4>1. \A x \in Consumed(v) \ {c} : PriceOf(terms)[x] \in Int
        BY PricesAreNumbers DEF PriceOf, Consumed
      <4>2. IsFiniteSet(Consumed(v) \ {c})
        BY ReservationAssumption, FS_Subset DEF ReservationAssumption, Consumed
      <4>3. Sum(PriceOf(terms), Consumed(v) \ {c}) \in Int
        BY <4>1, <4>2, SumType
      <4> QED
        BY <2>3, <3>1, <4>3 DEF Paid, PriceOf
    <3> QED
      BY <1>0, <2>2, <2>3, <2>4, <2>5, <3>2, <3>3
  <2>6. CASE v # terms[c].user
    <3>1. Consumed(v)' = Consumed(v)
      BY <2>3, <2>6 DEF Consumed
    <3>2. Paid(v)' = Paid(v)
      BY <2>3, <3>1, SamePaid
    <3> QED
      BY <1>0, <2>3, <2>4, <2>6, <3>2
  <2> QED
    BY <2>5, <2>6
<1>5. ASSUME NEW old \in SUBSET Calls, PurgeSettled(old) PROVE AllBalanced'
  BY <1>5, BalanceKept DEF PurgeSettled, accounts, history
<1>6. ASSUME NEW d \in Donations, NEW n \in 1..MaxTotal,
             NEW src \in Users \cup {NoUser}, CreateDonation(d, n, src)
      PROVE  AllBalanced'
  BY <1>6, BalanceKept DEF CreateDonation, accounts, rows, history
<1>7. ASSUME NEW d \in Donations, DeadlinePasses(d) PROVE AllBalanced'
  BY <1>7, BalanceKept DEF DeadlinePasses, accounts, rows, history
<1>8. ASSUME ExpireOverdue PROVE AllBalanced'
  BY <1>8, BalanceKept DEF ExpireOverdue, accounts, rows, history
<1>9. ASSUME NEW d \in Donations, NEW n \in 1..MaxTotal, NEW st \in Open,
             NEW extend \in BOOLEAN, PatchDonation(d, n, st, extend)
      PROVE  AllBalanced'
  BY <1>9, BalanceKept DEF PatchDonation, accounts, rows
<1>10. ASSUME NEW d \in Donations, NEW st \in Open, CheckStatus(d, st) \/ WriteStatus(d, st)
       PROVE  AllBalanced'
  BY <1>10, BalanceKept DEF CheckStatus, WriteStatus, accounts, rows, history
<1>11. ASSUME NEW ids \in SUBSET Donations, NEW st \in Open, BatchSetStatus(ids, st)
       PROVE  AllBalanced'
  BY <1>11, BalanceKept DEF BatchSetStatus, accounts, rows, history
<1>12. ASSUME NEW u \in Users, NEW ids \in SUBSET Donations, InvalidateExpired(u, ids)
       PROVE  AllBalanced'
  BY <1>12, BalanceKept DEF InvalidateExpired, accounts, rows, history
<1>13. ASSUME NEW ids \in SUBSET Donations, DeleteDonations(ids) PROVE AllBalanced'
  BY <1>13, BalanceKept DEF DeleteDonations, accounts, rows, history
<1>14. ASSUME NEW u \in Users, NEW delta \in Deltas, MoveCredits(u, delta)
       PROVE  AllBalanced'
  <2>1. delta \in Int
    BY ReservationAssumption DEF ReservationAssumption
  <2>2. /\ UNCHANGED <<users, status, terms>>
        /\ \A v \in users : credits'[v] - outside'[v] = credits[v] - outside[v]
        /\ \A v \in users : credits'[v] \in Int /\ outside'[v] \in Int
    BY <1>0, <1>14, <2>1 DEF MoveCredits, rows
  <2> QED
    BY <1>0, <2>2, BalanceMoved
<1>15. ASSUME NEW u \in Users, DeleteUser(u) PROVE AllBalanced'
  <2> SUFFICES ASSUME NEW v \in users'
               PROVE  credits'[v] = outside'[v] - Paid(v)' + Earned(v)'
    BY DEF AllBalanced, Balanced
  <2>1. v \in users /\ v # u /\ v \in Users /\ v # NoUser
    BY <1>0, <1>15, ReservationAssumption DEF DeleteUser, ReservationAssumption
  <2>2. UNCHANGED <<credits, status, outside>>
    BY <1>15 DEF DeleteUser, history
  <2>3. ASSUME NEW x \in Calls, status[x] # "none"
        PROVE  /\ terms'[x].price = terms[x].price
               /\ terms'[x].reward = terms[x].reward
               /\ terms'[x].user = v <=> terms[x].user = v
               /\ terms'[x].donor = v <=> terms[x].donor = v
    <3>1. terms[x] \in Terms
      BY <2>3 DEF TypeOK
    <3>2. terms'[x] = terms[x] \/ terms'[x] = Anonymous(terms[x], u)
      BY <1>15 DEF DeleteUser
    <3> QED
      BY <2>1, <3>1, <3>2 DEF Anonymous
  <2>4. Consumed(v)' = Consumed(v) /\ Rewarded(v)' = Rewarded(v)
    BY <2>2, <2>3 DEF Consumed, Rewarded
  <2>5. /\ \A x \in Consumed(v) : terms'[x].price = terms[x].price
        /\ \A x \in Rewarded(v) : terms'[x].reward = terms[x].reward
    BY <2>3 DEF Consumed, Rewarded
  <2>6. Paid(v)' = Paid(v)
    BY <2>4, <2>5, SamePaid
  <2>7. Earned(v)' = Earned(v)
    BY <2>4, <2>5, SameEarned
  <2> QED
    BY <1>0, <2>1, <2>2, <2>6, <2>7
<1>16. ASSUME UNCHANGED vars PROVE AllBalanced'
  BY <1>16, BalanceKept DEF vars, accounts, rows, history
<1>17. ASSUME NEW ids \in SUBSET Users, NEW action \in {"add", "set"},
             NEW amount \in Deltas \cup StartCredits, AdminBatchCredits(ids, action, amount)
       PROVE  AllBalanced'
  <2>1. amount \in Int
    BY ReservationAssumption DEF ReservationAssumption
  <2>2. credits' \in [Users -> Int]
    BY <1>17, <2>1 DEF AdminBatchCredits, BatchUpdateUserBalance, Rebalanced, TypeOK
  <2>3. /\ UNCHANGED <<users, status, terms>>
        /\ \A v \in users : outside'[v] = outside[v] + (credits'[v] - credits[v])
        /\ \A v \in users : credits'[v] \in Int
    BY <1>0, <1>17, <2>2 DEF AdminBatchCredits, BatchUpdateUserBalance, rows
  <2>4. \A v \in users : /\ credits'[v] - outside'[v] = credits[v] - outside[v]
                         /\ outside'[v] \in Int
    BY <1>0, <2>3
  <2> QED
    BY <1>0, <2>3, <2>4, BalanceMoved
<1> QED
  BY <1>1, <1>2, <1>3, <1>4, <1>5, <1>6, <1>7, <1>8, <1>9, <1>10, <1>11, <1>12,
     <1>13, <1>14, <1>15, <1>16, <1>17 DEF Next, Administration

\* Nobody has paid or earned anything at first.
LEMMA BalanceInit == Init => AllBalanced
<1> SUFFICES ASSUME Init, NEW u \in users PROVE Balanced(u)
  BY DEF AllBalanced
<1>1. Consumed(u) = {} /\ Rewarded(u) = {}
  BY DEF Init, Consumed, Rewarded
<1>2. Paid(u) = 0 /\ Earned(u) = 0
  BY <1>1, SumEmpty DEF Paid, Earned
<1>3. credits[u] = outside[u] /\ outside[u] \in Int
  BY InitTypeOK DEF Init, TypeOK
<1> QED
  BY <1>2, <1>3 DEF Balanced

(***************************************************************************)
(* The reservation rows explain every balance, for any number of calls and *)
(* accounts: debits, refunds, rewards and admin edits never overwrite one  *)
(* another, whatever their order.  The argument is the lemmas of Sums (a   *)
(* sum loses or gains exactly what one call is worth) and InFlightBacked   *)
(* (a refund has somebody to go to).                                       *)
(***************************************************************************)
THEOREM MoneyIsConserved == Spec => []MoneyConserved
<1>1. Spec => []AllBalanced
  BY BalanceInit, BalanceNext, TypeCorrect, SettlementPossible, PTL DEF Spec
<1> QED
  BY <1>1, MoneyIsBalance, PTL
=============================================================================

------------------------- MODULE CharityReservation -------------------------
(***************************************************************************)
(* The durable accounting of charity calls: the tables users, donations    *)
(* and charity_reservations, and every transaction that moves a donation   *)
(* use, a reservation or a balance.  The store has one SQLite connection   *)
(* (db.Open, SetMaxOpenConns(1)), so a transaction or a single statement   *)
(* is one atomic step; a handler that reads in one statement and writes in *)
(* another is two.                                                         *)
(***************************************************************************)
EXTENDS Integers, FiniteSets, FiniteSetsExt

CONSTANTS
  Calls,         \* reservation ids (128 random bits in the code: never reused)
  Users,         \* user ids; AUTOINCREMENT, so a deleted id never comes back
  Donations,     \* donation ids, AUTOINCREMENT too
  NoUser,        \* user_id 0 or donor_user_id NULL
  NoTerms,       \* the terms of a reservation that was never inserted
  Prices,        \* prices an admin may have configured
  Rewards,       \* rewards an admin may have configured
  StartCredits,  \* balances before the first step
  Deltas,        \* what one movement outside charity adds to a balance
  MaxOutside,    \* bound on the sum of such movements
  MaxTotal       \* bound on total_count

ASSUME ReservationAssumption ==
  /\ IsFiniteSet(Calls)
  /\ NoUser \notin Users
  /\ Prices \subseteq Nat
  /\ Rewards \subseteq Nat
  /\ StartCredits \subseteq Nat
  /\ Deltas \subseteq Int
  /\ MaxOutside \in Nat
  /\ MaxTotal \in Nat

VARIABLES
  users,         \* ids that have a row in users
  credits,       \* users.credits
  contribution,  \* users.donation_credit, as far as calls add to it
  dstatus,       \* donations.status, "unborn" before and "deleted" after the row
  remaining,     \* donations.remaining_count
  total,         \* donations.total_count
  success,       \* donations.success_count
  source,        \* donations.source_user_id
  overdue,       \* donations whose deadline is not in the future any more
  status,        \* charity_reservations.status, "none" before the row exists
  terms,         \* the other columns of the reservation
  gone,          \* reservations whose row was purged or deleted
  checked,       \* status changes that passed the endpoint's check, not yet written
  outside,       \* history: what everything but charity calls did to a balance
  over           \* history: uses granted beyond total by clamped edits

accounts == <<users, credits, contribution>>
donations == <<dstatus, remaining, total, success, source>>
rows == <<status, terms, gone>>
history == <<outside, over>>
vars == <<accounts, donations, overdue, rows, checked, history>>

Terms == [user : Users \cup {NoUser}, donation : Donations,
          donor : Users \cup {NoUser}, price : Prices, reward : Rewards]

Held == {"reserved", "dispatched"}
Settled == {"committed", "released"}
Open == {"active", "inactive"}
Existing == {"active", "inactive", "expired"}

TypeOK ==
  /\ users \subseteq Users
  /\ credits \in [Users -> Int]
  /\ contribution \in [Users -> Nat]
  /\ dstatus \in [Donations -> Existing \cup {"unborn", "deleted"}]
  /\ remaining \in [Donations -> Nat]
  /\ total \in [Donations -> Nat]
  /\ success \in [Donations -> Nat]
  /\ source \in [Donations -> Users \cup {NoUser}]
  /\ overdue \subseteq Donations
  /\ status \in [Calls -> Held \cup Settled \cup {"none"}]
  /\ terms \in [Calls -> Terms \cup {NoTerms}]
  /\ \A c \in Calls : status[c] # "none" => terms[c] \in Terms
  /\ gone \subseteq Calls
  /\ checked \subseteq Donations \X Open
  /\ outside \in [Users -> Int]
  /\ over \in [Donations -> Nat]

InFlight(c) == status[c] \in Held
InFlightOn(d) == {c \in Calls : InFlight(c) /\ terms[c].donation = d}

\* The row of c can be read.
Live(c) == status[c] # "none" /\ c \notin gone

Init ==
  /\ users = Users
  /\ outside \in [Users -> StartCredits]
  /\ credits = outside
  /\ contribution = [u \in Users |-> 0]
  /\ dstatus = [d \in Donations |-> "unborn"]
  /\ remaining = [d \in Donations |-> 0]
  /\ total = [d \in Donations |-> 0]
  /\ success = [d \in Donations |-> 0]
  /\ source = [d \in Donations |-> NoUser]
  /\ overdue = {}
  /\ status = [c \in Calls |-> "none"]
  /\ terms = [c \in Calls |-> NoTerms]
  /\ gone = {}
  /\ checked = {}
  /\ over = [d \in Donations |-> 0]

-----------------------------------------------------------------------------
(* Reservations *)

(***************************************************************************)
(* One transaction claims a use of a routable donation and debits the      *)
(* consumer; the last use expires the donation.  A failed guard rolls      *)
(* everything back (ErrDonationUnavailable, ErrInsufficientCredits, also   *)
(* when the user was deleted after authentication).                        *)
(***************************************************************************)
Reserve(c, u, d, p, r) ==
  /\ status[c] = "none"
  /\ dstatus[d] = "active" /\ d \notin overdue /\ remaining[d] > 0
  /\ u \in users /\ credits[u] >= p
  /\ remaining' = [remaining EXCEPT ![d] = @ - 1]
  /\ dstatus' = [dstatus EXCEPT ![d] = IF remaining[d] - 1 <= 0 THEN "expired" ELSE @]
  /\ credits' = [credits EXCEPT ![u] = @ - p]
  /\ status' = [status EXCEPT ![c] = "reserved"]
  /\ terms' = [terms EXCEPT ![c] = [user |-> u, donation |-> d, donor |-> source[d],
                                    price |-> p, reward |-> r]]
  /\ UNCHANGED <<users, contribution, total, success, source, overdue, gone,
                 checked, history>>

\* Only a reserved row is dispatched; any other row is left as it is.
MarkDispatched(c) ==
  /\ Live(c) /\ status[c] = "reserved"
  /\ status' = [status EXCEPT ![c] = "dispatched"]
  /\ UNCHANGED <<accounts, donations, overdue, terms, gone, checked, history>>

(***************************************************************************)
(* The call is consumed: the donation counts a success and the donor, if   *)
(* the row names one who still exists, is rewarded.  A donation that no    *)
(* longer exists fails the transaction.                                    *)
(***************************************************************************)
Commit(c) ==
  LET t == terms[c] IN
  /\ Live(c) /\ status[c] = "dispatched"
  /\ dstatus[t.donation] \in Existing
  /\ success' = [success EXCEPT ![t.donation] = @ + 1]
  /\ contribution' = [u \in Users |-> contribution[u]
                        + IF u = t.donor /\ u \in users THEN 1 ELSE 0]
  /\ credits' = [u \in Users |-> credits[u]
                        + IF u = t.donor /\ u \in users THEN t.reward ELSE 0]
  /\ status' = [status EXCEPT ![c] = "committed"]
  /\ UNCHANGED <<users, dstatus, remaining, total, source, overdue, terms, gone,
                 checked, history>>

\* A use comes back to d: it becomes active again if only exhaustion expired it.
NotRestored(d) == dstatus[d]
Restored(d) ==
  IF dstatus[d] = "expired" /\ remaining[d] = 0 /\ d \notin overdue
  THEN "active" ELSE dstatus[d]

\* What the end of a call on terms t gives back to u.
RefundToDonor(u, t) == IF u = t.donor /\ u \in users THEN t.price ELSE 0
Refund(u, t) == IF u = t.user /\ u \in users THEN t.price ELSE 0

(***************************************************************************)
(* The call never left: the use comes back, a donation that was expired by *)
(* exhaustion alone becomes active again, and the consumer is refunded.    *)
(***************************************************************************)
Release(c) ==
  LET t == terms[c]
      d == t.donation
  IN
  /\ Live(c) /\ status[c] = "reserved"
  /\ dstatus[d] \in Existing
  /\ remaining' = [remaining EXCEPT ![d] = @ + 1]
  /\ dstatus' = [dstatus EXCEPT ![d] = Restored(d)]
  /\ credits' = [u \in Users |-> credits[u] + Refund(u, t)]
  /\ status' = [status EXCEPT ![c] = "released"]
  /\ UNCHANGED <<users, contribution, total, success, source, overdue, terms,
                 gone, checked, history>>

\* The daily cleanup removes settled rows that are thirty days old.
PurgeSettled(old) ==
  /\ old # {}
  /\ \A c \in old : Live(c) /\ status[c] \in Settled
  /\ gone' = gone \cup old
  /\ UNCHANGED <<accounts, donations, overdue, status, terms, checked, history>>

-----------------------------------------------------------------------------
(* Donations *)

(***************************************************************************)
(* The endpoint checked that the named source exists before it inserts;    *)
(* the user may have been deleted in between, and the column has no        *)
(* foreign key.  New rows are inactive.                                    *)
(***************************************************************************)
CreateDonation(d, n, src) ==
  /\ dstatus[d] = "unborn"
  /\ n > 0
  /\ dstatus' = [dstatus EXCEPT ![d] = "inactive"]
  /\ total' = [total EXCEPT ![d] = n]
  /\ remaining' = [remaining EXCEPT ![d] = n]
  /\ source' = [source EXCEPT ![d] = src]
  /\ UNCHANGED <<accounts, success, overdue, rows, checked, history>>

\* The deadline of d passes.
DeadlinePasses(d) ==
  /\ dstatus[d] \in Existing /\ d \notin overdue
  /\ overdue' = overdue \cup {d}
  /\ UNCHANGED <<accounts, donations, rows, checked, history>>

\* Every minute, and whenever an admin lists the donations.
ExpireOverdue ==
  /\ \E d \in overdue : dstatus[d] \in Open
  /\ dstatus' = [d \in Donations |->
                   IF d \in overdue /\ dstatus[d] \in Open THEN "expired" ELSE dstatus[d]]
  /\ UNCHANGED <<accounts, remaining, total, success, source, overdue, rows,
                 checked, history>>

Unclamped(n) == n
Clamped(n) == IF n < 0 THEN 0 ELSE n

RestOfUnconsumed(d, n) == n - success[d]

\* What is left of a donation after total_count is edited to n, before clamping.
Rest(d, n) == remaining[d] + n - total[d]

(***************************************************************************)
(* One transaction edits a donation that has not expired: total_count      *)
(* moves remaining_count by the same amount but never below zero, the      *)
(* deadline can only move into the future, the status only between active  *)
(* and inactive.                                                           *)
(***************************************************************************)
PatchDonation(d, n, st, extend) ==
  /\ dstatus[d] \in Open
  /\ n > 0 /\ st \in Open
  /\ total' = [total EXCEPT ![d] = n]
  /\ remaining' = [remaining EXCEPT ![d] = Clamped(Rest(d, n))]
  /\ over' = [over EXCEPT ![d] = @ + Clamped(0 - Rest(d, n))]
  /\ dstatus' = [dstatus EXCEPT ![d] = st]
  /\ overdue' = IF extend THEN overdue \ {d} ELSE overdue
  /\ UNCHANGED <<accounts, success, source, rows, checked, outside>>

\* The status endpoint reads the donation and refuses an expired one ...
CheckStatus(d, st) ==
  /\ dstatus[d] \in Open
  /\ st \in Open
  /\ checked' = checked \cup {<<d, st>>}
  /\ UNCHANGED <<accounts, donations, overdue, rows, history>>

\* ... and then writes the status, whatever the row has become.
WriteStatus(d, st) ==
  /\ <<d, st>> \in checked
  /\ checked' = checked \ {<<d, st>>}
  /\ dstatus' = [dstatus EXCEPT ![d] = IF @ \in Existing THEN st ELSE @]
  /\ UNCHANGED <<accounts, remaining, total, success, source, overdue, rows, history>>

\* The batch endpoint checks and writes the selection in one transaction.
BatchSetStatus(ids, st) ==
  /\ ids # {} /\ st \in Open
  /\ \A d \in ids : dstatus[d] \in Open
  /\ dstatus' = [d \in Donations |-> IF d \in ids THEN st ELSE dstatus[d]]
  /\ UNCHANGED <<accounts, remaining, total, success, source, overdue, rows,
                 checked, history>>

\* A donor who regenerates the template app turns expired donations of the
\* service (some of the donor's) into inactive ones.
InvalidateExpired(u, ids) ==
  /\ ids # {}
  /\ \A d \in ids : source[d] = u /\ dstatus[d] = "expired"
  /\ dstatus' = [d \in Donations |-> IF d \in ids THEN "inactive" ELSE dstatus[d]]
  /\ UNCHANGED <<accounts, remaining, total, success, source, overdue, rows,
                 checked, history>>

DeletableIfDispatched(d) ==
  dstatus[d] \in Existing /\ \A c \in InFlightOn(d) : status[c] # "reserved"
Deletable(d) == dstatus[d] \in Existing /\ InFlightOn(d) = {}

\* All of the selection or nothing; refused while a call is in flight on one.
DeleteDonations(ids) ==
  /\ ids # {}
  /\ \A d \in ids : Deletable(d)
  /\ dstatus' = [d \in Donations |-> IF d \in ids THEN "deleted" ELSE dstatus[d]]
  /\ UNCHANGED <<accounts, remaining, total, success, source, overdue, rows,
                 checked, history>>

-----------------------------------------------------------------------------
(* Users *)

\* Admin edits, check-in, anti-abuse penalties and games move a balance by any
\* amount; an admin deduction may make it negative.
MoveCredits(u, delta) ==
  /\ u \in users
  /\ outside[u] + delta \in (0 - MaxOutside)..MaxOutside
  /\ credits' = [credits EXCEPT ![u] = @ + delta]
  /\ outside' = [outside EXCEPT ![u] = @ + delta]
  /\ UNCHANGED <<users, contribution, donations, overdue, rows, checked, over>>

\* What a selection of balances becomes: every one is set to an amount, or moved by
\* it; ids without a row are passed over.
Rebalanced(ids, action, amount) ==
  [u \in Users |-> IF u \in ids \cap users
                   THEN IF action = "set" THEN amount ELSE credits[u] + amount
                   ELSE credits[u]]

\* One transaction ("sub" is "add" with a negative amount).  The same on
\* donation_credit, which nothing here reads, is left out.
BatchUpdateUserBalance(ids, action, amount) ==
  /\ credits' = Rebalanced(ids, action, amount)
  /\ outside' = [u \in Users |-> outside[u] + (credits'[u] - credits[u])]
  /\ \A u \in Users : outside'[u] \in (0 - MaxOutside)..MaxOutside
  /\ UNCHANGED <<users, contribution, donations, overdue, rows, checked, over>>

AdminBatchCredits(ids, action, amount) ==
  /\ ids # {} /\ (action = "set" => amount >= 0)
  /\ BatchUpdateUserBalance(ids, action, amount)

\* The rows that only concern u.
SolelyOf(u) ==
  {c \in Calls : Live(c) /\
     \/ terms[c].user = u /\ terms[c].donor \in {NoUser, u}
     \/ terms[c].donor = u /\ terms[c].user = NoUser}

Anonymous(t, u) ==
  [t EXCEPT !.user = IF @ = u THEN NoUser ELSE @,
            !.donor = IF @ = u THEN NoUser ELSE @]

ConsumedBy(c, u) == terms[c].user = u
Concerns(c, u) == u \in {terms[c].user, terms[c].donor}

(***************************************************************************)
(* Refused while a call of the user, as consumer or as donor, is in        *)
(* flight.  Reservations that concern nobody else go, the others lose      *)
(* their reference, and so do the user's donations.                        *)
(***************************************************************************)
DeleteUser(u) ==
  /\ u \in users
  /\ \A c \in Calls : InFlight(c) => ~Concerns(c, u)
  /\ users' = users \ {u}
  /\ gone' = gone \cup SolelyOf(u)
  /\ terms' = [c \in Calls |-> IF Live(c) THEN Anonymous(terms[c], u) ELSE terms[c]]
  /\ source' = [d \in Donations |-> IF dstatus[d] \in Existing /\ source[d] = u
                                    THEN NoUser ELSE source[d]]
  /\ UNCHANGED <<credits, contribution, dstatus, remaining, total, success,
                 overdue, status, checked, history>>

-----------------------------------------------------------------------------
\* The administrative steps that decide whether a call in flight still finds
\* its donation, its consumer and its row.
Administration ==
  \/ \E old \in SUBSET Calls : PurgeSettled(old)
  \/ \E d \in Donations, n \in 1..MaxTotal, src \in Users \cup {NoUser} :
       CreateDonation(d, n, src)
  \/ \E ids \in SUBSET Donations, st \in Open : BatchSetStatus(ids, st)
  \/ \E ids \in SUBSET Donations : DeleteDonations(ids)
  \/ \E u \in Users : DeleteUser(u)

Next ==
  \/ \E c \in Calls, u \in Users, d \in Donations, p \in Prices, r \in Rewards :
       Reserve(c, u, d, p, r)
  \/ \E c \in Calls : MarkDispatched(c)
  \/ \E c \in Calls : Commit(c)
  \/ \E c \in Calls : Release(c)
  \/ Administration
  \/ \E d \in Donations : DeadlinePasses(d)
  \/ ExpireOverdue
  \/ \E d \in Donations, n \in 1..MaxTotal, st \in Open, extend \in BOOLEAN :
       PatchDonation(d, n, st, extend)
  \/ \E d \in Donations, st \in Open : CheckStatus(d, st)
  \/ \E d \in Donations, st \in Open : WriteStatus(d, st)
  \/ \E u \in Users, ids \in SUBSET Donations : InvalidateExpired(u, ids)
  \/ \E u \in Users, delta \in Deltas : MoveCredits(u, delta)
  \/ \E ids \in SUBSET Users, action \in {"add", "set"}, amount \in Deltas \cup StartCredits :
       AdminBatchCredits(ids, action, amount)

Spec == Init /\ [][Next]_vars

-----------------------------------------------------------------------------
(* Properties *)

(***************************************************************************)
(* Commit, Release and therefore the recovery at start-up, whose error     *)
(* keeps the service from starting, never find the donation of an          *)
(* in-flight call gone (charity_reservations.go:224, :296), and a refund   *)
(* always has somebody to go to: deleting donations and users, purging and *)
(* the edits in between leave everything an in-flight call needs.          *)
(***************************************************************************)
InFlightBacked ==
  \A c \in Calls : InFlight(c) =>
    /\ Live(c)
    /\ dstatus[terms[c].donation] \in Existing
    /\ terms[c].user \in users

\* What makes InFlightBacked inductive: only settled rows ever disappear.
GoneSettled == \A c \in gone : status[c] \in Settled

\* What makes CapacityConserved inductive: an id nobody used has no capacity.
UnbornUnused == \A d \in Donations : dstatus[d] = "unborn" => remaining[d] = 0 /\ total[d] = 0

(***************************************************************************)
(* Every use a donor granted is in exactly one place: still available,     *)
(* held by one in-flight call, or counted as a success.  Nothing is lost   *)
(* or served twice by any order of reservations, settlements and edits;    *)
(* more than total_count is served only as far as an edit lowered          *)
(* total_count below what was already used or held (over).                 *)
(***************************************************************************)
CapacityConserved ==
  \A d \in Donations : dstatus[d] # "deleted" =>
    remaining[d] + Cardinality(InFlightOn(d)) + success[d] = total[d] + over[d]

(***************************************************************************)
(* A donation whose deadline has not passed is "expired" only while it is  *)
(* used up: a refund that brings a use back also makes the donation        *)
(* routable again, so a donor's capacity is never stranded behind a status *)
(* that the admin endpoints refuse to change.                              *)
(***************************************************************************)
NoStrandedCapacity ==
  \A d \in Donations \ overdue : dstatus[d] = "expired" => remaining[d] = 0

Consumed(u) == {c \in Calls : status[c] \in Held \cup {"committed"} /\ terms[c].user = u}
Rewarded(u) == {c \in Calls : status[c] = "committed" /\ terms[c].donor = u}

(***************************************************************************)
(* The balance of every account is explained by the reservation rows: what *)
(* the rest of the system made it, less the price of each call that is     *)
(* held or consumed, plus the reward of each consumed call it donated.     *)
(* Concurrent debits, refunds, rewards and admin edits never overwrite     *)
(* one another, and no call is refunded or rewarded twice.                 *)
(***************************************************************************)
MoneyConserved ==
  \A u \in users :
    credits[u] = outside[u] - MapThenSumSet(LAMBDA c : terms[c].price, Consumed(u))
                            + MapThenSumSet(LAMBDA c : terms[c].reward, Rewarded(u))

(***************************************************************************)
(* The promise of CharityLedger: one hold, then one consumption or one     *)
(* refund, on the terms of the hold, for every call.                       *)
(***************************************************************************)
Phase == [c \in Calls |->
  [none |-> "idle", reserved |-> "held", dispatched |-> "held",
   committed |-> "consumed", released |-> "refunded"][status[c]]]

\* What charity calls did to each balance: the rest is recorded in outside.
Net == [u \in Users |-> credits[u] - outside[u]]

Ledger == INSTANCE CharityLedger WITH members <- users, phase <- Phase, net <- Net

LedgerSpec == Ledger!Spec

(***************************************************************************)
(* "An expired donation cannot change its status" is what the status       *)
(* endpoint answers (handler/donations.go:487) and what the batch endpoint *)
(* guarantees.  The single endpoint's write breaks it when the donation    *)
(* expires between the check and the write.                                *)
(***************************************************************************)
ExpiredStatusFrozen ==
  [][\A d \in Donations, st \in Open : WriteStatus(d, st) => dstatus[d] # "expired"]_vars
=============================================================================

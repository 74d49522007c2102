-------------------------- MODULE DonationLifecycle --------------------------
(***************************************************************************)
(* How a donation comes to be and what may happen to it: applications and  *)
(* their review, prices, the status endpoint, the download of a donation   *)
(* App, deletion of users.  Every statement outside a transaction is a     *)
(* step; the endpoints that read first and write later are several.        *)
(*                                                                         *)
(* A (service, model) pair is an element of Pairs, with the service        *)
(* Service[p].  Deadlines are left open: an open donation may expire at    *)
(* any time, and a review or an edit that a deadline refuses is simply a   *)
(* step not taken.  Uses are reduced to whether one is left.               *)
(***************************************************************************)
EXTENDS Integers, FiniteSets

CONSTANTS
  Users, Applications, Donations,   \* ids; AUTOINCREMENT, never reused
  Pairs,          \* (service, model) pairs
  Service,        \* the service of a pair
  Templates,      \* services with a downloadable template
  NoUser, NoApplication,
  MaxLimit,       \* bound on the pending limit an admin sets
  MaxGenerations  \* bound on the number of downloads

Services == {Service[p] : p \in Pairs}

ASSUME LifecycleAssumption ==
  /\ NoUser \notin Users /\ NoApplication \notin Applications
  /\ Templates \subseteq Services
  /\ IsFiniteSet(Applications)
  /\ MaxLimit \in Nat /\ MaxGenerations \in Nat

VARIABLES
  users,       \* ids that have a row
  app,         \* donation_applications, and where the submitting handler is
  donation,    \* donations
  exhausted,   \* donations with remaining_count = 0
  busy,        \* donations with a reservation in flight
  priced,      \* pairs with a row in charity_pricing
  limit,       \* setting donation_review_limit
  latest,      \* the latest donation-purpose generation of (user, service), 0: none
  made,        \* generations recorded so far
  download,    \* where the download handler of (user, service) is
  toggles,     \* status requests between their reads and their write
  aftermath,   \* approvals that have yet to look at the price
  unused       \* pairs DeletePricing found without donations, not yet deleted

tables == <<users, app, donation, exhausted, busy, priced, limit, latest, made>>
requests == <<download, toggles, aftermath, unused>>
vars == <<tables, requests>>

Open == {"active", "inactive"}
Existing == Open \cup {"expired"}
Filed == {"pending", "approved", "rejected", "invalidated"}
Generations == 0..MaxGenerations

\* pc is where handleCreateDonationApp is, "unattached" when the mapping it has
\* read could not be stored; cap and snap are what it has read.
Application ==
  [pc : {"idle", "limited", "ready", "attaching", "unattached", "done"},
   status : Filed \cup {"none", "gone"}, user : Users \cup {NoUser}, pair : Pairs,
   map : Generations, cap : 0..MaxLimit, snap : Generations]

Donation == [status : Existing \cup {"unborn", "deleted"}, pair : Pairs,
             map : Generations, source : Users \cup {NoUser},
             origin : Applications \cup {NoApplication}]

TypeOK ==
  /\ users \subseteq Users
  /\ app \in [Applications -> Application]
  /\ donation \in [Donations -> Donation]
  /\ exhausted \subseteq Donations /\ busy \subseteq Donations
  /\ priced \subseteq Pairs /\ unused \subseteq Pairs
  /\ limit \in 0..MaxLimit
  /\ latest \in [Users \X Services -> Generations] /\ made \in Generations
  /\ download \in [Users \X Services -> {"idle", "quiet", "doomed", "allowed"}]
  /\ toggles \subseteq [donation : Donations, to : Open, pair : Pairs, gated : BOOLEAN]
  /\ aftermath \subseteq [donation : Donations, pair : Pairs, unpriced : BOOLEAN]

Init ==
  /\ users = Users
  /\ \E p \in Pairs :
       /\ app = [a \in Applications |->
                   [pc |-> "idle", status |-> "none", user |-> NoUser, pair |-> p,
                    map |-> 0, cap |-> 0, snap |-> 0]]
       /\ donation = [d \in Donations |->
                        [status |-> "unborn", pair |-> p, map |-> 0, source |-> NoUser,
                         origin |-> NoApplication]]
  /\ exhausted = {} /\ busy = {} /\ priced = {} /\ unused = {}
  /\ limit \in 0..MaxLimit
  /\ latest = [x \in Users \X Services |-> 0] /\ made = 0
  /\ download = [x \in Users \X Services |-> "idle"]
  /\ toggles = {} /\ aftermath = {}

Exists(d) == donation[d].status \in Existing
OfService(u, s) == {d \in Donations : /\ Exists(d) /\ donation[d].source = u
                                      /\ Service[donation[d].pair] = s}
PendingOf(u) == {a \in Applications : app[a].user = u /\ app[a].status = "pending"}

-----------------------------------------------------------------------------
(* Applications: the donor's side *)

\* The handler reads the limit ...
ReadLimit(a, u, p) ==
  /\ app[a].pc = "idle" /\ u \in users
  /\ app' = [app EXCEPT ![a].pc = "limited", ![a].user = u, ![a].pair = p,
                        ![a].cap = limit]
  /\ UNCHANGED <<users, donation, exhausted, busy, priced, limit, latest, made,
                 requests>>

\* ... and the mapping of the donor's last download, without which an
\* application for a template service is refused.
ReadSnapshot(a) ==
  LET s == Service[app[a].pair]
      v == IF s \in Templates THEN latest[<<app[a].user, s>>] ELSE 0
  IN
  /\ app[a].pc = "limited"
  /\ app' = IF s \in Templates /\ v = 0
             THEN [app EXCEPT ![a].pc = "done", ![a].cap = 0]
             ELSE [app EXCEPT ![a].pc = "ready", ![a].snap = v]
  /\ UNCHANGED <<users, donation, exhausted, busy, priced, limit, latest, made,
                 requests>>

\* The predicate of the INSERT.
UnderLimitInclusive(a) == Cardinality(PendingOf(app[a].user)) <= app[a].cap
UnderLimit(a) == Cardinality(PendingOf(app[a].user)) < app[a].cap

\* Counting and inserting are one statement; the row must have its user
\* (foreign key).  An insert that is refused ends the request.
Insert(a) ==
  /\ app[a].pc = "ready"
  /\ IF app[a].user \in users /\ UnderLimit(a)
     THEN app' = [app EXCEPT ![a].status = "pending",
                             ![a].pc = IF app[a].snap # 0 THEN "attaching" ELSE "done"]
     ELSE app' = [app EXCEPT ![a].pc = "done", ![a].cap = 0]
  /\ UNCHANGED <<users, donation, exhausted, busy, priced, limit, latest, made,
                 requests>>

\* A second statement writes the mapping, whatever the row's status is by
\* now; its failure is only logged.
AttachMapping(a) ==
  /\ app[a].pc = "attaching"
  /\ \/ app' = [app EXCEPT ![a].pc = "done",
                           ![a].map = IF app[a].status \in Filed THEN app[a].snap ELSE @]
     \/ app' = [app EXCEPT ![a].pc = "unattached"]
  /\ UNCHANGED <<users, donation, exhausted, busy, priced, limit, latest, made,
                 requests>>

-----------------------------------------------------------------------------
(* Applications: the review *)

\* Only a pending application can be claimed.
Claimable(a) == app[a].status = "pending"

\* It is approved for a user who still exists.
ApprovableAgain(a) == app[a].status \in {"pending", "approved"} /\ app[a].user \in users
Approvable(a) == Claimable(a) /\ app[a].user \in users

\* The mapping a donation is created with.
LatestMapping(a) == latest[<<app[a].user, Service[app[a].pair]>>]
CopiedMapping(a) == app[a].map

(***************************************************************************)
(* One transaction approves a selection: each application must be pending  *)
(* and its user must exist; a donation is created for it, inactive, and    *)
(* linked.  The reviewer of a single application may change its pair.      *)
(***************************************************************************)
Approved(as, new, pair) ==
  /\ \A a \in as : Approvable(a)
  /\ \A a \in as : donation[new[a]].status = "unborn"
  /\ \A a, b \in as : a # b => new[a] # new[b]
  /\ app' = [a \in Applications |->
               IF a \in as THEN [app[a] EXCEPT !.status = "approved"] ELSE app[a]]
  /\ donation' = [d \in Donations |->
       IF \E a \in as : new[a] = d
       THEN LET a == CHOOSE x \in as : new[x] = d IN
            [status |-> "inactive", pair |-> pair[a], map |-> CopiedMapping(a),
             source |-> app[a].user, origin |-> a]
       ELSE donation[d]]

\* The single endpoint goes on to look at the price.
Approve(a, d, p) ==
  /\ Approved({a}, [x \in {a} |-> d], [x \in {a} |-> p])
  /\ aftermath' = aftermath \cup {[donation |-> d, pair |-> p, unpriced |-> FALSE]}
  /\ UNCHANGED <<users, exhausted, busy, priced, limit, latest, made, download, toggles,
                 unused>>

ApproveBatch(as, new) ==
  /\ as # {}
  /\ Approved(as, new, [a \in as |-> app[a].pair])
  /\ UNCHANGED <<users, exhausted, busy, priced, limit, latest, made, requests>>

\* After an approval: without a price ...
LookAtPrice(x) ==
  /\ x \in aftermath /\ ~x.unpriced
  /\ aftermath' = (aftermath \ {x}) \cup
                  IF x.pair \in priced THEN {} ELSE {[x EXCEPT !.unpriced = TRUE]}
  /\ UNCHANGED <<tables, download, toggles, unused>>

\* ... the status is set to inactive, unconditionally.
Silence(x) ==
  /\ x \in aftermath /\ x.unpriced
  /\ aftermath' = aftermath \ {x}
  /\ donation' = [donation EXCEPT ![x.donation].status = IF @ \in Existing THEN "inactive" ELSE @]
  /\ UNCHANGED <<users, app, exhausted, busy, priced, limit, latest, made, download,
                 toggles, unused>>

\* One transaction rejects a selection.
Reject(as) ==
  /\ \A a \in as : Claimable(a)
  /\ app' = [a \in Applications |->
               IF a \in as THEN [app[a] EXCEPT !.status = "rejected"] ELSE app[a]]
  /\ UNCHANGED <<users, donation, exhausted, busy, priced, limit, latest, made,
                 requests>>

RejectOne(a) == Reject({a})

\* The batch looks at every application before the transaction does: what it finds
\* there makes no difference, since the transaction claims each again.
RejectBatch(as) == as # {} /\ Reject(as)

SetLimit(n) ==
  /\ limit' = n
  /\ UNCHANGED <<users, app, donation, exhausted, busy, priced, latest, made, requests>>

-----------------------------------------------------------------------------
(* Prices *)

UpsertPricing(p) ==
  /\ p \notin priced
  /\ priced' = priced \cup {p}
  /\ UNCHANGED <<users, app, donation, exhausted, busy, limit, latest, made, requests>>

NoDonationsFor(p) == \A d \in Donations : Exists(d) => donation[d].pair # p

\* The single endpoint looks for donations ...
CheckPricingUnused(p) ==
  /\ NoDonationsFor(p)
  /\ unused' = unused \cup {p}
  /\ UNCHANGED <<tables, download, toggles, aftermath>>

\* ... and deletes in a second statement.
DeletePricing(p) ==
  /\ p \in unused
  /\ unused' = unused \ {p}
  /\ priced' = priced \ {p}
  /\ UNCHANGED <<users, app, donation, exhausted, busy, limit, latest, made, download,
                 toggles, aftermath>>

\* The batch is one transaction.
DeletePricingBatch(ps) ==
  /\ \A p \in ps : NoDonationsFor(p)
  /\ priced' = priced \ ps
  /\ UNCHANGED <<users, app, donation, exhausted, busy, limit, latest, made, requests>>

BatchDeletePricing(ps) == ps # {} /\ DeletePricingBatch(ps)

-----------------------------------------------------------------------------
(* Donations *)

\* An admin's own entry has no mapping.  The source was looked up before.
CreateDonation(d, p, src) ==
  /\ donation[d].status = "unborn"
  /\ donation' = [donation EXCEPT ![d] =
                    [status |-> "inactive", pair |-> p, map |-> 0, source |-> src,
                     origin |-> NoApplication]]
  /\ UNCHANGED <<users, app, exhausted, busy, priced, limit, latest, made, requests>>

\* What activating a donation of pair p asks for, from status st.
GateLeft(st, to, p) == TRUE
Gate(st, to, p) == (st # "active" /\ to = "active") => p \in priced

\* A transaction; a smaller or a larger total may use the donation up or not.
PatchDonation(d, p, to) ==
  /\ donation[d].status \in Open
  /\ Gate(donation[d].status, to, p)
  /\ donation' = [donation EXCEPT ![d].pair = p, ![d].status = to]
  /\ exhausted' \in {exhausted \cup {d}, exhausted \ {d}}
  /\ UNCHANGED <<users, app, busy, priced, limit, latest, made, requests>>

\* A transaction that asks for a price of every target, active or not.
BatchSetStatus(ds, to) ==
  /\ ds # {}
  /\ \A d \in ds : donation[d].status \in Open
  /\ \A d \in ds : Gate("inactive", to, donation[d].pair)
  /\ donation' = [d \in Donations |->
                    IF d \in ds THEN [donation[d] EXCEPT !.status = to] ELSE donation[d]]
  /\ UNCHANGED <<users, app, exhausted, busy, priced, limit, latest, made, requests>>

\* The status endpoint reads the donation, ...
ReadForStatus(d, to) ==
  /\ donation[d].status \in Open
  /\ toggles' = toggles \cup {[donation |-> d, to |-> to, pair |-> donation[d].pair,
                               gated |-> FALSE]}
  /\ UNCHANGED <<tables, download, aftermath, unused>>

\* ... then, to activate it, the price of the pair it has read, ...
CheckPriceForStatus(t) ==
  /\ t \in toggles /\ ~t.gated
  /\ Gate("inactive", t.to, t.pair)
  /\ toggles' = (toggles \ {t}) \cup {[t EXCEPT !.gated = TRUE]}
  /\ UNCHANGED <<tables, download, aftermath, unused>>

AbandonStatus(t) ==
  /\ t \in toggles /\ ~t.gated
  /\ ~Gate("inactive", t.to, t.pair)
  /\ toggles' = toggles \ {t}
  /\ UNCHANGED <<tables, download, aftermath, unused>>

\* ... and writes the status by id.
WriteStatus(t) ==
  /\ t \in toggles /\ t.gated
  /\ toggles' = toggles \ {t}
  /\ donation' = [donation EXCEPT ![t.donation].status = IF @ \in Existing THEN t.to ELSE @]
  /\ UNCHANGED <<users, app, exhausted, busy, priced, limit, latest, made, download,
                 aftermath, unused>>

\* Deadlines pass and the sweep finds them.
Expire(ds) ==
  /\ ds # {} /\ \A d \in ds : donation[d].status \in Open
  /\ donation' = [d \in Donations |->
                    IF d \in ds THEN [donation[d] EXCEPT !.status = "expired"] ELSE donation[d]]
  /\ UNCHANGED <<users, app, exhausted, busy, priced, limit, latest, made, requests>>

\* A call takes a use, perhaps the last one.
TakeUse(d, last) ==
  /\ donation[d].status = "active" /\ d \notin exhausted /\ d \notin busy
  /\ busy' = busy \cup {d}
  /\ exhausted' = IF last THEN exhausted \cup {d} ELSE exhausted
  /\ donation' = [donation EXCEPT ![d].status = IF last THEN "expired" ELSE @]
  /\ UNCHANGED <<users, app, priced, limit, latest, made, requests>>

\* The call is settled; a refund gives the use back and, if the deadline has
\* not passed, makes a donation that only exhaustion expired active again.
EndUse(d, refund, late) ==
  /\ d \in busy
  /\ busy' = busy \ {d}
  /\ exhausted' = IF refund THEN exhausted \ {d} ELSE exhausted
  /\ donation' = [donation EXCEPT ![d].status =
        IF refund /\ ~late /\ @ = "expired" /\ d \in exhausted THEN "active" ELSE @]
  /\ UNCHANGED <<users, app, priced, limit, latest, made, requests>>

\* Refused while a call is in flight.
DeleteDonations(ds) ==
  /\ ds # {} /\ \A d \in ds : Exists(d) /\ d \notin busy
  /\ donation' = [d \in Donations |->
                    IF d \in ds THEN [donation[d] EXCEPT !.status = "deleted"] ELSE donation[d]]
  /\ UNCHANGED <<users, app, exhausted, busy, priced, limit, latest, made, requests>>

DeleteDonation(d) == DeleteDonations({d})

-----------------------------------------------------------------------------
(* Downloads of a donation App *)

\* checkDonationRegeneration: an active entry blocks, ...
CheckNoActive(u, s) ==
  /\ download[<<u, s>>] = "idle" /\ u \in users /\ s \in Templates
  /\ \A d \in OfService(u, s) : donation[d].status # "active"
  /\ download' = [download EXCEPT ![<<u, s>>] = "quiet"]
  /\ UNCHANGED <<tables, toggles, aftermath, unused>>

\* ... other entries, or an application pending or approved, ask for the
\* donor's confirmation.
CheckOthers(u, s, confirmed) ==
  LET others == \/ \E d \in OfService(u, s) : donation[d].status \in {"inactive", "expired"}
                \/ \E a \in Applications : /\ app[a].user = u /\ Service[app[a].pair] = s
                                           /\ app[a].status \in {"pending", "approved"}
  IN
  /\ download[<<u, s>>] = "quiet"
  /\ download' = [download EXCEPT ![<<u, s>>] =
                    IF ~others THEN "allowed" ELSE IF confirmed THEN "doomed" ELSE "idle"]
  /\ UNCHANGED <<tables, toggles, aftermath, unused>>

\* One transaction: pending applications are invalidated, expired donations
\* become inactive.
InvalidatedAsDonation(st) == IF st = "pending" THEN "inactive" ELSE st
InvalidatedFiled(st) == IF st \in {"pending", "approved"} THEN "invalidated" ELSE st
Invalidated(st) == IF st = "pending" THEN "invalidated" ELSE st

Invalidate(u, s) ==
  /\ download[<<u, s>>] = "doomed"
  /\ download' = [download EXCEPT ![<<u, s>>] = "allowed"]
  /\ app' = [a \in Applications |->
               IF app[a].user = u /\ Service[app[a].pair] = s
               THEN [app[a] EXCEPT !.status = Invalidated(@)] ELSE app[a]]
  /\ donation' = [d \in Donations |->
                    IF d \in OfService(u, s) /\ donation[d].status = "expired"
                    THEN [donation[d] EXCEPT !.status = "inactive"] ELSE donation[d]]
  /\ UNCHANGED <<users, exhausted, busy, priced, limit, latest, made, toggles, aftermath,
                 unused>>

\* The generation is recorded; its user may have been deleted meanwhile.
AddServiceGeneration(u, s) ==
  /\ download[<<u, s>>] = "allowed" /\ made < MaxGenerations
  /\ download' = [download EXCEPT ![<<u, s>>] = "idle"]
  /\ made' = made + 1
  /\ latest' = [latest EXCEPT ![<<u, s>>] = made + 1]
  /\ UNCHANGED <<users, app, donation, exhausted, busy, priced, limit, toggles, aftermath,
                 unused>>

\* The template fails after the gate: the old entries stay invalidated.
FailDownload(u, s) ==
  /\ download[<<u, s>>] = "allowed"
  /\ download' = [download EXCEPT ![<<u, s>>] = "idle"]
  /\ UNCHANGED <<tables, toggles, aftermath, unused>>

\* After thirty days without a download.
PurgeGenerations(u, s) ==
  /\ latest[<<u, s>>] # 0
  /\ latest' = [latest EXCEPT ![<<u, s>>] = 0]
  /\ UNCHANGED <<users, app, donation, exhausted, busy, priced, limit, made, requests>>

-----------------------------------------------------------------------------
(***************************************************************************)
(* One transaction, refused while a call on a donation of the user is in   *)
(* flight: applications and generations go, donations lose their source.   *)
(***************************************************************************)
LeavesApplications(u, a) == app[a]
WithoutApplications(u, a) ==
  IF app[a].user = u /\ app[a].status \in Filed
  THEN [app[a] EXCEPT !.status = "gone"] ELSE app[a]

DeleteUser(u) ==
  /\ u \in users
  /\ \A d \in busy : donation[d].source # u
  /\ users' = users \ {u}
  /\ app' = [a \in Applications |-> WithoutApplications(u, a)]
  /\ donation' = [d \in Donations |->
                    IF donation[d].source = u THEN [donation[d] EXCEPT !.source = NoUser]
                    ELSE donation[d]]
  /\ latest' = [x \in Users \X Services |-> IF x[1] = u THEN 0 ELSE latest[x]]
  /\ UNCHANGED <<exhausted, busy, priced, limit, made, requests>>

Submission == \E a \in Applications :
  \/ \E u \in Users, p \in Pairs : ReadLimit(a, u, p)
  \/ ReadSnapshot(a) \/ Insert(a) \/ AttachMapping(a)

Review ==
  \/ \E a \in Applications, d \in Donations, p \in Pairs : Approve(a, d, p)
  \/ \E as \in SUBSET Applications : \E new \in [as -> Donations] : ApproveBatch(as, new)
  \/ \E a \in Applications : RejectOne(a)
  \/ \E as \in SUBSET Applications : RejectBatch(as)
  \/ \E x \in aftermath : LookAtPrice(x) \/ Silence(x)
  \/ \E n \in 0..MaxLimit : SetLimit(n)

Pricing ==
  \/ \E p \in Pairs : UpsertPricing(p) \/ CheckPricingUnused(p) \/ DeletePricing(p)
  \/ \E ps \in SUBSET Pairs : BatchDeletePricing(ps)

Administration ==
  \/ \E d \in Donations, p \in Pairs, src \in users \cup {NoUser} : CreateDonation(d, p, src)
  \/ \E d \in Donations, p \in Pairs, to \in Open : PatchDonation(d, p, to)
  \/ \E ds \in SUBSET Donations, to \in Open : BatchSetStatus(ds, to)
  \/ \E d \in Donations, to \in Open : ReadForStatus(d, to)
  \/ \E t \in toggles : CheckPriceForStatus(t) \/ AbandonStatus(t) \/ WriteStatus(t)
  \/ \E ds \in SUBSET Donations : Expire(ds) \/ DeleteDonations(ds)
  \/ \E d \in Donations : DeleteDonation(d)

Calling ==
  \/ \E d \in Donations, last \in BOOLEAN : TakeUse(d, last)
  \/ \E d \in Donations, refund, late \in BOOLEAN : EndUse(d, refund, late)

Downloading == \E u \in Users, s \in Services :
  \/ CheckNoActive(u, s) \/ Invalidate(u, s)
  \/ AddServiceGeneration(u, s) \/ FailDownload(u, s)
  \/ \E confirmed \in BOOLEAN : CheckOthers(u, s, confirmed)
  \/ PurgeGenerations(u, s)

Next == \/ Submission \/ Review \/ Pricing \/ Administration \/ Calling \/ Downloading
        \/ \E u \in Users : DeleteUser(u)

Spec == Init /\ [][Next]_vars

-----------------------------------------------------------------------------
(* Properties *)

\* Every application that was approved has become exactly one donation, and
\* no other application has become any: a review of the same application by
\* two reviewers, alone or in batches, takes effect once.
ApprovedOnce ==
  \A a \in Applications :
    LET born == {d \in Donations : donation[d].origin = a} IN
    /\ Cardinality(born) <= 1
    /\ app[a].status = "approved" => born # {}
    /\ app[a].status \in {"none", "pending", "rejected", "invalidated"} => born = {}

\* A user never has more pending applications than the highest limit that one of
\* their submissions has read, though the limit is read before the insert, may be
\* changed at any time, and submissions of one user run concurrently.
PendingBounded ==
  \A u \in Users : PendingOf(u) # {} =>
    \E a \in PendingOf(u) : Cardinality(PendingOf(u)) <= app[a].cap

\* A pending application has its applicant's row: otherwise no review could
\* ever approve it.
ApplicantExists == \A a \in Applications : app[a].status = "pending" => app[a].user \in users

\* An application leaves "pending" once: neither a review nor a download nor
\* a late mapping changes an outcome.
OutcomeFinal ==
  [][\A a \in Applications :
       app[a].status \in Filed \ {"pending"} => app'[a].status \in {app[a].status, "gone"}]_vars

\* A donation made from an application carries the mapping of the donor's last
\* download before the application, for as long as it exists, whatever is
\* downloaded later and whenever the application is reviewed.  The exception
\* is in the code: if it is approved before the second statement has stored the
\* mapping, or after that has failed, the donation has none.
SnapshotKept ==
  [][\A d \in Donations :
       IF donation[d].status = "unborn"
       THEN \A a \in Applications : donation'[d].origin = a =>
              \/ donation'[d].map = app[a].snap
              \/ app[a].pc \in {"attaching", "unattached"} /\ donation'[d].map = 0
       ELSE UNCHANGED <<donation[d].map, donation[d].origin>>]_vars

\* A donation becomes active only if its pair is priced at that moment, a
\* status request has seen a price for it, or a refund revives it.
ActivationGated ==
  [][\A d \in Donations :
       donation[d].status # "active" /\ donation'[d].status = "active" =>
         \/ donation'[d].pair \in priced
         \/ \E t \in toggles : t.donation = d /\ t.to = "active" /\ t.gated
         \/ d \in exhausted /\ d \in busy]_vars
=============================================================================

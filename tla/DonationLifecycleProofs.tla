----------------------- MODULE DonationLifecycleProofs -----------------------
(***************************************************************************)
(* The safety of DonationLifecycle for any numbers of users, applications, *)
(* donations, pairs and downloads.                                         *)
(***************************************************************************)
EXTENDS DonationLifecycle, FiniteSetTheorems, TLAPS

-----------------------------------------------------------------------------
(* The inductive invariant *)

\* An application has its row only after the insert, and has the mapping its handler
\* read exactly when the handler is done with it.
Submitted ==
  \A a \in Applications :
    /\ app[a].pc \in {"idle", "limited", "ready"} => app[a].status = "none"
    /\ app[a].status = "none" => app[a].map = 0
    /\ app[a].pc \in {"attaching", "unattached"} => app[a].map = 0
    /\ app[a].pc = "done" /\ app[a].status \in Filed => app[a].map = app[a].snap
    /\ app[a].pc # "idle" => app[a].user \in Users

\* An application has at most one donation; it has one while it is approved, and may
\* have one when it is gone.
Births ==
  /\ \A d \in Donations : donation[d].status = "unborn" => donation[d].origin = NoApplication
  /\ \A d \in Donations : donation[d].origin # NoApplication =>
       app[donation[d].origin].status \in {"approved", "gone"}
  /\ \A d, e \in Donations :
       donation[d].origin # NoApplication /\ donation[d].origin = donation[e].origin => d = e
  /\ \A a \in Applications :
       app[a].status = "approved" => \E d \in Donations : donation[d].origin = a

\* Whichever of a user's pending applications are left, one of them was inserted
\* under a limit that is not below their number: the last one to be filed.
LimitsRespected ==
  \A u \in Users : \A as \in SUBSET PendingOf(u) :
    as # {} => \E a \in as : Cardinality(as) <= app[a].cap

IInv == TypeOK /\ Submitted /\ Births /\ LimitsRespected /\ ApplicantExists

-----------------------------------------------------------------------------
(* What the review does *)

\* An approval changes the status of its applications and gives each a
\* donation of its own; nothing else changes.
LEMMA ApprovedEffect ==
  ASSUME TypeOK, NEW as \in SUBSET Applications, NEW new \in [as -> Donations],
         NEW pair \in [as -> Pairs], Approved(as, new, pair)
  PROVE  /\ \A a \in Applications \ as : app'[a] = app[a]
         /\ \A a \in as : app'[a] = [app[a] EXCEPT !.status = "approved"]
         /\ \A a \in as : donation'[new[a]] =
              [status |-> "inactive", pair |-> pair[a], map |-> app[a].map,
               source |-> app[a].user, origin |-> a]
         /\ \A d \in Donations : (\A a \in as : new[a] # d) => donation'[d] = donation[d]
         /\ app' \in [Applications -> Application]
         /\ donation' \in [Donations -> Donation]
<1>1. app' = [a \in Applications |->
                IF a \in as THEN [app[a] EXCEPT !.status = "approved"] ELSE app[a]]
  BY DEF Approved
<1>2. /\ \A a \in Applications \ as : app'[a] = app[a]
      /\ \A a \in as : app'[a] = [app[a] EXCEPT !.status = "approved"]
  BY <1>1
<1>3. ASSUME NEW a \in as
      PROVE  donation'[new[a]] = [status |-> "inactive", pair |-> pair[a], map |-> app[a].map,
                                  source |-> app[a].user, origin |-> a]
  <2>1. (CHOOSE x \in as : new[x] = new[a]) = a
    BY DEF Approved
  <2>2. new[a] \in Donations
    OBVIOUS
  <2> QED
    BY <2>1, <2>2 DEF Approved, CopiedMapping
<1>4. ASSUME NEW d \in Donations, \A a \in as : new[a] # d PROVE donation'[d] = donation[d]
  BY <1>4 DEF Approved
<1>5. app' \in [Applications -> Application]
  <2>1. ASSUME NEW a \in Applications PROVE [app[a] EXCEPT !.status = "approved"] \in Application
    <3>1. app[a] \in Application
      BY DEF TypeOK
    <3> QED
      BY <3>1 DEF Application, Filed
  <2> QED
    BY <1>1, <2>1 DEF TypeOK
<1>6. donation' \in [Donations -> Donation]
  <2>1. ASSUME NEW a \in as
        PROVE  [status |-> "inactive", pair |-> pair[a], map |-> app[a].map,
                source |-> app[a].user, origin |-> a] \in Donation
    <3>1. app[a] \in Application
      BY DEF TypeOK
    <3> QED
      BY <3>1 DEF Application, Donation, Existing, Open
  <2>2. ASSUME NEW d \in Donations PROVE donation'[d] \in Donation
    <3>1. ASSUME NEW a \in as, new[a] = d PROVE donation'[d] \in Donation
      BY <1>3, <2>1, <3>1
    <3>2. CASE \A a \in as : new[a] # d
      BY <1>4, <3>2 DEF TypeOK
    <3> QED
      BY <3>1, <3>2
  <2>3. donation' = [d \in Donations |-> donation'[d]]
    BY DEF Approved
  <2> QED
    BY <2>2, <2>3
<1> QED
  BY <1>2, <1>3, <1>4, <1>5, <1>6

-----------------------------------------------------------------------------
(* Types *)

\* The tables as functions.
LEMMA Tables ==
  ASSUME TypeOK
  PROVE  /\ app \in [Applications -> Application] /\ donation \in [Donations -> Donation]
         /\ limit \in 0..MaxLimit /\ latest \in [Users \X Services -> Generations]
         /\ download \in [Users \X Services -> {"idle", "quiet", "doomed", "allowed"}]
BY DEF TypeOK

\* The updates that the steps make to a record.
LEMMA FieldUpdates ==
  ASSUME NEW r \in Application
  PROVE  /\ \A st \in Filed \cup {"none", "gone"} : [r EXCEPT !.status = st] \in Application
         /\ \A pc \in {"idle", "limited", "ready", "attaching", "unattached", "done"} :
              [r EXCEPT !.pc = pc] \in Application
         /\ \A u \in Users : [r EXCEPT !.user = u] \in Application
         /\ \A p \in Pairs : [r EXCEPT !.pair = p] \in Application
         /\ \A n \in 0..MaxLimit : [r EXCEPT !.cap = n] \in Application
         /\ \A v \in Generations : [r EXCEPT !.snap = v] \in Application
         /\ \A v \in Generations : [r EXCEPT !.map = v] \in Application
<1>1. \A st \in Filed \cup {"none", "gone"} : [r EXCEPT !.status = st] \in Application
  BY DEF Application
<1>2. \A pc \in {"idle", "limited", "ready", "attaching", "unattached", "done"} :
        [r EXCEPT !.pc = pc] \in Application
  BY DEF Application
<1>3. \A u \in Users : [r EXCEPT !.user = u] \in Application
  BY DEF Application
<1>4. \A p \in Pairs : [r EXCEPT !.pair = p] \in Application
  BY DEF Application
<1>5. \A n \in 0..MaxLimit : [r EXCEPT !.cap = n] \in Application
  BY DEF Application
<1>6. \A v \in Generations : [r EXCEPT !.snap = v] \in Application
  BY DEF Application
<1>7. \A v \in Generations : [r EXCEPT !.map = v] \in Application
  BY DEF Application
<1> QED
  BY <1>1, <1>2, <1>3, <1>4, <1>5, <1>6, <1>7

\* The handler reads the limit.
LEMMA LimitUpdate ==
  ASSUME NEW r \in Application, NEW u \in Users, NEW p \in Pairs, NEW n \in 0..MaxLimit
  PROVE  [r EXCEPT !.pc = "limited", !.user = u, !.pair = p, !.cap = n] \in Application
<1>1. PICK r1 \in Application : r1 = [r EXCEPT !.pc = "limited"]
  BY FieldUpdates
<1>2. PICK r2 \in Application : r2 = [r1 EXCEPT !.user = u]
  BY FieldUpdates
<1>3. PICK r3 \in Application : r3 = [r2 EXCEPT !.pair = p]
  BY FieldUpdates
<1>4. PICK r4 \in Application : r4 = [r3 EXCEPT !.cap = n]
  BY FieldUpdates
<1> QED
  BY <1>1, <1>2, <1>3, <1>4

\* The handler inserts.
LEMMA InsertUpdate ==
  ASSUME NEW r \in Application, NEW pc \in {"attaching", "done"}
  PROVE  [r EXCEPT !.status = "pending", !.pc = pc] \in Application
<1>1. PICK r1 \in Application : r1 = [r EXCEPT !.status = "pending"]
  BY FieldUpdates DEF Filed
<1>2. PICK r2 \in Application : r2 = [r1 EXCEPT !.pc = pc]
  BY FieldUpdates
<1> QED
  BY <1>1, <1>2

\* The other updates that several steps share.
LEMMA Updates ==
  /\ \A r \in Application, st \in Filed \cup {"none", "gone"} :
       [r EXCEPT !.status = st] \in Application
  /\ \A r \in Application : [r EXCEPT !.pc = "done", !.cap = 0] \in Application
  /\ \A r \in Application, v \in Generations :
       [r EXCEPT !.pc = "ready", !.snap = v] \in Application
  /\ \A r \in Application, v \in Generations :
       [r EXCEPT !.pc = "done", !.map = v] \in Application
  /\ \A r \in Donation, st \in Existing \cup {"unborn", "deleted"} :
       [r EXCEPT !.status = st] \in Donation
  /\ \A r \in Donation : [r EXCEPT !.source = NoUser] \in Donation
<1>1. ASSUME NEW r \in Application PROVE [r EXCEPT !.pc = "done", !.cap = 0] \in Application
  <2>1. PICK q \in Application : q = [r EXCEPT !.pc = "done"]
    BY FieldUpdates
  <2>2. 0 \in 0..MaxLimit
    BY LifecycleAssumption DEF LifecycleAssumption
  <2>3. [q EXCEPT !.cap = 0] \in Application
    BY <2>2, FieldUpdates
  <2> QED
    BY <2>1, <2>3
<1>2. ASSUME NEW r \in Application, NEW v \in Generations
      PROVE  [r EXCEPT !.pc = "ready", !.snap = v] \in Application
  <2>1. PICK q \in Application : q = [r EXCEPT !.pc = "ready"]
    BY FieldUpdates
  <2>2. [q EXCEPT !.snap = v] \in Application
    BY FieldUpdates
  <2> QED
    BY <2>1, <2>2
<1>3. ASSUME NEW r \in Donation, NEW st \in Existing \cup {"unborn", "deleted"}
      PROVE  [r EXCEPT !.status = st] \in Donation
  BY DEF Donation
<1>4. ASSUME NEW r \in Donation PROVE [r EXCEPT !.source = NoUser] \in Donation
  BY DEF Donation
<1>5. ASSUME NEW r \in Application, NEW v \in Generations
      PROVE  [r EXCEPT !.pc = "done", !.map = v] \in Application
  <2>1. PICK q \in Application : q = [r EXCEPT !.pc = "done"]
    BY FieldUpdates
  <2>2. [q EXCEPT !.map = v] \in Application
    BY FieldUpdates
  <2> QED
    BY <2>1, <2>2
<1> QED
  BY <1>1, <1>2, <1>3, <1>4, <1>5, FieldUpdates

\* Every step keeps the types.
LEMMA NextTypeOK == TypeOK /\ Submitted /\ [Next]_vars => TypeOK'
<1> SUFFICES ASSUME TypeOK, Submitted, [Next]_vars PROVE TypeOK'
  OBVIOUS
<1>1. ASSUME NEW a \in Applications, NEW u \in Users, NEW p \in Pairs, ReadLimit(a, u, p)
      PROVE  TypeOK'
  <2>1. app' = [app EXCEPT ![a] = [app[a] EXCEPT !.pc = "limited", !.user = u, !.pair = p,
                                                 !.cap = limit]]
    BY <1>1, Tables DEF ReadLimit, Application
  <2>2. [app[a] EXCEPT !.pc = "limited", !.user = u, !.pair = p, !.cap = limit] \in Application
    BY Tables, LimitUpdate
  <2>9. app' \in [Applications -> Application]
    BY <2>1, <2>2, Tables
  <2> QED
    BY <1>1, <2>9 DEF ReadLimit, TypeOK, requests
<1>2. ASSUME NEW a \in Applications, ReadSnapshot(a) PROVE TypeOK'
  <2> DEFINE s == Service[app[a].pair]
  <2>1. app[a] \in Application /\ app[a].user \in Users /\ s \in Services
    BY <1>2, Tables DEF ReadSnapshot, Application, Services, Submitted
  <2>2. PICK v \in Generations :
          app' = IF s \in Templates /\ v = 0
                 THEN [app EXCEPT ![a].pc = "done", ![a].cap = 0]
                 ELSE [app EXCEPT ![a].pc = "ready", ![a].snap = v]
    <3>1. latest[<<app[a].user, s>>] \in Generations /\ 0 \in Generations
      BY <2>1, Tables, LifecycleAssumption DEF Generations, LifecycleAssumption
    <3> QED
      BY <1>2, <3>1 DEF ReadSnapshot
  <2> HIDE DEF s
  <2>3. \/ app' = [app EXCEPT ![a] = [app[a] EXCEPT !.pc = "done", !.cap = 0]]
        \/ app' = [app EXCEPT ![a] = [app[a] EXCEPT !.pc = "ready", !.snap = v]]
    BY <2>2, Tables
  <2>4. /\ [app[a] EXCEPT !.pc = "done", !.cap = 0] \in Application
        /\ [app[a] EXCEPT !.pc = "ready", !.snap = v] \in Application
    BY Tables, Updates
  <2>9. app' \in [Applications -> Application]
    BY <2>3, <2>4, Tables
  <2> QED
    BY <1>2, <2>9 DEF ReadSnapshot, TypeOK, requests
<1>3. ASSUME NEW a \in Applications, Insert(a) PROVE TypeOK'
  <2>1. \/ app' = [app EXCEPT ![a] = [app[a] EXCEPT !.pc = "done", !.cap = 0]]
        \/ \E pc \in {"attaching", "done"} :
             app' = [app EXCEPT ![a] = [app[a] EXCEPT !.status = "pending", !.pc = pc]]
    BY <1>3, Tables DEF Insert, Application
  <2>2. \A pc \in {"attaching", "done"} :
          [app[a] EXCEPT !.status = "pending", !.pc = pc] \in Application
    BY Tables, InsertUpdate
  <2>3. [app[a] EXCEPT !.pc = "done", !.cap = 0] \in Application
    BY Tables, Updates
  <2>9. app' \in [Applications -> Application]
    BY <2>1, <2>2, <2>3, Tables
  <2> QED
    BY <1>3, <2>9 DEF Insert, TypeOK, requests
<1>4. ASSUME NEW a \in Applications, AttachMapping(a) PROVE TypeOK'
  <2>1. \/ app' = [app EXCEPT ![a] = [app[a] EXCEPT !.pc = "unattached"]]
        \/ \E v \in {app[a].map, app[a].snap} :
             app' = [app EXCEPT ![a] = [app[a] EXCEPT !.pc = "done", !.map = v]]
    BY <1>4, Tables DEF AttachMapping
  <2>2. app[a] \in Application /\ {app[a].map, app[a].snap} \subseteq Generations
    BY Tables DEF Application
  <2>3. /\ [app[a] EXCEPT !.pc = "unattached"] \in Application
        /\ \A v \in Generations : [app[a] EXCEPT !.pc = "done", !.map = v] \in Application
    BY <2>2, Updates, FieldUpdates
  <2>4. ASSUME NEW r \in Application, app' = [app EXCEPT ![a] = r]
        PROVE  app' \in [Applications -> Application]
    BY <2>4, Tables
  <2>9. app' \in [Applications -> Application]
    <3>1. CASE app' = [app EXCEPT ![a] = [app[a] EXCEPT !.pc = "unattached"]]
      BY <2>3, <2>4, <3>1
    <3>2. CASE \E v \in {app[a].map, app[a].snap} :
                 app' = [app EXCEPT ![a] = [app[a] EXCEPT !.pc = "done", !.map = v]]
      BY <2>2, <2>3, <2>4, <3>2
    <3> QED
      BY <2>1, <3>1, <3>2
  <2> QED
    BY <1>4, <2>9 DEF AttachMapping, TypeOK, requests
<1>5. ASSUME NEW a \in Applications, NEW d \in Donations, NEW p \in Pairs, Approve(a, d, p)
      PROVE  TypeOK'
  <2>1. /\ Approved({a}, [x \in {a} |-> d], [x \in {a} |-> p])
        /\ [x \in {a} |-> d] \in [{a} -> Donations] /\ [x \in {a} |-> p] \in [{a} -> Pairs]
        /\ {a} \in SUBSET Applications
    <3>1. Approved({a}, [x \in {a} |-> d], [x \in {a} |-> p])
      BY <1>5 DEF Approve
    <3> QED
      BY <3>1
  <2>2. app' \in [Applications -> Application] /\ donation' \in [Donations -> Donation]
    BY <2>1, ApprovedEffect
  <2>3. aftermath' \subseteq [donation : Donations, pair : Pairs, unpriced : BOOLEAN]
    <3>1. aftermath' = aftermath \cup {[donation |-> d, pair |-> p, unpriced |-> FALSE]}
      BY <1>5 DEF Approve
    <3>2. [donation |-> d, pair |-> p, unpriced |-> FALSE]
            \in [donation : Donations, pair : Pairs, unpriced : BOOLEAN]
      OBVIOUS
    <3> QED
      BY <3>1, <3>2 DEF TypeOK
  <2>4. UNCHANGED <<users, exhausted, busy, priced, limit, latest, made, download, toggles,
                    unused>>
    BY <1>5 DEF Approve
  <2> QED
    BY <2>2, <2>3, <2>4 DEF TypeOK
<1>6. ASSUME NEW as \in SUBSET Applications, NEW new \in [as -> Donations],
             ApproveBatch(as, new)
      PROVE  TypeOK'
  <2>1. /\ Approved(as, new, [a \in as |-> app[a].pair])
        /\ [a \in as |-> app[a].pair] \in [as -> Pairs]
    BY <1>6, Tables DEF ApproveBatch, Application
  <2>2. app' \in [Applications -> Application] /\ donation' \in [Donations -> Donation]
    BY <2>1, ApprovedEffect
  <2> QED
    BY <1>6, <2>2 DEF ApproveBatch, TypeOK, requests
<1>7. ASSUME NEW as \in SUBSET Applications, Reject(as) PROVE TypeOK'
  <2>9. app' \in [Applications -> Application]
    BY <1>7, Tables, Updates DEF Reject, Filed
  <2> QED
    BY <1>7, <2>9 DEF Reject, TypeOK, requests
<1>8. ASSUME NEW x \in aftermath, LookAtPrice(x) PROVE TypeOK'
  BY <1>8, LifecycleAssumption DEF LookAtPrice, tables, requests, TypeOK, Application,
     Donation, Filed, Existing, Open, Generations
<1>9. ASSUME NEW x \in aftermath, Silence(x) PROVE TypeOK'
  <2>1. x.donation \in Donations /\ aftermath' \subseteq aftermath
    BY <1>9 DEF Silence, TypeOK
  <2>9. donation' \in [Donations -> Donation]
    BY <1>9, <2>1, Tables DEF Silence, Donation, Existing, Open
  <2> QED
    BY <1>9, <2>1, <2>9 DEF Silence, TypeOK
<1>10. ASSUME NEW n \in 0..MaxLimit, SetLimit(n) PROVE TypeOK'
  BY <1>10, LifecycleAssumption DEF SetLimit, tables, requests, TypeOK, Application,
     Donation, Filed, Existing, Open, Generations
<1>11. ASSUME NEW p \in Pairs, UpsertPricing(p) PROVE TypeOK'
  BY <1>11, LifecycleAssumption DEF UpsertPricing, tables, requests, TypeOK,
     Application, Donation, Filed, Existing, Open, Generations
<1>12. ASSUME NEW p \in Pairs, CheckPricingUnused(p) PROVE TypeOK'
  BY <1>12, LifecycleAssumption DEF CheckPricingUnused, tables, requests, TypeOK,
     Application, Donation, Filed, Existing, Open, Generations
<1>13. ASSUME NEW p \in Pairs, DeletePricing(p) PROVE TypeOK'
  BY <1>13, LifecycleAssumption DEF DeletePricing, tables, requests, TypeOK,
     Application, Donation, Filed, Existing, Open, Generations
<1>14. ASSUME NEW ps \in SUBSET Pairs, BatchDeletePricing(ps) PROVE TypeOK'
  BY <1>14, LifecycleAssumption DEF BatchDeletePricing, DeletePricingBatch, tables,
     requests, TypeOK, Application, Donation, Filed, Existing, Open, Generations
<1>15. ASSUME NEW d \in Donations, NEW p \in Pairs, NEW src \in users \cup {NoUser},
             CreateDonation(d, p, src)
      PROVE  TypeOK'
  BY <1>15, LifecycleAssumption DEF CreateDonation, tables, requests, TypeOK,
     Application, Donation, Filed, Existing, Open, Generations
<1>16. ASSUME NEW d \in Donations, NEW p \in Pairs, NEW to \in Open, PatchDonation(d, p, to)
      PROVE  TypeOK'
  <2>1. donation' = [donation EXCEPT ![d] = [donation[d] EXCEPT !.pair = p, !.status = to]]
    BY <1>16, Tables DEF PatchDonation, Donation
  <2>2. [donation[d] EXCEPT !.pair = p, !.status = to] \in Donation
    BY Tables DEF Donation, Existing
  <2>9. donation' \in [Donations -> Donation]
    BY <2>1, <2>2, Tables
  <2> QED
    BY <1>16, <2>9 DEF PatchDonation, TypeOK, requests
<1>17. ASSUME NEW ds \in SUBSET Donations, NEW to \in Open, BatchSetStatus(ds, to)
      PROVE  TypeOK'
  <2>9. donation' \in [Donations -> Donation]
    BY <1>17, Tables, Updates DEF BatchSetStatus, Existing, Open
  <2> QED
    BY <1>17, <2>9 DEF BatchSetStatus, TypeOK, requests
<1>18. ASSUME NEW d \in Donations, NEW to \in Open, ReadForStatus(d, to) PROVE TypeOK'
  <2>1. donation[d].pair \in Pairs
    BY Tables DEF Donation
  <2>9. toggles' \subseteq [donation : Donations, to : Open, pair : Pairs, gated : BOOLEAN]
    <3>1. [donation |-> d, to |-> to, pair |-> donation[d].pair, gated |-> FALSE]
            \in [donation : Donations, to : Open, pair : Pairs, gated : BOOLEAN]
      BY <2>1
    <3>2. toggles' = toggles \cup {[donation |-> d, to |-> to, pair |-> donation[d].pair,
                                    gated |-> FALSE]}
      BY <1>18 DEF ReadForStatus
    <3> QED
      BY <3>1, <3>2 DEF TypeOK
  <2> QED
    BY <1>18, <2>9 DEF ReadForStatus, TypeOK, tables
<1>19. ASSUME NEW t \in toggles, CheckPriceForStatus(t) PROVE TypeOK'
  BY <1>19, LifecycleAssumption DEF CheckPriceForStatus, tables, requests, TypeOK,
     Application, Donation, Filed, Existing, Open, Generations
<1>20. ASSUME NEW t \in toggles, AbandonStatus(t) PROVE TypeOK'
  BY <1>20, LifecycleAssumption DEF AbandonStatus, tables, requests, TypeOK,
     Application, Donation, Filed, Existing, Open, Generations
<1>21. ASSUME NEW t \in toggles, WriteStatus(t) PROVE TypeOK'
  <2>1. t.donation \in Donations /\ t.to \in Open
    BY DEF TypeOK
  <2>9. donation' \in [Donations -> Donation]
    BY <1>21, <2>1, Tables DEF WriteStatus, Donation, Existing
  <2> QED
    BY <1>21, <2>9 DEF WriteStatus, TypeOK, requests
<1>22. ASSUME NEW ds \in SUBSET Donations, Expire(ds) PROVE TypeOK'
  <2>9. donation' \in [Donations -> Donation]
    BY <1>22, Tables, Updates DEF Expire, Existing, Open
  <2> QED
    BY <1>22, <2>9 DEF Expire, TypeOK, requests
<1>23. ASSUME NEW ds \in SUBSET Donations, DeleteDonations(ds) PROVE TypeOK'
  <2>9. donation' \in [Donations -> Donation]
    BY <1>23, Tables, Updates DEF DeleteDonations, Existing, Open
  <2> QED
    BY <1>23, <2>9 DEF DeleteDonations, TypeOK, requests
<1>24. ASSUME NEW d \in Donations, NEW last \in BOOLEAN, TakeUse(d, last) PROVE TypeOK'
  <2>1. \E st \in {donation[d].status, "expired"} :
          donation' = [donation EXCEPT ![d] = [donation[d] EXCEPT !.status = st]]
    BY <1>24, Tables DEF TakeUse
  <2>2. {donation[d].status, "expired"} \subseteq Existing \cup {"unborn", "deleted"}
    BY Tables DEF Donation, Existing
  <2>3. \A st \in {donation[d].status, "expired"} :
          [donation[d] EXCEPT !.status = st] \in Donation
    BY <2>2, Tables, Updates
  <2>9. donation' \in [Donations -> Donation]
    BY <2>1, <2>3, Tables
  <2> QED
    BY <1>24, <2>9 DEF TakeUse, TypeOK, requests
<1>25. ASSUME NEW d \in Donations, NEW refund \in BOOLEAN, NEW late \in BOOLEAN,
             EndUse(d, refund, late)
      PROVE  TypeOK'
  <2>1. \E st \in {donation[d].status, "active"} :
          donation' = [donation EXCEPT ![d] = [donation[d] EXCEPT !.status = st]]
    BY <1>25, Tables DEF EndUse
  <2>2. {donation[d].status, "active"} \subseteq Existing \cup {"unborn", "deleted"}
    BY Tables DEF Donation, Existing, Open
  <2>3. \A st \in {donation[d].status, "active"} :
          [donation[d] EXCEPT !.status = st] \in Donation
    BY <2>2, Tables, Updates
  <2>9. donation' \in [Donations -> Donation]
    BY <2>1, <2>3, Tables
  <2> QED
    BY <1>25, <2>9 DEF EndUse, TypeOK, requests
<1>26. ASSUME NEW u \in Users, NEW s \in Services, CheckNoActive(u, s) PROVE TypeOK'
  BY <1>26, LifecycleAssumption DEF CheckNoActive, tables, requests, TypeOK,
     Application, Donation, Filed, Existing, Open, Generations
<1>27. ASSUME NEW u \in Users, NEW s \in Services, NEW confirmed \in BOOLEAN,
             CheckOthers(u, s, confirmed)
      PROVE  TypeOK'
  BY <1>27, LifecycleAssumption DEF CheckOthers, tables, requests, TypeOK, Application,
     Donation, Filed, Existing, Open, Generations
<1>28. ASSUME NEW u \in Users, NEW s \in Services, Invalidate(u, s) PROVE TypeOK'
  <2>1. app' \in [Applications -> Application]
    <3>1. \A a \in Applications : Invalidated(app[a].status) \in Filed \cup {"none", "gone"}
      BY Tables DEF Invalidated, Application, Filed
    <3> QED
      BY <1>28, <3>1, Tables, Updates DEF Invalidate
  <2>2. donation' \in [Donations -> Donation]
    BY <1>28, Tables, Updates DEF Invalidate, Existing, Open
  <2>3. download' \in [Users \X Services -> {"idle", "quiet", "doomed", "allowed"}]
    BY <1>28, Tables DEF Invalidate
  <2> QED
    BY <1>28, <2>1, <2>2, <2>3 DEF Invalidate, TypeOK
<1>29. ASSUME NEW u \in Users, NEW s \in Services, AddServiceGeneration(u, s) PROVE TypeOK'
  <2>1. made + 1 \in Generations
    <3>1. made \in Generations /\ made < MaxGenerations
      BY <1>29 DEF AddServiceGeneration, TypeOK
    <3> QED
      BY <3>1, LifecycleAssumption DEF Generations, LifecycleAssumption
  <2>2. latest' \in [Users \X Services -> Generations] /\ made' \in Generations
    BY <1>29, <2>1, Tables DEF AddServiceGeneration
  <2> QED
    BY <1>29, <2>2 DEF AddServiceGeneration, TypeOK
<1>30. ASSUME NEW u \in Users, NEW s \in Services, FailDownload(u, s) PROVE TypeOK'
  BY <1>30, LifecycleAssumption DEF FailDownload, tables, requests, TypeOK, Application,
     Donation, Filed, Existing, Open, Generations
<1>31. ASSUME NEW u \in Users, NEW s \in Services, PurgeGenerations(u, s) PROVE TypeOK'
  <2>1. latest' \in [Users \X Services -> Generations]
    <3>1. 0 \in Generations
      BY LifecycleAssumption DEF Generations, LifecycleAssumption
    <3>2. latest' = [latest EXCEPT ![<<u, s>>] = 0]
      BY <1>31 DEF PurgeGenerations
    <3> QED
      BY <3>1, <3>2, Tables
  <2> QED
    BY <1>31, <2>1 DEF PurgeGenerations, TypeOK, requests
<1>32. ASSUME NEW u \in Users, DeleteUser(u) PROVE TypeOK'
  <2>1. app' \in [Applications -> Application]
    BY <1>32, Tables, Updates DEF DeleteUser, WithoutApplications
  <2>2. donation' \in [Donations -> Donation]
    BY <1>32, Tables, Updates DEF DeleteUser
  <2>3. latest' \in [Users \X Services -> Generations]
    BY <1>32, Tables, LifecycleAssumption DEF DeleteUser, Generations, LifecycleAssumption
  <2>4. users' \subseteq Users
    BY <1>32 DEF DeleteUser, TypeOK
  <2> QED
    BY <1>32, <2>1, <2>2, <2>3, <2>4 DEF DeleteUser, TypeOK, requests
<1>33. CASE UNCHANGED vars
  BY <1>33, LifecycleAssumption DEF vars, tables, requests, TypeOK
<1> QED
  BY <1>1, <1>2, <1>3, <1>4, <1>5, <1>6, <1>7, <1>8, <1>9, <1>10, <1>11, <1>12, <1>13,
     <1>14, <1>15, <1>16, <1>17, <1>18, <1>19, <1>20, <1>21, <1>22, <1>23, <1>24, <1>25,
     <1>26, <1>27, <1>28, <1>29, <1>30, <1>31, <1>32, <1>33 DEF Next, Submission, Review,
     Pricing, Administration, Calling, Downloading, RejectOne, RejectBatch, DeleteDonation

-----------------------------------------------------------------------------
(* What a step does to applications and donations *)

\* An application is filed by its handler's insert, gets its mapping from it
\* afterwards, leaves "pending" once, and may go with its user.
Unfiled(a) ==
  /\ app[a].pc \in {"idle", "limited", "ready"}
  /\ app'[a].status = app[a].status /\ app'[a].map = app[a].map
  /\ app'[a].pc # "idle" /\ app'[a].user \in Users
FiledNow(a) ==
  /\ Insert(a) /\ app[a].user \in users /\ UnderLimit(a)
  /\ app[a].pc = "ready"
  /\ app'[a].pc = IF app[a].snap # 0 THEN "attaching" ELSE "done"
  /\ app'[a].status = "pending" /\ app'[a].user = app[a].user /\ app'[a].cap = app[a].cap
  /\ app'[a].map = app[a].map /\ app'[a].snap = app[a].snap
Kept(a) ==
  /\ app'[a].user = app[a].user /\ app'[a].snap = app[a].snap /\ app'[a].cap = app[a].cap
  /\ \/ app'[a].pc = app[a].pc /\ app'[a].map = app[a].map
     \/ app[a].pc = "attaching" /\ app'[a].pc = "unattached" /\ app'[a].map = app[a].map
     \/ /\ app[a].pc = "attaching" /\ app'[a].pc = "done"
        /\ app'[a].map = IF app[a].status \in Filed THEN app[a].snap ELSE app[a].map
Reviewing ==
  \E as \in SUBSET Applications :
    \E new \in [as -> Donations], pair \in [as -> Pairs] : Approved(as, new, pair)
Outcome(a) ==
  \/ app'[a].status = app[a].status
  \/ app[a].status = "pending" /\ app'[a].status \in {"rejected", "invalidated"}
  \/ app[a].status = "pending" /\ app'[a].status = "approved" /\ Reviewing
  \/ app[a].status \in Filed /\ app'[a].status = "gone"

ApplicationMoves == \A e \in Applications : Unfiled(e) \/ FiledNow(e) \/ (Kept(e) /\ Outcome(e))

\* Writing the status that is there changes nothing.
LEMMA StatusSame == \A r \in Application : [r EXCEPT !.status = r.status] = r
BY DEF Application

\* Writing a status changes nothing else.
LEMMA StatusOnly ==
  ASSUME TypeOK, NEW a \in Applications, NEW st, app'[a] = [app[a] EXCEPT !.status = st]
  PROVE  Kept(a) /\ app'[a].status = st
<1>1. app[a] \in Application
  BY Tables
<1> QED
  BY <1>1 DEF Kept, Application

\* An approval is a review.
LEMMA ApprovalMoves ==
  ASSUME TypeOK, NEW as \in SUBSET Applications, NEW new \in [as -> Donations],
         NEW pair \in [as -> Pairs], Approved(as, new, pair)
  PROVE  ApplicationMoves
<1>1. Reviewing
  BY DEF Reviewing
<1>2. \A a \in as : app[a].status = "pending"
  BY DEF Approved, Approvable, Claimable
<1>3. /\ \A a \in Applications \ as : app'[a] = app[a]
      /\ \A a \in as : app'[a] = [app[a] EXCEPT !.status = "approved"]
  BY ApprovedEffect
<1>4. ASSUME NEW a \in as PROVE Kept(a) /\ Outcome(a)
  BY <1>1, <1>2, <1>3, StatusOnly DEF Outcome
<1> QED
  BY <1>3, <1>4 DEF ApplicationMoves, Kept, Outcome

\* The steps that only decide applications or let them go.
LEMMA OutcomeMoves ==
  ASSUME TypeOK,
         \A e \in Applications :
           \/ app'[e] = app[e]
           \/ \E st \in {"rejected", "invalidated"} :
                app[e].status = "pending" /\ app'[e] = [app[e] EXCEPT !.status = st]
           \/ app[e].status \in Filed /\ app'[e] = [app[e] EXCEPT !.status = "gone"]
  PROVE  ApplicationMoves
<1> SUFFICES ASSUME NEW e \in Applications PROVE Kept(e) /\ Outcome(e)
  BY DEF ApplicationMoves
<1>1. CASE app'[e] = app[e]
  BY <1>1 DEF Kept, Outcome
<1>2. ASSUME NEW st \in {"rejected", "invalidated"}, app[e].status = "pending",
             app'[e] = [app[e] EXCEPT !.status = st]
      PROVE  Kept(e) /\ Outcome(e)
  BY <1>2, StatusOnly DEF Outcome
<1>3. CASE app[e].status \in Filed /\ app'[e] = [app[e] EXCEPT !.status = "gone"]
  BY <1>3, StatusOnly DEF Outcome
<1> QED
  BY <1>1, <1>2, <1>3

\* No step does anything else to an application.
LEMMA StepApplications == TypeOK /\ Submitted /\ [Next]_vars => ApplicationMoves
<1> SUFFICES ASSUME TypeOK, Submitted, [Next]_vars PROVE ApplicationMoves
  OBVIOUS
<1>1. ASSUME NEW a \in Applications, NEW u \in Users, NEW p \in Pairs, ReadLimit(a, u, p)
      PROVE  ApplicationMoves
  <2>1. /\ app'[a].pc = "limited" /\ app'[a].status = app[a].status
        /\ app'[a].map = app[a].map /\ app'[a].user = u
    BY <1>1, Tables DEF ReadLimit, Application
  <2>2. Unfiled(a)
    BY <1>1, <2>1 DEF ReadLimit, Unfiled
  <2>3. \A e \in Applications : e # a => app'[e] = app[e]
    BY <1>1, Tables DEF ReadLimit
  <2> QED
    BY <2>2, <2>3 DEF ApplicationMoves, Kept, Outcome
<1>2. ASSUME NEW a \in Applications, ReadSnapshot(a) PROVE ApplicationMoves
  <2>1. /\ app'[a].pc \in {"done", "ready"} /\ app'[a].status = app[a].status
        /\ app'[a].map = app[a].map /\ app'[a].user = app[a].user
    BY <1>2, Tables DEF ReadSnapshot, Application
  <2>2. app[a].pc = "limited" /\ app[a].user \in Users
    BY <1>2 DEF ReadSnapshot, Submitted
  <2>3. Unfiled(a)
    BY <2>1, <2>2 DEF Unfiled
  <2>4. \A e \in Applications : e # a => app'[e] = app[e]
    BY <1>2, Tables DEF ReadSnapshot
  <2> QED
    BY <2>3, <2>4 DEF ApplicationMoves, Kept, Outcome
<1>3. ASSUME NEW a \in Applications, Insert(a) PROVE ApplicationMoves
  <2>1. CASE app[a].user \in users /\ UnderLimit(a)
    <3>1. app[a].pc = "ready"
          /\ app' = [app EXCEPT ![a].status = "pending",
                                ![a].pc = IF app[a].snap # 0 THEN "attaching" ELSE "done"]
      BY <1>3, <2>1 DEF Insert
    <3>2. /\ app'[a].pc = IF app[a].snap # 0 THEN "attaching" ELSE "done"
          /\ app'[a].status = "pending" /\ app'[a].user = app[a].user
          /\ app'[a].map = app[a].map /\ app'[a].snap = app[a].snap
          /\ app'[a].cap = app[a].cap
      BY <3>1, Tables DEF Application
    <3>3. \A e \in Applications : e # a => app'[e] = app[e]
      BY <3>1, Tables
    <3> QED
      BY <1>3, <2>1, <3>1, <3>2, <3>3 DEF ApplicationMoves, FiledNow, Kept, Outcome
  <2>2. CASE ~(app[a].user \in users /\ UnderLimit(a))
    <3>1. app[a].pc = "ready" /\ app' = [app EXCEPT ![a].pc = "done", ![a].cap = 0]
      BY <1>3, <2>2 DEF Insert
    <3>2. /\ app'[a].pc = "done" /\ app'[a].status = app[a].status
          /\ app'[a].user = app[a].user /\ app'[a].map = app[a].map
      BY <3>1, Tables DEF Application
    <3>3. \A e \in Applications : e # a => app'[e] = app[e]
      BY <3>1, Tables
    <3>4. Unfiled(a)
      BY <3>1, <3>2 DEF Unfiled, Submitted
    <3> QED
      BY <3>3, <3>4 DEF ApplicationMoves, Kept, Outcome
  <2> QED
    BY <2>1, <2>2
<1>4. ASSUME NEW a \in Applications, AttachMapping(a) PROVE ApplicationMoves
  <2>1. /\ app[a].pc = "attaching" /\ app'[a].status = app[a].status
        /\ app'[a].user = app[a].user /\ app'[a].snap = app[a].snap
        /\ app'[a].cap = app[a].cap
        /\ \/ app'[a].pc = "unattached" /\ app'[a].map = app[a].map
           \/ /\ app'[a].pc = "done"
              /\ app'[a].map = IF app[a].status \in Filed THEN app[a].snap ELSE app[a].map
    BY <1>4, Tables DEF AttachMapping, Application
  <2>2. \A e \in Applications : e # a => app'[e] = app[e]
    BY <1>4, Tables DEF AttachMapping
  <2> QED
    BY <2>1, <2>2 DEF ApplicationMoves, Kept, Outcome
<1>5. ASSUME NEW a \in Applications, NEW d \in Donations, NEW p \in Pairs, Approve(a, d, p)
      PROVE  ApplicationMoves
  <2>1. /\ {a} \in SUBSET Applications /\ [x \in {a} |-> d] \in [{a} -> Donations]
        /\ [x \in {a} |-> p] \in [{a} -> Pairs]
    OBVIOUS
  <2>2. Approved({a}, [x \in {a} |-> d], [x \in {a} |-> p])
    BY <1>5 DEF Approve
  <2> QED
    BY <2>1, <2>2, ApprovalMoves
<1>6. ASSUME NEW as \in SUBSET Applications, NEW new \in [as -> Donations],
             ApproveBatch(as, new)
      PROVE  ApplicationMoves
  <2>1. [a \in as |-> app[a].pair] \in [as -> Pairs]
    BY Tables DEF Application
  <2>2. Approved(as, new, [a \in as |-> app[a].pair])
    BY <1>6 DEF ApproveBatch
  <2> QED
    BY <2>1, <2>2, ApprovalMoves
<1>7. ASSUME NEW as \in SUBSET Applications, Reject(as) PROVE ApplicationMoves
  <2>1. \A e \in Applications :
          \/ app'[e] = app[e]
          \/ /\ app[e].status = "pending"
             /\ app'[e] = [app[e] EXCEPT !.status = "rejected"]
    BY <1>7, Tables DEF Reject, Claimable
  <2> QED
    BY <2>1, OutcomeMoves
<1>8. ASSUME NEW u \in Users, NEW s \in Services, Invalidate(u, s) PROVE ApplicationMoves
  <2>1. \A e \in Applications :
          \/ app'[e] = app[e]
          \/ /\ app[e].status = "pending"
             /\ app'[e] = [app[e] EXCEPT !.status = "invalidated"]
    BY <1>8, Tables, StatusSame DEF Invalidate, Invalidated
  <2> QED
    BY <2>1, OutcomeMoves
<1>9. ASSUME NEW u \in Users, DeleteUser(u) PROVE ApplicationMoves
  <2>1. \A e \in Applications :
          \/ app'[e] = app[e]
          \/ app[e].status \in Filed /\ app'[e] = [app[e] EXCEPT !.status = "gone"]
    BY <1>9, Tables DEF DeleteUser, WithoutApplications
  <2> QED
    BY <2>1, OutcomeMoves
<1>10. ASSUME NEW x \in aftermath,
             LookAtPrice(x) \/ Silence(x)
      PROVE  ApplicationMoves
  BY <1>10 DEF LookAtPrice, Silence, tables, requests, ApplicationMoves, Kept, Outcome
<1>11. ASSUME NEW n \in 0..MaxLimit,
             SetLimit(n)
      PROVE  ApplicationMoves
  BY <1>11 DEF SetLimit, tables, requests, ApplicationMoves, Kept, Outcome
<1>12. ASSUME NEW p \in Pairs,
             UpsertPricing(p) \/ CheckPricingUnused(p) \/ DeletePricing(p)
      PROVE  ApplicationMoves
  BY <1>12 DEF UpsertPricing, CheckPricingUnused, DeletePricing, tables, requests,
     ApplicationMoves, Kept, Outcome
<1>13. ASSUME NEW ps \in SUBSET Pairs,
             BatchDeletePricing(ps)
      PROVE  ApplicationMoves
  BY <1>13 DEF BatchDeletePricing, DeletePricingBatch, tables, requests,
     ApplicationMoves, Kept, Outcome
<1>14. ASSUME NEW d \in Donations, NEW p \in Pairs, NEW src \in users \cup {NoUser},
             CreateDonation(d, p, src)
      PROVE  ApplicationMoves
  BY <1>14 DEF CreateDonation, tables, requests, ApplicationMoves, Kept, Outcome
<1>15. ASSUME NEW d \in Donations, NEW p \in Pairs, NEW to \in Open,
             PatchDonation(d, p, to)
      PROVE  ApplicationMoves
  BY <1>15 DEF PatchDonation, tables, requests, ApplicationMoves, Kept, Outcome
<1>16. ASSUME NEW ds \in SUBSET Donations, NEW to \in Open,
             BatchSetStatus(ds, to)
      PROVE  ApplicationMoves
  BY <1>16 DEF BatchSetStatus, tables, requests, ApplicationMoves, Kept, Outcome
<1>17. ASSUME NEW d \in Donations, NEW to \in Open,
             ReadForStatus(d, to)
      PROVE  ApplicationMoves
  BY <1>17 DEF ReadForStatus, tables, requests, ApplicationMoves, Kept, Outcome
<1>18. ASSUME NEW t \in toggles,
             CheckPriceForStatus(t) \/ AbandonStatus(t) \/ WriteStatus(t)
      PROVE  ApplicationMoves
  BY <1>18 DEF CheckPriceForStatus, AbandonStatus, WriteStatus, tables, requests,
     ApplicationMoves, Kept, Outcome
<1>19. ASSUME NEW ds \in SUBSET Donations,
             Expire(ds) \/ DeleteDonations(ds)
      PROVE  ApplicationMoves
  BY <1>19 DEF Expire, DeleteDonations, tables, requests, ApplicationMoves, Kept,
     Outcome
<1>20. ASSUME NEW d \in Donations, NEW last \in BOOLEAN,
             TakeUse(d, last)
      PROVE  ApplicationMoves
  BY <1>20 DEF TakeUse, tables, requests, ApplicationMoves, Kept, Outcome
<1>21. ASSUME NEW d \in Donations, NEW refund \in BOOLEAN, NEW late \in BOOLEAN,
             EndUse(d, refund, late)
      PROVE  ApplicationMoves
  BY <1>21 DEF EndUse, tables, requests, ApplicationMoves, Kept, Outcome
<1>22. ASSUME NEW u \in Users, NEW s \in Services,
             CheckNoActive(u, s) \/ AddServiceGeneration(u, s) \/ FailDownload(u,
             s) \/ PurgeGenerations(u, s)
      PROVE  ApplicationMoves
  BY <1>22 DEF CheckNoActive, AddServiceGeneration, FailDownload, PurgeGenerations,
     tables, requests, ApplicationMoves, Kept, Outcome
<1>23. ASSUME NEW u \in Users, NEW s \in Services, NEW confirmed \in BOOLEAN,
             CheckOthers(u, s, confirmed)
      PROVE  ApplicationMoves
  BY <1>23 DEF CheckOthers, tables, requests, ApplicationMoves, Kept, Outcome
<1>24. CASE UNCHANGED vars
  BY <1>24 DEF vars, tables, requests, ApplicationMoves, Kept, Outcome
<1> QED
  BY <1>1, <1>2, <1>3, <1>4, <1>5, <1>6, <1>7, <1>8, <1>9, <1>10, <1>11, <1>12, <1>13,
     <1>14, <1>15, <1>16, <1>17, <1>18, <1>19, <1>20, <1>21, <1>22, <1>23, <1>24 DEF Next,
     Submission, Review, Pricing, Administration, Calling, Downloading, RejectOne,
     RejectBatch, DeleteDonation

\* Apart from approvals, donations get no origin, and keep what they have.
DonationMoves ==
  \A e \in Donations :
    \/ /\ donation'[e].origin = donation[e].origin /\ donation'[e].map = donation[e].map
       /\ donation'[e].status = "unborn" => donation[e].status = "unborn"
    \/ /\ donation[e].status = "unborn" /\ donation'[e].status # "unborn"
       /\ donation'[e].origin = NoApplication

\* Writing a status, a source or a pair changes neither origin nor mapping.
LEMMA DonationFields ==
  /\ \A st : \A r \in Donation : LET q == [r EXCEPT !.status = st] IN
       q.origin = r.origin /\ q.map = r.map /\ q.status = st
  /\ \A r \in Donation : LET q == [r EXCEPT !.source = NoUser] IN
       q.origin = r.origin /\ q.map = r.map /\ q.status = r.status
BY DEF Donation

\* The steps that only write statuses.
LEMMA StatusMoves ==
  ASSUME TypeOK,
         \A e \in Donations :
           \/ donation'[e] = donation[e]
           \/ \E st \in {"active", "inactive", "expired", "deleted"} :
                donation'[e] = [donation[e] EXCEPT !.status = st]
  PROVE  DonationMoves
<1> SUFFICES ASSUME NEW e \in Donations
             PROVE  /\ donation'[e].origin = donation[e].origin
                    /\ donation'[e].map = donation[e].map
                    /\ donation'[e].status = "unborn" => donation[e].status = "unborn"
  BY DEF DonationMoves
<1>1. CASE donation'[e] = donation[e]
  BY <1>1
<1>2. ASSUME NEW st \in {"active", "inactive", "expired", "deleted"},
             donation'[e] = [donation[e] EXCEPT !.status = st]
      PROVE  /\ donation'[e].origin = donation[e].origin
             /\ donation'[e].map = donation[e].map /\ donation'[e].status # "unborn"
  <2>1. donation[e] \in Donation
    BY Tables
  <2> QED
    BY <1>2, <2>1, DonationFields
<1> QED
  BY <1>1, <1>2

\* No step but a review gives a donation an origin.
LEMMA StepDonations == TypeOK /\ [Next]_vars => (Reviewing \/ DonationMoves)
<1> SUFFICES ASSUME TypeOK, [Next]_vars PROVE (Reviewing \/ DonationMoves)
  OBVIOUS
<1>1. ASSUME NEW a \in Applications, NEW d \in Donations, NEW p \in Pairs, Approve(a, d, p)
      PROVE  (Reviewing \/ DonationMoves)
  <2> DEFINE new == [x \in {a} |-> d]
             pair == [x \in {a} |-> p]
  <2>1. {a} \in SUBSET Applications /\ new \in [{a} -> Donations] /\ pair \in [{a} -> Pairs]
    OBVIOUS
  <2>2. Approved({a}, new, pair)
    BY <1>1 DEF Approve
  <2> HIDE DEF new, pair
  <2> QED
    BY <2>1, <2>2 DEF Reviewing
<1>2. ASSUME NEW as \in SUBSET Applications, NEW new \in [as -> Donations],
             ApproveBatch(as, new)
      PROVE  (Reviewing \/ DonationMoves)
  <2> DEFINE pair == [a \in as |-> app[a].pair]
  <2>1. pair \in [as -> Pairs]
    BY Tables DEF Application
  <2>2. Approved(as, new, pair)
    BY <1>2 DEF ApproveBatch
  <2> HIDE DEF pair
  <2> QED
    BY <2>1, <2>2 DEF Reviewing
<1>3. ASSUME NEW x \in aftermath, Silence(x) PROVE (Reviewing \/ DonationMoves)
  <2>0. x.donation \in Donations /\ "inactive" \in Open
    BY DEF TypeOK, Open
  <2>1. donation' =
         [donation EXCEPT ![x.donation].status = IF @ \in Existing THEN "inactive" ELSE @]
    BY <1>3 DEF Silence
  <2>2. \A e \in Donations : e # x.donation => donation'[e] = donation[e]
    BY <2>1, Tables
  <2>3. \/ donation'[x.donation].origin = donation[x.donation].origin
           /\ donation'[x.donation].map = donation[x.donation].map
           /\ (donation'[x.donation].status = "unborn" => donation[x.donation].status = "unborn")
    <3>1. donation[x.donation] \in Donation
      BY <2>0, Tables
    <3>2. donation'[x.donation] =
           [donation[x.donation] EXCEPT !.status = IF @ \in Existing THEN "inactive" ELSE @]
      BY <2>0, <2>1, Tables
    <3>3. "inactive" # "unborn"
      BY <2>0 DEF Open
    <3> QED
      BY <3>1, <3>2, <3>3 DEF Donation
  <2> QED
    BY <2>2, <2>3 DEF DonationMoves
<1>4. ASSUME NEW d \in Donations, NEW p \in Pairs, NEW src \in users \cup {NoUser},
             CreateDonation(d, p, src)
      PROVE  (Reviewing \/ DonationMoves)
  <2>1. /\ donation[d].status = "unborn" /\ donation'[d].status = "inactive"
        /\ donation'[d].origin = NoApplication
    BY <1>4, Tables DEF CreateDonation
  <2>2. \A e \in Donations : e # d => donation'[e] = donation[e]
    BY <1>4, Tables DEF CreateDonation
  <2> QED
    BY <2>1, <2>2 DEF DonationMoves
<1>5. ASSUME NEW d \in Donations, NEW p \in Pairs, NEW to \in Open, PatchDonation(d, p, to)
      PROVE  (Reviewing \/ DonationMoves)
  <2>1. /\ donation'[d].origin = donation[d].origin /\ donation'[d].map = donation[d].map
        /\ donation'[d].status # "unborn"
    BY <1>5, Tables DEF PatchDonation, Donation, Open
  <2>2. \A e \in Donations : e # d => donation'[e] = donation[e]
    BY <1>5, Tables DEF PatchDonation
  <2> QED
    BY <2>1, <2>2 DEF DonationMoves
<1>6. ASSUME NEW ds \in SUBSET Donations, NEW to \in Open, BatchSetStatus(ds, to)
      PROVE  (Reviewing \/ DonationMoves)
  <2>1. \A e \in Donations :
          \/ donation'[e] = donation[e]
          \/ \E st \in {"active", "inactive", "expired", "deleted"} :
               donation'[e] = [donation[e] EXCEPT !.status = st]
    BY <1>6, Tables DEF BatchSetStatus, Open
  <2> QED
    BY <2>1, StatusMoves
<1>7. ASSUME NEW t \in toggles, WriteStatus(t) PROVE (Reviewing \/ DonationMoves)
  <2>0. t.donation \in Donations /\ t.to \in Open
    BY DEF TypeOK, Open
  <2>1. donation' = [donation EXCEPT ![t.donation].status = IF @ \in Existing THEN t.to ELSE @]
    BY <1>7 DEF WriteStatus
  <2>2. \A e \in Donations : e # t.donation => donation'[e] = donation[e]
    BY <2>1, Tables
  <2>3. \/ donation'[t.donation].origin = donation[t.donation].origin
           /\ donation'[t.donation].map = donation[t.donation].map
           /\ (donation'[t.donation].status = "unborn" => donation[t.donation].status = "unborn")
    <3>1. donation[t.donation] \in Donation
      BY <2>0, Tables
    <3>2. donation'[t.donation] =
           [donation[t.donation] EXCEPT !.status = IF @ \in Existing THEN t.to ELSE @]
      BY <2>0, <2>1, Tables
    <3>3. t.to # "unborn"
      BY <2>0 DEF Open
    <3> QED
      BY <3>1, <3>2, <3>3 DEF Donation
  <2> QED
    BY <2>2, <2>3 DEF DonationMoves
<1>8. ASSUME NEW ds \in SUBSET Donations, Expire(ds) PROVE (Reviewing \/ DonationMoves)
  <2>1. \A e \in Donations :
          \/ donation'[e] = donation[e]
          \/ \E st \in {"active", "inactive", "expired", "deleted"} :
               donation'[e] = [donation[e] EXCEPT !.status = st]
    BY <1>8, Tables DEF Expire, Open
  <2> QED
    BY <2>1, StatusMoves
<1>9. ASSUME NEW ds \in SUBSET Donations, DeleteDonations(ds)
      PROVE  (Reviewing \/ DonationMoves)
  <2>1. \A e \in Donations :
          \/ donation'[e] = donation[e]
          \/ \E st \in {"active", "inactive", "expired", "deleted"} :
               donation'[e] = [donation[e] EXCEPT !.status = st]
    BY <1>9, Tables DEF DeleteDonations, Open
  <2> QED
    BY <2>1, StatusMoves
<1>10. ASSUME NEW d \in Donations, NEW last \in BOOLEAN, TakeUse(d, last)
      PROVE  (Reviewing \/ DonationMoves)
  <2>1. \A e \in Donations : e # d => donation'[e] = donation[e]
    BY <1>10, Tables DEF TakeUse
  <2>2. \E st \in {donation[d].status, "expired"} :
          donation'[d] = [donation[d] EXCEPT !.status = st]
    BY <1>10, Tables DEF TakeUse
  <2>3. "expired" # "unborn"
    OBVIOUS
  <2>4. /\ donation'[d].origin = donation[d].origin /\ donation'[d].map = donation[d].map
        /\ donation'[d].status = "unborn" => donation[d].status = "unborn"
    BY <2>2, <2>3, Tables, DonationFields
  <2> QED
    BY <2>1, <2>4 DEF DonationMoves
<1>11. ASSUME NEW d \in Donations, NEW refund \in BOOLEAN, NEW late \in BOOLEAN,
             EndUse(d, refund, late)
      PROVE  (Reviewing \/ DonationMoves)
  <2>1. \A e \in Donations : e # d => donation'[e] = donation[e]
    BY <1>11, Tables DEF EndUse
  <2>2. \E st \in {donation[d].status, "active"} :
          donation'[d] = [donation[d] EXCEPT !.status = st]
    BY <1>11, Tables DEF EndUse
  <2>3. "active" # "unborn"
    OBVIOUS
  <2>4. /\ donation'[d].origin = donation[d].origin /\ donation'[d].map = donation[d].map
        /\ donation'[d].status = "unborn" => donation[d].status = "unborn"
    BY <2>2, <2>3, Tables, DonationFields
  <2> QED
    BY <2>1, <2>4 DEF DonationMoves
<1>12. ASSUME NEW u \in Users, NEW s \in Services, Invalidate(u, s)
      PROVE  (Reviewing \/ DonationMoves)
  <2>1. \A e \in Donations :
          \/ donation'[e] = donation[e]
          \/ \E st \in {"active", "inactive", "expired", "deleted"} :
               donation'[e] = [donation[e] EXCEPT !.status = st]
    BY <1>12, Tables DEF Invalidate, Open
  <2> QED
    BY <2>1, StatusMoves
<1>13. ASSUME NEW u \in Users, DeleteUser(u) PROVE (Reviewing \/ DonationMoves)
  <2>1. \A e \in Donations : \/ donation'[e] = donation[e]
                            \/ donation'[e] = [donation[e] EXCEPT !.source = NoUser]
    BY <1>13, Tables DEF DeleteUser
  <2>2. \A e \in Donations : donation[e] \in Donation
    BY Tables
  <2> QED
    BY <2>1, <2>2, DonationFields DEF DonationMoves
<1>14. ASSUME NEW a \in Applications, NEW u \in Users, NEW p \in Pairs,
             ReadLimit(a, u, p)
      PROVE  (Reviewing \/ DonationMoves)
  BY <1>14 DEF ReadLimit, tables, requests, DonationMoves
<1>15. ASSUME NEW a \in Applications,
             ReadSnapshot(a) \/ Insert(a) \/ AttachMapping(a)
      PROVE  (Reviewing \/ DonationMoves)
  BY <1>15 DEF ReadSnapshot, Insert, AttachMapping, tables, requests, DonationMoves
<1>16. ASSUME NEW as \in SUBSET Applications,
             Reject(as)
      PROVE  (Reviewing \/ DonationMoves)
  BY <1>16 DEF Reject, tables, requests, DonationMoves
<1>17. ASSUME NEW x \in aftermath,
             LookAtPrice(x)
      PROVE  (Reviewing \/ DonationMoves)
  BY <1>17 DEF LookAtPrice, tables, requests, DonationMoves
<1>18. ASSUME NEW n \in 0..MaxLimit,
             SetLimit(n)
      PROVE  (Reviewing \/ DonationMoves)
  BY <1>18 DEF SetLimit, tables, requests, DonationMoves
<1>19. ASSUME NEW p \in Pairs,
             UpsertPricing(p) \/ CheckPricingUnused(p) \/ DeletePricing(p)
      PROVE  (Reviewing \/ DonationMoves)
  BY <1>19 DEF UpsertPricing, CheckPricingUnused, DeletePricing, tables, requests,
     DonationMoves
<1>20. ASSUME NEW ps \in SUBSET Pairs,
             BatchDeletePricing(ps)
      PROVE  (Reviewing \/ DonationMoves)
  BY <1>20 DEF BatchDeletePricing, DeletePricingBatch, tables, requests, DonationMoves
<1>21. ASSUME NEW d \in Donations, NEW to \in Open,
             ReadForStatus(d, to)
      PROVE  (Reviewing \/ DonationMoves)
  BY <1>21 DEF ReadForStatus, tables, requests, DonationMoves
<1>22. ASSUME NEW t \in toggles,
             CheckPriceForStatus(t) \/ AbandonStatus(t)
      PROVE  (Reviewing \/ DonationMoves)
  BY <1>22 DEF CheckPriceForStatus, AbandonStatus, tables, requests, DonationMoves
<1>23. ASSUME NEW u \in Users, NEW s \in Services,
             CheckNoActive(u, s) \/ AddServiceGeneration(u, s) \/ FailDownload(u,
             s) \/ PurgeGenerations(u, s)
      PROVE  (Reviewing \/ DonationMoves)
  BY <1>23 DEF CheckNoActive, AddServiceGeneration, FailDownload, PurgeGenerations,
     tables, requests, DonationMoves
<1>24. ASSUME NEW u \in Users, NEW s \in Services, NEW confirmed \in BOOLEAN,
             CheckOthers(u, s, confirmed)
      PROVE  (Reviewing \/ DonationMoves)
  BY <1>24 DEF CheckOthers, tables, requests, DonationMoves
<1>25. CASE UNCHANGED vars
  BY <1>25 DEF vars, tables, requests, DonationMoves
<1> QED
  BY <1>1, <1>2, <1>3, <1>4, <1>5, <1>6, <1>7, <1>8, <1>9, <1>10, <1>11, <1>12, <1>13,
     <1>14, <1>15, <1>16, <1>17, <1>18, <1>19, <1>20, <1>21, <1>22, <1>23, <1>24, <1>25 DEF
     Next, Submission, Review, Pricing, Administration, Calling, Downloading, RejectOne,
     RejectBatch, DeleteDonation

-----------------------------------------------------------------------------
(* The invariants *)

\* An application has its row and its mapping after the insert only.
LEMMA NextSubmitted == TypeOK /\ Submitted /\ [Next]_vars => Submitted'
<1> SUFFICES ASSUME TypeOK, Submitted, [Next]_vars, NEW a \in Applications
             PROVE  /\ app'[a].pc \in {"idle", "limited", "ready"} => app'[a].status = "none"
                    /\ app'[a].status = "none" => app'[a].map = 0
                    /\ app'[a].pc \in {"attaching", "unattached"} => app'[a].map = 0
                    /\ app'[a].pc = "done" /\ app'[a].status \in Filed =>
                         app'[a].map = app'[a].snap
                    /\ app'[a].pc # "idle" => app'[a].user \in Users
  BY DEF Submitted
<1>1. Unfiled(a) \/ FiledNow(a) \/ (Kept(a) /\ Outcome(a))
  BY StepApplications DEF ApplicationMoves
<1>2. /\ app[a].pc \in {"idle", "limited", "ready"} => app[a].status = "none"
      /\ app[a].status = "none" => app[a].map = 0
      /\ app[a].pc \in {"attaching", "unattached"} => app[a].map = 0
      /\ app[a].pc = "done" /\ app[a].status \in Filed => app[a].map = app[a].snap
      /\ app[a].pc # "idle" => app[a].user \in Users
  BY DEF Submitted
<1>3. CASE Unfiled(a)
  BY <1>2, <1>3 DEF Unfiled, Filed
<1>4. CASE FiledNow(a)
  BY <1>2, <1>4 DEF FiledNow
<1>5. CASE Kept(a) /\ Outcome(a)
  BY <1>2, <1>5 DEF Kept, Outcome, Filed
<1> QED
  BY <1>1, <1>3, <1>4, <1>5

\* A step keeps the applications that are approved or gone.
LEMMA ApprovedKept ==
  ASSUME TypeOK, Submitted, [Next]_vars, NEW a \in Applications,
         app[a].status \in {"approved", "gone"}
  PROVE  app'[a].status \in {"approved", "gone"}
<1>1. Unfiled(a) \/ FiledNow(a) \/ (Kept(a) /\ Outcome(a))
  BY StepApplications DEF ApplicationMoves
<1>2. app[a].pc \notin {"idle", "limited", "ready"}
  BY DEF Submitted
<1> QED
  BY <1>1, <1>2 DEF Unfiled, FiledNow, Kept, Outcome

\* An approval gives each of its applications a donation that had no origin.
LEMMA ApprovalBirths ==
  ASSUME TypeOK, Submitted, Births, NEW as \in SUBSET Applications,
         NEW new \in [as -> Donations], NEW pair \in [as -> Pairs], Approved(as, new, pair)
  PROVE  Births'
<1>0. \A d \in Donations : donation[d].origin \in Applications \cup {NoApplication}
  BY Tables DEF Donation
<1>1. /\ \A a \in Applications \ as : app'[a] = app[a]
      /\ \A a \in as : app'[a] = [app[a] EXCEPT !.status = "approved"]
  BY ApprovedEffect
<1>2. \A a \in as : app[a].status = "pending" /\ app'[a].status = "approved"
  <2>1. \A a \in as : app[a].status = "pending"
    BY DEF Approved, Approvable, Claimable
  <2>2. ASSUME NEW a \in as PROVE app'[a].status = "approved"
    <3>1. app[a] \in Application
      BY Tables
    <3>2. app'[a] = [app[a] EXCEPT !.status = "approved"]
      BY <1>1
    <3> QED
      BY <3>1, <3>2 DEF Application
  <2> QED
    BY <2>1, <2>2
<1>3. ASSUME NEW a \in as
      PROVE  donation'[new[a]].status = "inactive" /\ donation'[new[a]].origin = a
  <2>1. (CHOOSE x \in as : new[x] = new[a]) = a
    BY DEF Approved
  <2>2. new[a] \in Donations
    OBVIOUS
  <2>3. donation'[new[a]] = [status |-> "inactive", pair |-> pair[a], map |-> app[a].map,
                             source |-> app[a].user, origin |-> a]
    BY <2>1, <2>2 DEF Approved, CopiedMapping
  <2> QED
    BY <2>3
<1>4. \A a \in as : donation[new[a]].status = "unborn"
  BY DEF Approved
<1>5. \A d \in Donations : donation[d].origin \notin as
  BY <1>2, LifecycleAssumption DEF Births, LifecycleAssumption
<1>6. \A d \in Donations : donation'[d] = donation[d] \/ \E a \in as : d = new[a]
  BY DEF Approved
<1>7. ASSUME NEW d \in Donations, donation'[d].status = "unborn"
      PROVE  donation'[d].origin = NoApplication
  <2>1. donation'[d] = donation[d]
    BY <1>3, <1>6, <1>7
  <2> QED
    BY <1>7, <2>1 DEF Births
<1>8. ASSUME NEW d \in Donations, donation'[d].origin # NoApplication
      PROVE  app'[donation'[d].origin].status \in {"approved", "gone"}
  <2>1. CASE donation'[d] = donation[d]
    <3>1. donation[d].origin \in Applications \ as
      BY <1>0, <1>5, <1>8, <2>1
    <3>2. PICK a \in Applications \ as : donation[d].origin = a
      BY <3>1
    <3>3. app[a].status \in {"approved", "gone"}
      BY <1>8, <2>1, <3>2 DEF Births
    <3> QED
      BY <1>1, <2>1, <3>2, <3>3
  <2>2. ASSUME NEW a \in as, d = new[a]
        PROVE  app'[donation'[d].origin].status \in {"approved", "gone"}
    BY <1>2, <1>3, <2>2
  <2> QED
    BY <1>6, <2>1, <2>2
<1>9. ASSUME NEW d \in Donations, NEW e \in Donations, donation'[d].origin # NoApplication,
             donation'[d].origin = donation'[e].origin
      PROVE  d = e
  <2>0. /\ \A x \in Donations : donation'[x].origin \in as => x = new[donation'[x].origin]
        /\ \A x \in Donations : donation'[x].origin \notin as => donation'[x] = donation[x]
    <3> SUFFICES ASSUME NEW x \in Donations
                 PROVE  /\ donation'[x].origin \in as => x = new[donation'[x].origin]
                        /\ donation'[x].origin \notin as => donation'[x] = donation[x]
      OBVIOUS
    <3>1. CASE donation'[x] = donation[x]
      BY <1>5, <3>1
    <3>2. ASSUME NEW a \in as, x = new[a] PROVE donation'[x].origin = a
      BY <1>3, <3>2
    <3> QED
      BY <1>6, <3>1, <3>2
  <2>1. CASE donation'[d].origin \in as
    BY <1>9, <2>0, <2>1
  <2>2. CASE donation'[d].origin \notin as
    <3>1. donation'[d] = donation[d] /\ donation'[e] = donation[e]
      BY <1>9, <2>0, <2>2
    <3> QED
      BY <1>9, <3>1 DEF Births
  <2> QED
    BY <2>1, <2>2
<1>10. ASSUME NEW a \in Applications, app'[a].status = "approved"
       PROVE  \E d \in Donations : donation'[d].origin = a
  <2>1. CASE a \in as
    BY <1>3, <2>1
  <2>2. CASE a \notin as
    <3>1. PICK d \in Donations : donation[d].origin = a
      BY <1>1, <1>10, <2>2 DEF Births
    <3>2. donation[d].status # "unborn"
      BY <3>1, LifecycleAssumption DEF Births, LifecycleAssumption
    <3>3. donation'[d] = donation[d]
      BY <1>4, <1>6, <3>2
    <3> QED
      BY <3>1, <3>3
  <2> QED
    BY <2>1, <2>2
<1> QED
  BY <1>7, <1>8, <1>9, <1>10 DEF Births

\* What SnapshotKept asks of a step for one donation.
Carried(d) ==
  IF donation[d].status = "unborn"
  THEN \A a \in Applications : donation'[d].origin = a =>
         \/ donation'[d].map = app[a].snap
         \/ app[a].pc \in {"attaching", "unattached"} /\ donation'[d].map = 0
  ELSE UNCHANGED <<donation[d].map, donation[d].origin>>

\* An approval gives each donation it makes the mapping of its application.
LEMMA ApprovalCarries ==
  ASSUME TypeOK, Submitted, Births, NEW as \in SUBSET Applications,
         NEW new \in [as -> Donations], NEW pair \in [as -> Pairs], Approved(as, new, pair)
  PROVE  \A d \in Donations : Carried(d)
<1> SUFFICES ASSUME NEW d \in Donations PROVE Carried(d)
  OBVIOUS
<1>1. CASE \A a \in as : new[a] # d
  <2>1. donation'[d] = donation[d]
    BY <1>1 DEF Approved
  <2> QED
    BY <2>1, LifecycleAssumption DEF Births, Carried, LifecycleAssumption
<1>2. ASSUME NEW a \in as, new[a] = d PROVE Carried(d)
  <2>1. (CHOOSE x \in as : new[x] = new[a]) = a
    BY DEF Approved
  <2>2. donation'[d] = [status |-> "inactive", pair |-> pair[a], map |-> app[a].map,
                        source |-> app[a].user, origin |-> a]
    BY <1>2, <2>1 DEF Approved, CopiedMapping
  <2>3. donation'[d].origin = a /\ donation'[d].map = app[a].map
    BY <2>2
  <2>4. donation[d].status = "unborn" /\ app[a].status = "pending"
    BY <1>2 DEF Approved, Approvable, Claimable
  <2>5. app[a].pc \in {"attaching", "unattached", "done"}
    BY <2>4, Tables DEF Submitted, Application
  <2>6. app[a].map = app[a].snap
          \/ (app[a].pc \in {"attaching", "unattached"} /\ app[a].map = 0)
    BY <2>4, <2>5 DEF Submitted, Filed
  <2> QED
    BY <2>3, <2>4, <2>6 DEF Carried
<1> QED
  BY <1>1, <1>2

\* Births is kept: a review gives each application a donation that had none,
\* and nothing else makes or changes an origin.
LEMMA NextBirths == TypeOK /\ Submitted /\ Births /\ [Next]_vars => Births'
<1> SUFFICES ASSUME TypeOK, Submitted, Births, [Next]_vars PROVE Births'
  OBVIOUS
<1>0. \A d \in Donations : donation[d].origin \in Applications \cup {NoApplication}
  BY Tables DEF Donation
<1>1. CASE ~Reviewing
  <2>1. DonationMoves
    BY <1>1, StepDonations
  <2>2. \A d \in Donations : /\ donation'[d].origin = donation[d].origin
                             /\ donation'[d].status = "unborn" => donation[d].status = "unborn"
    BY <2>1 DEF DonationMoves, Births
  <2>3. \A d \in Donations : donation'[d].status = "unborn" => donation'[d].origin = NoApplication
    BY <2>2 DEF Births
  <2>4. ASSUME NEW d \in Donations, donation'[d].origin # NoApplication
        PROVE  app'[donation'[d].origin].status \in {"approved", "gone"}
    <3> DEFINE a == donation[d].origin
    <3>1. a \in Applications /\ donation'[d].origin = a
      BY <1>0, <2>2, <2>4
    <3>2. app[a].status \in {"approved", "gone"}
      BY <2>2, <2>4 DEF Births
    <3> HIDE DEF a
    <3> QED
      BY <3>1, <3>2, ApprovedKept
  <2>5. \A d, e \in Donations :
          donation'[d].origin # NoApplication /\ donation'[d].origin = donation'[e].origin => d = e
    BY <2>2 DEF Births
  <2>6. ASSUME NEW a \in Applications, app'[a].status = "approved"
        PROVE  \E d \in Donations : donation'[d].origin = a
    <3>1. app[a].status = "approved"
      <4>1. Unfiled(a) \/ FiledNow(a) \/ (Kept(a) /\ Outcome(a))
        BY StepApplications DEF ApplicationMoves
      <4> QED
        BY <1>1, <2>6, <4>1 DEF Unfiled, FiledNow, Outcome, Submitted
    <3> QED
      BY <2>2, <3>1 DEF Births
  <2> QED
    BY <2>3, <2>4, <2>5, <2>6 DEF Births
<1>2. ASSUME NEW as \in SUBSET Applications, NEW new \in [as -> Donations],
             NEW pair \in [as -> Pairs], Approved(as, new, pair)
      PROVE  Births'
  BY <1>2, ApprovalBirths
<1> QED
  BY <1>1, <1>2 DEF Reviewing

\* Only the deletion of a user takes a row of users.
LEMMA UsersKept == TypeOK /\ [Next]_vars => (users' = users \/ \E y \in Users : DeleteUser(y))
<1> SUFFICES ASSUME TypeOK, [Next]_vars PROVE (users' = users \/ \E y \in Users : DeleteUser(y))
  OBVIOUS
<1>1. ASSUME NEW u \in Users, DeleteUser(u)
      PROVE  (users' = users \/ \E y \in Users : DeleteUser(y))
  BY <1>1
<1>2. ASSUME NEW a \in Applications, NEW u \in Users, NEW p \in Pairs,
             ReadLimit(a, u, p)
      PROVE  (users' = users \/ \E y \in Users : DeleteUser(y))
  BY <1>2 DEF ReadLimit, tables, requests
<1>3. ASSUME NEW a \in Applications,
             ReadSnapshot(a) \/ Insert(a) \/ AttachMapping(a)
      PROVE  (users' = users \/ \E y \in Users : DeleteUser(y))
  BY <1>3 DEF ReadSnapshot, Insert, AttachMapping, tables, requests
<1>4. ASSUME NEW a \in Applications, NEW d \in Donations, NEW p \in Pairs,
             Approve(a, d, p)
      PROVE  (users' = users \/ \E y \in Users : DeleteUser(y))
  BY <1>4 DEF Approve, tables, requests
<1>5. ASSUME NEW as \in SUBSET Applications, NEW new \in [as -> Donations],
             ApproveBatch(as, new)
      PROVE  (users' = users \/ \E y \in Users : DeleteUser(y))
  BY <1>5 DEF ApproveBatch, tables, requests
<1>6. ASSUME NEW as \in SUBSET Applications,
             Reject(as)
      PROVE  (users' = users \/ \E y \in Users : DeleteUser(y))
  BY <1>6 DEF Reject, tables, requests
<1>7. ASSUME NEW x \in aftermath,
             LookAtPrice(x) \/ Silence(x)
      PROVE  (users' = users \/ \E y \in Users : DeleteUser(y))
  BY <1>7 DEF LookAtPrice, Silence, tables, requests
<1>8. ASSUME NEW n \in 0..MaxLimit,
             SetLimit(n)
      PROVE  (users' = users \/ \E y \in Users : DeleteUser(y))
  BY <1>8 DEF SetLimit, tables, requests
<1>9. ASSUME NEW p \in Pairs,
             UpsertPricing(p) \/ CheckPricingUnused(p) \/ DeletePricing(p)
      PROVE  (users' = users \/ \E y \in Users : DeleteUser(y))
  BY <1>9 DEF UpsertPricing, CheckPricingUnused, DeletePricing, tables, requests
<1>10. ASSUME NEW ps \in SUBSET Pairs,
             BatchDeletePricing(ps)
      PROVE  (users' = users \/ \E y \in Users : DeleteUser(y))
  BY <1>10 DEF BatchDeletePricing, DeletePricingBatch, tables, requests
<1>11. ASSUME NEW d \in Donations, NEW p \in Pairs, NEW src \in users \cup {NoUser},
             CreateDonation(d, p, src)
      PROVE  (users' = users \/ \E y \in Users : DeleteUser(y))
  BY <1>11 DEF CreateDonation, tables, requests
<1>12. ASSUME NEW d \in Donations, NEW p \in Pairs, NEW to \in Open,
             PatchDonation(d, p, to)
      PROVE  (users' = users \/ \E y \in Users : DeleteUser(y))
  BY <1>12 DEF PatchDonation, tables, requests
<1>13. ASSUME NEW ds \in SUBSET Donations, NEW to \in Open,
             BatchSetStatus(ds, to)
      PROVE  (users' = users \/ \E y \in Users : DeleteUser(y))
  BY <1>13 DEF BatchSetStatus, tables, requests
<1>14. ASSUME NEW d \in Donations, NEW to \in Open,
             ReadForStatus(d, to)
      PROVE  (users' = users \/ \E y \in Users : DeleteUser(y))
  BY <1>14 DEF ReadForStatus, tables, requests
<1>15. ASSUME NEW t \in toggles,
             CheckPriceForStatus(t) \/ AbandonStatus(t) \/ WriteStatus(t)
      PROVE  (users' = users \/ \E y \in Users : DeleteUser(y))
  BY <1>15 DEF CheckPriceForStatus, AbandonStatus, WriteStatus, tables, requests
<1>16. ASSUME NEW ds \in SUBSET Donations,
             Expire(ds) \/ DeleteDonations(ds)
      PROVE  (users' = users \/ \E y \in Users : DeleteUser(y))
  BY <1>16 DEF Expire, DeleteDonations, tables, requests
<1>17. ASSUME NEW d \in Donations, NEW last \in BOOLEAN,
             TakeUse(d, last)
      PROVE  (users' = users \/ \E y \in Users : DeleteUser(y))
  BY <1>17 DEF TakeUse, tables, requests
<1>18. ASSUME NEW d \in Donations, NEW refund \in BOOLEAN, NEW late \in BOOLEAN,
             EndUse(d, refund, late)
      PROVE  (users' = users \/ \E y \in Users : DeleteUser(y))
  BY <1>18 DEF EndUse, tables, requests
<1>19. ASSUME NEW u \in Users, NEW s \in Services,
             CheckNoActive(u, s) \/ Invalidate(u, s) \/ AddServiceGeneration(u, s)
             \/ FailDownload(u, s) \/ PurgeGenerations(u, s)
      PROVE  (users' = users \/ \E y \in Users : DeleteUser(y))
  BY <1>19 DEF CheckNoActive, Invalidate, AddServiceGeneration, FailDownload,
     PurgeGenerations, tables, requests
<1>20. ASSUME NEW u \in Users, NEW s \in Services, NEW confirmed \in BOOLEAN,
             CheckOthers(u, s, confirmed)
      PROVE  (users' = users \/ \E y \in Users : DeleteUser(y))
  BY <1>20 DEF CheckOthers, tables, requests
<1>21. CASE UNCHANGED vars
  BY <1>21 DEF vars, tables, requests
<1> QED
  BY <1>1, <1>2, <1>3, <1>4, <1>5, <1>6, <1>7, <1>8, <1>9, <1>10, <1>11, <1>12, <1>13,
     <1>14, <1>15, <1>16, <1>17, <1>18, <1>19, <1>20, <1>21 DEF Next, Submission, Review,
     Pricing, Administration, Calling, Downloading, RejectOne, RejectBatch, DeleteDonation

\* A pending application keeps its applicant: its user has a row when it is
\* filed, and takes the application along when the row goes.
LEMMA NextApplicantExists ==
  TypeOK /\ Submitted /\ ApplicantExists /\ [Next]_vars => ApplicantExists'
<1> SUFFICES ASSUME TypeOK, Submitted, ApplicantExists, [Next]_vars, NEW a \in Applications,
                    app'[a].status = "pending"
             PROVE  app'[a].user \in users'
  BY DEF ApplicantExists
<1>1. Unfiled(a) \/ FiledNow(a) \/ (Kept(a) /\ Outcome(a))
  BY StepApplications DEF ApplicationMoves
<1>2. CASE FiledNow(a)
  BY <1>2 DEF FiledNow, Insert
<1>3. CASE ~FiledNow(a)
  <2>1. app[a].status = "pending" /\ app'[a].user = app[a].user
    BY <1>1, <1>3 DEF Unfiled, Submitted, Kept, Outcome
  <2>2. app[a].user \in users
    BY <2>1 DEF ApplicantExists
  <2>3. CASE users' = users
    BY <2>1, <2>2, <2>3
  <2>4. ASSUME NEW y \in Users, DeleteUser(y) PROVE app[a].user \in users'
    <3>1. users' = users \ {y} /\ app'[a] = WithoutApplications(y, a)
      BY <2>4, Tables DEF DeleteUser
    <3>2. app[a] \in Application
      BY Tables
    <3>3. app[a].user # y
      BY <2>1, <3>1, <3>2 DEF WithoutApplications, Filed, Application
    <3> QED
      BY <2>2, <3>1, <3>3
  <2> QED
    BY <2>1, <2>3, <2>4, UsersKept
<1> QED
  BY <1>2, <1>3

\* The pending applications of a user grow by the one that is being inserted
\* only, and then they were fewer than the limit its handler had read.
LEMMA NextLimitsRespected ==
  TypeOK /\ Submitted /\ LimitsRespected /\ [Next]_vars => LimitsRespected'
<1> SUFFICES ASSUME TypeOK, Submitted, LimitsRespected, [Next]_vars, NEW y \in Users,
                    NEW as \in SUBSET (PendingOf(y)'), as # {}
             PROVE  \E a \in as : Cardinality(as) <= app'[a].cap
  BY DEF LimitsRespected
<1>1. \A a \in as : a \in Applications /\ app'[a].user = y /\ app'[a].status = "pending"
  BY DEF PendingOf
<1>2. ASSUME NEW a \in as, ~FiledNow(a)
      PROVE  a \in PendingOf(y) /\ app'[a].cap = app[a].cap
  <2>1. Unfiled(a) \/ (Kept(a) /\ Outcome(a))
    BY <1>1, <1>2, StepApplications DEF ApplicationMoves
  <2>2. app[a].pc \in {"idle", "limited", "ready"} => app[a].status = "none"
    BY <1>1 DEF Submitted
  <2> QED
    BY <1>1, <2>1, <2>2 DEF Unfiled, Kept, Outcome, PendingOf
<1>3. CASE \A a \in as : ~FiledNow(a)
  <2>1. as \in SUBSET PendingOf(y)
    BY <1>2, <1>3
  <2>2. PICK a \in as : Cardinality(as) <= app[a].cap
    BY <2>1 DEF LimitsRespected
  <2> QED
    BY <1>2, <1>3, <2>2
<1>4. ASSUME NEW b \in as, FiledNow(b) PROVE Cardinality(as) <= app'[b].cap
  <2>1. app[b].user = y /\ app'[b].cap = app[b].cap
    BY <1>1, <1>4 DEF FiledNow
  <2>2. \A a \in Applications \ {b} : app'[a] = app[a]
    BY <1>1, <1>4, Tables DEF FiledNow, Insert
  <2>3. as \subseteq PendingOf(y) \cup {b}
    BY <1>1, <2>2 DEF PendingOf
  <2>4. IsFiniteSet(PendingOf(y)) /\ Cardinality(PendingOf(y)) \in Nat
    <3>1. PendingOf(y) \subseteq Applications /\ IsFiniteSet(Applications)
      BY LifecycleAssumption DEF PendingOf, LifecycleAssumption
    <3>2. IsFiniteSet(PendingOf(y))
      BY <3>1, FS_Subset
    <3> QED
      BY <3>2, FS_CardinalityType
  <2>5. /\ IsFiniteSet(PendingOf(y) \cup {b})
        /\ Cardinality(PendingOf(y) \cup {b}) <= Cardinality(PendingOf(y)) + 1
    BY <2>4, FS_AddElement
  <2>6. IsFiniteSet(as) /\ Cardinality(as) <= Cardinality(PendingOf(y) \cup {b})
    BY <2>3, <2>5, FS_Subset
  <2>7. Cardinality(as) \in Nat /\ Cardinality(PendingOf(y) \cup {b}) \in Nat
    BY <2>5, <2>6, FS_CardinalityType
  <2>8. Cardinality(PendingOf(y)) < app[b].cap /\ app[b].cap \in Nat
    <3>1. app[b].cap \in 0..MaxLimit /\ MaxLimit \in Nat
      BY <1>1, Tables, LifecycleAssumption DEF Application, LifecycleAssumption
    <3>2. Cardinality(PendingOf(y)) < app[b].cap
      BY <1>4, <2>1 DEF FiledNow, UnderLimit
    <3> QED
      BY <3>1, <3>2
  <2>9. \A k, m, n, c \in Nat : k <= m /\ m <= n + 1 /\ n < c => k <= c
    OBVIOUS
  <2>10. Cardinality(as) <= app[b].cap
    BY <2>4, <2>5, <2>6, <2>7, <2>8, <2>9
  <2> QED
    BY <2>1, <2>10
<1> QED
  BY <1>3, <1>4

\* The invariant holds at the start: nothing is filed, nothing is born.
LEMMA InitIInv == Init => IInv
<1> SUFFICES ASSUME Init PROVE IInv
  OBVIOUS
<1>0. /\ MaxLimit \in Nat /\ MaxGenerations \in Nat /\ IsFiniteSet(Applications)
      /\ 0 \in 0..MaxLimit /\ 0 \in Generations
  BY LifecycleAssumption DEF LifecycleAssumption, Generations
<1>1. PICK p \in Pairs :
        /\ app = [a \in Applications |->
                    [pc |-> "idle", status |-> "none", user |-> NoUser, pair |-> p,
                     map |-> 0, cap |-> 0, snap |-> 0]]
        /\ donation = [d \in Donations |->
                         [status |-> "unborn", pair |-> p, map |-> 0, source |-> NoUser,
                          origin |-> NoApplication]]
  BY DEF Init
<1>2. TypeOK
  <2>1. app \in [Applications -> Application] /\ donation \in [Donations -> Donation]
    BY <1>0, <1>1 DEF Application, Donation
  <2> QED
    BY <1>0, <2>1 DEF Init, TypeOK
<1>3. Submitted
  BY <1>1 DEF Submitted
<1>4. Births
  BY <1>1 DEF Births
<1>5. ApplicantExists
  BY <1>1 DEF ApplicantExists
<1>6. LimitsRespected
  <2>1. \A y \in Users : PendingOf(y) = {}
    BY <1>1 DEF PendingOf
  <2> QED
    BY <2>1 DEF LimitsRespected
<1> QED
  BY <1>2, <1>3, <1>4, <1>5, <1>6 DEF IInv

\* The invariant is inductive.
LEMMA NextIInv == IInv /\ [Next]_vars => IInv'
BY NextTypeOK, NextSubmitted, NextBirths, NextLimitsRespected, NextApplicantExists DEF IInv

\* The invariant holds in every state.
LEMMA Inductive == Spec => []IInv
BY InitIInv, NextIInv, PTL DEF Spec

-----------------------------------------------------------------------------
(* Who activates a donation *)

Activation(e) ==
  donation[e].status # "active" /\ donation'[e].status = "active" =>
    \/ donation'[e].pair \in priced
    \/ \E t \in toggles : t.donation = e /\ t.to = "active" /\ t.gated
    \/ e \in exhausted /\ e \in busy

Activations == \A e \in Donations : Activation(e)

\* A step that gives donations other statuses than "active" activates none.
LEMMA NoActivation ==
  ASSUME TypeOK,
         \A e \in Donations :
           \/ donation'[e].status = donation[e].status
           \/ donation'[e].status \in {"inactive", "expired", "deleted"}
  PROVE  Activations
BY DEF Activations, Activation

\* A donation becomes active through a gate that has seen a price, or by the refund of
\* its last use.
LEMMA StepActivations == TypeOK /\ [Next]_vars => Activations
<1> SUFFICES ASSUME TypeOK, [Next]_vars PROVE Activations
  OBVIOUS
<1>1. ASSUME NEW a \in Applications, NEW d \in Donations, NEW p \in Pairs, Approve(a, d, p)
      PROVE  Activations
  <2>1. Approved({a}, [x \in {a} |-> d], [x \in {a} |-> p])
    BY <1>1 DEF Approve
  <2>2. \A e \in Donations : \/ donation'[e] = donation[e]
                            \/ donation'[e].status = "inactive"
    BY <2>1 DEF Approved
  <2> QED
    BY <2>2, NoActivation
<1>2. ASSUME NEW as \in SUBSET Applications, NEW new \in [as -> Donations],
             ApproveBatch(as, new)
      PROVE  Activations
  <2>1. Approved(as, new, [a \in as |-> app[a].pair])
    BY <1>2 DEF ApproveBatch
  <2>2. \A e \in Donations : \/ donation'[e] = donation[e]
                            \/ donation'[e].status = "inactive"
    BY <2>1 DEF Approved
  <2> QED
    BY <2>2, NoActivation
<1>3. ASSUME NEW x \in aftermath, Silence(x) PROVE Activations
  <2>1. x.donation \in Donations
    BY DEF TypeOK
  <2>2. \A e \in Donations :
          \/ donation'[e].status = donation[e].status
          \/ donation'[e].status \in {"inactive", "expired", "deleted"}
    BY <1>3, <2>1, Tables DEF Silence, Donation
  <2> QED
    BY <2>2, NoActivation
<1>4. ASSUME NEW d \in Donations, NEW p \in Pairs, NEW src \in users \cup {NoUser},
             CreateDonation(d, p, src)
      PROVE  Activations
  <2>1. \A e \in Donations :
          \/ donation'[e].status = donation[e].status
          \/ donation'[e].status \in {"inactive", "expired", "deleted"}
    BY <1>4, Tables DEF CreateDonation, Donation
  <2> QED
    BY <2>1, NoActivation
<1>5. ASSUME NEW d \in Donations, NEW p \in Pairs, NEW to \in Open, PatchDonation(d, p, to)
      PROVE  Activations
  <2>1. \A e \in Donations : e # d => donation'[e] = donation[e]
    BY <1>5, Tables DEF PatchDonation
  <2>2. donation'[d].pair = p /\ donation'[d].status = to
    BY <1>5, Tables DEF PatchDonation, Donation
  <2>3. (donation[d].status # "active" /\ to = "active") => p \in priced
    BY <1>5 DEF PatchDonation, Gate
  <2> QED
    BY <2>1, <2>2, <2>3 DEF Activations, Activation
<1>6. ASSUME NEW ds \in SUBSET Donations, NEW to \in Open, BatchSetStatus(ds, to)
      PROVE  Activations
  <2>1. \A e \in Donations \ ds : donation'[e] = donation[e]
    BY <1>6, Tables DEF BatchSetStatus
  <2>2. \A e \in ds : donation'[e].pair = donation[e].pair /\ donation'[e].status = to
    BY <1>6, Tables DEF BatchSetStatus, Donation
  <2>3. \A e \in ds : to = "active" => donation[e].pair \in priced
    BY <1>6 DEF BatchSetStatus, Gate
  <2> QED
    BY <2>1, <2>2, <2>3 DEF Activations, Activation
<1>7. ASSUME NEW t \in toggles, WriteStatus(t) PROVE Activations
  <2>1. \A e \in Donations : e # t.donation => donation'[e] = donation[e]
    BY <1>7, Tables DEF WriteStatus
  <2>2. t \in toggles /\ t.gated
    BY <1>7 DEF WriteStatus
  <2>3. \/ donation'[t.donation].status = donation[t.donation].status
        \/ donation'[t.donation].status = t.to
    <3>1. t.donation \in Donations
      BY DEF TypeOK
    <3> QED
      BY <1>7, <3>1, Tables DEF WriteStatus, Donation
  <2> QED
    BY <2>1, <2>2, <2>3 DEF Activations, Activation
<1>8. ASSUME NEW ds \in SUBSET Donations, Expire(ds) PROVE Activations
  <2>1. \A e \in Donations :
          \/ donation'[e].status = donation[e].status
          \/ donation'[e].status \in {"inactive", "expired", "deleted"}
    BY <1>8, Tables DEF Expire, Donation
  <2> QED
    BY <2>1, NoActivation
<1>9. ASSUME NEW ds \in SUBSET Donations, DeleteDonations(ds) PROVE Activations
  <2>1. \A e \in Donations :
          \/ donation'[e].status = donation[e].status
          \/ donation'[e].status \in {"inactive", "expired", "deleted"}
    BY <1>9, Tables DEF DeleteDonations, Donation
  <2> QED
    BY <2>1, NoActivation
<1>10. ASSUME NEW d \in Donations, NEW last \in BOOLEAN, TakeUse(d, last) PROVE Activations
  <2>1. \A e \in Donations :
          \/ donation'[e].status = donation[e].status
          \/ donation'[e].status \in {"inactive", "expired", "deleted"}
    BY <1>10, Tables DEF TakeUse, Donation
  <2> QED
    BY <2>1, NoActivation
<1>11. ASSUME NEW d \in Donations, NEW refund \in BOOLEAN, NEW late \in BOOLEAN,
             EndUse(d, refund, late)
      PROVE  Activations
  <2>1. \A e \in Donations : e # d => donation'[e] = donation[e]
    BY <1>11, Tables DEF EndUse
  <2>2. donation'[d].status = donation[d].status \/ (d \in exhausted /\ d \in busy)
    BY <1>11, Tables DEF EndUse, Donation
  <2> QED
    BY <2>1, <2>2 DEF Activations, Activation
<1>12. ASSUME NEW u \in Users, NEW s \in Services, Invalidate(u, s) PROVE Activations
  <2>1. \A e \in Donations :
          \/ donation'[e].status = donation[e].status
          \/ donation'[e].status \in {"inactive", "expired", "deleted"}
    BY <1>12, Tables DEF Invalidate, Donation
  <2> QED
    BY <2>1, NoActivation
<1>13. ASSUME NEW u \in Users, DeleteUser(u) PROVE Activations
  <2>1. \A e \in Donations :
          \/ donation'[e].status = donation[e].status
          \/ donation'[e].status \in {"inactive", "expired", "deleted"}
    BY <1>13, Tables DEF DeleteUser, Donation
  <2> QED
    BY <2>1, NoActivation
<1>14. ASSUME NEW a \in Applications, NEW u \in Users, NEW p \in Pairs,
             ReadLimit(a, u, p)
      PROVE  Activations
  BY <1>14 DEF ReadLimit, tables, requests, Activations, Activation
<1>15. ASSUME NEW a \in Applications,
             ReadSnapshot(a) \/ Insert(a) \/ AttachMapping(a)
      PROVE  Activations
  BY <1>15 DEF ReadSnapshot, Insert, AttachMapping, tables, requests, Activations,
     Activation
<1>16. ASSUME NEW as \in SUBSET Applications,
             Reject(as)
      PROVE  Activations
  BY <1>16 DEF Reject, tables, requests, Activations, Activation
<1>17. ASSUME NEW x \in aftermath,
             LookAtPrice(x)
      PROVE  Activations
  BY <1>17 DEF LookAtPrice, tables, requests, Activations, Activation
<1>18. ASSUME NEW n \in 0..MaxLimit,
             SetLimit(n)
      PROVE  Activations
  BY <1>18 DEF SetLimit, tables, requests, Activations, Activation
<1>19. ASSUME NEW p \in Pairs,
             UpsertPricing(p) \/ CheckPricingUnused(p) \/ DeletePricing(p)
      PROVE  Activations
  BY <1>19 DEF UpsertPricing, CheckPricingUnused, DeletePricing, tables, requests,
     Activations, Activation
<1>20. ASSUME NEW ps \in SUBSET Pairs,
             BatchDeletePricing(ps)
      PROVE  Activations
  BY <1>20 DEF BatchDeletePricing, DeletePricingBatch, tables, requests, Activations,
     Activation
<1>21. ASSUME NEW d \in Donations, NEW to \in Open,
             ReadForStatus(d, to)
      PROVE  Activations
  BY <1>21 DEF ReadForStatus, tables, requests, Activations, Activation
<1>22. ASSUME NEW t \in toggles,
             CheckPriceForStatus(t) \/ AbandonStatus(t)
      PROVE  Activations
  BY <1>22 DEF CheckPriceForStatus, AbandonStatus, tables, requests, Activations,
     Activation
<1>23. ASSUME NEW u \in Users, NEW s \in Services,
             CheckNoActive(u, s) \/ AddServiceGeneration(u, s) \/ FailDownload(u,
             s) \/ PurgeGenerations(u, s)
      PROVE  Activations
  BY <1>23 DEF CheckNoActive, AddServiceGeneration, FailDownload, PurgeGenerations,
     tables, requests, Activations, Activation
<1>24. ASSUME NEW u \in Users, NEW s \in Services, NEW confirmed \in BOOLEAN,
             CheckOthers(u, s, confirmed)
      PROVE  Activations
  BY <1>24 DEF CheckOthers, tables, requests, Activations, Activation
<1>25. CASE UNCHANGED vars
  BY <1>25 DEF vars, tables, requests, Activations, Activation
<1> QED
  BY <1>1, <1>2, <1>3, <1>4, <1>5, <1>6, <1>7, <1>8, <1>9, <1>10, <1>11, <1>12, <1>13,
     <1>14, <1>15, <1>16, <1>17, <1>18, <1>19, <1>20, <1>21, <1>22, <1>23, <1>24, <1>25 DEF
     Next, Submission, Review, Pricing, Administration, Calling, Downloading, RejectOne,
     RejectBatch, DeleteDonation

-----------------------------------------------------------------------------
(* The theorems *)

\* The tables and the requests in progress keep their types.
THEOREM TypeCorrect == Spec => []TypeOK
BY Inductive, PTL DEF IInv

\* However many reviewers decide the same applications, alone or in batches,
\* an approved application has become exactly one donation, and one that is
\* not approved none (ApproveDonationApplication, db/donations.go).
THEOREM OneDonationEach == Spec => []ApprovedOnce
<1>1. IInv => ApprovedOnce
  <2> SUFFICES ASSUME IInv, NEW a \in Applications
               PROVE  LET born == {d \in Donations : donation[d].origin = a} IN
                      /\ Cardinality(born) <= 1
                      /\ app[a].status = "approved" => born # {}
                      /\ app[a].status \in {"none", "pending", "rejected", "invalidated"}
                           => born = {}
    BY DEF ApprovedOnce
  <2> DEFINE born == {d \in Donations : donation[d].origin = a}
  <2>0. Births /\ a # NoApplication
    BY LifecycleAssumption DEF IInv, LifecycleAssumption
  <2>1. Cardinality(born) <= 1
    <3>1. CASE born = {}
      BY <3>1, FS_EmptySet
    <3>2. ASSUME NEW d \in born PROVE Cardinality(born) <= 1
      <4>1. born = {d}
        BY <2>0, <3>2 DEF Births
      <4>2. Cardinality({d}) = 1
        BY FS_Singleton
      <4> HIDE DEF born
      <4>3. Cardinality(born) = 1
        BY <4>1, <4>2
      <4> QED
        BY <4>3
    <3> QED
      BY <3>1, <3>2
  <2>2. app[a].status = "approved" => born # {}
    BY <2>0 DEF Births
  <2>3. app[a].status \in {"none", "pending", "rejected", "invalidated"} => born = {}
    BY <2>0 DEF Births
  <2> QED
    BY <2>1, <2>2, <2>3
<1> QED
  BY <1>1, Inductive, PTL

\* Concurrent submissions of one user never pass the highest limit that one of those
\* still pending has read, though each reads the limit before it counts
\* (CreateDonationApplicationWithLimit).
THEOREM PendingStaysBounded == Spec => []PendingBounded
<1>1. IInv => PendingBounded
  BY DEF IInv, LimitsRespected, PendingBounded
<1> QED
  BY <1>1, Inductive, PTL

\* No application waits for a review that its missing applicant would refuse.
THEOREM ApplicantsExist == Spec => []ApplicantExists
BY Inductive, PTL DEF IInv

\* A donation made from an application is born with exactly the mapping that the
\* submitting handler read, unless it is approved before that mapping is stored or
\* after storing it failed, and keeps it whatever is downloaded, attached late or
\* lost since (handleCreateDonationApp, ApproveDonationApplication).
THEOREM SnapshotsKept == Spec => SnapshotKept
<1>1. ASSUME IInv, [Next]_vars, NEW d \in Donations PROVE Carried(d)
  <2>0. TypeOK /\ Submitted /\ Births
    BY <1>1 DEF IInv
  <2>1. CASE DonationMoves
    BY <2>0, <2>1, LifecycleAssumption DEF DonationMoves, Births, Carried,
       LifecycleAssumption
  <2>2. CASE ~DonationMoves
    BY <1>1, <2>0, <2>2, StepDonations, ApprovalCarries DEF Reviewing
  <2> QED
    BY <2>1, <2>2
<1>2. IInv /\ [Next]_vars => [\A d \in Donations : Carried(d)]_vars
  BY <1>1
<1>3. Spec => [][\A d \in Donations : Carried(d)]_vars
  BY <1>2, Inductive, PTL DEF Spec
<1> QED
  BY <1>3 DEF SnapshotKept, Carried

\* Once decided, an application stays so until its user goes.
THEOREM OutcomesFinal == Spec => OutcomeFinal
<1>1. IInv /\ [Next]_vars =>
        [\A a \in Applications :
           app[a].status \in Filed \ {"pending"} => app'[a].status \in {app[a].status, "gone"}]_vars
  <2> SUFFICES ASSUME IInv, [Next]_vars, NEW a \in Applications,
                      app[a].status \in Filed \ {"pending"}
               PROVE  app'[a].status \in {app[a].status, "gone"}
    OBVIOUS
  <2>1. Unfiled(a) \/ FiledNow(a) \/ (Kept(a) /\ Outcome(a))
    BY StepApplications DEF ApplicationMoves, IInv
  <2>2. Submitted
    BY DEF IInv
  <2> QED
    BY <2>1, <2>2 DEF Unfiled, FiledNow, Outcome, Submitted, Filed
<1> QED
  BY <1>1, Inductive, PTL DEF Spec, OutcomeFinal

\* No donation serves without its pair having been priced when it was made
\* active: edits and batches look in the same transaction, the status endpoint
\* before it writes, and only a refund needs no price.
THEOREM ActivationsGated == Spec => ActivationGated
<1>1. IInv /\ [Next]_vars =>
        [\A d \in Donations :
           donation[d].status # "active" /\ donation'[d].status = "active" =>
             \/ donation'[d].pair \in priced
             \/ \E t \in toggles : t.donation = d /\ t.to = "active" /\ t.gated
             \/ d \in exhausted /\ d \in busy]_vars
  BY StepActivations DEF IInv, Activations, Activation
<1> QED
  BY <1>1, Inductive, PTL DEF Spec, ActivationGated

=============================================================================

--------------------------- MODULE AdmissionProofs ---------------------------
(***************************************************************************)
(* Proofs about Admission, for any number of slots, any donations and      *)
(* limits, any length of the windows and any bound on the clock.           *)
(***************************************************************************)
EXTENDS Admission, Sums, FiniteSetTheorems, TLAPS

-----------------------------------------------------------------------------
(* The inductive invariant *)

\* The window of length Window that ends at t, as a set of times and as a sum.
InSpan(u, t) == t - Window < u /\ u <= t
Mask(h, t) == [u \in Times |-> IF InSpan(u, t) THEN h[u] ELSE 0]
Count(h, t) == Sum(Mask(h, t), Times)

\* A request carries a limit of every class to the gate.
CarriesLimits ==
  \A s \in Slots : slot[s].pc \in {"half", "read", "limited"} => slot[s].limits \in LimitValues

\* A request started before now.
Started == \A s \in Slots : slot[s].start <= now

\* A request holds at most one lease.
OneLease ==
  \A s \in Slots : \/ slot[s].lease = {}
                   \/ \E d \in Donations, t \in Times : slot[s].lease = {<<d, t>>}

\* The leases of d taken at t that may still become calls; with those that did.
Holders(d, t) == {s \in Slots : <<d, t>> \in slot[s].lease}
Claims(d) == [t \in Times |-> kept[d][t] + Cardinality(Holders(d, t))]

\* Every claim of the window is in the records, ...
ClaimsRecorded ==
  \A d \in Donations, t \in Times : t > now - Window => Claims(d)[t] <= leases[d][t]

\* ... and no window has more claims than its donation allows.
ClaimsBounded ==
  \A d \in Donations, t \in Times : Count(Claims(d), t) <= DonationLimit[d]

\* Requests that have passed the gate and will record a hit of class c.
Past(c) ==
  {"counted", "picking", "leased", "ready", "sent"} \cup (IF c = "A" THEN {"succeeded"} ELSE {})
Passed(c) == {s \in Slots : slot[s].pc \in Past(c)}

\* The records of class c in the window that ends at t are complete.
Accurate(c, t) == \A u \in Times : InSpan(u, t) => hits[c][u] = made[c][u]

\* One limit, and every request of the cap on top of it but one.
OneOverrun == Highest + (Cardinality(Slots) - 1)

\* Successes and transfers are recorded at the time they happen, so a window
\* that is not over yet is complete, and no request passes a full one.
Answers(c, t) ==
  /\ Count(made[c], t) <= OneOverrun
  /\ now <= t => Accurate(c, t) /\ Count(made[c], t) + Cardinality(Passed(c)) <= OneOverrun

\* Both classes, in every window.
AnswersBounded == \A c \in {"A", "B"}, t \in Times : Answers(c, t)

\* Requests of the window that ends at t that have not recorded their arrival,
\* and those of them that have passed the gate.
Early == {"arrived", "known", "missed", "half", "read", "limited", "counted"}
Awaited(t) == {s \in Slots : slot[s].pc \in Early /\ InSpan(slot[s].start, t)}
Counted(t) == {s \in Slots : slot[s].pc = "counted" /\ InSpan(slot[s].start, t)}

\* Arrivals are recorded at the time they started: until a later request prunes
\* the window none passes it when it is full; then only those that are there
\* may still pass.
Complete(t) ==
  /\ Accurate("C", t)
  /\ Count(made["C"], t) + Cardinality(Counted(t)) <= OneOverrun
Closed(t) ==
  /\ now > t
  /\ Count(made["C"], t) + Cardinality(Awaited(t)) <= OneOverrun + (Cardinality(Slots) - 1)

\* Class C, in every window.
ReceivedBounded == \A t \in Times : Complete(t) \/ Closed(t)

-----------------------------------------------------------------------------
(* Windows *)

\* The times are finitely many.
LEMMA TimesFinite == IsFiniteSet(Times) /\ Times \subseteq Nat
BY AdmissionAssumption, FS_Interval DEF AdmissionAssumption, Times

\* The total of a window is a sum, ...
LEMMA TotalIsSum ==
  ASSUME NEW h, DOMAIN h = Times
  PROVE  Total(h) = Sum(h, Times)
<1>1. Total(h) = FoldFunctionOnSet(+, 0, h, Times)
  BY DEF Total, FoldFunction
<1> QED
  BY <1>1, SumIsFold

\* ... and so is what the properties bound.
LEMMA WindowIsCount ==
  ASSUME NEW h \in [Times -> Nat], NEW t
  PROVE  InWindow(h, t) = Count(h, t)
<1> DEFINE W == {u \in Times : t - Window < u /\ u <= t}
           g == Mask(h, t)
           B == {s \in SUBSET Times : Sum(g, s) = Sum(h, s \cap W)}
<1>1. /\ \A u \in Times : h[u] \in Int /\ g[u] \in Int
      /\ \A u \in Times : g[u] = IF u \in W THEN h[u] ELSE 0
  BY DEF Mask, InSpan
<1>2. ASSUME NEW s \in SUBSET Times, \A r \in SUBSET Times : r \subseteq s /\ r # s => r \in B
      PROVE  s \in B
  <2>1. IsFiniteSet(s)
    BY TimesFinite, FS_Subset
  <2>2. CASE s = {}
    <3>1. s \cap W = {}
      BY <2>2
    <3> QED
      BY <2>2, <3>1, SumEmpty
  <2>3. CASE s # {}
    <3> DEFINE x == Chosen(s)
               r == s \ {x}
    <3>1. x \in s /\ x \in Times /\ r \subseteq s /\ r # s /\ x \notin r
      BY <2>3, ChosenFromSet
    <3>2. Sum(g, r) = Sum(h, r \cap W)
      BY <1>2, <3>1
    <3>3. IsFiniteSet(r) /\ IsFiniteSet(r \cap W)
      BY <2>1, FS_Subset
    <3>4. /\ \A y \in s : g[y] \in Int
          /\ \A y \in r : g[y] \in Int
          /\ \A y \in (r \cap W) \cup {x} : h[y] \in Int
      BY <1>1, <3>1
    <3> HIDE DEF x, r, g
    <3>5. Sum(g, s) = g[x] + Sum(g, r)
      BY <2>1, <3>1, <3>4, SumRemove DEF r
    <3>6. Sum(g, r) \in Int
      BY <3>3, <3>4, SumType
    <3>7. CASE x \in W
      <4>1. s \cap W = (r \cap W) \cup {x} /\ x \notin r \cap W
        BY <3>1, <3>7 DEF r
      <4>2. Sum(h, (r \cap W) \cup {x}) = h[x] + Sum(h, r \cap W)
        BY <3>3, <3>4, <4>1, SumAdd
      <4> QED
        BY <1>1, <3>1, <3>2, <3>5, <3>7, <4>1, <4>2
    <3>8. CASE x \notin W
      <4>1. s \cap W = r \cap W
        BY <3>1, <3>8 DEF r
      <4>2. g[x] = 0
        BY <1>1, <3>1, <3>8
      <4> QED
        BY <3>2, <3>5, <3>6, <4>1, <4>2
    <3> QED
      BY <3>7, <3>8
  <2> QED
    BY <2>2, <2>3
<1>3. Times \in B
  <2> HIDE DEF B
  <2>1. \A s \in SUBSET Times : s \in B
    BY <1>2, TimesFinite, SubsetInduction
  <2> QED
    BY <2>1
<1>4. Times \cap W = W
  OBVIOUS
<1>5. InWindow(h, t) = Sum(h, W)
  BY SumIsFold DEF InWindow
<1> HIDE DEF W
<1> QED
  BY <1>3, <1>4, <1>5 DEF Count

\* The count of a window is a number.
LEMMA CountType ==
  ASSUME NEW h \in [Times -> Nat], NEW t
  PROVE  Count(h, t) \in Nat
<1>1. \A u \in Times : Mask(h, t)[u] \in Nat
  BY DEF Mask
<1> QED
  BY <1>1, TimesFinite, SumNatural DEF Count

\* Only the window counts.
LEMMA CountEqual ==
  ASSUME NEW h, NEW k, NEW t, \A u \in Times : InSpan(u, t) => h[u] = k[u]
  PROVE  Count(h, t) = Count(k, t)
<1>1. \A u \in Times : Mask(h, t)[u] = Mask(k, t)[u]
  BY DEF Mask
<1> QED
  BY <1>1, TimesFinite, SumEqual DEF Count

\* More in every second is more in the window.
LEMMA CountMonotonic ==
  ASSUME NEW h \in [Times -> Nat], NEW k \in [Times -> Nat], NEW t,
         \A u \in Times : InSpan(u, t) => h[u] <= k[u]
  PROVE  Count(h, t) <= Count(k, t)
<1>1. \A u \in Times : /\ Mask(h, t)[u] \in Int /\ Mask(k, t)[u] \in Int
                       /\ Mask(h, t)[u] <= Mask(k, t)[u]
  BY DEF Mask
<1> QED
  BY <1>1, TimesFinite, SumMonotonic DEF Count

\* What a window holds is seen by whoever looks at all since an earlier time.
LEMMA CountSeen ==
  ASSUME NEW h \in [Times -> Nat], NEW t \in Int, NEW at \in Int, at <= t
  PROVE  Count(h, t) <= Total(Recent(h, at)) /\ Total(Recent(h, at)) \in Nat
<1>1. Window \in Int /\ Times \subseteq Int
  BY AdmissionAssumption DEF AdmissionAssumption, Times
<1>2. \A u \in Times : /\ Mask(h, t)[u] \in Int /\ Recent(h, at)[u] \in Nat
                       /\ Mask(h, t)[u] <= Recent(h, at)[u]
  <2> SUFFICES ASSUME NEW u \in Times
               PROVE  /\ Mask(h, t)[u] \in Int /\ Recent(h, at)[u] \in Nat
                      /\ Mask(h, t)[u] <= Recent(h, at)[u]
    OBVIOUS
  <2>1. Mask(h, t)[u] = IF t - Window < u /\ u <= t THEN h[u] ELSE 0
    BY DEF Mask, InSpan
  <2>2. Recent(h, at)[u] = IF u > at - Window THEN h[u] ELSE 0
    BY DEF Recent
  <2>3. h[u] \in Nat /\ u \in Int
    BY <1>1
  <2> QED
    BY <1>1, <2>1, <2>2, <2>3
<1>3. DOMAIN Recent(h, at) = Times
  BY DEF Recent
<1>4. Total(Recent(h, at)) = Sum(Recent(h, at), Times)
  BY <1>3, TotalIsSum
<1>5. Sum(Recent(h, at), Times) \in Nat
  BY <1>2, TimesFinite, SumNatural
<1>6. Sum(Mask(h, t), Times) <= Sum(Recent(h, at), Times)
  <2>1. \A u \in Times : /\ Mask(h, t)[u] \in Int /\ Recent(h, at)[u] \in Int
                         /\ Mask(h, t)[u] <= Recent(h, at)[u]
    BY <1>2
  <2> QED
    BY <2>1, TimesFinite, SumMonotonic
<1> QED
  BY <1>4, <1>5, <1>6 DEF Count

\* A hit in the window is one more.
LEMMA CountHit ==
  ASSUME NEW h \in [Times -> Nat], NEW u \in Times, NEW t,
         NEW k \in [Times -> Nat], k[u] = h[u] + 1,
         \A x \in Times \ {u} : InSpan(x, t) => k[x] = h[x], InSpan(u, t)
  PROVE  Count(k, t) = Count(h, t) + 1
<1> DEFINE f == Mask(h, t)
           g == Mask(k, t)
<1>1. g[u] = f[u] + 1 /\ 1 \in Int
  BY DEF Mask
<1>2. \A x \in Times \ {u} : g[x] = f[x]
  BY DEF Mask
<1>3. (\A x \in Times : f[x] \in Int) /\ (\A x \in Times : g[x] \in Int)
  BY DEF Mask
<1>4. Count(k, t) = Sum(g, Times) /\ Count(h, t) = Sum(f, Times)
  BY DEF Count
<1>5. IsFiniteSet(Times \ {u}) /\ Times \ {u} \in SUBSET Times
  BY TimesFinite, FS_RemoveElement
<1> HIDE DEF f, g
<1>6. Sum(g, Times \ {u}) = Sum(f, Times \ {u})
  BY <1>2, <1>5, SumEqual
<1>7. Sum(f, Times \ {u}) \in Int
  BY <1>3, <1>5, TimesFinite, SumType
<1>8. Sum(f, Times) = f[u] + Sum(f, Times \ {u})
  BY <1>3, TimesFinite, SumRemove
<1>9. Sum(g, Times) = g[u] + Sum(g, Times \ {u})
  BY <1>3, TimesFinite, SumRemove
<1> QED
  BY <1>1, <1>3, <1>4, <1>6, <1>7, <1>8, <1>9

\* A window without hits counts none.
LEMMA CountNone == \A t : Count(NoHits, t) = 0
<1> SUFFICES ASSUME NEW t PROVE Sum(Mask(NoHits, t), Times) = 0
  BY DEF Count
<1>1. \A u \in Times : Mask(NoHits, t)[u] = 0
  BY DEF Mask, NoHits
<1> QED
  BY <1>1, TimesFinite, SumZero

-----------------------------------------------------------------------------
(* Limits *)

\* All and none of the limits are some of them; an override is, too.
LEMMA LimitsTyped ==
  /\ NoLimits \in SomeLimits
  /\ \A v \in LimitValues : v \in SomeLimits
  /\ \A o \in Overrides : o \in SomeLimits
<1>1. {} \in SUBSET Classes /\ Classes \in SUBSET Classes
  OBVIOUS
<1>2. NoLimits \in [{} -> Limits]
  BY DEF NoLimits
<1>3. \A o \in Overrides : o \in SomeLimits
  BY AdmissionAssumption DEF AdmissionAssumption
<1> QED
  BY <1>1, <1>2, <1>3 DEF SomeLimits, LimitValues

\* What some limits are.
LEMMA SomeLimitsAre ==
  ASSUME NEW o \in SomeLimits
  PROVE  DOMAIN o \in SUBSET Classes /\ \A c \in DOMAIN o : o[c] \in Limits
BY DEF SomeLimits

\* The settings read so far are limits of their classes, and the last read makes
\* them complete.
LEMMA JoinedLimits ==
  ASSUME NEW l \in SomeLimits, NEW g \in LimitValues, NEW c \in Classes, DOMAIN l = Before(c)
  PROVE  /\ Joined(l, c, g[c]) \in SomeLimits
         /\ c = "C" => Joined(l, c, g[c]) \in LimitValues
<1>1. Before(c) \cup {c} \in SUBSET Classes /\ (c = "C" => Before(c) \cup {c} = Classes)
  BY DEF Before, Classes
<1>2. g[c] \in Limits /\ \A k \in Before(c) : l[k] \in Limits
  BY SomeLimitsAre DEF LimitValues
<1>3. Joined(l, c, g[c]) \in [Before(c) \cup {c} -> Limits]
  BY <1>2 DEF Joined
<1> QED
  BY <1>1, <1>3 DEF SomeLimits, LimitValues

\* The user's own limits complete them, too.
LEMMA EffectiveLimits ==
  ASSUME NEW g \in LimitValues, NEW o \in SomeLimits
  PROVE  Effective(g, o) \in LimitValues
<1>1. \A c \in Classes : (IF c \in DOMAIN o THEN o[c] ELSE g[c]) \in Limits
  BY SomeLimitsAre DEF LimitValues
<1> QED
  BY <1>1 DEF Effective, LimitValues

-----------------------------------------------------------------------------
(* Requests *)

\* A request by its fields.
Req(pc, start, limits, charity, candidates, lease) ==
  [pc |-> pc, start |-> start, limits |-> limits, charity |-> charity,
   candidates |-> candidates, lease |-> lease]

\* The slot s holds r next, and the other slots hold what they held.
Becomes(s, r) ==
  /\ slot'[s] = r
  /\ \A x \in Slots \ {s} : slot'[x] = slot[x]
  /\ slot' = [x \in Slots |-> slot'[x]]

\* The slots keep their type with a request.
LEMMA BecomesType ==
  ASSUME slot \in [Slots -> Request], NEW s \in Slots, NEW r \in Request, Becomes(s, r)
  PROVE  slot' \in [Slots -> Request]
<1>1. \A x \in Slots : slot'[x] \in Request
  BY DEF Becomes
<1> QED
  BY <1>1 DEF Becomes

\* A request goes on, ...
LEMMA MovesPc ==
  ASSUME slot \in [Slots -> Request], NEW s \in Slots, NEW v,
         slot' = [slot EXCEPT ![s].pc = v]
  PROVE  Becomes(s, Req(v, slot[s].start, slot[s].limits, slot[s].charity,
                        slot[s].candidates, slot[s].lease))
<1>1. slot'[s] = [slot[s] EXCEPT !.pc = v]
  OBVIOUS
<1>2. PICK r0 : r0 = [slot[s] EXCEPT !.pc = v]
  OBVIOUS
<1>3. r0 = Req(v, slot[s].start, slot[s].limits, slot[s].charity, slot[s].candidates, slot[s].lease)
  BY <1>2 DEF Req, Request
<1> QED
  BY <1>1, <1>2, <1>3 DEF Becomes

\* ... with limits, ...
LEMMA MovesLimits ==
  ASSUME slot \in [Slots -> Request], NEW s \in Slots, NEW v, NEW w,
         slot' = [slot EXCEPT ![s].pc = v, ![s].limits = w]
  PROVE  Becomes(s, Req(v, slot[s].start, w, slot[s].charity, slot[s].candidates,
                        slot[s].lease))
<1>1. slot'[s] = [[slot[s] EXCEPT !.pc = v] EXCEPT !.limits = w]
  OBVIOUS
<1>2. PICK r0 : r0 = [slot[s] EXCEPT !.pc = v]
  OBVIOUS
<1>3. r0 = Req(v, slot[s].start, slot[s].limits, slot[s].charity, slot[s].candidates, slot[s].lease)
  BY <1>2 DEF Req, Request
<1>4. PICK r1 : r1 = [r0 EXCEPT !.limits = w]
  OBVIOUS
<1>5. r1 = Req(v, slot[s].start, w, slot[s].charity, slot[s].candidates, slot[s].lease)
  BY <1>4, <1>3 DEF Req
<1> QED
  BY <1>1, <1>2, <1>4, <1>5 DEF Becomes

\* ... counted, with the candidates of a charity call, ...
LEMMA MovesReceived ==
  ASSUME slot \in [Slots -> Request], NEW s \in Slots, NEW v, NEW b, NEW e,
         slot' = [slot EXCEPT ![s].pc = v, ![s].start = b, ![s].candidates = e]
  PROVE  Becomes(s, Req(v, b, slot[s].limits, slot[s].charity, e, slot[s].lease))
<1>1. slot'[s] = [[[slot[s] EXCEPT !.pc = v] EXCEPT !.start = b] EXCEPT !.candidates = e]
  OBVIOUS
<1>2. PICK r0 : r0 = [slot[s] EXCEPT !.pc = v]
  OBVIOUS
<1>3. r0 = Req(v, slot[s].start, slot[s].limits, slot[s].charity, slot[s].candidates, slot[s].lease)
  BY <1>2 DEF Req, Request
<1>4. PICK r1 : r1 = [r0 EXCEPT !.start = b]
  OBVIOUS
<1>5. r1 = Req(v, b, slot[s].limits, slot[s].charity, slot[s].candidates, slot[s].lease)
  BY <1>4, <1>3 DEF Req
<1>6. PICK r2 : r2 = [r1 EXCEPT !.candidates = e]
  OBVIOUS
<1>7. r2 = Req(v, b, slot[s].limits, slot[s].charity, e, slot[s].lease)
  BY <1>6, <1>5 DEF Req
<1> QED
  BY <1>1, <1>2, <1>4, <1>6, <1>7 DEF Becomes

\* ... with a lease, ...
LEMMA MovesLease ==
  ASSUME slot \in [Slots -> Request], NEW s \in Slots, NEW v, NEW f,
         slot' = [slot EXCEPT ![s].pc = v, ![s].lease = f]
  PROVE  Becomes(s, Req(v, slot[s].start, slot[s].limits, slot[s].charity,
                        slot[s].candidates, f))
<1>1. slot'[s] = [[slot[s] EXCEPT !.pc = v] EXCEPT !.lease = f]
  OBVIOUS
<1>2. PICK r0 : r0 = [slot[s] EXCEPT !.pc = v]
  OBVIOUS
<1>3. r0 = Req(v, slot[s].start, slot[s].limits, slot[s].charity, slot[s].candidates, slot[s].lease)
  BY <1>2 DEF Req, Request
<1>4. PICK r1 : r1 = [r0 EXCEPT !.lease = f]
  OBVIOUS
<1>5. r1 = Req(v, slot[s].start, slot[s].limits, slot[s].charity, slot[s].candidates, f)
  BY <1>4, <1>3 DEF Req
<1> QED
  BY <1>1, <1>2, <1>4, <1>5 DEF Becomes

\* ... back among the candidates without it, ...
LEMMA MovesBack ==
  ASSUME slot \in [Slots -> Request], NEW s \in Slots, NEW v, NEW f, NEW d,
         slot' = [slot EXCEPT ![s].pc = v, ![s].lease = f, ![s].candidates = @ \ {d}]
  PROVE  Becomes(s, Req(v, slot[s].start, slot[s].limits, slot[s].charity,
                        slot[s].candidates \ {d}, f))
<1>1. slot'[s] =
        [[[slot[s] EXCEPT !.pc = v] EXCEPT !.lease = f]
           EXCEPT !.candidates = slot[s].candidates \ {d}]
  OBVIOUS
<1>2. PICK r0 : r0 = [slot[s] EXCEPT !.pc = v]
  OBVIOUS
<1>3. r0 = Req(v, slot[s].start, slot[s].limits, slot[s].charity, slot[s].candidates, slot[s].lease)
  BY <1>2 DEF Req, Request
<1>4. PICK r1 : r1 = [r0 EXCEPT !.lease = f]
  OBVIOUS
<1>5. r1 = Req(v, slot[s].start, slot[s].limits, slot[s].charity, slot[s].candidates, f)
  BY <1>4, <1>3 DEF Req
<1>6. PICK r2 : r2 = [r1 EXCEPT !.candidates = slot[s].candidates \ {d}]
  OBVIOUS
<1>7. r2 = Req(v, slot[s].start, slot[s].limits, slot[s].charity, slot[s].candidates \ {d}, f)
  BY <1>6, <1>5 DEF Req
<1> QED
  BY <1>1, <1>2, <1>4, <1>6, <1>7 DEF Becomes

\* ... or on, the lease kept.
LEMMA MovesOn ==
  ASSUME slot \in [Slots -> Request], NEW s \in Slots, NEW v, NEW f, NEW e, NEW d,
         slot' = [slot EXCEPT ![s].pc = v, ![s].lease = f, ![s].candidates = e,
                              ![s].charity = d]
  PROVE  Becomes(s, Req(v, slot[s].start, slot[s].limits, d, e, f))
<1>1. slot'[s] =
        [[[[slot[s] EXCEPT !.pc = v] EXCEPT !.lease = f] EXCEPT !.candidates = e]
           EXCEPT !.charity = d]
  OBVIOUS
<1>2. PICK r0 : r0 = [slot[s] EXCEPT !.pc = v]
  OBVIOUS
<1>3. r0 = Req(v, slot[s].start, slot[s].limits, slot[s].charity, slot[s].candidates, slot[s].lease)
  BY <1>2 DEF Req, Request
<1>4. PICK r1 : r1 = [r0 EXCEPT !.lease = f]
  OBVIOUS
<1>5. r1 = Req(v, slot[s].start, slot[s].limits, slot[s].charity, slot[s].candidates, f)
  BY <1>4, <1>3 DEF Req
<1>6. PICK r2 : r2 = [r1 EXCEPT !.candidates = e]
  OBVIOUS
<1>7. r2 = Req(v, slot[s].start, slot[s].limits, slot[s].charity, e, f)
  BY <1>6, <1>5 DEF Req
<1>8. PICK r3 : r3 = [r2 EXCEPT !.charity = d]
  OBVIOUS
<1>9. r3 = Req(v, slot[s].start, slot[s].limits, d, e, f)
  BY <1>8, <1>7 DEF Req
<1> QED
  BY <1>1, <1>2, <1>4, <1>6, <1>8, <1>9 DEF Becomes

\* What the steps of a request make of it.  (A step that answers it leaves Idle.)
LEMMA RequestSteps ==
  ASSUME slot \in [Slots -> Request], NEW s \in Slots
  PROVE  /\ \A charity \in BOOLEAN :
              Arrive(s, charity) => Becomes(s, Req("arrived", now, NoLimits, charity, {}, {}))
         /\ LookUpKey(s) => \/ Becomes(s, Idle)
                            \/ Becomes(s, Req("known", slot[s].start, slot[s].limits,
                                  slot[s].charity, slot[s].candidates, slot[s].lease))
         /\ ReadCache(s) =>
              Becomes(s, Req(IF cache # NoLimits THEN "limited" ELSE "missed", slot[s].start,
                             cache, slot[s].charity, slot[s].candidates, slot[s].lease))
         /\ \A c \in Classes :
              ReadSetting(s, c) =>
                Becomes(s, Req(IF c = "C" THEN "half" ELSE "missed", slot[s].start,
                               Joined(slot[s].limits, c, global[c]), slot[s].charity,
                               slot[s].candidates, slot[s].lease))
         /\ ReadUser(s) =>
              Becomes(s, Req("read", slot[s].start, Effective(slot[s].limits, override),
                             slot[s].charity, slot[s].candidates, slot[s].lease))
         /\ FillCache(s) =>
              Becomes(s, Req("limited", slot[s].start, slot[s].limits, slot[s].charity,
                             slot[s].candidates, slot[s].lease))
         /\ Pass(s) =>
              Becomes(s, Req("counted", slot[s].start, NoLimits, slot[s].charity,
                             slot[s].candidates, slot[s].lease))
         /\ RecordReceived(s) =>
              Becomes(s, Req(IF slot[s].charity THEN "picking" ELSE "ready", 0,
                             slot[s].limits, slot[s].charity,
                             IF slot[s].charity THEN Donations ELSE {}, slot[s].lease))
         /\ \A d \in Donations :
              Acquire(s, d) =>
                Becomes(s, Req("leased", slot[s].start, slot[s].limits, slot[s].charity,
                               slot[s].candidates, {<<d, now>>}))
         /\ Unavailable(s) =>
              \E d : Becomes(s, Req("picking", slot[s].start, slot[s].limits,
                                    slot[s].charity, slot[s].candidates \ {d}, {}))
         /\ Dispatch(s) =>
              Becomes(s, Req("sent", slot[s].start, slot[s].limits, FALSE, {}, {}))
         /\ Forward(s) =>
              Becomes(s, Req("sent", slot[s].start, slot[s].limits, slot[s].charity,
                             slot[s].candidates, slot[s].lease))
         /\ Succeed(s) =>
              Becomes(s, Req("succeeded", slot[s].start, slot[s].limits, slot[s].charity,
                             slot[s].candidates, slot[s].lease))
<1>1. ASSUME NEW charity \in BOOLEAN, Arrive(s, charity)
      PROVE  Becomes(s, Req("arrived", now, NoLimits, charity, {}, {}))
  <2>1. PICK r0 : r0 = [Idle EXCEPT !.pc = "arrived"]
    OBVIOUS
  <2>2. PICK r1 : r1 = [r0 EXCEPT !.start = now]
    OBVIOUS
  <2>3. r1 = Req("arrived", now, NoLimits, FALSE, {}, {})
    BY <2>1, <2>2 DEF Idle, Req
  <2>4. PICK r2 : r2 = [r1 EXCEPT !.charity = charity]
    OBVIOUS
  <2>5. r2 = Req("arrived", now, NoLimits, charity, {}, {})
    BY <2>3, <2>4 DEF Req
  <2>6. slot'[s] = [[[Idle EXCEPT !.pc = "arrived"] EXCEPT !.start = now]
                       EXCEPT !.charity = charity]
    BY <1>1 DEF Arrive
  <2>7. (\A x \in Slots \ {s} : slot'[x] = slot[x]) /\ slot' = [x \in Slots |-> slot'[x]]
    BY <1>1 DEF Arrive
  <2> QED
    BY <2>1, <2>2, <2>4, <2>5, <2>6, <2>7 DEF Becomes
<1>2. ASSUME LookUpKey(s)
      PROVE  \/ Becomes(s, Idle)
             \/ Becomes(s, Req("known", slot[s].start, slot[s].limits,
                               slot[s].charity, slot[s].candidates, slot[s].lease))
  <2>1. CASE Answer(s)
    BY <2>1 DEF Answer, Becomes
  <2>2. CASE Goto(s, "known")
    BY <2>2, MovesPc DEF Goto
  <2> QED
    BY <1>2, <2>1, <2>2 DEF LookUpKey
<1>3. ASSUME ReadCache(s)
      PROVE  Becomes(s, Req(IF cache # NoLimits THEN "limited" ELSE "missed", slot[s].start,
                            cache, slot[s].charity, slot[s].candidates, slot[s].lease))
  BY <1>3, MovesLimits DEF ReadCache
<1>4. ASSUME NEW c \in Classes, ReadSetting(s, c)
      PROVE  Becomes(s, Req(IF c = "C" THEN "half" ELSE "missed", slot[s].start,
                            Joined(slot[s].limits, c, global[c]), slot[s].charity,
                            slot[s].candidates, slot[s].lease))
  BY <1>4, MovesLimits DEF ReadSetting
<1>5. ASSUME ReadUser(s)
      PROVE  Becomes(s, Req("read", slot[s].start, Effective(slot[s].limits, override),
                            slot[s].charity, slot[s].candidates, slot[s].lease))
  BY <1>5, MovesLimits DEF ReadUser
<1>6. ASSUME FillCache(s)
      PROVE  Becomes(s, Req("limited", slot[s].start, slot[s].limits, slot[s].charity,
                            slot[s].candidates, slot[s].lease))
  BY <1>6, MovesPc DEF FillCache, Goto
<1>7. ASSUME Pass(s)
      PROVE  Becomes(s, Req("counted", slot[s].start, NoLimits, slot[s].charity,
                            slot[s].candidates, slot[s].lease))
  BY <1>7, MovesLimits DEF Pass
<1>8. ASSUME RecordReceived(s)
      PROVE  Becomes(s, Req(IF slot[s].charity THEN "picking" ELSE "ready", 0,
                            slot[s].limits, slot[s].charity,
                            IF slot[s].charity THEN Donations ELSE {}, slot[s].lease))
  BY <1>8, MovesReceived DEF RecordReceived
<1>9. ASSUME NEW d \in Donations, Acquire(s, d)
      PROVE  Becomes(s, Req("leased", slot[s].start, slot[s].limits, slot[s].charity,
                            slot[s].candidates, {<<d, now>>}))
  BY <1>9, MovesLease DEF Acquire
<1>10. ASSUME Unavailable(s)
       PROVE  \E d : Becomes(s, Req("picking", slot[s].start, slot[s].limits,
                                    slot[s].charity, slot[s].candidates \ {d}, {}))
  BY <1>10, MovesBack DEF Unavailable
<1>11. ASSUME Dispatch(s)
       PROVE  Becomes(s, Req("sent", slot[s].start, slot[s].limits, FALSE, {}, {}))
  BY <1>11, MovesOn DEF Dispatch
<1>12. ASSUME Forward(s)
       PROVE  Becomes(s, Req("sent", slot[s].start, slot[s].limits, slot[s].charity,
                             slot[s].candidates, slot[s].lease))
  BY <1>12, MovesPc DEF Forward, Goto
<1>13. ASSUME Succeed(s)
       PROVE  Becomes(s, Req("succeeded", slot[s].start, slot[s].limits, slot[s].charity,
                             slot[s].candidates, slot[s].lease))
  BY <1>13, MovesPc DEF Succeed, Goto
<1> QED
  BY <1>1, <1>2, <1>3, <1>4, <1>5, <1>6, <1>7, <1>8, <1>9, <1>10, <1>11, <1>12, <1>13

-----------------------------------------------------------------------------
(* Types *)

\* Every step leaves a request in every slot.
LEMMA SlotTypes ==
  TypeOK /\ CarriesLimits /\ [Next]_vars => (slot \in [Slots -> Request])'
<1> SUFFICES ASSUME TypeOK, CarriesLimits, [Next]_vars PROVE (slot \in [Slots -> Request])'
  OBVIOUS
<1>1. ASSUME NEW s \in Slots, NEW charity \in BOOLEAN, Arrive(s, charity)
      PROVE  (slot \in [Slots -> Request])'
  <2>0. Becomes(s, Req("arrived", now, NoLimits, charity, {}, {}))
    BY <1>1, RequestSteps DEF TypeOK
  <2>1. slot[s] \in Request
    BY DEF TypeOK
  <2>2. Req("arrived", now, NoLimits, charity, {}, {}) \in Request
    BY <1>1, <2>1, AdmissionAssumption, LimitsTyped DEF At, Req, Request, Idle, AdmissionAssumption,
       Times, TypeOK
  <2> QED
    BY <2>0, <2>2, BecomesType DEF TypeOK
<1>2. ASSUME NEW s \in Slots, RefuseBody(s) PROVE (slot \in [Slots -> Request])'
  <2>0. Becomes(s, Idle)
    BY <1>2 DEF RefuseBody, Answer, At, Idle, Becomes, TypeOK
  <2>1. slot[s] \in Request
    BY DEF TypeOK
  <2>2. Idle \in Request
    BY <2>1, AdmissionAssumption, LimitsTyped DEF Req, Request, Idle, AdmissionAssumption,
       Times, TypeOK
  <2> QED
    BY <2>0, <2>2, BecomesType DEF TypeOK
<1>3. ASSUME NEW s \in Slots, LookUpKey(s) PROVE (slot \in [Slots -> Request])'
  <2>0. Becomes(s, Idle) \/ Becomes(s, Req("known", slot[s].start, slot[s].limits,
           slot[s].charity, slot[s].candidates, slot[s].lease))
    BY <1>3, RequestSteps DEF TypeOK
  <2>1. slot[s] \in Request
    BY DEF TypeOK
  <2>2. /\ Idle \in Request
        /\ Req("known", slot[s].start, slot[s].limits, slot[s].charity,
               slot[s].candidates, slot[s].lease) \in Request
    BY <1>3, <2>1, AdmissionAssumption, LimitsTyped DEF At, Req, Request, Idle, AdmissionAssumption,
       Times, TypeOK
  <2> QED
    BY <2>0, <2>2, BecomesType DEF TypeOK
<1>4. ASSUME NEW s \in Slots, NEW ban \in BOOLEAN, FailAntiAbuse(s, ban)
      PROVE  (slot \in [Slots -> Request])'
  <2>0. Becomes(s, Idle)
    BY <1>4 DEF FailAntiAbuse, Answer, At, Idle, Becomes, TypeOK
  <2>1. slot[s] \in Request
    BY DEF TypeOK
  <2>2. Idle \in Request
    BY <2>1, AdmissionAssumption, LimitsTyped DEF Req, Request, Idle, AdmissionAssumption,
       Times, TypeOK
  <2> QED
    BY <2>0, <2>2, BecomesType DEF TypeOK
<1>5. ASSUME NEW s \in Slots, ReadCache(s) PROVE (slot \in [Slots -> Request])'
  <2>0. Becomes(s, Req(IF cache # NoLimits THEN "limited" ELSE "missed", slot[s].start,
                       cache, slot[s].charity, slot[s].candidates, slot[s].lease))
    BY <1>5, RequestSteps DEF TypeOK
  <2>1. slot[s] \in Request
    BY DEF TypeOK
  <2>2. Req(IF cache # NoLimits THEN "limited" ELSE "missed", slot[s].start, cache,
            slot[s].charity, slot[s].candidates, slot[s].lease) \in Request
    BY <2>1, AdmissionAssumption, LimitsTyped DEF Req, Request, Idle, AdmissionAssumption,
       Times, TypeOK
  <2> QED
    BY <2>0, <2>2, BecomesType DEF TypeOK
<1>6. ASSUME NEW s \in Slots, NEW c \in Classes, ReadSetting(s, c)
      PROVE  (slot \in [Slots -> Request])'
  <2>0. Becomes(s, Req(IF c = "C" THEN "half" ELSE "missed", slot[s].start,
                       Joined(slot[s].limits, c, global[c]), slot[s].charity,
                       slot[s].candidates, slot[s].lease))
    BY <1>6, RequestSteps DEF TypeOK
  <2>1. slot[s] \in Request /\ slot[s].limits \in SomeLimits
    BY DEF TypeOK, Request
  <2>2. Joined(slot[s].limits, c, global[c]) \in SomeLimits
    BY <1>6, <2>1, JoinedLimits DEF ReadSetting, TypeOK
  <2>3. Req(IF c = "C" THEN "half" ELSE "missed", slot[s].start,
            Joined(slot[s].limits, c, global[c]), slot[s].charity,
            slot[s].candidates, slot[s].lease) \in Request
    BY <2>1, <2>2 DEF Req, Request
  <2> QED
    BY <2>0, <2>3, BecomesType DEF TypeOK
<1>7. ASSUME NEW s \in Slots, ReadUser(s) PROVE (slot \in [Slots -> Request])'
  <2>0. Becomes(s, Req("read", slot[s].start, Effective(slot[s].limits, override),
                       slot[s].charity, slot[s].candidates, slot[s].lease))
    BY <1>7, RequestSteps DEF TypeOK
  <2>1. slot[s] \in Request
    BY DEF TypeOK
  <2>2. Effective(slot[s].limits, override) \in SomeLimits
    <3>1. slot[s].limits \in LimitValues /\ override \in SomeLimits
      BY <1>7 DEF ReadUser, At, CarriesLimits, TypeOK
    <3> QED
      BY <3>1, EffectiveLimits, LimitsTyped
  <2>3. Req("read", slot[s].start, Effective(slot[s].limits, override),
            slot[s].charity, slot[s].candidates, slot[s].lease) \in Request
    BY <2>1, <2>2 DEF Req, Request
  <2> QED
    BY <2>0, <2>3, BecomesType DEF TypeOK
<1>8. ASSUME NEW s \in Slots, FillCache(s) PROVE (slot \in [Slots -> Request])'
  <2>0. Becomes(s, Req("limited", slot[s].start, slot[s].limits, slot[s].charity,
                       slot[s].candidates, slot[s].lease))
    BY <1>8, RequestSteps DEF TypeOK
  <2>1. slot[s] \in Request
    BY DEF TypeOK
  <2>2. Req("limited", slot[s].start, slot[s].limits, slot[s].charity,
            slot[s].candidates, slot[s].lease) \in Request
    BY <2>1, AdmissionAssumption, LimitsTyped DEF Req, Request, Idle, AdmissionAssumption,
       Times, TypeOK
  <2> QED
    BY <2>0, <2>2, BecomesType DEF TypeOK
<1>9. ASSUME NEW s \in Slots, Pass(s) PROVE (slot \in [Slots -> Request])'
  <2>0. Becomes(s, Req("counted", slot[s].start, NoLimits, slot[s].charity,
                       slot[s].candidates, slot[s].lease))
    BY <1>9, RequestSteps DEF TypeOK
  <2>1. slot[s] \in Request
    BY DEF TypeOK
  <2>2. Req("counted", slot[s].start, NoLimits, slot[s].charity, slot[s].candidates,
            slot[s].lease) \in Request
    BY <2>1, AdmissionAssumption, LimitsTyped DEF Req, Request, Idle, AdmissionAssumption,
       Times, TypeOK
  <2> QED
    BY <2>0, <2>2, BecomesType DEF TypeOK
<1>10. ASSUME NEW s \in Slots, NEW ban \in BOOLEAN, Refuse(s, ban)
      PROVE  (slot \in [Slots -> Request])'
  <2>0. Becomes(s, Idle)
    BY <1>10 DEF Refuse, Answer, At, Idle, Becomes, TypeOK
  <2>1. slot[s] \in Request
    BY DEF TypeOK
  <2>2. Idle \in Request
    BY <2>1, AdmissionAssumption, LimitsTyped DEF Req, Request, Idle, AdmissionAssumption,
       Times, TypeOK
  <2> QED
    BY <2>0, <2>2, BecomesType DEF TypeOK
<1>11. ASSUME NEW s \in Slots, RecordReceived(s) PROVE (slot \in [Slots -> Request])'
  <2>0. Becomes(s, Req(IF slot[s].charity THEN "picking" ELSE "ready", 0,
                       slot[s].limits, slot[s].charity, IF slot[s].charity THEN
                       Donations ELSE {}, slot[s].lease))
    BY <1>11, RequestSteps DEF TypeOK
  <2>1. slot[s] \in Request
    BY DEF TypeOK
  <2>2. Req(IF slot[s].charity THEN "picking" ELSE "ready", 0, slot[s].limits,
            slot[s].charity, IF slot[s].charity THEN Donations ELSE {}, slot[s].lease) \in
            Request
    BY <2>1, AdmissionAssumption, LimitsTyped DEF Req, Request, Idle, AdmissionAssumption,
       Times, TypeOK
  <2> QED
    BY <2>0, <2>2, BecomesType DEF TypeOK
<1>12. ASSUME NEW s \in Slots, RefuseCharity(s) PROVE (slot \in [Slots -> Request])'
  <2>0. Becomes(s, Idle)
    BY <1>12 DEF RefuseCharity, Answer, At, Idle, Becomes, TypeOK
  <2>1. slot[s] \in Request
    BY DEF TypeOK
  <2>2. Idle \in Request
    BY <2>1, AdmissionAssumption, LimitsTyped DEF Req, Request, Idle, AdmissionAssumption,
       Times, TypeOK
  <2> QED
    BY <2>0, <2>2, BecomesType DEF TypeOK
<1>13. ASSUME NEW s \in Slots, NEW d \in Donations, Acquire(s, d)
      PROVE  (slot \in [Slots -> Request])'
  <2>0. Becomes(s, Req("leased", slot[s].start, slot[s].limits, slot[s].charity,
                       slot[s].candidates, {<<d, now>>}))
    BY <1>13, RequestSteps DEF TypeOK
  <2>1. slot[s] \in Request
    BY DEF TypeOK
  <2>2. Req("leased", slot[s].start, slot[s].limits, slot[s].charity,
            slot[s].candidates, {<<d, now>>}) \in Request
    BY <1>13, <2>1, AdmissionAssumption, LimitsTyped DEF Acquire, Req, Request, Idle,
       AdmissionAssumption, Times, TypeOK
  <2> QED
    BY <2>0, <2>2, BecomesType DEF TypeOK
<1>14. ASSUME NEW s \in Slots, Overloaded(s) PROVE (slot \in [Slots -> Request])'
  <2>0. Becomes(s, Idle)
    BY <1>14 DEF Overloaded, Answer, At, Idle, Becomes, TypeOK
  <2>1. slot[s] \in Request
    BY DEF TypeOK
  <2>2. Idle \in Request
    BY <2>1, AdmissionAssumption, LimitsTyped DEF Req, Request, Idle, AdmissionAssumption,
       Times, TypeOK
  <2> QED
    BY <2>0, <2>2, BecomesType DEF TypeOK
<1>15. ASSUME NEW s \in Slots, Unavailable(s) PROVE (slot \in [Slots -> Request])'
  <2>0. PICK e : Becomes(s, Req("picking", slot[s].start, slot[s].limits,
                                slot[s].charity, slot[s].candidates \ {e}, {}))
    BY <1>15, RequestSteps DEF TypeOK
  <2>1. slot[s] \in Request
    BY DEF TypeOK
  <2>2. Req("picking", slot[s].start, slot[s].limits, slot[s].charity,
            slot[s].candidates \ {e}, {}) \in Request
    BY <2>1, AdmissionAssumption, LimitsTyped DEF Req, Request, Idle, AdmissionAssumption,
       Times, TypeOK
  <2> QED
    BY <2>0, <2>2, BecomesType DEF TypeOK
<1>16. ASSUME NEW s \in Slots, FailSetup(s) PROVE (slot \in [Slots -> Request])'
  <2>0. Becomes(s, Idle)
    BY <1>16 DEF FailSetup, Answer, At, Idle, Becomes, TypeOK
  <2>1. slot[s] \in Request
    BY DEF TypeOK
  <2>2. Idle \in Request
    BY <2>1, AdmissionAssumption, LimitsTyped DEF Req, Request, Idle, AdmissionAssumption,
       Times, TypeOK
  <2> QED
    BY <2>0, <2>2, BecomesType DEF TypeOK
<1>17. ASSUME NEW s \in Slots, Dispatch(s) PROVE (slot \in [Slots -> Request])'
  <2>0. Becomes(s, Req("sent", slot[s].start, slot[s].limits, FALSE, {}, {}))
    BY <1>17, RequestSteps DEF TypeOK
  <2>1. slot[s] \in Request
    BY DEF TypeOK
  <2>2. Req("sent", slot[s].start, slot[s].limits, FALSE, {}, {}) \in Request
    BY <2>1, AdmissionAssumption, LimitsTyped DEF Req, Request, Idle, AdmissionAssumption,
       Times, TypeOK
  <2> QED
    BY <2>0, <2>2, BecomesType DEF TypeOK
<1>18. ASSUME NEW s \in Slots, RefuseOwn(s) PROVE (slot \in [Slots -> Request])'
  <2>0. Becomes(s, Idle)
    BY <1>18 DEF RefuseOwn, Answer, At, Idle, Becomes, TypeOK
  <2>1. slot[s] \in Request
    BY DEF TypeOK
  <2>2. Idle \in Request
    BY <2>1, AdmissionAssumption, LimitsTyped DEF Req, Request, Idle, AdmissionAssumption,
       Times, TypeOK
  <2> QED
    BY <2>0, <2>2, BecomesType DEF TypeOK
<1>19. ASSUME NEW s \in Slots, Forward(s) PROVE (slot \in [Slots -> Request])'
  <2>0. Becomes(s, Req("sent", slot[s].start, slot[s].limits, slot[s].charity,
                       slot[s].candidates, slot[s].lease))
    BY <1>19, RequestSteps DEF TypeOK
  <2>1. slot[s] \in Request
    BY DEF TypeOK
  <2>2. Req("sent", slot[s].start, slot[s].limits, slot[s].charity,
            slot[s].candidates, slot[s].lease) \in Request
    BY <2>1, AdmissionAssumption, LimitsTyped DEF Req, Request, Idle, AdmissionAssumption,
       Times, TypeOK
  <2> QED
    BY <2>0, <2>2, BecomesType DEF TypeOK
<1>20. ASSUME NEW s \in Slots, FailUpstream(s) PROVE (slot \in [Slots -> Request])'
  <2>0. Becomes(s, Idle)
    BY <1>20 DEF FailUpstream, Answer, At, Idle, Becomes, TypeOK
  <2>1. slot[s] \in Request
    BY DEF TypeOK
  <2>2. Idle \in Request
    BY <2>1, AdmissionAssumption, LimitsTyped DEF Req, Request, Idle, AdmissionAssumption,
       Times, TypeOK
  <2> QED
    BY <2>0, <2>2, BecomesType DEF TypeOK
<1>21. ASSUME NEW s \in Slots, Succeed(s) PROVE (slot \in [Slots -> Request])'
  <2>0. Becomes(s, Req("succeeded", slot[s].start, slot[s].limits, slot[s].charity,
                       slot[s].candidates, slot[s].lease))
    BY <1>21, RequestSteps DEF TypeOK
  <2>1. slot[s] \in Request
    BY DEF TypeOK
  <2>2. Req("succeeded", slot[s].start, slot[s].limits, slot[s].charity,
            slot[s].candidates, slot[s].lease) \in Request
    BY <2>1, AdmissionAssumption, LimitsTyped DEF Req, Request, Idle, AdmissionAssumption,
       Times, TypeOK
  <2> QED
    BY <2>0, <2>2, BecomesType DEF TypeOK
<1>22. ASSUME NEW s \in Slots, Break(s) PROVE (slot \in [Slots -> Request])'
  <2>0. Becomes(s, Idle)
    BY <1>22 DEF Break, Answer, At, Idle, Becomes, TypeOK
  <2>1. slot[s] \in Request
    BY DEF TypeOK
  <2>2. Idle \in Request
    BY <2>1, AdmissionAssumption, LimitsTyped DEF Req, Request, Idle, AdmissionAssumption,
       Times, TypeOK
  <2> QED
    BY <2>0, <2>2, BecomesType DEF TypeOK
<1>23. ASSUME NEW s \in Slots, Finish(s) PROVE (slot \in [Slots -> Request])'
  <2>0. Becomes(s, Idle)
    BY <1>23 DEF Finish, Record, Answer, At, Idle, Becomes, TypeOK
  <2>1. slot[s] \in Request
    BY DEF TypeOK
  <2>2. Idle \in Request
    BY <2>1, AdmissionAssumption, LimitsTyped DEF Req, Request, Idle, AdmissionAssumption,
       Times, TypeOK
  <2> QED
    BY <2>0, <2>2, BecomesType DEF TypeOK
<1>24. ASSUME NEW v \in LimitValues, 
             SetLimits(v)
      PROVE  (slot \in [Slots -> Request])'
  BY <1>24 DEF SetLimits, store, TypeOK
<1>25. ASSUME NEW v \in Overrides, 
             SetUserRPMLimits(v)
      PROVE  (slot \in [Slots -> Request])'
  BY <1>25 DEF SetUserRPMLimits, store, TypeOK
<1>26. ASSUME InvalidateCache \/ Tick
      PROVE  (slot \in [Slots -> Request])'
  BY <1>26 DEF InvalidateCache, Tick, store, TypeOK
<1>27. ASSUME NEW b \in BOOLEAN, 
             SetBan(b)
      PROVE  (slot \in [Slots -> Request])'
  BY <1>27 DEF SetBan, store, TypeOK
<1>28. CASE UNCHANGED vars
  BY <1>28 DEF vars, store, TypeOK
<1> QED
  BY <1>1, <1>2, <1>3, <1>4, <1>5, <1>6, <1>7, <1>8, <1>9, <1>10, <1>11, <1>12, <1>13,
     <1>14, <1>15, <1>16, <1>17, <1>18, <1>19, <1>20, <1>21, <1>22, <1>23, <1>24, <1>25,
     <1>26, <1>27, <1>28 DEF Next, Environment, Handle, Gate, Pool, Call

\* Pruning and recording keep a window a window.
LEMMA WindowTypes ==
  ASSUME NEW h \in [Times -> Nat]
  PROVE  /\ \A at : Recent(h, at) \in [Times -> Nat]
         /\ \A t \in Times : Hit(h, t) \in [Times -> Nat]
         /\ \A t \in Times : ReleaseOwn(h, t) \in [Times -> Nat]
<1>1. \A at : Recent(h, at) \in [Times -> Nat]
  BY DEF Recent
<1>2. \A t \in Times : Hit(h, t) \in [Times -> Nat]
  BY DEF Hit
<1>3. ASSUME NEW t \in Times PROVE ReleaseOwn(h, t) \in [Times -> Nat]
  BY DEF ReleaseOwn
<1> QED
  BY <1>1, <1>2, <1>3

\* The lease of a request is a donation and a time.
LEMMA LeaseOf ==
  ASSUME slot \in [Slots -> Request], NEW s \in Slots, slot[s].lease # {}
  PROVE  /\ (CHOOSE x \in slot[s].lease : TRUE) \in slot[s].lease
         /\ (CHOOSE x \in slot[s].lease : TRUE)[1] \in Donations
         /\ (CHOOSE x \in slot[s].lease : TRUE)[2] \in Times
<1>1. (CHOOSE x \in slot[s].lease : TRUE) \in slot[s].lease
  OBVIOUS
<1>2. slot[s].lease \subseteq Donations \X Times
  BY DEF Request
<1> QED
  BY <1>1, <1>2

\* The windows of the user stay windows.
LEMMA HitsTypes ==
  ASSUME TypeOK
  PROVE  /\ \A s : Pruned(s) \in [Classes -> [Times -> Nat]]
         /\ \A c \in Classes, t \in Times :
              Record(c, t) => /\ hits' \in [Classes -> [Times -> Nat]]
                              /\ made' \in [Classes -> [Times -> Nat]]
<1>0. hits \in [Classes -> [Times -> Nat]] /\ made \in [Classes -> [Times -> Nat]]
  BY DEF TypeOK
<1>1. ASSUME NEW s PROVE Pruned(s) \in [Classes -> [Times -> Nat]]
  <2>1. \A c \in Classes : Recent(hits[c], slot[s].start) \in [Times -> Nat]
    BY <1>0, WindowTypes
  <2> QED
    BY <1>0, <2>1 DEF Pruned
<1>2. ASSUME NEW c \in Classes, NEW t \in Times, Record(c, t)
      PROVE  hits' \in [Classes -> [Times -> Nat]] /\ made' \in [Classes -> [Times -> Nat]]
  <2>1. Recent(hits[c], t) \in [Times -> Nat] /\ made[c] \in [Times -> Nat]
    BY <1>0, WindowTypes
  <2>2. Hit(Recent(hits[c], t), t) \in [Times -> Nat] /\ Hit(made[c], t) \in [Times -> Nat]
    BY <2>1, WindowTypes
  <2> QED
    BY <1>0, <1>2, <2>2 DEF Record
<1> QED
  BY <1>1, <1>2

\* The windows of the donations stay windows.
LEMMA LeasesTypes ==
  ASSUME TypeOK, NEW s \in Slots
  PROVE  /\ Released(s) \in [Donations -> [Times -> Nat]]
         /\ Dispatch(s) => kept' \in [Donations -> [Times -> Nat]]
         /\ \A d \in Donations : Hit(Recent(leases[d], now), now) \in [Times -> Nat]
         /\ \A d \in Donations : Recent(leases[d], now) \in [Times -> Nat]
<1>0. leases \in [Donations -> [Times -> Nat]] /\ kept \in [Donations -> [Times -> Nat]]
      /\ slot \in [Slots -> Request]
  BY DEF TypeOK
<1>1. Released(s) \in [Donations -> [Times -> Nat]]
  <2>1. ASSUME NEW d \in Donations, NEW x \in slot[s].lease
        PROVE  ReleaseOwn(leases[d], (CHOOSE y \in slot[s].lease : TRUE)[2]) \in [Times -> Nat]
    <3>1. (CHOOSE y \in slot[s].lease : TRUE)[2] \in Times
      BY <1>0, LeaseOf
    <3> QED
      BY <1>0, <3>1, WindowTypes
  <2> QED
    BY <1>0, <2>1 DEF Released
<1>2. ASSUME Dispatch(s) PROVE kept' \in [Donations -> [Times -> Nat]]
  <2>1. \A d \in Donations, t \in Times : Hit(kept[d], t) \in [Times -> Nat]
    BY <1>0, WindowTypes
  <2>2. ASSUME NEW d \in Donations, NEW x \in slot[s].lease
        PROVE  (CHOOSE y \in slot[s].lease : TRUE)[2] \in Times
    BY <1>0, LeaseOf
  <2> QED
    BY <1>0, <1>2, <2>1, <2>2 DEF Dispatch
<1>3. ASSUME NEW d \in Donations
      PROVE  /\ Recent(leases[d], now) \in [Times -> Nat]
             /\ Hit(Recent(leases[d], now), now) \in [Times -> Nat]
  <2>1. now \in Times
    BY DEF TypeOK
  <2> QED
    BY <1>0, <2>1, WindowTypes
<1> QED
  BY <1>1, <1>2, <1>3

\* Every step keeps the user's windows.
LEMMA HitsStay ==
  TypeOK /\ [Next]_vars =>
    (hits \in [Classes -> [Times -> Nat]] /\ made \in [Classes -> [Times -> Nat]])'
<1> SUFFICES ASSUME TypeOK, [Next]_vars
             PROVE  (hits \in [Classes -> [Times -> Nat]] /\ made \in [Classes -> [Times -> Nat]])'
  OBVIOUS
<1>1. ASSUME NEW s \in Slots, Pass(s)
      PROVE  (hits \in [Classes -> [Times -> Nat]] /\ made \in [Classes -> [Times -> Nat]])'
  BY <1>1, HitsTypes DEF Pass, At, TypeOK
<1>2. ASSUME NEW s \in Slots, NEW ban \in BOOLEAN, Refuse(s, ban)
      PROVE  (hits \in [Classes -> [Times -> Nat]] /\ made \in [Classes -> [Times -> Nat]])'
  BY <1>2, HitsTypes DEF Refuse, Answer, At, Idle, TypeOK
<1>3. ASSUME NEW s \in Slots, RecordReceived(s)
      PROVE  (hits \in [Classes -> [Times -> Nat]] /\ made \in [Classes -> [Times -> Nat]])'
  <2>1. Record("C", slot[s].start) /\ "C" \in Classes /\ slot[s].start \in Times
    BY <1>3 DEF RecordReceived, Classes, TypeOK, Request
  <2> QED
    BY <2>1, HitsTypes
<1>4. ASSUME NEW s \in Slots, Succeed(s)
      PROVE  (hits \in [Classes -> [Times -> Nat]] /\ made \in [Classes -> [Times -> Nat]])'
  <2>1. Record("B", now) /\ "B" \in Classes /\ now \in Times
    BY <1>4 DEF Succeed, Classes, TypeOK, Request
  <2> QED
    BY <2>1, HitsTypes
<1>5. ASSUME NEW s \in Slots, Finish(s)
      PROVE  (hits \in [Classes -> [Times -> Nat]] /\ made \in [Classes -> [Times -> Nat]])'
  <2>1. Record("A", now) /\ "A" \in Classes /\ now \in Times
    BY <1>5 DEF Finish, Classes, TypeOK, Request
  <2> QED
    BY <2>1, HitsTypes
<1>6. ASSUME NEW s \in Slots, NEW charity \in BOOLEAN, 
             Arrive(s, charity)
      PROVE  (hits \in [Classes -> [Times -> Nat]] /\ made \in [Classes -> [Times -> Nat]])'
  BY <1>6 DEF Arrive, At, Idle, store, TypeOK
<1>7. ASSUME NEW s \in Slots, 
             RefuseBody(s) \/ LookUpKey(s) \/ ReadCache(s) \/
             (\E c \in Classes : ReadSetting(s, c)) \/
             ReadUser(s) \/ FillCache(s) \/ RefuseCharity(s) \/ Overloaded(s) \/
             Unavailable(s) \/ FailSetup(s) \/ Dispatch(s) \/ RefuseOwn(s) \/
             Forward(s) \/ FailUpstream(s) \/ Break(s)
      PROVE  (hits \in [Classes -> [Times -> Nat]] /\ made \in [Classes -> [Times -> Nat]])'
  BY <1>7 DEF RefuseBody, Answer, At, Idle, LookUpKey, Goto, ReadCache, ReadSetting,
     ReadUser, Effective, FillCache, RefuseCharity, Overloaded, Unavailable, FailSetup,
     Dispatch, RefuseOwn, Forward, FailUpstream, Break, store, TypeOK
<1>8. ASSUME NEW s \in Slots, NEW ban \in BOOLEAN, 
             FailAntiAbuse(s, ban)
      PROVE  (hits \in [Classes -> [Times -> Nat]] /\ made \in [Classes -> [Times -> Nat]])'
  BY <1>8 DEF FailAntiAbuse, Answer, At, Idle, store, TypeOK
<1>9. ASSUME NEW s \in Slots, NEW d \in Donations, 
             Acquire(s, d)
      PROVE  (hits \in [Classes -> [Times -> Nat]] /\ made \in [Classes -> [Times -> Nat]])'
  BY <1>9 DEF Acquire, At, store, TypeOK
<1>10. ASSUME NEW v \in LimitValues, 
             SetLimits(v)
      PROVE  (hits \in [Classes -> [Times -> Nat]] /\ made \in [Classes -> [Times -> Nat]])'
  BY <1>10 DEF SetLimits, store, TypeOK
<1>11. ASSUME NEW v \in Overrides, 
             SetUserRPMLimits(v)
      PROVE  (hits \in [Classes -> [Times -> Nat]] /\ made \in [Classes -> [Times -> Nat]])'
  BY <1>11 DEF SetUserRPMLimits, store, TypeOK
<1>12. ASSUME InvalidateCache \/ Tick
      PROVE  (hits \in [Classes -> [Times -> Nat]] /\ made \in [Classes -> [Times -> Nat]])'
  BY <1>12 DEF InvalidateCache, Tick, store, TypeOK
<1>13. ASSUME NEW b \in BOOLEAN, 
             SetBan(b)
      PROVE  (hits \in [Classes -> [Times -> Nat]] /\ made \in [Classes -> [Times -> Nat]])'
  BY <1>13 DEF SetBan, store, TypeOK
<1>14. CASE UNCHANGED vars
  BY <1>14 DEF vars, store, TypeOK
<1> QED
  BY <1>1, <1>2, <1>3, <1>4, <1>5, <1>6, <1>7, <1>8, <1>9, <1>10, <1>11, <1>12, <1>13,
     <1>14 DEF Next, Environment, Handle, Gate, Pool, Call

\* Every step keeps the windows of the donations.
LEMMA LeasesStay ==
  TypeOK /\ [Next]_vars =>
    (leases \in [Donations -> [Times -> Nat]] /\ kept \in [Donations -> [Times -> Nat]])'
<1> SUFFICES ASSUME TypeOK, [Next]_vars
             PROVE  (/\ leases \in [Donations -> [Times -> Nat]]
                     /\ kept \in [Donations -> [Times -> Nat]])'
  OBVIOUS
<1>1. ASSUME NEW s \in Slots, NEW d \in Donations, Acquire(s, d)
      PROVE  (leases \in [Donations -> [Times -> Nat]] /\ kept \in [Donations -> [Times -> Nat]])'
  BY <1>1, LeasesTypes DEF Acquire, TypeOK
<1>2. ASSUME NEW s \in Slots, Overloaded(s)
      PROVE  (leases \in [Donations -> [Times -> Nat]] /\ kept \in [Donations -> [Times -> Nat]])'
  BY <1>2, LeasesTypes DEF Overloaded, TypeOK
<1>3. ASSUME NEW s \in Slots, Unavailable(s)
      PROVE  (leases \in [Donations -> [Times -> Nat]] /\ kept \in [Donations -> [Times -> Nat]])'
  BY <1>3, LeasesTypes DEF Unavailable, TypeOK
<1>4. ASSUME NEW s \in Slots, FailSetup(s)
      PROVE  (leases \in [Donations -> [Times -> Nat]] /\ kept \in [Donations -> [Times -> Nat]])'
  BY <1>4, LeasesTypes DEF FailSetup, TypeOK
<1>5. ASSUME NEW s \in Slots, Dispatch(s)
      PROVE  (leases \in [Donations -> [Times -> Nat]] /\ kept \in [Donations -> [Times -> Nat]])'
  BY <1>5, LeasesTypes DEF Dispatch, TypeOK
<1>6. ASSUME NEW s \in Slots, NEW charity \in BOOLEAN, 
             Arrive(s, charity)
      PROVE  (leases \in [Donations -> [Times -> Nat]] /\ kept \in [Donations -> [Times -> Nat]])'
  BY <1>6 DEF Arrive, At, Idle, store, TypeOK
<1>7. ASSUME NEW s \in Slots, 
             RefuseBody(s) \/ LookUpKey(s) \/ ReadCache(s) \/
             (\E c \in Classes : ReadSetting(s, c)) \/
             ReadUser(s) \/ FillCache(s) \/ Pass(s) \/ RecordReceived(s) \/
             RefuseCharity(s) \/ RefuseOwn(s) \/ Forward(s) \/ FailUpstream(s) \/
             Succeed(s) \/ Break(s) \/ Finish(s)
      PROVE  (leases \in [Donations -> [Times -> Nat]] /\ kept \in [Donations -> [Times -> Nat]])'
  BY <1>7 DEF RefuseBody, Answer, At, Idle, LookUpKey, Goto, ReadCache, ReadSetting,
     ReadUser, Effective, FillCache, Pass, RecordReceived, Record, RefuseCharity,
     RefuseOwn, Forward, FailUpstream, Succeed, Break, Finish, store, TypeOK
<1>8. ASSUME NEW s \in Slots, NEW ban \in BOOLEAN, 
             FailAntiAbuse(s, ban) \/ Refuse(s, ban)
      PROVE  (leases \in [Donations -> [Times -> Nat]] /\ kept \in [Donations -> [Times -> Nat]])'
  BY <1>8 DEF FailAntiAbuse, Answer, At, Idle, Refuse, store, TypeOK
<1>9. ASSUME NEW v \in LimitValues, 
             SetLimits(v)
      PROVE  (leases \in [Donations -> [Times -> Nat]] /\ kept \in [Donations -> [Times -> Nat]])'
  BY <1>9 DEF SetLimits, store, TypeOK
<1>10. ASSUME NEW v \in Overrides, 
             SetUserRPMLimits(v)
      PROVE  (leases \in [Donations -> [Times -> Nat]] /\ kept \in [Donations -> [Times -> Nat]])'
  BY <1>10 DEF SetUserRPMLimits, store, TypeOK
<1>11. ASSUME InvalidateCache \/ Tick
      PROVE  (leases \in [Donations -> [Times -> Nat]] /\ kept \in [Donations -> [Times -> Nat]])'
  BY <1>11 DEF InvalidateCache, Tick, store, TypeOK
<1>12. ASSUME NEW b \in BOOLEAN, 
             SetBan(b)
      PROVE  (leases \in [Donations -> [Times -> Nat]] /\ kept \in [Donations -> [Times -> Nat]])'
  BY <1>12 DEF SetBan, store, TypeOK
<1>13. CASE UNCHANGED vars
  BY <1>13 DEF vars, store, TypeOK
<1> QED
  BY <1>1, <1>2, <1>3, <1>4, <1>5, <1>6, <1>7, <1>8, <1>9, <1>10, <1>11, <1>12, <1>13
     DEF Next, Environment, Handle, Gate, Pool, Call

\* The clock, the limits and the ban.
Settings ==
  /\ now \in Times /\ pending \in BOOLEAN /\ banned \in BOOLEAN
  /\ global \in LimitValues /\ override \in SomeLimits
  /\ cache \in LimitValues \cup {NoLimits}

\* Every step keeps the clock, the limits and the ban what they are.
LEMMA SettingsStay == TypeOK /\ CarriesLimits /\ [Next]_vars => Settings'
<1> SUFFICES ASSUME TypeOK, CarriesLimits, [Next]_vars PROVE Settings'
  OBVIOUS
<1>1. ASSUME NEW s \in Slots, NEW ban \in BOOLEAN, FailAntiAbuse(s, ban) PROVE Settings'
  BY <1>1 DEF FailAntiAbuse, Answer, At, Idle, store, TypeOK, Settings
<1>2. ASSUME NEW s \in Slots, FillCache(s) PROVE Settings'
  <2>1. slot[s].limits \in LimitValues
    BY <1>2 DEF FillCache, At, CarriesLimits
  <2> QED
    BY <1>2, <2>1 DEF FillCache, store, TypeOK, Settings
<1>3. ASSUME NEW s \in Slots, NEW ban \in BOOLEAN, Refuse(s, ban) PROVE Settings'
  BY <1>3 DEF Refuse, Answer, At, Idle, store, TypeOK, Settings
<1>4. ASSUME NEW v \in LimitValues, SetLimits(v) PROVE Settings'
  BY <1>4 DEF SetLimits, store, TypeOK, Settings
<1>5. ASSUME NEW v \in Overrides, SetUserRPMLimits(v) PROVE Settings'
  BY <1>5, LimitsTyped DEF SetUserRPMLimits, TypeOK, Settings
<1>6. ASSUME InvalidateCache PROVE Settings'
  BY <1>6 DEF InvalidateCache, store, TypeOK, Settings
<1>7. ASSUME Tick PROVE Settings'
  BY <1>7, AdmissionAssumption DEF Tick, AdmissionAssumption, Times, store, TypeOK, Settings
<1>8. ASSUME NEW b \in BOOLEAN, SetBan(b) PROVE Settings'
  BY <1>8 DEF SetBan, store, TypeOK, Settings
<1>9. ASSUME NEW s \in Slots, NEW charity \in BOOLEAN, 
             Arrive(s, charity)
      PROVE  Settings'
  BY <1>9 DEF Arrive, At, Idle, store, TypeOK, Settings
<1>10. ASSUME NEW s \in Slots, 
             RefuseBody(s) \/ LookUpKey(s) \/ ReadCache(s) \/
             (\E c \in Classes : ReadSetting(s, c)) \/
             ReadUser(s) \/ Pass(s) \/ RecordReceived(s) \/ RefuseCharity(s) \/
             Overloaded(s) \/ Unavailable(s) \/ FailSetup(s) \/ Dispatch(s) \/
             RefuseOwn(s) \/ Forward(s) \/ FailUpstream(s) \/ Succeed(s) \/
             Break(s) \/ Finish(s)
      PROVE  Settings'
  BY <1>10 DEF RefuseBody, Answer, At, Idle, LookUpKey, Goto, ReadCache, ReadSetting,
     ReadUser, Effective, Pass, RecordReceived, Record, RefuseCharity, Overloaded,
     Unavailable, FailSetup, Dispatch, RefuseOwn, Forward, FailUpstream, Succeed, Break,
     Finish, store, TypeOK, Settings
<1>11. ASSUME NEW s \in Slots, NEW d \in Donations, 
             Acquire(s, d)
      PROVE  Settings'
  BY <1>11 DEF Acquire, At, store, TypeOK, Settings
<1>12. CASE UNCHANGED vars
  BY <1>12 DEF vars, store, TypeOK, Settings
<1> QED
  BY <1>1, <1>2, <1>3, <1>4, <1>5, <1>6, <1>7, <1>8, <1>9, <1>10, <1>11, <1>12 DEF Next,
     Environment, Handle, Gate, Pool, Call

-----------------------------------------------------------------------------
(* What a request carries *)

\* A request takes one lease, gets its limits from the cache, the settings or the
\* user's row, and its start from the clock.
LEMMA CarriedNext ==
  TypeOK /\ OneLease /\ CarriesLimits /\ Started /\ [Next]_vars
    => (OneLease /\ CarriesLimits /\ Started)'
<1> SUFFICES ASSUME TypeOK, OneLease, CarriesLimits, Started, [Next]_vars
             PROVE  (OneLease /\ CarriesLimits /\ Started)'
  OBVIOUS
<1>0. now \in Nat /\ 0 <= now
  BY TimesFinite DEF TypeOK
<1>1. ASSUME NEW s \in Slots, NEW charity \in BOOLEAN, Arrive(s, charity)
      PROVE  (OneLease /\ CarriesLimits /\ Started)'
  <2>0. Becomes(s, Req("arrived", now, NoLimits, charity, {}, {}))
    BY <1>1, RequestSteps DEF TypeOK
  <2>1. /\ \A x \in Slots \ {s} : slot'[x] = slot[x]
        /\ slot'[s].pc = ("arrived") /\ slot'[s].start = now
        /\ slot'[s].limits = NoLimits /\ slot'[s].lease = {}
    BY <2>0 DEF Becomes, Req, Idle
  <2>2. now' = now
    BY <1>1 DEF Arrive
  <2> QED
    BY <1>0, <2>1, <2>2 DEF OneLease, CarriesLimits, Started
<1>2. ASSUME NEW s \in Slots, RefuseBody(s) PROVE (OneLease /\ CarriesLimits /\ Started)'
  <2>0. Becomes(s, Idle)
    BY <1>2 DEF RefuseBody, Answer, At, Idle, Becomes, TypeOK
  <2>1. /\ \A x \in Slots \ {s} : slot'[x] = slot[x]
        /\ slot'[s].pc = ("idle") /\ slot'[s].start = 0
        /\ slot'[s].limits = NoLimits /\ slot'[s].lease = {}
    BY <2>0 DEF Becomes, Req, Idle
  <2>2. now' = now
    BY <1>2 DEF RefuseBody
  <2> QED
    BY <1>0, <2>1, <2>2 DEF OneLease, CarriesLimits, Started
<1>3. ASSUME NEW s \in Slots, LookUpKey(s) PROVE (OneLease /\ CarriesLimits /\ Started)'
  <2>0. Becomes(s, Idle) \/ Becomes(s, Req("known", slot[s].start, slot[s].limits,
           slot[s].charity, slot[s].candidates, slot[s].lease))
    BY <1>3, RequestSteps DEF TypeOK
  <2>1. /\ \A x \in Slots \ {s} : slot'[x] = slot[x]
        /\ \/ /\ slot'[s].pc = "idle" /\ slot'[s].start = 0
              /\ slot'[s].limits = NoLimits /\ slot'[s].lease = {}
           \/ /\ slot'[s].pc = "known" /\ slot'[s].start = slot[s].start
              /\ slot'[s].limits = slot[s].limits /\ slot'[s].lease = slot[s].lease
    BY <2>0 DEF Becomes, Req, Idle
  <2>2. now' = now
    BY <1>3 DEF LookUpKey
  <2> QED
    BY <1>0, <2>1, <2>2 DEF OneLease, CarriesLimits, Started
<1>4. ASSUME NEW s \in Slots, NEW ban \in BOOLEAN, FailAntiAbuse(s, ban)
      PROVE  (OneLease /\ CarriesLimits /\ Started)'
  <2>0. Becomes(s, Idle)
    BY <1>4 DEF FailAntiAbuse, Answer, At, Idle, Becomes, TypeOK
  <2>1. /\ \A x \in Slots \ {s} : slot'[x] = slot[x]
        /\ slot'[s].pc = ("idle") /\ slot'[s].start = 0
        /\ slot'[s].limits = NoLimits /\ slot'[s].lease = {}
    BY <2>0 DEF Becomes, Req, Idle
  <2>2. now' = now
    BY <1>4 DEF FailAntiAbuse
  <2> QED
    BY <1>0, <2>1, <2>2 DEF OneLease, CarriesLimits, Started
<1>5. ASSUME NEW s \in Slots, ReadCache(s) PROVE (OneLease /\ CarriesLimits /\ Started)'
  <2>0. Becomes(s, Req(IF cache # NoLimits THEN "limited" ELSE "missed", slot[s].start,
                       cache, slot[s].charity, slot[s].candidates, slot[s].lease))
    BY <1>5, RequestSteps DEF TypeOK
  <2>1. /\ \A x \in Slots \ {s} : slot'[x] = slot[x]
        /\ slot'[s].pc = (IF cache # NoLimits THEN "limited" ELSE "missed")
        /\ slot'[s].start = slot[s].start
        /\ slot'[s].limits = cache /\ slot'[s].lease = slot[s].lease
    BY <2>0 DEF Becomes, Req, Idle
  <2>2. now' = now
    BY <1>5 DEF ReadCache
  <2>3. cache \in LimitValues \cup {NoLimits}
    BY <1>5 DEF TypeOK
  <2> QED
    BY <1>0, <2>1, <2>2, <2>3 DEF OneLease, CarriesLimits, Started
<1>6. ASSUME NEW s \in Slots, NEW c \in Classes, ReadSetting(s, c)
      PROVE  (OneLease /\ CarriesLimits /\ Started)'
  <2>0. Becomes(s, Req(IF c = "C" THEN "half" ELSE "missed", slot[s].start,
                       Joined(slot[s].limits, c, global[c]), slot[s].charity,
                       slot[s].candidates, slot[s].lease))
    BY <1>6, RequestSteps DEF TypeOK
  <2>1. /\ \A x \in Slots \ {s} : slot'[x] = slot[x]
        /\ slot'[s].pc = (IF c = "C" THEN "half" ELSE "missed")
        /\ slot'[s].start = slot[s].start
        /\ slot'[s].limits = Joined(slot[s].limits, c, global[c])
        /\ slot'[s].lease = slot[s].lease
    BY <2>0 DEF Becomes, Req, Idle
  <2>2. now' = now
    BY <1>6 DEF ReadSetting
  <2>3. c = "C" => Joined(slot[s].limits, c, global[c]) \in LimitValues
    <3>1. slot[s].limits \in SomeLimits /\ global \in LimitValues
      BY DEF TypeOK, Request
    <3> QED
      BY <1>6, <3>1, JoinedLimits DEF ReadSetting
  <2> QED
    BY <1>0, <2>1, <2>2, <2>3 DEF OneLease, CarriesLimits, Started
<1>7. ASSUME NEW s \in Slots, ReadUser(s) PROVE (OneLease /\ CarriesLimits /\ Started)'
  <2>0. Becomes(s, Req("read", slot[s].start, Effective(slot[s].limits, override),
                       slot[s].charity, slot[s].candidates, slot[s].lease))
    BY <1>7, RequestSteps DEF TypeOK
  <2>1. /\ \A x \in Slots \ {s} : slot'[x] = slot[x]
        /\ slot'[s].pc = ("read") /\ slot'[s].start = slot[s].start
        /\ slot'[s].limits = Effective(slot[s].limits, override) /\ slot'[s].lease = slot[s].lease
    BY <2>0 DEF Becomes, Req, Idle
  <2>2. now' = now
    BY <1>7 DEF ReadUser
  <2>3. Effective(slot[s].limits, override) \in LimitValues
    <3>1. slot[s].limits \in LimitValues /\ override \in SomeLimits
      BY <1>7 DEF ReadUser, At, CarriesLimits, TypeOK
    <3> QED
      BY <3>1, EffectiveLimits
  <2> QED
    BY <1>0, <2>1, <2>2, <2>3 DEF OneLease, CarriesLimits, Started
<1>8. ASSUME NEW s \in Slots, FillCache(s) PROVE (OneLease /\ CarriesLimits /\ Started)'
  <2>0. Becomes(s, Req("limited", slot[s].start, slot[s].limits, slot[s].charity,
                       slot[s].candidates, slot[s].lease))
    BY <1>8, RequestSteps DEF TypeOK
  <2>1. /\ \A x \in Slots \ {s} : slot'[x] = slot[x]
        /\ slot'[s].pc = ("limited") /\ slot'[s].start = slot[s].start
        /\ slot'[s].limits = slot[s].limits /\ slot'[s].lease = slot[s].lease
    BY <2>0 DEF Becomes, Req, Idle
  <2>2. now' = now
    BY <1>8 DEF FillCache
  <2>3. slot[s].pc = "read"
    BY <1>8 DEF FillCache, At
  <2> QED
    BY <1>0, <2>1, <2>2, <2>3 DEF OneLease, CarriesLimits, Started
<1>9. ASSUME NEW s \in Slots, Pass(s) PROVE (OneLease /\ CarriesLimits /\ Started)'
  <2>0. Becomes(s, Req("counted", slot[s].start, NoLimits, slot[s].charity,
                       slot[s].candidates, slot[s].lease))
    BY <1>9, RequestSteps DEF TypeOK
  <2>1. /\ \A x \in Slots \ {s} : slot'[x] = slot[x]
        /\ slot'[s].pc = ("counted") /\ slot'[s].start = slot[s].start
        /\ slot'[s].limits = NoLimits /\ slot'[s].lease = slot[s].lease
    BY <2>0 DEF Becomes, Req, Idle
  <2>2. now' = now
    BY <1>9 DEF Pass
  <2> QED
    BY <1>0, <2>1, <2>2 DEF OneLease, CarriesLimits, Started
<1>10. ASSUME NEW s \in Slots, NEW ban \in BOOLEAN, Refuse(s, ban)
      PROVE  (OneLease /\ CarriesLimits /\ Started)'
  <2>0. Becomes(s, Idle)
    BY <1>10 DEF Refuse, Answer, At, Idle, Becomes, TypeOK
  <2>1. /\ \A x \in Slots \ {s} : slot'[x] = slot[x]
        /\ slot'[s].pc = ("idle") /\ slot'[s].start = 0
        /\ slot'[s].limits = NoLimits /\ slot'[s].lease = {}
    BY <2>0 DEF Becomes, Req, Idle
  <2>2. now' = now
    BY <1>10 DEF Refuse
  <2> QED
    BY <1>0, <2>1, <2>2 DEF OneLease, CarriesLimits, Started
<1>11. ASSUME NEW s \in Slots, RecordReceived(s)
      PROVE  (OneLease /\ CarriesLimits /\ Started)'
  <2>0. Becomes(s, Req(IF slot[s].charity THEN "picking" ELSE "ready", 0,
                       slot[s].limits, slot[s].charity, IF slot[s].charity THEN
                       Donations ELSE {}, slot[s].lease))
    BY <1>11, RequestSteps DEF TypeOK
  <2>1. /\ \A x \in Slots \ {s} : slot'[x] = slot[x]
        /\ slot'[s].pc = (IF slot[s].charity THEN "picking" ELSE "ready") /\ slot'[s].start = 0
        /\ slot'[s].limits = slot[s].limits /\ slot'[s].lease = slot[s].lease
    BY <2>0 DEF Becomes, Req, Idle
  <2>2. now' = now
    BY <1>11 DEF RecordReceived
  <2> QED
    BY <1>0, <2>1, <2>2 DEF OneLease, CarriesLimits, Started
<1>12. ASSUME NEW s \in Slots, RefuseCharity(s)
      PROVE  (OneLease /\ CarriesLimits /\ Started)'
  <2>0. Becomes(s, Idle)
    BY <1>12 DEF RefuseCharity, Answer, At, Idle, Becomes, TypeOK
  <2>1. /\ \A x \in Slots \ {s} : slot'[x] = slot[x]
        /\ slot'[s].pc = ("idle") /\ slot'[s].start = 0
        /\ slot'[s].limits = NoLimits /\ slot'[s].lease = {}
    BY <2>0 DEF Becomes, Req, Idle
  <2>2. now' = now
    BY <1>12 DEF RefuseCharity
  <2> QED
    BY <1>0, <2>1, <2>2 DEF OneLease, CarriesLimits, Started
<1>13. ASSUME NEW s \in Slots, NEW d \in Donations, Acquire(s, d)
      PROVE  (OneLease /\ CarriesLimits /\ Started)'
  <2>0. Becomes(s, Req("leased", slot[s].start, slot[s].limits, slot[s].charity,
                       slot[s].candidates, {<<d, now>>}))
    BY <1>13, RequestSteps DEF TypeOK
  <2>1. /\ \A x \in Slots \ {s} : slot'[x] = slot[x]
        /\ slot'[s].pc = ("leased") /\ slot'[s].start = slot[s].start
        /\ slot'[s].limits = slot[s].limits /\ slot'[s].lease = {<<d, now>>}
    BY <2>0 DEF Becomes, Req, Idle
  <2>2. now' = now
    BY <1>13 DEF Acquire
  <2>3. now \in Times
    BY <1>13 DEF TypeOK
  <2> QED
    BY <1>0, <2>1, <2>2, <2>3 DEF OneLease, CarriesLimits, Started
<1>14. ASSUME NEW s \in Slots, Overloaded(s) PROVE (OneLease /\ CarriesLimits /\ Started)'
  <2>0. Becomes(s, Idle)
    BY <1>14 DEF Overloaded, Answer, At, Idle, Becomes, TypeOK
  <2>1. /\ \A x \in Slots \ {s} : slot'[x] = slot[x]
        /\ slot'[s].pc = ("idle") /\ slot'[s].start = 0
        /\ slot'[s].limits = NoLimits /\ slot'[s].lease = {}
    BY <2>0 DEF Becomes, Req, Idle
  <2>2. now' = now
    BY <1>14 DEF Overloaded
  <2> QED
    BY <1>0, <2>1, <2>2 DEF OneLease, CarriesLimits, Started
<1>15. ASSUME NEW s \in Slots, Unavailable(s) PROVE (OneLease /\ CarriesLimits /\ Started)'
  <2>0. PICK e : Becomes(s, Req("picking", slot[s].start, slot[s].limits,
                                slot[s].charity, slot[s].candidates \ {e}, {}))
    BY <1>15, RequestSteps DEF TypeOK
  <2>1. /\ \A x \in Slots \ {s} : slot'[x] = slot[x]
        /\ slot'[s].pc = ("picking") /\ slot'[s].start = slot[s].start
        /\ slot'[s].limits = slot[s].limits /\ slot'[s].lease = {}
    BY <2>0 DEF Becomes, Req, Idle
  <2>2. now' = now
    BY <1>15 DEF Unavailable
  <2> QED
    BY <1>0, <2>1, <2>2 DEF OneLease, CarriesLimits, Started
<1>16. ASSUME NEW s \in Slots, FailSetup(s) PROVE (OneLease /\ CarriesLimits /\ Started)'
  <2>0. Becomes(s, Idle)
    BY <1>16 DEF FailSetup, Answer, At, Idle, Becomes, TypeOK
  <2>1. /\ \A x \in Slots \ {s} : slot'[x] = slot[x]
        /\ slot'[s].pc = ("idle") /\ slot'[s].start = 0
        /\ slot'[s].limits = NoLimits /\ slot'[s].lease = {}
    BY <2>0 DEF Becomes, Req, Idle
  <2>2. now' = now
    BY <1>16 DEF FailSetup
  <2> QED
    BY <1>0, <2>1, <2>2 DEF OneLease, CarriesLimits, Started
<1>17. ASSUME NEW s \in Slots, Dispatch(s) PROVE (OneLease /\ CarriesLimits /\ Started)'
  <2>0. Becomes(s, Req("sent", slot[s].start, slot[s].limits, FALSE, {}, {}))
    BY <1>17, RequestSteps DEF TypeOK
  <2>1. /\ \A x \in Slots \ {s} : slot'[x] = slot[x]
        /\ slot'[s].pc = ("sent") /\ slot'[s].start = slot[s].start
        /\ slot'[s].limits = slot[s].limits /\ slot'[s].lease = {}
    BY <2>0 DEF Becomes, Req, Idle
  <2>2. now' = now
    BY <1>17 DEF Dispatch
  <2> QED
    BY <1>0, <2>1, <2>2 DEF OneLease, CarriesLimits, Started
<1>18. ASSUME NEW s \in Slots, RefuseOwn(s) PROVE (OneLease /\ CarriesLimits /\ Started)'
  <2>0. Becomes(s, Idle)
    BY <1>18 DEF RefuseOwn, Answer, At, Idle, Becomes, TypeOK
  <2>1. /\ \A x \in Slots \ {s} : slot'[x] = slot[x]
        /\ slot'[s].pc = ("idle") /\ slot'[s].start = 0
        /\ slot'[s].limits = NoLimits /\ slot'[s].lease = {}
    BY <2>0 DEF Becomes, Req, Idle
  <2>2. now' = now
    BY <1>18 DEF RefuseOwn
  <2> QED
    BY <1>0, <2>1, <2>2 DEF OneLease, CarriesLimits, Started
<1>19. ASSUME NEW s \in Slots, Forward(s) PROVE (OneLease /\ CarriesLimits /\ Started)'
  <2>0. Becomes(s, Req("sent", slot[s].start, slot[s].limits, slot[s].charity,
                       slot[s].candidates, slot[s].lease))
    BY <1>19, RequestSteps DEF TypeOK
  <2>1. /\ \A x \in Slots \ {s} : slot'[x] = slot[x]
        /\ slot'[s].pc = ("sent") /\ slot'[s].start = slot[s].start
        /\ slot'[s].limits = slot[s].limits /\ slot'[s].lease = slot[s].lease
    BY <2>0 DEF Becomes, Req, Idle
  <2>2. now' = now
    BY <1>19 DEF Forward
  <2> QED
    BY <1>0, <2>1, <2>2 DEF OneLease, CarriesLimits, Started
<1>20. ASSUME NEW s \in Slots, FailUpstream(s) PROVE (OneLease /\ CarriesLimits /\ Started)'
  <2>0. Becomes(s, Idle)
    BY <1>20 DEF FailUpstream, Answer, At, Idle, Becomes, TypeOK
  <2>1. /\ \A x \in Slots \ {s} : slot'[x] = slot[x]
        /\ slot'[s].pc = ("idle") /\ slot'[s].start = 0
        /\ slot'[s].limits = NoLimits /\ slot'[s].lease = {}
    BY <2>0 DEF Becomes, Req, Idle
  <2>2. now' = now
    BY <1>20 DEF FailUpstream
  <2> QED
    BY <1>0, <2>1, <2>2 DEF OneLease, CarriesLimits, Started
<1>21. ASSUME NEW s \in Slots, Succeed(s) PROVE (OneLease /\ CarriesLimits /\ Started)'
  <2>0. Becomes(s, Req("succeeded", slot[s].start, slot[s].limits, slot[s].charity,
                       slot[s].candidates, slot[s].lease))
    BY <1>21, RequestSteps DEF TypeOK
  <2>1. /\ \A x \in Slots \ {s} : slot'[x] = slot[x]
        /\ slot'[s].pc = ("succeeded") /\ slot'[s].start = slot[s].start
        /\ slot'[s].limits = slot[s].limits /\ slot'[s].lease = slot[s].lease
    BY <2>0 DEF Becomes, Req, Idle
  <2>2. now' = now
    BY <1>21 DEF Succeed
  <2> QED
    BY <1>0, <2>1, <2>2 DEF OneLease, CarriesLimits, Started
<1>22. ASSUME NEW s \in Slots, Break(s) PROVE (OneLease /\ CarriesLimits /\ Started)'
  <2>0. Becomes(s, Idle)
    BY <1>22 DEF Break, Answer, At, Idle, Becomes, TypeOK
  <2>1. /\ \A x \in Slots \ {s} : slot'[x] = slot[x]
        /\ slot'[s].pc = ("idle") /\ slot'[s].start = 0
        /\ slot'[s].limits = NoLimits /\ slot'[s].lease = {}
    BY <2>0 DEF Becomes, Req, Idle
  <2>2. now' = now
    BY <1>22 DEF Break
  <2> QED
    BY <1>0, <2>1, <2>2 DEF OneLease, CarriesLimits, Started
<1>23. ASSUME NEW s \in Slots, Finish(s) PROVE (OneLease /\ CarriesLimits /\ Started)'
  <2>0. Becomes(s, Idle)
    BY <1>23 DEF Finish, Record, Answer, At, Idle, Becomes, TypeOK
  <2>1. /\ \A x \in Slots \ {s} : slot'[x] = slot[x]
        /\ slot'[s].pc = ("idle") /\ slot'[s].start = 0
        /\ slot'[s].limits = NoLimits /\ slot'[s].lease = {}
    BY <2>0 DEF Becomes, Req, Idle
  <2>2. now' = now
    BY <1>23 DEF Finish
  <2> QED
    BY <1>0, <2>1, <2>2 DEF OneLease, CarriesLimits, Started
<1>24. ASSUME Tick PROVE (OneLease /\ CarriesLimits /\ Started)'
  <2>1. \A s \in Slots : slot[s].start \in Nat
    BY TimesFinite DEF TypeOK, Request
  <2> QED
    BY <1>0, <1>24, <2>1 DEF Tick, OneLease, CarriesLimits, Started
<1>25. ASSUME NEW v \in LimitValues, 
             SetLimits(v)
      PROVE  (OneLease /\ CarriesLimits /\ Started)'
  BY <1>25 DEF SetLimits, store, OneLease, CarriesLimits, Started
<1>26. ASSUME NEW v \in Overrides, 
             SetUserRPMLimits(v)
      PROVE  (OneLease /\ CarriesLimits /\ Started)'
  BY <1>26 DEF SetUserRPMLimits, store, OneLease, CarriesLimits, Started
<1>27. ASSUME InvalidateCache
      PROVE  (OneLease /\ CarriesLimits /\ Started)'
  BY <1>27 DEF InvalidateCache, store, OneLease, CarriesLimits, Started
<1>28. ASSUME NEW b \in BOOLEAN, 
             SetBan(b)
      PROVE  (OneLease /\ CarriesLimits /\ Started)'
  BY <1>28 DEF SetBan, store, OneLease, CarriesLimits, Started
<1>29. CASE UNCHANGED vars
  BY <1>29 DEF vars, store, OneLease, CarriesLimits, Started
<1> QED
  BY <1>1, <1>2, <1>3, <1>4, <1>5, <1>6, <1>7, <1>8, <1>9, <1>10, <1>11, <1>12, <1>13,
     <1>14, <1>15, <1>16, <1>17, <1>18, <1>19, <1>20, <1>21, <1>22, <1>23, <1>24, <1>25,
     <1>26, <1>27, <1>28, <1>29 DEF Next, Environment, Handle, Gate, Pool, Call

-----------------------------------------------------------------------------
(* Types, put together *)

\* The first states have their types.
LEMMA InitTypes == Init => TypeOK /\ OneLease /\ CarriesLimits /\ Started
<1> SUFFICES ASSUME Init PROVE TypeOK /\ OneLease /\ CarriesLimits /\ Started
  OBVIOUS
<1>1. 0 \in Times /\ 0 <= 0
  BY AdmissionAssumption DEF AdmissionAssumption, Times
<1>2. Idle \in Request /\ Idle.lease = {} /\ Idle.pc = "idle" /\ Idle.start = 0
  BY <1>1, LimitsTyped DEF Idle, Request
<1>3. Cardinality({}) <= 1
  BY FS_EmptySet
<1>4. NoHits \in [Times -> Nat]
  BY DEF NoHits
<1>5. \A s \in Slots : slot[s] = Idle
  BY DEF Init
<1>6. slot \in [Slots -> Request]
  BY <1>2 DEF Init
<1> QED
  BY <1>1, <1>2, <1>3, <1>4, <1>5, <1>6, LimitsTyped DEF Init, TypeOK, OneLease,
     CarriesLimits, Started

\* Every step keeps them.
LEMMA TypesNext ==
  TypeOK /\ OneLease /\ CarriesLimits /\ Started /\ [Next]_vars
    => TypeOK' /\ OneLease' /\ CarriesLimits' /\ Started'
<1> SUFFICES ASSUME TypeOK, OneLease, CarriesLimits, Started, [Next]_vars
             PROVE  TypeOK' /\ OneLease' /\ CarriesLimits' /\ Started'
  OBVIOUS
<1>1. OneLease' /\ CarriesLimits' /\ Started'
  BY CarriedNext
<1>2. slot' \in [Slots -> Request]
  BY SlotTypes
<1>3. \A s \in Slots : Cardinality(slot'[s].lease) <= 1
  <2> SUFFICES ASSUME NEW s \in Slots PROVE Cardinality(slot'[s].lease) <= 1
    OBVIOUS
  <2>1. CASE slot'[s].lease = {}
    <3>1. Cardinality({}) = 0
      BY FS_EmptySet
    <3> QED
      BY <2>1, <3>1
  <2>2. CASE slot'[s].lease # {}
    <3>1. PICK x : slot'[s].lease = {x}
      BY <1>1, <2>2 DEF OneLease
    <3>2. Cardinality({x}) = 1
      BY FS_Singleton
    <3>3. Cardinality(slot'[s].lease) = 1
      BY <3>1, <3>2, Zenon
    <3> QED
      BY <3>3
  <2> QED
    BY <2>1, <2>2
<1>4. hits' \in [Classes -> [Times -> Nat]] /\ made' \in [Classes -> [Times -> Nat]]
  BY HitsStay
<1>5. leases' \in [Donations -> [Times -> Nat]] /\ kept' \in [Donations -> [Times -> Nat]]
  BY LeasesStay
<1>6. Settings'
  BY SettingsStay
<1> QED
  BY <1>1, <1>2, <1>3, <1>4, <1>5, <1>6 DEF TypeOK, Settings

(***************************************************************************)
(* No counter of a window goes below zero, and what a request carries at   *)
(* each stage is what the next one expects, however slots, releases and    *)
(* edits of the limits interleave.                                         *)
(***************************************************************************)
THEOREM TypeCorrect == Spec => []TypeOK
BY InitTypes, TypesNext, PTL DEF Spec

-----------------------------------------------------------------------------
(* How requests move *)

\* No lease is taken, ...
NoneTaken == \A x \in Slots : slot'[x].lease \subseteq slot[x].lease

\* ... no request passes the gate, and none arrives.
NonePasses ==
  \A x \in Slots :
    /\ \A c \in {"A", "B"} : slot'[x].pc \in Past(c) => slot[x].pc \in Past(c)
    /\ slot'[x].pc \in Early => slot[x].pc \in Early /\ slot'[x].start = slot[x].start
    /\ slot'[x].pc = "counted" => slot[x].pc = "counted"

\* A step that concerns none of the windows.
Aside == NoneTaken /\ NonePasses /\ UNCHANGED <<now, hits, made, leases, kept>>

\* Most steps of a request are such steps.
LEMMA AsideSteps ==
  ASSUME TypeOK, NEW s \in Slots,
         \/ RefuseBody(s) \/ LookUpKey(s) \/ ReadCache(s)
         \/ \E c \in Classes : ReadSetting(s, c)
         \/ ReadUser(s) \/ FillCache(s) \/ RefuseCharity(s) \/ RefuseOwn(s)
         \/ Forward(s) \/ FailUpstream(s) \/ Break(s)
         \/ \E ban \in BOOLEAN : FailAntiAbuse(s, ban)
  PROVE  Aside
<1>1. ASSUME RefuseBody(s) PROVE Aside
  <2>0. Becomes(s, Idle)
    BY <1>1 DEF RefuseBody, Answer, At, Idle, Becomes, TypeOK
  <2>1. /\ \A x \in Slots \ {s} : slot'[x] = slot[x]
        /\ slot'[s].pc = ("idle") /\ slot'[s].start = 0
        /\ slot'[s].limits = NoLimits /\ slot'[s].lease = {}
    BY <2>0 DEF Becomes, Req, Idle
  <2>2. slot[s].pc = "arrived" /\ UNCHANGED <<now, hits, made, leases, kept>>
    BY <1>1 DEF RefuseBody, At
  <2> QED
    BY <2>1, <2>2 DEF Aside, NoneTaken, NonePasses, Past, Early
<1>2. ASSUME LookUpKey(s) PROVE Aside
  <2>0. Becomes(s, Idle) \/ Becomes(s, Req("known", slot[s].start, slot[s].limits,
           slot[s].charity, slot[s].candidates, slot[s].lease))
    BY <1>2, RequestSteps DEF TypeOK
  <2>1. /\ \A x \in Slots \ {s} : slot'[x] = slot[x]
        /\ \/ /\ slot'[s].pc = "idle" /\ slot'[s].start = 0
              /\ slot'[s].limits = NoLimits /\ slot'[s].lease = {}
           \/ /\ slot'[s].pc = "known" /\ slot'[s].start = slot[s].start
              /\ slot'[s].limits = slot[s].limits /\ slot'[s].lease = slot[s].lease
    BY <2>0 DEF Becomes, Req, Idle
  <2>2. slot[s].pc = "arrived" /\ UNCHANGED <<now, hits, made, leases, kept>>
    BY <1>2 DEF LookUpKey, At
  <2> QED
    BY <2>1, <2>2 DEF Aside, NoneTaken, NonePasses, Past, Early
<1>3. ASSUME ReadCache(s) PROVE Aside
  <2>0. Becomes(s, Req(IF cache # NoLimits THEN "limited" ELSE "missed", slot[s].start,
                       cache, slot[s].charity, slot[s].candidates, slot[s].lease))
    BY <1>3, RequestSteps DEF TypeOK
  <2>1. /\ \A x \in Slots \ {s} : slot'[x] = slot[x]
        /\ slot'[s].pc = (IF cache # NoLimits THEN "limited" ELSE "missed")
        /\ slot'[s].start = slot[s].start
        /\ slot'[s].limits = cache /\ slot'[s].lease = slot[s].lease
    BY <2>0 DEF Becomes, Req, Idle
  <2>2. slot[s].pc = "known" /\ UNCHANGED <<now, hits, made, leases, kept>>
    BY <1>3 DEF ReadCache, At
  <2> QED
    BY <2>1, <2>2 DEF Aside, NoneTaken, NonePasses, Past, Early
<1>4. ASSUME NEW c \in Classes, ReadSetting(s, c) PROVE Aside
  <2>0. Becomes(s, Req(IF c = "C" THEN "half" ELSE "missed", slot[s].start,
                       Joined(slot[s].limits, c, global[c]), slot[s].charity,
                       slot[s].candidates, slot[s].lease))
    BY <1>4, RequestSteps DEF TypeOK
  <2>1. /\ \A x \in Slots \ {s} : slot'[x] = slot[x]
        /\ slot'[s].pc = (IF c = "C" THEN "half" ELSE "missed")
        /\ slot'[s].start = slot[s].start /\ slot'[s].lease = slot[s].lease
    BY <2>0 DEF Becomes, Req, Idle
  <2>2. slot[s].pc = "missed" /\ UNCHANGED <<now, hits, made, leases, kept>>
    BY <1>4 DEF ReadSetting, At
  <2> QED
    BY <2>1, <2>2 DEF Aside, NoneTaken, NonePasses, Past, Early
<1>5. ASSUME ReadUser(s) PROVE Aside
  <2>0. Becomes(s, Req("read", slot[s].start, Effective(slot[s].limits, override),
                       slot[s].charity, slot[s].candidates, slot[s].lease))
    BY <1>5, RequestSteps DEF TypeOK
  <2>1. /\ \A x \in Slots \ {s} : slot'[x] = slot[x]
        /\ slot'[s].pc = ("read") /\ slot'[s].start = slot[s].start
        /\ slot'[s].limits = Effective(slot[s].limits, override) /\ slot'[s].lease = slot[s].lease
    BY <2>0 DEF Becomes, Req, Idle
  <2>2. slot[s].pc = "half" /\ UNCHANGED <<now, hits, made, leases, kept>>
    BY <1>5 DEF ReadUser, At
  <2> QED
    BY <2>1, <2>2 DEF Aside, NoneTaken, NonePasses, Past, Early
<1>6. ASSUME FillCache(s) PROVE Aside
  <2>0. Becomes(s, Req("limited", slot[s].start, slot[s].limits, slot[s].charity,
                       slot[s].candidates, slot[s].lease))
    BY <1>6, RequestSteps DEF TypeOK
  <2>1. /\ \A x \in Slots \ {s} : slot'[x] = slot[x]
        /\ slot'[s].pc = ("limited") /\ slot'[s].start = slot[s].start
        /\ slot'[s].limits = slot[s].limits /\ slot'[s].lease = slot[s].lease
    BY <2>0 DEF Becomes, Req, Idle
  <2>2. slot[s].pc = "read" /\ UNCHANGED <<now, hits, made, leases, kept>>
    BY <1>6 DEF FillCache, At
  <2> QED
    BY <2>1, <2>2 DEF Aside, NoneTaken, NonePasses, Past, Early
<1>7. ASSUME RefuseCharity(s) PROVE Aside
  <2>0. Becomes(s, Idle)
    BY <1>7 DEF RefuseCharity, Answer, At, Idle, Becomes, TypeOK
  <2>1. /\ \A x \in Slots \ {s} : slot'[x] = slot[x]
        /\ slot'[s].pc = ("idle") /\ slot'[s].start = 0
        /\ slot'[s].limits = NoLimits /\ slot'[s].lease = {}
    BY <2>0 DEF Becomes, Req, Idle
  <2>2. slot[s].pc = "picking" /\ UNCHANGED <<now, hits, made, leases, kept>>
    BY <1>7 DEF RefuseCharity, At
  <2> QED
    BY <2>1, <2>2 DEF Aside, NoneTaken, NonePasses, Past, Early
<1>8. ASSUME RefuseOwn(s) PROVE Aside
  <2>0. Becomes(s, Idle)
    BY <1>8 DEF RefuseOwn, Answer, At, Idle, Becomes, TypeOK
  <2>1. /\ \A x \in Slots \ {s} : slot'[x] = slot[x]
        /\ slot'[s].pc = ("idle") /\ slot'[s].start = 0
        /\ slot'[s].limits = NoLimits /\ slot'[s].lease = {}
    BY <2>0 DEF Becomes, Req, Idle
  <2>2. slot[s].pc = "ready" /\ UNCHANGED <<now, hits, made, leases, kept>>
    BY <1>8 DEF RefuseOwn, At
  <2> QED
    BY <2>1, <2>2 DEF Aside, NoneTaken, NonePasses, Past, Early
<1>9. ASSUME Forward(s) PROVE Aside
  <2>0. Becomes(s, Req("sent", slot[s].start, slot[s].limits, slot[s].charity,
                       slot[s].candidates, slot[s].lease))
    BY <1>9, RequestSteps DEF TypeOK
  <2>1. /\ \A x \in Slots \ {s} : slot'[x] = slot[x]
        /\ slot'[s].pc = ("sent") /\ slot'[s].start = slot[s].start
        /\ slot'[s].limits = slot[s].limits /\ slot'[s].lease = slot[s].lease
    BY <2>0 DEF Becomes, Req, Idle
  <2>2. slot[s].pc = "ready" /\ UNCHANGED <<now, hits, made, leases, kept>>
    BY <1>9 DEF Forward, At
  <2> QED
    BY <2>1, <2>2 DEF Aside, NoneTaken, NonePasses, Past, Early
<1>10. ASSUME FailUpstream(s) PROVE Aside
  <2>0. Becomes(s, Idle)
    BY <1>10 DEF FailUpstream, Answer, At, Idle, Becomes, TypeOK
  <2>1. /\ \A x \in Slots \ {s} : slot'[x] = slot[x]
        /\ slot'[s].pc = ("idle") /\ slot'[s].start = 0
        /\ slot'[s].limits = NoLimits /\ slot'[s].lease = {}
    BY <2>0 DEF Becomes, Req, Idle
  <2>2. slot[s].pc = "sent" /\ UNCHANGED <<now, hits, made, leases, kept>>
    BY <1>10 DEF FailUpstream, At
  <2> QED
    BY <2>1, <2>2 DEF Aside, NoneTaken, NonePasses, Past, Early
<1>11. ASSUME Break(s) PROVE Aside
  <2>0. Becomes(s, Idle)
    BY <1>11 DEF Break, Answer, At, Idle, Becomes, TypeOK
  <2>1. /\ \A x \in Slots \ {s} : slot'[x] = slot[x]
        /\ slot'[s].pc = ("idle") /\ slot'[s].start = 0
        /\ slot'[s].limits = NoLimits /\ slot'[s].lease = {}
    BY <2>0 DEF Becomes, Req, Idle
  <2>2. slot[s].pc = "succeeded" /\ UNCHANGED <<now, hits, made, leases, kept>>
    BY <1>11 DEF Break, At
  <2> QED
    BY <2>1, <2>2 DEF Aside, NoneTaken, NonePasses, Past, Early
<1>12. ASSUME NEW ban \in BOOLEAN, FailAntiAbuse(s, ban) PROVE Aside
  <2>0. Becomes(s, Idle)
    BY <1>12 DEF FailAntiAbuse, Answer, At, Idle, Becomes, TypeOK
  <2>1. /\ \A x \in Slots \ {s} : slot'[x] = slot[x]
        /\ slot'[s].pc = ("idle") /\ slot'[s].start = 0
        /\ slot'[s].limits = NoLimits /\ slot'[s].lease = {}
    BY <2>0 DEF Becomes, Req, Idle
  <2>2. slot[s].pc = "known" /\ UNCHANGED <<now, hits, made, leases, kept>>
    BY <1>12 DEF FailAntiAbuse, At
  <2> QED
    BY <2>1, <2>2 DEF Aside, NoneTaken, NonePasses, Past, Early
<1> QED
  BY <1>1, <1>2, <1>3, <1>4, <1>5, <1>6, <1>7, <1>8, <1>9, <1>10, <1>11, <1>12

\* The others change one slot and one kind of windows.
LEMMA OtherSteps ==
  ASSUME TypeOK, NEW s \in Slots
  PROVE  /\ \A ban \in BOOLEAN : Refuse(s, ban) =>
              NoneTaken /\ NonePasses /\ slot'[s].pc = "idle"
              /\ \A x \in Slots \ {s} : slot'[x] = slot[x]
         /\ RecordReceived(s) =>
              NoneTaken /\ NonePasses /\ slot'[s].pc \notin Early
              /\ \A x \in Slots \ {s} : slot'[x] = slot[x]
         /\ \A d \in Donations : Acquire(s, d) =>
              NonePasses /\ slot'[s].lease = {<<d, now>>}
              /\ \A x \in Slots \ {s} : slot'[x] = slot[x]
         /\ Overloaded(s) => NoneTaken /\ NonePasses
         /\ Unavailable(s) \/ FailSetup(s) \/ Dispatch(s) =>
              NonePasses /\ slot'[s].lease = {} /\ \A x \in Slots \ {s} : slot'[x] = slot[x]
         /\ Succeed(s) => NoneTaken /\ NonePasses /\ slot'[s].pc = "succeeded"
         /\ Finish(s) => NoneTaken /\ NonePasses /\ slot'[s].pc = "idle"
         /\ \A charity \in BOOLEAN : Arrive(s, charity) =>
              NoneTaken /\ slot'[s].pc = "arrived" /\ slot'[s].start = now
              /\ \A x \in Slots \ {s} : slot'[x] = slot[x]
         /\ Pass(s) =>
              NoneTaken /\ slot'[s].pc = "counted" /\ slot'[s].start = slot[s].start
              /\ \A x \in Slots \ {s} : slot'[x] = slot[x]
<1>1. ASSUME NEW ban \in BOOLEAN, Refuse(s, ban)
      PROVE  NoneTaken /\ NonePasses /\ slot'[s].pc = "idle"
             /\ \A x \in Slots \ {s} : slot'[x] = slot[x]
  <2>0. Becomes(s, Idle)
    BY <1>1 DEF Refuse, Answer, At, Idle, Becomes, TypeOK
  <2>1. /\ \A x \in Slots \ {s} : slot'[x] = slot[x]
        /\ slot'[s].pc = ("idle") /\ slot'[s].start = 0
        /\ slot'[s].limits = NoLimits /\ slot'[s].lease = {}
    BY <2>0 DEF Becomes, Req, Idle
  <2>2. slot[s].pc = "limited"
    BY <1>1 DEF Refuse, At
  <2> QED
    BY <2>1, <2>2 DEF NoneTaken, NonePasses, Past, Early
<1>2. ASSUME RecordReceived(s)
      PROVE  NoneTaken /\ NonePasses /\ slot'[s].pc \notin Early
             /\ \A x \in Slots \ {s} : slot'[x] = slot[x]
  <2>0. Becomes(s, Req(IF slot[s].charity THEN "picking" ELSE "ready", 0,
                       slot[s].limits, slot[s].charity, IF slot[s].charity THEN
                       Donations ELSE {}, slot[s].lease))
    BY <1>2, RequestSteps DEF TypeOK
  <2>1. /\ \A x \in Slots \ {s} : slot'[x] = slot[x]
        /\ slot'[s].pc = (IF slot[s].charity THEN "picking" ELSE "ready") /\ slot'[s].start = 0
        /\ slot'[s].limits = slot[s].limits /\ slot'[s].lease = slot[s].lease
    BY <2>0 DEF Becomes, Req, Idle
  <2>2. slot[s].pc = "counted"
    BY <1>2 DEF RecordReceived, At
  <2> QED
    BY <2>1, <2>2 DEF NoneTaken, NonePasses, Past, Early
<1>3. ASSUME NEW d \in Donations, Acquire(s, d)
      PROVE  NonePasses /\ slot'[s].lease = {<<d, now>>}
             /\ \A x \in Slots \ {s} : slot'[x] = slot[x]
  <2>0. Becomes(s, Req("leased", slot[s].start, slot[s].limits, slot[s].charity,
                       slot[s].candidates, {<<d, now>>}))
    BY <1>3, RequestSteps DEF TypeOK
  <2>1. /\ \A x \in Slots \ {s} : slot'[x] = slot[x]
        /\ slot'[s].pc = ("leased") /\ slot'[s].start = slot[s].start
        /\ slot'[s].limits = slot[s].limits /\ slot'[s].lease = {<<d, now>>}
    BY <2>0 DEF Becomes, Req, Idle
  <2>2. slot[s].pc = "picking"
    BY <1>3 DEF Acquire, At
  <2> QED
    BY <2>1, <2>2 DEF NoneTaken, NonePasses, Past, Early
<1>4. ASSUME Overloaded(s)
      PROVE  NoneTaken /\ NonePasses
  <2>0. Becomes(s, Idle)
    BY <1>4 DEF Overloaded, Answer, At, Idle, Becomes, TypeOK
  <2>1. /\ \A x \in Slots \ {s} : slot'[x] = slot[x]
        /\ slot'[s].pc = ("idle") /\ slot'[s].start = 0
        /\ slot'[s].limits = NoLimits /\ slot'[s].lease = {}
    BY <2>0 DEF Becomes, Req, Idle
  <2>2. slot[s].pc = "picking"
    BY <1>4 DEF Overloaded, At
  <2> QED
    BY <2>1, <2>2 DEF NoneTaken, NonePasses, Past, Early
<1>5. ASSUME Unavailable(s)
      PROVE  NonePasses /\ slot'[s].lease = {} /\ \A x \in Slots \ {s} : slot'[x] = slot[x]
  <2>0. PICK e : Becomes(s, Req("picking", slot[s].start, slot[s].limits,
                                slot[s].charity, slot[s].candidates \ {e}, {}))
    BY <1>5, RequestSteps DEF TypeOK
  <2>1. /\ \A x \in Slots \ {s} : slot'[x] = slot[x]
        /\ slot'[s].pc = ("picking") /\ slot'[s].start = slot[s].start
        /\ slot'[s].limits = slot[s].limits /\ slot'[s].lease = {}
    BY <2>0 DEF Becomes, Req, Idle
  <2>2. slot[s].pc = "leased"
    BY <1>5 DEF Unavailable, At
  <2> QED
    BY <2>1, <2>2 DEF NoneTaken, NonePasses, Past, Early
<1>6. ASSUME FailSetup(s)
      PROVE  NonePasses /\ slot'[s].lease = {} /\ \A x \in Slots \ {s} : slot'[x] = slot[x]
  <2>0. Becomes(s, Idle)
    BY <1>6 DEF FailSetup, Answer, At, Idle, Becomes, TypeOK
  <2>1. /\ \A x \in Slots \ {s} : slot'[x] = slot[x]
        /\ slot'[s].pc = ("idle") /\ slot'[s].start = 0
        /\ slot'[s].limits = NoLimits /\ slot'[s].lease = {}
    BY <2>0 DEF Becomes, Req, Idle
  <2>2. slot[s].pc = "leased"
    BY <1>6 DEF FailSetup, At
  <2> QED
    BY <2>1, <2>2 DEF NoneTaken, NonePasses, Past, Early
<1>7. ASSUME Dispatch(s)
      PROVE  NonePasses /\ slot'[s].lease = {} /\ \A x \in Slots \ {s} : slot'[x] = slot[x]
  <2>0. Becomes(s, Req("sent", slot[s].start, slot[s].limits, FALSE, {}, {}))
    BY <1>7, RequestSteps DEF TypeOK
  <2>1. /\ \A x \in Slots \ {s} : slot'[x] = slot[x]
        /\ slot'[s].pc = ("sent") /\ slot'[s].start = slot[s].start
        /\ slot'[s].limits = slot[s].limits /\ slot'[s].lease = {}
    BY <2>0 DEF Becomes, Req, Idle
  <2>2. slot[s].pc = "leased"
    BY <1>7 DEF Dispatch, At
  <2> QED
    BY <2>1, <2>2 DEF NoneTaken, NonePasses, Past, Early
<1>8. ASSUME Succeed(s)
      PROVE  NoneTaken /\ NonePasses /\ slot'[s].pc = "succeeded"
  <2>0. Becomes(s, Req("succeeded", slot[s].start, slot[s].limits, slot[s].charity,
                       slot[s].candidates, slot[s].lease))
    BY <1>8, RequestSteps DEF TypeOK
  <2>1. /\ \A x \in Slots \ {s} : slot'[x] = slot[x]
        /\ slot'[s].pc = ("succeeded") /\ slot'[s].start = slot[s].start
        /\ slot'[s].limits = slot[s].limits /\ slot'[s].lease = slot[s].lease
    BY <2>0 DEF Becomes, Req, Idle
  <2>2. slot[s].pc = "sent"
    BY <1>8 DEF Succeed, At
  <2> QED
    BY <2>1, <2>2 DEF NoneTaken, NonePasses, Past, Early
<1>9. ASSUME Finish(s)
      PROVE  NoneTaken /\ NonePasses /\ slot'[s].pc = "idle"
  <2>0. Becomes(s, Idle)
    BY <1>9 DEF Finish, Record, Answer, At, Idle, Becomes, TypeOK
  <2>1. /\ \A x \in Slots \ {s} : slot'[x] = slot[x]
        /\ slot'[s].pc = ("idle") /\ slot'[s].start = 0
        /\ slot'[s].limits = NoLimits /\ slot'[s].lease = {}
    BY <2>0 DEF Becomes, Req, Idle
  <2>2. slot[s].pc = "succeeded"
    BY <1>9 DEF Finish, At
  <2> QED
    BY <2>1, <2>2 DEF NoneTaken, NonePasses, Past, Early
<1>10. ASSUME NEW charity \in BOOLEAN, Arrive(s, charity)
      PROVE  NoneTaken /\ slot'[s].pc = "arrived" /\ slot'[s].start = now
             /\ \A x \in Slots \ {s} : slot'[x] = slot[x]
  <2>0. Becomes(s, Req("arrived", now, NoLimits, charity, {}, {}))
    BY <1>10, RequestSteps DEF TypeOK
  <2>1. /\ \A x \in Slots \ {s} : slot'[x] = slot[x]
        /\ slot'[s].pc = ("arrived") /\ slot'[s].start = now
        /\ slot'[s].limits = NoLimits /\ slot'[s].lease = {}
    BY <2>0 DEF Becomes, Req, Idle
  <2>2. slot[s].pc = "idle"
    BY <1>10 DEF Arrive, At
  <2> QED
    BY <2>1, <2>2 DEF NoneTaken, NonePasses, Past, Early
<1>11. ASSUME Pass(s)
      PROVE  NoneTaken /\ slot'[s].pc = "counted" /\ slot'[s].start = slot[s].start
             /\ \A x \in Slots \ {s} : slot'[x] = slot[x]
  <2>0. Becomes(s, Req("counted", slot[s].start, NoLimits, slot[s].charity,
                       slot[s].candidates, slot[s].lease))
    BY <1>11, RequestSteps DEF TypeOK
  <2>1. /\ \A x \in Slots \ {s} : slot'[x] = slot[x]
        /\ slot'[s].pc = ("counted") /\ slot'[s].start = slot[s].start
        /\ slot'[s].limits = NoLimits /\ slot'[s].lease = slot[s].lease
    BY <2>0 DEF Becomes, Req, Idle
  <2>2. slot[s].pc = "limited"
    BY <1>11 DEF Pass, At
  <2> QED
    BY <2>1, <2>2 DEF NoneTaken, NonePasses, Past, Early
<1> QED
  BY <1>1, <1>2, <1>3, <1>4, <1>5, <1>6, <1>7, <1>8, <1>9, <1>10, <1>11

\* Steps outside of requests.
LEMMA OutsideSteps ==
  ASSUME TypeOK,
         \/ \E v \in LimitValues : SetLimits(v)
         \/ \E v \in Overrides : SetUserRPMLimits(v)
         \/ \E b \in BOOLEAN : SetBan(b)
         \/ InvalidateCache \/ UNCHANGED vars
  PROVE  Aside
BY DEF SetLimits, SetUserRPMLimits, SetBan, InvalidateCache, vars, Aside, NoneTaken, NonePasses
-----------------------------------------------------------------------------
(* The pool *)

\* Slots can be counted.
LEMMA SlotsFinite == \A T \in SUBSET Slots : IsFiniteSet(T) /\ Cardinality(T) \in Nat
BY AdmissionAssumption, FS_Subset, FS_CardinalityType DEF AdmissionAssumption

\* Claims are numbers.
LEMMA ClaimsType ==
  ASSUME TypeOK, TypeOK', NEW d \in Donations
  PROVE  Claims(d) \in [Times -> Nat] /\ Claims(d)' \in [Times -> Nat]
<1>1. \A t : Holders(d, t) \in SUBSET Slots /\ Holders(d, t)' \in SUBSET Slots
  BY DEF Holders
<1>2. \A t : Cardinality(Holders(d, t)) \in Nat /\ Cardinality(Holders(d, t)') \in Nat
  BY <1>1, SlotsFinite
<1>3. \A t \in Times : kept[d][t] \in Nat /\ kept'[d][t] \in Nat
  BY DEF TypeOK
<1> QED
  BY <1>2, <1>3 DEF Claims

\* Claims that only fall, and a clock that only rises, keep both invariants.
LEMMA ClaimsFall ==
  ASSUME TypeOK, TypeOK', ClaimsRecorded, ClaimsBounded, now' >= now,
         \A d \in Donations, t \in Times : Claims(d)'[t] <= Claims(d)[t],
         \A d \in Donations, t \in Times :
           t > now' - Window => leases'[d][t] - leases[d][t] >= Claims(d)'[t] - Claims(d)[t]
  PROVE  ClaimsRecorded' /\ ClaimsBounded'
<1>1. \A d \in Donations : Claims(d) \in [Times -> Nat] /\ Claims(d)' \in [Times -> Nat]
  BY ClaimsType
<1>2. ASSUME NEW d \in Donations, NEW t \in Times, t > now' - Window
      PROVE  Claims(d)'[t] <= leases'[d][t]
  <2>1. now \in Nat /\ now' \in Nat /\ Window \in Nat /\ t \in Nat
    BY TimesFinite, AdmissionAssumption DEF TypeOK, AdmissionAssumption
  <2>2. t > now - Window
    <3>1. now' >= now /\ t > now' - Window
      BY <1>2
    <3>2. \A x, y, z, w \in Nat : x >= y /\ z > x - w => z > y - w
      OBVIOUS
    <3> QED
      BY <2>1, <3>1, <3>2
  <2>3. Claims(d)[t] <= leases[d][t]
    BY <2>2 DEF ClaimsRecorded
  <2>4. leases[d][t] \in Int /\ leases'[d][t] \in Int
    BY DEF TypeOK
  <2>5. Claims(d)[t] \in Int /\ Claims(d)'[t] \in Int
    BY <1>1
  <2>6. leases'[d][t] - leases[d][t] >= Claims(d)'[t] - Claims(d)[t]
    BY <1>2
  <2> QED
    BY <2>3, <2>4, <2>5, <2>6
<1>3. ASSUME NEW d \in Donations, NEW t \in Times
      PROVE  Count(Claims(d)', t) <= DonationLimit[d]
  <2>1. Count(Claims(d), t) <= DonationLimit[d]
    BY DEF ClaimsBounded
  <2>2. Count(Claims(d)', t) <= Count(Claims(d), t)
    BY <1>1, CountMonotonic
  <2>3. Count(Claims(d), t) \in Int /\ Count(Claims(d)', t) \in Int
    BY <1>1, CountType
  <2>4. DonationLimit[d] \in Int
    BY AdmissionAssumption DEF AdmissionAssumption
  <2> QED
    BY <2>1, <2>2, <2>3, <2>4
<1>4. ClaimsRecorded'
  BY <1>2 DEF ClaimsRecorded
<1>5. ClaimsBounded'
  BY <1>3 DEF ClaimsBounded, Count, Mask, InSpan
<1> QED
  BY <1>4, <1>5

\* A request that gives up what it held leaves the other holders.
LEMMA HoldersFall ==
  ASSUME NEW d, NEW t, \A s \in Slots : slot'[s].lease \subseteq slot[s].lease
  PROVE  /\ Cardinality(Holders(d, t)') <= Cardinality(Holders(d, t))
         /\ Cardinality(Holders(d, t)') \in Nat /\ Cardinality(Holders(d, t)) \in Nat
<1>1. Holders(d, t) \in SUBSET Slots /\ Holders(d, t)' \in SUBSET Holders(d, t)
  BY DEF Holders
<1>2. IsFiniteSet(Holders(d, t)) /\ Cardinality(Holders(d, t)) \in Nat
      /\ Cardinality(Holders(d, t)') \in Nat
  BY <1>1, SlotsFinite
<1> QED
  BY <1>1, <1>2, FS_Subset

\* Steps in which leases only go and the records of the window stay.
LEMMA ClaimsKept ==
  ASSUME TypeOK, TypeOK', ClaimsRecorded, ClaimsBounded, now' >= now, UNCHANGED kept,
         \A s \in Slots : slot'[s].lease \subseteq slot[s].lease,
         \A d \in Donations, t \in Times : t > now' - Window => leases'[d][t] = leases[d][t]
  PROVE  ClaimsRecorded' /\ ClaimsBounded'
<1>1. ASSUME NEW d \in Donations, NEW t \in Times
      PROVE  /\ Claims(d)'[t] <= Claims(d)[t]
             /\ t > now' - Window => leases'[d][t] - leases[d][t] >= Claims(d)'[t] - Claims(d)[t]
  <2>1. /\ Cardinality(Holders(d, t)') <= Cardinality(Holders(d, t))
        /\ Cardinality(Holders(d, t)') \in Nat /\ Cardinality(Holders(d, t)) \in Nat
    BY HoldersFall
  <2>2. kept[d][t] \in Nat /\ leases[d][t] \in Nat /\ leases'[d][t] \in Nat
    BY DEF TypeOK
  <2>3. Claims(d)[t] = kept[d][t] + Cardinality(Holders(d, t))
        /\ Claims(d)'[t] = kept[d][t] + Cardinality(Holders(d, t)')
    BY DEF Claims
  <2>4. t > now' - Window => leases'[d][t] = leases[d][t]
    OBVIOUS
  <2> QED
    BY <2>1, <2>2, <2>3, <2>4
<1> QED
  BY <1>1, ClaimsFall

\* One request loses its lease; it was counted at one time of one donation.
LEMMA HoldersWithout ==
  ASSUME NEW s \in Slots, NEW d, NEW u, slot[s].lease = {<<d, u>>}, slot'[s].lease = {},
         \A x \in Slots \ {s} : slot'[x] = slot[x], NEW e, NEW t
  PROVE  /\ Cardinality(Holders(e, t)') =
              Cardinality(Holders(e, t)) - IF e = d /\ t = u THEN 1 ELSE 0
         /\ e = d /\ t = u => Cardinality(Holders(e, t)) > 0
         /\ Cardinality(Holders(e, t)) \in Nat
<1>1. Holders(e, t) \in SUBSET Slots
  BY DEF Holders
<1>2. IsFiniteSet(Holders(e, t)) /\ Cardinality(Holders(e, t)) \in Nat
  BY <1>1, SlotsFinite
<1>3. CASE e = d /\ t = u
  <2>1. Holders(e, t)' = Holders(e, t) \ {s} /\ s \in Holders(e, t)
    BY <1>3 DEF Holders
  <2>2. Cardinality(Holders(e, t) \ {s}) = Cardinality(Holders(e, t)) - 1
    BY <1>2, <2>1, FS_RemoveElement
  <2>3. Cardinality(Holders(e, t)') = Cardinality(Holders(e, t) \ {s})
    BY <2>1
  <2>4. Holders(e, t) # {}
    BY <2>1
  <2>5. Cardinality(Holders(e, t)) # 0
    BY <1>2, <2>4, FS_EmptySet
  <2> QED
    BY <1>2, <1>3, <2>2, <2>3, <2>5
<1>4. CASE ~(e = d /\ t = u)
  <2>1. Holders(e, t)' = Holders(e, t)
    BY <1>4 DEF Holders
  <2>2. Cardinality(Holders(e, t)') = Cardinality(Holders(e, t))
    BY <2>1
  <2> QED
    BY <1>2, <1>4, <2>2
<1> QED
  BY <1>3, <1>4

\* A lease that is given back takes its own record along, if that is still there.
LEMMA ClaimsReturned ==
  ASSUME TypeOK, TypeOK', OneLease, ClaimsRecorded, ClaimsBounded, UNCHANGED <<now, kept>>,
         NEW s \in Slots, leases' = Released(s), slot'[s].lease = {},
         \A x \in Slots \ {s} : slot'[x] = slot[x]
  PROVE  ClaimsRecorded' /\ ClaimsBounded'
<1>0. now \in Nat
  BY TimesFinite DEF TypeOK
<1>1. CASE slot[s].lease = {}
  <2>1. \A d \in Donations : leases'[d] = leases[d]
    BY <1>1 DEF Released
  <2>2. \A x \in Slots : slot'[x].lease \subseteq slot[x].lease
    OBVIOUS
  <2> QED
    BY <1>0, <2>1, <2>2, ClaimsKept
<1>2. CASE slot[s].lease # {}
  <2>1. PICK d \in Donations, u \in Times : slot[s].lease = {<<d, u>>}
    BY <1>2 DEF OneLease
  <2>2. (CHOOSE x \in slot[s].lease : TRUE) = <<d, u>>
    BY <2>1
  <2>3. ASSUME NEW e \in Donations
        PROVE  leases'[e] = IF e = d THEN ReleaseOwn(leases[d], u) ELSE leases[e]
    BY <2>1, <2>2 DEF Released
  <2>4. ASSUME NEW e \in Donations, NEW t \in Times
        PROVE  /\ Claims(e)'[t] <= Claims(e)[t]
               /\ t > now' - Window =>
                    leases'[e][t] - leases[e][t] >= Claims(e)'[t] - Claims(e)[t]
    <3>1. /\ Cardinality(Holders(e, t)') =
               Cardinality(Holders(e, t)) - IF e = d /\ t = u THEN 1 ELSE 0
          /\ e = d /\ t = u => Cardinality(Holders(e, t)) > 0
          /\ Cardinality(Holders(e, t)) \in Nat
      BY <2>1, HoldersWithout
    <3>2. kept[e][t] \in Nat /\ leases[e][t] \in Nat
      BY DEF TypeOK
    <3>3. Claims(e)[t] = kept[e][t] + Cardinality(Holders(e, t))
          /\ Claims(e)'[t] = kept[e][t] + Cardinality(Holders(e, t)')
      BY DEF Claims
    <3>4. CASE e = d /\ t = u
      <4>1. leases'[e][t] = IF leases[e][t] > 0 THEN leases[e][t] - 1 ELSE leases[e][t]
        BY <2>3, <3>4 DEF ReleaseOwn, TypeOK
      <4> QED
        BY <3>1, <3>2, <3>3, <3>4, <4>1
    <3>5. CASE ~(e = d /\ t = u)
      <4>1. leases'[e][t] = leases[e][t]
        BY <2>1, <2>3, <3>5 DEF ReleaseOwn, TypeOK
      <4> QED
        BY <3>1, <3>2, <3>3, <3>5, <4>1
    <3> QED
      BY <3>4, <3>5
  <2>5. now' >= now
    BY <1>0
  <2> QED
    BY <2>4, <2>5, ClaimsFall
<1> QED
  BY <1>1, <1>2

\* A call that goes on turns its lease into a use.
LEMMA ClaimsUsed ==
  ASSUME TypeOK, TypeOK', OneLease, ClaimsRecorded, ClaimsBounded,
         NEW s \in Slots, Dispatch(s), slot'[s].lease = {},
         \A x \in Slots \ {s} : slot'[x] = slot[x]
  PROVE  ClaimsRecorded' /\ ClaimsBounded'
<1>0. now \in Nat /\ now' = now /\ leases' = leases
  BY TimesFinite DEF TypeOK, Dispatch
<1>1. CASE slot[s].lease = {}
  <2>1. kept' = kept
    BY <1>1 DEF Dispatch, TypeOK
  <2>2. \A x \in Slots : slot'[x].lease \subseteq slot[x].lease
    OBVIOUS
  <2> QED
    BY <1>0, <2>1, <2>2, ClaimsKept
<1>2. CASE slot[s].lease # {}
  <2>1. PICK d \in Donations, u \in Times : slot[s].lease = {<<d, u>>}
    BY <1>2 DEF OneLease
  <2>2. (CHOOSE x \in slot[s].lease : TRUE) = <<d, u>>
    BY <2>1
  <2>3. ASSUME NEW e \in Donations
        PROVE  kept'[e] = IF e = d THEN Hit(kept[d], u) ELSE kept[e]
    BY <2>1, <2>2 DEF Dispatch
  <2>4. ASSUME NEW e \in Donations, NEW t \in Times
        PROVE  /\ Claims(e)'[t] <= Claims(e)[t]
               /\ t > now' - Window =>
                    leases'[e][t] - leases[e][t] >= Claims(e)'[t] - Claims(e)[t]
    <3>1. /\ Cardinality(Holders(e, t)') =
               Cardinality(Holders(e, t)) - IF e = d /\ t = u THEN 1 ELSE 0
          /\ e = d /\ t = u => Cardinality(Holders(e, t)) > 0
          /\ Cardinality(Holders(e, t)) \in Nat
      BY <2>1, HoldersWithout
    <3>2. kept[e][t] \in Nat /\ leases[e][t] \in Nat
      BY DEF TypeOK
    <3>3. kept'[e][t] = kept[e][t] + IF e = d /\ t = u THEN 1 ELSE 0
      BY <2>3 DEF Hit, TypeOK
    <3>4. Claims(e)[t] = kept[e][t] + Cardinality(Holders(e, t))
          /\ Claims(e)'[t] = kept'[e][t] + Cardinality(Holders(e, t)')
      BY DEF Claims
    <3> QED
      BY <1>0, <3>1, <3>2, <3>3, <3>4
  <2>5. now' >= now
    BY <1>0
  <2> QED
    BY <2>4, <2>5, ClaimsFall
<1> QED
  BY <1>1, <1>2

\* A request that takes a lease is one more holder at most.
LEMMA HoldersWith ==
  ASSUME NEW s \in Slots, NEW d, NEW u, slot'[s].lease = {<<d, u>>},
         \A x \in Slots \ {s} : slot'[x] = slot[x], NEW e, NEW t
  PROVE  /\ Cardinality(Holders(e, t)') <=
              Cardinality(Holders(e, t)) + IF e = d /\ t = u THEN 1 ELSE 0
         /\ Cardinality(Holders(e, t)) \in Nat /\ Cardinality(Holders(e, t)') \in Nat
<1>1. Holders(e, t) \in SUBSET Slots /\ Holders(e, t)' \in SUBSET Slots
  BY DEF Holders
<1>2. IsFiniteSet(Holders(e, t)) /\ Cardinality(Holders(e, t)) \in Nat
      /\ Cardinality(Holders(e, t)') \in Nat
  BY <1>1, SlotsFinite
<1>3. CASE e = d /\ t = u
  <2>1. Holders(e, t)' \subseteq Holders(e, t) \cup {s}
    BY <1>3 DEF Holders
  <2>2. /\ IsFiniteSet(Holders(e, t) \cup {s})
        /\ Cardinality(Holders(e, t) \cup {s}) <= Cardinality(Holders(e, t)) + 1
        /\ Cardinality(Holders(e, t) \cup {s}) \in Nat
    <3>1. /\ IsFiniteSet(Holders(e, t) \cup {s})
          /\ Cardinality(Holders(e, t) \cup {s}) =
               IF s \in Holders(e, t) THEN Cardinality(Holders(e, t))
                                      ELSE Cardinality(Holders(e, t)) + 1
      BY <1>2, FS_AddElement
    <3> QED
      BY <1>2, <3>1
  <2>3. Cardinality(Holders(e, t)') <= Cardinality(Holders(e, t) \cup {s})
    BY <2>1, <2>2, FS_Subset
  <2> QED
    BY <1>2, <1>3, <2>2, <2>3
<1>4. CASE ~(e = d /\ t = u)
  <2>1. Holders(e, t)' \in SUBSET Holders(e, t)
    BY <1>4 DEF Holders
  <2>2. Cardinality(Holders(e, t)') <= Cardinality(Holders(e, t))
    BY <1>2, <2>1, FS_Subset
  <2> QED
    BY <1>2, <1>4, <2>2
<1> QED
  BY <1>3, <1>4

\* A request takes a lease only of a donation whose window has room for it.
LEMMA ClaimsTaken ==
  ASSUME TypeOK, TypeOK', ClaimsRecorded, ClaimsBounded,
         NEW s \in Slots, NEW d \in Donations, Acquire(s, d), slot'[s].lease = {<<d, now>>},
         \A x \in Slots \ {s} : slot'[x] = slot[x]
  PROVE  ClaimsRecorded' /\ ClaimsBounded'
<1>0. now \in Nat /\ now \in Times /\ now' = now /\ kept' = kept
      /\ Times \subseteq Nat /\ Window \in Nat /\ Window >= 1
  BY TimesFinite, AdmissionAssumption DEF TypeOK, Acquire, AdmissionAssumption
<1>1. \A e \in Donations : Claims(e) \in [Times -> Nat] /\ Claims(e)' \in [Times -> Nat]
  BY ClaimsType
<1>2. ASSUME NEW e \in Donations, NEW t \in Times
      PROVE  Claims(e)'[t] <= Claims(e)[t] + IF e = d /\ t = now THEN 1 ELSE 0
  <2>1. /\ Cardinality(Holders(e, t)') <=
             Cardinality(Holders(e, t)) + IF e = d /\ t = now THEN 1 ELSE 0
        /\ Cardinality(Holders(e, t)) \in Nat /\ Cardinality(Holders(e, t)') \in Nat
    BY HoldersWith
  <2>2. kept[e][t] \in Nat
    BY DEF TypeOK
  <2>3. Claims(e)[t] = kept[e][t] + Cardinality(Holders(e, t))
        /\ Claims(e)'[t] = kept[e][t] + Cardinality(Holders(e, t)')
    BY <1>0 DEF Claims
  <2> QED
    BY <2>1, <2>2, <2>3
<1>3. ASSUME NEW e \in Donations, NEW t \in Times, t > now - Window
      PROVE  leases'[e][t] = leases[e][t] + IF e = d /\ t = now THEN 1 ELSE 0
  <2>1. leases' = [leases EXCEPT ![d] = Hit(Recent(@, now), now)]
    BY DEF Acquire
  <2>2. leases[e] \in [Times -> Nat] /\ leases \in [Donations -> [Times -> Nat]]
    BY DEF TypeOK
  <2>3. CASE e = d
    <3>1. leases'[e][t] = Hit(Recent(leases[e], now), now)[t]
      BY <2>1, <2>2, <2>3
    <3>2. Recent(leases[e], now)[t] = leases[e][t]
      BY <1>3 DEF Recent
    <3>3. Recent(leases[e], now) \in [Times -> Nat]
      BY <2>2, WindowTypes
    <3>4. Hit(Recent(leases[e], now), now)[t]
            = Recent(leases[e], now)[t] + IF t = now THEN 1 ELSE 0
      BY <1>0, <3>3 DEF Hit
    <3> QED
      BY <2>3, <3>1, <3>2, <3>4
  <2>4. CASE e # d
    BY <2>1, <2>2, <2>4
  <2> QED
    BY <2>3, <2>4
<1>4. ClaimsRecorded'
  <2>1. ASSUME NEW e \in Donations, NEW t \in Times, t > now' - Window
        PROVE  Claims(e)'[t] <= leases'[e][t]
    <3>1. t > now - Window
      BY <1>0, <2>1
    <3>2. Claims(e)[t] <= leases[e][t]
      BY <3>1 DEF ClaimsRecorded
    <3>3. Claims(e)[t] \in Int /\ Claims(e)'[t] \in Int /\ leases[e][t] \in Int
      BY <1>1 DEF TypeOK
    <3>4. leases'[e][t] = leases[e][t] + IF e = d /\ t = now THEN 1 ELSE 0
      BY <1>3, <3>1
    <3> QED
      BY <1>2, <3>2, <3>3, <3>4
  <2> QED
    BY <2>1 DEF ClaimsRecorded
<1>5. ASSUME NEW e \in Donations, NEW t \in Times
      PROVE  Count(Claims(e)', t) <= DonationLimit[e]
  <2>1. Count(Claims(e), t) <= DonationLimit[e] /\ DonationLimit[e] \in Int
    BY AdmissionAssumption DEF ClaimsBounded, AdmissionAssumption
  <2>2. Count(Claims(e), t) \in Int /\ Count(Claims(e)', t) \in Int
    BY <1>1, CountType
  <2>3. CASE e = d /\ InSpan(now, t)
    <3> DEFINE k == [Claims(e) EXCEPT ![now] = @ + 1]
    <3>1. k \in [Times -> Nat] /\ k[now] = Claims(e)[now] + 1
          /\ \A x \in Times \ {now} : k[x] = Claims(e)[x]
      BY <1>0, <1>1
    <3> HIDE DEF k
    <3>2. Count(k, t) = Count(Claims(e), t) + 1
      BY <1>0, <1>1, <2>3, <3>1, CountHit
    <3>3. Count(Claims(e)', t) <= Count(k, t)
      <4>1. \A u \in Times : InSpan(u, t) => Claims(e)'[u] <= k[u]
        <5> SUFFICES ASSUME NEW u \in Times PROVE Claims(e)'[u] <= k[u]
          OBVIOUS
        <5>1. Claims(e)'[u] <= Claims(e)[u] + IF e = d /\ u = now THEN 1 ELSE 0
          BY <1>2
        <5>2. Claims(e)'[u] \in Int /\ Claims(e)[u] \in Int
          BY <1>1
        <5> QED
          BY <2>3, <3>1, <5>1, <5>2
      <4> QED
        BY <1>1, <3>1, <4>1, CountMonotonic
    <3>4. Count(Claims(e), t) <= Count(leases[e], t)
      <4>1. \A u \in Times : InSpan(u, t) => Claims(e)[u] <= leases[e][u]
        <5> SUFFICES ASSUME NEW u \in Times, InSpan(u, t) PROVE Claims(e)[u] <= leases[e][u]
          OBVIOUS
        <5>1. u > now - Window
          BY <1>0, <2>3 DEF InSpan
        <5> QED
          BY <5>1 DEF ClaimsRecorded
      <4>2. leases[e] \in [Times -> Nat]
        BY DEF TypeOK
      <4> QED
        BY <1>1, <4>1, <4>2, CountMonotonic
    <3>5. /\ Count(leases[e], t) <= Total(Recent(leases[e], now))
          /\ Total(Recent(leases[e], now)) \in Nat
      <4>1. leases[e] \in [Times -> Nat] /\ t \in Int /\ now \in Int /\ now <= t
        BY <1>0, <2>3 DEF TypeOK, InSpan
      <4> QED
        BY <4>1, CountSeen
    <3>6. Total(Recent(leases[e], now)) < DonationLimit[e]
      BY <2>3 DEF Acquire, HasRoom
    <3>7. Count(leases[e], t) \in Int /\ Count(k, t) \in Int
      <4>1. leases[e] \in [Times -> Nat]
        BY DEF TypeOK
      <4> QED
        BY <3>1, <4>1, CountType
    <3> QED
      BY <2>1, <2>2, <3>2, <3>3, <3>4, <3>5, <3>6, <3>7
  <2>4. CASE ~(e = d /\ InSpan(now, t))
    <3>1. \A u \in Times : InSpan(u, t) => Claims(e)'[u] <= Claims(e)[u]
      <4> SUFFICES ASSUME NEW u \in Times, InSpan(u, t) PROVE Claims(e)'[u] <= Claims(e)[u]
        OBVIOUS
      <4>1. Claims(e)'[u] <= Claims(e)[u] + IF e = d /\ u = now THEN 1 ELSE 0
        BY <1>2
      <4>2. Claims(e)'[u] \in Int /\ Claims(e)[u] \in Int
        BY <1>1
      <4> QED
        BY <2>4, <4>1, <4>2
    <3>2. Count(Claims(e)', t) <= Count(Claims(e), t)
      BY <1>1, <3>1, CountMonotonic
    <3> QED
      BY <2>1, <2>2, <3>2
  <2> QED
    BY <2>3, <2>4
<1>6. ClaimsBounded'
  BY <1>5 DEF ClaimsBounded, Count, Mask, InSpan
<1> QED
  BY <1>4, <1>6

\* Every step keeps the claims on record and within the limits.
LEMMA ClaimsNext ==
  TypeOK /\ OneLease /\ TypeOK' /\ ClaimsRecorded /\ ClaimsBounded /\ [Next]_vars
    => ClaimsRecorded' /\ ClaimsBounded'
<1> SUFFICES ASSUME TypeOK, OneLease, TypeOK', ClaimsRecorded, ClaimsBounded, [Next]_vars
             PROVE  ClaimsRecorded' /\ ClaimsBounded'
  OBVIOUS
<1>0. now \in Nat /\ now >= now
  BY TimesFinite DEF TypeOK
<1>1. ASSUME Aside PROVE ClaimsRecorded' /\ ClaimsBounded'
  BY <1>0, <1>1, ClaimsKept DEF Aside, NoneTaken
<1>2. ASSUME NEW s \in Slots, NEW ban \in BOOLEAN, NEW charity \in BOOLEAN,
             \/ Arrive(s, charity) \/ Pass(s) \/ Refuse(s, ban) \/ RecordReceived(s)
             \/ Succeed(s) \/ Finish(s)
      PROVE  ClaimsRecorded' /\ ClaimsBounded'
  <2>1. NoneTaken
    BY <1>2, OtherSteps
  <2>2. UNCHANGED <<now, leases, kept>>
    BY <1>2 DEF Arrive, Pass, Refuse, RecordReceived, Succeed, Finish
  <2> QED
    BY <1>0, <2>1, <2>2, ClaimsKept DEF NoneTaken
<1>3. ASSUME NEW s \in Slots, Overloaded(s) PROVE ClaimsRecorded' /\ ClaimsBounded'
  <2>1. NoneTaken
    BY <1>3, OtherSteps
  <2>2. UNCHANGED <<now, kept>>
    BY <1>3 DEF Overloaded
  <2>3. ASSUME NEW d \in Donations, NEW t \in Times, t > now' - Window
        PROVE  leases'[d][t] = leases[d][t]
    <3>1. leases'[d] = Recent(leases[d], now) \/ leases'[d] = leases[d]
      BY <1>3 DEF Overloaded
    <3> QED
      BY <2>2, <2>3, <3>1 DEF Recent
  <2> QED
    BY <1>0, <2>1, <2>2, <2>3, ClaimsKept DEF NoneTaken
<1>4. ASSUME NEW s \in Slots, NEW d \in Donations, Acquire(s, d)
      PROVE  ClaimsRecorded' /\ ClaimsBounded'
  BY <1>4, OtherSteps, ClaimsTaken
<1>5. ASSUME NEW s \in Slots, Unavailable(s) \/ FailSetup(s)
      PROVE  ClaimsRecorded' /\ ClaimsBounded'
  <2>1. slot'[s].lease = {} /\ \A x \in Slots \ {s} : slot'[x] = slot[x]
    BY <1>5, OtherSteps
  <2>2. leases' = Released(s) /\ UNCHANGED <<now, kept>>
    BY <1>5 DEF Unavailable, FailSetup
  <2> QED
    BY <2>1, <2>2, ClaimsReturned
<1>6. ASSUME NEW s \in Slots, Dispatch(s) PROVE ClaimsRecorded' /\ ClaimsBounded'
  BY <1>6, OtherSteps, ClaimsUsed
<1>7. ASSUME Tick PROVE ClaimsRecorded' /\ ClaimsBounded'
  <2>1. now' >= now /\ UNCHANGED <<slot, leases, kept>>
    BY <1>0, <1>7 DEF Tick
  <2> QED
    BY <2>1, ClaimsKept
<1> QED
  BY <1>1, <1>2, <1>3, <1>4, <1>5, <1>6, <1>7, AsideSteps, OutsideSteps
     DEF Next, Environment, Handle, Gate, Pool, Call

\* No claims at first.
LEMMA ClaimsInit == Init => ClaimsRecorded /\ ClaimsBounded
<1> SUFFICES ASSUME Init PROVE ClaimsRecorded /\ ClaimsBounded
  OBVIOUS
<1>1. \A s \in Slots : slot[s].lease = {}
  BY DEF Init, Idle
<1>2. ASSUME NEW d \in Donations, NEW t \in Times PROVE Claims(d)[t] = 0 /\ leases[d][t] = 0
  <2>1. Holders(d, t) = {}
    BY <1>1 DEF Holders
  <2>2. Cardinality(Holders(d, t)) = 0
    BY <2>1, FS_EmptySet
  <2>3. kept[d][t] = 0 /\ leases[d][t] = 0
    BY DEF Init, NoHits
  <2> QED
    BY <2>2, <2>3 DEF Claims
<1>3. ASSUME NEW d \in Donations, NEW t \in Times PROVE Count(Claims(d), t) = 0
  <2>1. Count(Claims(d), t) = Count(NoHits, t)
    BY <1>2, CountEqual DEF NoHits
  <2> QED
    BY <2>1, CountNone
<1>4. \A d \in Donations : DonationLimit[d] >= 0
  BY AdmissionAssumption DEF AdmissionAssumption
<1> QED
  BY <1>2, <1>3, <1>4 DEF ClaimsRecorded, ClaimsBounded

(***************************************************************************)
(* The calls that go on to use a donation stay within its limit in every   *)
(* window, for any number of requests: a lease that is given back late     *)
(* removes its own record or none, so the records always hold every claim  *)
(* of the window, and the gate compares them with the limit in the same    *)
(* critical section that records the next one.                             *)
(***************************************************************************)
THEOREM LeasesAreHeld == Spec => []LeaseHeld
<1>1. Spec => [](TypeOK /\ OneLease /\ CarriesLimits /\ Started)
  BY InitTypes, TypesNext, PTL DEF Spec
<1>2. Spec => [](ClaimsRecorded /\ ClaimsBounded)
  BY <1>1, ClaimsInit, ClaimsNext, PTL DEF Spec
<1>3. TypeOK /\ ClaimsBounded => LeaseHeld
  <2> SUFFICES ASSUME TypeOK, ClaimsBounded, NEW d \in Donations, NEW t \in Times
               PROVE  Count(kept[d], t) <= DonationLimit[d]
    <3>1. TypeOK => \A e \in Donations : kept[e] \in [Times -> Nat]
      BY DEF TypeOK
    <3> QED
      BY <3>1, WindowIsCount DEF LeaseHeld
  <2>1. kept[d] \in [Times -> Nat] /\ \A u \in Times : kept[d][u] \in Nat
    BY DEF TypeOK
  <2>2. \A u \in Times : Cardinality(Holders(d, u)) \in Nat
    <3>1. \A u : Holders(d, u) \in SUBSET Slots
      BY DEF Holders
    <3> QED
      BY <3>1, SlotsFinite
  <2>3. Claims(d) \in [Times -> Nat] /\ \A u \in Times : kept[d][u] <= Claims(d)[u]
    BY <2>1, <2>2 DEF Claims
  <2>4. Count(kept[d], t) <= Count(Claims(d), t)
    BY <2>1, <2>3, CountMonotonic
  <2>5. Count(Claims(d), t) <= DonationLimit[d] /\ DonationLimit[d] \in Int
    BY AdmissionAssumption DEF ClaimsBounded, AdmissionAssumption
  <2>6. Count(kept[d], t) \in Int /\ Count(Claims(d), t) \in Int
    BY <2>1, <2>3, CountType
  <2> QED
    BY <2>4, <2>5, <2>6
<1> QED
  BY <1>1, <1>2, <1>3, PTL
-----------------------------------------------------------------------------
(* The user's windows *)

\* The numbers of the bound.
LEMMA Numbers ==
  /\ Cardinality(Slots) \in Nat /\ Cardinality(Slots) >= 1
  /\ Highest \in Int /\ Highest >= 1
  /\ \A v \in LimitValues, c \in Classes : v[c] \in Int /\ v[c] >= 1 /\ v[c] <= Highest
<1>1. /\ IsFiniteSet(Slots) /\ Slots # {}
      /\ IsFiniteSet(Limits) /\ Limits \subseteq Nat \ {0} /\ Limits # {}
  BY AdmissionAssumption DEF AdmissionAssumption
<1>2. Cardinality(Slots) \in Nat /\ Cardinality(Slots) # 0
  BY <1>1, FS_CardinalityType, FS_EmptySet
<1>3. Limits \subseteq Int
  BY <1>1
<1>4. Highest \in Limits /\ \A n \in Limits : Highest >= n
  BY <1>1, <1>3, MaxExists DEF Highest
<1>5. ASSUME NEW v \in LimitValues, NEW c \in Classes
      PROVE  v[c] \in Int /\ v[c] >= 1 /\ v[c] <= Highest
  <2>1. v[c] \in Limits
    BY DEF LimitValues
  <2>2. Highest >= v[c]
    BY <1>4, <2>1
  <2>3. v[c] \in Nat \ {0} /\ Highest \in Nat \ {0}
    BY <1>1, <1>4, <2>1
  <2> QED
    BY <2>2, <2>3
<1> QED
  BY <1>1, <1>2, <1>4, <1>5

\* Sets of slots, compared.
LEMMA FewerSlots ==
  ASSUME NEW T, NEW U \in SUBSET Slots, T \subseteq U
  PROVE  /\ Cardinality(T) \in Nat /\ Cardinality(U) \in Nat
         /\ Cardinality(T) <= Cardinality(U) /\ Cardinality(U) <= Cardinality(Slots)
         /\ \A s \in U : s \notin T => Cardinality(T) <= Cardinality(U) - 1
<1>1. IsFiniteSet(U) /\ Cardinality(U) \in Nat /\ Cardinality(T) \in Nat
  BY SlotsFinite
<1>2. Cardinality(T) <= Cardinality(U)
  BY <1>1, FS_Subset
<1>3. Cardinality(U) <= Cardinality(Slots)
  BY AdmissionAssumption, FS_Subset DEF AdmissionAssumption
<1>4. ASSUME NEW s \in U, s \notin T PROVE Cardinality(T) <= Cardinality(U) - 1
  <2>1. IsFiniteSet(U \ {s}) /\ Cardinality(U \ {s}) = Cardinality(U) - 1
    BY <1>1, FS_RemoveElement
  <2>2. T \in SUBSET (U \ {s})
    BY <1>4
  <2> QED
    BY <2>1, <2>2, FS_Subset
<1> QED
  BY <1>1, <1>2, <1>3, <1>4

\* Windows as the next state has them.
LEMMA NextWindows ==
  ASSUME NEW c, NEW t
  PROVE  /\ Accurate(c, t)' <=> \A u \in Times : InSpan(u, t) => hits'[c][u] = made'[c][u]
         /\ Answers(c, t)' <=>
              /\ Count(made'[c], t) <= OneOverrun
              /\ now' <= t =>
                   /\ Accurate(c, t)'
                   /\ Count(made'[c], t) + Cardinality(Passed(c)') <= OneOverrun
         /\ Complete(t)' <=>
              /\ Accurate("C", t)'
              /\ Count(made'["C"], t) + Cardinality(Counted(t)') <= OneOverrun
         /\ Closed(t)' <=>
              /\ now' > t
              /\ Count(made'["C"], t) + Cardinality(Awaited(t)')
                   <= OneOverrun + (Cardinality(Slots) - 1)
BY DEF Accurate, Answers, Complete, Closed, Count, Mask, InSpan, OneOverrun, Highest

\* Times are numbers.
LEMMA StartTime ==
  ASSUME TypeOK, NEW s \in Slots
  PROVE  slot[s].start \in Times /\ slot[s].start \in Int
<1>1. slot[s].start \in Times
  BY DEF TypeOK, Request
<1>2. \A x \in Times : x \in Int
  BY TimesFinite
<1> QED
  BY <1>1, <1>2

\* Pruning as of the end of a window or before leaves the window alone.
LEMMA PrunedLater ==
  ASSUME TypeOK, NEW s \in Slots, NEW c \in Classes, NEW t \in Times, slot[s].start <= t,
         NEW u \in Times, InSpan(u, t)
  PROVE  Pruned(s)[c][u] = hits[c][u]
<1>1. Pruned(s)[c] = Recent(hits[c], slot[s].start) \/ Pruned(s)[c] = hits[c]
  BY DEF Pruned
<1>2. slot[s].start \in Int /\ t \in Int /\ u \in Int /\ Window \in Int
  BY StartTime, TimesFinite, AdmissionAssumption DEF AdmissionAssumption
<1>3. u > slot[s].start - Window
  BY <1>2 DEF InSpan
<1> QED
  BY <1>1, <1>3 DEF Recent

\* A request that passes has looked at every window that has not ended before
\* it started, and found it below the highest limit.
LEMMA PassesBelow ==
  ASSUME TypeOK, CarriesLimits, NEW s \in Slots, Pass(s), NEW c \in Classes, NEW t \in Times,
         slot[s].start <= t, Accurate(c, t)
  PROVE  Count(made[c], t) <= Highest - 1
<1>1. slot[s].limits \in LimitValues
  BY DEF CarriesLimits, Pass, At
<1>2. Total(Recent(hits[c], slot[s].start)) < slot[s].limits[c]
  BY DEF Pass, Passes, Under
<1>3. slot[s].start \in Int /\ t \in Int
  BY StartTime, TimesFinite
<1>4. hits[c] \in [Times -> Nat] /\ made[c] \in [Times -> Nat]
  BY DEF TypeOK
<1>5. Count(made[c], t) = Count(hits[c], t)
  BY CountEqual DEF Accurate
<1>6. Count(hits[c], t) <= Total(Recent(hits[c], slot[s].start))
      /\ Total(Recent(hits[c], slot[s].start)) \in Int
  <2>1. ASSUME NEW at \in Int, at <= t
        PROVE  /\ Count(hits[c], t) <= Total(Recent(hits[c], at))
               /\ Total(Recent(hits[c], at)) \in Nat
    BY <1>3, <1>4, <2>1, CountSeen
  <2> QED
    BY <1>3, <2>1
<1>7. Count(hits[c], t) \in Int
  BY <1>4, CountType
<1>8. slot[s].limits[c] \in Int /\ slot[s].limits[c] <= Highest /\ Highest \in Int
  BY <1>1, Numbers
<1> QED
  BY <1>2, <1>5, <1>6, <1>7, <1>8

\* A record is one more hit of the windows around it.
LEMMA Recorded ==
  ASSUME TypeOK, NEW c \in Classes, NEW at \in Times, Record(c, at), NEW t \in Times
  PROVE  /\ InSpan(at, t) => Count(made'[c], t) = Count(made[c], t) + 1
         /\ ~InSpan(at, t) => Count(made'[c], t) = Count(made[c], t)
         /\ at <= t /\ Accurate(c, t) => Accurate(c, t)'
         /\ \A d \in Classes \ {c} : hits'[d] = hits[d] /\ made'[d] = made[d]
<1>1. made \in [Classes -> [Times -> Nat]] /\ hits \in [Classes -> [Times -> Nat]]
  BY DEF TypeOK
<1>2. made'[c] = Hit(made[c], at) /\ hits'[c] = Hit(Recent(hits[c], at), at)
      /\ \A d \in Classes \ {c} : hits'[d] = hits[d] /\ made'[d] = made[d]
  BY <1>1 DEF Record
<1>3. made'[c] \in [Times -> Nat] /\ made[c] \in [Times -> Nat]
  BY <1>1, <1>2, WindowTypes
<1>4. made'[c][at] = made[c][at] + 1
      /\ \A u \in Times \ {at} : made'[c][u] = made[c][u]
  BY <1>2, <1>3 DEF Hit
<1>5. ASSUME InSpan(at, t) PROVE Count(made'[c], t) = Count(made[c], t) + 1
  BY <1>3, <1>4, <1>5, CountHit
<1>6. ASSUME ~InSpan(at, t) PROVE Count(made'[c], t) = Count(made[c], t)
  <2>1. \A u \in Times : InSpan(u, t) => made'[c][u] = made[c][u]
    BY <1>4, <1>6
  <2> QED
    BY <2>1, CountEqual
<1>7. ASSUME at <= t, Accurate(c, t), NEW u \in Times, InSpan(u, t)
      PROVE  hits'[c][u] = made'[c][u]
  <2>1. at \in Int /\ t \in Int /\ u \in Int /\ Window \in Int
    BY TimesFinite, AdmissionAssumption DEF AdmissionAssumption
  <2>2. u > at - Window
    BY <1>7, <2>1 DEF InSpan
  <2>3. Recent(hits[c], at)[u] = hits[c][u] /\ hits[c][u] = made[c][u]
    BY <1>7, <2>2 DEF Recent, Accurate
  <2>4. hits'[c][u] = IF u = at THEN hits[c][u] + 1 ELSE hits[c][u]
    <3>1. Recent(hits[c], at) \in [Times -> Nat]
      BY <1>1, WindowTypes
    <3> QED
      BY <1>2, <2>3, <3>1 DEF Hit
  <2> QED
    BY <1>4, <2>3, <2>4
<1> QED
  BY <1>2, <1>5, <1>6, <1>7, NextWindows

\* Windows nobody records in or prunes keep what they promise.
LEMMA AnswersKept ==
  ASSUME TypeOK, TypeOK', NEW c \in Classes, NEW t \in Times, Answers(c, t), now' >= now,
         made'[c] = made[c],
         now <= t => \A u \in Times : InSpan(u, t) => hits'[c][u] = hits[c][u],
         Passed(c)' \subseteq Passed(c)
  PROVE  Answers(c, t)'
<1>1. now \in Int /\ now' \in Int /\ t \in Int
  BY TimesFinite DEF TypeOK
<1>2. Count(made'[c], t) = Count(made[c], t) /\ Count(made[c], t) \in Int
  <2>1. made[c] \in [Times -> Nat]
    BY DEF TypeOK
  <2> QED
    BY <2>1, CountType
<1>3. Passed(c) \in SUBSET Slots
  BY DEF Passed
<1>4. Cardinality(Passed(c)) \in Int /\ Cardinality(Passed(c)') \in Int
      /\ Cardinality(Passed(c)') <= Cardinality(Passed(c))
  BY <1>3, FewerSlots
<1>5. OneOverrun \in Int
  BY Numbers DEF OneOverrun
<1>6. ASSUME now' <= t
      PROVE  /\ Accurate(c, t)'
             /\ Count(made'[c], t) + Cardinality(Passed(c)') <= OneOverrun
  <2>1. now <= t
    BY <1>1, <1>6
  <2>2. Accurate(c, t) /\ Count(made[c], t) + Cardinality(Passed(c)) <= OneOverrun
    BY <2>1 DEF Answers
  <2>3. Accurate(c, t)'
    BY <2>1, <2>2, NextWindows DEF Accurate
  <2> QED
    BY <1>2, <1>4, <1>5, <2>2, <2>3
<1>7. Count(made'[c], t) <= OneOverrun
  BY <1>2 DEF Answers
<1> QED
  BY <1>6, <1>7, NextWindows

\* A request that records its answer was counted among those that passed.
LEMMA AnswersRecorded ==
  ASSUME TypeOK, TypeOK', NEW c \in Classes, NEW t \in Times, Answers(c, t), now' = now,
         Record(c, now), NEW s \in Passed(c),
         Passed(c)' \subseteq Passed(c), s \notin Passed(c)'
  PROVE  Answers(c, t)'
<1>1. now \in Int /\ t \in Int /\ now \in Times
  BY TimesFinite DEF TypeOK
<1>2. Count(made[c], t) \in Int
  <2>1. made[c] \in [Times -> Nat]
    BY DEF TypeOK
  <2> QED
    BY <2>1, CountType
<1>3. Passed(c) \in SUBSET Slots
  BY DEF Passed
<1>4. Cardinality(Passed(c)) \in Int /\ Cardinality(Passed(c)') \in Nat
      /\ Cardinality(Passed(c)') <= Cardinality(Passed(c)) - 1
  BY <1>3, FewerSlots
<1>5. OneOverrun \in Int
  BY Numbers DEF OneOverrun
<1>6. CASE now <= t
  <2>1. Accurate(c, t) /\ Count(made[c], t) + Cardinality(Passed(c)) <= OneOverrun
    BY <1>6 DEF Answers
  <2>2. Accurate(c, t)'
    BY <1>1, <1>6, <2>1, Recorded
  <2>3. Count(made'[c], t) = Count(made[c], t) + 1 \/ Count(made'[c], t) = Count(made[c], t)
    BY <1>1, Recorded
  <2>4. Count(made'[c], t) + Cardinality(Passed(c)') <= OneOverrun
    BY <1>2, <1>4, <1>5, <2>1, <2>3
  <2>5. Count(made'[c], t) <= OneOverrun
    BY <1>2, <1>4, <1>5, <2>3, <2>4
  <2> QED
    BY <2>2, <2>4, <2>5, NextWindows
<1>7. CASE ~(now <= t)
  <2>1. ~InSpan(now, t)
    BY <1>7 DEF InSpan
  <2>2. Count(made'[c], t) = Count(made[c], t)
    BY <1>1, <2>1, Recorded
  <2>3. ~(now' <= t)
    BY <1>7
  <2> QED
    BY <2>2, <2>3, NextWindows DEF Answers
<1> QED
  BY <1>6, <1>7

\* A request that passes found room in every window that is not over.
LEMMA AnswersPass ==
  ASSUME TypeOK, TypeOK', CarriesLimits, Started, NEW c \in {"A", "B"}, NEW t \in Times,
         Answers(c, t), NEW s \in Slots, Pass(s)
  PROVE  Answers(c, t)'
<1>1. c \in Classes
  BY DEF Classes
<1>2. hits' = Pruned(s) /\ UNCHANGED <<now, made>>
  BY DEF Pass
<1>3. Count(made'[c], t) = Count(made[c], t) /\ Count(made[c], t) \in Int
  <2>1. made[c] \in [Times -> Nat]
    BY <1>1 DEF TypeOK
  <2> QED
    BY <1>2, <2>1, CountType
<1>4. ASSUME now' <= t
      PROVE  /\ Accurate(c, t)'
             /\ Count(made'[c], t) + Cardinality(Passed(c)') <= OneOverrun
  <2>1. Accurate(c, t)
    BY <1>2, <1>4 DEF Answers
  <2>2. slot[s].start <= t
    <3>1. slot[s].start <= now /\ slot[s].start \in Times /\ now \in Times /\ now <= t
      BY <1>2, <1>4 DEF Started, TypeOK, Request
    <3> QED
      BY <3>1, TimesFinite
  <2>3. \A u \in Times : InSpan(u, t) => hits'[c][u] = hits[c][u]
    BY <1>1, <1>2, <2>2, PrunedLater
  <2>4. Accurate(c, t)'
    BY <1>2, <2>1, <2>3, NextWindows DEF Accurate
  <2>5. Count(made[c], t) <= Highest - 1
    BY <1>1, <2>1, <2>2, PassesBelow
  <2>6. Passed(c)' \subseteq Slots
    BY DEF Passed
  <2>7. Cardinality(Passed(c)') \in Int /\ Cardinality(Passed(c)') <= Cardinality(Slots)
    BY <2>6, FewerSlots
  <2> QED
    BY <1>3, <2>4, <2>5, <2>7, Numbers DEF OneOverrun
<1>5. Count(made'[c], t) <= OneOverrun
  BY <1>3 DEF Answers
<1> QED
  BY <1>4, <1>5, NextWindows

\* Who has passed, when nobody passes.
LEMMA PassedFalls ==
  ASSUME NonePasses
  PROVE  /\ \A c \in {"A", "B"} : Passed(c)' \subseteq Passed(c)
         /\ \A t : Counted(t)' \subseteq Counted(t) /\ Awaited(t)' \subseteq Awaited(t)
<1>1. \A x \in Slots :
        /\ \A c \in {"A", "B"} : slot'[x].pc \in Past(c) => slot[x].pc \in Past(c)
        /\ slot'[x].pc \in Early => slot[x].pc \in Early /\ slot'[x].start = slot[x].start
        /\ slot'[x].pc = "counted" => slot[x].pc = "counted"
  BY DEF NonePasses
<1>2. ASSUME NEW c \in {"A", "B"} PROVE Passed(c)' \subseteq Passed(c)
  BY <1>1 DEF Passed, Past
<1>3. ASSUME NEW t PROVE Awaited(t)' \subseteq Awaited(t)
  BY <1>1 DEF Awaited, Early, InSpan
<1>4. ASSUME NEW t PROVE Counted(t)' \subseteq Counted(t)
  <2>1. "counted" \in Early
    BY DEF Early
  <2> QED
    BY <1>1, <2>1 DEF Counted, InSpan
<1> QED
  BY <1>2, <1>3, <1>4

\* Every step keeps the windows of answers.
LEMMA AnswersNext ==
  TypeOK /\ TypeOK' /\ CarriesLimits /\ Started /\ AnswersBounded /\ [Next]_vars
    => AnswersBounded'
<1> SUFFICES ASSUME TypeOK, TypeOK', CarriesLimits, Started, AnswersBounded, [Next]_vars,
                    NEW c \in {"A", "B"}, NEW t \in Times
             PROVE  Answers(c, t)'
  BY DEF AnswersBounded
<1>0. c \in Classes /\ "A" \in Classes /\ "B" \in Classes /\ "C" \in Classes /\ c # "C"
  BY DEF Classes
<1>1. now \in Int /\ now >= now /\ now \in Times /\ t \in Int
  BY TimesFinite DEF TypeOK
<1>2. Answers(c, t)
  BY DEF AnswersBounded
<1>3. ASSUME NonePasses, UNCHANGED <<now, hits, made>> PROVE Answers(c, t)'
  BY <1>0, <1>1, <1>2, <1>3, PassedFalls, AnswersKept
<1>4. ASSUME NEW s \in Slots, NEW charity \in BOOLEAN, Arrive(s, charity)
      PROVE  Answers(c, t)'
  <2>1. slot'[s].pc = "arrived" /\ \A x \in Slots \ {s} : slot'[x] = slot[x]
    BY <1>4, OtherSteps
  <2>2. Passed(c)' \subseteq Passed(c)
    BY <2>1 DEF Passed, Past
  <2>3. UNCHANGED <<now, hits, made>>
    BY <1>4 DEF Arrive
  <2> QED
    BY <1>0, <1>1, <1>2, <2>2, <2>3, AnswersKept
<1>5. ASSUME NEW s \in Slots, Pass(s) PROVE Answers(c, t)'
  BY <1>2, <1>5, AnswersPass
<1>6. ASSUME NEW s \in Slots, NEW ban \in BOOLEAN, Refuse(s, ban) PROVE Answers(c, t)'
  <2>1. NonePasses
    BY <1>6, OtherSteps
  <2>2. hits' = Pruned(s) /\ UNCHANGED <<now, made>>
    BY <1>6 DEF Refuse
  <2>3. ASSUME now <= t PROVE \A u \in Times : InSpan(u, t) => hits'[c][u] = hits[c][u]
    <3>1. slot[s].start <= t
      BY <1>1, <2>3, StartTime DEF Started
    <3> QED
      BY <1>0, <2>2, <3>1, PrunedLater
  <2> QED
    BY <1>0, <1>1, <1>2, <2>1, <2>2, <2>3, PassedFalls, AnswersKept
<1>7. ASSUME NEW s \in Slots, RecordReceived(s) PROVE Answers(c, t)'
  <2>1. NonePasses
    BY <1>7, OtherSteps
  <2>2. Record("C", slot[s].start) /\ now' = now /\ slot[s].start \in Times
    BY <1>7 DEF RecordReceived, TypeOK, Request
  <2>3. hits'[c] = hits[c] /\ made'[c] = made[c]
    BY <1>0, <2>2, Recorded
  <2> QED
    BY <1>0, <1>1, <1>2, <2>1, <2>2, <2>3, PassedFalls, AnswersKept
<1>8. ASSUME NEW s \in Slots, Succeed(s) PROVE Answers(c, t)'
  <2>1. NonePasses /\ slot'[s].pc = "succeeded"
    BY <1>8, OtherSteps
  <2>2. Record("B", now) /\ now' = now /\ slot[s].pc = "sent"
    BY <1>8 DEF Succeed, At
  <2>3. CASE c = "A"
    <3>1. hits'[c] = hits[c] /\ made'[c] = made[c]
      BY <1>0, <1>1, <2>2, <2>3, Recorded
    <3> QED
      BY <1>0, <1>1, <1>2, <2>1, <2>2, <3>1, PassedFalls, AnswersKept
  <2>4. CASE c = "B"
    <3>1. s \in Passed(c) /\ s \notin Passed(c)'
      BY <2>1, <2>2, <2>4 DEF Passed, Past
    <3> QED
      BY <1>0, <1>2, <2>1, <2>2, <2>4, <3>1, PassedFalls, AnswersRecorded
  <2> QED
    BY <2>3, <2>4
<1>9. ASSUME NEW s \in Slots, Finish(s) PROVE Answers(c, t)'
  <2>1. NonePasses /\ slot'[s].pc = "idle"
    BY <1>9, OtherSteps
  <2>2. Record("A", now) /\ now' = now /\ slot[s].pc = "succeeded"
    BY <1>9 DEF Finish, At
  <2>3. CASE c = "B"
    <3>1. hits'[c] = hits[c] /\ made'[c] = made[c]
      BY <1>0, <1>1, <2>2, <2>3, Recorded
    <3> QED
      BY <1>0, <1>1, <1>2, <2>1, <2>2, <3>1, PassedFalls, AnswersKept
  <2>4. CASE c = "A"
    <3>1. s \in Passed(c) /\ s \notin Passed(c)'
      BY <2>1, <2>2, <2>4 DEF Passed, Past
    <3> QED
      BY <1>0, <1>2, <2>1, <2>2, <2>4, <3>1, PassedFalls, AnswersRecorded
  <2> QED
    BY <2>3, <2>4
<1>10. ASSUME Tick PROVE Answers(c, t)'
  <2>1. now' >= now /\ UNCHANGED <<slot, hits, made>>
    BY <1>1, <1>10 DEF Tick
  <2>2. Passed(c)' \subseteq Passed(c)
    BY <2>1 DEF Passed, Past
  <2> QED
    BY <1>0, <1>2, <2>1, <2>2, AnswersKept
<1>11. ASSUME NEW s \in Slots, NEW d \in Donations, Acquire(s, d)
       PROVE  NonePasses /\ UNCHANGED <<now, hits, made>>
  <2>1. NonePasses
    BY <1>11, OtherSteps
  <2> QED
    BY <1>11, <2>1 DEF Acquire
<1>12. ASSUME NEW s \in Slots, Overloaded(s) \/ Unavailable(s) \/ FailSetup(s) \/ Dispatch(s)
       PROVE  NonePasses /\ UNCHANGED <<now, hits, made>>
  <2>1. NonePasses
    BY <1>12, OtherSteps
  <2> QED
    BY <1>12, <2>1 DEF Overloaded, Unavailable, FailSetup, Dispatch
<1>13. Aside => NonePasses /\ UNCHANGED <<now, hits, made>>
  BY DEF Aside
<1> QED
  BY <1>3, <1>4, <1>5, <1>6, <1>7, <1>8, <1>9, <1>10, <1>11, <1>12, <1>13, AsideSteps,
     OutsideSteps
     DEF Next, Environment, Handle, Gate, Pool, Call

\* The windows of arrivals: nobody new, nothing recorded, nothing pruned.
LEMMA ReceivedKept ==
  ASSUME TypeOK, TypeOK', NEW t \in Times, Complete(t) \/ Closed(t), now' >= now,
         made'["C"] = made["C"],
         \/ Closed(t)
         \/ \A u \in Times : InSpan(u, t) => hits'["C"][u] = hits["C"][u],
         Closed(t) => Awaited(t)' \subseteq Awaited(t),
         ~Closed(t) => Counted(t)' \subseteq Counted(t)
  PROVE  Complete(t)' \/ Closed(t)'
<1>1. now \in Int /\ now' \in Int /\ t \in Int
  BY TimesFinite DEF TypeOK
<1>2. "C" \in Classes
  BY DEF Classes
<1>3. Count(made'["C"], t) = Count(made["C"], t) /\ Count(made["C"], t) \in Int
  <2>1. made["C"] \in [Times -> Nat]
    BY <1>2 DEF TypeOK
  <2> QED
    BY <2>1, CountType
<1>4. OneOverrun \in Int /\ Cardinality(Slots) \in Int
  BY Numbers DEF OneOverrun
<1>5. CASE Closed(t)
  <2>1. Awaited(t) \in SUBSET Slots /\ Awaited(t)' \subseteq Awaited(t)
    BY <1>5 DEF Awaited
  <2>2. Cardinality(Awaited(t)) \in Int /\ Cardinality(Awaited(t)') \in Int
        /\ Cardinality(Awaited(t)') <= Cardinality(Awaited(t))
    BY <2>1, FewerSlots
  <2>3. /\ now > t
        /\ Count(made["C"], t) + Cardinality(Awaited(t))
             <= OneOverrun + (Cardinality(Slots) - 1)
    BY <1>5 DEF Closed
  <2>4. now' > t
    BY <1>1, <2>3
  <2>5. Count(made'["C"], t) + Cardinality(Awaited(t)') <= OneOverrun + (Cardinality(Slots) - 1)
    BY <1>3, <1>4, <2>2, <2>3
  <2> QED
    BY <2>4, <2>5, NextWindows
<1>6. CASE ~Closed(t)
  <2>1. Complete(t) /\ \A u \in Times : InSpan(u, t) => hits'["C"][u] = hits["C"][u]
    BY <1>6
  <2>2. Counted(t) \in SUBSET Slots /\ Counted(t)' \subseteq Counted(t)
    BY <1>6 DEF Counted
  <2>3. Cardinality(Counted(t)) \in Int /\ Cardinality(Counted(t)') \in Int
        /\ Cardinality(Counted(t)') <= Cardinality(Counted(t))
    BY <2>2, FewerSlots
  <2>4. Accurate("C", t)'
    BY <2>1, NextWindows DEF Complete, Accurate
  <2>5. Count(made["C"], t) + Cardinality(Counted(t)) <= OneOverrun
    BY <2>1 DEF Complete
  <2>6. Count(made'["C"], t) + Cardinality(Counted(t)') <= OneOverrun
    BY <1>3, <1>4, <2>3, <2>5
  <2> QED
    BY <2>4, <2>6, NextWindows
<1> QED
  BY <1>5, <1>6

\* A complete window that is over and pruned by a request outside of it: of the
\* other requests, each may still record one hit.
LEMMA WindowCloses ==
  ASSUME TypeOK, TypeOK', NEW t \in Times, Complete(t), now' > t,
         Count(made'["C"], t) = Count(made["C"], t), NEW s \in Slots, s \notin Awaited(t)'
  PROVE  Closed(t)'
<1>1. "C" \in Classes
  BY DEF Classes
<1>2. Count(made["C"], t) \in Int
  <2>1. made["C"] \in [Times -> Nat]
    BY <1>1 DEF TypeOK
  <2> QED
    BY <2>1, CountType
<1>3. OneOverrun \in Int /\ Cardinality(Slots) \in Int
  BY Numbers DEF OneOverrun
<1>4. Counted(t) \in SUBSET Slots /\ Awaited(t)' \subseteq Slots /\ Slots \in SUBSET Slots
  BY DEF Counted, Awaited
<1>5. Cardinality(Counted(t)) \in Nat
  BY <1>4, SlotsFinite
<1>6. Cardinality(Awaited(t)') \in Int /\ Cardinality(Awaited(t)') <= Cardinality(Slots) - 1
  BY <1>4, FewerSlots
<1>7. Count(made["C"], t) + Cardinality(Counted(t)) <= OneOverrun
  BY DEF Complete
<1>8. Count(made'["C"], t) + Cardinality(Awaited(t)') <= OneOverrun + (Cardinality(Slots) - 1)
  BY <1>2, <1>3, <1>5, <1>6, <1>7
<1> QED
  BY <1>8, NextWindows

\* A request passes: into a complete window that has room, or into none.
LEMMA ReceivedPass ==
  ASSUME TypeOK, TypeOK', CarriesLimits, Started, NEW t \in Times, Complete(t) \/ Closed(t),
         NEW s \in Slots, Pass(s)
  PROVE  Complete(t)' \/ Closed(t)'
<1>0. "C" \in Classes
  BY DEF Classes
<1>1. now \in Int /\ t \in Int /\ slot[s].start \in Int /\ slot[s].start <= now
  <2>1. now \in Int /\ t \in Int
    BY TimesFinite DEF TypeOK
  <2> QED
    BY <2>1, StartTime DEF Started
<1>2. hits' = Pruned(s) /\ now' = now /\ made' = made /\ slot[s].pc = "limited"
  BY DEF Pass, At
<1>3. slot'[s].pc = "counted" /\ slot'[s].start = slot[s].start
      /\ \A x \in Slots \ {s} : slot'[x] = slot[x]
  BY OtherSteps
<1>4. Count(made'["C"], t) = Count(made["C"], t) /\ Count(made["C"], t) \in Int
  <2>1. made["C"] \in [Times -> Nat]
    BY <1>0 DEF TypeOK
  <2> QED
    BY <1>2, <2>1, CountType
<1>5. CASE Closed(t)
  <2>1. Awaited(t)' \subseteq Awaited(t)
    BY <1>2, <1>3 DEF Awaited, Early, InSpan
  <2> QED
    BY <1>1, <1>2, <1>5, <2>1, ReceivedKept
<1>6. CASE Complete(t) /\ slot[s].start <= t
  <2>1. Accurate("C", t)
    BY <1>6 DEF Complete
  <2>2. \A u \in Times : InSpan(u, t) => hits'["C"][u] = hits["C"][u]
    BY <1>0, <1>2, <1>6, PrunedLater
  <2>3. Accurate("C", t)'
    BY <1>2, <2>1, <2>2, NextWindows DEF Accurate
  <2>4. Count(made["C"], t) <= Highest - 1
    BY <1>0, <1>6, <2>1, PassesBelow
  <2>5. Counted(t)' \subseteq Slots
    BY DEF Counted
  <2>6. Cardinality(Counted(t)') \in Int /\ Cardinality(Counted(t)') <= Cardinality(Slots)
    BY <2>5, FewerSlots
  <2>7. Count(made'["C"], t) + Cardinality(Counted(t)') <= OneOverrun
    BY <1>4, <2>4, <2>6, Numbers DEF OneOverrun
  <2> QED
    BY <2>3, <2>7, NextWindows
<1>7. CASE Complete(t) /\ ~(slot[s].start <= t)
  <2>1. now' > t
    BY <1>1, <1>2, <1>7
  <2>2. s \notin Awaited(t)'
    BY <1>3, <1>7 DEF Awaited, InSpan
  <2> QED
    BY <1>4, <1>7, <2>1, <2>2, WindowCloses
<1> QED
  BY <1>5, <1>6, <1>7

\* A request records its arrival: in a window it was awaited in, or in none.
LEMMA ReceivedRecorded ==
  ASSUME TypeOK, TypeOK', Started, NEW t \in Times, Complete(t) \/ Closed(t),
         NEW s \in Slots, RecordReceived(s)
  PROVE  Complete(t)' \/ Closed(t)'
<1>0. "C" \in Classes
  BY DEF Classes
<1>1. now \in Int /\ t \in Int /\ slot[s].start \in Int /\ slot[s].start <= now
      /\ slot[s].start \in Times
  <2>1. now \in Int /\ t \in Int
    BY TimesFinite DEF TypeOK
  <2> QED
    BY <2>1, StartTime DEF Started
<1>2. Record("C", slot[s].start) /\ now' = now /\ slot[s].pc = "counted"
  BY DEF RecordReceived, At
<1>3. NonePasses /\ slot'[s].pc \notin Early
  BY OtherSteps
<1>4. Awaited(t)' \subseteq Awaited(t) /\ Counted(t)' \subseteq Counted(t)
      /\ s \notin Awaited(t)' /\ s \notin Counted(t)'
  BY <1>3, PassedFalls DEF Awaited, Counted, Early
<1>5. Awaited(t) \in SUBSET Slots /\ Counted(t) \in SUBSET Slots
  BY DEF Awaited, Counted
<1>6. /\ Cardinality(Awaited(t)) \in Int /\ Cardinality(Awaited(t)') \in Int
      /\ Cardinality(Awaited(t)') <= Cardinality(Awaited(t))
      /\ s \in Awaited(t) => Cardinality(Awaited(t)') <= Cardinality(Awaited(t)) - 1
  BY <1>4, <1>5, FewerSlots
<1>7. /\ Cardinality(Counted(t)) \in Int /\ Cardinality(Counted(t)') \in Int
      /\ Cardinality(Counted(t)') <= Cardinality(Counted(t))
      /\ s \in Counted(t) => Cardinality(Counted(t)') <= Cardinality(Counted(t)) - 1
  BY <1>4, <1>5, FewerSlots
<1>8. InSpan(slot[s].start, t) => s \in Awaited(t) /\ s \in Counted(t)
  BY <1>2 DEF Awaited, Counted, Early
<1>9. /\ InSpan(slot[s].start, t) => Count(made'["C"], t) = Count(made["C"], t) + 1
      /\ ~InSpan(slot[s].start, t) => Count(made'["C"], t) = Count(made["C"], t)
      /\ slot[s].start <= t /\ Accurate("C", t) => Accurate("C", t)'
  BY <1>0, <1>1, <1>2, Recorded
<1>10. Count(made["C"], t) \in Int
  <2>1. made["C"] \in [Times -> Nat]
    BY <1>0 DEF TypeOK
  <2> QED
    BY <2>1, CountType
<1>11. OneOverrun \in Int /\ Cardinality(Slots) \in Int
  BY Numbers DEF OneOverrun
<1>12. CASE Closed(t)
  <2>1. /\ now > t
        /\ Count(made["C"], t) + Cardinality(Awaited(t))
             <= OneOverrun + (Cardinality(Slots) - 1)
    BY <1>12 DEF Closed
  <2>2. Count(made'["C"], t) + Cardinality(Awaited(t)')
          <= Count(made["C"], t) + Cardinality(Awaited(t))
    BY <1>6, <1>8, <1>9, <1>10
  <2>3. Count(made'["C"], t) \in Int
    BY <1>9, <1>10
  <2>4. Count(made'["C"], t) + Cardinality(Awaited(t)') <= OneOverrun + (Cardinality(Slots) - 1)
    BY <1>6, <1>10, <1>11, <2>1, <2>2, <2>3
  <2> QED
    BY <1>2, <2>1, <2>4, NextWindows
<1>13. CASE Complete(t) /\ slot[s].start <= t
  <2>1. Accurate("C", t)' /\ Count(made["C"], t) + Cardinality(Counted(t)) <= OneOverrun
    BY <1>9, <1>13 DEF Complete
  <2>2. Count(made'["C"], t) + Cardinality(Counted(t)')
          <= Count(made["C"], t) + Cardinality(Counted(t))
    BY <1>7, <1>8, <1>9, <1>10
  <2>3. Count(made'["C"], t) \in Int
    BY <1>9, <1>10
  <2>4. Count(made'["C"], t) + Cardinality(Counted(t)') <= OneOverrun
    BY <1>7, <1>10, <1>11, <2>1, <2>2, <2>3
  <2> QED
    BY <2>1, <2>4, NextWindows
<1>14. CASE Complete(t) /\ ~(slot[s].start <= t)
  <2>1. now' > t /\ ~InSpan(slot[s].start, t)
    BY <1>1, <1>2, <1>14 DEF InSpan
  <2> QED
    BY <1>4, <1>9, <1>14, <2>1, WindowCloses
<1> QED
  BY <1>12, <1>13, <1>14

\* Every step keeps the windows of arrivals.
LEMMA ReceivedNext ==
  TypeOK /\ TypeOK' /\ CarriesLimits /\ Started /\ ReceivedBounded /\ [Next]_vars
    => ReceivedBounded'
<1> SUFFICES ASSUME TypeOK, TypeOK', CarriesLimits, Started, ReceivedBounded, [Next]_vars,
                    NEW t \in Times
             PROVE  Complete(t)' \/ Closed(t)'
  BY DEF ReceivedBounded
<1>0. "A" \in Classes /\ "B" \in Classes /\ "C" \in Classes /\ "A" # "C" /\ "B" # "C"
  BY DEF Classes
<1>1. now \in Int /\ now >= now /\ now \in Times /\ t \in Int
  BY TimesFinite DEF TypeOK
<1>2. Complete(t) \/ Closed(t)
  BY DEF ReceivedBounded
<1>3. ASSUME NonePasses, now' = now, hits'["C"] = hits["C"], made'["C"] = made["C"]
      PROVE  Complete(t)' \/ Closed(t)'
  BY <1>1, <1>2, <1>3, PassedFalls, ReceivedKept
<1>4. ASSUME NEW s \in Slots, NEW charity \in BOOLEAN, Arrive(s, charity)
      PROVE  Complete(t)' \/ Closed(t)'
  <2>1. slot'[s].pc = "arrived" /\ slot'[s].start = now
        /\ \A x \in Slots \ {s} : slot'[x] = slot[x]
    BY <1>4, OtherSteps
  <2>2. Counted(t)' \subseteq Counted(t)
    BY <2>1 DEF Counted, InSpan
  <2>3. UNCHANGED <<now, hits, made>>
    BY <1>4 DEF Arrive
  <2>4. ASSUME Closed(t) PROVE Awaited(t)' \subseteq Awaited(t)
    <3>1. ~InSpan(now, t)
      BY <1>1, <2>4 DEF Closed, InSpan
    <3> QED
      BY <2>1, <3>1 DEF Awaited, InSpan
  <2> QED
    BY <1>1, <1>2, <2>2, <2>3, <2>4, ReceivedKept
<1>5. ASSUME NEW s \in Slots, Pass(s) PROVE Complete(t)' \/ Closed(t)'
  BY <1>2, <1>5, ReceivedPass
<1>6. ASSUME NEW s \in Slots, NEW ban \in BOOLEAN, Refuse(s, ban)
      PROVE  Complete(t)' \/ Closed(t)'
  <2>1. NonePasses /\ slot'[s].pc = "idle"
    BY <1>6, OtherSteps
  <2>2. hits' = Pruned(s) /\ UNCHANGED <<now, made>>
    BY <1>6 DEF Refuse
  <2>3. slot[s].start \in Int
    BY StartTime
  <2>4. CASE Closed(t)
    BY <1>1, <2>1, <2>2, <2>4, PassedFalls, ReceivedKept
  <2>5. CASE slot[s].start <= t
    <3>1. \A u \in Times : InSpan(u, t) => hits'["C"][u] = hits["C"][u]
      BY <1>0, <2>2, <2>5, PrunedLater
    <3> QED
      BY <1>1, <1>2, <2>1, <2>2, <3>1, PassedFalls, ReceivedKept
  <2>6. CASE Complete(t) /\ ~(slot[s].start <= t)
    <3>1. now' > t
      BY <1>1, <2>2, <2>3, <2>6 DEF Started
    <3>2. s \notin Awaited(t)'
      BY <2>1 DEF Awaited, Early
    <3> QED
      BY <2>2, <2>6, <3>1, <3>2, WindowCloses
  <2> QED
    BY <1>2, <2>4, <2>5, <2>6
<1>7. ASSUME NEW s \in Slots, RecordReceived(s) PROVE Complete(t)' \/ Closed(t)'
  BY <1>2, <1>7, ReceivedRecorded
<1>8. ASSUME NEW s \in Slots, Succeed(s) PROVE Complete(t)' \/ Closed(t)'
  <2>1. NonePasses
    BY <1>8, OtherSteps
  <2>2. Record("B", now) /\ now' = now
    BY <1>8 DEF Succeed
  <2>3. hits'["C"] = hits["C"] /\ made'["C"] = made["C"]
    BY <1>0, <1>1, <2>2, Recorded
  <2> QED
    BY <1>3, <2>1, <2>2, <2>3
<1>9. ASSUME NEW s \in Slots, Finish(s) PROVE Complete(t)' \/ Closed(t)'
  <2>1. NonePasses
    BY <1>9, OtherSteps
  <2>2. Record("A", now) /\ now' = now
    BY <1>9 DEF Finish
  <2>3. hits'["C"] = hits["C"] /\ made'["C"] = made["C"]
    BY <1>0, <1>1, <2>2, Recorded
  <2> QED
    BY <1>3, <2>1, <2>2, <2>3
<1>10. ASSUME Tick PROVE Complete(t)' \/ Closed(t)'
  <2>1. now' >= now /\ UNCHANGED <<slot, hits, made>>
    BY <1>1, <1>10 DEF Tick
  <2>2. Counted(t)' \subseteq Counted(t) /\ Awaited(t)' \subseteq Awaited(t)
    BY <2>1 DEF Counted, Awaited, InSpan
  <2> QED
    BY <1>2, <2>1, <2>2, ReceivedKept
<1>11. ASSUME NEW s \in Slots, NEW d \in Donations, Acquire(s, d)
       PROVE  NonePasses /\ UNCHANGED <<now, hits, made>>
  <2>1. NonePasses
    BY <1>11, OtherSteps
  <2> QED
    BY <1>11, <2>1 DEF Acquire
<1>12. ASSUME NEW s \in Slots, Overloaded(s) \/ Unavailable(s) \/ FailSetup(s) \/ Dispatch(s)
       PROVE  NonePasses /\ UNCHANGED <<now, hits, made>>
  <2>1. NonePasses
    BY <1>12, OtherSteps
  <2> QED
    BY <1>12, <2>1 DEF Overloaded, Unavailable, FailSetup, Dispatch
<1>13. Aside => NonePasses /\ UNCHANGED <<now, hits, made>>
  BY DEF Aside
<1> QED
  BY <1>3, <1>4, <1>5, <1>6, <1>7, <1>8, <1>9, <1>10, <1>11, <1>12, <1>13, AsideSteps,
     OutsideSteps
     DEF Next, Environment, Handle, Gate, Pool, Call

\* At first nobody has passed and nothing is recorded.
LEMMA WindowsInit == Init => AnswersBounded /\ ReceivedBounded
<1> SUFFICES ASSUME Init, NEW c \in Classes, NEW t \in Times
             PROVE  (c # "C" => Answers(c, t)) /\ Complete(t)
  BY DEF AnswersBounded, ReceivedBounded, Classes
<1>1. hits[c] = NoHits /\ made[c] = NoHits /\ hits["C"] = NoHits /\ made["C"] = NoHits
  BY DEF Init, Classes
<1>2. Count(made[c], t) = 0 /\ Count(made["C"], t) = 0
  BY <1>1, CountNone
<1>3. \A s \in Slots : slot[s].pc = "idle"
  BY DEF Init, Idle
<1>4. Passed(c) = {} /\ Counted(t) = {}
  BY <1>3 DEF Passed, Past, Counted
<1>5. Cardinality(Passed(c)) = 0 /\ Cardinality(Counted(t)) = 0
  BY <1>4, FS_EmptySet
<1>6. OneOverrun \in Int /\ OneOverrun >= 0
  BY Numbers DEF OneOverrun
<1>7. Accurate(c, t) /\ Accurate("C", t)
  BY <1>1 DEF Accurate
<1> QED
  BY <1>2, <1>5, <1>6, <1>7 DEF Answers, Complete

(***************************************************************************)
(* No window of the user ever holds more than the highest limit and twice  *)
(* the other requests of the cap, for any cap, limits and windows.  A      *)
(* window is complete until a request that started after its end prunes    *)
(* it; until then a request passes only below the limit, so one cap of     *)
(* requests goes over it, and afterwards only the requests that started in *)
(* it and are still on their way, all but the one that pruned it.          *)
(***************************************************************************)
THEOREM OverrunIsBounded == Spec => []OverrunBounded
<1>1. Spec => [](TypeOK /\ OneLease /\ CarriesLimits /\ Started)
  BY InitTypes, TypesNext, PTL DEF Spec
<1>2. Spec => [](AnswersBounded /\ ReceivedBounded)
  BY <1>1, WindowsInit, AnswersNext, ReceivedNext, PTL DEF Spec
<1>3. TypeOK /\ AnswersBounded /\ ReceivedBounded => OverrunBounded
  <2> SUFFICES ASSUME TypeOK, AnswersBounded, ReceivedBounded,
                      NEW c \in Classes, NEW t \in Times
               PROVE  Count(made[c], t) <= Highest + 2 * (Cardinality(Slots) - 1)
    <3>1. TypeOK => \A d \in Classes : made[d] \in [Times -> Nat]
      BY DEF TypeOK
    <3> QED
      BY <3>1, WindowIsCount DEF OverrunBounded
  <2>1. Count(made[c], t) \in Int
    <3>1. made[c] \in [Times -> Nat]
      BY DEF TypeOK
    <3> QED
      BY <3>1, CountType
  <2>2. OneOverrun \in Int /\ Cardinality(Slots) \in Int /\ Cardinality(Slots) >= 1
        /\ Highest \in Int /\ OneOverrun = Highest + (Cardinality(Slots) - 1)
    BY Numbers DEF OneOverrun
  <2>3. CASE c # "C"
    <3>1. Count(made[c], t) <= OneOverrun
      BY <2>3 DEF AnswersBounded, Answers, Classes
    <3> QED
      BY <2>1, <2>2, <3>1
  <2>4. CASE c = "C"
    <3>1. Counted(t) \in SUBSET Slots /\ Awaited(t) \in SUBSET Slots
      BY DEF Counted, Awaited
    <3>2. Cardinality(Counted(t)) \in Nat /\ Cardinality(Awaited(t)) \in Nat
      BY <3>1, SlotsFinite
    <3>3. \/ Count(made[c], t) + Cardinality(Counted(t)) <= OneOverrun
          \/ Count(made[c], t) + Cardinality(Awaited(t)) <= OneOverrun + (Cardinality(Slots) - 1)
      BY <2>4 DEF ReceivedBounded, Complete, Closed
    <3> QED
      BY <2>1, <2>2, <3>2, <3>3
  <2> QED
    BY <2>3, <2>4
<1> QED
  BY <1>1, <1>2, <1>3, PTL
=============================================================================

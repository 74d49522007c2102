---------------------------- MODULE ActivityProofs ----------------------------
(***************************************************************************)
(* Proofs about Activity, for any number of users, rounds and days, any    *)
(* prices and any catches.                                                 *)
(***************************************************************************)
EXTENDS Activity, Sums

-----------------------------------------------------------------------------
(* The inductive invariant *)

\* Rows of the tables.
Acts == [DOMAIN NoActs -> Nat]
Wallet == [credits : Nat, checkin : Days \cup {Never}]
UserRow == [status : {"absent", "enabled", "disabled", "deleted"}, created : Days]
Round == [status : {"none", "started", "settled"}, present : BOOLEAN,
          user : Users \cup {Never}, day : Days \cup {Never}, won : Nat, size : Nat]

\* The clock, and users, who registered before or today.
Clock ==
  /\ today \in Days /\ acts \in 0..MaxActs /\ bans \in 0..MaxBans
  /\ disturbed \subseteq Days
  /\ user \in [Users -> UserRow]
  /\ \A u \in Users : user[u].created <= today

\* The rows of users: no number is above that of all events, and there are none
\* of the future or of users who are not registered.
DailyRows ==
  /\ daily \in [Users -> [Days -> Acts]]
  /\ \A u \in Users, d \in Days :
       /\ \A f \in DOMAIN NoActs : daily[u][d][f] <= acts
       /\ daily[u][d] # NoActs => d <= today /\ user[u].status # "absent"

\* The row of an open day has numbers, a frozen one is over.
SiteTyped(d, row) ==
  /\ d <= today
  /\ row.final => d < today /\ row.counts \in [Fields -> Nat \cup {Never}]
  /\ ~row.final => row.counts \in [Fields -> Int]

\* The rows of the site; that of the day before is there.
SiteRows ==
  /\ site \in [Days -> SiteRow \cup {Never}]
  /\ \A d \in Days : site[d] # Never => SiteTyped(d, site[d])
  /\ today > 0 => site[today - 1] # Never

\* The row of a day, or the one it starts with.
RowOf(d) == IF site[d] = Never THEN Opened ELSE site[d]

\* Where no user came or went in a transaction that took the day before for the
\* present, an open row is exact, and one that is still missing would be.
Exact ==
  \A d \in Days \ disturbed :
    (site[d] # Never \/ d >= today) /\ ~RowOf(d).final => RowOf(d).counts = Counts(d)

\* What players have and played; a round that is present is of a user with a row.
Players ==
  /\ wallet \in [Users -> Wallet] /\ best \in [Users -> Nat]
  /\ awards \in [Users -> [Days -> Nat]] /\ late \subseteq Users
  /\ round \in [Rounds -> Round]
  /\ \A r \in Rounds :
       /\ round[r].status = "none" <=> round[r].user = Never
       /\ round[r].present => round[r].user \in Rows

\* The rounds a user bought, and those of them that are settled.
Bought(ro, u) == {r \in Rounds : ro[r].user = u}
Paid(ro, u) == {r \in Bought(ro, u) : ro[r].status = "settled"}
Won(ro) == [r \in Rounds |-> ro[r].won]

\* What check-ins, tickets and settled rounds amount to.
Balance(ro, aw, u) ==
  StartCredits - Price * Cardinality(Bought(ro, u)) + Sum(Won(ro), Paid(ro, u))
    + Bonus * Sum(aw[u], Days)

\* The biggest fish of the settled rounds of a user.
Biggest(ro, u, size) ==
  /\ size \in {0} \cup {ro[r].size : r \in Paid(ro, u)}
  /\ \A r \in Paid(ro, u) : ro[r].size <= size

\* The credits of a user, and the best fish of one who was not deleted.
Settled ==
  \A u \in Users :
    /\ wallet[u].credits = Balance(round, awards, u)
    /\ user[u].status # "deleted" => Biggest(round, u, best[u])

\* Who was never awarded a check-in late has none after the last.
Awarded ==
  \A u \in Users \ late : \A d \in Days :
    awards[u][d] > 0 =>
      awards[u][d] = 1 /\ wallet[u].checkin # Never /\ d <= wallet[u].checkin

\* All of it.
IInv == Clock /\ DailyRows /\ SiteRows /\ Exact /\ Players /\ Settled /\ Awarded

-----------------------------------------------------------------------------
(* Shares and counts *)

\* The names of the counters of a user's day.
Events == {"attempts", "successes", "console", "checkins", "games"}

\* The type of the counts of a day.
Tally == [Fields -> Int]

\* The counters of a day are those.
LEMMA EventNames == DOMAIN NoActs = Events /\ NoActs \in Acts /\ Acts = [Events -> Nat]
BY DEF NoActs, Events, Acts

\* What starts a row.
LEMMA ZeroTally ==
  /\ Zero \in Tally /\ \A f \in Fields : Zero[f] = 0
  /\ Opened \in SiteRow /\ Opened.counts = Zero /\ ~Opened.final
BY DEF Zero, Opened, Tally, SiteRow

\* The share of a user is a tuple of numbers.
LEMMA ShareType ==
  ASSUME NEW a \in Acts, NEW b \in BOOLEAN
  PROVE  Share(a, b) \in [Fields -> Nat]
<1>1. a \in [Events -> Nat]
  BY EventNames
<1>2. \A c : One(c) \in Nat
  BY DEF One
<1>3. a.attempts \in Nat /\ a.successes \in Nat
  BY <1>1 DEF Events
<1>4. \A f \in Fields : Share(a, b)[f] \in Nat
  BY <1>2, <1>3 DEF Share, Fields
<1>5. Share(a, b) = [f \in Fields |-> Share(a, b)[f]]
  BY DEF Share, Fields
<1> QED
  BY <1>4, <1>5

\* What a user who did nothing adds.
LEMMA ShareOfNothing == \A f \in Fields : Share(NoActs, FALSE)[f] = 0
BY DEF Share, NoActs, One, Product, Fields

\* Registration adds to the new users, whatever the user did.
LEMMA ShareOfRegistration ==
  ASSUME NEW a \in Acts, NEW f \in Fields
  PROVE  Share(a, TRUE)[f] = Share(a, FALSE)[f] + [Zero EXCEPT !["newUsers"] = 1][f]
<1>1. a \in [Events -> Nat]
  BY EventNames
<1>2. a.attempts \in Nat /\ a.successes \in Nat
  BY <1>1 DEF Events
<1> QED
  BY <1>2 DEF Share, Fields, Zero, One

\* The counts of a day for the rows us of users and da of their days.
CountsOf(us, da, d) ==
  FoldSet(LAMBDA u, sum : Plus(sum, Share(da[u][d], us[u].created = d)),
          Zero, {u \in Users : us[u].status = "enabled"})
Enabled(us) == {u \in Users : us[u].status = "enabled"}

\* What each user adds to field f of day d.
Part(us, da, d, f) == [u \in Users |-> Share(da[u][d], us[u].created = d)[f]]

\* The types of these.
UserRows == [Users -> UserRow]
DayRows == [Users -> [Days -> Acts]]

\* Each adds a number.
LEMMA PartType ==
  ASSUME NEW us \in UserRows, NEW da \in DayRows, NEW d \in Days, NEW f \in Fields
  PROVE  \A u \in Users : Part(us, da, d, f)[u] \in Nat
<1> SUFFICES ASSUME NEW u \in Users PROVE Part(us, da, d, f)[u] \in Nat
  OBVIOUS
<1>1. da[u][d] \in Acts
  BY DEF DayRows
<1>2. Share(da[u][d], us[u].created = d) \in [Fields -> Nat]
  BY <1>1, ShareType
<1> QED
  BY <1>2 DEF Part

\* What the fold of the counts is defined by, and the sums it stands for.
IsTally(g, us, da, d, S) ==
  g = [s \in SUBSET S |->
         IF s = {} THEN Zero
         ELSE Plus(g[Others(s)], Share(da[Chosen(s)][d], us[Chosen(s)].created = d))]
SumOfParts(us, da, d, s) == [f \in Fields |-> Sum(Part(us, da, d, f), s)]

\* The sums unfold as the fold does.
LEMMA SumsUnfold ==
  ASSUME NEW us \in UserRows, NEW da \in DayRows, NEW d \in Days,
         NEW s, s \subseteq Users
  PROVE  SumOfParts(us, da, d, s) =
           IF s = {} THEN Zero
           ELSE Plus(SumOfParts(us, da, d, Others(s)),
                     Share(da[Chosen(s)][d], us[Chosen(s)].created = d))
<1>1. IsFiniteSet(s)
  BY FS_Subset, ActivityAssumption DEF ActivityAssumption
<1>2. CASE s = {}
  BY <1>2, SumEmpty DEF SumOfParts, Zero
<1>3. CASE s # {}
  <2>1. Chosen(s) \in Users /\ Others(s) \subseteq Users /\ Others(s) \subseteq s
    BY <1>3, ChosenFromSet
  <2>2. ASSUME NEW f \in Fields
        PROVE  Sum(Part(us, da, d, f), s) = Sum(Part(us, da, d, f), Others(s))
                 + Share(da[Chosen(s)][d], us[Chosen(s)].created = d)[f]
    <3> DEFINE p == Part(us, da, d, f)
    <3>0. \A u \in Users : p[u] \in Int
      BY PartType
    <3>1. p[Chosen(s)] = Share(da[Chosen(s)][d], us[Chosen(s)].created = d)[f]
      BY <2>1 DEF Part
    <3>2. Sum(p, s) = p[Chosen(s)] + Sum(p, Others(s))
      <4> HIDE DEF p
      <4> QED
        BY <1>1, <1>3, SumUnfolds
    <3>3. Sum(p, Others(s)) \in Int
      <4> HIDE DEF p
      <4> QED
        BY <2>1, <3>0, SumType, ActivityAssumption DEF ActivityAssumption
    <3>4. p[Chosen(s)] \in Int
      BY <2>1, <3>0
    <3> HIDE DEF p
    <3>5. \A m, n \in Int : m + n = n + m
      OBVIOUS
    <3>6. Sum(p, s) = Sum(p, Others(s)) + p[Chosen(s)]
      BY <3>2, <3>3, <3>4, <3>5
    <3> QED
      BY <3>1, <3>6 DEF p
  <2> QED
    BY <1>3, <2>2 DEF SumOfParts, Plus
<1> QED
  BY <1>2, <1>3

\* The counts of a day are, field by field, the sums of what users add.
LEMMA CountsAreSums ==
  ASSUME NEW us \in UserRows, NEW da \in DayRows, NEW d \in Days
  PROVE  CountsOf(us, da, d) = SumOfParts(us, da, d, Enabled(us))
<1> DEFINE E == Enabled(us)
           G == [s \in SUBSET E |-> SumOfParts(us, da, d, s)]
           g == CHOOSE h : IsTally(h, us, da, d, E)
<1>0. E \subseteq Users /\ IsFiniteSet(E)
  BY FS_Subset, ActivityAssumption DEF ActivityAssumption, Enabled
<1>1. CountsOf(us, da, d) = g[E]
  BY DEF CountsOf, FoldSet, MapThenFoldSet, IsTally, Chosen, Others, Enabled
<1>2. IsTally(G, us, da, d, E)
  <2> HIDE DEF E
  <2>1. ASSUME NEW s \in SUBSET E, s # {} PROVE G[Others(s)] = SumOfParts(us, da, d, Others(s))
    <3>1. Others(s) \in SUBSET E
      BY <2>1, ChosenFromSet
    <3> QED
      BY <3>1
  <2>2. ASSUME NEW s \in SUBSET E
        PROVE  G[s] = IF s = {} THEN Zero
                      ELSE Plus(G[Others(s)],
                                Share(da[Chosen(s)][d], us[Chosen(s)].created = d))
    <3>1. G[s] = SumOfParts(us, da, d, s)
      OBVIOUS
    <3>2. s \subseteq Users
      BY <1>0
    <3> HIDE DEF G
    <3> QED
      BY <2>1, <3>1, <3>2, SumsUnfold
  <2> QED
    BY <2>2 DEF IsTally
<1>3. IsTally(g, us, da, d, E)
  <2> HIDE DEF G, E
  <2> QED
    BY <1>2
<1> DEFINE B == {s \in SUBSET E : g[s] = G[s]}
<1>4. ASSUME NEW s \in SUBSET E, \A t \in SUBSET E : t \subseteq s /\ t # s => t \in B
      PROVE  g[s] = G[s]
  <2> HIDE DEF g, G, E
  <2>1. s # {} => Others(s) \in SUBSET E /\ Others(s) \subseteq s /\ Others(s) # s
    BY ChosenFromSet
  <2>2. s # {} => g[Others(s)] = G[Others(s)]
    BY <1>4, <2>1
  <2>3. /\ g[s] = IF s = {} THEN Zero
                  ELSE Plus(g[Others(s)],
                            Share(da[Chosen(s)][d], us[Chosen(s)].created = d))
        /\ G[s] = IF s = {} THEN Zero
                  ELSE Plus(G[Others(s)],
                            Share(da[Chosen(s)][d], us[Chosen(s)].created = d))
    BY <1>2, <1>3 DEF IsTally
  <2> QED
    BY <2>2, <2>3
<1>5. \A s \in SUBSET E : s \in B
  <2>1. \A s \in SUBSET E : (\A t \in SUBSET E : t \subseteq s /\ t # s => t \in B) => s \in B
    BY <1>4
  <2> HIDE DEF B, E
  <2> QED
    BY <1>0, <2>1, SubsetInduction
<1>6. g[E] = G[E]
  BY <1>5
<1>7. G[E] = SumOfParts(us, da, d, E)
  BY DEF G
<1> QED
  BY <1>1, <1>6, <1>7

-----------------------------------------------------------------------------
(* Counts before and after a change of one user *)

\* The counts of a day are numbers.
LEMMA CountsType ==
  ASSUME NEW us \in UserRows, NEW da \in DayRows, NEW d \in Days
  PROVE  CountsOf(us, da, d) \in [Fields -> Nat]
<1>0. Enabled(us) \subseteq Users /\ IsFiniteSet(Enabled(us))
  BY FS_Subset, ActivityAssumption DEF ActivityAssumption, Enabled
<1>1. ASSUME NEW f \in Fields PROVE Sum(Part(us, da, d, f), Enabled(us)) \in Nat
  <2>1. \A u \in Enabled(us) : Part(us, da, d, f)[u] \in Nat
    BY <1>0, PartType
  <2> QED
    BY <1>0, <2>1, SumNatural
<1> QED
  BY <1>1, CountsAreSums DEF SumOfParts

\* What user u adds to field f of day d.
Weight(us, da, d, u, f) ==
  IF us[u].status = "enabled" THEN Share(da[u][d], us[u].created = d)[f] ELSE 0

\* The counts are what one user adds, and the others.
LEMMA CountsSplit ==
  ASSUME NEW us \in UserRows, NEW da \in DayRows, NEW d \in Days, NEW u \in Users,
         NEW f \in Fields
  PROVE  /\ CountsOf(us, da, d)[f]
              = Weight(us, da, d, u, f) + Sum(Part(us, da, d, f), Enabled(us) \ {u})
         /\ Weight(us, da, d, u, f) \in Nat
         /\ Sum(Part(us, da, d, f), Enabled(us) \ {u}) \in Nat
<1> DEFINE E == Enabled(us)
           p == Part(us, da, d, f)
<1>0. E \subseteq Users /\ IsFiniteSet(E) /\ IsFiniteSet(E \ {u})
  BY FS_Subset, FS_RemoveElement, ActivityAssumption DEF ActivityAssumption, Enabled
<1>1. \A v \in Users : p[v] \in Nat
  BY PartType
<1>2. CountsOf(us, da, d)[f] = Sum(p, E)
  BY CountsAreSums DEF SumOfParts
<1>3. p[u] = Share(da[u][d], us[u].created = d)[f] /\ (u \in E <=> us[u].status = "enabled")
  BY DEF Part, Enabled
<1> HIDE DEF E, p
<1>4. Sum(p, E \ {u}) \in Nat
  <2>1. \A x \in E \ {u} : p[x] \in Nat
    BY <1>0, <1>1
  <2> QED
    BY <1>0, <2>1, SumNatural
<1>5. CASE u \in E
  <2>1. \A x \in E : p[x] \in Int
    BY <1>0, <1>1
  <2>2. Sum(p, E) = p[u] + Sum(p, E \ {u})
    BY <1>0, <1>5, <2>1, SumRemove
  <2> QED
    BY <1>1, <1>2, <1>3, <1>4, <1>5, <2>2 DEF Weight, E, p
<1>6. CASE u \notin E
  <2>1. E \ {u} = E
    BY <1>6
  <2>2. Sum(p, E) = 0 + Sum(p, E \ {u})
    BY <1>4, <2>1
  <2> QED
    BY <1>2, <1>3, <1>4, <1>6, <2>2 DEF Weight, E, p
<1> QED
  BY <1>5, <1>6

\* User v adds the same to day d in both.
Same(us, da, vs, db, d, v) ==
  us[v].status = vs[v].status /\ us[v].created = vs[v].created /\ da[v][d] = db[v][d]

\* If only user u adds something else, the counts differ by that.
LEMMA OneUser ==
  ASSUME NEW us \in UserRows, NEW da \in DayRows, NEW vs \in UserRows, NEW db \in DayRows,
         NEW d \in Days, NEW u \in Users,
         \A v \in Users \ {u} : Same(us, da, vs, db, d, v)
  PROVE  \A f \in Fields :
           /\ CountsOf(us, da, d)[f] \in Nat /\ CountsOf(vs, db, d)[f] \in Nat
           /\ Weight(us, da, d, u, f) \in Nat /\ Weight(vs, db, d, u, f) \in Nat
           /\ CountsOf(us, da, d)[f] >= Weight(us, da, d, u, f)
           /\ CountsOf(vs, db, d)[f]
                = CountsOf(us, da, d)[f] - Weight(us, da, d, u, f) + Weight(vs, db, d, u, f)
<1> SUFFICES ASSUME NEW f \in Fields
             PROVE  /\ CountsOf(us, da, d)[f] \in Nat /\ CountsOf(vs, db, d)[f] \in Nat
                    /\ Weight(us, da, d, u, f) \in Nat /\ Weight(vs, db, d, u, f) \in Nat
                    /\ CountsOf(us, da, d)[f] >= Weight(us, da, d, u, f)
                    /\ CountsOf(vs, db, d)[f]
                         = CountsOf(us, da, d)[f] - Weight(us, da, d, u, f)
                             + Weight(vs, db, d, u, f)
  OBVIOUS
<1> DEFINE p == Part(us, da, d, f)
           q == Part(vs, db, d, f)
           T == Enabled(us) \ {u}
<1>1. T = Enabled(vs) \ {u} /\ IsFiniteSet(T) /\ T \subseteq Users
  BY FS_Subset, ActivityAssumption DEF ActivityAssumption, Enabled, Same
<1>2. \A v \in T : p[v] = q[v]
  BY DEF Part, Same, Enabled
<1>3. Sum(p, T) = Sum(q, T)
  <2> HIDE DEF p, q, T
  <2> QED
    BY <1>1, <1>2, SumEqual
<1>4. /\ CountsOf(us, da, d)[f] = Weight(us, da, d, u, f) + Sum(p, T)
      /\ Weight(us, da, d, u, f) \in Nat /\ Sum(p, T) \in Nat
  BY CountsSplit
<1>5. /\ CountsOf(vs, db, d)[f] = Weight(vs, db, d, u, f) + Sum(q, T)
      /\ Weight(vs, db, d, u, f) \in Nat
  BY <1>1, CountsSplit
<1> HIDE DEF p, q, T
<1>6. \A m, n, k \in Nat : n + k \in Nat /\ m + k \in Nat /\ n + k >= n /\ m + k = (n + k) - n + m
  OBVIOUS
<1> QED
  BY <1>3, <1>4, <1>5, <1>6

\* If nobody adds anything else, they are the same.
LEMMA NoUser ==
  ASSUME NEW us \in UserRows, NEW da \in DayRows, NEW vs \in UserRows, NEW db \in DayRows,
         NEW d \in Days, \A v \in Users : Same(us, da, vs, db, d, v)
  PROVE  CountsOf(vs, db, d) = CountsOf(us, da, d)
<1>1. Enabled(us) = Enabled(vs) /\ IsFiniteSet(Enabled(us)) /\ Enabled(us) \subseteq Users
  BY FS_Subset, ActivityAssumption DEF ActivityAssumption, Enabled, Same
<1>2. ASSUME NEW f \in Fields
      PROVE  Sum(Part(us, da, d, f), Enabled(us)) = Sum(Part(vs, db, d, f), Enabled(us))
  <2>1. \A v \in Enabled(us) : Part(us, da, d, f)[v] = Part(vs, db, d, f)[v]
    BY <1>1 DEF Part, Same
  <2> QED
    BY <1>1, <2>1, SumEqual
<1>3. SumOfParts(us, da, d, Enabled(us)) = SumOfParts(vs, db, d, Enabled(vs))
  BY <1>1, <1>2 DEF SumOfParts
<1> QED
  BY <1>3, CountsAreSums

\* The counts of a state are those of its rows.
LEMMA CountsNow == \A d \in Days : Counts(d) = CountsOf(user, daily, d)
BY DEF Counts, CountsOf

\* So are those of the next one.
LEMMA CountsNext == \A d \in Days : Counts(d)' = CountsOf(user', daily', d)
<1>1. (\A d \in Days : Counts(d) = CountsOf(user, daily, d))'
  BY CountsNow, PTL
<1> QED
  BY <1>1

-----------------------------------------------------------------------------
(* Rows of the site *)

\* The present of a transaction is today or the day before.
LEMMA NowsAre ==
  ASSUME Clock, NEW now \in Nows
  PROVE  /\ now \in Days /\ now \in Int /\ today \in Int /\ today \in Days
         /\ now <= today /\ today - 1 <= now
         /\ now = today \/ (now = today - 1 /\ today > 0)
<1>1. now \in Days /\ (now = today \/ now = today - 1) /\ today \in Days
  BY DEF Nows, Clock
<1>2. \A x \in Days : x \in Nat
  BY ActivityAssumption DEF Days, ActivityAssumption
<1> QED
  BY <1>1, <1>2

\* What a day has, or would start with, is a row.
LEMMA RowFacts ==
  ASSUME Clock, SiteRows, NEW d \in Days
  PROVE  /\ RowOf(d) \in SiteRow /\ RowOf(d) # Never /\ RowOf(d).final \in BOOLEAN
         /\ site[d] # Never => RowOf(d) = site[d]
         /\ RowOf(d).final => site[d] # Never /\ d < today
         /\ ~RowOf(d).final => RowOf(d).counts \in Tally
<1>1. Never \notin SiteRow
  BY ActivityAssumption DEF ActivityAssumption
<1>2. CASE site[d] = Never
  BY <1>1, <1>2, ZeroTally DEF RowOf, SiteRow, Tally
<1>3. CASE site[d] # Never
  <2>1. site[d] \in SiteRow /\ SiteTyped(d, site[d]) /\ RowOf(d) = site[d]
    BY <1>3 DEF SiteRows, RowOf
  <2> QED
    BY <1>1, <1>3, <2>1 DEF SiteRow, SiteTyped, Tally
<1> QED
  BY <1>2, <1>3

\* A row with other counts.
LEMMA RowWith ==
  ASSUME NEW r \in SiteRow, NEW c \in Tally
  PROVE  /\ [r EXCEPT !.counts = c] \in SiteRow /\ [r EXCEPT !.counts = c] # Never
         /\ [r EXCEPT !.counts = c].counts = c /\ [r EXCEPT !.counts = c].final = r.final
<1>1. Never \notin SiteRow
  BY ActivityAssumption DEF ActivityAssumption
<1> QED
  BY <1>1 DEF SiteRow, Tally

\* The sum of counts and a change.
LEMMA PlusType ==
  ASSUME NEW c \in Tally, NEW by \in Tally
  PROVE  Plus(c, by) \in Tally /\ \A f \in Fields : Plus(c, by)[f] = c[f] + by[f]
BY DEF Plus, Tally

\* What an adjustment makes of the rows.
LEMMA AdjustedAt ==
  ASSUME Clock, SiteRows, NEW d \in Days, NEW by \in Tally
  PROVE  /\ Adjusted(d, by) \in [Days -> SiteRow \cup {Never}]
         /\ \A e \in Days \ {d} : Adjusted(d, by)[e] = site[e]
         /\ Adjusted(d, by)[d] # Never /\ Adjusted(d, by)[d].final = RowOf(d).final
         /\ RowOf(d).final => Adjusted(d, by)[d] = site[d]
         /\ ~RowOf(d).final => /\ Adjusted(d, by)[d].counts = Plus(RowOf(d).counts, by)
                               /\ Adjusted(d, by)[d].counts \in Tally
<1> DEFINE r == RowOf(d)
           n == IF r.final THEN r ELSE [r EXCEPT !.counts = Plus(@, by)]
<1>1. Adjusted(d, by) = [site EXCEPT ![d] = n]
  BY DEF Adjusted, RowOf
<1>2. /\ r \in SiteRow /\ r # Never /\ r.final \in BOOLEAN
      /\ r.final => site[d] = r
      /\ ~r.final => r.counts \in Tally
  BY RowFacts
<1>3. site \in [Days -> SiteRow \cup {Never}]
  BY DEF SiteRows
<1> HIDE DEF r
<1>4. CASE r.final
  <2>1. n = r
    BY <1>4
  <2> HIDE DEF n
  <2> QED
    BY <1>1, <1>2, <1>3, <1>4, <2>1 DEF r
<1>5. CASE ~r.final
  <2>1. n = [r EXCEPT !.counts = Plus(r.counts, by)]
    BY <1>2, <1>5 DEF SiteRow
  <2>2. Plus(r.counts, by) \in Tally
    BY <1>2, <1>5, PlusType
  <2>3. n \in SiteRow /\ n # Never /\ n.counts = Plus(r.counts, by) /\ n.final = r.final
    BY <1>2, <2>1, <2>2, RowWith
  <2> HIDE DEF n
  <2> QED
    BY <1>1, <1>2, <1>3, <1>5, <2>2, <2>3 DEF r
<1> QED
  BY <1>4, <1>5

\* What is shown of counts is numbers, or hidden.
LEMMA ShownType ==
  ASSUME NEW c \in [Fields -> Nat]
  PROVE  Shown(c) \in [Fields -> Nat \cup {Never}]
BY DEF Shown

\* What freezing makes of the rows.
LEMMA FinalizedAt ==
  ASSUME Clock, SiteRows, DailyRows, NEW now \in Nows
  PROVE  /\ Finalized(now) \in [Days -> SiteRow \cup {Never}]
         /\ \A d \in Days \ Pending(now) : Finalized(now)[d] = site[d]
         /\ \A d \in Pending(now) :
              /\ d \in Days /\ d < now /\ Finalized(now)[d] # Never
              /\ Finalized(now)[d].final
              /\ Finalized(now)[d].counts \in [Fields -> Nat \cup {Never}]
<1>1. site \in [Days -> SiteRow \cup {Never}] /\ Never \notin SiteRow
  BY ActivityAssumption DEF ActivityAssumption, SiteRows
<1>2. user \in UserRows /\ daily \in DayRows
  BY DEF Clock, DailyRows, UserRows, DayRows
<1>3. ASSUME NEW d \in Days PROVE Shown(Counts(d)) \in [Fields -> Nat \cup {Never}]
  BY <1>2, CountsType, CountsNow, ShownType
<1>4. \A c \in [Fields -> Nat \cup {Never}] :
        /\ [counts |-> c, final |-> TRUE] \in SiteRow
        /\ [counts |-> c, final |-> TRUE].final /\ [counts |-> c, final |-> TRUE].counts = c
  BY DEF SiteRow
<1>5. ASSUME NEW d \in Pending(now)
      PROVE  /\ d \in Days /\ d < now
             /\ Finalized(now)[d] = [counts |-> Shown(Counts(d)), final |-> TRUE]
  BY DEF Pending, Finalized
<1>6. ASSUME NEW d \in Days \ Pending(now) PROVE Finalized(now)[d] = site[d]
  BY DEF Finalized
<1>7. ASSUME NEW d \in Pending(now)
      PROVE  /\ Finalized(now)[d] # Never /\ Finalized(now)[d].final
             /\ Finalized(now)[d] \in SiteRow
             /\ Finalized(now)[d].counts \in [Fields -> Nat \cup {Never}]
  <2> DEFINE c == Shown(Counts(d))
  <2>1. d \in Days /\ Finalized(now)[d] = [counts |-> c, final |-> TRUE]
    BY <1>5
  <2>2. c \in [Fields -> Nat \cup {Never}]
    BY <1>3, <2>1
  <2> HIDE DEF c
  <2> QED
    BY <1>1, <1>4, <2>1, <2>2
<1>8. ASSUME NEW d \in Days PROVE Finalized(now)[d] \in SiteRow \cup {Never}
  BY <1>1, <1>6, <1>7
<1>9. Finalized(now) = [d \in Days |-> Finalized(now)[d]]
  BY DEF Finalized
<1> QED
  BY <1>5, <1>6, <1>7, <1>8, <1>9

-----------------------------------------------------------------------------
(* A user acts *)

\* One event of user u on day d, as far as the statistics go.
Records(u, d, delta) ==
  /\ u \in Rows /\ d \in Nows /\ delta \in [Events -> {0, 1}]
  /\ RecordActivity(u, d, delta) /\ UNCHANGED <<today, bans>>

\* How the share of a user changes.
Change(a, b) == [f \in Fields |-> Share(b, FALSE)[f] - Share(a, FALSE)[f]]

\* It changes by numbers, registered that day or not.
LEMMA ChangeOfShare ==
  ASSUME NEW a \in Acts, NEW b \in Acts
  PROVE  /\ Change(a, b) \in Tally
         /\ \A f \in Fields, c \in BOOLEAN :
              /\ Share(a, c)[f] \in Nat /\ Share(b, c)[f] \in Nat
              /\ Share(b, c)[f] = Share(a, c)[f] + Change(a, b)[f]
<1>1. \A c \in BOOLEAN : Share(a, c) \in [Fields -> Nat] /\ Share(b, c) \in [Fields -> Nat]
  BY ShareType
<1>2. \A f \in Fields : Change(a, b)[f] = Share(b, FALSE)[f] - Share(a, FALSE)[f]
  BY DEF Change
<1>3. ASSUME NEW f \in Fields
      PROVE  /\ Share(a, TRUE)[f] = Share(a, FALSE)[f] + [Zero EXCEPT !["newUsers"] = 1][f]
             /\ Share(b, TRUE)[f] = Share(b, FALSE)[f] + [Zero EXCEPT !["newUsers"] = 1][f]
             /\ [Zero EXCEPT !["newUsers"] = 1][f] \in Nat
  BY ShareOfRegistration DEF Zero
<1>4. \A m, n, k \in Nat : n = m + (n - m) /\ n + k = (m + k) + (n - m) /\ n - m \in Int
  OBVIOUS
<1>5. ASSUME NEW f \in Fields, NEW c \in BOOLEAN
      PROVE  /\ Share(b, c)[f] = Share(a, c)[f] + Change(a, b)[f]
             /\ Change(a, b)[f] \in Int
  <2> DEFINE m == Share(a, FALSE)[f]
             n == Share(b, FALSE)[f]
             k == [Zero EXCEPT !["newUsers"] = 1][f]
  <2>0. m \in Nat /\ n \in Nat /\ k \in Nat /\ Change(a, b)[f] = n - m
    BY <1>1, <1>2, <1>3
  <2>1. Share(a, TRUE)[f] = m + k /\ Share(b, TRUE)[f] = n + k
    BY <1>3
  <2>2. c = TRUE \/ c = FALSE
    OBVIOUS
  <2>3. Share(a, FALSE)[f] = m /\ Share(b, FALSE)[f] = n
    OBVIOUS
  <2> HIDE DEF m, n, k
  <2>4. n = m + (n - m) /\ n + k = (m + k) + (n - m) /\ n - m \in Int
    BY <1>4, <2>0
  <2>5. Share(b, TRUE)[f] = Share(a, TRUE)[f] + Change(a, b)[f]
    BY <2>0, <2>1, <2>4
  <2>6. Share(b, FALSE)[f] = Share(a, FALSE)[f] + Change(a, b)[f]
    BY <2>0, <2>3, <2>4
  <2>7. Share(b, c)[f] = Share(a, c)[f] + Change(a, b)[f]
    BY <2>2, <2>5, <2>6
  <2> QED
    BY <2>0, <2>4, <2>7
<1>6. Change(a, b) \in Tally
  BY <1>5 DEF Change, Tally
<1> QED
  BY <1>1, <1>5, <1>6

\* What it changes in the users' rows and in the site's.
LEMMA RecordEffect ==
  ASSUME Clock, DailyRows, NEW u, NEW d, NEW delta, Records(u, d, delta)
  PROVE  /\ u \in Users /\ d \in Days /\ user' = user /\ disturbed' = disturbed
         /\ user[u].status # "absent" /\ acts' = acts + 1 /\ acts < MaxActs
         /\ daily' \in DayRows
         /\ \A v \in Users, e \in Days : v # u \/ e # d => daily'[v][e] = daily[v][e]
         /\ \A f \in Events : daily'[u][d][f] <= acts'
         /\ daily[u][d] \in Acts /\ daily'[u][d] \in Acts
         /\ site' = IF Counted(u) THEN Adjusted(d, Change(daily[u][d], daily'[u][d]))
                    ELSE site
<1> DEFINE after == [f \in DOMAIN NoActs |-> daily[u][d][f] + delta[f]]
<1>0. /\ u \in Users /\ d \in Days /\ user[u].status # "absent"
      /\ acts' = acts + 1 /\ acts < MaxActs /\ acts \in Nat
      /\ user' = user /\ disturbed' = disturbed
      /\ daily' = [daily EXCEPT ![u][d] = after]
      /\ delta \in [Events -> {0, 1}]
  BY NowsAre DEF Records, RecordActivity, Rows, Clock
<1>1. daily \in [Users -> [Days -> Acts]] /\ daily[u][d] \in [Events -> Nat]
  BY <1>0, EventNames DEF DailyRows
<1>2. after \in [Events -> Nat] /\ \A f \in Events : after[f] = daily[u][d][f] + delta[f]
  <2>1. \A f \in Events : daily[u][d][f] + delta[f] \in Nat
    BY <1>0, <1>1
  <2> QED
    BY <2>1, EventNames
<1>3. after \in Acts
  BY <1>2, EventNames
<1>4. \A f \in Events : after[f] <= acts + 1
  <2>1. ASSUME NEW f \in Events PROVE daily[u][d][f] <= acts /\ daily[u][d][f] \in Nat
    BY <1>0, <1>1, EventNames DEF DailyRows
  <2>2. \A f \in Events : delta[f] = 0 \/ delta[f] = 1
    BY <1>0
  <2> QED
    BY <1>0, <1>2, <2>1, <2>2
<1>5. site' = IF Counted(u) THEN Adjusted(d, Change(daily[u][d], after)) ELSE site
  BY DEF Records, RecordActivity, Change
<1> HIDE DEF after
<1>6. /\ daily'[u][d] = after /\ daily' \in DayRows
      /\ \A v \in Users, e \in Days : v # u \/ e # d => daily'[v][e] = daily[v][e]
  BY <1>0, <1>1, <1>3 DEF DayRows
<1> QED
  BY <1>0, <1>1, <1>3, <1>4, <1>5, <1>6, EventNames

\* The counts of that day change by what the share of the user does, if the user
\* is counted; those of other days do not.
LEMMA RecordCounts ==
  ASSUME Clock, DailyRows, NEW u, NEW d, NEW delta, Records(u, d, delta)
  PROVE  /\ \A e \in Days : e # d \/ ~Counted(u) => Counts(e)' = Counts(e)
         /\ Counted(u) => Counts(d)' = Plus(Counts(d), Change(daily[u][d], daily'[u][d]))
<1>0. /\ u \in Users /\ d \in Days /\ user' = user /\ user \in UserRows
      /\ daily \in DayRows /\ daily' \in DayRows
      /\ daily[u][d] \in Acts /\ daily'[u][d] \in Acts
      /\ \A v \in Users, e \in Days : v # u \/ e # d => daily'[v][e] = daily[v][e]
  BY RecordEffect DEF Clock, DailyRows, UserRows, DayRows
<1> DEFINE by == Change(daily[u][d], daily'[u][d])
<1>1. ASSUME NEW e \in Days, e # d PROVE Counts(e)' = Counts(e)
  <2>1. \A v \in Users : Same(user, daily, user, daily', e, v)
    BY <1>0, <1>1 DEF Same
  <2>2. CountsOf(user, daily', e) = CountsOf(user, daily, e)
    BY <1>0, <2>1, NoUser
  <2> QED
    BY <1>0, <2>2, CountsNow, CountsNext
<1>2. \A v \in Users \ {u} : Same(user, daily, user, daily', d, v)
  BY <1>0 DEF Same
<1>3. \A f \in Fields :
        /\ CountsOf(user, daily, d)[f] \in Nat
        /\ Weight(user, daily, d, u, f) \in Nat /\ Weight(user, daily', d, u, f) \in Nat
        /\ CountsOf(user, daily', d)[f]
             = CountsOf(user, daily, d)[f] - Weight(user, daily, d, u, f)
                 + Weight(user, daily', d, u, f)
  BY <1>0, <1>2, OneUser
<1>4. CountsOf(user, daily, d) \in [Fields -> Nat] /\ CountsOf(user, daily', d) \in [Fields -> Nat]
  BY <1>0, CountsType
<1>5. ASSUME ~Counted(u) PROVE CountsOf(user, daily', d) = CountsOf(user, daily, d)
  <2>1. \A f \in Fields :
          Weight(user, daily, d, u, f) = 0 /\ Weight(user, daily', d, u, f) = 0
    BY <1>5 DEF Weight, Counted
  <2>2. \A f \in Fields : CountsOf(user, daily', d)[f] = CountsOf(user, daily, d)[f]
    BY <1>3, <2>1
  <2> QED
    BY <1>4, <2>2
<1>6. ASSUME Counted(u) PROVE CountsOf(user, daily', d) = Plus(CountsOf(user, daily, d), by)
  <2>1. /\ by \in Tally
        /\ \A f \in Fields, c \in BOOLEAN :
             /\ Share(daily[u][d], c)[f] \in Nat
             /\ Share(daily'[u][d], c)[f] = Share(daily[u][d], c)[f] + by[f]
    BY <1>0, ChangeOfShare
  <2> HIDE DEF by
  <2>2. ASSUME NEW f \in Fields
        PROVE  Weight(user, daily', d, u, f) = Weight(user, daily, d, u, f) + by[f]
    BY <1>6, <2>1 DEF Weight, Counted
  <2>3. \A n, m \in Nat, k \in Int : n - m + (m + k) = n + k
    OBVIOUS
  <2>4. ASSUME NEW f \in Fields
        PROVE  CountsOf(user, daily', d)[f] = CountsOf(user, daily, d)[f] + by[f]
    <3>1. by[f] \in Int
      BY <2>1 DEF Tally
    <3> QED
      BY <1>3, <2>2, <2>3, <3>1
  <2>5. CountsOf(user, daily, d) \in Tally /\ CountsOf(user, daily', d) \in Tally
    BY <1>4 DEF Tally
  <2>6. /\ Plus(CountsOf(user, daily, d), by) \in Tally
        /\ \A f \in Fields : Plus(CountsOf(user, daily, d), by)[f]
                               = CountsOf(user, daily, d)[f] + by[f]
    BY <2>1, <2>5, PlusType
  <2> QED
    BY <2>4, <2>5, <2>6 DEF Tally
<1> HIDE DEF by
<1>7. Counts(d) = CountsOf(user, daily, d) /\ Counts(d)' = CountsOf(user, daily', d)
  BY <1>0, CountsNow, CountsNext
<1> QED
  BY <1>1, <1>5, <1>6, <1>7 DEF by

\* What keeps the site's rows right while the day lasts: each is typed or gone,
\* and that of the day before is not gone.
LEMMA SiteKept ==
  ASSUME Clock, SiteRows, today' = today, site' \in [Days -> SiteRow \cup {Never}],
         \A d \in Days : site'[d] # Never => SiteTyped(d, site'[d]),
         today > 0 => site'[today - 1] # Never
  PROVE  SiteRows'
BY DEF SiteRows, SiteTyped

\* What a change of a day's counts does to its row if it is open, both by the
\* same numbers, keeps the rows right.
LEMMA AdjustKeeps ==
  ASSUME Clock, SiteRows, Exact, NEW d \in Nows, NEW by \in Tally,
         site' = Adjusted(d, by), today' = today, disturbed' = disturbed,
         \A e \in Days : e # d => Counts(e)' = Counts(e),
         Counts(d)' = Plus(Counts(d), by)
  PROVE  SiteRows' /\ Exact'
<1>1. d \in Days /\ today \in Int /\ d <= today /\ (d = today \/ (d = today - 1 /\ today > 0))
  BY NowsAre
<1>2. /\ site' \in [Days -> SiteRow \cup {Never}]
      /\ \A e \in Days \ {d} : site'[e] = site[e]
      /\ site'[d] # Never /\ site'[d].final = RowOf(d).final
      /\ RowOf(d).final => site'[d] = site[d]
      /\ ~RowOf(d).final => /\ site'[d].counts = Plus(RowOf(d).counts, by)
                            /\ site'[d].counts \in Tally
  BY <1>1, AdjustedAt
<1>3. SiteRows'
  <2>1. ASSUME NEW e \in Days, site'[e] # Never PROVE SiteTyped(e, site'[e])
    <3>1. CASE site'[e] = site[e]
      BY <2>1, <3>1 DEF SiteRows
    <3>2. CASE site'[e] # site[e]
      BY <1>1, <1>2, <3>2 DEF SiteTyped, Tally
    <3> QED
      BY <3>1, <3>2
  <2>2. today > 0 => site'[today - 1] # Never
    <3>1. today > 0 => today - 1 \in Days /\ site[today - 1] # Never
      BY <1>1, ActivityAssumption DEF SiteRows, Clock, Days, ActivityAssumption
    <3> QED
      BY <1>2, <3>1
  <2> QED
    BY <1>2, <2>1, <2>2, SiteKept
<1>4. Exact'
  <2>1. ASSUME NEW e \in Days \ disturbed, site'[e] # Never \/ e >= today, ~RowOf(e)'.final
        PROVE  RowOf(e)'.counts = Counts(e)'
    <3>1. CASE e # d
      <4>1. Counts(e)' = Counts(e) /\ site'[e] = site[e]
        BY <1>2, <3>1
      <4> QED
        BY <2>1, <4>1 DEF Exact, RowOf
    <3>2. CASE e = d
      <4>1. site[d] # Never \/ d >= today
        BY <1>1 DEF SiteRows
      <4>2. RowOf(d)' = site'[d]
        BY <1>2 DEF RowOf
      <4>3. ~RowOf(d).final
        BY <1>2, <2>1, <3>2, <4>2
      <4>4. RowOf(d).counts = Counts(d)
        BY <2>1, <3>2, <4>1, <4>3 DEF Exact
      <4> QED
        BY <1>2, <3>2, <4>2, <4>3, <4>4
    <3> QED
      BY <3>1, <3>2
  <2> QED
    BY <2>1 DEF Exact
<1> QED
  BY <1>3, <1>4

\* An event keeps all of it.
LEMMA RecordKeeps ==
  ASSUME Clock, DailyRows, SiteRows, Exact, NEW u, NEW d, NEW delta, Records(u, d, delta)
  PROVE  Clock' /\ DailyRows' /\ SiteRows' /\ Exact'
<1> DEFINE by == Change(daily[u][d], daily'[u][d])
<1>1. /\ u \in Users /\ d \in Days /\ user' = user /\ disturbed' = disturbed
      /\ user[u].status # "absent" /\ acts' = acts + 1 /\ acts < MaxActs
      /\ daily' \in DayRows
      /\ \A v \in Users, e \in Days : v # u \/ e # d => daily'[v][e] = daily[v][e]
      /\ \A f \in Events : daily'[u][d][f] <= acts'
      /\ daily[u][d] \in Acts /\ daily'[u][d] \in Acts
      /\ site' = IF Counted(u) THEN Adjusted(d, by) ELSE site
  BY RecordEffect
<1>2. /\ today' = today /\ bans' = bans /\ d \in Nows /\ acts \in Nat /\ today \in Nat
      /\ d <= today /\ (d = today \/ (d = today - 1 /\ today > 0))
  <2>1. d \in Nows /\ today' = today /\ bans' = bans
    BY DEF Records
  <2>2. \A x \in Days : x \in Nat
    BY ActivityAssumption DEF Days, ActivityAssumption
  <2> QED
    BY <2>1, <2>2, NowsAre DEF Clock
<1>3. by \in Tally
  BY <1>1, ChangeOfShare
<1> HIDE DEF by
<1>4. Clock'
  <2>1. acts + 1 \in 0..MaxActs
    BY <1>1, <1>2, ActivityAssumption DEF ActivityAssumption
  <2> QED
    BY <1>1, <1>2, <2>1 DEF Clock
<1>5. DailyRows'
  <2>1. daily' \in [Users -> [Days -> Acts]]
    BY <1>1 DEF DayRows
  <2>2. ASSUME NEW v \in Users, NEW e \in Days
        PROVE  /\ \A f \in Events : daily'[v][e][f] <= acts'
               /\ daily'[v][e] # NoActs => e <= today' /\ user'[v].status # "absent"
    <3>1. CASE v = u /\ e = d
      BY <1>1, <1>2, <3>1
    <3>2. CASE v # u \/ e # d
      <4>1. /\ daily'[v][e] = daily[v][e]
            /\ \A f \in Events : daily[v][e][f] <= acts /\ daily[v][e][f] \in Nat
            /\ daily[v][e] # NoActs => e <= today /\ user[v].status # "absent"
        BY <1>1, <3>2, EventNames DEF DailyRows
      <4>2. \A n \in Nat : n <= acts => n <= acts + 1
        BY <1>2
      <4> QED
        BY <1>1, <1>2, <4>1, <4>2
    <3> QED
      BY <3>1, <3>2
  <2> QED
    BY <2>1, <2>2, EventNames DEF DailyRows
<1>6. CASE ~Counted(u)
  <2>1. site' = site
    BY <1>1, <1>6
  <2>2. SiteRows'
    BY <1>2, <2>1 DEF SiteRows, SiteTyped
  <2>3. \A e \in Days : Counts(e)' = Counts(e)
    BY <1>6, RecordCounts
  <2>4. Exact'
    BY <1>1, <1>2, <2>1, <2>3 DEF Exact, RowOf
  <2> QED
    BY <1>4, <1>5, <2>2, <2>4
<1>7. CASE Counted(u)
  <2>1. site' = Adjusted(d, by)
    BY <1>1, <1>7
  <2>2. Counts(d)' = Plus(Counts(d), by) /\ \A e \in Days : e # d => Counts(e)' = Counts(e)
    BY <1>7, RecordCounts DEF by
  <2>3. SiteRows' /\ Exact'
    BY <1>1, <1>2, <1>3, <2>1, <2>2, AdjustKeeps
  <2> QED
    BY <1>4, <1>5, <2>3
<1> QED
  BY <1>6, <1>7

\* So does a step that leaves the statistics alone.
LEMMA QuietKeeps ==
  ASSUME Clock, DailyRows, SiteRows, Exact, UNCHANGED <<clock, stats>>
  PROVE  Clock' /\ DailyRows' /\ SiteRows' /\ Exact'
<1>1. /\ today' = today /\ acts' = acts /\ bans' = bans
      /\ user' = user /\ daily' = daily /\ site' = site /\ disturbed' = disturbed
  BY DEF clock, stats
<1>2. \A d \in Days : Counts(d)' = Counts(d)
  BY <1>1, CountsNow, CountsNext
<1>3. Clock' /\ DailyRows'
  BY <1>1 DEF Clock, DailyRows
<1>4. SiteRows'
  BY <1>1 DEF SiteRows, SiteTyped
<1>5. Exact'
  BY <1>1, <1>2 DEF Exact, RowOf
<1> QED
  BY <1>3, <1>4, <1>5

\* And the next day, which nothing was counted for yet.
LEMMA NextDayKeeps ==
  ASSUME Clock, DailyRows, SiteRows, Exact, NextDay
  PROVE  Clock' /\ DailyRows' /\ SiteRows' /\ Exact'
<1>1. /\ today' = today + 1 /\ today < LastDay /\ site[today] # Never
      /\ acts' = acts /\ bans' = bans
      /\ user' = user /\ daily' = daily /\ site' = site /\ disturbed' = disturbed
  BY DEF NextDay, stats
<1>2. /\ today \in Nat /\ LastDay \in Nat /\ today + 1 \in Days /\ (today + 1) - 1 = today
      /\ \A x \in Days : x \in Nat
      /\ \A x \in Nat : (x <= today => x <= today + 1) /\ (x < today => x < today + 1)
                          /\ (x >= today + 1 => x >= today)
  BY <1>1, ActivityAssumption DEF Clock, Days, ActivityAssumption
<1>3. \A d \in Days : Counts(d)' = Counts(d)
  BY <1>1, CountsNow, CountsNext
<1>4. Clock'
  BY <1>1, <1>2 DEF Clock, UserRow
<1>5. DailyRows'
  BY <1>1, <1>2 DEF DailyRows
<1>6. SiteRows'
  BY <1>1, <1>2 DEF SiteRows, SiteTyped
<1>7. Exact'
  BY <1>1, <1>2, <1>3 DEF Exact, RowOf
<1> QED
  BY <1>4, <1>5, <1>6, <1>7

-----------------------------------------------------------------------------
(* Maintenance *)

\* What maintenance makes of the rows: those before the cutoff are gone, that of
\* the present is rebuilt, the others before it are frozen.
LEMMA MaintainEffect ==
  ASSUME Clock, DailyRows, SiteRows, NEW now \in Nows, MaintainActivity(now),
         NEW cutoff, cutoff = now - (Retention - 1)
  PROVE  /\ cutoff \in Int /\ cutoff < now /\ cutoff < today
         /\ site' \in [Days -> SiteRow \cup {Never}] /\ daily' \in DayRows
         /\ \A u \in Users, d \in Days :
              daily'[u][d] = IF d < cutoff THEN NoActs ELSE daily[u][d]
         /\ \A d \in Days :
              /\ d < cutoff => site'[d] = Never
              /\ d = now => /\ site'[d] # Never /\ site'[d].counts = Counts(d)
                            /\ ~site'[d].final /\ site'[d].counts \in Tally
              /\ d >= cutoff /\ d # now => site'[d] = Finalized(now)[d]
<1>0. now \in Days /\ now \in Int /\ now <= today /\ today \in Int
  BY NowsAre
<1>1. Retention \in Nat /\ Retention >= 2
  BY ActivityAssumption DEF ActivityAssumption
<1>2. cutoff \in Int /\ cutoff < now /\ cutoff < today
  BY <1>0, <1>1
<1>3. /\ site' = [d \in Days |->
             CASE d < cutoff -> Never
               [] d = now -> [counts |-> Counts(d), final |-> FALSE]
               [] OTHER -> Finalized(now)[d]]
      /\ daily' = [u \in Users |-> [d \in Days |->
             IF d < cutoff THEN NoActs ELSE daily[u][d]]]
  BY DEF MaintainActivity
<1>4. daily \in [Users -> [Days -> Acts]] /\ user \in UserRows /\ NoActs \in Acts
  BY EventNames DEF DailyRows, Clock, UserRows
<1>5. daily' \in DayRows
  BY <1>3, <1>4 DEF DayRows
<1>6. Never \notin SiteRow /\ Finalized(now) \in [Days -> SiteRow \cup {Never}]
  BY FinalizedAt, ActivityAssumption DEF ActivityAssumption
<1>7. \A d \in Days : d \in Int
  BY ActivityAssumption DEF Days, ActivityAssumption
<1>8. ASSUME NEW d \in Days
      PROVE  /\ d < cutoff => site'[d] = Never
             /\ d = now => site'[d] = [counts |-> Counts(d), final |-> FALSE]
             /\ d >= cutoff /\ d # now => site'[d] = Finalized(now)[d]
  <2>1. site'[d] = CASE d < cutoff -> Never
                     [] d = now -> [counts |-> Counts(d), final |-> FALSE]
                     [] OTHER -> Finalized(now)[d]
    BY <1>3
  <2>2. d \in Int
    BY <1>7
  <2>3. d < cutoff => d # now
    BY <1>0, <1>2, <2>2
  <2>4. d >= cutoff => ~(d < cutoff)
    BY <1>2, <2>2
  <2> QED
    BY <2>1, <2>3, <2>4
<1>9. Counts(now) \in [Fields -> Nat]
  BY <1>0, <1>4, CountsType, CountsNow DEF DayRows
<1>10. /\ [counts |-> Counts(now), final |-> FALSE] \in SiteRow
       /\ [counts |-> Counts(now), final |-> FALSE].counts = Counts(now)
       /\ ~[counts |-> Counts(now), final |-> FALSE].final
       /\ Counts(now) \in Tally
  <2> DEFINE c == Counts(now)
  <2>1. c \in [Fields -> Nat]
    BY <1>9
  <2> HIDE DEF c
  <2>2. /\ [counts |-> c, final |-> FALSE] \in SiteRow /\ c \in Tally
        /\ [counts |-> c, final |-> FALSE].counts = c
        /\ ~[counts |-> c, final |-> FALSE].final
    BY <2>1 DEF SiteRow, Tally
  <2> QED
    BY <2>2 DEF c
<1>11. ASSUME NEW d \in Days
       PROVE  /\ site'[d] \in SiteRow \cup {Never}
              /\ d = now => /\ site'[d] # Never /\ site'[d].counts = Counts(d)
                            /\ ~site'[d].final /\ site'[d].counts \in Tally
  <2>1. d < cutoff \/ d = now \/ (d >= cutoff /\ d # now)
    BY <1>2, <1>7
  <2>2. CASE d = now
    BY <1>6, <1>8, <1>10, <2>2
  <2>3. CASE d # now
    BY <1>6, <1>8, <2>1, <2>3
  <2> QED
    BY <2>2, <2>3
<1>12. site' = [d \in Days |-> site'[d]]
  BY <1>3
<1> QED
  BY <1>2, <1>3, <1>5, <1>8, <1>11, <1>12

\* Maintenance keeps all of it.
LEMMA MaintainKeeps ==
  ASSUME Clock, DailyRows, SiteRows, Exact, NEW now \in Nows, MaintainActivity(now)
  PROVE  Clock' /\ DailyRows' /\ SiteRows' /\ Exact'
<1> DEFINE cutoff == now - (Retention - 1)
<1>0. /\ now \in Days /\ now \in Int /\ now <= today /\ today \in Int /\ today - 1 <= now
      /\ \A d \in Days : d \in Int
  BY NowsAre, ActivityAssumption DEF Days, ActivityAssumption
<1>1. /\ today' = today /\ acts' = acts /\ bans' = bans /\ user' = user
      /\ disturbed' = {d \in disturbed : d > now}
  BY DEF MaintainActivity, clock
<1>2. /\ cutoff \in Int /\ cutoff < now /\ cutoff < today
      /\ site' \in [Days -> SiteRow \cup {Never}] /\ daily' \in DayRows
      /\ \A u \in Users, d \in Days :
           daily'[u][d] = IF d < cutoff THEN NoActs ELSE daily[u][d]
      /\ \A d \in Days :
           /\ d < cutoff => site'[d] = Never
           /\ d = now => /\ site'[d] # Never /\ site'[d].counts = Counts(d)
                         /\ ~site'[d].final /\ site'[d].counts \in Tally
           /\ d >= cutoff /\ d # now => site'[d] = Finalized(now)[d]
  BY MaintainEffect
<1>3. /\ \A d \in Days \ Pending(now) : Finalized(now)[d] = site[d]
      /\ \A d \in Pending(now) :
           /\ d \in Days /\ d < now /\ Finalized(now)[d] # Never
           /\ Finalized(now)[d].final
           /\ Finalized(now)[d].counts \in [Fields -> Nat \cup {Never}]
  BY FinalizedAt
<1> HIDE DEF cutoff
<1>4. Clock'
  BY <1>1 DEF Clock
<1>5. DailyRows'
  <2>1. NoActs \in Acts /\ \A f \in Events : NoActs[f] = 0
    BY EventNames DEF NoActs, Events
  <2>2. \A u \in Users, d \in Days : \A f \in Events : daily'[u][d][f] <= acts
    <3>1. acts >= 0
      BY ActivityAssumption DEF Clock, ActivityAssumption
    <3> QED
      BY <1>2, <2>1, <3>1, EventNames DEF DailyRows
  <2> QED
    BY <1>1, <1>2, <2>2, EventNames DEF DailyRows, DayRows
<1>6. SiteRows'
  <2>1. ASSUME NEW d \in Days, site'[d] # Never PROVE SiteTyped(d, site'[d])
    <3>0. d \in Int /\ (d < cutoff \/ d >= cutoff)
      <4>1. d \in Int
        BY <1>0
      <4> QED
        BY <1>2, <4>1
    <3>1. CASE d = now
      BY <1>0, <1>2, <3>1 DEF SiteTyped, Tally
    <3>2. CASE d # now /\ d \in Pending(now)
      BY <1>0, <1>2, <1>3, <2>1, <3>0, <3>2 DEF SiteTyped
    <3>3. CASE d # now /\ d \notin Pending(now)
      <4>1. site'[d] = site[d]
        BY <1>2, <1>3, <2>1, <3>0, <3>3
      <4> QED
        BY <2>1, <4>1 DEF SiteRows
    <3> QED
      BY <3>1, <3>2, <3>3
  <2>2. today > 0 => site'[today - 1] # Never
    <3>1. SUFFICES ASSUME today > 0 PROVE site'[today - 1] # Never
      OBVIOUS
    <3>2. today - 1 \in Days /\ site[today - 1] # Never
      BY <1>0, <3>1, ActivityAssumption DEF SiteRows, Clock, Days, ActivityAssumption
    <3>3. today - 1 >= cutoff
      BY <1>0, <1>2
    <3>4. CASE today - 1 = now
      BY <1>2, <3>2, <3>4
    <3>5. CASE today - 1 # now
      <4>1. site'[today - 1] = Finalized(now)[today - 1]
        BY <1>2, <3>2, <3>3, <3>5
      <4> QED
        BY <1>3, <3>2, <4>1
    <3> QED
      BY <3>4, <3>5
  <2> QED
    BY <1>1, <1>2, <2>1, <2>2, SiteKept
<1>7. Exact'
  <2>1. ASSUME NEW d \in Days \ disturbed', site'[d] # Never \/ d >= today, ~RowOf(d)'.final
        PROVE  RowOf(d)'.counts = Counts(d)'
    <3>0. d \in Days /\ d \in Int /\ (d < cutoff \/ d >= cutoff)
      <4>1. d \in Days
        OBVIOUS
      <4>2. d \in Int
        BY <1>0, <4>1
      <4> QED
        BY <1>2, <4>1, <4>2
    <3>1. d >= cutoff
      BY <1>0, <1>2, <2>1, <3>0
    <3>2. Counts(d)' = Counts(d)
      <4>1. user \in UserRows /\ daily \in DayRows
        BY DEF Clock, DailyRows, UserRows, DayRows
      <4>2. \A v \in Users : Same(user, daily, user, daily', d, v)
        <5>1. ~(d < cutoff)
          BY <1>2, <3>0, <3>1
        <5> QED
          BY <1>2, <5>1 DEF Same
      <4>3. CountsOf(user, daily', d) = CountsOf(user, daily, d)
        BY <1>2, <4>1, <4>2, NoUser
      <4> QED
        BY <1>1, <4>3, CountsNow, CountsNext
    <3>3. CASE d = now
      BY <1>2, <3>2, <3>3 DEF RowOf
    <3>4. CASE d # now
      <4>1. site'[d] = Finalized(now)[d]
        BY <1>2, <3>1, <3>4
      <4>2. d \notin Pending(now)
        BY <1>3, <2>1, <4>1 DEF RowOf
      <4>3. site'[d] = site[d] /\ RowOf(d)' = RowOf(d)
        BY <1>3, <4>1, <4>2 DEF RowOf
      <4>4. ~(d < now)
        <5>1. ASSUME d < now PROVE FALSE
          <6>1. d < today
            BY <1>0, <3>0, <5>1
          <6>2. site[d] # Never
            BY <1>0, <2>1, <3>0, <4>3, <6>1
          <6>3. RowOf(d) = site[d]
            BY <6>2 DEF RowOf
          <6> QED
            BY <2>1, <4>2, <4>3, <5>1, <6>2, <6>3 DEF Pending
        <5> QED
          BY <5>1
      <4>5. d \notin disturbed
        BY <1>0, <1>1, <2>1, <3>0, <3>4, <4>4
      <4> QED
        BY <2>1, <3>2, <4>3, <4>5 DEF Exact
    <3> QED
      BY <3>3, <3>4
  <2> QED
    BY <1>1, <2>1 DEF Exact
<1> QED
  BY <1>4, <1>5, <1>6, <1>7

-----------------------------------------------------------------------------
(* Users who come *)

\* A registration.
NewUser == [Zero EXCEPT !["newUsers"] = 1]

\* It adds itself to the counts of its day, and nothing else.
LEMMA RegistrationCounts ==
  ASSUME Clock, DailyRows, NEW u \in Users, NEW now \in Nows, CreateUser(u, now)
  PROVE  /\ NewUser \in Tally
         /\ \A e \in Days : e # now => Counts(e)' = Counts(e)
         /\ Counts(now)' = Plus(Counts(now), NewUser)
<1>0. /\ user[u].status = "absent" /\ daily' = daily /\ now \in Days
      /\ user' = [user EXCEPT ![u] = [status |-> "enabled", created |-> now]]
  BY NowsAre DEF CreateUser
<1>1. user \in UserRows /\ daily \in DayRows /\ \A e \in Days : daily[u][e] = NoActs
  BY <1>0 DEF Clock, DailyRows, UserRows, DayRows
<1>2. /\ user' \in UserRows /\ user'[u].status = "enabled" /\ user'[u].created = now
      /\ \A v \in Users \ {u} : user'[v] = user[v]
  BY <1>0, <1>1 DEF UserRows, UserRow
<1>3. NewUser \in Tally /\ \A f \in Fields : NewUser[f] \in Nat
  <2>1. NewUser = [f \in Fields |-> IF f = "newUsers" THEN 1 ELSE 0]
    BY DEF NewUser, Zero
  <2> QED
    BY <2>1 DEF Tally
<1>4. ASSUME NEW e \in Days, NEW f \in Fields
      PROVE  /\ CountsOf(user, daily, e)[f] \in Nat
             /\ CountsOf(user', daily, e)[f]
                  = CountsOf(user, daily, e)[f] + Share(NoActs, now = e)[f]
             /\ Share(NoActs, now = e)[f] \in Nat
  <2>1. \A v \in Users \ {u} : Same(user, daily, user', daily, e, v)
    BY <1>2 DEF Same
  <2>2. /\ CountsOf(user, daily, e)[f] \in Nat
        /\ CountsOf(user', daily, e)[f]
             = CountsOf(user, daily, e)[f] - Weight(user, daily, e, u, f)
                 + Weight(user', daily, e, u, f)
        /\ Weight(user', daily, e, u, f) \in Nat
    BY <1>1, <1>2, <2>1, OneUser
  <2>3. /\ Weight(user, daily, e, u, f) = 0
        /\ Weight(user', daily, e, u, f) = Share(NoActs, now = e)[f]
    BY <1>0, <1>1, <1>2 DEF Weight
  <2>4. \A n, m \in Nat : n - 0 + m = n + m
    OBVIOUS
  <2> QED
    BY <2>2, <2>3, <2>4
<1>5. ASSUME NEW e \in Days
      PROVE  /\ Counts(e) = CountsOf(user, daily, e) /\ Counts(e)' = CountsOf(user', daily, e)
             /\ CountsOf(user, daily, e) \in [Fields -> Nat]
             /\ CountsOf(user', daily, e) \in [Fields -> Nat]
  BY <1>0, <1>1, <1>2, CountsNow, CountsNext, CountsType
<1>6. ASSUME NEW e \in Days, e # now PROVE Counts(e)' = Counts(e)
  <2>1. (now = e) = FALSE
    BY <1>6
  <2>2. \A f \in Fields : Share(NoActs, now = e)[f] = 0
    BY <2>1, ShareOfNothing
  <2>3. \A f \in Fields : CountsOf(user', daily, e)[f] = CountsOf(user, daily, e)[f]
    BY <1>4, <2>2
  <2>4. CountsOf(user', daily, e) = CountsOf(user, daily, e)
    BY <1>5, <2>3
  <2> QED
    BY <1>5, <2>4
<1>7. Counts(now)' = Plus(Counts(now), NewUser)
  <2>1. ASSUME NEW e \in Days, e = now, NEW f \in Fields
        PROVE  Share(NoActs, now = e)[f] = NewUser[f]
    <3>1. Share(NoActs, TRUE)[f] = Share(NoActs, FALSE)[f] + NewUser[f]
      BY EventNames, ShareOfRegistration DEF NewUser
    <3>2. Share(NoActs, FALSE)[f] = 0 /\ NewUser[f] \in Nat
      BY <1>3, ShareOfNothing
    <3>3. (now = e) = TRUE
      BY <2>1
    <3>4. Share(NoActs, now = e)[f] = Share(NoActs, TRUE)[f]
      BY <3>3
    <3>5. Share(NoActs, TRUE)[f] = 0 + NewUser[f]
      BY <3>1, <3>2
    <3>6. \A n \in Nat : 0 + n = n
      OBVIOUS
    <3> QED
      BY <3>2, <3>4, <3>5, <3>6
  <2>2. ASSUME NEW e \in Days, e = now
        PROVE  CountsOf(user', daily, e) = Plus(CountsOf(user, daily, e), NewUser)
    <3>1. \A f \in Fields : CountsOf(user', daily, e)[f] = CountsOf(user, daily, e)[f] + NewUser[f]
      BY <1>4, <2>1, <2>2
    <3>2. CountsOf(user, daily, e) \in Tally /\ CountsOf(user', daily, e) \in Tally
      <4>1. /\ CountsOf(user, daily, e) \in [Fields -> Nat]
            /\ CountsOf(user', daily, e) \in [Fields -> Nat]
        BY <1>5
      <4> QED
        BY <4>1 DEF Tally
    <3>3. /\ Plus(CountsOf(user, daily, e), NewUser) \in Tally
          /\ \A f \in Fields : Plus(CountsOf(user, daily, e), NewUser)[f]
                                 = CountsOf(user, daily, e)[f] + NewUser[f]
      BY <1>3, <3>2, PlusType
    <3> QED
      BY <3>1, <3>2, <3>3 DEF Tally
  <2> QED
    BY <1>0, <1>5, <2>2
<1> QED
  BY <1>3, <1>6, <1>7

\* Registration keeps all of it.
LEMMA CreateKeeps ==
  ASSUME Clock, DailyRows, SiteRows, Exact, NEW u \in Users, NEW now \in Nows,
         CreateUser(u, now)
  PROVE  Clock' /\ DailyRows' /\ SiteRows' /\ Exact'
<1>1. /\ user' = [user EXCEPT ![u] = [status |-> "enabled", created |-> now]]
      /\ site' = Adjusted(now, NewUser)
      /\ today' = today /\ acts' = acts /\ bans' = bans
      /\ daily' = daily /\ disturbed' = disturbed
  BY DEF CreateUser, clock, NewUser
<1>2. now \in Days /\ now <= today
  BY NowsAre
<1>3. Clock'
  BY <1>1, <1>2 DEF Clock, UserRow
<1>4. DailyRows'
  BY <1>1 DEF DailyRows, Clock, UserRow
<1>5. SiteRows' /\ Exact'
  <2>1. /\ NewUser \in Tally
        /\ \A e \in Days : e # now => Counts(e)' = Counts(e)
        /\ Counts(now)' = Plus(Counts(now), NewUser)
    BY RegistrationCounts
  <2> QED
    BY <1>1, <2>1, AdjustKeeps
<1> QED
  BY <1>3, <1>4, <1>5

-----------------------------------------------------------------------------
(* Users who go, and come back *)

\* The bigger of a number and zero.
LEMMA MaxOfZero ==
  ASSUME NEW x \in Int
  PROVE  Max({0, x}) \in Nat /\ (x >= 0 => Max({0, x}) = x)
<1>1. IsFiniteSet({0}) /\ {0} \cup {x} = {0, x}
  BY FS_Singleton
<1>2. IsFiniteSet({0, x})
  BY <1>1, FS_AddElement
<1>3. Max({0, x}) \in {0, x} /\ \A y \in {0, x} : Max({0, x}) >= y
  BY <1>2, MaxExists
<1> QED
  BY <1>3

\* What user u adds to day d when counted.
ShareOf(u, d) == Share(daily[u][d], user[u].created = d)

\* It is numbers, and nothing for a day to come.
LEMMA ShareOfType ==
  ASSUME Clock, DailyRows, NEW u \in Users, NEW d \in Days
  PROVE  /\ ShareOf(u, d) \in [Fields -> Nat]
         /\ d > today => \A f \in Fields : ShareOf(u, d)[f] = 0
<1>1. daily[u][d] \in Acts
  BY DEF DailyRows
<1>2. ShareOf(u, d) \in [Fields -> Nat]
  BY <1>1, ShareType DEF ShareOf
<1>3. ASSUME d > today PROVE \A f \in Fields : ShareOf(u, d)[f] = 0
  <2>1. today \in Int /\ d \in Int /\ user[u].created \in Int /\ user[u].created <= today
    BY ActivityAssumption DEF Clock, Days, UserRow, ActivityAssumption
  <2>2. daily[u][d] = NoActs
    BY <1>3, <2>1 DEF DailyRows
  <2>3. (user[u].created = d) = FALSE
    BY <1>3, <2>1
  <2> QED
    BY <2>2, <2>3, ShareOfNothing DEF ShareOf
<1> QED
  BY <1>2, <1>3

\* What the counts of the present become when user u enters or leaves.
Entered(c, u, now, dir) == [f \in Fields |-> Max({0, c[f] + dir * ShareOf(u, now)[f]})]

\* What such a move makes of the rows.
LEMMA MovedAt ==
  ASSUME Clock, SiteRows, DailyRows, NEW u \in Users, NEW now \in Nows, NEW dir \in {-1, 1}
  PROVE  /\ Moved(u, now, dir) \in [Days -> SiteRow \cup {Never}]
         /\ \A e \in Days \ {now} : Moved(u, now, dir)[e] = Finalized(now)[e]
         /\ Moved(u, now, dir)[now] # Never
         /\ Moved(u, now, dir)[now].final = RowOf(now).final
         /\ RowOf(now).final => Moved(u, now, dir)[now] = site[now]
         /\ ~RowOf(now).final =>
              /\ Moved(u, now, dir)[now].counts = Entered(RowOf(now).counts, u, now, dir)
              /\ Moved(u, now, dir)[now].counts \in Tally
<1> DEFINE r == RowOf(now)
           c == Entered(r.counts, u, now, dir)
           n == IF r.final THEN r ELSE [r EXCEPT !.counts = c]
<1>0. now \in Days
  BY NowsAre
<1>1. Moved(u, now, dir) = [Finalized(now) EXCEPT ![now] = n]
  <2>1. r \in SiteRow
    BY <1>0, RowFacts
  <2>2. [r EXCEPT !.counts = [f \in Fields |-> Max({0, @[f] + dir * ShareOf(u, now)[f]})]]
          = [r EXCEPT !.counts = c]
    BY <2>1 DEF SiteRow, Entered
  <2> QED
    BY <2>2 DEF Moved, RowOf, ShareOf
<1>2. /\ r \in SiteRow /\ r # Never /\ r.final \in BOOLEAN
      /\ r.final => site[now] = r
      /\ ~r.final => r.counts \in Tally
  BY <1>0, RowFacts
<1>3. Finalized(now) \in [Days -> SiteRow \cup {Never}]
  BY FinalizedAt
<1>4. CASE r.final
  <2>1. n = r
    BY <1>4
  <2> HIDE DEF n, r
  <2> QED
    BY <1>0, <1>1, <1>2, <1>3, <1>4, <2>1 DEF r
<1>5. CASE ~r.final
  <2>1. c \in Tally
    <3>1. ASSUME NEW f \in Fields PROVE Max({0, r.counts[f] + dir * ShareOf(u, now)[f]}) \in Int
      <4>1. r.counts[f] \in Int /\ ShareOf(u, now)[f] \in Nat
        BY <1>0, <1>2, <1>5, ShareOfType DEF Tally
      <4>2. \A x \in Int, y \in Nat : x + dir * y \in Int
        <5>1. \A x \in Int, y \in Nat : x + (-1) * y \in Int /\ x + 1 * y \in Int
          OBVIOUS
        <5> QED
          BY <5>1
      <4>3. r.counts[f] + dir * ShareOf(u, now)[f] \in Int
        BY <4>1, <4>2
      <4> QED
        BY <4>3, MaxOfZero
    <3> QED
      BY <3>1 DEF Entered, Tally
  <2>2. n = [r EXCEPT !.counts = c]
    BY <1>5
  <2> HIDE DEF c, n, r
  <2>3. n \in SiteRow /\ n # Never /\ n.counts = c /\ n.final = r.final
    BY <1>2, <2>1, <2>2, RowWith
  <2> QED
    BY <1>0, <1>1, <1>2, <1>3, <1>5, <2>1, <2>3 DEF r, c
<1> QED
  BY <1>4, <1>5

\* A step in which only user u changes, and adds so much more or less.
Shifts(u, dir) ==
  /\ user' \in UserRows /\ daily' \in DayRows
  /\ \A d \in Days, v \in Users \ {u} : Same(user, daily, user', daily', d, v)
  /\ \A d \in Days, f \in Fields :
       Weight(user', daily', d, u, f)
         = Weight(user, daily, d, u, f) + dir * ShareOf(u, d)[f]

\* So do the counts.
LEMMA ShiftedCounts ==
  ASSUME Clock, DailyRows, NEW u \in Users, NEW dir \in {-1, 1}, Shifts(u, dir),
         NEW d \in Days
  PROVE  /\ Counts(d) \in [Fields -> Nat] /\ Counts(d)' \in [Fields -> Nat]
         /\ \A f \in Fields : Counts(d)'[f] = Counts(d)[f] + dir * ShareOf(u, d)[f]
         /\ d > today => Counts(d)' = Counts(d)
<1>1. /\ user \in UserRows /\ daily \in DayRows /\ user' \in UserRows /\ daily' \in DayRows
      /\ \A v \in Users \ {u} : Same(user, daily, user', daily', d, v)
  BY DEF Clock, DailyRows, UserRows, DayRows, Shifts
<1>2. /\ Counts(d) = CountsOf(user, daily, d) /\ Counts(d)' = CountsOf(user', daily', d)
      /\ CountsOf(user, daily, d) \in [Fields -> Nat]
      /\ CountsOf(user', daily', d) \in [Fields -> Nat]
  BY <1>1, CountsNow, CountsNext, CountsType
<1>3. ASSUME NEW f \in Fields
      PROVE  CountsOf(user', daily', d)[f]
               = CountsOf(user, daily, d)[f] + dir * ShareOf(u, d)[f]
  <2>1. /\ CountsOf(user, daily, d)[f] \in Nat
        /\ Weight(user, daily, d, u, f) \in Nat
        /\ CountsOf(user', daily', d)[f]
             = CountsOf(user, daily, d)[f] - Weight(user, daily, d, u, f)
                 + Weight(user', daily', d, u, f)
    BY <1>1, OneUser
  <2>2. /\ Weight(user', daily', d, u, f)
             = Weight(user, daily, d, u, f) + dir * ShareOf(u, d)[f]
        /\ ShareOf(u, d)[f] \in Nat
    BY ShareOfType DEF Shifts
  <2>3. \A n, m, k \in Nat :
          /\ n - m + (m + 1 * k) = n + 1 * k
          /\ n - m + (m + (-1) * k) = n + (-1) * k
    OBVIOUS
  <2>4. \A n, m, k \in Nat : n - m + (m + dir * k) = n + dir * k
    BY <2>3
  <2> QED
    BY <2>1, <2>2, <2>4
<1>4. ASSUME d > today PROVE CountsOf(user', daily', d) = CountsOf(user, daily, d)
  <2>1. ASSUME NEW f \in Fields
        PROVE  CountsOf(user', daily', d)[f] = CountsOf(user, daily, d)[f]
    <3>1. ShareOf(u, d)[f] = 0
      BY <1>4, ShareOfType
    <3>2. \A n \in Nat : n + 1 * 0 = n /\ n + (-1) * 0 = n
      OBVIOUS
    <3>3. \A n \in Nat : n + dir * 0 = n
      BY <3>2
    <3>4. CountsOf(user, daily, d)[f] \in Nat
      BY <1>2
    <3> QED
      BY <1>3, <3>1, <3>3, <3>4
  <2> QED
    BY <1>2, <2>1
<1> QED
  BY <1>2, <1>3, <1>4

\* Moving a user keeps the rows right, whatever day is taken for the present:
\* what is before it is frozen, and what is between it and today is disturbed.
LEMMA MoveKeeps ==
  ASSUME Clock, DailyRows, SiteRows, Exact, NEW u \in Users, NEW now \in Nows,
         NEW dir \in {-1, 1}, Shifts(u, dir), Move(u, now, dir), today' = today
  PROVE  SiteRows' /\ Exact'
<1>0. /\ now \in Days /\ now \in Int /\ now <= today /\ today \in Int /\ today - 1 <= now
      /\ now = today \/ (now = today - 1 /\ today > 0)
      /\ \A d \in Days : d \in Int
  BY NowsAre, ActivityAssumption DEF Days, ActivityAssumption
<1>1. /\ site' = Moved(u, now, dir)
      /\ disturbed' = (disturbed \ Pending(now)) \cup {d \in Days : now < d /\ d <= today}
  BY DEF Move
<1>2. /\ site' \in [Days -> SiteRow \cup {Never}]
      /\ \A e \in Days \ {now} : site'[e] = Finalized(now)[e]
      /\ site'[now] # Never /\ site'[now].final = RowOf(now).final
      /\ RowOf(now).final => site'[now] = site[now]
      /\ ~RowOf(now).final =>
           /\ site'[now].counts = Entered(RowOf(now).counts, u, now, dir)
           /\ site'[now].counts \in Tally
  BY <1>1, MovedAt
<1>3. /\ \A d \in Days \ Pending(now) : Finalized(now)[d] = site[d]
      /\ \A d \in Pending(now) :
           /\ d \in Days /\ d < now /\ Finalized(now)[d] # Never
           /\ Finalized(now)[d].final
           /\ Finalized(now)[d].counts \in [Fields -> Nat \cup {Never}]
  BY FinalizedAt
<1>4. SiteRows'
  <2>1. ASSUME NEW d \in Days, site'[d] # Never PROVE SiteTyped(d, site'[d])
    <3>1. CASE d = now /\ RowOf(now).final
      BY <1>0, <1>2, <2>1, <3>1 DEF SiteRows
    <3>2. CASE d = now /\ ~RowOf(now).final
      BY <1>0, <1>2, <3>2 DEF SiteTyped, Tally
    <3>3. CASE d # now /\ d \in Pending(now)
      <4>1. d \in Int /\ site'[d] = Finalized(now)[d]
        BY <1>0, <1>2, <3>3
      <4> QED
        BY <1>0, <1>3, <3>3, <4>1 DEF SiteTyped
    <3>4. CASE d # now /\ d \notin Pending(now)
      <4>1. site'[d] = site[d]
        BY <1>2, <1>3, <3>4
      <4> QED
        BY <2>1, <4>1 DEF SiteRows
    <3> QED
      BY <3>1, <3>2, <3>3, <3>4
  <2>2. today > 0 => site'[today - 1] # Never
    <3>1. SUFFICES ASSUME today > 0 PROVE site'[today - 1] # Never
      OBVIOUS
    <3>2. today - 1 \in Days /\ site[today - 1] # Never
      BY <1>0, <3>1, ActivityAssumption DEF SiteRows, Clock, Days, ActivityAssumption
    <3>3. CASE today - 1 = now
      BY <1>2, <3>3
    <3>4. CASE today - 1 # now
      <4>1. site'[today - 1] = Finalized(now)[today - 1]
        BY <1>2, <3>2, <3>4
      <4> QED
        BY <1>3, <3>2, <4>1
    <3> QED
      BY <3>3, <3>4
  <2> QED
    BY <1>2, <2>1, <2>2, SiteKept
<1>5. Exact'
  <2>1. ASSUME NEW d \in Days, d \notin disturbed', site'[d] # Never \/ d >= today,
               ~RowOf(d)'.final
        PROVE  RowOf(d)'.counts = Counts(d)'
    <3>0. d \in Int
      BY <1>0
    <3>1. CASE d = now
      <4>1. RowOf(now)' = site'[now] /\ ~RowOf(now).final
        BY <1>2, <2>1, <3>1 DEF RowOf
      <4>2. now \notin disturbed
        BY <1>0, <1>1, <1>3, <2>1, <3>1
      <4>3. RowOf(now).counts = Counts(now)
        <5>1. site[now] # Never \/ now >= today
          BY <1>0 DEF SiteRows
        <5> QED
          BY <1>0, <4>1, <4>2, <5>1 DEF Exact
      <4>4. /\ Counts(now)' \in [Fields -> Nat]
            /\ \A f \in Fields : Counts(now)'[f] = Counts(now)[f] + dir * ShareOf(u, now)[f]
        BY <1>0, ShiftedCounts
      <4>5. ASSUME NEW f \in Fields
            PROVE  Max({0, Counts(now)[f] + dir * ShareOf(u, now)[f]}) = Counts(now)'[f]
        <5>1. Counts(now)'[f] \in Nat
          BY <4>4
        <5>2. \A x \in Nat : Max({0, x}) = x
          BY MaxOfZero
        <5> QED
          BY <4>4, <5>1, <5>2
      <4>6. Entered(Counts(now), u, now, dir) = [f \in Fields |-> Counts(now)'[f]]
        BY <4>5 DEF Entered
      <4>7. Entered(Counts(now), u, now, dir) = Counts(now)'
        BY <4>4, <4>6
      <4> QED
        BY <1>2, <3>1, <4>1, <4>3, <4>7
    <3>2. CASE d # now
      <4>1. site'[d] = Finalized(now)[d]
        BY <1>2, <3>2
      <4>2. d \notin Pending(now)
        BY <1>3, <2>1, <4>1 DEF RowOf
      <4>3. site'[d] = site[d] /\ RowOf(d)' = RowOf(d)
        BY <1>3, <4>1, <4>2 DEF RowOf
      <4>4. ~(d < now)
        <5>1. ASSUME d < now PROVE FALSE
          <6>1. d < today
            BY <1>0, <3>0, <5>1
          <6>2. site[d] # Never
            BY <1>0, <2>1, <3>0, <4>3, <6>1
          <6>3. RowOf(d) = site[d]
            BY <6>2 DEF RowOf
          <6> QED
            BY <2>1, <4>2, <4>3, <5>1, <6>2, <6>3 DEF Pending
        <5> QED
          BY <5>1
      <4>5. d > today /\ d \notin disturbed
        <5>1. d > now
          BY <1>0, <3>0, <3>2, <4>4
        <5> QED
          BY <1>0, <1>1, <2>1, <3>0, <4>2, <5>1
      <4>6. Counts(d)' = Counts(d)
        BY <4>5, ShiftedCounts
      <4> QED
        BY <2>1, <4>3, <4>5, <4>6 DEF Exact
    <3> QED
      BY <3>1, <3>2
  <2> QED
    BY <2>1, <1>0 DEF Exact
<1> QED
  BY <1>4, <1>5

\* Freezing alone keeps them right, if nobody adds more or less.
LEMMA FreezeKeeps ==
  ASSUME Clock, DailyRows, SiteRows, Exact, NEW now \in Nows,
         site' = Finalized(now), disturbed' = disturbed \ Pending(now), today' = today,
         \A d \in Days : Counts(d)' = Counts(d)
  PROVE  SiteRows' /\ Exact'
<1>0. /\ now \in Days /\ now \in Int /\ now <= today /\ today \in Int /\ today - 1 <= now
      /\ \A d \in Days : d \in Int
  BY NowsAre, ActivityAssumption DEF Days, ActivityAssumption
<1>1. /\ site' \in [Days -> SiteRow \cup {Never}]
      /\ \A d \in Days \ Pending(now) : site'[d] = site[d]
      /\ \A d \in Pending(now) :
           /\ d \in Days /\ d < now /\ site'[d] # Never
           /\ site'[d].final /\ site'[d].counts \in [Fields -> Nat \cup {Never}]
  BY FinalizedAt
<1>2. SiteRows'
  <2>1. ASSUME NEW d \in Days, site'[d] # Never PROVE SiteTyped(d, site'[d])
    <3>1. CASE d \in Pending(now)
      <4>1. d \in Int
        BY <1>0
      <4> QED
        BY <1>0, <1>1, <3>1, <4>1 DEF SiteTyped
    <3>2. CASE d \notin Pending(now)
      <4>1. site'[d] = site[d]
        BY <1>1, <3>2
      <4> QED
        BY <2>1, <4>1 DEF SiteRows
    <3> QED
      BY <3>1, <3>2
  <2>2. today > 0 => site'[today - 1] # Never
    <3>1. today > 0 => today - 1 \in Days /\ site[today - 1] # Never
      BY <1>0, ActivityAssumption DEF SiteRows, Clock, Days, ActivityAssumption
    <3> QED
      BY <1>1, <3>1
  <2> QED
    BY <1>1, <2>1, <2>2, SiteKept
<1>3. Exact'
  <2>1. ASSUME NEW d \in Days, d \notin disturbed', site'[d] # Never \/ d >= today,
               ~RowOf(d)'.final
        PROVE  RowOf(d)'.counts = Counts(d)'
    <3>1. d \notin Pending(now)
      BY <1>1, <2>1 DEF RowOf
    <3>2. site'[d] = site[d] /\ RowOf(d)' = RowOf(d) /\ d \notin disturbed
      BY <1>1, <2>1, <3>1 DEF RowOf
    <3> QED
      BY <2>1, <3>2 DEF Exact
  <2> QED
    BY <2>1 DEF Exact
<1> QED
  BY <1>2, <1>3

\* A ban keeps all of it.
LEMMA DisableKeeps ==
  ASSUME Clock, DailyRows, SiteRows, Exact, NEW u \in Users, NEW now \in Nows,
         SetUserDisabled(u, now)
  PROVE  Clock' /\ DailyRows' /\ SiteRows' /\ Exact'
<1>1. /\ user[u].status = "enabled" /\ user' = [user EXCEPT ![u].status = "disabled"]
      /\ Move(u, now, -1) /\ today' = today /\ acts' = acts /\ daily' = daily
      /\ bans < MaxBans /\ bans' = bans + 1
  BY DEF SetUserDisabled
<1>2. /\ user' \in UserRows /\ user'[u].status = "disabled"
      /\ \A v \in Users : user'[v].created = user[v].created
      /\ \A v \in Users \ {u} : user'[v] = user[v]
  BY <1>1 DEF Clock, UserRows, UserRow
<1>3. Clock'
  <2>1. bans + 1 \in 0..MaxBans
    BY <1>1, ActivityAssumption DEF Clock, ActivityAssumption
  <2>2. disturbed' \subseteq Days
    BY <1>1 DEF Clock, Move
  <2> QED
    BY <1>1, <1>2, <2>1, <2>2 DEF Clock, UserRows
<1>4. DailyRows'
  <2>1. \A v \in Users : user'[v].status = "absent" => user[v].status = "absent"
    BY <1>2
  <2> QED
    BY <1>1, <2>1 DEF DailyRows
<1>5. Shifts(u, -1)
  <2>1. ASSUME NEW d \in Days, NEW f \in Fields
        PROVE  Weight(user', daily', d, u, f)
                 = Weight(user, daily, d, u, f) + (-1) * ShareOf(u, d)[f]
    <3>1. Weight(user', daily', d, u, f) = 0 /\ Weight(user, daily, d, u, f) = ShareOf(u, d)[f]
      BY <1>1, <1>2 DEF Weight, ShareOf
    <3>2. ShareOf(u, d)[f] \in Nat
      BY ShareOfType
    <3>3. \A n \in Nat : 0 = n + (-1) * n
      OBVIOUS
    <3> QED
      BY <3>1, <3>2, <3>3
  <2>2. \A d \in Days, v \in Users \ {u} : Same(user, daily, user', daily', d, v)
    BY <1>1, <1>2 DEF Same
  <2>3. daily' \in DayRows
    BY <1>1 DEF DailyRows, DayRows
  <2> QED
    BY <1>2, <2>1, <2>2, <2>3 DEF Shifts
<1>6. SiteRows' /\ Exact'
  BY <1>1, <1>5, MoveKeeps
<1> QED
  BY <1>3, <1>4, <1>6

\* So does a return.
LEMMA UnbanKeeps ==
  ASSUME Clock, DailyRows, SiteRows, Exact, NEW u \in Users, NEW now \in Nows,
         UnbanUser(u, now)
  PROVE  Clock' /\ DailyRows' /\ SiteRows' /\ Exact'
<1>1. /\ user[u].status = "disabled" /\ user' = [user EXCEPT ![u].status = "enabled"]
      /\ Move(u, now, 1) /\ today' = today /\ acts' = acts /\ bans' = bans /\ daily' = daily
  BY DEF UnbanUser, clock
<1>2. /\ user' \in UserRows /\ user'[u].status = "enabled"
      /\ \A v \in Users : user'[v].created = user[v].created
      /\ \A v \in Users \ {u} : user'[v] = user[v]
  BY <1>1 DEF Clock, UserRows, UserRow
<1>3. Clock'
  <2>1. disturbed' \subseteq Days
    BY <1>1 DEF Clock, Move
  <2> QED
    BY <1>1, <1>2, <2>1 DEF Clock, UserRows
<1>4. DailyRows'
  <2>1. \A v \in Users : user'[v].status = "absent" => user[v].status = "absent"
    BY <1>2
  <2> QED
    BY <1>1, <2>1 DEF DailyRows
<1>5. Shifts(u, 1)
  <2>1. ASSUME NEW d \in Days, NEW f \in Fields
        PROVE  Weight(user', daily', d, u, f)
                 = Weight(user, daily, d, u, f) + 1 * ShareOf(u, d)[f]
    <3>1. Weight(user', daily', d, u, f) = ShareOf(u, d)[f] /\ Weight(user, daily, d, u, f) = 0
      BY <1>1, <1>2 DEF Weight, ShareOf
    <3>2. ShareOf(u, d)[f] \in Nat
      BY ShareOfType
    <3>3. \A n \in Nat : n = 0 + 1 * n
      OBVIOUS
    <3> QED
      BY <3>1, <3>2, <3>3
  <2>2. \A d \in Days, v \in Users \ {u} : Same(user, daily, user', daily', d, v)
    BY <1>1, <1>2 DEF Same
  <2>3. daily' \in DayRows
    BY <1>1 DEF DailyRows, DayRows
  <2> QED
    BY <1>2, <2>1, <2>2, <2>3 DEF Shifts
<1>6. SiteRows' /\ Exact'
  BY <1>1, <1>5, MoveKeeps
<1> QED
  BY <1>3, <1>4, <1>6

\* And a deletion, of a user who counts or one who is disabled.
LEMMA DeleteKeeps ==
  ASSUME Clock, DailyRows, SiteRows, Exact, NEW u \in Users, NEW now \in Nows,
         DeleteUser(u, now)
  PROVE  Clock' /\ DailyRows' /\ SiteRows' /\ Exact'
<1>1. /\ u \in Rows /\ user' = [user EXCEPT ![u].status = "deleted"]
      /\ today' = today /\ acts' = acts /\ bans' = bans
      /\ daily' = [daily EXCEPT ![u] = [d \in Days |-> NoActs]]
      /\ IF user[u].status = "enabled" THEN Move(u, now, -1)
         ELSE site' = Finalized(now) /\ disturbed' = disturbed \ Pending(now)
  BY DEF DeleteUser, clock
<1>2. /\ user' \in UserRows /\ user'[u].status = "deleted"
      /\ \A v \in Users : user'[v].created = user[v].created
      /\ \A v \in Users \ {u} : user'[v] = user[v]
  BY <1>1 DEF Clock, UserRows, UserRow
<1>3. /\ daily' \in DayRows /\ \A d \in Days : daily'[u][d] = NoActs
      /\ \A v \in Users \ {u} : daily'[v] = daily[v]
      /\ \A f \in Events : NoActs[f] = 0
  BY <1>1, EventNames DEF DailyRows, DayRows, NoActs, Events
<1>4. Clock'
  <2>1. disturbed' \subseteq Days
    BY <1>1 DEF Clock, Move
  <2> QED
    BY <1>1, <1>2, <2>1 DEF Clock, UserRows
<1>5. DailyRows'
  <2>1. acts >= 0
    BY ActivityAssumption DEF Clock, ActivityAssumption
  <2>2. ASSUME NEW v \in Users, NEW d \in Days
        PROVE  /\ \A f \in DOMAIN NoActs : daily'[v][d][f] <= acts
               /\ daily'[v][d] # NoActs => d <= today /\ user'[v].status # "absent"
    <3>1. CASE v = u
      BY <1>3, <2>1, <3>1, EventNames
    <3>2. CASE v # u
      BY <1>2, <1>3, <3>2 DEF DailyRows
    <3> QED
      BY <3>1, <3>2
  <2> QED
    BY <1>1, <1>3, <2>2 DEF DailyRows, DayRows
<1>6. \A d \in Days, v \in Users \ {u} : Same(user, daily, user', daily', d, v)
  BY <1>2, <1>3 DEF Same
<1>7. CASE user[u].status = "enabled"
  <2>1. Shifts(u, -1)
    <3>1. ASSUME NEW d \in Days, NEW f \in Fields
          PROVE  Weight(user', daily', d, u, f)
                   = Weight(user, daily, d, u, f) + (-1) * ShareOf(u, d)[f]
      <4>1. Weight(user', daily', d, u, f) = 0 /\ Weight(user, daily, d, u, f) = ShareOf(u, d)[f]
        BY <1>2, <1>7 DEF Weight, ShareOf
      <4>2. ShareOf(u, d)[f] \in Nat
        BY ShareOfType
      <4>3. \A n \in Nat : 0 = n + (-1) * n
        OBVIOUS
      <4> QED
        BY <4>1, <4>2, <4>3
    <3> QED
      BY <1>2, <1>3, <1>6, <3>1 DEF Shifts
  <2>2. SiteRows' /\ Exact'
    BY <1>1, <1>7, <2>1, MoveKeeps
  <2> QED
    BY <1>4, <1>5, <2>2
<1>8. CASE user[u].status # "enabled"
  <2>1. ASSUME NEW d \in Days PROVE Counts(d)' = Counts(d)
    <3>1. user \in UserRows /\ daily \in DayRows
      BY DEF Clock, DailyRows, UserRows, DayRows
    <3>2. /\ CountsOf(user, daily, d) \in [Fields -> Nat]
          /\ CountsOf(user', daily', d) \in [Fields -> Nat]
      BY <1>2, <1>3, <3>1, CountsType
    <3>3. \A v \in Users \ {u} : Same(user, daily, user', daily', d, v)
      BY <1>6
    <3>4. ASSUME NEW f \in Fields
          PROVE  CountsOf(user', daily', d)[f] = CountsOf(user, daily, d)[f]
      <4>1. /\ CountsOf(user, daily, d)[f] \in Nat
            /\ CountsOf(user', daily', d)[f]
                 = CountsOf(user, daily, d)[f] - Weight(user, daily, d, u, f)
                     + Weight(user', daily', d, u, f)
        BY <1>2, <1>3, <3>1, <3>3, OneUser
      <4>2. Weight(user, daily, d, u, f) = 0 /\ Weight(user', daily', d, u, f) = 0
        BY <1>2, <1>8 DEF Weight
      <4>3. \A n \in Nat : n - 0 + 0 = n
        OBVIOUS
      <4> QED
        BY <4>1, <4>2, <4>3
    <3>5. CountsOf(user', daily', d) = CountsOf(user, daily, d)
      BY <3>2, <3>4
    <3> QED
      BY <3>5, CountsNow, CountsNext
  <2>2. SiteRows' /\ Exact'
    BY <1>1, <1>8, <2>1, FreezeKeeps
  <2> QED
    BY <1>4, <1>5, <2>2
<1> QED
  BY <1>7, <1>8

-----------------------------------------------------------------------------
(* Credits *)

\* Rounds, check-ins and what they sum up to.
RoundRows == [Rounds -> Round]
AwardRows == [Users -> [Days -> Nat]]

\* The numbers of a balance.
LEMMA BalanceParts ==
  ASSUME NEW ro \in RoundRows, NEW aw \in AwardRows, NEW u \in Users
  PROVE  /\ Cardinality(Bought(ro, u)) \in Nat /\ IsFiniteSet(Bought(ro, u))
         /\ Bought(ro, u) \subseteq Rounds
         /\ IsFiniteSet(Paid(ro, u)) /\ Paid(ro, u) \subseteq Rounds
         /\ Sum(Won(ro), Paid(ro, u)) \in Nat
         /\ IsFiniteSet(Days) /\ Sum(aw[u], Days) \in Nat
         /\ \A r \in Rounds : Won(ro)[r] \in Nat /\ Won(ro)[r] = ro[r].won
<1>1. /\ IsFiniteSet(Rounds) /\ LastDay \in Int
      /\ Bought(ro, u) \subseteq Rounds /\ Paid(ro, u) \subseteq Rounds
  BY ActivityAssumption DEF ActivityAssumption, Bought, Paid
<1>2. IsFiniteSet(Bought(ro, u)) /\ IsFiniteSet(Paid(ro, u))
  BY <1>1, FS_Subset
<1>3. Cardinality(Bought(ro, u)) \in Nat
  BY <1>2, FS_CardinalityType
<1>4. \A r \in Rounds : Won(ro)[r] \in Nat /\ Won(ro)[r] = ro[r].won
  BY DEF RoundRows, Round, Won
<1>5. Sum(Won(ro), Paid(ro, u)) \in Nat
  <2>1. \A r \in Paid(ro, u) : Won(ro)[r] \in Nat
    BY <1>1, <1>4
  <2> QED
    BY <1>2, <2>1, SumNatural
<1>6. IsFiniteSet(Days)
  BY <1>1, FS_Interval DEF Days
<1>7. Sum(aw[u], Days) \in Nat
  <2>1. \A d \in Days : aw[u][d] \in Nat
    BY DEF AwardRows
  <2> QED
    BY <1>6, <2>1, SumNatural
<1> QED
  BY <1>1, <1>2, <1>3, <1>4, <1>5, <1>6, <1>7

\* The same rounds and check-ins make the same balance.
LEMMA BalanceSame ==
  ASSUME NEW ro \in RoundRows, NEW rp \in RoundRows,
         NEW aw \in AwardRows, NEW ax \in AwardRows, NEW u \in Users,
         Bought(rp, u) = Bought(ro, u), Paid(rp, u) = Paid(ro, u),
         \A r \in Paid(ro, u) : rp[r].won = ro[r].won, ax[u] = aw[u]
  PROVE  Balance(rp, ax, u) = Balance(ro, aw, u)
<1>1. Sum(Won(rp), Paid(ro, u)) = Sum(Won(ro), Paid(ro, u))
  <2>1. IsFiniteSet(Paid(ro, u)) /\ Paid(ro, u) \subseteq Rounds
    BY BalanceParts
  <2>2. \A r \in Paid(ro, u) : Won(rp)[r] = Won(ro)[r]
    BY <2>1 DEF Won
  <2> QED
    BY <2>1, <2>2, SumEqual
<1> QED
  BY <1>1 DEF Balance

\* A ticket costs its price.
LEMMA BalanceBought ==
  ASSUME NEW ro \in RoundRows, NEW rp \in RoundRows, NEW aw \in AwardRows, NEW u \in Users,
         NEW r \in Rounds, r \notin Bought(ro, u), Bought(rp, u) = Bought(ro, u) \cup {r},
         Paid(rp, u) = Paid(ro, u), \A q \in Paid(ro, u) : rp[q].won = ro[q].won
  PROVE  Balance(rp, aw, u) = Balance(ro, aw, u) - Price
<1> DEFINE n == Cardinality(Bought(ro, u))
           w == Sum(Won(ro), Paid(ro, u))
           a == Bonus * Sum(aw[u], Days)
<1>1. /\ n \in Nat /\ w \in Nat /\ IsFiniteSet(Bought(ro, u))
      /\ IsFiniteSet(Paid(ro, u)) /\ Paid(ro, u) \subseteq Rounds
      /\ Sum(aw[u], Days) \in Nat
  BY BalanceParts
<1>2. Cardinality(Bought(rp, u)) = n + 1
  BY <1>1, FS_AddElement
<1>3. Sum(Won(rp), Paid(rp, u)) = w
  <2>1. \A q \in Paid(ro, u) : Won(rp)[q] = Won(ro)[q]
    BY <1>1 DEF Won
  <2> QED
    BY <1>1, <2>1, SumEqual
<1>4. StartCredits \in Nat /\ Price \in Nat /\ Bonus \in Nat
  BY ActivityAssumption DEF ActivityAssumption
<1>5. a \in Int
  <2>1. \A x, y \in Nat : x * y \in Int
    OBVIOUS
  <2> QED
    BY <1>1, <1>4, <2>1
<1>6. /\ Balance(rp, aw, u) = StartCredits - Price * (n + 1) + w + a
      /\ Balance(ro, aw, u) = StartCredits - Price * n + w + a
  BY <1>2, <1>3 DEF Balance
<1> HIDE DEF n, w, a
<1>7. Price * (n + 1) = Price * n + Price /\ Price * n \in Int
  <2>1. \A x, y \in Nat : x * (y + 1) = x * y + x /\ x * y \in Int
    OBVIOUS
  <2> QED
    BY <1>1, <1>4, <2>1
<1>8. \A s, p, m, x, y \in Int : s - (m + p) + x + y = (s - m + x + y) - p
  OBVIOUS
<1> QED
  BY <1>1, <1>4, <1>5, <1>6, <1>7, <1>8

\* A settled round pays what it won.
LEMMA BalancePaid ==
  ASSUME NEW ro \in RoundRows, NEW rp \in RoundRows, NEW aw \in AwardRows, NEW u \in Users,
         NEW r \in Rounds, r \notin Paid(ro, u), Bought(rp, u) = Bought(ro, u),
         Paid(rp, u) = Paid(ro, u) \cup {r}, \A q \in Rounds : rp[q].won = ro[q].won
  PROVE  Balance(rp, aw, u) = Balance(ro, aw, u) + ro[r].won
<1> DEFINE n == Cardinality(Bought(ro, u))
           w == Sum(Won(ro), Paid(ro, u))
           a == Bonus * Sum(aw[u], Days)
           m == Price * n
<1>1. /\ n \in Nat /\ w \in Nat
      /\ IsFiniteSet(Paid(ro, u)) /\ Paid(ro, u) \subseteq Rounds
      /\ Sum(aw[u], Days) \in Nat
      /\ \A q \in Rounds : Won(ro)[q] \in Nat /\ Won(ro)[q] = ro[q].won
  BY BalanceParts
<1>2. Won(rp) = Won(ro)
  BY DEF Won
<1>3. Sum(Won(rp), Paid(rp, u)) = ro[r].won + w /\ ro[r].won \in Nat
  <2>1. \A q \in Paid(ro, u) \cup {r} : Won(ro)[q] \in Int
    BY <1>1
  <2>2. Sum(Won(ro), Paid(ro, u) \cup {r}) = Won(ro)[r] + w
    BY <1>1, <2>1, SumAdd
  <2> QED
    BY <1>1, <1>2, <2>2
<1>4. StartCredits \in Nat /\ Price \in Nat /\ Bonus \in Nat
  BY ActivityAssumption DEF ActivityAssumption
<1>5. a \in Int /\ m \in Int
  <2>1. \A x, y \in Nat : x * y \in Int
    OBVIOUS
  <2> QED
    BY <1>1, <1>4, <2>1
<1>6. /\ Balance(rp, aw, u) = StartCredits - m + (ro[r].won + w) + a
      /\ Balance(ro, aw, u) = StartCredits - m + w + a
  BY <1>3 DEF Balance
<1> HIDE DEF n, w, a, m
<1>7. \A s, p, k, x, y \in Int : s - k + (p + x) + y = (s - k + x + y) + p
  OBVIOUS
<1> QED
  BY <1>1, <1>3, <1>4, <1>5, <1>6, <1>7

\* A check-in is worth the bonus.
LEMMA BalanceAwarded ==
  ASSUME NEW ro \in RoundRows, NEW aw \in AwardRows, NEW ax \in AwardRows, NEW u \in Users,
         NEW d \in Days, ax[u][d] = aw[u][d] + 1,
         \A e \in Days \ {d} : ax[u][e] = aw[u][e]
  PROVE  Balance(ro, ax, u) = Balance(ro, aw, u) + Bonus
<1> DEFINE n == Cardinality(Bought(ro, u))
           w == Sum(Won(ro), Paid(ro, u))
           s == Sum(aw[u], Days)
           m == Price * n
           f == aw[u]
           g == ax[u]
           T == Days \ {d}
<1>1. n \in Nat /\ w \in Nat /\ IsFiniteSet(Days) /\ s \in Nat
  BY BalanceParts
<1>2. IsFiniteSet(T) /\ \A e \in Days : f[e] \in Nat /\ g[e] \in Nat
  BY <1>1, FS_RemoveElement DEF AwardRows
<1>3. Sum(g, Days) = s + 1
  <2>1. \A e \in T : g[e] = f[e]
    OBVIOUS
  <2>2. g[d] = f[d] + 1 /\ s = Sum(f, Days)
    OBVIOUS
  <2>3. T = Days \ {d}
    OBVIOUS
  <2> HIDE DEF f, g, T, s
  <2>4. \A e \in Days : f[e] \in Int /\ g[e] \in Int
    BY <1>2
  <2>5. Sum(g, T) = Sum(f, T)
    BY <1>2, <2>1, SumEqual
  <2>6. Sum(g, Days) = g[d] + Sum(g, T) /\ Sum(f, Days) = f[d] + Sum(f, T)
    BY <1>1, <2>3, <2>4, SumRemove
  <2>7. Sum(f, T) \in Int
    BY <1>1, <2>3, <2>4, SumType
  <2>8. \A x, y \in Int : (x + 1) + y = (x + y) + 1
    OBVIOUS
  <2> QED
    BY <2>2, <2>4, <2>5, <2>6, <2>7, <2>8
<1>4. StartCredits \in Nat /\ Price \in Nat /\ Bonus \in Nat
  BY ActivityAssumption DEF ActivityAssumption
<1>5. m \in Int /\ Bonus * s \in Int /\ Bonus * (s + 1) = Bonus * s + Bonus
  <2>1. \A x, y \in Nat : x * y \in Int /\ x * (y + 1) = x * y + x
    OBVIOUS
  <2> HIDE DEF s, n
  <2> QED
    BY <1>1, <1>4, <2>1
<1>6. /\ Balance(ro, ax, u) = StartCredits - m + w + Bonus * (s + 1)
      /\ Balance(ro, aw, u) = StartCredits - m + w + Bonus * s
  BY <1>3 DEF Balance
<1> HIDE DEF n, w, s, m, f, g, T
<1>7. \A c, k, x, y, b \in Int : c - k + x + (y + b) = (c - k + x + y) + b
  OBVIOUS
<1> QED
  BY <1>1, <1>4, <1>5, <1>6, <1>7

-----------------------------------------------------------------------------
(* Check-in, game and credits *)

\* A step that leaves players alone keeps what they have, if who has a row keeps
\* it and who is deleted stays so.
LEMMA PlayersQuiet ==
  ASSUME Players, Settled, Awarded, UNCHANGED players,
         \A v \in Users : v \in Rows => v \in Rows',
         \A v \in Users : user'[v].status # "deleted" => user[v].status # "deleted"
  PROVE  Players' /\ Settled' /\ Awarded'
<1>1. /\ wallet' = wallet /\ round' = round /\ best' = best /\ awards' = awards
      /\ late' = late
  BY DEF players
<1>2. Players'
  <2>1. \A r \in Rounds : round'[r].present => round'[r].user \in Rows'
    BY <1>1 DEF Players, Rows
  <2> QED
    BY <1>1, <2>1 DEF Players
<1>3. Settled'
  BY <1>1 DEF Settled
<1>4. Awarded'
  BY <1>1 DEF Awarded
<1> QED
  BY <1>2, <1>3, <1>4

\* A check-in is paid, and awarded for a day that had none.
LEMMA CheckinKeeps ==
  ASSUME Clock, Players, Settled, Awarded, NEW u \in Users, NEW day \in Nows, NEW exempt,
         ApplyUserCheckin(u, day, exempt)
  PROVE  Players' /\ Settled' /\ Awarded'
<1>1. /\ u \in Rows /\ wallet[u].checkin # day /\ user' = user
      /\ wallet' = [wallet EXCEPT ![u] = [credits |-> @.credits + Bonus, checkin |-> day]]
      /\ awards' = [awards EXCEPT ![u][day] = @ + 1]
      /\ late' = IF wallet[u].checkin # Never /\ day < wallet[u].checkin
                 THEN late \cup {u} ELSE late
      /\ round' = round /\ best' = best
  BY DEF ApplyUserCheckin, CheckedIn, RecordActivity
<1>2. /\ wallet \in [Users -> Wallet] /\ awards \in [Users -> [Days -> Nat]]
      /\ round \in RoundRows /\ late \subseteq Users
  BY DEF Players, RoundRows
<1>3. day \in Days /\ Bonus \in Nat /\ \A d \in Days : d \in Int
  BY NowsAre, ActivityAssumption DEF Days, ActivityAssumption
<1>4. /\ wallet' \in [Users -> Wallet]
      /\ wallet'[u].credits = wallet[u].credits + Bonus /\ wallet'[u].checkin = day
      /\ \A v \in Users \ {u} : wallet'[v] = wallet[v]
  BY <1>1, <1>2, <1>3 DEF Wallet
<1>5. /\ awards' \in [Users -> [Days -> Nat]] /\ awards'[u][day] = awards[u][day] + 1
      /\ \A e \in Days \ {day} : awards'[u][e] = awards[u][e]
      /\ \A v \in Users \ {u} : awards'[v] = awards[v]
  BY <1>1, <1>2, <1>3
<1>6. late' \subseteq Users /\ late \subseteq late'
  BY <1>1, <1>2
<1>7. Players'
  BY <1>1, <1>4, <1>5, <1>6 DEF Players, Rows
<1>8. Settled'
  <2>1. ASSUME NEW v \in Users PROVE wallet'[v].credits = Balance(round, awards', v)
    <3>1. wallet[v].credits = Balance(round, awards, v)
      BY DEF Settled
    <3>2. CASE v = u
      <4>1. Balance(round, awards', u) = Balance(round, awards, u) + Bonus
        BY <1>2, <1>3, <1>5, BalanceAwarded DEF AwardRows
      <4> QED
        BY <1>4, <3>1, <3>2, <4>1
    <3>3. CASE v # u
      <4>1. awards' \in AwardRows /\ awards \in AwardRows /\ awards'[v] = awards[v]
        BY <1>2, <1>5, <3>3 DEF AwardRows
      <4>2. Balance(round, awards', v) = Balance(round, awards, v)
        BY <1>2, <4>1, BalanceSame
      <4> QED
        BY <1>4, <3>1, <3>3, <4>2
    <3> QED
      BY <3>2, <3>3
  <2> QED
    BY <1>1, <2>1 DEF Settled
<1>9. Awarded'
  <2>1. ASSUME NEW v \in Users, v \notin late', NEW d \in Days, awards'[v][d] > 0
        PROVE  awards'[v][d] = 1 /\ wallet'[v].checkin # Never /\ d <= wallet'[v].checkin
    <3>0. v \notin late /\ d \in Int /\ day \in Int /\ Never \notin Int
      BY <1>3, <1>6, <2>1, ActivityAssumption DEF ActivityAssumption
    <3>1. awards[v][d] > 0 =>
            awards[v][d] = 1 /\ wallet[v].checkin # Never /\ d <= wallet[v].checkin
      BY <3>0 DEF Awarded
    <3>2. CASE v # u
      BY <1>4, <1>5, <2>1, <3>1, <3>2
    <3>3. CASE v = u
      <4>1. wallet[u].checkin = Never \/ (wallet[u].checkin \in Int /\ day > wallet[u].checkin)
        <5>1. wallet[u].checkin \in Days \cup {Never}
          BY <1>2 DEF Wallet
        <5>2. ~(wallet[u].checkin # Never /\ day < wallet[u].checkin)
          BY <1>1, <2>1, <3>3
        <5> QED
          BY <1>1, <1>3, <3>0, <5>1, <5>2
      <4>2. awards[u][d] \in Nat /\ awards[u][day] \in Nat
        BY <1>2, <1>3
      <4>3. CASE d = day
        <5>1. ~(awards[u][day] > 0)
          BY <3>0, <3>1, <3>3, <4>1, <4>3
        <5>2. awards[u][day] = 0
          BY <4>2, <5>1
        <5> QED
          BY <1>4, <1>5, <3>0, <3>3, <4>3, <5>2
      <4>4. CASE d # day
        <5>1. awards'[u][d] = awards[u][d]
          BY <1>5, <4>4
        <5>2. awards[u][d] = 1 /\ wallet[u].checkin # Never /\ d <= wallet[u].checkin
          BY <2>1, <3>1, <3>3, <5>1
        <5>3. wallet[u].checkin \in Int /\ day > wallet[u].checkin
          BY <4>1, <5>2
        <5>4. d <= day
          BY <3>0, <5>2, <5>3
        <5>5. day # Never
          BY <3>0
        <5> QED
          BY <1>4, <3>3, <5>1, <5>2, <5>4, <5>5
      <4> QED
        BY <4>3, <4>4
    <3> QED
      BY <3>2, <3>3
  <2> QED
    BY <2>1 DEF Awarded
<1> QED
  BY <1>7, <1>8, <1>9

\* A round is bought at the price.
LEMMA StartKeeps ==
  ASSUME Clock, Players, Settled, Awarded, NEW u \in Users, NEW r \in Rounds,
         NEW o \in FishingOutcomes, NEW now \in Nows, StartFishingRound(u, r, o, now)
  PROVE  Players' /\ Settled' /\ Awarded'
<1> DEFINE new == [status |-> "started", present |-> TRUE, user |-> u,
                   day |-> now, won |-> o.won, size |-> o.size]
<1>1. /\ u \in Rows /\ round[r].status = "none" /\ wallet[u].credits >= Price
      /\ user' = user /\ best' = best /\ awards' = awards /\ late' = late
      /\ wallet' = [wallet EXCEPT ![u].credits = @ - Price]
      /\ round' = [round EXCEPT ![r] = new]
  BY DEF StartFishingRound, RecordActivity
<1>2. /\ wallet \in [Users -> Wallet] /\ awards \in AwardRows /\ round \in RoundRows
      /\ \A q \in Rounds : round[q].status = "none" <=> round[q].user = Never
  BY DEF Players, RoundRows, AwardRows
<1>3. now \in Days /\ Price \in Nat /\ Never \notin Users
  BY NowsAre, ActivityAssumption DEF ActivityAssumption
<1>4. new \in Round /\ new.user = u /\ new.status = "started" /\ new.present
  <2>1. o.won \in Nat /\ o.size \in Nat
    BY ActivityAssumption DEF FishingOutcomes, ActivityAssumption
  <2> QED
    BY <1>3, <2>1 DEF Round
<1> HIDE DEF new
<1>5. /\ wallet' \in [Users -> Wallet] /\ wallet'[u].credits = wallet[u].credits - Price
      /\ \A v \in Users \ {u} : wallet'[v] = wallet[v]
      /\ \A v \in Users : wallet'[v].checkin = wallet[v].checkin
  <2>1. wallet[u].credits - Price \in Nat
    BY <1>1, <1>2, <1>3 DEF Wallet
  <2> QED
    BY <1>1, <1>2, <2>1 DEF Wallet
<1>6. /\ round' \in RoundRows /\ round'[r] = new
      /\ \A q \in Rounds \ {r} : round'[q] = round[q]
  BY <1>1, <1>2, <1>4 DEF RoundRows
<1>7. Players'
  <2>1. \A q \in Rounds : /\ round'[q].status = "none" <=> round'[q].user = Never
                          /\ round'[q].present => round'[q].user \in Rows'
    BY <1>1, <1>3, <1>4, <1>6 DEF Players, Rows
  <2> QED
    BY <1>1, <1>5, <1>6, <2>1 DEF Players, RoundRows
<1>8. ASSUME NEW v \in Users
      PROVE  /\ Paid(round', v) = Paid(round, v) /\ r \notin Paid(round, v)
             /\ Bought(round', v) = IF v = u THEN Bought(round, v) \cup {r}
                                    ELSE Bought(round, v)
             /\ r \notin Bought(round, v)
  <2>1. round[r].user # v
    BY <1>1, <1>2, <1>3
  <2>2. r \notin Bought(round, v)
    BY <2>1 DEF Bought
  <2>3. Bought(round', v) = IF v = u THEN Bought(round, v) \cup {r} ELSE Bought(round, v)
    <3>1. CASE v = u
      BY <1>4, <1>6, <3>1 DEF Bought
    <3>2. CASE v # u
      BY <1>4, <1>6, <2>1, <3>2 DEF Bought
    <3> QED
      BY <3>1, <3>2
  <2>4. Paid(round', v) = Paid(round, v)
    <3>1. ASSUME NEW q \in Rounds
          PROVE  q \in Paid(round', v) <=> q \in Paid(round, v)
      <4>1. CASE q = r
        BY <1>4, <1>6, <2>2, <4>1 DEF Paid
      <4>2. CASE q # r
        BY <1>6, <4>2 DEF Paid, Bought
      <4> QED
        BY <4>1, <4>2
    <3>2. Paid(round', v) \subseteq Rounds /\ Paid(round, v) \subseteq Rounds
      BY DEF Paid, Bought
    <3> QED
      BY <3>1, <3>2
  <2> QED
    BY <2>2, <2>3, <2>4 DEF Paid
<1>9. \A v \in Users : \A q \in Paid(round, v) : round'[q] = round[q]
  BY <1>6, <1>8 DEF Paid, Bought
<1>10. Settled'
  <2>1. ASSUME NEW v \in Users PROVE wallet'[v].credits = Balance(round', awards, v)
    <3>1. wallet[v].credits = Balance(round, awards, v)
      BY DEF Settled
    <3>2. CASE v = u
      <4>1. Balance(round', awards, u) = Balance(round, awards, u) - Price
        BY <1>2, <1>6, <1>8, <1>9, BalanceBought
      <4> QED
        BY <1>5, <3>1, <3>2, <4>1
    <3>3. CASE v # u
      <4>1. Balance(round', awards, v) = Balance(round, awards, v)
        BY <1>2, <1>6, <1>8, <1>9, <3>3, BalanceSame
      <4> QED
        BY <1>5, <3>1, <3>3, <4>1
    <3> QED
      BY <3>2, <3>3
  <2>2. ASSUME NEW v \in Users, Biggest(round, v, best[v]) PROVE Biggest(round', v, best[v])
    BY <1>8, <1>9, <2>2 DEF Biggest
  <2> QED
    BY <1>1, <2>1, <2>2 DEF Settled
<1>11. Awarded'
  BY <1>1, <1>5 DEF Awarded
<1> QED
  BY <1>7, <1>10, <1>11

\* A round is paid when it is settled, once.
LEMMA SettleKeeps ==
  ASSUME Players, Settled, Awarded, NEW r \in Rounds, SettleFishingRound(r)
  PROVE  Players' /\ Settled' /\ Awarded'
<1> DEFINE u == round[r].user
           big == Max({best[u], round[r].size})
<1>1. /\ round[r].present /\ round[r].status = "started"
      /\ user' = user /\ awards' = awards /\ late' = late
      /\ round' = [round EXCEPT ![r].status = "settled"]
      /\ wallet' = [wallet EXCEPT ![u].credits = @ + round[r].won]
      /\ best' = [best EXCEPT ![u] = big]
  BY DEF SettleFishingRound, Payable, stats
<1>2. /\ wallet \in [Users -> Wallet] /\ awards \in AwardRows /\ round \in RoundRows
      /\ best \in [Users -> Nat] /\ round[r] \in Round
      /\ round[r].won \in Nat /\ round[r].size \in Nat
  BY DEF Players, RoundRows, AwardRows, Round
<1>3. u \in Rows /\ u \in Users
  BY <1>1 DEF Players, Rows
<1>4. /\ big \in {best[u], round[r].size} /\ big >= best[u] /\ big >= round[r].size
      /\ big \in Nat /\ best[u] \in Nat
  <2>1. best[u] \in Nat
    BY <1>2, <1>3
  <2>2. IsFiniteSet({best[u]} \cup {round[r].size})
    BY FS_Singleton, FS_AddElement
  <2>3. {best[u]} \cup {round[r].size} = {best[u], round[r].size}
    OBVIOUS
  <2>4. IsFiniteSet({best[u], round[r].size})
    BY <2>2, <2>3
  <2>5. {best[u], round[r].size} \subseteq Int
    BY <1>2, <2>1
  <2>6. /\ big \in {best[u], round[r].size}
        /\ \A y \in {best[u], round[r].size} : big >= y
    BY <2>4, <2>5, MaxExists
  <2> QED
    BY <1>2, <2>1, <2>6
<1>5. /\ round' \in RoundRows /\ round'[r].status = "settled"
      /\ \A q \in Rounds \ {r} : round'[q] = round[q]
      /\ \A q \in Rounds : /\ round'[q].user = round[q].user
                           /\ round'[q].present = round[q].present
                           /\ round'[q].won = round[q].won /\ round'[q].size = round[q].size
  BY <1>1, <1>2 DEF RoundRows, Round
<1> HIDE DEF u, big
<1>6. /\ wallet' \in [Users -> Wallet] /\ wallet'[u].credits = wallet[u].credits + round[r].won
      /\ \A v \in Users \ {u} : wallet'[v] = wallet[v]
      /\ \A v \in Users : wallet'[v].checkin = wallet[v].checkin
  <2>1. wallet[u].credits + round[r].won \in Nat
    BY <1>2, <1>3 DEF Wallet
  <2> QED
    BY <1>1, <1>2, <1>3, <2>1 DEF Wallet
<1>7. /\ best' \in [Users -> Nat] /\ best'[u] = big
      /\ \A v \in Users \ {u} : best'[v] = best[v]
  BY <1>1, <1>2, <1>3, <1>4
<1>8. Players'
  <2>1. \A q \in Rounds : /\ round'[q].status = "none" <=> round'[q].user = Never
                          /\ round'[q].present => round'[q].user \in Rows'
    <3>1. u # Never
      BY <1>3, ActivityAssumption DEF ActivityAssumption
    <3>2. round[r].user = u
      BY DEF u
    <3> QED
      BY <1>1, <1>5, <3>1, <3>2 DEF Players, Rows
  <2> QED
    BY <1>1, <1>5, <1>6, <1>7, <2>1 DEF Players, RoundRows
<1>9. /\ \A v \in Users : /\ Bought(round', v) = Bought(round, v)
                          /\ v # u => r \notin Bought(round, v)
      /\ r \in Bought(round, u) /\ r \notin Paid(round, u)
  BY <1>1, <1>5 DEF Bought, Paid, u
<1>10. ASSUME NEW v \in Users
       PROVE  Paid(round', v) = IF v = u THEN Paid(round, v) \cup {r} ELSE Paid(round, v)
  <2>1. CASE v = u
    <3>1. Bought(round', u) = Bought(round, u) /\ Bought(round, u) \subseteq Rounds
      BY <1>3, <1>9 DEF Bought
    <3>2. r \in Bought(round, u) /\ round'[r].status = "settled"
      BY <1>5, <1>9
    <3>3. \A q \in Bought(round, u) : q # r => round'[q] = round[q]
      BY <1>5, <3>1
    <3>4. Paid(round', u) = Paid(round, u) \cup {r}
      BY <3>1, <3>2, <3>3 DEF Paid
    <3> QED
      BY <2>1, <3>4
  <2>2. CASE v # u
    <3>1. \A q \in Bought(round, v) : q \in Rounds \ {r}
      BY <1>9, <2>2 DEF Bought
    <3> QED
      BY <1>5, <1>9, <2>2, <3>1 DEF Paid
  <2> QED
    BY <2>1, <2>2
<1>11. \A v \in Users : Paid(round, v) \subseteq Rounds
  BY DEF Paid, Bought
<1>12. Settled'
  <2>1. ASSUME NEW v \in Users PROVE wallet'[v].credits = Balance(round', awards, v)
    <3>1. wallet[v].credits = Balance(round, awards, v)
      BY DEF Settled
    <3>2. CASE v = u
      <4>1. Balance(round', awards, u) = Balance(round, awards, u) + round[r].won
        BY <1>2, <1>3, <1>5, <1>9, <1>10, BalancePaid
      <4> QED
        BY <1>6, <3>1, <3>2, <4>1
    <3>3. CASE v # u
      <4>1. Balance(round', awards, v) = Balance(round, awards, v)
        BY <1>2, <1>5, <1>9, <1>10, <1>11, <3>3, BalanceSame
      <4> QED
        BY <1>6, <3>1, <3>3, <4>1
    <3> QED
      BY <3>2, <3>3
  <2>2. ASSUME NEW v \in Users, user[v].status # "deleted" PROVE Biggest(round', v, best'[v])
    <3>1. Biggest(round, v, best[v])
      BY <2>2 DEF Settled
    <3>2. CASE v # u
      BY <1>5, <1>7, <1>10, <1>11, <3>1, <3>2 DEF Biggest
    <3>3. CASE v = u
      <4>1. Paid(round', u) = Paid(round, u) \cup {r} /\ Paid(round, u) \subseteq Rounds
        BY <1>3, <1>10, <1>11
      <4>2. best[u] \in {0} \cup {round[q].size : q \in Paid(round, u)}
        BY <3>1, <3>3 DEF Biggest
      <4>3. big \in {0} \cup {round'[q].size : q \in Paid(round', u)}
        BY <1>4, <1>5, <4>1, <4>2
      <4>4. ASSUME NEW q \in Paid(round', u) PROVE round'[q].size <= big
        <5>1. CASE q = r
          BY <1>2, <1>4, <1>5, <5>1
        <5>2. CASE q # r
          <6>1. q \in Paid(round, u) /\ q \in Rounds /\ round'[q].size = round[q].size
            BY <1>5, <4>1, <4>4, <5>2
          <6>2. round[q].size <= best[u] /\ round[q].size \in Nat
            BY <1>2, <3>1, <3>3, <6>1 DEF Biggest, RoundRows, Round
          <6> QED
            BY <1>4, <6>1, <6>2
        <5> QED
          BY <5>1, <5>2
      <4> QED
        BY <1>7, <3>3, <4>3, <4>4 DEF Biggest
    <3> QED
      BY <3>2, <3>3
  <2> QED
    BY <1>1, <2>1, <2>2 DEF Settled
<1>13. Awarded'
  BY <1>1, <1>6 DEF Awarded
<1> QED
  BY <1>8, <1>12, <1>13

\* Rounds that only stop being present, and users who only stop having rows, take
\* nothing away.
LEMMA AbsentKeeps ==
  ASSUME Players, Settled, Awarded, wallet' = wallet, awards' = awards, late' = late,
         NEW ro \in RoundRows, round' = ro, best' \in [Users -> Nat],
         \A r \in Rounds :
           /\ ro[r].status = round[r].status /\ ro[r].user = round[r].user
           /\ ro[r].won = round[r].won /\ ro[r].size = round[r].size
           /\ ro[r].present => round[r].present /\ round[r].user \in Rows',
         \A v \in Users : user'[v].status # "deleted" =>
           user[v].status # "deleted" /\ best'[v] = best[v]
  PROVE  Players' /\ Settled' /\ Awarded'
<1>1. round \in RoundRows /\ awards \in AwardRows
  BY DEF Players, RoundRows, AwardRows
<1>2. Players'
  <2>1. \A r \in Rounds : /\ ro[r].status = "none" <=> ro[r].user = Never
                          /\ ro[r].present => ro[r].user \in Rows'
    BY DEF Players
  <2> QED
    BY <2>1 DEF Players, RoundRows
<1>3. ASSUME NEW v \in Users
      PROVE  /\ Bought(ro, v) = Bought(round, v) /\ Paid(ro, v) = Paid(round, v)
             /\ Paid(round, v) \subseteq Rounds
  BY DEF Bought, Paid
<1>4. ASSUME NEW v \in Users PROVE wallet[v].credits = Balance(ro, awards, v)
  <2>1. wallet[v].credits = Balance(round, awards, v)
    BY DEF Settled
  <2>2. \A r \in Paid(round, v) : ro[r].won = round[r].won
    BY <1>3
  <2>3. Balance(ro, awards, v) = Balance(round, awards, v)
    BY <1>1, <1>3, <2>2, BalanceSame
  <2> QED
    BY <2>1, <2>3
<1>5. ASSUME NEW v \in Users, user'[v].status # "deleted" PROVE Biggest(ro, v, best'[v])
  <2>1. Biggest(round, v, best[v]) /\ best'[v] = best[v]
    BY <1>5 DEF Settled
  <2> QED
    BY <1>3, <2>1 DEF Biggest
<1>6. Settled'
  BY <1>4, <1>5 DEF Settled
<1>7. Awarded'
  BY DEF Awarded
<1> QED
  BY <1>2, <1>6, <1>7

\* The purge of old rounds.
LEMMA PurgeKeeps ==
  ASSUME Players, Settled, Awarded, NEW now, PurgeExpiredGameRounds(now)
  PROVE  Players' /\ Settled' /\ Awarded'
<1>1. /\ wallet' = wallet /\ awards' = awards /\ late' = late /\ best' = best /\ user' = user
      /\ round' = [r \in Rounds |-> [round[r] EXCEPT !.present = @ /\ ~Expired(r, now)]]
  BY DEF PurgeExpiredGameRounds, stats
<1>2. PICK ro : ro = [r \in Rounds |-> [round[r] EXCEPT !.present = @ /\ ~Expired(r, now)]]
  OBVIOUS
<1>3. ASSUME NEW r \in Rounds
      PROVE  /\ ro[r] \in Round
             /\ ro[r].status = round[r].status /\ ro[r].user = round[r].user
             /\ ro[r].won = round[r].won /\ ro[r].size = round[r].size
             /\ ro[r].present => round[r].present
  <2>1. round[r] \in Round
    BY DEF Players
  <2>2. ro[r] = [round[r] EXCEPT !.present = round[r].present /\ ~Expired(r, now)]
    BY <1>2, <2>1 DEF Round
  <2> QED
    BY <2>1, <2>2 DEF Round
<1>4. ro \in RoundRows
  BY <1>2, <1>3 DEF RoundRows
<1>5. \A r \in Rounds : ro[r].present => round[r].present /\ round[r].user \in Rows'
  BY <1>1, <1>3 DEF Players, Rows
<1>6. best' \in [Users -> Nat]
  BY <1>1 DEF Players
<1>7. \A v \in Users : user'[v].status # "deleted" =>
        user[v].status # "deleted" /\ best'[v] = best[v]
  BY <1>1
<1>8. /\ wallet' = wallet /\ awards' = awards /\ late' = late /\ round' = ro
      /\ best' \in [Users -> Nat]
      /\ \A r \in Rounds :
           /\ ro[r].status = round[r].status /\ ro[r].user = round[r].user
           /\ ro[r].won = round[r].won /\ ro[r].size = round[r].size
           /\ ro[r].present => round[r].present /\ round[r].user \in Rows'
  BY <1>1, <1>2, <1>3, <1>4, <1>5, <1>6
<1> QED
  BY <1>4, <1>7, <1>8, AbsentKeeps

\* The deletion of a user, with the rounds and the best fish.
LEMMA DeletePlayers ==
  ASSUME Clock, Players, Settled, Awarded, NEW u \in Users, NEW now, DeleteUser(u, now)
  PROVE  Players' /\ Settled' /\ Awarded'
<1>1. /\ wallet' = wallet /\ awards' = awards /\ late' = late
      /\ best' = [best EXCEPT ![u] = 0] /\ user' = [user EXCEPT ![u].status = "deleted"]
      /\ round' = [r \in Rounds |-> [round[r] EXCEPT !.present = @ /\ round[r].user # u]]
  BY DEF DeleteUser
<1>2. PICK ro : ro = [r \in Rounds |-> [round[r] EXCEPT !.present = @ /\ round[r].user # u]]
  OBVIOUS
<1>3. /\ user'[u].status = "deleted" /\ \A v \in Users \ {u} : user'[v] = user[v]
      /\ best' \in [Users -> Nat] /\ \A v \in Users \ {u} : best'[v] = best[v]
  BY <1>1 DEF Clock, UserRow, Players
<1>4. ASSUME NEW r \in Rounds
      PROVE  /\ ro[r] \in Round
             /\ ro[r].status = round[r].status /\ ro[r].user = round[r].user
             /\ ro[r].won = round[r].won /\ ro[r].size = round[r].size
             /\ ro[r].present => round[r].present /\ round[r].user # u
  <2>1. round[r] \in Round
    BY DEF Players
  <2>2. ro[r] = [round[r] EXCEPT !.present = round[r].present /\ round[r].user # u]
    BY <1>2, <2>1 DEF Round
  <2> QED
    BY <2>1, <2>2 DEF Round
<1>5. ro \in RoundRows
  BY <1>2, <1>4 DEF RoundRows
<1>6. \A r \in Rounds : ro[r].present => round[r].present /\ round[r].user \in Rows'
  BY <1>3, <1>4 DEF Players, Rows
<1>7. \A v \in Users : user'[v].status # "deleted" =>
        user[v].status # "deleted" /\ best'[v] = best[v]
  BY <1>3
<1>8. /\ wallet' = wallet /\ awards' = awards /\ late' = late /\ round' = ro
      /\ best' \in [Users -> Nat]
      /\ \A r \in Rounds :
           /\ ro[r].status = round[r].status /\ ro[r].user = round[r].user
           /\ ro[r].won = round[r].won /\ ro[r].size = round[r].size
           /\ ro[r].present => round[r].present /\ round[r].user \in Rows'
  BY <1>1, <1>2, <1>3, <1>4, <1>5, <1>6
<1> QED
  BY <1>5, <1>7, <1>8, AbsentKeeps

-----------------------------------------------------------------------------
(* Steps *)

\* A step is one of these.
LEMMA Kinds ==
  ASSUME [Next]_vars
  PROVE  \/ NextDay
         \/ UNCHANGED vars
         \/ \E now \in Nows : MaintainActivity(now) \/ PurgeExpiredGameRounds(now)
         \/ \E u \in Users, now \in Nows :
              \/ CreateUser(u, now) \/ SetUserDisabled(u, now)
              \/ UnbanUser(u, now) \/ DeleteUser(u, now)
         \/ \E u \in Users, now \in Nows :
              \/ RecordConsoleAction(u, now)
              \/ \E success \in BOOLEAN : LogCall(u, now, success)
         \/ \E u \in Users, day \in Nows, exempt \in BOOLEAN : ApplyUserCheckin(u, day, exempt)
         \/ \E u \in Users, r \in Rounds, o \in FishingOutcomes, now \in Nows :
              StartFishingRound(u, r, o, now)
         \/ \E r \in Rounds : SettleFishingRound(r)
<1>1. CASE UNCHANGED vars
  BY <1>1
<1>2. CASE Next
  <2>1. CASE NextDay
    BY <2>1
  <2>2. CASE \E now \in Nows : Cleanup(now)
    BY <2>2 DEF Cleanup
  <2>3. ASSUME NEW u \in Users,
               Register(u) \/ AdminBanUser(u) \/ AdminDeleteUser(u) \/ MeDelete(u)
        PROVE  \E now \in Nows :
                 CreateUser(u, now) \/ SetUserDisabled(u, now) \/ DeleteUser(u, now)
    BY <2>3 DEF Register, AdminBanUser, AdminDeleteUser, MeDelete
  <2>4. ASSUME NEW u \in Users, Checkin(u)
        PROVE  \E day \in Nows, exempt \in BOOLEAN : ApplyUserCheckin(u, day, exempt)
    BY <2>4 DEF Checkin
  <2>5. ASSUME NEW u \in Users, ConsoleAction(u)
        PROVE  \E now \in Nows : RecordConsoleAction(u, now)
    BY <2>5 DEF ConsoleAction
  <2>6. ASSUME NEW u \in Users, NEW r \in Rounds, FishingStart(u, r)
        PROVE  \E o \in FishingOutcomes, now \in Nows : StartFishingRound(u, r, o, now)
    BY <2>6 DEF FishingStart
  <2>7. ASSUME NEW u \in Users, NEW r \in Rounds, FishingSettle(u, r)
        PROVE  SettleFishingRound(r)
    BY <2>7 DEF FishingSettle
  <2> QED
    BY <1>2, <2>1, <2>2, <2>3, <2>4, <2>5, <2>6, <2>7 DEF Next
<1> QED
  BY <1>1, <1>2

\* Calls, console actions, check-ins and games are events of a day.
LEMMA EventKinds ==
  ASSUME Clock, NEW u \in Users, NEW now \in Nows
  PROVE  /\ RecordConsoleAction(u, now) => \E delta : Records(u, now, delta)
         /\ \A success \in BOOLEAN : LogCall(u, now, success) => \E delta : Records(u, now, delta)
         /\ \A exempt : ApplyUserCheckin(u, now, exempt) => \E delta : Records(u, today, delta)
         /\ \A r \in Rounds, o \in FishingOutcomes :
              StartFishingRound(u, r, o, now) => \E delta : Records(u, now, delta)
<1>1. today \in Nows
  BY DEF Clock, Nows
<1>2. NoActs = [f \in Events |-> 0]
  BY DEF NoActs, Events
<1>3. \A f \in Events : Of(f, 1) \in [Events -> {0, 1}]
  BY <1>2 DEF Of
<1>4. ASSUME NEW success \in BOOLEAN
      PROVE  [NoActs EXCEPT !.attempts = 1, !.successes = One(success)] \in [Events -> {0, 1}]
  BY <1>2 DEF Events, One
<1>5. "console" \in Events /\ "checkins" \in Events /\ "games" \in Events
  BY DEF Events
<1>6. ASSUME RecordConsoleAction(u, now) PROVE Records(u, now, Of("console", 1))
  BY <1>3, <1>5, <1>6 DEF RecordConsoleAction, Records
<1>7. ASSUME NEW success \in BOOLEAN, LogCall(u, now, success)
      PROVE  \E delta : Records(u, now, delta)
  <2>1. PICK delta : delta = [NoActs EXCEPT !.attempts = 1, !.successes = One(success)]
    OBVIOUS
  <2>2. delta \in [Events -> {0, 1}]
    BY <1>4, <2>1
  <2>3. u \in Rows /\ RecordActivity(u, now, delta) /\ UNCHANGED <<today, bans>>
    BY <1>7, <2>1 DEF LogCall
  <2> QED
    BY <2>2, <2>3 DEF Records
<1>8. ASSUME NEW exempt, ApplyUserCheckin(u, now, exempt)
      PROVE  Records(u, today, Of("checkins", 1))
  BY <1>1, <1>3, <1>5, <1>8 DEF ApplyUserCheckin, Records
<1>9. ASSUME NEW r \in Rounds, NEW o \in FishingOutcomes, StartFishingRound(u, r, o, now)
      PROVE  Records(u, now, Of("games", 1))
  BY <1>3, <1>5, <1>9 DEF StartFishingRound, Records
<1> QED
  BY <1>6, <1>7, <1>8, <1>9

\* The initial states have it.
LEMMA InitIsSound ==
  ASSUME Init
  PROVE  IInv
<1>1. 0 \in Days /\ LastDay \in Nat /\ MaxActs \in Nat /\ MaxBans \in Nat
  BY ActivityAssumption DEF Days, ActivityAssumption
<1>2. Clock
  BY <1>1 DEF Init, Clock, UserRow
<1>3. DailyRows
  BY <1>1, EventNames DEF Init, DailyRows, NoActs, Events
<1>4. /\ Opened \in SiteRow /\ Opened.counts = Zero /\ ~Opened.final /\ Zero \in Tally
      /\ Never \notin SiteRow
  BY ZeroTally, ActivityAssumption DEF ActivityAssumption
<1>5. site = [d \in Days |-> IF d = 0 THEN Opened ELSE Never] /\ today = 0
  BY DEF Init
<1>6. SiteRows
  <2>1. site \in [Days -> SiteRow \cup {Never}]
    BY <1>4, <1>5
  <2>2. \A d \in Days : site[d] # Never => d = 0 /\ site[d] = Opened
    BY <1>5
  <2>3. SiteTyped(0, Opened)
    BY <1>4, <1>5 DEF SiteTyped, Tally
  <2> QED
    BY <1>5, <2>1, <2>2, <2>3 DEF SiteRows
<1>7. Exact
  <2>1. ASSUME NEW d \in Days PROVE RowOf(d) = Opened /\ Counts(d) = Zero
    <3>1. RowOf(d) = Opened
      BY <1>5 DEF RowOf
    <3>2. user \in UserRows /\ daily \in DayRows
      BY <1>2, <1>3 DEF Clock, DailyRows, UserRows, DayRows
    <3>3. Enabled(user) = {}
      BY DEF Init, Enabled
    <3>4. CountsOf(user, daily, d) = SumOfParts(user, daily, d, {})
      BY <3>2, <3>3, CountsAreSums
    <3>5. SumOfParts(user, daily, d, {}) = Zero
      BY <3>2, SumsUnfold
    <3> QED
      BY <3>1, <3>4, <3>5, CountsNow
  <2> QED
    BY <1>4, <2>1 DEF Exact
<1>8. Players
  <2>1. StartCredits \in Nat
    BY ActivityAssumption DEF ActivityAssumption
  <2> QED
    BY <2>1 DEF Init, Players, Wallet, Round
<1>9. Settled
  <2>1. /\ round \in RoundRows /\ awards \in AwardRows
        /\ \A u \in Users : wallet[u].credits = StartCredits /\ best[u] = 0
    BY <1>8 DEF Players, RoundRows, AwardRows, Init
  <2>2. ASSUME NEW u \in Users PROVE Bought(round, u) = {} /\ Paid(round, u) = {}
    BY ActivityAssumption DEF Init, Bought, Paid, ActivityAssumption
  <2>3. ASSUME NEW u \in Users PROVE Balance(round, awards, u) = StartCredits
    <3>1. Sum(awards[u], Days) = 0
      <4>1. \A d \in Days : awards[u][d] = 0
        BY DEF Init
      <4> QED
        BY <2>1, <4>1, BalanceParts, SumZero
    <3>2. Cardinality({}) = 0 /\ Sum(Won(round), {}) = 0
      BY FS_EmptySet, SumEmpty
    <3>3. Balance(round, awards, u) = StartCredits - Price * 0 + 0 + Bonus * 0
      BY <2>2, <3>1, <3>2 DEF Balance
    <3>4. \A s, p, b \in Nat : s - p * 0 + 0 + b * 0 = s
      OBVIOUS
    <3>5. StartCredits \in Nat /\ Price \in Nat /\ Bonus \in Nat
      BY ActivityAssumption DEF ActivityAssumption
    <3> QED
      BY <3>3, <3>4, <3>5
  <2>4. ASSUME NEW u \in Users PROVE Biggest(round, u, best[u])
    BY <2>1, <2>2 DEF Biggest
  <2> QED
    BY <2>1, <2>3, <2>4 DEF Settled
<1>10. Awarded
  BY DEF Init, Awarded
<1> QED
  BY <1>2, <1>3, <1>6, <1>7, <1>8, <1>9, <1>10 DEF IInv

\* Every step keeps it.
LEMMA NextIsSound ==
  ASSUME IInv, [Next]_vars
  PROVE  IInv'
<1> USE DEF IInv
<1>1. CASE NextDay
  <2>1. Players' /\ Settled' /\ Awarded'
    BY <1>1, PlayersQuiet DEF NextDay, stats, players, Rows
  <2> QED
    BY <1>1, <2>1, NextDayKeeps
<1>2. CASE UNCHANGED vars
  <2>1. UNCHANGED <<clock, stats>> /\ UNCHANGED players /\ user' = user
    BY <1>2 DEF vars, stats
  <2>2. Players' /\ Settled' /\ Awarded'
    BY <2>1, PlayersQuiet DEF Rows
  <2> QED
    BY <2>1, <2>2, QuietKeeps
<1>3. ASSUME NEW now \in Nows, MaintainActivity(now) PROVE IInv'
  <2>1. Players' /\ Settled' /\ Awarded'
    BY <1>3, PlayersQuiet DEF MaintainActivity, players, Rows
  <2> QED
    BY <1>3, <2>1, MaintainKeeps
<1>4. ASSUME NEW now \in Nows, PurgeExpiredGameRounds(now) PROVE IInv'
  <2>1. UNCHANGED <<clock, stats>>
    BY <1>4 DEF PurgeExpiredGameRounds
  <2> QED
    BY <1>4, <2>1, QuietKeeps, PurgeKeeps
<1>5. ASSUME NEW u \in Users, NEW now \in Nows, CreateUser(u, now) PROVE IInv'
  <2>1. /\ UNCHANGED players
        /\ user' = [user EXCEPT ![u] = [status |-> "enabled", created |-> now]]
        /\ user[u].status = "absent"
    BY <1>5 DEF CreateUser
  <2>2. \A v \in Users : user'[v] = user[v] \/ (v = u /\ user'[u].status = "enabled")
    BY <2>1 DEF Clock
  <2>3. Players' /\ Settled' /\ Awarded'
    BY <2>1, <2>2, PlayersQuiet DEF Rows
  <2> QED
    BY <1>5, <2>3, CreateKeeps
<1>6. ASSUME NEW u \in Users, NEW now \in Nows, SetUserDisabled(u, now) PROVE IInv'
  <2>1. /\ UNCHANGED players /\ user' = [user EXCEPT ![u].status = "disabled"]
        /\ user[u].status = "enabled"
    BY <1>6 DEF SetUserDisabled
  <2>2. \A v \in Users : user'[v] = user[v] \/ (v = u /\ user'[u].status = "disabled")
    BY <2>1 DEF Clock, UserRow
  <2>3. Players' /\ Settled' /\ Awarded'
    BY <2>1, <2>2, PlayersQuiet DEF Rows
  <2> QED
    BY <1>6, <2>3, DisableKeeps
<1>7. ASSUME NEW u \in Users, NEW now \in Nows, UnbanUser(u, now) PROVE IInv'
  <2>1. /\ UNCHANGED players /\ user' = [user EXCEPT ![u].status = "enabled"]
        /\ user[u].status = "disabled"
    BY <1>7 DEF UnbanUser
  <2>2. \A v \in Users : user'[v] = user[v] \/ (v = u /\ user'[u].status = "enabled")
    BY <2>1 DEF Clock, UserRow
  <2>3. Players' /\ Settled' /\ Awarded'
    BY <2>1, <2>2, PlayersQuiet DEF Rows
  <2> QED
    BY <1>7, <2>3, UnbanKeeps
<1>8. ASSUME NEW u \in Users, NEW now \in Nows, DeleteUser(u, now) PROVE IInv'
  BY <1>8, DeleteKeeps, DeletePlayers
<1>9. ASSUME NEW u \in Users, NEW now \in Nows,
             RecordConsoleAction(u, now)
               \/ \E success \in BOOLEAN : LogCall(u, now, success)
      PROVE  IInv'
  <2>1. PICK delta : Records(u, now, delta)
    BY <1>9, EventKinds
  <2>2. UNCHANGED players /\ user' = user
    BY <1>9 DEF RecordConsoleAction, LogCall, RecordActivity
  <2>3. Players' /\ Settled' /\ Awarded'
    BY <2>2, PlayersQuiet DEF Rows
  <2> QED
    BY <2>1, <2>3, RecordKeeps
<1>10. ASSUME NEW u \in Users, NEW day \in Nows, NEW exempt \in BOOLEAN,
              ApplyUserCheckin(u, day, exempt)
       PROVE  IInv'
  <2>1. PICK delta : Records(u, today, delta)
    BY <1>10, EventKinds
  <2> QED
    BY <1>10, <2>1, RecordKeeps, CheckinKeeps
<1>11. ASSUME NEW u \in Users, NEW r \in Rounds, NEW o \in FishingOutcomes, NEW now \in Nows,
              StartFishingRound(u, r, o, now)
       PROVE  IInv'
  <2>1. PICK delta : Records(u, now, delta)
    BY <1>11, EventKinds
  <2> QED
    BY <1>11, <2>1, RecordKeeps, StartKeeps
<1>12. ASSUME NEW r \in Rounds, SettleFishingRound(r) PROVE IInv'
  <2>1. UNCHANGED <<clock, stats>>
    BY <1>12 DEF SettleFishingRound
  <2> QED
    BY <1>12, <2>1, QuietKeeps, SettleKeeps
<1> QED
  BY <1>1, <1>2, <1>3, <1>4, <1>5, <1>6, <1>7, <1>8, <1>9, <1>10, <1>11, <1>12, Kinds

-----------------------------------------------------------------------------
(* Theorems *)

\* The inductive invariant holds in every reachable state.
LEMMA IInvAlways == Spec => []IInv
<1>1. Init => IInv
  BY InitIsSound
<1>2. IInv /\ [Next]_vars => IInv'
  BY NextIsSound
<1> QED
  BY <1>1, <1>2, PTL DEF Spec

\* A row of counters is never of a day to come nor of someone who is not there,
\* no number of it is above that of all events, and a frozen day is over.
THEOREM TypeCorrect == Spec => []TypeOK
<1>1. IInv => TypeOK
  <2> SUFFICES ASSUME IInv PROVE TypeOK
    OBVIOUS
  <2>1. Clock /\ DailyRows /\ SiteRows /\ Players
    BY DEF IInv
  <2>2. ASSUME NEW u \in Users, NEW d \in Days
        PROVE  /\ daily[u][d] \in [DOMAIN NoActs -> 0..MaxActs]
               /\ daily[u][d] # NoActs => d <= today /\ user[u].status # "absent"
    <3>1. daily[u][d] \in [DOMAIN NoActs -> Nat]
      BY <2>1 DEF DailyRows, Acts
    <3>2. \A f \in DOMAIN NoActs : daily[u][d][f] \in 0..MaxActs
      <4>1. acts \in Nat /\ acts <= MaxActs /\ MaxActs \in Nat
        BY <2>1, ActivityAssumption DEF Clock, ActivityAssumption
      <4>2. \A f \in DOMAIN NoActs : daily[u][d][f] <= acts /\ daily[u][d][f] \in Nat
        BY <2>1, <3>1 DEF DailyRows
      <4> QED
        BY <4>1, <4>2
    <3> QED
      BY <2>1, <3>1, <3>2 DEF DailyRows
  <2>3. ASSUME NEW d \in Days, site[d] # Never
        PROVE  /\ d <= today
               /\ site[d].final => d < today
               /\ site[d].counts \in [Fields -> IF site[d].final THEN Nat \cup {Never} ELSE Int]
    <3>1. SiteTyped(d, site[d])
      BY <2>1, <2>3 DEF SiteRows
    <3> QED
      BY <3>1 DEF SiteTyped
  <2> QED
    BY <2>1, <2>2, <2>3 DEF TypeOK, Clock, UserRow, Players, Wallet, Round
<1> QED
  BY <1>1, IInvAlways, PTL

\* The counts of an open day that events, registrations, bans, returns and
\* deletions keep up to date one by one are those a rebuild from the users' rows
\* would find, unless a transaction took the day before for the present.
THEOREM OpenDaysAreExact == Spec => []OpenDayExact
<1>1. IInv => OpenDayExact
  BY DEF IInv, Exact, OpenDayExact, RowOf
<1> QED
  BY <1>1, IInvAlways, PTL

\* A round is paid for once and pays once, however often it is settled.
THEOREM RoundsAreSettledOnce == Spec => []RoundsSettledOnce
<1>1. IInv => RoundsSettledOnce
  <2> SUFFICES ASSUME IInv PROVE RoundsSettledOnce
    OBVIOUS
  <2>1. round \in RoundRows /\ awards \in AwardRows /\ best \in [Users -> Nat] /\ Settled
    BY DEF IInv, Players, RoundRows, AwardRows
  <2>2. ASSUME NEW u \in Rows
        PROVE  /\ wallet[u].credits = StartCredits - Price * Cardinality(Bought(round, u))
                    + MapThenSumSet(LAMBDA r : round[r].won, Paid(round, u))
                    + Bonus * MapThenSumSet(LAMBDA d : awards[u][d], Days)
               /\ best[u] = Max({0} \cup {round[r].size : r \in Paid(round, u)})
    <3>1. u \in Users /\ user[u].status # "deleted"
      BY DEF Rows
    <3>2. MapThenSumSet(LAMBDA r : round[r].won, Paid(round, u)) = Sum(Won(round), Paid(round, u))
      <4> DEFINE S == Paid(round, u)
                 f == [r \in S |-> round[r].won]
      <4>1. MapThenSumSet(LAMBDA r : round[r].won, S) = Sum(f, S)
        <5> HIDE DEF S
        <5> QED
          BY DEF Sum, MapThenSumSet, MapThenFoldSet
      <4>2. IsFiniteSet(S) /\ \A r \in S : f[r] = Won(round)[r]
        BY <2>1, <3>1, BalanceParts
      <4> HIDE DEF S, f
      <4>3. Sum(f, S) = Sum(Won(round), S)
        BY <4>2, SumEqual
      <4> QED
        BY <4>1, <4>3 DEF S
    <3>3. MapThenSumSet(LAMBDA d : awards[u][d], Days) = Sum(awards[u], Days)
      BY DEF Sum
    <3>4. wallet[u].credits = Balance(round, awards, u) /\ Biggest(round, u, best[u])
      BY <2>1, <3>1 DEF Settled
    <3>5. best[u] = Max({0} \cup {round[r].size : r \in Paid(round, u)})
      <4> DEFINE S == {0} \cup {round[r].size : r \in Paid(round, u)}
      <4>1. best[u] \in S /\ best[u] \in Nat
        BY <2>1, <3>1, <3>4 DEF Biggest
      <4>2. \A y \in S : y \in Nat /\ best[u] >= y
        <5>1. \A r \in Paid(round, u) : round[r].size \in Nat /\ best[u] >= round[r].size
          BY <2>1, <3>4, <4>1 DEF Biggest, Paid, Bought, RoundRows, Round
        <5> QED
          BY <4>1, <5>1
      <4> HIDE DEF S
      <4>3. \A x \in S : (\A y \in S : x >= y) => x = best[u]
        BY <4>1, <4>2
      <4>4. Max(S) = best[u]
        BY <4>1, <4>2, <4>3 DEF Max
      <4> QED
        BY <4>4 DEF S
    <3> QED
      BY <3>2, <3>3, <3>4, <3>5 DEF Balance
  <2> QED
    BY <2>2 DEF RoundsSettledOnce, Bought, Paid
<1> QED
  BY <1>1, IInvAlways, PTL

\* Nobody is awarded two check-ins for one day, but by one that is applied after
\* one of the next day.
THEOREM CheckinsAreOnce == Spec => []CheckinOnce
<1>1. IInv => CheckinOnce
  <2>1. ASSUME IInv, NEW u \in Users, u \notin late, NEW d \in Days
        PROVE  awards[u][d] <= 1
    <3>1. awards[u][d] \in Nat /\ (awards[u][d] > 0 => awards[u][d] = 1)
      BY <2>1 DEF IInv, Players, Awarded
    <3> QED
      BY <3>1
  <2> QED
    BY <2>1 DEF CheckinOnce
<1> QED
  BY <1>1, IInvAlways, PTL


-----------------------------------------------------------------------------
(* Frozen days *)

\* What a step may make of the row of a day.
Kept(d) ==
  site[d] # Never /\ site[d].final =>
    \/ site'[d] = site[d]
    \/ site'[d] = Never /\ d <= today - Retention
    \/ d = today - 1 /\ site'[d] = [counts |-> Counts(d), final |-> FALSE]

\* Maintenance rebuilds the day it takes for the present.
LEMMA MaintainRebuilds ==
  ASSUME Clock, NEW now \in Nows, MaintainActivity(now)
  PROVE  site'[now] = [counts |-> Counts(now), final |-> FALSE]
<1>1. now \in Days /\ now \in Int
  BY NowsAre
<1>2. Retention \in Nat /\ Retention >= 2
  BY ActivityAssumption DEF ActivityAssumption
<1>3. ~(now < now - (Retention - 1))
  BY <1>1, <1>2
<1>4. site'[now] = CASE now < now - (Retention - 1) -> Never
                     [] now = now -> [counts |-> Counts(now), final |-> FALSE]
                     [] OTHER -> Finalized(now)[now]
  BY <1>1 DEF MaintainActivity
<1> QED
  BY <1>3, <1>4

\* It changes a frozen row only by purging it, or when it takes its day for the
\* present.
LEMMA MaintainFreezes ==
  ASSUME Clock, DailyRows, SiteRows, NEW now \in Nows, MaintainActivity(now), NEW d \in Days
  PROVE  Kept(d)
<1> SUFFICES ASSUME site[d] # Never, site[d].final
             PROVE  \/ site'[d] = site[d]
                    \/ site'[d] = Never /\ d <= today - Retention
                    \/ d = today - 1 /\ site'[d] = [counts |-> Counts(d), final |-> FALSE]
  BY DEF Kept
<1> DEFINE cutoff == now - (Retention - 1)
<1>1. /\ now \in Int /\ today \in Int /\ now <= today
      /\ now = today \/ now = today - 1
  BY NowsAre
<1>2. d \in Int /\ Retention \in Int
  BY ActivityAssumption DEF Days, ActivityAssumption
<1>3. /\ d < cutoff => site'[d] = Never
      /\ d >= cutoff /\ d # now => site'[d] = Finalized(now)[d]
  BY MaintainEffect
<1>4. CASE d < cutoff
  <2>1. d <= today - Retention
    BY <1>1, <1>2, <1>4
  <2> QED
    BY <1>3, <1>4, <2>1
<1>5. CASE d = now
  <2>1. d < today
    BY DEF SiteRows, SiteTyped
  <2>2. d = today - 1
    BY <1>1, <1>5, <2>1
  <2>3. site'[d] = [counts |-> Counts(d), final |-> FALSE]
    BY <1>5, MaintainRebuilds
  <2> QED
    BY <2>2, <2>3
<1>6. CASE d >= cutoff /\ d # now
  <2>1. d \in Days \ Pending(now)
    BY DEF Pending
  <2>2. Finalized(now)[d] = site[d]
    BY <2>1, FinalizedAt
  <2> QED
    BY <1>3, <1>6, <2>2
<1>7. d < cutoff \/ d >= cutoff
  BY <1>1, <1>2
<1> QED
  BY <1>4, <1>5, <1>6, <1>7

\* An event leaves a frozen row alone.
LEMMA RecordFreezes ==
  ASSUME Clock, DailyRows, SiteRows, NEW u, NEW e, NEW delta, Records(u, e, delta),
         NEW d \in Days
  PROVE  Kept(d)
<1>1. /\ e \in Days /\ daily[u][e] \in Acts /\ daily'[u][e] \in Acts
      /\ site' = IF Counted(u) THEN Adjusted(e, Change(daily[u][e], daily'[u][e])) ELSE site
  BY RecordEffect
<1>2. Change(daily[u][e], daily'[u][e]) \in Tally
  BY <1>1, ChangeOfShare
<1>3. ASSUME NEW by \in Tally, site[d] # Never, site[d].final PROVE Adjusted(e, by)[d] = site[d]
  BY <1>1, <1>3, AdjustedAt DEF RowOf
<1> QED
  BY <1>1, <1>2, <1>3 DEF Kept

\* So does a user who enters or leaves.
LEMMA MoveFreezes ==
  ASSUME Clock, DailyRows, SiteRows, NEW u \in Users, NEW now \in Nows, NEW dir \in {-1, 1},
         Move(u, now, dir), NEW d \in Days
  PROVE  Kept(d)
<1> SUFFICES ASSUME site[d] # Never, site[d].final PROVE site'[d] = site[d]
  BY DEF Kept
<1>1. site' = Moved(u, now, dir)
  BY DEF Move
<1>2. CASE d = now
  BY <1>1, <1>2, MovedAt DEF RowOf
<1>3. CASE d # now
  <2>1. d \in Days \ Pending(now)
    BY DEF Pending
  <2>2. Finalized(now)[d] = site[d]
    BY <2>1, FinalizedAt
  <2>3. Moved(u, now, dir)[d] = Finalized(now)[d]
    BY <1>3, MovedAt
  <2> QED
    BY <1>1, <2>2, <2>3
<1> QED
  BY <1>2, <1>3

\* Every step keeps every frozen row.
LEMMA NextFreezes ==
  ASSUME IInv, [Next]_vars, NEW d \in Days
  PROVE  Kept(d)
<1>0. Clock /\ DailyRows /\ SiteRows
  BY DEF IInv
<1>1. ASSUME site' = site PROVE Kept(d)
  BY <1>1 DEF Kept
<1>2. CASE NextDay
  BY <1>1, <1>2 DEF NextDay, stats
<1>3. CASE UNCHANGED vars
  BY <1>1, <1>3 DEF vars, stats
<1>4. ASSUME NEW now \in Nows, MaintainActivity(now) PROVE Kept(d)
  BY <1>0, <1>4, MaintainFreezes
<1>5. ASSUME NEW now \in Nows, PurgeExpiredGameRounds(now) PROVE Kept(d)
  BY <1>1, <1>5 DEF PurgeExpiredGameRounds, stats
<1>6. ASSUME NEW u \in Users, NEW now \in Nows, CreateUser(u, now) PROVE Kept(d)
  <2>1. NewUser \in Tally
    BY <1>0, <1>6, RegistrationCounts
  <2>2. site' = Adjusted(now, NewUser) /\ now \in Days
    BY <1>0, <1>6, NowsAre DEF CreateUser, NewUser
  <2>3. ASSUME site[d] # Never, site[d].final PROVE site'[d] = site[d]
    BY <1>0, <2>1, <2>2, <2>3, AdjustedAt DEF RowOf
  <2> QED
    BY <2>3 DEF Kept
<1>7. ASSUME NEW u \in Users, NEW now \in Nows,
             SetUserDisabled(u, now) \/ UnbanUser(u, now) \/ DeleteUser(u, now)
      PROVE  Kept(d)
  <2>1. CASE \E dir \in {-1, 1} : Move(u, now, dir)
    BY <1>0, <2>1, MoveFreezes
  <2>2. CASE site' = Finalized(now)
    <3>1. ASSUME site[d] # Never, site[d].final PROVE site'[d] = site[d]
      <4>1. d \in Days \ Pending(now)
        BY <3>1 DEF Pending
      <4> QED
        BY <1>0, <2>2, <4>1, FinalizedAt
    <3> QED
      BY <3>1 DEF Kept
  <2> QED
    BY <1>7, <2>1, <2>2 DEF SetUserDisabled, UnbanUser, DeleteUser
<1>8. ASSUME NEW u \in Users, NEW now \in Nows,
             \/ RecordConsoleAction(u, now)
             \/ \E success \in BOOLEAN : LogCall(u, now, success)
             \/ \E exempt \in BOOLEAN : ApplyUserCheckin(u, now, exempt)
             \/ \E r \in Rounds, o \in FishingOutcomes : StartFishingRound(u, r, o, now)
      PROVE  Kept(d)
  <2>1. \/ \E delta : Records(u, now, delta)
        \/ \E delta : Records(u, today, delta)
    BY <1>0, <1>8, EventKinds
  <2> QED
    BY <1>0, <2>1, RecordFreezes
<1>9. ASSUME NEW r \in Rounds, SettleFishingRound(r) PROVE Kept(d)
  BY <1>1, <1>9 DEF SettleFishingRound, stats
<1> QED
  BY <1>2, <1>3, <1>4, <1>5, <1>6, <1>7, <1>8, <1>9, Kinds

\* A day that was frozen stays as it was until it is purged, unless maintenance
\* takes it for the present.
THEOREM FrozenDaysStay == Spec => FrozenDays
<1>1. IInv /\ [Next]_vars =>
        [\A d \in Days : site[d] # Never /\ site[d].final =>
           \/ site'[d] = site[d]
           \/ site'[d] = Never /\ d <= today - Retention
           \/ d = today - 1 /\ site'[d] = [counts |-> Counts(d), final |-> FALSE]]_vars
  BY NextFreezes DEF Kept
<1> QED
  BY <1>1, IInvAlways, PTL DEF Spec, FrozenDays
=============================================================================

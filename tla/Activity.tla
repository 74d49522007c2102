------------------------------ MODULE Activity ------------------------------
(***************************************************************************)
(* Activity statistics, and the check-in and the fishing game that feed    *)
(* them.                                                                   *)
(*                                                                         *)
(* A user has one row of counters per UTC day; the site has one row per    *)
(* day, kept up to date by increments while the day is open, rebuilt from  *)
(* the users' rows by maintenance, and frozen, with small numbers hidden,  *)
(* when the day is over.  Every action is one transaction.  What a         *)
(* transaction takes for the present was read before it got the only       *)
(* connection of the database, so midnight may have passed since: now is   *)
(* the current day or the one before.                                      *)
(***************************************************************************)
EXTENDS Integers, FiniteSets, FiniteSetsExt

CONSTANTS
  Users,
  LastDay,         \* bound: days of the model
  MaxActs,         \* bound: calls, console actions, check-ins and rounds in all
  MaxBans,        \* bound: users disabled in all
  Retention,       \* ActivityRetentionDays
  RoundRetention,  \* GameRoundsRetention, in days
  K,               \* activityK: numbers below it are hidden
  Rounds,          \* identifiers of fishing rounds
  Catches,         \* the fish there are: credits won, size
  Treasure,        \* credits won by a treasure
  StartCredits, Price, Bonus, Cap,
  Never            \* no row, no number, no day

Days == 0..LastDay
Fields == {"newUsers", "product", "successful", "attempted", "console", "games",
           "checkinOnly", "attempts", "successes"}
\* A row of site_activity_daily.
SiteRow == [counts : [Fields -> Int \cup {Never}], final : BOOLEAN]

\* The row of the day before is never purged: ActivityRetentionDays is 400.
ASSUME ActivityAssumption ==
  /\ IsFiniteSet(Users) /\ IsFiniteSet(Rounds)
  /\ LastDay \in Nat /\ MaxActs \in Nat /\ MaxBans \in Nat /\ K \in Nat
  /\ Retention \in Nat \ {0, 1} /\ RoundRetention \in Nat \ {0}
  /\ StartCredits \in Nat /\ Price \in Nat \ {0} /\ Bonus \in Nat /\ Cap \in Nat
  /\ \A o \in Catches : o.won \in Nat /\ o.size \in Nat
  /\ Treasure \in Nat
  /\ Never \notin Int /\ Never \notin Users /\ Never \notin SiteRow

VARIABLES
  today,      \* the current UTC day
  acts,       \* events so far
  bans,      \* users disabled so far
  user,       \* row in users: in or out of the statistics, day of registration
  wallet,     \* its credits and last_checkin_day
  daily,      \* user_activity_daily
  site,       \* site_activity_daily
  round,      \* game_rounds; a row that is gone keeps its fields as history
  best,       \* game_best: size of the biggest fish
  awards,     \* history: check-ins awarded, by user and day
  late,       \* history: users awarded a check-in for a day before their last
  disturbed   \* history: days whose row missed a user coming or going

players == <<wallet, round, best, awards, late>>
stats == <<user, daily, site, disturbed>>
clock == <<today, acts, bans>>
vars == <<clock, players, stats>>

Zero == [f \in Fields |-> 0]
NoActs == [attempts |-> 0, successes |-> 0, console |-> 0, checkins |-> 0, games |-> 0]
Opened == [counts |-> Zero, final |-> FALSE]

TypeOK ==
  /\ today \in Days /\ acts \in 0..MaxActs /\ bans \in 0..MaxBans
  /\ user \in [Users -> [status : {"absent", "enabled", "disabled", "deleted"},
                         created : Days]]
  /\ wallet \in [Users -> [credits : Nat, checkin : Days \cup {Never}]]
  /\ \A u \in Users, d \in Days :
       /\ daily[u][d] \in [DOMAIN NoActs -> 0..MaxActs]
       /\ daily[u][d] # NoActs => d <= today /\ user[u].status # "absent"
  /\ \A d \in Days : site[d] # Never =>
       /\ d <= today
       /\ site[d].final => d < today
       /\ site[d].counts \in [Fields -> IF site[d].final THEN Nat \cup {Never} ELSE Int]
  /\ round \in [Rounds -> [status : {"none", "started", "settled"}, present : BOOLEAN,
                           user : Users \cup {Never}, day : Days \cup {Never},
                           won : Nat, size : Nat]]
  /\ best \in [Users -> Nat]
  /\ awards \in [Users -> [Days -> Nat]] /\ late \subseteq Users
  /\ disturbed \subseteq Days

Init ==
  /\ today = 0 /\ acts = 0 /\ bans = 0
  /\ user = [u \in Users |-> [status |-> "absent", created |-> 0]]
  /\ wallet = [u \in Users |-> [credits |-> StartCredits, checkin |-> Never]]
  /\ daily = [u \in Users |-> [d \in Days |-> NoActs]]
  /\ site = [d \in Days |-> IF d = 0 THEN Opened ELSE Never]
  /\ round = [r \in Rounds |-> [status |-> "none", present |-> FALSE, user |-> Never,
                                day |-> Never, won |-> 0, size |-> 0]]
  /\ best = [u \in Users |-> 0]
  /\ awards = [u \in Users |-> [d \in Days |-> 0]]
  /\ late = {} /\ disturbed = {}

Nows == {today, today - 1} \cap Days
Rows == {u \in Users : user[u].status \in {"enabled", "disabled"}}

\* Maintenance runs every minute: no day passes without it.
NextDay ==
  /\ today < LastDay /\ site[today] # Never
  /\ today' = today + 1
  /\ UNCHANGED <<acts, bans, players, stats>>

-----------------------------------------------------------------------------
(* What a user adds to a day *)

One(b) == IF b THEN 1 ELSE 0
Product(a) == a.successes > 0 \/ a.console > 0 \/ a.games > 0

\* The counts of day d that the activity a of one user of that day amounts to.
Share(a, registered) ==
  [newUsers |-> One(registered),
   product |-> One(Product(a)),
   successful |-> One(a.successes > 0),
   attempted |-> One(a.attempts > 0),
   console |-> One(a.console > 0),
   games |-> One(a.games > 0),
   checkinOnly |-> One(a.checkins > 0 /\ ~Product(a)),
   attempts |-> a.attempts,
   successes |-> a.successes]

Plus(r, s) == [f \in Fields |-> r[f] + s[f]]
Counts(d) ==
  FoldSet(LAMBDA u, sum : Plus(sum, Share(daily[u][d], user[u].created = d)),
          Zero, {u \in Users : user[u].status = "enabled"})

\* Changing a row that may not exist yet; a frozen one stays as it is.
AdjustedFrozen(d, by) ==
  LET row == IF site[d] = Never THEN Opened ELSE site[d] IN
  [site EXCEPT ![d] = [row EXCEPT !.counts = [f \in Fields |->
    IF @[f] = Never THEN by[f] ELSE @[f] + by[f]]]]
Adjusted(d, by) ==
  LET row == IF site[d] = Never THEN Opened ELSE site[d] IN
  [site EXCEPT ![d] = IF row.final THEN row
                      ELSE [row EXCEPT !.counts = Plus(@, by)]]

CountedIfRow(u) == user[u].status # "deleted"
Counted(u) == user[u].status = "enabled"

\* What one more event of user u on day d does to the statistics.
RecordActivity(u, d, delta) ==
  LET before == daily[u][d]
      after == [f \in DOMAIN NoActs |-> before[f] + delta[f]]
      by == [f \in Fields |-> Share(after, FALSE)[f] - Share(before, FALSE)[f]]
  IN /\ acts < MaxActs /\ acts' = acts + 1
     /\ daily' = [daily EXCEPT ![u][d] = after]
     /\ site' = IF Counted(u) THEN Adjusted(d, by) ELSE site
     /\ UNCHANGED <<user, disturbed>>

Of(f, n) == [NoActs EXCEPT ![f] = n]

\* A call counts for the day it started on.
LogCall(u, at, success) ==
  /\ u \in Rows
  /\ RecordActivity(u, at, [NoActs EXCEPT !.attempts = 1, !.successes = One(success)])
  /\ UNCHANGED <<today, bans, players>>

RecordConsoleAction(u, now) ==
  /\ u \in Rows
  /\ RecordActivity(u, now, Of("console", 1))
  /\ UNCHANGED <<today, bans, players>>

\* What follows a change of the user's own configuration or key: it counts in the
\* statistics, which are recorded in a transaction of their own.  As in every
\* handler, the user may have been disabled since the request was let in.
ConsoleAction(u) == \E now \in Nows : RecordConsoleAction(u, now)

-----------------------------------------------------------------------------
(* Check-in and game *)

CheckedInNever(u, day) == FALSE
CheckedIn(u, day) == wallet[u].checkin = day

\* The day is read by the handler, the activity counts for the day of the
\* transaction; exempt users may check in above the cap.
ApplyUserCheckin(u, day, exempt) ==
  /\ u \in Rows /\ ~CheckedIn(u, day)
  /\ exempt \/ wallet[u].credits < Cap
  /\ wallet' = [wallet EXCEPT ![u] = [credits |-> @.credits + Bonus, checkin |-> day]]
  /\ awards' = [awards EXCEPT ![u][day] = @ + 1]
  /\ late' = IF wallet[u].checkin # Never /\ day < wallet[u].checkin
             THEN late \cup {u} ELSE late
  /\ RecordActivity(u, today, Of("checkins", 1))
  /\ UNCHANGED <<today, bans, round, best>>

\* The handler of a check-in: a cap of zero switches check-in off.
Checkin(u) ==
  /\ Cap > 0
  /\ \E day \in Nows, exempt \in BOOLEAN : ApplyUserCheckin(u, day, exempt)

\* What a ticket may turn out: junk, a treasure, or a fish with its size.
FishingOutcomes ==
  {[won |-> 0, size |-> 0], [won |-> Treasure, size |-> 0]} \cup Catches

StartFishingRound(u, r, o, now) ==
  /\ u \in Rows /\ round[r].status = "none"
  /\ wallet[u].credits >= Price
  /\ wallet' = [wallet EXCEPT ![u].credits = @ - Price]
  /\ round' = [round EXCEPT ![r] = [status |-> "started", present |-> TRUE, user |-> u,
                                    day |-> now, won |-> o.won, size |-> o.size]]
  /\ RecordActivity(u, now, Of("games", 1))
  /\ UNCHANGED <<today, bans, best, awards, late>>

\* Settling again, after a lost answer, finds the round settled and pays nothing.
PayableTwice(r) == round[r].present
Payable(r) == round[r].present /\ round[r].status = "started"

SettleFishingRound(r) ==
  LET u == round[r].user IN
  /\ Payable(r)
  /\ round' = [round EXCEPT ![r].status = "settled"]
  /\ wallet' = [wallet EXCEPT ![u].credits = @ + round[r].won]
  /\ best' = [best EXCEPT ![u] = Max({@, round[r].size})]
  /\ UNCHANGED <<clock, awards, late, stats>>

FishingStart(u, r) ==
  \E now \in Nows, o \in FishingOutcomes : StartFishingRound(u, r, o, now)

\* Only its owner settles a round.
FishingSettle(u, r) == round[r].user = u /\ SettleFishingRound(r)

Expired(r, now) == round[r].day < now - RoundRetention
PurgeExpiredGameRounds(now) ==
  /\ \E r \in Rounds : round[r].present /\ Expired(r, now)
  /\ round' = [r \in Rounds |->
       [round[r] EXCEPT !.present = @ /\ ~Expired(r, now)]]
  /\ UNCHANGED <<clock, wallet, best, awards, late, stats>>

-----------------------------------------------------------------------------
(* Rebuilding days *)

Shown(counts) ==
  [f \in Fields |->
    LET judge == CASE f = "attempts" -> "attempted"
                   [] f = "successes" -> "successful"
                   [] OTHER -> f
    IN IF counts[judge] >= K THEN counts[f] ELSE Never]

PendingToday(now) == {d \in Days : d <= now /\ site[d] # Never /\ ~site[d].final}
Pending(now) == {d \in Days : d < now /\ site[d] # Never /\ ~site[d].final}

\* Freezing what is over, with the users as they are before the transaction
\* changes any.
Finalized(now) ==
  LET over == Pending(now) IN
  [d \in Days |-> IF d \in over
                  THEN [counts |-> Shown(Counts(d)), final |-> TRUE]
                  ELSE site[d]]

MaintainActivity(now) ==
  LET cutoff == now - (Retention - 1)
      frozen == Finalized(now) IN
  /\ site' = [d \in Days |->
       CASE d < cutoff -> Never
         [] d = now -> [counts |-> Counts(d), final |-> FALSE]
         [] OTHER -> frozen[d]]
  /\ daily' = [u \in Users |-> [d \in Days |->
       IF d < cutoff THEN NoActs ELSE daily[u][d]]]
  /\ disturbed' = {d \in disturbed : d > now}
  /\ UNCHANGED <<clock, user, players>>

\* What the cleanup worker does to these tables at a tick, with one clock for
\* both transactions; others come in between.
Cleanup(now) == MaintainActivity(now) \/ PurgeExpiredGameRounds(now)

-----------------------------------------------------------------------------
(* Users who come and go *)

\* Registration counts for the day that was read before it.
CreateUser(u, now) ==
  /\ user[u].status = "absent"
  /\ user' = [user EXCEPT ![u] = [status |-> "enabled", created |-> now]]
  /\ site' = Adjusted(now, [Zero EXCEPT !["newUsers"] = 1])
  /\ UNCHANGED <<clock, daily, disturbed, players>>

\* A user enters (dir = 1) or leaves (dir = -1) the row of day now, after the
\* days before it are frozen.
Moved(u, now, dir) ==
  LET share == Share(daily[u][now], user[u].created = now)
      row == IF site[now] = Never THEN Opened ELSE site[now]
  IN [Finalized(now) EXCEPT ![now] =
       IF row.final THEN row
       ELSE [row EXCEPT !.counts = [f \in Fields |-> Max({0, @[f] + dir * share[f]})]]]

Move(u, now, dir) ==
  /\ site' = Moved(u, now, dir)
  /\ disturbed' = (disturbed \ Pending(now)) \cup {d \in Days : now < d /\ d <= today}

SetUserDisabled(u, now) ==
  /\ user[u].status = "enabled"
  /\ user' = [user EXCEPT ![u].status = "disabled"]
  /\ Move(u, now, -1)
  /\ bans < MaxBans /\ bans' = bans + 1
  /\ UNCHANGED <<today, acts, daily, players>>

UnbanUser(u, now) ==
  /\ user[u].status = "disabled"
  /\ user' = [user EXCEPT ![u].status = "enabled"]
  /\ Move(u, now, 1)
  /\ UNCHANGED <<clock, daily, players>>

DeleteUser(u, now) ==
  /\ u \in Rows
  /\ user' = [user EXCEPT ![u].status = "deleted"]
  /\ IF user[u].status = "enabled" THEN Move(u, now, -1)
     ELSE site' = Finalized(now) /\ disturbed' = disturbed \ Pending(now)
  /\ daily' = [daily EXCEPT ![u] = [d \in Days |-> NoActs]]
  /\ round' = [r \in Rounds |->
       [round[r] EXCEPT !.present = @ /\ round[r].user # u]]
  /\ best' = [best EXCEPT ![u] = 0]
  /\ UNCHANGED <<clock, wallet, awards, late>>

\* The handlers of these: registration at the first sign-in, a permanent ban, a
\* deletion by an admin, and one by the user, who could still sign in.
Register(u) == \E now \in Nows : CreateUser(u, now)
AdminBanUser(u) == \E now \in Nows : SetUserDisabled(u, now)
AdminDeleteUser(u) == \E now \in Nows : DeleteUser(u, now)
MeDelete(u) == \E now \in Nows : DeleteUser(u, now)

-----------------------------------------------------------------------------
Next ==
  \/ NextDay
  \/ \E now \in Nows : Cleanup(now)
  \/ \E u \in Users :
       \/ Register(u) \/ AdminBanUser(u) \/ AdminDeleteUser(u) \/ MeDelete(u)
       \/ Checkin(u) \/ ConsoleAction(u)
       \/ \E now \in Nows :
            \/ UnbanUser(u, now)
            \/ \E success \in BOOLEAN : LogCall(u, now, success)
       \/ \E r \in Rounds : FishingStart(u, r) \/ FishingSettle(u, r)

Spec == Init /\ [][Next]_vars

-----------------------------------------------------------------------------
(* Properties *)

\* The counts of an open day, kept by increments as users act, register, are
\* disabled, come back and are deleted, are what a rebuild would find, unless a
\* user came or went in a transaction that took the day before for the present.
OpenDayExact == \A d \in Days \ disturbed :
  site[d] # Never /\ ~site[d].final => site[d].counts = Counts(d)

\* A day that was frozen stays as it was, whoever is banned, deleted or comes
\* back later, until it is purged; only maintenance that took it for the
\* present opens it again.
FrozenDays ==
  [][\A d \in Days : site[d] # Never /\ site[d].final =>
       \/ site'[d] = site[d]
       \/ site'[d] = Never /\ d <= today - Retention
       \/ d = today - 1 /\ site'[d] = [counts |-> Counts(d), final |-> FALSE]]_vars

\* A round is paid for once and pays once, however often it is settled, and
\* nothing if it was purged first: credits are what check-ins, tickets and
\* settled rounds amount to, and the best fish is the biggest of a settled round.
RoundsSettledOnce == \A u \in Rows :
  LET bought == {r \in Rounds : round[r].user = u}
      paid == {r \in bought : round[r].status = "settled"}
  IN /\ wallet[u].credits = StartCredits - Price * Cardinality(bought)
          + MapThenSumSet(LAMBDA r : round[r].won, paid)
          + Bonus * MapThenSumSet(LAMBDA d : awards[u][d], Days)
     /\ best[u] = Max({0} \cup {round[r].size : r \in paid})

\* Nobody is awarded two check-ins for one day, unless a check-in that read its
\* day before midnight was applied after one of the next day.
CheckinOnce == \A u \in Users \ late : \A d \in Days : awards[u][d] <= 1
=============================================================================

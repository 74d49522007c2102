# A TLA+ model of Dify2API

Dify2API is an OpenAI-compatible gateway in front of Dify workflows. A user
either brings a Dify app or calls a *charity* model: the request is sent to an
app that another user donated, the consumer pays a price in credits and the
donor earns a reward. This directory holds a model of the gateway in TLA+, the
TLC configurations that check it on small instances, and proofs, checked by
TLAPS, that hold for every size.

All paths below are relative to `src/`.

## 1. The system

| Component | State | Operations | Interacts with |
|---|---|---|---|
| Charity reservations (`db/charity_reservations.go`) | rows of `charity_reservations`, counts of `donations`, balances of `users` | reserve, mark dispatched, commit, release, recover, purge | handlers, settlement worker, start-up |
| Charity settlement (`handler/charity_settlement.go`) | queue of hints, pending map, current attempt | wake, retry on tick, scan for stale rows, settle, shut down | reservations, handlers |
| Charity routing (`handler/handler.go`, `handler/donations.go`) | one handler per request | price, pick a donation, reserve, dispatch, upload images, run the workflow, settle | reservations, settlement, rate limiters, Dify |
| Donations (`db/donations.go`, `handler/donations.go`) | status, counts, deadline, source | create, edit, change status (single, batch), expire, delete | reservations, pricing, applications |
| Applications (`db/donation_applications.go`) | pending, approved, rejected, invalidated | apply, set mapping, review (single, batch) | donations, pricing, generation gate |
| Pricing (`db/charity_pricing.go`) | price, reward, enabled per model | upsert, patch, delete | donations, routing |
| Generation gate (`db/generation_gate.go`) | download slots | generate, invalidate | applications, donations |
| Users (`db/users.go`) | balance, contribution, ban, deletion | adjust, check in, delete | everything that references a user |
| Fishing game (`db/games.go`) | rounds, best catches, board | start, settle, purge | balances |
| Activity statistics (`db/activity.go`) | per user and per site, by day | record, rebuild, finalise, suppress small numbers | users, deletions |
| Rate limiters (`handler/ratelimit.go`, `donation_limiter.go`, `probe_limiter.go`) | sliding windows, cached limits | check, record, acquire and release a lease | routing, admin settings |
| Throttles (`handler/ipthrottle.go`, `loginthrottle.go`) | windows and locks per address | allow, fail, succeed, purge | every request, sign-in |
| Mail aggregation (`mailer/cooler.go`) | buffered items, timer, running send | add, flush, shut down | alerts, shutdown |
| Debug hub (`handler/debug_user.go`) | one session per user, timers, buffer | start, stop, attach, push, time out | request handlers |
| Stream relay (`dify/client.go`, `translator/sse.go`) | event channel, converter | parse, convert, finish | routing |
| Egress policy (`dify/egress.go`) | allowed origins and addresses | dial, time out | Dify client |
| Process (`main.go`) | lifecycle | open, recover, serve, clean up, shut down | all |

The store is SQLite behind one connection (`db/db.go:334`), so a transaction,
and a statement outside one, is one atomic step. A handler that reads in one
statement and writes in another is two steps, and between them anything may
happen. Handlers, the settlement worker and the cleanup worker are goroutines.

What makes this hard: a charity call spends somebody's money and somebody
else's quota on a third party that may never answer; it is settled by whoever
gets to it first (its handler, the worker, the recovery); meanwhile the
donation may be edited, expire, be used up or be deleted, and users come and
go. `PROJECT.json` lists every hazard of this kind with its line.

What makes each component correct:

- *Reservations*: money and uses are conserved; one settlement per call, on the
  terms of the reservation; an in-flight call can always be settled.
- *Settlement*: no call that used a donor's app is refunded; every call is
  settled in the end; hints stay within their bound; nothing is served before
  the recovery is done.
- *Donations, applications, pricing*: an active donation was priced when it was
  activated; an expired one changes only through the operations meant for it;
  one made from an application keeps the mapping the application was filed with
  (section 3 says when it has none).
- *Users, check-in, game*: one award per day, one payout per round; a best
  catch never gets worse; a deleted user leaves no reference.
- *Statistics*: the open day's aggregate equals what a rebuild would give; a
  final day does not change.
- *Limiters, throttles*: no more hits per window than the limit plus what was
  in flight; a new limit takes effect.
- *Mail, debug hub, stream*: nothing stays in a buffer, and shutdown waits, until
  its deadline, for the last window of every category (not for every send, see
  section 3); a timer never ends a session that is not its own; one terminal
  frame per stream.

## 2. Modules

| Module | Models | Proofs |
|---|---|---|
| `CharityLedger` | what charity accounting promises, without tables: hold, consume, refund, leave | abstract specification |
| `CharityReservation` | the tables and every transaction that moves a use, a reservation or a balance of a charity call | `CharityReservationProofs` |
| `CharitySettlement` | handlers, settlement worker, process over an instance of `CharityReservation` | `CharitySettlementProofs` |
| `DonationLifecycle` | applications, reviews, template mapping, prices, the status endpoint, the generation gate, user deletion | `DonationLifecycleProofs` |
| `Admission` | what one user's requests pass: in-flight cap, key and ban, the three windows and the cache of their limits, the donations' windows | `AdmissionProofs` |
| `StreamRelay` | one call after admission: image upload, blocking or streamed workflow, parser goroutine, channels, converter, accounting | none: see section 4 |
| `AlertMail` | events, alert center, coolers, windows and shutdown of the mailer | `AlertMailProofs` |
| `DebugHub` | one user's debug sessions: timers, streams, the bounded queue, pushes | `DebugHubProofs` |
| `Activity` | check-in, fishing rounds, daily counters and the site's aggregates | `ActivityProofs` |
| `Sums` | no code: sums over finite sets, of any size | its own lemmas |
| `MC...` | constants, symmetry and constraints for TLC | |

`CharitySettlement` composes `CharityReservation` by `Store == INSTANCE
CharityReservation`: the store's variables are its own, its handlers and worker
take the store's actions. `CharityReservation` implements `CharityLedger`
through the mapping `members <- users, phase <- Phase, net <- Net`. The other
modules meet at operations that each sees from its side: a call is admitted
(`Admission`), reserves (`CharitySettlement`), is relayed (`StreamRelay`, where
`commits` is the number of settlements the handler asks for) and is counted
(`Activity`, `LogCall`); a donation's row is data in `CharityReservation` and
the outcome of reviews in `DonationLifecycle`.

What is left of the plan: proofs of `AccountedOnce` and `OneAnswer`; then modules
for the sign-in throttles and sessions, and for the renaming of template
variables.

### 2.1 CharityReservation

| Variable | Code |
|---|---|
| `users`, `credits`, `contribution` | rows of `users`, `credits`, `donation_credit` |
| `dstatus`, `remaining`, `total`, `success`, `source` | columns of `donations`; `dstatus` is "unborn" before and "deleted" after the row |
| `overdue` | donations with `deadline <= now` |
| `status`, `terms`, `gone` | `charity_reservations.status`, the other columns, rows purged or deleted |
| `checked` | status changes that passed the endpoint's check and are not yet written |
| `outside`, `over` | history only: balance changes outside charity calls; uses granted beyond `total_count` by clamped edits |

One action per transaction: `Reserve`, `MarkDispatched`, `Commit`, `Release`,
`PurgeSettled`, `CreateDonation`, `ExpireOverdue`, `PatchDonation`,
`BatchSetStatus`, `InvalidateExpired`, `DeleteDonations`, `DeleteUser`,
`AdminBatchCredits`. The
single status endpoint is two actions, `CheckStatus` and `WriteStatus`, because
it reads and writes in two statements. `DeadlinePasses` is time;
`MoveCredits` stands for every other movement of one balance (an admin's edit,
check-in, game, penalties), `AdminBatchCredits` is the console's batch over
several users, which adds an amount or sets one. A batch may also be over
`donation_credit` and may make that negative; no action here reads the column
then, so the model leaves it alone. A user and a donation id are never reused
(`AUTOINCREMENT`), nor is a reservation id (128 random bits).

`PatchDonation` always sets the total and the status; keeping the old value is
one of the values it can set. A settled row is left in `status` and `terms`
when it is purged, because the properties speak of it; no action reads it
(`Live`).

Left out: failure counters (`failure_count`, `consecutive_failures`), which no
settlement reads; the pricing check when a donation is activated, which only
removes behaviours; `RecordDonationSuccess` and `RecordDonationFailure`, which the
code keeps only for tests (`db/donations.go:591`).

### 2.2 CharitySettlement

`pc` says where each handler and the worker is:

| `pc` | Code |
|---|---|
| idle, setup, marked, calling | `handleCharityAfterRPM`: before the reservation; after it; dispatched; in an upstream request |
| reading, applying | `settleCurrentStateOnce`: before the read; between read and transaction |
| waking, done | handler: `settleNow` failed, leave a hint; finished |
| idle, retrying, scanning, waking, stopped | worker: `select`; `retryPending`; `discoverStale` before and after its query; `run` returned |

`seen` is the status a settlement read, `queue` and `pending` are the worker's,
`todo` the ids a tick has still to work on. `age` is the time since `updated_at`,
`waited` the time in the current upstream request. `life` is the process:
down, recovering, up, stopping.

A database call can fail before or after it took effect: `Reserve` and
`Dispatch` can succeed and report an error, `Apply` too. `Exit` is a crash at
any point or the end of a shutdown; it clears everything but the tables.
`Shutdown` merges the draining of handlers with the cancelling of the worker:
handlers may go on afterwards, as they do when the drain reaches its deadline.
The recovery's error ends the process (`main.go:62`), so `RecoveryFails` goes to
"down". That a missing donation would block `RecoverNext` for ever is excluded
by `InFlightBacked`.

Of the store's other steps the composition takes `Administration`: purging,
creating and deleting donations, batch status changes, deleting users. The
rest (deadlines, edits, balance movements) does not change what a settlement
finds, and is checked with the store alone. The order in which the stale scan
picks rows (oldest first) is left open, which allows more than the code does.

### 2.3 DonationLifecycle

| Variable | Code |
|---|---|
| `users`, `priced`, `limit` | rows of `users`, `charity_pricing`; setting `donation_review_limit` |
| `app` | a row of `donation_applications` and its submitting handler: `pc`, the limit and the mapping it has read (`cap`, `snap`) |
| `donation` | a row of `donations`: status, pair, mapping, source, the application it came from |
| `exhausted`, `busy` | `remaining_count = 0`; a reservation is in flight |
| `latest`, `made` | `service_generations` of purpose donation, the latest of a user and service |
| `download`, `toggles`, `aftermath`, `unused` | handlers between two statements: downloads, the status endpoint, the warning about a price after an approval, the deletion of a price |

The submission is four steps (`ReadLimit`, `ReadSnapshot`, `Insert`,
`AttachMapping`), because the count and the insert are one transaction but the
limit, the mapping's generation and its attachment are not. The attachment may
fail, which the handler only logs: the submission is then "unattached". A review is one
transaction (`Approved`, `Reject`), alone or in a batch, all or nothing. The
status endpoint reads, checks the price and writes (`ReadForStatus`,
`CheckPriceForStatus`, `WriteStatus` or `AbandonStatus`); the edit and the
batch check and write in one transaction. `DeletePricing` is checked and done
in two statements, the batch in one transaction. A download is
`CheckNoActive`, `CheckOthers`, `Invalidate`, `AddServiceGeneration`, with
`FailDownload` at any of them.

Deadlines and counts are reduced to what statuses depend on: an open donation
may expire at any time, a call may take the last use. Fields without influence
on a status (notes, base URLs, probes of the donated App) are left out.

### 2.4 Admission

| Variable | Code |
|---|---|
| `slot` | a place of the in-flight semaphore with the request in it: where it is, its start, the limits it holds, the candidates it has not tried, its lease |
| `hits`, `leases` | the windows of the user and of each donation, as hits per second |
| `global`, `override`, `cache`, `pending` | limits in the settings, the user's own, the cached ones; an admin has written and not yet invalidated |
| `banned` | the user's row |
| `made`, `kept` | history: all hits ever; the leases of calls that went on |

`Gate` is `handleChatCompletions` up to the check of the windows: `Arrive`,
`RefuseBody`, `LookUpKey`, `FailAntiAbuse`, `ReadCache`, on a miss three times
`ReadSetting`, then `ReadUser`, `FillCache`, then `Pass` or `Refuse`, and
`RecordReceived`. The settings of the three classes are read in three statements,
between which an admin may change them, and the user's row overrides them class
by class (`Effective`). The check is one critical section of the limiter and the
recording another. `Pool` is the choice of a donation with its lease
(`Acquire`, `Overloaded`, `Released`, `Unavailable`, `FailSetup`, `Dispatch`);
`Call` is the outcome, where class B and class A are recorded. The
`Environment` is an admin who sets limits and bans, and time.

A process in debug mode intercepts every request before it looks at the key
(`handler/handler.go:517-530`), which is `RefuseBody`. A user's dry run is answered
after the gate and after class C was recorded (`handler/handler.go:602`, then 660
or 813): for the windows it is a `RefuseOwn` or `RefuseCharity`.

Left out: what captures record, the anonymous path, the per-address throttles,
the game's start limiter and the limiter of probes, which share nothing with
these windows, and how the anti-abuse rules match a request: `FailAntiAbuse`
may happen to any.

### 2.5 StreamRelay

`handler` and `parser` are the two goroutines of a streamed call, `events` and
`error` their channels, `canceled` the request's context, `out` what the
caller was sent, `ledger` what is left of the call: rows in the request log,
settlements asked for, hits of class B and A, alerts, stops sent upstream.

An upstream event is one of four kinds (`Kinds`); what produces no output is
"other". The handler's `select`s are disjunctions: where two channels are
ready, either may be taken. A receive from a closed channel is possible at
once, which is why the order in which the parser closes its two channels
matters. `FirstEvent`, `FirstClosed`, `FirstError`, `FirstCanceled` are the
wait for the first event, `Late` the second look at the error channel when
there was none, `Relay`, `RelayClosed`, `RelayCanceled` the loop, `Drain` and
`DrainCanceled` the wait for the transport's verdict. The blocking branch is
one step per outcome of `BlockingWorkflow`.

Left out: the branch for a `ResponseWriter` that cannot flush, which
net/http's never is; the text of frames.

### 2.6 AlertMail

`event` says how far each event is between `Queue` and `Add` (the mailer's
mutex is `caller`), `cooler` is a category's `cooler`: items, the window whose
timer runs, the window whose `done` channel it holds. `window` is a goroutine
started by a timer, named by the event that started it: running, fired,
sending, sent, closed. `todo`, `awaited`, `result` are the shutdown, `exited`
the end of the process. `AddAdminAlert` checks the subject in the statement
that inserts. `Send` is one step with either outcome, and it may never come: the
context of a send has no deadline (`mailer/mailer.go:62`), so the connection gets
none either (`mailer/smtp.go:41-50`), and a server that stops answering keeps the
send until the end of the shutdown cancels it. The wording of a mail and the contents of its lines are
left out, and so is the deletion of alerts together with the request logs they
point to.

### 2.7 DebugHub

One user's sessions are numbered; `current` is the hub's entry. `timers` are
running timers with what their closures captured (epoch, generation), `fired`
those whose function has started and waits for the hub's lock. A push finds
the session (`Find`), takes its lock (`Lock`) and goes through `evict`,
`receive`, `send`, `full`, `notice`, `crowded`: between any two of these a
stream may read. A stream writes and flushes what it took before it receives
again (`handler/debug_user.go:701-713`), and the server sets no write timeout
(`main.go:104-110`): a client that takes nothing more keeps that handler, but not
the session, which its hard limit ends. `bytes` is `totalBytes`, which an eviction decreases and a
push to an empty queue resets, but a reader leaves alone. Durations are
abstracted: a running timer may fire at any moment, so all orders of timers
are covered. The captured contents and their truncation are left out.

### 2.8 Activity

`today` is the UTC day; a transaction's `now` may be the day before, because
the handler reads the clock before it gets the connection (`Nows`). `daily` is
`user_activity_daily`, `site` is `site_activity_daily` with its `final` flag,
`wallet`, `round`, `best` are the balance with `last_checkin_day`,
`game_rounds`, `game_best`. `awards`, `late` and `disturbed` are history: what
the properties need to say whom and which day a stale clock has hit.

`LogCall`, `ConsoleAction`, `Checkin`, `FishingStart`, `FishingSettle`,
`Register`, `AdminBanUser`, `UnbanUser`, `AdminDeleteUser`, `MeDelete`,
`MaintainActivity` and `PurgeExpiredGameRounds` are the transactions; the
statistics they touch are part of each. The probabilities of a catch are a
choice. The time zone of check-ins is UTC (`CheckinTZOffset = 0`); admins
(never counted), timed bans (which leave the statistics alone), the 28-day
active users and levels are left out.

### 2.9 Mutated forms

Some modules define an operator just before another with the same parameters
that is never used, such as `NotRestored` before `Restored`. It is a
plausible mistake in that piece of code; `PROJECT.json` says which property
fails when it takes the other's place. This is how we know that a property can
fail.

## 3. Runs

| Run | Checks | Instance | Result |
|---|---|---|---|
| `CharityReservation` | `TypeOK`, `InFlightBacked`, `CapacityConserved`, `NoStrandedCapacity`, `MoneyConserved`, `LedgerSpec` | 2 calls, 2 users, 1 donation of up to 2 uses | holds, 0.5 M states |
| `CharitySettlement` | `TypeOK`, `NoFreeCall`, `HintsConsistent`, `RecoveredFirst` | 2 calls, room for 1 hint, 1 failing database call, 1 exit | holds, 1.5 M states |
| `SettlementLiveness` | `EventuallySettled` | the same, quiet administration, crashes only | holds, 0.2 M states |
| `DonationLifecycle` | `TypeOK`, `ApprovedOnce`, `PendingBounded`, `ApplicantExists`, `SnapshotKept`, `OutcomeFinal`, `ActivationGated` | 2 applications of 1 donor, 2 donations, 1 template pair, limits of 1 and 2, 2 endpoints under way | holds, 1.5 M states |
| `Admission` | `TypeOK`, `OverrunBounded`, `LeaseHeld` | 2 slots, 1 donation, limits of 1, windows of 2 on a clock of 3 | holds, 2.6 M states |
| `StreamRelay` | `TypeOK`, `AccountedOnce`, `OneAnswer`, `TransferComplete`, `CallEnds` | channel of 4, up to 6 events | holds, 0.14 M states |
| `AlertMail` | `TypeOK`, `MailedOnce`, `AlertsOfUsers`, `NothingLeft`, `EventuallyTaken` | 3 events, 2 categories, 1 user | holds, 0.33 M states |
| `DebugHub` | `TypeOK`, `GapsAnnounced`, `TimersCurrent`, `SessionsEnd` | 2 sessions, 2 streams, 3 pushes, 2 at a time, queue of 2 | holds, 0.9 M states |
| `Activity` | `TypeOK`, `OpenDayExact`, `FrozenDays`, `RoundsSettledOnce`, `CheckinOnce` | 2 users, 3 days, 2 events, 1 ban, 1 round | holds, 1.1 M states |
| `ExpiredStatus` | `ExpiredStatusFrozen` | as `CharityReservation` | violated |
| `ActiveCalls` | `ActiveCallsUntouched` | 2 upstream requests per call, no faults | violated |
| `DebugStuck` | `PushReturns` | as `DebugHub`, 2 pushes | violated |

What they show:

- `CapacityConserved`: for every donation, remaining + in flight + succeeded =
  total + what clamped edits granted on top.
- `MoneyConserved`: every balance is what the rest of the system made it, less
  the calls the user paid for, plus the calls the user donated.
- `InFlightBacked`: an in-flight call's row, donation and consumer exist.
  Without it a settlement fails for ever and the next start-up ends in
  `log.Fatalf`.
- `NoStrandedCapacity`: before its deadline a donation is expired only while it
  is used up. This needs the reactivation in the refund, and it must not
  be fooled by edits in between.
- `LedgerSpec`: the store is an implementation of `CharityLedger`.
- `NoFreeCall`: a call with an upstream request is dispatched or committed,
  never refunded, although a mark can fail after it took effect and the
  scan can release a reservation under its handler's feet.
- `HintsConsistent`: the queue and the map agree, within the bound.
- `RecoveredFirst`: at the start of serving nothing is in flight.
- `EventuallySettled`: if the process stays up from some time on, every
  in-flight call is settled.
- `ApprovedOnce`, `OutcomeFinal`: two reviewers, alone or in batches, and a
  download that invalidates, decide an application once; an approval makes
  exactly one donation.
- `PendingBounded`: a user's pending applications are never more than the highest
  limit that one of their submissions has read, though the limit is read before
  the insert and submissions run concurrently.
- `ApplicantExists`: no pending application outlives its user, whom the review
  needs.
- `SnapshotKept`: a donation is created with exactly the mapping the submitting
  handler read, however many Apps are downloaded before the review, and keeps it.
  It has none only if the application was approved before the mapping was
  attached, or attaching it failed (see below).
- `ActivationGated`: a donation becomes active only when its pair is priced, or
  a status request saw it priced, or a refund revives it.
- `OverrunBounded`: check and record are two critical sections, and a request
  that read its body slowly looks at a window that others have pruned since. A
  window then holds at most the limit plus twice the other requests in flight.
- `LeaseHeld`: the calls that use a donation stay within its limit, whatever
  others give back and when.
- `AccountedOnce`, `OneAnswer`, `TransferComplete`: every way a call can end
  leaves one log row, one settlement, one terminal for the caller; class A is
  counted exactly for the calls logged as a success, each of them relayed from
  the first event to `workflow_finished`, and only these see [DONE]. `CallEnds`: no goroutine is left.
- `MailedOnce`: an accepted event is in one buffer or one mail; `NothingLeft`:
  a shutdown that says it drained has; `AlertsOfUsers`: no alert about a deleted
  user; `EventuallyTaken`: no accepted event stays in a buffer, it becomes part of
  a mail that is being sent, even while earlier sends hang. Whether that mail is
  ever delivered depends on the server.
- `TimersCurrent`: a timer that fired late ends nothing it should not;
  `GapsAnnounced`: every eviction is announced to the reader; `SessionsEnd`: the
  hard limit ends every session whatever its clients do, unless a push is stuck in
  the hub. It says nothing of a stream's handler, which a stalled client keeps.
- `OpenDayExact`: the incremental aggregate is what a rebuild gives;
  `FrozenDays`: a frozen day stays; `RoundsSettledOnce`: credits are exactly
  what check-ins, tickets and settled rounds amount to; `CheckinOnce`: one award
  per user and day.

### Bounds

`CharityReservation`, `CharitySettlement`: two calls are enough for the races
between calls (two reservations of the last use, a debit between a debit and
its refund, a full queue) because every action concerns one call and what they
share is a count, a balance and the queue. Two users give every pairing of
consumer and donor, the same user included. A donation of two uses can be
fresh, partly used, exhausted and lowered below what is used. `Prices = {1}`,
`Rewards = {2}` and `StartCredits = {1}` make a consumer run out and a reward
differ from a price. Balances move by `Deltas = {-2}` and by batches that set
them to 2, up to `MaxOutside = 2` from where they would be, so they move both
ways and become negative. Prices and rewards can be edited in the code at any
time; a reservation's action takes any of the set, and the theorems cover
every set. Batches of donations (`BatchSetStatus`, `DeleteDonations`) have one
member in the run; the theorems cover all sizes.

`QueueSize = 1` makes the queue full with two calls. The stale limits are 1
and `RequestTimeout + Grace = 2` units, the order of magnitude between them
being all that matters; `ActiveCalls` makes `ReservedStale = 4` so that only
dispatched rows are stale. `MaxRequests` is the number of upstream requests of
a call, `MaxFaults` and `MaxExits` the failures. In `ActiveCalls` neither
failures nor exits are needed.

`DonationLifecycle`: two applications of one donor meet in the pending limit and
in a batch. With two donation ids a second approval of the same application, or a
batch that approves both, has a row to make. One pair of a template service is
the case with all steps; a plain service only drops some. `MaxGenerations = 2` is
a download before and one after an application. Three constraints keep the run
small. `FewRequests` allows two endpoints in the middle of their statements,
which is every pairwise race. `Limited` keeps the limit at 1 or 2 (0 refuses
all), with 2 only before the last submission reads its mapping: the second
application may so be the first to break the limit, or fit. `Aside` lets the
second donation and the second download meet reviews and mappings but not
prices, status requests and calls, which the states with one of each explore.
The theorems have no such constraint.

`Admission`: two slots are the two requests of a race. With `Window = 2` and
`MaxTime = 2` a hit is in the window, at its edge, and outside. All limits are
1 and the user has no override, so a stale cache entry has the value of a
fresh one, and limits read partly before and partly after a change are no
mixture: the steps are there, but the run says nothing about how long an old
limit stays (see below). For the same reason one request at a time is between
a miss and the filling of the cache (`MissesInTurn`); what changes windows,
settings, bans and the cache meanwhile is in the run. The theorems are about every set
of limits, and overrides of any of the classes.

`StreamRelay`: `Buffer = 4` is the capacity in the code (`dify/client.go:296`),
and six events fill the channel with one in the parser's hand and one in the
handler's.

`AlertMail`: three events open a window, join it or open the next while the
first is being sent, and open another category's. `InOrder` uses them in the
order of their names, `FewSwitches` changes the switches of one category only,
since categories share nothing but the mutex, and both at once: an event that
is between its two reads then meets one on and the other off.

`DebugHub`: two sessions are one and its replacement, two streams one and its
successor, two workers two pushes at a time. A queue of two is full with one
event and one notice; `ByteCap = 3` is reached by sizes 1 and 2. One fired
timer at a time may wait for the hub (`MaxFired`).

`Activity`: three days are one open, one frozen and one purged (`Retention =
2`, `RoundRetention = 1`); two events (`MaxActs`) and one ban put a user's
coming and going between two events of a day, and two across midnight. `K = 2`
hides a count of 1 and shows 2. There is one catch that is worth more than a
ticket, and one treasure.

`CHECK_DEADLOCK FALSE` is set where the bounded model has nothing left to do
once all ids or events are used; in `Admission` and `Activity` deadlock is
checked.

### Fairness

`FairSpec` assumes weak fairness of every handler's next step and of the
worker's: goroutines are scheduled, and an upstream request ends because the
HTTP client has a timeout (`dify/egress.go:268`). `Time` is weakly fair. The
worker's `select` chooses at random among the ready channels, so neither the
queue nor the ticker is starved: strong fairness of `Dequeue` and `Tick`, which
are enabled again and again. Faults, exits, restarts and administration are not
fair; nothing in the repository restarts the process, so `EventuallySettled`
assumes that it stays up from some time on. The run leaves out (by the action
constraint `Quiet`) administrative steps other than setting the donation up,
and graceful shutdown; none of these has fairness, so the behaviours left are
behaviours of the system.

`AlertMail` is fair to the timers and goroutines of the windows: a timer fires, its
goroutine takes the buffer, and closes the window once a send is over. Nothing is
assumed of `Send`, which has no deadline.

`StreamRelay` is fair to the handler and to the parser. For the parser the HTTP
client's timeout ends a silent upstream. For the handler this includes an
assumption about the caller, who takes what is written or disconnects: the server
has no write timeout (`main.go:104-110`), so a caller who does neither keeps a
handler in its write, and with it the call.

`DebugHub` is fair to the timer of the hard limit, to the closing of a fired timer
and to pushes, all in the process. Nothing is assumed of clients: they may never
attach, never leave and take nothing.

Events, administrators and the shutdown are never fair.

### Where the code and its documentation differ

- `ActiveCalls`: `db/charity_reservations.go:160` says of the stale scan
  "Active requests remain untouched". The limit for a dispatched row is one HTTP
  timeout plus a grace after it was marked (`handler/handler.go:160`), but a
  call with images makes several requests, each with a timeout of its own. The
  worker can commit a call whose handler is still in its second request. The
  outcome is the one the handler would reach, so no money is at stake; but the
  donation and its users can now be deleted under a running request.
- `ExpiredStatus`: "an expired donation's status cannot be changed", answers the
  status endpoint (`handler/donations.go:487`); the batch endpoint checks this in
  the transaction that writes. The single endpoint checks first and writes
  later, unconditionally (`db/donations.go:438-454`), and a donation that expires
  in between comes back as active or inactive.
- `DebugStuck`: a push "is non-blocking with respect to the request path"
  (`handler/debug_user.go:402-404`). A push that must evict for the cap on bytes
  tests that the queue is not empty and then receives from it, holding the
  session's lock (`handler/debug_user.go:433-434`). A stream that reads the last
  event in between leaves the push waiting for ever. Since readers do not
  decrease `totalBytes`, the cap is reached even by events most of which were
  read.

Without a run of their own, since the properties are stated around them and name
what they leave out:

- `handler/donations.go:1282-1284` and `1320-1321`, and `CHANGELOG.md:53`, say that the
  approved donation carries the mapping snapshot. It is stored by a second
  statement after the insert; its failure is only logged
  (`handler/donations.go:1325-1327`), and the review
  (`db/donation_applications.go:281-298`) does not ask for it. An application of a
  template service that is approved in between, or after a failure, becomes a
  donation without mapping: `handler/handler.go:931-949` answers calls on it with
  503, and no later statement repairs it. In the model `SnapshotKept` without its
  exception ("attaching", "unattached") is violated by submission, insertion and
  approval, in this order.
- `db/generation_gate.go:49` leaves inactive entries as they are and turns
  expired ones inactive, so an admin can activate an entry whose App a later
  download has replaced; `CHANGELOG.md:55-56` and the comment at
  `db/generation_gate.go:22-23` describe the invalidation without this way back.
- `handler/ratelimit.go:140`: a request that missed the cache before an admin's
  change stores the old limits after the invalidation, and they stay until the
  next change; the comment at `handler/ratelimit.go:40-41` expects the cache to be
  right between changes.
- `mailer/cooler.go:108-109` and `mailer/mailer.go:169` say that shutdown waits for
  sends in progress. It waits for the newest window of a category; an earlier
  one that is still sending is cancelled with the process. `NothingLeft` is
  therefore about buffers and the last windows.
- `handler/handler.go:1031`: when a short stream is already buffered in full, the
  closed error channel may be taken before the first event. The handler then
  looks only for a late error and answers with an empty stream's 502, though
  the comment at lines 1060-1062 takes this case for a body without events; a
  charity call is settled all the same.
- `db/activity.go:422-437`: maintenance that read the clock before midnight opens
  a frozen day again; it is frozen once more with the users there are then,
  although the comment at `db/activity.go:390-393` says that final days do not
  change. A ban or a deletion with such a clock leaves the new day's row
  wrong until the next maintenance.
- `db/users.go:312-328`: a check-in whose day was read before midnight, applied
  after one of the next day, sets `last_checkin_day` back; the next day can then
  be awarded again. `CheckinOnce` excludes the users in `late`.
- The own rank on the single-fish board (`db/games.go`, `myLeaderboardStanding`)
  counts disabled users and admins, the list (`FishingLeaderboard`) does not.

## 4. Proofs

`CharityReservationProofs` proves for every finite set of calls, every set of
users, donations, prices and rewards, and any bounds (`ReservationAssumption`):

| Theorem | Statement | Argument |
|---|---|---|
| `TypeCorrect` | `Spec => []TypeOK` | inductive; needs the guard `remaining > 0` and the clamp |
| `SettlementPossible` | `Spec => []InFlightBacked` | with `GoneSettled`: rows that are gone were settled, so an in-flight row is live; deletions are refused while a call is in flight |
| `NothingStranded` | `Spec => []NoStrandedCapacity` | inductive over `TypeOK` |
| `CapacityIsConserved` | `Spec => []CapacityConserved` | with `UnbornUnused` (no counts before the row exists) and `InFlightBacked` (no call in flight on a donation that is being created); lemmas on the cardinality of the in-flight set |
| `ImplementsLedger` | `Spec => LedgerSpec` | initial states map to initial states, and every step to a ledger step or a stutter, under the invariants above |
| `MoneyIsConserved` | `Spec => []MoneyConserved` | a step moves one reservation into or out of the sums of two users, and their balances by the same amount |

`ImplementsLedger` is the proved form of "no call is refunded or rewarded
twice, and always on its own terms"; `MoneyConserved` is its closed form, with
sums over all calls of a user. The sums are folds, and the induction theorems of
the library cannot be used here. `Sums` derives what the proofs need without
them: a set of subsets of a finite set that contains a subset whenever it contains
all smaller ones contains them all (`SubsetInduction`, from the least
cardinality of a counterexample). From it follow that the fold is what one
element adds to the fold of the others, whichever element is taken (`SumRemove`),
that equal or smaller terms give an equal or smaller sum, and that a finite set of
integers has a greatest element. The batch of balances adds a case to every
proof: it touches no reservation and no donation.

`CharitySettlementProofs` proves for any number of calls and any length of the
queue (`SettlementAssumption`):

| Theorem | Statement | Argument |
|---|---|---|
| `TypeCorrect` | `Spec => []TypeOK` | with the invariants below |
| `UsedIsNeverRefunded` | `Spec => []NoFreeCall` | `Marked`: Dify is asked only after the mark, and a marked reservation is dispatched or consumed from then on |
| `HintsAgree` | `Spec => []HintsConsistent` | `Rounds`: what the worker holds it remembers as "retry", and does not meet twice in a round |
| `ServesRecovered` | `Spec => RecoveredFirst` | `Off`, `Recovering`: while nothing is served no call is started, and what is in flight is on the list that recovery works through |
| `ImplementsStore` | `Spec => Store!Spec` | every step is an action of the store or leaves its variables alone |
| `ImplementsLedger` | `Spec => Store!LedgerSpec` | from `ImplementsStore` and the store's theorem |
| `StoreIsSafe` | `Spec => []` of the store's four invariants | the same |

The last three carry the store's theorems over to the code that drives it
(`StoreProofs == INSTANCE CharityReservationProofs`), so they are proved once.

`DonationLifecycleProofs` proves for any number of users, applications,
donations, services and reviewers (`LifecycleAssumption`):

| Theorem | Statement | Argument |
|---|---|---|
| `TypeCorrect` | `Spec => []TypeOK` | |
| `OneDonationEach` | `Spec => []ApprovedOnce` | `Births`: an origin belongs to one donation; a review makes donations only of pending applications, which have none |
| `PendingStaysBounded` | `Spec => []PendingBounded` | `LimitsRespected`: every set of a user's pending applications contains one whose limit is at least the size of the set; the insert counts again, in its own transaction, so it keeps this for the sets with the new one, and a review only makes the sets fewer |
| `ApplicantsExist` | `Spec => []ApplicantExists` | inductive: deleting a user deletes the pending applications |
| `SnapshotsKept` | `Spec => SnapshotKept` | `Submitted`: once a submission is done a filed application has its snapshot, and before that, or after a failure, none; no action writes a donation's mapping |
| `OutcomesFinal`, `ActivationsGated` | `Spec => OutcomeFinal`, `Spec => ActivationGated` | one case per action, under the invariant |

`AdmissionProofs` proves for any cap, any donations and limits, any length of
the windows and any bound on the clock (`AdmissionAssumption`; the cap is not
empty because the configuration accepts positive numbers only,
`config/config.go:420-434`):

| Theorem | Statement | Argument |
|---|---|---|
| `TypeCorrect` | `Spec => []TypeOK` | with `CarriesLimits`, `Started`, `OneLease`: what a request carries at each stage, its limits one class after the other |
| `LeasesAreHeld` | `Spec => []LeaseHeld` | `ClaimsRecorded`, `ClaimsBounded` |
| `OverrunIsBounded` | `Spec => []OverrunBounded` | `AnswersBounded`, `ReceivedBounded` |

`LeaseHeld` speaks of calls that went on; a lease not yet given back may still
become one. The invariant therefore counts *claims*, the calls that went on and
the leases held: every claim in the current window has its record
(`ClaimsRecorded`), so the gate, which compares the records with the limit in
the critical section that makes the next one, compares at least the claims
(`ClaimsBounded`). A release takes a record and a claim, a late one of a record
that was pruned only a claim.

`OverrunBounded` has no such atomicity: a request is compared in one critical
section and recorded in another. For the classes A and B, which record at the
time of the record, the records of a window that is not over are complete, so
a request passes only below the limit, and the hits that were made and those
the requests that have passed will still make are together at most one limit and
the other slots of the cap. For class C, which records at the time of the
start, that holds until a request that started after the window prunes it
(`Complete`); from then on (`Closed`) requests may pass it unseen, but only those
that started in it and have not recorded, all slots but the one that pruned it.
The two halves are the two summands `Cardinality(Slots) - 1` of the bound.

`AlertMailProofs` proves for any set of events, categories and users, and any
number of overlapping windows (`AlertMailAssumption`, of which it needs only that
`None` is no event and no user):

| Theorem | Statement | Argument |
|---|---|---|
| `TypeCorrect` | `Spec => []TypeOK` | needs `Coolers`: taking one cooler's buffer leaves every other cooler's timer alone |
| `MailedOnceHolds` | `Spec => []MailedOnce` | a buffered event is in the buffer of its category (`Buffered`) or in one batch (`Batched`), and in one of them (`Somewhere`) |
| `AlertsOfUsersHolds` | `Spec => []AlertsOfUsers` | with `Recent`: an alert's event has a subject that no longer changes |
| `NothingLeftHolds` | `Spec => []NothingLeft` | `Draining`: after the stop no event is on the way, and a cooler that was visited has no window but the awaited one |

The properties are not inductive alone. `MailedOnce` allows an event in the buffer
of the wrong category, or a batch left on a closed window, from which the next
`Add` or `Take` would break it; the inductive invariant adds that the mutex is
held by the one event on the way (`Callers`), that a window is named by an event
that is already buffered, so that no event opens two (`Windows`), and that a
cooler remembers its last window until that is closed (`Coolers`). Both ways a
buffer is taken, by its timer and by the shutdown, are the operator `Take`; the
lemmas `Taken` and `TakeMoves` say once what it moves.

`DebugHubProofs` proves for any number of sessions and pushes, any finite set of
streams, any capacity of the queue and any sizes of events
(`DebugHubAssumption`):

| Theorem | Statement | Argument |
|---|---|---|
| `TypeCorrect` | `Spec => []TypeOK` | `Covers`: the bytes of a session cover what is in its queue, so an eviction never takes more than there is |
| `TimersAreCurrent` | `Spec => TimersCurrent` | `Epochs`, `Generations`, `TimersSound` |
| `GapsAreAnnounced` | `Spec => []GapsAnnounced` | inductive with `Calls`: a push that has not got its session has evicted nothing |

`totalBytes` is not the sum of the queue: readers take events without taking their
bytes. What is invariant is that it is at least that sum, which `Covers` states
without a fold: `p[i]` is what is left of the bytes after the first `i` events.

A timer compares two numbers with those it captured; the property speaks of
streams and events. In between are three facts: the epoch of a session is the
number of streams that were ever attached to it, and each has its own while it
reads (`Epochs`); the generation is one more than the number of pushes and
attachments (`Generations`); and a timer, running or waiting for the lock, is
`Sound`: the no-attach timer captured epoch 0, the idle timer the generation that
belongs to the count it was started with, the grace timer the epoch of a stream
that has gone.

`ActivityProofs`, for any finite sets of users and rounds, any number of days
and events, prices and catches (`ActivityAssumption`):

| Theorem | Statement | Argument |
|---|---|---|
| `TypeCorrect` | `Spec => []TypeOK` | `Clock`, `DailyRows`, `SiteRows`, `Players` |
| `OpenDaysAreExact` | `Spec => []OpenDayExact` | inductive as `Exact`, with what a step changes in the fold over users |
| `FrozenDaysStay` | `Spec => FrozenDays` | by the actions, with `SiteRows`: a frozen day is before today |
| `RoundsAreSettledOnce` | `Spec => []RoundsSettledOnce` | inductive as `Settled`; purged and deleted rounds count as history |
| `CheckinsAreOnce` | `Spec => []CheckinOnce` | inductive as `Awarded`: nothing was awarded after the last check-in |

The code never computes the numbers of an open day from the rows of the users
until it rebuilds or freezes the day: it adds the difference an event makes. That
the two agree is an equation between nine counters and a fold over the users.
`CountsAreSums` turns the fold of records into one sum per field, for which
`Sums` has the lemmas; `OneUser` then says that a step on one user's rows changes
each sum by the change of that user's `Share`, and the actions differ only in
which change that is: of an event (`ChangeOfShare`), of a registration
(`RegistrationCounts`), of a user who enters or leaves (`ShiftedCounts`).

`OpenDayExact` is not inductive: an event may start the row of a day that has
none. `Exact` therefore speaks of the row the day has or would start with, and
includes the days that have not begun. For the day before, which a transaction
with an older clock may still write, this needs that the row is there, which is
the last conjunct of `SiteRows`: maintenance runs before the day ends, and the
purge keeps yesterday. Hence the assumption `Retention >= 2`, where the code has
`ActivityRetentionDays = 400` (`db/activity.go:11`). With `Retention = 1` TLC
refutes `OpenDayExact`: a call that started before midnight begins the purged
row of yesterday anew, without the events it had.

A leaving user's share is subtracted down to zero at the least
(`Moved`); where the day is exact the share is part of the sum, so nothing is
cut off, and the proof shows it.

Model-checked only are the invariants of `StreamRelay`: its buffer in the run is
that of the code, and only the number of events is bounded. What
`TransferComplete` says of `out` is a recursion over a sequence, whose induction
is out of the provers' reach.

Model-checked only is also liveness everywhere (`EventuallySettled`,
`EventuallyTaken`, `CallEnds`, `SessionsEnd`): it needs fairness and `ENABLED`,
which the provers do not handle.

## 5. Not modelled

`PROJECT.json` gives the reason for each component. In short:

- text transformations: translation of requests, templates and their
  obfuscation, mail bodies, public error texts;
- pure input and output: the dialogue with an SMTP server, HTTP pages, exports,
  statistics queries, bulletins;
- row-per-user configuration written by single statements: app configurations,
  caller keys, settings, levels;
- sign-in: sessions, the throttles per address, OAuth;
- the egress policy's address checks, start-up configuration, schema migrations,
  encryption; SQLite itself is taken as given;
- two concurrent reloads of the anti-abuse rules, of which the older may be
  stored last (`handler/handler.go:1489`): the rules only select refusals.

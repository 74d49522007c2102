------------------------------ MODULE Admission ------------------------------
(***************************************************************************)
(* What a chat request passes before and around the upstream call, for one *)
(* user: the slots of the in-flight cap, the caller key and the ban, the   *)
(* three request windows (A transferred, B succeeded, C received) and the  *)
(* cache of their limits, the window of every donation of the public pool. *)
(* Each critical section and each statement of the store is a step.        *)
(*                                                                         *)
(* A slot is a place of the semaphore with the request that holds it.  A   *)
(* window is kept as the number of hits per second; the requests carry     *)
(* the time they started at, which may be long ago (the body is read       *)
(* first).                                                                 *)
(***************************************************************************)
EXTENDS Integers, FiniteSets, Functions, FiniteSetsExt

CONSTANTS
  Slots,          \* places of the in-flight cap
  Donations,      \* routable donations of the model asked for
  DonationLimit,  \* rpm_limit of a donation
  Limits,         \* numbers an admin may set as the limit of a class
  Overrides,      \* limits an admin may set for the user alone, of some classes
  Window,         \* length of every sliding window
  MaxTime         \* bound on the clock

Classes == {"A", "B", "C"}

\* A limit for every class; for some of them; for none: no cache entry, no
\* override of the user's.
LimitValues == [Classes -> Limits]
SomeLimits == UNION {[cs -> Limits] : cs \in SUBSET Classes}
NoLimits == [c \in {} |-> 0]

ASSUME AdmissionAssumption ==
  /\ IsFiniteSet(Slots) /\ Slots # {}
  /\ IsFiniteSet(Limits) /\ Limits \subseteq Nat \ {0} /\ Limits # {}
  /\ Overrides \subseteq SomeLimits
  /\ DonationLimit \in [Donations -> Nat \ {0}]
  /\ Window \in Nat \ {0} /\ MaxTime \in Nat

VARIABLES
  now,
  slot,        \* the request in every slot
  hits,        \* class -> the user's hits per second
  leases,      \* donation -> its records per second
  global,      \* the limits in the settings
  override,    \* the user's own limits
  cache,       \* the limits cached for the user
  pending,     \* an admin has written limits and not yet cleared the cache
  banned,      \* the user is banned
  made,        \* history: class -> hits per second, never pruned
  kept         \* history: donation -> records per second of calls that went on

store == <<global, override, banned>>
vars == <<now, slot, hits, leases, cache, pending, store, made, kept>>

Times == 0..MaxTime
NoHits == [t \in Times |-> 0]
Idle == [pc |-> "idle", start |-> 0, limits |-> NoLimits, charity |-> FALSE,
         candidates |-> {}, lease |-> {}]

\* lease is {} or a donation and the time its record was made.
Request ==
  [pc : {"idle", "arrived", "known", "missed", "half", "read", "limited", "counted",
         "picking", "leased", "ready", "sent", "succeeded"},
   start : Times, limits : SomeLimits, charity : BOOLEAN,
   candidates : SUBSET Donations, lease : SUBSET (Donations \X Times)]

TypeOK ==
  /\ now \in Times
  /\ slot \in [Slots -> Request] /\ \A s \in Slots : Cardinality(slot[s].lease) <= 1
  /\ hits \in [Classes -> [Times -> Nat]] /\ made \in [Classes -> [Times -> Nat]]
  /\ leases \in [Donations -> [Times -> Nat]] /\ kept \in [Donations -> [Times -> Nat]]
  /\ global \in LimitValues /\ override \in SomeLimits
  /\ cache \in LimitValues \cup {NoLimits}
  /\ pending \in BOOLEAN /\ banned \in BOOLEAN

Init ==
  /\ now = 0 /\ slot = [s \in Slots |-> Idle]
  /\ hits = [c \in Classes |-> NoHits] /\ made = [c \in Classes |-> NoHits]
  /\ leases = [d \in Donations |-> NoHits] /\ kept = [d \in Donations |-> NoHits]
  /\ global \in LimitValues /\ override = NoLimits /\ cache = NoLimits
  /\ pending = FALSE /\ banned = FALSE

\* Sliding windows: the hits after the cutoff, the others dropped.
Recent(h, at) == [t \in Times |-> IF t > at - Window THEN h[t] ELSE 0]
Total(h) == FoldFunction(+, 0, h)
Hit(h, t) == [h EXCEPT ![t] = @ + 1]

\* The limits in force: the user's own, class by class, before the settings.
Effective(g, o) == [c \in Classes |-> IF c \in DOMAIN o THEN o[c] ELSE g[c]]

At(s, pc) == slot[s].pc = pc
Goto(s, pc) == slot' = [slot EXCEPT ![s].pc = pc]
Answer(s) == slot' = [slot EXCEPT ![s] = Idle]

-----------------------------------------------------------------------------
(* Before the gate *)

\* A free slot is taken; the clock is read before the body.  Without a free
\* slot the request is refused and nothing changes.
Arrive(s, charity) ==
  /\ At(s, "idle")
  /\ slot' = [slot EXCEPT ![s] = [Idle EXCEPT !.pc = "arrived", !.start = now,
                                              !.charity = charity]]
  /\ UNCHANGED <<now, hits, leases, cache, pending, store, made, kept>>

\* The body is too large, cannot be decoded or holds no messages, or the process
\* intercepts every request to dump it: nothing is counted.
RefuseBody(s) ==
  /\ At(s, "arrived")
  /\ Answer(s)
  /\ UNCHANGED <<now, hits, leases, cache, pending, store, made, kept>>

\* A banned user is not found.
userFromCallerKey == ~banned

LookUpKey(s) ==
  /\ At(s, "arrived")
  /\ IF userFromCallerKey THEN Goto(s, "known") ELSE Answer(s)
  /\ UNCHANGED <<now, hits, leases, cache, pending, store, made, kept>>

\* A request that is too short may cost the user a ban.
FailAntiAbuse(s, ban) ==
  /\ At(s, "known")
  /\ Answer(s)
  /\ banned' = (banned \/ ban)
  /\ UNCHANGED <<now, hits, leases, cache, pending, global, override, made, kept>>

\* The limits: a hit in the cache, ...
ReadCache(s) ==
  /\ At(s, "known")
  /\ slot' = [slot EXCEPT ![s].pc = IF cache # NoLimits THEN "limited" ELSE "missed",
                          ![s].limits = cache]
  /\ UNCHANGED <<now, hits, leases, cache, pending, store, made, kept>>

\* ... or the settings, each in a statement of its own, ...
Before(c) == CASE c = "A" -> {} [] c = "B" -> {"A"} [] c = "C" -> {"A", "B"}
Joined(limits, c, n) ==
  [k \in Before(c) \cup {c} |-> IF k = c THEN n ELSE limits[k]]

ReadSetting(s, c) ==
  /\ At(s, "missed") /\ DOMAIN slot[s].limits = Before(c)
  /\ slot' = [slot EXCEPT ![s].pc = IF c = "C" THEN "half" ELSE "missed",
                          ![s].limits = Joined(@, c, global[c])]
  /\ UNCHANGED <<now, hits, leases, cache, pending, store, made, kept>>

\* ... the user's row, ...
ReadUser(s) ==
  /\ At(s, "half")
  /\ slot' = [slot EXCEPT ![s].pc = "read", ![s].limits = Effective(@, override)]
  /\ UNCHANGED <<now, hits, leases, cache, pending, store, made, kept>>

\* ... and an entry in the cache.
FillCache(s) ==
  /\ At(s, "read")
  /\ Goto(s, "limited")
  /\ cache' = slot[s].limits
  /\ UNCHANGED <<now, hits, leases, pending, store, made, kept>>

\* The gate compares every window with its limit, as of the start of the
\* request, and records nothing.
Under(n, limit) == n < limit

PassesIfAny(s) ==
  \E c \in Classes : Under(Total(Recent(hits[c], slot[s].start)), slot[s].limits[c])
Passes(s) ==
  \A c \in Classes : Under(Total(Recent(hits[c], slot[s].start)), slot[s].limits[c])

\* A class is looked at, and pruned, only if the ones before it have room.
Pruned(s) ==
  LET full == {c \in Classes :
                 ~Under(Total(Recent(hits[c], slot[s].start)), slot[s].limits[c])}
      seen == CASE "A" \in full -> {"A"}
                [] "A" \notin full /\ "B" \in full -> {"A", "B"}
                [] OTHER -> Classes
  IN [c \in Classes |-> IF c \in seen THEN Recent(hits[c], slot[s].start) ELSE hits[c]]

Pass(s) ==
  /\ At(s, "limited") /\ Passes(s)
  /\ hits' = Pruned(s)
  /\ slot' = [slot EXCEPT ![s].pc = "counted", ![s].limits = NoLimits]
  /\ UNCHANGED <<now, leases, cache, pending, store, made, kept>>

\* A refusal is logged; with enough others in the log of the last day it
\* bans the user.
Refuse(s, ban) ==
  /\ At(s, "limited") /\ ~Passes(s)
  /\ hits' = Pruned(s)
  /\ banned' = (banned \/ ban)
  /\ Answer(s)
  /\ UNCHANGED <<now, leases, cache, pending, global, override, made, kept>>

\* A hit of class c at time t, with the window pruned as of t.
Record(c, t) ==
  /\ hits' = [hits EXCEPT ![c] = Hit(Recent(@, t), t)]
  /\ made' = [made EXCEPT ![c] = Hit(@, t)]

\* Class C counts in a critical section of its own, at the time of the start
\* (which only the log reads from then on).
RecordReceived(s) ==
  /\ At(s, "counted")
  /\ Record("C", slot[s].start)
  /\ slot' = [slot EXCEPT ![s].pc = IF slot[s].charity THEN "picking" ELSE "ready",
                          ![s].start = 0,
                          ![s].candidates = IF slot[s].charity THEN Donations ELSE {}]
  /\ UNCHANGED <<now, leases, cache, pending, store, kept>>

-----------------------------------------------------------------------------
(* The public pool *)

\* The switches, the price, the balance or the content refuse the call
\* before a donation is picked.
RefuseCharity(s) ==
  /\ At(s, "picking") /\ slot[s].candidates = Donations
  /\ Answer(s)
  /\ UNCHANGED <<now, hits, leases, cache, pending, store, made, kept>>

HasRoom(d) == Total(Recent(leases[d], now)) < DonationLimit[d]

\* One critical section prunes, compares and records.
Acquire(s, d) ==
  /\ At(s, "picking") /\ d \in slot[s].candidates /\ HasRoom(d)
  /\ leases' = [leases EXCEPT ![d] = Hit(Recent(@, now), now)]
  /\ slot' = [slot EXCEPT ![s].pc = "leased", ![s].lease = {<<d, now>>}]
  /\ UNCHANGED <<now, hits, cache, pending, store, made, kept>>

\* No candidate has room, or none is left.
Overloaded(s) ==
  /\ At(s, "picking") /\ \A d \in slot[s].candidates : ~HasRoom(d)
  /\ leases' = [d \in Donations |->
                  IF d \in slot[s].candidates THEN Recent(leases[d], now) ELSE leases[d]]
  /\ Answer(s)
  /\ UNCHANGED <<now, hits, cache, pending, store, made, kept>>

\* The call's own record is removed, if it has not been pruned.
ReleaseOldest(h, at) ==
  IF \E t \in Times : h[t] > 0
  THEN [h EXCEPT ![Min({t \in Times : h[t] > 0})] = @ - 1] ELSE h
ReleaseBlindly(h, at) == [h EXCEPT ![at] = @ - 1]
ReleaseOwn(h, at) == IF h[at] > 0 THEN [h EXCEPT ![at] = @ - 1] ELSE h

Released(s) ==
  [d \in Donations |->
     IF \E x \in slot[s].lease : x[1] = d
     THEN ReleaseOwn(leases[d], (CHOOSE x \in slot[s].lease : TRUE)[2]) ELSE leases[d]]

\* The donation was used up meanwhile: the next candidate.
Unavailable(s) ==
  LET d == (CHOOSE x \in slot[s].lease : TRUE)[1] IN
  /\ At(s, "leased")
  /\ leases' = Released(s)
  /\ slot' = [slot EXCEPT ![s].pc = "picking", ![s].lease = {},
                          ![s].candidates = @ \ {d}]
  /\ UNCHANGED <<now, hits, cache, pending, store, made, kept>>

\* The reservation, the credential, the client, the mapping or the dispatch
\* mark fails: the lease is given back.
FailSetup(s) ==
  /\ At(s, "leased")
  /\ leases' = Released(s)
  /\ Answer(s)
  /\ UNCHANGED <<now, hits, cache, pending, store, made, kept>>

\* The call is reserved and marked dispatched; the lease stays.
Dispatch(s) ==
  /\ At(s, "leased")
  /\ kept' = [d \in Donations |->
                IF \E x \in slot[s].lease : x[1] = d
                THEN Hit(kept[d], (CHOOSE x \in slot[s].lease : TRUE)[2]) ELSE kept[d]]
  /\ slot' = [slot EXCEPT ![s].pc = "sent", ![s].lease = {}, ![s].candidates = {},
                          ![s].charity = FALSE]
  /\ UNCHANGED <<now, hits, leases, cache, pending, store, made>>

-----------------------------------------------------------------------------
(* The user's own app, the upstream call, the end *)

\* No such model, a malformed request, no template mapping.
RefuseOwn(s) ==
  /\ At(s, "ready")
  /\ Answer(s)
  /\ UNCHANGED <<now, hits, leases, cache, pending, store, made, kept>>

Forward(s) ==
  /\ At(s, "ready")
  /\ Goto(s, "sent")
  /\ UNCHANGED <<now, hits, leases, cache, pending, store, made, kept>>

FailUpstream(s) ==
  /\ At(s, "sent")
  /\ Answer(s)
  /\ UNCHANGED <<now, hits, leases, cache, pending, store, made, kept>>

\* Class B counts when the upstream has answered, class A when the answer
\* has been transferred, each at the time it happens.
Succeed(s) ==
  /\ At(s, "sent")
  /\ Record("B", now)
  /\ Goto(s, "succeeded")
  /\ UNCHANGED <<now, leases, cache, pending, store, kept>>

Break(s) ==
  /\ At(s, "succeeded")
  /\ Answer(s)
  /\ UNCHANGED <<now, hits, leases, cache, pending, store, made, kept>>

Finish(s) ==
  /\ At(s, "succeeded")
  /\ Record("A", now)
  /\ Answer(s)
  /\ UNCHANGED <<now, leases, cache, pending, store, kept>>

-----------------------------------------------------------------------------
(* Administration and time *)

\* The settings are written, or the user's own limits, ...
SetLimits(v) ==
  /\ ~pending
  /\ global' = v
  /\ pending' = TRUE
  /\ UNCHANGED <<now, slot, hits, leases, cache, override, banned, made, kept>>

SetUserRPMLimits(v) ==
  /\ ~pending
  /\ override' = v
  /\ pending' = TRUE
  /\ UNCHANGED <<now, slot, hits, leases, cache, global, banned, made, kept>>

\* ... and the cache is cleared afterwards.
InvalidateCache ==
  /\ pending
  /\ pending' = FALSE
  /\ cache' = NoLimits
  /\ UNCHANGED <<now, slot, hits, leases, store, made, kept>>

\* Also a ban that runs out.
SetBan(b) ==
  /\ banned # b
  /\ banned' = b
  /\ UNCHANGED <<now, slot, hits, leases, cache, pending, global, override,
                 made, kept>>

\* A second passes.
Tick ==
  /\ now < MaxTime
  /\ now' = now + 1
  /\ UNCHANGED <<slot, hits, leases, cache, pending, store, made, kept>>

Gate(s) ==
  \/ RefuseBody(s) \/ LookUpKey(s) \/ ReadCache(s) \/ ReadUser(s) \/ FillCache(s)
  \/ Pass(s) \/ RecordReceived(s)
  \/ \E c \in Classes : ReadSetting(s, c)
  \/ \E ban \in BOOLEAN : Refuse(s, ban) \/ FailAntiAbuse(s, ban)

Pool(s) ==
  \/ RefuseCharity(s) \/ Overloaded(s) \/ Unavailable(s) \/ FailSetup(s) \/ Dispatch(s)
  \/ \E d \in Donations : Acquire(s, d)

Call(s) ==
  RefuseOwn(s) \/ Forward(s) \/ FailUpstream(s) \/ Succeed(s) \/ Break(s) \/ Finish(s)

Handle(s) == Gate(s) \/ Pool(s) \/ Call(s)

Environment ==
  \/ \E s \in Slots, charity \in BOOLEAN : Arrive(s, charity)
  \/ \E v \in LimitValues : SetLimits(v)
  \/ \E v \in Overrides : SetUserRPMLimits(v)
  \/ InvalidateCache \/ Tick
  \/ \E b \in BOOLEAN : SetBan(b)

Next == Environment \/ \E s \in Slots : Handle(s)

Spec == Init /\ [][Next]_vars

-----------------------------------------------------------------------------
(* Properties *)

\* The hits in the window that ends at t.
InWindow(h, t) == FoldFunctionOnSet(+, 0, h, {u \in Times : t - Window < u /\ u <= t})
Highest == Max(Limits)

\* Checking a window and recording in it are separate critical sections, and
\* a request that has read its body slowly looks at a window whose hits a
\* later request has already pruned.  Yet no window ever holds more hits than
\* the highest limit, the other requests in flight when the limit is reached
\* and the other requests in flight when the window is over.
OverrunBounded ==
  \A c \in Classes, t \in Times :
    InWindow(made[c], t) <= Highest + 2 * (Cardinality(Slots) - 1)

\* The calls that go on to use a donation have taken their leases within its
\* limit in every window, whatever other calls gave theirs back, early, late
\* or after they had left the window.
LeaseHeld == \A d \in Donations, t \in Times : InWindow(kept[d], t) <= DonationLimit[d]
=============================================================================

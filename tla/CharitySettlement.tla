-------------------------- MODULE CharitySettlement --------------------------
(***************************************************************************)
(* Who settles a charity reservation, and when.  Composed with the store   *)
(* of CharityReservation are                                               *)
(*   - one handler per call, which reserves, marks the call dispatched,    *)
(*     uses the donor's Dify app and settles;                              *)
(*   - the settlement worker, which retries what a handler could not       *)
(*     settle (a bounded queue of hints) and scans for rows that went      *)
(*     stale;                                                              *)
(*   - the process: crashes, shutdown, and the recovery before it serves.  *)
(* A settlement reads the row in one statement and applies the outcome in  *)
(* another transaction, so all of them interleave.  A database call may    *)
(* fail, before or after it took effect (at most MaxFaults times); time is *)
(* counted in coarse units.                                                *)
(***************************************************************************)
EXTENDS Integers, Sequences, FiniteSets

CONSTANTS
  Calls, Users, Donations, NoUser, NoTerms, Prices, Rewards, StartCredits,
  Deltas, MaxOutside, MaxTotal,   \* as in CharityReservation
  Worker,            \* the settlement worker's goroutine
  QueueSize,         \* CharitySettlementQueueSize
  RequestTimeout,    \* DifyHTTPTimeoutMs, the longest one upstream request takes
  Grace,             \* CharitySettlementDispatchGraceSec
  ReservedStale,     \* CharitySettlementReservedStaleSec
  MaxRequests,       \* bound on upstream requests of a call: uploads, workflow
  MaxFaults,         \* bound on failing database calls
  MaxExits           \* bound on crashes and shutdowns

ASSUME SettlementAssumption ==
  /\ IsFiniteSet(Calls)
  /\ NoUser \notin Users
  /\ {Prices, Rewards, StartCredits} \subseteq SUBSET Nat
  /\ Deltas \subseteq Int
  /\ {MaxOutside, MaxTotal} \subseteq Nat
  /\ Worker \notin Calls
  /\ QueueSize \in Nat \ {0}
  /\ {RequestTimeout, Grace, ReservedStale} \subseteq Nat \ {0}
  /\ {MaxRequests, MaxFaults, MaxExits} \subseteq Nat

VARIABLES users, credits, contribution, dstatus, remaining, total, success,
          source, overdue, status, terms, gone, checked, outside, over

Store == INSTANCE CharityReservation

VARIABLES
  pc,        \* where each handler and the worker is
  seen,      \* the row status a settlement read and has not applied yet
  requests,  \* upstream requests a call has started
  waited,    \* time its current request has taken
  age,       \* time since updated_at of the row, up to the stale limits
  queue,     \* hints for the worker
  pending,   \* "absent", "queued", or "retry" on the next tick
  subject,   \* the call the worker is settling
  after,     \* where the worker goes on afterwards
  todo,      \* ids the worker's tick has still to retry or to wake
  life,      \* of the process
  listed,    \* in-flight rows the recovery has still to resolve
  faults, exits

rows == <<users, credits, contribution, dstatus, remaining, total, success, source,
          overdue, status, terms, gone, checked, outside, over>>
handlers == <<requests, waited, age>>
hints == <<queue, pending>>
round == <<subject, after, todo>>
process == <<life, listed, exits>>
vars == <<rows, pc, seen, handlers, hints, round, process, faults>>

Actors == Calls \cup {Worker}
Nobody == Worker          \* subject of an idle worker
DispatchedStale == RequestTimeout + Grace
OldestAge == IF ReservedStale > DispatchedStale THEN ReservedStale ELSE DispatchedStale

TypeOK ==
  /\ Store!TypeOK
  /\ pc \in [Actors -> {"idle", "setup", "marked", "calling", "reading", "applying",
                        "waking", "done", "retrying", "scanning", "stopped"}]
  /\ seen \in [Actors -> Store!Held \cup {"none"}]
  /\ requests \in [Calls -> 0..MaxRequests]
  /\ waited \in [Calls -> 0..RequestTimeout]
  /\ age \in [Calls -> 0..OldestAge]
  /\ queue \in Seq(Calls)
  /\ pending \in [Calls -> {"absent", "queued", "retry"}]
  /\ subject \in Actors
  /\ after \in {"idle", "retrying"}
  /\ todo \subseteq Calls
  /\ life \in {"down", "recovering", "up", "stopping"}
  /\ listed \subseteq Calls
  /\ faults \in 0..MaxFaults
  /\ exits \in 0..MaxExits

Init ==
  /\ Store!Init
  /\ pc = [a \in Actors |-> IF a = Worker THEN "stopped" ELSE "idle"]
  /\ seen = [a \in Actors |-> "none"]
  /\ requests = [c \in Calls |-> 0]
  /\ waited = [c \in Calls |-> 0]
  /\ age = [c \in Calls |-> 0]
  /\ queue = <<>>
  /\ pending = [c \in Calls |-> "absent"]
  /\ subject = Nobody
  /\ after = "idle"
  /\ todo = {}
  /\ life = "down"
  /\ listed = {}
  /\ faults = 0
  /\ exits = 0

Serving == life \in {"up", "stopping"}
Goto(a, label) == pc' = [pc EXCEPT ![a] = label]
Fault == faults < MaxFaults /\ faults' = faults + 1

-----------------------------------------------------------------------------
(* The handler of a charity call *)

\* A failing commit may still have inserted the row; the handler, which has no
\* id then, leaves it to the stale scan.
Reserve(c, u, d, p, r) ==
  /\ Serving /\ pc[c] = "idle"
  /\ Store!Reserve(c, u, d, p, r)
  /\ \/ Goto(c, "setup") /\ UNCHANGED faults
     \/ Goto(c, "done") /\ Fault
  /\ age' = [age EXCEPT ![c] = 0]
  /\ UNCHANGED <<seen, requests, waited, hints, round, process>>

\* The credential cannot be decrypted, the origin is blocked, or a template
\* donation lacks its mapping: settle at once.
SetupFails(c) ==
  /\ pc[c] = "setup"
  /\ Goto(c, "reading")
  /\ UNCHANGED <<rows, seen, handlers, hints, round, process, faults>>

\* The upstream is used only after this succeeds.
Dispatch(c) ==
  /\ pc[c] = "setup"
  /\ Store!MarkDispatched(c)
  /\ \/ Goto(c, "marked") /\ UNCHANGED faults
     \/ Goto(c, "reading") /\ Fault
  /\ age' = [age EXCEPT ![c] = 0]
  /\ UNCHANGED <<seen, requests, waited, hints, round, process>>

\* As if the handler went on whether or not the mark was made.
DispatchUnchecked(c) ==
  /\ pc[c] = "setup"
  /\ Goto(c, "marked")
  /\ ~(Store!Live(c) /\ status[c] = "reserved")
  /\ UNCHANGED <<rows, seen, handlers, hints, round, process, faults>>

\* The row was settled meanwhile (by the stale scan), or the update failed.
DispatchFails(c) ==
  /\ pc[c] = "setup"
  /\ Goto(c, "reading")
  /\ \/ ~(Store!Live(c) /\ status[c] = "reserved") /\ UNCHANGED faults
     \/ Fault
  /\ UNCHANGED <<rows, seen, handlers, hints, round, process>>

\* Image uploads, one by one, then the workflow.
StartRequest(c) ==
  /\ pc[c] \in {"marked", "calling"}
  /\ requests[c] < MaxRequests
  /\ Goto(c, "calling")
  /\ requests' = [requests EXCEPT ![c] = @ + 1]
  /\ waited' = [waited EXCEPT ![c] = 0]
  /\ UNCHANGED <<rows, seen, age, hints, round, process, faults>>

\* First event, answer, error, timeout or client gone: settle, whatever it was.
FinishCall(c) ==
  /\ pc[c] \in {"marked", "calling"}
  /\ Goto(c, "reading")
  /\ waited' = [waited EXCEPT ![c] = 0]
  /\ UNCHANGED <<rows, seen, requests, age, hints, round, process, faults>>

-----------------------------------------------------------------------------
(* Hints for the worker *)

Waiting == {c \in Calls : pending[c] # "absent"}

RoomInQueue == Len(queue) < QueueSize
RoomForHint == RoomInQueue /\ Cardinality(Waiting) < QueueSize

\* Remember c unless the worker is cancelled, knows c already, or has no room.
Wake(c) ==
  IF /\ life = "up"
     /\ pending[c] = "absent"
     /\ RoomForHint
  THEN /\ queue' = Append(queue, c)
       /\ pending' = [pending EXCEPT ![c] = "queued"]
  ELSE UNCHANGED hints

HandlerWakes(c) ==
  /\ pc[c] = "waking"
  /\ Wake(c)
  /\ Goto(c, "done")
  /\ UNCHANGED <<rows, seen, handlers, round, process, faults>>

-----------------------------------------------------------------------------
(* One settlement attempt, by a handler for its call or by the worker *)

Target(a) == IF a = Worker THEN subject ELSE a

Leave(a, label) ==
  /\ Goto(a, IF a = Worker THEN after ELSE label)
  /\ seen' = [seen EXCEPT ![a] = "none"]
  /\ subject' = IF a = Worker THEN Nobody ELSE subject
  /\ UNCHANGED <<requests, waited, queue, after, todo, process>>

Succeed(a) ==
  /\ Leave(a, "done")
  /\ pending' = IF a = Worker THEN [pending EXCEPT ![subject] = "absent"] ELSE pending

\* A handler leaves a hint; the worker keeps the id for the next tick.
Fail(a) ==
  /\ Leave(a, "waking")
  /\ UNCHANGED pending

\* The worker's context: once cancelled, its database calls fail.
Cancelled(a) == a = Worker /\ life = "stopping"

\* Nothing is left to do for a settled row, nor for one that is gone.
Read(a) ==
  LET c == Target(a) IN
  /\ pc[a] = "reading" /\ ~Cancelled(a)
  /\ IF Store!Live(c) /\ Store!InFlight(c)
     THEN /\ Goto(a, "applying")
          /\ seen' = [seen EXCEPT ![a] = status[c]]
          /\ UNCHANGED <<requests, waited, hints, round, process>>
     ELSE Succeed(a)
  /\ UNCHANGED <<rows, age, faults>>

Ended == [reserved |-> "released", dispatched |-> "committed"]

\* The transaction decided by the status that was read.
Settle(c, was) ==
  /\ \/ was = "reserved" /\ Store!Release(c)
     \/ was = "dispatched" /\ Store!Commit(c)
  /\ age' = [age EXCEPT ![c] = 0]

Apply(a) ==
  /\ pc[a] = "applying"
  /\ Settle(Target(a), seen[a])
  /\ \/ Succeed(a) /\ UNCHANGED faults
     \/ Fail(a) /\ Fault

\* Somebody else moved the row in between: the same outcome counts as done,
\* any other fails the attempt.
ApplyLate(a) ==
  LET c == Target(a) IN
  /\ pc[a] = "applying"
  /\ \/ /\ Store!Live(c) /\ status[c] = Ended[seen[a]]
        /\ Succeed(a)
     \/ /\ ~Store!Live(c) \/ status[c] \notin {seen[a], Ended[seen[a]]}
             \/ dstatus[terms[c].donation] \notin Store!Existing
        /\ Fail(a)
  /\ UNCHANGED <<rows, age, faults>>

\* A busy database is retried from the read within the attempt; any other
\* error, or the end of the time allowed, fails it.
AttemptFails(a) ==
  /\ pc[a] \in {"reading", "applying"}
  /\ \/ /\ Fault
        /\ Goto(a, "reading")
        /\ seen' = [seen EXCEPT ![a] = "none"]
        /\ UNCHANGED <<requests, waited, hints, round, process>>
     \/ Fault /\ Fail(a)
     \/ Cancelled(a) /\ Fail(a) /\ UNCHANGED faults
  /\ UNCHANGED <<rows, age>>

-----------------------------------------------------------------------------
(* The worker's loop *)

Dequeue ==
  /\ pc[Worker] = "idle" /\ queue # <<>>
  /\ queue' = Tail(queue)
  /\ IF pending[Head(queue)] = "queued"
     THEN /\ pending' = [pending EXCEPT ![Head(queue)] = "retry"]
          /\ subject' = Head(queue)
          /\ Goto(Worker, "reading")
     ELSE UNCHANGED <<pending, subject, pc>>
  /\ after' = "idle"
  /\ UNCHANGED <<rows, seen, handlers, todo, process, faults>>

Tick ==
  /\ pc[Worker] = "idle" /\ Serving
  /\ todo' = {c \in Calls : pending[c] = "retry"}
  /\ after' = "retrying"
  /\ Goto(Worker, "retrying")
  /\ UNCHANGED <<rows, seen, handlers, hints, subject, process, faults>>

RetryNext ==
  /\ pc[Worker] = "retrying"
  /\ \/ \E c \in todo :
          /\ life = "up"
          /\ subject' = c
          /\ todo' = todo \ {c}
          /\ Goto(Worker, "reading")
          /\ UNCHANGED after
     \/ /\ todo = {} \/ life # "up"
        /\ todo' = {}
        /\ after' = "idle"
        /\ Goto(Worker, "scanning")
        /\ UNCHANGED subject
  /\ UNCHANGED <<rows, seen, handlers, hints, process, faults>>

StaleReserved == {c \in Calls : Store!Live(c) /\ status[c] = "reserved" /\ age[c] >= ReservedStale}
Stale == {c \in Calls : Store!Live(c) /\
            \/ status[c] = "reserved" /\ age[c] >= ReservedStale
            \/ status[c] = "dispatched" /\ age[c] >= DispatchedStale}

\* The oldest rows first, at most QueueSize; which ones is left open.
Scan ==
  /\ pc[Worker] = "scanning" /\ life = "up"
  /\ \E ids \in SUBSET Stale :
       /\ Cardinality(ids) = IF Cardinality(Stale) < QueueSize THEN Cardinality(Stale)
                             ELSE QueueSize
       /\ todo' = ids
  /\ Goto(Worker, "waking")
  /\ UNCHANGED <<rows, seen, handlers, hints, subject, after, process, faults>>

ScanFails ==
  /\ pc[Worker] = "scanning"
  /\ Fault \/ (life = "stopping" /\ UNCHANGED faults)
  /\ Goto(Worker, "idle")
  /\ UNCHANGED <<rows, seen, handlers, hints, round, process>>

WakeNext ==
  /\ pc[Worker] = "waking"
  /\ \/ \E c \in todo : Wake(c) /\ todo' = todo \ {c} /\ UNCHANGED pc
     \/ todo = {} /\ Goto(Worker, "idle") /\ UNCHANGED <<hints, todo>>
  /\ UNCHANGED <<rows, seen, handlers, subject, after, process, faults>>

WorkerStops ==
  /\ pc[Worker] = "idle" /\ life = "stopping"
  /\ Goto(Worker, "stopped")
  /\ UNCHANGED <<rows, seen, handlers, hints, round, process, faults>>

-----------------------------------------------------------------------------
(* The process *)

Patient(c) == TRUE
Timely(c) == pc[c] = "calling" => waited[c] < RequestTimeout

\* A unit of time passes.  No request outlives its timeout, and nothing slow
\* happens between the dispatch mark and the first request.
Time ==
  /\ life = "up"
  /\ \A c \in Calls : pc[c] # "marked" /\ Timely(c)
  /\ age' = [c \in Calls |-> IF Store!InFlight(c) /\ age[c] < OldestAge THEN age[c] + 1
                             ELSE age[c]]
  /\ waited' = [c \in Calls |-> IF pc[c] = "calling" THEN waited[c] + 1 ELSE waited[c]]
  /\ age' # age \/ waited' # waited
  /\ UNCHANGED <<rows, pc, seen, requests, hints, round, process, faults>>

\* The listener is closed, running handlers were waited for up to the
\* deadline, and the worker is cancelled.
Shutdown ==
  /\ life = "up" /\ exits < MaxExits
  /\ life' = "stopping"
  /\ UNCHANGED <<rows, pc, seen, handlers, hints, round, listed, exits, faults>>

\* The process ends, by a crash anywhere or at the end of a shutdown: all that
\* is not in the database is lost.
Exit ==
  /\ life # "down" /\ exits < MaxExits
  /\ exits' = exits + 1
  /\ life' = "down"
  /\ pc' = [a \in Actors |-> IF a = Worker THEN "stopped"
                             ELSE IF pc[a] = "idle" THEN "idle" ELSE "done"]
  /\ seen' = [a \in Actors |-> "none"]
  /\ queue' = <<>>
  /\ pending' = [c \in Calls |-> "absent"]
  /\ subject' = Nobody
  /\ after' = "idle"
  /\ todo' = {}
  /\ listed' = {}
  /\ waited' = [c \in Calls |-> 0]
  /\ UNCHANGED <<rows, requests, age, faults>>

InterruptedReserved == {c \in Calls : Store!Live(c) /\ status[c] = "reserved"}
Interrupted == {c \in Calls : Store!Live(c) /\ Store!InFlight(c)}

\* The database is opened and the rows of the interrupted process are listed.
Start ==
  /\ life = "down"
  /\ life' = "recovering"
  /\ listed' = Interrupted
  /\ UNCHANGED <<rows, pc, seen, handlers, hints, round, exits, faults>>

RecoverNext(c) ==
  /\ life = "recovering" /\ c \in listed
  /\ Settle(c, status[c])
  /\ listed' = listed \ {c}
  /\ UNCHANGED <<pc, seen, requests, waited, hints, round, life, exits, faults>>

\* log.Fatalf: any error ends the process before it serves.
RecoveryFails ==
  /\ life = "recovering" /\ Fault
  /\ \/ UNCHANGED <<rows, age>>
     \/ \E c \in listed : Settle(c, status[c])
  /\ life' = "down"
  /\ listed' = {}
  /\ UNCHANGED <<pc, seen, requests, waited, hints, round, exits>>

Serve ==
  /\ life = "recovering" /\ listed = {}
  /\ life' = "up"
  /\ Goto(Worker, "idle")
  /\ UNCHANGED <<rows, seen, handlers, hints, round, listed, exits, faults>>

\* Users and admins go on meanwhile.
Administer ==
  /\ Serving
  /\ Store!Administration
  /\ UNCHANGED <<pc, seen, handlers, hints, round, process, faults>>

-----------------------------------------------------------------------------
Attempt(a) == Read(a) \/ Apply(a) \/ ApplyLate(a)

Handler(c) ==
  \/ SetupFails(c) \/ Dispatch(c) \/ DispatchFails(c)
  \/ StartRequest(c) \/ FinishCall(c)
  \/ Attempt(c)
  \/ HandlerWakes(c)

WorkerStep == RetryNext \/ Scan \/ ScanFails \/ WakeNext \/ WorkerStops \/ Attempt(Worker)

Next ==
  \/ \E c \in Calls, u \in Users, d \in Donations, p \in Prices, r \in Rewards :
       Reserve(c, u, d, p, r)
  \/ \E c \in Calls : Handler(c)
  \/ \E a \in Actors : AttemptFails(a)
  \/ Dequeue
  \/ Tick
  \/ WorkerStep
  \/ Time
  \/ Shutdown
  \/ Exit
  \/ Start
  \/ \E c \in Calls : RecoverNext(c)
  \/ RecoveryFails
  \/ Serve
  \/ Administer

Spec == Init /\ [][Next]_vars

(***************************************************************************)
(* Goroutines are scheduled, an upstream request ends (the HTTP timeout),  *)
(* and the worker's select, which picks at random among what is ready,     *)
(* starves neither the queue nor the ticker.  Nothing is assumed about     *)
(* restarts, administration or faults.                                     *)
(***************************************************************************)
Fairness ==
  /\ \A c \in Calls : WF_vars(Handler(c))
  /\ WF_vars(WorkerStep)
  /\ SF_vars(Dequeue)
  /\ SF_vars(Tick)
  /\ WF_vars(Time)

FairSpec == Spec /\ Fairness

-----------------------------------------------------------------------------
(* Properties *)

(***************************************************************************)
(* A call that used the donor's app is never refunded: however the         *)
(* handler, the worker, crashes and lost answers interleave, the row of a  *)
(* call with an upstream request is dispatched or committed.               *)
(***************************************************************************)
NoFreeCall ==
  \A c \in Calls : requests[c] > 0 => status[c] \in {"dispatched", "committed"}

(***************************************************************************)
(* The queue and the pending map agree: the queue holds each queued id     *)
(* once and nothing else, and together they stay within the bound, so the  *)
(* send in wake never finds a full queue it did not expect.                *)
(***************************************************************************)
HintsConsistent ==
  /\ Cardinality(Waiting) <= QueueSize
  /\ {queue[i] : i \in 1..Len(queue)} = {c \in Calls : pending[c] = "queued"}
  /\ \A i, j \in 1..Len(queue) : queue[i] = queue[j] => i = j

(***************************************************************************)
(* The service starts to serve only when no call of an earlier process is  *)
(* in flight any more.                                                     *)
(***************************************************************************)
RecoveredFirst ==
  [][life = "recovering" /\ life' = "up" => \A c \in Calls : ~Store!InFlight(c)]_vars

(***************************************************************************)
(* A call does not stay in flight for ever: once the process stays up,     *)
(* every reservation is settled, also when its handler died with a crash,  *)
(* never learnt its id, failed to settle, or found the queue full.         *)
(***************************************************************************)
EventuallySettled ==
  <>[](life = "up") => \A c \in Calls : Store!InFlight(c) ~> ~Store!InFlight(c)

(***************************************************************************)
(* "Active requests remain untouched" (db/charity_reservations.go:160): a  *)
(* dispatched call whose handler is still in its upstream request is not   *)
(* settled by anybody else.                                                *)
(***************************************************************************)
ActiveCallsUntouched ==
  [][\A c \in Calls : pc[c] = "calling" /\ status[c] = "dispatched" =>
       status'[c] = "dispatched"]_vars
=============================================================================

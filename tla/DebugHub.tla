------------------------------ MODULE DebugHub ------------------------------
(***************************************************************************)
(* The debug sessions of one user: a session with a bounded queue of       *)
(* events, requests that push events into it, streams that read them, and  *)
(* four timers that end it.                                                *)
(*                                                                         *)
(* A critical section of the hub that also takes the session's lock is one *)
(* action, enabled when no push holds that lock.  A push holds only the    *)
(* session's lock while streams, which hold none, take events out of the   *)
(* queue, so it is a sequence of steps.  A timer that has fired is a       *)
(* goroutine waiting for the hub: stopping the timer no longer stops it.   *)
(*                                                                         *)
(* Time is abstracted: a running timer may fire at any moment.             *)
(***************************************************************************)
EXTENDS Naturals, Sequences, FiniteSets

CONSTANTS
  MaxSessions,  \* sessions started
  Workers,      \* requests handled at the same time
  MaxPushes,    \* requests handled in all
  Streams,      \* stream requests
  Buffer,       \* debugChanBuf
  ByteCap,      \* debugChanByteCap
  MaxFired,     \* fired timers that wait for the hub at the same time
  SizeOf        \* worker -> the size of its events

ASSUME DebugHubAssumption ==
  /\ MaxSessions \in Nat /\ MaxPushes \in Nat /\ IsFiniteSet(Streams)
  /\ Buffer \in Nat \ {0} /\ ByteCap \in Nat /\ MaxFired \in Nat
  /\ SizeOf \in [Workers -> Nat \ {0}]

VARIABLES
  started,   \* sessions started so far
  current,   \* the hub's session, 0 if there is none
  sess,      \* session -> its fields
  timers,    \* session -> its running timers
  fired,     \* timers that have fired and wait for the hub
  stream,    \* stream request -> where it is, its session, its epoch
  call,      \* worker -> where it is, the session it holds, its event
  pushes,    \* requests so far
  activity,  \* history: session -> pushes and attachments
  owed       \* history: session -> an event was evicted, no notice read since

hub == <<started, current>>
vars == <<hub, sess, timers, fired, stream, call, pushes, activity, owed>>

Sessions == 1..MaxSessions
Dropped == [kind |-> "dropped", size |-> 0]
Terminal == [kind |-> "terminal", size |-> 0]
Request(n) == [kind |-> "request", size |-> n]
Items == {Dropped, Terminal} \cup {Request(SizeOf[w]) : w \in Workers}

\* The captured epoch, generation and (history) activity of a timer.
Timers == [reason : {"no_attach", "idle", "expired", "grace"},
           epoch : Nat, gen : Nat, activity : Nat]
Timer(r, e, g, a) == [reason |-> r, epoch |-> e, gen |-> g, activity |-> a]

Ready == [pc |-> "ready", session |-> 0, dropped |-> FALSE]
Holding == {"evict", "receive", "send", "full", "notice", "crowded"}
Free(s) == \A w \in Workers : call[w].session = s => call[w].pc \notin Holding

TypeOK ==
  /\ started \in 0..MaxSessions /\ current \in 0..started
  /\ sess \in [Sessions ->
       [active : BOOLEAN, epoch : 0..Cardinality(Streams), gen : Nat,
        bytes : Nat, queue : {q \in Seq(Items) : Len(q) <= Buffer}]]
  /\ \A s \in Sessions :
       /\ timers[s] \subseteq Timers
       /\ sess[s].active => current = s
       /\ ~sess[s].active => timers[s] = {}
       /\ \A t1, t2 \in timers[s] : t1.reason = t2.reason => t1 = t2
  /\ \A c \in fired : c.session \in 1..started /\ c.timer \in Timers
  /\ stream \in [Streams -> [pc : {"new", "reading", "ended"},
                             session : 0..MaxSessions, epoch : Nat]]
  /\ call \in [Workers -> [pc : {"ready", "found"} \cup Holding,
                           session : 0..MaxSessions, dropped : BOOLEAN]]
  /\ \A w \in Workers : call[w].pc \in Holding => sess[call[w].session].active
  /\ \A v, w \in Workers : v # w /\ {call[v].pc, call[w].pc} \subseteq Holding =>
       call[v].session # call[w].session
  /\ pushes \in 0..MaxPushes
  /\ activity \in [Sessions -> Nat] /\ owed \in [Sessions -> BOOLEAN]

Init ==
  /\ started = 0 /\ current = 0
  /\ sess = [s \in Sessions |-> [active |-> FALSE, epoch |-> 0,
                                 gen |-> 0, bytes |-> 0, queue |-> <<>>]]
  /\ timers = [s \in Sessions |-> {}] /\ fired = {}
  /\ stream = [h \in Streams |-> [pc |-> "new", session |-> 0, epoch |-> 0]]
  /\ call = [w \in Workers |-> Ready] /\ pushes = 0
  /\ activity = [s \in Sessions |-> 0] /\ owed = [s \in Sessions |-> FALSE]

-----------------------------------------------------------------------------
(* Starting and ending sessions *)

Offer(q, e) == IF Len(q) < Buffer THEN Append(q, e) ELSE q

\* Session s of a state f, ended; its stream reads what is queued, then the end.
Ended(f, s, last) ==
  [f EXCEPT ![s].active = FALSE,
            ![s].queue = IF last THEN Offer(@, Terminal) ELSE @]

\* The timers of a session are stopped when it ends.
StoppedAllButGrace(s) ==
  [timers EXCEPT ![s] = {t \in @ : t.reason = "grace"}]
Stopped(s) == [timers EXCEPT ![s] = {}]

StartTimers ==
  {Timer("no_attach", 0, 0, 0), Timer("idle", 0, 1, 0), Timer("expired", 0, 0, 0)}

\* A new session replaces the current one, which is told so.
Start ==
  LET s == started + 1
      old == current
  IN /\ started < MaxSessions
     /\ old # 0 => Free(old)
     /\ started' = s /\ current' = s
     /\ sess' = [IF old # 0 THEN Ended(sess, old, TRUE) ELSE sess
                 EXCEPT ![s].active = TRUE, ![s].gen = 1]
     /\ timers' = [IF old # 0 THEN Stopped(old) ELSE timers EXCEPT ![s] = StartTimers]
     /\ UNCHANGED <<fired, stream, call, pushes, activity, owed>>

End(s, last) ==
  /\ current' = 0 /\ sess' = Ended(sess, s, last) /\ timers' = Stopped(s)
  /\ UNCHANGED started

Stop ==
  /\ current # 0 /\ Free(current)
  /\ End(current, FALSE)
  /\ UNCHANGED <<fired, stream, call, pushes, activity, owed>>

\* The process ends: every session of the hub is closed the same way.
Shutdown ==
  /\ current # 0 /\ Free(current)
  /\ End(current, FALSE)
  /\ UNCHANGED <<fired, stream, call, pushes, activity, owed>>

-----------------------------------------------------------------------------
(* Timers *)

Without(ts, r) == {t \in ts : t.reason \notin r}

Fire(s, t) ==
  /\ t \in timers[s] /\ Cardinality(fired) < MaxFired
  /\ timers' = [timers EXCEPT ![s] = @ \ {t}]
  /\ fired' = fired \cup {[session |-> s, timer |-> t]}
  /\ UNCHANGED <<hub, sess, stream, call, pushes, activity, owed>>

UpToDateEpoch(c) == c.timer.reason # "expired" => c.timer.epoch = sess[c.session].epoch

\* What a fired timer checks before it ends its session; epoch and generation
\* tell whether a stream or an event came after it was started.
UpToDate(c) ==
  LET s == c.session
      t == c.timer
  IN /\ t.reason \in {"no_attach", "idle", "grace"} => t.epoch = sess[s].epoch
     /\ t.reason = "idle" => t.gen = sess[s].gen

CloseOnTimeout(c) ==
  LET closing == current = c.session /\ sess[c.session].active /\ UpToDate(c) IN
  /\ c \in fired /\ fired' = fired \ {c}
  /\ current = c.session => Free(c.session)
  /\ IF closing THEN End(c.session, c.timer.reason # "grace")
                ELSE UNCHANGED <<hub, sess, timers>>
  /\ UNCHANGED <<stream, call, pushes, activity, owed>>

\* The idle timer of session s, started again.
IdleTimer(s, epoch) == Timer("idle", epoch, sess[s].gen + 1, activity[s] + 1)

-----------------------------------------------------------------------------
(* Streams *)

\* A stream stops the timers that wait for one; the hard limit stays.
AttachedAnew(s, epoch) == {IdleTimer(s, epoch)}
Attached(s, epoch) ==
  Without(timers[s], {"no_attach", "grace", "idle"}) \cup {IdleTimer(s, epoch)}

Attach(h) ==
  LET s == current
      epoch == sess[s].epoch + 1
  IN /\ stream[h].pc = "new" /\ s # 0 /\ Free(s)
     /\ stream' = [stream EXCEPT ![h] = [pc |-> "reading", session |-> s, epoch |-> epoch]]
     /\ sess' = [sess EXCEPT ![s].epoch = epoch, ![s].gen = @ + 1]
     /\ timers' = [timers EXCEPT ![s] = Attached(s, epoch)]
     /\ activity' = [activity EXCEPT ![s] = @ + 1]
     /\ UNCHANGED <<hub, fired, call, pushes, owed>>

\* The reader takes an event; it holds no lock.
Read(h) ==
  LET s == stream[h].session IN
  /\ stream[h].pc = "reading" /\ sess[s].queue # <<>>
  /\ sess' = [sess EXCEPT ![s].queue = Tail(@)]
  /\ owed' = [owed EXCEPT ![s] = @ /\ Head(sess[s].queue) # Dropped]
  /\ UNCHANGED <<hub, timers, fired, stream, call, pushes, activity>>

ReadEnd(h) ==
  LET s == stream[h].session IN
  /\ stream[h].pc = "reading" /\ sess[s].queue = <<>> /\ ~sess[s].active
  /\ stream' = [stream EXCEPT ![h].pc = "ended", ![h].epoch = 0]
  /\ UNCHANGED <<hub, sess, timers, fired, call, pushes, activity, owed>>

\* The client goes away: the session is kept for a while, unless a newer
\* stream is attached or the session is no longer the hub's.
Disconnect(h) ==
  LET s == stream[h].session
      e == stream[h].epoch
  IN /\ stream[h].pc = "reading"
     /\ current = s => Free(s)
     /\ stream' = [stream EXCEPT ![h].pc = "ended", ![h].epoch = 0]
     /\ timers' = IF current = s /\ sess[s].active /\ sess[s].epoch = e
                  THEN [timers EXCEPT ![s] = Without(@, {"grace"})
                                               \cup {Timer("grace", e, 0, 0)}]
                  ELSE timers
     /\ UNCHANGED <<hub, sess, fired, call, pushes, activity, owed>>

-----------------------------------------------------------------------------
(* Requests *)

At(w, pc) == call' = [call EXCEPT ![w].pc = pc]
Leave(w) == call' = [call EXCEPT ![w] = Ready]

\* An event for a user who has a session is pushed when its request is answered,
\* at once in a dry run.  The session is looked up under the lock of the hub,
\* which is given back ...
Find(w) ==
  /\ call[w].pc = "ready" /\ pushes < MaxPushes /\ current # 0
  /\ call' = [call EXCEPT ![w].pc = "found", ![w].session = current]
  /\ pushes' = pushes + 1
  /\ UNCHANGED <<hub, sess, timers, fired, stream, activity, owed>>

\* ... before its own is taken.
Abandon(w) ==
  LET s == call[w].session IN
  /\ call[w].pc = "found" /\ Free(s) /\ ~sess[s].active
  /\ Leave(w)
  /\ UNCHANGED <<hub, sess, timers, fired, stream, pushes, activity, owed>>

Lock(w) ==
  LET s == call[w].session IN
  /\ call[w].pc = "found" /\ Free(s) /\ sess[s].active
  /\ At(w, "evict")
  /\ sess' = [sess EXCEPT ![s].gen = @ + 1,
                          ![s].bytes = IF sess[s].queue = <<>> THEN 0 ELSE @]
  /\ timers' = [timers EXCEPT ![s] = Without(@, {"idle"})
                                       \cup {IdleTimer(s, sess[s].epoch)}]
  /\ activity' = [activity EXCEPT ![s] = @ + 1]
  /\ UNCHANGED <<hub, fired, stream, pushes, owed>>

OverCap(s, n) == sess[s].bytes + n + Dropped.size > ByteCap

\* The test of the eviction loop; the bytes of what streams have read still count.
TestCap(w) ==
  LET s == call[w].session IN
  /\ call[w].pc = "evict"
  /\ At(w, IF OverCap(s, SizeOf[w]) /\ sess[s].queue # <<>> THEN "receive" ELSE "send")
  /\ UNCHANGED <<hub, sess, timers, fired, stream, pushes, activity, owed>>

\* What session s is after its oldest event is taken out of the queue, if any.
Evicted(s) ==
  IF s.queue = <<>> THEN s
  ELSE [s EXCEPT !.queue = Tail(@), !.bytes = @ - Head(s.queue).size]

Sent(s, e) ==
  IF Len(s.queue) < Buffer
  THEN [s EXCEPT !.queue = Append(@, e), !.bytes = @ + e.size]
  ELSE s

Owes(s, evicts) == owed' = [owed EXCEPT ![s] = @ \/ evicts]

\* A receive that waits for an event.
ReceiveSilently(w) ==
  LET s == call[w].session IN
  /\ call[w].pc = "receive" /\ sess[s].queue # <<>>
  /\ sess' = [sess EXCEPT ![s] = Evicted(@)]
  /\ At(w, "evict")
  /\ Owes(s, TRUE)
  /\ UNCHANGED <<hub, timers, fired, stream, pushes, activity>>

Receive(w) ==
  LET s == call[w].session IN
  /\ call[w].pc = "receive" /\ sess[s].queue # <<>>
  /\ sess' = [sess EXCEPT ![s] = Evicted(@)]
  /\ call' = [call EXCEPT ![w].pc = "evict", ![w].dropped = TRUE]
  /\ Owes(s, TRUE)
  /\ UNCHANGED <<hub, timers, fired, stream, pushes, activity>>

\* What follows the event: a notice if events were lost, or the end of the push.
Continue(w, lost) ==
  call' = [call EXCEPT ![w] = IF lost THEN [@ EXCEPT !.pc = "notice", !.dropped = TRUE]
                                      ELSE Ready]

Send(w) ==
  LET s == call[w].session
      room == Len(sess[s].queue) < Buffer
  IN /\ call[w].pc = "send"
     /\ sess' = [sess EXCEPT ![s] = Sent(@, Request(SizeOf[w]))]
     /\ IF room THEN Continue(w, call[w].dropped) ELSE At(w, "full")
     /\ UNCHANGED <<hub, timers, fired, stream, pushes, activity, owed>>

SendAgain(w) ==
  LET s == call[w].session
      evicts == sess[s].queue # <<>>
  IN /\ call[w].pc = "full"
     /\ sess' = [sess EXCEPT ![s] = Sent(Evicted(@), Request(SizeOf[w]))]
     /\ Continue(w, call[w].dropped \/ evicts)
     /\ Owes(s, evicts)
     /\ UNCHANGED <<hub, timers, fired, stream, pushes, activity>>

Notify(w) ==
  LET s == call[w].session
      room == Len(sess[s].queue) < Buffer
  IN /\ call[w].pc = "notice"
     /\ sess' = [sess EXCEPT ![s] = Sent(@, Dropped)]
     /\ IF room THEN Leave(w) ELSE At(w, "crowded")
     /\ UNCHANGED <<hub, timers, fired, stream, pushes, activity, owed>>

NotifyAgain(w) ==
  LET s == call[w].session IN
  /\ call[w].pc = "crowded"
  /\ sess' = [sess EXCEPT ![s] = Sent(Evicted(@), Dropped)]
  /\ Leave(w)
  /\ Owes(s, sess[s].queue # <<>>)
  /\ UNCHANGED <<hub, timers, fired, stream, pushes, activity>>

Push(w) ==
  \/ Abandon(w) \/ Lock(w) \/ TestCap(w) \/ Receive(w)
  \/ Send(w) \/ SendAgain(w) \/ Notify(w) \/ NotifyAgain(w)

-----------------------------------------------------------------------------
Next ==
  \/ Start \/ Stop \/ Shutdown
  \/ \E s \in Sessions : \E t \in timers[s] : Fire(s, t)
  \/ \E c \in fired : CloseOnTimeout(c)
  \/ \E h \in Streams : Attach(h) \/ Read(h) \/ ReadEnd(h) \/ Disconnect(h)
  \/ \E w \in Workers : Find(w) \/ Push(w)

Spec == Init /\ [][Next]_vars

\* Goroutines of the process that can run do, and a timer that is not stopped fires.
\* Nothing is assumed of clients: they may never ask for anything or disconnect,
\* and one that does not take what its stream writes keeps the stream's handler from
\* its next receive, since a write has no deadline.
Expire(s) == \E t \in timers[s] : t.reason = "expired" /\ Fire(s, t)
FairSpec ==
  /\ Spec
  /\ \A s \in Sessions : WF_vars(Expire(s))
  /\ WF_vars(\E c \in fired : CloseOnTimeout(c))
  /\ \A w \in Workers : WF_vars(Push(w))

-----------------------------------------------------------------------------
(* Properties *)

\* A push waits for an event nobody will send.
Stuck == \E w \in Workers :
  call[w].pc = "receive" /\ sess[call[w].session].queue = <<>>

\* A timer that fired late, while the lock was held by whoever made it obsolete,
\* ends nothing: the no-attach timer only a session no stream was ever attached
\* to, the idle timer only one without a push or an attachment since it was
\* started, the grace timer only one whose newest stream has gone, and each only
\* the session it was started for.
JustEnd(c) ==
  LET s == c.session IN
  /\ current = s
  /\ c.timer.reason = "no_attach" => \A h \in Streams : stream[h].session # s
  /\ c.timer.reason = "idle" => c.timer.activity = activity[s]
  /\ c.timer.reason = "grace" =>
       \A h \in Streams : stream[h].session = s /\ stream[h].pc = "reading" =>
         stream[h].epoch < sess[s].epoch

TimersCurrent ==
  [][\A c \in fired : fired' = fired \ {c} /\ sess' # sess => JustEnd(c)]_vars

\* No gap in what the reader sees goes unannounced: after an event was evicted,
\* by the cap on bytes, for a new event or for a notice, a notice is in the
\* queue or a push that has not finished will add one.
GapsAnnounced == \A s \in Sessions :
  owed[s] => \/ \E i \in DOMAIN sess[s].queue : sess[s].queue[i] = Dropped
             \/ \E w \in Workers : call[w].session = s /\ call[w].dropped

\* A session does not outlive its hard limit, whatever clients do: not if they attach
\* again and again, and not if the stream that is attached takes nothing any more,
\* as long as no push is stuck in the hub.
SessionsEnd == \A s \in Sessions : sess[s].active ~> (Stuck \/ ~sess[s].active)

\* A push does not block the request whose event it delivers.
PushReturns == \A w \in Workers : call[w].pc = "evict" ~> call[w].pc = "ready"
=============================================================================

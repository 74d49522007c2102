---------------------------- MODULE DebugHubProofs ----------------------------
(***************************************************************************)
(* Proofs about DebugHub, for any number of sessions, requests, streams    *)
(* and timers, any capacity of the queue and any sizes of events.          *)
(***************************************************************************)
EXTENDS DebugHub, FiniteSetTheorems, SequenceTheorems, TLAPS


-----------------------------------------------------------------------------
(* The inductive invariant *)

\* The queue of a session.
Queue == {q \in Seq(Items) : Len(q) <= Buffer}

\* The bytes of a session cover the events in its queue: what is left of them
\* after the first i events of the queue is p[i].
Covers(p, q, bytes) ==
  /\ p \in [0..Len(q) -> Nat] /\ p[0] <= bytes
  /\ \A i \in 1..Len(q) : p[i - 1] = p[i] + q[i].size

\* A session whose bytes cover its queue.
Session ==
  {r \in [active : BOOLEAN, epoch : Nat, gen : Nat, bytes : Nat, queue : Queue] :
     \E p : Covers(p, r.queue, r.bytes)}

\* The streams of a session.
StreamsOf(s) == {h \in Streams : stream[h].session = s}

\* The session of the hub is the one that is active.
Hub ==
  /\ started \in 0..MaxSessions /\ current \in 0..started
  /\ sess \in [Sessions -> Session]
  /\ \A s \in Sessions : sess[s].active <=> current = s

\* An active session has at most one timer of each kind.
TimerTypes ==
  /\ timers \in [Sessions -> SUBSET Timers]
  /\ \A s \in Sessions :
       /\ ~sess[s].active => timers[s] = {}
       /\ \A t1, t2 \in timers[s] : t1.reason = t2.reason => t1 = t2
  /\ \A c \in fired : c.session \in 1..started /\ c.timer \in Timers

\* A push that holds a session holds one that is active, and holds it alone; one
\* that has not got it has evicted nothing.
Calls ==
  /\ call \in [Workers -> [pc : {"ready", "found"} \cup Holding,
                           session : 0..MaxSessions, dropped : BOOLEAN]]
  /\ \A w \in Workers : call[w].pc \in Holding => sess[call[w].session].active
  /\ \A v, w \in Workers : v # w /\ {call[v].pc, call[w].pc} \subseteq Holding =>
       call[v].session # call[w].session
  /\ \A w \in Workers : call[w].pc \in {"ready", "found"} => ~call[w].dropped
  /\ \A w \in Workers : call[w].pc # "ready" => call[w].session \in 1..started

\* The epoch of a session is the number of streams that were attached to it; each
\* has an epoch of its own while it reads.
Epochs ==
  /\ stream \in [Streams -> [pc : {"new", "reading", "ended"},
                             session : 0..MaxSessions, epoch : Nat]]
  /\ \A h \in Streams : stream[h].pc = "new" => stream[h].session = 0
  /\ \A s \in Sessions : sess[s].epoch = Cardinality(StreamsOf(s))
  /\ \A h \in Streams :
       stream[h].pc = "reading" =>
         /\ stream[h].session \in 1..started
         /\ stream[h].epoch <= sess[stream[h].session].epoch
         /\ \A k \in Streams \ {h} :
              stream[k].pc = "reading" /\ stream[k].session = stream[h].session
                => stream[k].epoch # stream[h].epoch

\* The generation of a session counts its pushes and attachments; one that was
\* not started has none, and no streams.
Generations ==
  /\ activity \in [Sessions -> Nat]
  /\ \A s \in Sessions : s <= started => sess[s].gen = activity[s] + 1
  /\ \A s \in Sessions : s > started => StreamsOf(s) = {} /\ activity[s] = 0

\* A timer of session s, running or fired: the no-attach timer is of the first
\* epoch, the idle timer knows what it counts, and the grace timer belongs to
\* a stream that has gone.
Sound(s, t) ==
  /\ t.reason = "no_attach" => t.epoch = 0
  /\ t.reason = "idle" => t.gen = t.activity + 1
  /\ t.reason = "grace" =>
       /\ t.epoch <= sess[s].epoch
       /\ \A h \in Streams :
            stream[h].pc = "reading" /\ stream[h].session = s => stream[h].epoch # t.epoch
\* The timers, running and fired.
TimersSound ==
  /\ \A s \in Sessions : \A t \in timers[s] : Sound(s, t)
  /\ \A c \in fired : Sound(c.session, c.timer)

\* The other counters.
Counters == pushes \in 0..MaxPushes /\ owed \in [Sessions -> BOOLEAN]

\* All of it.
IInv ==
  /\ Hub /\ TimerTypes /\ Calls /\ Epochs /\ Generations /\ TimersSound /\ Counters

-----------------------------------------------------------------------------
(* Queues *)

\* The size of an event is a number.
LEMMA ItemSize == \A e \in Items : e.size \in Nat
BY DebugHubAssumption DEF Items, Dropped, Terminal, Request, DebugHubAssumption

\* A queue without its oldest event.
LEMMA QueueTail ==
  ASSUME NEW q \in Queue, q # <<>>
  PROVE  /\ Tail(q) \in Queue /\ Head(q) \in Items /\ Head(q) = q[1]
         /\ Len(q) \in Nat /\ Len(q) >= 1 /\ Len(Tail(q)) = Len(q) - 1
         /\ \A i \in 1..(Len(q) - 1) : Tail(q)[i] = q[i + 1]
<1>1. q \in Seq(Items) /\ Len(q) <= Buffer /\ Buffer \in Int
  BY DebugHubAssumption DEF Queue, DebugHubAssumption
<1>2. /\ Head(q) \in Items /\ Tail(q) \in Seq(Items) /\ Len(Tail(q)) = Len(q) - 1
      /\ \A i \in 1..Len(Tail(q)) : Tail(q)[i] = q[i + 1]
  BY <1>1, HeadTailProperties
<1>3. Len(q) \in Nat \ {0}
  BY <1>1, EmptySeq
<1>4. Head(q) = q[1]
  BY <1>1
<1> QED
  BY <1>1, <1>2, <1>3, <1>4 DEF Queue

\* A queue with one event more.
LEMMA QueueAppend ==
  ASSUME NEW q \in Queue, NEW e \in Items, Len(q) < Buffer
  PROVE  /\ Append(q, e) \in Queue /\ Len(q) \in Nat /\ Len(Append(q, e)) = Len(q) + 1
         /\ \A i \in 1..Len(q) : Append(q, e)[i] = q[i]
         /\ Append(q, e)[Len(q) + 1] = e
<1>1. q \in Seq(Items) /\ Len(q) <= Buffer /\ Buffer \in Int
  BY DebugHubAssumption DEF Queue, DebugHubAssumption
<1>2. Len(q) \in Nat
  BY <1>1, LenProperties
<1>3. /\ Append(q, e) \in Seq(Items) /\ Len(Append(q, e)) = Len(q) + 1
      /\ \A i \in 1..Len(q) : Append(q, e)[i] = q[i]
      /\ Append(q, e)[Len(q) + 1] = e
  BY <1>1, AppendProperties
<1> QED
  BY <1>1, <1>2, <1>3 DEF Queue

\* The bytes that cover a queue cover what is left when the oldest event is
\* taken, even if its bytes are.
LEMMA CoverTail ==
  ASSUME NEW q \in Queue, q # <<>>, NEW b \in Nat, NEW p, Covers(p, q, b)
  PROVE  /\ b - Head(q).size \in Nat
         /\ \E f : Covers(f, Tail(q), b - Head(q).size)
         /\ \E f : Covers(f, Tail(q), b)
<1>1. /\ Head(q) \in Items /\ Head(q) = q[1] /\ Len(q) \in Nat /\ Len(q) >= 1
      /\ Len(Tail(q)) = Len(q) - 1 /\ \A i \in 1..(Len(q) - 1) : Tail(q)[i] = q[i + 1]
  BY QueueTail
<1>2. Head(q).size \in Nat
  BY <1>1, ItemSize
<1>3. p \in [0..Len(q) -> Nat] /\ p[0] <= b /\ \A i \in 1..Len(q) : p[i - 1] = p[i] + q[i].size
  BY DEF Covers
<1>4. p[0] = p[1] + Head(q).size /\ p[0] \in Nat /\ p[1] \in Nat
  <2>1. 1 \in 1..Len(q) /\ 0 \in 0..Len(q) /\ 1 \in 0..Len(q)
    BY <1>1
  <2>2. p[1 - 1] = p[1] + q[1].size
    BY <1>3, <2>1
  <2> QED
    BY <1>1, <1>3, <2>1, <2>2
<1> DEFINE f == [i \in 0..(Len(q) - 1) |-> p[i + 1]]
<1>5. f \in [0..Len(Tail(q)) -> Nat]
  <2>1. \A i \in 0..(Len(q) - 1) : p[i + 1] \in Nat
    BY <1>1, <1>3
  <2> QED
    BY <1>1, <2>1
<1>6. f[0] = p[1]
  BY <1>1
<1>7. ASSUME NEW i \in 1..Len(Tail(q)) PROVE f[i - 1] = f[i] + Tail(q)[i].size
  <2>1. i \in 1..(Len(q) - 1) /\ i \in 0..(Len(q) - 1) /\ i - 1 \in 0..(Len(q) - 1)
        /\ i + 1 \in 1..Len(q) /\ i \in Int
    BY <1>1
  <2>2. f[i] = p[i + 1] /\ f[i - 1] = p[(i - 1) + 1] /\ (i - 1) + 1 = i
    BY <2>1
  <2>3. p[(i + 1) - 1] = p[i + 1] + q[i + 1].size /\ (i + 1) - 1 = i
    BY <1>3, <2>1
  <2>4. Tail(q)[i] = q[i + 1]
    BY <1>1, <2>1
  <2> QED
    BY <2>2, <2>3, <2>4
<1> HIDE DEF f
<1>8. b - Head(q).size \in Nat /\ p[1] <= b - Head(q).size /\ p[1] <= b
  BY <1>2, <1>3, <1>4
<1>9. Covers(f, Tail(q), b - Head(q).size) /\ Covers(f, Tail(q), b)
  BY <1>5, <1>6, <1>7, <1>8 DEF Covers
<1> QED
  BY <1>8, <1>9

\* With an event its bytes are added.
LEMMA CoverAppend ==
  ASSUME NEW q \in Queue, NEW e \in Items, Len(q) < Buffer, NEW b \in Nat,
         NEW p, Covers(p, q, b)
  PROVE  b + e.size \in Nat /\ \E f : Covers(f, Append(q, e), b + e.size)
<1>1. /\ Len(q) \in Nat /\ Len(Append(q, e)) = Len(q) + 1
      /\ \A i \in 1..Len(q) : Append(q, e)[i] = q[i]
      /\ Append(q, e)[Len(q) + 1] = e
  BY QueueAppend
<1>2. e.size \in Nat
  BY ItemSize
<1>3. p \in [0..Len(q) -> Nat] /\ p[0] <= b /\ \A i \in 1..Len(q) : p[i - 1] = p[i] + q[i].size
  BY DEF Covers
<1> DEFINE f == [i \in 0..(Len(q) + 1) |->
                   IF i <= Len(q) THEN p[i] + e.size ELSE p[Len(q)]]
<1>5. f \in [0..Len(Append(q, e)) -> Nat]
  <2>1. ASSUME NEW i \in 0..(Len(q) + 1)
        PROVE  (IF i <= Len(q) THEN p[i] + e.size ELSE p[Len(q)]) \in Nat
    <3>1. i <= Len(q) => i \in 0..Len(q)
      BY <1>1
    <3>2. Len(q) \in 0..Len(q)
      BY <1>1
    <3>3. (i <= Len(q) => p[i] \in Nat) /\ p[Len(q)] \in Nat
      BY <1>3, <3>1, <3>2
    <3> QED
      BY <1>2, <3>3
  <2> QED
    BY <1>1, <2>1
<1>6. f[0] = p[0] + e.size /\ p[0] \in Nat
  <2>1. 0 \in 0..(Len(q) + 1) /\ 0 <= Len(q) /\ 0 \in 0..Len(q)
    BY <1>1
  <2> QED
    BY <1>3, <2>1
<1>7. ASSUME NEW i \in 1..Len(Append(q, e)) PROVE f[i - 1] = f[i] + Append(q, e)[i].size
  <2>0. i \in Int /\ i \in 0..(Len(q) + 1) /\ i - 1 \in 0..(Len(q) + 1) /\ i - 1 <= Len(q)
        /\ i - 1 \in 0..Len(q)
    BY <1>1
  <2>1. f[i - 1] = p[i - 1] + e.size
    BY <2>0
  <2>2. CASE i <= Len(q)
    <3>1. i \in 1..Len(q) /\ i \in 0..Len(q)
      BY <1>1, <2>0, <2>2
    <3>2. p[i - 1] = p[i] + q[i].size /\ Append(q, e)[i] = q[i] /\ f[i] = p[i] + e.size
      BY <1>1, <1>3, <2>0, <2>2, <3>1
    <3>3. p[i] \in Nat /\ p[i - 1] \in Nat
      BY <1>3, <2>0, <3>1
    <3>4. q[i].size \in Nat
      <4>1. q[i] \in Items
        BY <3>1, ElementOfSeq DEF Queue
      <4> QED
        BY <4>1, ItemSize
    <3>5. \A x, y, z, w \in Nat : x = y + z => x + w = (y + w) + z
      OBVIOUS
    <3>6. p[i - 1] + e.size = (p[i] + e.size) + q[i].size
      BY <1>2, <3>2, <3>3, <3>4, <3>5
    <3> QED
      BY <2>1, <3>2, <3>6
  <2>3. CASE ~(i <= Len(q))
    <3>1. i = Len(q) + 1 /\ i - 1 = Len(q)
      BY <1>1, <2>0, <2>3
    <3>2. f[i] = p[Len(q)] /\ Append(q, e)[i] = e
      BY <1>1, <2>0, <2>3, <3>1
    <3> QED
      BY <2>1, <3>1, <3>2
  <2> QED
    BY <2>2, <2>3
<1> HIDE DEF f
<1>8. b + e.size \in Nat /\ f[0] <= b + e.size
  BY <1>2, <1>3, <1>6
<1>9. Covers(f, Append(q, e), b + e.size)
  BY <1>5, <1>7, <1>8 DEF Covers
<1> QED
  BY <1>8, <1>9

-----------------------------------------------------------------------------
(* Sessions *)

\* A session by its fields.
Rec(a, e, g, b, q) == [active |-> a, epoch |-> e, gen |-> g, bytes |-> b, queue |-> q]

\* The fields of a session, ...
LEMMA SessionFields ==
  ASSUME NEW r \in Session
  PROVE  /\ r = Rec(r.active, r.epoch, r.gen, r.bytes, r.queue)
         /\ r.active \in BOOLEAN /\ r.epoch \in Nat /\ r.gen \in Nat /\ r.bytes \in Nat
         /\ r.queue \in Queue /\ \E p : Covers(p, r.queue, r.bytes)
BY DEF Session, Rec

\* ... that make one.
LEMMA FieldsSession ==
  ASSUME NEW a \in BOOLEAN, NEW e \in Nat, NEW g \in Nat, NEW b \in Nat, NEW q \in Queue,
         \E p : Covers(p, q, b)
  PROVE  Rec(a, e, g, b, q) \in Session
<1>1. Rec(a, e, g, b, q) \in
        [active : BOOLEAN, epoch : Nat, gen : Nat, bytes : Nat, queue : Queue]
  BY DEF Rec
<1>2. Rec(a, e, g, b, q).queue = q /\ Rec(a, e, g, b, q).bytes = b
  BY DEF Rec
<1> QED
  BY <1>1, <1>2 DEF Session

\* An empty queue is covered by any number of bytes.
LEMMA CoverEmpty == \A b \in Nat : <<>> \in Queue /\ \E p : Covers(p, <<>>, b)
<1> SUFFICES ASSUME NEW b \in Nat PROVE <<>> \in Queue /\ \E p : Covers(p, <<>>, b)
  OBVIOUS
<1>1. <<>> \in Queue /\ Len(<<>>) = 0
  BY DebugHubAssumption DEF Queue, DebugHubAssumption
<1> DEFINE f == [i \in 0..0 |-> 0]
<1>2. f \in [0..0 -> Nat] /\ f[0] = 0
  OBVIOUS
<1> HIDE DEF f
<1>3. Covers(f, <<>>, b)
  BY <1>1, <1>2 DEF Covers
<1> QED
  BY <1>1, <1>3

\* A session ends with what is queued, and is told so if there is room.
LEMMA SessionEnded ==
  ASSUME NEW r \in Session, NEW last \in BOOLEAN
  PROVE  /\ Rec(FALSE, r.epoch, r.gen, r.bytes,
                IF last THEN Offer(r.queue, Terminal) ELSE r.queue) \in Session
         /\ Offer(r.queue, Terminal) \in Queue
<1>1. /\ r.epoch \in Nat /\ r.gen \in Nat /\ r.bytes \in Nat
      /\ r.queue \in Queue /\ \E p : Covers(p, r.queue, r.bytes)
  BY SessionFields
<1>2. Terminal \in Items /\ Terminal.size = 0
  BY DEF Items, Terminal
<1>3. Offer(r.queue, Terminal) \in Queue /\ \E p : Covers(p, Offer(r.queue, Terminal), r.bytes)
  <2>1. CASE Len(r.queue) < Buffer
    <3>1. Append(r.queue, Terminal) \in Queue
      BY <1>1, <1>2, <2>1, QueueAppend
    <3>2. PICK p : Covers(p, r.queue, r.bytes)
      BY <1>1
    <3>3. \E f : Covers(f, Append(r.queue, Terminal), r.bytes + Terminal.size)
      BY <1>1, <1>2, <2>1, <3>2, CoverAppend
    <3>4. r.bytes + Terminal.size = r.bytes
      BY <1>1, <1>2
    <3> QED
      BY <2>1, <3>1, <3>3, <3>4 DEF Offer
  <2>2. CASE ~(Len(r.queue) < Buffer)
    BY <1>1, <2>2 DEF Offer
  <2> QED
    BY <2>1, <2>2
<1> DEFINE q == IF last THEN Offer(r.queue, Terminal) ELSE r.queue
<1>4. q \in Queue /\ \E p : Covers(p, q, r.bytes)
  BY <1>1, <1>3
<1> HIDE DEF q
<1>5. Rec(FALSE, r.epoch, r.gen, r.bytes, q) \in Session
  BY <1>1, <1>4, FieldsSession
<1> QED
  BY <1>3, <1>5 DEF q

\* An event is taken out of the queue, ...
LEMMA SessionRead ==
  ASSUME NEW r \in Session, r.queue # <<>>
  PROVE  /\ Rec(r.active, r.epoch, r.gen, r.bytes, Tail(r.queue)) \in Session
         /\ Rec(r.active, r.epoch, r.gen, r.bytes - Head(r.queue).size, Tail(r.queue))
              \in Session
<1>1. /\ r.active \in BOOLEAN /\ r.epoch \in Nat /\ r.gen \in Nat /\ r.bytes \in Nat
      /\ r.queue \in Queue /\ \E p : Covers(p, r.queue, r.bytes)
  BY SessionFields
<1>2. Tail(r.queue) \in Queue
  BY <1>1, QueueTail
<1>3. PICK p : Covers(p, r.queue, r.bytes)
  BY <1>1
<1>4. /\ r.bytes - Head(r.queue).size \in Nat
      /\ \E f : Covers(f, Tail(r.queue), r.bytes - Head(r.queue).size)
      /\ \E f : Covers(f, Tail(r.queue), r.bytes)
  BY <1>1, <1>3, CoverTail
<1>5. Rec(r.active, r.epoch, r.gen, r.bytes, Tail(r.queue)) \in Session
  BY <1>1, <1>2, <1>4, FieldsSession
<1>6. Rec(r.active, r.epoch, r.gen, r.bytes - Head(r.queue).size, Tail(r.queue)) \in Session
  BY <1>1, <1>2, <1>4, FieldsSession
<1> QED
  BY <1>5, <1>6

\* ... with its bytes when it is evicted, ...
LEMMA SessionEvicted ==
  ASSUME NEW r \in Session
  PROVE  /\ Evicted(r) \in Session
         /\ Evicted(r).active = r.active /\ Evicted(r).epoch = r.epoch
         /\ Evicted(r).gen = r.gen
         /\ Evicted(r).queue = IF r.queue = <<>> THEN <<>> ELSE Tail(r.queue)
         /\ Len(Evicted(r).queue) < Buffer
<1>1. /\ r = Rec(r.active, r.epoch, r.gen, r.bytes, r.queue) /\ r.queue \in Queue
  BY SessionFields
<1>2. Buffer \in Nat \ {0} /\ Len(<<>>) = 0
  BY DebugHubAssumption DEF DebugHubAssumption
<1>3. CASE r.queue = <<>>
  BY <1>2, <1>3 DEF Evicted
<1>4. CASE r.queue # <<>>
  <2>1. Evicted(r) = [[r EXCEPT !.queue = Tail(r.queue)]
                         EXCEPT !.bytes = r.bytes - Head(r.queue).size]
    <3>1. PICK r1 : r1 = [r EXCEPT !.queue = Tail(r.queue)]
      OBVIOUS
    <3>2. r1.bytes = r.bytes
      BY <3>1, <1>1 DEF Rec
    <3> QED
      BY <1>4, <3>1, <3>2 DEF Evicted
  <2>2. PICK r1 : r1 = [r EXCEPT !.queue = Tail(r.queue)]
    OBVIOUS
  <2>3. r1 = Rec(r.active, r.epoch, r.gen, r.bytes, Tail(r.queue))
    BY <2>2, <1>1 DEF Rec
  <2>4. Evicted(r) = [r1 EXCEPT !.bytes = r.bytes - Head(r.queue).size]
    BY <2>1, <2>2
  <2>5. Evicted(r) = Rec(r.active, r.epoch, r.gen, r.bytes - Head(r.queue).size, Tail(r.queue))
    BY <2>4, <2>3 DEF Rec
  <2>6. Evicted(r) \in Session
    BY <1>4, <2>5, SessionRead
  <2>7. /\ Evicted(r).active = r.active /\ Evicted(r).epoch = r.epoch
        /\ Evicted(r).gen = r.gen /\ Evicted(r).queue = Tail(r.queue)
    BY <2>5 DEF Rec
  <2>8. Len(Tail(r.queue)) = Len(r.queue) - 1 /\ Len(r.queue) \in Nat /\ Len(r.queue) <= Buffer
    BY <1>1, <1>4, QueueTail DEF Queue
  <2>9. Len(Tail(r.queue)) < Buffer
    BY <1>2, <2>8
  <2> QED
    BY <1>4, <2>6, <2>7, <2>9
<1> QED
  BY <1>3, <1>4

\* ... and put in if there is room.
LEMMA SessionSent ==
  ASSUME NEW r \in Session, NEW e \in Items
  PROVE  /\ Sent(r, e) \in Session
         /\ Sent(r, e).active = r.active /\ Sent(r, e).epoch = r.epoch
         /\ Sent(r, e).gen = r.gen
         /\ Sent(r, e).queue = IF Len(r.queue) < Buffer THEN Append(r.queue, e) ELSE r.queue
<1>1. /\ r = Rec(r.active, r.epoch, r.gen, r.bytes, r.queue)
      /\ r.active \in BOOLEAN /\ r.epoch \in Nat /\ r.gen \in Nat /\ r.bytes \in Nat
      /\ r.queue \in Queue /\ \E p : Covers(p, r.queue, r.bytes)
  BY SessionFields
<1>2. CASE Len(r.queue) < Buffer
  <2>1. Sent(r, e) = [[r EXCEPT !.queue = Append(r.queue, e)]
                         EXCEPT !.bytes = r.bytes + e.size]
    <3>1. PICK r1 : r1 = [r EXCEPT !.queue = Append(r.queue, e)]
      OBVIOUS
    <3>2. r1.bytes = r.bytes
      BY <3>1, <1>1 DEF Rec
    <3> QED
      BY <1>2, <3>1, <3>2 DEF Sent
  <2>2. PICK r1 : r1 = [r EXCEPT !.queue = Append(r.queue, e)]
    OBVIOUS
  <2>3. r1 = Rec(r.active, r.epoch, r.gen, r.bytes, Append(r.queue, e))
    BY <2>2, <1>1 DEF Rec
  <2>4. Sent(r, e) = [r1 EXCEPT !.bytes = r.bytes + e.size]
    BY <2>1, <2>2
  <2>5. Sent(r, e) = Rec(r.active, r.epoch, r.gen, r.bytes + e.size, Append(r.queue, e))
    BY <2>4, <2>3 DEF Rec
  <2>6. Append(r.queue, e) \in Queue
    BY <1>1, <1>2, QueueAppend
  <2>7. PICK p : Covers(p, r.queue, r.bytes)
    BY <1>1
  <2>8. r.bytes + e.size \in Nat /\ \E f : Covers(f, Append(r.queue, e), r.bytes + e.size)
    BY <1>1, <1>2, <2>7, CoverAppend
  <2>9. Rec(r.active, r.epoch, r.gen, r.bytes + e.size, Append(r.queue, e)) \in Session
    BY <1>1, <2>6, <2>8, FieldsSession
  <2> QED
    BY <1>2, <2>5, <2>9 DEF Rec
<1>3. CASE ~(Len(r.queue) < Buffer)
  BY <1>3 DEF Sent
<1> QED
  BY <1>2, <1>3

-----------------------------------------------------------------------------
(* What a step does to the sessions *)

\* The sessions k are the sessions f, but for s, which is r.
Becomes(f, k, s, r) ==
  /\ k = [x \in Sessions |-> k[x]]
  /\ k[s] = r /\ \A x \in Sessions \ {s} : k[x] = f[x]

\* The sessions keep their type with a session.
LEMMA BecomesType ==
  ASSUME NEW f \in [Sessions -> Session], NEW k, NEW s \in Sessions, NEW r \in Session,
         Becomes(f, k, s, r)
  PROVE  k \in [Sessions -> Session]
<1>1. \A x \in Sessions : k[x] \in Session
  BY DEF Becomes
<1> QED
  BY <1>1 DEF Becomes

\* A session ends.
LEMMA EndedIs ==
  ASSUME NEW f \in [Sessions -> Session], NEW s \in Sessions, NEW last \in BOOLEAN
  PROVE  /\ Becomes(f, Ended(f, s, last), s,
              Rec(FALSE, f[s].epoch, f[s].gen, f[s].bytes,
                  IF last THEN Offer(f[s].queue, Terminal) ELSE f[s].queue))
         /\ Ended(f, s, last) \in [Sessions -> Session]
<1> DEFINE q == IF last THEN Offer(f[s].queue, Terminal) ELSE f[s].queue
           k == Ended(f, s, last)
<1>1. f[s] \in Session /\ f[s] = Rec(f[s].active, f[s].epoch, f[s].gen, f[s].bytes, f[s].queue)
  BY SessionFields
<1>2. PICK r1 : r1 = [f[s] EXCEPT !.active = FALSE]
  OBVIOUS
<1>3. r1 = Rec(FALSE, f[s].epoch, f[s].gen, f[s].bytes, f[s].queue)
  BY <1>1, <1>2 DEF Rec
<1>4. r1.queue = f[s].queue
  BY <1>3 DEF Rec
<1>5. k[s] = [r1 EXCEPT !.queue = q]
  BY <1>2, <1>4 DEF Ended
<1>6. k[s] = Rec(FALSE, f[s].epoch, f[s].gen, f[s].bytes, q)
  BY <1>3, <1>5 DEF Rec
<1>7. k = [x \in Sessions |-> k[x]] /\ \A x \in Sessions \ {s} : k[x] = f[x]
  BY DEF Ended
<1>8. Rec(FALSE, f[s].epoch, f[s].gen, f[s].bytes, q) \in Session
  BY <1>1, SessionEnded
<1> HIDE DEF k, q
<1>9. Becomes(f, k, s, Rec(FALSE, f[s].epoch, f[s].gen, f[s].bytes, q))
  BY <1>6, <1>7 DEF Becomes
<1>10. k \in [Sessions -> Session]
  BY <1>8, <1>9, BecomesType
<1> QED
  BY <1>9, <1>10 DEF k, q

\* A session starts.
LEMMA StartedIs ==
  ASSUME NEW f \in [Sessions -> Session], NEW s \in Sessions, NEW k,
         k = [f EXCEPT ![s].active = TRUE, ![s].gen = 1]
  PROVE  /\ Becomes(f, k, s, Rec(TRUE, f[s].epoch, 1, f[s].bytes, f[s].queue))
         /\ k \in [Sessions -> Session]
<1>1. /\ f[s] \in Session /\ f[s] = Rec(f[s].active, f[s].epoch, f[s].gen, f[s].bytes, f[s].queue)
      /\ f[s].epoch \in Nat /\ f[s].bytes \in Nat /\ f[s].queue \in Queue
      /\ \E p : Covers(p, f[s].queue, f[s].bytes)
  BY SessionFields
<1>2. PICK r1 : r1 = [f[s] EXCEPT !.active = TRUE]
  OBVIOUS
<1>3. r1 = Rec(TRUE, f[s].epoch, f[s].gen, f[s].bytes, f[s].queue)
  BY <1>1, <1>2 DEF Rec
<1>4. k[s] = [r1 EXCEPT !.gen = 1]
  BY <1>2
<1>5. k[s] = Rec(TRUE, f[s].epoch, 1, f[s].bytes, f[s].queue)
  BY <1>3, <1>4 DEF Rec
<1>6. k = [x \in Sessions |-> k[x]] /\ \A x \in Sessions \ {s} : k[x] = f[x]
  OBVIOUS
<1>7. Rec(TRUE, f[s].epoch, 1, f[s].bytes, f[s].queue) \in Session
  BY <1>1, FieldsSession
<1>8. Becomes(f, k, s, Rec(TRUE, f[s].epoch, 1, f[s].bytes, f[s].queue))
  BY <1>5, <1>6 DEF Becomes
<1> QED
  BY <1>7, <1>8, BecomesType

\* The step of the hub that starts a session.
LEMMA StartStep ==
  ASSUME Hub, Start
  PROVE  /\ started + 1 \in Sessions /\ current # started + 1
         /\ sess' \in [Sessions -> Session]
         /\ \A x \in Sessions :
              /\ (sess'[x].active <=> x = started + 1) /\ sess'[x].epoch = sess[x].epoch
              /\ sess'[x].gen = IF x = started + 1 THEN 1 ELSE sess[x].gen
              /\ sess'[x].queue \in {sess[x].queue, Offer(sess[x].queue, Terminal)}
<1>1. /\ started \in 0..MaxSessions /\ started < MaxSessions /\ current \in 0..started
      /\ MaxSessions \in Nat /\ sess \in [Sessions -> Session]
  BY DebugHubAssumption DEF Hub, Start, DebugHubAssumption
<1>2. started + 1 \in Sessions /\ current # started + 1 /\ (current # 0 => current \in Sessions)
  BY <1>1 DEF Sessions
<1> DEFINE s == started + 1
<1>3. PICK f : f = IF current # 0 THEN Ended(sess, current, TRUE) ELSE sess
  OBVIOUS
<1>4. /\ f \in [Sessions -> Session]
      /\ \A x \in Sessions \ {current} : f[x] = sess[x]
      /\ current # 0 => f[current] = Rec(FALSE, sess[current].epoch, sess[current].gen,
                                         sess[current].bytes, Offer(sess[current].queue, Terminal))
  <2>1. CASE current = 0
    BY <1>1, <1>3, <2>1
  <2>2. CASE current # 0
    <3>1. current \in Sessions /\ TRUE \in BOOLEAN
      BY <1>2, <2>2
    <3>2. /\ Becomes(sess, Ended(sess, current, TRUE), current,
              Rec(FALSE, sess[current].epoch, sess[current].gen, sess[current].bytes,
                  IF TRUE THEN Offer(sess[current].queue, Terminal) ELSE sess[current].queue))
          /\ Ended(sess, current, TRUE) \in [Sessions -> Session]
      BY <1>1, <3>1, EndedIs
    <3> QED
      BY <1>3, <2>2, <3>2 DEF Becomes
  <2> QED
    BY <2>1, <2>2
<1>5. sess' = [f EXCEPT ![s].active = TRUE, ![s].gen = 1]
  BY <1>3 DEF Start
<1>6. /\ Becomes(f, sess', s, Rec(TRUE, f[s].epoch, 1, f[s].bytes, f[s].queue))
      /\ sess' \in [Sessions -> Session]
  BY <1>2, <1>4, <1>5, StartedIs
<1>7. /\ sess'[s] = Rec(TRUE, f[s].epoch, 1, f[s].bytes, f[s].queue) /\ f[s] = sess[s]
      /\ \A x \in Sessions \ {s} : sess'[x] = f[x]
  BY <1>2, <1>4, <1>6 DEF Becomes
<1>8. \A x \in Sessions : sess[x].active <=> x = current
  BY DEF Hub
<1>9. ASSUME NEW x \in Sessions
      PROVE  /\ (sess'[x].active <=> x = started + 1) /\ sess'[x].epoch = sess[x].epoch
             /\ sess'[x].gen = IF x = started + 1 THEN 1 ELSE sess[x].gen
             /\ sess'[x].queue \in {sess[x].queue, Offer(sess[x].queue, Terminal)}
  <2>1. CASE x = s
    BY <1>7, <2>1 DEF Rec
  <2>2. CASE x # s /\ x = current
    <3>1. sess'[x] = Rec(FALSE, sess[x].epoch, sess[x].gen, sess[x].bytes,
                         Offer(sess[x].queue, Terminal))
      <4>1. x # 0
        BY <1>1 DEF Sessions
      <4> QED
        BY <1>4, <1>7, <2>2, <4>1
    <3> QED
      BY <2>2, <3>1 DEF Rec
  <2>3. CASE x # s /\ x # current
    <3>1. sess'[x] = sess[x] /\ ~sess[x].active /\ sess[x].active \in BOOLEAN
      BY <1>1, <1>4, <1>7, <1>8, <2>3, SessionFields
    <3> QED
      BY <2>3, <3>1
  <2> QED
    BY <2>1, <2>2, <2>3
<1> QED
  BY <1>2, <1>6, <1>9

\* A session of the hub ends.
LEMMA EndStep ==
  ASSUME Hub, NEW last \in BOOLEAN, current # 0, End(current, last)
  PROVE  /\ current \in Sessions /\ current' = 0 /\ started' = started
         /\ sess' \in [Sessions -> Session]
         /\ \A x \in Sessions :
              /\ ~sess'[x].active /\ sess'[x].epoch = sess[x].epoch
              /\ sess'[x].gen = sess[x].gen
              /\ sess'[x].queue \in {sess[x].queue, Offer(sess[x].queue, Terminal)}
<1>1. current \in Sessions /\ sess \in [Sessions -> Session]
  BY DebugHubAssumption DEF Hub, Sessions, DebugHubAssumption
<1>2. /\ Becomes(sess, sess', current,
            Rec(FALSE, sess[current].epoch, sess[current].gen, sess[current].bytes,
                IF last THEN Offer(sess[current].queue, Terminal) ELSE sess[current].queue))
      /\ sess' \in [Sessions -> Session]
  BY <1>1, EndedIs DEF End
<1>3. ASSUME NEW x \in Sessions
      PROVE  /\ ~sess'[x].active /\ sess'[x].epoch = sess[x].epoch
             /\ sess'[x].gen = sess[x].gen
             /\ sess'[x].queue \in {sess[x].queue, Offer(sess[x].queue, Terminal)}
  <2>1. CASE x = current
    BY <1>2, <2>1 DEF Becomes, Rec
  <2>2. CASE x # current
    <3>1. sess'[x] = sess[x] /\ sess[x].active \in BOOLEAN
      BY <1>1, <1>2, <2>2, SessionFields DEF Becomes
    <3> QED
      BY <2>2, <3>1 DEF Hub
  <2> QED
    BY <2>1, <2>2
<1> QED
  BY <1>1, <1>2, <1>3 DEF End

\* A step that leaves the sessions what they are but for one, whose queue and bytes
\* change.
Quiet == \A x \in Sessions :
  /\ sess'[x].active = sess[x].active /\ sess'[x].epoch = sess[x].epoch
  /\ sess'[x].gen = sess[x].gen

\* A session is written as a whole.
LEMMA WholeStep ==
  ASSUME sess \in [Sessions -> Session], NEW s \in Sessions, NEW r \in Session,
         sess' = [sess EXCEPT ![s] = r], r.active = sess[s].active,
         r.epoch = sess[s].epoch, r.gen = sess[s].gen
  PROVE  /\ Quiet /\ sess' \in [Sessions -> Session] /\ sess'[s] = r
         /\ \A x \in Sessions \ {s} : sess'[x] = sess[x]
<1>1. /\ sess' \in [Sessions -> Session] /\ sess'[s] = r
      /\ \A x \in Sessions \ {s} : sess'[x] = sess[x]
  OBVIOUS
<1> QED
  BY <1>1 DEF Quiet

\* What a stream or a push holds exists.
LEMMA Held ==
  ASSUME Hub, Calls, Epochs
  PROVE  /\ 1..started \subseteq Sessions
         /\ current # 0 => current \in 1..started /\ sess[current].active
         /\ \A w \in Workers : call[w].pc # "ready" => call[w].session \in Sessions
         /\ \A h \in Streams : stream[h].pc = "reading" => stream[h].session \in Sessions
<1>1. 1..started \subseteq Sessions /\ (current # 0 => current \in 1..started)
  BY DebugHubAssumption DEF Hub, Sessions, DebugHubAssumption
<1> QED
  BY <1>1 DEF Hub, Calls, Epochs

\* A stream is attached.
LEMMA AttachStep ==
  ASSUME Hub, Calls, Epochs, NEW h \in Streams, Attach(h)
  PROVE  /\ current \in Sessions /\ sess' \in [Sessions -> Session]
         /\ \A x \in Sessions :
              /\ sess'[x].active = sess[x].active /\ sess'[x].queue = sess[x].queue
              /\ sess'[x].epoch = IF x = current THEN sess[x].epoch + 1 ELSE sess[x].epoch
              /\ sess'[x].gen = IF x = current THEN sess[x].gen + 1 ELSE sess[x].gen
<1>1. current \in Sessions /\ sess \in [Sessions -> Session]
  BY Held DEF Attach, Hub
<1> DEFINE s == current
           r == sess[s]
<1>2. /\ r = Rec(r.active, r.epoch, r.gen, r.bytes, r.queue)
      /\ r.active \in BOOLEAN /\ r.epoch \in Nat /\ r.gen \in Nat /\ r.bytes \in Nat
      /\ r.queue \in Queue /\ \E p : Covers(p, r.queue, r.bytes)
  BY <1>1, SessionFields
<1>3. sess' = [sess EXCEPT ![s].epoch = r.epoch + 1, ![s].gen = r.gen + 1]
  <2>1. sess' = [sess EXCEPT ![s].epoch = r.epoch + 1, ![s].gen = @ + 1]
    BY DEF Attach
  <2>2. PICK f : f = [sess EXCEPT ![s].epoch = r.epoch + 1]
    OBVIOUS
  <2>3. f[s] = [r EXCEPT !.epoch = r.epoch + 1]
    BY <1>1, <2>2
  <2>4. f[s].gen = r.gen
    BY <1>2, <2>3 DEF Rec
  <2>5. sess' = [f EXCEPT ![s].gen = @ + 1]
    BY <2>1, <2>2
  <2>6. sess' = [f EXCEPT ![s].gen = r.gen + 1]
    BY <2>4, <2>5
  <2> QED
    BY <2>2, <2>6
<1>4. PICK r1 : r1 = [r EXCEPT !.epoch = r.epoch + 1]
  OBVIOUS
<1>5. r1 = Rec(r.active, r.epoch + 1, r.gen, r.bytes, r.queue)
  BY <1>2, <1>4 DEF Rec
<1>6. sess'[s] = [r1 EXCEPT !.gen = r.gen + 1]
  BY <1>1, <1>3, <1>4
<1>7. sess'[s] = Rec(r.active, r.epoch + 1, r.gen + 1, r.bytes, r.queue)
  BY <1>5, <1>6 DEF Rec
<1>8. Rec(r.active, r.epoch + 1, r.gen + 1, r.bytes, r.queue) \in Session
  BY <1>2, FieldsSession
<1>9. /\ sess' = [x \in Sessions |-> sess'[x]]
      /\ \A x \in Sessions \ {s} : sess'[x] = sess[x]
  BY <1>1, <1>3
<1>10. Becomes(sess, sess', s, Rec(r.active, r.epoch + 1, r.gen + 1, r.bytes, r.queue))
  BY <1>7, <1>9 DEF Becomes
<1>11. sess' \in [Sessions -> Session]
  BY <1>1, <1>8, <1>10, BecomesType
<1> QED
  BY <1>1, <1>7, <1>9, <1>11 DEF Rec

\* A push gets its session.
LEMMA LockStep ==
  ASSUME Hub, Calls, Epochs, NEW w \in Workers, Lock(w)
  PROVE  /\ call[w].session \in Sessions /\ sess' \in [Sessions -> Session]
         /\ \A x \in Sessions :
              /\ sess'[x].active = sess[x].active /\ sess'[x].queue = sess[x].queue
              /\ sess'[x].epoch = sess[x].epoch
              /\ sess'[x].gen = IF x = call[w].session THEN sess[x].gen + 1 ELSE sess[x].gen
<1>1. call[w].session \in Sessions /\ sess \in [Sessions -> Session]
  BY Held DEF Lock, Hub
<1> DEFINE s == call[w].session
           r == sess[s]
           b == IF r.queue = <<>> THEN 0 ELSE r.bytes
<1>2. /\ r = Rec(r.active, r.epoch, r.gen, r.bytes, r.queue)
      /\ r.active \in BOOLEAN /\ r.epoch \in Nat /\ r.gen \in Nat /\ r.bytes \in Nat
      /\ r.queue \in Queue /\ \E p : Covers(p, r.queue, r.bytes)
  BY <1>1, SessionFields
<1>3. sess' = [sess EXCEPT ![s].gen = r.gen + 1, ![s].bytes = b]
  <2>1. sess' = [sess EXCEPT ![s].gen = @ + 1,
                             ![s].bytes = IF sess[s].queue = <<>> THEN 0 ELSE @]
    BY DEF Lock
  <2>2. PICK f : f = [sess EXCEPT ![s].gen = r.gen + 1]
    OBVIOUS
  <2>3. f[s] = [r EXCEPT !.gen = r.gen + 1]
    BY <1>1, <2>2
  <2>4. f[s].bytes = r.bytes
    BY <1>2, <2>3 DEF Rec
  <2>5. sess' = [f EXCEPT ![s].bytes = IF sess[s].queue = <<>> THEN 0 ELSE @]
    BY <2>1, <2>2
  <2>6. sess' = [f EXCEPT ![s].bytes = b]
    BY <2>4, <2>5
  <2> QED
    BY <2>2, <2>6
<1>12. b \in Nat /\ \E p : Covers(p, r.queue, b)
  BY <1>2, CoverEmpty
<1> HIDE DEF b
<1>4. PICK r1 : r1 = [r EXCEPT !.gen = r.gen + 1]
  OBVIOUS
<1>5. r1 = Rec(r.active, r.epoch, r.gen + 1, r.bytes, r.queue)
  BY <1>2, <1>4 DEF Rec
<1>6. sess'[s] = [r1 EXCEPT !.bytes = b]
  BY <1>1, <1>3, <1>4
<1>7. sess'[s] = Rec(r.active, r.epoch, r.gen + 1, b, r.queue)
  BY <1>5, <1>6 DEF Rec
<1>8. Rec(r.active, r.epoch, r.gen + 1, b, r.queue) \in Session
  BY <1>2, <1>12, FieldsSession
<1>9. /\ sess' = [x \in Sessions |-> sess'[x]]
      /\ \A x \in Sessions \ {s} : sess'[x] = sess[x]
  BY <1>1, <1>3
<1>10. Becomes(sess, sess', s, Rec(r.active, r.epoch, r.gen + 1, b, r.queue))
  BY <1>7, <1>9 DEF Becomes
<1>11. sess' \in [Sessions -> Session]
  BY <1>1, <1>8, <1>10, BecomesType
<1> QED
  BY <1>1, <1>7, <1>9, <1>11 DEF Rec

\* A stream reads.
LEMMA ReadStep ==
  ASSUME Hub, Calls, Epochs, NEW h \in Streams, Read(h)
  PROVE  /\ Quiet /\ sess' \in [Sessions -> Session] /\ stream[h].session \in Sessions
         /\ sess'[stream[h].session].queue = Tail(sess[stream[h].session].queue)
         /\ \A x \in Sessions \ {stream[h].session} : sess'[x] = sess[x]
<1> DEFINE s == stream[h].session
           r == sess[s]
<1>1. s \in Sessions /\ sess \in [Sessions -> Session] /\ r.queue # <<>>
  BY Held DEF Read, Hub
<1>2. r \in Session /\ r = Rec(r.active, r.epoch, r.gen, r.bytes, r.queue)
  BY <1>1, SessionFields
<1>3. sess' = [sess EXCEPT ![s] = [r EXCEPT !.queue = Tail(r.queue)]]
  BY <1>1 DEF Read
<1>4. PICK r1 : r1 = [r EXCEPT !.queue = Tail(r.queue)]
  OBVIOUS
<1>5. r1 = Rec(r.active, r.epoch, r.gen, r.bytes, Tail(r.queue))
  BY <1>2, <1>4 DEF Rec
<1>6. /\ r1.active = r.active /\ r1.epoch = r.epoch /\ r1.gen = r.gen
      /\ r1.queue = Tail(r.queue)
  BY <1>5 DEF Rec
<1>7. sess' = [sess EXCEPT ![s] = r1] /\ r1 \in Session
  BY <1>1, <1>2, <1>3, <1>4, <1>5, SessionRead
<1>8. /\ Quiet /\ sess' \in [Sessions -> Session] /\ sess'[s] = r1
      /\ \A x \in Sessions \ {s} : sess'[x] = sess[x]
  BY <1>1, <1>6, <1>7, WholeStep
<1> QED
  BY <1>1, <1>6, <1>8

\* A push evicts an event, ...
LEMMA EvictStep ==
  ASSUME Hub, NEW s \in Sessions, sess' = [sess EXCEPT ![s] = Evicted(@)]
  PROVE  /\ Quiet /\ sess' \in [Sessions -> Session] /\ sess'[s] = Evicted(sess[s])
         /\ \A x \in Sessions \ {s} : sess'[x] = sess[x]
<1>1. sess \in [Sessions -> Session] /\ sess[s] \in Session
  BY DEF Hub
<1>2. PICK r : r = Evicted(sess[s])
  OBVIOUS
<1>3. r \in Session /\ r.active = sess[s].active /\ r.epoch = sess[s].epoch /\ r.gen = sess[s].gen
  BY <1>1, <1>2, SessionEvicted
<1>4. sess' = [sess EXCEPT ![s] = r]
  BY <1>2
<1> QED
  BY <1>1, <1>2, <1>3, <1>4, WholeStep

\* ... sends one, ...
LEMMA SendStep ==
  ASSUME Hub, NEW s \in Sessions, NEW e \in Items, sess' = [sess EXCEPT ![s] = Sent(@, e)]
  PROVE  /\ Quiet /\ sess' \in [Sessions -> Session] /\ sess'[s] = Sent(sess[s], e)
         /\ \A x \in Sessions \ {s} : sess'[x] = sess[x]
<1>1. sess \in [Sessions -> Session] /\ sess[s] \in Session
  BY DEF Hub
<1>2. PICK r : r = Sent(sess[s], e)
  OBVIOUS
<1>3. r \in Session /\ r.active = sess[s].active /\ r.epoch = sess[s].epoch /\ r.gen = sess[s].gen
  BY <1>1, <1>2, SessionSent
<1>4. sess' = [sess EXCEPT ![s] = r]
  BY <1>2
<1> QED
  BY <1>1, <1>2, <1>3, <1>4, WholeStep

\* ... or both.
LEMMA MakeRoomStep ==
  ASSUME Hub, NEW s \in Sessions, NEW e \in Items,
         sess' = [sess EXCEPT ![s] = Sent(Evicted(@), e)]
  PROVE  /\ Quiet /\ sess' \in [Sessions -> Session]
         /\ sess'[s].queue = Append(Evicted(sess[s]).queue, e)
         /\ \A x \in Sessions \ {s} : sess'[x] = sess[x]
<1>1. sess \in [Sessions -> Session] /\ sess[s] \in Session
  BY DEF Hub
<1>2. PICK q : q = Evicted(sess[s])
  OBVIOUS
<1>3. /\ q \in Session /\ q.active = sess[s].active /\ q.epoch = sess[s].epoch
      /\ q.gen = sess[s].gen /\ Len(q.queue) < Buffer
  BY <1>1, <1>2, SessionEvicted
<1>4. PICK r : r = Sent(q, e)
  OBVIOUS
<1>5. /\ r \in Session /\ r.active = sess[s].active /\ r.epoch = sess[s].epoch
      /\ r.gen = sess[s].gen /\ r.queue = Append(q.queue, e)
  BY <1>3, <1>4, SessionSent
<1>6. sess' = [sess EXCEPT ![s] = r]
  BY <1>2, <1>4
<1>7. /\ Quiet /\ sess' \in [Sessions -> Session] /\ sess'[s] = r
      /\ \A x \in Sessions \ {s} : sess'[x] = sess[x]
  BY <1>1, <1>5, <1>6, WholeStep
<1> QED
  BY <1>2, <1>5, <1>7

\* The events a push sends.
LEMMA ItemsSent == Dropped \in Items /\ \A w \in Workers : Request(SizeOf[w]) \in Items
BY DEF Items

-----------------------------------------------------------------------------
(* The kinds of steps *)

\* The session of the hub ends.
Ending ==
  /\ current # 0 /\ Free(current) /\ \E last \in BOOLEAN : End(current, last)
  /\ UNCHANGED <<stream, call, activity, owed>> /\ fired' \subseteq fired

\* A step that starts and ends no session, attaches no stream and gives no push
\* its session.
Aside ==
  /\ Quiet /\ UNCHANGED <<hub, activity>>
  /\ \/ UNCHANGED <<timers, stream>> /\ fired' \subseteq fired
     \/ \E s \in Sessions : \E t \in timers[s] : Fire(s, t)
     \/ \E h \in Streams : ReadEnd(h) \/ Disconnect(h)
  /\ \/ UNCHANGED <<sess, call, owed>>
     \/ \E h \in Streams : Read(h)
     \/ \E w \in Workers : Find(w) \/ Push(w)

\* A step that leaves the sessions what they are.
LEMMA QuietWhenUnchanged == UNCHANGED sess => Quiet
BY DEF Quiet

\* Every step is of one of these kinds, and keeps the types of the sessions.
LEMMA Kinds ==
  ASSUME Hub, TimerTypes, Calls, Epochs, [Next]_vars
  PROVE  /\ sess' \in [Sessions -> Session]
         /\ \/ Start \/ Ending \/ Aside
            \/ \E h \in Streams : Attach(h)
            \/ \E w \in Workers : Lock(w)
<1>0. sess \in [Sessions -> Session]
  BY DEF Hub
<1>1. CASE Start
  BY <1>1, StartStep
<1>2. CASE Stop
  <2>1. current # 0 /\ End(current, FALSE) /\ FALSE \in BOOLEAN
    BY <1>2 DEF Stop
  <2>2. sess' \in [Sessions -> Session]
    BY <2>1, EndStep
  <2>3. Ending
    BY <1>2, <2>1 DEF Stop, Ending
  <2> QED
    BY <2>2, <2>3
<1>3. CASE Shutdown
  <2>1. current # 0 /\ End(current, FALSE) /\ FALSE \in BOOLEAN
    BY <1>3 DEF Shutdown
  <2>2. sess' \in [Sessions -> Session]
    BY <2>1, EndStep
  <2>3. Ending
    BY <1>3, <2>1 DEF Shutdown, Ending
  <2> QED
    BY <2>2, <2>3
<1>4. ASSUME NEW s \in Sessions, NEW t \in timers[s], Fire(s, t)
      PROVE  sess' \in [Sessions -> Session] /\ Aside
  <2>1. UNCHANGED <<sess, hub, activity, call, owed>>
    BY <1>4 DEF Fire
  <2> QED
    BY <1>0, <1>4, <2>1, QuietWhenUnchanged DEF Aside
<1>5. ASSUME NEW c \in fired, CloseOnTimeout(c)
      PROVE  sess' \in [Sessions -> Session] /\ (Ending \/ Aside)
  <2>1. UNCHANGED <<stream, call, pushes, activity, owed>> /\ fired' \subseteq fired
    BY <1>5 DEF CloseOnTimeout
  <2>2. CASE current = c.session /\ sess[c.session].active /\ UpToDate(c)
    <3>1. End(current, c.timer.reason # "grace") /\ Free(current)
      BY <1>5, <2>2 DEF CloseOnTimeout
    <3>2. current # 0 /\ (c.timer.reason # "grace") \in BOOLEAN
      <4>1. c.session \in 1..started
        BY DEF TimerTypes
      <4> QED
        BY <2>2, <4>1
    <3>3. sess' \in [Sessions -> Session]
      BY <3>1, <3>2, EndStep
    <3>4. Ending
      BY <2>1, <3>1, <3>2 DEF Ending
    <3> QED
      BY <3>3, <3>4
  <2>3. CASE ~(current = c.session /\ sess[c.session].active /\ UpToDate(c))
    <3>1. UNCHANGED <<hub, sess, timers>>
      BY <1>5, <2>3 DEF CloseOnTimeout
    <3> QED
      BY <1>0, <2>1, <3>1, QuietWhenUnchanged DEF Aside
  <2> QED
    BY <2>2, <2>3
<1>6. ASSUME NEW h \in Streams, Attach(h)
      PROVE  sess' \in [Sessions -> Session]
  BY <1>6, AttachStep
<1>7. ASSUME NEW h \in Streams, Read(h)
      PROVE  sess' \in [Sessions -> Session] /\ Aside
  <2>1. Quiet /\ sess' \in [Sessions -> Session]
    BY <1>7, ReadStep
  <2> QED
    BY <1>7, <2>1 DEF Read, Aside
<1>8. ASSUME NEW h \in Streams, ReadEnd(h) \/ Disconnect(h)
      PROVE  sess' \in [Sessions -> Session] /\ Aside
  <2>1. UNCHANGED <<hub, sess, activity, call, owed>>
    BY <1>8 DEF ReadEnd, Disconnect
  <2> QED
    BY <1>0, <1>8, <2>1, QuietWhenUnchanged DEF Aside
<1>9. ASSUME NEW w \in Workers, Find(w) \/ Abandon(w) \/ TestCap(w)
      PROVE  sess' \in [Sessions -> Session] /\ Aside
  <2>1. UNCHANGED <<hub, sess, timers, fired, stream, activity>>
    BY <1>9 DEF Find, Abandon, TestCap
  <2> QED
    BY <1>0, <1>9, <2>1, QuietWhenUnchanged DEF Aside, Push
<1>10. ASSUME NEW w \in Workers, Lock(w)
       PROVE  sess' \in [Sessions -> Session]
  BY <1>10, LockStep
<1>11. ASSUME NEW w \in Workers,
              Receive(w) \/ Send(w) \/ SendAgain(w) \/ Notify(w) \/ NotifyAgain(w)
       PROVE  sess' \in [Sessions -> Session] /\ Aside
  <2>1. UNCHANGED <<hub, timers, fired, stream, activity>> /\ call[w].pc # "ready"
    BY <1>11 DEF Receive, Send, SendAgain, Notify, NotifyAgain
  <2>2. PICK s : s = call[w].session
    OBVIOUS
  <2>3. s \in Sessions /\ Request(SizeOf[w]) \in Items /\ Dropped \in Items
    BY <2>1, <2>2, Held, ItemsSent
  <2>4. PICK e : e = Request(SizeOf[w])
    OBVIOUS
  <2>5. PICK d : d = Dropped
    OBVIOUS
  <2>6. \/ sess' = [sess EXCEPT ![s] = Evicted(@)]
        \/ sess' = [sess EXCEPT ![s] = Sent(@, e)]
        \/ sess' = [sess EXCEPT ![s] = Sent(Evicted(@), e)]
        \/ sess' = [sess EXCEPT ![s] = Sent(@, d)]
        \/ sess' = [sess EXCEPT ![s] = Sent(Evicted(@), d)]
    BY <1>11, <2>2, <2>4, <2>5 DEF Receive, Send, SendAgain, Notify, NotifyAgain
  <2>7. Quiet /\ sess' \in [Sessions -> Session]
    BY <2>3, <2>4, <2>5, <2>6, EvictStep, SendStep, MakeRoomStep
  <2> QED
    BY <1>11, <2>1, <2>7 DEF Aside, Push
<1>12. CASE UNCHANGED vars
  <2>1. UNCHANGED <<hub, sess, timers, fired, stream, activity, call, owed>>
    BY <1>12 DEF vars
  <2> QED
    BY <1>0, <2>1, QuietWhenUnchanged DEF Aside
<1> QED
  BY <1>1, <1>2, <1>3, <1>4, <1>5, <1>6, <1>7, <1>8, <1>9, <1>10, <1>11, <1>12 DEF Next, Push

-----------------------------------------------------------------------------
(* The parts of the invariant *)

\* The session of the hub stays the active one.
LEMMA HubNext == Hub /\ TimerTypes /\ Calls /\ Epochs /\ [Next]_vars => Hub'
<1> SUFFICES ASSUME Hub, TimerTypes, Calls, Epochs, [Next]_vars PROVE Hub'
  OBVIOUS
<1>0. /\ sess' \in [Sessions -> Session] /\ sess \in [Sessions -> Session]
      /\ started \in 0..MaxSessions /\ current \in 0..started /\ MaxSessions \in Nat
      /\ \A s \in Sessions : sess[s].active <=> current = s
  BY Kinds, DebugHubAssumption DEF Hub, DebugHubAssumption
<1>1. CASE Start
  <2>1. started' = started + 1 /\ current' = started + 1 /\ started < MaxSessions
    BY <1>1 DEF Start
  <2>2. \A x \in Sessions : sess'[x].active <=> x = started + 1
    BY <1>1, StartStep
  <2>3. started' \in 0..MaxSessions /\ current' \in 0..started'
    BY <1>0, <2>1
  <2> QED
    BY <1>0, <2>1, <2>2, <2>3 DEF Hub
<1>2. CASE Ending
  <2>1. current' = 0 /\ started' = started /\ \A x \in Sessions : ~sess'[x].active
    BY <1>2, EndStep DEF Ending
  <2> QED
    BY <1>0, <2>1 DEF Hub, Sessions
<1>3. ASSUME NEW h \in Streams, Attach(h) PROVE Hub'
  <2>1. UNCHANGED <<started, current>>
    BY <1>3 DEF Attach, hub
  <2>2. \A x \in Sessions : sess'[x].active = sess[x].active
    BY <1>3, AttachStep
  <2> QED
    BY <1>0, <2>1, <2>2 DEF Hub
<1>4. ASSUME NEW w \in Workers, Lock(w) PROVE Hub'
  <2>1. UNCHANGED <<started, current>>
    BY <1>4 DEF Lock, hub
  <2>2. \A x \in Sessions : sess'[x].active = sess[x].active
    BY <1>4, LockStep
  <2> QED
    BY <1>0, <2>1, <2>2 DEF Hub
<1>5. CASE Aside
  <2>1. UNCHANGED <<started, current>>
    BY <1>5 DEF Aside, hub
  <2>2. \A x \in Sessions : sess'[x].active = sess[x].active
    BY <1>5 DEF Aside, Quiet
  <2> QED
    BY <1>0, <2>1, <2>2 DEF Hub
<1> QED
  BY <1>1, <1>2, <1>3, <1>4, <1>5, Kinds

\* The generations count what happens to a session.
LEMMA GenerationsNext ==
  Hub /\ TimerTypes /\ Calls /\ Epochs /\ Generations /\ [Next]_vars => Generations'
<1> SUFFICES ASSUME Hub, TimerTypes, Calls, Epochs, Generations, [Next]_vars PROVE Generations'
  OBVIOUS
<1>0. /\ activity \in [Sessions -> Nat]
      /\ \A s \in Sessions : s <= started => sess[s].gen = activity[s] + 1
      /\ \A s \in Sessions : s > started => StreamsOf(s) = {} /\ activity[s] = 0
      /\ started \in Nat /\ current \in 0..started /\ Sessions \subseteq Nat
  BY DEF Generations, Hub, Sessions
<1>1. CASE Start
  <2>1. UNCHANGED <<stream, activity>> /\ started' = started + 1
    BY <1>1 DEF Start
  <2>2. \A x \in Sessions : sess'[x].gen = IF x = started + 1 THEN 1 ELSE sess[x].gen
    BY <1>1, StartStep
  <2>3. \A s \in Sessions : s <= started' => sess'[s].gen = activity'[s] + 1
    BY <1>0, <2>1, <2>2
  <2>4. \A s \in Sessions : s > started' => StreamsOf(s)' = {} /\ activity'[s] = 0
    <3>1. \A s : StreamsOf(s)' = StreamsOf(s)
      BY <2>1 DEF StreamsOf
    <3>2. \A s \in Sessions : s > started' => s > started
      BY <1>0, <2>1
    <3> QED
      BY <1>0, <2>1, <3>1, <3>2
  <2> QED
    BY <1>0, <2>1, <2>3, <2>4 DEF Generations
<1>2. CASE Ending
  <2>1. UNCHANGED <<stream, activity, started>> /\ \A x \in Sessions : sess'[x].gen = sess[x].gen
    BY <1>2, EndStep DEF Ending
  <2> QED
    BY <1>0, <2>1 DEF Generations, StreamsOf
<1>3. ASSUME NEW h \in Streams, Attach(h) PROVE Generations'
  <2>1. /\ started' = started /\ activity' = [activity EXCEPT ![current] = @ + 1]
        /\ stream' = [stream EXCEPT ![h] =
             [pc |-> "reading", session |-> current, epoch |-> sess[current].epoch + 1]]
        /\ current # 0
    BY <1>3 DEF Attach, hub
  <2>2. current \in Sessions
        /\ \A x \in Sessions :
             sess'[x].gen = IF x = current THEN sess[x].gen + 1 ELSE sess[x].gen
    BY <1>3, AttachStep
  <2>3. /\ activity' \in [Sessions -> Nat]
        /\ activity'[current] = activity[current] + 1 /\ activity[current] \in Nat
        /\ \A x \in Sessions \ {current} : activity'[x] = activity[x]
    BY <1>0, <2>1, <2>2
  <2>4. ASSUME NEW s \in Sessions, s <= started PROVE sess'[s].gen = activity'[s] + 1
    <3>1. sess[s].gen = activity[s] + 1 /\ activity[s] \in Nat
      BY <1>0, <2>4
    <3> QED
      BY <2>2, <2>3, <3>1
  <2>5. ASSUME NEW s \in Sessions, s > started PROVE StreamsOf(s)' = {} /\ activity'[s] = 0
    <3>1. s # current /\ StreamsOf(s) = {} /\ activity[s] = 0
      BY <1>0, <2>5
    <3>2. \A k \in Streams : stream'[k].session = s => stream[k].session = s
      BY <2>1, <3>1 DEF Epochs
    <3> QED
      BY <2>3, <3>1, <3>2 DEF StreamsOf
  <2> QED
    BY <2>1, <2>3, <2>4, <2>5 DEF Generations
<1>4. ASSUME NEW w \in Workers, Lock(w) PROVE Generations'
  <2>0. PICK c : c = call[w].session
    OBVIOUS
  <2>1. /\ started' = started /\ activity' = [activity EXCEPT ![c] = @ + 1]
        /\ stream' = stream /\ c \in 1..started
    BY <1>4, <2>0 DEF Lock, hub, Calls
  <2>2. c \in Sessions
        /\ \A x \in Sessions : sess'[x].gen = IF x = c THEN sess[x].gen + 1 ELSE sess[x].gen
    BY <1>4, <2>0, LockStep
  <2>3. /\ activity' \in [Sessions -> Nat]
        /\ activity'[c] = activity[c] + 1 /\ activity[c] \in Nat
        /\ \A x \in Sessions \ {c} : activity'[x] = activity[x]
    BY <1>0, <2>1, <2>2
  <2>4. ASSUME NEW s \in Sessions, s <= started PROVE sess'[s].gen = activity'[s] + 1
    <3>1. sess[s].gen = activity[s] + 1 /\ activity[s] \in Nat
      BY <1>0, <2>4
    <3> QED
      BY <2>2, <2>3, <3>1
  <2>5. ASSUME NEW s \in Sessions, s > started PROVE StreamsOf(s)' = {} /\ activity'[s] = 0
    <3>1. s # c /\ StreamsOf(s) = {} /\ activity[s] = 0
      BY <1>0, <2>1, <2>5
    <3> QED
      BY <2>1, <2>3, <3>1 DEF StreamsOf
  <2> QED
    BY <2>1, <2>3, <2>4, <2>5 DEF Generations
<1>5. CASE Aside
  <2>1. UNCHANGED <<started, activity>> /\ \A x \in Sessions : sess'[x].gen = sess[x].gen
    BY <1>5 DEF Aside, Quiet, hub
  <2>2. \A s \in Sessions : StreamsOf(s)' = StreamsOf(s)
    <3>1. \A h \in Streams : stream'[h].session = stream[h].session
      <4>1. CASE UNCHANGED stream
        BY <4>1
      <4>2. ASSUME NEW k \in Streams,
                   stream' = [stream EXCEPT ![k].pc = "ended", ![k].epoch = 0]
            PROVE  \A h \in Streams : stream'[h].session = stream[h].session
        BY <4>2 DEF Epochs
      <4>3. UNCHANGED stream \/ \E k \in Streams : stream' =
              [stream EXCEPT ![k].pc = "ended", ![k].epoch = 0]
        BY <1>5 DEF Aside, Fire, ReadEnd, Disconnect
      <4> QED
        BY <4>1, <4>2, <4>3
    <3> QED
      BY <3>1 DEF StreamsOf
  <2> QED
    BY <1>0, <2>1, <2>2 DEF Generations
<1> QED
  BY <1>1, <1>2, <1>3, <1>4, <1>5, Kinds

\* A step that attaches no stream; one may have gone.
Settled ==
  /\ \A s \in Sessions : sess'[s].epoch = sess[s].epoch
  /\ 1..started \subseteq 1..started'
  /\ stream' \in [Streams -> [pc : {"new", "reading", "ended"},
                              session : 0..MaxSessions, epoch : Nat]]
  /\ \A h \in Streams :
       /\ stream'[h].session = stream[h].session
       /\ stream'[h].pc = "new" => stream[h].pc = "new"
       /\ stream'[h].pc = "reading" =>
            stream[h].pc = "reading" /\ stream'[h].epoch = stream[h].epoch

\* A stream that goes leaves the others where they are.
LEMMA LeavingSettled ==
  ASSUME Epochs, NEW k \in Streams,
         stream' = [stream EXCEPT ![k].pc = "ended", ![k].epoch = 0]
  PROVE  /\ stream' \in [Streams -> [pc : {"new", "reading", "ended"},
                                     session : 0..MaxSessions, epoch : Nat]]
         /\ \A h \in Streams :
              /\ stream'[h].session = stream[h].session
              /\ stream'[h].pc = "new" => stream[h].pc = "new"
              /\ stream'[h].pc = "reading" =>
                   h # k /\ stream[h].pc = "reading" /\ stream'[h].epoch = stream[h].epoch
<1> DEFINE Stream == [pc : {"new", "reading", "ended"}, session : 0..MaxSessions, epoch : Nat]
<1>1. stream \in [Streams -> Stream]
  BY DEF Epochs
<1>2. PICK r : r = stream'[k]
  OBVIOUS
<1>3. PICK r1 : r1 = [stream[k] EXCEPT !.pc = "ended"]
  OBVIOUS
<1>4. /\ r1.pc = "ended" /\ r1.session = stream[k].session
      /\ r1 = [pc |-> "ended", session |-> stream[k].session, epoch |-> stream[k].epoch]
  BY <1>1, <1>3
<1>5. r = [r1 EXCEPT !.epoch = 0]
  BY <1>1, <1>2, <1>3
<1>6. r = [pc |-> "ended", session |-> stream[k].session, epoch |-> 0]
  BY <1>4, <1>5
<1>7. r \in Stream /\ r.pc = "ended" /\ r.session = stream[k].session
  BY <1>1, <1>6
<1>8. stream' = [stream EXCEPT ![k] = r]
  BY <1>1, <1>2
<1> HIDE DEF Stream
<1>9. stream' \in [Streams -> Stream] /\ \A h \in Streams \ {k} : stream'[h] = stream[h]
  BY <1>1, <1>7, <1>8
<1>10. \A h \in Streams :
         /\ stream'[h].session = stream[h].session
         /\ stream'[h].pc = "new" => stream[h].pc = "new"
         /\ stream'[h].pc = "reading" =>
              h # k /\ stream[h].pc = "reading" /\ stream'[h].epoch = stream[h].epoch
  BY <1>2, <1>7, <1>9
<1> QED
  BY <1>9, <1>10 DEF Stream

\* All steps but the attachment of a stream are.
LEMMA KindsSettled ==
  ASSUME Hub, TimerTypes, Calls, Epochs, [Next]_vars
  PROVE  Settled \/ \E h \in Streams : Attach(h)
<1>0. started \in 0..MaxSessions /\ MaxSessions \in Nat
  BY DebugHubAssumption DEF Hub, DebugHubAssumption
<1>1. CASE Start
  <2>1. stream' = stream /\ started' = started + 1
    BY <1>1 DEF Start
  <2>2. 1..started \subseteq 1..started'
    BY <1>0, <2>1
  <2>3. \A s \in Sessions : sess'[s].epoch = sess[s].epoch
    BY <1>1, StartStep
  <2> QED
    BY <2>1, <2>2, <2>3 DEF Settled, Epochs
<1>2. CASE Ending
  <2>1. /\ stream' = stream /\ started' = started
        /\ \A s \in Sessions : sess'[s].epoch = sess[s].epoch
    BY <1>2, EndStep DEF Ending
  <2> QED
    BY <2>1 DEF Settled, Epochs
<1>3. ASSUME NEW w \in Workers, Lock(w) PROVE Settled
  <2>1. stream' = stream /\ started' = started
    BY <1>3 DEF Lock, hub
  <2>2. \A s \in Sessions : sess'[s].epoch = sess[s].epoch
    BY <1>3, LockStep
  <2> QED
    BY <2>1, <2>2 DEF Settled, Epochs
<1>4. CASE Aside
  <2>1. started' = started /\ \A s \in Sessions : sess'[s].epoch = sess[s].epoch
    BY <1>4 DEF Aside, Quiet, hub
  <2>2. UNCHANGED stream \/ \E k \in Streams : stream' =
          [stream EXCEPT ![k].pc = "ended", ![k].epoch = 0]
    BY <1>4 DEF Aside, Fire, ReadEnd, Disconnect
  <2>3. CASE UNCHANGED stream
    BY <2>1, <2>3 DEF Settled, Epochs
  <2>4. ASSUME NEW k \in Streams, stream' = [stream EXCEPT ![k].pc = "ended", ![k].epoch = 0]
        PROVE  Settled
    BY <2>1, <2>4, LeavingSettled DEF Settled
  <2> QED
    BY <2>2, <2>3, <2>4
<1> QED
  BY <1>1, <1>2, <1>3, <1>4, Kinds

\* The epoch of a session stays the number of its streams.
LEMMA EpochsNext == Hub /\ TimerTypes /\ Calls /\ Epochs /\ [Next]_vars => Epochs'
<1> SUFFICES ASSUME Hub, TimerTypes, Calls, Epochs, [Next]_vars PROVE Epochs'
  OBVIOUS
<1>1. CASE Settled
  <2>1. \A s \in Sessions : StreamsOf(s)' = StreamsOf(s)
    BY <1>1 DEF Settled, StreamsOf
  <2>2. \A s \in Sessions : sess'[s].epoch = Cardinality(StreamsOf(s)')
    BY <1>1, <2>1 DEF Settled, Epochs
  <2>3. \A h \in Streams : stream'[h].pc = "new" => stream'[h].session = 0
    BY <1>1 DEF Settled, Epochs
  <2>4. ASSUME NEW h \in Streams, stream'[h].pc = "reading"
        PROVE  /\ stream'[h].session \in 1..started'
               /\ stream'[h].epoch <= sess'[stream'[h].session].epoch
               /\ \A k \in Streams \ {h} :
                    stream'[k].pc = "reading" /\ stream'[k].session = stream'[h].session
                      => stream'[k].epoch # stream'[h].epoch
    <3>1. /\ stream[h].pc = "reading" /\ stream'[h].epoch = stream[h].epoch
          /\ stream'[h].session = stream[h].session
      BY <1>1, <2>4 DEF Settled
    <3>2. stream[h].session \in 1..started /\ stream[h].session \in Sessions
      BY <3>1, Held DEF Epochs
    <3>3. sess'[stream[h].session].epoch = sess[stream[h].session].epoch
      BY <1>1, <3>2 DEF Settled
    <3>4. \A k \in Streams \ {h} :
            stream'[k].pc = "reading" /\ stream'[k].session = stream'[h].session
              => stream'[k].epoch # stream'[h].epoch
      BY <1>1, <3>1 DEF Settled, Epochs
    <3> QED
      BY <1>1, <3>1, <3>2, <3>3, <3>4 DEF Settled, Epochs
  <2> QED
    BY <1>1, <2>2, <2>3, <2>4 DEF Settled, Epochs
<1>2. ASSUME NEW h \in Streams, Attach(h) PROVE Epochs'
  <2> DEFINE e == sess[current].epoch + 1
             r == [pc |-> "reading", session |-> current, epoch |-> e]
  <2>1. /\ started' = started /\ stream' = [stream EXCEPT ![h] = r]
        /\ stream[h].pc = "new" /\ stream[h].session = 0 /\ current # 0
    BY <1>2 DEF Attach, hub, Epochs
  <2>2. /\ current \in Sessions /\ current \in 1..started
        /\ \A x \in Sessions :
             sess'[x].epoch = IF x = current THEN sess[x].epoch + 1 ELSE sess[x].epoch
    BY <1>2, <2>1, AttachStep, Held
  <2>3. \A x \in Sessions : sess[x].epoch \in Nat
    BY SessionFields DEF Hub
  <2>4. e \in Nat /\ current \in 0..MaxSessions
    BY <2>2, <2>3 DEF Sessions
  <2>5. /\ r \in [pc : {"new", "reading", "ended"}, session : 0..MaxSessions, epoch : Nat]
        /\ r.pc = "reading" /\ r.session = current /\ r.epoch = e
    BY <2>4
  <2> HIDE DEF r
  <2>6. /\ stream' \in [Streams -> [pc : {"new", "reading", "ended"},
                                    session : 0..MaxSessions, epoch : Nat]]
        /\ stream'[h] = r /\ \A k \in Streams \ {h} : stream'[k] = stream[k]
    BY <2>1, <2>5 DEF Epochs
  <2>7. \A k \in Streams : stream'[k].pc = "new" => stream'[k].session = 0
    BY <2>5, <2>6 DEF Epochs
  <2>8. ASSUME NEW s \in Sessions PROVE sess'[s].epoch = Cardinality(StreamsOf(s)')
    <3>1. IsFiniteSet(StreamsOf(s)) /\ h \notin StreamsOf(s)
      <4>1. StreamsOf(s) \subseteq Streams /\ s # 0
        BY DEF StreamsOf, Sessions
      <4>2. IsFiniteSet(StreamsOf(s))
        BY <4>1, DebugHubAssumption, FS_Subset DEF DebugHubAssumption
      <4> QED
        BY <2>1, <4>1, <4>2 DEF StreamsOf
    <3>2. CASE s = current
      <4>1. StreamsOf(s)' = StreamsOf(s) \cup {h}
        BY <2>5, <2>6, <3>2 DEF StreamsOf
      <4>2. Cardinality(StreamsOf(s) \cup {h}) = Cardinality(StreamsOf(s)) + 1
        BY <3>1, FS_AddElement
      <4> QED
        BY <2>2, <3>2, <4>1, <4>2 DEF Epochs
    <3>3. CASE s # current
      <4>1. StreamsOf(s)' = StreamsOf(s)
        BY <2>5, <2>6, <3>1, <3>3 DEF StreamsOf
      <4> QED
        BY <2>2, <3>3, <4>1 DEF Epochs
    <3> QED
      BY <3>2, <3>3
  <2>9. ASSUME NEW g \in Streams, stream'[g].pc = "reading"
        PROVE  /\ stream'[g].session \in 1..started'
               /\ stream'[g].epoch <= sess'[stream'[g].session].epoch
               /\ \A k \in Streams \ {g} :
                    stream'[k].pc = "reading" /\ stream'[k].session = stream'[g].session
                      => stream'[k].epoch # stream'[g].epoch
    <3>1. \A k \in Streams : stream[k].pc = "reading" /\ stream[k].session = current =>
            stream[k].epoch < e /\ stream[k].epoch # e
      <4> SUFFICES ASSUME NEW k \in Streams, stream[k].pc = "reading", stream[k].session = current
                   PROVE  stream[k].epoch < e /\ stream[k].epoch # e
        OBVIOUS
      <4>1. stream[k].epoch <= sess[current].epoch /\ stream[k].epoch \in Nat
        BY DEF Epochs
      <4> QED
        BY <2>2, <2>3, <4>1
    <3>2. CASE g = h
      <4>1. stream'[g].session = current /\ stream'[g].epoch = e /\ sess'[current].epoch = e
        BY <2>2, <2>5, <2>6, <3>2
      <4>2. \A k \in Streams \ {g} :
              stream'[k].pc = "reading" /\ stream'[k].session = current => stream'[k].epoch # e
        BY <2>6, <3>1, <3>2
      <4> QED
        BY <2>1, <2>2, <2>4, <4>1, <4>2
    <3>3. CASE g # h
      <4>1. stream'[g] = stream[g] /\ stream[g].pc = "reading"
        BY <2>6, <2>9, <3>3
      <4>2. /\ stream[g].session \in 1..started /\ stream[g].session \in Sessions
            /\ stream[g].epoch \in Nat /\ stream[g].epoch <= sess[stream[g].session].epoch
        BY <4>1, Held DEF Epochs
      <4>3. stream[g].epoch <= sess'[stream[g].session].epoch
        <5>1. sess[stream[g].session].epoch \in Nat
          BY <2>3, <4>2
        <5> QED
          BY <2>2, <4>2, <5>1
      <4>4. ASSUME NEW k \in Streams \ {g}, stream'[k].pc = "reading",
                   stream'[k].session = stream[g].session
            PROVE  stream'[k].epoch # stream[g].epoch
        <5>1. CASE k = h
          BY <2>5, <2>6, <3>1, <4>1, <4>4, <5>1
        <5>2. CASE k # h
          BY <2>6, <4>1, <4>4, <5>2 DEF Epochs
        <5> QED
          BY <5>1, <5>2
      <4> QED
        BY <2>1, <4>1, <4>2, <4>3, <4>4
    <3> QED
      BY <3>2, <3>3
  <2> QED
    BY <2>6, <2>7, <2>8, <2>9 DEF Epochs
<1> QED
  BY <1>1, <1>2, KindsSettled

\* A timer stays what it is whatever happens.
LEMMA SoundStays ==
  ASSUME Hub, TimerTypes, Calls, Epochs, [Next]_vars,
         NEW s \in Sessions, NEW t \in Timers, Sound(s, t)
  PROVE  Sound(s, t)'
<1>0. t.epoch \in Nat /\ \A x \in Sessions : sess[x].epoch \in Nat
  BY SessionFields DEF Hub, Timers
<1>1. CASE Settled
  BY <1>1 DEF Settled, Sound
<1>2. ASSUME NEW h \in Streams, Attach(h) PROVE Sound(s, t)'
  <2>1. /\ stream \in [Streams -> [pc : {"new", "reading", "ended"},
                                   session : 0..MaxSessions, epoch : Nat]]
        /\ stream' = [stream EXCEPT ![h] =
             [pc |-> "reading", session |-> current, epoch |-> sess[current].epoch + 1]]
    BY <1>2 DEF Attach, Epochs
  <2>2. /\ current \in Sessions
        /\ \A x \in Sessions :
             sess'[x].epoch = IF x = current THEN sess[x].epoch + 1 ELSE sess[x].epoch
    BY <1>2, AttachStep
  <2>3. ASSUME t.reason = "grace"
        PROVE  /\ t.epoch <= sess'[s].epoch
               /\ \A k \in Streams :
                    stream'[k].pc = "reading" /\ stream'[k].session = s
                      => stream'[k].epoch # t.epoch
    <3>1. /\ t.epoch <= sess[s].epoch
          /\ \A k \in Streams :
               stream[k].pc = "reading" /\ stream[k].session = s => stream[k].epoch # t.epoch
      BY <2>3 DEF Sound
    <3>2. t.epoch <= sess'[s].epoch /\ (s = current => t.epoch # sess[current].epoch + 1)
      BY <1>0, <2>2, <3>1
    <3>3. ASSUME NEW k \in Streams, stream'[k].pc = "reading", stream'[k].session = s
          PROVE  stream'[k].epoch # t.epoch
      <4>1. CASE k = h
        <5>1. stream'[k].session = current /\ stream'[k].epoch = sess[current].epoch + 1
          BY <2>1, <4>1
        <5> QED
          BY <3>2, <3>3, <5>1
      <4>2. CASE k # h
        BY <2>1, <3>1, <3>3, <4>2
      <4> QED
        BY <4>1, <4>2
    <3> QED
      BY <3>2, <3>3
  <2> QED
    BY <2>3 DEF Sound
<1> QED
  BY <1>1, <1>2, KindsSettled

\* Timers that are kept apart by their reason, ...
Apart(ts) == ts \subseteq Timers /\ \A t1, t2 \in ts : t1.reason = t2.reason => t1 = t2

\* ... and stay so with one that replaces those of its reason.
LEMMA Replaced ==
  ASSUME NEW ts, Apart(ts), NEW t \in Timers, NEW gone, t.reason \in gone
  PROVE  Apart(Without(ts, gone) \cup {t})
BY DEF Apart, Without

\* A timer by its fields.
LEMMA TimerFields ==
  ASSUME NEW r \in {"no_attach", "idle", "expired", "grace"}, NEW e \in Nat, NEW g \in Nat,
         NEW a \in Nat
  PROVE  /\ Timer(r, e, g, a) \in Timers /\ Timer(r, e, g, a).reason = r
         /\ Timer(r, e, g, a).epoch = e /\ Timer(r, e, g, a).gen = g
         /\ Timer(r, e, g, a).activity = a
BY DEF Timer, Timers

\* The idle timer of a session, started again, is sound.
LEMMA IdleTimerSound ==
  ASSUME Hub, Generations, NEW s \in Sessions, s <= started, NEW e \in Nat,
         NEW t, t = IdleTimer(s, e)
  PROVE  t \in Timers /\ t.reason = "idle" /\ Sound(s, t)'
<1>1. /\ sess[s].gen \in Nat /\ activity[s] \in Nat /\ sess[s].gen = activity[s] + 1
  BY SessionFields DEF Hub, Generations
<1>2. PICK g \in Nat : g = sess[s].gen + 1
  BY <1>1
<1>3. PICK a \in Nat : a = activity[s] + 1
  BY <1>1
<1>4. t = Timer("idle", e, g, a)
  BY <1>2, <1>3 DEF IdleTimer
<1>5. t \in Timers /\ t.reason = "idle" /\ t.gen = g /\ t.activity = a
  BY <1>4, TimerFields
<1>6. g = a + 1
  BY <1>1, <1>2, <1>3
<1> QED
  BY <1>5, <1>6 DEF Sound

\* The timers of a session that are there next were there, or are sound.
Kept(s) ==
  /\ Apart(timers'[s])
  /\ \A t \in timers'[s] : t \in timers[s] \/ Sound(s, t)'

\* The timers after a step, if each session keeps its timers so.
LEMMA TimersKept ==
  ASSUME Hub, TimerTypes, TimersSound, Calls, Epochs, [Next]_vars,
         timers' = [s \in Sessions |-> timers'[s]],
         \A s \in Sessions : Kept(s) /\ (~sess'[s].active => timers'[s] = {}),
         \A c \in fired' :
           c.session \in 1..started /\ c.timer \in Timers /\ Sound(c.session, c.timer),
         1..started \subseteq 1..started'
  PROVE  (TimerTypes /\ TimersSound)'
<1>1. timers' \in [Sessions -> SUBSET Timers]
  <2>1. \A s \in Sessions : timers'[s] \in SUBSET Timers
    BY DEF Kept, Apart
  <2> QED
    BY <2>1
<1>2. \A s \in Sessions :
        /\ ~sess'[s].active => timers'[s] = {}
        /\ \A t1, t2 \in timers'[s] : t1.reason = t2.reason => t1 = t2
  BY DEF Kept, Apart
<1>3. \A c \in fired' : c.session \in 1..started' /\ c.timer \in Timers
  OBVIOUS
<1>4. ASSUME NEW s \in Sessions, NEW t \in timers'[s] PROVE Sound(s, t)'
  <2>1. t \in timers[s] \/ Sound(s, t)'
    BY DEF Kept
  <2>2. ASSUME t \in timers[s] PROVE Sound(s, t)'
    <3>1. t \in Timers /\ Sound(s, t)
      BY <2>2 DEF TimerTypes, TimersSound
    <3> QED
      BY <3>1, SoundStays
  <2> QED
    BY <2>1, <2>2
<1>5. ASSUME NEW c \in fired' PROVE Sound(c.session, c.timer)'
  <2>1. PICK s \in Sessions : s = c.session
    BY Held
  <2>2. PICK t \in Timers : t = c.timer
    OBVIOUS
  <2>3. Sound(s, t)
    BY <2>1, <2>2
  <2>4. Sound(s, t)'
    BY <2>3, SoundStays
  <2> QED
    BY <2>1, <2>2, <2>4
<1>6. TimerTypes'
  BY <1>1, <1>2, <1>3 DEF TimerTypes
<1>7. TimersSound'
  BY <1>4, <1>5 DEF TimersSound
<1> QED
  BY <1>6, <1>7

\* Timers that are not there are sound.
LEMMA KeptWhenFewer ==
  ASSUME TimerTypes, NEW s \in Sessions, timers'[s] \subseteq timers[s]
  PROVE  Kept(s)
BY DEF TimerTypes, Kept, Apart

\* A timer that replaces those of its reason.
LEMMA KeptWhenReplaced ==
  ASSUME TimerTypes, NEW s \in Sessions, NEW t \in Timers, NEW gone, t.reason \in gone,
         timers'[s] = Without(timers[s], gone) \cup {t}, Sound(s, t)'
  PROVE  Kept(s)
<1>1. Apart(timers[s])
  BY DEF TimerTypes, Apart
<1>2. Apart(timers'[s])
  BY <1>1, Replaced
<1> QED
  BY <1>2 DEF Kept, Without

\* The timers stay sound.
LEMMA TimersNext ==
  /\ Hub /\ TimerTypes /\ TimersSound /\ Calls /\ Epochs /\ Generations /\ [Next]_vars
  => (TimerTypes /\ TimersSound)'
<1> SUFFICES ASSUME Hub, TimerTypes, TimersSound, Calls, Epochs, Generations, [Next]_vars
             PROVE  (TimerTypes /\ TimersSound)'
  OBVIOUS
<1>0. /\ timers \in [Sessions -> SUBSET Timers]
      /\ \A c \in fired :
           c.session \in 1..started /\ c.timer \in Timers /\ Sound(c.session, c.timer)
      /\ \A s \in Sessions : ~sess[s].active => timers[s] = {}
      /\ \A s \in Sessions : timers[s] \subseteq Timers
  BY DEF TimerTypes, TimersSound
<1>a. /\ started \in Nat /\ current \in 0..started
       /\ \A s \in Sessions : sess[s].active <=> current = s
  BY DEF Hub
<1>1. CASE Start
  <2>1. /\ started' = started + 1 /\ fired' = fired
        /\ timers' = [IF current # 0 THEN Stopped(current) ELSE timers
                        EXCEPT ![started + 1] = StartTimers]
    BY <1>1 DEF Start
  <2>2. /\ started + 1 \in Sessions
        /\ \A x \in Sessions : sess'[x].active <=> x = started + 1
    BY <1>1, StartStep
  <2>3. PICK f : f = IF current # 0 THEN Stopped(current) ELSE timers
    OBVIOUS
  <2>4. f \in [Sessions -> SUBSET Timers] /\ \A s \in Sessions : f[s] = {}
    <3>1. CASE current = 0
      BY <1>0, <1>a, <2>3, <3>1 DEF Sessions
    <3>2. CASE current # 0
      <4>1. f = [timers EXCEPT ![current] = {}]
        BY <2>3, <3>2 DEF Stopped
      <4>2. f \in [Sessions -> SUBSET Timers]
        BY <1>0, <4>1
      <4> QED
        BY <1>0, <1>a, <4>1, <4>2
    <3> QED
      BY <3>1, <3>2
  <2>5. /\ timers' = [s \in Sessions |-> timers'[s]]
        /\ timers'[started + 1] = StartTimers
        /\ \A s \in Sessions \ {started + 1} : timers'[s] = {}
    BY <2>1, <2>2, <2>3, <2>4
  <2>6. ASSUME NEW t \in StartTimers, NEW s \in Sessions PROVE t \in Timers /\ Sound(s, t)'
    <3>1. 0 \in Nat /\ 1 \in Nat /\ 1 = 0 + 1
      OBVIOUS
    <3>2. CASE t = Timer("no_attach", 0, 0, 0)
      <4>1. t \in Timers /\ t.reason = "no_attach" /\ t.epoch = 0
        BY <3>1, <3>2, TimerFields
      <4> QED
        BY <4>1 DEF Sound
    <3>3. CASE t = Timer("idle", 0, 1, 0)
      <4>1. t \in Timers /\ t.reason = "idle" /\ t.gen = 1 /\ t.activity = 0
        BY <3>1, <3>3, TimerFields
      <4> QED
        BY <3>1, <4>1 DEF Sound
    <3>4. CASE t = Timer("expired", 0, 0, 0)
      <4>1. t \in Timers /\ t.reason = "expired"
        BY <3>1, <3>4, TimerFields
      <4> QED
        BY <4>1 DEF Sound
    <3> QED
      BY <3>2, <3>3, <3>4 DEF StartTimers
  <2>7. Apart(StartTimers)
    BY <2>2, <2>6 DEF Apart, StartTimers, Timer
  <2>8. \A s \in Sessions : Kept(s) /\ (~sess'[s].active => timers'[s] = {})
    BY <2>2, <2>5, <2>6, <2>7 DEF Kept, Apart
  <2>9. 1..started \subseteq 1..started'
    BY <1>a, <2>1
  <2> QED
    BY <1>0, <2>1, <2>5, <2>8, <2>9, TimersKept
<1>2. CASE Ending
  <2>1. /\ current \in Sessions /\ started' = started /\ fired' \subseteq fired
        /\ timers' = Stopped(current)
    BY <1>2, EndStep DEF Ending, End
  <2>2. timers' = [s \in Sessions |-> timers'[s]] /\ \A s \in Sessions : timers'[s] = {}
    BY <1>0, <1>a, <2>1 DEF Stopped
  <2>3. \A s \in Sessions : Kept(s) /\ (~sess'[s].active => timers'[s] = {})
    BY <2>2, KeptWhenFewer
  <2>4. \A c \in fired' :
          c.session \in 1..started /\ c.timer \in Timers /\ Sound(c.session, c.timer)
    BY <1>0, <2>1
  <2> QED
    BY <2>1, <2>2, <2>3, <2>4, TimersKept
<1>3. ASSUME NEW h \in Streams, Attach(h) PROVE (TimerTypes /\ TimersSound)'
  <2>0. PICK s : s = current
    OBVIOUS
  <2>1. PICK e : e = sess[s].epoch + 1
    OBVIOUS
  <2>2. PICK t : t = IdleTimer(s, e)
    OBVIOUS
  <2>3. /\ started' = started /\ fired' = fired
        /\ timers' = [timers EXCEPT ![s] =
                        Without(timers[s], {"no_attach", "grace", "idle"}) \cup {t}]
    BY <1>3, <2>0, <2>1, <2>2 DEF Attach, hub, Attached
  <2>4. /\ s \in Sessions /\ s <= started
        /\ \A x \in Sessions : sess'[x].active = sess[x].active
    BY <1>3, <1>a, <2>0, AttachStep
  <2>5. e \in Nat
    BY <2>1, <2>4, SessionFields DEF Hub
  <2>6. t \in Timers /\ t.reason = "idle" /\ Sound(s, t)'
    BY <2>2, <2>4, <2>5, IdleTimerSound
  <2>7. /\ timers' = [x \in Sessions |-> timers'[x]]
        /\ timers'[s] = Without(timers[s], {"no_attach", "grace", "idle"}) \cup {t}
        /\ \A x \in Sessions \ {s} : timers'[x] = timers[x]
    BY <1>0, <2>3, <2>4
  <2>8. Kept(s)
    <3>1. t.reason \in {"no_attach", "grace", "idle"}
      BY <2>6
    <3> QED
      BY <2>4, <2>6, <2>7, <3>1, KeptWhenReplaced
  <2>9. \A x \in Sessions \ {s} : Kept(x)
    BY <2>7, KeptWhenFewer
  <2>10. \A x \in Sessions : ~sess'[x].active => timers'[x] = {}
    <3>1. sess[s].active
      BY <1>a, <2>0, <2>4
    <3> QED
      BY <1>0, <2>4, <2>7, <3>1
  <2> QED
    BY <1>0, <2>3, <2>7, <2>8, <2>9, <2>10, TimersKept
<1>4. ASSUME NEW w \in Workers, Lock(w) PROVE (TimerTypes /\ TimersSound)'
  <2>0. PICK s : s = call[w].session
    OBVIOUS
  <2>1. PICK e : e = sess[s].epoch
    OBVIOUS
  <2>2. PICK t : t = IdleTimer(s, e)
    OBVIOUS
  <2>3. /\ started' = started /\ fired' = fired /\ sess[s].active
        /\ timers' = [timers EXCEPT ![s] = Without(timers[s], {"idle"}) \cup {t}]
    <3>1. timers' = [timers EXCEPT ![s] = Without(@, {"idle"}) \cup {t}]
      BY <1>4, <2>0, <2>1, <2>2 DEF Lock
    <3> QED
      BY <1>4, <2>0, <3>1 DEF Lock, hub
  <2>4. /\ s \in Sessions /\ s <= started
        /\ \A x \in Sessions : sess'[x].active = sess[x].active
    <3>1. s \in 1..started
      BY <1>4, <2>0 DEF Lock, Calls
    <3> QED
      BY <1>4, <2>0, <3>1, LockStep
  <2>5. e \in Nat
    BY <2>1, <2>4, SessionFields DEF Hub
  <2>6. t \in Timers /\ t.reason = "idle" /\ Sound(s, t)'
    BY <2>2, <2>4, <2>5, IdleTimerSound
  <2>7. /\ timers' = [x \in Sessions |-> timers'[x]]
        /\ timers'[s] = Without(timers[s], {"idle"}) \cup {t}
        /\ \A x \in Sessions \ {s} : timers'[x] = timers[x]
    BY <1>0, <2>3, <2>4
  <2>8. Kept(s)
    <3>1. t.reason \in {"idle"}
      BY <2>6
    <3> QED
      BY <2>4, <2>6, <2>7, <3>1, KeptWhenReplaced
  <2>9. \A x \in Sessions \ {s} : Kept(x)
    BY <2>7, KeptWhenFewer
  <2>10. \A x \in Sessions : ~sess'[x].active => timers'[x] = {}
    BY <1>0, <2>3, <2>4, <2>7
  <2> QED
    BY <1>0, <2>3, <2>7, <2>8, <2>9, <2>10, TimersKept
<1>5. CASE Aside
  <2>0. started' = started /\ \A x \in Sessions : sess'[x].active = sess[x].active
    BY <1>5 DEF Aside, Quiet, hub
  <2>1. CASE UNCHANGED timers /\ fired' \subseteq fired
    <3>1. \A s \in Sessions : Kept(s) /\ (~sess'[s].active => timers'[s] = {})
      BY <1>0, <2>0, <2>1, KeptWhenFewer
    <3>2. timers' = [x \in Sessions |-> timers'[x]]
      BY <1>0, <2>1
    <3>3. \A c \in fired' :
            c.session \in 1..started /\ c.timer \in Timers /\ Sound(c.session, c.timer)
      BY <1>0, <2>1
    <3> QED
      BY <2>0, <3>1, <3>2, <3>3, TimersKept
  <2>2. ASSUME NEW s \in Sessions, NEW t \in timers[s], Fire(s, t)
        PROVE  (TimerTypes /\ TimersSound)'
    <3>1. /\ timers' = [timers EXCEPT ![s] = timers[s] \ {t}]
          /\ fired' = fired \cup {[session |-> s, timer |-> t]}
      BY <2>2 DEF Fire
    <3>2. /\ timers' = [x \in Sessions |-> timers'[x]]
          /\ \A x \in Sessions : timers'[x] \subseteq timers[x]
      BY <1>0, <3>1
    <3>3. \A x \in Sessions : Kept(x) /\ (~sess'[x].active => timers'[x] = {})
      BY <1>0, <2>0, <3>2, KeptWhenFewer
    <3>4. s \in 1..started /\ t \in Timers /\ Sound(s, t)
      <4>1. sess[s].active
        BY <1>0
      <4>2. current = s /\ s # 0 /\ s \in Nat
        BY <1>a, <4>1 DEF Sessions
      <4> QED
        BY <1>0, <1>a, <4>2 DEF TimersSound
    <3>5. ASSUME NEW c \in fired'
          PROVE  c.session \in 1..started /\ c.timer \in Timers /\ Sound(c.session, c.timer)
      <4>1. CASE c \in fired
        BY <1>0, <4>1
      <4>2. CASE c = [session |-> s, timer |-> t]
        <5>1. c.session = s /\ c.timer = t
          BY <4>2
        <5> QED
          BY <3>4, <5>1
      <4> QED
        BY <3>1, <4>1, <4>2
    <3> QED
      BY <2>0, <3>2, <3>3, <3>5, TimersKept
  <2>3. ASSUME NEW h \in Streams, Disconnect(h), ~UNCHANGED timers
        PROVE  (TimerTypes /\ TimersSound)'
    <3>1. PICK s : s = stream[h].session
      OBVIOUS
    <3>2. PICK e : e = stream[h].epoch
      OBVIOUS
    <3>3. PICK t : t = Timer("grace", e, 0, 0)
      OBVIOUS
    <3>4. /\ stream[h].pc = "reading" /\ fired' = fired /\ sess[s].active
          /\ stream' = [stream EXCEPT ![h].pc = "ended", ![h].epoch = 0]
          /\ timers' = [timers EXCEPT ![s] = Without(@, {"grace"}) \cup {t}]
      BY <2>3, <3>1, <3>2, <3>3 DEF Disconnect
    <3>5. /\ s \in Sessions /\ e \in Nat /\ e <= sess[s].epoch
          /\ \A k \in Streams \ {h} :
               stream[k].pc = "reading" /\ stream[k].session = s => stream[k].epoch # e
      BY <3>1, <3>2, <3>4, Held DEF Epochs
    <3>6. t \in Timers /\ t.reason = "grace" /\ t.epoch = e
      <4>1. 0 \in Nat
        OBVIOUS
      <4> QED
        BY <3>3, <3>5, <4>1, TimerFields
    <3>7. Sound(s, t)'
      <4>1. sess'[s].epoch = sess[s].epoch
        BY <1>5, <3>5 DEF Aside, Quiet
      <4>2. \A k \in Streams :
              /\ stream'[k].session = stream[k].session
              /\ stream'[k].pc = "reading" =>
                   k # h /\ stream[k].pc = "reading" /\ stream'[k].epoch = stream[k].epoch
        BY <3>4, LeavingSettled
      <4> QED
        BY <3>5, <3>6, <4>1, <4>2 DEF Sound
    <3>8. /\ timers' = [x \in Sessions |-> timers'[x]]
          /\ timers'[s] = Without(timers[s], {"grace"}) \cup {t}
          /\ \A x \in Sessions \ {s} : timers'[x] = timers[x]
      BY <1>0, <3>4, <3>5
    <3>9. Kept(s)
      <4>1. t.reason \in {"grace"}
        BY <3>6
      <4> QED
        BY <3>5, <3>6, <3>7, <3>8, <4>1, KeptWhenReplaced
    <3>10. \A x \in Sessions \ {s} : Kept(x)
      BY <3>8, KeptWhenFewer
    <3>11. \A x \in Sessions : ~sess'[x].active => timers'[x] = {}
      BY <1>0, <2>0, <3>4, <3>8
    <3> QED
      BY <1>0, <2>0, <3>4, <3>8, <3>9, <3>10, <3>11, TimersKept
  <2>4. \/ UNCHANGED timers /\ fired' \subseteq fired
        \/ \E s \in Sessions : \E t \in timers[s] : Fire(s, t)
        \/ \E h \in Streams : Disconnect(h)
    BY <1>5 DEF Aside, ReadEnd
  <2>5. \A h \in Streams : Disconnect(h) => fired' \subseteq fired
    BY DEF Disconnect
  <2> QED
    BY <2>1, <2>2, <2>3, <2>4, <2>5
<1> QED
  BY <1>1, <1>2, <1>3, <1>4, <1>5, Kinds

-----------------------------------------------------------------------------
(* Pushes *)

\* Where a push is.
Call == [pc : {"ready", "found"} \cup Holding, session : 0..MaxSessions, dropped : BOOLEAN]

\* A push goes on.
LEMMA CallMoves ==
  ASSUME NEW c \in Call, NEW p \in {"ready", "found"} \cup Holding
  PROVE  /\ [c EXCEPT !.pc = p] \in Call /\ [c EXCEPT !.pc = p].pc = p
         /\ [c EXCEPT !.pc = p].session = c.session
         /\ [c EXCEPT !.pc = p].dropped = c.dropped
BY DEF Call

\* The push w is x next, and the others are what they were.
Turns(w, x) ==
  /\ x \in Call /\ call' \in [Workers -> Call] /\ call'[w] = x
  /\ \A v \in Workers \ {w} : call'[v] = call[v]

\* A push goes on with what it holds and whether it has lost an event.
LEMMA TurnsTo ==
  ASSUME call \in [Workers -> Call], NEW w \in Workers, NEW x \in Call,
         call' = [call EXCEPT ![w] = x]
  PROVE  Turns(w, x)
BY DEF Turns

\* What a push becomes: it ends, ...
Ends(w) == \E x : Turns(w, x) /\ x.pc = "ready" /\ ~x.dropped

\* ... finds a session, ...
Finds(w) ==
  \E x : /\ Turns(w, x) /\ x.pc = "found" /\ ~x.dropped
         /\ x.session = current /\ current # 0 /\ call[w].pc = "ready"

\* ... or goes on with it.
GoesOn(w, lost) ==
  \E x : /\ Turns(w, x) /\ x.pc \in Holding /\ x.session = call[w].session
         /\ x.dropped = lost /\ lost \in BOOLEAN

\* A push goes on to p.
LEMMA GoesTo ==
  ASSUME call \in [Workers -> Call], NEW w \in Workers, NEW p \in Holding, At(w, p)
  PROVE  GoesOn(w, call[w].dropped)
<1>1. PICK c \in Call : c = call[w]
  OBVIOUS
<1>2. PICK x : x = [c EXCEPT !.pc = p]
  OBVIOUS
<1>3. x \in Call /\ x.pc = p /\ x.session = c.session /\ x.dropped = c.dropped
  BY <1>2, CallMoves
<1>4. call' = [call EXCEPT ![w] = x]
  BY <1>1, <1>2 DEF At
<1>5. Turns(w, x)
  BY <1>3, <1>4, TurnsTo
<1>6. c.dropped \in BOOLEAN
  BY DEF Call
<1> QED
  BY <1>1, <1>3, <1>5, <1>6 DEF GoesOn

\* A push ends.
LEMMA EndsThere ==
  ASSUME call \in [Workers -> Call], NEW w \in Workers, call' = [call EXCEPT ![w] = Ready]
  PROVE  Ends(w)
<1>1. Ready \in Call /\ Ready.pc = "ready" /\ Ready.dropped = FALSE
  <2>1. 0 \in 0..MaxSessions
    BY DebugHubAssumption DEF DebugHubAssumption
  <2> QED
    BY <2>1 DEF Ready, Call
<1>2. Turns(w, Ready)
  BY <1>1, TurnsTo
<1> QED
  BY <1>1, <1>2 DEF Ends

\* What follows an event.
LEMMA Continues ==
  ASSUME call \in [Workers -> Call], NEW w \in Workers, NEW lost \in BOOLEAN,
         Continue(w, lost)
  PROVE  /\ lost => GoesOn(w, TRUE)
         /\ ~lost => Ends(w)
<1>1. ASSUME lost PROVE GoesOn(w, TRUE)
  <2>1. PICK c \in Call : c = call[w]
    OBVIOUS
  <2>a. PICK y : y = [c EXCEPT !.pc = "notice"]
    OBVIOUS
  <2>2. PICK x : x = [y EXCEPT !.dropped = TRUE]
    OBVIOUS
  <2>3. "notice" \in Holding
    BY DEF Holding
  <2>4. x \in Call /\ x.pc = "notice" /\ x.session = c.session /\ x.dropped
    <3>1. "notice" \in {"ready", "found"} \cup Holding
      BY <2>3
    <3>2. y \in Call /\ y.pc = "notice" /\ y.session = c.session
      BY <2>a, <3>1, CallMoves
    <3> QED
      BY <2>2, <3>2 DEF Call
  <2>5. call' = [call EXCEPT ![w] = x]
    BY <1>1, <2>1, <2>a, <2>2 DEF Continue
  <2>6. Turns(w, x)
    BY <2>4, <2>5, TurnsTo
  <2>7. x.dropped = TRUE
    BY <2>4 DEF Call
  <2> QED
    BY <2>1, <2>3, <2>4, <2>6, <2>7 DEF GoesOn
<1>2. ASSUME ~lost PROVE Ends(w)
  <2>1. call' = [call EXCEPT ![w] = Ready]
    BY <1>2 DEF Continue
  <2> QED
    BY <2>1, EndsThere
<1> QED
  BY <1>1, <1>2

\* What each step of a push does to it.
LEMMA PushSteps ==
  ASSUME Hub, Calls, NEW w \in Workers
  PROVE  /\ Find(w) => Finds(w)
         /\ Abandon(w) => Ends(w) /\ ~call[w].dropped
         /\ Lock(w) => GoesOn(w, call[w].dropped)
         /\ TestCap(w) => GoesOn(w, call[w].dropped)
         /\ Receive(w) => GoesOn(w, TRUE)
         /\ Send(w) => (Ends(w) /\ ~call[w].dropped) \/ GoesOn(w, call[w].dropped)
         /\ SendAgain(w) =>
              \/ Ends(w) /\ ~call[w].dropped /\ sess[call[w].session].queue = <<>>
              \/ GoesOn(w, TRUE)
         /\ Notify(w) =>
              \/ Ends(w) /\ Len(sess[call[w].session].queue) < Buffer
              \/ GoesOn(w, call[w].dropped)
         /\ NotifyAgain(w) => Ends(w)
<1>0. call \in [Workers -> Call] /\ call[w].dropped \in BOOLEAN
  BY DEF Calls, Call
<1>1. ASSUME Find(w) PROVE Finds(w)
  <2>1. PICK s : s = current
    OBVIOUS
  <2>2. s \in 0..MaxSessions /\ s # 0
    BY <1>1, <2>1, DebugHubAssumption DEF Find, Hub, DebugHubAssumption
  <2>3. PICK c \in Call : c = call[w]
    BY <1>0
  <2>a. PICK y : y = [c EXCEPT !.pc = "found"]
    OBVIOUS
  <2>4. PICK x : x = [y EXCEPT !.session = s]
    OBVIOUS
  <2>5. x \in Call /\ x.pc = "found" /\ x.session = s /\ x.dropped = c.dropped
    <3>1. y \in Call /\ y.pc = "found" /\ y.dropped = c.dropped
      BY <2>a, CallMoves
    <3> QED
      BY <2>2, <2>4, <3>1 DEF Call
  <2>6. call' = [call EXCEPT ![w] = x]
    BY <1>1, <2>1, <2>3, <2>a, <2>4 DEF Find
  <2>7. Turns(w, x)
    BY <1>0, <2>5, <2>6, TurnsTo
  <2>8. call[w].pc = "ready" /\ ~call[w].dropped
    BY <1>1 DEF Find, Calls
  <2> QED
    BY <2>1, <2>2, <2>3, <2>5, <2>7, <2>8 DEF Finds
<1>2. ASSUME Abandon(w) PROVE Ends(w) /\ ~call[w].dropped
  <2>1. call' = [call EXCEPT ![w] = Ready] /\ call[w].pc = "found"
    BY <1>2 DEF Abandon, Leave
  <2> QED
    BY <1>0, <2>1, EndsThere DEF Calls
<1>3. ASSUME Lock(w) PROVE GoesOn(w, call[w].dropped)
  BY <1>0, <1>3, GoesTo DEF Lock, Holding
<1>4. ASSUME TestCap(w) PROVE GoesOn(w, call[w].dropped)
  <2>1. PICK p : p = IF OverCap(call[w].session, SizeOf[w]) /\ sess[call[w].session].queue # <<>>
                     THEN "receive" ELSE "send"
    OBVIOUS
  <2>2. p \in Holding /\ At(w, p)
    BY <1>4, <2>1 DEF TestCap, Holding
  <2> QED
    BY <1>0, <2>2, GoesTo
<1>5. ASSUME Receive(w) PROVE GoesOn(w, TRUE)
  <2>1. PICK c \in Call : c = call[w]
    BY <1>0
  <2>a. PICK y : y = [c EXCEPT !.pc = "evict"]
    OBVIOUS
  <2>2. PICK x : x = [y EXCEPT !.dropped = TRUE]
    OBVIOUS
  <2>3. "evict" \in Holding
    BY DEF Holding
  <2>4. x \in Call /\ x.pc = "evict" /\ x.session = c.session /\ x.dropped
    <3>1. "evict" \in {"ready", "found"} \cup Holding
      BY <2>3
    <3>2. y \in Call /\ y.pc = "evict" /\ y.session = c.session
      BY <2>a, <3>1, CallMoves
    <3> QED
      BY <2>2, <3>2 DEF Call
  <2>5. call' = [call EXCEPT ![w] = x]
    BY <1>5, <2>1, <2>a, <2>2 DEF Receive
  <2>6. Turns(w, x)
    BY <1>0, <2>4, <2>5, TurnsTo
  <2>7. x.dropped = TRUE
    BY <2>4 DEF Call
  <2> QED
    BY <2>1, <2>3, <2>4, <2>6, <2>7 DEF GoesOn
<1>6. ASSUME Send(w) PROVE (Ends(w) /\ ~call[w].dropped) \/ GoesOn(w, call[w].dropped)
  <2>1. Continue(w, call[w].dropped) \/ At(w, "full")
    BY <1>6 DEF Send
  <2>2. "full" \in Holding
    BY DEF Holding
  <2>3. CASE Continue(w, call[w].dropped)
    <3>1. CASE call[w].dropped
      <4>1. GoesOn(w, TRUE) /\ call[w].dropped = TRUE
        BY <1>0, <2>3, <3>1, Continues
      <4> QED
        BY <4>1
    <3>2. CASE ~call[w].dropped
      BY <1>0, <2>3, <3>2, Continues
    <3> QED
      BY <3>1, <3>2
  <2>4. CASE At(w, "full")
    BY <1>0, <2>2, <2>4, GoesTo
  <2> QED
    BY <2>1, <2>3, <2>4
<1>7. ASSUME SendAgain(w)
      PROVE  \/ Ends(w) /\ ~call[w].dropped /\ sess[call[w].session].queue = <<>>
             \/ GoesOn(w, TRUE)
  <2>1. PICK lost \in BOOLEAN : lost <=> call[w].dropped \/ sess[call[w].session].queue # <<>>
    OBVIOUS
  <2>2. Continue(w, call[w].dropped \/ sess[call[w].session].queue # <<>>)
    BY <1>7 DEF SendAgain
  <2>3. Continue(w, lost)
    BY <2>1, <2>2 DEF Continue
  <2> QED
    BY <1>0, <2>1, <2>3, Continues
<1>8. ASSUME Notify(w)
      PROVE  \/ Ends(w) /\ Len(sess[call[w].session].queue) < Buffer
             \/ GoesOn(w, call[w].dropped)
  <2>1. \/ Len(sess[call[w].session].queue) < Buffer /\ call' = [call EXCEPT ![w] = Ready]
        \/ At(w, "crowded")
    BY <1>8 DEF Notify, Leave
  <2>2. "crowded" \in Holding
    BY DEF Holding
  <2> QED
    BY <1>0, <2>1, <2>2, EndsThere, GoesTo
<1>9. ASSUME NotifyAgain(w) PROVE Ends(w)
  BY <1>0, <1>9, EndsThere DEF NotifyAgain, Leave
<1> QED
  BY <1>1, <1>2, <1>3, <1>4, <1>5, <1>6, <1>7, <1>8, <1>9

\* A push that moves leaves the sessions held by one push each.
LEMMA CallsKept ==
  ASSUME Hub, Calls, NEW w \in Workers,
         \A s \in Sessions : sess'[s].active = sess[s].active, started' = started,
         \/ Ends(w) \/ Finds(w)
         \/ \E lost : GoesOn(w, lost) /\
              \/ call[w].pc \in Holding
              \/ call[w].pc = "found" /\ Free(call[w].session) /\ sess[call[w].session].active
  PROVE  Calls'
<1>1. PICK x : Turns(w, x) /\
         \/ x.pc = "ready" /\ ~x.dropped
         \/ x.pc = "found" /\ ~x.dropped /\ x.session = current /\ current # 0
         \/ /\ x.pc \in Holding /\ x.session = call[w].session
            /\ \/ call[w].pc \in Holding
               \/ call[w].pc = "found" /\ Free(call[w].session) /\ sess[call[w].session].active
  BY DEF Ends, Finds, GoesOn
<1>2. /\ call \in [Workers -> Call] /\ call' \in [Workers -> Call] /\ call'[w] = x
      /\ \A v \in Workers \ {w} : call'[v] = call[v]
  BY <1>1 DEF Turns, Calls, Call
<1>3. "ready" \notin Holding /\ "found" \notin Holding
  BY DEF Holding
<1>4. \A v \in Workers : call[v].pc # "ready" => call[v].session \in Sessions
  BY DebugHubAssumption DEF Calls, Hub, Sessions, DebugHubAssumption
<1>5. ASSUME NEW v \in Workers, call'[v].pc \in Holding
      PROVE  sess'[call'[v].session].active
  <2>1. CASE v = w
    <3>1. x.pc \in Holding /\ call'[v].session = call[w].session
      BY <1>1, <1>2, <1>3, <1>5, <2>1
    <3>2. sess[call[w].session].active /\ call[w].session \in Sessions
      BY <1>1, <1>3, <1>4, <3>1 DEF Calls
    <3> QED
      BY <3>1, <3>2
  <2>2. CASE v # w
    <3>1. call[v].pc \in Holding /\ call'[v] = call[v]
      BY <1>2, <1>5, <2>2
    <3>2. sess[call[v].session].active /\ call[v].session \in Sessions
      BY <1>3, <1>4, <3>1 DEF Calls
    <3> QED
      BY <3>1, <3>2
  <2> QED
    BY <2>1, <2>2
<1>6. ASSUME NEW v \in Workers, v # w, call'[v].pc \in Holding, call'[w].pc \in Holding
      PROVE  call'[v].session # call'[w].session
  <2>1. call'[v] = call[v] /\ call[v].pc \in Holding
    BY <1>2, <1>6
  <2>2. call'[w].session = call[w].session
    BY <1>1, <1>2, <1>3, <1>6
  <2>3. CASE call[w].pc \in Holding
    BY <1>6, <2>1, <2>2, <2>3 DEF Calls
  <2>4. CASE Free(call[w].session)
    BY <2>1, <2>2, <2>4 DEF Free
  <2> QED
    BY <1>1, <1>2, <1>3, <1>6, <2>3, <2>4
<1>7. ASSUME NEW u \in Workers, NEW v \in Workers, u # v,
             {call'[u].pc, call'[v].pc} \subseteq Holding
      PROVE  call'[u].session # call'[v].session
  <2>1. CASE u = w
    BY <1>6, <1>7, <2>1
  <2>2. CASE v = w
    BY <1>6, <1>7, <2>2
  <2>3. CASE u # w /\ v # w
    <3>1. call'[u] = call[u] /\ call'[v] = call[v]
      BY <1>2, <2>3
    <3> QED
      BY <1>7, <3>1 DEF Calls
  <2> QED
    BY <2>1, <2>2, <2>3
<1>8. \A v \in Workers : call'[v].pc \in {"ready", "found"} => ~call'[v].dropped
  BY <1>1, <1>2, <1>3 DEF Calls
<1>9. \A v \in Workers : call'[v].pc # "ready" => call'[v].session \in 1..started'
  <2>1. current # 0 => current \in 1..started
    BY DebugHubAssumption DEF Hub, DebugHubAssumption
  <2>2. x.pc # "ready" => x.session \in 1..started
    BY <1>1, <1>3, <2>1 DEF Calls
  <2> QED
    BY <1>2, <2>2 DEF Calls
<1>10. call' \in [Workers -> [pc : {"ready", "found"} \cup Holding,
                              session : 0..MaxSessions, dropped : BOOLEAN]]
  BY <1>2 DEF Call
<1> QED
  BY <1>5, <1>7, <1>8, <1>9, <1>10 DEF Calls

\* Nobody holds a session that ends.
LEMMA CallsNext == Hub /\ TimerTypes /\ Calls /\ Epochs /\ [Next]_vars => Calls'
<1> SUFFICES ASSUME Hub, TimerTypes, Calls, Epochs, [Next]_vars PROVE Calls'
  OBVIOUS
<1>0. /\ started \in Nat /\ \A s \in Sessions : sess[s].active <=> current = s
      /\ \A v \in Workers : call[v].pc # "ready" => call[v].session \in Sessions
      /\ "ready" \notin Holding
  BY Held DEF Hub, Holding
<1>1. ASSUME current # 0 => Free(current), call' = call, 1..started \subseteq 1..started'
      PROVE  Calls'
  <2>1. \A v \in Workers : call[v].pc \notin Holding
    <3> SUFFICES ASSUME NEW v \in Workers, call[v].pc \in Holding PROVE FALSE
      OBVIOUS
    <3>1. call[v].session \in Sessions /\ sess[call[v].session].active
      BY <1>0 DEF Calls
    <3>2. call[v].session = current /\ current # 0
      BY <1>0, <3>1 DEF Sessions
    <3> QED
      BY <1>1, <3>2 DEF Free
  <2> QED
    BY <1>1, <2>1 DEF Calls
<1>2. CASE Start
  <2>1. (current # 0 => Free(current)) /\ call' = call /\ started' = started + 1
    BY <1>2 DEF Start
  <2>2. 1..started \subseteq 1..started'
    BY <1>0, <2>1
  <2> QED
    BY <1>1, <2>1, <2>2
<1>3. CASE Ending
  <2>1. Free(current) /\ call' = call /\ started' = started
    BY <1>3, EndStep DEF Ending
  <2> QED
    BY <1>1, <2>1
<1>4. ASSUME call' = call, started' = started, \A s \in Sessions : sess'[s].active = sess[s].active
      PROVE  Calls'
  <2>1. \A v \in Workers : call[v].pc \in Holding => call[v].session \in Sessions
    BY <1>0
  <2> QED
    BY <1>4, <2>1 DEF Calls
<1>5. ASSUME NEW h \in Streams, Attach(h) PROVE Calls'
  <2>1. call' = call /\ started' = started
    BY <1>5 DEF Attach, hub
  <2>2. \A s \in Sessions : sess'[s].active = sess[s].active
    BY <1>5, AttachStep
  <2> QED
    BY <1>4, <2>1, <2>2
<1>6. ASSUME NEW w \in Workers, Lock(w) PROVE Calls'
  <2>1. /\ started' = started /\ call[w].pc = "found" /\ Free(call[w].session)
        /\ sess[call[w].session].active
    BY <1>6 DEF Lock, hub
  <2>2. \A s \in Sessions : sess'[s].active = sess[s].active
    BY <1>6, LockStep
  <2>3. GoesOn(w, call[w].dropped)
    BY <1>6, PushSteps
  <2> QED
    BY <2>1, <2>2, <2>3, CallsKept
<1>7. CASE Aside
  <2>1. started' = started /\ \A s \in Sessions : sess'[s].active = sess[s].active
    BY <1>7 DEF Aside, Quiet, hub
  <2>2. CASE UNCHANGED call
    BY <1>4, <2>1, <2>2
  <2>3. ASSUME NEW h \in Streams, Read(h) PROVE Calls'
    BY <1>4, <2>1, <2>3 DEF Read
  <2>4. ASSUME NEW w \in Workers, Find(w) \/ Abandon(w) PROVE Calls'
    <3>1. Ends(w) \/ Finds(w)
      BY <2>4, PushSteps
    <3> QED
      BY <2>1, <3>1, CallsKept
  <2>5. ASSUME NEW w \in Workers,
               \/ TestCap(w) \/ Receive(w) \/ Send(w) \/ SendAgain(w) \/ Notify(w) \/ NotifyAgain(w)
        PROVE  Calls'
    <3>1. call[w].pc \in Holding
      BY <2>5 DEF TestCap, Receive, Send, SendAgain, Notify, NotifyAgain, Holding
    <3>2. Ends(w) \/ \E lost : GoesOn(w, lost)
      BY <2>5, PushSteps
    <3> QED
      BY <2>1, <3>1, <3>2, CallsKept
  <2> QED
    BY <1>6, <1>7, <2>2, <2>3, <2>4, <2>5 DEF Aside, Push
<1> QED
  BY <1>2, <1>3, <1>5, <1>6, <1>7, Kinds

\* The other counters keep their types.
LEMMA CountersNext == Hub /\ Calls /\ Epochs /\ Counters /\ [Next]_vars => Counters'
<1> SUFFICES ASSUME Hub, Calls, Epochs, Counters, [Next]_vars PROVE Counters'
  OBVIOUS
<1>0. pushes \in 0..MaxPushes /\ owed \in [Sessions -> BOOLEAN] /\ MaxPushes \in Nat
  BY DebugHubAssumption DEF Counters, DebugHubAssumption
<1>1. ASSUME UNCHANGED <<pushes, owed>> PROVE Counters'
  BY <1>0, <1>1 DEF Counters
<1>2. CASE Start \/ Stop \/ Shutdown
  BY <1>1, <1>2 DEF Start, Stop, Shutdown
<1>3. ASSUME NEW s \in Sessions, NEW t \in timers[s], Fire(s, t) PROVE Counters'
  BY <1>1, <1>3 DEF Fire
<1>4. ASSUME NEW c \in fired, CloseOnTimeout(c) PROVE Counters'
  BY <1>1, <1>4 DEF CloseOnTimeout
<1>5. ASSUME NEW h \in Streams, Attach(h) \/ ReadEnd(h) \/ Disconnect(h) PROVE Counters'
  BY <1>1, <1>5 DEF Attach, ReadEnd, Disconnect
<1>6. ASSUME NEW s, NEW b \in BOOLEAN, owed' = [owed EXCEPT ![s] = b], UNCHANGED pushes
      PROVE  Counters'
  BY <1>0, <1>6 DEF Counters
<1>7. ASSUME NEW h \in Streams, Read(h) PROVE Counters'
  <2>1. PICK s : s = stream[h].session
    OBVIOUS
  <2>2. PICK b \in BOOLEAN : b <=> owed[s] /\ Head(sess[s].queue) # Dropped
    OBVIOUS
  <2>3. s \in Sessions
    BY <1>7, <2>1, Held DEF Read
  <2>4. owed' = [owed EXCEPT ![s] = owed[s] /\ Head(sess[s].queue) # Dropped]
    BY <1>0, <1>7, <2>1, <2>3 DEF Read
  <2>5. owed' = [owed EXCEPT ![s] = b]
    BY <2>2, <2>4
  <2> QED
    BY <1>6, <1>7, <2>5 DEF Read
<1>8. ASSUME NEW w \in Workers, Find(w) PROVE Counters'
  BY <1>0, <1>8 DEF Find, Counters
<1>9. ASSUME NEW w \in Workers, Abandon(w) \/ Lock(w) \/ TestCap(w) \/ Send(w) \/ Notify(w)
      PROVE  Counters'
  BY <1>1, <1>9 DEF Abandon, Lock, TestCap, Send, Notify
<1>10. ASSUME NEW s \in Sessions, NEW evicts \in BOOLEAN, Owes(s, evicts), UNCHANGED pushes
       PROVE  Counters'
  <2>1. PICK b \in BOOLEAN : b <=> owed[s] \/ evicts
    OBVIOUS
  <2>2. owed' = [owed EXCEPT ![s] = owed[s] \/ evicts]
    BY <1>0, <1>10 DEF Owes
  <2>3. owed' = [owed EXCEPT ![s] = b]
    BY <2>1, <2>2
  <2> QED
    BY <1>6, <1>10, <2>3
<1>11. ASSUME NEW w \in Workers, Receive(w) \/ SendAgain(w) \/ NotifyAgain(w) PROVE Counters'
  <2>1. PICK s : s = call[w].session
    OBVIOUS
  <2>2. s \in Sessions /\ UNCHANGED pushes
    BY <1>11, <2>1, Held DEF Receive, SendAgain, NotifyAgain
  <2>3. PICK evicts \in BOOLEAN : evicts <=> sess[s].queue # <<>>
    OBVIOUS
  <2>4. Owes(s, TRUE) \/ Owes(s, sess[s].queue # <<>>)
    BY <1>11, <2>1 DEF Receive, SendAgain, NotifyAgain
  <2>5. Owes(s, TRUE) \/ Owes(s, evicts)
    BY <2>3, <2>4
  <2> QED
    BY <1>10, <2>2, <2>5
<1>12. CASE UNCHANGED vars
  BY <1>1, <1>12 DEF vars
<1> QED
  BY <1>2, <1>3, <1>4, <1>5, <1>7, <1>8, <1>9, <1>11, <1>12 DEF Next, Push

-----------------------------------------------------------------------------
(* The invariant *)

\* It holds at first.
LEMMA Initially == Init => IInv
<1> SUFFICES ASSUME Init PROVE IInv
  OBVIOUS
<1>1. MaxSessions \in Nat /\ MaxPushes \in Nat
  BY DebugHubAssumption DEF DebugHubAssumption
<1>2. \A s \in Sessions : s \in Nat /\ s # 0
  BY DEF Sessions
<1>3. Hub
  <2>1. [active |-> FALSE, epoch |-> 0, gen |-> 0, bytes |-> 0, queue |-> <<>>] \in Session
    <3>1. 0 \in Nat /\ FALSE \in BOOLEAN /\ <<>> \in Queue /\ \E p : Covers(p, <<>>, 0)
      BY CoverEmpty
    <3>2. Rec(FALSE, 0, 0, 0, <<>>) \in Session
      BY <3>1, FieldsSession
    <3> QED
      BY <3>2 DEF Rec
  <2>2. sess \in [Sessions -> Session]
    BY <2>1 DEF Init
  <2>3. started \in 0..MaxSessions /\ current \in 0..started
    BY <1>1 DEF Init
  <2>4. \A s \in Sessions : sess[s].active <=> current = s
    BY <1>2 DEF Init
  <2> QED
    BY <2>2, <2>3, <2>4 DEF Hub
<1>4. TimerTypes /\ TimersSound
  BY DEF Init, TimerTypes, TimersSound
<1>5. Calls
  <2>1. 0 \in 0..MaxSessions /\ "ready" \notin Holding
    BY <1>1 DEF Holding
  <2> QED
    BY <2>1 DEF Init, Calls, Ready
<1>6. \A s \in Sessions : StreamsOf(s) = {}
  BY <1>2 DEF Init, StreamsOf
<1>7. Epochs
  <2>1. Cardinality({}) = 0
    BY FS_EmptySet
  <2>2. 0 \in 0..MaxSessions
    BY <1>1
  <2>3. stream \in [Streams -> [pc : {"new", "reading", "ended"},
                                session : 0..MaxSessions, epoch : Nat]]
    BY <2>2 DEF Init
  <2>4. \A h \in Streams : stream[h].pc = "new" /\ stream[h].session = 0
    BY DEF Init
  <2>5. \A s \in Sessions : sess[s].epoch = Cardinality(StreamsOf(s))
    BY <1>6, <2>1 DEF Init
  <2> QED
    BY <2>3, <2>4, <2>5 DEF Epochs
<1>8. Generations
  BY <1>2, <1>6 DEF Init, Generations
<1>9. Counters
  BY <1>1 DEF Init, Counters
<1> QED
  BY <1>3, <1>4, <1>5, <1>7, <1>8, <1>9 DEF IInv

\* Every step keeps it.
LEMMA Stays == IInv /\ [Next]_vars => IInv'
BY HubNext, TimersNext, CallsNext, EpochsNext, GenerationsNext, CountersNext DEF IInv

\* It holds of every behaviour.
LEMMA Always == Spec => []IInv
<1>1. Init => IInv
  BY Initially
<1>2. IInv /\ [Next]_vars => IInv'
  BY Stays
<1> QED
  BY <1>1, <1>2, PTL DEF Spec

\* It gives the variables their types.
LEMMA Typed == IInv => TypeOK
<1> SUFFICES ASSUME IInv PROVE TypeOK
  OBVIOUS
<1>1. Cardinality(Streams) \in Nat /\ IsFiniteSet(Streams)
  BY DebugHubAssumption, FS_CardinalityType DEF DebugHubAssumption
<1>2. ASSUME NEW s \in Sessions
      PROVE  sess[s] \in [active : BOOLEAN, epoch : 0..Cardinality(Streams), gen : Nat,
                          bytes : Nat, queue : {q \in Seq(Items) : Len(q) <= Buffer}]
  <2>1. PICK r \in Session : r = sess[s]
    BY DEF IInv, Hub
  <2>2. /\ r = Rec(r.active, r.epoch, r.gen, r.bytes, r.queue)
        /\ r.active \in BOOLEAN /\ r.epoch \in Nat /\ r.gen \in Nat /\ r.bytes \in Nat
        /\ r.queue \in Queue
    BY SessionFields
  <2>3. r.epoch \in 0..Cardinality(Streams)
    <3>1. StreamsOf(s) \subseteq Streams
      BY DEF StreamsOf
    <3>2. Cardinality(StreamsOf(s)) <= Cardinality(Streams)
      BY <1>1, <3>1, FS_Subset
    <3>3. r.epoch = Cardinality(StreamsOf(s))
      BY <2>1 DEF IInv, Epochs
    <3> QED
      BY <1>1, <2>2, <3>2, <3>3
  <2> QED
    BY <2>1, <2>2, <2>3 DEF Rec, Queue
<1>3. sess \in [Sessions ->
        [active : BOOLEAN, epoch : 0..Cardinality(Streams), gen : Nat,
         bytes : Nat, queue : {q \in Seq(Items) : Len(q) <= Buffer}]]
  BY <1>2 DEF IInv, Hub
<1>4. \A s \in Sessions :
        /\ timers[s] \subseteq Timers
        /\ sess[s].active => current = s
        /\ ~sess[s].active => timers[s] = {}
        /\ \A t1, t2 \in timers[s] : t1.reason = t2.reason => t1 = t2
  BY DEF IInv, Hub, TimerTypes
<1> QED
  BY <1>3, <1>4 DEF IInv, Hub, TimerTypes, Calls, Epochs, Generations, Counters, TypeOK

\* TypeOK: the sessions, timers, streams and pushes of the hub stay what they are;
\* a push holds an active session, and no other push holds it (debug_user.go).
THEOREM TypeCorrect == Spec => []TypeOK
BY Always, Typed, PTL

-----------------------------------------------------------------------------
(* A late timer ends nothing *)

\* A timer that is up to date and ends a session has reason to.
LEMMA UpToDateJust ==
  ASSUME IInv, NEW c \in fired, current = c.session, UpToDate(c)
  PROVE  JustEnd(c)
<1>1. PICK s \in Sessions : s = c.session
  BY Held DEF IInv, TimerTypes
<1>2. PICK t \in Timers : t = c.timer
  BY DEF IInv, TimerTypes
<1>3. Sound(s, t) /\ current = s /\ s <= started
  BY <1>1, <1>2 DEF IInv, TimersSound, Hub
<1>4. /\ t.reason \in {"no_attach", "idle", "grace"} => t.epoch = sess[s].epoch
      /\ t.reason = "idle" => t.gen = sess[s].gen
  BY <1>1, <1>2 DEF UpToDate
<1>5. ASSUME t.reason = "no_attach" PROVE \A h \in Streams : stream[h].session # s
  <2>1. Cardinality(StreamsOf(s)) = 0
    BY <1>3, <1>4, <1>5 DEF Sound, IInv, Epochs
  <2>2. StreamsOf(s) \subseteq Streams
    BY DEF StreamsOf
  <2>3. IsFiniteSet(StreamsOf(s))
    BY <2>2, DebugHubAssumption, FS_Subset DEF DebugHubAssumption
  <2>4. StreamsOf(s) = {}
    BY <2>1, <2>3, FS_EmptySet
  <2> QED
    BY <2>4 DEF StreamsOf
<1>6. ASSUME t.reason = "idle" PROVE t.activity = activity[s]
  <2>1. t.gen = t.activity + 1 /\ t.gen = sess[s].gen /\ t.activity \in Nat
    BY <1>3, <1>4, <1>6 DEF Sound, Timers
  <2>2. sess[s].gen = activity[s] + 1 /\ activity[s] \in Nat
    BY <1>3 DEF IInv, Generations
  <2> QED
    BY <2>1, <2>2
<1>7. ASSUME t.reason = "grace"
      PROVE  \A h \in Streams : stream[h].session = s /\ stream[h].pc = "reading" =>
               stream[h].epoch < sess[s].epoch
  <2> SUFFICES ASSUME NEW h \in Streams, stream[h].session = s, stream[h].pc = "reading"
               PROVE  stream[h].epoch < sess[s].epoch
    OBVIOUS
  <2>1. stream[h].epoch # t.epoch /\ t.epoch = sess[s].epoch
    BY <1>3, <1>4, <1>7 DEF Sound
  <2>2. stream[h].epoch <= sess[s].epoch /\ stream[h].epoch \in Nat
    BY DEF IInv, Epochs
  <2>3. sess[s].epoch \in Nat
    BY SessionFields DEF IInv, Hub
  <2> QED
    BY <2>1, <2>2, <2>3
<1> QED
  BY <1>1, <1>2, <1>3, <1>5, <1>6, <1>7 DEF JustEnd

\* Only the handler of a timer takes it off those that wait.
LEMMA OnlyCloses ==
  ASSUME [Next]_vars, NEW c \in fired, fired' = fired \ {c}
  PROVE  CloseOnTimeout(c)
<1>1. CASE fired \subseteq fired'
  BY <1>1
<1>2. ASSUME NEW d \in fired, CloseOnTimeout(d) PROVE CloseOnTimeout(c)
  <2>1. fired' = fired \ {d}
    BY <1>2 DEF CloseOnTimeout
  <2>2. d = c
    BY <2>1
  <2> QED
    BY <1>2, <2>2
<1>3. (\E d \in fired : CloseOnTimeout(d)) \/ fired \subseteq fired'
  BY DEF Next, Push, vars, Start, Stop, Shutdown, Fire, Attach, Read, ReadEnd, Disconnect,
         Find, Abandon, Lock, TestCap, Receive, Send, SendAgain, Notify, NotifyAgain
<1> QED
  BY <1>1, <1>2, <1>3

\* TimersCurrent: a timer that fired while something made it obsolete, and waited
\* for the lock, ends no session: its epoch and generation say so (closeSessionOnTimeout).
THEOREM TimersAreCurrent == Spec => TimersCurrent
<1>1. ASSUME IInv, [Next]_vars, NEW c \in fired, fired' = fired \ {c}, sess' # sess
      PROVE  JustEnd(c)
  <2>1. CloseOnTimeout(c)
    BY <1>1, OnlyCloses
  <2>2. current = c.session /\ UpToDate(c)
    BY <1>1, <2>1 DEF CloseOnTimeout
  <2> QED
    BY <1>1, <2>2, UpToDateJust
<1>2. IInv /\ [Next]_vars =>
        [\A c \in fired : fired' = fired \ {c} /\ sess' # sess => JustEnd(c)]_vars
  BY <1>1
<1> QED
  BY <1>2, Always, PTL DEF Spec, TimersCurrent

-----------------------------------------------------------------------------
(* No gap goes unannounced *)

\* A notice is in a queue.
Noticed(q) == \E i \in DOMAIN q : q[i] = Dropped

\* A push will add one to the queue of session s.
Pending(s) == \E w \in Workers : call[w].session = s /\ call[w].dropped

\* A notice stays in the queue until it is read.
LEMMA NoticeStays ==
  ASSUME NEW q \in Queue
  PROVE  /\ Noticed(q) => Noticed(Offer(q, Terminal))
         /\ \A e \in Items : Len(q) < Buffer /\ Noticed(q) => Noticed(Append(q, e))
         /\ Len(q) < Buffer => Noticed(Append(q, Dropped))
         /\ q # <<>> /\ Noticed(q) /\ Head(q) # Dropped => Noticed(Tail(q))
<1>1. q \in Seq(Items) /\ DOMAIN q = 1..Len(q) /\ Len(q) \in Nat
  BY DEF Queue
<1>2. ASSUME NEW e \in Items, Len(q) < Buffer
      PROVE  /\ DOMAIN Append(q, e) = 1..(Len(q) + 1)
             /\ \A i \in 1..Len(q) : Append(q, e)[i] = q[i]
             /\ Append(q, e)[Len(q) + 1] = e
  <2>1. Append(q, e) \in Seq(Items) /\ Len(Append(q, e)) = Len(q) + 1
    BY <1>2, QueueAppend DEF Queue
  <2> QED
    BY <1>2, <2>1, QueueAppend
<1>3. ASSUME NEW e \in Items, Len(q) < Buffer, Noticed(q) PROVE Noticed(Append(q, e))
  <2>1. PICK i \in 1..Len(q) : q[i] = Dropped
    BY <1>1, <1>3 DEF Noticed
  <2>2. i \in 1..(Len(q) + 1)
    BY <1>1
  <2> QED
    BY <1>2, <1>3, <2>1, <2>2 DEF Noticed
<1>4. ASSUME Noticed(q) PROVE Noticed(Offer(q, Terminal))
  <2>1. Terminal \in Items
    BY DEF Items
  <2> QED
    BY <1>3, <1>4, <2>1 DEF Offer
<1>5. ASSUME Len(q) < Buffer PROVE Noticed(Append(q, Dropped))
  <2>1. Dropped \in Items /\ Len(q) + 1 \in 1..(Len(q) + 1)
    BY <1>1, ItemsSent
  <2> QED
    BY <1>2, <1>5, <2>1 DEF Noticed
<1>6. ASSUME q # <<>>, Noticed(q), Head(q) # Dropped PROVE Noticed(Tail(q))
  <2>1. /\ Head(q) = q[1] /\ Tail(q) \in Seq(Items) /\ Len(Tail(q)) = Len(q) - 1
        /\ \A i \in 1..(Len(q) - 1) : Tail(q)[i] = q[i + 1]
    BY <1>6, QueueTail DEF Queue
  <2>2. PICK i \in 1..Len(q) : q[i] = Dropped
    BY <1>1, <1>6 DEF Noticed
  <2>3. i # 1
    BY <1>6, <2>1, <2>2
  <2>4. i - 1 \in 1..(Len(q) - 1) /\ (i - 1) + 1 = i
    BY <1>1, <2>3
  <2>5. Tail(q)[i - 1] = Dropped /\ i - 1 \in DOMAIN Tail(q)
    BY <2>1, <2>2, <2>4
  <2> QED
    BY <2>5 DEF Noticed
<1> QED
  BY <1>3, <1>4, <1>5, <1>6

\* The property, session by session.
Announced(s) == owed[s] => Noticed(sess[s].queue) \/ Pending(s)

\* It is what GapsAnnounced says.
LEMMA GapsBySession == GapsAnnounced <=> \A s \in Sessions : Announced(s)
BY DEF GapsAnnounced, Announced, Noticed, Pending

\* A push that keeps what it lost is still to announce it.
LEMMA PendingStays ==
  ASSUME Calls, NEW w \in Workers, NEW s \in Sessions, Pending(s),
         \/ UNCHANGED call \/ Finds(w) \/ GoesOn(w, call[w].dropped) \/ GoesOn(w, TRUE)
         \/ Ends(w) /\ call[w].session # s
  PROVE  Pending(s)'
<1>1. PICK v \in Workers : call[v].session = s /\ call[v].dropped
  BY DEF Pending
<1>2. CASE UNCHANGED call
  BY <1>1, <1>2 DEF Pending
<1>3. CASE v # w
  <2>1. call'[v] = call[v] \/ UNCHANGED call
    BY <1>3 DEF Finds, GoesOn, Ends, Turns
  <2> QED
    BY <1>1, <2>1 DEF Pending
<1>4. CASE v = w
  <2>1. call[w].pc # "ready"
    BY <1>1, <1>4 DEF Calls
  <2>2. CASE GoesOn(w, call[w].dropped) \/ GoesOn(w, TRUE)
    BY <1>1, <1>4, <2>2 DEF Pending, GoesOn, Turns
  <2> QED
    BY <1>1, <1>2, <1>4, <2>1, <2>2 DEF Finds
<1> QED
  BY <1>3, <1>4

\* A push that lost nothing has nothing to announce.
LEMMA PendingWithout ==
  ASSUME NEW w \in Workers, NEW s \in Sessions, Pending(s), Ends(w), ~call[w].dropped
  PROVE  Pending(s)'
<1>1. PICK v \in Workers : call[v].session = s /\ call[v].dropped
  BY DEF Pending
<1>2. v # w
  BY <1>1
<1>3. call'[v] = call[v]
  BY <1>2 DEF Ends, Turns
<1> QED
  BY <1>1, <1>3 DEF Pending

\* Every step announces what it makes owed.
LEMMA GapsNext == IInv /\ GapsAnnounced /\ [Next]_vars => GapsAnnounced'
<1> SUFFICES ASSUME IInv, GapsAnnounced, [Next]_vars, NEW s \in Sessions, owed'[s]
             PROVE  Noticed(sess'[s].queue) \/ Pending(s)'
  BY GapsBySession DEF GapsAnnounced, Noticed, Pending
<1>0. /\ Hub /\ TimerTypes /\ Calls /\ Epochs /\ owed \in [Sessions -> BOOLEAN]
      /\ \A x \in Sessions : sess[x] \in Session /\ sess[x].queue \in Queue
      /\ owed[s] => Noticed(sess[s].queue) \/ Pending(s)
  BY GapsBySession, SessionFields DEF IInv, Hub, Counters, Announced
<1>1. ASSUME UNCHANGED <<call, owed>>,
             sess'[s].queue \in {sess[s].queue, Offer(sess[s].queue, Terminal)}
      PROVE  Noticed(sess'[s].queue) \/ Pending(s)'
  BY <1>0, <1>1, NoticeStays DEF Pending
<1>2. CASE Start
  <2>1. UNCHANGED <<call, owed>>
    BY <1>2 DEF Start
  <2> QED
    BY <1>0, <1>1, <1>2, <2>1, StartStep
<1>3. CASE Ending
  <2>1. UNCHANGED <<call, owed>>
    BY <1>3 DEF Ending
  <2>2. sess'[s].queue \in {sess[s].queue, Offer(sess[s].queue, Terminal)}
    BY <1>0, <1>3, EndStep DEF Ending
  <2> QED
    BY <1>1, <2>1, <2>2
<1>4. ASSUME NEW h \in Streams, Attach(h) PROVE Noticed(sess'[s].queue) \/ Pending(s)'
  <2>1. UNCHANGED <<call, owed>>
    BY <1>4 DEF Attach
  <2>2. sess'[s].queue = sess[s].queue
    BY <1>0, <1>4, AttachStep
  <2> QED
    BY <1>1, <2>1, <2>2
<1>5. ASSUME NEW w \in Workers, Lock(w) PROVE Noticed(sess'[s].queue) \/ Pending(s)'
  <2>1. UNCHANGED owed /\ sess'[s].queue = sess[s].queue
    BY <1>0, <1>5, LockStep DEF Lock
  <2>2. GoesOn(w, call[w].dropped)
    BY <1>0, <1>5, PushSteps
  <2> QED
    BY <1>0, <2>1, <2>2, PendingStays
<1>6. CASE UNCHANGED <<sess, call, owed>>
  BY <1>1, <1>6
<1>7. ASSUME NEW h \in Streams, Read(h) PROVE Noticed(sess'[s].queue) \/ Pending(s)'
  <2>1. PICK r : r = stream[h].session
    OBVIOUS
  <2>2. /\ call' = call /\ r \in Sessions /\ sess[r].queue # <<>>
        /\ owed' = [owed EXCEPT ![r] = owed[r] /\ Head(sess[r].queue) # Dropped]
        /\ sess'[r].queue = Tail(sess[r].queue)
        /\ \A x \in Sessions \ {r} : sess'[x] = sess[x]
    BY <1>0, <1>7, <2>1, ReadStep DEF Read
  <2>3. CASE s = r
    <3>1. owed[s] /\ Head(sess[s].queue) # Dropped
      BY <1>0, <2>2, <2>3
    <3> QED
      BY <1>0, <2>2, <2>3, <3>1, NoticeStays DEF Pending
  <2>4. CASE s # r
    <3>1. owed'[s] = owed[s] /\ sess'[s] = sess[s]
      BY <1>0, <2>2, <2>4
    <3> QED
      BY <1>0, <2>2, <3>1 DEF Pending
  <2> QED
    BY <2>3, <2>4
<1>8. ASSUME NEW w \in Workers, Find(w) \/ Abandon(w) \/ TestCap(w)
      PROVE  Noticed(sess'[s].queue) \/ Pending(s)'
  <2>1. UNCHANGED <<sess, owed>>
    BY <1>8 DEF Find, Abandon, TestCap
  <2>2. CASE Find(w)
    <3>1. Finds(w)
      BY <1>0, <2>2, PushSteps
    <3> QED
      BY <1>0, <2>1, <3>1, PendingStays
  <2>3. CASE Abandon(w)
    <3>1. Ends(w) /\ ~call[w].dropped
      BY <1>0, <2>3, PushSteps
    <3> QED
      BY <1>0, <2>1, <3>1, PendingWithout
  <2>4. CASE TestCap(w)
    <3>1. GoesOn(w, call[w].dropped)
      BY <1>0, <2>4, PushSteps
    <3> QED
      BY <1>0, <2>1, <3>1, PendingStays
  <2> QED
    BY <1>8, <2>2, <2>3, <2>4
<1>9. ASSUME NEW w \in Workers, NEW evicts, Owes(call[w].session, evicts), s # call[w].session,
             \A x \in Sessions \ {call[w].session} : sess'[x] = sess[x],
             \E lost : GoesOn(w, lost) \/ Ends(w)
      PROVE  Noticed(sess'[s].queue) \/ Pending(s)'
  <2>1. owed'[s] = owed[s] /\ sess'[s] = sess[s]
    BY <1>0, <1>9 DEF Owes
  <2>2. ASSUME Pending(s) PROVE Pending(s)'
    <3>1. PICK v \in Workers : call[v].session = s /\ call[v].dropped
      BY <2>2 DEF Pending
    <3>2. call'[v] = call[v]
      BY <1>9, <3>1 DEF GoesOn, Ends, Turns
    <3> QED
      BY <3>1, <3>2 DEF Pending
  <2> QED
    BY <1>0, <2>1, <2>2
<1>10. ASSUME NEW w \in Workers, GoesOn(w, TRUE), s = call[w].session PROVE Pending(s)'
  BY <1>10 DEF GoesOn, Turns, Pending
<1>11. ASSUME NEW w \in Workers, Receive(w) PROVE Noticed(sess'[s].queue) \/ Pending(s)'
  <2>1. GoesOn(w, TRUE)
    BY <1>0, <1>11, PushSteps
  <2>2. PICK x : x = call[w].session
    OBVIOUS
  <2>3. x \in Sessions /\ sess' = [sess EXCEPT ![x] = Evicted(@)] /\ Owes(x, TRUE)
    BY <1>0, <1>11, <2>2, Held DEF Receive
  <2>4. \A y \in Sessions \ {x} : sess'[y] = sess[y]
    BY <2>3
  <2> QED
    BY <1>9, <1>10, <2>1, <2>2, <2>3, <2>4
<1>12. ASSUME NEW w \in Workers, Send(w) PROVE Noticed(sess'[s].queue) \/ Pending(s)'
  <2>1. (Ends(w) /\ ~call[w].dropped) \/ GoesOn(w, call[w].dropped)
    BY <1>0, <1>12, PushSteps
  <2>2. PICK x : x = call[w].session
    OBVIOUS
  <2>3. PICK e \in Items : e = Request(SizeOf[w])
    BY ItemsSent
  <2>4. x \in Sessions /\ sess' = [sess EXCEPT ![x] = Sent(@, e)] /\ UNCHANGED owed
    BY <1>0, <1>12, <2>2, <2>3, Held DEF Send
  <2>5. sess'[x] = Sent(sess[x], e) /\ \A y \in Sessions \ {x} : sess'[y] = sess[y]
    BY <1>0, <2>4, SendStep
  <2>6. Noticed(sess[s].queue) => Noticed(sess'[s].queue)
    <3>1. CASE s = x
      <4>1. sess'[s].queue =
              IF Len(sess[s].queue) < Buffer THEN Append(sess[s].queue, e) ELSE sess[s].queue
        BY <1>0, <2>5, <3>1, SessionSent
      <4> QED
        BY <1>0, <4>1, NoticeStays
    <3>2. CASE s # x
      BY <2>5, <3>2
    <3> QED
      BY <3>1, <3>2
  <2>7. Pending(s) => Pending(s)'
    <3>1. CASE Ends(w) /\ ~call[w].dropped
      BY <1>0, <3>1, PendingWithout
    <3>2. CASE GoesOn(w, call[w].dropped)
      BY <1>0, <3>2, PendingStays
    <3> QED
      BY <2>1, <3>1, <3>2
  <2> QED
    BY <1>0, <2>4, <2>6, <2>7
<1>13. ASSUME NEW w \in Workers, SendAgain(w) PROVE Noticed(sess'[s].queue) \/ Pending(s)'
  <2>1. \/ Ends(w) /\ ~call[w].dropped /\ sess[call[w].session].queue = <<>>
        \/ GoesOn(w, TRUE)
    BY <1>0, <1>13, PushSteps
  <2>2. PICK x : x = call[w].session
    OBVIOUS
  <2>3. PICK e \in Items : e = Request(SizeOf[w])
    BY ItemsSent
  <2>4. /\ x \in Sessions /\ sess' = [sess EXCEPT ![x] = Sent(Evicted(@), e)]
        /\ Owes(x, sess[x].queue # <<>>)
    BY <1>0, <1>13, <2>2, <2>3, Held DEF SendAgain
  <2>5. \A y \in Sessions \ {x} : sess'[y] = sess[y]
    BY <2>4
  <2>6. CASE s # x
    BY <1>9, <2>1, <2>2, <2>4, <2>5, <2>6
  <2>7. CASE s = x /\ GoesOn(w, TRUE)
    BY <1>10, <2>2, <2>7
  <2>8. CASE s = x /\ Ends(w) /\ ~call[w].dropped /\ sess[s].queue = <<>>
    <3>1. owed[s]
      BY <1>0, <2>4, <2>8 DEF Owes
    <3>2. ~Noticed(sess[s].queue)
      BY <2>8 DEF Noticed
    <3>3. Pending(s)
      BY <1>0, <3>1, <3>2
    <3>4. Ends(w) /\ ~call[w].dropped
      BY <2>8
    <3>5. Pending(s)'
      BY <3>3, <3>4, PendingWithout
    <3> QED
      BY <3>5
  <2> QED
    BY <2>1, <2>2, <2>6, <2>7, <2>8
<1>14. ASSUME NEW w \in Workers, Notify(w) PROVE Noticed(sess'[s].queue) \/ Pending(s)'
  <2>1. \/ Ends(w) /\ Len(sess[call[w].session].queue) < Buffer
        \/ GoesOn(w, call[w].dropped)
    BY <1>0, <1>14, PushSteps
  <2>2. PICK x : x = call[w].session
    OBVIOUS
  <2>3. PICK e \in Items : e = Dropped
    BY ItemsSent
  <2>4. x \in Sessions /\ sess' = [sess EXCEPT ![x] = Sent(@, e)] /\ UNCHANGED owed
    BY <1>0, <1>14, <2>2, <2>3, Held DEF Notify
  <2>5. sess'[x] = Sent(sess[x], e) /\ \A y \in Sessions \ {x} : sess'[y] = sess[y]
    BY <1>0, <2>4, SendStep
  <2>6. CASE s = x
    <3>1. sess'[s].queue =
            IF Len(sess[s].queue) < Buffer THEN Append(sess[s].queue, Dropped) ELSE sess[s].queue
      BY <1>0, <2>3, <2>5, <2>6, SessionSent
    <3>2. CASE Len(sess[s].queue) < Buffer
      BY <1>0, <3>1, <3>2, NoticeStays
    <3>3. CASE ~(Len(sess[s].queue) < Buffer)
      <4>1. GoesOn(w, call[w].dropped) /\ sess'[s].queue = sess[s].queue
        BY <2>1, <2>2, <2>6, <3>1, <3>3
      <4> QED
        BY <1>0, <2>4, <4>1, PendingStays
    <3> QED
      BY <3>2, <3>3
  <2>7. CASE s # x
    <3>1. sess'[s] = sess[s]
      BY <2>5, <2>7
    <3> QED
      BY <1>0, <2>1, <2>2, <2>4, <2>7, <3>1, PendingStays
  <2> QED
    BY <2>6, <2>7
<1>15. ASSUME NEW w \in Workers, NotifyAgain(w) PROVE Noticed(sess'[s].queue) \/ Pending(s)'
  <2>1. Ends(w)
    BY <1>0, <1>15, PushSteps
  <2>2. PICK x : x = call[w].session
    OBVIOUS
  <2>3. PICK e \in Items : e = Dropped
    BY ItemsSent
  <2>4. /\ x \in Sessions /\ sess' = [sess EXCEPT ![x] = Sent(Evicted(@), e)]
        /\ Owes(x, sess[x].queue # <<>>)
    BY <1>0, <1>15, <2>2, <2>3, Held DEF NotifyAgain
  <2>5. \A y \in Sessions \ {x} : sess'[y] = sess[y]
    BY <2>4
  <2>6. CASE s # x
    BY <1>9, <2>1, <2>2, <2>4, <2>5, <2>6
  <2>7. CASE s = x
    <3>1. sess'[s].queue = Append(Evicted(sess[s]).queue, Dropped)
      BY <1>0, <2>3, <2>4, <2>7, MakeRoomStep
    <3>2. Evicted(sess[s]).queue \in Queue /\ Len(Evicted(sess[s]).queue) < Buffer
      <4>1. Evicted(sess[s]) \in Session /\ Len(Evicted(sess[s]).queue) < Buffer
        BY <1>0, SessionEvicted
      <4> QED
        BY <4>1, SessionFields
    <3> QED
      BY <3>1, <3>2, NoticeStays
  <2> QED
    BY <2>6, <2>7
<1> QED
  BY <1>0, <1>2, <1>3, <1>4, <1>5, <1>6, <1>7, <1>8, <1>11, <1>12, <1>13, <1>14, <1>15, Kinds
     DEF Aside, Push

\* GapsAnnounced: whatever is evicted for the cap on bytes, a new event or a notice,
\* the reader finds a notice, or a push that has not finished adds one (push).
THEOREM GapsAreAnnounced == Spec => []GapsAnnounced
<1>1. Init => GapsAnnounced
  BY DEF Init, GapsAnnounced
<1>2. IInv /\ GapsAnnounced /\ [Next]_vars => GapsAnnounced'
  BY GapsNext
<1> QED
  BY <1>1, <1>2, Always, PTL DEF Spec
=============================================================================

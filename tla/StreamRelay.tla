----------------------------- MODULE StreamRelay -----------------------------
(***************************************************************************)
(* One chat call after it was admitted: the upload of its images, the      *)
(* workflow request to Dify, streamed or blocking, and what the caller,    *)
(* the request log, the windows A and B and the charity reservation get to *)
(* know of it.  The call is charged to the caller's own app or to a        *)
(* donation whose reservation is already marked dispatched.                *)
(*                                                                         *)
(* In a streamed call the goroutine of the client parses the response and  *)
(* talks to the handler through a bounded channel of events and a channel  *)
(* of one error.  It closes the error channel before the channel of        *)
(* events; a receive from a closed channel yields nothing, at once.  The   *)
(* caller may disconnect at any time.                                      *)
(***************************************************************************)
EXTENDS Naturals, Sequences, SequencesExt

CONSTANTS
  Buffer,      \* capacity of the channel of events
  MaxEvents    \* bound on the events Dify sends

ASSUME RelayAssumption == Buffer \in Nat \ {0} /\ MaxEvents \in Nat

\* Text and reasoning; a terminal event, workflow_finished with success or a
\* failure (or an error event); what produces no output.
Kinds == {"text", "finished", "failed", "other"}

VARIABLES
  charity,    \* paid with a reservation
  canceled,   \* the request's context: the caller is gone, or the handler has returned
  handler,    \* [pc, held: first event, done, failed: state of the converter]
  parser,     \* [pc, held: event it is about to send]
  events,     \* channel of events
  error,      \* channel of one error
  sent,       \* history: events the parser has put into the channel
  out,        \* frames written to the caller
  ledger      \* [result: in the request log, logs, commits, a, b, alerts, stops]

channels == <<events, error>>
vars == <<charity, canceled, handler, parser, channels, sent, out, ledger>>

NoEvent == "none"

TypeOK ==
  /\ charity \in BOOLEAN /\ canceled \in BOOLEAN
  /\ handler \in [pc : {"start", "uploaded", "calling", "first", "late", "started", "relay",
                        "drain", "end"},
                  held : Kinds \cup {NoEvent}, done : BOOLEAN, failed : BOOLEAN]
  /\ parser \in [pc : {"off", "requesting", "reading", "sending", "erring", "closing",
                       "closed", "ended"},
                 held : Kinds \cup {NoEvent}]
  /\ events \in [queue : Seq(Kinds), closed : BOOLEAN] /\ Len(events.queue) <= Buffer
  /\ error \in [full : BOOLEAN, closed : BOOLEAN]
  /\ events.closed => error.closed
  /\ sent \in Seq(Kinds) /\ out \in Seq({"text", "stop", "error", "DONE", "json"})
  /\ ledger \in [result : {"none", "success", "canceled", "upstream_error", "empty", "cut",
                           "timeout", "image"},
                 logs : Nat, commits : Nat, a : Nat, b : Nat, alerts : Nat, stops : Nat]

Init ==
  /\ charity \in BOOLEAN /\ canceled = FALSE
  /\ handler = [pc |-> "start", held |-> NoEvent, done |-> FALSE, failed |-> FALSE]
  /\ parser = [pc |-> "off", held |-> NoEvent]
  /\ events = [queue |-> <<>>, closed |-> FALSE]
  /\ error = [full |-> FALSE, closed |-> FALSE]
  /\ sent = <<>> /\ out = <<>>
  /\ ledger = [result |-> "none", logs |-> 0, commits |-> 0, a |-> 0, b |-> 0,
                alerts |-> 0, stops |-> 0]

-----------------------------------------------------------------------------
(* Accounting *)

\* One row in the request log.
Logged(l, r) == [l EXCEPT !.result = r, !.logs = @ + 1]

\* charityCommitAccounting, on the paths of the public pool only.
Committed(l) == IF charity THEN [l EXCEPT !.commits = @ + 1] ELSE l

CountB(l) == [l EXCEPT !.b = @ + 1]
CountA(l) == [l EXCEPT !.a = @ + 1]

\* The handler returns; net/http cancels the context of the request.
Stop(l, written) ==
  /\ handler' = [handler EXCEPT !.pc = "end", !.held = NoEvent]
  /\ canceled' = TRUE
  /\ ledger' = l
  /\ out' = out \o written

\* Nothing was relayed yet: the reservation is settled all the same, since
\* Dify may have used the donor's quota.
EndUnsettled(r) == Logged(ledger, r)
EndEarly(r) == Logged(Committed(ledger), r)

-----------------------------------------------------------------------------
(* Before the workflow request *)

Upload(ok) ==
  /\ handler.pc = "start"
  /\ IF ok
     THEN /\ handler' = [handler EXCEPT !.pc = "uploaded"]
          /\ UNCHANGED <<canceled, out, ledger>>
     ELSE Stop(EndEarly(IF charity /\ canceled THEN "canceled" ELSE "image"),
               IF charity /\ canceled THEN <<>> ELSE <<"json">>)
  /\ UNCHANGED <<charity, parser, channels, sent>>

Choose(stream) ==
  /\ handler.pc = "uploaded"
  /\ handler' = [handler EXCEPT !.pc = IF stream THEN "first" ELSE "calling"]
  /\ parser' = [parser EXCEPT !.pc = IF stream THEN "requesting" ELSE "off"]
  /\ UNCHANGED <<charity, canceled, channels, sent, out, ledger>>

-----------------------------------------------------------------------------
(* A blocking call *)

\* What the client may return: the text; the error of a workflow that has failed
\* although Dify answered 200, whose text may read like a cut connection; a
\* connection that was cut or timed out; any other error.  When the caller is
\* gone the kind of error makes no difference.
BlockingWorkflow ==
  IF canceled THEN {"text", "error"} ELSE {"text", "failed", "failed_cut", "cut", "error"}
IsTimeoutError(res) == res \in {"cut", "failed_cut"}

BlockingSucceeds(res) ==
  /\ res = "text"
  /\ Stop(Logged(CountA(Committed(CountB(ledger))), "success"), <<"json">>)

BlockingCanceled(res) ==
  /\ res # "text" /\ canceled
  /\ Stop(EndEarly("canceled"), <<>>)

\* Class B counts, and an alert is linked to the log row; but on the caller's own
\* app the test for a cut connection comes first.
BlockingFailed200(res) ==
  LET l == CountB(ledger) IN
  /\ res \in {"failed", "failed_cut"}
  /\ IF IsTimeoutError(res) /\ ~charity
     THEN Stop(Logged(l, "timeout"), <<"json">>)
     ELSE Stop([Logged(Committed(l), "upstream_error") EXCEPT !.alerts = @ + 1], <<"json">>)

\* A cut connection is counted on the donation's side only.
BlockingTimeout(res) ==
  /\ res = "cut" /\ IsTimeoutError(res)
  /\ Stop(Logged(IF charity THEN Committed(CountB(ledger)) ELSE ledger, "timeout"), <<"json">>)

BlockingFails(res) ==
  /\ res = "error" /\ ~canceled
  /\ Stop(EndEarly("upstream_error"), <<"json">>)

HandleBlocking(res) ==
  /\ handler.pc = "calling" /\ res \in BlockingWorkflow
  /\ \/ BlockingSucceeds(res) \/ BlockingCanceled(res) \/ BlockingFailed200(res)
     \/ BlockingTimeout(res) \/ BlockingFails(res)
  /\ UNCHANGED <<charity, parser, channels, sent>>

-----------------------------------------------------------------------------
(* The client's goroutine *)

ParserGoto(pc) == parser' = [parser EXCEPT !.pc = pc]

\* The request: 200, or a status or transport error to report.
Respond(ok) ==
  /\ parser.pc = "requesting"
  /\ ParserGoto(IF ok THEN "reading" ELSE "erring")
  /\ UNCHANGED <<charity, canceled, handler, channels, sent, out, ledger>>

\* Dify sends nothing of interest after a terminal event.
Terminated == \E i \in DOMAIN sent : sent[i] \in {"finished", "failed"}

Read(e) ==
  /\ parser.pc = "reading" /\ Len(sent) < MaxEvents
  /\ Terminated => e = "other"
  /\ parser' = [pc |-> "sending", held |-> e]
  /\ UNCHANGED <<charity, canceled, handler, channels, sent, out, ledger>>

\* The event goes into the channel, or the context ends the goroutine.
Send ==
  /\ parser.pc = "sending" /\ Len(events.queue) < Buffer
  /\ events' = [events EXCEPT !.queue = Append(@, parser.held)]
  /\ sent' = Append(sent, parser.held)
  /\ parser' = [pc |-> "reading", held |-> NoEvent]
  /\ UNCHANGED <<charity, canceled, handler, error, out, ledger>>

MayGiveUpLate == canceled /\ Len(events.queue) < Buffer
MayGiveUp == canceled

GiveUp ==
  /\ parser.pc = "sending" /\ MayGiveUp
  /\ parser' = [pc |-> "closing", held |-> NoEvent]
  /\ UNCHANGED <<charity, canceled, handler, channels, sent, out, ledger>>

\* The end of the body, or of the context; or it cannot be read any further
\* (also because it is too large, malformed, or the client's timeout is over).
EndOfBody(ok) ==
  /\ parser.pc = "reading"
  /\ ParserGoto(IF ok THEN "closing" ELSE "erring")
  /\ UNCHANGED <<charity, canceled, handler, channels, sent, out, ledger>>

\* sendStreamError: a canceled context may win over the buffered channel.
ReportError(delivered) ==
  /\ parser.pc = "erring"
  /\ delivered \/ canceled
  /\ error' = [error EXCEPT !.full = delivered]
  /\ ParserGoto("closing")
  /\ UNCHANGED <<charity, canceled, handler, events, sent, out, ledger>>

\* The deferred calls run last in, first out.
CloseEventsFirst ==
  /\ parser.pc = "closing"
  /\ events' = [events EXCEPT !.closed = TRUE]
  /\ ParserGoto("closed")
  /\ UNCHANGED <<charity, canceled, handler, error, sent, out, ledger>>
CloseError ==
  /\ parser.pc = "closing"
  /\ error' = [error EXCEPT !.closed = TRUE]
  /\ ParserGoto("closed")
  /\ UNCHANGED <<charity, canceled, handler, events, sent, out, ledger>>

CloseEvents ==
  /\ parser.pc = "closed"
  /\ events' = [events EXCEPT !.closed = TRUE]
  /\ ParserGoto("ended")
  /\ UNCHANGED <<charity, canceled, handler, error, sent, out, ledger>>

-----------------------------------------------------------------------------
(* The handler of a streamed call, until something has arrived *)

FirstEvent ==
  /\ handler.pc = "first" /\ events.queue # <<>>
  /\ handler' = [handler EXCEPT !.pc = "started", !.held = Head(events.queue)]
  /\ events' = [events EXCEPT !.queue = Tail(@)]
  /\ UNCHANGED <<charity, canceled, parser, error, sent, out, ledger>>

FirstClosed ==
  /\ handler.pc = "first" /\ events.queue = <<>> /\ events.closed
  /\ handler' = [handler EXCEPT !.pc = "late"]
  /\ UNCHANGED <<charity, canceled, parser, channels, sent, out, ledger>>

FirstCanceled ==
  /\ handler.pc = "first" /\ canceled
  /\ Stop(EndEarly("canceled"), <<>>)
  /\ UNCHANGED <<charity, parser, channels, sent>>

\* A receive from the error channel, the first or the second one: a canceled
\* context is looked at before the error, and nothing in a closed channel is
\* no error.
ErrorReady == error.full \/ error.closed

Fail ==
  /\ error' = [error EXCEPT !.full = FALSE]
  /\ IF canceled THEN Stop(EndEarly("canceled"), <<>>)
     ELSE Stop(EndEarly("upstream_error"), <<"json">>)

FirstError ==
  /\ handler.pc = "first" /\ ErrorReady
  /\ IF error.full \/ canceled THEN Fail
     ELSE /\ handler' = [handler EXCEPT !.pc = "late"]
          /\ UNCHANGED <<canceled, error, out, ledger>>
  /\ UNCHANGED <<charity, parser, events, sent>>

\* No event: a late error, a late cancellation, or an empty stream, reported
\* as a gateway error since no header is written yet.
Late ==
  /\ handler.pc = "late"
  /\ IF error.full \/ canceled THEN Fail
     ELSE /\ Stop(EndEarly("empty"), <<"json">>)
          /\ UNCHANGED error
  /\ UNCHANGED <<charity, parser, events, sent>>

-----------------------------------------------------------------------------
(* The relay *)

\* What the converter writes for an event.
FrameOf(e) == CASE e = "text" -> <<"text">>
                [] e = "finished" -> <<"stop">>
                [] e = "failed" -> <<"error">>
                [] OTHER -> <<>>

Converted(h, e) ==
  [h EXCEPT !.done = @ \/ e \in {"finished", "failed"}, !.failed = @ \/ e = "failed"]

\* With the first event the call has succeeded; before the header is written
\* the caller may turn out to be gone.
StartCanceled ==
  /\ handler.pc = "started" /\ canceled
  /\ Stop(Logged(IF charity THEN CountB(Committed(ledger)) ELSE ledger, "canceled"), <<>>)
  /\ UNCHANGED <<charity, parser, channels, sent>>

Start ==
  /\ handler.pc = "started" /\ ~canceled
  /\ ledger' = CountB(Committed(ledger))
  /\ out' = FrameOf(handler.held)
  /\ handler' = Converted([handler EXCEPT !.pc = "relay", !.held = NoEvent], handler.held)
  /\ UNCHANGED <<charity, canceled, parser, channels, sent>>

Relay ==
  /\ handler.pc = "relay" /\ events.queue # <<>>
  /\ out' = out \o FrameOf(Head(events.queue))
  /\ handler' = Converted(handler, Head(events.queue))
  /\ events' = [events EXCEPT !.queue = Tail(@)]
  /\ UNCHANGED <<charity, canceled, parser, error, sent, ledger>>

RelayClosed ==
  /\ handler.pc = "relay" /\ events.queue = <<>> /\ events.closed
  /\ handler' = [handler EXCEPT !.pc = "drain"]
  /\ UNCHANGED <<charity, canceled, parser, channels, sent, out, ledger>>

\* One request to stop the workflow upstream, in a context of its own with a time
\* limit; its result is ignored, and nothing is sent if no event named the task.
StopWorkflow(l, known) == IF known THEN [l EXCEPT !.stops = @ + 1] ELSE l

RelayCanceled(known) ==
  /\ handler.pc = "relay" /\ canceled
  /\ Stop(Logged(StopWorkflow(ledger, known), "canceled"), <<>>)
  /\ UNCHANGED <<charity, parser, channels, sent>>

\* The caller goes away when all is relayed: nothing is left to stop.
DrainCanceled ==
  /\ handler.pc = "drain" /\ canceled
  /\ Stop(Logged(ledger, "canceled"), <<>>)
  /\ UNCHANGED <<charity, parser, channels, sent>>

\* How a stream ends that was relayed to its end: the converter has written an
\* error, the transport has failed, Dify has closed too early, or all is well.
EndingTransportFirst ==
  CASE error.full -> "broken" [] ~error.full /\ handler.failed -> "failed"
    [] ~error.full /\ ~handler.failed /\ ~handler.done -> "cut" [] OTHER -> "complete"
Ending ==
  CASE handler.failed -> "failed" [] ~handler.failed /\ error.full -> "broken"
    [] ~handler.failed /\ ~error.full /\ ~handler.done -> "cut" [] OTHER -> "complete"

\* Class A counts fully relayed streams only.
CountedAnyway(ending) == CountA(ledger)
Counted(ending) == IF ending = "complete" THEN CountA(ledger) ELSE ledger

Drain ==
  /\ handler.pc = "drain" /\ ~canceled
  /\ CASE Ending = "failed" -> Stop(Logged(Counted(Ending), "upstream_error"), <<>>)
       [] Ending = "broken" -> Stop(Logged(Counted(Ending), "upstream_error"), <<"error">>)
       [] Ending = "cut" -> Stop(Logged(Counted(Ending), "cut"), <<"error">>)
       [] Ending = "complete" -> Stop(Logged(Counted(Ending), "success"), <<"DONE">>)
  /\ error' = [error EXCEPT !.full = FALSE]
  /\ UNCHANGED <<charity, parser, events, sent>>

Disconnect ==
  /\ ~canceled
  /\ canceled' = TRUE
  /\ UNCHANGED <<charity, handler, parser, channels, sent, out, ledger>>

Handle ==
  \/ \E b \in BOOLEAN : Upload(b) \/ Choose(b) \/ RelayCanceled(b)
  \/ \E res \in BlockingWorkflow : HandleBlocking(res)
  \/ FirstEvent \/ FirstClosed \/ FirstCanceled \/ FirstError \/ Late
  \/ StartCanceled \/ Start \/ Relay \/ RelayClosed \/ Drain
  \/ DrainCanceled

Parse ==
  \/ \E ok \in BOOLEAN : Respond(ok) \/ EndOfBody(ok) \/ ReportError(ok)
  \/ \E e \in Kinds : Read(e)
  \/ Send \/ GiveUp \/ CloseError \/ CloseEvents

Next == Handle \/ Parse \/ Disconnect

Spec == Init /\ [][Next]_vars

\* Both goroutines run; a caller takes what is written or disconnects, and the
\* client's timeout ends every upstream request.
FairSpec == Spec /\ WF_vars(Handle) /\ WF_vars(Parse)

-----------------------------------------------------------------------------
(* Properties *)

Over == handler.pc = "end"
Frames(kinds) == Len(SelectSeq(out, LAMBDA f : f \in kinds))

\* Whatever way a call ends -- and there are more than twenty -- it is in the
\* request log once, and the reservation of a charity call is settled once.  A
\* workflow is stopped upstream at most once, and only for a caller who left a
\* stream that had begun.
AccountedOnce ==
  /\ Over => ledger.logs = 1 /\ ledger.commits = (IF charity THEN 1 ELSE 0)
  /\ ledger.stops <= 1
  /\ ledger.stops = 1 => ledger.result = "canceled" /\ ledger.b = 1 /\ ledger.a = 0

\* A caller that stayed gets one answer: one JSON body, or a stream that is
\* closed by exactly one terminal, an error frame or [DONE], which is last and
\* never follows the other.
OneAnswer ==
  /\ Frames({"json", "error", "DONE"}) <= 1
  /\ Over /\ ledger.result # "canceled" =>
       /\ Frames({"json", "error", "DONE"}) = 1
       /\ Last(out) \in {"json", "error", "DONE"}

\* What a complete transfer is: the answer of a blocking call, or all the events
\* Dify has sent, relayed in order up to and including the successful end of the
\* workflow, and [DONE].
Complete ==
  IF parser.pc = "off" THEN out = <<"json">>
  ELSE /\ \E i \in DOMAIN sent : sent[i] = "finished"
       /\ out = FlattenSeq([i \in DOMAIN sent |-> FrameOf(sent[i])]) \o <<"DONE">>

\* Class A, "transfer complete", counts exactly the calls logged as a success; each
\* of them is a complete transfer of one upstream call, and no other stream is
\* closed with [DONE]: not one that was cut, broken, failed or left.
TransferComplete ==
  /\ ledger.a <= ledger.b /\ ledger.b <= 1
  /\ ledger.b = 1 /\ charity => ledger.commits = 1
  /\ ledger.a = 1 <=> ledger.result = "success"
  /\ ledger.a = 1 => Complete
  /\ Frames({"DONE"}) = 1 => ledger.a = 1

\* Neither goroutine outlives the call, even if the caller leaves while the
\* channel is full.
CallEnds == <>[](Over /\ parser.pc \in {"off", "ended"})
=============================================================================

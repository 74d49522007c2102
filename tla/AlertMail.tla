------------------------------ MODULE AlertMail ------------------------------
(***************************************************************************)
(* Operational events: the alert center, the aggregation of e-mail and the *)
(* shutdown of the mailer.                                                 *)
(*                                                                         *)
(* An event holds the mailer's mutex while it is recorded, gated by the    *)
(* preferences of its category and added to the category's cooler.  The    *)
(* first event of a cooler starts a timer; the window is named by that     *)
(* event.  When the timer fires a goroutine takes the buffer, sends it     *)
(* without any lock, and closes the window; meanwhile the next window may  *)
(* open.  Shutdown stops the timers, one cooler after the other, and waits *)
(* until the deadline of the process.                                      *)
(***************************************************************************)
EXTENDS Naturals, FiniteSets

CONSTANTS
  Events,     \* events that may happen
  Types,      \* event categories
  Personal,   \* categories whose events have a user as their subject
  Users,
  None        \* no user, no event, no window

ASSUME AlertMailAssumption ==
  /\ IsFiniteSet(Events) /\ Personal \subseteq Types /\ None \notin Users \cup Events

VARIABLES
  users,      \* rows in users
  pref,       \* category -> its two switches
  alerts,     \* events recorded in the alert center
  event,      \* every event: where it is, its category, its subject
  caller,     \* the event that holds the mailer's mutex
  cooler,     \* category -> buffer, running or fired timer, channel of the last window
  window,     \* window -> where its goroutine is and what it took
  stopped,    \* no more events are accepted
  todo,       \* coolers the shutdown goroutine has not come to
  awaited,    \* the window it waits for
  result,     \* what Shutdown has returned
  exited      \* the process is gone

centre == <<users, pref, alerts>>
closing == <<stopped, todo, awaited, result, exited>>
vars == <<centre, event, caller, cooler, window, closing>>

Switches == [center : BOOLEAN, email : BOOLEAN]
NoEvent == [pc |-> "new", type |-> None, subject |-> None]
NoWindow == [pc |-> "unopened", type |-> None, batch |-> {}]

TypeOK ==
  /\ users \subseteq Users /\ alerts \subseteq Events
  /\ pref \in [Types -> Switches]
  /\ event \in [Events ->
       [pc : {"new", "queued", "recording", "recorded", "adding", "dropped",
              "buffered", "mailed"},
        type : Types \cup {None}, subject : Users \cup {None}]]
  /\ caller \in Events \cup {None}
  /\ cooler \in [Types -> [items : SUBSET Events, timer : Events \cup {None},
                           done : Events \cup {None}]]
  /\ window \in [Events ->
       [pc : {"unopened", "running", "fired", "sending", "sent", "closed"},
        type : Types \cup {None}, batch : SUBSET Events]]
  /\ \A t \in Types : cooler[t].timer # None =>
       window[cooler[t].timer].pc \in {"running", "fired"}
  /\ stopped \in BOOLEAN /\ todo \subseteq Types
  /\ awaited \in Events \cup {None}
  /\ result \in {"none", "drained", "expired"} /\ exited \in BOOLEAN

Init ==
  /\ users = Users /\ alerts = {}
  /\ pref = [t \in Types |-> [center |-> TRUE, email |-> TRUE]]
  /\ event = [e \in Events |-> NoEvent]
  /\ caller = None
  /\ cooler = [t \in Types |-> [items |-> {}, timer |-> None, done |-> None]]
  /\ window = [w \in Events |-> NoWindow]
  /\ stopped = FALSE /\ todo = {} /\ awaited = None /\ result = "none" /\ exited = FALSE

-----------------------------------------------------------------------------
(* Queueing an event *)

\* Any of the five sources; the subject may have been deleted meanwhile.
Queue(e, t, u) ==
  /\ caller = None /\ event[e].pc = "new"
  /\ u \in (IF t \in Personal THEN Users ELSE {None})
  /\ event' = [event EXCEPT ![e] = [pc |-> IF stopped THEN "dropped" ELSE "queued",
                                    type |-> t, subject |-> u]]
  /\ caller' = IF stopped THEN None ELSE e
  /\ UNCHANGED <<centre, cooler, window, closing>>

Become(e, pc) == event' = [event EXCEPT ![e].pc = pc]

\* The switch of the alert center, then ...
ReadCenter(e) ==
  /\ event[e].pc = "queued"
  /\ Become(e, IF pref[event[e].type].center THEN "recording" ELSE "recorded")
  /\ UNCHANGED <<centre, caller, cooler, window, closing>>

\* ... one statement that inserts the alert if its subject still exists; an
\* error is logged and changes nothing.
RecordedOf(e) == alerts \cup {e}
Recorded(e) == IF event[e].subject \in users \cup {None} THEN alerts \cup {e} ELSE alerts

AddAdminAlert(e, works) ==
  /\ event[e].pc = "recording"
  /\ alerts' = IF works THEN Recorded(e) ELSE alerts
  /\ Become(e, "recorded")
  /\ UNCHANGED <<users, pref, caller, cooler, window, closing>>

\* The switch of the e-mail, then ...
ReadEmail(e) ==
  LET on == pref[event[e].type].email IN
  /\ event[e].pc = "recorded"
  /\ Become(e, IF on THEN "adding" ELSE "dropped")
  /\ caller' = IF on THEN e ELSE None
  /\ UNCHANGED <<centre, cooler, window, closing>>

\* ... the cooler's own critical section: the first event of a window starts
\* its timer.
Add(e) ==
  LET t == event[e].type
      first == cooler[t].timer = None
  IN /\ event[e].pc = "adding"
     /\ Become(e, "buffered")
     /\ caller' = None
     /\ cooler' = [cooler EXCEPT ![t] =
          [items |-> @.items \cup {e}, timer |-> IF first THEN e ELSE @.timer,
           done |-> IF first THEN e ELSE @.done]]
     /\ window' = IF first
                  THEN [window EXCEPT ![e] = [pc |-> "running", type |-> t, batch |-> {}]]
                  ELSE window
     /\ UNCHANGED <<centre, closing>>

-----------------------------------------------------------------------------
(* The goroutine of a window *)

\* The timer fires: from here on it cannot be stopped.
Fire(w) ==
  /\ window[w].pc = "running"
  /\ window' = [window EXCEPT ![w].pc = "fired"]
  /\ UNCHANGED <<centre, event, caller, cooler, closing>>

\* The buffer is taken and the next event will open a new window.
EmptiedButTimer(c) == [c EXCEPT !.items = {}]
EmptiedButItems(c) == [c EXCEPT !.timer = None]
Emptied(c) == [c EXCEPT !.items = {}, !.timer = None]

Take(w) ==
  /\ window' = [window EXCEPT ![w].pc = "sending", ![w].batch = cooler[window[w].type].items]
  /\ cooler' = [cooler EXCEPT ![window[w].type] = Emptied(@)]

Flush(w) ==
  /\ window[w].pc = "fired"
  /\ Take(w)
  /\ UNCHANGED <<centre, event, caller, closing>>

\* One dialogue for a whole batch: the server takes it, or refuses it at one of a
\* dozen points, or the context ends and closes the connection under it.
sendSMTP(batch) ==
  [e \in Events |-> IF e \in batch THEN [event[e] EXCEPT !.pc = "mailed"] ELSE event[e]]

\* An error is only logged: either way it is over, and nothing is sent again.
Send(w) ==
  /\ window[w].pc = "sending"
  /\ window' = [window EXCEPT ![w].pc = "sent", ![w].batch = {}]
  /\ event' = sendSMTP(window[w].batch)
  /\ UNCHANGED <<centre, caller, cooler, closing>>

\* The channel of the window is closed; the cooler may already have the next.
ForgottenBlindly(c, w) == [c EXCEPT !.done = None]
Forgotten(c, w) == IF c.done = w THEN [c EXCEPT !.done = None] ELSE c

CloseWindow(w) ==
  /\ window[w].pc = "sent"
  /\ window' = [window EXCEPT ![w].pc = "closed"]
  /\ cooler' = [cooler EXCEPT ![window[w].type] = Forgotten(@, w)]
  /\ UNCHANGED <<centre, event, caller, closing>>

-----------------------------------------------------------------------------
(* Shutdown *)

\* The mailer refuses events from now on; a goroutine visits the coolers.
Stop ==
  /\ caller = None /\ ~stopped
  /\ stopped' = TRUE
  /\ todo' = Types
  /\ UNCHANGED <<centre, event, caller, cooler, window, awaited, result, exited>>

\* A cooler without a window is done.  A timer that can still be stopped has
\* its buffer sent at once; otherwise the goroutine of the window goes on.
StopCooler(t) ==
  LET c == cooler[t] IN
  /\ awaited = None /\ t \in todo
  /\ todo' = todo \ {t}
  /\ awaited' = c.done
  /\ IF c.done # None /\ c.timer # None /\ window[c.timer].pc = "running"
     THEN Take(c.timer) ELSE UNCHANGED <<cooler, window>>
  /\ UNCHANGED <<centre, event, caller, stopped, result, exited>>

Proceed ==
  /\ awaited # None /\ window[awaited].pc = "closed"
  /\ awaited' = None
  /\ UNCHANGED <<centre, event, caller, cooler, window, stopped, todo, result, exited>>

Return ==
  /\ stopped /\ result = "none" /\ todo = {} /\ awaited = None
  /\ result' = "drained"
  /\ UNCHANGED <<centre, event, caller, cooler, window, stopped, todo, awaited, exited>>

\* The deadline of the process: sends are cancelled, and fail unless the
\* server has the mail already.
Expire ==
  /\ stopped /\ result = "none"
  /\ result' = "expired"
  /\ UNCHANGED <<centre, event, caller, cooler, window, stopped, todo, awaited, exited>>

\* The end of the process takes every goroutine with it.
Exit ==
  /\ result # "none"
  /\ exited' = TRUE
  /\ UNCHANGED <<centre, event, caller, cooler, window, stopped, todo, awaited, result>>

-----------------------------------------------------------------------------
(* The store *)

\* A batch of preferences, in one transaction.
SetAlertPrefs(p) ==
  /\ pref' = [t \in Types |-> IF t \in DOMAIN p THEN p[t] ELSE pref[t]]
  /\ UNCHANGED <<users, alerts, event, caller, cooler, window, closing>>

\* An unknown category refuses the whole request.
PutAlertPrefs ==
  \E ts \in SUBSET Types : \E p \in [ts -> Switches] : SetAlertPrefs(p)

\* The ids of rows already deleted delete nothing.
DeleteAdminAlerts(ids) ==
  /\ ids \cap alerts # {}
  /\ alerts' = alerts \ ids
  /\ UNCHANGED <<users, pref, event, caller, cooler, window, closing>>

\* An administrator's page may be old: any set of ids may arrive.
DeleteAlerts == \E ids \in SUBSET Events : DeleteAdminAlerts(ids)

\* A user is deleted with the alerts whose subject it is.
DeleteUser(u) ==
  /\ u \in users
  /\ users' = users \ {u}
  /\ alerts' = {e \in alerts : event[e].subject # u}
  /\ UNCHANGED <<pref, event, caller, cooler, window, closing>>

Queueing(e) ==
  \/ \E t \in Types, u \in Users \cup {None} : Queue(e, t, u)
  \/ ReadCenter(e) \/ ReadEmail(e) \/ Add(e)
  \/ \E works \in BOOLEAN : AddAdminAlert(e, works)

Goroutine(w) ==
  Fire(w) \/ Flush(w) \/ Send(w) \/ CloseWindow(w)

Shutdown == Stop \/ Proceed \/ Return \/ Expire \/ Exit \/ \E t \in Types : StopCooler(t)

Administration ==
  \/ PutAlertPrefs
  \/ DeleteAlerts
  \/ \E u \in Users : DeleteUser(u)

Next ==
  /\ ~exited
  /\ \/ \E e \in Events : Queueing(e) \/ Goroutine(e)
     \/ Shutdown
     \/ Administration

Spec == Init /\ [][Next]_vars

\* Timers fire and goroutines run.  A send has no deadline, so that nothing is assumed
\* of Send: a server that stops answering keeps it until the mailer is shut down.
FairSpec == Spec /\ \A w \in Events :
  WF_vars(~exited /\ Fire(w)) /\ WF_vars(~exited /\ Flush(w)) /\ WF_vars(~exited /\ CloseWindow(w))

-----------------------------------------------------------------------------
(* Properties *)

\* However windows overlap and whatever stops them, an event that was
\* accepted for e-mail is in one buffer or in one mail being sent, until that
\* mail is delivered or has failed: never in two mails, never in none.
MailedOnce ==
  \A e \in Events :
    LET buffers == {t \in Types : e \in cooler[t].items}
        mails == {w \in Events : e \in window[w].batch}
    IN Cardinality(buffers) + Cardinality(mails) = IF event[e].pc = "buffered" THEN 1 ELSE 0

\* AddAdminAlert promises that a late event of a deleted user is suppressed:
\* no alert survives, or comes after, the deletion of its subject.
AlertsOfUsers == \A e \in alerts : event[e].subject \in users \cup {None}

\* When Shutdown returns before its deadline, no buffer is left and the last
\* window of every category is closed, even if it was opened while the one
\* before was being sent.
NothingLeft ==
  result = "drained" =>
    \A t \in Types : cooler[t].items = {} /\ cooler[t].timer = None /\ cooler[t].done = None

\* While the process runs, no accepted event is left in a buffer: it becomes part of a
\* mail that is being sent, also while the mails of earlier windows of its category
\* hang, and while the shutdown waits for one of them.
EventuallyTaken ==
  \A e \in Events :
    event[e].pc = "buffered" ~>
      ((\E w \in Events : e \in window[w].batch) \/ event[e].pc = "mailed" \/ exited)
=============================================================================

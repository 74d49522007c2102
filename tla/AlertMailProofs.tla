--------------------------- MODULE AlertMailProofs ---------------------------
(***************************************************************************)
(* The safety of AlertMail for any number of events, categories and users. *)
(***************************************************************************)
EXTENDS AlertMail, TLAPS, FiniteSetTheorems

-----------------------------------------------------------------------------
(* The inductive invariant *)

\* Who has left "new" has a category, and who is on the way holds the mutex.
OnTheWay == {"queued", "recording", "recorded", "adding"}
Callers ==
  \A e \in Events :
    /\ event[e].pc # "new" => event[e].type \in Types
    /\ event[e].pc \in OnTheWay => caller = e

\* A window is opened by an event that is buffered, and holds a batch only
\* while it sends it.
Windows ==
  \A w \in Events :
    /\ window[w].pc # "unopened" =>
         window[w].type \in Types /\ event[w].pc \in {"buffered", "mailed"}
    /\ window[w].batch # {} => window[w].pc = "sending"

\* A cooler's timer belongs to its last window, its buffer has a timer, and it
\* remembers its last window until that is closed.
Unclosed == {"running", "fired", "sending", "sent"}
Coolers ==
  \A t \in Types :
    /\ cooler[t].timer # None =>
         window[cooler[t].timer].type = t /\ cooler[t].done = cooler[t].timer
    /\ cooler[t].items # {} => cooler[t].timer # None
    /\ cooler[t].done # None =>
         window[cooler[t].done].type = t /\ window[cooler[t].done].pc \in Unclosed

\* A buffered event is in the buffer of its category or in one batch.
Buffered ==
  \A t \in Types : \A e \in cooler[t].items : event[e].pc = "buffered" /\ event[e].type = t
Batched ==
  \A w \in Events : \A e \in window[w].batch :
    /\ event[e].pc = "buffered"
    /\ \A t \in Types : e \notin cooler[t].items
    /\ \A v \in Events : e \in window[v].batch => v = w
Somewhere ==
  \A e \in Events : event[e].pc = "buffered" =>
    e \in cooler[event[e].type].items \/ \E w \in Events : e \in window[w].batch

\* An alert is about an event that has happened.
Recent == \A e \in alerts : event[e].pc # "new"

\* Since the shutdown began nothing is added; the coolers it has come to have no
\* window left but the one it waits for.
Draining ==
  /\ stopped => /\ caller = None
                /\ \A t \in Types \ todo : cooler[t].done \in {None, awaited}
  /\ ~stopped => result = "none"
  /\ result = "drained" => todo = {} /\ awaited = None

IInv ==
  /\ TypeOK /\ Callers /\ Windows /\ Coolers
  /\ Buffered /\ Batched /\ Somewhere
  /\ Recent /\ AlertsOfUsers /\ Draining

-----------------------------------------------------------------------------
(* The first states *)

\* Nothing has been sent, buffered or forgotten yet.
LEMMA InitIInv == Init => IInv
<1> SUFFICES ASSUME Init PROVE IInv
  OBVIOUS
<1>1. TypeOK
  BY DEF Init, TypeOK, NoEvent, NoWindow, Switches
<1>2. Callers /\ Windows /\ Coolers
  BY DEF Init, Callers, Windows, Coolers, NoEvent, NoWindow, OnTheWay
<1>3. Buffered /\ Batched /\ Somewhere
  BY DEF Init, Buffered, Batched, Somewhere, NoEvent, NoWindow
<1>4. Recent /\ AlertsOfUsers /\ Draining
  BY DEF Init, Recent, AlertsOfUsers, Draining
<1> QED
  BY <1>1, <1>2, <1>3, <1>4 DEF IInv

-----------------------------------------------------------------------------
(* Events and alerts *)

\* One event at a time is on the way, under the mutex.
LEMMA NextCallers == IInv /\ [Next]_vars => Callers'
<1> SUFFICES ASSUME IInv, [Next]_vars PROVE Callers'
  OBVIOUS
<1>1. ASSUME NEW e \in Events, NEW t \in Types, NEW u \in Users \cup {None}, Queue(e, t, u)
      PROVE  Callers'
  BY <1>1, AlertMailAssumption DEF AlertMailAssumption, Queue, centre, closing, IInv,
     TypeOK, Callers, OnTheWay
<1>2. ASSUME NEW e \in Events, ReadCenter(e) PROVE Callers'
  BY <1>2 DEF ReadCenter, Become, centre, closing, IInv, TypeOK, Callers, OnTheWay
<1>3. ASSUME NEW e \in Events, NEW works \in BOOLEAN, AddAdminAlert(e, works) PROVE Callers'
  BY <1>3 DEF AddAdminAlert, Recorded, Become, centre, closing, IInv, TypeOK, Callers, OnTheWay
<1>4. ASSUME NEW e \in Events, ReadEmail(e) PROVE Callers'
  BY <1>4 DEF ReadEmail, Become, centre, closing, IInv, TypeOK, Callers, OnTheWay
<1>5. ASSUME NEW e \in Events, Add(e) PROVE Callers'
  <2>1. /\ event[e].type \in Types
        /\ \A f \in Events : f # e => event[f].pc \notin OnTheWay
    BY <1>5 DEF Add, IInv, Callers, OnTheWay
  <2>2. /\ event'[e].pc = "buffered" /\ event'[e].type = event[e].type
        /\ \A f \in Events : f # e => event'[f] = event[f]
    BY <1>5 DEF Add, Become, IInv, TypeOK
  <2> QED
    BY <2>1, <2>2 DEF IInv, Callers, OnTheWay
<1>6. ASSUME NEW w \in Events, Send(w) PROVE Callers'
  <2>1. \A e \in Events :
          /\ event'[e].type = event[e].type
          /\ event'[e].pc # "mailed" => event'[e].pc = event[e].pc
          /\ e \in window[w].batch => event[e].pc = "buffered"
    BY <1>6 DEF Send, sendSMTP, IInv, TypeOK, Batched
  <2>2. \A e \in Events : event[e].pc = "new" => event'[e].pc = "new"
    BY <1>6, <2>1 DEF Send, sendSMTP, IInv, TypeOK
  <2>3. UNCHANGED caller
    BY <1>6 DEF Send
  <2> QED
    BY <2>1, <2>2, <2>3 DEF IInv, Callers, OnTheWay
<1>7. ASSUME UNCHANGED <<event, caller>> PROVE Callers'
  BY <1>7 DEF IInv, TypeOK, Callers, OnTheWay
<1> QED
  BY <1>1, <1>2, <1>3, <1>4, <1>5, <1>6, <1>7 DEF Next, Queueing, Goroutine,
     Shutdown, Administration, vars, centre, closing, Fire, Flush, CloseWindow,
     Forgotten, Stop, StopCooler, Proceed, Return, Expire, Exit, PutAlertPrefs,
     SetAlertPrefs, DeleteAlerts, DeleteAdminAlerts, DeleteUser

\* An alert is only inserted for an event on the way.
LEMMA NextRecent == IInv /\ [Next]_vars => Recent'
<1> SUFFICES ASSUME IInv, [Next]_vars PROVE Recent'
  OBVIOUS
<1>1. ASSUME NEW e \in Events, NEW t \in Types, NEW u \in Users \cup {None}, Queue(e, t, u)
      PROVE  Recent'
  BY <1>1 DEF Queue, centre, closing, IInv, TypeOK, Recent
<1>2. ASSUME NEW e \in Events, ReadCenter(e) PROVE Recent'
  BY <1>2 DEF ReadCenter, Become, centre, closing, IInv, TypeOK, Recent
<1>3. ASSUME NEW e \in Events, NEW works \in BOOLEAN, AddAdminAlert(e, works) PROVE Recent'
  BY <1>3 DEF AddAdminAlert, Recorded, Become, centre, closing, IInv, TypeOK, Recent
<1>4. ASSUME NEW e \in Events, ReadEmail(e) PROVE Recent'
  BY <1>4 DEF ReadEmail, Become, centre, closing, IInv, TypeOK, Recent
<1>5. ASSUME NEW e \in Events, Add(e) PROVE Recent'
  BY <1>5 DEF Add, Become, centre, closing, IInv, TypeOK, Recent
<1>6. ASSUME NEW w \in Events, Send(w) PROVE Recent'
  BY <1>6 DEF Send, sendSMTP, centre, closing, IInv, TypeOK, Recent
<1>7. ASSUME DeleteAlerts PROVE Recent'
  BY <1>7 DEF DeleteAlerts, DeleteAdminAlerts, centre, closing, IInv, TypeOK, Recent
<1>8. ASSUME NEW u \in Users, DeleteUser(u) PROVE Recent'
  BY <1>8 DEF DeleteUser, centre, closing, IInv, TypeOK, Recent
<1>9. ASSUME UNCHANGED <<alerts, event>> PROVE Recent'
  BY <1>9 DEF IInv, TypeOK, Recent
<1> QED
  BY <1>1, <1>2, <1>3, <1>4, <1>5, <1>6, <1>7, <1>8, <1>9 DEF Next, Queueing,
     Goroutine, Shutdown, Administration, vars, centre, closing, Fire, Flush,
     CloseWindow, Forgotten, Stop, StopCooler, Proceed, Return, Expire, Exit,
     PutAlertPrefs, SetAlertPrefs

\* The subject is checked by the statement that inserts, and the alerts of a user
\* go with the user's row.
LEMMA NextAlertsOfUsers == IInv /\ [Next]_vars => AlertsOfUsers'
<1> SUFFICES ASSUME IInv, [Next]_vars PROVE AlertsOfUsers'
  OBVIOUS
<1>1. ASSUME NEW e \in Events, NEW t \in Types, NEW u \in Users \cup {None}, Queue(e, t, u)
      PROVE  AlertsOfUsers'
  BY <1>1 DEF Queue, centre, closing, IInv, TypeOK, Recent, AlertsOfUsers
<1>2. ASSUME NEW e \in Events, ReadCenter(e) PROVE AlertsOfUsers'
  BY <1>2 DEF ReadCenter, Become, centre, closing, IInv, TypeOK, Recent, AlertsOfUsers
<1>3. ASSUME NEW e \in Events, NEW works \in BOOLEAN, AddAdminAlert(e, works) PROVE AlertsOfUsers'
  BY <1>3 DEF AddAdminAlert, Recorded, Become, centre, closing, IInv, TypeOK, Recent,
     AlertsOfUsers
<1>4. ASSUME NEW e \in Events, ReadEmail(e) PROVE AlertsOfUsers'
  BY <1>4 DEF ReadEmail, Become, centre, closing, IInv, TypeOK, Recent, AlertsOfUsers
<1>5. ASSUME NEW e \in Events, Add(e) PROVE AlertsOfUsers'
  BY <1>5 DEF Add, Become, centre, closing, IInv, TypeOK, Recent, AlertsOfUsers
<1>6. ASSUME NEW w \in Events, Send(w) PROVE AlertsOfUsers'
  BY <1>6 DEF Send, sendSMTP, centre, closing, IInv, TypeOK, Recent, AlertsOfUsers
<1>7. ASSUME DeleteAlerts PROVE AlertsOfUsers'
  BY <1>7 DEF DeleteAlerts, DeleteAdminAlerts, centre, closing, IInv, TypeOK, Recent,
     AlertsOfUsers
<1>8. ASSUME NEW u \in Users, DeleteUser(u) PROVE AlertsOfUsers'
  BY <1>8 DEF DeleteUser, centre, closing, IInv, TypeOK, Recent, AlertsOfUsers
<1>9. ASSUME UNCHANGED <<users, alerts, event>> PROVE AlertsOfUsers'
  BY <1>9 DEF IInv, TypeOK, Recent, AlertsOfUsers
<1> QED
  BY <1>1, <1>2, <1>3, <1>4, <1>5, <1>6, <1>7, <1>8, <1>9 DEF Next, Queueing,
     Goroutine, Shutdown, Administration, vars, centre, closing, Fire, Flush,
     CloseWindow, Forgotten, Stop, StopCooler, Proceed, Return, Expire, Exit,
     PutAlertPrefs, SetAlertPrefs

-----------------------------------------------------------------------------
(* The two ways a buffer is taken: by its window, or by the shutdown *)

\* The batch is what the buffer held; the other coolers and windows stay.
LEMMA Taken ==
  ASSUME TypeOK, Windows, NEW w \in Events, window[w].pc \in {"running", "fired"}, Take(w),
         NEW s, s = window[w].type
  PROVE  /\ s \in Types
         /\ cooler'[s].items = {} /\ cooler'[s].timer = None
         /\ cooler'[s].done = cooler[s].done
         /\ \A t \in Types : t # s => cooler'[t] = cooler[t]
         /\ window'[w].pc = "sending" /\ window'[w].type = s
         /\ window'[w].batch = cooler[s].items
         /\ \A v \in Events : v # w => window'[v] = window[v]
<1>1. s \in Types
  BY DEF TypeOK, Windows
<1>2. cooler' = [cooler EXCEPT ![s] = Emptied(@)]
  BY DEF Take
<1>3. Emptied(cooler[s]).items = {} /\ Emptied(cooler[s]).timer = None
      /\ Emptied(cooler[s]).done = cooler[s].done
  BY <1>1 DEF TypeOK, Emptied
<1>4. /\ cooler'[s] = Emptied(cooler[s])
      /\ \A t \in Types : t # s => cooler'[t] = cooler[t]
  BY <1>1, <1>2 DEF TypeOK
<1>5. /\ window'[w].pc = "sending" /\ window'[w].type = s
      /\ window'[w].batch = cooler[s].items
      /\ \A v \in Events : v # w => window'[v] = window[v]
  BY DEF TypeOK, Take
<1> QED
  BY <1>1, <1>3, <1>4, <1>5

\* Taking a buffer respects the types of coolers and windows.
LEMMA TakeType ==
  ASSUME TypeOK, NEW w \in Events, window[w].type \in Types, Take(w)
  PROVE  /\ cooler' \in [Types -> [items : SUBSET Events, timer : Events \cup {None},
                                   done : Events \cup {None}]]
         /\ window' \in [Events ->
              [pc : {"unopened", "running", "fired", "sending", "sent", "closed"},
               type : Types \cup {None}, batch : SUBSET Events]]
<1> DEFINE s == window[w].type
<1>1. cooler[s] \in [items : SUBSET Events, timer : Events \cup {None}, done : Events \cup {None}]
  BY DEF TypeOK
<1>2. Emptied(cooler[s]) \in
        [items : SUBSET Events, timer : Events \cup {None}, done : Events \cup {None}]
  BY <1>1 DEF Emptied
<1>3. cooler' = [cooler EXCEPT ![s] = Emptied(cooler[s])]
  BY DEF Take
<1> HIDE DEF s
<1>4. cooler' \in [Types -> [items : SUBSET Events, timer : Events \cup {None},
                            done : Events \cup {None}]]
  BY <1>2, <1>3 DEF TypeOK
<1>5. window' = [window EXCEPT ![w].pc = "sending", ![w].batch = cooler[s].items]
  BY DEF Take, s
<1>6. cooler[s].items \in SUBSET Events
  BY <1>1
<1>7. /\ window' = [v \in Events |-> window'[v]]
      /\ \A v \in Events : v # w => window'[v] = window[v]
  BY <1>5 DEF TypeOK
<1>8. window'[w].pc = "sending" /\ window'[w].type = s /\ window'[w].batch = cooler[s].items
  BY <1>5 DEF TypeOK, s
<1>9. window'[w] = [pc |-> window'[w].pc, type |-> window'[w].type, batch |-> window'[w].batch]
  BY <1>5 DEF TypeOK
<1>10. window'[w] \in
         [pc : {"unopened", "running", "fired", "sending", "sent", "closed"},
          type : Types \cup {None}, batch : SUBSET Events]
  BY <1>6, <1>8, <1>9 DEF s
<1>11. window' \in [Events ->
         [pc : {"unopened", "running", "fired", "sending", "sent", "closed"},
          type : Types \cup {None}, batch : SUBSET Events]]
  BY <1>7, <1>10 DEF TypeOK
<1> QED
  BY <1>4, <1>11

\* A window that has not taken the buffer stays with its event.
LEMMA TakeWindows ==
  ASSUME TypeOK, Windows, NEW w \in Events, window[w].pc \in {"running", "fired"}, Take(w),
         UNCHANGED event
  PROVE  Windows'
BY DEF TypeOK, Windows, Take, Emptied

\* It is the one its cooler's timer named, if any did.
LEMMA TakeCoolers ==
  ASSUME TypeOK, Windows, Coolers, NEW w \in Events, window[w].pc \in {"running", "fired"},
         Take(w)
  PROVE  Coolers'
<1> DEFINE s == window[w].type
<1>1. /\ s \in Types
      /\ cooler'[s].items = {} /\ cooler'[s].timer = None
      /\ cooler'[s].done = cooler[s].done
      /\ \A t \in Types : t # s => cooler'[t] = cooler[t]
      /\ window'[w].pc = "sending" /\ window'[w].type = s
      /\ \A v \in Events : v # w => window'[v] = window[v]
  BY Taken
<1>2. \A t \in Types : cooler[t].timer \in Events \cup {None} /\ cooler[t].done \in Events \cup {None}
  BY DEF TypeOK
<1> HIDE DEF s
<1>3. ASSUME NEW t \in Types, t = s
      PROVE  cooler'[t].done # None =>
               window'[cooler'[t].done].type = t /\ window'[cooler'[t].done].pc \in Unclosed
  BY <1>1, <1>2, <1>3 DEF Coolers, Unclosed
<1>4. ASSUME NEW t \in Types, t # s
      PROVE  /\ cooler'[t].timer # None =>
                  window'[cooler'[t].timer].type = t /\ cooler'[t].done = cooler'[t].timer
             /\ cooler'[t].items # {} => cooler'[t].timer # None
             /\ cooler'[t].done # None =>
                  window'[cooler'[t].done].type = t /\ window'[cooler'[t].done].pc \in Unclosed
  BY <1>1, <1>2, <1>4 DEF Coolers, Unclosed, s
<1> QED
  BY <1>1, <1>3, <1>4 DEF Coolers

\* A window is named by the event that opens it.
LEMMA NextWindows == IInv /\ [Next]_vars => Windows'
<1> SUFFICES ASSUME IInv, [Next]_vars PROVE Windows'
  OBVIOUS
<1>1. ASSUME NEW e \in Events, NEW t \in Types, NEW u \in Users \cup {None}, Queue(e, t, u)
      PROVE  Windows'
  BY <1>1 DEF Queue, centre, closing, IInv, TypeOK, Windows
<1>2. ASSUME NEW e \in Events, ReadCenter(e) PROVE Windows'
  BY <1>2 DEF ReadCenter, Become, centre, closing, IInv, TypeOK, Windows
<1>3. ASSUME NEW e \in Events, NEW works \in BOOLEAN, AddAdminAlert(e, works) PROVE Windows'
  BY <1>3 DEF AddAdminAlert, Recorded, Become, centre, closing, IInv, TypeOK, Windows
<1>4. ASSUME NEW e \in Events, ReadEmail(e) PROVE Windows'
  BY <1>4 DEF ReadEmail, Become, centre, closing, IInv, TypeOK, Windows
<1>5. ASSUME NEW e \in Events, Add(e)
      PROVE  Windows'
<2>1. event[e].type \in Types
  BY <1>5 DEF Add, IInv, Callers
<2> QED
  BY <1>5, <2>1 DEF Add, Become, centre, closing, IInv, TypeOK, Windows
<1>6. ASSUME NEW w \in Events, Fire(w) PROVE Windows'
  BY <1>6 DEF Fire, centre, closing, IInv, TypeOK, Windows
<1>7. ASSUME NEW w \in Events, Flush(w)
      PROVE  Windows'
  BY <1>7, TakeWindows DEF Flush, IInv, TypeOK, Windows
<1>8. ASSUME NEW w \in Events, Send(w) PROVE Windows'
  BY <1>8 DEF Send, sendSMTP, centre, closing, IInv, TypeOK, Windows
<1>9. ASSUME NEW w \in Events, CloseWindow(w) PROVE Windows'
  BY <1>9 DEF CloseWindow, Forgotten, centre, closing, IInv, TypeOK, Windows
<1>10. ASSUME NEW t \in Types, StopCooler(t)
      PROVE  Windows'
<2>1. CASE UNCHANGED <<cooler, window>>
  BY <1>10, <2>1 DEF StopCooler, IInv, TypeOK, Windows
<2>2. CASE ~UNCHANGED <<cooler, window>>
  <3>1. /\ cooler[t].timer \in Events /\ window[cooler[t].timer].pc = "running"
        /\ Take(cooler[t].timer) /\ UNCHANGED event
    BY <1>10, <2>2 DEF StopCooler, IInv, TypeOK
  <3> QED
    BY <3>1, TakeWindows DEF IInv
<2> QED
  BY <2>1, <2>2
<1>11. ASSUME UNCHANGED <<event, window>> PROVE Windows'
  BY <1>11 DEF IInv, TypeOK, Windows
<1> QED
  BY <1>1, <1>2, <1>3, <1>4, <1>5, <1>6, <1>7, <1>8, <1>9, <1>10, <1>11 DEF
     Next, Queueing, Goroutine, Shutdown, Administration, vars, centre, closing,
     Stop, Proceed, Return, Expire, Exit, PutAlertPrefs, SetAlertPrefs,
     DeleteAlerts, DeleteAdminAlerts, DeleteUser

-----------------------------------------------------------------------------
(* An event enters a buffer *)

\* The first of a window starts the timer, and opens the window it names.
LEMMA Added ==
  ASSUME TypeOK, Callers, Windows, NEW e \in Events, Add(e), NEW t, t = event[e].type
  PROVE  /\ t \in Types
         /\ event'[e].pc = "buffered" /\ event'[e].type = t
         /\ \A f \in Events : f # e => event'[f] = event[f]
         /\ window[e].pc = "unopened" /\ window[e].batch = {}
         /\ cooler'[t].items = cooler[t].items \cup {e}
         /\ \A s \in Types : s # t => cooler'[s] = cooler[s]
         /\ cooler[t].timer = None =>
              /\ cooler'[t].timer = e /\ cooler'[t].done = e
              /\ window'[e].pc = "running" /\ window'[e].type = t /\ window'[e].batch = {}
         /\ cooler[t].timer # None =>
              /\ cooler'[t].timer = cooler[t].timer /\ cooler'[t].done = cooler[t].done
              /\ window'[e] = window[e]
         /\ \A w \in Events : w # e => window'[w] = window[w]
<1>1. t \in Types
  BY DEF Add, Callers
<1>2. /\ event'[e].pc = "buffered" /\ event'[e].type = t
      /\ \A f \in Events : f # e => event'[f] = event[f]
  BY DEF Add, Become, TypeOK
<1>3. window[e].pc = "unopened" /\ window[e].batch = {}
  BY DEF Add, Windows
<1>4. cooler' = [cooler EXCEPT ![t] =
        [items |-> cooler[t].items \cup {e},
         timer |-> IF cooler[t].timer = None THEN e ELSE cooler[t].timer,
         done |-> IF cooler[t].timer = None THEN e ELSE cooler[t].done]]
  BY DEF Add
<1>5. /\ cooler'[t].items = cooler[t].items \cup {e}
      /\ \A s \in Types : s # t => cooler'[s] = cooler[s]
      /\ cooler[t].timer = None => cooler'[t].timer = e /\ cooler'[t].done = e
      /\ cooler[t].timer # None =>
           cooler'[t].timer = cooler[t].timer /\ cooler'[t].done = cooler[t].done
  BY <1>1, <1>4 DEF TypeOK
<1>6. /\ cooler[t].timer = None =>
           window'[e].pc = "running" /\ window'[e].type = t /\ window'[e].batch = {}
      /\ cooler[t].timer # None => window'[e] = window[e]
      /\ \A w \in Events : w # e => window'[w] = window[w]
  BY DEF Add, TypeOK
<1> QED
  BY <1>1, <1>2, <1>3, <1>5, <1>6

\* A cooler forgets a window no earlier than the window closes.
LEMMA NextCoolers == IInv /\ [Next]_vars => Coolers'
<1> SUFFICES ASSUME IInv, [Next]_vars PROVE Coolers'
  OBVIOUS
<1>1. ASSUME NEW e \in Events, Add(e)
      PROVE  Coolers'
<2> DEFINE t == event[e].type
<2>1. /\ t \in Types /\ window[e].pc = "unopened"
      /\ \A s \in Types : s # t => cooler'[s] = cooler[s]
      /\ cooler[t].timer = None =>
           /\ cooler'[t].timer = e /\ cooler'[t].done = e
           /\ window'[e].pc = "running" /\ window'[e].type = t
      /\ cooler[t].timer # None =>
           cooler'[t].timer = cooler[t].timer /\ cooler'[t].done = cooler[t].done
      /\ \A w \in Events : w # e => window'[w] = window[w]
  BY <1>1, Added DEF IInv
<2> HIDE DEF t
<2>2. \A s \in Types : /\ cooler[s].timer \in Events \cup {None}
                       /\ cooler[s].done \in Events \cup {None}
  BY DEF IInv, TypeOK
<2>3. \A s \in Types : cooler[s].timer # e /\ cooler[s].done # e
  BY <2>1, AlertMailAssumption DEF AlertMailAssumption, IInv, TypeOK, Coolers, Windows,
     Unclosed
<2> QED
  BY <2>1, <2>2, <2>3 DEF Coolers, Unclosed, IInv
<1>2. ASSUME NEW w \in Events, Fire(w) PROVE Coolers'
  BY <1>2 DEF Fire, centre, closing, IInv, TypeOK, Coolers, Windows, Unclosed
<1>3. ASSUME NEW w \in Events, Flush(w)
      PROVE  Coolers'
  BY <1>3, TakeCoolers DEF Flush, IInv
<1>4. ASSUME NEW w \in Events, Send(w) PROVE Coolers'
  BY <1>4 DEF Send, sendSMTP, centre, closing, IInv, TypeOK, Coolers, Windows, Unclosed
<1>5. ASSUME NEW w \in Events, CloseWindow(w)
      PROVE  Coolers'
<2>1. \A t \in Types : /\ cooler'[t].timer = cooler[t].timer /\ cooler'[t].items = cooler[t].items
                       /\ cooler'[t].done = cooler[t].done \/ cooler'[t].done = None
                       /\ t = window[w].type => cooler'[t].done # w
  BY <1>5, AlertMailAssumption DEF AlertMailAssumption, CloseWindow, Forgotten, IInv, TypeOK
<2>2. \A t \in Types : cooler[t].timer # w
  BY <1>5, AlertMailAssumption DEF AlertMailAssumption, CloseWindow, IInv, TypeOK
<2>3. \A v \in Events : window'[v].type = window[v].type /\ (v # w => window'[v] = window[v])
  BY <1>5 DEF CloseWindow, IInv, TypeOK
<2>4. \A t \in Types : /\ cooler[t].timer \in Events \cup {None}
                       /\ cooler[t].done \in Events \cup {None}
  BY DEF IInv, TypeOK
<2>5. ASSUME NEW t \in Types PROVE cooler[t].timer # None => cooler'[t].done = cooler[t].done
  BY <1>5, <2>2, <2>5 DEF CloseWindow, Forgotten, IInv, TypeOK, Coolers
<2> QED
  BY <2>1, <2>2, <2>3, <2>4, <2>5, AlertMailAssumption DEF AlertMailAssumption, IInv,
     Coolers, Unclosed
<1>6. ASSUME NEW t \in Types, StopCooler(t)
      PROVE  Coolers'
<2>1. CASE UNCHANGED <<cooler, window>>
  BY <1>6, <2>1 DEF StopCooler, IInv, TypeOK, Coolers, Windows, Unclosed
<2>2. CASE ~UNCHANGED <<cooler, window>>
  <3>1. /\ cooler[t].timer \in Events /\ window[cooler[t].timer].pc = "running"
        /\ Take(cooler[t].timer) /\ UNCHANGED event
    BY <1>6, <2>2 DEF StopCooler, IInv, TypeOK
  <3> QED
    BY <3>1, TakeCoolers DEF IInv
<2> QED
  BY <2>1, <2>2
<1>7. ASSUME UNCHANGED <<cooler, window>> PROVE Coolers'
  BY <1>7 DEF IInv, TypeOK, Coolers, Windows, Unclosed
<1> QED
  BY <1>1, <1>2, <1>3, <1>4, <1>5, <1>6, <1>7 DEF Next, Queueing, Goroutine,
     Shutdown, Administration, vars, centre, closing, Queue, ReadCenter, Become,
     AddAdminAlert, Recorded, Become, ReadEmail, Become, Stop, Proceed, Return,
     Expire, Exit, PutAlertPrefs, SetAlertPrefs, DeleteAlerts,
     DeleteAdminAlerts, DeleteUser

-----------------------------------------------------------------------------
(* Types *)

\* A timer whose buffer is taken is forgotten, and it is no other cooler's.
LEMMA TakeTimers ==
  ASSUME TypeOK, Windows, Coolers, NEW w \in Events, window[w].pc \in {"running", "fired"},
         Take(w)
  PROVE  \A t \in Types : cooler'[t].timer # None =>
           window'[cooler'[t].timer].pc \in {"running", "fired"}
<1> DEFINE s == window[w].type
<1>1. /\ s \in Types /\ cooler'[s].timer = None
      /\ \A t \in Types : t # s => cooler'[t] = cooler[t]
      /\ \A v \in Events : v # w => window'[v] = window[v]
  BY Taken
<1>2. ASSUME NEW t \in Types, t # s, cooler[t].timer # None
      PROVE  /\ cooler[t].timer \in Events /\ cooler[t].timer # w
             /\ window[cooler[t].timer].pc \in {"running", "fired"}
  BY <1>2 DEF TypeOK, Coolers
<1> HIDE DEF s
<1> QED
  BY <1>1, <1>2

\* Every step respects the types; a timer that a cooler names has not been taken.
LEMMA NextTypeOK == IInv /\ [Next]_vars => TypeOK'
<1> SUFFICES ASSUME IInv, [Next]_vars PROVE TypeOK'
  OBVIOUS
<1>1. ASSUME NEW e \in Events, NEW t \in Types, NEW u \in Users \cup {None}, Queue(e, t, u)
      PROVE  TypeOK'
  <2>1. event' \in [Events ->
         [pc : {"new", "queued", "recording", "recorded", "adding", "dropped",
                "buffered", "mailed"},
          type : Types \cup {None}, subject : Users \cup {None}]]
    BY <1>1 DEF Queue, IInv, TypeOK
  <2>2. caller' \in Events \cup {None} /\ UNCHANGED <<centre, cooler, window, closing>>
    BY <1>1 DEF Queue
  <2> QED
    BY <2>1, <2>2 DEF centre, closing, IInv, TypeOK
<1>2. ASSUME NEW e \in Events, ReadCenter(e) PROVE TypeOK'
  <2>1. event' \in [Events ->
         [pc : {"new", "queued", "recording", "recorded", "adding", "dropped",
                "buffered", "mailed"},
          type : Types \cup {None}, subject : Users \cup {None}]]
    BY <1>2 DEF ReadCenter, Become, IInv, TypeOK
  <2>2. UNCHANGED <<centre, caller, cooler, window, closing>>
    BY <1>2 DEF ReadCenter
  <2> QED
    BY <2>1, <2>2 DEF centre, closing, IInv, TypeOK
<1>3. ASSUME NEW e \in Events, NEW works \in BOOLEAN, AddAdminAlert(e, works) PROVE TypeOK'
  BY <1>3 DEF AddAdminAlert, Recorded, Become, centre, closing, IInv, TypeOK
<1>4. ASSUME NEW e \in Events, ReadEmail(e)
      PROVE  TypeOK'
<2>1. event' \in [Events ->
       [pc : {"new", "queued", "recording", "recorded", "adding", "dropped",
              "buffered", "mailed"},
        type : Types \cup {None}, subject : Users \cup {None}]]
  BY <1>4 DEF ReadEmail, Become, IInv, TypeOK
<2>2. caller' \in Events \cup {None}
  BY <1>4 DEF ReadEmail
<2> QED
  BY <1>4, <2>1, <2>2 DEF ReadEmail, centre, closing, IInv, TypeOK
<1>5. ASSUME NEW e \in Events, Add(e)
      PROVE  TypeOK'
<2> DEFINE t == event[e].type
<2>1. /\ t \in Types
      /\ \A s \in Types : s # t => cooler'[s] = cooler[s]
      /\ cooler[t].timer = None => cooler'[t].timer = e /\ window'[e].pc = "running"
      /\ cooler[t].timer # None => cooler'[t].timer = cooler[t].timer /\ window'[e] = window[e]
      /\ \A w \in Events : w # e => window'[w] = window[w]
  BY <1>5, Added DEF IInv
<2>2. cooler' = [cooler EXCEPT ![t] =
        [items |-> cooler[t].items \cup {e},
         timer |-> IF cooler[t].timer = None THEN e ELSE cooler[t].timer,
         done |-> IF cooler[t].timer = None THEN e ELSE cooler[t].done]]
  BY <1>5 DEF Add
<2>3. event' \in [Events ->
       [pc : {"new", "queued", "recording", "recorded", "adding", "dropped",
              "buffered", "mailed"},
        type : Types \cup {None}, subject : Users \cup {None}]]
  BY <1>5 DEF Add, Become, IInv, TypeOK
<2>4. window' \in [Events ->
       [pc : {"unopened", "running", "fired", "sending", "sent", "closed"},
        type : Types \cup {None}, batch : SUBSET Events]]
  BY <1>5, <2>1 DEF Add, IInv, TypeOK
<2> HIDE DEF t
<2>5. cooler' \in [Types -> [items : SUBSET Events, timer : Events \cup {None},
                            done : Events \cup {None}]]
  BY <2>1, <2>2 DEF IInv, TypeOK
<2>6. \A s \in Types : cooler'[s].timer # None =>
        window'[cooler'[s].timer].pc \in {"running", "fired"}
  <3>1. ASSUME NEW s \in Types, cooler[s].timer # None
        PROVE  cooler[s].timer \in Events /\ window[cooler[s].timer].pc \in {"running", "fired"}
    BY <3>1 DEF IInv, TypeOK
  <3>2. \A s \in Types : cooler[s].timer # None =>
          window'[cooler[s].timer].pc \in {"running", "fired"}
    BY <2>1, <3>1
  <3> QED
    BY <2>1, <3>2
<2> QED
  BY <1>5, <2>3, <2>4, <2>5, <2>6, AlertMailAssumption DEF AlertMailAssumption, Add,
     centre, closing, IInv, TypeOK
<1>6. ASSUME NEW w \in Events, Fire(w) PROVE TypeOK'
  BY <1>6 DEF Fire, centre, closing, IInv, TypeOK
<1>7. ASSUME NEW w \in Events, Flush(w)
      PROVE  TypeOK'
<2>1. window[w].type \in Types
  BY <1>7 DEF Flush, IInv, Windows
<2>2. \A t \in Types : cooler'[t].timer # None =>
        window'[cooler'[t].timer].pc \in {"running", "fired"}
  BY <1>7, TakeTimers DEF Flush, IInv
<2>3. /\ cooler' \in [Types -> [items : SUBSET Events, timer : Events \cup {None},
                               done : Events \cup {None}]]
      /\ window' \in [Events ->
           [pc : {"unopened", "running", "fired", "sending", "sent", "closed"},
            type : Types \cup {None}, batch : SUBSET Events]]
  BY <1>7, <2>1, TakeType DEF Flush, IInv
<2> QED
  BY <1>7, <2>2, <2>3 DEF Flush, centre, closing, IInv, TypeOK
<1>8. ASSUME NEW w \in Events, Send(w)
      PROVE  TypeOK'
<2>1. event' \in [Events ->
       [pc : {"new", "queued", "recording", "recorded", "adding", "dropped",
              "buffered", "mailed"},
        type : Types \cup {None}, subject : Users \cup {None}]]
  BY <1>8 DEF Send, sendSMTP, IInv, TypeOK
<2>2. /\ window' = [v \in Events |-> window'[v]]
      /\ \A v \in Events : v # w => window'[v] = window[v]
  BY <1>8 DEF Send, IInv, TypeOK
<2>6. window'[w].pc = "sent" /\ window'[w].type = window[w].type /\ window'[w].batch = {}
  BY <1>8 DEF Send, IInv, TypeOK
<2>7. window'[w] = [pc |-> window'[w].pc, type |-> window'[w].type, batch |-> window'[w].batch]
  BY <1>8 DEF Send, IInv, TypeOK
<2>8. window'[w] \in
        [pc : {"unopened", "running", "fired", "sending", "sent", "closed"},
         type : Types \cup {None}, batch : SUBSET Events]
  BY <2>6, <2>7 DEF IInv, TypeOK
<2>3. \A t \in Types : cooler[t].timer # w
  BY <1>8, AlertMailAssumption DEF AlertMailAssumption, Send, IInv, TypeOK
<2>4. window' \in [Events ->
       [pc : {"unopened", "running", "fired", "sending", "sent", "closed"},
        type : Types \cup {None}, batch : SUBSET Events]]
  BY <2>2, <2>8 DEF IInv, TypeOK
<2>5. \A t \in Types : cooler[t].timer # None =>
        window'[cooler[t].timer].pc \in {"running", "fired"}
  BY <2>2, <2>3 DEF IInv, TypeOK
<2> QED
  BY <1>8, <2>1, <2>4, <2>5 DEF Send, centre, closing, IInv, TypeOK
<1>9. ASSUME NEW w \in Events, CloseWindow(w)
      PROVE  TypeOK'
<2>1. window' \in [Events ->
       [pc : {"unopened", "running", "fired", "sending", "sent", "closed"},
        type : Types \cup {None}, batch : SUBSET Events]]
  <3>1. window' = [window EXCEPT ![w].pc = "closed"] /\ window[w] \in
          [pc : {"unopened", "running", "fired", "sending", "sent", "closed"},
           type : Types \cup {None}, batch : SUBSET Events]
    BY <1>9 DEF CloseWindow, IInv, TypeOK
  <3> DEFINE closed == [window[w] EXCEPT !.pc = "closed"]
  <3>2. closed \in
          [pc : {"unopened", "running", "fired", "sending", "sent", "closed"},
           type : Types \cup {None}, batch : SUBSET Events]
    BY <3>1
  <3>3. window' = [window EXCEPT ![w] = closed]
    BY <3>1
  <3> HIDE DEF closed
  <3> QED
    BY <3>2, <3>3 DEF IInv, TypeOK
<2>2. cooler' \in [Types -> [items : SUBSET Events, timer : Events \cup {None},
                            done : Events \cup {None}]]
  <3> DEFINE s == window[w].type
             rest == Forgotten(cooler[s], w)
  <3>1. s \in Types
    BY <1>9 DEF CloseWindow, IInv, Windows
  <3>2. rest \in [items : SUBSET Events, timer : Events \cup {None}, done : Events \cup {None}]
    <4>1. cooler[s] \in [items : SUBSET Events, timer : Events \cup {None},
                         done : Events \cup {None}]
      BY <3>1 DEF IInv, TypeOK
    <4>2. [cooler[s] EXCEPT !.done = None] \in
            [items : SUBSET Events, timer : Events \cup {None}, done : Events \cup {None}]
      BY <4>1
    <4> QED
      BY <4>1, <4>2 DEF Forgotten
  <3>3. cooler' = [cooler EXCEPT ![s] = rest]
    BY <1>9 DEF CloseWindow
  <3> HIDE DEF s, rest
  <3> QED
    BY <3>1, <3>2, <3>3 DEF IInv, TypeOK
<2>3. \A t \in Types : cooler'[t].timer = cooler[t].timer
  BY <1>9 DEF CloseWindow, Forgotten, IInv, TypeOK
<2>4. \A t \in Types : cooler[t].timer # w
  BY <1>9, AlertMailAssumption DEF AlertMailAssumption, CloseWindow, IInv, TypeOK
<2>5. \A v \in Events : v # w => window'[v] = window[v]
  BY <1>9 DEF CloseWindow, IInv, TypeOK
<2>6. \A t \in Types : cooler'[t].timer # None =>
        window'[cooler'[t].timer].pc \in {"running", "fired"}
  BY <2>3, <2>4, <2>5 DEF IInv, TypeOK
<2> QED
  BY <1>9, <2>1, <2>2, <2>6 DEF CloseWindow, centre, closing, IInv, TypeOK
<1>10. ASSUME Stop PROVE TypeOK'
  BY <1>10 DEF Stop, centre, closing, IInv, TypeOK
<1>11. ASSUME NEW t \in Types, StopCooler(t)
      PROVE  TypeOK'
<2>1. CASE UNCHANGED <<cooler, window>>
  BY <1>11, <2>1 DEF StopCooler, centre, IInv, TypeOK
<2>2. CASE ~UNCHANGED <<cooler, window>>
  <3> DEFINE w == cooler[t].timer
  <3>1. w \in Events /\ window[w].pc = "running" /\ Take(w)
    BY <1>11, <2>2 DEF StopCooler, IInv, TypeOK
  <3> HIDE DEF w
  <3>2. window[w].type \in Types
    BY <3>1 DEF IInv, Windows
  <3>3. \A s \in Types : cooler'[s].timer # None =>
          window'[cooler'[s].timer].pc \in {"running", "fired"}
    BY <3>1, TakeTimers DEF IInv
  <3>4. /\ cooler' \in [Types -> [items : SUBSET Events, timer : Events \cup {None},
                                 done : Events \cup {None}]]
        /\ window' \in [Events ->
             [pc : {"unopened", "running", "fired", "sending", "sent", "closed"},
              type : Types \cup {None}, batch : SUBSET Events]]
    BY <3>1, <3>2, TakeType DEF IInv
  <3>5. /\ UNCHANGED <<centre, event, caller, stopped, result, exited>>
        /\ todo' = todo \ {t} /\ awaited' = cooler[t].done
    BY <1>11 DEF StopCooler
  <3> QED
    BY <3>3, <3>4, <3>5 DEF centre, IInv, TypeOK
<2> QED
  BY <2>1, <2>2
<1>12. ASSUME Proceed PROVE TypeOK'
  BY <1>12 DEF Proceed, centre, closing, IInv, TypeOK
<1>13. ASSUME Return PROVE TypeOK'
  BY <1>13 DEF Return, centre, closing, IInv, TypeOK
<1>14. ASSUME Expire PROVE TypeOK'
  BY <1>14 DEF Expire, centre, closing, IInv, TypeOK
<1>15. ASSUME Exit PROVE TypeOK'
  BY <1>15 DEF Exit, centre, closing, IInv, TypeOK
<1>16. ASSUME PutAlertPrefs
      PROVE  TypeOK'
<2>0. PICK ts \in SUBSET Types : \E p \in [ts -> Switches] : SetAlertPrefs(p)
  BY <1>16 DEF PutAlertPrefs
<2>1. PICK p \in [ts -> Switches] : SetAlertPrefs(p)
  BY <2>0
<2>2. pref' \in [Types -> Switches]
  BY <2>1 DEF SetAlertPrefs, IInv, TypeOK
<2> QED
  BY <2>1, <2>2 DEF SetAlertPrefs, centre, closing, IInv, TypeOK
<1>17. ASSUME DeleteAlerts PROVE TypeOK'
  BY <1>17 DEF DeleteAlerts, DeleteAdminAlerts, centre, closing, IInv, TypeOK
<1>18. ASSUME NEW u \in Users, DeleteUser(u) PROVE TypeOK'
  BY <1>18 DEF DeleteUser, centre, closing, IInv, TypeOK
<1>19. ASSUME UNCHANGED <<users, pref, alerts, event, caller,
                              cooler, window, stopped, todo, awaited, result, exited>>
      PROVE  TypeOK'
  BY <1>19 DEF IInv, TypeOK
<1> QED
  BY <1>1, <1>2, <1>3, <1>4, <1>5, <1>6, <1>7, <1>8, <1>9, <1>10, <1>11, <1>12,
     <1>13, <1>14, <1>15, <1>16, <1>17, <1>18, <1>19 DEF Next, Queueing,
     Goroutine, Shutdown, Administration, vars, centre, closing

-----------------------------------------------------------------------------
(* Buffers and batches *)

\* Taking a buffer moves its events into the batch of the window.
LEMMA TakeMoves ==
  ASSUME TypeOK, Callers, Windows, Buffered, Batched, Somewhere,
         NEW w \in Events, window[w].pc \in {"running", "fired"}, Take(w), UNCHANGED event
  PROVE  Buffered' /\ Batched' /\ Somewhere'
<1> DEFINE s == window[w].type
<1>1. /\ s \in Types
      /\ cooler'[s].items = {}
      /\ \A t \in Types : t # s => cooler'[t] = cooler[t]
      /\ window'[w].batch = cooler[s].items
      /\ \A v \in Events : v # w => window'[v] = window[v]
  BY Taken
<1>2. window[w].batch = {}
  BY DEF Windows
<1>3. cooler[s].items \subseteq Events
  BY <1>1 DEF TypeOK
<1> HIDE DEF s
<1>4. Buffered'
  BY <1>1 DEF Buffered
<1>5. ASSUME NEW e \in window'[w].batch
      PROVE  /\ event'[e].pc = "buffered"
             /\ \A t \in Types : e \notin cooler'[t].items
             /\ \A v \in Events : e \in window'[v].batch => v = w
  BY <1>1, <1>5 DEF Buffered, Batched
<1>6. ASSUME NEW v \in Events, v # w, NEW e \in window'[v].batch
      PROVE  /\ event'[e].pc = "buffered"
             /\ \A t \in Types : e \notin cooler'[t].items
             /\ \A x \in Events : e \in window'[x].batch => x = v
  BY <1>1, <1>6 DEF Batched
<1>7. Batched'
  BY <1>5, <1>6 DEF Batched
<1>8. ASSUME NEW e \in Events, event[e].pc = "buffered", e \in cooler[event[e].type].items,
             event[e].type \in Types
      PROVE  \/ e \in cooler'[event[e].type].items
             \/ \E v \in Events : e \in window'[v].batch
  BY <1>1, <1>8
<1>9. ASSUME NEW e \in Events, NEW v \in Events, e \in window[v].batch
      PROVE  \E x \in Events : e \in window'[x].batch
  BY <1>1, <1>2, <1>9
<1> QED
  BY <1>4, <1>7, <1>8, <1>9 DEF Somewhere, Callers

\* A buffered event stays in one place: its buffer, then one batch, until the mail is
\* over.
LEMMA NextMoves == IInv /\ [Next]_vars => (Buffered /\ Batched /\ Somewhere)'
<1> SUFFICES ASSUME IInv, [Next]_vars PROVE (Buffered /\ Batched /\ Somewhere)'
  OBVIOUS
<1>1. ASSUME NEW e \in Events, NEW t \in Types, NEW u \in Users \cup {None}, Queue(e, t, u)
      PROVE  (Buffered /\ Batched /\ Somewhere)'
<2>1. /\ UNCHANGED <<cooler, window>>
      /\ \A f \in Events : f # e => event'[f] = event[f]
      /\ event[e].pc # "buffered" /\ event'[e].pc # "buffered"
  BY <1>1 DEF Queue, IInv, TypeOK
<2>2. /\ \A s \in Types : cooler[s].items \subseteq Events
      /\ \A w \in Events : window[w].batch \subseteq Events
  BY DEF IInv, TypeOK
<2>3. Buffered'
  BY <2>1, <2>2 DEF IInv, Buffered
<2>4. Batched'
  BY <2>1, <2>2 DEF IInv, Batched
<2>5. Somewhere'
  BY <2>1 DEF IInv, Somewhere
<2> QED
  BY <2>3, <2>4, <2>5
<1>2. ASSUME NEW e \in Events, ReadCenter(e)
      PROVE  (Buffered /\ Batched /\ Somewhere)'
<2>1. /\ UNCHANGED <<cooler, window>>
      /\ \A f \in Events : f # e => event'[f] = event[f]
      /\ event[e].pc # "buffered" /\ event'[e].pc # "buffered"
  BY <1>2 DEF ReadCenter, Become, IInv, TypeOK
<2>2. /\ \A s \in Types : cooler[s].items \subseteq Events
      /\ \A w \in Events : window[w].batch \subseteq Events
  BY DEF IInv, TypeOK
<2>3. Buffered'
  BY <2>1, <2>2 DEF IInv, Buffered
<2>4. Batched'
  BY <2>1, <2>2 DEF IInv, Batched
<2>5. Somewhere'
  BY <2>1 DEF IInv, Somewhere
<2> QED
  BY <2>3, <2>4, <2>5
<1>3. ASSUME NEW e \in Events, NEW works \in BOOLEAN, AddAdminAlert(e, works)
      PROVE  (Buffered /\ Batched /\ Somewhere)'
<2>1. /\ UNCHANGED <<cooler, window>>
      /\ \A f \in Events : f # e => event'[f] = event[f]
      /\ event[e].pc # "buffered" /\ event'[e].pc # "buffered"
  BY <1>3 DEF AddAdminAlert, Become, IInv, TypeOK
<2>2. /\ \A s \in Types : cooler[s].items \subseteq Events
      /\ \A w \in Events : window[w].batch \subseteq Events
  BY DEF IInv, TypeOK
<2>3. Buffered'
  BY <2>1, <2>2 DEF IInv, Buffered
<2>4. Batched'
  BY <2>1, <2>2 DEF IInv, Batched
<2>5. Somewhere'
  BY <2>1 DEF IInv, Somewhere
<2> QED
  BY <2>3, <2>4, <2>5
<1>4. ASSUME NEW e \in Events, ReadEmail(e)
      PROVE  (Buffered /\ Batched /\ Somewhere)'
<2>1. /\ UNCHANGED <<cooler, window>>
      /\ \A f \in Events : f # e => event'[f] = event[f]
      /\ event[e].pc # "buffered" /\ event'[e].pc # "buffered"
  BY <1>4 DEF ReadEmail, Become, IInv, TypeOK
<2>2. /\ \A s \in Types : cooler[s].items \subseteq Events
      /\ \A w \in Events : window[w].batch \subseteq Events
  BY DEF IInv, TypeOK
<2>3. Buffered'
  BY <2>1, <2>2 DEF IInv, Buffered
<2>4. Batched'
  BY <2>1, <2>2 DEF IInv, Batched
<2>5. Somewhere'
  BY <2>1 DEF IInv, Somewhere
<2> QED
  BY <2>3, <2>4, <2>5
<1>5. ASSUME NEW e \in Events, Add(e)
      PROVE  (Buffered /\ Batched /\ Somewhere)'
<2> DEFINE t == event[e].type
<2>1. /\ t \in Types
      /\ event'[e].pc = "buffered" /\ event'[e].type = t
      /\ \A f \in Events : f # e => event'[f] = event[f]
      /\ window[e].batch = {}
      /\ cooler'[t].items = cooler[t].items \cup {e}
      /\ \A s \in Types : s # t => cooler'[s] = cooler[s]
      /\ \A w \in Events : w # e => window'[w] = window[w]
  BY <1>5, Added DEF IInv
<2>2. window'[e].batch = {}
  BY <1>5, <2>1, Added DEF IInv
<2>3. event[e].pc # "buffered"
  BY <1>5 DEF Add
<2> HIDE DEF t
<2>4. \A w \in Events : window'[w].batch = window[w].batch /\ e \notin window[w].batch
  BY <2>1, <2>2, <2>3 DEF IInv, Batched
<2>5. \A s \in Types : cooler[s].items \subseteq Events /\ e \notin cooler[s].items
  BY <2>3 DEF IInv, TypeOK, Buffered
<2>6. \A w \in Events : window[w].batch \subseteq Events
  BY DEF IInv, TypeOK
<2>7. Buffered'
  BY <2>1, <2>5 DEF IInv, Buffered
<2>8. Batched'
  BY <2>1, <2>4, <2>5, <2>6 DEF IInv, Batched
<2>9. ASSUME NEW f \in Events, f # e, event'[f].pc = "buffered"
      PROVE  \/ f \in cooler'[event'[f].type].items
             \/ \E w \in Events : f \in window'[w].batch
  <3>1. event[f].pc = "buffered" /\ event'[f] = event[f] /\ event[f].type \in Types
    BY <2>1, <2>9 DEF IInv, Callers
  <3>2. CASE f \in cooler[event[f].type].items
    BY <2>1, <3>1, <3>2
  <3>3. CASE \E w \in Events : f \in window[w].batch
    BY <2>4, <3>3
  <3> QED
    BY <3>1, <3>2, <3>3 DEF IInv, Somewhere
<2>10. Somewhere'
  BY <2>1, <2>9 DEF Somewhere
<2> QED
  BY <2>7, <2>8, <2>10
<1>6. ASSUME NEW w \in Events, Fire(w)
      PROVE  (Buffered /\ Batched /\ Somewhere)'
<2>1. UNCHANGED <<event, cooler>> /\ \A v \in Events : window'[v].batch = window[v].batch
  BY <1>6 DEF Fire, IInv, TypeOK
<2> QED
  BY <2>1 DEF IInv, Buffered, Batched, Somewhere
<1>7. ASSUME NEW w \in Events, Flush(w)
      PROVE  (Buffered /\ Batched /\ Somewhere)'
  BY <1>7, TakeMoves DEF Flush, IInv
<1>8. ASSUME NEW w \in Events, Send(w)
      PROVE  (Buffered /\ Batched /\ Somewhere)'
<2>1. /\ \A e \in Events : event'[e].type = event[e].type
      /\ \A e \in Events : e \in window[w].batch => event'[e].pc = "mailed"
      /\ \A e \in Events : e \notin window[w].batch => event'[e] = event[e]
      /\ UNCHANGED cooler
  BY <1>8 DEF Send, sendSMTP, IInv, TypeOK
<2>2. /\ window'[w].batch = {}
      /\ \A v \in Events : v # w => window'[v] = window[v]
  BY <1>8 DEF Send, IInv, TypeOK
<2>3. /\ \A t \in Types : cooler[t].items \subseteq Events
      /\ \A v \in Events : window[v].batch \subseteq Events
  BY DEF IInv, TypeOK
<2>4. \A t \in Types : \A e \in cooler[t].items : e \notin window[w].batch
  BY DEF IInv, Batched
<2>5. \A v \in Events : v # w => \A e \in window[v].batch : e \notin window[w].batch
  BY DEF IInv, Batched
<2>6. Buffered'
  BY <2>1, <2>3, <2>4 DEF IInv, Buffered
<2>7. Batched'
  BY <2>1, <2>2, <2>3, <2>5 DEF IInv, Batched
<2>8. Somewhere'
  BY <2>1, <2>2 DEF IInv, Somewhere
<2> QED
  BY <2>6, <2>7, <2>8
<1>9. ASSUME NEW w \in Events, CloseWindow(w)
      PROVE  (Buffered /\ Batched /\ Somewhere)'
<2>1. /\ UNCHANGED event
      /\ \A t \in Types : cooler'[t].items = cooler[t].items
      /\ \A v \in Events : window'[v].batch = window[v].batch
  BY <1>9 DEF CloseWindow, Forgotten, IInv, TypeOK
<2>2. \A e \in Events : event[e].pc = "buffered" => event[e].type \in Types
  BY DEF IInv, Callers
<2>3. Buffered' /\ Batched'
  BY <2>1 DEF IInv, Buffered, Batched
<2>4. Somewhere'
  BY <2>1, <2>2 DEF IInv, Somewhere
<2> QED
  BY <2>3, <2>4
<1>10. ASSUME NEW t \in Types, StopCooler(t)
      PROVE  (Buffered /\ Batched /\ Somewhere)'
<2>1. CASE UNCHANGED <<cooler, window>>
  BY <1>10, <2>1 DEF StopCooler, IInv, Buffered, Batched, Somewhere
<2>2. CASE ~UNCHANGED <<cooler, window>>
  <3>1. /\ cooler[t].timer \in Events /\ window[cooler[t].timer].pc = "running"
        /\ Take(cooler[t].timer) /\ UNCHANGED event
    BY <1>10, <2>2 DEF StopCooler, IInv, TypeOK
  <3> QED
    BY <3>1, TakeMoves DEF IInv
<2> QED
  BY <2>1, <2>2
<1>11. ASSUME UNCHANGED <<event, cooler, window>> PROVE (Buffered /\ Batched /\ Somewhere)'
  BY <1>11 DEF IInv, TypeOK, Buffered, Batched, Somewhere
<1> QED
  BY <1>1, <1>2, <1>3, <1>4, <1>5, <1>6, <1>7, <1>8, <1>9, <1>10, <1>11 DEF
     Next, Queueing, Goroutine, Shutdown, Administration, vars, centre, closing,
     Stop, Proceed, Return, Expire, Exit, PutAlertPrefs, SetAlertPrefs,
     DeleteAlerts, DeleteAdminAlerts, DeleteUser

-----------------------------------------------------------------------------
(* The shutdown *)

\* After the stop no event adds to a cooler; the shutdown leaves a cooler only when the
\* last window of it is closed.
LEMMA NextDraining == IInv /\ [Next]_vars => Draining'
<1> SUFFICES ASSUME IInv, [Next]_vars PROVE Draining'
  OBVIOUS
<1>1. ASSUME NEW e \in Events, NEW t \in Types, NEW u \in Users \cup {None}, Queue(e, t, u)
      PROVE  Draining'
  BY <1>1 DEF Queue, centre, closing, IInv, Draining
<1>2. ASSUME NEW e \in Events, ReadEmail(e)
      PROVE  Draining'
<2>1. caller = e /\ e # None
  BY <1>2, AlertMailAssumption DEF AlertMailAssumption, ReadEmail, IInv, Callers, OnTheWay
<2>2. ~stopped /\ UNCHANGED <<stopped, result, todo, awaited>>
  BY <1>2, <2>1 DEF ReadEmail, closing, IInv, Draining
<2> QED
  BY <2>2 DEF IInv, Draining
<1>3. ASSUME NEW e \in Events, Add(e)
      PROVE  Draining'
<2>1. caller = e /\ e # None
  BY <1>3, AlertMailAssumption DEF AlertMailAssumption, Add, IInv, Callers, OnTheWay
<2>2. ~stopped /\ UNCHANGED <<stopped, result, todo, awaited>>
  BY <1>3, <2>1 DEF Add, closing, IInv, Draining
<2> QED
  BY <2>2 DEF IInv, Draining
<1>4. ASSUME NEW w \in Events, Flush(w)
      PROVE  Draining'
<2>1. \A t \in Types : cooler'[t].done = cooler[t].done
  BY <1>4, Taken DEF Flush, IInv
<2> QED
  BY <1>4, <2>1 DEF Flush, closing, IInv, Draining
<1>5. ASSUME NEW w \in Events, CloseWindow(w)
      PROVE  Draining'
<2>1. \A t \in Types : cooler'[t].done \in {cooler[t].done, None}
  BY <1>5 DEF CloseWindow, Forgotten, IInv, TypeOK
<2> QED
  BY <1>5, <2>1 DEF CloseWindow, closing, IInv, Draining
<1>6. ASSUME Stop PROVE Draining'
  BY <1>6 DEF Stop, centre, closing, IInv, Draining
<1>7. ASSUME NEW t \in Types, StopCooler(t)
      PROVE  Draining'
<2>1. \A s \in Types : cooler'[s].done = cooler[s].done
  <3>1. CASE UNCHANGED <<cooler, window>>
    BY <3>1
  <3>2. CASE ~UNCHANGED <<cooler, window>>
    <4>1. /\ cooler[t].timer \in Events /\ window[cooler[t].timer].pc = "running"
          /\ Take(cooler[t].timer)
      BY <1>7, <3>2 DEF StopCooler, IInv, TypeOK
    <4> QED
      BY <4>1, Taken DEF IInv
  <3> QED
    BY <3>1, <3>2
<2>2. /\ awaited = None /\ t \in todo /\ todo' = todo \ {t} /\ awaited' = cooler[t].done
      /\ UNCHANGED <<caller, stopped, result>>
  BY <1>7 DEF StopCooler
<2> QED
  BY <2>1, <2>2 DEF IInv, Draining
<1>8. ASSUME Proceed
      PROVE  Draining'
<2>1. \A t \in Types : cooler[t].done # awaited
  BY <1>8 DEF Proceed, IInv, Coolers, Unclosed
<2> QED
  BY <1>8, <2>1 DEF Proceed, IInv, Draining
<1>9. ASSUME Return PROVE Draining'
  BY <1>9 DEF Return, centre, closing, IInv, Draining
<1>10. ASSUME Expire PROVE Draining'
  BY <1>10 DEF Expire, centre, closing, IInv, Draining
<1>11. ASSUME UNCHANGED <<caller, cooler, stopped, todo, awaited, result>> PROVE Draining'
  BY <1>11 DEF IInv, Draining
<1> QED
  BY <1>1, <1>2, <1>3, <1>4, <1>5, <1>6, <1>7, <1>8, <1>9, <1>10, <1>11 DEF
     Next, Queueing, Goroutine, Shutdown, Administration, vars, centre, closing,
     ReadCenter, Become, AddAdminAlert, Recorded, Become, Fire, Send, sendSMTP,
     Exit, PutAlertPrefs, SetAlertPrefs, DeleteAlerts, DeleteAdminAlerts,
     DeleteUser

-----------------------------------------------------------------------------
(* The theorems *)

\* Every step keeps the inductive invariant.
LEMMA NextIInv == IInv /\ [Next]_vars => IInv'
BY NextTypeOK, NextCallers, NextWindows, NextCoolers, NextMoves, NextRecent,
   NextAlertsOfUsers, NextDraining DEF IInv

\* What the inductive invariant says of all reachable states.
LEMMA Inductive == Spec => []IInv
BY InitIInv, NextIInv, PTL DEF Spec

\* Every variable keeps its type, and a timer that a cooler names has not been taken.
THEOREM TypeCorrect == Spec => []TypeOK
<1>1. IInv => TypeOK
  BY DEF IInv
<1> QED
  BY <1>1, Inductive, PTL

\* A set with one element has one, whatever names it.
LEMMA OneOrNone ==
  ASSUME NEW S, NEW P, \A x, y \in S : x = y, P <=> S # {}
  PROVE  Cardinality(S) = IF P THEN 1 ELSE 0
<1>1. CASE P
  <2>1. PICK x \in S : TRUE
    BY <1>1
  <2>2. S = {x}
    BY <2>1
  <2> QED
    BY <1>1, <2>2, FS_Singleton
<1>2. CASE ~P
  BY <1>2, FS_EmptySet
<1> QED
  BY <1>1, <1>2

\* An event accepted for e-mail is in one buffer or one mail until the mail is over:
\* the aggregation neither loses nor doubles it, however many windows overlap.
THEOREM MailedOnceHolds == Spec => []MailedOnce
<1>1. IInv => MailedOnce
  <2> SUFFICES ASSUME IInv, NEW e \in Events
               PROVE  LET buffers == {t \in Types : e \in cooler[t].items}
                          mails == {w \in Events : e \in window[w].batch}
                      IN Cardinality(buffers) + Cardinality(mails)
                           = IF event[e].pc = "buffered" THEN 1 ELSE 0
    BY DEF MailedOnce
  <2> DEFINE buffers == {t \in Types : e \in cooler[t].items}
             mails == {w \in Events : e \in window[w].batch}
  <2>1. \A s, t \in buffers : s = t
    BY DEF IInv, Buffered
  <2>2. \A v, w \in mails : v = w
    BY DEF IInv, Batched
  <2>3. buffers # {} => mails = {} /\ event[e].pc = "buffered"
    BY DEF IInv, Buffered, Batched
  <2>4. mails # {} => buffers = {} /\ event[e].pc = "buffered"
    BY DEF IInv, Batched
  <2>5. event[e].pc = "buffered" => buffers # {} \/ mails # {}
    BY DEF IInv, Somewhere, Callers
  <2> HIDE DEF buffers, mails
  <2>6. Cardinality(buffers) = IF buffers # {} THEN 1 ELSE 0
    BY <2>1, OneOrNone
  <2>7. Cardinality(mails) = IF mails # {} THEN 1 ELSE 0
    BY <2>2, OneOrNone
  <2>8. Cardinality(buffers) + Cardinality(mails)
          = IF event[e].pc = "buffered" THEN 1 ELSE 0
    BY <2>3, <2>4, <2>5, <2>6, <2>7
  <2> QED
    BY <2>8 DEF buffers, mails
<1> QED
  BY <1>1, Inductive, PTL

\* No alert is left of a user who is deleted, even one that was on the way.
THEOREM AlertsOfUsersHolds == Spec => []AlertsOfUsers
<1>1. IInv => AlertsOfUsers
  BY DEF IInv
<1> QED
  BY <1>1, Inductive, PTL

\* A shutdown that returns before its deadline leaves no buffer and no open window.
THEOREM NothingLeftHolds == Spec => []NothingLeft
<1>1. IInv => NothingLeft
  <2> SUFFICES ASSUME IInv, result = "drained", NEW t \in Types
               PROVE  cooler[t].items = {} /\ cooler[t].timer = None /\ cooler[t].done = None
    BY DEF NothingLeft
  <2>1. stopped /\ todo = {} /\ awaited = None
    BY DEF IInv, Draining, TypeOK
  <2>2. cooler[t].done = None
    BY <2>1 DEF IInv, Draining
  <2> QED
    BY <2>2 DEF IInv, Coolers
<1> QED
  BY <1>1, Inductive, PTL

=============================================================================

----------------------- MODULE CharitySettlementProofs -----------------------
(***************************************************************************)
(* The safety of CharitySettlement for any finite set of calls, any sizes, *)
(* timeouts and bounds, and that the composed system is a behaviour of the *)
(* store, which therefore keeps its books whoever settles.                 *)
(***************************************************************************)
EXTENDS CharitySettlement, FiniteSetTheorems, SequenceTheorems, TLAPS

StoreProofs == INSTANCE CharityReservationProofs

-----------------------------------------------------------------------------
(* The inductive invariant *)

\* What the worker is about to settle is a call that it remembers and will not
\* meet again in this round; outside its loops nothing is left to do.
Rounds ==
  /\ pc[Worker] \in {"reading", "applying"} =>
       /\ subject \in Calls \ todo /\ pending[subject] = "retry"
       /\ after = "idle" => todo = {}
  /\ pc[Worker] = "retrying" => after = "retrying"
  /\ pc[Worker] \in {"reading", "applying", "retrying"} =>
       \A c \in todo : pending[c] = "retry"
  /\ pc[Worker] \in {"idle", "scanning", "stopped"} => todo = {}

\* While nothing is served no handler runs, and the worker has not started.
Off ==
  life \in {"down", "recovering"} =>
    pc[Worker] = "stopped" /\ \A c \in Calls : pc[c] \in {"idle", "done"}

\* The recovery has listed every row that is in flight.
Recovering ==
  life = "recovering" => \A c \in Calls : Store!InFlight(c) => c \in listed

\* The upstream is only used after the mark, which nothing takes back.
Marked ==
  \A c \in Calls : requests[c] > 0 \/ pc[c] \in {"marked", "calling"} =>
    status[c] \in {"dispatched", "committed"}

IInv ==
  /\ TypeOK
  /\ Store!GoneSettled /\ Store!InFlightBacked
  /\ Rounds /\ HintsConsistent
  /\ Off /\ Recovering /\ Marked

-----------------------------------------------------------------------------
(* The store and its proofs *)

\* The assumption of the store's proofs.
LEMMA StoreAssumption ==
  /\ StoreProofs!IsFiniteSet(Calls)
  /\ NoUser \notin Users
  /\ Prices \subseteq Nat
  /\ Rewards \subseteq Nat
  /\ StartCredits \subseteq Nat
  /\ Deltas \subseteq Int
  /\ MaxOutside \in Nat
  /\ MaxTotal \in Nat
<1>1. StoreProofs!IsFiniteSet(Calls)
  BY SettlementAssumption DEF SettlementAssumption, StoreProofs!IsFiniteSet, IsFiniteSet
<1> QED
  BY <1>1, SettlementAssumption DEF SettlementAssumption

\* The proofs are about the store that this module composes.
LEMMA SameSets ==
  /\ StoreProofs!Terms = Store!Terms /\ StoreProofs!Held = Store!Held
  /\ StoreProofs!Settled = Store!Settled /\ StoreProofs!Open = Store!Open
  /\ StoreProofs!Existing = Store!Existing
BY DEF StoreProofs!Terms, Store!Terms, StoreProofs!Held, Store!Held, StoreProofs!Settled,
       Store!Settled, StoreProofs!Open, Store!Open, StoreProofs!Existing, Store!Existing

\* The same states, and the same invariants of them.
LEMMA SameState ==
  /\ StoreProofs!Init <=> Store!Init
  /\ UNCHANGED StoreProofs!vars <=> UNCHANGED Store!vars
  /\ StoreProofs!TypeOK <=> Store!TypeOK
  /\ StoreProofs!TypeOK' <=> Store!TypeOK'
  /\ StoreProofs!GoneSettled <=> Store!GoneSettled
  /\ StoreProofs!GoneSettled' <=> Store!GoneSettled'
  /\ StoreProofs!InFlightBacked <=> Store!InFlightBacked
  /\ StoreProofs!InFlightBacked' <=> Store!InFlightBacked'
<1>1. UNCHANGED StoreProofs!vars <=> UNCHANGED Store!vars
  BY DEF StoreProofs!vars, Store!vars, StoreProofs!accounts, Store!accounts,
         StoreProofs!donations, Store!donations, StoreProofs!rows, Store!rows,
         StoreProofs!history, Store!history
<1>2. StoreProofs!Init <=> Store!Init
  BY DEF StoreProofs!Init, Store!Init
<1>3. /\ StoreProofs!TypeOK <=> Store!TypeOK
      /\ StoreProofs!TypeOK' <=> Store!TypeOK'
  BY SameSets DEF StoreProofs!TypeOK, Store!TypeOK
<1>4. /\ StoreProofs!GoneSettled <=> Store!GoneSettled
      /\ StoreProofs!GoneSettled' <=> Store!GoneSettled'
  BY SameSets DEF StoreProofs!GoneSettled, Store!GoneSettled
<1>5. /\ StoreProofs!InFlightBacked <=> Store!InFlightBacked
      /\ StoreProofs!InFlightBacked' <=> Store!InFlightBacked'
  BY SameSets DEF StoreProofs!InFlightBacked, Store!InFlightBacked, StoreProofs!InFlight,
         Store!InFlight, StoreProofs!Live, Store!Live
<1> QED
  BY <1>1, <1>2, <1>3, <1>4, <1>5

\* The same steps.
LEMMA SameStep == StoreProofs!Next <=> Store!Next
BY DEF StoreProofs!Next, Store!Next, StoreProofs!Administration, Store!Administration,
  StoreProofs!Reserve, Store!Reserve, StoreProofs!MarkDispatched, Store!MarkDispatched,
  StoreProofs!Commit, Store!Commit, StoreProofs!Release, Store!Release,
  StoreProofs!Restored, Store!Restored, StoreProofs!Refund, Store!Refund,
  StoreProofs!PurgeSettled, Store!PurgeSettled,
  StoreProofs!CreateDonation, Store!CreateDonation,
  StoreProofs!DeadlinePasses, Store!DeadlinePasses,
  StoreProofs!ExpireOverdue, Store!ExpireOverdue,
  StoreProofs!PatchDonation, Store!PatchDonation, StoreProofs!Clamped, Store!Clamped,
  StoreProofs!Rest, Store!Rest, StoreProofs!CheckStatus, Store!CheckStatus,
  StoreProofs!WriteStatus, Store!WriteStatus,
  StoreProofs!BatchSetStatus, Store!BatchSetStatus,
  StoreProofs!InvalidateExpired, Store!InvalidateExpired,
  StoreProofs!DeleteDonations, Store!DeleteDonations,
  StoreProofs!Deletable, Store!Deletable, StoreProofs!MoveCredits, Store!MoveCredits,
  StoreProofs!AdminBatchCredits, Store!AdminBatchCredits,
  StoreProofs!BatchUpdateUserBalance, Store!BatchUpdateUserBalance,
  StoreProofs!Rebalanced, Store!Rebalanced,
  StoreProofs!DeleteUser, Store!DeleteUser, StoreProofs!SolelyOf, Store!SolelyOf,
  StoreProofs!Anonymous, Store!Anonymous, StoreProofs!Concerns, Store!Concerns,
  StoreProofs!Live, Store!Live, StoreProofs!InFlight, Store!InFlight,
  StoreProofs!InFlightOn, Store!InFlightOn,
  StoreProofs!accounts, Store!accounts, StoreProofs!donations, Store!donations,
  StoreProofs!rows, Store!rows, StoreProofs!history, Store!history,
  StoreProofs!Held, Store!Held, StoreProofs!Settled, Store!Settled,
  StoreProofs!Open, Store!Open, StoreProofs!Existing, Store!Existing

\* The proofs are about the same behaviours.
LEMMA SameSpec == StoreProofs!Spec <=> Store!Spec
<1>1. StoreProofs!Init <=> Store!Init
  BY SameState
<1>2. [StoreProofs!Next]_(StoreProofs!vars) <=> [Store!Next]_(Store!vars)
  BY SameState, SameStep
<1> QED
  BY <1>1, <1>2, PTL DEF StoreProofs!Spec, Store!Spec

\* A step of the store keeps its types and what in-flight calls need.
LEMMA StoreKeeps ==
  ASSUME Store!TypeOK, Store!GoneSettled, Store!InFlightBacked,
         Store!Next \/ UNCHANGED Store!vars
  PROVE  Store!TypeOK' /\ Store!GoneSettled' /\ Store!InFlightBacked'
<1>1. StoreProofs!TypeOK'
  BY SameState, SameStep, StoreAssumption, StoreProofs!NextTypeOK DEF
     StoreProofs!NextTypeOK
<1>2. StoreProofs!GoneSettled' /\ StoreProofs!InFlightBacked'
  BY SameState, SameStep, StoreAssumption, StoreProofs!BackedNext DEF
     StoreProofs!BackedNext
<1> QED
  BY <1>1, <1>2, SameState

-----------------------------------------------------------------------------
(* Every step is a step of the store *)

\* A settlement that takes effect is the store's, on the status it was decided by.
LEMMA SettleStep ==
  ASSUME Store!TypeOK, NEW c \in Calls, NEW was, Settle(c, was)
  PROVE  /\ Store!Next /\ was = status[c]
         /\ status[c] = "reserved" \/ (status[c] = "dispatched" /\ status'[c] = "committed")
         /\ status'[c] \in {"released", "committed"}
         /\ \A e \in Calls : e # c => status'[e] = status[e]
<1>1. CASE was = "reserved" /\ Store!Release(c)
  <2>1. Store!Next
    BY <1>1 DEF Store!Next
  <2>2. status[c] = "reserved" /\ status' = [status EXCEPT ![c] = "released"]
    BY <1>1 DEF Store!Release
  <2>3. status'[c] = "released" /\ \A e \in Calls : e # c => status'[e] = status[e]
    BY <2>2 DEF Store!TypeOK
  <2> QED
    BY <1>1, <2>1, <2>2, <2>3
<1>2. CASE was = "dispatched" /\ Store!Commit(c)
  <2>1. Store!Next
    BY <1>2 DEF Store!Next
  <2>2. status[c] = "dispatched" /\ status' = [status EXCEPT ![c] = "committed"]
    BY <1>2 DEF Store!Commit
  <2>3. status'[c] = "committed" /\ \A e \in Calls : e # c => status'[e] = status[e]
    BY <2>2 DEF Store!TypeOK
  <2> QED
    BY <1>2, <2>1, <2>2, <2>3
<1> QED
  BY <1>1, <1>2 DEF Settle

\* An actor that settles has a call to settle.
LEMMA TargetIsCall ==
  ASSUME Rounds, NEW a \in Actors, pc[a] \in {"reading", "applying"}
  PROVE  Target(a) \in Calls
BY DEF Rounds, Target, Actors

\* What a step does to the rows is a step of the store, or nothing.
LEMMA StoreStep == TypeOK /\ Rounds /\ [Next]_vars => Store!Next \/ UNCHANGED Store!vars
<1> SUFFICES ASSUME TypeOK, Rounds, [Next]_vars PROVE Store!Next \/ UNCHANGED rows
  BY DEF rows, Store!vars, Store!accounts, Store!donations, Store!rows, Store!history
<1>1. ASSUME NEW c \in Calls, NEW u \in Users, NEW d \in Donations, NEW p \in Prices,
             NEW r \in Rewards, Reserve(c, u, d, p, r)
      PROVE  Store!Next
  BY <1>1 DEF Reserve, Store!Next
<1>2. ASSUME NEW c \in Calls, Dispatch(c) PROVE Store!Next
  BY <1>2 DEF Dispatch, Store!Next
<1>3. ASSUME NEW a \in Actors, Apply(a) PROVE Store!Next
  BY <1>3, TargetIsCall, SettleStep DEF Apply, TypeOK
<1>4. ASSUME NEW c \in Calls, RecoverNext(c) PROVE Store!Next
  BY <1>4, SettleStep DEF RecoverNext, TypeOK
<1>5. ASSUME RecoveryFails PROVE Store!Next \/ UNCHANGED rows
  <2>1. ASSUME NEW c \in listed, Settle(c, status[c]) PROVE Store!Next
    BY <2>1, SettleStep DEF TypeOK
  <2> QED
    BY <1>5, <2>1 DEF RecoveryFails
<1>6. ASSUME Administer PROVE Store!Next
  BY <1>6 DEF Administer, Store!Next
<1>7. ASSUME NEW c \in Calls,
             SetupFails(c) \/ DispatchFails(c) \/ StartRequest(c) \/ FinishCall(c)
               \/ HandlerWakes(c)
      PROVE  UNCHANGED rows
  BY <1>7 DEF SetupFails, DispatchFails, StartRequest, FinishCall, HandlerWakes
<1>8. ASSUME NEW a \in Actors, Read(a) \/ ApplyLate(a) \/ AttemptFails(a)
      PROVE  UNCHANGED rows
  BY <1>8 DEF Read, ApplyLate, AttemptFails
<1>9. ASSUME Dequeue \/ Tick \/ RetryNext \/ Scan \/ ScanFails \/ WakeNext \/ WorkerStops
             \/ Time \/ Shutdown \/ Exit \/ Start \/ Serve
      PROVE  UNCHANGED rows
  BY <1>9 DEF Dequeue, Tick, RetryNext, Scan, ScanFails, WakeNext, WorkerStops, Time,
     Shutdown, Exit, Start, Serve
<1>10. CASE UNCHANGED vars
  BY <1>10 DEF vars
<1> QED
  BY <1>1, <1>2, <1>3, <1>4, <1>5, <1>6, <1>7, <1>8, <1>9, <1>10
     DEF Next, Handler, WorkerStep, Attempt, Actors

-----------------------------------------------------------------------------
(* The worker's rounds and its hints *)

\* The worker settles what it remembers, one call after the other.
LEMMA NextRounds == IInv /\ [Next]_vars => Rounds'
<1> SUFFICES ASSUME IInv, [Next]_vars PROVE Rounds'
  OBVIOUS
<1>1. ASSUME NEW c \in Calls, NEW u \in Users, NEW d \in Donations, NEW p \in Prices,
             NEW r \in Rewards, Reserve(c, u, d, p, r)
      PROVE  Rounds'
  <2>1. c # Worker /\ \E label : pc' = [pc EXCEPT ![c] = label]
    BY <1>1, SettlementAssumption DEF SettlementAssumption, Reserve, Goto, Fault
  <2>3. pc'[Worker] = pc[Worker]
    BY <2>1 DEF IInv, TypeOK, Actors
  <2>2. UNCHANGED <<subject, after, todo, pending>>
    BY <1>1, SettlementAssumption DEF SettlementAssumption, Reserve, Goto, Fault,
       round, hints
  <2> QED
    BY <2>2, <2>3 DEF IInv, Rounds
<1>2. ASSUME NEW c \in Calls, SetupFails(c) PROVE Rounds'
  <2>1. c # Worker /\ \E label : pc' = [pc EXCEPT ![c] = label]
    BY <1>2, SettlementAssumption DEF SettlementAssumption, SetupFails, Goto
  <2>3. pc'[Worker] = pc[Worker]
    BY <2>1 DEF IInv, TypeOK, Actors
  <2>2. UNCHANGED <<subject, after, todo, pending>>
    BY <1>2, SettlementAssumption DEF SettlementAssumption, SetupFails, Goto, round, hints
  <2> QED
    BY <2>2, <2>3 DEF IInv, Rounds
<1>3. ASSUME NEW c \in Calls, Dispatch(c) PROVE Rounds'
  <2>1. c # Worker /\ \E label : pc' = [pc EXCEPT ![c] = label]
    BY <1>3, SettlementAssumption DEF SettlementAssumption, Dispatch, Goto, Fault
  <2>3. pc'[Worker] = pc[Worker]
    BY <2>1 DEF IInv, TypeOK, Actors
  <2>2. UNCHANGED <<subject, after, todo, pending>>
    BY <1>3, SettlementAssumption DEF SettlementAssumption, Dispatch, Goto, Fault,
       round, hints
  <2> QED
    BY <2>2, <2>3 DEF IInv, Rounds
<1>4. ASSUME NEW c \in Calls, DispatchFails(c) PROVE Rounds'
  <2>1. c # Worker /\ \E label : pc' = [pc EXCEPT ![c] = label]
    BY <1>4, SettlementAssumption DEF SettlementAssumption, DispatchFails, Goto, Fault
  <2>3. pc'[Worker] = pc[Worker]
    BY <2>1 DEF IInv, TypeOK, Actors
  <2>2. UNCHANGED <<subject, after, todo, pending>>
    BY <1>4, SettlementAssumption DEF SettlementAssumption, DispatchFails, Goto, Fault,
       round, hints
  <2> QED
    BY <2>2, <2>3 DEF IInv, Rounds
<1>5. ASSUME NEW c \in Calls, StartRequest(c) PROVE Rounds'
  <2>1. c # Worker /\ \E label : pc' = [pc EXCEPT ![c] = label]
    BY <1>5, SettlementAssumption DEF SettlementAssumption, StartRequest, Goto
  <2>3. pc'[Worker] = pc[Worker]
    BY <2>1 DEF IInv, TypeOK, Actors
  <2>2. UNCHANGED <<subject, after, todo, pending>>
    BY <1>5, SettlementAssumption DEF SettlementAssumption, StartRequest, Goto, round,
       hints
  <2> QED
    BY <2>2, <2>3 DEF IInv, Rounds
<1>6. ASSUME NEW c \in Calls, FinishCall(c) PROVE Rounds'
  <2>1. c # Worker /\ \E label : pc' = [pc EXCEPT ![c] = label]
    BY <1>6, SettlementAssumption DEF SettlementAssumption, FinishCall, Goto
  <2>3. pc'[Worker] = pc[Worker]
    BY <2>1 DEF IInv, TypeOK, Actors
  <2>2. UNCHANGED <<subject, after, todo, pending>>
    BY <1>6, SettlementAssumption DEF SettlementAssumption, FinishCall, Goto, round, hints
  <2> QED
    BY <2>2, <2>3 DEF IInv, Rounds
<1>7. ASSUME NEW c \in Calls, HandlerWakes(c) PROVE Rounds'
  <2>1. pc'[Worker] = pc[Worker] /\ UNCHANGED <<subject, after, todo>>
    BY <1>7, SettlementAssumption DEF SettlementAssumption, HandlerWakes, Goto, round,
       IInv, TypeOK
  <2>2. \A e \in Calls : pending[e] = "retry" => pending'[e] = "retry"
    BY <1>7 DEF HandlerWakes, Wake, hints, IInv, TypeOK
  <2>3. todo \subseteq Calls
    BY DEF IInv, TypeOK
  <2> QED
    BY <2>1, <2>2, <2>3 DEF IInv, Rounds
<1>8. ASSUME NEW a \in Actors, Read(a) PROVE Rounds'
  <2>1. CASE a # Worker
    <3>1. pc'[Worker] = pc[Worker]
      BY <1>8, <2>1, SettlementAssumption DEF SettlementAssumption, Read, Succeed,
         Leave, Target, Goto, IInv, TypeOK, Actors
    <3>2. UNCHANGED <<subject, after, todo, pending>>
      BY <1>8, <2>1 DEF Read, Succeed, Leave, Target, Goto, round, hints
    <3> QED
      BY <3>1, <3>2 DEF IInv, Rounds
  <2>2. CASE a = Worker
    <3>1. /\ subject \in Calls \ todo /\ pc[Worker] \in {"reading", "applying"}
          /\ after \in {"idle", "retrying"}
          /\ after = "idle" => todo = {}
          /\ todo \subseteq Calls
          /\ \A c \in todo : pending[c] = "retry"
      BY <1>8, <2>2 DEF Read, IInv, TypeOK, Rounds
    <3>2. UNCHANGED <<after, todo>>
      BY <1>8, <2>2 DEF Read, Succeed, Leave, Target, Goto, round
    <3>3. \/ pc'[Worker] = after
          \/ pc'[Worker] \in {"reading", "applying"} /\ UNCHANGED <<subject, pending>>
      BY <1>8, <2>2 DEF Read, Succeed, Leave, Target, Goto, round, hints, IInv, TypeOK,
         Actors
    <3>4. \A c \in Calls : c # subject => pending'[c] = pending[c]
      BY <1>8, <2>2 DEF Read, Succeed, Leave, Target, Goto, hints, IInv, TypeOK
    <3>5. CASE pc'[Worker] = after
      BY <3>1, <3>2, <3>4, <3>5 DEF Rounds
    <3>6. CASE pc'[Worker] \in {"reading", "applying"} /\ UNCHANGED <<subject, pending>>
      <4>1. pending[subject] = "retry"
        BY <3>1 DEF IInv, Rounds
      <4> QED
        BY <3>1, <3>2, <3>6, <4>1 DEF Rounds
    <3> QED
      BY <3>3, <3>5, <3>6
  <2> QED
    BY <2>1, <2>2
<1>9. ASSUME NEW a \in Actors, Apply(a) PROVE Rounds'
  <2>1. CASE a # Worker
    <3>1. pc'[Worker] = pc[Worker]
      BY <1>9, <2>1, SettlementAssumption DEF SettlementAssumption, Apply, Succeed,
         Fail, Leave, Target, Goto, Fault, IInv, TypeOK, Actors
    <3>2. UNCHANGED <<subject, after, todo, pending>>
      BY <1>9, <2>1 DEF Apply, Succeed, Fail, Leave, Target, Goto, Fault, round, hints
    <3> QED
      BY <3>1, <3>2 DEF IInv, Rounds
  <2>2. CASE a = Worker
    <3>1. /\ subject \in Calls \ todo /\ pc[Worker] \in {"reading", "applying"}
          /\ after \in {"idle", "retrying"}
          /\ after = "idle" => todo = {}
          /\ todo \subseteq Calls
          /\ \A c \in todo : pending[c] = "retry"
      BY <1>9, <2>2 DEF Apply, IInv, TypeOK, Rounds
    <3>2. UNCHANGED <<after, todo>>
      BY <1>9, <2>2 DEF Apply, Succeed, Fail, Leave, Target, Goto, Fault, round
    <3>3. \/ pc'[Worker] = after
          \/ pc'[Worker] \in {"reading", "applying"} /\ UNCHANGED <<subject, pending>>
      BY <1>9, <2>2 DEF Apply, Succeed, Fail, Leave, Target, Goto, Fault, round, hints,
         IInv, TypeOK, Actors
    <3>4. \A c \in Calls : c # subject => pending'[c] = pending[c]
      BY <1>9, <2>2 DEF Apply, Succeed, Fail, Leave, Target, Goto, Fault, hints, IInv,
         TypeOK
    <3>5. CASE pc'[Worker] = after
      BY <3>1, <3>2, <3>4, <3>5 DEF Rounds
    <3>6. CASE pc'[Worker] \in {"reading", "applying"} /\ UNCHANGED <<subject, pending>>
      <4>1. pending[subject] = "retry"
        BY <3>1 DEF IInv, Rounds
      <4> QED
        BY <3>1, <3>2, <3>6, <4>1 DEF Rounds
    <3> QED
      BY <3>3, <3>5, <3>6
  <2> QED
    BY <2>1, <2>2
<1>10. ASSUME NEW a \in Actors, ApplyLate(a) PROVE Rounds'
  <2>1. CASE a # Worker
    <3>1. pc'[Worker] = pc[Worker]
      BY <1>10, <2>1, SettlementAssumption DEF SettlementAssumption, ApplyLate,
         Succeed, Fail, Leave, Target, Goto, IInv, TypeOK, Actors
    <3>2. UNCHANGED <<subject, after, todo, pending>>
      BY <1>10, <2>1 DEF ApplyLate, Succeed, Fail, Leave, Target, Goto, round, hints
    <3> QED
      BY <3>1, <3>2 DEF IInv, Rounds
  <2>2. CASE a = Worker
    <3>1. /\ subject \in Calls \ todo /\ pc[Worker] \in {"reading", "applying"}
          /\ after \in {"idle", "retrying"}
          /\ after = "idle" => todo = {}
          /\ todo \subseteq Calls
          /\ \A c \in todo : pending[c] = "retry"
      BY <1>10, <2>2 DEF ApplyLate, IInv, TypeOK, Rounds
    <3>2. UNCHANGED <<after, todo>>
      BY <1>10, <2>2 DEF ApplyLate, Succeed, Fail, Leave, Target, Goto, round
    <3>3. \/ pc'[Worker] = after
          \/ pc'[Worker] \in {"reading", "applying"} /\ UNCHANGED <<subject, pending>>
      BY <1>10, <2>2 DEF ApplyLate, Succeed, Fail, Leave, Target, Goto, round, hints,
         IInv, TypeOK, Actors
    <3>4. \A c \in Calls : c # subject => pending'[c] = pending[c]
      BY <1>10, <2>2 DEF ApplyLate, Succeed, Fail, Leave, Target, Goto, hints, IInv,
         TypeOK
    <3>5. CASE pc'[Worker] = after
      BY <3>1, <3>2, <3>4, <3>5 DEF Rounds
    <3>6. CASE pc'[Worker] \in {"reading", "applying"} /\ UNCHANGED <<subject, pending>>
      <4>1. pending[subject] = "retry"
        BY <3>1 DEF IInv, Rounds
      <4> QED
        BY <3>1, <3>2, <3>6, <4>1 DEF Rounds
    <3> QED
      BY <3>3, <3>5, <3>6
  <2> QED
    BY <2>1, <2>2
<1>11. ASSUME NEW a \in Actors, AttemptFails(a) PROVE Rounds'
  <2>1. CASE a # Worker
    <3>1. pc'[Worker] = pc[Worker]
      BY <1>11, <2>1, SettlementAssumption DEF SettlementAssumption, AttemptFails,
         Fail, Leave, Goto, Fault, IInv, TypeOK, Actors
    <3>2. UNCHANGED <<subject, after, todo, pending>>
      BY <1>11, <2>1 DEF AttemptFails, Fail, Leave, Goto, Fault, round, hints
    <3> QED
      BY <3>1, <3>2 DEF IInv, Rounds
  <2>2. CASE a = Worker
    <3>1. /\ subject \in Calls \ todo /\ pc[Worker] \in {"reading", "applying"}
          /\ after \in {"idle", "retrying"}
          /\ after = "idle" => todo = {}
          /\ todo \subseteq Calls
          /\ \A c \in todo : pending[c] = "retry"
      BY <1>11, <2>2 DEF AttemptFails, IInv, TypeOK, Rounds
    <3>2. UNCHANGED <<after, todo>>
      BY <1>11, <2>2 DEF AttemptFails, Fail, Leave, Goto, Fault, round
    <3>3. \/ pc'[Worker] = after
          \/ pc'[Worker] \in {"reading", "applying"} /\ UNCHANGED <<subject, pending>>
      BY <1>11, <2>2 DEF AttemptFails, Fail, Leave, Goto, Fault, round, hints, IInv,
         TypeOK, Actors
    <3>4. \A c \in Calls : c # subject => pending'[c] = pending[c]
      BY <1>11, <2>2 DEF AttemptFails, Fail, Leave, Goto, Fault, hints, IInv, TypeOK
    <3>5. CASE pc'[Worker] = after
      BY <3>1, <3>2, <3>4, <3>5 DEF Rounds
    <3>6. CASE pc'[Worker] \in {"reading", "applying"} /\ UNCHANGED <<subject, pending>>
      <4>1. pending[subject] = "retry"
        BY <3>1 DEF IInv, Rounds
      <4> QED
        BY <3>1, <3>2, <3>6, <4>1 DEF Rounds
    <3> QED
      BY <3>3, <3>5, <3>6
  <2> QED
    BY <2>1, <2>2
<1>12. ASSUME Dequeue PROVE Rounds'
  <2>1. CASE pending[Head(queue)] = "queued"
    <3>1. Head(queue) \in Calls
      BY <1>12, HeadTailProperties DEF Dequeue, IInv, TypeOK
    <3>2. /\ pc'[Worker] = "reading" /\ subject' = Head(queue) /\ after' = "idle"
          /\ pending'[Head(queue)] = "retry" /\ todo' = {}
      BY <1>12, <2>1, <3>1 DEF Dequeue, Goto, IInv, TypeOK, Rounds, Actors
    <3> QED
      BY <3>1, <3>2 DEF Rounds
  <2>2. CASE pending[Head(queue)] # "queued"
    BY <1>12, <2>2 DEF Dequeue, IInv, Rounds
  <2> QED
    BY <2>1, <2>2
<1>13. ASSUME Tick PROVE Rounds'
  <2>1. pc'[Worker] = "retrying" /\ after' = "retrying" /\ UNCHANGED pending
        /\ \A c \in todo' : pending[c] = "retry"
    BY <1>13 DEF Tick, Goto, hints, IInv, TypeOK, Actors
  <2> QED
    BY <2>1 DEF Rounds
<1>14. ASSUME RetryNext PROVE Rounds'
  <2>1. ASSUME NEW c \in todo, subject' = c, todo' = todo \ {c}, pc'[Worker] = "reading",
               after' = after
        PROVE  Rounds'
    <3>1. c \in Calls /\ UNCHANGED pending
      BY <1>14 DEF RetryNext, hints, IInv, TypeOK
    <3>2. after = "retrying" /\ \A e \in todo : pending[e] = "retry"
      BY <1>14 DEF RetryNext, IInv, Rounds
    <3> QED
      BY <2>1, <3>1, <3>2 DEF Rounds
  <2>2. ASSUME todo' = {}, pc'[Worker] = "scanning" PROVE Rounds'
    BY <2>2 DEF Rounds
  <2> QED
    BY <1>14, <2>1, <2>2 DEF RetryNext, Goto, IInv, TypeOK, Actors
<1>15. ASSUME Scan PROVE Rounds'
  <2>1. pc'[Worker] = "waking"
    BY <1>15 DEF Scan, Goto, IInv, TypeOK, Actors
  <2> QED
    BY <2>1 DEF Rounds
<1>16. ASSUME ScanFails PROVE Rounds'
  <2>1. pc'[Worker] = "idle"
    BY <1>16 DEF ScanFails, Goto, Fault, IInv, TypeOK, Actors
  <2> QED
    BY <1>16, <2>1 DEF ScanFails, Goto, Fault, round, hints, IInv, Rounds
<1>17. ASSUME WakeNext PROVE Rounds'
  <2>1. pc[Worker] = "waking" /\ pc'[Worker] \in {"waking", "idle"}
        /\ (pc'[Worker] = "idle" => todo' = {})
    BY <1>17 DEF WakeNext, Goto, IInv, TypeOK, Actors
  <2> QED
    BY <2>1 DEF Rounds
<1>18. ASSUME WorkerStops PROVE Rounds'
  <2>1. pc'[Worker] = "stopped"
    BY <1>18 DEF WorkerStops, Goto, IInv, TypeOK, Actors
  <2> QED
    BY <1>18, <2>1 DEF WorkerStops, Goto, round, hints, IInv, Rounds
<1>19. ASSUME Exit PROVE Rounds'
  <2>1. pc'[Worker] = "stopped" /\ todo' = {}
    BY <1>19 DEF Exit, Actors
  <2> QED
    BY <2>1 DEF Rounds
<1>20. ASSUME Serve PROVE Rounds'
  <2>1. pc'[Worker] = "idle" /\ todo' = {}
    BY <1>20 DEF Serve, Goto, round, IInv, TypeOK, Rounds, Off, Actors
  <2> QED
    BY <2>1 DEF Rounds
<1>21. ASSUME Time \/ Shutdown \/ Start \/ RecoveryFails \/ Administer
      PROVE  Rounds'
  BY <1>21 DEF Time, Shutdown, Start, RecoveryFails, Fault, Administer, rows, handlers,
     hints, round, process, IInv, Rounds
<1>22. ASSUME NEW c \in Calls,
             RecoverNext(c)
      PROVE  Rounds'
  BY <1>22 DEF RecoverNext, rows, handlers, hints, round, process, IInv, Rounds
<1>23. CASE UNCHANGED vars
  BY <1>23 DEF vars, rows, handlers, hints, round, process, IInv, Rounds
<1> QED
  BY <1>1, <1>2, <1>3, <1>4, <1>5, <1>6, <1>7, <1>8, <1>9, <1>10, <1>11, <1>12, <1>13,
     <1>14, <1>15, <1>16, <1>17, <1>18, <1>19, <1>20, <1>21, <1>22, <1>23 DEF Next,
     Handler, WorkerStep, Attempt, Actors

\* The queue and the map of hints have their types.
HintTypes == queue \in Seq(Calls) /\ pending \in [Calls -> {"absent", "queued", "retry"}]

\* A hint added within the bound keeps the queue and the map in agreement.
LEMMA WakeHints ==
  ASSUME HintTypes, HintsConsistent, NEW c \in Calls, Wake(c)
  PROVE  HintTypes' /\ HintsConsistent'
<1>1. CASE UNCHANGED hints
  BY <1>1 DEF hints, HintTypes, HintsConsistent, Waiting
<1>2. CASE /\ pending[c] = "absent" /\ RoomForHint
           /\ queue' = Append(queue, c)
           /\ pending' = [pending EXCEPT ![c] = "queued"]
  <2>1. /\ queue' \in Seq(Calls) /\ Len(queue') = Len(queue) + 1
        /\ \A i \in 1..Len(queue) : queue'[i] = queue[i]
        /\ queue'[Len(queue) + 1] = c
    BY <1>2, AppendProperties DEF HintTypes
  <2>2. Len(queue) \in Nat
    BY DEF HintTypes
  <2>3. HintTypes'
    BY <1>2, <2>1 DEF HintTypes
  <2>4. Waiting' = Waiting \cup {c} /\ c \notin Waiting
    BY <1>2 DEF Waiting, HintTypes
  <2>5. IsFiniteSet(Waiting) /\ Cardinality(Waiting) \in Nat
    <3>1. Waiting \in SUBSET Calls
      BY DEF Waiting
    <3> QED
      BY <3>1, FS_Subset, FS_CardinalityType, SettlementAssumption DEF
         SettlementAssumption
  <2>6. Cardinality(Waiting') = Cardinality(Waiting) + 1
    BY <2>4, <2>5, FS_AddElement
  <2>7. Cardinality(Waiting') <= QueueSize
    BY <1>2, <2>5, <2>6, SettlementAssumption DEF SettlementAssumption, RoomForHint
  <2>8. \A i \in 1..Len(queue) : queue[i] # c
    BY <1>2 DEF HintsConsistent
  <2>9. \A i, j \in 1..Len(queue') : queue'[i] = queue'[j] => i = j
    BY <2>1, <2>2, <2>8 DEF HintsConsistent
  <2>10. {queue'[i] : i \in 1..Len(queue')} = {queue[i] : i \in 1..Len(queue)} \cup {c}
    BY <2>1, <2>2
  <2>11. {e \in Calls : pending'[e] = "queued"}
           = {e \in Calls : pending[e] = "queued"} \cup {c}
    BY <1>2 DEF HintTypes
  <2> QED
    BY <2>3, <2>7, <2>9, <2>10, <2>11 DEF HintsConsistent
<1> QED
  BY <1>1, <1>2 DEF Wake

\* Forgetting calls that are not in the queue, and keeping the others as they are.
LEMMA ForgetHints ==
  ASSUME HintTypes, HintsConsistent, HintTypes', queue' = queue,
         \A c \in Calls : pending[c] = "queued" <=> pending'[c] = "queued",
         \A c \in Calls : pending'[c] # "absent" => pending[c] # "absent"
  PROVE  HintsConsistent'
<1>1. Waiting' \in SUBSET Waiting /\ Waiting \in SUBSET Calls
  BY DEF Waiting
<1>2. IsFiniteSet(Waiting) /\ IsFiniteSet(Waiting')
  BY <1>1, FS_Subset, SettlementAssumption DEF SettlementAssumption
<1>3. Cardinality(Waiting') <= Cardinality(Waiting)
  BY <1>1, <1>2, FS_Subset
<1>4. Cardinality(Waiting) \in Nat /\ Cardinality(Waiting') \in Nat
  BY <1>2, FS_CardinalityType
<1>5. Cardinality(Waiting') <= QueueSize
  BY <1>3, <1>4, SettlementAssumption DEF SettlementAssumption, HintsConsistent
<1> QED
  BY <1>5 DEF HintsConsistent

\* A step that leaves the hints alone.
LEMMA SameHints == IInv /\ UNCHANGED hints => (HintTypes /\ HintsConsistent)'
<1> SUFFICES ASSUME IInv, UNCHANGED hints PROVE (HintTypes /\ HintsConsistent)'
  OBVIOUS
<1>1. queue' = queue /\ pending' = pending
  BY DEF hints
<1>2. HintTypes'
  BY <1>1 DEF HintTypes, IInv, TypeOK
<1>3. Waiting' = Waiting
  BY <1>1 DEF Waiting
<1> QED
  BY <1>1, <1>2, <1>3 DEF IInv, HintsConsistent

\* The queue of hints and the map stay in agreement and within the bound.
LEMMA NextHints == IInv /\ [Next]_vars => (HintTypes /\ HintsConsistent)'
<1> SUFFICES ASSUME IInv, [Next]_vars PROVE (HintTypes /\ HintsConsistent)'
  OBVIOUS
<1>1. ASSUME NEW c \in Calls, HandlerWakes(c) PROVE (HintTypes /\ HintsConsistent)'
  BY <1>1, WakeHints DEF HandlerWakes, IInv, TypeOK, HintTypes
<1>2. ASSUME NEW a \in Actors, Read(a) PROVE (HintTypes /\ HintsConsistent)'
  <2>1. CASE UNCHANGED hints
    BY <2>1 DEF hints, IInv, TypeOK, HintTypes, HintsConsistent, Waiting
  <2>2. CASE /\ a = Worker /\ UNCHANGED queue
             /\ pending' = [pending EXCEPT ![subject] = "absent"]
    <3>1. subject \in Calls /\ pending[subject] = "retry"
      BY <1>2, <2>2 DEF Read, IInv, Rounds
    <3>2. HintTypes /\ HintTypes'
      BY <2>2 DEF IInv, TypeOK, HintTypes
    <3>3. /\ \A c \in Calls : pending[c] = "queued" <=> pending'[c] = "queued"
          /\ \A c \in Calls : pending'[c] # "absent" => pending[c] # "absent"
      BY <2>2, <3>1, <3>2 DEF HintTypes
    <3> QED
      BY <2>2, <3>2, <3>3, ForgetHints DEF IInv
  <2> QED
    BY <1>2, <2>1, <2>2 DEF Read, Succeed, Leave, Target, Goto, hints
<1>3. ASSUME NEW a \in Actors, Apply(a) PROVE (HintTypes /\ HintsConsistent)'
  <2>1. CASE UNCHANGED hints
    BY <2>1 DEF hints, IInv, TypeOK, HintTypes, HintsConsistent, Waiting
  <2>2. CASE /\ a = Worker /\ UNCHANGED queue
             /\ pending' = [pending EXCEPT ![subject] = "absent"]
    <3>1. subject \in Calls /\ pending[subject] = "retry"
      BY <1>3, <2>2 DEF Apply, IInv, Rounds
    <3>2. HintTypes /\ HintTypes'
      BY <2>2 DEF IInv, TypeOK, HintTypes
    <3>3. /\ \A c \in Calls : pending[c] = "queued" <=> pending'[c] = "queued"
          /\ \A c \in Calls : pending'[c] # "absent" => pending[c] # "absent"
      BY <2>2, <3>1, <3>2 DEF HintTypes
    <3> QED
      BY <2>2, <3>2, <3>3, ForgetHints DEF IInv
  <2> QED
    BY <1>3, <2>1, <2>2 DEF Apply, Succeed, Fail, Leave, Target, Goto, Fault, hints
<1>4. ASSUME NEW a \in Actors, ApplyLate(a) PROVE (HintTypes /\ HintsConsistent)'
  <2>1. CASE UNCHANGED hints
    BY <2>1 DEF hints, IInv, TypeOK, HintTypes, HintsConsistent, Waiting
  <2>2. CASE /\ a = Worker /\ UNCHANGED queue
             /\ pending' = [pending EXCEPT ![subject] = "absent"]
    <3>1. subject \in Calls /\ pending[subject] = "retry"
      BY <1>4, <2>2 DEF ApplyLate, IInv, Rounds
    <3>2. HintTypes /\ HintTypes'
      BY <2>2 DEF IInv, TypeOK, HintTypes
    <3>3. /\ \A c \in Calls : pending[c] = "queued" <=> pending'[c] = "queued"
          /\ \A c \in Calls : pending'[c] # "absent" => pending[c] # "absent"
      BY <2>2, <3>1, <3>2 DEF HintTypes
    <3> QED
      BY <2>2, <3>2, <3>3, ForgetHints DEF IInv
  <2> QED
    BY <1>4, <2>1, <2>2 DEF ApplyLate, Succeed, Fail, Leave, Target, Goto, hints
<1>5. ASSUME Dequeue PROVE (HintTypes /\ HintsConsistent)'
  <2>1. HintTypes /\ queue # <<>>
    BY <1>5 DEF Dequeue, IInv, TypeOK, HintTypes
  <2> DEFINE c == Head(queue)
  <2>2. /\ c \in Calls /\ queue' \in Seq(Calls) /\ Len(queue') = Len(queue) - 1
        /\ \A i \in 1..Len(queue') : queue'[i] = queue[i + 1]
        /\ c = queue[1]
    BY <1>5, <2>1, HeadTailProperties DEF Dequeue, HintTypes
  <2>3. Len(queue) \in Nat \ {0}
    BY <2>1 DEF HintTypes
  <2>4. pending[c] = "queued"
    BY <2>2, <2>3 DEF IInv, HintsConsistent
  <2>5. pending' = [pending EXCEPT ![c] = "retry"]
    BY <1>5, <2>4 DEF Dequeue
  <2> HIDE DEF c
  <2>6. HintTypes'
    BY <2>1, <2>2, <2>5 DEF HintTypes
  <2>7. Waiting' = Waiting
    BY <2>1, <2>2, <2>4, <2>5 DEF Waiting, HintTypes
  <2>8. \A i, j \in 1..Len(queue) : queue[i] = queue[j] => i = j
    BY DEF IInv, HintsConsistent
  <2>9. \A i, j \in 1..Len(queue') : queue'[i] = queue'[j] => i = j
    BY <2>2, <2>3, <2>8
  <2>10. {queue'[i] : i \in 1..Len(queue')} = {queue[i] : i \in 1..Len(queue)} \ {c}
    <3>1. \A i \in 1..Len(queue') : queue'[i] # c
      BY <2>2, <2>3, <2>8
    <3>2. \A i \in 1..Len(queue) :
            queue[i] # c => i - 1 \in 1..Len(queue') /\ queue'[i - 1] = queue[i]
      <4> SUFFICES ASSUME NEW i \in 1..Len(queue), queue[i] # c
                   PROVE  i - 1 \in 1..Len(queue') /\ queue'[i - 1] = queue[i]
        OBVIOUS
      <4>1. i # 1 /\ i \in Nat
        BY <2>2
      <4>2. i - 1 \in 1..Len(queue') /\ (i - 1) + 1 = i
        BY <2>2, <2>3, <4>1
      <4> QED
        BY <2>2, <4>2
    <3>3. \A i \in 1..Len(queue') : i + 1 \in 1..Len(queue) /\ queue'[i] = queue[i + 1]
      BY <2>2, <2>3
    <3> QED
      BY <3>1, <3>2, <3>3
  <2>11. {e \in Calls : pending'[e] = "queued"}
           = {e \in Calls : pending[e] = "queued"} \ {c}
    BY <2>1, <2>2, <2>5 DEF HintTypes
  <2> QED
    BY <2>6, <2>7, <2>9, <2>10, <2>11 DEF HintTypes, IInv, HintsConsistent
<1>6. ASSUME WakeNext PROVE (HintTypes /\ HintsConsistent)'
  <2>1. CASE UNCHANGED hints
    BY <2>1 DEF hints, IInv, TypeOK, HintTypes, HintsConsistent, Waiting
  <2>2. ASSUME NEW c \in todo, Wake(c) PROVE (HintTypes /\ HintsConsistent)'
    <3>1. c \in Calls
      BY DEF IInv, TypeOK
    <3> QED
      BY <2>2, <3>1, WakeHints DEF IInv, TypeOK, HintTypes
  <2> QED
    BY <1>6, <2>1, <2>2 DEF WakeNext
<1>7. ASSUME Exit PROVE (HintTypes /\ HintsConsistent)'
  <2>1. queue' = <<>> /\ pending' = [c \in Calls |-> "absent"]
    BY <1>7 DEF Exit
  <2>2. Waiting' = {} /\ {c \in Calls : pending'[c] = "queued"} = {} /\ HintTypes'
    BY <2>1 DEF Waiting, HintTypes
  <2>3. {queue'[i] : i \in 1..Len(queue')} = {} /\ 1..Len(queue') = {}
    BY <2>1
  <2>4. Cardinality(Waiting') = 0
    BY <2>2, FS_EmptySet
  <2> QED
    BY <2>2, <2>3, <2>4, SettlementAssumption DEF HintsConsistent, SettlementAssumption
<1>8. ASSUME NEW c \in Calls, NEW u \in Users, NEW d \in Donations, NEW p \in Prices,
             NEW r \in Rewards,
             Reserve(c, u, d, p, r)
      PROVE  (HintTypes /\ HintsConsistent)'
  BY <1>8, SameHints DEF Reserve, Goto, Fault, rows, handlers, hints, round, process,
     Goto
<1>9. ASSUME NEW c \in Calls,
             SetupFails(c) \/ Dispatch(c) \/ DispatchFails(c) \/ StartRequest(c) \/
             FinishCall(c) \/ RecoverNext(c)
      PROVE  (HintTypes /\ HintsConsistent)'
  BY <1>9, SameHints DEF SetupFails, Goto, Dispatch, Fault, DispatchFails, StartRequest,
     FinishCall, RecoverNext, rows, handlers, hints, round, process, Goto
<1>10. ASSUME NEW a \in Actors,
             AttemptFails(a)
      PROVE  (HintTypes /\ HintsConsistent)'
  BY <1>10, SameHints DEF AttemptFails, Fail, Leave, Goto, Fault, rows, handlers, hints,
     round, process, Goto
<1>11. ASSUME Tick \/ RetryNext \/ Scan \/ ScanFails \/ WorkerStops \/ Time \/
             Shutdown \/ Start \/ RecoveryFails \/ Serve \/ Administer
      PROVE  (HintTypes /\ HintsConsistent)'
  BY <1>11, SameHints DEF Tick, Goto, RetryNext, Scan, ScanFails, Fault, WorkerStops,
     Time, Shutdown, Start, RecoveryFails, Serve, Administer, rows, handlers, hints, round,
     process, Goto
<1>12. CASE UNCHANGED vars
  BY <1>12, SameHints DEF vars, rows, handlers, hints, round, process, Goto
<1> QED
  BY <1>1, <1>2, <1>3, <1>4, <1>5, <1>6, <1>7, <1>8, <1>9, <1>10, <1>11, <1>12 DEF Next,
     Handler, WorkerStep, Attempt, Actors

-----------------------------------------------------------------------------
(* The process *)

\* Administration moves no call on.
LEMMA AdminKeepsStatus == Store!Administration => UNCHANGED status
BY DEF Store!Administration, Store!PurgeSettled, Store!CreateDonation,
   Store!BatchSetStatus,
       Store!DeleteDonations, Store!DeleteUser, Store!rows

\* Who moves is not idle, done or stopped, so nobody moves while nothing is served.
LEMMA NobodyMoves ==
  ASSUME IInv, life \in {"down", "recovering"}, NEW a \in Actors
  PROVE  pc[a] \in {"idle", "done", "stopped"}
BY DEF IInv, Off, Actors

\* Neither handlers nor the worker move before the recovery is over.
LEMMA ServedFirst ==
  ASSUME IInv, life \in {"down", "recovering"}
  PROVE  /\ \A c \in Calls : /\ \A u \in Users, d \in Donations, p \in Prices, r \in Rewards :
                                 ~Reserve(c, u, d, p, r)
                             /\ ~Handler(c)
         /\ \A a \in Actors : ~Attempt(a) /\ ~AttemptFails(a)
         /\ ~Dequeue /\ ~Tick /\ ~WorkerStep /\ ~Administer
<1>1. \A a \in Actors : ~Attempt(a) /\ ~AttemptFails(a)
  BY NobodyMoves DEF Attempt, Read, Apply, ApplyLate, AttemptFails
<1>2. ~Serving
  BY DEF Serving
<1>3. pc[Worker] = "stopped"
  BY DEF IInv, Off
<1>4. \A c \in Calls : pc[c] \in {"idle", "done"}
  BY DEF IInv, Off
<1>5. ~Dequeue /\ ~Tick /\ ~Administer
  BY <1>2, <1>3 DEF Dequeue, Tick, Administer
<1>6. ~WorkerStep
  BY <1>1, <1>3 DEF WorkerStep, RetryNext, Scan, ScanFails, WakeNext, WorkerStops, Actors
<1>7. ASSUME NEW c \in Calls, Handler(c) PROVE FALSE
  BY <1>1, <1>4, <1>7 DEF Handler, SetupFails, Dispatch, DispatchFails, StartRequest,
     FinishCall, HandlerWakes, Actors
<1>8. ASSUME NEW c \in Calls, NEW u \in Users, NEW d \in Donations, NEW p \in Prices,
             NEW r \in Rewards, Reserve(c, u, d, p, r)
      PROVE  FALSE
  BY <1>2, <1>8 DEF Reserve
<1> QED
  BY <1>1, <1>5, <1>6, <1>7, <1>8

\* While the process is down or recovers, only the process itself moves.
LEMMA DownSteps ==
  ASSUME IInv, [Next]_vars, life \in {"down", "recovering"}
  PROVE  \/ Time \/ Shutdown \/ Exit \/ Start \/ Serve \/ RecoveryFails \/ UNCHANGED vars
         \/ \E c \in Calls : RecoverNext(c)
BY ServedFirst DEF Next

\* The process goes down by its own steps only.
LEMMA LifeSteps ==
  ASSUME [Next]_vars
  PROVE  life' = life \/ Shutdown \/ Exit \/ Start \/ RecoveryFails \/ Serve
<1>1. ASSUME NEW c \in Calls, NEW u \in Users, NEW d \in Donations, NEW p \in Prices,
             NEW r \in Rewards, Reserve(c, u, d, p, r)
      PROVE  life' = life
  BY <1>1 DEF Reserve, process
<1>2. ASSUME NEW a \in Actors, Attempt(a) \/ AttemptFails(a) PROVE life' = life
  BY <1>2 DEF Attempt, Read, Apply, ApplyLate, AttemptFails, Succeed, Fail, Leave, process
<1>3. ASSUME NEW c \in Calls, Handler(c) PROVE life' = life
  BY <1>2, <1>3 DEF Handler, SetupFails, Dispatch, DispatchFails, StartRequest,
     FinishCall,
     HandlerWakes, process, Actors
<1>4. ASSUME WorkerStep PROVE life' = life
  BY <1>2, <1>4 DEF WorkerStep, RetryNext, Scan, ScanFails, WakeNext, WorkerStops,
     process,
     Actors
<1>5. ASSUME NEW c \in Calls, RecoverNext(c) PROVE life' = life
  BY <1>5 DEF RecoverNext
<1>6. ASSUME Dequeue \/ Tick \/ Time \/ Administer \/ UNCHANGED vars PROVE life' = life
  BY <1>6 DEF Dequeue, Tick, Time, Administer, process, vars
<1> QED
  BY <1>1, <1>2, <1>3, <1>4, <1>5, <1>6 DEF Next

\* While nothing is served no handler runs, and the worker has not started.
LEMMA NextOff == IInv /\ [Next]_vars => Off'
<1> SUFFICES ASSUME IInv, [Next]_vars, life' \in {"down", "recovering"}
             PROVE  pc'[Worker] = "stopped" /\ \A c \in Calls : pc'[c] \in {"idle", "done"}
  BY DEF Off
<1>1. CASE Exit
  BY <1>1, SettlementAssumption DEF Exit, Actors, SettlementAssumption
<1>2. CASE life \in {"down", "recovering"} /\ ~Exit
  <2>1. pc' = pc
    BY <1>2, DownSteps
       DEF Time, Shutdown, Start, Serve, RecoveryFails, RecoverNext, vars
  <2> QED
    BY <1>2, <2>1 DEF IInv, Off
<1>3. CASE life \notin {"down", "recovering"}
  BY <1>1, <1>3, LifeSteps DEF Shutdown, Start, RecoveryFails, Serve
<1> QED
  BY <1>1, <1>2, <1>3

\* The recovery lists what is in flight, and unlists what it settled.
LEMMA NextRecovering == IInv /\ [Next]_vars => Recovering'
<1> SUFFICES ASSUME IInv, [Next]_vars, life' = "recovering", NEW c \in Calls,
                    status'[c] \in Store!Held
             PROVE  c \in listed'
  BY DEF Recovering, Store!InFlight
<1>1. CASE Start
  <2>1. status' = status /\ listed' = Interrupted
    BY <1>1 DEF Start, rows
  <2>2. Store!InFlight(c) /\ Store!Live(c)
    BY <2>1 DEF IInv, Store!InFlightBacked, Store!InFlight
  <2> QED
    BY <2>1, <2>2 DEF Interrupted
<1>2. CASE ~Start
  <2>1. life = "recovering"
    BY <1>2, LifeSteps DEF Shutdown, Exit, RecoveryFails, Serve
  <2>2. ASSUME NEW e \in Calls, RecoverNext(e) PROVE c \in listed'
    <3>1. /\ status'[e] \in {"released", "committed"} /\ listed' = listed \ {e}
          /\ \A f \in Calls : f # e => status'[f] = status[f]
      BY <2>2, SettleStep DEF RecoverNext, IInv, TypeOK
    <3>2. c # e /\ Store!InFlight(c)
      BY <3>1 DEF Store!Held, Store!InFlight
    <3> QED
      BY <2>1, <3>1, <3>2 DEF IInv, Recovering
  <2>3. CASE UNCHANGED vars
    BY <2>1, <2>3 DEF vars, rows, process, IInv, Recovering, Store!InFlight
  <2> QED
    BY <1>2, <2>1, <2>2, <2>3, DownSteps DEF Time, Shutdown, Exit, Serve, RecoveryFails
<1> QED
  BY <1>1, <1>2

\* Steps that neither mark nor use the upstream, and take no mark back.
LEMMA MarkedKept ==
  ASSUME IInv, UNCHANGED requests,
         \A c \in Calls : pc'[c] \in {"marked", "calling"} => pc[c] \in {"marked", "calling"},
         \A c \in Calls : status[c] \in {"dispatched", "committed"} =>
                            status'[c] \in {"dispatched", "committed"}
  PROVE  Marked'
BY DEF IInv, Marked

\* No step uses the upstream without the mark, and none takes the mark back.
LEMMA NextMarked == IInv /\ [Next]_vars => Marked'
<1> SUFFICES ASSUME IInv, [Next]_vars PROVE Marked'
  OBVIOUS
<1>1. ASSUME NEW c \in Calls, NEW u \in Users, NEW d \in Donations, NEW p \in Prices,
             NEW r \in Rewards, Reserve(c, u, d, p, r)
      PROVE  Marked'
  <2>1. \E label \in {"setup", "done"} : pc' = [pc EXCEPT ![c] = label]
    BY <1>1 DEF Reserve, Goto, Fault
  <2>2. UNCHANGED requests /\ status[c] = "none" /\ status' = [status EXCEPT ![c] = "reserved"]
    BY <1>1 DEF Reserve, Goto, Fault, Store!Reserve
  <2>3. \A e \in Calls : pc'[e] \in {"marked", "calling"} => pc[e] \in {"marked", "calling"}
    BY <2>1 DEF IInv, TypeOK, Actors
  <2>4. \A e \in Calls : status[e] \in {"dispatched", "committed"} => status'[e] = status[e]
    BY <2>2 DEF IInv, TypeOK, Store!TypeOK
  <2> QED
    BY <2>2, <2>3, <2>4, MarkedKept
<1>2. ASSUME NEW c \in Calls, SetupFails(c) PROVE Marked'
  <2>1. \E label \in {"setup", "reading", "done"} : pc' = [pc EXCEPT ![c] = label]
    BY <1>2 DEF SetupFails, Goto
  <2>2. UNCHANGED <<requests, status>>
    BY <1>2 DEF SetupFails, Goto, handlers, rows
  <2>3. \A e \in Calls : pc'[e] \in {"marked", "calling"} => pc[e] \in {"marked", "calling"}
    BY <2>1 DEF IInv, TypeOK, Actors
  <2> QED
    BY <2>2, <2>3, MarkedKept
<1>3. ASSUME NEW c \in Calls, Dispatch(c) PROVE Marked'
  <2>1. \E label : pc' = [pc EXCEPT ![c] = label]
    BY <1>3 DEF Dispatch, Goto, Fault
  <2>2. UNCHANGED requests /\ status' = [status EXCEPT ![c] = "dispatched"]
    BY <1>3 DEF Dispatch, Goto, Fault, Store!MarkDispatched
  <2>3. status'[c] = "dispatched"
    BY <2>2 DEF IInv, TypeOK, Store!TypeOK
  <2>4. \A e \in Calls : e # c => pc'[e] = pc[e] /\ status'[e] = status[e]
    BY <2>1, <2>2 DEF IInv, TypeOK, Store!TypeOK, Actors
  <2> QED
    BY <2>2, <2>3, <2>4 DEF IInv, Marked
<1>4. ASSUME NEW c \in Calls, DispatchFails(c) PROVE Marked'
  <2>1. \E label \in {"setup", "reading", "done"} : pc' = [pc EXCEPT ![c] = label]
    BY <1>4 DEF DispatchFails, Goto, Fault
  <2>2. UNCHANGED <<requests, status>>
    BY <1>4 DEF DispatchFails, Goto, Fault, handlers, rows
  <2>3. \A e \in Calls : pc'[e] \in {"marked", "calling"} => pc[e] \in {"marked", "calling"}
    BY <2>1 DEF IInv, TypeOK, Actors
  <2> QED
    BY <2>2, <2>3, MarkedKept
<1>5. ASSUME NEW c \in Calls, StartRequest(c) PROVE Marked'
  <2>1. pc[c] \in {"marked", "calling"} /\ UNCHANGED status
    BY <1>5 DEF StartRequest, Goto, rows
  <2>2. \A e \in Calls : e # c => pc'[e] = pc[e] /\ requests'[e] = requests[e]
    BY <1>5 DEF StartRequest, Goto, IInv, TypeOK, Actors
  <2> QED
    BY <2>1, <2>2 DEF IInv, Marked
<1>6. ASSUME NEW c \in Calls, FinishCall(c) PROVE Marked'
  <2>1. \E label \in {"setup", "reading", "done"} : pc' = [pc EXCEPT ![c] = label]
    BY <1>6 DEF FinishCall, Goto
  <2>2. UNCHANGED <<requests, status>>
    BY <1>6 DEF FinishCall, Goto, handlers, rows
  <2>3. \A e \in Calls : pc'[e] \in {"marked", "calling"} => pc[e] \in {"marked", "calling"}
    BY <2>1 DEF IInv, TypeOK, Actors
  <2> QED
    BY <2>2, <2>3, MarkedKept
<1>7. ASSUME NEW c \in Calls, HandlerWakes(c) PROVE Marked'
  <2>1. \E label \in {"setup", "reading", "done"} : pc' = [pc EXCEPT ![c] = label]
    BY <1>7 DEF HandlerWakes, Wake, Goto
  <2>2. UNCHANGED <<requests, status>>
    BY <1>7 DEF HandlerWakes, Wake, Goto, handlers, rows
  <2>3. \A e \in Calls : pc'[e] \in {"marked", "calling"} => pc[e] \in {"marked", "calling"}
    BY <2>1 DEF IInv, TypeOK, Actors
  <2> QED
    BY <2>2, <2>3, MarkedKept
<1>8. ASSUME NEW a \in Actors, Read(a) PROVE Marked'
  <2>1. \E label \in {"waking", "done", "idle", "retrying", "applying", "reading"} :
          pc' = [pc EXCEPT ![a] = label]
    BY <1>8 DEF Read, Succeed, Leave, Target, Goto, IInv, TypeOK
  <2>2. UNCHANGED <<requests, status>>
    BY <1>8 DEF Read, Succeed, Leave, Target, Goto, handlers, rows
  <2>3. \A e \in Calls : pc'[e] \in {"marked", "calling"} => pc[e] \in {"marked", "calling"}
    BY <2>1 DEF IInv, TypeOK, Actors
  <2> QED
    BY <2>2, <2>3, MarkedKept
<1>9. ASSUME NEW a \in Actors, Apply(a) PROVE Marked'
  <2>1. \E label \in {"waking", "done", "idle", "retrying", "applying", "reading"} :
          pc' = [pc EXCEPT ![a] = label]
    BY <1>9 DEF Apply, Succeed, Fail, Leave, Target, Goto, Fault, IInv, TypeOK
  <2>2. UNCHANGED requests
    BY <1>9 DEF Apply, Succeed, Fail, Leave, Target, Goto, Fault
  <2>4. Target(a) \in Calls /\ Settle(Target(a), seen[a]) /\ Store!TypeOK
    BY <1>9, TargetIsCall DEF Apply, IInv, TypeOK
  <2>5. \A e \in Calls : status[e] \in {"dispatched", "committed"} =>
                           status'[e] \in {"dispatched", "committed"}
    BY <2>4, SettleStep
  <2>3. \A e \in Calls : pc'[e] \in {"marked", "calling"} => pc[e] \in {"marked", "calling"}
    BY <2>1 DEF IInv, TypeOK, Actors
  <2> QED
    BY <2>2, <2>3, <2>5, MarkedKept
<1>10. ASSUME NEW a \in Actors, ApplyLate(a) PROVE Marked'
  <2>1. \E label \in {"waking", "done", "idle", "retrying", "applying", "reading"} :
          pc' = [pc EXCEPT ![a] = label]
    BY <1>10 DEF ApplyLate, Succeed, Fail, Leave, Target, Goto, IInv, TypeOK
  <2>2. UNCHANGED <<requests, status>>
    BY <1>10 DEF ApplyLate, Succeed, Fail, Leave, Target, Goto, handlers, rows
  <2>3. \A e \in Calls : pc'[e] \in {"marked", "calling"} => pc[e] \in {"marked", "calling"}
    BY <2>1 DEF IInv, TypeOK, Actors
  <2> QED
    BY <2>2, <2>3, MarkedKept
<1>11. ASSUME NEW a \in Actors, AttemptFails(a) PROVE Marked'
  <2>1. \E label \in {"waking", "done", "idle", "retrying", "applying", "reading"} :
          pc' = [pc EXCEPT ![a] = label]
    BY <1>11 DEF AttemptFails, Fail, Leave, Goto, Fault, IInv, TypeOK
  <2>2. UNCHANGED <<requests, status>>
    BY <1>11 DEF AttemptFails, Fail, Leave, Goto, Fault, handlers, rows
  <2>3. \A e \in Calls : pc'[e] \in {"marked", "calling"} => pc[e] \in {"marked", "calling"}
    BY <2>1 DEF IInv, TypeOK, Actors
  <2> QED
    BY <2>2, <2>3, MarkedKept
<1>12. ASSUME Dequeue PROVE Marked'
  <2>1. \E label \in {"reading", "idle", "retrying", "scanning", "waking", "stopped"} :
          pc' = [pc EXCEPT ![Worker] = label] \/ pc' = pc
    BY <1>12 DEF Dequeue, Goto
  <2>2. UNCHANGED <<requests, status>>
    BY <1>12 DEF Dequeue, Goto, handlers, rows
  <2>3. \A e \in Calls : pc'[e] = pc[e]
    BY <2>1, SettlementAssumption DEF IInv, TypeOK, Actors, SettlementAssumption
  <2> QED
    BY <2>2, <2>3, MarkedKept
<1>13. ASSUME Tick PROVE Marked'
  <2>1. \E label \in {"reading", "idle", "retrying", "scanning", "waking", "stopped"} :
          pc' = [pc EXCEPT ![Worker] = label] \/ pc' = pc
    BY <1>13 DEF Tick, Goto
  <2>2. UNCHANGED <<requests, status>>
    BY <1>13 DEF Tick, Goto, handlers, rows
  <2>3. \A e \in Calls : pc'[e] = pc[e]
    BY <2>1, SettlementAssumption DEF IInv, TypeOK, Actors, SettlementAssumption
  <2> QED
    BY <2>2, <2>3, MarkedKept
<1>14. ASSUME RetryNext PROVE Marked'
  <2>1. \E label \in {"reading", "idle", "retrying", "scanning", "waking", "stopped"} :
          pc' = [pc EXCEPT ![Worker] = label] \/ pc' = pc
    BY <1>14 DEF RetryNext, Goto
  <2>2. UNCHANGED <<requests, status>>
    BY <1>14 DEF RetryNext, Goto, handlers, rows
  <2>3. \A e \in Calls : pc'[e] = pc[e]
    BY <2>1, SettlementAssumption DEF IInv, TypeOK, Actors, SettlementAssumption
  <2> QED
    BY <2>2, <2>3, MarkedKept
<1>15. ASSUME Scan PROVE Marked'
  <2>1. \E label \in {"reading", "idle", "retrying", "scanning", "waking", "stopped"} :
          pc' = [pc EXCEPT ![Worker] = label] \/ pc' = pc
    BY <1>15 DEF Scan, Goto
  <2>2. UNCHANGED <<requests, status>>
    BY <1>15 DEF Scan, Goto, handlers, rows
  <2>3. \A e \in Calls : pc'[e] = pc[e]
    BY <2>1, SettlementAssumption DEF IInv, TypeOK, Actors, SettlementAssumption
  <2> QED
    BY <2>2, <2>3, MarkedKept
<1>16. ASSUME ScanFails PROVE Marked'
  <2>1. \E label \in {"reading", "idle", "retrying", "scanning", "waking", "stopped"} :
          pc' = [pc EXCEPT ![Worker] = label] \/ pc' = pc
    BY <1>16 DEF ScanFails, Goto, Fault
  <2>2. UNCHANGED <<requests, status>>
    BY <1>16 DEF ScanFails, Goto, Fault, handlers, rows
  <2>3. \A e \in Calls : pc'[e] = pc[e]
    BY <2>1, SettlementAssumption DEF IInv, TypeOK, Actors, SettlementAssumption
  <2> QED
    BY <2>2, <2>3, MarkedKept
<1>17. ASSUME WakeNext PROVE Marked'
  <2>1. \E label \in {"reading", "idle", "retrying", "scanning", "waking", "stopped"} :
          pc' = [pc EXCEPT ![Worker] = label] \/ pc' = pc
    BY <1>17 DEF WakeNext, Wake, Goto
  <2>2. UNCHANGED <<requests, status>>
    BY <1>17 DEF WakeNext, Wake, Goto, handlers, rows
  <2>3. \A e \in Calls : pc'[e] = pc[e]
    BY <2>1, SettlementAssumption DEF IInv, TypeOK, Actors, SettlementAssumption
  <2> QED
    BY <2>2, <2>3, MarkedKept
<1>18. ASSUME WorkerStops PROVE Marked'
  <2>1. \E label \in {"reading", "idle", "retrying", "scanning", "waking", "stopped"} :
          pc' = [pc EXCEPT ![Worker] = label] \/ pc' = pc
    BY <1>18 DEF WorkerStops, Goto
  <2>2. UNCHANGED <<requests, status>>
    BY <1>18 DEF WorkerStops, Goto, handlers, rows
  <2>3. \A e \in Calls : pc'[e] = pc[e]
    BY <2>1, SettlementAssumption DEF IInv, TypeOK, Actors, SettlementAssumption
  <2> QED
    BY <2>2, <2>3, MarkedKept
<1>19. ASSUME Exit PROVE Marked'
  <2>1. UNCHANGED <<requests, status>>
    BY <1>19 DEF Exit, rows
  <2>2. \A e \in Calls : pc'[e] \in {"idle", "done"}
    BY <1>19, SettlementAssumption DEF Exit, Actors, SettlementAssumption
  <2> QED
    BY <2>1, <2>2, MarkedKept
<1>20. ASSUME NEW c \in Calls, RecoverNext(c) PROVE Marked'
  <2>1. \A e \in Calls : status[e] \in {"dispatched", "committed"} =>
                           status'[e] \in {"dispatched", "committed"}
    BY <1>20, SettleStep DEF RecoverNext, IInv, TypeOK
  <2>2. UNCHANGED <<requests, pc>>
    BY <1>20 DEF RecoverNext
  <2> QED
    BY <2>1, <2>2, MarkedKept
<1>21. ASSUME RecoveryFails PROVE Marked'
  <2>1. ASSUME NEW e \in listed, Settle(e, status[e])
        PROVE  \A f \in Calls : status[f] \in {"dispatched", "committed"} =>
                                  status'[f] \in {"dispatched", "committed"}
    BY <2>1, SettleStep DEF IInv, TypeOK
  <2>2. UNCHANGED <<requests, pc>>
    BY <1>21 DEF RecoveryFails
  <2>3. UNCHANGED status \/ \E e \in listed : Settle(e, status[e])
    BY <1>21 DEF RecoveryFails, rows
  <2> QED
    BY <2>1, <2>2, <2>3, MarkedKept
<1>22. ASSUME Serve PROVE Marked'
  <2>1. \E label \in {"reading", "idle", "retrying", "scanning", "waking", "stopped"} :
          pc' = [pc EXCEPT ![Worker] = label] \/ pc' = pc
    BY <1>22 DEF Serve, Goto
  <2>2. UNCHANGED <<requests, status>>
    BY <1>22 DEF Serve, Goto, handlers, rows
  <2>3. \A e \in Calls : pc'[e] = pc[e]
    BY <2>1, SettlementAssumption DEF IInv, TypeOK, Actors, SettlementAssumption
  <2> QED
    BY <2>2, <2>3, MarkedKept
<1>23. ASSUME Administer PROVE Marked'
  BY <1>23, AdminKeepsStatus, MarkedKept DEF Administer, handlers
<1>24. ASSUME Time \/ Shutdown \/ Start
      PROVE  Marked'
  BY <1>24, MarkedKept DEF Time, Shutdown, Start, rows, handlers, hints, round, process,
     IInv
<1>25. CASE UNCHANGED vars
  BY <1>25, MarkedKept DEF vars, rows, handlers, hints, round, process, IInv
<1> QED
  BY <1>1, <1>2, <1>3, <1>4, <1>5, <1>6, <1>7, <1>8, <1>9, <1>10, <1>11, <1>12, <1>13,
     <1>14, <1>15, <1>16, <1>17, <1>18, <1>19, <1>20, <1>21, <1>22, <1>23, <1>24, <1>25 DEF
     Next, Handler, WorkerStep, Attempt, Actors

-----------------------------------------------------------------------------
(* Types *)

\* The types of what the handlers, the worker and the process keep.
OwnTypes ==
  /\ pc \in [Actors -> {"idle", "setup", "marked", "calling", "reading", "applying",
                        "waking", "done", "retrying", "scanning", "stopped"}]
  /\ seen \in [Actors -> Store!Held \cup {"none"}]
  /\ requests \in [Calls -> 0..MaxRequests]
  /\ waited \in [Calls -> 0..RequestTimeout]
  /\ age \in [Calls -> 0..OldestAge]
  /\ subject \in Actors
  /\ after \in {"idle", "retrying"}
  /\ todo \subseteq Calls
  /\ life \in {"down", "recovering", "up", "stopping"}
  /\ listed \subseteq Calls
  /\ faults \in 0..MaxFaults
  /\ exits \in 0..MaxExits

\* The bounds are numbers.
LEMMA Bounds ==
  /\ OldestAge \in Nat /\ RequestTimeout \in Nat \ {0}
  /\ MaxRequests \in Nat /\ MaxFaults \in Nat /\ MaxExits \in Nat
BY SettlementAssumption DEF SettlementAssumption, OldestAge, DispatchedStale

\* A fault that is left is within its bound.
LEMMA FaultType == faults \in 0..MaxFaults /\ Fault => faults' \in 0..MaxFaults
BY Bounds DEF Fault

\* A settlement touches the row.
LEMMA SettleAge ==
  ASSUME OwnTypes, NEW c, NEW was, Settle(c, was) PROVE age' \in [Calls -> 0..OldestAge]
<1>1. age' = [age EXCEPT ![c] = 0]
  BY DEF Settle
<1>2. age \in [Calls -> 0..OldestAge] /\ 0 \in 0..OldestAge
  BY Bounds DEF OwnTypes
<1> QED
  BY <1>1, <1>2

\* Every step keeps these types.
LEMMA NextOwnTypes == HintTypes /\ OwnTypes /\ [Next]_vars => OwnTypes'
<1> SUFFICES ASSUME HintTypes /\ OwnTypes, [Next]_vars PROVE OwnTypes'
  OBVIOUS
<1>1. ASSUME NEW c \in Calls, NEW u \in Users, NEW d \in Donations, NEW p \in Prices,
             NEW r \in Rewards, Reserve(c, u, d, p, r)
      PROVE  OwnTypes'
  <2>1. pc' \in [Actors -> {"idle", "setup", "marked", "calling", "reading", "applying",
                             "waking", "done", "retrying", "scanning", "stopped"}]
    BY <1>1 DEF Reserve, Goto, OwnTypes
  <2>2. age' \in [Calls -> 0..OldestAge]
    BY <1>1, Bounds DEF Reserve, OwnTypes
  <2>3. faults' \in 0..MaxFaults
    BY <1>1, FaultType DEF Reserve, OwnTypes
  <2>4. UNCHANGED <<seen, requests, waited, subject, after, todo, life, listed, exits>>
    BY <1>1 DEF Reserve, round, process
  <2> QED
    BY <2>1, <2>2, <2>3, <2>4 DEF OwnTypes
<1>2. ASSUME NEW c \in Calls, SetupFails(c) PROVE OwnTypes'
  BY <1>2, FaultType, Bounds DEF SetupFails, Goto, OwnTypes, Actors, Nobody, rows,
     handlers, round, process, hints
<1>3. ASSUME NEW c \in Calls, Dispatch(c) PROVE OwnTypes'
  BY <1>3, FaultType, Bounds DEF Dispatch, Goto, Fault, OwnTypes, Actors, Nobody, rows,
     handlers, round, process, hints
<1>4. ASSUME NEW c \in Calls, DispatchFails(c) PROVE OwnTypes'
  BY <1>4, FaultType, Bounds DEF DispatchFails, Goto, Fault, OwnTypes, Actors, Nobody,
     rows, handlers, round, process, hints
<1>5. ASSUME NEW c \in Calls, StartRequest(c) PROVE OwnTypes'
  BY <1>5, FaultType, Bounds DEF StartRequest, Goto, OwnTypes, Actors, Nobody, rows,
     handlers, round, process, hints
<1>6. ASSUME NEW c \in Calls, FinishCall(c) PROVE OwnTypes'
  BY <1>6, FaultType, Bounds DEF FinishCall, Goto, OwnTypes, Actors, Nobody, rows,
     handlers, round, process, hints
<1>7. ASSUME NEW c \in Calls, HandlerWakes(c) PROVE OwnTypes'
  BY <1>7, FaultType, Bounds DEF HandlerWakes, Wake, Goto, OwnTypes, Actors, Nobody,
     rows, handlers, round, process, hints
<1>8. ASSUME NEW a \in Actors, Read(a) PROVE OwnTypes'
  <2>1. CASE /\ pc' = [pc EXCEPT ![a] = "applying"]
             /\ seen' = [seen EXCEPT ![a] = status[Target(a)]]
             /\ Store!InFlight(Target(a))
             /\ UNCHANGED <<requests, waited, hints, round, process>>
    BY <1>8, <2>1 DEF Read, OwnTypes, Store!InFlight, round, process
  <2>2. CASE Succeed(a)
    BY <1>8, <2>2 DEF Read, Succeed, Leave, Goto, OwnTypes, process, Nobody, Actors
  <2> QED
    BY <1>8, <2>1, <2>2 DEF Read, Goto
<1>9. ASSUME NEW a \in Actors, Apply(a) PROVE OwnTypes'
  <2>1. age' \in [Calls -> 0..OldestAge]
    BY <1>9, SettleAge DEF Apply
  <2>2. faults' \in 0..MaxFaults
    BY <1>9, FaultType DEF Apply, OwnTypes
  <2>3. \E label : Leave(a, label) /\ label \in {"done", "waking"}
    BY <1>9 DEF Apply, Succeed, Fail
  <2>4. /\ pc' \in [Actors -> {"idle", "setup", "marked", "calling", "reading", "applying",
                               "waking", "done", "retrying", "scanning", "stopped"}]
        /\ seen' \in [Actors -> Store!Held \cup {"none"}]
        /\ subject' \in Actors
    BY <2>3 DEF Leave, Goto, OwnTypes, Nobody, Actors
  <2>5. UNCHANGED <<requests, waited, after, todo, life, listed, exits>>
    BY <2>3 DEF Leave, process
  <2> QED
    BY <2>1, <2>2, <2>4, <2>5 DEF OwnTypes
<1>10. ASSUME NEW a \in Actors, ApplyLate(a) PROVE OwnTypes'
  BY <1>10, FaultType, Bounds DEF ApplyLate, Succeed, Fail, Leave, Target, Goto,
     OwnTypes, Actors, Nobody, rows, handlers, round, process, hints
<1>11. ASSUME NEW a \in Actors, AttemptFails(a) PROVE OwnTypes'
  BY <1>11, FaultType, Bounds DEF AttemptFails, Fail, Leave, Goto, Fault, OwnTypes,
     Actors, Nobody, rows, handlers, round, process, hints
<1>12. ASSUME Dequeue PROVE OwnTypes'
  <2>1. Head(queue) \in Calls
    BY <1>12, HeadTailProperties DEF Dequeue, HintTypes
  <2> QED
    BY <1>12, <2>1 DEF Dequeue, Goto, OwnTypes, handlers, process, Actors
<1>13. ASSUME Tick PROVE OwnTypes'
  BY <1>13, FaultType, Bounds DEF Tick, Goto, OwnTypes, Actors, Nobody, rows, handlers,
     round, process, hints
<1>14. ASSUME RetryNext PROVE OwnTypes'
  BY <1>14, FaultType, Bounds DEF RetryNext, Goto, OwnTypes, Actors, Nobody, rows,
     handlers, round, process, hints
<1>15. ASSUME Scan PROVE OwnTypes'
  <2>1. todo' \subseteq Calls
    BY <1>15 DEF Scan, Stale
  <2> QED
    BY <1>15, <2>1 DEF Scan, Goto, OwnTypes, handlers, process, Actors
<1>16. ASSUME ScanFails PROVE OwnTypes'
  BY <1>16, FaultType, Bounds DEF ScanFails, Goto, Fault, OwnTypes, Actors, Nobody,
     rows, handlers, round, process, hints
<1>17. ASSUME WakeNext PROVE OwnTypes'
  BY <1>17, FaultType, Bounds DEF WakeNext, Wake, Goto, OwnTypes, Actors, Nobody, rows,
     handlers, round, process, hints
<1>18. ASSUME WorkerStops PROVE OwnTypes'
  BY <1>18, FaultType, Bounds DEF WorkerStops, Goto, OwnTypes, Actors, Nobody, rows,
     handlers, round, process, hints
<1>19. ASSUME Time PROVE OwnTypes'
  <2>1. \A c \in Calls : pc[c] = "calling" => waited[c] < RequestTimeout
    BY <1>19 DEF Time, Timely
  <2>2. waited' \in [Calls -> 0..RequestTimeout]
    <3>1. \A c \in Calls : waited[c] \in 0..RequestTimeout
      BY DEF OwnTypes
    <3>2. ASSUME NEW c \in Calls
          PROVE  (IF pc[c] = "calling" THEN waited[c] + 1 ELSE waited[c]) \in 0..RequestTimeout
      BY <2>1, <3>1, Bounds
    <3> QED
      BY <1>19, <3>2 DEF Time
  <2>3. age' \in [Calls -> 0..OldestAge]
    <3>1. \A c \in Calls : age[c] \in 0..OldestAge
      BY DEF OwnTypes
    <3>2. ASSUME NEW c \in Calls
          PROVE  (IF Store!InFlight(c) /\ age[c] < OldestAge THEN age[c] + 1 ELSE age[c])
                    \in 0..OldestAge
      BY <3>1, Bounds
    <3> QED
      BY <1>19, <3>2 DEF Time
  <2>4. UNCHANGED <<pc, seen, requests, subject, after, todo, life, listed, faults, exits>>
    BY <1>19 DEF Time, round, process
  <2> QED
    BY <2>2, <2>3, <2>4 DEF OwnTypes
<1>20. ASSUME Shutdown PROVE OwnTypes'
  BY <1>20, FaultType, Bounds DEF Shutdown, OwnTypes, Actors, Nobody, rows, handlers,
     round, process, hints
<1>21. ASSUME Exit PROVE OwnTypes'
  BY <1>21, FaultType, Bounds DEF Exit, OwnTypes, Actors, Nobody, rows, handlers,
     round, process, hints
<1>22. ASSUME Start PROVE OwnTypes'
  <2>1. listed' \subseteq Calls
    BY <1>22 DEF Start, Interrupted
  <2> QED
    BY <1>22, <2>1 DEF Start, OwnTypes, handlers, round
<1>23. ASSUME NEW c \in Calls, RecoverNext(c) PROVE OwnTypes'
  <2>1. age' \in [Calls -> 0..OldestAge]
    BY <1>23, SettleAge DEF RecoverNext
  <2>2. listed' \subseteq Calls
    BY <1>23 DEF RecoverNext, OwnTypes
  <2> QED
    BY <1>23, <2>1, <2>2 DEF RecoverNext, OwnTypes, round
<1>24. ASSUME RecoveryFails PROVE OwnTypes'
  <2>1. age' \in [Calls -> 0..OldestAge]
    <3>1. age \in [Calls -> 0..OldestAge]
      BY DEF OwnTypes
    <3> QED
      BY <1>24, <3>1, SettleAge DEF RecoveryFails
  <2>2. faults' \in 0..MaxFaults
    BY <1>24, FaultType DEF RecoveryFails, OwnTypes
  <2> QED
    BY <1>24, <2>1, <2>2 DEF RecoveryFails, OwnTypes, round
<1>25. ASSUME Serve PROVE OwnTypes'
  BY <1>25, FaultType, Bounds DEF Serve, Goto, OwnTypes, Actors, Nobody, rows,
     handlers, round, process, hints
<1>26. ASSUME Administer PROVE OwnTypes'
  BY <1>26, FaultType, Bounds DEF Administer, OwnTypes, Actors, Nobody, rows, handlers,
     round, process, hints
<1>27. CASE UNCHANGED vars
  BY <1>27, FaultType DEF vars, rows, handlers, hints, round, process, OwnTypes, Actors,
     Nobody
<1> QED
  BY <1>1, <1>2, <1>3, <1>4, <1>5, <1>6, <1>7, <1>8, <1>9, <1>10, <1>11, <1>12, <1>13,
     <1>14, <1>15, <1>16, <1>17, <1>18, <1>19, <1>20, <1>21, <1>22, <1>23, <1>24, <1>25,
     <1>26, <1>27 DEF Next, Handler, WorkerStep, Attempt, Actors

\* TypeOK is the types of the store, of the hints, and of the rest.
LEMMA TypeParts ==
  /\ TypeOK <=> Store!TypeOK /\ HintTypes /\ OwnTypes
  /\ TypeOK' <=> Store!TypeOK' /\ HintTypes' /\ OwnTypes'
BY DEF TypeOK, HintTypes, OwnTypes

-----------------------------------------------------------------------------
(* The invariant holds *)

\* The state before the first start.
LEMMA InitIInv == Init => IInv
<1> SUFFICES ASSUME Init PROVE IInv
  OBVIOUS
<1>1. Store!TypeOK
  BY SameState, StoreAssumption, StoreProofs!InitTypeOK DEF Init, StoreProofs!InitTypeOK
<1>2. HintTypes
  BY DEF Init, HintTypes
<1>3. OwnTypes
  BY Bounds DEF Init, OwnTypes, Actors, Nobody
<1>4. Store!GoneSettled /\ Store!InFlightBacked
  BY DEF Init, Store!Init, Store!GoneSettled, Store!InFlightBacked, Store!InFlight,
     Store!Held
<1>5. Rounds
  BY DEF Init, Rounds, Actors
<1>6. HintsConsistent
  <2>1. Waiting = {} /\ {c \in Calls : pending[c] = "queued"} = {}
    BY DEF Init, Waiting
  <2>2. {queue[i] : i \in 1..Len(queue)} = {} /\ 1..Len(queue) = {}
    BY DEF Init
  <2>3. Cardinality(Waiting) = 0
    BY <2>1, FS_EmptySet
  <2> QED
    BY <2>1, <2>2, <2>3, SettlementAssumption DEF HintsConsistent, SettlementAssumption
<1>7. Off
  BY SettlementAssumption DEF Init, Off, Actors, SettlementAssumption
<1>8. Recovering
  BY DEF Init, Recovering
<1>9. Marked
  BY SettlementAssumption DEF Init, Marked, Actors, SettlementAssumption
<1> QED
  BY <1>1, <1>2, <1>3, <1>4, <1>5, <1>6, <1>7, <1>8, <1>9, TypeParts DEF IInv

\* Every step keeps the invariant.
LEMMA NextIInv == IInv /\ [Next]_vars => IInv'
<1> SUFFICES ASSUME IInv, [Next]_vars PROVE IInv'
  OBVIOUS
<1>1. Store!Next \/ UNCHANGED Store!vars
  BY StoreStep DEF IInv
<1>2. Store!TypeOK' /\ Store!GoneSettled' /\ Store!InFlightBacked'
  BY <1>1, StoreKeeps DEF IInv, TypeOK
<1>3. HintTypes' /\ HintsConsistent' /\ OwnTypes'
  BY NextHints, NextOwnTypes, TypeParts DEF IInv
<1> QED
  BY <1>2, <1>3, TypeParts, NextRounds, NextOff, NextRecovering, NextMarked DEF IInv

\* The invariant of the composed system.
LEMMA Inductive == Spec => []IInv
BY InitIInv, NextIInv, PTL DEF Spec

(***************************************************************************)
(* Every variable keeps its type, whatever the sizes and bounds.           *)
(***************************************************************************)
THEOREM TypeCorrect == Spec => []TypeOK
<1>1. IInv => TypeOK
  BY DEF IInv
<1> QED
  BY <1>1, Inductive, PTL

(***************************************************************************)
(* A call that used the donor's app is never refunded, however handlers,   *)
(* worker, crashes, recoveries and failing database calls interleave.      *)
(***************************************************************************)
THEOREM UsedIsNeverRefunded == Spec => []NoFreeCall
<1>1. IInv => NoFreeCall
  BY DEF IInv, Marked, NoFreeCall
<1> QED
  BY <1>1, Inductive, PTL

(***************************************************************************)
(* The worker's queue and its map of hints agree and stay within           *)
(* CharitySettlementQueueSize, for any queue and any number of calls.      *)
(***************************************************************************)
THEOREM HintsAgree == Spec => []HintsConsistent
<1>1. IInv => HintsConsistent
  BY DEF IInv
<1> QED
  BY <1>1, Inductive, PTL

(***************************************************************************)
(* The service opens only when no call of an earlier process is in flight. *)
(***************************************************************************)
THEOREM ServesRecovered == Spec => RecoveredFirst
<1>1. IInv /\ [Next]_vars =>
        [life = "recovering" /\ life' = "up" => \A c \in Calls : ~Store!InFlight(c)]_vars
  <2> SUFFICES ASSUME IInv, [Next]_vars, life = "recovering", life' = "up"
               PROVE  \A c \in Calls : ~Store!InFlight(c)
    OBVIOUS
  <2>1. listed = {}
    BY LifeSteps DEF Shutdown, Exit, Start, RecoveryFails, Serve
  <2> QED
    BY <2>1 DEF IInv, Recovering
<1> QED
  BY <1>1, Inductive, PTL DEF Spec, RecoveredFirst

(***************************************************************************)
(* What handlers, worker, recovery and administration do to the database   *)
(* is a behaviour of CharityReservation: the composition adds no step that *)
(* the store does not have.                                                *)
(***************************************************************************)
THEOREM ImplementsStore == Spec => Store!Spec
<1>1. Init => Store!Init
  BY DEF Init
<1>2. IInv /\ [Next]_vars => [Store!Next]_(Store!vars)
  BY StoreStep DEF IInv
<1> QED
  BY <1>1, <1>2, Inductive, PTL DEF Spec, Store!Spec

(***************************************************************************)
(* Across crashes, retries and recoveries every call is held once and then *)
(* consumed or refunded once, on the terms of its hold: the composed       *)
(* system implements CharityLedger.                                        *)
(***************************************************************************)
THEOREM ImplementsLedger == Spec => Store!LedgerSpec
<1>1. StoreProofs!Spec <=> Store!Spec
  BY SameSpec
<1>2. StoreProofs!Spec => StoreProofs!LedgerSpec
  BY StoreAssumption, StoreProofs!ImplementsLedger DEF StoreProofs!ImplementsLedger
<1>3. /\ StoreProofs!Phase = Store!Phase /\ StoreProofs!Net = Store!Net
      /\ StoreProofs!Phase' = Store!Phase' /\ StoreProofs!Net' = Store!Net'
  BY DEF StoreProofs!Phase, Store!Phase, StoreProofs!Net, Store!Net
<1>4. StoreProofs!LedgerSpec <=> Store!LedgerSpec
  <2>1. StoreProofs!Ledger!Init <=> Store!Ledger!Init
    BY <1>3 DEF StoreProofs!Ledger!Init, Store!Ledger!Init
  <2>2. UNCHANGED StoreProofs!Ledger!vars <=> UNCHANGED Store!Ledger!vars
    BY <1>3 DEF StoreProofs!Ledger!vars, Store!Ledger!vars
  <2>3. StoreProofs!Ledger!Next <=> Store!Ledger!Next
    BY <1>3, SameSets DEF StoreProofs!Ledger!Next, Store!Ledger!Next,
       StoreProofs!Ledger!Hold, Store!Ledger!Hold,
       StoreProofs!Ledger!Consume, Store!Ledger!Consume,
       StoreProofs!Ledger!Refund, Store!Ledger!Refund,
       StoreProofs!Ledger!Leave, Store!Ledger!Leave,
       StoreProofs!Ledger!Added, Store!Ledger!Added
  <2>4. [StoreProofs!Ledger!Next]_(StoreProofs!Ledger!vars)
          <=> [Store!Ledger!Next]_(Store!Ledger!vars)
    BY <2>2, <2>3
  <2> QED
    BY <2>1, <2>4, PTL DEF StoreProofs!LedgerSpec, Store!LedgerSpec,
       StoreProofs!Ledger!Spec, Store!Ledger!Spec
<1> QED
  BY <1>1, <1>2, <1>4, ImplementsStore, PTL

\* Both count alike.
LEMMA SameCount == \A S : StoreProofs!Cardinality(S) = Store!Cardinality(S)
BY DEF StoreProofs!Cardinality, Store!Cardinality

(***************************************************************************)
(* In-flight calls keep what their settlement needs, and the uses of every *)
(* donation and the balance of every account are explained by the rows,    *)
(* whoever settles: the store's theorems hold in the composed system.      *)
(***************************************************************************)
THEOREM StoreIsSafe ==
  Spec => [](/\ Store!InFlightBacked /\ Store!CapacityConserved
             /\ Store!NoStrandedCapacity /\ Store!MoneyConserved)
<1>1. StoreProofs!Spec <=> Store!Spec
  BY SameSpec
<1>2. StoreProofs!Spec => []StoreProofs!CapacityConserved
  BY StoreAssumption, StoreProofs!CapacityIsConserved DEF StoreProofs!CapacityIsConserved
<1>3. StoreProofs!Spec => []StoreProofs!NoStrandedCapacity
  BY StoreAssumption, StoreProofs!NothingStranded DEF StoreProofs!NothingStranded
<1>4. StoreProofs!CapacityConserved => Store!CapacityConserved
  BY SameCount DEF StoreProofs!CapacityConserved, Store!CapacityConserved,
     StoreProofs!InFlightOn, Store!InFlightOn, StoreProofs!InFlight, Store!InFlight,
     StoreProofs!Held, Store!Held
<1>5. StoreProofs!NoStrandedCapacity => Store!NoStrandedCapacity
  BY DEF StoreProofs!NoStrandedCapacity, Store!NoStrandedCapacity
<1>6. IInv => Store!InFlightBacked
  BY DEF IInv
<1>7. StoreProofs!Spec => []StoreProofs!MoneyConserved
  BY StoreAssumption, StoreProofs!MoneyIsConserved DEF StoreProofs!MoneyIsConserved
<1>8. StoreProofs!MoneyConserved => Store!MoneyConserved
  BY DEF StoreProofs!MoneyConserved, Store!MoneyConserved, StoreProofs!Consumed,
     Store!Consumed, StoreProofs!Rewarded, Store!Rewarded, StoreProofs!Held, Store!Held,
     StoreProofs!MapThenSumSet, Store!MapThenSumSet,
     StoreProofs!MapThenFoldSet, Store!MapThenFoldSet
<1> QED
  BY <1>1, <1>2, <1>3, <1>4, <1>5, <1>6, <1>7, <1>8, Inductive, ImplementsStore, PTL
=============================================================================

--------------------------- MODULE CharityLedger ---------------------------
(***************************************************************************)
(* What charity accounting promises, with no trace of how it keeps it.     *)
(*                                                                         *)
(* A call is held once, on terms fixed at that moment (who pays, who       *)
(* donated, at what price and reward), and every held call ends in exactly *)
(* one of two ways: it is consumed, and the donor receives the reward, or  *)
(* it is refunded, and the consumer receives the price back.  net[u] is    *)
(* what charity calls did to the balance of u: it moves in these three     *)
(* steps and in no other, and by the held terms only.                      *)
(*                                                                         *)
(* CharityReservation shows that the tables and transactions of the store  *)
(* implement this specification.                                           *)
(***************************************************************************)
EXTENDS Integers

CONSTANTS
  Calls,        \* the charity calls
  Users,        \* everybody who ever has an account
  Terms         \* records with (at least) user, donor, price and reward

VARIABLES
  members,      \* the users who have an account now
  phase,        \* "idle", "held", "consumed" or "refunded" for every call
  terms,        \* the terms of a call; they mean something while it is held
  net           \* what charity calls added to (or took from) each balance

vars == <<members, phase, terms, net>>

\* f with amount added at u; a u outside the domain leaves f as it is.
Added(f, u, amount) ==
  [v \in DOMAIN f |-> IF v = u THEN f[v] + amount ELSE f[v]]

Init ==
  /\ members = Users
  /\ phase = [c \in Calls |-> "idle"]
  /\ net = [u \in Users |-> 0]

(***************************************************************************)
(* A member agrees to terms and pays the price.                            *)
(***************************************************************************)
Hold(c, t) ==
  /\ phase[c] = "idle"
  /\ t.user \in members
  /\ phase' = [phase EXCEPT ![c] = "held"]
  /\ terms' = [terms EXCEPT ![c] = t]
  /\ net' = Added(net, t.user, 0 - t.price)
  /\ UNCHANGED members

(***************************************************************************)
(* The call used the donation: the donor, if there still is one, is        *)
(* rewarded.                                                               *)
(***************************************************************************)
Consume(c) ==
  /\ phase[c] = "held"
  /\ phase' = [phase EXCEPT ![c] = "consumed"]
  /\ net' = IF terms[c].donor \in members
            THEN Added(net, terms[c].donor, terms[c].reward)
            ELSE net
  /\ UNCHANGED <<members, terms>>

(***************************************************************************)
(* The call never used the donation: the consumer gets the price back.     *)
(***************************************************************************)
Refund(c) ==
  /\ phase[c] = "held"
  /\ phase' = [phase EXCEPT ![c] = "refunded"]
  /\ net' = Added(net, terms[c].user, terms[c].price)
  /\ UNCHANGED <<members, terms>>

(***************************************************************************)
(* A member leaves.  Nobody leaves in the middle of a call, and what is    *)
(* forgotten about settled calls does not touch a held one.                *)
(***************************************************************************)
Leave(u) ==
  /\ u \in members
  /\ \A c \in Calls : phase[c] = "held" =>
       /\ u \notin {terms[c].user, terms[c].donor}
       /\ terms'[c] = terms[c]
  /\ members' = members \ {u}
  /\ UNCHANGED <<phase, net>>

Next ==
  \/ \E c \in Calls : \E t \in Terms : Hold(c, t)
  \/ \E c \in Calls : Consume(c) \/ Refund(c)
  \/ \E u \in Users : Leave(u)

Spec == Init /\ [][Next]_vars
=============================================================================

---------------------------- MODULE MCAlertMail ----------------------------
(* Values of the constants of AlertMail for TLC. *)
EXTENDS AlertMail

CONSTANTS e1, e2, e3, banned, locked, u1

MCEvents == {e1, e2, e3}
MCTypes == {banned, locked}
MCPersonal == {banned}
MCUsers == {u1}

\* Only the first category is ever switched off, both ways at once; an event that
\* is between its two reads then meets one switch on and the other off.
FewSwitches == /\ pref'[locked] = pref[locked]
               /\ pref'[banned].center = pref'[banned].email

\* The events are used in the order of their names.
InOrder == (event[e2].pc # "new" => event[e1].pc # "new")
        /\ (event[e3].pc # "new" => event[e2].pc # "new")
=============================================================================

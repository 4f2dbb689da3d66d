----------------------------- MODULE AlertLedger -----------------------------
(***************************************************************************)
(* What the outbox of the bot and the delivery bridge promise together      *)
(* about the announcements of confirmed trades, without the files, locks,   *)
(* requests and retries that keep the promise: an alert is owed from the    *)
(* confirmation of its trade until it is settled; it is announced once, and *)
(* once more when an operator asked for the resend; it is settled only when *)
(* it was announced, when an operator vouched for it, or when it was waived *)
(* because the announcements were switched off.                             *)
(***************************************************************************)
EXTENDS Naturals

CONSTANT Trade      \* transaction hashes of confirmed trades

VARIABLES owed, settled, said, resends, vouched, waived

ledger == <<owed, settled, said, resends, vouched, waived>>

Init ==
    /\ owed = {} /\ settled = {} /\ vouched = {} /\ waived = {}
    /\ resends = {}
    /\ said = [t \in Trade |-> 0]

Allowed(t) == IF t \in resends THEN 2 ELSE 1

Confirm(t) ==
    /\ t \notin owed \cup settled
    /\ owed' = owed \cup {t}
    /\ UNCHANGED <<settled, said, resends, vouched, waived>>

Known == owed \cup settled

\* Only an operator's resend announces an alert that is no longer owed.
Announce(t) ==
    /\ t \in owed \cup resends
    /\ said[t] < Allowed(t)
    /\ said' = [said EXCEPT ![t] = @ + 1]
    /\ UNCHANGED <<owed, settled, resends, vouched, waived>>

AllowResend(t) ==
    /\ t \in Known \ resends
    /\ resends' = resends \cup {t}
    /\ UNCHANGED <<owed, settled, said, vouched, waived>>

Vouch(t) ==
    /\ t \in Known
    /\ vouched' = vouched \cup {t}
    /\ UNCHANGED <<owed, settled, said, resends, waived>>

Waive(t) ==
    /\ t \in owed
    /\ waived' = waived \cup {t}
    /\ UNCHANGED <<owed, settled, said, resends, vouched>>

Settle(t) ==
    /\ t \in owed
    /\ said[t] > 0 \/ t \in vouched \cup waived
    /\ owed' = owed \ {t}
    /\ settled' = settled \cup {t}
    /\ UNCHANGED <<said, resends, vouched, waived>>

Next ==
    \E t \in Trade :
        \/ Confirm(t) \/ Announce(t) \/ AllowResend(t)
        \/ Vouch(t) \/ Waive(t) \/ Settle(t)

Spec == Init /\ [][Next]_ledger
==============================================================================

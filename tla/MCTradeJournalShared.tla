------------------------ MODULE MCTradeJournalShared ------------------------
(***************************************************************************)
(* Two instances of the trade journal in one run: Single is one loop that   *)
(* may reuse fingerprints, Shared is two processes whose claims all have     *)
(* fingerprints of their own.                                               *)
(***************************************************************************)
EXTENDS MCTradeJournal

CONSTANTS
    Users,          \* the processes of the second instance
    SharedTx        \* bound on its transactions

VARIABLE users

AllOrders == RoundTrip \cup ManualPair

Single == INSTANCE TradeJournal WITH Order <- RoundTrip
Shared == INSTANCE TradeJournal
          WITH Process <- Users, Order <- ManualPair, ReusesOrders <- FALSE,
               MaxTx <- SharedTx

BothInit == \/ users = "one" /\ Single!Init
            \/ users = "two" /\ Shared!Init

BothNext ==
    \/ users = "one" /\ Single!Next /\ UNCHANGED users
    \/ users = "two" /\ Shared!Next /\ UNCHANGED users

\* Of two processes only what a step or a state may be is asked, so fairness
\* matters for the one process, which runs the live loop and manual orders.
BothSpec == BothInit /\ [][BothNext]_<<vars, users>> /\ Fairness

\* BroadcastIsResolved: the one process records each strategy swap it has sent.
OneResolves == users = "one" => BroadcastIsResolved
=============================================================================

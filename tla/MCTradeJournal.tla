--------------------------- MODULE MCTradeJournal ---------------------------
(* Small instances of the trade journal for TLC.                            *)
EXTENDS TradeJournal, TLC

O(k, a, i) == [kind |-> k, action |-> a, symbol |-> "XRP", id |-> i]

\* A strategy buy and sale and a manual order.
RoundTrip == {O("strategy", "buy", 1), O("strategy", "sell", 1),
              O("manual", "buy", 1)}
\* Two manual orders with the same fields, and a strategy buy.
ManualPair == {O("manual", "buy", 1), O("manual", "buy", 2),
               O("strategy", "buy", 1)}
OneManual == {O("manual", "buy", 1)}

Symmetric == Permutations(Process)
=============================================================================

----------------------------- MODULE SwapLedger -----------------------------
(***************************************************************************)
(* What the pending claim promises about the swaps of a wallet, without the *)
(* approvals, receipts, crashes and reconciliations that stand between: one *)
(* order has the wallet at a time; it puts out one swap at most; and once a *)
(* swap is out, the order leaves only with the outcome the chain gave it,   *)
(* which is booked in the same step as the position it opens or closes.     *)
(***************************************************************************)
EXTENDS Naturals

CONSTANTS Order, NoOrder

VARIABLES
    claim,      \* the order that has the wallet
    swap,       \* the swap it has put out, or 0
    sent,       \* swaps put out so far
    confirmed,  \* those that the chain has confirmed
    reverted,   \* and those it has reverted
    booked,     \* swaps with their order and outcome
    positions   \* symbols with an open strategy position

ledger == <<claim, swap, sent, confirmed, reverted, booked, positions>>

Init ==
    /\ claim = NoOrder /\ swap = 0
    /\ sent = {} /\ confirmed = {} /\ reverted = {}
    /\ booked = {} /\ positions = {}

\* A strategy buys what it does not hold and sells what it holds.
Take(o) ==
    /\ claim = NoOrder
    /\ o.kind = "strategy" => (o.action = "sell" <=> o.symbol \in positions)
    /\ claim' = o
    /\ UNCHANGED <<swap, sent, confirmed, reverted, booked, positions>>

PutOut ==
    /\ claim # NoOrder /\ swap = 0
    /\ swap' \in Nat \ (sent \cup {0})
    /\ sent' = sent \cup {swap'}
    /\ UNCHANGED <<claim, confirmed, reverted, booked, positions>>

\* The chain decides a swap, also one whose order has not looked yet.
Decide(n) ==
    /\ n \notin confirmed \cup reverted
    /\ \/ confirmed' = confirmed \cup {n} /\ UNCHANGED reverted
       \/ reverted' = reverted \cup {n} /\ UNCHANGED confirmed
    /\ UNCHANGED <<claim, swap, sent, booked, positions>>

Leave(outcome) ==
    /\ booked' = booked \cup {[order |-> claim, tx |-> swap, outcome |-> outcome]}
    /\ claim' = NoOrder /\ swap' = 0
    /\ UNCHANGED <<sent, confirmed, reverted>>

BookFill ==
    /\ swap # 0 /\ swap \in confirmed
    /\ positions' = IF claim.kind = "manual" THEN positions
                    ELSE IF claim.action = "buy" THEN positions \cup {claim.symbol}
                    ELSE positions \ {claim.symbol}
    /\ Leave("confirmed")

BookRevert ==
    /\ swap # 0 /\ swap \in reverted
    /\ Leave("reverted")
    /\ UNCHANGED positions

\* Nothing was put out.
GiveUp ==
    /\ claim # NoOrder /\ swap = 0
    /\ claim' = NoOrder
    /\ UNCHANGED <<swap, sent, confirmed, reverted, booked, positions>>

Next ==
    \/ \E o \in Order : Take(o)
    \/ PutOut \/ BookFill \/ BookRevert \/ GiveUp
    \/ \E n \in sent : Decide(n)

Spec == Init /\ [][Next]_ledger
=============================================================================

---------------------------- MODULE TradeJournal ----------------------------
(***************************************************************************)
(* The pending-claim journal of the BNB trading bot (StrategyStateStore in  *)
(* trader.py) and the trader that broadcasts under it: claim, persist the   *)
(* signed hash, send, wait for the receipt, record; and the reconciliation  *)
(* of a claim whose outcome was not seen. Several processes (the live loop, *)
(* command-line invocations) may share the journal file, which is locked    *)
(* for each operation but not between them, and the wallet, whose nonce     *)
(* lock is held from the approval to the receipt of the swap.               *)
(*                                                                          *)
(* An order stands for its fingerprint. A fingerprint is made of the action,*)
(* the symbol and the amount (and the price, for strategy orders), so       *)
(* separate claims may share one: ReusesOrders.                             *)
(***************************************************************************)
EXTENDS Integers, Sequences, FiniteSets

CONSTANTS
    Process,        \* processes that share the journal and the wallet
    NoProcess,
    Order,          \* records with the kind, action and symbol of an order
    NoOrder,
    ReusesOrders,   \* TRUE: a later claim may have an earlier fingerprint
    MaxTx,          \* bound: transactions signed
    MaxFaults       \* bound: crashes, RPC errors, timeouts, unusable balances

ASSUME JournalAssumption ==
    /\ NoProcess \notin Process
    /\ NoOrder \notin Order
    /\ \A o \in Order : /\ o.kind \in {"manual", "strategy"}
                        /\ o.action \in {"buy", "sell"}
    /\ ReusesOrders \in BOOLEAN
    /\ MaxTx \in Nat
    /\ MaxFaults \in Nat

VARIABLES
    pending,    \* durable: the "pending" claim of the journal
    positions,  \* durable: symbols with an open strategy position
    trades,     \* durable: "trades" and "manual_trades" with their outcome,
                \* without the daily pruning of the former
    staged,     \* durable: confirmed_notifications, by transaction
    txs,        \* external: the signed transactions and what became of them
    lock,       \* the process holding the wallet's nonce lock
    pc,         \* where each process stands in execute or reconcile
    mine,       \* the order each process works on
    hash,       \* the transaction each process waits for or has read
    attempted,  \* _broadcast_attempted
    reverted,   \* TRUE: the exception on its way up is TransactionReverted
    used,       \* history: orders claimed so far
    faults      \* bound: faults so far

journal == <<pending, positions, trades, staged>>
local   == <<pc, mine, hash, attempted, reverted>>
vars    == <<pending, positions, trades, staged, txs, lock, pc, mine, hash,
             attempted, reverted, used, faults>>

NoClaim == [order |-> NoOrder, tx |-> 0, phase |-> "none"]
Final == {"confirmed", "reverted"}

Fault == faults < MaxFaults /\ faults' = faults + 1
Goto(p, place) == pc' = [pc EXCEPT ![p] = place]
Unlock(p) == lock' = IF lock = p THEN NoProcess ELSE lock
SetStatus(n, status) == txs' = [txs EXCEPT ![n].status = status]

-----------------------------------------------------------------------------
Init ==
    /\ pending = NoClaim
    /\ positions = {} /\ trades = {} /\ staged = {}
    /\ txs = <<>>
    /\ lock = NoProcess
    /\ pc = [p \in Process |-> "idle"]
    /\ mine = [p \in Process |-> NoOrder]
    /\ hash = [p \in Process |-> 0]
    /\ attempted = [p \in Process |-> FALSE]
    /\ reverted = [p \in Process |-> FALSE]
    /\ used = {}
    /\ faults = 0

\* claim refuses a second position and a sale without one.
PositionAllows(o) ==
    o.kind = "strategy" => (o.action = "sell" <=> o.symbol \in positions)

\* claim / claim_manual at the start of execute_strategy / execute. (The
\* cooldown and the daily limit of strategy orders only delay a claim.)
Claim(p, o) ==
    /\ pc[p] = "idle"
    /\ pending = NoClaim
    /\ ReusesOrders \/ o \notin used
    /\ PositionAllows(o)
    /\ pending' = [order |-> o, tx |-> 0, phase |-> "none"]
    /\ used' = used \cup {o}
    /\ Goto(p, "begin")
    /\ mine' = [mine EXCEPT ![p] = o]
    /\ hash' = [hash EXCEPT ![p] = 0]
    /\ attempted' = [attempted EXCEPT ![p] = FALSE]
    /\ reverted' = [reverted EXCEPT ![p] = FALSE]
    /\ UNCHANGED <<positions, trades, staged, txs, lock, faults>>

\* with self._nonce_locked().
Lock(p) ==
    /\ pc[p] = "begin"
    /\ lock = NoProcess
    /\ lock' = p
    /\ Goto(p, "approve")
    /\ UNCHANGED <<journal, txs, mine, hash, attempted, reverted, used, faults>>

\* _approve_if_needed finds a sufficient allowance.
SkipApproval(p) ==
    /\ pc[p] = "approve"
    /\ Goto(p, "swap")
    /\ UNCHANGED <<journal, txs, lock, mine, hash, attempted, reverted, used,
                   faults>>

\* The claim of this order is still the pending one.
\* (Mutant: any pending claim will do.)
HoldsAny(o) == pending # NoClaim
Holds(o) == pending.order = o

\* What record_attempt makes of the claim.
WithAttempt(n, phase) == [pending EXCEPT !.tx = n, !.phase = phase]

\* _send_and_confirm signs and calls record_attempt before it sends; without
\* the claim the callback raises and nothing is sent.
Record(p, phase) ==
    LET n == Len(txs) + 1 IN
    /\ \/ pc[p] = "approve" /\ phase = "approval"
       \/ pc[p] = "swap" /\ phase = "swap"
    /\ n <= MaxTx
    /\ IF Holds(mine[p])
       THEN /\ pending' = WithAttempt(n, phase)
            /\ txs' = Append(txs, [order |-> mine[p], phase |-> phase,
                                   status |-> "signed"])
            /\ hash' = [hash EXCEPT ![p] = n]
            /\ Goto(p, "send")
            /\ UNCHANGED lock
       ELSE /\ Goto(p, "failed")
            /\ Unlock(p)
            /\ UNCHANGED <<pending, txs, hash>>
    /\ UNCHANGED <<positions, trades, staged, mine, attempted, reverted, used,
                   faults>>

\* _broadcast_attempted = True, then send_raw_transaction.
Send(p) ==
    /\ pc[p] = "send"
    /\ attempted' = [attempted EXCEPT ![p] = TRUE]
    /\ SetStatus(hash[p], "sent")
    /\ Goto(p, "wait")
    /\ UNCHANGED <<journal, lock, mine, hash, reverted, used, faults>>

\* The call raises; the node may have taken the transaction all the same.
SendFails(p, taken) ==
    /\ pc[p] = "send"
    /\ Fault
    /\ attempted' = [attempted EXCEPT ![p] = TRUE]
    /\ IF taken THEN SetStatus(hash[p], "sent") ELSE UNCHANGED txs
    /\ Goto(p, "failed")
    /\ Unlock(p)
    /\ UNCHANGED <<journal, mine, hash, reverted, used>>

\* wait_for_transaction_receipt returns.
Receipt(p) ==
    LET tx == txs[hash[p]] IN
    /\ pc[p] = "wait"
    /\ tx.status \in Final
    /\ IF tx.status = "reverted"
       THEN /\ Goto(p, "failed") /\ Unlock(p)
            /\ reverted' = [reverted EXCEPT ![p] = TRUE]
       ELSE /\ UNCHANGED reverted
            /\ IF tx.phase = "approval"
               THEN Goto(p, "swap") /\ UNCHANGED lock
               ELSE Goto(p, "filled") /\ Unlock(p)
    /\ UNCHANGED <<journal, txs, mine, hash, attempted, used, faults>>

\* Any other exception in execute: an RPC call fails, gas is short, the wait
\* times out, or the balance shows no output.
Raise(p) ==
    /\ pc[p] \in {"begin", "approve", "swap", "wait"}
    /\ Fault
    /\ Goto(p, "failed")
    /\ Unlock(p)
    /\ UNCHANGED <<journal, txs, mine, hash, attempted, reverted, used>>

-----------------------------------------------------------------------------
(* How a claim ends. Each of these checks that the claim is still there and *)
(* raises, changing nothing, when it is not.                                *)

Free(outcome) ==
    /\ pending' = NoClaim
    /\ trades' = trades \cup
         {[order |-> pending.order, tx |-> pending.tx, outcome |-> outcome]}

\* confirm / confirm_manual; n is the transaction of the result.
ConfirmClaim(o, n) ==
    IF ~Holds(o) THEN UNCHANGED journal
    ELSE /\ Free("confirmed")
         /\ IF o.kind = "manual" THEN UNCHANGED <<positions, staged>>
            ELSE /\ staged' = staged \cup {n}
                 /\ positions' = IF o.action = "buy"
                                 THEN positions \cup {o.symbol}
                                 ELSE positions \ {o.symbol}

\* reject / reject_manual.
RejectClaim(o) ==
    /\ IF Holds(o) THEN Free("reverted") ELSE UNCHANGED <<pending, trades>>
    /\ UNCHANGED <<positions, staged>>

\* release / release_manual.
ReleaseClaim(o) ==
    /\ pending' = IF Holds(o) THEN NoClaim ELSE pending
    /\ UNCHANGED <<positions, trades, staged>>

\* clear_confirmed_approval / clear_confirmed_manual_approval.
\* (Mutant: without looking at the phase.)
ClearAnyPhase(o) ==
    /\ pending' = IF Holds(o) THEN NoClaim ELSE pending
    /\ UNCHANGED <<positions, trades, staged>>
ClearApproval(o) ==
    /\ pending' = IF Holds(o) /\ pending.phase = "approval" THEN NoClaim
                  ELSE pending
    /\ UNCHANGED <<positions, trades, staged>>

\* The handlers of execute and execute_strategy: a reverted transaction ends
\* a manual claim; any claim is released when nothing can have been sent.
\* (Mutant: also when something can have been.)
ReleasesAlways(p) == ~reverted[p]
MayRelease(p) == ~reverted[p] /\ ~attempted[p]

Cleanup(p) ==
    /\ pc[p] = "failed"
    /\ IF reverted[p] /\ mine[p].kind = "manual" THEN RejectClaim(mine[p])
       ELSE IF MayRelease(p) THEN ReleaseClaim(mine[p])
       ELSE UNCHANGED journal
    /\ Goto(p, "idle")
    /\ UNCHANGED <<txs, lock, mine, hash, attempted, reverted, used, faults>>

Confirm(p) ==
    /\ pc[p] = "filled"
    /\ ConfirmClaim(mine[p], hash[p])
    /\ Goto(p, "idle")
    /\ UNCHANGED <<txs, lock, mine, hash, attempted, reverted, used, faults>>

-----------------------------------------------------------------------------
(* reconcile_strategy / reconcile_manual: read the claim, fetch the receipt *)
(* of its hash, act. The journal lock is not held in between.               *)

ReadPending(p) ==
    /\ pc[p] = "idle"
    /\ pending.tx # 0
    /\ Goto(p, "fetch")
    /\ mine' = [mine EXCEPT ![p] = pending.order]
    /\ hash' = [hash EXCEPT ![p] = pending.tx]
    /\ UNCHANGED <<journal, txs, lock, attempted, reverted, used, faults>>

\* TransactionNotFound.
NotFound(p) ==
    /\ pc[p] = "fetch"
    /\ txs[hash[p]].status \notin Final
    /\ Goto(p, "idle")
    /\ UNCHANGED <<journal, txs, lock, mine, hash, attempted, reverted, used,
                   faults>>

\* The receipt cannot be fetched, or the balance shows no output: the claim
\* remains blocked.
SettleFails(p) ==
    /\ pc[p] = "fetch"
    /\ Fault
    /\ Goto(p, "idle")
    /\ UNCHANGED <<journal, txs, lock, mine, hash, attempted, reverted, used>>

\* (Mutant: a reverted transaction is left alone.)
ActOnSuccess(p, tx) ==
    IF tx.status # "confirmed" THEN UNCHANGED journal
    ELSE IF tx.phase = "approval" THEN ClearApproval(mine[p])
    ELSE ConfirmClaim(mine[p], hash[p])
ActOnReceipt(p, tx) ==
    IF tx.phase = "approval" /\ tx.status = "confirmed"
    THEN ClearApproval(mine[p])
    ELSE IF tx.status = "reverted" THEN RejectClaim(mine[p])
    ELSE ConfirmClaim(mine[p], hash[p])

Settle(p) ==
    /\ pc[p] = "fetch"
    /\ txs[hash[p]].status \in Final
    /\ ActOnReceipt(p, txs[hash[p]])
    /\ Goto(p, "idle")
    /\ UNCHANGED <<txs, lock, mine, hash, attempted, reverted, used, faults>>

\* The process dies: the journal and the chain stay, flock lets go.
Crash(p) ==
    /\ pc[p] # "idle"
    /\ Fault
    /\ Goto(p, "idle")
    /\ Unlock(p)
    /\ UNCHANGED <<journal, txs, mine, hash, attempted, reverted, used>>

\* External: a block includes a transaction.
Mine(n, status) ==
    /\ txs[n].status = "sent"
    /\ SetStatus(n, status)
    /\ UNCHANGED <<journal, lock, local, used, faults>>

Execute(p) ==
    \/ Lock(p) \/ SkipApproval(p) \/ Send(p) \/ Receipt(p) \/ Cleanup(p)
    \/ Confirm(p) \/ (\E phase \in {"approval", "swap"} : Record(p, phase))

Next ==
    \/ \E p \in Process :
        \/ \E o \in Order : Claim(p, o)
        \/ Execute(p)
        \/ \E taken \in BOOLEAN : SendFails(p, taken)
        \/ Raise(p) \/ Crash(p)
        \/ ReadPending(p) \/ NotFound(p) \/ Settle(p) \/ SettleFails(p)
    \/ \E n \in DOMAIN txs, status \in Final : Mine(n, status)

Spec == Init /\ [][Next]_vars

\* The live loop reconciles a pending claim of its own mode only; it reports any
\* other as blocked, and a manual claim waits for the operator's command.
OfLoop == pending.tx # 0 /\ pending.order.kind = "strategy"

\* A process that executes goes on executing, the live loop reconciles its
\* pending claim at the start of every pass, and the chain includes a
\* transaction sooner or later. Nothing forces new claims or the operator's
\* reconciliations, and faults need no fairness.
Fairness ==
    /\ \A p \in Process : /\ WF_vars(Execute(p))
                          /\ WF_vars(OfLoop /\ ReadPending(p))
                          /\ WF_vars(Settle(p))
                          /\ WF_vars(NotFound(p))
    /\ \A n \in 1..MaxTx :
         WF_vars(n \in DOMAIN txs /\ \E status \in Final : Mine(n, status))

FairSpec == Spec /\ Fairness

-----------------------------------------------------------------------------
Place == {"idle", "begin", "approve", "swap", "send", "wait", "filled",
          "failed", "fetch"}
Tx == [order : Order, phase : {"approval", "swap"},
       status : {"signed", "sent", "confirmed", "reverted"}]

ClaimOK ==
    \/ pending = NoClaim
    \/ /\ pending \in [order : Order, tx : Nat,
                       phase : {"none", "approval", "swap"}]
       /\ pending.tx \in 0..Len(txs)
       /\ pending.tx = 0 <=> pending.phase = "none"

TypeOK ==
    /\ ClaimOK
    /\ trades \subseteq [order : Order, tx : Nat, outcome : Final]
    /\ staged \subseteq Nat
    /\ txs \in Seq(Tx)
    /\ lock \in Process \cup {NoProcess}
    /\ pc \in [Process -> Place]
    /\ mine \in [Process -> Order \cup {NoOrder}]
    /\ hash \in [Process -> Nat]
    /\ attempted \in [Process -> BOOLEAN]
    /\ reverted \in [Process -> BOOLEAN]
    /\ used \subseteq Order
    /\ faults \in 0..MaxFaults

Swaps == {n \in DOMAIN txs : txs[n].phase = "swap"}
Recorded(n) == \E r \in trades : r.tx = n

\* "The callback has already persisted the signed hash before the send call.
\* Any later exception is therefore potentially a broadcast and must remain
\* blocked" (trader.py:2097-2099): a swap that may be on the chain is named by
\* the pending claim until its outcome is recorded, through crashes, timeouts
\* and reconciliations.
NoForgottenBroadcast ==
    \A n \in Swaps : txs[n].status # "signed" => pending.tx = n \/ Recorded(n)

\* The outcome the journal records for a transaction is the one on the chain,
\* and no transaction has two.
OutcomesAreTrue ==
    \A r \in trades : r.tx \in DOMAIN txs /\ txs[r.tx].status = r.outcome

\* When nothing is pending, the journal shows an open position exactly when the
\* last strategy swap of the symbol that the chain confirmed is a buy.
ConfirmedSwaps(symbol) ==
    {n \in Swaps : /\ txs[n].status = "confirmed"
                   /\ txs[n].order.kind = "strategy"
                   /\ txs[n].order.symbol = symbol}
Bought(symbol) ==
    \E n \in ConfirmedSwaps(symbol) :
        /\ txs[n].order.action = "buy"
        /\ \A m \in ConfirmedSwaps(symbol) : m <= n

PositionsMatchChain ==
    pending = NoClaim =>
        \A o \in Order : o.symbol \in positions <=> Bought(o.symbol)

\* Claim, chain and records implement the ledger of swaps: whatever crashes, times
\* out or is reconciled, no claim is given up or taken over with a swap out, no
\* swap is booked twice or with another outcome, and positions change with the
\* booking only.
Exposed == {n \in Swaps : txs[n].status # "signed"}
OutSwap == IF pending.tx \in Exposed THEN pending.tx ELSE 0
SwapsWith(status) == {n \in Swaps : txs[n].status = status}
Ledger == INSTANCE SwapLedger
          WITH claim <- pending.order, swap <- OutSwap, sent <- Exposed,
               confirmed <- SwapsWith("confirmed"),
               reverted <- SwapsWith("reverted"),
               booked <- {r \in trades : r.tx \in Swaps}
KeepsTheSwaps == Ledger!Spec

\* A strategy swap handed to the network ends up recorded, whatever crashed or
\* timed out, once the chain includes it and the loop keeps reconciling. (A
\* manual swap may wait for the operator for ever.)
BroadcastIsResolved ==
    \A n \in 1..MaxTx :
        (/\ n \in Swaps /\ txs[n].order.kind = "strategy"
         /\ txs[n].status = "sent") ~> Recorded(n)
=============================================================================

----------------------------- MODULE LiveScalper -----------------------------
(***************************************************************************)
(* One live scalper (live_scalper.py): a loop that turns quotes into orders *)
(* and keeps its own durable state, an intent, a position and the last      *)
(* confirmation, beside the pending claim of the trader it drives. The      *)
(* trader and its journal are those of TradeJournal, with the scalper as    *)
(* their only process; every step of the trader is a step of that module,   *)
(* and this module adds what the scalper does before, within and after it.  *)
(*                                                                          *)
(* The wallet is shared with other bots. What they do shows only in the     *)
(* balance of an order's output asset: `drift` is what they moved.          *)
(***************************************************************************)
EXTENDS TradeJournal

CONSTANTS
    Bot,            \* the scalper's process
    Out,            \* what a swap pays out
    MaxDrift,       \* bound: how far others move the output balance
    SavesFail       \* TRUE: a write of the state file may fail

ASSUME ScalperAssumption ==
    /\ Process = {Bot}
    /\ \A o \in Order : o.kind = "manual"
    /\ Out \in Nat \ {0}
    /\ MaxDrift \in Nat
    /\ SavesFail \in BOOLEAN

VARIABLES
    mem,       \* self.position, self.intent, self.last_confirmation
    disk,      \* durable: state.json, the same three
    step,      \* where process_payload stands
    before,    \* durable: pre_trade_token_balance of the claim
    out,       \* actual_out of the running execute
    drift,     \* external: what others added to the output balance
    moved,     \* history: others swapped after the claim's balance was read
    lost       \* history: a restart found a file without the last result

history == <<moved, lost>>
scalper == <<mem, disk, step, before, out, drift, history>>
trader  == <<pending, positions, trades, staged, txs, lock, mine, hash,
             attempted, reverted, used>>
allVars == <<vars, scalper>>

\* done and gain are the transaction and the amount of last_confirmation.
NoState == [open |-> FALSE, intent |-> "none", done |-> 0, gain |-> 0]

ScalperInit ==
    /\ Init
    /\ mem = NoState /\ disk = NoState
    /\ step = "quote"
    /\ before = 0 /\ out = 0 /\ drift = 0
    /\ moved = FALSE /\ lost = FALSE

-----------------------------------------------------------------------------
\* _save_state: the state in memory has changed to r before the file is
\* written, and stays changed when the write fails, be it before or after the
\* file was replaced.
Saved(r) == mem' = r /\ disk' = r /\ UNCHANGED faults
NotSaved(r) == SavesFail /\ Fault /\ mem' = r /\ disk' \in {disk, r}

Between == step = "quote" /\ pc[Bot] = "idle"

\* A quote asks for an exit from an open position, or for an entry without one.
\* _begin_intent: when it cannot be saved, process_payload raises.
BeginIntent ==
    LET r == [mem EXCEPT !.intent = IF mem.open THEN "sell" ELSE "buy"] IN
    /\ Between /\ pending = NoClaim /\ mem.intent = "none"
    /\ \/ Saved(r) /\ step' = "begun"
       \/ NotSaved(r) /\ UNCHANGED step
    /\ UNCHANGED <<trader, pc, before, out, drift, history>>

\* "No trader claim means shutdown happened before a signed hash was
\* persisted, so this local-only intent is safe to release."
\* (Mutant: whatever the trader holds.)
ReleasesUnderClaim == mem.intent # "none"
MayClearIntent == mem.intent # "none" /\ pending = NoClaim

ClearIntent ==
    LET r == [mem EXCEPT !.intent = "none"] IN
    /\ Between /\ MayClearIntent
    /\ Saved(r) \/ NotSaved(r)
    /\ UNCHANGED <<trader, pc, step, before, out, drift, history>>

\* execute reads the balance of the output asset, then claims.
StartOrder(o) ==
    /\ step = "begun"
    /\ o.action = mem.intent
    /\ Claim(Bot, o)
    /\ before' = drift
    /\ moved' = FALSE
    /\ step' = "busy"
    /\ UNCHANGED <<mem, disk, out, drift, lost>>

\* execute raises before it claims: no route, no funds, an RPC error.
OrderRefused ==
    /\ step = "begun"
    /\ Fault
    /\ step' = "quote"
    /\ UNCHANGED <<trader, pc, mem, disk, before, out, drift, history>>

-----------------------------------------------------------------------------
\* The output of a native buy is read from its receipt, any other is the
\* difference of two balances of the wallet.
FromReceipt(o) == o.action = "buy" /\ o.symbol = "WBNB"
Received(o) == IF FromReceipt(o) THEN Out ELSE Out + drift - before

\* "Could not confirm the ... output": nothing received is no result.
HasOutput == Received(mine[Bot]) > 0

Filled(n) == txs[n].phase = "swap" /\ txs[n].status = "confirmed"

\* The steps of execute that do not concern the scalper.
TraderStep ==
    /\ \/ Lock(Bot) \/ SkipApproval(Bot) \/ Send(Bot) \/ Raise(Bot)
       \/ \E phase \in {"approval", "swap"} : Record(Bot, phase)
       \/ \E taken \in BOOLEAN : SendFails(Bot, taken)
       \/ pc[Bot] = "wait" /\ ~Filled(hash[Bot]) /\ Receipt(Bot)
       \/ \E n \in DOMAIN txs, status \in Final : Mine(n, status)
    /\ UNCHANGED scalper

\* The receipt of the swap has arrived; the output is measured before the
\* wallet's lock is released.
Measure ==
    /\ pc[Bot] = "wait" /\ Filled(hash[Bot])
    /\ HasOutput
    /\ Receipt(Bot)
    /\ out' = Received(mine[Bot])
    /\ UNCHANGED <<mem, disk, step, before, drift, history>>

\* The balances show no output: the claim remains blocked.
NoOutput ==
    /\ pc[Bot] \in {"wait", "fetch"} /\ Filled(hash[Bot])
    /\ ~HasOutput
    /\ step # "finalized"
    /\ IF pc[Bot] = "wait" THEN Goto(Bot, "failed") /\ UNCHANGED step
       ELSE Goto(Bot, "idle") /\ step' = "quote"
    /\ Unlock(Bot)
    /\ UNCHANGED <<journal, txs, mine, hash, attempted, reverted, used, faults,
                   mem, disk, before, out, drift, history>>

\* execute leaves with an exception; run() catches it and reconnects.
OrderFails ==
    /\ Cleanup(Bot)
    /\ step' = "quote"
    /\ UNCHANGED <<mem, disk, before, out, drift, history>>

-----------------------------------------------------------------------------
\* _finalize_result on a result with this gain: a replay of the last
\* confirmation changes nothing; another result must match the intent.
\* (Mutant: no replay is recognised.)
NeverReplay(gain) == FALSE
Replay(gain) ==
    mem.intent = "none" /\ mem.done = hash[Bot] /\ mem.gain = gain
Matches == /\ mem.intent = mine[Bot].action
           /\ mem.intent = "sell" => mem.open
Finalized(gain) ==
    [open |-> mem.intent = "buy", intent |-> "none", done |-> hash[Bot],
     gain |-> gain]

\* The callback raises: the claim stays pending.
CallbackRaises == Goto(Bot, "idle") /\ step' = "quote"
CallbackReturns == UNCHANGED pc /\ step' = "finalized"

\* confirmation_callback(result), before the claim is confirmed.
Finalize ==
    LET gain == IF pc[Bot] = "filled" THEN out ELSE Received(mine[Bot]) IN
    /\ step = "busy"
    /\ \/ pc[Bot] = "filled"
       \/ pc[Bot] = "fetch" /\ Filled(hash[Bot]) /\ HasOutput
    /\ \/ /\ Replay(gain)
          /\ CallbackReturns
          /\ UNCHANGED <<mem, disk, faults>>
       \/ /\ ~Replay(gain) /\ Matches
          /\ \/ Saved(Finalized(gain)) /\ CallbackReturns
             \/ NotSaved(Finalized(gain)) /\ CallbackRaises
       \/ /\ ~Replay(gain) /\ ~Matches
          /\ CallbackRaises
          /\ UNCHANGED <<mem, disk, faults>>
    /\ UNCHANGED <<trader, before, out, drift, history>>

\* (Mutant: the claim may be confirmed first.)
ConfirmsFirst == step \in {"busy", "finalized"}
MayConfirm == step = "finalized"

\* confirm_manual at the end of execute.
EndOrder ==
    /\ MayConfirm
    /\ Confirm(Bot)
    /\ step' = "quote"
    /\ UNCHANGED <<mem, disk, before, out, drift, history>>

\* process_payload finds a pending claim: reconcile_manual reads it, raising
\* when it has no hash.
StartReconcile ==
    /\ Between
    /\ ReadPending(Bot)
    /\ step' = "busy"
    /\ UNCHANGED <<mem, disk, before, out, drift, history>>

EndReconcile ==
    /\ \/ NotFound(Bot)
       \/ SettleFails(Bot)
       \/ Settle(Bot) /\ (Filled(hash[Bot]) => MayConfirm)
    /\ step' = "quote"
    /\ UNCHANGED <<mem, disk, before, out, drift, history>>

\* The process dies and starts again: _load_state.
Restart ==
    /\ Fault
    /\ Goto(Bot, "idle")
    /\ Unlock(Bot)
    /\ mem' = disk
    /\ step' = "quote"
    /\ lost' = (lost \/ (pending = NoClaim /\ disk.done # mem.done))
    /\ UNCHANGED <<journal, txs, mine, hash, attempted, reverted, used, disk,
                   before, out, drift, moved>>

\* External: another bot swaps with the same wallet, under its nonce lock.
OtherSwap(amount) ==
    /\ lock = NoProcess
    /\ drift + amount \in (-MaxDrift)..MaxDrift
    /\ drift' = drift + amount
    /\ moved' = TRUE
    /\ UNCHANGED <<vars, mem, disk, step, before, out, lost>>

ScalperNext ==
    \/ BeginIntent \/ ClearIntent \/ StartReconcile
    \/ \E o \in Order : StartOrder(o)
    \/ OrderRefused
    \/ TraderStep \/ Measure \/ NoOutput \/ OrderFails
    \/ Finalize \/ EndOrder \/ EndReconcile
    \/ Restart
    \/ \E amount \in {-Out, Out} : OtherSwap(amount)

ScalperSpec == ScalperInit /\ [][ScalperNext]_allVars

\* Quotes keep arriving and each starts with the pending claim; a running
\* execute or reconcile continues; the chain includes transactions. Entries
\* and exits depend on prices and need no fairness.
ScalperFairness ==
    /\ WF_allVars(StartReconcile)
    /\ WF_allVars(Execute(Bot) /\ TraderStep)
    /\ WF_allVars(Measure \/ NoOutput \/ OrderFails)
    /\ SF_allVars(Finalize)
    /\ SF_allVars(EndOrder \/ EndReconcile)
    /\ \A n \in 1..MaxTx :
         WF_allVars(/\ n \in DOMAIN txs /\ UNCHANGED scalper
                    /\ \E status \in Final : Mine(n, status))

ScalperFairSpec == ScalperSpec /\ ScalperFairness

-----------------------------------------------------------------------------
\* What _load_state accepts: a remembered confirmation has a positive amount.
State == {r \in [open : BOOLEAN, intent : {"none", "buy", "sell"},
                 done : 0..MaxTx, gain : 0..(Out + 2 * MaxDrift)] :
            r.done # 0 => r.gain > 0}

ScalperTypeOK ==
    /\ TypeOK
    /\ mem \in State /\ disk \in State
    /\ step \in {"quote", "begun", "busy", "finalized"}
    /\ step \in {"quote", "begun"} => pc[Bot] = "idle"
    /\ {before, drift} \subseteq (-MaxDrift)..MaxDrift
    /\ out \in Int
    /\ moved \in BOOLEAN /\ lost \in BOOLEAN

\* What the state file says is enough to finish any claim that a restart can
\* find: it names the claim's action as the intent, or the claim's transaction
\* as the last confirmation. Otherwise the confirmed trade is refused as not
\* matching (live_scalper.py:265-272) and the claim blocks the scalper for good.
IntentCoversClaim ==
    pending # NoClaim => \/ disk.intent = pending.order.action
                         \/ disk.done # 0 /\ disk.done = pending.tx

\* "This local-only intent is safe to release" (live_scalper.py:375-376): when
\* the trader has no claim, the position the scalper works with is the one its
\* confirmed swaps have left in the wallet, whatever crashed in between, whoever
\* else swaps, and whatever could not be saved, as long as no restart has read a
\* file that lacks the result of a claim already gone.
LastFilled(n) == Filled(n) /\ \A m \in DOMAIN txs : Filled(m) => m <= n
PositionIsReal ==
    Between /\ pending = NoClaim /\ ~lost =>
        (mem.open <=> \E n \in DOMAIN txs :
                        LastFilled(n) /\ txs[n].order.action = "buy")

\* Reconciling the scalper's own confirmed claim never raises "Confirmed trade
\* does not match the durable scalper intent": the callback accepts the result
\* as the intended one or as a replay, so the claim can end. A measured output
\* must be the one measured before: that is so until another bot swaps.
Reconciling ==
    step = "busy" /\ pc[Bot] = "fetch" /\ Filled(hash[Bot]) /\ HasOutput
CallbackAccepts ==
    Reconciling /\ (FromReceipt(mine[Bot]) \/ ~moved)
        => Matches \/ Replay(Received(mine[Bot]))

\* A confirmed swap ends up known to the scalper, and its claim with the outcome
\* recorded, for as long as others leave the balance and the file is not stale.
FillIsFinalized ==
    \A n \in 1..MaxTx :
        (n \in Swaps /\ txs[n].status = "confirmed")
            ~> (Recorded(n) /\ (mem.done >= n \/ lost)) \/ moved
=============================================================================

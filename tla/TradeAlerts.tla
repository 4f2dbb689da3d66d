----------------------------- MODULE TradeAlerts -----------------------------
(***************************************************************************)
(* The way of a confirmed trade to its Telegram announcement. The trade     *)
(* journal stages it; the live runner moves it to the outbox in its own     *)
(* file and a flush thread posts the outbox, in order, to the bridge        *)
(* (routes/telegram.ts), giving up on a call after its timeout although the *)
(* bridge goes on. The bridge works the requests off one after the other    *)
(* under a lock file and keeps the hashes in flight and delivered, the last *)
(* MaxHistory of each, in its delivery journal. An operator may resolve an  *)
(* uncertain alert, as delivered or by its one resend. Either process may   *)
(* be killed at any step.                                                   *)
(***************************************************************************)
EXTENDS Naturals, Sequences

CONSTANTS
    Trade,          \* transaction hashes
    NoTrade,
    Slot,           \* requests the bridge may be handling at one time
    NoSlot,
    MaxHistory,     \* MAX_HISTORY of telegram.ts
    BotHistory,     \* delivered hashes the outbox remembers
    CanDisable,     \* whether TELEGRAM_SERVICES_ENABLED may be "false"
    MaxMishaps      \* bound on crashes, timeouts, refusals and lost answers

ASSUME HistoryAssumption == MaxHistory \in Nat \ {0} /\ BotHistory \in Nat \ {0}
ASSUME NullAssumption == NoTrade \notin Trade /\ NoSlot \notin Slot
ASSUME BoundAssumption == CanDisable \in BOOLEAN /\ MaxMishaps \in Nat

VARIABLES
    staged,         \* confirmed_notifications of the trade journal
    pending,        \* the outbox: notifications.pending of the runner's file
    botDelivered,   \* notifications.delivered of the runner's file
    phase,          \* "recover" at the start of a pass of run_once, or "trade"
    moving,         \* the trade queued and not yet acknowledged to the journal
    flushing,       \* _notification_flush_active
    todo,           \* what the flush thread still has to post
    call,           \* the request the flush thread waits for
    answer,         \* what it was answered: "none", "ok" or "fail"
    enabled,        \* TELEGRAM_SERVICES_ENABLED of the running bridge
    lock,           \* the lock file: "none", "held", "dead" or "blank" owner
    request,        \* the requests the bridge holds
    chain,          \* deliveryLock: those waiting for their turn
    inFlight,       \* inFlightTxHashes
    delivered,      \* deliveredTxHashes
    audit,          \* auditEvents
    confirmed,      \* trades confirmed so far
    announced,      \* messages Telegram accepted, by trade
    waived,         \* trades the bridge answered while switched off
    mishaps

botVars == <<staged, pending, botDelivered, phase, moving>>
flushVars == <<flushing, todo, call, answer>>
bridgeVars == <<enabled, lock, request, chain>>
fileVars == <<inFlight, delivered, audit>>
worldVars == <<confirmed, announced, waived, mishaps>>
vars == <<botVars, flushVars, bridgeVars, fileVars, worldVars>>

Has(s, t) == \E i \in DOMAIN s : s[i] = t

\* filter((value) => value !== hash), on lists that hold a hash once
Without(s, t) ==
    IF ~Has(s, t) THEN s
    ELSE LET i == CHOOSE k \in DOMAIN s : s[k] = t
         IN [k \in 1..Len(s) - 1 |-> IF k < i THEN s[k] ELSE s[k + 1]]

\* slice(-n). (Mutant: one more is kept.)
LastOfLate(s, n) ==
    IF Len(s) > n + 1 THEN SubSeq(s, Len(s) - n + 1, Len(s)) ELSE s
LastOf(s, n) == IF Len(s) > n THEN SubSeq(s, Len(s) - n + 1, Len(s)) ELSE s

\* [...list.filter((value) => value !== hash), hash].slice(-n)
Remember(s, t, n) == LastOf(Append(Without(s, t), t), n)

Event == [trade : Trade, resolution : {"delivered", "resend"},
          outcome : {"requested", "delivered", "rejected", "unknown"}]

Logged(t, resolution, outcome) ==
    [trade |-> t, resolution |-> resolution, outcome |-> outcome]

ResendUsed(t) == Logged(t, "resend", "requested") \in audit

Free == [kind |-> "none", trade |-> NoTrade, step |-> "free"]

Init ==
    /\ staged = {} /\ pending = <<>> /\ botDelivered = <<>>
    /\ phase = "recover" /\ moving = NoTrade
    /\ flushing = FALSE /\ todo = <<>> /\ call = NoSlot /\ answer = "none"
    /\ enabled = TRUE /\ lock = "none"
    /\ request = [r \in Slot |-> Free] /\ chain = <<>>
    /\ inFlight = <<>> /\ delivered = <<>> /\ audit = {}
    /\ confirmed = {} /\ waived = {}
    /\ announced = [t \in Trade |-> 0] /\ mishaps = 0

Mishap == mishaps < MaxMishaps /\ mishaps' = mishaps + 1

(***************************************************************************)
(* The bot: run_once of the live runner.                                    *)
(***************************************************************************)
StartFlush ==
    /\ flushing' = TRUE
    /\ todo' = IF flushing THEN todo ELSE pending
    /\ UNCHANGED <<call, answer>>

\* StrategyStateStore.confirm stages the alert with the confirmation.
Confirm(t) ==
    /\ phase = "trade"
    /\ t \notin confirmed
    /\ confirmed' = confirmed \cup {t}
    /\ staged' = staged \cup {t}
    /\ phase' = "queue" /\ moving' = t
    /\ UNCHANGED <<pending, botDelivered, flushVars, bridgeVars, fileVars,
                   announced, waived, mishaps>>

Outbox(t) ==
    pending' = IF Has(botDelivered, t) \/ Has(pending, t) THEN pending
               ELSE Append(pending, t)

Queue ==
    /\ phase = "queue"
    /\ Outbox(moving)
    /\ phase' = "ack"
    /\ UNCHANGED <<staged, botDelivered, moving, flushVars, bridgeVars,
                   fileVars, worldVars>>

\* outbox_write_failed: the alert stays in the journal, nothing is flushed.
QueueFails ==
    /\ phase = "queue"
    /\ Mishap
    /\ phase' = "trade" /\ moving' = NoTrade
    /\ UNCHANGED <<staged, pending, botDelivered, flushVars, bridgeVars,
                   fileVars, confirmed, announced, waived>>

Acknowledge ==
    /\ phase = "ack"
    /\ staged' = staged \ {moving}
    /\ phase' = "trade" /\ moving' = NoTrade
    /\ StartFlush
    /\ UNCHANGED <<pending, botDelivered, bridgeVars, fileVars, worldVars>>

Recover(t) ==
    /\ phase = "recover" /\ t \in staged
    /\ Outbox(t)
    /\ phase' = "recoverAck" /\ moving' = t
    /\ UNCHANGED <<staged, botDelivered, flushVars, bridgeVars, fileVars,
                   worldVars>>

RecoverAcknowledge ==
    /\ phase = "recoverAck"
    /\ staged' = staged \ {moving}
    /\ phase' = "recover" /\ moving' = NoTrade
    /\ UNCHANGED <<pending, botDelivered, flushVars, bridgeVars, fileVars,
                   worldVars>>

Recovered ==
    /\ phase = "recover" /\ staged = {}
    /\ phase' = "trade"
    /\ StartFlush
    /\ UNCHANGED <<staged, pending, botDelivered, moving, bridgeVars,
                   fileVars, worldVars>>

NextPass ==
    /\ phase = "trade"
    /\ phase' = "recover"
    /\ UNCHANGED <<staged, pending, botDelivered, moving, flushVars,
                   bridgeVars, fileVars, worldVars>>

(***************************************************************************)
(* The flush thread and TelegramNotifier.notify_success.                    *)
(***************************************************************************)
Enqueue(r, kind, t) ==
    /\ request[r] = Free
    /\ request' = [request EXCEPT ![r] =
                      [kind |-> kind, trade |-> t, step |-> "queued"]]
    /\ chain' = Append(chain, r)
    /\ UNCHANGED <<enabled, lock>>

MayPost == flushing /\ todo # <<>> /\ call = NoSlot /\ answer = "none"

Post(r) ==
    /\ MayPost
    /\ \/ /\ enabled
          /\ Enqueue(r, "trade", Head(todo))
          /\ call' = r /\ UNCHANGED <<answer, waived>>
       \/ /\ ~enabled
          /\ answer' = "ok"
          /\ waived' = waived \cup {Head(todo)}
          /\ UNCHANGED <<call, bridgeVars>>
    /\ UNCHANGED <<flushing, todo, botVars, fileVars, confirmed, announced,
                   mishaps>>

\* The bridge cannot be reached or refuses the request.
PostFails ==
    /\ MayPost
    /\ Mishap
    /\ answer' = "fail"
    /\ UNCHANGED <<flushing, todo, call, botVars, bridgeVars, fileVars,
                   confirmed, announced, waived>>

\* urlopen gives up after 15 seconds; the bridge knows nothing of it.
PostTimesOut ==
    /\ call # NoSlot
    /\ Mishap
    /\ call' = NoSlot /\ answer' = "fail"
    /\ UNCHANGED <<flushing, todo, botVars, bridgeVars, fileVars,
                   confirmed, announced, waived>>

MarkDelivered ==
    /\ flushing /\ answer = "ok"
    /\ pending' = Without(pending, Head(todo))
    /\ botDelivered' = Remember(botDelivered, Head(todo), BotHistory)
    /\ todo' = Tail(todo)
    /\ answer' = "none"
    /\ UNCHANGED <<staged, phase, moving, flushing, call, bridgeVars,
                   fileVars, worldVars>>

FlushEnds ==
    /\ flushing /\ call = NoSlot
    /\ todo = <<>> \/ answer = "fail"
    /\ flushing' = FALSE /\ todo' = <<>> /\ answer' = "none"
    /\ UNCHANGED <<call, botVars, bridgeVars, fileVars, worldVars>>

BotCrash ==
    /\ Mishap
    /\ phase' = "recover" /\ moving' = NoTrade
    /\ flushing' = FALSE /\ todo' = <<>> /\ call' = NoSlot /\ answer' = "none"
    /\ UNCHANGED <<staged, pending, botDelivered, bridgeVars, fileVars,
                   confirmed, announced, waived>>

(***************************************************************************)
(* The bridge. A request runs alone between its turn in the chain and its   *)
(* reply; the only wait in between is for Telegram.                         *)
(***************************************************************************)
\* (Mutant: every outcome is taken for a delivery.)
ReplyOk(r, value) ==
    /\ request' = [request EXCEPT ![r] = Free]
    /\ call' = IF call = r THEN NoSlot ELSE call
    /\ answer' = IF call = r THEN "ok" ELSE answer
    /\ UNCHANGED <<flushing, todo>>
Reply(r, value) ==
    /\ request' = [request EXCEPT ![r] = Free]
    /\ call' = IF call = r THEN NoSlot ELSE call
    /\ answer' = IF call = r THEN value ELSE answer
    /\ UNCHANGED <<flushing, todo>>

Uncertain(t) == Has(inFlight, t) /\ ~Has(delivered, t)

\* The bridge reads the outbox in the file of the runner.
PendingTrade(t) == Has(pending, t)

\* POST /notifications/reconciliation/:txHash up to its first wait.
Operator(r, kind, t) ==
    /\ enabled
    /\ PendingTrade(t)
    /\ Uncertain(t)
    /\ kind = "resend" => ~ResendUsed(t)
    /\ Enqueue(r, kind, t)
    /\ UNCHANGED <<botVars, flushVars, fileVars, worldVars>>

Turn(r) == chain # <<>> /\ Head(chain) = r /\ request[r].step = "queued"

\* The lock file of a live or unreadable owner: the request fails.
Busy(r) ==
    /\ Turn(r)
    /\ lock = "blank"
    /\ Reply(r, "fail")
    /\ chain' = Tail(chain)
    /\ UNCHANGED <<enabled, lock, botVars, fileVars, worldVars>>

MayLock(r) == Turn(r) /\ lock \in {"none", "dead"}

\* resolveAsDelivered
Resolve(r) ==
    LET t == request[r].trade IN
    /\ MayLock(r)
    /\ request[r].kind = "delivered"
    /\ IF Uncertain(t)
       THEN /\ audit' = audit \cup {Logged(t, "delivered", "requested"),
                                    Logged(t, "delivered", "delivered")}
            /\ inFlight' = Without(inFlight, t)
            /\ delivered' = Remember(delivered, t, MaxHistory)
       ELSE UNCHANGED fileVars
    /\ Reply(r, "ok")
    /\ chain' = Tail(chain) /\ lock' = "none"
    /\ UNCHANGED <<enabled, botVars, worldVars>>

\* (Mutant: the claim of an earlier request is not looked up.)
ResendsAgain(t) == Uncertain(t)
MayResend(t) == Uncertain(t) /\ ~ResendUsed(t)

\* claimControlledResend, after which the request queues for its delivery.
ClaimResend(r) ==
    LET t == request[r].trade IN
    /\ MayLock(r)
    /\ request[r].kind = "resend"
    /\ IF MayResend(t)
       THEN /\ audit' = audit \cup {Logged(t, "resend", "requested")}
            /\ request' = [request EXCEPT ![r].kind = "resending"]
            /\ chain' = Append(Tail(chain), r)
            /\ UNCHANGED flushVars
       ELSE /\ Reply(r, "fail")
            /\ chain' = Tail(chain)
            /\ UNCHANGED audit
    /\ lock' = "none"
    /\ UNCHANGED <<enabled, botVars, inFlight, delivered, worldVars>>

Blocked(r) == Has(inFlight, request[r].trade) /\ request[r].kind = "trade"

\* deliver, up to the call of sendTelegram
Deliver(r) ==
    LET t == request[r].trade IN
    /\ MayLock(r)
    /\ request[r].kind \in {"trade", "resending"}
    /\ IF Has(delivered, t) \/ Blocked(r)
       THEN /\ Reply(r, IF Has(delivered, t) THEN "ok" ELSE "fail")
            /\ chain' = Tail(chain) /\ lock' = "none"
            /\ UNCHANGED inFlight
       ELSE /\ inFlight' = Remember(inFlight, t, MaxHistory)
            /\ request' = [request EXCEPT ![r].step = "sending"]
            /\ lock' = "held"
            /\ UNCHANGED <<chain, flushVars>>
    /\ UNCHANGED <<enabled, delivered, audit, botVars, worldVars>>

\* sendTelegram. An unknown outcome is a timeout or an unreadable answer:
\* Telegram may have accepted the message.
SendTelegram(outcome, accepted) ==
    /\ outcome = "delivered" => accepted
    /\ outcome = "rejected" => ~accepted

\* The rest of deliver.
Sent(r, outcome, accepted) ==
    LET t == request[r].trade IN
    /\ request[r].step = "sending"
    /\ SendTelegram(outcome, accepted)
    /\ IF outcome = "delivered" THEN UNCHANGED mishaps ELSE Mishap
    /\ announced' = IF accepted THEN [announced EXCEPT ![t] = @ + 1]
                    ELSE announced
    /\ inFlight' = IF outcome = "unknown" THEN inFlight
                   ELSE Without(inFlight, t)
    /\ delivered' = IF outcome = "delivered"
                    THEN Remember(delivered, t, MaxHistory) ELSE delivered
    /\ audit' = IF request[r].kind = "resending"
                THEN audit \cup {Logged(t, "resend", outcome)} ELSE audit
    /\ Reply(r, IF outcome = "delivered" THEN "ok" ELSE "fail")
    /\ chain' = Tail(chain) /\ lock' = "none"
    /\ UNCHANGED <<enabled, botVars, confirmed, waived>>

Sending == {r \in Slot : request[r].step = "sending"}

\* The lock file a killed bridge leaves behind: the owner wrote its process
\* number, or was killed between opening the file and writing it.
LeftLock == IF lock = "held" THEN {"dead"}
            ELSE IF chain = <<>> THEN {lock} ELSE {lock, "dead", "blank"}

BridgeCrash ==
    /\ Mishap
    /\ lock' \in LeftLock
    /\ \E heard \in SUBSET Sending :
          announced' = [t \in Trade |-> announced[t] +
              IF \E r \in heard : request[r].trade = t THEN 1 ELSE 0]
    /\ enabled' \in {TRUE, ~CanDisable}
    /\ request' = [r \in Slot |-> Free] /\ chain' = <<>>
    /\ call' = NoSlot
    /\ answer' = IF call = NoSlot THEN answer ELSE "fail"
    /\ UNCHANGED <<flushing, todo, botVars, fileVars, confirmed, waived>>

\* A lock file without an owner is removed once it is thirty seconds old.
\* (Mutant: it is left there.)
NeverAges == lock = "blank" /\ UNCHANGED vars
LockAges ==
    /\ lock = "blank"
    /\ lock' = "dead"
    /\ UNCHANGED <<enabled, request, chain, botVars, flushVars, fileVars,
                   worldVars>>

BotStep ==
    \/ Queue \/ Acknowledge \/ RecoverAcknowledge \/ Recovered \/ NextPass
    \/ \E t \in Trade : Recover(t)
    \/ MarkDelivered \/ FlushEnds
    \/ \E r \in Slot : Post(r)

Delivery ==
    \E r \in Slot :
        \/ Busy(r) \/ Resolve(r) \/ ClaimResend(r) \/ Deliver(r)
        \/ \E outcome \in {"delivered", "rejected", "unknown"} :
              \E accepted \in BOOLEAN : Sent(r, outcome, accepted)

Next ==
    \/ \E t \in Trade : Confirm(t)
    \/ BotStep
    \/ QueueFails \/ PostFails \/ PostTimesOut \/ BotCrash
    \/ \E r \in Slot, kind \in {"delivered", "resend"}, t \in Trade :
          Operator(r, kind, t)
    \/ Delivery
    \/ BridgeCrash \/ LockAges

SafetySpec == Init /\ [][Next]_vars

\* The runner goes on with its passes and its flush thread, the bridge with
\* the requests it holds, and time passes. Operators owe nothing.
Fairness ==
    /\ WF_vars(Queue \/ Acknowledge)
    /\ WF_vars(\E t \in Trade : Recover(t))
    /\ WF_vars(RecoverAcknowledge)
    /\ WF_vars(Recovered)
    /\ WF_vars(NextPass)
    /\ WF_vars(\E r \in Slot : Post(r))
    /\ WF_vars(MarkDelivered \/ FlushEnds)
    /\ WF_vars(Delivery)
    /\ WF_vars(LockAges)

Spec == SafetySpec /\ Fairness

(***************************************************************************)
(* Properties.                                                              *)
(***************************************************************************)
TypeOK ==
    /\ staged \in SUBSET Trade
    /\ pending \in Seq(Trade) /\ botDelivered \in Seq(Trade)
    /\ phase \in {"recover", "recoverAck", "trade", "queue", "ack"}
    /\ moving \in Trade \cup {NoTrade}
    /\ (moving = NoTrade) = (phase \in {"recover", "trade"})
    /\ flushing \in BOOLEAN /\ todo \in Seq(Trade)
    /\ call \in Slot \cup {NoSlot} /\ answer \in {"none", "ok", "fail"}
    /\ enabled \in BOOLEAN /\ lock \in {"none", "held", "dead", "blank"}
    /\ request \in [Slot ->
          [kind : {"none", "trade", "delivered", "resend", "resending"},
           trade : Trade \cup {NoTrade}, step : {"free", "queued", "sending"}]]
    /\ chain \in Seq(Slot)
    /\ inFlight \in Seq(Trade) /\ delivered \in Seq(Trade)
    /\ Len(inFlight) =< MaxHistory /\ Len(delivered) =< MaxHistory
    /\ Len(botDelivered) =< BotHistory
    /\ audit \in SUBSET Event
    /\ confirmed \in SUBSET Trade
    /\ waived \in SUBSET Trade
    /\ announced \in [Trade -> Nat] /\ mishaps \in Nat

\* A confirmed trade is announced once, and once more only if an operator
\* asked for its resend, whatever timed out, crashed, was retried or was cut
\* from the bounded histories (deliver and claimControlledResend).
NoSecondAnnouncement ==
    \A t \in Trade : announced[t] =< IF ResendUsed(t) THEN 2 ELSE 1

\* The lock file belongs to the one request that is between its turn and its
\* answer, which is the head of the chain (withDeliveryLock).
OneSender ==
    /\ (lock = "held") = (Sending # {})
    /\ \A r \in Sending : chain # <<>> /\ Head(chain) = r

Owed == {t \in Trade : t \in staged \/ Has(pending, t)}

Vouched == {t \in Trade : Logged(t, "delivered", "delivered") \in audit}

Ledger == INSTANCE AlertLedger WITH
    owed <- Owed,
    settled <- confirmed \ Owed,
    said <- announced,
    resends <- {t \in Trade : ResendUsed(t)},
    vouched <- Vouched

\* Outbox and bridge implement the ledger: no alert is dropped between the
\* two files of the bot or by a lost answer, none is announced again.
KeepsTheLedger == Ledger!Spec

\* An uncertain alert that no request is working on waits for an operator.
AwaitsOperator ==
    \E t \in Trade : /\ Has(pending, t) /\ Uncertain(t)
                     /\ \A r \in Slot : request[r].trade # t

\* A confirmed trade leaves the outbox in the end, unless an uncertain alert
\* of it or of an earlier trade is left to the operator.
AlertIsAnswered ==
    \A t \in Trade : t \in confirmed ~> (t \notin Owed \/ AwaitsOperator)
==============================================================================

# Verification of the TrustLlama core engine

TLA+ models of the parts of this repository in which a trade, a payment, an
event, a license, a seat in a game or a piece of durable state can be lost,
repeated or contradicted; TLC runs of small instances; and TLAPS proofs for
every value of the constants. Paths are relative to the repository's root,
written `src/...` in `PROJECT.json`, whose `map` names for each definition the
lines it models.

## 1. The system

The repository holds several programs that share little code.

| Component | State | Operations | Interacts with | Module |
|---|---|---|---|---|
| **Core rail engine** `solana-webhook-core-rail-pro/.../engine.py` | per-address poll results, batch signatures, delivery failures, a bounded `asyncio.Queue` | `poll_once` (explicit signatures, gather of `_poll_address`, drain, commit), `_delivery_worker`, start, stop | RPC endpoints, the webhook receiver, the durable state | `CoreRailEngine` |
| **Core rail durable state** `.../state.py` | SQLite: cursors, explicit signatures, recovery boundaries, dead letters, replay markers and audits | one transaction per call | engine, replay command | `CoreRailEngine`, `DeadLetterReplay` |
| **Core rail replay command** `.../cli.py` | none between calls | select, look up marker, post, record outcome | durable state, receiver | `DeadLetterReplay` |
| **Trade journal and trader** `bot/trader.py` | locked JSON file: the pending claim, positions, outcomes, staged notifications; a nonce lock per wallet | `claim`, `execute`, `_swap`, `confirm`, `reconcile_pending`, `reconcile_manual` | chain RPC, live loop, scalpers, command line | `TradeJournal` |
| **Live scalper** `bot/live_scalper.py` | position, intent, last confirmation in memory and in `state.json` | intent, order, confirmation callback, reconciliation, restart | trader (through its claim), other bots on the wallet | `LiveScalper` |
| **Live runner and notifier** `bot/live_runner.py`, `bot/notifier.py` | outbox of pending and delivered announcements; the heartbeat of the loop | queue, flush (a thread), mark delivered, recover; passes and back-off | journal, announcement service, status pages | `TradeAlerts`, `BotStatus` |
| **Announcement service** `artifacts/api-server/src/routes/telegram.ts` | in-flight, delivered and audit lists in a file under a lock file | deliver, resolve, controlled resend | live runner, Telegram, an operator | `TradeAlerts` |
| **Licensing** `.../routes/licensing.ts` | checkout rows in PostgreSQL | create, poll and verify, claim a download, release, finish | the chain, the checkout page | `Checkout` |
| **Checkout page** `artifacts/llama-website/src/pages/buy/` | contract, status, poll timer, automatic download | open, again, cancel, poll, follow the link | licensing | `CheckoutFlow` |
| **Request limits** `.../middleware/` | window counters in PostgreSQL | count, refuse, fall back when the store is out of reach | every request, the feedback route | `RequestLimit` |
| **Status pages** `.../routes/health.ts`, `paper.ts` | none; they judge the state file of a loop | `/live/status`, `/paper/status` | live runner, paper loop | `BotStatus` |
| **Arcade room** `llama_website/llama_game/backend.py` | `connections` and players, match tickets in SQLite | join and replace, chips, completion, hazards, broadcast, disconnect | the tabs of the browsers | `ArcadeRoom` |
| **Arcade engine** `artifacts/retro-arcade/src/hooks/use-arcade-engine.ts` | the refs of the hook, the level-one run | insert coin, test portal, join, input, receive, reset, leave | the room | `ArcadeEngine` |
| **Fighting game server** `.../fighting-game/match_state.py`, `server.py` | matches, sockets, presence, one task per match | create, authenticate, inputs, tick, disconnect, evict | the page | `FightMatch` |
| **Fighting game page** `.../fighting-game/useFighter.ts`, `index.tsx` | the socket, its retry timer, held keys, the shown state | create, connect, reconnect, keys, leave | the server | `Fighter` |
| **Devnet rehearsal** `scripts/src/solana-devnet-rehearsal.ts` | progress file with checkpoints, evidence file | deploy, set up, prepare, send, reconcile, verify | the cluster, an operator | `DevnetRehearsal` |

What is hard in them, and what makes each correct:

* **Core rail.** Concurrency on one event loop: `asyncio.gather` over
  addresses, workers on a bounded queue, a poll that fails half way while its
  siblings run on. RPC nodes lag, prune and answer malformed pages. The process
  may die anywhere. Correct: the durable cursor never passes a signature nobody
  delivered, dead-lettered or reported; explicit marks likewise; a cursor moves
  back only with evidence; new signatures are accounted for.
* **Dead letters.** Two bounded tables, the engine and any number of commands
  on one file with nothing held between transactions. Correct: a recorded
  delivery is remembered while the letter is retained, and only real ones are.
* **Trade journal.** A transaction may be on the chain although its send
  raised; the process may die after signing, sending or confirming; a second
  process reconciles the same claim. Correct: no broadcast is forgotten, the
  outcomes are those of the chain, positions follow confirmed swaps, every
  strategy swap that was broadcast is resolved in the end.
* **Live scalper.** Two durable files that cannot be written together, a
  callback between them, balances others change, saves that fail. Correct: the
  state file can always finish the claim a restart finds; alone in its wallet
  the position is real, its own fill is accepted and finalised.
* **Announcements.** Three files in two processes, timeouts racing late
  answers, retries, an operator beside the bot, histories that are cut.
  Correct: an alert is owed until it is settled, announced once, and once more
  only after an operator's resend.
* **Checkout.** Status requests overlap, each made of several statements; one
  transaction may pay for several intents; a lease expires under a running
  transfer; the page hears answers in any order. Correct: a license is paid by
  a transaction of its own, a verification is final, the page decides, the
  archive arrives in the end.
* **Arcade.** Several tabs of one player, sockets lost or replaced, messages in
  flight in both directions, refs that outlive what they describe. Correct: one
  seat with one active ticket, a tab that says "connected" plays, every join is
  decided, a finished level is left.
* **Fighting game.** An old socket ends after the new one began; inputs are
  sent on change only, and lost with a socket; the loop, the clock, an input and
  the eviction meet. Correct: presence, guard and result are true, and the page
  learns the outcome.
* **Rehearsal.** Crashes between sending and writing the checkpoint, expired
  blockhashes, forks. Correct: no step is made twice, what the file says is
  final, the campaign ends.
* **Status and limits.** A page that judges from a file; counters shared by
  several servers. Correct: a loop that is well is told from one that fails or
  stands still; a limit holds and refuses nobody before it is used up.

## 2. Modules

| Module | Content |
|---|---|
| `CoreRailEngine` | the engine with the cursors, marks and boundary table of the durable state, the RPC nodes and the receiver |
| `CoreRailEngineProofs` | its theorems: types, explicit marks, no silent skip, the evidence of a regress |
| `DeadLetterReplay`, `DeadLetterReplayProofs` | dead letters, replay commands, evicting and restarting engine; its four theorems |
| `SwapLedger` | abstract specification of the pending claim: one order, one swap, booked as the chain decided it |
| `TradeJournal` | claims, broadcasts, receipts and reconciliation by several processes; implements `SwapLedger` |
| `LiveScalper`, `LiveScalperProofs` | extends `TradeJournal` with one scalper: each trader step is a step of `TradeJournal` conjoined with what the scalper does in it; the theorems of both |
| `AlertLedger` | abstract specification of the announcements: owed, said, settled |
| `TradeAlerts`, `TradeAlertsProofs` | journal, outbox, flush thread and announcement service; implements `AlertLedger`; its theorems |
| `Checkout` | the licensing routes and their table |
| `CheckoutFlow`, `CheckoutProofs` | extends `Checkout` with the page; its theorems |
| `ArcadeRoom` | the backend's room as one player's sockets meet it |
| `ArcadeEngine`, `ArcadeProofs` | extends `ArcadeRoom` with the tabs of one browser; the theorems of both |
| `FightMatch` | the fighting game's match, sockets and tasks |
| `Fighter`, `FighterProofs` | extends `FightMatch` with the page; its theorems |
| `DevnetRehearsal` | the script, the progress file and the cluster |
| `BotStatus` | the passes of a loop, its state file and the status pages |
| `RequestLimit` | the counters and the routes they guard |
| `SideServicesProofs` | the theorems of the last three |
| `MC*` | orders, failed signatures, symmetry and pairs of instances for TLC |

History variables (`delivered`, `base`, `reported`, `accepted`, `recorded`,
`used`, `announced`, `waived`, `received`, `lost`, `passed`, `streak`,
`failing`) only remember; no action's guard reads them, except the bound on
reuse that `ReusesOrders` names. A comment starting "Mutant:" marks an altered
form of the definition that follows; `PROJECT.json` says which run detects it.

### CoreRailEngine

Signatures of an address are 1, 2, ... in chain order, 0 is Python's `None`.

| Model | Code |
|---|---|
| `cursor`, `marked` | tables `address_cursors`, `explicit_signatures` |
| `boundaries` | active rows of `recovery_boundaries`, at most `MaxBoundaries`, oldest detection first |
| `pc`, `toPut`, `fetched`, `toMark`, `toCommit` | where `poll_once` stands and its local lists |
| `polls`, `batch`, `failures` | `_address_polls`, `_address_batch_signatures`, `_delivery_failures` |
| `tasks` | running `_poll_address` coroutines; `live = FALSE` for one whose gather has already raised |
| `StartPoll`, `Put`, `Gather`, `Collect`, `Join`, `MarkExplicit`, `CommitCursor`, `EndPoll` | the stretches of `poll_once` between its awaits |
| `ReadPage`, `ReadTransactions`, `Finished` | `_fetch_address_records` and `_poll_address` |
| `RecordBoundary`, `ClearBoundary` | what the end of a scan writes to the boundaries: a detection inserts or refreshes the address's row and evicts the row detected longest ago, of whatever address, when the table is full |
| `Take`, `Deliver`, `DeliverRaises` | `_delivery_worker` |
| `Crash` | death, or a stop: volatile state goes, SQLite stays |

A page shows some prefix of the chain at most `Lag` behind its head and from
some pruning floor on; `bad` pages contain a malformed record. One step of a
coroutine runs from one await to the next, which is the interleaving asyncio
has. An RPC call with its failover and retries is one step that answers or
raises; so is a delivery. `until` includes the cursor, as the repository's own
test client answers.

Left out: nodes that ignore `before` (the repeated-page guard), more than one
left-over coroutine of the same address, metrics. Of the boundaries, resolved
rows, the eviction log and the trim counters are left out, which the engine
only writes. Detections are taken to have increasing time stamps, so the row
just written is never the one evicted; with a clock set back, `state.py` would
raise "recovery boundary was not retained" and the poll would fail.

### DeadLetterReplay

Each action is one SQLite transaction, or one post. `AddLetter` is the
engine's dead-lettering with its trim, `Open` the schema code every process
runs on opening the file (markers rebuilt from audits, orphans removed, audits
pruned), `Start`, `Check`, `Post`, `Record`, `Finish` the loop of
`replay_dead_letters`, `Kill` a killed command or a locked database. A failed
post may have been accepted.

### TradeJournal and SwapLedger

An order stands for its fingerprint. `txs` is the chain: each signed
transaction with its status. `pc` places a process in `execute` or
`reconcile_*`: between any two of its journal calls, RPC calls and waits other
processes may step. The journal's file lock makes each call atomic; the wallet's
nonce lock is `lock`. `SendFails` raises with or without the transaction having
reached the network; `Settle` with `ActOnReceipt` is the reconciliation that
confirms, releases or keeps the claim; `Cleanup` is what `execute` leaves
behind when it raises.

`SwapLedger` says what the pending claim is for and knows neither approvals nor
receipts nor processes: an order takes the wallet, puts out one swap at most,
and with a swap out leaves only by booking the outcome the chain gave it, in the
step that moves the position. `KeepsTheSwaps` maps the claim's order to
`claim`, its swap to `swap` once it was handed to the network (`OutSwap`), the
chain's swaps by status to `sent`, `confirmed` and `reverted`, and the journal's
records of swaps to `booked`. A signed swap that was not sent, an approval and a
crash are stutters; a claim that ends without a swap out is the ledger's
`GiveUp`.

Left out: the cooldown and the daily limit (they only delay a claim), the daily
pruning of trades, quotes and amounts, balances (an unusable balance is a
fault), the grid's lots and budgets.

### LiveScalper

`mem` and `disk` are the same fields in memory and in `state.json`; a save
changes memory first and may fail before or after the file is replaced.
`before` and `out` are the balance the claim remembers and the amount
`execute` measured; `drift` is what other bots have moved, which happens only
while the wallet's lock is free. `Restart` replaces `Crash`. `Confirm` of the
trader may come only after the callback has returned. Two history variables name
the two conditions under which the scalper's knowledge ends: `moved`, others have
swapped since the claim's balance was read, and `lost`, a restart has read a file
that lacks the result of a claim already gone. No guard reads them.

A claim without a hash stays blocked for an operator, as in the code, so the
runs of both bot modules set `CHECK_DEADLOCK FALSE`: a stopped bot is a state
the program really reaches.

### TradeAlerts and AlertLedger

| Model | Code |
|---|---|
| `staged` | `confirmed_notifications` of the journal |
| `pending`, `botDelivered` | `notifications` in the runner's file |
| `phase`, `moving` | where `run_once` stands between the two files |
| `flushing`, `todo`, `call`, `answer` | the flush thread and the request it waits for |
| `lock`, `chain`, `request` | the lock file with its owner, `deliveryLock`, the requests the bridge holds |
| `inFlight`, `delivered`, `audit` | the delivery journal |

`Confirm`, `Queue`, `Acknowledge`, `Recover` are the runner's pass; `Post`,
`PostTimesOut`, `MarkDelivered`, `FlushEnds` the thread; `Resolve`,
`ClaimResend`, `Deliver`, `Sent` the bridge, which runs alone between a
request's turn and its reply; `Operator` the reconciliation route. `Sent` may
end "unknown" with or without a message. `BotCrash` and `BridgeCrash` may
strike anywhere, the latter also between opening the lock file and writing the
owner's number (`"blank"`). `waived` are trades that the bridge, switched off,
answered with success.

`AlertLedger` says what the pair promises and nothing of how: its `owed` is
what the journal or the outbox holds, `settled` the confirmed rest, `said` the
messages Telegram accepted. `KeepsTheLedger` checks that every step of
`TradeAlerts` is a step of the ledger or a stutter.

Left out: the text of a message, reuse of a dead owner's process number
(`telegram.ts:216` takes any live process for the owner), several bridges.

### Checkout and CheckoutFlow

A row has its status, its signature and three deadlines that time may pass at
any moment: `late` (30 minutes), `over` (the grant's hour), and the age of its
claim. A status request is four steps, `Load`, `Expire`, `SearchFinds` or
`SearchMisses`, `Record`, because other requests run between its statements;
the update's own conditions (`status = 'pending'`, the unique signature) are in
`Record`. `TransferStep` and `DownloadFails` end a transfer, `ServerCrash` all
of them. The page polls every five seconds without waiting; `mine` are the
requests whose answers the mounted component still hears, `page.polling` the
intent its interval asks for, `page.auto` the download it starts by itself.

Left out: which account and amount make a transaction match (a payment covers
an intent or does not), signing of tokens, building of archives.

### ArcadeRoom and ArcadeEngine

A socket is a queue in each direction; the room learns of a lost one from the
end of its queue or from a broadcast that raises. `seat` is the player of a
joined socket with its ticket; `_join` replaces the player's other sockets.
`Serve` is one message with its handler, `Fails` a handler that raises before it
has changed anything: the endpoint disconnects the socket and returns without a
notice (`backend.py:4007`). Positions and hazards are what the room makes of a
message: it refuses it, ignores it, kills, or raises the level; `Fate` is the
world of levels 7 to 10 that kills or promotes a player by itself (`fates`
bounds these). A tab holds the refs of the hook: the current socket, the level
the test portal asks for, the level-one run. A handler belongs to the socket it
was made for and compares it with `socketRef` where the code does; the error
handler does not (`use-arcade-engine.ts:392-399`), which is `LateError`.

Left out: a handler that raises after it has changed the room. A database error
while a seat is being taken over (`backend.py:2965`) leaves the older tab without
a seat and without a notice.

Chips have two names, the browser's and the room's (`ClientName`,
`ServerName`), as in the code: finding 3.

### FightMatch and Fighter

The transitions of `match_state.py` run under one lock and suspend nowhere, so
each is one step. `Tick` is one turn of the match loop with its clock,
`Authenticate`, `Receive`, `Disconnect` the handler of a socket, `Evict` both
ways a match is removed. Blows land, miss or are refused; a refused blow has
lowered the guard all the same. The page sends an input when the action of the
held keys changes, holds a blow for 200 ms, repeats a movement every 70 ms, and
opens a new socket a second after it lost one.

Left out: matches between two players (`create`, `join`, `select_character`,
`combat_action`, `round_tasks`), positions, the drawing of the arena.

### DevnetRehearsal, BotStatus, RequestLimit

`Plan` is the order of `main()`. A step's transaction is checkpointed before it
is sent (`pending`), reconciled by a resumed script and entered when final.
A transaction may land late, vanish with a fork or expire; a node answers from
one consistent view; one script runs at a time. `BotStatus` has one loop, live
or paper, on a clock whose unit is a third of the default interval, and the two
routes' judgements of its file. The live route says "disabled" unless the API
server has ENABLE_LIVE_TRADING (`switch`) or the file records live execution
(`file.live`), which a pass does that no pending claim blocks
(`LiveIsRecorded`): a loop that is well but whose every pass is blocked is shown
as disabled where the switch is unset, so `WellIsShown` speaks of loops the page
knows to trade (`IsKnown`). `RequestLimit` has the two limiters one behind
the other, the fixed windows of the database's clock, and the policy when the
store fails; the store's upsert is one atomic statement, so requests of several
instances form a sequence.

## 3. Runs

Every bound is a constant: `MaxChain` signatures per address, `MaxTx`
transactions signed, `MaxId` letters written, `MaxDrift`, `MaxTicket`,
`MaxPresses`, `MaxBreaks`, `MaxMoves`, `MaxFates`, `MaxClock`, `MaxTime`, and
one budget of mishaps per module (`MaxFaults`, `MaxMishaps`, `MaxTrouble`):
crashes, failed or lost calls, timeouts, whichever of these the module has. Where two instances of
one module answer one question, or three small parts share nothing, one run
holds them: its first state chooses the instance (`bound`, `users`, `wallet`,
`part`) and no step changes the choice.

| Run | Question | Instance and why it is enough |
|---|---|---|
| `core_rail` | Can a signature be lost, a cursor move back unexplained, an event stay unaccounted for? `TypeOK`, `NoSilentSkip`, `ExplicitMarkIsHandled`, `RegressOnlyWithEvidence`, `EventuallyAccounted` | two addresses (a gather may fail while a sibling runs), an explicit signature, two workers on a queue of one (full, and order lost), two-page scans (a gap, a page boundary), a node one behind; three instances: three signatures with one fault; two with two (a failure, then a crash); no fault, one address with four signatures, more than the two pages of a scan; a boundary table of one row for two addresses (an eviction); fair |
| `core_rail_outlived` | The same when an RPC call may outlive the poll interval | violated: finding 1 |
| `replay_pair` | Is a recorded delivery remembered, and nothing else? `ProtectionLasts`, `MarkersAreTrue`, `UnforcedOnce` | two symmetric commands, two letters kept of three written (an eviction), one audit kept (pruning at the first repeat), two kills |
| `trade_journal` | Does the journal stay true to the chain, does it implement the ledger of swaps, and is each strategy swap resolved? `NoForgottenBroadcast`, `OutcomesAreTrue`, `PositionsMatchChain`, `KeepsTheSwaps`, `OneResolves` | one process with a strategy buy and sale and a manual order, four transactions (approval and swap of a round trip); and two processes with orders of their own that execute and reconcile each other's claims, three transactions; two faults |
| `trade_journal_reuse` | And when two processes submit equal orders? | violated: finding 2 |
| `live_scalper` | Can a restart always finish the claim it finds; does a scalper know its position, accept its own fill and finalise it? `IntentCoversClaim`, `PositionIsReal`, `CallbackAccepts`, `FillIsFinalized` | a token scalper and a native-coin scalper, each with failing saves and one swap's worth of drift in either direction; three transactions (a buy and a sale, one with its approval), two faults (a failed save and the restart after it); fair |
| `trade_alerts` | Does the pipeline implement the ledger, and is every alert answered? `TypeOK`, `NoSecondAnnouncement`, `KeepsTheLedger`, `AlertIsAnswered` | two trades, histories of one (the second trade cuts the first), two requests in the bridge (one timed out, one retried), two mishaps (a timeout and a crash), an operator, the switch |
| `checkout` | Is each license paid for, and does the buyer learn and get it? `TypeOK`, `EachLicenseIsPaid`, `VerifiedIsFinal`, `SettlementIsDecided`, `ArchiveIsDelivered` | two intents and one payment that may cover both, two overlapping polls, one transfer with its lease, one mishap; fair |
| `arcade` | One seat, no tab that only thinks it plays, every join decided? `TypeOK`, `OneSeat`, `ConnectedIsSeated`, `JoinIsDecided` | two instances: two tabs and two sockets (a replacement, or a reset and a new join) with one move on levels 1 and 9; one tab and socket with three moves on levels 1, 9 and 10 (it is raised, plays there, the world kills or promotes it); two tickets, two mishaps (a lost connection, a failing handler, or two of one kind), one fate; a tab that knows the test portal |
| `arcade_level_one` | Does a finished level 1 lead to level 2? | violated: finding 3; one tab, two chips, nothing lost, nothing fatal |
| `fighter` | Are presence, guard and result true, and is the outcome learned? `TypeOK`, `PresenceIsTrue`, `GuardIsHeld`, `ResultIsFinal`, `OutcomeIsLearned` | one match, three sockets (two may overlap), two key presses of three kinds of keys, one lost connection, health for two blows |
| `side_services` | Three parts: does the rehearsal end, with each step made once; do the status pages tell the truth; do the limits hold? `CampaignIsSound`, `RehearsalEnds`, `StatusIsTrue`, `LimitHolds`, `RefusedAtTheLimit` | three troubles for the whole plan; a clock of twelve thirds of an interval (four times the window); two clients, an API limit of two over a feedback limit of one, windows that end |

Deadlock is checked for `core_rail`, `replay_pair`, `trade_alerts` and
`checkout`, which never stop. The others may: an operator must free a claim, a
player has left and every bound of the run is used up, the rehearsal is over.

`trade_alerts` keeps a bridge history of one for two requests, the hardest
case, and its two mishaps are the most for which `NoSecondAnnouncement` then
holds. With more, an alert waived by a bridge that runs disabled, and resent by
an operator once it is enabled, evicts a younger alert from the history while
the bot still calls for that one, which is announced again. The code's history
is `MAX_HISTORY` = 1000 (`telegram.ts:56`). The general statement therefore has
a hypothesis, `HistoryOutlives`: the history is at least as long as the number
of requests the bridge can hold at once. Under it the theorem holds for any
number of mishaps; the run shows the shorter history as far as it goes.

### Fairness

* `CoreRailEngine!Fairness`: the event loop runs every ready coroutine; RPC
  calls and deliveries have timeouts, so they answer or raise; the poll loop
  runs again after its interval. Crashes, failures and degraded answers get no
  fairness and are bounded, since a receiver that fails for ever excuses
  everything.
* `TradeJournal!Fairness`: a process that executes goes on; the live loop
  reconciles a pending claim of its own mode at the start of each pass
  (`OfLoop`); the chain includes a transaction that was sent. The loop reports a
  manual claim as blocked (`live_runner.py:524`), which then waits for the
  operator's command: nothing forces that, and `BroadcastIsResolved` promises
  nothing of manual swaps. Nothing forces a claim either.
* `LiveScalper!ScalperFairness`: the same, with quotes that keep arriving, each
  of which starts with the pending claim. Others may use the wallet and saves may
  fail; `FillIsFinalized` excuses what `moved` and `lost` name.
* `TradeAlerts!Fairness`: the runner's passes, its flush thread and the bridge
  go on (each call has a timeout); an ownerless lock file grows old. Operators
  owe nothing, so `AlertIsAnswered` lets an uncertain alert wait for one.
* `CheckoutFlow!Fairness`: requests are answered, the interval fires, deadlines
  pass. `Click` is strongly fair: the archive is owed only to a buyer who goes
  on asking, and a running claim disables the grant now and then.
* `ArcadeEngine!Fairness`: one weak fairness for the whole: as long as the room
  can serve a socket, a connection can open or fail, or a message can arrive,
  one of these happens. No socket or tab is promised its turn.
* `Fighter!Fairness`: the server's tasks run, the clock passes, the browser
  calls its callbacks and timers. Nothing is owed by the player.
* `MCSideServices!SideFairness`: the operator runs the rehearsal again and
  removes a draft, the script goes on, the cluster works off what it holds.

### Findings

1. `engine.py:138`: `gather` raises at the first failing address and leaves the
   others running. One of them can store its result during a later poll, which
   then commits a cursor whose events were never queued. Needs an RPC call that
   outlives the poll interval.
2. `trader.py:654`: a manual claim is identified by its fingerprint only. A
   process that reconciles a running order's approval frees the claim, an equal
   order takes it, and the second swap's hash overwrites the first.
3. `use-arcade-engine.ts:156`: the browser sends the names `neon-chip-1` to
   `neon-chip-5`, the room looks for `chip-1` to `chip-5` (`backend.py:3134`)
   and ignores the rest. The chips never count and `level_one_complete` is
   refused, although `level-one-rules.test.ts:212` has the exit open "while
   authoritative Level 2 advancement arrives".

### What the model shows of the code

Behaviour met while modelling that no run states as a violation, because no
document says the opposite of it clearly enough. Each is in the model's behaviours, unless said
otherwise.

* `engine.py:260`: each poll starts from the newest page, so a backlog of more
  than `MAX_RECOVERY_PAGES` pages stays unsafe and its oldest part is not
  delivered until someone acts; the recovery boundary and its incident tell of
  it. The method's docstring (line 254) promises the newer pages "including
  large gaps"; `MAX_RECOVERY_PAGES` (line 21) is their limit.
  `EventuallyAccounted` names that limit: a signature with
  `MAX_RECOVERY_PAGES * signature_limit` or more newer ones above it
  (`BeyondOneScan`) is promised nothing. The run holds such a backlog; without
  the clause the property is violated there.
* `state.py:276-331`: the table of active boundaries is bounded, and a detection
  may evict another address's row, although its gap is still open. A cursor may
  then move back with no row that says so; `RegressOnlyWithEvidence` allows it
  only when the table is full of rows of other addresses.
* `live_scalper.py:263`, `375-376`: the fill is finalised in memory before a
  save that may fail. The reconciliation sees it done and returns without
  saving; after a restart the file holds the intent only, which is dropped, and
  the position with it. `PositionIsReal` therefore ends with a restart that
  reads such a file (`lost`).
* `trader.py:2474`: a reconciled amount is the current balance minus an old
  one. After another bot's swap it differs from the amount already finalised,
  the replay is refused and the claim blocks the scalper until an operator
  acts. `CallbackAccepts` therefore ends, for outputs measured by balances, with
  another bot's swap (`moved`).
* `licensing.ts:324`: a request that expires a row answers "expired" from
  memory, also when another request has verified the row in between; the page
  shows an expired contract whose license was granted. A payment that is final
  in time but first polled after the deadline is never verified. A transfer
  that fails after its lease has ended clears the claim of the next one.
* `checkout-flow.tsx:139-141`: a late "expired" of an earlier contract stops
  the polling of the new one; the page then says so, and the buyer may start
  again.
* `use-arcade-engine.ts:392-399`: the error handler does not compare its socket
  with `socketRef`, so a socket closed while it was connecting may overwrite
  the status of the next one. A pending request of the test portal is not
  cancelled by an ordinary join (`446`).
* `useFighter.ts:104`: an input is dropped while the socket is not open and
  never sent again, so the server keeps the guard of before; `GuardIsHeld`
  excludes this case (`lost`). A page left while its match is created opens a
  socket that nothing closes (`88`). A tie is shown as a defeat. The socket of
  a match that was evicted leaves a new entry in `app.state.sockets`
  (`server.py:239`).
* `solana-devnet-rehearsal.ts`: a draft of the evidence left by a crash blocks
  every later run until the operator removes it (`480`); a wrong outcome blocks
  its step for good.
* `live_runner.py:906`: after failures the wait grows to 300 seconds, longer
  than the window of the status page, so a runner that only waits is shown as
  stale; `DeadIsNoticed` and `FailureIsShown` hold all the same. A paper loop
  that has stopped after a failure stays "degraded".

### Hazards no property covers

`PROJECT.json` lists the hazards that a property of a run covers. Others that
the code has, and why they are left to other means:

* `licensing.ts:436`: a download that outlives its claim while a second one
  runs, whose claim the failure of the first would clear; the model has one
  transfer at a time. It opens the grant once more to a buyer who has paid.
* `backend.py:2965`: a database error while a seat is taken over leaves the older
  tab without seat or notice; the model's failing handler has changed nothing.
* `webhook.py:127`: a 200 whose body cannot be read counts as a failed attempt
  and the event is posted again; deliveries are at least once by design.
* `opening_warnings.py:250`: a warning claimed before it is sent, whose process
  dies, is neither sent nor released; the module has no repair.
* `trader.py:366`: a new grid configuration must wait for open lots and the
  pending claim; the grid is not modelled.
* `processor.rs:157`: rounding and widths of the pool; no interleaving, tests
  of the arithmetic exist.
* `telegram.ts:216`: a process number reused by another program keeps a dead
  lock alive.
* `use-arcade-engine.ts:543`: level 2's jump sends a position relative to the
  last snapshot; positions are abstracted.
* `backend.py:3459`: a broadcast drops a socket while its own handler still
  runs; modelled, but what an administrator's session makes of it is not.
* `postgres-rate-limit-store.ts:13`: the promise of the table's creation is
  kept, so a database that is down at the start leaves the store failing until
  a restart.
* `llama_website/llama_game/web3-onboarding.js`: the wallet page reads the
  quote and the adapter again after awaits (193-206), sends a quote twice on a
  double click (184), confirms with the edited amount (188), and applies quotes
  and balances in the order of their answers (174, 77-96). One page without a
  server of its own; a model would restate it.

## 4. Proofs

TLAPS checks these for every value of the constants, under the modules' named
assumptions only, which TLC evaluates in each run that extends them.

**CoreRailEngine.** `TypeCorrect` also bounds the queue for every size and
number of workers. `ExplicitMarksAreSafe` holds even when RPC calls outlive
polls: `ExplicitTracked` adds that every signature this poll has fetched is
still to be queued, in flight, handled or in `failures`, and that once the queue
has drained, a signature the commit loop has left is handled or in `failures`.
`CursorNeverSkips` assumes `~RpcOutlastsPoll`, the case finding 1 excludes.
`NoSilentSkip` alone says nothing of a cursor about to be committed; `SkipInv`
adds: coroutines belong to the poll that runs (`OwnTasks`), a scan's records are
gap-free from its cursor up, and each signature below a stored poll's cursor is
accounted for, in flight, still to be queued, or failed and tracked in the
address's batch (`AddressTracked`). Draining the queue leaves only the first and
the last, and `MayCommit` refuses the last. `RegressIsEvident`, under the same
assumption, needs two facts more (`RegressInv`): every coroutine works from the
durable cursor, also one that a failed poll left behind (`Current`); and where a
stored poll cursor is behind the durable one, there is evidence (`Evident`):
either a row names the durable cursor and all later rows are of other addresses
this poll has scanned, or such rows fill the table. A scan that ends below the
cursor has not met it and appends the row in the same step; another scan may
evict rows from the front (`Retained`) or clear its own, which no later row of
an address already scanned can be. A commit happens when no coroutine is left,
so it moves back only where `Evident` speaks. The theorem covers any number of
addresses and any size of the table.

**DeadLetterReplay.** `ReplayInv` joins `ProtectionLasts` with: markers and
delivered audits are of recorded deliveries, and those of accepted letters
(`MarkersAreRecorded`); a command about to record "delivered" has been answered
for exactly the letter it stands at (`AnswerIsTrue`). That the next letter of a
command is one of its letters needs a least element, from the well-foundedness
of the naturals. `NoUnforcedRepeat`, an action property, follows from the same
invariant.

**TradeJournal.** `TypeCorrect` needs nothing more. `NothingIsForgotten`,
`RecordsAreTrue` and `PositionsFollowChain` assume `OrdersApart`: no two claims
share a fingerprint, or one process has the journal to itself; what remains is
the case of finding 2. `JournalInv` says: a claim names a transaction of its own
order and phase; a process works on an order of its own (`OwnOrders`) and on a
transaction of that order (`HashIsOwn`); and the claim follows what its process
does (`ClaimFollows`): from the signature to the end it names the transaction, and
while nothing was attempted it names none that can have been sent. One process
that repeats an order, also after a crash, keeps all this, because it leaves one
claim before it takes the next. `PositionInv` adds that records are made in chain
order (`RecordedBefore`) and that positions match the records; without a pending
claim the records and the chain agree. `JournalKeepsTheSwaps`, the refinement,
needs no more than `JournalInv`: each action is shown to be one step of
`SwapLedger` or a stutter (`LedgerClaim` and the lemmas after it), where the
invariant says that what is confirmed, rejected or released is the claim's own
transaction and in which phase.

**LiveScalper.** Three things are written at different times: the claim, the
file, the place in the code. `ScalperInv` relates them: while a claim is there,
the file names it as the intent, or as the last confirmation once its result is
saved (`Covered`); while an order may still sign, its action is the intent
(`OrderIsIntended`); what the process waits for is the claim's transaction
(`HashIsClaimed`). From it follows `IntentAlwaysCovers`. `FillInv` adds the
chain, still with failing saves and other users of the wallet: memory and file
each tell of a swap that was filled, and differ under a claim only by the result
of that claim (`Remembers`); measurements of one claim agree until others swap
(`GainsAgree`); and a transaction that may be included, or was filled and is not
known, is the claim's (`OnlyTheClaims`, until `lost`). Known is what the file says
while a claim is there, because a restart then reads it and still finds the claim;
it is what the memory says afterwards. `PositionsAreReal` and `CallbacksAccept`
follow without any hypothesis on the wallet or the disk. `ScalperKeepsJournal`
puts the two modules together: each step of the scalper is a step of
`TradeJournal`, or leaves journal and chain alone (`JournalStep`), and as it has
the journal to itself, its orders may repeat. `ScalperKeepsTheSwaps` carries the
refinement of `SwapLedger` over in the same way.

**TradeAlerts.** `DeliveryInv` says that only the alert at the head of the
outbox can be with the bridge; each request there is about it, or about one that
has left before; the requests stand in chain order and the first one sends;
nothing that is only staged is known to the bridge. `TypesHold` and
`OneRequestSends` follow. `AlertInv` adds why a hash outlasts its use: fewer
hashes came after a pending one than there are requests (`Room`), so under
`HistoryOutlives` it is still in the history, and no alert is announced more
than once plus its spent resend (`Counts`). From it follow `AnnouncedOnce` and
the refinement: `OutboxKeepsTheLedger` shows `Init` to be an initial state of
`AlertLedger` and every step one of its steps or a stutter.

**Checkout.** `CheckoutInv` says: only a verified row has a signature, one that
pays for it and that no other row has; a request at work is about an intent, and
what it is about to record pays for this intent; transfers and posts are of
intents. Uniqueness comes from the update's own condition, not from the search.
For `VerificationIsFinal` every action that writes a row is shown to let one row
grow (`MayBecome`), whatever the request had read before.

**Arcade.** `ArcadeInv` joins the types with: the room has one seat at most,
with an active ticket and no chips (`Seats`); a socket's first message is its
join, its farewell comes after the connection is lost (`Joins`), and the news of
the loss is the last message to an open socket (`Breaks`); a welcome on its way
is for a seated socket, or the news that the seat was lost are behind it
(`Welcomes`); a socket belongs to one tab (`Tabs`). `PlayerHasOneSeat` needs
little of it; `ConnectedHoldsTheSeat` needs all, since a tab's "connected" is a
message that may be overtaken by another tab's join. `NoChipIsBooked` states the
cause of finding 3 for every run: no chip of the client's names is ever counted.

**Fighter.** `MatchInv` adds to `PresenceIsTrue` that the loop starts with the
only match and that nobody is present without one. Every step of the whole
specification is one of six changes of `match` and `presence` (`MatchStep`);
`PresenceHolds` and `ResultsAreFinal` follow from these six. `FightInv`, for
`GuardStaysHeld`, relates the page to the server: how far the page has come
(`Stage`); only the open socket holds messages (`Wired`); nobody is told of an
end while the round is on (`News`); the last input that waits is the one sent
last, and when none waits the server's guard matches it already (`Guard`).

**SideServices.** *Limits*: `LimitInv` relates each counter to what was let
through in its window. `LimitsHold`, `RefusalsAreDue` and `EveryRowIsCounted`
follow, for any limits, clients, outages and number of requests at once.
*Status*: `StatusInv` relates what the loop has noted to the clock: nothing is
noted later than now (`NotedBy`), what the loop is doing bounds the clock
(`Timely`), and after a good pass neither does the wait end nor the next pass
begin later than the interval allows (`Fresh`). Once a file records live
execution it goes on doing so. `StatusStaysTrue` follows for any interval and
window the code admits, with the switch set or not. *Rehearsal*: `CampaignInv` joins what
the file says with the cluster, `Ledger` (the last transaction of a step is its
checkpoint or its entry, the others have expired, none that expired has landed,
and an entry's transaction is final), and with the script, `Working` (it works
on a step without an entry, signs anew only when the checkpoint has expired, and
reconciles the transaction that was checkpointed). All the proof uses of the
cluster is `Evolves`: it takes nothing final back and revives nothing that
expired. `CampaignStaysSound` follows for any number of steps.

**Assumptions.** Besides bounds that are numbers, the named assumptions say:
there is a chip and a first level, and `NoSocket`, `NoTrade` and their like are
none of what they stand apart from (arcade, alerts, licensing); the match
numbers its sockets in the order they open (fighter); intervals and windows are
positive (status). Hypotheses of single theorems: `~RpcOutlastsPoll`,
`OrdersApart` and `HistoryOutlives`. The first two exclude the cases of
findings 1 and 2; the last one is `MAX_HISTORY` = 1000 against the requests a
bridge has open for one bot, which times each out and waits before it calls
again.

Model-checked only:

* Liveness, out of the prover's reach: `EventuallyAccounted`, `OneResolves`,
  `FillIsFinalized`, `AlertIsAnswered`, `SettlementIsDecided`,
  `ArchiveIsDelivered`, `JoinIsDecided`, `OutcomeIsLearned`, `RehearsalEnds`.
* The type invariants `ScalperTypeOK`, `RehearsalTypeOK` and `StatusTypeOK`,
  checked with their modules; no run repeats them. `LimitTypeOK`,
  `RowsAreCounted`, `OneSender` and the types of the dead letters and of the
  journal, which no run repeats either, are proved.

## 5. Not modelled

* **Pure computation**: configuration, signing, quotes and routing, contracts,
  pricing rules, log redaction, metrics, the JSON shapes.
* **The grid** of the trader (lots, levels, budgets, configuration) and the
  paper bot's fills: arithmetic over price samples behind the claim that is
  modelled.
* **Pool and transfer hook** (`onchain/`): one atomic instruction each.
* **Supervision** (`production_service.py`): one loop over one counter per
  child.
* **Purchases, warnings and rewards** of the game storage: single transactions.
* **Matches between two players** of the fighting game; pages, uploads and
  administration of the game backend.
* **The wallet page**, the announcer and the moderator: no durable state.
* **User interfaces**: canvas drawing (`playfield.tsx`, `Renderer.ts`), static
  pages, and the component library, which is vendored three times
  (`components/ui`) and is more than half of the repository's TypeScript.

The map therefore covers a small share of the repository's TypeScript, whose
larger part is the vendored library and rendering, and the greater part of the
files that keep state: the modules on Python code are not part of that share.

What could come next: the grid on top of the trader's claim, and the wallet
page.

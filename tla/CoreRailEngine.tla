--------------------------- MODULE CoreRailEngine ---------------------------
(***************************************************************************)
(* The polling and delivery engine of the Solana core rail (engine.py): one *)
(* event loop that polls explicit signatures and watched addresses, puts    *)
(* the events on a bounded queue, lets webhook workers deliver them, and    *)
(* commits per-address cursors and explicit marks to the durable state once *)
(* the queue has drained.                                                   *)
(*                                                                          *)
(* The history of an address is the sequence 1, 2, ..., chain[a] of its     *)
(* signatures, oldest first; 0 stands for Python's None.                    *)
(***************************************************************************)
EXTENDS Integers, Sequences, FiniteSets, SequencesExt

CONSTANTS
    Address,          \* settings.watch_addresses
    NoAddress,        \* the source of an explicitly watched signature
    Explicit,         \* settings.watch_signatures
    Worker,           \* the webhook_max_concurrency delivery workers
    Limit,            \* settings.signature_limit
    MaxPages,         \* MAX_RECOVERY_PAGES
    QueueSize,        \* settings.event_queue_size
    MaxBoundaries,    \* settings.max_recovery_boundaries
    Reverted,         \* <<address, signature>> pairs that carry an "err"
    Lag,              \* how far an RPC node may be behind the chain
    MaxChain,         \* bound: signatures per address
    MaxFaults,        \* bound: failures, crashes and degraded answers
    RpcOutlastsPoll   \* TRUE: an RPC call may outlive the poll interval

ASSUME EngineAssumption ==
    /\ NoAddress \notin Address
    /\ Explicit \subseteq Nat \ {0}
    /\ Limit \in Nat \ {0}
    /\ MaxPages \in Nat \ {0}
    /\ QueueSize \in Nat \ {0}
    /\ MaxBoundaries \in Nat \ {0}
    /\ Lag \in Nat
    /\ MaxChain \in Nat
    /\ MaxFaults \in Nat
    /\ RpcOutlastsPoll \in BOOLEAN

VARIABLES
    chain,        \* external: number of signatures of each address
    cursor,       \* durable: address_cursors
    marked,       \* durable: explicit_signatures
    boundaries,   \* durable: recovery_boundaries, oldest last_detected_at first
    delivered,    \* history: events the webhook accepted
    deadLetters,  \* history: events written to dead_letters
    base,         \* history: the signature an address was primed with
    reported,     \* history: signatures missing under a recorded boundary
    pc,           \* where poll_once stands
    toPut,        \* events poll_once has fetched and not yet queued
    fetched,      \* explicit signatures fetched by this poll
    toMark,       \* explicit signatures the commit loop has left
    toCommit,     \* addresses the commit loop has left
    polls,        \* _address_polls
    batch,        \* _address_batch_signatures
    failures,     \* _delivery_failures
    tasks,        \* the running _poll_address coroutines
    queue,        \* the asyncio.Queue
    busy,         \* the event each worker holds ({} when it waits in get)
    faults        \* bound: faults so far

durable  == <<cursor, marked, boundaries>>
history  == <<delivered, deadLetters, base, reported>>
polling  == <<pc, toPut, fetched, toMark, toCommit>>
shared   == <<polls, batch, failures, tasks>>
delivery == <<queue, busy>>
vars == <<chain, cursor, marked, boundaries, delivered, deadLetters, base,
          reported, pc, toPut, fetched, toMark, toCommit, polls, batch,
          failures, tasks, queue, busy, faults>>

Event == (Address \X Nat) \cup ({NoAddress} \X Explicit)
Phase == {"scan", "txs", "done"}
Task == [addr : Address, live : BOOLEAN, phase : Phase, cur : Nat,
         before : Nat, pages : Nat, safe : BOOLEAN, records : SUBSET Nat,
         found : SUBSET Nat]
Boundary == [address : Address, cursor : Nat]
NoPoll == [cursor |-> 0, canCommit |-> FALSE]

Handled == delivered \cup deadLetters
InFlight == {queue[i] : i \in 1..Len(queue)} \cup UNION {busy[w] : w \in Worker}
Live == {t \in tasks : t.live}
Outlived == {t \in tasks : ~t.live}

\* raw_signatures[0]: pages list the newest record first.
Newest(S) == CHOOSE s \in S : \A r \in S : s >= r

Fault == faults < MaxFaults /\ faults' = faults + 1
FaultWhen(degraded) == IF degraded THEN Fault ELSE UNCHANGED faults

-----------------------------------------------------------------------------
Init ==
    /\ chain = [a \in Address |-> 0]
    /\ cursor = [a \in Address |-> 0]
    /\ marked = {}
    /\ boundaries = <<>>
    /\ delivered = {} /\ deadLetters = {} /\ reported = {}
    /\ base = [a \in Address |-> 0]
    /\ pc = "idle"
    /\ toPut = {} /\ fetched = {} /\ toMark = {} /\ toCommit = {}
    /\ polls = [a \in Address |-> NoPoll]
    /\ batch = [a \in Address |-> {}]
    /\ failures = {} /\ tasks = {}
    /\ queue = <<>>
    /\ busy = [w \in Worker |-> {}]
    /\ faults = 0

\* External: a new signature appears on the chain.
NewSignature(a) ==
    /\ chain[a] < MaxChain
    /\ chain' = [chain EXCEPT ![a] = @ + 1]
    /\ UNCHANGED <<durable, history, polling, shared, delivery, faults>>

\* poll_once starts and fetches the explicit signatures that are not marked;
\* `found` are those get_transaction returned (the others are not visible yet).
\* A failed fetch leaves the loop where it was. _processed_explicit is a cache
\* of explicit_signatures, so the durable marks stand for both.
StartPoll(found) ==
    /\ pc = "idle"
    /\ RpcOutlastsPoll \/ Outlived = {}
    /\ pc' = "putExplicit"
    /\ FaultWhen(found # Explicit \ marked)
    /\ fetched' = found
    /\ toPut' = {NoAddress} \X found
    /\ UNCHANGED <<chain, durable, history, toMark, toCommit, shared, delivery>>

\* await self._queue.put(event): waits while the queue is full.
\* (Mutant: one event too many.)
QueueOverfills == Len(queue) <= QueueSize
QueueHasRoom == Len(queue) < QueueSize

Put(e) ==
    /\ pc \in {"putExplicit", "putAddress"}
    /\ e \in toPut
    /\ QueueHasRoom
    /\ queue' = Append(queue, e)
    /\ toPut' = toPut \ {e}
    /\ UNCHANGED <<chain, durable, history, pc, fetched, toMark, toCommit,
                   shared, busy, faults>>

NewTask(a) ==
    [addr |-> a, live |-> TRUE, phase |-> "scan", cur |-> cursor[a],
     before |-> 0, pages |-> 0, safe |-> TRUE, records |-> {}, found |-> {}]

\* asyncio.gather starts one _poll_address coroutine per address; each reads
\* the durable cursor before its first await.
Gather ==
    /\ pc = "putExplicit" /\ toPut = {}
    /\ pc' = "gather"
    /\ tasks' = tasks \cup {NewTask(a) : a \in Address}
    /\ UNCHANGED <<chain, durable, history, toPut, fetched, toMark, toCommit,
                   polls, batch, failures, delivery, faults>>

-----------------------------------------------------------------------------
(* The pages of getSignaturesForAddress, external: the answering node knows *)
(* the signatures floor+1 .. view. It answers an unknown `before` with      *)
(* nothing, and stops at `until`, the cursor, which it includes when it     *)
(* knows it.                                                                *)
PageLow(t, view, floor) ==
    IF t.cur # 0 /\ floor < t.cur /\ t.cur <= view THEN t.cur ELSE floor + 1
PageHigh(t, view) ==
    IF t.before = 0 THEN view
    ELSE IF t.before > view THEN 0 ELSE t.before - 1
Page(t, view, floor) ==
    {s \in PageLow(t, view, floor)..PageHigh(t, view) :
        s > PageHigh(t, view) - Limit}
ShortPage(t, view, floor) ==
    PageHigh(t, view) - PageLow(t, view, floor) + 1 < Limit

\* _poll_address after _fetch_address_records returned (records, safe): what
\* the coroutine stores in _address_polls and _address_batch_signatures.
Candidates(t, records) ==
    {s \in records : s # t.cur /\ <<t.addr, s>> \notin Reverted}

StoreScan(t, records, safe) ==
    LET a == t.addr
        candidates == Candidates(t, records)
    IN IF records = {}
       THEN /\ polls' = [polls EXCEPT ![a] = [cursor |-> 0, canCommit |-> TRUE]]
            /\ UNCHANGED batch
       ELSE IF t.cur = 0
       THEN /\ polls' = [polls EXCEPT ![a] = [cursor |-> Newest(records),
                                              canCommit |-> safe]]
            /\ UNCHANGED batch
       ELSE /\ polls' = [polls EXCEPT ![a] =
                            [cursor |-> IF candidates = {} THEN 0
                                        ELSE Newest(records),
                             canCommit |-> safe]]
            /\ batch' = [batch EXCEPT ![a] = candidates]

\* The active recovery boundaries, one row per address: a scan that misses the
\* cursor inserts or refreshes its address's row, and the same transaction
\* evicts all but the MaxBoundaries rows that were detected last.
HasBoundary(a) == \E i \in 1..Len(boundaries) : boundaries[i].address = a
RowOf(a) == CHOOSE i \in 1..Len(boundaries) : boundaries[i].address = a
Cleared(a) ==
    IF HasBoundary(a) THEN RemoveAt(boundaries, RowOf(a)) ELSE boundaries
Detected(a, cur) == Append(Cleared(a), [address |-> a, cursor |-> cur])
Retained(rows) == IF Len(rows) > MaxBoundaries THEN Tail(rows) ELSE rows

\* (Mutant: any scan that read something clears the evidence.)
ClearBoundary(t, records, readAny, found, safe) ==
    /\ boundaries' = IF t.cur = 0 \/ ~readAny THEN boundaries
                     ELSE Cleared(t.addr)
    /\ UNCHANGED reported

\* record_recovery_boundary_missing / _found, for a scan that read something.
\* `reported` remembers which signatures a scan that may commit has missed.
RecordBoundary(t, records, readAny, found, safe) ==
    LET a == t.addr IN
    IF t.cur = 0 \/ ~readAny THEN UNCHANGED <<boundaries, reported>>
    ELSE IF found
    THEN boundaries' = Cleared(a) /\ UNCHANGED reported
    ELSE /\ boundaries' = Retained(Detected(a, t.cur))
         /\ reported' = reported \cup
              {<<a, s>> : s \in {r \in 1..chain[a] :
                                   safe /\ r > t.cur /\ r \notin records}}

\* What is left of a coroutine that returned its events: gather keeps them for
\* a live one, nobody waits for an outlived one.
Finished(t, found) ==
    IF t.live
    THEN {[t EXCEPT !.phase = "done", !.records = {}, !.found = found]} ELSE {}

\* One page of _fetch_address_records arrives; the last one also runs the rest
\* of _poll_address up to its next await. `bad` are records without a
\* signature, `view` and `floor` what the answering node knows.
ReadPage(t, view, floor, bad) ==
    LET page    == Page(t, view, floor)
        records == t.records \cup (page \ bad)
        found   == t.cur = 0 \/ t.cur \in page \ bad
        short   == ShortPage(t, view, floor)
        last    == PageHigh(t, view) - Limit + 1
        stuck   == last \in bad
        atLimit == t.pages + 1 = MaxPages
        safe    == t.safe /\ bad = {} /\ (found \/ short \/ stuck \/ ~atLimit)
        next    == [t EXCEPT !.records = records, !.safe = safe,
                             !.pages = t.pages + 1, !.before = last]
        rest    == IF t.cur # 0 /\ Candidates(t, records) # {}
                   THEN {[t EXCEPT !.records = records, !.phase = "txs"]}
                   ELSE Finished(t, {})
    IN /\ t \in tasks /\ t.phase = "scan"
       /\ pc # "commit"
       /\ bad \subseteq page
       /\ FaultWhen(view < chain[t.addr] \/ floor > 0 \/ bad # {})
       /\ IF found \/ short \/ stuck \/ atLimit
          THEN /\ RecordBoundary(t, records, page # {} \/ t.pages > 0, found, safe)
               /\ StoreScan(t, records, safe)
               /\ tasks' = (tasks \ {t}) \cup rest
          ELSE /\ tasks' = (tasks \ {t}) \cup {next}
               /\ UNCHANGED <<boundaries, reported, polls, batch>>
       /\ UNCHANGED <<chain, cursor, marked, delivered, deadLetters, base,
                      polling, failures, delivery>>

\* All get_transaction calls of the batch have answered, `missing` with None.
ReadTransactions(t, missing) ==
    LET found == Candidates(t, t.records) \ missing IN
    /\ t \in tasks /\ t.phase = "txs"
    /\ pc # "commit"
    /\ missing \subseteq Candidates(t, t.records)
    /\ FaultWhen(missing # {})
    /\ polls' = IF missing = {} THEN polls
                ELSE [polls EXCEPT ![t.addr] = NoPoll]
    /\ tasks' = (tasks \ {t}) \cup Finished(t, found)
    /\ UNCHANGED <<chain, durable, history, polling, batch, failures, delivery>>

\* A live coroutine raises: gather re-raises and poll_once ends, but nothing
\* cancels the other coroutines. They run on as outlived tasks, whose events
\* nobody collects. (Bound: one outlived task per address is kept.)
PollFails(t) ==
    /\ pc = "gather"
    /\ t \in Live /\ t.phase # "done"
    /\ Fault
    /\ pc' = "idle"
    /\ fetched' = {}
    /\ tasks' = Outlived \cup
         {[u EXCEPT !.live = FALSE] :
             u \in {v \in Live \ {t} : /\ v.phase # "done"
                                       /\ \A o \in Outlived : o.addr # v.addr}}
    /\ UNCHANGED <<chain, durable, history, toPut, toMark, toCommit, polls,
                   batch, failures, delivery>>

\* An outlived coroutine raises; its exception is never retrieved.
OutlivedFails(t) ==
    /\ pc # "commit"
    /\ t \in Outlived
    /\ Fault
    /\ tasks' = tasks \ {t}
    /\ UNCHANGED <<chain, durable, history, polling, polls, batch, failures,
                   delivery>>

\* gather returns every coroutine's events.
Collect ==
    /\ pc = "gather"
    /\ \A t \in Live : t.phase = "done"
    /\ pc' = "putAddress"
    /\ toPut' = UNION {{t.addr} \X t.found : t \in Live}
    /\ tasks' = Outlived
    /\ UNCHANGED <<chain, durable, history, fetched, toMark, toCommit, polls,
                   batch, failures, delivery, faults>>

\* await self._queue.join(): every queued event has been task_done.
Join ==
    /\ pc = "putAddress" /\ toPut = {}
    /\ InFlight = {}
    /\ pc' = "commit"
    /\ toMark' = fetched
    /\ toCommit' = Address
    /\ UNCHANGED <<chain, durable, history, toPut, fetched, shared, delivery,
                   faults>>

\* (Mutant: the failures of explicit signatures are not looked at.)
AssumedDelivered(s) == TRUE
NotFailed(s) == <<NoAddress, s>> \notin failures

\* The commit loops run without an await; each write is its own transaction.
MarkExplicit(s) ==
    /\ pc = "commit" /\ s \in toMark
    /\ marked' = IF NotFailed(s) THEN marked \cup {s} ELSE marked
    /\ failures' = failures \ {<<NoAddress, s>>}
    /\ toMark' = toMark \ {s}
    /\ UNCHANGED <<chain, cursor, boundaries, history, pc, toPut, fetched,
                   toCommit, polls, batch, tasks, delivery, faults>>

BatchFailed(a) == \E s \in batch[a] : <<a, s>> \in failures

\* (Mutant: a batch with a failed delivery is committed.)
MayCommitDespiteFailure(a) == polls[a].cursor # 0 /\ polls[a].canCommit
MayCommit(a) ==
    polls[a].cursor # 0 /\ polls[a].canCommit /\ ~BatchFailed(a)

CommitCursor(a) ==
    /\ pc = "commit" /\ toMark = {} /\ a \in toCommit
    /\ IF MayCommit(a)
       THEN /\ cursor' = [cursor EXCEPT ![a] = polls[a].cursor]
            /\ base' = IF cursor[a] = 0
                       THEN [base EXCEPT ![a] = polls[a].cursor] ELSE base
       ELSE UNCHANGED <<cursor, base>>
    /\ failures' = failures \ ({a} \X batch[a])
    /\ toCommit' = toCommit \ {a}
    /\ UNCHANGED <<chain, marked, boundaries, delivered, deadLetters, reported, pc,
                   toPut, fetched, toMark, polls, batch, tasks, delivery, faults>>

EndPoll ==
    /\ pc = "commit" /\ toMark = {} /\ toCommit = {}
    /\ pc' = "idle"
    /\ fetched' = {}
    /\ polls' = [a \in Address |-> NoPoll]
    /\ batch' = [a \in Address |-> {}]
    /\ UNCHANGED <<chain, durable, history, toPut, toMark, toCommit, failures,
                   tasks, delivery, faults>>

-----------------------------------------------------------------------------
\* _delivery_worker: queue.get().
Take(w) ==
    /\ busy[w] = {} /\ queue # <<>>
    /\ busy' = [busy EXCEPT ![w] = {Head(queue)}]
    /\ queue' = Tail(queue)
    /\ UNCHANGED <<chain, durable, history, polling, shared, faults>>

\* finally: task_done. (Mutant: it is forgotten, and join waits for ever.)
TaskDoneForgotten(w) == UNCHANGED busy
TaskDone(w) == busy' = [busy EXCEPT ![w] = {}]

\* The webhook answered 200, or the retries ran out and the event went to the
\* dead-letter store; either way task_done.
Deliver(w, dropped) ==
    /\ busy[w] # {}
    /\ FaultWhen(dropped)
    /\ IF dropped
       THEN deadLetters' = deadLetters \cup busy[w] /\ UNCHANGED delivered
       ELSE delivered' = delivered \cup busy[w] /\ UNCHANGED deadLetters
    /\ TaskDone(w)
    /\ UNCHANGED <<chain, durable, base, reported, polling, shared, queue>>

\* deliver or add_dead_letter raised: remembered as a failure, then task_done.
DeliverRaises(w) ==
    /\ busy[w] # {}
    /\ Fault
    /\ failures' = failures \cup busy[w]
    /\ TaskDone(w)
    /\ UNCHANGED <<chain, durable, history, polling, polls, batch, tasks, queue>>

\* The process dies; only the SQLite file survives.
Crash ==
    /\ Fault
    /\ pc' = "idle"
    /\ toPut' = {} /\ fetched' = {} /\ toMark' = {} /\ toCommit' = {}
    /\ polls' = [a \in Address |-> NoPoll]
    /\ batch' = [a \in Address |-> {}]
    /\ failures' = {} /\ tasks' = {}
    /\ queue' = <<>>
    /\ busy' = [w \in Worker |-> {}]
    /\ UNCHANGED <<chain, durable, history>>

TaskStep(t) ==
    \/ \E view \in (chain[t.addr] - Lag)..chain[t.addr] :
         \E floor \in 0..view : \E bad \in SUBSET Page(t, view, floor) :
            ReadPage(t, view, floor, bad)
    \/ \E missing \in SUBSET t.records : ReadTransactions(t, missing)

Next ==
    \/ \E a \in Address : NewSignature(a) \/ CommitCursor(a)
    \/ \E found \in SUBSET (Explicit \ marked) : StartPoll(found)
    \/ \E e \in toPut : Put(e)
    \/ Gather \/ Collect \/ Join \/ EndPoll
    \/ \E t \in tasks : TaskStep(t) \/ PollFails(t) \/ OutlivedFails(t)
    \/ \E s \in toMark : MarkExplicit(s)
    \/ \E w \in Worker :
         Take(w) \/ (\E dropped \in BOOLEAN : Deliver(w, dropped))
                 \/ DeliverRaises(w)
    \/ Crash

Spec == Init /\ [][Next]_vars

\* The event loop runs every ready coroutine, an RPC call answers or raises
\* within its timeout, and so does a webhook delivery. Crashes, failures and
\* degraded answers need no fairness.
Fairness ==
    /\ WF_vars(StartPoll(Explicit \ marked))
    /\ WF_vars(\E e \in toPut : Put(e))
    /\ WF_vars(Gather) /\ WF_vars(Collect) /\ WF_vars(Join) /\ WF_vars(EndPoll)
    /\ WF_vars(\E t \in tasks : TaskStep(t))
    /\ WF_vars(\E s \in toMark : MarkExplicit(s))
    /\ WF_vars(\E a \in Address : CommitCursor(a))
    /\ WF_vars(\E w \in Worker : Take(w))
    /\ \A w \in Worker : WF_vars(Deliver(w, FALSE))

FairSpec == Spec /\ Fairness

-----------------------------------------------------------------------------
TypeOK ==
    /\ chain \in [Address -> Nat]
    /\ cursor \in [Address -> Nat]
    /\ marked \subseteq Explicit
    /\ boundaries \in Seq(Boundary)
    /\ Len(boundaries) <= MaxBoundaries
    /\ delivered \subseteq Event
    /\ deadLetters \subseteq Event
    /\ base \in [Address -> Nat]
    /\ reported \subseteq Address \X Nat
    /\ pc \in {"idle", "putExplicit", "gather", "putAddress", "commit"}
    /\ toPut \subseteq Event
    /\ fetched \subseteq Explicit
    /\ toMark \subseteq Explicit
    /\ toCommit \subseteq Address
    /\ polls \in [Address -> [cursor : Nat, canCommit : BOOLEAN]]
    /\ batch \in [Address -> SUBSET Nat]
    /\ failures \subseteq Event
    /\ tasks \subseteq Task
    /\ queue \in Seq(Event)
    /\ Len(queue) <= QueueSize
    /\ busy \in [Worker -> SUBSET Event]
    /\ faults \in 0..MaxFaults

\* "Cursor writes happen only after the queue is drained. A process crash
\* before this point re-reads the same events instead of advancing past an
\* event that was never delivered" (engine.py:148-150): a signature behind the
\* durable cursor was delivered or dead-lettered, unless it is older than the
\* priming of the address, failed on chain, or lies in a gap for which a
\* recovery boundary was recorded.
Accounted(a, s) ==
    \/ s <= base[a]
    \/ <<a, s>> \in Handled
    \/ <<a, s>> \in Reverted
    \/ <<a, s>> \in reported

NoSilentSkip ==
    \A a \in Address : \A s \in 1..cursor[a] : Accounted(a, s)

\* An explicit signature is marked as processed, and never fetched again, only
\* after its event was delivered or dead-lettered, whatever failed or crashed
\* on the way.
ExplicitMarkIsHandled ==
    \A s \in marked : <<NoAddress, s>> \in Handled

\* A durable cursor moves backwards (an RPC node behind the cursor answered
\* the poll) only while the active recovery boundaries name that cursor, so the
\* dashboard shows why events are delivered again, or when other addresses'
\* later detections have filled the bounded table and evicted its row.
Named(a) ==
    \E i \in 1..Len(boundaries) :
        boundaries[i] = [address |-> a, cursor |-> cursor[a]]
Displaced(a) == Len(boundaries) = MaxBoundaries /\ ~HasBoundary(a)

RegressOnlyWithEvidence ==
    [][\A a \in Address : cursor'[a] < cursor[a] => Named(a) \/ Displaced(a)]_vars

\* "Read pages newer than the durable cursor, including large gaps"
\* (engine.py:254), up to MAX_RECOVERY_PAGES pages: a signature that appears on
\* a primed address is in the end delivered or dead-lettered, unless it
\* reverted, predates the priming, was reported as pruned, or the backlog
\* behind it has outgrown one scan, which then never is safe to commit.
BeyondOneScan(a, s) == chain[a] - s >= Limit * MaxPages

EventuallyAccounted ==
    \A a \in Address : \A s \in 1..MaxChain :
        (base[a] # 0 /\ s <= chain[a])
            ~> (Accounted(a, s) \/ BeyondOneScan(a, s))
=============================================================================

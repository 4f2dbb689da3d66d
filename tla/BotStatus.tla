------------------------------ MODULE BotStatus ------------------------------
(***************************************************************************)
(* What the status pages say of a trading loop. The loop of the live runner  *)
(* or of the paper bot works in passes, waits between them, backs off after  *)
(* a failure, and notes in its state file when it last got through; the      *)
(* routes /live/status and /paper/status judge from that file, and the first *)
(* from the API server's ENABLE_LIVE_TRADING too, whether the loop is well.  *)
(* The two programs share nothing but the file.                              *)
(***************************************************************************)
EXTENDS Naturals

CONSTANTS
    PollInterval,   \* *_POLL_INTERVAL_SECONDS, the same in both programs
    LeastStale,     \* the 60 seconds below which nothing is stale
    RetryBase, RetryMost,   \* *_RETRY_BASE_SECONDS, *_RETRY_MAX_SECONDS
    MaxPass,        \* bound on the length of a pass
    MaxClock        \* bound on the clock

ASSUME IntervalAssumption == PollInterval \in Nat \ {0} /\ LeastStale \in Nat
ASSUME RetryAssumption ==
    /\ RetryBase \in Nat \ {0} /\ RetryMost \in Nat /\ RetryBase <= RetryMost
ASSUME ClockAssumption == MaxPass \in Nat \ {0} /\ MaxClock \in Nat \ {0}

Symbol == {"XRP", "BTC"}

VARIABLES
    loop,       \* which loop it is: "live" or "paper"
    switch,     \* whether the API server has ENABLE_LIVE_TRADING
    clock,      \* the time, in steps of a third of the default interval
    doing,      \* "off", "wait" or "pass"
    since,      \* when the pass, the wait or the standstill began
    wake,       \* when the wait ends
    retry,      \* retry_delay
    file,       \* what the state file holds; 0 stands for a time never noted
    streak,     \* whether this process's last pass ended well
    failing     \* whether the last noted pass failed

statusVars ==
    <<loop, switch, clock, doing, since, wake, retry, file, streak, failing>>

Blank == [live |-> FALSE, heartbeat |-> 0, ok |-> 0, err |-> 0,
          quote |-> [s \in Symbol |-> 0]]

StatusInit ==
    /\ loop \in {"live", "paper"} /\ switch \in BOOLEAN
    /\ clock = 1 /\ doing = "off" /\ since = 1 /\ wake = 1
    /\ retry = RetryBase /\ file = Blank
    /\ streak = FALSE /\ failing = FALSE

Least(a, b) == IF a < b THEN a ELSE b
Most(a, b) == IF a > b THEN a ELSE b

(***************************************************************************)
(* The loops.                                                               *)
(***************************************************************************)
LoopStarts ==
    /\ doing = "off"
    /\ doing' = "wait" /\ since' = clock /\ wake' = clock /\ retry' = RetryBase
    /\ UNCHANGED <<loop, switch, clock, file, streak, failing>>

\* The live runner notes its heartbeat before it polls.
PassBegins ==
    /\ doing = "wait" /\ clock >= wake
    /\ doing' = "pass" /\ since' = clock
    /\ file' = IF loop = "live" THEN [file EXCEPT !.heartbeat = clock] ELSE file
    /\ UNCHANGED <<loop, switch, clock, wake, retry, streak, failing>>

\* record_strategy_status; the runner refuses to start without live execution.
\* A pass that a pending claim blocks ends before it, and ends well.
LiveIsRecorded ==
    /\ doing = "pass" /\ loop = "live" /\ ~file.live
    /\ file' = [file EXCEPT !.live = TRUE]
    /\ UNCHANGED <<loop, switch, clock, doing, since, wake, retry, streak, failing>>

\* record_price, with the time at which the pass began; XRP before BTC.
PriceIsRecorded(s) ==
    /\ doing = "pass" /\ loop = "paper"
    /\ file.quote[s] < since
    /\ s = "BTC" => file.quote["XRP"] = since
    /\ file' = [file EXCEPT !.quote[s] = since]
    /\ UNCHANGED <<loop, switch, clock, doing, since, wake, retry, streak, failing>>

\* record_poll_success and record_loop_success
Noted ==
    IF loop = "live"
    THEN [file EXCEPT !.heartbeat = clock, !.ok = clock, !.err = 0]
    ELSE [file EXCEPT !.ok = since, !.err = 0]

PassSucceeds ==
    /\ doing = "pass" /\ clock > since
    /\ loop = "paper" => \A s \in Symbol : file.quote[s] = since
    /\ file' = Noted
    /\ doing' = "wait" /\ wake' = Most(clock, since + PollInterval)
    /\ retry' = RetryBase
    /\ streak' = TRUE /\ failing' = FALSE
    /\ UNCHANGED <<loop, switch, clock, since>>

\* record_poll_error and record_loop_error.
Blamed ==
    [file EXCEPT !.err = clock, !.heartbeat = IF loop = "live" THEN clock ELSE @]

\* The delay doubles up to its limit.
BacksOff ==
    /\ doing' = "wait" /\ wake' = clock + retry
    /\ retry' = Least(RetryMost, Most(RetryBase, retry * 2))

PassFails ==
    /\ doing = "pass" /\ clock > since
    /\ file' = Blamed
    /\ BacksOff
    /\ streak' = FALSE /\ failing' = TRUE
    /\ UNCHANGED <<loop, switch, clock, since>>

\* The pass failed, and the state file refuses the note of it.
NoteFails ==
    /\ doing = "pass" /\ clock > since
    /\ BacksOff
    /\ streak' = FALSE
    /\ UNCHANGED <<loop, switch, clock, since, file, failing>>

LoopDies ==
    /\ doing # "off"
    /\ doing' = "off" /\ since' = clock /\ streak' = FALSE
    /\ UNCHANGED <<loop, switch, clock, wake, retry, file, failing>>

\* A wait ends on time, and a pass is over after MaxPass.
ClockTicks ==
    /\ clock < MaxClock
    /\ doing = "wait" => clock < wake
    /\ doing = "pass" => clock < since + MaxPass
    /\ clock' = clock + 1
    /\ UNCHANGED <<loop, switch, doing, since, wake, retry, file, streak, failing>>

StatusNext ==
    \/ LoopStarts \/ PassBegins
    \/ LiveIsRecorded \/ (\E s \in Symbol : PriceIsRecorded(s))
    \/ PassSucceeds \/ PassFails \/ NoteFails \/ LoopDies \/ ClockTicks

(***************************************************************************)
(* The routes.                                                              *)
(***************************************************************************)
StaleAfter == Most(PollInterval * 2, LeastStale)

Recent(t) == t > 0 /\ clock <= t + StaleAfter

Enabled == file.live \/ switch

\* (Mutant: an error outlives the process that noted it.)
LiveStatusOnce ==
    IF ~Enabled THEN "disabled"
    ELSE IF file.err > file.ok THEN "retrying"
    ELSE IF file.ok = 0
         THEN IF Recent(file.heartbeat) THEN "retrying" ELSE "not_started"
    ELSE IF Recent(file.ok) THEN "healthy" ELSE "stale"
LiveStatus ==
    IF ~Enabled THEN "disabled"
    ELSE IF file.err > file.ok
         THEN IF Recent(file.heartbeat) THEN "retrying" ELSE "stale"
    ELSE IF file.ok = 0
         THEN IF Recent(file.heartbeat) THEN "retrying" ELSE "not_started"
    ELSE IF Recent(file.ok) THEN "healthy" ELSE "stale"

\* The number of price samples is left out: "healthy" covers "warming_up".
PaperStatus ==
    IF \A s \in Symbol : file.quote[s] = 0 THEN "not_started"
    ELSE IF file.err > file.ok THEN "degraded"
    ELSE IF \E s \in Symbol : ~Recent(file.quote[s]) THEN "stale"
    ELSE "healthy"

Status == IF loop = "live" THEN LiveStatus ELSE PaperStatus
Polling == loop = "live" /\ Enabled /\ Recent(file.heartbeat)

StatusSpec == StatusInit /\ [][StatusNext]_statusVars

-------------------------------------------------------------------------------
\* The variables keep their types.
StatusTypeOK ==
    /\ loop \in {"live", "paper"} /\ switch \in BOOLEAN
    /\ clock \in 1..MaxClock
    /\ doing \in {"off", "wait", "pass"}
    /\ since \in 1..MaxClock
    /\ wake \in 1..MaxClock + Most(PollInterval, RetryMost)
    /\ retry \in RetryBase..RetryMost
    /\ file \in [live : BOOLEAN, heartbeat : 0..MaxClock, ok : 0..MaxClock,
                 err : 0..MaxClock, quote : [Symbol -> 0..MaxClock]]
    /\ streak \in BOOLEAN /\ failing \in BOOLEAN

\* A loop whose last pass ended well is shown as healthy all through its wait
\* and its next pass, as long as no pass takes longer than the interval
\* (statusFor, staleAfterSeconds). The live page has to know that the loop
\* trades at all: from the API server's own switch, or from a pass that got far
\* enough to record it; until then it says "disabled".
IsKnown == loop = "live" => Enabled
WellIsShown ==
    (streak /\ IsKnown /\ MaxPass <= PollInterval) => Status = "healthy"

\* A loop that has stood still for longer than the window is no longer shown
\* as at work, whatever it noted last.
DeadIsNoticed ==
    (doing = "off" /\ clock > since + StaleAfter)
    => Status \notin {"healthy", "retrying"} /\ ~Polling

\* From the note of a failed pass to the next pass that ends well the loop is
\* not shown as healthy, also by a process that was started in between.
FailureIsShown == failing => Status # "healthy"

\* The status page tells a loop that is well from one that fails or stands
\* still, through waits, crashes and restarts.
StatusIsTrue == WellIsShown /\ DeadIsNoticed /\ FailureIsShown
===============================================================================

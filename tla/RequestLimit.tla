---------------------------- MODULE RequestLimit ----------------------------
(***************************************************************************)
(* The request limits of the API server. Every request under /api is counted *)
(* by client, and a feedback submission is counted once more by its own,     *)
(* smaller limit, both in counters that all instances of the server keep in  *)
(* one PostgreSQL table. A counter belongs to a window that begins with its  *)
(* first request and ends by the clock of the database. The store may be out *)
(* of reach; then the policy decides for the API limit, and the feedback     *)
(* limit refuses.                                                           *)
(***************************************************************************)
EXTENDS Naturals

CONSTANTS
    Client,         \* the clients, as ipKeyGenerator tells them apart
    Request,        \* requests that may be under way at one time
    NoClient,
    ApiLimit,       \* API_RATE_LIMIT_MAX
    FeedbackLimit,  \* FEEDBACK_LIMIT
    Window,         \* the length of both windows
    FailOpen,       \* API_RATE_LIMIT_STORE_FAILURE_POLICY is fail-open
    MaxTime         \* bound on the clock

ASSUME LimitAssumption ==
    /\ ApiLimit \in Nat \ {0} /\ FeedbackLimit \in Nat \ {0}
    /\ Window \in Nat \ {0} /\ MaxTime \in Nat
    /\ FailOpen \in BOOLEAN /\ NoClient \notin Client

Limiter == {"api", "feedback"}
Cap == [l \in Limiter |-> IF l = "api" THEN ApiLimit ELSE FeedbackLimit]

VARIABLES
    time,       \* clock_timestamp()
    counter,    \* the table, by key: hits and reset_at
    call,       \* the requests under way: client, kind, step, answer and the
                \* limit that counted it last
    storeUp,    \* whether the database answers the store
    passed,     \* requests counted and let through, by limiter and client,
    window      \* ... in the window with this end

limitVars == <<time, counter, call, storeUp, passed, window>>

Kind == {"read", "feedback", "malformed", "health"}
Idle == [client |-> NoClient, kind |-> "read", step |-> "idle", answer |-> 0,
         counted |-> "none"]

\* prefix + key. (Mutant: both limiters use one prefix.)
SameKey(l, c) == <<"api", c>>
Key(l, c) == <<l, c>>

LimitInit ==
    /\ time = 0
    /\ counter = [k \in Limiter \X Client |-> [hits |-> 0, reset |-> 0]]
    /\ call = [r \in Request |-> Idle]
    /\ storeUp = TRUE
    /\ passed = [k \in Limiter \X Client |-> 0]
    /\ window = [k \in Limiter \X Client |-> 0]

(***************************************************************************)
(* express.json comes before the limiter and refuses a malformed body; the   *)
(* health pages are skipped by the API limit.                                *)
(***************************************************************************)
Arrive(r, c, kind) ==
    /\ call[r].step = "idle"
    /\ call' = [call EXCEPT ![r] =
           [client |-> c, kind |-> kind,
            step |-> IF kind \in {"malformed", "health"} THEN "route" ELSE "api",
            answer |-> IF kind = "malformed" THEN 400 ELSE 0,
            counted |-> "none"]]
    /\ UNCHANGED <<time, counter, storeUp, passed, window>>

\* Hits past the first refused one are not told apart.
Raised(l, hits) == IF hits > Cap[l] THEN hits ELSE hits + 1

\* The upsert of increment: a counter whose window has ended begins anew.
\* (Mutant: every hit postpones the end of the window.)
HitSlides(l, k) ==
    [hits |-> IF counter[k].reset <= time THEN 1 ELSE Raised(l, counter[k].hits),
     reset |-> time + Window]
Hit(l, k) ==
    IF counter[k].reset <= time
    THEN [hits |-> 1, reset |-> time + Window]
    ELSE [counter[k] EXCEPT !.hits = Raised(l, @)]

\* (Mutant: the limit is the last count that is refused.)
WithinOneMore(l, hits) == hits <= Cap[l] + 1
Within(l, hits) == hits <= Cap[l]

After(l, r) ==
    IF l = "api" /\ call[r].kind = "feedback" THEN "feedback" ELSE "route"

\* A request over the limit is answered 429, and counted all the same.
Count(r, l) ==
    /\ call[r].step = l /\ call[r].answer = 0
    /\ storeUp
    /\ LET c == call[r].client
           h == Hit(l, Key(l, c))
           ok == Within(l, h.hits)
           before == IF window[<<l, c>>] = h.reset THEN passed[<<l, c>>] ELSE 0
       IN
       /\ counter' = [counter EXCEPT ![Key(l, c)] = h]
       /\ call' = [call EXCEPT ![r] =
              IF ok THEN [@ EXCEPT !.step = After(l, r), !.counted = l]
              ELSE [@ EXCEPT !.answer = 429]]
       /\ window' = [window EXCEPT ![<<l, c>>] = h.reset]
       /\ passed' = [passed EXCEPT ![<<l, c>>] = IF ok THEN before + 1 ELSE before]
    /\ UNCHANGED <<time, storeUp>>

\* passOnStoreError is set for the API limit only.
PassesUncounted(l) == l = "api" /\ FailOpen

StoreFails(r, l) ==
    /\ call[r].step = l /\ call[r].answer = 0
    /\ ~storeUp
    /\ call' = [call EXCEPT ![r] =
           IF PassesUncounted(l) THEN [@ EXCEPT !.step = After(l, r)]
           ELSE [@ EXCEPT !.answer = 500]]
    /\ UNCHANGED <<time, counter, storeUp, passed, window>>

(***************************************************************************)
(* The handlers. A page or a health probe is answered; a submission is       *)
(* checked, stored and only then accepted.                                   *)
(***************************************************************************)
Respond(r, status) ==
    /\ call' = [call EXCEPT ![r].answer = status]
    /\ UNCHANGED <<time, counter, storeUp, passed, window>>

Serve(r) ==
    /\ call[r].step = "route" /\ call[r].answer = 0
    /\ call[r].kind # "feedback"
    /\ Respond(r, 200)

Reject(r) ==
    /\ call[r].step = "route" /\ call[r].answer = 0
    /\ call[r].kind = "feedback"
    /\ Respond(r, 400)

Store(r) ==
    /\ call[r].step = "route" /\ call[r].answer = 0
    /\ call[r].kind = "feedback"
    /\ Respond(r, IF storeUp THEN 202 ELSE 503)

Answered(r) ==
    /\ call[r].answer # 0
    /\ call' = [call EXCEPT ![r] = Idle]
    /\ UNCHANGED <<time, counter, storeUp, passed, window>>

StoreTurns ==
    /\ storeUp' = ~storeUp
    /\ UNCHANGED <<time, counter, call, passed, window>>

TimePasses ==
    /\ time < MaxTime
    /\ time' = time + 1
    /\ UNCHANGED <<counter, call, storeUp, passed, window>>

LimitNext ==
    \/ \E r \in Request :
          \/ \E c \in Client, kind \in Kind : Arrive(r, c, kind)
          \/ \E l \in Limiter : Count(r, l) \/ StoreFails(r, l)
          \/ Serve(r) \/ Reject(r) \/ Store(r) \/ Answered(r)
    \/ StoreTurns \/ TimePasses

LimitSpec == LimitInit /\ [][LimitNext]_limitVars

-----------------------------------------------------------------------------
\* The variables keep their types.
LimitTypeOK ==
    /\ time \in 0..MaxTime
    /\ \A k \in Limiter \X Client :
          /\ counter[k].hits \in 0..Cap[k[1]] + 1
          /\ counter[k].reset \in 0..MaxTime + Window
          /\ passed[k] \in Nat /\ window[k] \in 0..MaxTime + Window
    /\ \A r \in Request :
          /\ call[r].client \in Client \cup {NoClient} /\ call[r].kind \in Kind
          /\ call[r].step \in {"idle", "route"} \cup Limiter
          /\ call[r].answer \in {0, 200, 202, 400, 429, 500, 503}
          /\ call[r].counted \in Limiter \cup {"none"}
    /\ storeUp \in BOOLEAN

\* In no window does a limit let more than its number of requests of one
\* client through, whichever instances of the server count them.
LimitHolds == \A k \in Limiter \X Client : passed[k] <= Cap[k[1]]

\* A client is refused only when its own requests have used the limit up in
\* the window that still runs: other clients, the other limit and windows that
\* are over do not count.
RefusedAtTheLimit ==
    [][\A r \in Request : (call'[r].answer = 429 /\ call[r].answer # 429) =>
          LET k == <<call[r].step, call[r].client>> IN
          passed[k] = Cap[k[1]] /\ window[k] > time]_limitVars

\* What is stored was counted by the feedback limit, also when the counters
\* were out of reach for a while and the API limit let requests pass.
RowsAreCounted ==
    [][\A r \in Request : (call'[r].answer = 202 /\ call[r].answer # 202) =>
          call[r].counted = "feedback"]_limitVars
=============================================================================

------------------------- MODULE SideServicesProofs -------------------------
(***************************************************************************)
(* Proofs about the services beside the trading core, which share nothing:   *)
(* the request limits, the status pages and the devnet rehearsal. They hold   *)
(* for any clients, limits, windows, policies, intervals, delays and numbers *)
(* of interruptions.                                                        *)
(***************************************************************************)
EXTENDS BotStatus, DevnetRehearsal, RequestLimit, SequenceTheorems, TLAPS

(***************************************************************************)
(* The request limits.                                                      *)
(***************************************************************************)
Keys == Limiter \X Client

CounterOK ==
    counter \in [Keys -> [hits : Nat, reset : Nat]]

Entry ==
    [client : Client \cup {NoClient}, kind : Kind,
     step : {"idle", "route"} \cup Limiter,
     answer : {0, 200, 202, 400, 429, 500, 503},
     counted : Limiter \cup {"none"}]

CallOK == call \in [Request -> Entry]

\* A counted request has a client.
CallerKnown == \A r \in Request : call[r].step # "idle" => call[r].client \in Client

\* What a counter holds is what its limit has let through in its window: all of
\* its hits up to the cap.
Tallied(k) ==
    /\ counter[k].hits <= Cap[k[1]] + 1
    /\ window[k] = counter[k].reset
    /\ passed[k] = IF counter[k].hits > Cap[k[1]] THEN Cap[k[1]]
                   ELSE counter[k].hits

\* A window ends at most Window from now.
Bounded == time \in 0..MaxTime /\ \A k \in Keys : counter[k].reset <= MaxTime + Window

\* A submission that reaches its handler was counted by the feedback limit.
Counted ==
    \A r \in Request :
        (call[r].step = "route" /\ call[r].kind = "feedback" /\ call[r].answer = 0)
        => call[r].counted = "feedback"

LimitInv ==
    /\ time \in Nat /\ storeUp \in BOOLEAN
    /\ passed \in [Keys -> Nat] /\ window \in [Keys -> Nat]
    /\ CounterOK /\ CallOK /\ CallerKnown /\ Bounded /\ Counted
    /\ \A k \in Keys : Tallied(k)

\* Every limit lets something through.
LEMMA CapFact == \A l \in Limiter : Cap[l] \in Nat \ {0}
  BY LimitAssumption DEF Cap, Limiter

\* Nothing is counted at the start.
LEMMA LimitInvInit == LimitInit => LimitInv
<1> SUFFICES ASSUME LimitInit PROVE LimitInv
  OBVIOUS
<1> USE LimitAssumption, CapFact DEF LimitInit, Keys
<1>1. CounterOK /\ Bounded
  BY DEF CounterOK, Bounded
<1>2. CallOK /\ CallerKnown /\ Counted
  BY DEF CallOK, CallerKnown, Counted, Entry, Idle, Kind, Limiter
<1>3. \A k \in Keys : k[1] \in Limiter
  OBVIOUS
<1>4. \A k \in Keys : Tallied(k)
  BY <1>3 DEF Tallied
<1> QED
  BY <1>1, <1>2, <1>4 DEF LimitInv

\* What one hit does to the counter of a key.
LEMMA HitFact ==
    ASSUME LimitInv, NEW l \in Limiter, NEW c \in Client,
           NEW h, h = Hit(l, <<l, c>>)
    PROVE  /\ h \in [hits : Nat, reset : Nat]
           /\ h.reset <= MaxTime + Window
           /\ h.hits <= Cap[l] + 1
           /\ counter[<<l, c>>].reset <= time =>
                 h.hits = 1 /\ h.reset = time + Window /\ h.reset # window[<<l, c>>]
           /\ counter[<<l, c>>].reset > time =>
                 /\ h.reset = window[<<l, c>>]
                 /\ h.hits = IF counter[<<l, c>>].hits > Cap[l]
                             THEN counter[<<l, c>>].hits
                             ELSE counter[<<l, c>>].hits + 1
<1> DEFINE k == <<l, c>>
<1>1. k \in Keys /\ k[1] = l /\ Cap[l] \in Nat \ {0}
  BY CapFact DEF Keys
<1>2. /\ counter[k] \in [hits : Nat, reset : Nat] /\ Tallied(k)
      /\ time \in Nat /\ time <= MaxTime /\ counter[k].reset <= MaxTime + Window
  BY <1>1 DEF LimitInv, CounterOK, Bounded
<1>3. CASE counter[k].reset <= time
  BY <1>1, <1>2, <1>3, LimitAssumption DEF Hit, Tallied
<1>4. CASE ~(counter[k].reset <= time)
  BY <1>1, <1>2, <1>4, LimitAssumption DEF Hit, Raised, Tallied
<1> QED
  BY <1>3, <1>4

-----------------------------------------------------------------------------
\* The steps that leave the counters alone.
LEMMA CallStep ==
    ASSUME LimitInv, NEW r \in Request,
           call' \in [Request -> Entry],
           \A q \in Request \ {r} : call'[q] = call[q],
           UNCHANGED <<time, counter, passed, window>>,
           storeUp' \in BOOLEAN,
           call'[r].step # "idle" => call'[r].client \in Client,
           (call'[r].step = "route" /\ call'[r].kind = "feedback" /\ call'[r].answer = 0)
              => call'[r].counted = "feedback"
    PROVE  LimitInv'
<1>1. CallOK' /\ CallerKnown' /\ Counted'
  BY DEF LimitInv, CallOK, CallerKnown, Counted
<1>2. CounterOK' /\ Bounded' /\ \A k \in Keys : Tallied(k)'
  BY DEF LimitInv, CounterOK, Bounded, Tallied
<1> QED
  BY <1>1, <1>2 DEF LimitInv

\* An entry with another value in one of its fields.
Stepped(e, s) == [e EXCEPT !.step = s]
Marked(e, l) == [e EXCEPT !.counted = l]
Replied(e, a) == [e EXCEPT !.answer = a]

\* A request that goes on to its next handler.
LEMMA SteppedFact ==
    ASSUME NEW e \in Entry, NEW s \in {"idle", "route"} \cup Limiter
    PROVE  /\ Stepped(e, s) \in Entry
           /\ Stepped(e, s).client = e.client /\ Stepped(e, s).kind = e.kind
           /\ Stepped(e, s).step = s /\ Stepped(e, s).answer = e.answer
  BY DEF Entry, Stepped

\* A request that was counted.
LEMMA MarkedFact ==
    ASSUME NEW e \in Entry, NEW l \in Limiter
    PROVE  /\ Marked(e, l) \in Entry
           /\ Marked(e, l).client = e.client /\ Marked(e, l).kind = e.kind
           /\ Marked(e, l).step = e.step /\ Marked(e, l).counted = l
           /\ Marked(e, l).answer = e.answer
  BY DEF Entry, Marked

\* A request that was answered.
LEMMA RepliedFact ==
    ASSUME NEW e \in Entry, NEW a \in {0, 200, 202, 400, 429, 500, 503}
    PROVE  /\ Replied(e, a) \in Entry
           /\ Replied(e, a).client = e.client /\ Replied(e, a).answer = a
  BY DEF Entry, Replied

\* The upsert of the store, and the decision on its result.
LEMMA CountStep ==
    ASSUME LimitInv, NEW r \in Request, NEW l \in Limiter, Count(r, l)
    PROVE  LimitInv'
<1>0. PICK c \in Client : c = call[r].client
  BY DEF Count, LimitInv, CallerKnown, Limiter
<1> DEFINE k == <<l, c>>
           h == Hit(l, k)
           ok == Within(l, h.hits)
           before == IF window[k] = h.reset THEN passed[k] ELSE 0
           new == IF ok THEN Marked(Stepped(call[r], After(l, r)), l)
                  ELSE Replied(call[r], 429)
<1>1. /\ call[r].step = l /\ call[r].answer = 0
      /\ counter' = [counter EXCEPT ![k] = h]
      /\ call' = [call EXCEPT ![r] = new]
      /\ window' = [window EXCEPT ![k] = h.reset]
      /\ passed' = [passed EXCEPT ![k] = IF ok THEN before + 1 ELSE before]
      /\ UNCHANGED <<time, storeUp>>
  BY <1>0 DEF Count, Key, Marked, Stepped, Replied
<1>2. k \in Keys /\ k[1] = l /\ Cap[l] \in Nat \ {0}
  BY CapFact DEF Keys
<1>3. /\ h \in [hits : Nat, reset : Nat] /\ h.reset <= MaxTime + Window
      /\ h.hits <= Cap[l] + 1
      /\ counter[k].reset <= time =>
            h.hits = 1 /\ h.reset = time + Window /\ h.reset # window[k]
      /\ counter[k].reset > time =>
            /\ h.reset = window[k]
            /\ h.hits = IF counter[k].hits > Cap[l] THEN counter[k].hits
                        ELSE counter[k].hits + 1
  BY <1>2, HitFact
<1>4. /\ counter \in [Keys -> [hits : Nat, reset : Nat]] /\ Tallied(k)
      /\ passed \in [Keys -> Nat] /\ window \in [Keys -> Nat] /\ time \in Nat
  BY <1>2 DEF LimitInv, CounterOK
<1>5. /\ ok <=> h.hits <= Cap[l]
      /\ before = IF window[k] = h.reset THEN passed[k] ELSE 0
      /\ before \in Nat
  BY <1>2, <1>4 DEF Within
<1> HIDE DEF h, ok, before
<1>6. CounterOK' /\ Bounded' /\ passed' \in [Keys -> Nat] /\ window' \in [Keys -> Nat]
  BY <1>1, <1>2, <1>3, <1>4, <1>5 DEF LimitInv, CounterOK, Bounded
<1>7. Tallied(k)'
  <2>1. /\ counter'[k] = h /\ window'[k] = h.reset
        /\ passed'[k] = IF ok THEN before + 1 ELSE before
    BY <1>1, <1>2, <1>4
  <2>2. /\ counter[k].hits \in Nat /\ counter[k].reset \in Nat /\ h.hits \in Nat
        /\ passed[k] = IF counter[k].hits > Cap[l] THEN Cap[l] ELSE counter[k].hits
        /\ counter[k].hits <= Cap[l] + 1
    BY <1>2, <1>3, <1>4 DEF Tallied
  <2>3. passed'[k] = IF h.hits > Cap[l] THEN Cap[l] ELSE h.hits
    <3>1. CASE counter[k].reset <= time
      BY <1>2, <1>3, <1>5, <2>1, <2>2, <3>1
    <3>2. CASE counter[k].reset > time
      BY <1>2, <1>3, <1>5, <2>1, <2>2, <3>2
    <3> QED
      BY <1>4, <2>2, <3>1, <3>2
  <2> QED
    BY <1>2, <1>3, <2>1, <2>3 DEF Tallied
<1>8. \A j \in Keys : Tallied(j)'
  <2> SUFFICES ASSUME NEW j \in Keys, j # k PROVE Tallied(j)'
    BY <1>7
  <2>1. counter'[j] = counter[j] /\ window'[j] = window[j] /\ passed'[j] = passed[j]
    BY <1>1, <1>4
  <2> QED
    BY <2>1 DEF LimitInv, Tallied
<1>9. /\ new \in Entry /\ new.client = c
      /\ (new.step = "route" /\ new.kind = "feedback" /\ new.answer = 0)
            => new.counted = "feedback"
  <2>1. call[r] \in Entry /\ call[r].step = l
    BY <1>1 DEF LimitInv, CallOK
  <2>2. /\ After(l, r) \in {"idle", "route"} \cup Limiter
        /\ After(l, r) = "route" => l = "feedback" \/ call[r].kind # "feedback"
    BY DEF After, Limiter
  <2>3. CASE ok
    <3> DEFINE moved == Stepped(call[r], After(l, r))
    <3>1. /\ moved \in Entry /\ moved.client = c /\ moved.kind = call[r].kind
          /\ moved.step = After(l, r)
      BY <1>0, <2>1, <2>2, SteppedFact
    <3> HIDE DEF moved
    <3>2. LET n == Marked(moved, l) IN
          /\ n \in Entry /\ n.client = c /\ n.kind = call[r].kind
          /\ n.step = After(l, r) /\ n.counted = l
      BY <3>1, MarkedFact
    <3>3. new = Marked(moved, l)
      BY <2>3 DEF moved
    <3> HIDE DEF new
    <3> QED
      BY <2>2, <3>2, <3>3 DEF Limiter
  <2>4. CASE ~ok
    BY <1>0, <2>1, <2>4, RepliedFact
  <2> QED
    BY <2>3, <2>4
<1> HIDE DEF new
<1>10. CallOK' /\ CallerKnown' /\ Counted'
  BY <1>1, <1>2, <1>9 DEF LimitInv, CallOK, CallerKnown, Counted
<1> QED
  BY <1>1, <1>6, <1>8, <1>10 DEF LimitInv

\* Every step keeps the invariant.
LEMMA LimitInvStep == LimitInv /\ [LimitNext]_limitVars => LimitInv'
<1> SUFFICES ASSUME LimitInv, [LimitNext]_limitVars PROVE LimitInv'
  OBVIOUS
<1>0. call \in [Request -> Entry] /\ storeUp \in BOOLEAN
  BY DEF LimitInv, CallOK
<1>1. ASSUME NEW r \in Request, NEW c \in Client, NEW kind \in Kind, Arrive(r, c, kind)
      PROVE  LimitInv'
  <2> DEFINE new == [client |-> c, kind |-> kind,
            step |-> IF kind \in {"malformed", "health"} THEN "route" ELSE "api",
            answer |-> IF kind = "malformed" THEN 400 ELSE 0,
            counted |-> "none"]
  <2>1. /\ call' = [call EXCEPT ![r] = new]
        /\ UNCHANGED <<time, counter, passed, window>> /\ storeUp' \in BOOLEAN
    BY <1>0, <1>1 DEF Arrive
  <2>2. new \in Entry /\ new.client \in Client
    BY DEF Entry, Limiter, Kind
  <2>3. ~(new.step = "route" /\ new.kind = "feedback" /\ new.answer = 0)
    OBVIOUS
  <2> HIDE DEF new
  <2> QED
    BY <1>0, <2>1, <2>2, <2>3, CallStep
<1>2. ASSUME NEW r \in Request, NEW l \in Limiter, Count(r, l) PROVE LimitInv'
  BY <1>2, CountStep
<1>3. ASSUME NEW r \in Request, NEW l \in Limiter, StoreFails(r, l) PROVE LimitInv'
  <2> DEFINE new == IF PassesUncounted(l) THEN Stepped(call[r], After(l, r))
                    ELSE Replied(call[r], 500)
  <2>1. /\ call' = [call EXCEPT ![r] = new] /\ call[r].step = l
        /\ UNCHANGED <<time, counter, passed, window>> /\ storeUp' \in BOOLEAN
    BY <1>0, <1>3 DEF StoreFails, Stepped, Replied
  <2>2. call[r] \in Entry /\ call[r].client \in Client
    BY <1>0, <2>1 DEF LimitInv, CallerKnown, Limiter
  <2>3. /\ After(l, r) \in {"idle", "route"} \cup Limiter
        /\ PassesUncounted(l) /\ After(l, r) = "route" => call[r].kind # "feedback"
    BY DEF After, Limiter, PassesUncounted
  <2>4. /\ new \in Entry /\ new.client \in Client
        /\ ~(new.step = "route" /\ new.kind = "feedback" /\ new.answer = 0)
    <3>1. CASE PassesUncounted(l)
      BY <2>2, <2>3, <3>1, SteppedFact
    <3>2. CASE ~PassesUncounted(l)
      BY <2>2, <3>2, RepliedFact
    <3> QED
      BY <3>1, <3>2
  <2> HIDE DEF new
  <2> QED
    BY <1>0, <2>1, <2>4, CallStep
<1>4. ASSUME NEW r \in Request, NEW status \in {200, 202, 400, 503},
             call[r].step = "route", Respond(r, status)
      PROVE  LimitInv'
  <2> DEFINE new == Replied(call[r], status)
  <2>1. /\ call' = [call EXCEPT ![r] = new]
        /\ UNCHANGED <<time, counter, passed, window>> /\ storeUp' \in BOOLEAN
    BY <1>0, <1>4 DEF Respond, Replied
  <2>2. call[r] \in Entry /\ call[r].client \in Client
    BY <1>0, <1>4 DEF LimitInv, CallerKnown
  <2>3. new \in Entry /\ new.client \in Client /\ new.answer # 0
    BY <2>2, RepliedFact
  <2> HIDE DEF new
  <2> QED
    BY <1>0, <2>1, <2>3, CallStep
<1>5. ASSUME NEW r \in Request, Answered(r) PROVE LimitInv'
  <2>1. /\ call' = [call EXCEPT ![r] = Idle]
        /\ UNCHANGED <<time, counter, passed, window>> /\ storeUp' \in BOOLEAN
    BY <1>0, <1>5 DEF Answered
  <2>2. Idle \in Entry /\ Idle.step = "idle"
    BY DEF Entry, Idle, Kind
  <2> QED
    BY <1>0, <2>1, <2>2, CallStep
<1>6. CASE StoreTurns
  BY <1>6, <1>0 DEF StoreTurns, LimitInv, CounterOK, CallOK, CallerKnown, Bounded,
     Counted, Tallied
<1>7. CASE TimePasses
  <2>1. time' \in 0..MaxTime /\ time' \in Nat
    BY <1>7, LimitAssumption DEF TimePasses, LimitInv, Bounded
  <2> QED
    BY <1>7, <2>1 DEF TimePasses, LimitInv, CounterOK, CallOK, CallerKnown, Bounded,
       Counted, Tallied
<1>8. CASE UNCHANGED limitVars
  BY <1>8 DEF limitVars, LimitInv, CounterOK, CallOK, CallerKnown, Bounded, Counted, Tallied
<1>9. ASSUME NEW r \in Request, Serve(r) \/ Reject(r) \/ Store(r) PROVE LimitInv'
  BY <1>4, <1>9 DEF Serve, Reject, Store
<1> QED
  BY <1>1, <1>2, <1>3, <1>5, <1>6, <1>7, <1>8, <1>9 DEF LimitNext

\* The inductive invariant: the counters of the store agree with what was let
\* through in their windows (postgres-rate-limit-store.ts).
LEMMA LimitInvAlways == LimitSpec => []LimitInv
  BY LimitInvInit, LimitInvStep, PTL DEF LimitSpec

-----------------------------------------------------------------------------
\* The variables keep their types (LimitTypeOK).
THEOREM LimitTypes == LimitSpec => []LimitTypeOK
<1>1. LimitInv => LimitTypeOK
  <2> SUFFICES ASSUME LimitInv PROVE LimitTypeOK
    OBVIOUS
  <2>1. ASSUME NEW k \in Keys
        PROVE  /\ counter[k].hits \in 0..Cap[k[1]] + 1
               /\ counter[k].reset \in 0..MaxTime + Window
               /\ passed[k] \in Nat /\ window[k] \in 0..MaxTime + Window
    <3>1. /\ k[1] \in Limiter /\ Cap[k[1]] \in Nat /\ Tallied(k)
          /\ counter[k] \in [hits : Nat, reset : Nat]
          /\ counter[k].reset <= MaxTime + Window /\ passed[k] \in Nat
      BY CapFact DEF LimitInv, CounterOK, Bounded, Keys
    <3> QED
      BY <3>1, LimitAssumption DEF Tallied
  <2>2. \A r \in Request :
          /\ call[r].client \in Client \cup {NoClient} /\ call[r].kind \in Kind
          /\ call[r].step \in {"idle", "route"} \cup Limiter
          /\ call[r].answer \in {0, 200, 202, 400, 429, 500, 503}
          /\ call[r].counted \in Limiter \cup {"none"}
    BY DEF LimitInv, CallOK, Entry
  <2> QED
    BY <2>1, <2>2 DEF LimitInv, Bounded, LimitTypeOK, Keys
<1> QED
  BY <1>1, LimitInvAlways, PTL

\* For any number of clients and any limits: in no window does a limit let more
\* than its number of requests of one client through (LimitHolds).
THEOREM LimitsHold == LimitSpec => []LimitHolds
<1>1. LimitInv => LimitHolds
  <2> SUFFICES ASSUME LimitInv, NEW k \in Limiter \X Client
               PROVE  passed[k] <= Cap[k[1]]
    BY DEF LimitHolds
  <2>1. k[1] \in Limiter /\ Cap[k[1]] \in Nat /\ Tallied(k)
        /\ counter[k] \in [hits : Nat, reset : Nat]
    BY CapFact DEF LimitInv, CounterOK, Keys
  <2> QED
    BY <2>1 DEF Tallied
<1> QED
  BY <1>1, LimitInvAlways, PTL

\* A refused client has used its limit up in the window that still runs
\* (RefusedAtTheLimit).
THEOREM RefusalsAreDue == LimitSpec => RefusedAtTheLimit
<1> DEFINE Due == \A r \in Request : (call'[r].answer = 429 /\ call[r].answer # 429) =>
          LET k == <<call[r].step, call[r].client>> IN
          passed[k] = Cap[k[1]] /\ window[k] > time
<1>1. LimitInv /\ [LimitNext]_limitVars => [Due]_limitVars
  <2> SUFFICES ASSUME LimitInv, LimitNext, NEW r \in Request,
                      call'[r].answer = 429, call[r].answer # 429
               PROVE  LET k == <<call[r].step, call[r].client>> IN
                      passed[k] = Cap[k[1]] /\ window[k] > time
    OBVIOUS
  <2>1. PICK l \in Limiter : Count(r, l) /\ ~Within(l, Hit(l, <<l, call[r].client>>).hits)
    <3>0. call \in [Request -> Entry]
      BY DEF LimitInv, CallOK
    <3>1. ASSUME NEW q \in Request, NEW c \in Client, NEW kind \in Kind, Arrive(q, c, kind)
          PROVE  FALSE
      BY <3>0, <3>1 DEF Entry, Arrive
    <3>2. ASSUME NEW q \in Request, NEW l \in Limiter, StoreFails(q, l) PROVE FALSE
      BY <3>0, <3>2 DEF Entry, StoreFails
    <3>3. ASSUME NEW q \in Request, Serve(q) \/ Reject(q) \/ Store(q) \/ Answered(q) PROVE FALSE
      BY <3>0, <3>3 DEF Entry, Serve, Reject, Store, Answered, Respond, Idle
    <3>4. ASSUME StoreTurns \/ TimePasses PROVE FALSE
      BY <3>4 DEF StoreTurns, TimePasses
    <3>5. PICK q \in Request, l \in Limiter : Count(q, l)
      BY <3>1, <3>2, <3>3, <3>4 DEF LimitNext
    <3>6. q = r
      BY <3>0, <3>5 DEF Entry, Count
    <3>7. ~Within(l, Hit(l, <<l, call[r].client>>).hits)
      BY <3>0, <3>5, <3>6 DEF Entry, Count, Key
    <3> QED
      BY <3>5, <3>6, <3>7
  <2> DEFINE c == call[r].client
             k == <<l, c>>
             h == Hit(l, k)
  <2>2. call[r].step = l /\ c \in Client /\ k \in Keys /\ k[1] = l
    BY <2>1 DEF Count, LimitInv, CallerKnown, Limiter, Keys
  <2>3. Cap[l] \in Nat \ {0} /\ Tallied(k) /\ time \in Nat
        /\ counter[k] \in [hits : Nat, reset : Nat]
    BY <2>2, CapFact DEF LimitInv, CounterOK
  <2>4. /\ h.hits \in Nat
        /\ counter[k].reset <= time => h.hits = 1
        /\ counter[k].reset > time =>
              h.hits = IF counter[k].hits > Cap[l] THEN counter[k].hits
                       ELSE counter[k].hits + 1
    BY <2>2, HitFact
  <2>5. h.hits > Cap[l]
    BY <2>1, <2>3, <2>4 DEF Within
  <2> QED
    BY <2>2, <2>3, <2>4, <2>5 DEF Tallied
<1> QED
  BY <1>1, LimitInvAlways, PTL DEF LimitSpec, RefusedAtTheLimit

\* Counting a request answers it with 429 or not at all.
LEMMA CountAnswers ==
    ASSUME LimitInv, NEW q \in Request, NEW l \in Limiter, Count(q, l), NEW r \in Request
    PROVE  call'[r].answer = call[r].answer \/ call'[r].answer = 429
<1>1. call \in [Request -> Entry] /\ call[q] \in Entry
  BY DEF LimitInv, CallOK
<1>2. After(l, q) \in {"idle", "route"} \cup Limiter
  BY DEF After, Limiter
<1>3. \/ call' = [call EXCEPT ![q] = Marked(Stepped(call[q], After(l, q)), l)]
      \/ call' = [call EXCEPT ![q] = Replied(call[q], 429)]
  BY DEF Count, Marked, Stepped, Replied
<1>4. /\ Stepped(call[q], After(l, q)) \in Entry
      /\ Stepped(call[q], After(l, q)).answer = call[q].answer
  BY <1>1, <1>2, SteppedFact
<1>5. Marked(Stepped(call[q], After(l, q)), l).answer = call[q].answer
  BY <1>4, MarkedFact
<1>6. Replied(call[q], 429).answer = 429
  BY <1>1, RepliedFact
<1> QED
  BY <1>1, <1>3, <1>5, <1>6

\* Every stored submission was counted by the feedback limit, whatever the
\* policy of the API limit and however often the store fails (RowsAreCounted).
THEOREM EveryRowIsCounted == LimitSpec => RowsAreCounted
<1> DEFINE Row == \A r \in Request : (call'[r].answer = 202 /\ call[r].answer # 202) =>
          call[r].counted = "feedback"
<1>1. LimitInv /\ [LimitNext]_limitVars => [Row]_limitVars
  <2> SUFFICES ASSUME LimitInv, LimitNext, NEW r \in Request,
                      call'[r].answer = 202, call[r].answer # 202
               PROVE  call[r].counted = "feedback"
    OBVIOUS
  <2>0. call \in [Request -> Entry]
    BY DEF LimitInv, CallOK
  <2>1. ASSUME NEW q \in Request, NEW c \in Client, NEW kind \in Kind, Arrive(q, c, kind)
        PROVE  FALSE
    BY <2>0, <2>1 DEF Entry, Arrive
  <2>2. ASSUME NEW q \in Request, NEW l \in Limiter, StoreFails(q, l) \/ Count(q, l)
        PROVE  FALSE
    <3>1. CASE StoreFails(q, l)
      BY <2>0, <3>1 DEF Entry, StoreFails
    <3>2. CASE Count(q, l)
      BY <3>2, CountAnswers
    <3> QED
      BY <2>2, <3>1, <3>2
  <2>3. ASSUME NEW q \in Request, Serve(q) \/ Reject(q) \/ Answered(q) PROVE FALSE
    BY <2>0, <2>3 DEF Entry, Serve, Reject, Answered, Respond, Idle
  <2>4. ASSUME StoreTurns \/ TimePasses PROVE FALSE
    BY <2>4 DEF StoreTurns, TimePasses
  <2>5. PICK q \in Request : Store(q)
    BY <2>1, <2>2, <2>3, <2>4 DEF LimitNext
  <2>6. q = r
    BY <2>0, <2>5 DEF Entry, Store, Respond
  <2>7. call[r].step = "route" /\ call[r].answer = 0 /\ call[r].kind = "feedback"
    BY <2>5, <2>6 DEF Store
  <2> QED
    BY <2>7 DEF LimitInv, Counted
<1> QED
  BY <1>1, LimitInvAlways, PTL DEF LimitSpec, RowsAreCounted

(***************************************************************************)
(* The status pages.                                                        *)
(***************************************************************************)
File == [live : BOOLEAN, heartbeat : Nat, ok : Nat, err : Nat, quote : [Symbol -> Nat]]

\* Nothing was noted after t.
NotedBy(t) ==
    file.heartbeat <= t /\ file.ok <= t /\ file.err <= t /\ \A s \in Symbol : file.quote[s] <= t

\* What the loop is doing bounds the clock, and what it has noted.
Timely ==
    /\ doing = "off" => NotedBy(since)
    /\ doing = "pass" => file.ok <= since /\ clock <= since + MaxPass
    /\ doing = "wait" => clock <= wake

\* A good last pass is on file, and neither the wait nor the pass after it began
\* later than the interval allows.
Fresh ==
    /\ file.err = 0 /\ file.ok > 0 /\ doing # "off"
    /\ loop = "paper" => \A s \in Symbol : file.quote[s] >= file.ok
    /\ MaxPass <= PollInterval =>
        /\ doing = "wait" => wake <= file.ok + PollInterval
        /\ doing = "pass" => since <= file.ok + PollInterval

StatusInv ==
    /\ switch \in BOOLEAN
    /\ loop \in {"live", "paper"} /\ doing \in {"off", "wait", "pass"}
    /\ clock \in Nat \ {0} /\ since \in Nat /\ 0 < since /\ since <= clock /\ wake \in Nat
    /\ retry \in Nat /\ file \in File /\ NotedBy(clock)
    /\ Timely
    /\ failing => file.err > file.ok
    /\ streak => Fresh

\* The constants are numbers.
LEMMA ConstantFact ==
    /\ PollInterval \in Nat \ {0} /\ LeastStale \in Nat /\ MaxPass \in Nat \ {0}
    /\ RetryBase \in Nat /\ RetryMost \in Nat
    /\ StaleAfter \in Nat /\ StaleAfter >= PollInterval + PollInterval
    /\ \A a, b \in Nat : Most(a, b) \in Nat /\ Most(a, b) >= a /\ Most(a, b) >= b
                         /\ (Most(a, b) = a \/ Most(a, b) = b) /\ Least(a, b) \in Nat
  BY IntervalAssumption, RetryAssumption, ClockAssumption DEF StaleAfter, Most, Least

\* A loop that was never started has noted nothing.
LEMMA StatusInvInit == StatusInit => StatusInv
<1> SUFFICES ASSUME StatusInit PROVE StatusInv
  OBVIOUS
<1>1. file = Blank /\ Blank \in File
  BY DEF StatusInit, Blank, File
<1>2. /\ file.heartbeat = 0 /\ file.ok = 0 /\ file.err = 0
      /\ \A s \in Symbol : file.quote[s] = 0
  BY <1>1 DEF Blank
<1>3. NotedBy(clock) /\ NotedBy(since)
  BY <1>2 DEF StatusInit, NotedBy
<1>4. Timely
  BY <1>3 DEF StatusInit, Timely
<1>5. ~streak /\ ~failing
  BY DEF StatusInit
<1>6. /\ switch \in BOOLEAN
      /\ loop \in {"live", "paper"} /\ doing \in {"off", "wait", "pass"}
      /\ clock \in Nat \ {0} /\ since \in Nat /\ 0 < since /\ since <= clock /\ wake \in Nat
      /\ retry \in Nat
  BY ConstantFact DEF StatusInit
<1> QED
  BY <1>1, <1>3, <1>4, <1>5, <1>6 DEF StatusInv

\* The state file is only written in a pass.
LEMMA FileRests ==
    ASSUME StatusInv, LoopStarts \/ LoopDies \/ ClockTicks \/ NoteFails \/ UNCHANGED statusVars
    PROVE  StatusInv'
<1>1. CASE LoopStarts
  BY <1>1, ConstantFact DEF LoopStarts, StatusInv, NotedBy, Timely, Fresh
<1>2. CASE LoopDies
  BY <1>2 DEF LoopDies, StatusInv, NotedBy, Timely
<1>3. CASE ClockTicks
  <2>1. /\ clock' = clock + 1
        /\ UNCHANGED <<loop, switch, doing, since, wake, retry, file, streak, failing>>
        /\ doing = "wait" => clock < wake
        /\ doing = "pass" => clock < since + MaxPass
    BY <1>3 DEF ClockTicks
  <2>2. NotedBy(clock)' /\ clock' \in Nat \ {0} /\ since <= clock'
    <3>1. /\ file.heartbeat \in Nat /\ file.ok \in Nat /\ file.err \in Nat
          /\ \A s \in Symbol : file.quote[s] \in Nat
      BY DEF StatusInv, File
    <3> QED
      BY <2>1, <3>1 DEF StatusInv, NotedBy
  <2>3. Timely'
    BY <2>1, ConstantFact DEF StatusInv, Timely, NotedBy
  <2>4. streak' => Fresh'
    BY <2>1 DEF StatusInv, Fresh
  <2> QED
    BY <2>1, <2>2, <2>3, <2>4 DEF StatusInv
<1>4. CASE NoteFails
  <2>1. /\ doing' = "wait" /\ wake' = clock + retry
        /\ retry' = Least(RetryMost, Most(RetryBase, retry * 2))
        /\ streak' = FALSE /\ UNCHANGED <<loop, switch, clock, since, file, failing>>
    BY <1>4 DEF NoteFails, BacksOff
  <2>2. retry' \in Nat
    <3>1. retry * 2 \in Nat
      BY DEF StatusInv
    <3> QED
      BY <2>1, <3>1, ConstantFact
  <2> QED
    BY <2>1, <2>2 DEF StatusInv, NotedBy, Timely
<1>5. CASE UNCHANGED statusVars
  BY <1>5 DEF statusVars, StatusInv, NotedBy, Timely, Fresh
<1> QED
  BY <1>1, <1>2, <1>3, <1>4, <1>5

\* A pass begins when the wait is over, not later.
LEMMA PassBeginsKeeps ==
    ASSUME StatusInv, PassBegins
    PROVE  StatusInv'
<1>1. /\ doing = "wait" /\ clock >= wake /\ doing' = "pass" /\ since' = clock
      /\ UNCHANGED <<loop, switch, clock, wake, retry, streak, failing>>
  BY DEF PassBegins
<1>2. /\ file' \in File /\ file'.heartbeat \in {file.heartbeat, clock}
      /\ file'.ok = file.ok /\ file'.err = file.err /\ file'.quote = file.quote
  BY DEF PassBegins, StatusInv, File
<1>3. clock = wake
  BY <1>1 DEF StatusInv, Timely
<1>4. NotedBy(clock)'
  BY <1>1, <1>2 DEF StatusInv, NotedBy
<1>5. Timely'
  BY <1>1, <1>2, ConstantFact DEF StatusInv, Timely, NotedBy
<1>6. streak' => Fresh'
  BY <1>1, <1>2, <1>3 DEF StatusInv, Fresh
<1> QED
  BY <1>1, <1>2, <1>4, <1>5, <1>6 DEF StatusInv

\* The record of live execution leaves the times alone.
LEMMA LiveKeeps ==
    ASSUME StatusInv, LiveIsRecorded
    PROVE  StatusInv'
<1>1. /\ doing = "pass" /\ file' = [file EXCEPT !.live = TRUE]
      /\ UNCHANGED <<loop, switch, clock, doing, since, wake, retry, streak, failing>>
  BY DEF LiveIsRecorded
<1>2. /\ file' \in File /\ file'.heartbeat = file.heartbeat
      /\ file'.ok = file.ok /\ file'.err = file.err /\ file'.quote = file.quote
  BY <1>1 DEF StatusInv, File
<1>3. NotedBy(clock)' /\ Timely'
  BY <1>1, <1>2 DEF StatusInv, NotedBy, Timely
<1>4. streak' => Fresh'
  BY <1>1, <1>2 DEF StatusInv, Fresh
<1> QED
  BY <1>1, <1>2, <1>3, <1>4 DEF StatusInv

\* The prices of a pass carry its time.
LEMMA PriceKeeps ==
    ASSUME StatusInv, NEW s \in Symbol, PriceIsRecorded(s)
    PROVE  StatusInv'
<1>1. /\ doing = "pass"
      /\ UNCHANGED <<loop, switch, clock, doing, since, wake, retry, streak, failing>>
      /\ file' = [file EXCEPT !.quote[s] = since] /\ file.quote[s] < since
  BY DEF PriceIsRecorded
<1>2. PICK q \in [Symbol -> Nat] : q = [file.quote EXCEPT ![s] = since]
  BY DEF StatusInv, File
<1>3. file' = [file EXCEPT !.quote = q]
  BY <1>1, <1>2 DEF StatusInv, File
<1>4. /\ file' \in File /\ file'.heartbeat = file.heartbeat
      /\ file'.ok = file.ok /\ file'.err = file.err /\ file'.quote = q
  BY <1>3 DEF StatusInv, File
<1>5. \A t \in Symbol : q[t] = IF t = s THEN since ELSE file.quote[t]
  BY <1>2 DEF StatusInv, File
<1>6. /\ \A t \in Symbol : file.quote[t] \in Nat /\ file.quote[t] <= clock
      /\ file.ok \in Nat
  BY DEF StatusInv, NotedBy, File
<1>7. NotedBy(clock)'
  BY <1>1, <1>4, <1>5, <1>6 DEF StatusInv, NotedBy
<1>8. Timely'
  BY <1>1, <1>4 DEF StatusInv, Timely
<1>9. streak' => Fresh'
  <2>1. \A t \in Symbol : file.quote[t] >= file.ok => q[t] >= file.ok
    BY <1>1, <1>5, <1>6 DEF StatusInv
  <2> QED
    BY <1>1, <1>4, <2>1 DEF StatusInv, Fresh
<1> QED
  BY <1>1, <1>4, <1>7, <1>8, <1>9 DEF StatusInv

\* A pass that ends well.
LEMMA SuccessKeeps ==
    ASSUME StatusInv, PassSucceeds
    PROVE  StatusInv'
<1>1. /\ doing = "pass" /\ clock > since /\ doing' = "wait"
      /\ wake' = Most(clock, since + PollInterval) /\ retry' = RetryBase
      /\ streak' = TRUE /\ failing' = FALSE /\ UNCHANGED <<loop, switch, clock, since>>
      /\ loop = "paper" => \A s \in Symbol : file.quote[s] = since
  BY DEF PassSucceeds
<1>2. /\ file' \in File /\ file'.heartbeat \in {file.heartbeat, clock}
      /\ file'.ok = (IF loop = "live" THEN clock ELSE since)
      /\ file'.err = 0 /\ file'.quote = file.quote
  <2>1. CASE loop = "live"
    BY <2>1 DEF PassSucceeds, Noted, StatusInv, File
  <2>2. CASE loop # "live"
    BY <2>2 DEF PassSucceeds, Noted, StatusInv, File
  <2> QED
    BY <2>1, <2>2
<1>3. wake' \in Nat /\ wake' >= clock
      /\ (wake' = clock \/ wake' = since + PollInterval)
  BY <1>1, ConstantFact DEF StatusInv
<1>4. NotedBy(clock)'
  BY <1>1, <1>2 DEF StatusInv, NotedBy
<1>5. Timely'
  BY <1>1, <1>3 DEF StatusInv, Timely
<1>6. Fresh'
  <2>1. file'.ok >= since /\ file'.ok > 0
    BY <1>1, <1>2 DEF StatusInv
  <2>2. loop' = "paper" => \A s \in Symbol : file'.quote[s] >= file'.ok
    BY <1>1, <1>2 DEF StatusInv
  <2>3. MaxPass <= PollInterval => wake' <= file'.ok + PollInterval
    <3>1. /\ clock \in Nat /\ since \in Nat /\ file'.ok \in Nat
          /\ clock <= since + MaxPass /\ file'.ok >= since
      BY <1>1, <1>2, <2>1 DEF StatusInv, Timely, File
    <3>2. \A c, b, o, m, p \in Nat :
             c <= b + m /\ o >= b /\ m <= p => c <= o + p /\ b + p <= o + p
      OBVIOUS
    <3>3. MaxPass <= PollInterval
          => clock <= file'.ok + PollInterval /\ since + PollInterval <= file'.ok + PollInterval
      <4>1. PollInterval \in Nat /\ MaxPass \in Nat
        BY ConstantFact
      <4>2. PICK o \in Nat : o = file'.ok
        BY <3>1
      <4> QED
        BY <3>1, <3>2, <4>1, <4>2
    <3>4. SUFFICES ASSUME MaxPass <= PollInterval
                   PROVE  wake' <= file'.ok + PollInterval
      OBVIOUS
    <3>5. CASE wake' = clock
      BY <3>3, <3>4, <3>5
    <3>6. CASE wake' = since + PollInterval
      BY <3>3, <3>4, <3>6
    <3> QED
      BY <1>3, <3>5, <3>6
  <2>4. /\ file'.err = 0 /\ doing' = "wait"
    BY <1>1, <1>2
  <2> QED
    BY <2>1, <2>2, <2>3, <2>4 DEF Fresh
<1> QED
  BY <1>1, <1>2, <1>3, <1>4, <1>5, <1>6, ConstantFact DEF StatusInv

\* A pass that fails.
LEMMA FailureKeeps ==
    ASSUME StatusInv, PassFails
    PROVE  StatusInv'
<1>1. /\ doing = "pass" /\ clock > since /\ doing' = "wait" /\ wake' = clock + retry
      /\ retry' = Least(RetryMost, Most(RetryBase, retry * 2))
      /\ streak' = FALSE /\ UNCHANGED <<loop, switch, clock, since>>
  BY DEF PassFails, BacksOff
<1>2. /\ file' \in File /\ file'.heartbeat \in {file.heartbeat, clock}
      /\ file'.ok = file.ok /\ file'.err = clock /\ file'.quote = file.quote
  <2>1. PICK h \in {file.heartbeat, clock} : file' = [file EXCEPT !.err = clock, !.heartbeat = h]
    <3>1. CASE loop = "live"
      BY <3>1 DEF PassFails, Blamed
    <3>2. CASE loop # "live"
      BY <3>2 DEF PassFails, Blamed
    <3> QED
      BY <3>1, <3>2
  <2>2. h \in Nat
    BY DEF StatusInv, File
  <2> QED
    BY <2>1, <2>2 DEF StatusInv, File
<1>3. retry' \in Nat
  <2>1. retry * 2 \in Nat
    BY DEF StatusInv
  <2> QED
    BY <1>1, <2>1, ConstantFact
<1>4. NotedBy(clock)'
  BY <1>1, <1>2 DEF StatusInv, NotedBy
<1>5. file'.err > file'.ok
  BY <1>1, <1>2 DEF StatusInv, Timely, File
<1>6. Timely'
  BY <1>1 DEF StatusInv, Timely
<1> QED
  BY <1>1, <1>2, <1>3, <1>4, <1>5, <1>6 DEF StatusInv

\* The inductive invariant.
LEMMA StatusInvAlways == StatusSpec => []StatusInv
<1>1. StatusInv /\ [StatusNext]_statusVars => StatusInv'
  BY FileRests, PassBeginsKeeps, LiveKeeps, PriceKeeps, SuccessKeeps, FailureKeeps
     DEF StatusNext
<1> QED
  BY <1>1, StatusInvInit, PTL DEF StatusSpec

\* The status pages tell a loop that is well from one that fails or stands
\* still, for any intervals, delays and lengths of a pass (StatusIsTrue): a
\* loop whose last pass ended well, and that the page knows to trade, is shown as
\* healthy through its wait and its next pass, a loop that stands still is
\* noticed, and a failure is shown until a pass ends well.
THEOREM StatusStaysTrue == StatusSpec => []StatusIsTrue
<1>1. StatusInv => StatusIsTrue
  <2> SUFFICES ASSUME StatusInv PROVE StatusIsTrue
    OBVIOUS
  <2>0. /\ file.heartbeat \in Nat /\ file.ok \in Nat /\ file.err \in Nat
        /\ \A s \in Symbol : file.quote[s] \in Nat
        /\ clock \in Nat /\ since \in Nat /\ wake \in Nat /\ StaleAfter \in Nat
    BY ConstantFact DEF StatusInv, File
  <2>s. "XRP" \in Symbol
    BY DEF Symbol
  <2>1. WellIsShown
    <3> SUFFICES ASSUME streak, IsKnown, MaxPass <= PollInterval PROVE Status = "healthy"
      BY DEF WellIsShown
    <3>1. file.err = 0 /\ file.ok > 0 /\ (doing = "wait" \/ doing = "pass")
      BY DEF StatusInv, Fresh
    <3>2. \A c, w, o, p, l \in Nat : c <= w /\ w <= o + p /\ p + p <= l => c <= o + l
      OBVIOUS
    <3>3. \A c, b, o, m, p, l \in Nat :
             c <= b + m /\ m <= p /\ b <= o + p /\ p + p <= l => c <= o + l
      OBVIOUS
    <3>4. /\ PollInterval \in Nat /\ MaxPass \in Nat
          /\ PollInterval + PollInterval <= StaleAfter
      BY ConstantFact
    <3>5. clock <= file.ok + StaleAfter
      <4>1. CASE doing = "wait"
        <5>1. clock <= wake /\ wake <= file.ok + PollInterval
          BY <4>1 DEF StatusInv, Fresh, Timely
        <5> QED
          BY <2>0, <3>2, <3>4, <5>1
      <4>2. CASE doing = "pass"
        <5>1. clock <= since + MaxPass /\ since <= file.ok + PollInterval
          BY <4>2 DEF StatusInv, Fresh, Timely
        <5> QED
          BY <2>0, <3>3, <3>4, <5>1
      <4> QED
        BY <3>1, <4>1, <4>2
    <3>6. CASE loop = "live"
      BY <2>0, <3>1, <3>5, <3>6 DEF Status, LiveStatus, IsKnown, Recent
    <3>7. CASE loop = "paper"
      <4>1. \A s \in Symbol : file.quote[s] >= file.ok
        BY <3>7 DEF StatusInv, Fresh
      <4>2. \A s \in Symbol : file.quote[s] > 0 /\ Recent(file.quote[s])
        BY <2>0, <3>1, <3>5, <4>1 DEF Recent
      <4> QED
        BY <2>0, <2>s, <3>1, <3>7, <4>2 DEF Status, PaperStatus
    <3> QED
      BY <3>6, <3>7 DEF StatusInv
  <2>2. DeadIsNoticed
    <3> SUFFICES ASSUME doing = "off", clock > since + StaleAfter
                 PROVE  Status \notin {"healthy", "retrying"} /\ ~Polling
      BY DEF DeadIsNoticed
    <3>1. NotedBy(since)
      BY DEF StatusInv, Timely
    <3>2. ~Recent(file.heartbeat) /\ ~Recent(file.ok) /\ \A s \in Symbol : ~Recent(file.quote[s])
      BY <2>0, <3>1 DEF NotedBy, Recent
    <3> QED
      BY <2>s, <3>2 DEF Status, LiveStatus, PaperStatus, Polling, StatusInv
  <2>3. FailureIsShown
    <3> SUFFICES ASSUME failing PROVE Status # "healthy"
      BY DEF FailureIsShown
    <3>1. file.err > file.ok
      BY DEF StatusInv
    <3> QED
      BY <3>1 DEF Status, LiveStatus, PaperStatus
  <2> QED
    BY <2>1, <2>2, <2>3 DEF StatusIsTrue
<1> QED
  BY <1>1, StatusInvAlways, PTL

(***************************************************************************)
(* The devnet rehearsal.                                                    *)
(***************************************************************************)
\* The progress file follows the transactions of a step: the last of them is its
\* checkpoint or its entry, and the others have expired.
Tracked(s) ==
    /\ pending[s] # 0 => entry[s] = 0 /\ pending[s] \in DOMAIN txs /\ txs[pending[s]].step = s
    /\ entry[s] # 0 => entry[s] \in DOMAIN txs
    /\ \A n \in DOMAIN txs : txs[n].step = s =>
        /\ txs[n].past \/ n = pending[s] \/ n = entry[s]
        /\ pending[s] # 0 => n <= pending[s]
        /\ entry[s] # 0 => n <= entry[s]

\* A transaction that expired never landed.
Lost(n) == txs[n].past => txs[n].state \in {"signed", "sent"}

Ledger ==
    /\ txs \in Seq(Transaction) /\ entry \in [Step -> Nat] /\ pending \in [Step -> Nat]
    /\ \A n \in DOMAIN txs : Lost(n)
    /\ \A s \in Step : Tracked(s)
    /\ EntriesAreFinal

\* The script works on a step without an entry; it signs anew only after the
\* checkpoint expired, and reconciles the transaction it checkpointed.
Working ==
    /\ at \in Nat /\ (at = 0 => phase = "off")
    /\ phase \in {"submit", "send", "height", "status"} =>
        Here \in Setup \cup Step /\ (Here \in Step => entry[Here] = 0)
    /\ (phase = "submit" /\ Here \in Step /\ pending[Here] # 0) => txs[pending[Here]].past
    /\ phase \in {"send", "height", "status"} =>
        /\ tx \in DOMAIN txs /\ txs[tx].step = Here
        /\ Here \in Step => tx = pending[Here]
    /\ expired => phase \in {"send", "height", "status"} /\ txs[tx].past

CampaignInv == Ledger /\ Working

\* The cluster changes no transaction's step, revives none that expired, and
\* takes nothing final back.
Evolves ==
    /\ txs' \in Seq(Transaction) /\ DOMAIN txs' = DOMAIN txs
    /\ \A n \in DOMAIN txs :
        /\ txs'[n].step = txs[n].step /\ (txs[n].past => txs'[n].past)
        /\ txs[n].state = "final" => txs'[n] = txs[n]
        /\ txs'[n].past => txs'[n].state \in {"signed", "sent"}

\* A list of transactions stays one when some of them change.
LEMMA ListFact ==
    ASSUME txs \in Seq(Transaction)
    PROVE  /\ txs \in [DOMAIN txs -> Transaction] /\ DOMAIN txs = 1 .. Len(txs)
           /\ Len(txs) \in Nat
           /\ \A f \in [DOMAIN txs -> Transaction] : f \in Seq(Transaction)
  BY LenProperties, SeqDef

\* An account has no entry in the progress file.
LEMMA SetupIsNoStep == Setup \cap Step = {}
  BY DEF Setup, Step, Plan

\* Nothing is signed at the start.
LEMMA CampaignInit == RehearsalInit => CampaignInv
<1> SUFFICES ASSUME RehearsalInit PROVE CampaignInv
  OBVIOUS
<1>1. /\ txs = <<>> /\ phase = "off" /\ expired = FALSE
      /\ \A s \in Step : entry[s] = 0 /\ pending[s] = 0
      /\ entry \in [Step -> Nat] /\ pending \in [Step -> Nat]
  BY DEF RehearsalInit
<1>2. DOMAIN txs = {} /\ txs \in Seq(Transaction)
  BY <1>1, EmptySeq
<1>3. Ledger
  BY <1>1, <1>2 DEF Ledger, Tracked, EntriesAreFinal
<1>4. Working
  BY <1>1 DEF Working, RehearsalInit
<1> QED
  BY <1>3, <1>4 DEF CampaignInv

\* What the cluster does leaves the progress file right.
LEMMA LedgerEvolves ==
    ASSUME Ledger, Evolves, UNCHANGED <<entry, pending>>
    PROVE  Ledger'
<1>1. \A n \in DOMAIN txs' : Lost(n)'
  BY DEF Evolves, Lost
<1>2. ASSUME NEW s \in Step PROVE Tracked(s)'
  <2>1. Tracked(s)
    BY DEF Ledger
  <2> QED
    BY <2>1 DEF Evolves, Tracked
<1>3. EntriesAreFinal'
  <2> SUFFICES ASSUME NEW s \in Step, entry'[s] # 0
               PROVE  /\ txs'[entry'[s]].step = s /\ txs'[entry'[s]].state = "final"
                      /\ txs'[entry'[s]].ok = (s \notin Rejection)
    BY DEF EntriesAreFinal
  <2>1. entry'[s] = entry[s] /\ entry[s] \in DOMAIN txs
    BY DEF Ledger, Tracked
  <2>2. /\ txs[entry[s]].step = s /\ txs[entry[s]].state = "final"
        /\ txs[entry[s]].ok = (s \notin Rejection)
    BY <2>1 DEF Ledger, EntriesAreFinal
  <2>3. txs'[entry[s]] = txs[entry[s]]
    BY <2>1, <2>2 DEF Evolves
  <2> QED
    BY <2>1, <2>2, <2>3
<1> QED
  BY <1>1, <1>2, <1>3 DEF Ledger, Evolves

\* ... and what the script knows of its transaction.
LEMMA WorkingEvolves ==
    ASSUME Ledger, Working, Evolves, UNCHANGED <<entry, pending, at, phase, tx, expired>>
    PROVE  Working'
<1>1. Here' = Here
  BY DEF Here
<1>2. \A s \in Step : pending[s] # 0 => pending[s] \in DOMAIN txs
  BY DEF Ledger, Tracked
<1> QED
  BY <1>1, <1>2 DEF Working, Evolves

\* The script rests, or turns to its next step.
LEMMA Resting ==
    ASSUME phase' \notin {"submit", "send", "height", "status"}, expired' = FALSE,
           at' \in Nat, at' = 0 => phase' = "off"
    PROVE  Working'
  BY DEF Working

\* One transaction changes.
LEMMA OneEvolves ==
    ASSUME Ledger, NEW n \in DOMAIN txs, NEW r \in Transaction,
           txs' = [txs EXCEPT ![n] = r],
           r.step = txs[n].step, txs[n].past => r.past,
           txs[n].state # "final" \/ r = txs[n],
           r.past => r.state \in {"signed", "sent"}
    PROVE  Evolves
<1>1. txs \in [DOMAIN txs -> Transaction] /\ txs' \in [DOMAIN txs -> Transaction]
  BY ListFact DEF Ledger
<1>2. txs' \in Seq(Transaction)
  BY <1>1, ListFact DEF Ledger
<1>3. \A m \in DOMAIN txs : txs'[m] = IF m = n THEN r ELSE txs[m]
  BY <1>1
<1>4. \A m \in DOMAIN txs : txs[m].past => txs[m].state \in {"signed", "sent"}
  BY DEF Ledger, Lost
<1> QED
  BY <1>1, <1>2, <1>3, <1>4 DEF Evolves

\* Landing, finality, a fork and an expiry are such changes.
LEMMA ChainEvolves ==
    ASSUME Ledger, (\E n \in DOMAIN txs : Land(n) \/ Expire(n)) \/ Finalize \/ Fork
    PROVE  Evolves
<1>0. txs \in [DOMAIN txs -> Transaction]
  BY ListFact DEF Ledger
<1>1. ASSUME NEW n \in DOMAIN txs, Land(n) PROVE Evolves
  <2> DEFINE b == Succeeds(txs[n].step, {"seen", "final"})
             r == [txs[n] EXCEPT !.state = "seen", !.ok = b]
  <2>1. txs[n] \in Transaction /\ txs[n].state = "sent" /\ ~txs[n].past
    BY <1>0, <1>1 DEF Land
  <2>2. b \in BOOLEAN
    BY DEF Succeeds
  <2>3. txs' = [txs EXCEPT ![n] = r]
    BY <1>0, <1>1 DEF Land
  <2>4. r \in Transaction /\ r.step = txs[n].step /\ ~r.past
    BY <2>1, <2>2 DEF Transaction
  <2> HIDE DEF r
  <2> QED
    BY <2>1, <2>3, <2>4, OneEvolves
<1>2. ASSUME NEW n \in DOMAIN txs, Expire(n) PROVE Evolves
  <2> DEFINE r == [txs[n] EXCEPT !.past = TRUE]
  <2>1. txs[n] \in Transaction /\ txs[n].state \in {"signed", "sent"}
    BY <1>0, <1>2 DEF Expire
  <2>2. txs' = [txs EXCEPT ![n] = r]
    BY <1>0, <1>2 DEF Expire
  <2>3. r \in Transaction /\ r.step = txs[n].step /\ r.past /\ r.state = txs[n].state
    BY <2>1 DEF Transaction
  <2> HIDE DEF r
  <2> QED
    BY <2>1, <2>2, <2>3, OneEvolves
<1>3. ASSUME Finalize \/ Fork PROVE Evolves
  <2>1. \A n \in DOMAIN txs : txs[n].past => txs[n].state \in {"signed", "sent"}
    BY DEF Ledger, Lost
  <2>2. /\ txs' \in [DOMAIN txs -> Transaction]
        /\ \A n \in DOMAIN txs :
              IF txs[n].state = "seen"
              THEN txs'[n].step = txs[n].step /\ txs'[n].past = txs[n].past
              ELSE txs'[n] = txs[n]
    <3>1. CASE Finalize
      <4> DEFINE r(n) == [txs[n] EXCEPT !.state = "final"]
      <4>1. txs' = [n \in DOMAIN txs |-> IF txs[n].state = "seen" THEN r(n) ELSE txs[n]]
        BY <3>1 DEF Finalize, Seen
      <4>2. \A n \in DOMAIN txs :
               r(n) \in Transaction /\ r(n).step = txs[n].step /\ r(n).past = txs[n].past
        BY <1>0 DEF Transaction
      <4> HIDE DEF r
      <4> QED
        BY <1>0, <4>1, <4>2
    <3>2. CASE Fork
      <4> DEFINE r(n) == [txs[n] EXCEPT !.state = "sent", !.ok = FALSE]
      <4>1. txs' = [n \in DOMAIN txs |-> IF txs[n].state = "seen" THEN r(n) ELSE txs[n]]
        BY <3>2 DEF Fork, Seen
      <4>2. \A n \in DOMAIN txs :
               r(n) \in Transaction /\ r(n).step = txs[n].step /\ r(n).past = txs[n].past
        BY <1>0 DEF Transaction
      <4> HIDE DEF r
      <4> QED
        BY <1>0, <4>1, <4>2
    <3> QED
      BY <1>3, <3>1, <3>2
  <2>3. txs' \in Seq(Transaction) /\ DOMAIN txs' = DOMAIN txs
    BY <2>2, ListFact DEF Ledger
  <2> QED
    BY <2>1, <2>2, <2>3 DEF Evolves
<1> QED
  BY <1>1, <1>2, <1>3

\* Nothing changed, or the cluster moved.
LEMMA ChainKeeps ==
    ASSUME CampaignInv, UNCHANGED <<entry, pending, at, phase, tx, expired>>,
           txs' = txs \/ Evolves
    PROVE  CampaignInv'
<1>1. Evolves
  BY DEF CampaignInv, Ledger, Lost, Evolves
<1> QED
  BY <1>1, LedgerEvolves, WorkingEvolves DEF CampaignInv

\* The script ends, or turns to its next step.
LEMMA RestKeeps ==
    ASSUME CampaignInv, UNCHANGED <<txs, entry, pending>>, Leave \/ Forward
    PROVE  CampaignInv'
<1>1. Evolves
  BY DEF CampaignInv, Ledger, Lost, Evolves
<1>2. /\ phase' \notin {"submit", "send", "height", "status"} /\ expired' = FALSE
      /\ at' \in Nat /\ (at' = 0 => phase' = "off")
  BY DEF Leave, Forward, CampaignInv, Working
<1> QED
  BY <1>1, <1>2, LedgerEvolves, Resting DEF CampaignInv

\* The steps that touch no transaction.
LEMMA QuietKeeps ==
    ASSUME CampaignInv,
           \/ Start \/ RemoveDraft \/ Crash \/ VerifyFails \/ Deploy \/ Prove \/ Skip
           \/ SimulationFails \/ SendRefused \/ Mismatch \/ SetupExpired
           \/ Draft \/ WriteEvidence
    PROVE  CampaignInv'
<1>1. CASE Start
  <2>1. ~expired /\ at' = 1 /\ phase' = "begin"
    BY <1>1 DEF Start, CampaignInv, Working
  <2>2. UNCHANGED <<txs, entry, pending, expired>>
    BY <1>1 DEF Start, chainVars, fileVars
  <2>3. Evolves
    BY <2>2 DEF CampaignInv, Ledger, Lost, Evolves
  <2>4. Ledger'
    BY <2>2, <2>3, LedgerEvolves DEF CampaignInv
  <2>5. Working'
    BY <2>1, <2>2 DEF Working
  <2> QED
    BY <2>4, <2>5 DEF CampaignInv
<1>2. CASE RemoveDraft
  BY <1>2, ChainKeeps DEF RemoveDraft, chainVars, scriptVars
<1>3. CASE Crash
  BY <1>3, RestKeeps DEF Crash, chainVars, fileVars
<1>4. CASE VerifyFails
  BY <1>4, RestKeeps DEF VerifyFails, chainVars
<1>5. CASE Deploy
  BY <1>5, ChainKeeps DEF Deploy, fileVars, scriptVars
<1>6. CASE Prove
  BY <1>6, RestKeeps DEF Prove, chainVars
<1>7. CASE Skip
  BY <1>7, RestKeeps DEF Skip, chainVars, fileVars
<1>8. CASE SimulationFails \/ SendRefused \/ Mismatch
  BY <1>8, RestKeeps DEF SimulationFails, SendRefused, Mismatch, Refuse, chainVars, fileVars
<1>9. CASE SetupExpired
  BY <1>9, RestKeeps DEF SetupExpired, chainVars, fileVars
<1>10. CASE Draft
  <2>1. CASE evidence = "none"
    <3>1. /\ phase = "evidence" /\ phase' = "verify"
          /\ UNCHANGED <<txs, entry, pending, at, expired>>
      BY <1>10, <2>1 DEF Draft, chainVars
    <3>2. Evolves
      BY <3>1 DEF CampaignInv, Ledger, Lost, Evolves
    <3>3. Ledger'
      BY <3>1, <3>2, LedgerEvolves DEF CampaignInv
    <3>4. Working'
      BY <3>1 DEF CampaignInv, Working
    <3> QED
      BY <3>3, <3>4 DEF CampaignInv
  <2>2. CASE evidence # "none"
    BY <1>10, <2>2, RestKeeps DEF Draft, chainVars
  <2> QED
    BY <2>1, <2>2
<1>11. CASE WriteEvidence
  BY <1>11, RestKeeps DEF WriteEvidence, chainVars
<1> QED
  BY <1>1, <1>2, <1>3, <1>4, <1>5, <1>6, <1>7, <1>8, <1>9, <1>10, <1>11

\* The script takes up a step, looks at the cluster, and waits for it.
LEMMA TurnKeeps ==
    ASSUME CampaignInv, SetUp \/ Resume \/ Execute \/ ReadHeight \/ Look
    PROVE  CampaignInv'
<1>1. UNCHANGED <<txs, entry, pending>>
  BY DEF SetUp, Resume, Execute, ReadHeight, Look, Turn, chainVars, fileVars
<1>2. Ledger'
  <2>1. Evolves
    BY <1>1 DEF CampaignInv, Ledger, Lost, Evolves
  <2> QED
    BY <1>1, <2>1, LedgerEvolves DEF CampaignInv
<1>3. CASE SetUp
  <2>1. phase = "begin" /\ Here \in Setup /\ Here \notin Step /\ ~expired /\ UNCHANGED expired
        /\ at \in Nat /\ at # 0
    BY <1>3, SetupIsNoStep DEF SetUp, CampaignInv, Working
  <2>2. \/ at' = at + 1 /\ phase' = "begin"
        \/ at' = at /\ phase' = "submit"
    BY <1>3 DEF SetUp
  <2>3. Working'
    BY <1>1, <2>1, <2>2 DEF Working, Here
  <2> QED
    BY <1>2, <2>3 DEF CampaignInv
<1>4. CASE Resume
  <2>1. /\ phase = "begin" /\ Here \in Step /\ entry[Here] = 0 /\ pending[Here] # 0
        /\ phase' = "height" /\ tx' = pending[Here] /\ UNCHANGED <<at, expired>>
    BY <1>4 DEF Resume
  <2>2. ~expired /\ at \in Nat /\ at # 0
    BY <2>1 DEF CampaignInv, Working
  <2>3. pending[Here] \in DOMAIN txs /\ txs[pending[Here]].step = Here
    BY <2>1 DEF CampaignInv, Ledger, Tracked
  <2>4. Here' = Here
    BY <2>1 DEF Here
  <2>5. Working'
    BY <1>1, <2>1, <2>2, <2>3, <2>4 DEF Working
  <2> QED
    BY <1>2, <2>5 DEF CampaignInv
<1>5. CASE Execute
  <2>1. /\ phase = "begin" /\ Here \in Step /\ entry[Here] = 0 /\ pending[Here] = 0
        /\ phase' = "submit" /\ UNCHANGED <<at, expired>>
    BY <1>5 DEF Execute, Turn
  <2>2. ~expired /\ at \in Nat /\ at # 0
    BY <2>1 DEF CampaignInv, Working
  <2>3. Here' = Here
    BY <2>1 DEF Here
  <2>4. Working'
    BY <1>1, <2>1, <2>2, <2>3 DEF Working
  <2> QED
    BY <1>2, <2>4 DEF CampaignInv
<1>6. CASE ReadHeight
  <2>1. /\ phase = "height" /\ phase' = "status" /\ expired' = txs[tx].past
        /\ UNCHANGED <<at, tx>>
    BY <1>6 DEF ReadHeight
  <2>2. Here' = Here
    BY <2>1 DEF Here
  <2>3. Working'
    BY <1>1, <2>1, <2>2 DEF CampaignInv, Working
  <2> QED
    BY <1>2, <2>3 DEF CampaignInv
<1>7. CASE Look
  <2>1. /\ phase = "status" /\ phase' \in {"send", "height"} /\ UNCHANGED <<at, tx, expired>>
    BY <1>7 DEF Look, Turn
  <2>2. Here' = Here
    BY <2>1 DEF Here
  <2>3. Working'
    BY <1>1, <2>1, <2>2 DEF CampaignInv, Working
  <2> QED
    BY <1>2, <2>3 DEF CampaignInv
<1> QED
  BY <1>3, <1>4, <1>5, <1>6, <1>7

\* Sending changes a transaction from signed to sent, and what follows is the
\* reconciliation or the end of the run.
LEMMA SendKeeps ==
    ASSUME CampaignInv, Send \/ SendUnanswered
    PROVE  CampaignInv'
<1> DEFINE r == [txs[tx] EXCEPT !.state = IF @ = "signed" THEN "sent" ELSE @]
<1>1. phase = "send" /\ Broadcast /\ UNCHANGED <<entry, pending>>
  BY DEF Send, SendUnanswered, fileVars
<1>2. tx \in DOMAIN txs /\ txs \in [DOMAIN txs -> Transaction] /\ Lost(tx)
  BY <1>1, ListFact DEF CampaignInv, Working, Ledger
<1>3. r \in Transaction /\ r.step = txs[tx].step /\ r.past = txs[tx].past
      /\ r.state = IF txs[tx].state = "signed" THEN "sent" ELSE txs[tx].state
  BY <1>2 DEF Transaction
<1>4. txs[tx].state # "signed" => r = txs[tx]
  BY <1>2 DEF Transaction
<1>5. txs' = [txs EXCEPT ![tx] = r]
  BY <1>1, <1>2 DEF Broadcast
<1>6. r.past => r.state \in {"signed", "sent"}
  BY <1>2, <1>3 DEF Lost
<1> HIDE DEF r
<1>7. Evolves
  BY <1>2, <1>3, <1>4, <1>5, <1>6, OneEvolves DEF CampaignInv
<1>8. Ledger'
  BY <1>1, <1>7, LedgerEvolves DEF CampaignInv
<1>9. CASE Send
  <2>1. phase' = "height" /\ UNCHANGED <<at, tx, expired>>
    BY <1>9 DEF Send
  <2>2. Here' = Here
    BY <2>1 DEF Here
  <2>3. Working'
    BY <1>1, <1>2, <1>7, <2>1, <2>2 DEF CampaignInv, Working, Evolves
  <2> QED
    BY <1>8, <2>3 DEF CampaignInv
<1>10. CASE SendUnanswered
  <2>1. at' = 0 /\ phase' = "off" /\ expired' = FALSE
    BY <1>10 DEF SendUnanswered, Leave
  <2> QED
    BY <1>8, <2>1, Resting DEF CampaignInv
<1> QED
  BY <1>9, <1>10

\* A transaction is signed for a step only when none of the step's transactions
\* can still take effect, and it is checkpointed with it.
LEMMA PrepareKeeps ==
    ASSUME CampaignInv, Prepare
    PROVE  CampaignInv'
<1> DEFINE r == [step |-> Here, state |-> "signed", past |-> FALSE, ok |-> FALSE]
<1>1. PICK k \in Nat : k = Len(txs)
  BY ListFact DEF CampaignInv, Ledger
<1>2. /\ phase = "submit" /\ txs' = Append(txs, r) /\ Checkpoint(k + 1) /\ tx' = k + 1
      /\ phase' = "send" /\ UNCHANGED <<entry, at, expired>>
  BY <1>1 DEF Prepare
<1>3. Here \in Setup \cup Step /\ (Here \in Step => entry[Here] = 0) /\ Here' = Here
  BY <1>2 DEF CampaignInv, Working, Here
<1>4. r \in Transaction
  BY <1>3 DEF Transaction
<1> HIDE DEF r
<1>5. txs \in Seq(Transaction) /\ DOMAIN txs = 1 .. k
  BY <1>1, ListFact DEF CampaignInv, Ledger
<1>6. txs' \in Seq(Transaction) /\ DOMAIN txs' = 1 .. k + 1 /\ txs'[k + 1] = r
      /\ \A n \in 1 .. k : txs'[n] = txs[n]
  <2>1. txs' \in Seq(Transaction) /\ Len(txs') = k + 1 /\ txs'[k + 1] = r
        /\ \A n \in 1 .. k : txs'[n] = txs[n]
    BY <1>1, <1>2, <1>4, <1>5, AppendProperties
  <2> QED
    BY <2>1, LenProperties
<1>7. r.step = Here /\ r.past = FALSE /\ r.state = "signed"
  BY DEF r
<1>8. /\ pending' \in [Step -> Nat]
      /\ \A s \in Step : pending'[s] = IF s = Here THEN k + 1 ELSE pending[s]
  <2>1. pending \in [Step -> Nat] /\ k + 1 \in Nat
    BY DEF CampaignInv, Ledger
  <2> QED
    BY <1>2, <2>1 DEF Checkpoint
<1>9. ASSUME NEW s \in Step PROVE Tracked(s)'
  <2>1. Tracked(s) /\ pending[s] \in Nat /\ entry[s] \in Nat
    BY DEF CampaignInv, Ledger
  <2>2. CASE s # Here
    <3>1. pending'[s] = pending[s] /\ entry'[s] = entry[s]
      BY <1>2, <1>8, <2>2
    <3>2. \A n \in DOMAIN txs' : txs'[n].step = s => n \in DOMAIN txs /\ txs'[n] = txs[n]
      BY <1>5, <1>6, <1>7, <2>2
    <3>3. \A n \in DOMAIN txs : n \in DOMAIN txs' /\ txs'[n] = txs[n]
      BY <1>5, <1>6
    <3> QED
      BY <2>1, <3>1, <3>2, <3>3 DEF Tracked
  <2>3. CASE s = Here
    <3>1. pending'[s] = k + 1 /\ entry'[s] = 0
      BY <1>2, <1>3, <1>8, <2>3
    <3>2. ASSUME NEW n \in DOMAIN txs, txs[n].step = s PROVE txs[n].past
      <4>1. pending[s] # 0 => txs[pending[s]].past
        BY <1>2, <2>3 DEF CampaignInv, Working
      <4>2. n # 0 /\ entry[s] = 0
        BY <1>3, <1>5, <2>3
      <4> QED
        BY <2>1, <3>2, <4>1, <4>2 DEF Tracked
    <3>3. \A n \in DOMAIN txs' : n <= k + 1 /\ (n = k + 1 \/ (n \in DOMAIN txs /\ txs'[n] = txs[n]))
      BY <1>5, <1>6
    <3>4. k + 1 # 0 /\ k + 1 \in DOMAIN txs' /\ txs'[k + 1].step = s
      BY <1>6, <1>7, <2>3
    <3> QED
      BY <3>1, <3>2, <3>3, <3>4 DEF Tracked
  <2> QED
    BY <2>2, <2>3
<1>10. \A n \in DOMAIN txs' : Lost(n)'
  <2>1. \A n \in 1 .. k : Lost(n)
    BY <1>5 DEF CampaignInv, Ledger
  <2> QED
    BY <1>6, <1>7, <2>1 DEF Lost
<1>11. EntriesAreFinal'
  <2>1. \A s \in Step : entry[s] # 0 => entry[s] \in 1 .. k
    BY <1>5 DEF CampaignInv, Ledger, Tracked
  <2> QED
    BY <1>2, <1>6, <2>1 DEF CampaignInv, Ledger, EntriesAreFinal
<1>12. Ledger'
  BY <1>2, <1>6, <1>8, <1>9, <1>10, <1>11 DEF CampaignInv, Ledger
<1>13. Working'
  <2>1. ~expired /\ at \in Nat /\ at # 0
    BY <1>2 DEF CampaignInv, Working
  <2>2. tx' \in DOMAIN txs' /\ txs'[tx'].step = Here
    BY <1>2, <1>6, <1>7
  <2> QED
    BY <1>2, <1>3, <1>8, <2>1, <2>2 DEF Working
<1> QED
  BY <1>12, <1>13 DEF CampaignInv

\* A result is recorded from the finalized transaction that is checkpointed.
LEMMA AcceptKeeps ==
    ASSUME CampaignInv, Accept
    PROVE  CampaignInv'
<1>1. /\ phase = "status" /\ txs[tx].state = "final" /\ txs[tx].ok = (Here \notin Rejection)
      /\ txs' = txs /\ Forward
  BY DEF Accept, Settled, Expected, chainVars
<1>2. tx \in DOMAIN txs /\ txs[tx].step = Here /\ (Here \in Step => tx = pending[Here] /\ entry[Here] = 0)
  BY <1>1 DEF CampaignInv, Working
<1>3. CASE Here \notin Step
  BY <1>1, <1>3, RestKeeps DEF Accept
<1>4. CASE Here \in Step
  <2>1. /\ pending' = [pending EXCEPT ![Here] = 0] /\ entry' = [entry EXCEPT ![Here] = tx]
    BY <1>4 DEF Accept, Record
  <2>2. entry \in [Step -> Nat] /\ pending \in [Step -> Nat] /\ tx \in Nat \ {0}
    BY <1>2, ListFact DEF CampaignInv, Ledger
  <2>3. /\ entry' \in [Step -> Nat] /\ pending' \in [Step -> Nat]
        /\ \A s \in Step : /\ pending'[s] = IF s = Here THEN 0 ELSE pending[s]
                           /\ entry'[s] = IF s = Here THEN tx ELSE entry[s]
    BY <2>1, <2>2
  <2>4. ASSUME NEW s \in Step PROVE Tracked(s)'
    <3>1. Tracked(s)
      BY DEF CampaignInv, Ledger
    <3>2. CASE s = Here
      BY <1>1, <1>2, <2>2, <2>3, <3>1, <3>2 DEF Tracked
    <3>3. CASE s # Here
      BY <1>1, <2>3, <3>1, <3>3 DEF Tracked
    <3> QED
      BY <3>2, <3>3
  <2>5. EntriesAreFinal'
    BY <1>1, <1>2, <2>3 DEF CampaignInv, Ledger, EntriesAreFinal
  <2>6. Ledger'
    BY <1>1, <2>3, <2>4, <2>5 DEF CampaignInv, Ledger, Lost
  <2>7. Working'
    <3>1. /\ phase' \notin {"submit", "send", "height", "status"} /\ expired' = FALSE
          /\ at' \in Nat /\ (at' = 0 => phase' = "off")
      BY <1>1 DEF Forward, CampaignInv, Working
    <3> QED
      BY <3>1, Resting
  <2> QED
    BY <2>6, <2>7 DEF CampaignInv
<1> QED
  BY <1>3, <1>4

\* A checkpoint is given up only when its transaction has expired.
LEMMA RetryKeeps ==
    ASSUME CampaignInv, Retry
    PROVE  CampaignInv'
<1>1. /\ phase = "status" /\ Here \in Step /\ expired
      /\ phase' = "submit" /\ expired' = FALSE /\ UNCHANGED <<txs, entry, at>>
      /\ pending' = IF resume = "no" THEN [pending EXCEPT ![Here] = 0] ELSE pending
  BY DEF Retry, Gone, chainVars
<1>2. /\ tx \in DOMAIN txs /\ tx = pending[Here] /\ entry[Here] = 0 /\ txs[tx].past
      /\ Here' = Here /\ at \in Nat /\ at # 0
  BY <1>1 DEF CampaignInv, Working, Here
<1>3. /\ pending' \in [Step -> Nat]
      /\ \A s \in Step : \/ pending'[s] = pending[s]
                         \/ s = Here /\ pending'[s] = 0
  <2>1. pending \in [Step -> Nat]
    BY DEF CampaignInv, Ledger
  <2>2. CASE resume = "no"
    BY <1>1, <2>1, <2>2
  <2>3. CASE resume # "no"
    BY <1>1, <2>1, <2>3
  <2> QED
    BY <2>2, <2>3
<1>4. ASSUME NEW s \in Step PROVE Tracked(s)'
  <2>1. Tracked(s)
    BY DEF CampaignInv, Ledger
  <2>2. CASE pending'[s] = pending[s]
    BY <1>1, <2>1, <2>2 DEF Tracked
  <2>3. CASE s = Here /\ pending'[s] = 0
    BY <1>1, <1>2, <2>1, <2>3 DEF Tracked
  <2> QED
    BY <1>3, <2>2, <2>3
<1>5. Ledger'
  BY <1>1, <1>3, <1>4 DEF CampaignInv, Ledger, Lost, EntriesAreFinal
<1>6. Working'
  BY <1>1, <1>2, <1>3 DEF Working
<1> QED
  BY <1>5, <1>6 DEF CampaignInv

\* The inductive invariant.
LEMMA CampaignInvAlways == RehearsalSpec => []CampaignInv
<1>1. CampaignInv /\ [RehearsalNext]_rehearsalVars => CampaignInv'
  <2> SUFFICES ASSUME CampaignInv, [RehearsalNext]_rehearsalVars PROVE CampaignInv'
    OBVIOUS
  <2>1. CASE UNCHANGED rehearsalVars
    BY <2>1, ChainKeeps DEF rehearsalVars, chainVars, fileVars, scriptVars
  <2>2. CASE (\E n \in DOMAIN txs : Land(n) \/ Expire(n)) \/ Finalize \/ Fork
    <3>1. Evolves
      BY <2>2, ChainEvolves DEF CampaignInv
    <3>2. UNCHANGED <<fileVars, scriptVars>>
      BY <2>2 DEF Land, Expire, Finalize, Fork
    <3> QED
      BY <3>1, <3>2, ChainKeeps DEF fileVars, scriptVars
  <2>3. CASE Start \/ RemoveDraft \/ Script \/ Crash \/ SendUnanswered \/ VerifyFails
    BY <2>3, QuietKeeps, TurnKeeps, SendKeeps, PrepareKeeps, AcceptKeeps, RetryKeeps DEF Script
  <2> QED
    BY <2>1, <2>2, <2>3 DEF RehearsalNext
<1> QED
  BY <1>1, CampaignInit, PTL DEF RehearsalSpec

\* However often the rehearsal is interrupted and run again, and whatever the
\* cluster does with its transactions, no step of the campaign takes effect
\* twice, and what the progress file records of a step is final and has the
\* outcome the step demands (CampaignIsSound).
THEOREM CampaignStaysSound == RehearsalSpec => []CampaignIsSound
<1>1. CampaignInv => CampaignIsSound
  <2> SUFFICES ASSUME CampaignInv PROVE CampaignIsSound
    OBVIOUS
  <2>1. ASSUME NEW s \in Step, NEW m \in DOMAIN txs, NEW n \in DOMAIN txs,
               m < n, txs[m].step = s, txs[n].step = s
        PROVE  txs[m].past /\ txs[m].state \in {"signed", "sent"}
    <3>1. Tracked(s) /\ Lost(m) /\ m \in Nat \ {0} /\ n \in Nat
      BY ListFact DEF CampaignInv, Ledger
    <3>2. m # pending[s] /\ m # entry[s]
      BY <2>1, <3>1 DEF Tracked
    <3> QED
      BY <2>1, <3>1, <3>2 DEF Tracked, Lost
  <2> QED
    BY <2>1 DEF CampaignInv, Ledger, CampaignIsSound, MadeOnce
<1> QED
  BY <1>1, CampaignInvAlways, PTL
=============================================================================

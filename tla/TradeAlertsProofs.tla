-------------------------- MODULE TradeAlertsProofs --------------------------
(***************************************************************************)
(* Machine-checked facts about the way of an alert from the trade journal    *)
(* to Telegram, for every set of trades and of requests, every bound of the *)
(* histories and any number of crashes, timeouts, refusals and lost answers:*)
(*   - the state of the bot, the bridge and their files is well typed, and  *)
(*     the lock file belongs to the one request that is sending;            *)
(*   - no alert is announced a second time but by its one resend;           *)
(*   - outbox and bridge implement the ledger of AlertLedger.               *)
(* The last two rest on HistoryOutlives: the bridge's histories are at least*)
(* as long as the requests it holds are many. Without it they are false     *)
(* (README).                                                                *)
(***************************************************************************)
EXTENDS TradeAlerts, FiniteSetTheorems, FunctionTheorems, SequenceTheorems, TLAPS

Distinct(s) == \A i, j \in DOMAIN s : s[i] = s[j] => i = j

\* u comes later than t in the list.
Follows(s, t, u) == \E i, j \in DOMAIN s : i < j /\ s[i] = t /\ s[j] = u

\* The ways in which the outbox may give an alert up.
Justified(t) == announced[t] > 0 \/ t \in Vouched \/ t \in waived

Unsent(t) ==
    /\ announced[t] = 0 /\ ~Has(todo, t) /\ ~Has(botDelivered, t)
    /\ ~Has(inFlight, t) /\ ~Has(delivered, t)

(***************************************************************************)
(* The inductive invariant. Only the alert at the head of the outbox can be *)
(* with the bridge, so every request is about that alert or about one that  *)
(* left the outbox before.                                                  *)
(***************************************************************************)
Requests ==
    /\ \A r \in Slot : request[r] = Free \/
          /\ request[r].kind \in {"trade", "delivered", "resend", "resending"}
          /\ request[r].step \in {"queued", "sending"}
          /\ request[r].trade \in confirmed \ staged
          /\ Has(pending, request[r].trade) => request[r].trade = Head(pending)
    /\ \A r \in Slot : request[r].kind = "trade" =>
          pending # <<>> /\ request[r].trade = Head(pending)
    /\ \A r \in Slot : request[r].step = "sending" =>
          /\ request[r].kind \in {"trade", "resending"}
          /\ Has(inFlight, request[r].trade)

\* A hash has one resend, so at most one request carries it out.
Claims ==
    /\ \A r \in Slot :
          request[r].kind = "resending" => ResendUsed(request[r].trade)
    /\ \A r, q \in Slot :
          /\ request[r].kind = "resending" /\ request[q].kind = "resending"
          /\ request[r].trade = request[q].trade
          => r = q

\* The chain holds the requests of the bridge, the one that sends first.
Line ==
    /\ Distinct(chain)
    /\ \A r \in Slot : request[r] # Free <=> Has(chain, r)
    /\ \A r \in Slot : request[r].step = "sending" => Head(chain) = r
    /\ lock = "held" <=> Sending # {}
    /\ ~enabled => chain = <<>>

\* The call the flush thread waits for is the last request it made, and it
\* takes an alert for settled only when nothing of it is left in the chain.
Calls ==
    /\ call # NoSlot =>
          /\ flushing /\ answer = "none" /\ todo # <<>>
          /\ request[call].kind = "trade"
          /\ \A q \in Slot : Follows(chain, call, q) => request[q].kind # "trade"
    /\ answer # "none" => flushing /\ todo # <<>> /\ call = NoSlot
    /\ answer = "ok" => /\ Justified(Head(todo))
                        /\ \A r \in Slot : request[r].kind # "trade"

\* What is left to post is where the outbox starts.
Outboxes ==
    /\ Distinct(pending)
    /\ \A t : Has(pending, t) => t \in confirmed
    /\ Len(todo) <= Len(pending)
    /\ \A i \in 1..Len(todo) : todo[i] = pending[i]

\* Neither the flush thread nor the bridge has heard of an alert the journal
\* still stages; it is in the outbox only between the two writes of a move.
Stages ==
    /\ staged \subseteq confirmed
    /\ \A t \in Trade : t \notin confirmed \ staged => Unsent(t)
    /\ phase \in {"queue", "ack", "recoverAck"} => moving \in staged
    /\ phase \in {"ack", "recoverAck"} => Has(pending, moving)
    /\ phase = "queue" => ~Has(pending, moving)
    /\ phase \in {"trade", "queue", "ack"} =>
          \A t \in staged : t # moving => ~Has(pending, t)

\* The bridge's histories know of no pending alert but the first.
Histories ==
    /\ Distinct(inFlight) /\ Distinct(delivered) /\ Distinct(botDelivered)
    /\ \A t : Has(pending, t) /\ (Has(inFlight, t) \/ Has(delivered, t)) =>
             t = Head(pending)
    /\ \A t \in Trade : Has(delivered, t) => Justified(t)

DeliveryInv ==
    /\ TypeOK /\ Requests /\ Claims /\ Line /\ Calls
    /\ Outboxes /\ Stages /\ Histories

-----------------------------------------------------------------------------
\* A list without one of its entries.
LEMMA RemovedFact ==
    ASSUME NEW S, NEW s \in Seq(S), Distinct(s), NEW i \in 1..Len(s),
           NEW w, w = [k \in 1..Len(s) - 1 |-> IF k < i THEN s[k] ELSE s[k + 1]]
    PROVE  /\ w \in Seq(S) /\ Len(w) = Len(s) - 1 /\ Distinct(w)
           /\ \A t : Has(w, t) <=> Has(s, t) /\ t # s[i]
           /\ \A t, u : Follows(w, t, u) => Follows(s, t, u)
           /\ i = 1 => w = Tail(s)
<1> DEFINE n == Len(s) - 1
<1>0. Len(s) \in Nat /\ n \in Nat /\ DOMAIN s = 1..Len(s) /\ i \in 1..n + 1
  BY LenProperties
<1>1. \A k \in 1..n : w[k] = IF k < i THEN s[k] ELSE s[k + 1]
  OBVIOUS
<1>2. \A k \in 1..n : w[k] \in S
  BY <1>0, <1>1, ElementOfSeq
<1>3. w \in Seq(S) /\ Len(w) = n /\ DOMAIN w = 1..n
  BY <1>0, <1>2
<1>4. Distinct(w)
  <2> SUFFICES ASSUME NEW j \in 1..n, NEW k \in 1..n, w[j] = w[k] PROVE j = k
    BY <1>3 DEF Distinct
  <2>1. \A a, b \in 1..Len(s) : s[a] = s[b] => a = b
    BY <1>0 DEF Distinct
  <2> QED
    BY <2>1, <1>0, <1>1
<1>5. \A t : Has(w, t) <=> Has(s, t) /\ t # s[i]
  <2> TAKE t
  <2>1. ASSUME Has(w, t) PROVE Has(s, t) /\ t # s[i]
    <3>1. PICK k \in 1..n : w[k] = t
      BY <2>1, <1>3 DEF Has
    <3>2. PICK m \in 1..Len(s) : s[m] = t /\ m # i
      BY <3>1, <1>0, <1>1
    <3> QED
      BY <3>2, <1>0 DEF Has, Distinct
  <2>2. ASSUME Has(s, t), t # s[i] PROVE Has(w, t)
    <3>1. PICK m \in 1..Len(s) : s[m] = t
      BY <2>2, <1>0 DEF Has
    <3>2. PICK k \in 1..n : w[k] = t
      <4>1. CASE m < i
        BY <4>1, <3>1, <1>0, <1>1
      <4>2. CASE m > i
        <5>1. m - 1 \in 1..n /\ ~(m - 1 < i) /\ (m - 1) + 1 = m
          BY <4>2, <1>0
        <5> QED
          BY <5>1, <3>1, <1>1
      <4> QED
        BY <4>1, <4>2, <3>1, <2>2, <1>0
    <3> QED
      BY <3>2, <1>3 DEF Has
  <2> QED
    BY <2>1, <2>2
<1>6. \A t, u : Follows(w, t, u) => Follows(s, t, u)
  <2> SUFFICES ASSUME NEW t, NEW u, Follows(w, t, u)
               PROVE  Follows(s, t, u)
    OBVIOUS
  <2>1. PICK j \in 1..n, k \in 1..n : j < k /\ w[j] = t /\ w[k] = u
    BY <1>3 DEF Follows
  <2>2. PICK a \in 1..Len(s), b \in 1..Len(s) : a < b /\ s[a] = t /\ s[b] = u
    BY <2>1, <1>0, <1>1
  <2> QED
    BY <2>2, <1>0 DEF Follows
<1>7. ASSUME i = 1 PROVE w = Tail(s)
  <2>1. s # <<>>
    BY <1>0
  <2>2. /\ Tail(s) \in Seq(S) /\ Len(Tail(s)) = n
        /\ \A k \in 1..Len(Tail(s)) : Tail(s)[k] = s[k + 1]
    BY <2>1, HeadTailProperties
  <2>3. \A k \in 1..Len(w) : w[k] = Tail(s)[k]
    BY <2>2, <1>7, <1>1, <1>3
  <2> QED
    BY <2>2, <2>3, <1>3, SeqEqual
<1> QED
  BY <1>3, <1>4, <1>5, <1>6, <1>7

\* filter() takes out the hash and keeps the order of the others.
LEMMA WithoutFact ==
    ASSUME NEW S, NEW s \in Seq(S), Distinct(s), NEW t \in S
    PROVE  /\ Without(s, t) \in Seq(S) /\ Distinct(Without(s, t))
           /\ Len(Without(s, t)) <= Len(s)
           /\ (Has(s, t) => Len(Without(s, t)) = Len(s) - 1)
           /\ \A u : Has(Without(s, t), u) <=> Has(s, u) /\ u # t
           /\ \A u, v : Follows(Without(s, t), u, v) => Follows(s, u, v)
           /\ s # <<>> /\ s[1] = t => Without(s, t) = Tail(s)
<1> DEFINE w == Without(s, t)
<1> HIDE DEF w
<1>0. Len(s) \in Nat /\ DOMAIN s = 1..Len(s)
  BY LenProperties
<1>1. ASSUME ~Has(s, t)
      PROVE  /\ w \in Seq(S) /\ Distinct(w)
             /\ Len(w) <= Len(s) /\ (Has(s, t) => Len(w) = Len(s) - 1)
             /\ \A u : Has(w, u) <=> Has(s, u) /\ u # t
             /\ \A u, v : Follows(w, u, v) => Follows(s, u, v)
             /\ s # <<>> /\ s[1] = t => w = Tail(s)
  <2>1. w = s
    BY <1>1 DEF Without, w
  <2>2. ~(s # <<>> /\ s[1] = t)
    BY <1>0, <1>1, EmptySeq DEF Has
  <2>3. \A u : Has(s, u) => u # t
    BY <1>1
  <2>4. Len(s) <= Len(s)
    BY <1>0
  <2> QED
    BY <1>1, <2>1, <2>2, <2>3, <2>4, Zenon
<1>2. ASSUME Has(s, t)
      PROVE  /\ w \in Seq(S) /\ Distinct(w)
             /\ Len(w) <= Len(s) /\ (Has(s, t) => Len(w) = Len(s) - 1)
             /\ \A u : Has(w, u) <=> Has(s, u) /\ u # t
             /\ \A u, v : Follows(w, u, v) => Follows(s, u, v)
             /\ s # <<>> /\ s[1] = t => w = Tail(s)
  <2> DEFINE i == CHOOSE k \in DOMAIN s : s[k] = t
  <2>1. i \in 1..Len(s) /\ s[i] = t
    BY <1>0, <1>2 DEF Has
  <2>2. PICK x : x = w /\ x = [k \in 1..Len(s) - 1 |-> IF k < i THEN s[k] ELSE s[k + 1]]
    BY <1>2 DEF Without, w
  <2>3. s # <<>> /\ s[1] = t => i = 1
    BY <1>0, <2>1 DEF Distinct
  <2> HIDE DEF i
  <2>4. /\ x \in Seq(S) /\ Len(x) = Len(s) - 1 /\ Distinct(x)
        /\ \A u : Has(x, u) <=> Has(s, u) /\ u # s[i]
        /\ \A u, v : Follows(x, u, v) => Follows(s, u, v)
        /\ i = 1 => x = Tail(s)
    BY <2>1, <2>2, RemovedFact
  <2> QED
    BY <1>0, <2>1, <2>2, <2>3, <2>4
<1>3. /\ w \in Seq(S) /\ Distinct(w)
      /\ Len(w) <= Len(s) /\ (Has(s, t) => Len(w) = Len(s) - 1)
      /\ \A u : Has(w, u) <=> Has(s, u) /\ u # t
      /\ \A u, v : Follows(w, u, v) => Follows(s, u, v)
      /\ s # <<>> /\ s[1] = t => w = Tail(s)
  BY <1>1, <1>2
<1> QED
  BY <1>3 DEF w

\* push puts the entry last.
LEMMA AppendFact ==
    ASSUME NEW S, NEW s \in Seq(S), NEW t \in S
    PROVE  /\ Append(s, t) \in Seq(S) /\ Append(s, t) # <<>>
           /\ Len(Append(s, t)) = Len(s) + 1
           /\ Append(s, t)[Len(s) + 1] = t
           /\ \A i \in 1..Len(s) : Append(s, t)[i] = s[i]
           /\ \A u : Has(Append(s, t), u) <=> Has(s, u) \/ u = t
<1> DEFINE a == Append(s, t)
<1>0. Len(s) \in Nat /\ DOMAIN s = 1..Len(s)
  BY LenProperties
<1>1. /\ a \in Seq(S) /\ Len(a) = Len(s) + 1 /\ a # <<>> /\ a[Len(s) + 1] = t
      /\ \A i \in 1..Len(s) : a[i] = s[i]
  BY AppendProperties
<1>2. DOMAIN a = 1..Len(s) + 1
  BY <1>0, <1>1, LenProperties
<1> HIDE DEF a
<1>3. \A u : Has(a, u) <=> Has(s, u) \/ u = t
  BY <1>0, <1>1, <1>2 DEF Has
<1> QED
  BY <1>1, <1>3 DEF a

\* push keeps the order of the others, and a list of distinct entries distinct.
LEMMA AppendOrder ==
    ASSUME NEW S, NEW s \in Seq(S), NEW t \in S
    PROVE  /\ Distinct(s) /\ ~Has(s, t) => Distinct(Append(s, t))
           /\ \A u, v : Follows(Append(s, t), u, v) => Has(s, u)
           /\ \A u, v : Follows(Append(s, t), u, v) => Follows(s, u, v) \/ v = t
           /\ s # <<>> => Head(Append(s, t)) = Head(s)
           /\ s = <<>> => Head(Append(s, t)) = t
<1> DEFINE a == Append(s, t)
<1>0. Len(s) \in Nat /\ DOMAIN s = 1..Len(s)
  BY LenProperties
<1>1. /\ a \in Seq(S) /\ Len(a) = Len(s) + 1 /\ a[Len(s) + 1] = t
      /\ \A i \in 1..Len(s) : a[i] = s[i]
  BY AppendProperties
<1>2. DOMAIN a = 1..Len(s) + 1
  BY <1>0, <1>1, LenProperties
<1>3. /\ s # <<>> => Head(a) = Head(s)
      /\ s = <<>> => Head(a) = t
  BY HeadTailAppend
<1> HIDE DEF a
<1>4. Distinct(s) /\ ~Has(s, t) => Distinct(a)
  BY <1>0, <1>1, <1>2 DEF Has, Distinct
<1>5. \A u, v : Follows(a, u, v) => Has(s, u)
  BY <1>0, <1>1, <1>2 DEF Has, Follows
<1>6. \A u, v : Follows(a, u, v) => Follows(s, u, v) \/ v = t
  BY <1>0, <1>1, <1>2 DEF Has, Follows
<1> QED
  BY <1>3, <1>4, <1>5, <1>6 DEF a

\* shift and Tail take off the first entry, which all the others follow.
LEMMA TailFact ==
    ASSUME NEW S, NEW s \in Seq(S), s # <<>>, Distinct(s)
    PROVE  /\ Head(s) \in S /\ Has(s, Head(s)) /\ Head(s) = s[1]
           /\ Tail(s) \in Seq(S) /\ Distinct(Tail(s))
           /\ Len(Tail(s)) = Len(s) - 1
           /\ \A u : Has(Tail(s), u) <=> Has(s, u) /\ u # Head(s)
           /\ \A u, v : Follows(Tail(s), u, v) => Follows(s, u, v)
           /\ \A u : Has(s, u) /\ u # Head(s) => Follows(s, Head(s), u)
<1> DEFINE n == Len(s) - 1
           w == Tail(s)
<1>0. n \in Nat /\ Len(s) = n + 1
  <2>1. Len(s) \in Nat /\ Len(s) # 0
    BY LenProperties, EmptySeq
  <2> QED
    BY <2>1
<1>n. n \in Nat
  BY <1>0
<1>1. DOMAIN s = 1..n + 1
  BY <1>0, LenProperties
<1>2. /\ Head(s) \in S /\ Head(s) = s[1] /\ w \in Seq(S) /\ Len(w) = n
      /\ \A k \in 1..n : w[k] = s[k + 1]
  BY <1>0, HeadTailProperties
<1>3. DOMAIN w = 1..n
  BY <1>2, LenProperties
<1>4. 1 \in 1..n + 1
  BY <1>0
<1> HIDE DEF w, n
<1>5. Has(s, Head(s))
  BY <1>1, <1>2, <1>4 DEF Has
<1>6. \A u : Has(s, u) /\ u # Head(s) => Follows(s, Head(s), u)
  BY <1>0, <1>1, <1>2, <1>4 DEF Has, Follows
<1>7. Distinct(w)
  <2> SUFFICES ASSUME NEW i \in 1..n, NEW j \in 1..n, w[i] = w[j] PROVE i = j
    BY <1>3 DEF Distinct
  <2>1. i + 1 \in 1..n + 1 /\ j + 1 \in 1..n + 1 /\ (i + 1 = j + 1 => i = j)
    BY <1>n
  <2>2. s[i + 1] = s[j + 1]
    BY <1>2
  <2> QED
    BY <2>1, <2>2, <1>1 DEF Distinct
<1>8. \A u, v : Follows(w, u, v) => Follows(s, u, v)
  <2> SUFFICES ASSUME NEW u, NEW v, Follows(w, u, v) PROVE Follows(s, u, v)
    OBVIOUS
  <2>1. PICK i \in 1..n, j \in 1..n : i < j /\ w[i] = u /\ w[j] = v
    BY <1>3 DEF Follows
  <2>2. i + 1 \in 1..n + 1 /\ j + 1 \in 1..n + 1 /\ i + 1 < j + 1
    BY <2>1, <1>n
  <2> QED
    BY <2>1, <2>2, <1>1, <1>2 DEF Follows
<1>9. ASSUME NEW u PROVE Has(w, u) <=> Has(s, u) /\ u # Head(s)
  <2>1. ASSUME Has(w, u) PROVE Has(s, u) /\ u # Head(s)
    <3>1. PICK k \in 1..n : w[k] = u
      BY <2>1, <1>3 DEF Has
    <3>2. k + 1 \in 1..n + 1 /\ k + 1 # 1 /\ s[k + 1] = u
      BY <3>1, <1>n, <1>2
    <3> QED
      BY <3>2, <1>1, <1>2, <1>4 DEF Has, Distinct
  <2>2. ASSUME Has(s, u), u # Head(s) PROVE Has(w, u)
    <3>1. PICK k \in 1..n + 1 : s[k] = u
      BY <2>2, <1>1 DEF Has
    <3>2. k - 1 \in 1..n /\ (k - 1) + 1 = k
      BY <3>1, <2>2, <1>n, <1>2
    <3> QED
      BY <3>1, <3>2, <1>2, <1>3 DEF Has
  <2> QED
    BY <2>1, <2>2
<1> QED
  BY <1>2, <1>5, <1>6, <1>7, <1>8, <1>9 DEF w, n

\* slice(-n) cuts the oldest entries off.
LEMMA LastOfFact ==
    ASSUME NEW S, NEW s \in Seq(S), Distinct(s), NEW n \in Nat, n > 0, Len(s) <= n + 1,
           NEW w, w = LastOf(s, n)
    PROVE  /\ w \in Seq(S) /\ Distinct(w) /\ Len(w) <= n
           /\ \A u : Has(w, u) => Has(s, u)
           /\ \A u : Has(s, u) /\ ~Has(w, u) => Len(s) = n + 1 /\ s[1] = u
           /\ \A u, v : Follows(w, u, v) => Follows(s, u, v)
           /\ Len(s) = n + 1 => Len(w) = n
<1>0. Len(s) \in Nat /\ DOMAIN s = 1..Len(s)
  BY LenProperties
<1>1. CASE Len(s) <= n
  <2>1. w = s
    BY <1>0, <1>1 DEF LastOf
  <2> QED
    BY <1>1, <2>1
<1>2. CASE Len(s) = n + 1
  <2>1. w = SubSeq(s, 2, n + 1)
    BY <1>0, <1>2 DEF LastOf
  <2>2. w = Tail(s)
    BY <2>1, <1>0, <1>2, EmptySeq, TailIsSubSeq
  <2>3. /\ w \in Seq(S) /\ Len(w) = n
        /\ \A i \in 1..n : w[i] = s[i + 1]
    BY <2>2, <1>0, <1>2, EmptySeq, HeadTailProperties
  <2>4. DOMAIN w = 1..n
    BY <2>3, LenProperties
  <2>5. Distinct(w)
    <3> SUFFICES ASSUME NEW j \in 1..n, NEW k \in 1..n, w[j] = w[k] PROVE j = k
      BY <2>4 DEF Distinct
    <3>1. s[j + 1] = s[k + 1] /\ j + 1 \in 1..n + 1 /\ k + 1 \in 1..n + 1
      BY <2>3
    <3> QED
      BY <3>1, <1>0, <1>2 DEF Distinct
  <2>6. \A u : Has(w, u) => Has(s, u)
    BY <1>0, <1>2, <2>3, <2>4 DEF Has
  <2>7. ASSUME NEW u, Has(s, u), ~Has(w, u) PROVE s[1] = u
    <3>1. PICK k \in 1..n + 1 : s[k] = u
      BY <2>7, <1>0, <1>2 DEF Has
    <3>2. CASE k # 1
      <4>1. k - 1 \in 1..n /\ (k - 1) + 1 = k
        BY <3>2
      <4> QED
        BY <4>1, <3>1, <2>3, <2>4, <2>7 DEF Has
    <3> QED
      BY <3>1, <3>2
  <2>8. ASSUME NEW u, NEW v, Follows(w, u, v)
        PROVE  Follows(s, u, v)
    <3>1. PICK j \in 1..n, k \in 1..n : j < k /\ w[j] = u /\ w[k] = v
      BY <2>8, <2>4 DEF Follows
    <3>2. j + 1 \in 1..n + 1 /\ k + 1 \in 1..n + 1 /\ j + 1 < k + 1
      BY <3>1
    <3> QED
      BY <3>1, <3>2, <2>3, <1>0, <1>2 DEF Follows
  <2> QED
    BY <1>2, <2>3, <2>5, <2>6, <2>7, <2>8
<1>3. Len(s) \in Nat
  BY <1>0
<1>4. Len(s) <= n \/ Len(s) = n + 1
  BY <1>3
<1> QED
  BY <1>1, <1>2, <1>4

\* What a history keeps of its entries when a hash is remembered: the hash is
\* its last entry, and only the oldest one may have been cut off for it.
LEMMA RememberFact ==
    ASSUME NEW S, NEW s \in Seq(S), Distinct(s), NEW n \in Nat, n > 0, Len(s) <= n,
           NEW t \in S
    PROVE  /\ Remember(s, t, n) \in Seq(S) /\ Distinct(Remember(s, t, n))
           /\ Len(Remember(s, t, n)) <= n
           /\ Has(Remember(s, t, n), t)
           /\ \A u : Has(Remember(s, t, n), u) => Has(s, u) \/ u = t
           /\ \A u : ~Follows(Remember(s, t, n), t, u)
           /\ \A u, v : Follows(Remember(s, t, n), u, v) => Has(s, u)
           /\ \A u, v :
                 Follows(Remember(s, t, n), u, v) => Follows(s, u, v) \/ v = t
           /\ \A u : u # t /\ Has(s, u) /\ ~Has(Remember(s, t, n), u) =>
                 /\ Len(s) = n /\ s[1] = u /\ ~Has(s, t)
                 /\ Len(Remember(s, t, n)) = n
<1> DEFINE w == Remember(s, t, n)
<1> HIDE DEF w
<1>0. Len(s) \in Nat /\ DOMAIN s = 1..Len(s)
  BY LenProperties
<1> DEFINE b == Without(s, t)
           a == Append(b, t)
<1>1. b = Without(s, t) /\ a = Append(b, t)
  OBVIOUS
<1> HIDE DEF a, b
<1>3. w = LastOf(a, n)
  BY <1>1 DEF Remember, w
<1>4. /\ b \in Seq(S) /\ Distinct(b)
      /\ Len(b) <= Len(s) /\ (Has(s, t) => Len(b) = Len(s) - 1)
      /\ \A u : Has(b, u) <=> Has(s, u) /\ u # t
      /\ \A u, v : Follows(b, u, v) => Follows(s, u, v)
  BY <1>1, WithoutFact
<1>5. ~Has(b, t) /\ DOMAIN b = 1..Len(b)
  BY <1>4, LenProperties
<1>l. Len(s) \in Nat /\ Len(b) \in Nat /\ Len(b) <= Len(s) /\ Len(b) <= n
  <2>1. Len(s) \in Nat /\ Len(b) \in Nat /\ Len(b) <= Len(s)
    BY <1>4, LenProperties
  <2> QED
    BY <2>1
<1>6. /\ a \in Seq(S) /\ Len(a) = Len(b) + 1 /\ Distinct(a)
      /\ \A i \in 1..Len(b) : a[i] = b[i]
      /\ \A u : Has(a, u) <=> Has(b, u) \/ u = t
      /\ \A u, v : Follows(a, u, v) => Has(b, u)
      /\ \A u, v :
            Follows(a, u, v) => Follows(b, u, v) \/ v = t
  BY <1>1, <1>4, <1>5, AppendFact, AppendOrder
<1>7. /\ w \in Seq(S) /\ Distinct(w) /\ Len(w) <= n
      /\ \A u : Has(w, u) => Has(a, u)
      /\ \A u : Has(a, u) /\ ~Has(w, u) => Len(a) = n + 1 /\ a[1] = u
      /\ \A u, v : Follows(w, u, v) => Follows(a, u, v)
      /\ Len(a) = n + 1 => Len(w) = n
  <2>1. Len(a) <= n + 1
    <3>1. Len(a) = Len(b) + 1
      BY <1>6
    <3> QED
      BY <3>1, <1>l
  <2> QED
    BY <2>1, <1>3, <1>6, LastOfFact
<1>8. Has(w, t)
  <2>1. CASE Has(w, t)
    BY <2>1
  <2>2. CASE ~Has(w, t)
    <3>1. Len(a) = n + 1 /\ a[1] = t
      BY <2>2, <1>6, <1>7
    <3>2. Len(b) = n /\ n >= 1
      <4>1. Len(a) = Len(b) + 1 /\ Len(a) = n + 1
        BY <3>1, <1>6
      <4> QED
        BY <4>1, <1>l
    <3>3. a[1] = b[1] /\ 1 \in 1..Len(b)
      BY <3>2, <1>6
    <3> QED
      BY <3>1, <3>3, <1>5 DEF Has
  <2> QED
    BY <2>1, <2>2
<1>9. ASSUME NEW u, u # t, Has(s, u), ~Has(w, u)
      PROVE  Len(s) = n /\ s[1] = u /\ ~Has(s, t) /\ Len(w) = n
  <2>1. Len(a) = n + 1 /\ a[1] = u
    BY <1>9, <1>4, <1>6, <1>7
  <2>2. Len(b) = n /\ n >= 1
    <3>1. Len(a) = Len(b) + 1
      BY <1>6
    <3> QED
      BY <3>1, <2>1, <1>l
  <2>5. b[1] = u
    BY <2>1, <2>2, <1>6
  <2>3. ~Has(s, t) /\ Len(s) = n
    <3>1. Has(s, t) => Len(b) = Len(s) - 1
      BY <1>4
    <3>2. Len(s) = n
      BY <2>2, <1>l
    <3> QED
      BY <3>1, <3>2, <2>2, <1>l
  <2>4. b = s
    BY <1>1, <2>3 DEF Without
  <2> QED
    BY <1>7, <2>1, <2>5, <2>3, <2>4
<1>10. \A u, v : Follows(w, u, v) => Has(s, u)
  BY <1>4, <1>6, <1>7
<1>11. \A u, v : Follows(w, u, v) => Follows(s, u, v) \/ v = t
  BY <1>4, <1>6, <1>7
<1>12. \A u : ~Follows(w, t, u)
  BY <1>5, <1>6, <1>7
<1>13. \A u : Has(w, u) => Has(s, u) \/ u = t
  BY <1>4, <1>6, <1>7
<1> QED
  BY <1>7, <1>8, <1>9, <1>10, <1>11, <1>12, <1>13 DEF w

-----------------------------------------------------------------------------
\* Entries of a list of hashes are hashes.
LEMMA HasFact ==
    ASSUME NEW S, NEW s \in Seq(S), NEW u, Has(s, u)
    PROVE  s # <<>> /\ u \in S
<1>1. PICK i \in 1..Len(s) : s[i] = u
  BY LenProperties DEF Has
<1> QED
  BY <1>1, LenProperties, ElementOfSeq, EmptySeq

\* What a request that is not free is about.
LEMMA RequestFact ==
    ASSUME TypeOK, Requests, Line, NEW r \in Slot, request[r].step # "free"
    PROVE  /\ request[r].trade \in Trade /\ request[r] # Free
           /\ request[r].kind \in {"trade", "delivered", "resend", "resending"}
           /\ request[r].step \in {"queued", "sending"}
           /\ request[r].trade \in confirmed \ staged
           /\ Has(pending, request[r].trade) => request[r].trade = Head(pending)
           /\ Has(chain, r) /\ chain # <<>>
<1>1. request[r] # Free
  BY DEF Free
<1>2. Has(chain, r)
  BY <1>1 DEF Line
<1>3. chain # <<>>
  BY <1>2, HasFact DEF TypeOK
<1> QED
  BY <1>1, <1>2, <1>3 DEF Requests, TypeOK

\* What the first request of the chain leaves behind when it is taken off.
LEMMA LeadFact ==
    ASSUME TypeOK, Requests, Line, NEW r \in Slot,
           Turn(r) \/ request[r].step = "sending"
    PROVE  /\ chain # <<>> /\ Head(chain) = r /\ request[r].step # "free"
           /\ Tail(chain) \in Seq(Slot) /\ Distinct(Tail(chain))
           /\ \A q : Has(Tail(chain), q) <=> Has(chain, q) /\ q # r
           /\ \A p, q : Follows(Tail(chain), p, q) => Follows(chain, p, q)
           /\ \A q : Has(chain, q) /\ q # r => Follows(chain, r, q)
<1>1. request[r].step # "free" /\ Head(chain) = r
  BY DEF Turn, Line
<1>2. chain # <<>> /\ chain \in Seq(Slot) /\ Distinct(chain)
  BY <1>1, RequestFact DEF TypeOK, Line
<1> QED
  BY <1>1, <1>2, TailFact

\* Nothing is being sent while the lock is free to take.
LEMMA FreeLockFact ==
    ASSUME Line, NEW r \in Slot, MayLock(r), NEW q \in Slot
    PROVE  request[q].step # "sending"
BY DEF Line, MayLock, Sending

\* The head of what is left to post is the head of the outbox.
LEMMA TodoFact ==
    ASSUME TypeOK, Outboxes, todo # <<>>
    PROVE  /\ pending # <<>> /\ Head(todo) \in Trade /\ Head(todo) = Head(pending)
           /\ Has(todo, Head(todo)) /\ Has(pending, Head(todo))
           /\ Head(pending) = pending[1]
<1>1. /\ todo \in Seq(Trade) /\ pending \in Seq(Trade)
      /\ Len(todo) \in Nat /\ Len(todo) # 0 /\ Len(pending) \in Nat
  BY EmptySeq, LenProperties DEF TypeOK
<1>2. Len(todo) <= Len(pending)
  BY DEF Outboxes
<1>3. 1 \in 1..Len(todo) /\ Len(pending) # 0
  BY <1>1, <1>2
<1>4. pending # <<>> /\ 1 \in 1..Len(pending)
  BY <1>1, <1>3, EmptySeq
<1>5. /\ Head(todo) = todo[1] /\ Head(pending) = pending[1]
      /\ Head(todo) \in Trade
  BY <1>1, <1>4, HeadTailProperties
<1>6. todo[1] = pending[1]
  BY <1>3 DEF Outboxes
<1>7. Has(todo, todo[1]) /\ Has(pending, pending[1])
  BY <1>1, <1>3, <1>4, LenProperties DEF Has
<1> QED
  BY <1>4, <1>5, <1>6, <1>7

-----------------------------------------------------------------------------
\* Every step keeps the types.
LEMMA TypeOKNext == ASSUME DeliveryInv, [Next]_vars PROVE TypeOK'
<1> USE DEF DeliveryInv
<1>e. <<>> \in Seq(Trade) /\ <<>> \in Seq(Slot)
  BY EmptySeq
<1> DEFINE Request == [kind : {"none", "trade", "delivered", "resend", "resending"},
                       trade : Trade \cup {NoTrade}, step : {"free", "queued", "sending"}]
<1>1. ASSUME NEW t \in Trade, Confirm(t) PROVE TypeOK'
  BY <1>1, NullAssumption DEF TypeOK, Confirm, flushVars, bridgeVars, fileVars
<1>2. ASSUME NEW t \in Trade, Outbox(t) PROVE pending' \in Seq(Trade)
  BY <1>2, AppendProperties DEF Outbox, TypeOK
<1>3. CASE Queue
  BY <1>3, <1>2, NullAssumption
  DEF TypeOK, Queue, flushVars, bridgeVars, fileVars, worldVars
<1>4. ASSUME NEW t \in Trade, Recover(t) PROVE TypeOK'
  BY <1>4, <1>2, NullAssumption
  DEF TypeOK, Recover, flushVars, bridgeVars, fileVars, worldVars
<1>5. CASE Acknowledge \/ RecoverAcknowledge \/ Recovered \/ NextPass
  BY <1>5, NullAssumption
  DEF TypeOK, Acknowledge, RecoverAcknowledge, Recovered, NextPass, StartFlush,
      flushVars, bridgeVars, fileVars, worldVars
<1>6. CASE QueueFails
  BY <1>6, NullAssumption
  DEF TypeOK, QueueFails, Mishap, flushVars, bridgeVars, fileVars
<1>7. CASE BotCrash
  <2>1. todo' \in Seq(Trade)
    BY <1>7, <1>e DEF BotCrash
  <2>2. mishaps' \in Nat
    BY <1>7 DEF BotCrash, Mishap, TypeOK
  <2>3. /\ phase' = "recover" /\ moving' = NoTrade /\ flushing' = FALSE
        /\ call' = NoSlot /\ answer' = "none"
    BY <1>7 DEF BotCrash
  <2>4. UNCHANGED <<staged, pending, botDelivered, enabled, lock, request, chain,
                    inFlight, delivered, audit, confirmed, announced, waived>>
    BY <1>7 DEF BotCrash, bridgeVars, fileVars
  <2> QED
    BY <2>1, <2>2, <2>3, <2>4 DEF TypeOK
<1>8. CASE PostFails \/ PostTimesOut
  BY <1>8 DEF TypeOK, PostFails, PostTimesOut, Mishap, botVars, bridgeVars, fileVars
<1>23. CASE FlushEnds
  <2>1. todo' \in Seq(Trade)
    BY <1>23, <1>e DEF FlushEnds
  <2> QED
    BY <1>23, <2>1 DEF TypeOK, FlushEnds, botVars, bridgeVars, fileVars, worldVars
<1>9. ASSUME NEW r \in Slot, NEW t \in Trade,
             NEW k \in {"trade", "delivered", "resend"}, Enqueue(r, k, t)
      PROVE  /\ request' \in [Slot -> Request]
             /\ chain' \in Seq(Slot)
  BY <1>9, AppendProperties DEF TypeOK, Enqueue
<1>10. ASSUME NEW r \in Slot, Post(r) PROVE TypeOK'
  <2>1. Head(todo) \in Trade
    BY <1>10, TodoFact DEF Post, MayPost
  <2> QED
    BY <1>10, <2>1, <1>9
    DEF TypeOK, Post, Enqueue, botVars, bridgeVars, fileVars
<1>11. ASSUME NEW r \in Slot, NEW k \in {"delivered", "resend"}, NEW t \in Trade,
              Operator(r, k, t)
       PROVE  TypeOK'
  BY <1>11, <1>9
  DEF TypeOK, Operator, Enqueue, botVars, flushVars, fileVars, worldVars
<1>12. CASE MarkDelivered
  <2>1. Head(todo) \in Trade /\ todo # <<>> /\ Distinct(pending) /\ Distinct(botDelivered)
    BY <1>12, TodoFact DEF MarkDelivered, Calls, Outboxes, Histories
  <2>2. Tail(todo) \in Seq(Trade)
    BY <2>1, HeadTailProperties DEF TypeOK
  <2>3. pending' \in Seq(Trade)
    BY <1>12, <2>1, WithoutFact DEF MarkDelivered, TypeOK
  <2>4. botDelivered' \in Seq(Trade) /\ Len(botDelivered') <= BotHistory
    <3>1. /\ botDelivered' = Remember(botDelivered, Head(todo), BotHistory)
          /\ botDelivered \in Seq(Trade) /\ Len(botDelivered) <= BotHistory
      BY <1>12 DEF MarkDelivered, TypeOK
    <3>2. BotHistory \in Nat /\ BotHistory > 0
      BY HistoryAssumption
    <3>3. /\ Remember(botDelivered, Head(todo), BotHistory) \in Seq(Trade)
          /\ Len(Remember(botDelivered, Head(todo), BotHistory)) <= BotHistory
      BY <2>1, <3>1, <3>2, RememberFact
    <3> QED
      BY <3>1, <3>3
  <2> QED
    BY <1>12, <2>2, <2>3, <2>4
    DEF TypeOK, MarkDelivered, bridgeVars, fileVars, worldVars
<1>13. ASSUME NEW r \in Slot, NEW v \in {"ok", "fail"}, Reply(r, v)
       PROVE  /\ request' \in [Slot -> Request]
              /\ call' \in Slot \cup {NoSlot} /\ answer' \in {"none", "ok", "fail"}
              /\ flushing' = flushing /\ todo' = todo
  BY <1>13 DEF Reply, Free, TypeOK
<1>14. ASSUME NEW r \in Slot, Busy(r) PROVE TypeOK'
  <2>1. Tail(chain) \in Seq(Slot)
    BY <1>14, LeadFact DEF Busy
  <2> QED
    BY <1>14, <2>1, <1>13 DEF TypeOK, Busy, botVars, fileVars, worldVars
<1>15. ASSUME NEW s \in Seq(Trade), Distinct(s), Len(s) <= MaxHistory,
              NEW t \in Trade
       PROVE  /\ Remember(s, t, MaxHistory) \in Seq(Trade)
              /\ Len(Remember(s, t, MaxHistory)) <= MaxHistory
              /\ Without(s, t) \in Seq(Trade)
              /\ Len(Without(s, t)) <= MaxHistory
  <2>1. /\ Remember(s, t, MaxHistory) \in Seq(Trade)
        /\ Len(Remember(s, t, MaxHistory)) <= MaxHistory
    BY <1>15, RememberFact, HistoryAssumption
  <2>2. /\ Without(s, t) \in Seq(Trade)
        /\ Len(Without(s, t)) <= Len(s)
    BY <1>15, WithoutFact
  <2>3. Len(Without(s, t)) \in Nat /\ Len(s) \in Nat /\ MaxHistory \in Nat
    BY <2>2, LenProperties, HistoryAssumption
  <2>4. Len(Without(s, t)) <= MaxHistory
    BY <1>15, <2>2, <2>3
  <2> QED
    BY <2>1, <2>2, <2>4
<1>16. ASSUME NEW r \in Slot, Resolve(r) PROVE TypeOK'
  <2>1. Tail(chain) \in Seq(Slot) /\ request[r].trade \in Trade
    BY <1>16, LeadFact, RequestFact DEF Resolve, MayLock
  <2>2. /\ inFlight' \in Seq(Trade) /\ Len(inFlight') <= MaxHistory
        /\ delivered' \in Seq(Trade) /\ Len(delivered') <= MaxHistory
    BY <1>16, <2>1, <1>15 DEF Resolve, TypeOK, Histories, fileVars
  <2>3. audit' \in SUBSET Event
    BY <1>16, <2>1 DEF Resolve, TypeOK, Logged, Event, fileVars
  <2> QED
    BY <1>16, <2>1, <2>2, <2>3, <1>13 DEF TypeOK, Resolve, botVars, worldVars
<1>17. ASSUME NEW r \in Slot, ClaimResend(r) PROVE TypeOK'
  <2>1. Tail(chain) \in Seq(Slot) /\ request[r].trade \in Trade
    BY <1>17, LeadFact, RequestFact DEF ClaimResend, MayLock
  <2>2. Append(Tail(chain), r) \in Seq(Slot)
    BY <2>1, AppendProperties
  <2>3. CASE MayResend(request[r].trade)
    <3>1. request' \in [Slot -> Request]
      <4>1. request' = [request EXCEPT ![r].kind = "resending"]
        BY <1>17, <2>3 DEF ClaimResend
      <4> QED
        BY <4>1 DEF TypeOK
    <3>2. audit' \in SUBSET Event
      BY <1>17, <2>1, <2>3 DEF ClaimResend, TypeOK, Logged, Event
    <3> QED
      BY <1>17, <2>2, <2>3, <3>1, <3>2
      DEF TypeOK, ClaimResend, botVars, flushVars, worldVars
  <2>4. CASE ~MayResend(request[r].trade)
    BY <1>17, <2>1, <2>4, <1>13 DEF TypeOK, ClaimResend, botVars, worldVars
  <2> QED
    BY <2>3, <2>4
<1>18. ASSUME NEW r \in Slot, Deliver(r) PROVE TypeOK'
  <2>1. Tail(chain) \in Seq(Slot) /\ request[r].trade \in Trade
    BY <1>18, LeadFact, RequestFact DEF Deliver, MayLock
  <2>2. CASE Has(delivered, request[r].trade) \/ Blocked(r)
    BY <1>18, <2>1, <2>2, <1>13 DEF TypeOK, Deliver, botVars, worldVars
  <2>3. CASE ~(Has(delivered, request[r].trade) \/ Blocked(r))
    <3>1. inFlight' \in Seq(Trade) /\ Len(inFlight') <= MaxHistory
      BY <1>18, <2>1, <2>3, <1>15 DEF Deliver, TypeOK, Histories
    <3>2. request' \in [Slot -> Request]
      BY <1>18, <2>3 DEF Deliver, TypeOK
    <3> QED
      BY <1>18, <2>3, <3>1, <3>2 DEF TypeOK, Deliver, botVars, flushVars, worldVars
  <2> QED
    BY <2>2, <2>3
<1>19. ASSUME NEW r \in Slot, NEW o \in {"delivered", "rejected", "unknown"},
              NEW a \in BOOLEAN, Sent(r, o, a)
       PROVE  TypeOK'
  <2>1. Tail(chain) \in Seq(Slot) /\ request[r].trade \in Trade
    BY <1>19, LeadFact, RequestFact DEF Sent
  <2>2. inFlight' \in Seq(Trade) /\ Len(inFlight') <= MaxHistory
    BY <1>19, <2>1, <1>15 DEF Sent, TypeOK, Histories
  <2>3. delivered' \in Seq(Trade) /\ Len(delivered') <= MaxHistory
    BY <1>19, <2>1, <1>15 DEF Sent, TypeOK, Histories
  <2>4. audit' \in SUBSET Event
    BY <1>19, <2>1 DEF Sent, TypeOK, Logged, Event
  <2>5. announced' \in [Trade -> Nat]
    <3>1. CASE a
      BY <1>19, <2>1, <3>1 DEF Sent, TypeOK
    <3>2. CASE ~a
      BY <1>19, <3>2 DEF Sent, TypeOK
    <3> QED
      BY <3>1, <3>2
  <2>6. mishaps' \in Nat
    BY <1>19 DEF Sent, TypeOK, Mishap
  <2> QED
    BY <1>19, <2>1, <2>2, <2>3, <2>4, <2>5, <2>6, <1>13 DEF TypeOK, Sent, botVars
<1>20. CASE BridgeCrash
  <2>1. announced' \in [Trade -> Nat] /\ mishaps' \in Nat
    BY <1>20 DEF BridgeCrash, TypeOK, Mishap
  <2>2. lock' \in {"none", "held", "dead", "blank"} /\ enabled' \in BOOLEAN
    BY <1>20, BoundAssumption DEF BridgeCrash, TypeOK, LeftLock
  <2> QED
    BY <1>20, <2>1, <2>2, <1>e
    DEF TypeOK, BridgeCrash, Free, botVars, fileVars
<1>21. CASE LockAges
  BY <1>21 DEF TypeOK, LockAges, botVars, flushVars, fileVars, worldVars
<1>22. CASE UNCHANGED vars
  BY <1>22
  DEF TypeOK, vars, botVars, flushVars, bridgeVars, fileVars, worldVars
<1> QED
  BY <1>1, <1>3, <1>4, <1>5, <1>6, <1>7, <1>8, <1>10, <1>11, <1>12, <1>14,
     <1>16, <1>17, <1>18, <1>19, <1>20, <1>21, <1>22, <1>23 DEF Next, BotStep, Delivery

-----------------------------------------------------------------------------
\* The steps of the bot other than its calls of the bridge.
BotAlone ==
    \/ \E t \in Trade : Confirm(t) \/ Recover(t)
    \/ Queue \/ QueueFails \/ Acknowledge \/ RecoverAcknowledge \/ Recovered
    \/ NextPass \/ PostFails \/ PostTimesOut \/ MarkDelivered \/ FlushEnds
    \/ BotCrash

\* They leave the bridge and its files alone.
LEMMA BotAloneFact ==
    ASSUME BotAlone
    PROVE  UNCHANGED <<bridgeVars, fileVars, announced, waived>>
BY DEF BotAlone, Confirm, Recover, Queue, QueueFails, Acknowledge,
   RecoverAcknowledge, Recovered, NextPass, PostFails, PostTimesOut,
   MarkDelivered, FlushEnds, BotCrash, bridgeVars, fileVars, worldVars

\* A request that comes in is the last of the chain.
LEMMA EnterFact ==
    ASSUME TypeOK, Line, enabled, NEW r \in Slot, NEW t \in Trade,
           NEW k \in {"trade", "delivered", "resend"}, Enqueue(r, k, t)
    PROVE  /\ Line'
           /\ request[r] = Free
           /\ request'[r] = [kind |-> k, trade |-> t, step |-> "queued"]
           /\ \A q \in Slot : q # r => request'[q] = request[q]
           /\ \A p, q : Follows(chain', p, q) => Has(chain, p)
           /\ \A p, q : Follows(chain', p, q) => Follows(chain, p, q) \/ q = r
<1>1. /\ request[r] = Free /\ request'[r] = [kind |-> k, trade |-> t, step |-> "queued"]
      /\ \A q \in Slot : q # r => request'[q] = request[q]
      /\ chain' = Append(chain, r) /\ enabled' = enabled /\ lock' = lock
  BY DEF Enqueue, TypeOK
<1>2. request'[r] # Free /\ request'[r].step = "queued" /\ request[r].step = "free"
  BY <1>1 DEF Free
<1>3. ~Has(chain, r)
  BY <1>1 DEF Line
<1>4. /\ Distinct(chain')
      /\ chain # <<>> => Head(chain') = Head(chain)
  BY <1>1, <1>3, AppendOrder DEF TypeOK, Line
<1>5. \A q : Has(chain', q) <=> Has(chain, q) \/ q = r
  BY <1>1, AppendFact DEF TypeOK
<1>6. \A p, q : Follows(chain', p, q) => Has(chain, p)
  BY <1>1, AppendOrder DEF TypeOK
<1>7. \A p, q : Follows(chain', p, q) => Follows(chain, p, q) \/ q = r
  BY <1>1, AppendOrder DEF TypeOK
<1>8. Sending' = Sending
  BY <1>1, <1>2 DEF Sending
<1>9. \A q \in Slot : request'[q] # Free <=> Has(chain', q)
  BY <1>1, <1>2, <1>5 DEF Line
<1>10. ASSUME NEW q \in Slot, request'[q].step = "sending" PROVE Head(chain') = q
  <2>1. q # r /\ request[q].step = "sending" /\ Head(chain) = q
    BY <1>10, <1>1, <1>2 DEF Line
  <2>2. request[q] # Free
    BY <2>1 DEF Free
  <2>3. Has(chain, q)
    BY <2>2 DEF Line
  <2>4. chain # <<>>
    BY <2>3, HasFact DEF TypeOK
  <2> QED
    BY <2>1, <2>4, <1>4
<1>11. Line'
  BY <1>1, <1>4, <1>8, <1>9, <1>10 DEF Line
<1> QED
  BY <1>1, <1>6, <1>7, <1>11, Zenon

\* The first request leaves the chain with its answer.
LEMMA LeaveFact ==
    ASSUME TypeOK, Requests, Line, NEW r \in Slot, NEW v \in {"ok", "fail"},
           Turn(r) \/ request[r].step = "sending", Reply(r, v),
           \A q \in Slot : q # r => request[q].step # "sending",
           chain' = Tail(chain), enabled' = enabled, lock' # "held"
    PROVE  /\ Line'
           /\ request'[r] = Free /\ \A q \in Slot : q # r => request'[q] = request[q]
           /\ \A p, q : Follows(chain', p, q) => Follows(chain, p, q)
           /\ \A q \in Slot : q # r /\ request[q] # Free => Follows(chain, r, q)
<1>1. /\ request'[r] = Free /\ \A q \in Slot : q # r => request'[q] = request[q]
  BY DEF Reply, TypeOK
<1>2. /\ Distinct(chain')
      /\ \A q : Has(chain', q) <=> Has(chain, q) /\ q # r
      /\ \A p, q : Follows(chain', p, q) => Follows(chain, p, q)
      /\ \A q : Has(chain, q) /\ q # r => Follows(chain, r, q)
      /\ chain # <<>>
  BY LeadFact
<1>3. \A q \in Slot : request'[q].step # "sending"
  BY <1>1 DEF Free
<1>4. Sending' = {}
  BY <1>3 DEF Sending
<1>5. \A q \in Slot : request'[q] # Free <=> Has(chain', q)
  BY <1>1, <1>2 DEF Line
<1>6. ~enabled' => chain' = <<>>
  BY <1>2 DEF Line
<1>7. Line'
  BY <1>2, <1>3, <1>4, <1>5, <1>6 DEF Line
<1> QED
  BY <1>1, <1>2, <1>7 DEF Line

\* The claim of a resend goes to the end of the chain again.
LEMMA ClaimFact ==
    ASSUME TypeOK, Requests, Line, NEW r \in Slot, ClaimResend(r),
           MayResend(request[r].trade)
    PROVE  /\ Line'
           /\ request'[r].kind = "resending" /\ request'[r].step = "queued"
           /\ request'[r].trade = request[r].trade /\ request'[r] # Free
           /\ \A q \in Slot : q # r => request'[q] = request[q]
           /\ \A p, q : Follows(chain', p, q) => Follows(chain, p, q) \/ q = r
           /\ audit' = audit \cup {Logged(request[r].trade, "resend", "requested")}
           /\ UNCHANGED flushVars
<1>1. /\ request' = [request EXCEPT ![r].kind = "resending"]
      /\ chain' = Append(Tail(chain), r) /\ enabled' = enabled /\ lock' = "none"
      /\ audit' = audit \cup {Logged(request[r].trade, "resend", "requested")}
      /\ UNCHANGED flushVars
      /\ Turn(r) /\ MayLock(r)
  BY DEF ClaimResend, MayLock
<1>2. request[r].step = "queued"
  BY <1>1 DEF Turn
<1>3. /\ request'[r].kind = "resending" /\ request'[r].step = "queued"
      /\ request'[r].trade = request[r].trade
      /\ \A q \in Slot : q # r => request'[q] = request[q]
  BY <1>1, <1>2 DEF TypeOK
<1>4. /\ Tail(chain) \in Seq(Slot) /\ Distinct(Tail(chain))
      /\ \A q : Has(Tail(chain), q) <=> Has(chain, q) /\ q # r
      /\ \A p, q : Follows(Tail(chain), p, q) => Follows(chain, p, q)
      /\ chain # <<>>
  BY <1>1, LeadFact
<1>5. ~Has(Tail(chain), r)
  BY <1>4
<1>6. Distinct(chain')
  BY <1>1, <1>4, <1>5, AppendOrder
<1>7. \A q : Has(chain', q) <=> Has(Tail(chain), q) \/ q = r
  BY <1>1, <1>4, AppendFact
<1>8. \A p, q : Follows(chain', p, q) => Follows(Tail(chain), p, q) \/ q = r
  BY <1>1, <1>4, AppendOrder
<1>9. request'[r] # Free
  BY <1>3 DEF Free
<1>10. \A q \in Slot : request[q].step # "sending"
  BY <1>1, FreeLockFact
<1>11. \A q \in Slot : request'[q].step # "sending"
  BY <1>10, <1>3
<1>12. Sending' = {}
  BY <1>11 DEF Sending
<1>13. Has(chain, r)
  BY <1>2, RequestFact
<1>14. \A q \in Slot : request'[q] # Free <=> Has(chain', q)
  BY <1>3, <1>4, <1>7, <1>9, <1>13 DEF Line
<1>15. enabled'
  BY <1>1, <1>4 DEF Line
<1>16. Line'
  BY <1>1, <1>6, <1>11, <1>12, <1>14, <1>15 DEF Line
<1> QED
  BY <1>1, <1>3, <1>4, <1>8, <1>9, <1>16

\* The first request goes to Telegram.
LEMMA BeginFact ==
    ASSUME TypeOK, Requests, Line, NEW r \in Slot, Deliver(r),
           ~(Has(delivered, request[r].trade) \/ Blocked(r))
    PROVE  /\ Line'
           /\ request'[r] = [request[r] EXCEPT !.step = "sending"]
           /\ request'[r].kind = request[r].kind /\ request'[r].step = "sending"
           /\ request'[r].trade = request[r].trade /\ request'[r] # Free
           /\ \A q \in Slot : q # r => request'[q] = request[q]
           /\ \A q \in Slot : request[q].step # "sending"
           /\ chain' = chain /\ UNCHANGED flushVars
           /\ inFlight' = Remember(inFlight, request[r].trade, MaxHistory)
<1>1. /\ request' = [request EXCEPT ![r].step = "sending"]
      /\ chain' = chain /\ enabled' = enabled /\ lock' = "held"
      /\ inFlight' = Remember(inFlight, request[r].trade, MaxHistory)
      /\ UNCHANGED flushVars
      /\ Turn(r) /\ MayLock(r) /\ Head(chain) = r
  BY DEF Deliver, MayLock, Turn
<1>2. /\ request'[r] = [request[r] EXCEPT !.step = "sending"]
      /\ request'[r].kind = request[r].kind /\ request'[r].step = "sending"
      /\ request'[r].trade = request[r].trade
      /\ \A q \in Slot : q # r => request'[q] = request[q]
  BY <1>1 DEF TypeOK
<1>3. request'[r] # Free
  BY <1>2 DEF Free
<1>4. \A q \in Slot : request[q].step # "sending"
  BY <1>1, FreeLockFact
<1>5. \A q \in Slot : request'[q].step = "sending" => q = r
  BY <1>2, <1>4
<1>6. Sending' # {}
  BY <1>2 DEF Sending
<1>7. Has(chain, r)
  BY <1>1, RequestFact DEF Turn
<1>8. \A q \in Slot : request'[q] # Free <=> Has(chain', q)
  BY <1>1, <1>2, <1>3, <1>7 DEF Line
<1>9. Line'
  BY <1>1, <1>5, <1>6, <1>8 DEF Line
<1> QED
  BY <1>1, <1>2, <1>3, <1>4, <1>9

\* A killed bridge holds no request any more.
LEMMA KilledFact ==
    ASSUME TypeOK, Line, BridgeCrash
    PROVE  /\ Line' /\ \A q \in Slot : request'[q] = Free
           /\ chain' = <<>> /\ call' = NoSlot
<1>1. /\ \A q \in Slot : request'[q] = Free
      /\ chain' = <<>> /\ call' = NoSlot /\ lock' \in LeftLock
  BY DEF BridgeCrash
<1>2. Sending' = {}
  BY <1>1 DEF Sending, Free
<1>3. lock' # "held"
  BY <1>1 DEF LeftLock
<1>4. Distinct(<<>>) /\ \A q : ~Has(<<>>, q)
  BY DEF Distinct, Has
<1>5. \A q \in Slot : request'[q].step # "sending"
  BY <1>1 DEF Free
<1>6. Line'
  BY <1>1, <1>2, <1>3, <1>4, <1>5 DEF Line
<1> QED
  BY <1>1, <1>6

\* Every step keeps the chain in line with the requests and the lock.
LEMMA LineNext == ASSUME DeliveryInv, [Next]_vars PROVE Line'
<1> USE DEF DeliveryInv
<1>1. CASE BotAlone
  BY <1>1, BotAloneFact DEF Line, Sending, bridgeVars
<1>2. ASSUME NEW r \in Slot, Post(r) PROVE Line'
  <2>1. CASE enabled
    <3>1. Head(todo) \in Trade
      BY <1>2, TodoFact DEF Post, MayPost
    <3>2. Enqueue(r, "trade", Head(todo))
      BY <1>2, <2>1 DEF Post
    <3> QED
      BY <2>1, <3>1, <3>2, EnterFact
  <2>2. CASE ~enabled
    BY <1>2, <2>2 DEF Post, Line, Sending, bridgeVars
  <2> QED
    BY <2>1, <2>2
<1>3. ASSUME NEW r \in Slot, NEW k \in {"delivered", "resend"}, NEW t \in Trade,
             Operator(r, k, t)
      PROVE  Line'
  BY <1>3, EnterFact DEF Operator
<1>4. ASSUME NEW r \in Slot, Busy(r) PROVE Line'
  <2>1. \A q \in Slot : request[q].step # "sending"
    BY <1>4 DEF Busy, Line, Sending
  <2> QED
    BY <1>4, <2>1, LeaveFact DEF Busy
<1>5. ASSUME NEW r \in Slot, Resolve(r) PROVE Line'
  BY <1>5, FreeLockFact, LeaveFact DEF Resolve, MayLock
<1>6. ASSUME NEW r \in Slot, ClaimResend(r) PROVE Line'
  <2>1. CASE MayResend(request[r].trade)
    BY <1>6, <2>1, ClaimFact
  <2>2. CASE ~MayResend(request[r].trade)
    BY <1>6, <2>2, FreeLockFact, LeaveFact DEF ClaimResend, MayLock
  <2> QED
    BY <2>1, <2>2
<1>7. ASSUME NEW r \in Slot, Deliver(r) PROVE Line'
  <2>1. CASE Has(delivered, request[r].trade) \/ Blocked(r)
    <3>1. /\ Reply(r, IF Has(delivered, request[r].trade) THEN "ok" ELSE "fail")
          /\ chain' = Tail(chain) /\ lock' = "none" /\ enabled' = enabled
          /\ MayLock(r) /\ Turn(r)
      BY <1>7, <2>1 DEF Deliver, MayLock
    <3> QED
      BY <3>1, FreeLockFact, LeaveFact
  <2>2. CASE ~(Has(delivered, request[r].trade) \/ Blocked(r))
    BY <1>7, <2>2, BeginFact
  <2> QED
    BY <2>1, <2>2
<1>8. ASSUME NEW r \in Slot, NEW o \in {"delivered", "rejected", "unknown"},
             NEW a \in BOOLEAN, Sent(r, o, a)
      PROVE  Line'
  <2>1. /\ request[r].step = "sending" /\ chain' = Tail(chain) /\ lock' = "none"
        /\ enabled' = enabled
        /\ Reply(r, IF o = "delivered" THEN "ok" ELSE "fail")
    BY <1>8 DEF Sent
  <2>2. \A q \in Slot : q # r => request[q].step # "sending"
    BY <2>1 DEF Line
  <2> QED
    BY <2>1, <2>2, LeaveFact
<1>9. CASE BridgeCrash
  BY <1>9, KilledFact
<1>10. CASE LockAges
  BY <1>10 DEF LockAges, Line, Sending
<1>11. CASE UNCHANGED vars
  BY <1>11 DEF Line, Sending, vars, bridgeVars
<1> QED
  BY <1>1, <1>2, <1>3, <1>4, <1>5, <1>6, <1>7, <1>8, <1>9, <1>10, <1>11
  DEF Next, BotStep, Delivery, BotAlone

-----------------------------------------------------------------------------
\* What was announced, logged, confirmed or waived stays so.
LEMMA GrowthFact ==
    ASSUME DeliveryInv, [Next]_vars
    PROVE  /\ audit \subseteq audit' /\ waived \subseteq waived'
           /\ confirmed \subseteq confirmed'
           /\ \A t \in Trade : announced[t] <= announced'[t]
<1> USE DEF DeliveryInv
<1>1. CASE BotAlone
  <2>1. announced' = announced /\ waived' = waived /\ audit' = audit
    BY <1>1, BotAloneFact DEF fileVars
  <2>2. confirmed \subseteq confirmed'
    BY <1>1
    DEF BotAlone, Confirm, Recover, Queue, QueueFails, Acknowledge,
        RecoverAcknowledge, Recovered, NextPass, PostFails, PostTimesOut,
        MarkDelivered, FlushEnds, BotCrash, worldVars
  <2>3. \A t \in Trade : announced[t] <= announced'[t]
    BY <2>1 DEF TypeOK
  <2> QED
    BY <2>1, <2>2, <2>3
<1>2. ASSUME NEW r \in Slot, Post(r)
      PROVE  /\ audit' = audit /\ waived \subseteq waived' /\ confirmed' = confirmed
             /\ announced' = announced
  BY <1>2 DEF Post, fileVars
<1>3. ASSUME NEW r \in Slot, NEW k \in {"delivered", "resend"}, NEW t \in Trade,
             Operator(r, k, t)
      PROVE  audit' = audit /\ UNCHANGED worldVars
  BY <1>3 DEF Operator, fileVars
<1>4. ASSUME NEW r \in Slot, Busy(r) \/ Resolve(r) \/ ClaimResend(r) \/ Deliver(r)
      PROVE  audit \subseteq audit' /\ UNCHANGED worldVars
  BY <1>4 DEF Busy, Resolve, ClaimResend, Deliver, fileVars
<1>5. ASSUME NEW r \in Slot, NEW o \in {"delivered", "rejected", "unknown"},
             NEW a \in BOOLEAN, Sent(r, o, a)
      PROVE  /\ audit \subseteq audit' /\ waived' = waived /\ confirmed' = confirmed
             /\ \A t \in Trade : announced[t] <= announced'[t]
  <2>1. audit \subseteq audit' /\ waived' = waived /\ confirmed' = confirmed
    BY <1>5 DEF Sent
  <2>2. ASSUME NEW t \in Trade PROVE announced[t] <= announced'[t]
    <3>1. CASE a
      BY <1>5, <3>1 DEF Sent, TypeOK
    <3>2. CASE ~a
      BY <1>5, <3>2 DEF Sent, TypeOK
    <3> QED
      BY <3>1, <3>2
  <2> QED
    BY <2>1, <2>2
<1>6. CASE BridgeCrash
  <2>1. audit' = audit /\ waived' = waived /\ confirmed' = confirmed
    BY <1>6 DEF BridgeCrash, fileVars
  <2>2. \A t \in Trade : announced[t] <= announced'[t]
    BY <1>6 DEF BridgeCrash, TypeOK
  <2> QED
    BY <2>1, <2>2
<1>7. CASE LockAges
  BY <1>7 DEF LockAges, fileVars, worldVars, TypeOK
<1>8. CASE UNCHANGED vars
  BY <1>8 DEF vars, fileVars, worldVars, TypeOK
<1>9. UNCHANGED worldVars => /\ waived' = waived /\ confirmed' = confirmed
                             /\ announced' = announced
  BY DEF worldVars
<1>10. announced' = announced => \A t \in Trade : announced[t] <= announced'[t]
  BY DEF TypeOK
<1> QED
  BY <1>1, <1>2, <1>3, <1>4, <1>5, <1>6, <1>7, <1>8, <1>9, <1>10
  DEF Next, BotStep, Delivery, BotAlone

\* So an alert that may be given up may always be given up.
LEMMA JustifiedGrows ==
    ASSUME DeliveryInv, [Next]_vars, NEW t \in Trade, Justified(t)
    PROVE  Justified(t)'
<1>1. announced[t] \in Nat /\ announced'[t] \in Nat
  BY TypeOKNext DEF DeliveryInv, TypeOK
<1>2. announced[t] > 0 => announced'[t] > 0
  BY <1>1, GrowthFact
<1> QED
  BY <1>2, GrowthFact DEF Justified, Vouched

\* An answered call: what the flush thread is told is true.
LEMMA AnswerFact ==
    ASSUME DeliveryInv, [Next]_vars, NEW r \in Slot, NEW v \in {"ok", "fail"},
           Turn(r) \/ request[r].step = "sending", Reply(r, v),
           \A q \in Slot : q # r => request[q].step # "sending",
           chain' = Tail(chain), enabled' = enabled, lock' # "held",
           NEW t \in Trade, t = request[r].trade,
           v = "ok" /\ request[r].kind = "trade" => Justified(t)'
    PROVE  Calls'
<1> USE DEF DeliveryInv
<1>1. /\ request'[r] = Free /\ \A q \in Slot : q # r => request'[q] = request[q]
      /\ \A p, q : Follows(chain', p, q) => Follows(chain, p, q)
      /\ \A q \in Slot : q # r /\ request[q] # Free => Follows(chain, r, q)
  BY LeaveFact
<1>2. /\ flushing' = flushing /\ todo' = todo
      /\ call' = IF call = r THEN NoSlot ELSE call
      /\ answer' = IF call = r THEN v ELSE answer
  BY DEF Reply
<1>3. Free.kind # "trade"
  BY DEF Free
<1>4. \A q \in Slot : request'[q].kind = "trade" => q # r /\ request[q].kind = "trade"
  BY <1>1, <1>3
<1>5. CASE call = r
  <2>1. /\ call' = NoSlot /\ answer' = v /\ flushing' /\ todo' # <<>>
        /\ request[r].kind = "trade" /\ todo # <<>>
        /\ \A q \in Slot : Follows(chain, r, q) => request[q].kind # "trade"
    BY <1>2, <1>5, NullAssumption DEF Calls
  <2>2. \A q \in Slot : request'[q].kind # "trade"
    BY <2>1, <1>1, <1>3, <1>4
  <2>3. t = Head(todo)
    BY <2>1, TodoFact DEF Requests
  <2>4. v = "ok" => Justified(Head(todo))'
    BY <2>1, <2>3, <1>2 DEF Justified, Vouched
  <2> QED
    BY <2>1, <2>2, <2>4 DEF Calls
<1>6. CASE call # r
  <2>1. call' = call /\ answer' = answer /\ flushing' = flushing /\ todo' = todo
    BY <1>2, <1>6
  <2>2. ASSUME call # NoSlot
        PROVE  /\ request'[call].kind = "trade"
               /\ \A q \in Slot : Follows(chain', call, q) => request'[q].kind # "trade"
    <3>1. call \in Slot
      BY <2>2 DEF TypeOK
    <3>2. request'[call] = request[call]
      BY <3>1, <1>1, <1>6
    <3>3. /\ request[call].kind = "trade"
          /\ \A q \in Slot : Follows(chain, call, q) => request[q].kind # "trade"
      BY <2>2 DEF Calls
    <3> QED
      BY <3>2, <3>3, <1>1, <1>4
  <2>3. ASSUME answer = "ok"
        PROVE  /\ Justified(Head(todo))'
               /\ \A q \in Slot : request'[q].kind # "trade"
    <3>1. /\ Justified(Head(todo)) /\ todo # <<>>
          /\ \A q \in Slot : request[q].kind # "trade"
      BY <2>3 DEF Calls
    <3>2. Head(todo) \in Trade
      BY <3>1, TodoFact
    <3>3. PICK u \in Trade : u = Head(todo)
      BY <3>2
    <3>4. Justified(u)'
      BY <3>1, <3>3, JustifiedGrows
    <3> QED
      BY <3>1, <3>3, <3>4, <2>1, <1>4 DEF Justified, Vouched
  <2> QED
    BY <2>1, <2>2, <2>3 DEF Calls
<1> QED
  BY <1>5, <1>6

\* The flush thread keeps track of its calls, whatever the others do.
LEMMA CallsNext == ASSUME DeliveryInv, [Next]_vars PROVE Calls'
<1> USE DEF DeliveryInv
<1>j. ASSUME todo' = todo, todo # <<>>, Justified(Head(todo))
      PROVE  Justified(Head(todo))'
  <2>1. PICK t \in Trade : t = Head(todo)
    BY <1>j, TodoFact
  <2>2. Justified(t)'
    BY <2>1, <1>j, JustifiedGrows
  <2> QED
    BY <2>1, <2>2, <1>j DEF Justified, Vouched
<1>1. CASE BotAlone
  <2>1. request' = request /\ chain' = chain
    BY <1>1, BotAloneFact DEF bridgeVars
  <2>2. \/ call' = NoSlot /\ answer' = "none"
        \/ call' = NoSlot /\ answer' = "fail" /\ flushing' /\ todo' # <<>>
        \/ /\ call' = call /\ answer' = answer
           /\ call # NoSlot \/ answer # "none" => flushing' /\ todo' = todo
    <3>1. CASE Acknowledge \/ Recovered
      BY <1>1, <3>1 DEF Acknowledge, Recovered, StartFlush, Calls
    <3>2. CASE MarkDelivered
      BY <3>2 DEF MarkDelivered, Calls
    <3>3. CASE FlushEnds \/ BotCrash
      BY <3>3 DEF FlushEnds, BotCrash
    <3>4. CASE PostFails \/ PostTimesOut
      BY <3>4 DEF PostFails, MayPost, PostTimesOut, Calls
    <3>5. CASE (\E t \in Trade : Confirm(t) \/ Recover(t)) \/ Queue \/ QueueFails
               \/ RecoverAcknowledge \/ NextPass
      <4>1. UNCHANGED flushVars
        BY <3>5 DEF Confirm, Recover, Queue, QueueFails, RecoverAcknowledge, NextPass
      <4> QED
        BY <4>1 DEF flushVars, Calls
    <3> QED
      BY <1>1, <3>1, <3>2, <3>3, <3>4, <3>5 DEF BotAlone
  <2>3. CASE call' = NoSlot /\ answer' = "none"
    BY <2>3 DEF Calls
  <2>4. CASE call' = NoSlot /\ answer' = "fail" /\ flushing' /\ todo' # <<>>
    BY <2>4 DEF Calls
  <2>5. CASE /\ call' = call /\ answer' = answer
             /\ call # NoSlot \/ answer # "none" => flushing' /\ todo' = todo
    <3>1. answer = "ok" => Justified(Head(todo))'
      BY <2>5, <1>j DEF Calls
    <3> QED
      BY <2>1, <2>5, <3>1 DEF Calls
  <2> QED
    BY <2>2, <2>3, <2>4, <2>5
<1>2. ASSUME NEW r \in Slot, Post(r) PROVE Calls'
  <2>1. /\ flushing /\ todo # <<>> /\ call = NoSlot /\ answer = "none"
        /\ flushing' = flushing /\ todo' = todo /\ Head(todo) \in Trade
    BY <1>2, TodoFact DEF Post, MayPost
  <2>2. CASE enabled
    <3>1. Enqueue(r, "trade", Head(todo)) /\ call' = r /\ answer' = answer
      BY <1>2, <2>2 DEF Post
    <3>2. /\ request'[r] = [kind |-> "trade", trade |-> Head(todo), step |-> "queued"]
          /\ request[r] = Free
      BY <2>1, <2>2, <3>1, EnterFact
    <3>6. \A p, q : Follows(chain', p, q) => Has(chain, p)
      BY <2>1, <2>2, <3>1, EnterFact
    <3>3. ~Has(chain, r)
      BY <3>2 DEF Line
    <3>4. answer' = "none" /\ call' = r /\ r # NoSlot
      BY <2>1, <3>1, NullAssumption
    <3>5. \A q \in Slot : ~Follows(chain', r, q)
      BY <3>6, <3>3
    <3> QED
      BY <2>1, <3>2, <3>4, <3>5 DEF Calls
  <2>3. CASE ~enabled
    <3>1. /\ answer' = "ok" /\ waived' = waived \cup {Head(todo)} /\ call' = call
          /\ UNCHANGED bridgeVars
      BY <1>2, <2>3 DEF Post
    <3>2. chain = <<>>
      BY <2>3 DEF Line
    <3>3. \A q \in Slot : ~Has(chain, q)
      BY <3>2 DEF Has
    <3>4. \A q \in Slot : request'[q].kind # "trade"
      BY <3>1, <3>3 DEF Line, Free, bridgeVars
    <3>5. Justified(Head(todo))'
      BY <2>1, <3>1 DEF Justified
    <3> QED
      BY <2>1, <3>1, <3>4, <3>5 DEF Calls
  <2> QED
    BY <2>2, <2>3
<1>k. ASSUME NEW r \in Slot, UNCHANGED flushVars, r # call,
             \A q \in Slot : q # r => request'[q] = request[q],
             request'[r].kind # "trade",
             \A p, q : Follows(chain', p, q) => Follows(chain, p, q) \/ q = r
      PROVE  Calls'
  <2>1. call' = call /\ answer' = answer /\ flushing' = flushing /\ todo' = todo
    BY <1>k DEF flushVars
  <2>2. call # NoSlot => request'[call] = request[call]
    BY <1>k DEF TypeOK
  <2>3. \A q \in Slot : request'[q].kind = "trade" => q # r /\ request[q].kind = "trade"
    BY <1>k
  <2>4. answer = "ok" => Justified(Head(todo))'
    BY <2>1, <1>j DEF Calls
  <2>5. call # NoSlot =>
           \A q \in Slot : Follows(chain', call, q) => request'[q].kind # "trade"
    BY <1>k, <2>3 DEF Calls
  <2> QED
    BY <2>1, <2>2, <2>3, <2>4, <2>5 DEF Calls
<1>3. ASSUME NEW r \in Slot, NEW k \in {"delivered", "resend"}, NEW t \in Trade,
             Operator(r, k, t)
      PROVE  Calls'
  <2>1. enabled /\ Enqueue(r, k, t) /\ UNCHANGED flushVars
    BY <1>3 DEF Operator
  <2>2. /\ request[r] = Free
        /\ request'[r] = [kind |-> k, trade |-> t, step |-> "queued"]
        /\ \A q \in Slot : q # r => request'[q] = request[q]
    <3>1. enabled /\ Enqueue(r, k, t) /\ k \in {"trade", "delivered", "resend"}
      BY <2>1
    <3>2. TypeOK /\ Line
      OBVIOUS
    <3> HIDE DEF DeliveryInv
    <3> QED
      BY <3>1, <3>2, EnterFact, Zenon
  <2>4. \A p, q : Follows(chain', p, q) => Follows(chain, p, q) \/ q = r
    BY <2>1, EnterFact
  <2>3. r # call
    BY <2>2, NullAssumption DEF Calls, Free
  <2> QED
    BY <2>1, <2>2, <2>3, <2>4, <1>k
<1>4. ASSUME NEW r \in Slot, Busy(r) PROVE Calls'
  <2>1. /\ Turn(r) /\ Reply(r, "fail") /\ chain' = Tail(chain)
        /\ lock' # "held" /\ enabled' = enabled
    BY <1>4 DEF Busy
  <2>2. \A q \in Slot : request[q].step # "sending"
    BY <1>4 DEF Busy, Line, Sending
  <2>3. request[r].trade \in Trade
    BY <2>1, RequestFact DEF Turn
  <2> QED
    BY <2>1, <2>2, <2>3, AnswerFact
<1>5. ASSUME NEW r \in Slot, Resolve(r) PROVE Calls'
  <2>1. /\ request[r].kind = "delivered" /\ Turn(r) /\ MayLock(r) /\ Reply(r, "ok")
        /\ chain' = Tail(chain) /\ lock' = "none" /\ enabled' = enabled
    BY <1>5 DEF Resolve, MayLock
  <2>2. request[r].trade \in Trade
    BY <2>1, RequestFact DEF Turn
  <2> QED
    BY <2>1, <2>2, FreeLockFact, AnswerFact
<1>6. ASSUME NEW r \in Slot, ClaimResend(r) PROVE Calls'
  <2>1. CASE MayResend(request[r].trade)
    <3>1. request[r].kind = "resend"
      BY <1>6 DEF ClaimResend
    <3>2. r # call
      BY <3>1, NullAssumption DEF Calls
    <3> QED
      BY <1>6, <2>1, <3>2, ClaimFact, <1>k
  <2>2. CASE ~MayResend(request[r].trade)
    <3>1. /\ Turn(r) /\ MayLock(r) /\ Reply(r, "fail")
          /\ chain' = Tail(chain) /\ lock' = "none" /\ enabled' = enabled
      BY <1>6, <2>2 DEF ClaimResend, MayLock
    <3>2. request[r].trade \in Trade
      BY <3>1, RequestFact DEF Turn
    <3> QED
      BY <3>1, <3>2, FreeLockFact, AnswerFact
  <2> QED
    BY <2>1, <2>2
<1>7. ASSUME NEW r \in Slot, Deliver(r) PROVE Calls'
  <2>1. CASE Has(delivered, request[r].trade) \/ Blocked(r)
    <3>1. /\ Reply(r, IF Has(delivered, request[r].trade) THEN "ok" ELSE "fail")
          /\ chain' = Tail(chain) /\ lock' = "none" /\ enabled' = enabled
          /\ MayLock(r) /\ Turn(r)
      BY <1>7, <2>1 DEF Deliver, MayLock
    <3>2. PICK t \in Trade : t = request[r].trade
      BY <3>1, RequestFact DEF Turn
    <3>3. Has(delivered, t) => Justified(t)'
      BY JustifiedGrows DEF Histories
    <3>4. PICK v \in {"ok", "fail"} :
             v = IF Has(delivered, t) THEN "ok" ELSE "fail"
      OBVIOUS
    <3>5. v = "ok" => Justified(t)'
      BY <3>3, <3>4
    <3> QED
      BY <3>1, <3>2, <3>4, <3>5, FreeLockFact, AnswerFact
  <2>2. CASE ~(Has(delivered, request[r].trade) \/ Blocked(r))
    <3>1. /\ request'[r].kind = request[r].kind
          /\ \A q \in Slot : q # r => request'[q] = request[q]
          /\ chain' = chain /\ UNCHANGED flushVars
      BY <1>7, <2>2, BeginFact
    <3>2. \A q \in Slot : request'[q].kind = request[q].kind
      BY <3>1
    <3>3. answer = "ok" => Justified(Head(todo))'
      BY <3>1, <1>j DEF Calls, flushVars
    <3>4. call' = call /\ answer' = answer /\ flushing' = flushing /\ todo' = todo
      BY <3>1 DEF flushVars
    <3>5. call # NoSlot => call \in Slot
      BY DEF TypeOK
    <3> QED
      BY <3>1, <3>2, <3>3, <3>4, <3>5 DEF Calls
  <2> QED
    BY <2>1, <2>2
<1>8. ASSUME NEW r \in Slot, NEW o \in {"delivered", "rejected", "unknown"},
             NEW a \in BOOLEAN, Sent(r, o, a)
      PROVE  Calls'
  <2>1. /\ request[r].step = "sending" /\ chain' = Tail(chain) /\ lock' = "none"
        /\ enabled' = enabled
        /\ Reply(r, IF o = "delivered" THEN "ok" ELSE "fail")
    BY <1>8 DEF Sent
  <2>2. \A q \in Slot : q # r => request[q].step # "sending"
    BY <2>1 DEF Line
  <2>3. PICK t \in Trade : t = request[r].trade
    BY <2>1, RequestFact
  <2>4. o = "delivered" => announced'[t] > 0
    BY <1>8, <2>3 DEF Sent, SendTelegram, TypeOK
  <2>5. o = "delivered" => Justified(t)'
    BY <2>4 DEF Justified
  <2>6. PICK v \in {"ok", "fail"} : v = IF o = "delivered" THEN "ok" ELSE "fail"
    OBVIOUS
  <2> QED
    BY <2>1, <2>2, <2>3, <2>5, <2>6, AnswerFact
<1>9. CASE BridgeCrash
  <2>1. /\ call' = NoSlot /\ \A q \in Slot : request'[q] = Free
    BY <1>9, KilledFact
  <2>2. /\ flushing' = flushing /\ todo' = todo
        /\ answer' = IF call = NoSlot THEN answer ELSE "fail"
    BY <1>9 DEF BridgeCrash
  <2>3. answer' = "ok" => Justified(Head(todo))'
    BY <2>2, <1>j DEF Calls
  <2>4. \A q \in Slot : request'[q].kind # "trade"
    BY <2>1 DEF Free
  <2> QED
    BY <2>1, <2>2, <2>3, <2>4 DEF Calls
<1>10. CASE LockAges \/ UNCHANGED vars
  <2>1. UNCHANGED flushVars /\ request' = request /\ chain' = chain
    BY <1>10 DEF LockAges, vars, bridgeVars
  <2>2. answer = "ok" => Justified(Head(todo))'
    BY <2>1, <1>j DEF Calls, flushVars
  <2> QED
    BY <2>1, <2>2 DEF Calls, flushVars
<1> QED
  BY <1>1, <1>2, <1>3, <1>4, <1>5, <1>6, <1>7, <1>8, <1>9, <1>10
  DEF Next, BotStep, Delivery, BotAlone

-----------------------------------------------------------------------------
\* The steps in which a request is answered.
Leaving(r) ==
    \/ Busy(r) \/ Resolve(r)
    \/ ClaimResend(r) /\ ~MayResend(request[r].trade)
    \/ Deliver(r) /\ (Has(delivered, request[r].trade) \/ Blocked(r))
    \/ \E o \in {"delivered", "rejected", "unknown"}, a \in BOOLEAN : Sent(r, o, a)

\* They touch no other request, and nothing of the bot but its call.
LEMMA LeavingFact ==
    ASSUME DeliveryInv, NEW r \in Slot, Leaving(r)
    PROVE  /\ request'[r] = Free /\ request[r] # Free
           /\ \A q \in Slot : q # r => request'[q] = request[q]
           /\ \A q \in Slot : q # r => request[q].step # "sending"
           /\ UNCHANGED botVars /\ todo' = todo /\ confirmed' = confirmed
           /\ request[r].trade \in confirmed \ staged /\ request[r].trade \in Trade
<1> USE DEF DeliveryInv
<1>1. /\ Turn(r) \/ request[r].step = "sending"
      /\ \E v \in {"ok", "fail"} : Reply(r, v)
      /\ UNCHANGED botVars /\ confirmed' = confirmed
  BY DEF Leaving, Busy, Resolve, ClaimResend, Deliver, Sent, MayLock, worldVars
<1>2. \A q \in Slot : q # r => request[q].step # "sending"
  <2>1. CASE Busy(r)
    BY <2>1 DEF Busy, Line, Sending
  <2>2. CASE request[r].step = "sending"
    BY <2>2 DEF Line
  <2>3. CASE MayLock(r)
    BY <2>3, FreeLockFact
  <2> QED
    BY <2>1, <2>2, <2>3 DEF Leaving, Resolve, ClaimResend, Deliver, Sent
<1>3. /\ request'[r] = Free /\ todo' = todo
      /\ \A q \in Slot : q # r => request'[q] = request[q]
  BY <1>1 DEF Reply, TypeOK
<1>4. request[r].step # "free"
  BY <1>1 DEF Turn
<1> QED
  BY <1>1, <1>2, <1>3, <1>4, RequestFact

\* An alert that is moved to the outbox comes last there.
LEMMA MovedFact ==
    ASSUME DeliveryInv, NEW t \in staged, Outbox(t)
    PROVE  /\ Distinct(pending') /\ pending' # <<>>
           /\ \A u : Has(pending', u) <=> Has(pending, u) \/ u = t
           /\ pending # <<>> => Head(pending') = Head(pending)
           /\ Len(pending) <= Len(pending')
           /\ \A i \in 1..Len(pending) : pending'[i] = pending[i]
<1> USE DEF DeliveryInv
<1>0. t \in Trade /\ ~Has(botDelivered, t) /\ pending \in Seq(Trade)
  BY DEF TypeOK, Stages, Unsent
<1>1. Len(pending) \in Nat
  BY <1>0, LenProperties
<1>2. CASE Has(pending, t)
  <2>1. pending' = pending /\ pending # <<>>
    BY <1>0, <1>2, HasFact DEF Outbox
  <2> QED
    BY <2>1, <1>1, <1>2 DEF Outboxes
<1>3. CASE ~Has(pending, t)
  <2>1. pending' = Append(pending, t)
    BY <1>0, <1>3 DEF Outbox
  <2>2. /\ Distinct(pending)
        /\ Append(pending, t) # <<>>
        /\ Len(Append(pending, t)) = Len(pending) + 1
        /\ \A i \in 1..Len(pending) : Append(pending, t)[i] = pending[i]
        /\ \A u : Has(Append(pending, t), u) <=> Has(pending, u) \/ u = t
    BY <1>0, AppendFact DEF Outboxes
  <2>3. /\ Distinct(Append(pending, t))
        /\ pending # <<>> => Head(Append(pending, t)) = Head(pending)
    BY <1>0, <1>3, <2>2, AppendOrder
  <2>4. Len(pending) <= Len(Append(pending, t))
    BY <1>1, <2>2
  <2> QED
    BY <2>1, <2>2, <2>3, <2>4
<1> QED
  BY <1>2, <1>3

\* A delivered alert is taken from the head of the outbox.
LEMMA MarkedFact ==
    ASSUME DeliveryInv, MarkDelivered
    PROVE  /\ todo # <<>> /\ pending # <<>> /\ Head(todo) = Head(pending)
           /\ pending' = Tail(pending) /\ todo' = Tail(todo)
           /\ Distinct(pending') /\ Distinct(botDelivered')
           /\ \A u : Has(pending', u) <=> Has(pending, u) /\ u # Head(todo)
           /\ \A u : Has(botDelivered', u) => Has(botDelivered, u) \/ u = Head(todo)
           /\ \A r \in Slot : request[r].kind # "trade"
           /\ Justified(Head(todo)) /\ Has(todo, Head(todo))
           /\ Head(todo) \in Trade
<1> USE DEF DeliveryInv
<1>1. /\ todo # <<>> /\ Justified(Head(todo))
      /\ \A r \in Slot : request[r].kind # "trade"
  BY DEF MarkDelivered, Calls
<1>2. /\ pending # <<>> /\ Head(todo) = Head(pending) /\ Head(todo) \in Trade
      /\ Has(todo, Head(todo)) /\ Head(pending) = pending[1]
  BY <1>1, TodoFact
<1>3. /\ pending' = Without(pending, Head(todo)) /\ todo' = Tail(todo)
      /\ botDelivered' = Remember(botDelivered, Head(todo), BotHistory)
  BY DEF MarkDelivered
<1>4. pending \in Seq(Trade) /\ Distinct(pending)
  BY DEF TypeOK, Outboxes
<1>5. pending' = Tail(pending)
  <2>1. PICK w : w = Without(pending, Head(todo))
    OBVIOUS
  <2>2. pending # <<>> /\ pending[1] = Head(todo) => w = Tail(pending)
    BY <2>1, <1>2, <1>4, WithoutFact
  <2> QED
    BY <2>1, <2>2, <1>2, <1>3
<1>6. /\ Distinct(Tail(pending))
      /\ \A u : Has(Tail(pending), u) <=> Has(pending, u) /\ u # Head(pending)
  BY <1>2, <1>4, TailFact
<1>7. /\ Distinct(botDelivered')
      /\ \A u : Has(botDelivered', u) => Has(botDelivered, u) \/ u = Head(todo)
  <2>1. /\ botDelivered \in Seq(Trade) /\ Distinct(botDelivered)
        /\ Len(botDelivered) <= BotHistory /\ BotHistory \in Nat /\ BotHistory > 0
    BY HistoryAssumption DEF TypeOK, Histories
  <2>2. PICK w : w = Remember(botDelivered, Head(todo), BotHistory)
    OBVIOUS
  <2>3. /\ Distinct(w)
        /\ \A u : Has(w, u) => Has(botDelivered, u) \/ u = Head(todo)
    BY <2>1, <2>2, <1>2, RememberFact
  <2> QED
    BY <2>2, <2>3, <1>3
<1> QED
  BY <1>1, <1>2, <1>3, <1>5, <1>6, <1>7

\* What is to be posted is in the outbox.
LEMMA TodoPending ==
    ASSUME TypeOK, Outboxes, NEW u, Has(todo, u)
    PROVE  Has(pending, u) /\ u \in confirmed /\ u \in Trade
<1>1. PICK i \in 1..Len(todo) : todo[i] = u
  BY LenProperties DEF Has, TypeOK
<1>2. Len(todo) \in Nat /\ Len(pending) \in Nat /\ Len(todo) <= Len(pending)
  BY LenProperties DEF TypeOK, Outboxes
<1>3. i \in 1..Len(pending)
  BY <1>2
<1>4. pending[i] = u /\ DOMAIN pending = 1..Len(pending)
  BY <1>1, LenProperties DEF Outboxes, TypeOK
<1>5. Has(pending, u)
  BY <1>3, <1>4 DEF Has
<1> QED
  BY <1>5, HasFact DEF Outboxes, TypeOK

\* What the flush thread has yet to post stays the start of the outbox.
LEMMA OutboxesNext == ASSUME DeliveryInv, [Next]_vars PROVE Outboxes'
<1> USE DEF DeliveryInv
<1>l. /\ Len(todo) \in Nat /\ Len(pending) \in Nat /\ Len(<<>>) = 0
      /\ Len(todo) <= Len(pending)
  BY LenProperties, EmptySeq DEF TypeOK, Outboxes
<1>m. Len(pending') \in Nat
  BY TypeOKNext, LenProperties DEF TypeOK
<1>1. ASSUME NEW t \in staged, Outbox(t), UNCHANGED <<todo, confirmed>>
      PROVE  Outboxes'
  <2>1. /\ Distinct(pending')
        /\ \A u : Has(pending', u) <=> Has(pending, u) \/ u = t
        /\ Len(pending) <= Len(pending')
        /\ \A i \in 1..Len(pending) : pending'[i] = pending[i]
    BY <1>1, MovedFact
  <2>2. t \in confirmed
    BY DEF Stages
  <2>3. Len(todo) <= Len(pending')
    BY <2>1, <1>l, <1>m
  <2>4. \A i \in 1..Len(todo) : i \in 1..Len(pending)
    BY <1>l
  <2>5. \A i \in 1..Len(todo) : pending'[i] = todo[i]
    BY <2>1, <2>4 DEF Outboxes
  <2> QED
    BY <1>1, <2>1, <2>2, <2>3, <2>5 DEF Outboxes
<1>2. CASE Queue
  BY <1>2, <1>1 DEF Queue, Stages, flushVars, worldVars
<1>3. ASSUME NEW t \in Trade, Recover(t) PROVE Outboxes'
  BY <1>3, <1>1 DEF Recover, flushVars, worldVars
<1>4. CASE MarkDelivered
  <2>1. /\ todo # <<>> /\ pending # <<>>
        /\ pending' = Tail(pending) /\ todo' = Tail(todo) /\ Distinct(pending')
        /\ \A u : Has(pending', u) <=> Has(pending, u) /\ u # Head(todo)
        /\ confirmed' = confirmed
    BY <1>4, MarkedFact DEF MarkDelivered, worldVars
  <2>2. /\ Len(todo') = Len(todo) - 1 /\ Len(pending') = Len(pending) - 1
        /\ \A i \in 1..Len(todo') : todo'[i] = todo[i + 1]
        /\ \A i \in 1..Len(pending') : pending'[i] = pending[i + 1]
    BY <2>1, HeadTailProperties DEF TypeOK
  <2>3. Len(todo') <= Len(pending')
    BY <2>2, <1>l
  <2>4. ASSUME NEW i \in 1..Len(todo') PROVE todo'[i] = pending'[i]
    <3>1. i + 1 \in 1..Len(todo) /\ i \in 1..Len(pending')
      BY <2>2, <1>l
    <3>2. todo[i + 1] = pending[i + 1]
      BY <3>1 DEF Outboxes
    <3> QED
      BY <3>1, <3>2, <2>2
  <2> QED
    BY <2>1, <2>3, <2>4 DEF Outboxes
<1>5. ASSUME pending' = pending, confirmed \subseteq confirmed',
             todo' = todo \/ todo' = pending \/ todo' = <<>>
      PROVE  Outboxes'
  <2>1. CASE todo' = todo
    BY <1>5, <2>1 DEF Outboxes
  <2>2. CASE todo' = pending
    BY <1>5, <2>2, <1>l DEF Outboxes
  <2>3. CASE todo' = <<>>
    BY <1>5, <2>3, <1>l DEF Outboxes
  <2> QED
    BY <1>5, <2>1, <2>2, <2>3
<1>6. CASE \/ \E t \in Trade : Confirm(t)
           \/ QueueFails \/ RecoverAcknowledge \/ NextPass
           \/ PostFails \/ PostTimesOut
  BY <1>6, <1>5
  DEF Confirm, QueueFails, RecoverAcknowledge, NextPass, PostFails, PostTimesOut,
      flushVars, botVars, worldVars
<1>7. CASE Acknowledge \/ Recovered \/ FlushEnds \/ BotCrash
  BY <1>7, <1>5
  DEF Acknowledge, Recovered, StartFlush, FlushEnds, BotCrash, botVars, worldVars
<1>8. ASSUME NEW r \in Slot, Leaving(r) PROVE Outboxes'
  BY <1>8, <1>5, LeavingFact DEF botVars
<1>9. ASSUME NEW r \in Slot,
             \/ ClaimResend(r) /\ MayResend(request[r].trade)
             \/ Deliver(r) /\ ~(Has(delivered, request[r].trade) \/ Blocked(r))
      PROVE  Outboxes'
  BY <1>9, <1>5 DEF ClaimResend, Deliver, botVars, flushVars, worldVars
<1>10. ASSUME NEW r \in Slot, Post(r) PROVE Outboxes'
  BY <1>10, <1>5 DEF Post, botVars
<1>11. ASSUME NEW r \in Slot, NEW k \in {"delivered", "resend"}, NEW t \in Trade,
              Operator(r, k, t)
       PROVE  Outboxes'
  BY <1>11, <1>5 DEF Operator, botVars, flushVars, worldVars
<1>12. CASE BridgeCrash \/ LockAges \/ UNCHANGED vars
  BY <1>12, <1>5 DEF BridgeCrash, LockAges, vars, botVars, flushVars, worldVars
<1> QED
  BY <1>2, <1>3, <1>4, <1>6, <1>7, <1>8, <1>9, <1>10, <1>11, <1>12
  DEF Next, BotStep, Delivery, Leaving

-----------------------------------------------------------------------------
\* Remember and Without on a history of the bridge.
LEMMA HistoryFact ==
    ASSUME NEW s \in Seq(Trade), Distinct(s), Len(s) <= MaxHistory, NEW t \in Trade
    PROVE  /\ Distinct(Without(s, t)) /\ Distinct(Remember(s, t, MaxHistory))
           /\ \A u : Has(Without(s, t), u) <=> Has(s, u) /\ u # t
           /\ Has(Remember(s, t, MaxHistory), t)
           /\ \A u : Has(Remember(s, t, MaxHistory), u) => Has(s, u) \/ u = t
<1>1. MaxHistory \in Nat /\ MaxHistory > 0
  BY HistoryAssumption
<1>2. /\ Distinct(Without(s, t))
      /\ \A u : Has(Without(s, t), u) <=> Has(s, u) /\ u # t
  BY WithoutFact
<1>3. /\ Distinct(Remember(s, t, MaxHistory)) /\ Has(Remember(s, t, MaxHistory), t)
      /\ \A u : Has(Remember(s, t, MaxHistory), u) => Has(s, u) \/ u = t
  BY <1>1, RememberFact
<1> QED
  BY <1>2, <1>3

Handled(t) == \E r \in Slot : request[r] # Free /\ request[r].trade = t

\* A hash enters a history only by a request of it, and is listed as delivered
\* only when the outbox may give its alert up.
LEMMA FilesFact ==
    ASSUME DeliveryInv, [Next]_vars
    PROVE  /\ Distinct(inFlight') /\ Distinct(delivered')
           /\ \A u : Has(inFlight', u) => Has(inFlight, u) \/ Handled(u)
           /\ \A u \in Trade : Has(delivered', u) =>
                 Has(delivered, u) \/ (Handled(u) /\ Justified(u)')
<1> USE DEF DeliveryInv
<1>0. Distinct(inFlight) /\ Distinct(delivered)
  BY DEF Histories
<1>1. ASSUME inFlight' = inFlight, delivered' = delivered
      PROVE  /\ Distinct(inFlight') /\ Distinct(delivered')
             /\ \A u : Has(inFlight', u) => Has(inFlight, u)
             /\ \A u : Has(delivered', u) => Has(delivered, u)
  BY <1>0, <1>1
<1>2. ASSUME BotAlone PROVE inFlight' = inFlight /\ delivered' = delivered
  BY <1>2, BotAloneFact DEF fileVars
<1>3. ASSUME NEW r \in Slot, Post(r) \/ Busy(r) \/ ClaimResend(r)
      PROVE  inFlight' = inFlight /\ delivered' = delivered
  BY <1>3 DEF Post, Busy, ClaimResend, fileVars
<1>4. ASSUME NEW r \in Slot, NEW k \in {"delivered", "resend"}, NEW t \in Trade,
             Operator(r, k, t)
      PROVE  inFlight' = inFlight /\ delivered' = delivered
  BY <1>4 DEF Operator, fileVars
<1>5. ASSUME NEW r \in Slot, Resolve(r)
      PROVE  /\ Distinct(inFlight') /\ Distinct(delivered')
             /\ \A u : Has(inFlight', u) => Has(inFlight, u) \/ Handled(u)
             /\ \A u \in Trade : Has(delivered', u) =>
                   Has(delivered, u) \/ (Handled(u) /\ Justified(u)')
  <2>1. PICK t \in Trade : t = request[r].trade
    BY <1>5, LeavingFact DEF Leaving
  <2>2. request[r] # Free
    BY <1>5, LeavingFact DEF Leaving
  <2>3. CASE Uncertain(t)
    <3>1. /\ inFlight' = Without(inFlight, t)
          /\ delivered' = Remember(delivered, t, MaxHistory)
          /\ audit' = audit \cup {Logged(t, "delivered", "requested"),
                                  Logged(t, "delivered", "delivered")}
      BY <1>5, <2>1, <2>3 DEF Resolve
    <3>2. Justified(t)'
      BY <3>1 DEF Justified, Vouched
    <3>3. Handled(t)
      BY <2>1, <2>2 DEF Handled
    <3>4. /\ inFlight \in Seq(Trade) /\ Len(inFlight) <= MaxHistory
          /\ delivered \in Seq(Trade) /\ Len(delivered) <= MaxHistory
      BY DEF TypeOK
    <3>5. /\ Distinct(inFlight') /\ Distinct(delivered')
          /\ \A u : Has(inFlight', u) <=> Has(inFlight, u) /\ u # t
          /\ \A u : Has(delivered', u) => Has(delivered, u) \/ u = t
      BY <1>0, <3>1, <3>4, HistoryFact
    <3>6. \A u \in Trade : u = t => Justified(u)'
      BY <3>2 DEF Justified, Vouched
    <3> QED
      BY <3>3, <3>5, <3>6
  <2>4. CASE ~Uncertain(t)
    <3>1. inFlight' = inFlight /\ delivered' = delivered
      BY <1>5, <2>1, <2>4 DEF Resolve, fileVars
    <3> QED
      BY <1>1, <3>1
  <2> QED
    BY <2>3, <2>4
<1>6. ASSUME NEW r \in Slot, Deliver(r)
      PROVE  /\ Distinct(inFlight') /\ Distinct(delivered')
             /\ \A u : Has(inFlight', u) => Has(inFlight, u) \/ Handled(u)
             /\ \A u : Has(delivered', u) => Has(delivered, u)
  <2>1. delivered' = delivered
    BY <1>6 DEF Deliver
  <2>2. CASE Has(delivered, request[r].trade) \/ Blocked(r)
    <3>1. inFlight' = inFlight
      BY <1>6, <2>2 DEF Deliver
    <3> QED
      BY <1>1, <2>1, <3>1
  <2>3. CASE ~(Has(delivered, request[r].trade) \/ Blocked(r))
    <3>1. request[r].step # "free"
      BY <1>6 DEF Deliver, MayLock, Turn
    <3>2. PICK t \in Trade : t = request[r].trade /\ request[r] # Free
      BY <3>1, RequestFact
    <3>3. inFlight' = Remember(inFlight, t, MaxHistory)
      BY <1>6, <2>3, <3>2 DEF Deliver
    <3>4. Handled(t)
      BY <3>2 DEF Handled
    <3>5. inFlight \in Seq(Trade) /\ Len(inFlight) <= MaxHistory
      BY DEF TypeOK
    <3>6. /\ Distinct(inFlight')
          /\ \A u : Has(inFlight', u) => Has(inFlight, u) \/ u = t
      BY <1>0, <3>3, <3>5, HistoryFact
    <3> QED
      BY <1>0, <2>1, <3>4, <3>6
  <2> QED
    BY <2>2, <2>3
<1>7. ASSUME NEW r \in Slot, NEW o \in {"delivered", "rejected", "unknown"},
             NEW a \in BOOLEAN, Sent(r, o, a)
      PROVE  /\ Distinct(inFlight') /\ Distinct(delivered')
             /\ \A u : Has(inFlight', u) => Has(inFlight, u) \/ Handled(u)
             /\ \A u \in Trade : Has(delivered', u) =>
                   Has(delivered, u) \/ (Handled(u) /\ Justified(u)')
  <2>1. PICK t \in Trade : t = request[r].trade /\ request[r] # Free
    BY <1>7, RequestFact DEF Sent
  <2>2. /\ inFlight' = IF o = "unknown" THEN inFlight ELSE Without(inFlight, t)
        /\ delivered' = IF o = "delivered"
                        THEN Remember(delivered, t, MaxHistory) ELSE delivered
    BY <1>7, <2>1 DEF Sent
  <2>3. o = "delivered" => announced'[t] > 0
    BY <1>7, <2>1 DEF Sent, SendTelegram, TypeOK
  <2>4. o = "delivered" => Justified(t)'
    BY <2>3 DEF Justified
  <2>5. Handled(t)
    BY <2>1 DEF Handled
  <2>6. /\ inFlight \in Seq(Trade) /\ Len(inFlight) <= MaxHistory
        /\ delivered \in Seq(Trade) /\ Len(delivered) <= MaxHistory
    BY DEF TypeOK
  <2>7. /\ Distinct(inFlight')
        /\ \A u : Has(inFlight', u) => Has(inFlight, u)
    BY <1>0, <2>2, <2>6, HistoryFact
  <2>8. /\ Distinct(delivered')
        /\ \A u : Has(delivered', u) =>
              Has(delivered, u) \/ (u = t /\ o = "delivered")
    <3>1. CASE o = "delivered"
      BY <2>2, <2>6, <3>1, <1>0, HistoryFact
    <3>2. CASE o # "delivered"
      BY <2>2, <3>2, <1>0
    <3> QED
      BY <3>1, <3>2
  <2>9. ASSUME NEW u \in Trade, u = t, o = "delivered" PROVE Justified(u)'
    BY <2>4, <2>9 DEF Justified, Vouched
  <2> QED
    BY <2>5, <2>7, <2>8, <2>9
<1>8. ASSUME BridgeCrash \/ LockAges \/ UNCHANGED vars
      PROVE  inFlight' = inFlight /\ delivered' = delivered
  BY <1>8 DEF BridgeCrash, LockAges, vars, fileVars
<1> QED
  BY <1>1, <1>2, <1>3, <1>4, <1>5, <1>6, <1>7, <1>8
  DEF Next, BotStep, Delivery, BotAlone

\* The histories go on knowing of no pending alert but the first.
LEMMA HistoriesNext == ASSUME DeliveryInv, [Next]_vars PROVE Histories'
<1> USE DEF DeliveryInv
<1>1. Distinct(botDelivered')
  <2>1. CASE MarkDelivered
    BY <2>1, MarkedFact
  <2>2. CASE UNCHANGED botDelivered
    BY <2>2 DEF Histories
  <2>3. MarkDelivered \/ UNCHANGED botDelivered
    BY DEF Next, BotStep, Delivery, Confirm, Recover, Queue, QueueFails,
        Acknowledge, RecoverAcknowledge, Recovered, NextPass, PostFails,
        PostTimesOut, FlushEnds, BotCrash, Post, Operator, Busy, Resolve,
        ClaimResend, Deliver, Sent, BridgeCrash, LockAges, vars, botVars
  <2> QED
    BY <2>1, <2>2, <2>3
<1>2. \A t \in Trade : Has(delivered', t) => Justified(t)'
  <2> SUFFICES ASSUME NEW t \in Trade, Has(delivered', t) PROVE Justified(t)'
    OBVIOUS
  <2>1. Has(delivered, t) => Justified(t)'
    BY JustifiedGrows DEF Histories
  <2>2. PICK u \in Trade : u = t
    OBVIOUS
  <2>3. Has(delivered, u) \/ (Handled(u) /\ Justified(u)')
    BY <2>2, FilesFact
  <2> QED
    BY <2>1, <2>2, <2>3
<1>3. ASSUME NEW t, Has(inFlight', t) \/ Has(delivered', t)
      PROVE  /\ Has(pending, t) => t = Head(pending)
             /\ t \in confirmed \ staged
  <2>0. t \in Trade
    BY <1>3, TypeOKNext, HasFact DEF TypeOK
  <2>1. CASE Has(inFlight, t) \/ Has(delivered, t)
    BY <2>0, <2>1 DEF Histories, Stages, Unsent
  <2>2. CASE Handled(t)
    BY <2>2 DEF Handled, Requests
  <2> QED
    BY <1>3, <2>0, <2>1, <2>2, FilesFact
<1>4. ASSUME NEW t, Has(pending', t), Has(inFlight', t) \/ Has(delivered', t)
      PROVE  t = Head(pending')
  <2>1. CASE pending' = pending
    BY <1>3, <1>4, <2>1
  <2>2. ASSUME NEW u \in staged, Outbox(u) PROVE t = Head(pending')
    <3>1. Has(pending, t)
      BY <1>3, <1>4, <2>2, MovedFact
    <3>2. pending # <<>>
      BY <3>1, HasFact DEF TypeOK
    <3> QED
      BY <1>3, <1>4, <2>2, <3>1, <3>2, MovedFact
  <2>3. CASE MarkDelivered
    BY <1>3, <1>4, <2>3, MarkedFact
  <2>4. Queue \/ (\E u \in Trade : Recover(u)) \/ MarkDelivered \/ pending' = pending
    BY DEF Next, BotStep, Delivery, Confirm, QueueFails,
        Acknowledge, RecoverAcknowledge, Recovered, NextPass, PostFails,
        PostTimesOut, FlushEnds, BotCrash, Post, Operator, Busy, Resolve,
        ClaimResend, Deliver, Sent, BridgeCrash, LockAges, vars, botVars
  <2> QED
    BY <2>1, <2>2, <2>3, <2>4 DEF Queue, Recover, Stages
<1> QED
  BY <1>1, <1>2, <1>4, FilesFact DEF Histories

-----------------------------------------------------------------------------
\* The kinds of step the bridge takes besides those in which a request is
\* answered.
Entering(r) ==
    \/ Post(r) /\ enabled
    \/ \E k \in {"delivered", "resend"}, t \in Trade : Operator(r, k, t)

Claiming(r) == ClaimResend(r) /\ MayResend(request[r].trade)

Beginning(r) ==
    Deliver(r) /\ ~(Has(delivered, request[r].trade) \/ Blocked(r))

Idle == LockAges \/ UNCHANGED vars \/ \E r \in Slot : Post(r) /\ ~enabled

\* Every step is one of these.
LEMMA KindsOfStep ==
    ASSUME [Next]_vars
    PROVE  \/ BotAlone \/ BridgeCrash \/ Idle
           \/ \E r \in Slot : Entering(r) \/ Leaving(r) \/ Claiming(r) \/ Beginning(r)
BY DEF Next, BotStep, Delivery, BotAlone, Idle, Entering, Leaving, Claiming, Beginning

\* A request that comes in is about the first alert of the outbox.
LEMMA EnteringFact ==
    ASSUME DeliveryInv, NEW r \in Slot, Entering(r)
    PROVE  /\ request[r] = Free /\ request'[r].step = "queued"
           /\ request'[r].kind \in {"trade", "delivered", "resend"}
           /\ \A q \in Slot : q # r => request'[q] = request[q]
           /\ pending # <<>> /\ request'[r].trade = Head(pending)
           /\ Has(pending, Head(pending))
           /\ request'[r].trade \in confirmed \ staged
           /\ UNCHANGED botVars /\ UNCHANGED fileVars
           /\ UNCHANGED <<todo, confirmed, announced, waived>>
<1> USE DEF DeliveryInv
<1>1. CASE Post(r) /\ enabled
  <2>1. /\ Enqueue(r, "trade", Head(todo)) /\ todo # <<>> /\ enabled
        /\ UNCHANGED botVars /\ UNCHANGED fileVars
        /\ UNCHANGED <<todo, confirmed, announced, waived>>
    BY <1>1 DEF Post, MayPost
  <2>2. /\ pending # <<>> /\ Head(todo) = Head(pending) /\ Head(todo) \in Trade
        /\ Has(todo, Head(todo)) /\ Has(pending, Head(todo))
    BY <2>1, TodoFact
  <2>3. /\ request[r] = Free
        /\ request'[r] = [kind |-> "trade", trade |-> Head(todo), step |-> "queued"]
        /\ \A q \in Slot : q # r => request'[q] = request[q]
    BY <2>1, <2>2, EnterFact
  <2>4. Head(todo) \in confirmed \ staged
    BY <2>2 DEF Stages, Unsent
  <2> QED
    BY <2>1, <2>2, <2>3, <2>4
<1>2. ASSUME NEW k \in {"delivered", "resend"}, NEW t \in Trade, Operator(r, k, t)
      PROVE  /\ request[r] = Free /\ request'[r].step = "queued"
             /\ request'[r].kind \in {"trade", "delivered", "resend"}
             /\ \A q \in Slot : q # r => request'[q] = request[q]
             /\ pending # <<>> /\ request'[r].trade = Head(pending)
             /\ Has(pending, Head(pending))
             /\ request'[r].trade \in confirmed \ staged
             /\ UNCHANGED botVars /\ UNCHANGED fileVars
             /\ UNCHANGED <<todo, confirmed, announced, waived>>
  <2>1. /\ enabled /\ Has(pending, t) /\ Has(inFlight, t) /\ Enqueue(r, k, t)
        /\ UNCHANGED botVars /\ UNCHANGED fileVars
        /\ UNCHANGED <<todo, confirmed, announced, waived>>
    BY <1>2 DEF Operator, PendingTrade, Uncertain, flushVars, worldVars
  <2>2. /\ request[r] = Free
        /\ request'[r] = [kind |-> k, trade |-> t, step |-> "queued"]
        /\ \A q \in Slot : q # r => request'[q] = request[q]
    <3>1. enabled /\ Enqueue(r, k, t) /\ k \in {"trade", "delivered", "resend"}
      BY <2>1
    <3>2. TypeOK /\ Line
      OBVIOUS
    <3> HIDE DEF DeliveryInv
    <3> QED
      BY <3>1, <3>2, EnterFact, Zenon
  <2>3. pending # <<>> /\ t = Head(pending)
    BY <2>1, HasFact DEF TypeOK, Histories
  <2>4. t \in confirmed \ staged
    BY <2>1 DEF Stages, Unsent
  <2> QED
    BY <2>1, <2>2, <2>3, <2>4
<1> QED
  BY <1>1, <1>2 DEF Entering

\* How the outbox and the set of staged alerts may change.
LEMMA OutboxSteps ==
    ASSUME DeliveryInv, [Next]_vars
    PROVE  \/ pending' = pending
           \/ \E t \in staged : Outbox(t) /\ (Queue \/ Recover(t))
           \/ MarkDelivered
<1>1. Queue \/ (\E t \in Trade : Recover(t)) \/ MarkDelivered \/ pending' = pending
  BY DEF Next, BotStep, Delivery, Confirm, QueueFails,
      Acknowledge, RecoverAcknowledge, Recovered, NextPass, PostFails,
      PostTimesOut, FlushEnds, BotCrash, Post, Operator, Busy, Resolve,
      ClaimResend, Deliver, Sent, BridgeCrash, LockAges, vars, botVars
<1> QED
  BY <1>1 DEF Queue, Recover, Stages, DeliveryInv

\* How the staged and the confirmed alerts may change.
LEMMA StagedSteps ==
    ASSUME DeliveryInv, [Next]_vars
    PROVE  \/ staged' = staged /\ confirmed' = confirmed
           \/ \E t \in Trade : Confirm(t)
           \/ Acknowledge \/ RecoverAcknowledge
BY DEF Next, BotStep, Delivery, Queue, QueueFails, Recover, Recovered, NextPass,
    PostFails, PostTimesOut, MarkDelivered, FlushEnds, BotCrash, Post, Operator,
    Busy, Resolve, ClaimResend, Deliver, Sent, BridgeCrash, LockAges, vars,
    botVars, worldVars

\* The requests stay about the first alert of the outbox or about one that
\* left it.
LEMMA RequestsNext == ASSUME DeliveryInv, [Next]_vars PROVE Requests'
<1> USE DEF DeliveryInv
<1>1. \A u \in confirmed \ staged : u \in confirmed' /\ u \notin staged'
  BY StagedSteps DEF Confirm, Acknowledge, RecoverAcknowledge, worldVars
<1>2. ASSUME NEW u \in confirmed \ staged, Has(pending, u) => u = Head(pending)
      PROVE  Has(pending', u) => u = Head(pending')
  <2>1. ASSUME NEW t \in staged, Outbox(t), Has(pending', u) PROVE u = Head(pending')
    <3>1. Has(pending, u)
      BY <2>1, MovedFact
    <3>2. pending # <<>>
      BY <3>1, HasFact DEF TypeOK
    <3> QED
      BY <1>2, <2>1, <3>1, <3>2, MovedFact
  <2>2. CASE MarkDelivered
    BY <1>2, <2>2, MarkedFact
  <2>3. CASE pending' = pending
    BY <1>2, <2>3
  <2> QED
    BY <2>1, <2>2, <2>3, OutboxSteps
<1>3. ASSUME NEW r \in Slot, request[r].kind = "trade"
      PROVE  pending' # <<>> /\ Head(pending') = Head(pending)
  <2>1. pending # <<>>
    BY <1>3 DEF Requests
  <2>2. ~MarkDelivered
    BY <1>3, MarkedFact
  <2> QED
    BY <2>1, <2>2, OutboxSteps, MovedFact
<1>4. ASSUME NEW r \in Slot,
             \/ request'[r] = Free
             \/ /\ request'[r].trade = request[r].trade
                /\ request[r] # Free
                /\ request'[r].step \in {"queued", "sending"}
                /\ \/ request'[r].kind = request[r].kind
                   \/ request'[r].kind = "resending"
      PROVE  /\ \/ request'[r] = Free
                \/ /\ request'[r].kind \in {"trade", "delivered", "resend", "resending"}
                   /\ request'[r].step \in {"queued", "sending"}
                   /\ request'[r].trade \in confirmed' \ staged'
                   /\ Has(pending', request'[r].trade) =>
                         request'[r].trade = Head(pending')
             /\ request'[r].kind = "trade" =>
                   pending' # <<>> /\ request'[r].trade = Head(pending')
  <2>1. CASE request'[r] = Free
    BY <2>1 DEF Free
  <2>2. CASE request'[r] # Free
    <3>1. /\ request[r].kind \in {"trade", "delivered", "resend", "resending"}
          /\ request[r].trade \in confirmed \ staged
          /\ Has(pending, request[r].trade) => request[r].trade = Head(pending)
          /\ request[r].kind = "trade" => request[r].trade = Head(pending)
      BY <1>4, <2>2 DEF Requests
    <3>2. /\ request'[r].trade \in confirmed' \ staged'
          /\ Has(pending', request'[r].trade) => request'[r].trade = Head(pending')
      BY <1>1, <1>2, <1>4, <2>2, <3>1
    <3>3. request'[r].kind = "trade" =>
             pending' # <<>> /\ request'[r].trade = Head(pending')
      BY <1>3, <1>4, <2>2, <3>1
    <3> QED
      BY <1>4, <2>2, <3>1, <3>2, <3>3
  <2> QED
    BY <2>1, <2>2
<1>5. ASSUME NEW r \in Slot, request'[r] = request[r]
      PROVE  \/ request'[r] = Free
             \/ /\ request'[r].trade = request[r].trade
                /\ request[r] # Free
                /\ request'[r].step \in {"queued", "sending"}
                /\ \/ request'[r].kind = request[r].kind
                   \/ request'[r].kind = "resending"
  BY <1>5 DEF Requests
<1>6. CASE BotAlone \/ Idle
  <2>1. request' = request /\ inFlight' = inFlight
    BY <1>6, BotAloneFact DEF Idle, LockAges, Post, vars, bridgeVars, fileVars
  <2> QED
    BY <2>1, <1>4, <1>5 DEF Requests
<1>7. CASE BridgeCrash
  <2>1. \A r \in Slot : request'[r] = Free
    BY <1>7, KilledFact
  <2> QED
    BY <2>1 DEF Requests, Free
<1>8. ASSUME NEW r \in Slot, Entering(r) PROVE Requests'
  <2>1. /\ request'[r].step = "queued"
        /\ request'[r].kind \in {"trade", "delivered", "resend"}
        /\ \A q \in Slot : q # r => request'[q] = request[q]
        /\ pending # <<>> /\ request'[r].trade = Head(pending)
        /\ request'[r].trade \in confirmed \ staged
        /\ pending' = pending /\ staged' = staged /\ confirmed' = confirmed
        /\ inFlight' = inFlight
    BY <1>8, EnteringFact DEF botVars, fileVars
  <2> QED
    BY <2>1 DEF Requests
<1>9. ASSUME NEW r \in Slot, Leaving(r) PROVE Requests'
  <2>1. /\ request'[r] = Free
        /\ \A q \in Slot : q # r => request'[q] = request[q] /\ request[q].step # "sending"
    BY <1>9, LeavingFact
  <2>2. \A q \in Slot : request'[q].step # "sending"
    BY <2>1 DEF Free
  <2>3. \A q \in Slot : request'[q] = Free \/ request'[q] = request[q]
    BY <2>1
  <2> QED
    BY <2>2, <2>3, <1>4, <1>5 DEF Requests
<1>10. ASSUME NEW r \in Slot, Claiming(r) PROVE Requests'
  <2>1. /\ request'[r].kind = "resending" /\ request'[r].step = "queued"
        /\ request'[r].trade = request[r].trade
        /\ \A q \in Slot : q # r => request'[q] = request[q]
    BY <1>10, ClaimFact DEF Claiming
  <2>2. inFlight' = inFlight /\ request[r] # Free
    BY <1>10 DEF Claiming, ClaimResend, MayLock, Turn, Free
  <2> QED
    BY <2>1, <2>2, <1>4, <1>5 DEF Requests
<1>11. ASSUME NEW r \in Slot, Beginning(r) PROVE Requests'
  <2>1. /\ request'[r].kind = request[r].kind /\ request'[r].step = "sending"
        /\ request'[r].trade = request[r].trade
        /\ \A q \in Slot : q # r => request'[q] = request[q]
        /\ \A q \in Slot : request[q].step # "sending"
        /\ inFlight' = Remember(inFlight, request[r].trade, MaxHistory)
    BY <1>11, BeginFact DEF Beginning
  <2>2. request[r].kind \in {"trade", "resending"} /\ request[r].step # "free"
    BY <1>11 DEF Beginning, Deliver, MayLock, Turn
  <2>3. request[r] # Free /\ request[r].trade \in Trade
    BY <2>2, RequestFact
  <2>4. Has(inFlight', request[r].trade)
    BY <2>1, <2>3, HistoryFact DEF TypeOK, Histories
  <2>5. \A q \in Slot : request'[q].step = "sending" => q = r
    BY <2>1
  <2>6. \A q \in Slot : request'[q].step = "sending" =>
           /\ request'[q].kind \in {"trade", "resending"}
           /\ Has(inFlight', request'[q].trade)
    BY <2>1, <2>2, <2>4, <2>5
  <2> QED
    BY <2>1, <2>3, <2>6, <1>4, <1>5 DEF Requests
<1> QED
  BY <1>6, <1>7, <1>8, <1>9, <1>10, <1>11, KindsOfStep

\* A resend that was claimed stays the only one of its hash.
LEMMA ClaimsNext == ASSUME DeliveryInv, [Next]_vars PROVE Claims'
<1> USE DEF DeliveryInv
<1>1. \A t : ResendUsed(t) => ResendUsed(t)'
  BY GrowthFact DEF ResendUsed
<1>2. ASSUME \A q \in Slot : request'[q].kind = "resending" =>
                /\ request[q].kind = "resending"
                /\ request'[q].trade = request[q].trade
      PROVE  Claims'
  BY <1>2, GrowthFact DEF Claims, ResendUsed
<1>3. CASE BotAlone \/ Idle
  <2>1. request' = request
    BY <1>3, BotAloneFact DEF Idle, LockAges, Post, vars, bridgeVars
  <2> QED
    BY <1>2, <2>1
<1>4. CASE BridgeCrash
  BY <1>2, <1>4, KilledFact DEF Free
<1>5. ASSUME NEW r \in Slot, Entering(r) PROVE Claims'
  BY <1>2, <1>5, EnteringFact
<1>6. ASSUME NEW r \in Slot, Leaving(r) PROVE Claims'
  BY <1>2, <1>6, LeavingFact DEF Free
<1>7. ASSUME NEW r \in Slot, Beginning(r) PROVE Claims'
  BY <1>2, <1>7, BeginFact DEF Beginning
<1>8. ASSUME NEW r \in Slot, Claiming(r) PROVE Claims'
  <2>1. /\ request'[r].trade = request[r].trade
        /\ \A q \in Slot : q # r => request'[q] = request[q]
        /\ audit' = audit \cup {Logged(request[r].trade, "resend", "requested")}
    BY <1>8, ClaimFact DEF Claiming
  <2>2. ~ResendUsed(request[r].trade)
    BY <1>8 DEF Claiming, MayResend
  <2>3. \A q \in Slot : q # r /\ request[q].kind = "resending" =>
           request[q].trade # request[r].trade
    BY <2>2 DEF Claims
  <2>4. \A q \in Slot : request[q].kind = "resending" =>
           Logged(request[q].trade, "resend", "requested") \in audit'
    BY <2>1 DEF Claims, ResendUsed
  <2>5. \A q \in Slot : request'[q].kind = "resending" =>
           Logged(request'[q].trade, "resend", "requested") \in audit'
    BY <2>1, <2>4
  <2>6. \A p, q \in Slot :
           /\ request'[p].kind = "resending" /\ request'[q].kind = "resending"
           /\ request'[p].trade = request'[q].trade
           => p = q
    BY <2>1, <2>3 DEF Claims
  <2> QED
    BY <2>5, <2>6 DEF Claims, ResendUsed
<1> QED
  BY <1>3, <1>4, <1>5, <1>6, <1>7, <1>8, KindsOfStep

\* What is still staged stays unheard of, and the move of an alert goes on.
LEMMA StagesNext == ASSUME DeliveryInv, [Next]_vars PROVE Stages'
<1> USE DEF DeliveryInv
<1>1. staged' \subseteq confirmed'
  BY StagedSteps DEF Confirm, Acknowledge, RecoverAcknowledge, Stages, worldVars
<1>2. ASSUME NEW u, Handled(u) PROVE u \in confirmed \ staged
  BY <1>2 DEF Handled, Requests
<1>3. ASSUME NEW t \in Trade, Has(botDelivered', t)
      PROVE  Has(botDelivered, t) \/ t \in confirmed \ staged
  <2>1. CASE MarkDelivered
    <3>1. /\ Has(botDelivered', t) => Has(botDelivered, t) \/ t = Head(todo)
          /\ Has(todo, Head(todo)) /\ Head(todo) \in Trade
      BY <2>1, MarkedFact
    <3>2. Head(todo) \in confirmed \ staged
      BY <3>1 DEF Stages, Unsent
    <3> QED
      BY <1>3, <3>1, <3>2
  <2>2. MarkDelivered \/ UNCHANGED botDelivered
    BY DEF Next, BotStep, Delivery, Confirm, Recover, Queue, QueueFails,
        Acknowledge, RecoverAcknowledge, Recovered, NextPass, PostFails,
        PostTimesOut, FlushEnds, BotCrash, Post, Operator, Busy, Resolve,
        ClaimResend, Deliver, Sent, BridgeCrash, LockAges, vars, botVars
  <2> QED
    BY <1>3, <2>1, <2>2
<1>4. ASSUME NEW t \in Trade, announced'[t] # announced[t]
      PROVE  t \in confirmed \ staged
  <2>1. ASSUME NEW r \in Slot, NEW o \in {"delivered", "rejected", "unknown"},
               NEW a \in BOOLEAN, Sent(r, o, a)
        PROVE  t = request[r].trade /\ request[r] # Free
    BY <1>4, <2>1 DEF Sent, TypeOK, Free
  <2>2. CASE BridgeCrash
    <3>1. PICK r \in Slot : request[r].step = "sending" /\ request[r].trade = t
      BY <1>4, <2>2 DEF BridgeCrash, Sending, TypeOK
    <3> QED
      BY <3>1, RequestFact
  <2>3. BridgeCrash \/ UNCHANGED announced
        \/ \E r \in Slot, o \in {"delivered", "rejected", "unknown"},
              a \in BOOLEAN : Sent(r, o, a)
    BY DEF Next, BotStep, Delivery, Confirm, Recover, Queue, QueueFails,
        Acknowledge, RecoverAcknowledge, Recovered, NextPass, PostFails,
        PostTimesOut, MarkDelivered, FlushEnds, BotCrash, Post, Operator, Busy,
        Resolve, ClaimResend, Deliver, LockAges, vars, worldVars
  <2> QED
    BY <1>4, <2>1, <2>2, <2>3, <1>2 DEF Handled
<1>5. ASSUME NEW t \in Trade, Has(todo', t)
      PROVE  \/ Has(todo, t)
             \/ Acknowledge /\ Has(pending, t)
             \/ Recovered /\ Has(pending, t)
  <2>1. CASE todo' = todo
    BY <1>5, <2>1
  <2>2. CASE todo' = <<>>
    BY <1>5, <2>2 DEF Has
  <2>3. CASE MarkDelivered
    <3>1. todo # <<>> /\ todo' = Tail(todo)
      BY <2>3, MarkedFact
    <3>2. /\ Len(todo) \in Nat /\ Len(todo') = Len(todo) - 1 /\ todo' \in Seq(Trade)
          /\ \A i \in 1..Len(todo') : todo'[i] = todo[i + 1]
      BY <3>1, HeadTailProperties, LenProperties DEF TypeOK
    <3>3. PICK i \in 1..Len(todo') : todo'[i] = t
      BY <1>5, <3>2, LenProperties DEF Has
    <3>4. i + 1 \in 1..Len(todo)
      BY <3>2
    <3>5. i + 1 \in DOMAIN todo /\ todo[i + 1] = t
      BY <3>2, <3>3, <3>4, LenProperties DEF TypeOK
    <3> QED
      BY <3>5 DEF Has
  <2>4. CASE (Acknowledge \/ Recovered) /\ todo' # todo
    BY <1>5, <2>4 DEF Acknowledge, Recovered, StartFlush
  <2>5. \/ todo' = todo \/ todo' = <<>> \/ MarkDelivered
        \/ (Acknowledge \/ Recovered) /\ todo' # todo
    BY DEF Next, BotStep, Delivery, Confirm, Recover, Queue, QueueFails,
        RecoverAcknowledge, NextPass, PostFails, PostTimesOut, FlushEnds,
        BotCrash, Post, Operator, Busy, Resolve, ClaimResend, Deliver, Sent,
        Reply, BridgeCrash, LockAges, vars, flushVars
  <2> QED
    BY <2>1, <2>2, <2>3, <2>4, <2>5
<1>6. ASSUME NEW t \in Trade, t \notin confirmed' \ staged' PROVE Unsent(t)'
  <2>1. t \notin confirmed \ staged
    BY <1>6, StagedSteps DEF Confirm, Acknowledge, RecoverAcknowledge, worldVars
  <2>2. Unsent(t)
    BY <2>1 DEF Stages
  <2>3. announced'[t] = 0 /\ ~Has(botDelivered', t)
    BY <1>3, <1>4, <2>1, <2>2 DEF Unsent
  <2>4. ~Has(inFlight', t) /\ ~Has(delivered', t)
    BY <1>2, <2>1, <2>2, FilesFact DEF Unsent
  <2>5. CASE Acknowledge
    <3>1. /\ staged' = staged \ {moving} /\ phase = "ack" /\ confirmed' = confirmed
      BY <2>5 DEF Acknowledge, worldVars
    <3>2. ~Has(pending, t)
      BY <1>6, <2>1, <3>1 DEF Stages, Outboxes
    <3> QED
      BY <1>5, <2>2, <2>3, <2>4, <3>2 DEF Unsent, Acknowledge, Recovered
  <2>6. CASE Recovered
    <3>1. ~Has(pending, t)
      BY <2>1, <2>6 DEF Recovered, Outboxes
    <3> QED
      BY <1>5, <2>2, <2>3, <2>4, <3>1 DEF Unsent
  <2> QED
    BY <1>5, <2>2, <2>3, <2>4, <2>5, <2>6 DEF Unsent
<1>7. /\ phase' \in {"queue", "ack", "recoverAck"} => moving' \in staged'
      /\ phase' \in {"ack", "recoverAck"} => Has(pending', moving')
      /\ phase' = "queue" => ~Has(pending', moving')
      /\ phase' \in {"trade", "queue", "ack"} =>
            \A t \in staged' : t # moving' => ~Has(pending', t)
  <2>1. ASSUME NEW t \in Trade, Confirm(t)
        PROVE  /\ phase' = "queue" /\ moving' = t /\ staged' = staged \cup {t}
               /\ ~Has(pending', t)
               /\ \A u \in staged : ~Has(pending', u)
    <3>1. /\ phase = "trade" /\ moving = NoTrade /\ t \notin confirmed
          /\ pending' = pending /\ phase' = "queue" /\ moving' = t
          /\ staged' = staged \cup {t}
      BY <2>1 DEF Confirm, TypeOK
    <3>2. \A u \in staged : u # moving
      BY <3>1, NullAssumption DEF TypeOK
    <3>3. \A u \in staged : ~Has(pending, u)
      BY <3>1, <3>2 DEF Stages
    <3> QED
      BY <3>1, <3>3 DEF Outboxes
  <2>2. CASE Queue
    <3>1. /\ phase = "queue" /\ phase' = "ack" /\ moving' = moving /\ staged' = staged
          /\ Outbox(moving)
      BY <2>2 DEF Queue
    <3>2. moving \in staged
      BY <3>1 DEF Stages
    <3> QED
      BY <3>1, <3>2, MovedFact DEF Stages
  <2>3. CASE QueueFails
    <3>1. /\ phase = "queue" /\ phase' = "trade" /\ staged' = staged
          /\ pending' = pending
      BY <2>3 DEF QueueFails
    <3> QED
      BY <3>1 DEF Stages
  <2>4. CASE Acknowledge
    <3>1. /\ phase = "ack" /\ phase' = "trade" /\ staged' = staged \ {moving}
          /\ pending' = pending
      BY <2>4 DEF Acknowledge
    <3> QED
      BY <3>1 DEF Stages
  <2>5. ASSUME NEW t \in Trade, Recover(t)
        PROVE  /\ phase' = "recoverAck" /\ moving' = t /\ t \in staged'
               /\ Has(pending', t)
    <3>1. t \in staged /\ Outbox(t) /\ staged' = staged
          /\ phase' = "recoverAck" /\ moving' = t
      BY <2>5 DEF Recover
    <3> QED
      BY <3>1, MovedFact
  <2>6. CASE RecoverAcknowledge \/ BotCrash
    BY <2>6 DEF RecoverAcknowledge, BotCrash
  <2>7. CASE Recovered \/ NextPass
    BY <2>7 DEF Recovered, NextPass
  <2>8. CASE MarkDelivered
    <3>1. /\ UNCHANGED <<phase, moving, staged>>
          /\ \A u : Has(pending', u) <=> Has(pending, u) /\ u # Head(todo)
          /\ Has(todo, Head(todo)) /\ Head(todo) \in Trade
      BY <2>8, MarkedFact DEF MarkDelivered
    <3>2. Head(todo) \notin staged
      BY <3>1 DEF Stages, Unsent
    <3> QED
      BY <3>1, <3>2 DEF Stages
  <2>9. CASE UNCHANGED <<phase, moving, staged, pending>>
    BY <2>9 DEF Stages
  <2>10. \/ \E t \in Trade : Confirm(t) \/ Recover(t)
         \/ Queue \/ QueueFails \/ Acknowledge \/ RecoverAcknowledge \/ BotCrash
         \/ Recovered \/ NextPass \/ MarkDelivered
         \/ UNCHANGED <<phase, moving, staged, pending>>
    BY DEF Next, BotStep, Delivery, PostFails, PostTimesOut, FlushEnds, Post,
        Operator, Busy, Resolve, ClaimResend, Deliver, Sent, BridgeCrash,
        LockAges, vars, botVars
  <2> QED
    BY <2>1, <2>2, <2>3, <2>4, <2>5, <2>6, <2>7, <2>8, <2>9, <2>10
<1> QED
  BY <1>1, <1>6, <1>7 DEF Stages

\* The invariant is inductive.
LEMMA DeliveryInit == Init => DeliveryInv
<1> SUFFICES ASSUME Init PROVE DeliveryInv
  OBVIOUS
<1>1. <<>> \in Seq(Trade) /\ <<>> \in Seq(Slot) /\ Len(<<>>) = 0
  BY EmptySeq
<1>2. Distinct(<<>>) /\ \A u : ~Has(<<>>, u)
  BY DEF Distinct, Has
<1>3. MaxHistory \in Nat /\ BotHistory \in Nat /\ 0 <= MaxHistory /\ 0 <= BotHistory
  BY HistoryAssumption
<1>4. TypeOK
  BY <1>1, <1>3 DEF Init, TypeOK, Free
<1>5. Requests /\ Claims
  BY DEF Init, Requests, Claims, Free
<1>6. Sending = {}
  BY DEF Init, Sending, Free
<1>7. Line
  BY <1>2, <1>6 DEF Init, Line, Free
<1>8. Calls
  BY DEF Init, Calls
<1>9. Outboxes
  BY <1>1, <1>2 DEF Init, Outboxes
<1>10. Stages
  BY <1>2 DEF Init, Stages, Unsent
<1>11. Histories
  BY <1>2 DEF Init, Histories
<1> QED
  BY <1>4, <1>5, <1>7, <1>8, <1>9, <1>10, <1>11 DEF DeliveryInv

\* Every step keeps it.
LEMMA DeliveryNext == DeliveryInv /\ [Next]_vars => DeliveryInv'
BY TypeOKNext, RequestsNext, ClaimsNext, LineNext, CallsNext, OutboxesNext,
   StagesNext, HistoriesNext DEF DeliveryInv

\* It holds in every reachable state.
LEMMA DeliveryAlways == SafetySpec => []DeliveryInv
BY DeliveryInit, DeliveryNext, PTL DEF SafetySpec

-----------------------------------------------------------------------------
\* Every variable of the runner's file, the outbox, the chain, the requests
\* and the bridge's delivery journal keeps its type and its bound.
THEOREM TypesHold == Spec => []TypeOK
<1>1. DeliveryInv => TypeOK
  BY DEF DeliveryInv
<1> QED
  BY <1>1, DeliveryAlways, PTL DEF Spec

\* The lock file is held by the one request that is between its turn in the
\* chain and its answer (withDeliveryLock).
THEOREM OneRequestSends == Spec => []OneSender
<1>1. ASSUME DeliveryInv PROVE OneSender
  <2> USE <1>1 DEF DeliveryInv
  <2>1. ASSUME NEW r \in Sending PROVE chain # <<>> /\ Head(chain) = r
    BY RequestFact DEF Sending, Line
  <2> QED
    BY <2>1 DEF OneSender, Line
<1> QED
  BY <1>1, DeliveryAlways, PTL DEF Spec

-----------------------------------------------------------------------------
(***************************************************************************)
(* The histories outlive what is pending. MAX_HISTORY is 1000, and a hash   *)
(* is cut from a history only when as many others entered after it, each by *)
(* a request the bridge held meanwhile.                                     *)
(***************************************************************************)
HistoryOutlives == IsFiniteSet(Slot) /\ Cardinality(Slot) <= MaxHistory

InHand == {t \in Trade : Handled(t)}

\* The hashes that came after t, and those that may still come.
Crowd(s, t, hands) == {u \in Trade : u # t /\ (Follows(s, t, u) \/ u \in hands)}

Room ==
    \A t \in Trade : Has(pending, t) =>
        /\ Has(inFlight, t) =>
              Cardinality(Crowd(inFlight, t, InHand)) < Cardinality(Slot)
        /\ Has(delivered, t) =>
              Cardinality(Crowd(delivered, t, InHand)) < Cardinality(Slot)

\* Requests name no more hashes than there are requests.
LEMMA NamesFact ==
    ASSUME NEW D, IsFiniteSet(D), NEW f, NEW T, T \subseteq {f[x] : x \in D}
    PROVE  IsFiniteSet(T) /\ Cardinality(T) <= Cardinality(D)
<1> DEFINE g == [x \in D |-> f[x]]
           all == {f[x] : x \in D}
<1>1. g \in Surjection(D, all)
  BY Fun_IsSurj
<1>2. IsFiniteSet(all) /\ Cardinality(all) <= Cardinality(D)
  BY <1>1, FS_Surjection
<1> HIDE DEF all
<1>3. T \in SUBSET all
  BY DEF all
<1>4. IsFiniteSet(T) /\ Cardinality(T) <= Cardinality(all)
  BY <1>2, <1>3, FS_Subset
<1>5. Cardinality(T) \in Nat /\ Cardinality(all) \in Nat /\ Cardinality(D) \in Nat
  BY <1>2, <1>4, FS_CardinalityType
<1> QED
  BY <1>2, <1>4, <1>5

\* A list of distinct entries has as many entries as it is long.
LEMMA EntriesFact ==
    ASSUME NEW S, NEW s \in Seq(S), Distinct(s)
    PROVE  LET T == {u \in S : Has(s, u)}
           IN  IsFiniteSet(T) /\ Cardinality(T) = Len(s)
<1> DEFINE T == {u \in S : Has(s, u)}
<1>1. Len(s) \in Nat /\ DOMAIN s = 1..Len(s)
  BY LenProperties
<1>2. \A i \in 1..Len(s) : s[i] \in T
  BY <1>1, ElementOfSeq DEF Has
<1>3. s \in [1..Len(s) -> T]
  BY <1>1, <1>2, LenProperties
<1>4. \A u \in T : \E i \in 1..Len(s) : s[i] = u
  BY <1>1 DEF Has
<1>5. \A i, j \in 1..Len(s) : s[i] = s[j] => i = j
  BY <1>1 DEF Distinct
<1> HIDE DEF T
<1>6. s \in Bijection(1..Len(s), T)
  BY <1>3, <1>4, <1>5, Fun_IsBij
<1>7. ExistsBijection(1..Len(s), T)
  BY <1>6 DEF ExistsBijection
<1>8. IsFiniteSet(1..Len(s)) /\ Cardinality(1..Len(s)) = Len(s)
  <2>1. IsFiniteSet(1..Len(s))
        /\ Cardinality(1..Len(s)) = IF 1 > Len(s) THEN 0 ELSE Len(s) - 1 + 1
    BY <1>1, FS_Interval
  <2> QED
    BY <1>1, <2>1
<1>9. IsFiniteSet(T) /\ Cardinality(T) = Len(s)
  BY <1>7, <1>8, FS_Bijection
<1> QED
  BY <1>9 DEF T

\* The crowd behind a hash is finite.
LEMMA CrowdFinite ==
    ASSUME NEW s \in Seq(Trade), Distinct(s), NEW hands, IsFiniteSet(hands), NEW t
    PROVE  /\ IsFiniteSet(Crowd(s, t, hands))
           /\ Cardinality(Crowd(s, t, hands)) \in Nat
<1> DEFINE T == {u \in Trade : Has(s, u)}
<1>1. IsFiniteSet(T)
  BY EntriesFact
<1>2. Crowd(s, t, hands) \in SUBSET (T \cup hands)
  BY DEF Crowd, Follows, Has
<1> HIDE DEF T
<1>3. IsFiniteSet(T \cup hands)
  BY <1>1, FS_Union
<1>4. IsFiniteSet(Crowd(s, t, hands))
  BY <1>2, <1>3, FS_Subset
<1> QED
  BY <1>4, FS_CardinalityType

\* The crowd is not smaller than one it contains.
LEMMA CrowdShrinks ==
    ASSUME NEW s \in Seq(Trade), Distinct(s), NEW hands, IsFiniteSet(hands),
           NEW w, NEW rest, NEW t, NEW k \in Nat,
           Cardinality(Crowd(s, t, hands)) < k,
           \A u \in Trade : u # t /\ u \in rest => u \in hands,
           \A u : Follows(w, t, u) => Follows(s, t, u) \/ u \in hands
    PROVE  Cardinality(Crowd(w, t, rest)) < k
<1>1. /\ IsFiniteSet(Crowd(s, t, hands))
      /\ Cardinality(Crowd(s, t, hands)) \in Nat
  BY CrowdFinite
<1>2. Crowd(w, t, rest) \in SUBSET Crowd(s, t, hands)
  BY DEF Crowd
<1>3. /\ IsFiniteSet(Crowd(w, t, rest))
      /\ Cardinality(Crowd(w, t, rest)) <= Cardinality(Crowd(s, t, hands))
  BY <1>1, <1>2, FS_Subset
<1>4. Cardinality(Crowd(w, t, rest)) \in Nat
  BY <1>3, FS_CardinalityType
<1> QED
  BY <1>1, <1>3, <1>4

\* A hash that has just entered has nothing behind it but the other requests.
LEMMA CrowdOfNew ==
    ASSUME HistoryOutlives, NEW f, NEW w, NEW hands, NEW t, NEW r \in Slot,
           \A u : ~Follows(w, t, u),
           \A u \in hands : u # t => \E q \in Slot \ {r} : f[q] = u
    PROVE  Cardinality(Crowd(w, t, hands)) < Cardinality(Slot)
<1>1. Crowd(w, t, hands) \subseteq {f[q] : q \in Slot \ {r}}
  BY DEF Crowd
<1>2. /\ IsFiniteSet(Slot \ {r}) /\ Cardinality(Slot) \in Nat
      /\ Cardinality(Slot \ {r}) = Cardinality(Slot) - 1
  BY FS_RemoveElement, FS_CardinalityType DEF HistoryOutlives
<1>3. /\ IsFiniteSet(Crowd(w, t, hands))
      /\ Cardinality(Crowd(w, t, hands)) <= Cardinality(Slot \ {r})
  BY <1>1, <1>2, NamesFact
<1>4. Cardinality(Crowd(w, t, hands)) \in Nat
  BY <1>3, FS_CardinalityType
<1> QED
  BY <1>2, <1>3, <1>4

\* While there is room, a hash is not cut off for another one.
LEMMA KeptFact ==
    ASSUME HistoryOutlives, NEW s \in Seq(Trade), Distinct(s), Len(s) <= MaxHistory,
           NEW hands, IsFiniteSet(hands), NEW t \in hands, t \in Trade,
           NEW u \in Trade, u # t, Has(s, u),
           Cardinality(Crowd(s, u, hands)) < Cardinality(Slot)
    PROVE  Has(Remember(s, t, MaxHistory), u)
<1> DEFINE w == Remember(s, t, MaxHistory)
<1> SUFFICES ASSUME ~Has(w, u) PROVE FALSE
  OBVIOUS
<1>0. MaxHistory \in Nat /\ MaxHistory > 0
  BY HistoryAssumption
<1>1. w \in Seq(Trade) /\ Distinct(w)
  BY <1>0, RememberFact
<1>2. \A v : Has(w, v) => Has(s, v) \/ v = t
  BY <1>0, RememberFact
<1>3. s[1] = u /\ Len(w) = MaxHistory
  BY <1>0, RememberFact
<1> HIDE DEF w
<1>4. s # <<>> /\ Head(s) = u
  BY <1>3, HasFact, TailFact
<1>5. \A v : Has(s, v) /\ v # u => Follows(s, u, v)
  BY <1>4, TailFact
<1> DEFINE T == {v \in Trade : Has(w, v)}
<1>6. IsFiniteSet(T) /\ Cardinality(T) = MaxHistory
  BY <1>1, <1>3, EntriesFact
<1>7. T \in SUBSET Crowd(s, u, hands)
  BY <1>2, <1>5 DEF Crowd
<1> HIDE DEF T
<1>8. /\ IsFiniteSet(Crowd(s, u, hands))
      /\ Cardinality(Crowd(s, u, hands)) \in Nat
  BY CrowdFinite
<1>9. Cardinality(T) <= Cardinality(Crowd(s, u, hands))
  BY <1>7, <1>8, FS_Subset
<1>10. Cardinality(Slot) \in Nat /\ Cardinality(Slot) <= MaxHistory
  BY FS_CardinalityType DEF HistoryOutlives
<1> QED
  BY <1>0, <1>6, <1>8, <1>9, <1>10

\* The bridge holds finitely many hashes.
LEMMA InHandFinite ==
    ASSUME TypeOK, HistoryOutlives PROVE IsFiniteSet(InHand)
<1> DEFINE f == [r \in Slot |-> request[r].trade]
<1>1. InHand \subseteq {f[r] : r \in Slot}
  BY DEF InHand, Handled
<1> HIDE DEF f
<1> QED
  BY <1>1, NamesFact DEF HistoryOutlives

-----------------------------------------------------------------------------
\* The ways in which the answer or the start of a request changes a history.
Updated(s, w, t) ==
    \/ w = s
    \/ w = Without(s, t)
    \/ w = Remember(s, t, MaxHistory)

\* Only the histories' entries for the hash of the request are concerned.
LEMMA UpdatedFact ==
    ASSUME DeliveryInv, NEW r \in Slot, Leaving(r) \/ Beginning(r)
    PROVE  /\ Updated(inFlight, inFlight', request[r].trade)
           /\ Updated(delivered, delivered', request[r].trade)
BY DEF Updated, Leaving, Beginning, Busy, Resolve, ClaimResend, Deliver, Sent, fileVars

\* A pending hash other than that of the request is not lost from a history.
LEMMA UpdateKeeps ==
    ASSUME HistoryOutlives, TypeOK, NEW s \in Seq(Trade), Distinct(s),
           Len(s) <= MaxHistory,
           NEW t \in InHand, NEW w, Updated(s, w, t),
           NEW u \in Trade, u # t, Has(s, u),
           Cardinality(Crowd(s, u, InHand)) < Cardinality(Slot)
    PROVE  Has(w, u)
<1>1. IsFiniteSet(InHand) /\ t \in Trade
  BY InHandFinite DEF InHand
<1>2. CASE w = s
  BY <1>2
<1>3. CASE w = Without(s, t)
  BY <1>1, <1>3, WithoutFact
<1>4. CASE w = Remember(s, t, MaxHistory)
  BY <1>1, <1>4, KeptFact
<1> QED
  BY <1>2, <1>3, <1>4 DEF Updated

\* What follows a hash in an updated history followed it before or is the hash
\* of the request.
LEMMA UpdateFollows ==
    ASSUME NEW s \in Seq(Trade), Distinct(s), Len(s) <= MaxHistory,
           NEW t \in Trade, NEW w, Updated(s, w, t)
    PROVE  /\ \A u, v : Follows(w, u, v) => Follows(s, u, v) \/ v = t
           /\ \A u : Has(w, u) => Has(s, u) \/ u = t
           /\ Has(w, t) /\ ~Has(s, t) => \A u : ~Follows(w, t, u)
<1>0. MaxHistory \in Nat /\ MaxHistory > 0
  BY HistoryAssumption
<1>1. CASE w = s
  BY <1>1
<1>2. CASE w = Without(s, t)
  BY <1>2, WithoutFact
<1>3. CASE w = Remember(s, t, MaxHistory)
  <2>1. \A u, v : Follows(w, u, v) => Follows(s, u, v) \/ v = t
    BY <1>0, <1>3, RememberFact
  <2>2. \A u : Has(w, u) => Has(s, u) \/ u = t
    BY <1>0, <1>3, RememberFact
  <2>3. \A u : ~Follows(w, t, u)
    BY <1>0, <1>3, RememberFact
  <2> QED
    BY <2>1, <2>2, <2>3
<1> QED
  BY <1>1, <1>2, <1>3 DEF Updated

\* The room behind a hash in an updated history. A hash that stayed where it
\* was can only have lost company; one that came in has none.
LEMMA UpdateRoom ==
    ASSUME HistoryOutlives, DeliveryInv, NEW r \in Slot,
           NEW s \in Seq(Trade), Distinct(s), Len(s) <= MaxHistory,
           NEW t \in Trade, t = request[r].trade,
           request'[r].trade \in {t, NoTrade},
           \A q \in Slot : q # r => request'[q] = request[q],
           NEW w, Updated(s, w, t), NEW u \in Trade, Has(w, u),
           Has(s, u) => Cardinality(Crowd(s, u, InHand)) < Cardinality(Slot)
    PROVE  Cardinality(Crowd(w, u, InHand')) < Cardinality(Slot)
<1>0. IsFiniteSet(InHand) /\ TypeOK
  BY InHandFinite DEF DeliveryInv
<1>1. t \in InHand
  BY NullAssumption DEF InHand, Handled, Free
<1>2. \A v \in Trade : v \in InHand' => v \in InHand
  <2> SUFFICES ASSUME NEW v \in Trade, v \in InHand' PROVE v \in InHand
    OBVIOUS
  <2>1. PICK q \in Slot : request'[q] # Free /\ request'[q].trade = v
    BY DEF InHand, Handled
  <2>2. CASE q = r
    BY <1>1, <2>1, <2>2, NullAssumption
  <2>3. CASE q # r
    BY <2>1, <2>3 DEF InHand, Handled
  <2> QED
    BY <2>2, <2>3
<1>3. \A v \in Trade : v \in InHand' /\ v # t => \E q \in Slot \ {r} : request[q].trade = v
  <2> SUFFICES ASSUME NEW v \in Trade, v \in InHand', v # t
               PROVE  \E q \in Slot \ {r} : request[q].trade = v
    OBVIOUS
  <2>1. PICK q \in Slot : request'[q] # Free /\ request'[q].trade = v
    BY DEF InHand, Handled
  <2>2. q # r
    BY <2>1, NullAssumption
  <2> QED
    BY <2>1, <2>2
<1>4. /\ \A v : Follows(w, u, v) => Follows(s, u, v) \/ v = t
      /\ Has(s, u) \/ u = t
      /\ Has(w, t) /\ ~Has(s, t) => \A v : ~Follows(w, t, v)
  BY UpdateFollows
<1>5. CASE Has(s, u)
  <2>1. Cardinality(Slot) \in Nat
    BY FS_CardinalityType DEF HistoryOutlives
  <2>2. \A v : Follows(w, u, v) => Follows(s, u, v) \/ v \in InHand
    BY <1>1, <1>4
  <2>3. \A v \in Trade : v # u /\ v \in InHand' => v \in InHand
    BY <1>2
  <2> QED
    BY <1>0, <1>5, <2>1, <2>2, <2>3, CrowdShrinks
<1>6. CASE ~Has(s, u)
  <2> DEFINE f == [q \in Slot |-> request[q].trade]
  <2>1. u = t /\ \A v : ~Follows(w, u, v)
    BY <1>4, <1>6
  <2>2. \A v \in InHand' : v # u => \E q \in Slot \ {r} : f[q] = v
    BY <1>3, <2>1 DEF InHand
  <2> HIDE DEF f
  <2> QED
    BY <2>1, <2>2, CrowdOfNew
<1> QED
  BY <1>5, <1>6

\* There stays room for every pending alert.
LEMMA RoomNext ==
    ASSUME HistoryOutlives, DeliveryInv, Room, [Next]_vars PROVE Room'
<1> USE DEF DeliveryInv
<1>0. /\ inFlight \in Seq(Trade) /\ Distinct(inFlight) /\ Len(inFlight) <= MaxHistory
      /\ delivered \in Seq(Trade) /\ Distinct(delivered) /\ Len(delivered) <= MaxHistory
      /\ IsFiniteSet(InHand) /\ Cardinality(Slot) \in Nat
  BY InHandFinite, FS_CardinalityType DEF TypeOK, Histories, HistoryOutlives
<1>1. ASSUME NEW t \in Trade, Has(pending', t), ~Has(pending, t)
      PROVE  /\ ~Has(inFlight, t) /\ ~Has(delivered, t) /\ ~Handled(t)
             /\ pending' # pending
  <2>1. t \in staged
    BY <1>1, OutboxSteps, MovedFact, MarkedFact
  <2> QED
    BY <1>1, <2>1 DEF Stages, Unsent, Handled, Requests
<1>2. ASSUME inFlight' = inFlight, delivered' = delivered,
             \A t \in Trade : Has(pending, t) /\ (Has(inFlight, t) \/ Has(delivered, t)) =>
                \A u \in Trade : u # t /\ u \in InHand' => u \in InHand
      PROVE  Room'
  <2> SUFFICES ASSUME NEW t \in Trade, Has(pending', t)
               PROVE  /\ Has(inFlight, t) =>
                            Cardinality(Crowd(inFlight, t, InHand')) < Cardinality(Slot)
                      /\ Has(delivered, t) =>
                            Cardinality(Crowd(delivered, t, InHand')) < Cardinality(Slot)
    BY <1>2 DEF Room
  <2>1. CASE ~Has(inFlight, t) /\ ~Has(delivered, t)
    BY <2>1
  <2>2. CASE Has(inFlight, t) \/ Has(delivered, t)
    <3>1. Has(pending, t)
      BY <2>2, <1>1
    <3>2. \A u \in Trade : u # t /\ u \in InHand' => u \in InHand
      BY <1>2, <2>2, <3>1
    <3>3. ASSUME Has(inFlight, t)
          PROVE  Cardinality(Crowd(inFlight, t, InHand')) < Cardinality(Slot)
      <4>1. Cardinality(Crowd(inFlight, t, InHand)) < Cardinality(Slot)
        BY <3>1, <3>3 DEF Room
      <4> QED
        BY <4>1, <3>2, <1>0, CrowdShrinks
    <3>4. ASSUME Has(delivered, t)
          PROVE  Cardinality(Crowd(delivered, t, InHand')) < Cardinality(Slot)
      <4>1. Cardinality(Crowd(delivered, t, InHand)) < Cardinality(Slot)
        BY <3>1, <3>4 DEF Room
      <4> QED
        BY <4>1, <3>2, <1>0, CrowdShrinks
    <3> QED
      BY <3>3, <3>4
  <2> QED
    BY <2>1, <2>2
<1>3. CASE BotAlone \/ Idle
  <2>1. request' = request /\ inFlight' = inFlight /\ delivered' = delivered
    BY <1>3, BotAloneFact DEF Idle, LockAges, Post, vars, bridgeVars, fileVars
  <2>2. InHand' = InHand
    BY <2>1 DEF InHand, Handled
  <2> QED
    BY <1>2, <2>1, <2>2
<1>4. CASE BridgeCrash
  <2>1. inFlight' = inFlight /\ delivered' = delivered
    BY <1>4 DEF BridgeCrash, fileVars
  <2>2. InHand' = {}
    BY <1>4, KilledFact DEF InHand, Handled
  <2> QED
    BY <1>2, <2>1, <2>2
<1>5. ASSUME NEW r \in Slot, Entering(r) PROVE Room'
  <2>1. /\ request'[r].trade = Head(pending)
        /\ \A q \in Slot : q # r => request'[q] = request[q]
        /\ inFlight' = inFlight /\ delivered' = delivered
    BY <1>5, EnteringFact DEF fileVars
  <2>2. \A u \in Trade : u \in InHand' /\ u # Head(pending) => u \in InHand
    BY <2>1 DEF InHand, Handled
  <2>3. \A t \in Trade : Has(pending, t) /\ (Has(inFlight, t) \/ Has(delivered, t)) =>
           t = Head(pending)
    BY DEF Histories
  <2> QED
    BY <1>2, <2>1, <2>2, <2>3
<1>6. ASSUME NEW r \in Slot, Claiming(r) PROVE Room'
  <2>1. /\ request'[r].trade = request[r].trade
        /\ \A q \in Slot : q # r => request'[q] = request[q]
    BY <1>6, ClaimFact DEF Claiming
  <2>2. inFlight' = inFlight /\ delivered' = delivered /\ request[r] # Free
    BY <1>6 DEF Claiming, ClaimResend, MayLock, Turn, Free
  <2>3. \A u \in Trade : u \in InHand' => u \in InHand
    BY <2>1, <2>2 DEF InHand, Handled
  <2> QED
    BY <1>2, <2>2, <2>3
<1>7. ASSUME NEW r \in Slot, Leaving(r) \/ Beginning(r) PROVE Room'
  <2>1. /\ request[r] # Free /\ request[r].trade \in Trade
        /\ request'[r].trade \in {request[r].trade, NoTrade}
        /\ \A q \in Slot : q # r => request'[q] = request[q]
        /\ pending' = pending
    <3>1. CASE Leaving(r)
      BY <3>1, LeavingFact DEF Free, botVars
    <3>2. CASE Beginning(r)
      <4>1. request[r].step # "free" /\ pending' = pending
        BY <3>2 DEF Beginning, Deliver, MayLock, Turn, botVars
      <4>2. /\ request'[r].trade = request[r].trade
            /\ \A q \in Slot : q # r => request'[q] = request[q]
        BY <3>2, BeginFact DEF Beginning
      <4> QED
        BY <4>1, <4>2, RequestFact
    <3> QED
      BY <1>7, <3>1, <3>2
  <2>2. PICK t \in Trade : t = request[r].trade
    BY <2>1
  <2>3. PICK fw : fw = inFlight'
    OBVIOUS
  <2>4. PICK dw : dw = delivered'
    OBVIOUS
  <2>5. Updated(inFlight, fw, t) /\ Updated(delivered, dw, t)
    BY <1>7, <2>2, <2>3, <2>4, UpdatedFact
  <2>6. ASSUME NEW u \in Trade, Has(pending, u), Has(fw, u)
        PROVE  Cardinality(Crowd(fw, u, InHand')) < Cardinality(Slot)
    <3>1. Has(inFlight, u) =>
             Cardinality(Crowd(inFlight, u, InHand)) < Cardinality(Slot)
      BY <2>6 DEF Room
    <3> QED
      BY <1>0, <2>1, <2>2, <2>5, <2>6, <3>1, UpdateRoom
  <2>7. ASSUME NEW u \in Trade, Has(pending, u), Has(dw, u)
        PROVE  Cardinality(Crowd(dw, u, InHand')) < Cardinality(Slot)
    <3>1. Has(delivered, u) =>
             Cardinality(Crowd(delivered, u, InHand)) < Cardinality(Slot)
      BY <2>7 DEF Room
    <3> QED
      BY <1>0, <2>1, <2>2, <2>5, <2>7, <3>1, UpdateRoom
  <2> QED
    BY <2>1, <2>3, <2>4, <2>6, <2>7 DEF Room
<1> QED
  BY <1>3, <1>4, <1>5, <1>6, <1>7, KindsOfStep

-----------------------------------------------------------------------------
(***************************************************************************)
(* How often an alert was announced. Its one resend counts as spent when it *)
(* was asked for and no request carries it out any more.                    *)
(***************************************************************************)
Resending(t) == \E r \in Slot : request[r].kind = "resending" /\ request[r].trade = t

Spent(t) == ResendUsed(t) /\ ~Resending(t)

Extra(t) == IF Spent(t) THEN 1 ELSE 0

Known(t) == Has(inFlight, t) \/ Has(delivered, t)

Counts ==
    /\ \A t \in Trade : announced[t] <= 1 + Extra(t)
    /\ \A t \in Trade : Has(pending, t) /\ ~Known(t) => announced[t] <= Extra(t)
    /\ \A r \in Slot : request[r].step = "sending" /\ request[r].kind = "trade" =>
          announced[request[r].trade] <= Extra(request[r].trade)

\* A spent resend stays spent: a hash is given no second one.
LEMMA SpentStays ==
    ASSUME DeliveryInv, [Next]_vars, NEW t, Spent(t) PROVE Spent(t)'
<1> USE DEF DeliveryInv
<1>1. ResendUsed(t)'
  BY GrowthFact DEF Spent, ResendUsed
<1>2. ASSUME NEW q \in Slot, request'[q].kind = "resending", request'[q].trade = t
      PROVE  FALSE
  <2>1. request[q].kind # "resending" \/ request[q].trade # t
    BY DEF Spent, Resending
  <2>2. CASE BotAlone \/ Idle
    BY <1>2, <2>1, <2>2, BotAloneFact DEF Idle, LockAges, Post, vars, bridgeVars
  <2>3. CASE BridgeCrash
    BY <1>2, <2>3, KilledFact DEF Free
  <2>4. ASSUME NEW r \in Slot, Entering(r) PROVE FALSE
    BY <1>2, <2>1, <2>4, EnteringFact
  <2>5. ASSUME NEW r \in Slot, Leaving(r) PROVE FALSE
    BY <1>2, <2>1, <2>5, LeavingFact DEF Free
  <2>6. ASSUME NEW r \in Slot, Beginning(r) PROVE FALSE
    BY <1>2, <2>1, <2>6, BeginFact DEF Beginning
  <2>7. ASSUME NEW r \in Slot, Claiming(r) PROVE FALSE
    <3>1. /\ request'[r].trade = request[r].trade
          /\ \A p \in Slot : p # r => request'[p] = request[p]
      BY <2>7, ClaimFact DEF Claiming
    <3>2. ~ResendUsed(request[r].trade)
      BY <2>7 DEF Claiming, MayResend
    <3> QED
      BY <1>2, <2>1, <3>1, <3>2 DEF Spent
  <2> QED
    BY <2>2, <2>3, <2>4, <2>5, <2>6, <2>7, KindsOfStep
<1> QED
  BY <1>1, <1>2 DEF Spent, Resending

\* An alert is announced by the one request that is sending it, which is over
\* with that, and if it was the resend, the resend is spent.
LEMMA AnnouncedFact ==
    ASSUME DeliveryInv, [Next]_vars, NEW t \in Trade, announced'[t] # announced[t]
    PROVE  \E r \in Slot :
             /\ request[r].step = "sending" /\ request[r].trade = t
             /\ announced'[t] = announced[t] + 1
             /\ \A q \in Slot : request'[q].step # "sending"
             /\ request[r].kind = "resending" => Spent(t)'
             /\ Has(inFlight', t) \/ Has(delivered', t)
<1> USE DEF DeliveryInv
<1>1. \A q \in Slot : request'[q] = Free => request'[q].kind # "resending"
                                            /\ request'[q].step # "sending"
  BY DEF Free
<1>2. ResendUsed(t) => ResendUsed(t)'
  BY GrowthFact DEF ResendUsed
<1>3. ASSUME NEW r \in Slot, request[r].step = "sending", request[r].trade = t,
             request'[r] = Free,
             \A q \in Slot : q # r => request'[q] = request[q] \/ request'[q] = Free
      PROVE  request[r].kind = "resending" => Spent(t)'
  <2> SUFFICES ASSUME request[r].kind = "resending" PROVE Spent(t)'
    OBVIOUS
  <2>1. ResendUsed(t)'
    BY <1>2, <1>3 DEF Claims
  <2>2. ~\E q \in Slot : request'[q].kind = "resending" /\ request'[q].trade = t
    BY <1>1, <1>3 DEF Claims
  <2> QED
    BY <2>1, <2>2 DEF Spent, Resending
<1>4. \A r, q \in Slot : request[r].step = "sending" /\ request[q].step = "sending"
         => r = q
  BY DEF Line
<1>5. ASSUME NEW r \in Slot, NEW o \in {"delivered", "rejected", "unknown"},
             NEW a \in BOOLEAN, Sent(r, o, a)
      PROVE  /\ request[r].step = "sending" /\ request[r].trade = t
             /\ announced'[t] = announced[t] + 1
             /\ \A q \in Slot : request'[q].step # "sending"
             /\ request[r].kind = "resending" => Spent(t)'
             /\ Has(inFlight', t) \/ Has(delivered', t)
  <2>1. /\ request[r].step = "sending" /\ request[r].trade = t
        /\ announced'[t] = announced[t] + 1 /\ a
    BY <1>5 DEF Sent, TypeOK
  <2>2. /\ request'[r] = Free
        /\ \A q \in Slot : q # r => request'[q] = request[q]
    BY <1>5, LeavingFact DEF Leaving
  <2>3. Has(inFlight, t)
    BY <2>1 DEF Requests
  <2>4. CASE o = "delivered"
    <3>1. delivered' = Remember(delivered, t, MaxHistory)
      BY <1>5, <2>1, <2>4 DEF Sent
    <3>2. Has(Remember(delivered, t, MaxHistory), t)
      BY HistoryFact DEF TypeOK, Histories
    <3> QED
      BY <2>1, <2>2, <3>1, <3>2, <1>1, <1>3, <1>4
  <2>5. CASE o # "delivered"
    <3>1. inFlight' = inFlight
      BY <1>5, <2>1, <2>5 DEF Sent, SendTelegram
    <3> QED
      BY <2>1, <2>2, <2>3, <3>1, <1>1, <1>3, <1>4
  <2> QED
    BY <2>4, <2>5
<1>6. CASE BridgeCrash
  <2>1. PICK r \in Slot : request[r].step = "sending" /\ request[r].trade = t
    BY <1>6 DEF BridgeCrash, Sending, TypeOK
  <2>2. announced'[t] = announced[t] + 1
    BY <1>6 DEF BridgeCrash, TypeOK
  <2>3. \A q \in Slot : request'[q] = Free
    BY <1>6, KilledFact
  <2>4. Has(inFlight, t) /\ inFlight' = inFlight
    BY <1>6, <2>1 DEF Requests, BridgeCrash, fileVars
  <2> QED
    BY <2>1, <2>2, <2>3, <2>4, <1>1, <1>3
<1>7. BridgeCrash \/ UNCHANGED announced
      \/ \E r \in Slot, o \in {"delivered", "rejected", "unknown"},
            a \in BOOLEAN : Sent(r, o, a)
  BY DEF Next, BotStep, Delivery, Confirm, Recover, Queue, QueueFails,
      Acknowledge, RecoverAcknowledge, Recovered, NextPass, PostFails,
      PostTimesOut, MarkDelivered, FlushEnds, BotCrash, Post, Operator, Busy,
      Resolve, ClaimResend, Deliver, LockAges, vars, worldVars
<1> QED
  BY <1>5, <1>6, <1>7

\* A pending alert is not forgotten by the bridge's histories, except by a
\* request that Telegram refused.
LEMMA ForgottenFact ==
    ASSUME HistoryOutlives, DeliveryInv, Room, [Next]_vars, NEW t \in Trade,
           Has(pending, t), Known(t), ~Has(inFlight', t), ~Has(delivered', t)
    PROVE  \E r \in Slot : /\ request[r].step = "sending" /\ request[r].trade = t
                           /\ request[r].kind = "resending" => Spent(t)'
<1> USE DEF DeliveryInv
<1>1. PICK fw, dw : fw = inFlight' /\ dw = delivered'
  OBVIOUS
<1>2. /\ inFlight \in Seq(Trade) /\ Distinct(inFlight) /\ Len(inFlight) <= MaxHistory
      /\ delivered \in Seq(Trade) /\ Distinct(delivered) /\ Len(delivered) <= MaxHistory
  BY DEF TypeOK, Histories
<1>3. PICK r \in Slot : Leaving(r) \/ Beginning(r)
  <2>1. fw # inFlight \/ dw # delivered
    BY <1>1 DEF Known
  <2>2. ASSUME BotAlone \/ BridgeCrash \/ Idle PROVE FALSE
    BY <2>1, <2>2, <1>1, BotAloneFact DEF BridgeCrash, Idle, LockAges, Post, vars,
       fileVars
  <2>3. ASSUME NEW r \in Slot, Entering(r) PROVE FALSE
    BY <2>1, <2>3, <1>1, EnteringFact DEF fileVars
  <2>4. ASSUME NEW r \in Slot, Claiming(r) PROVE FALSE
    BY <2>1, <2>4, <1>1 DEF Claiming, ClaimResend
  <2> QED
    BY <2>2, <2>3, <2>4, KindsOfStep
<1>4. request[r].trade \in InHand
  <2>1. CASE Leaving(r)
    BY <2>1, LeavingFact DEF InHand, Handled
  <2>2. CASE Beginning(r)
    <3>1. request[r].step # "free"
      BY <2>2 DEF Beginning, Deliver, MayLock, Turn
    <3> QED
      BY <3>1, RequestFact DEF InHand, Handled
  <2> QED
    BY <1>3, <2>1, <2>2
<1>5. PICK u \in Trade : u = request[r].trade
  BY <1>4 DEF InHand
<1>6. Updated(inFlight, fw, u) /\ Updated(delivered, dw, u)
  BY <1>1, <1>3, <1>5, UpdatedFact
<1>7. u = t
  <2> SUFFICES ASSUME t # u PROVE FALSE
    OBVIOUS
  <2>1. CASE Has(inFlight, t)
    <3>1. Cardinality(Crowd(inFlight, t, InHand)) < Cardinality(Slot)
      BY <2>1 DEF Room
    <3>2. Has(fw, t)
      BY <1>2, <1>4, <1>5, <1>6, <2>1, <3>1, UpdateKeeps
    <3> QED
      BY <1>1, <3>2
  <2>2. CASE Has(delivered, t)
    <3>1. Cardinality(Crowd(delivered, t, InHand)) < Cardinality(Slot)
      BY <2>2 DEF Room
    <3>2. Has(dw, t)
      BY <1>2, <1>4, <1>5, <1>6, <2>2, <3>1, UpdateKeeps
    <3> QED
      BY <1>1, <3>2
  <2> QED
    BY <2>1, <2>2 DEF Known
<1>8. /\ Has(Remember(inFlight, t, MaxHistory), t)
      /\ Has(Remember(delivered, t, MaxHistory), t)
  BY <1>2, HistoryFact
<1>9. ~Beginning(r)
  BY <1>5, <1>7, <1>8 DEF Beginning, Deliver
<1>10. Leaving(r)
  BY <1>3, <1>9
<1>11. ~Resolve(r)
  BY <1>5, <1>7, <1>8 DEF Resolve, Known, fileVars
<1>12. PICK o \in {"delivered", "rejected", "unknown"}, a \in BOOLEAN : Sent(r, o, a)
  BY <1>10, <1>11 DEF Leaving, Busy, ClaimResend, Deliver, Known, fileVars
<1>13. request[r].step = "sending"
  BY <1>12 DEF Sent
<1>14. request[r].kind = "resending" => Spent(t)'
  <2> SUFFICES ASSUME request[r].kind = "resending" PROVE Spent(t)'
    OBVIOUS
  <2>1. ResendUsed(t)'
    BY <1>5, <1>7, GrowthFact DEF ResendUsed, Claims
  <2>2. /\ request'[r] = Free
        /\ \A q \in Slot : q # r => request'[q] = request[q]
    BY <1>10, LeavingFact
  <2>3. \A q \in Slot : request[q].kind = "resending" /\ request[q].trade = t => q = r
    BY <1>5, <1>7 DEF Claims
  <2>4. ~\E q \in Slot : request'[q].kind = "resending" /\ request'[q].trade = t
    BY <2>2, <2>3 DEF Free
  <2> QED
    BY <2>1, <2>4 DEF Spent, Resending
<1> QED
  BY <1>5, <1>7, <1>13, <1>14

\* The counts are kept.
LEMMA CountsNext ==
    ASSUME HistoryOutlives, DeliveryInv, Room, Counts, [Next]_vars PROVE Counts'
<1> USE DEF DeliveryInv
<1>1. \A t \in Trade : announced[t] \in Nat /\ announced'[t] \in Nat
  BY TypeOKNext DEF TypeOK
<1>2. \A t \in Trade : Extra(t) \in {0, 1} /\ Extra(t)' \in {0, 1} /\ Extra(t) <= Extra(t)'
  BY SpentStays DEF Extra
<1>3. ASSUME NEW r \in Slot, request[r].step = "sending"
      PROVE  /\ request[r].trade \in Trade
             /\ request[r].kind \in {"trade", "resending"}
             /\ request[r].kind = "trade" =>
                   announced[request[r].trade] <= Extra(request[r].trade)
             /\ request[r].kind = "resending" => Extra(request[r].trade) = 0
  <2>1. request[r].trade \in Trade /\ request[r].kind \in {"trade", "resending"}
    BY <1>3, RequestFact DEF Requests
  <2> QED
    BY <1>3, <2>1 DEF Counts, Extra, Spent, Resending
<1>4. ASSUME NEW t \in Trade PROVE announced'[t] <= 1 + Extra(t)'
  <2>1. announced[t] <= 1 + Extra(t)
    BY DEF Counts
  <2>2. CASE announced'[t] = announced[t]
    BY <2>1, <2>2, <1>1, <1>2
  <2>3. CASE announced'[t] # announced[t]
    <3>1. PICK r \in Slot :
             /\ request[r].step = "sending" /\ request[r].trade = t
             /\ announced'[t] = announced[t] + 1
             /\ request[r].kind = "resending" => Spent(t)'
      BY <2>3, AnnouncedFact
    <3>2. CASE request[r].kind = "trade"
      <4>1. announced[t] <= Extra(t)
        BY <1>3, <3>1, <3>2
      <4> QED
        BY <4>1, <3>1, <1>1, <1>2
    <3>3. CASE request[r].kind = "resending"
      <4>1. Extra(t) = 0
        BY <1>3, <3>1, <3>3
      <4>2. Extra(t)' = 1
        BY <3>1, <3>3 DEF Extra
      <4> QED
        BY <4>1, <4>2, <2>1, <3>1, <1>1
    <3> QED
      BY <1>3, <3>1, <3>2, <3>3
  <2> QED
    BY <2>2, <2>3
<1>5. ASSUME NEW t \in Trade, Has(pending', t), ~Has(inFlight', t), ~Has(delivered', t)
      PROVE  announced'[t] <= Extra(t)'
  <2>1. announced'[t] = announced[t]
    BY <1>5, AnnouncedFact
  <2>2. CASE ~Has(pending, t)
    <3>1. t \in staged
      BY <1>5, <2>2, OutboxSteps, MovedFact, MarkedFact
    <3> QED
      BY <3>1, <2>1, <1>2 DEF Stages, Unsent
  <2>3. CASE Has(pending, t) /\ ~Known(t)
    <3>1. announced[t] <= Extra(t)
      BY <2>3 DEF Counts
    <3> QED
      BY <3>1, <2>1, <1>1, <1>2
  <2>4. CASE Has(pending, t) /\ Known(t)
    <3>1. PICK r \in Slot : /\ request[r].step = "sending" /\ request[r].trade = t
                            /\ request[r].kind = "resending" => Spent(t)'
      BY <1>5, <2>4, ForgottenFact
    <3>2. CASE request[r].kind = "trade"
      <4>1. announced[t] <= Extra(t)
        BY <1>3, <3>1, <3>2
      <4> QED
        BY <4>1, <2>1, <1>1, <1>2
    <3>3. CASE request[r].kind = "resending"
      <4>1. Extra(t) = 0 /\ announced[t] <= 1 + Extra(t)
        BY <1>3, <3>1, <3>3 DEF Counts
      <4>2. Extra(t)' = 1
        BY <3>1, <3>3 DEF Extra
      <4> QED
        BY <4>1, <4>2, <2>1, <1>1
    <3> QED
      BY <1>3, <3>1, <3>2, <3>3
  <2> QED
    BY <2>2, <2>3, <2>4
<1>6. ASSUME NEW r \in Slot, request'[r].step = "sending", request'[r].kind = "trade"
      PROVE  \E t \in Trade : t = request'[r].trade /\ announced'[t] <= Extra(t)'
  <2>1. CASE request'[r] = request[r]
    <3>1. PICK t \in Trade : t = request[r].trade
      BY <1>3, <1>6, <2>1
    <3>2. announced'[t] = announced[t]
      BY <1>6, AnnouncedFact
    <3>3. announced[t] <= Extra(t)
      BY <1>3, <1>6, <2>1, <3>1
    <3>4. announced'[t] <= Extra(t)'
      BY <3>2, <3>3, <1>1, <1>2
    <3> QED
      BY <2>1, <3>1, <3>4
  <2>2. CASE Beginning(r)
    <3>1. /\ request'[r].kind = request[r].kind
          /\ request'[r].trade = request[r].trade
      BY <2>2, BeginFact DEF Beginning
    <3>2. request[r].step # "free" /\ announced' = announced
      BY <2>2 DEF Beginning, Deliver, MayLock, Turn, worldVars
    <3>3. request[r].kind = "trade" /\ request[r].trade \in Trade
      BY <1>6, <3>1, <3>2, RequestFact
    <3>4. PICK t \in Trade : t = request[r].trade
      BY <3>3
    <3>5. ~Known(t)
      BY <2>2, <3>3, <3>4 DEF Beginning, Blocked, Known
    <3>6. pending # <<>> /\ t = Head(pending)
      BY <3>3, <3>4 DEF Requests
    <3>7. Has(pending, t)
      BY <3>6, EmptySeq, LenProperties, HeadTailProperties DEF Has, TypeOK
    <3>8. announced[t] <= Extra(t)
      BY <3>5, <3>7 DEF Counts
    <3>9. announced'[t] <= Extra(t)'
      BY <3>2, <3>8, <1>1, <1>2
    <3> QED
      BY <3>1, <3>4, <3>9
  <2>3. request'[r] = request[r] \/ Beginning(r)
    <3>1. ASSUME BotAlone \/ BridgeCrash \/ Idle PROVE request'[r] = request[r]
      BY <3>1, <1>6, BotAloneFact, KilledFact
      DEF Idle, LockAges, Post, vars, bridgeVars, Free
    <3>2. ASSUME NEW q \in Slot, Entering(q) PROVE request'[r] = request[r]
      BY <3>2, <1>6, EnteringFact
    <3>3. ASSUME NEW q \in Slot, Claiming(q) PROVE request'[r] = request[r]
      BY <3>3, <1>6, ClaimFact DEF Claiming
    <3>4. ASSUME NEW q \in Slot, Leaving(q) PROVE request'[r] = request[r]
      BY <3>4, <1>6, LeavingFact DEF Free
    <3>5. ASSUME NEW q \in Slot, Beginning(q)
          PROVE  request'[r] = request[r] \/ Beginning(r)
      BY <3>5, BeginFact DEF Beginning
    <3> QED
      BY <3>1, <3>2, <3>3, <3>4, <3>5, KindsOfStep
  <2> QED
    BY <2>1, <2>2, <2>3
<1>7. \A r \in Slot : (request[r].step = "sending" /\ request[r].kind = "trade" =>
                          announced[request[r].trade] <= Extra(request[r].trade))'
  BY <1>6 DEF Extra, Spent, Resending, ResendUsed
<1> QED
  BY <1>4, <1>5, <1>7 DEF Counts, Known

\* The whole invariant behind the count of announcements.
AlertInv == DeliveryInv /\ Room /\ Counts

\* It holds initially.
LEMMA AlertInit == Init => AlertInv
<1> SUFFICES ASSUME Init PROVE AlertInv
  OBVIOUS
<1>1. \A u : ~Has(<<>>, u)
  BY DEF Has
<1>2. Room
  BY <1>1 DEF Init, Room
<1>3. \A t \in Trade : announced[t] = 0 /\ Extra(t) \in {0, 1}
  BY DEF Init, Extra
<1>4. \A r \in Slot : request[r].step # "sending"
  BY DEF Init, Free
<1>5. Counts
  BY <1>1, <1>3, <1>4 DEF Counts, Init
<1> QED
  BY <1>2, <1>5, DeliveryInit DEF AlertInv

\* Every step keeps it while the histories are long enough.
LEMMA AlertNext == HistoryOutlives => (AlertInv /\ [Next]_vars => AlertInv')
BY DeliveryNext, RoomNext, CountsNext DEF AlertInv

\* So it holds in every reachable state.
LEMMA AlertAlways == ASSUME HistoryOutlives PROVE SafetySpec => []AlertInv
<1>1. AlertInv /\ [Next]_vars => AlertInv'
  BY AlertNext
<1> QED
  BY <1>1, AlertInit, PTL DEF SafetySpec

\* A confirmed trade is announced once, and once more only when an operator
\* asked for its resend (deliver, claimControlledResend, the outbox of the
\* live runner), whatever crashed, timed out, was repeated or was cut from the
\* bounded histories.
THEOREM AnnouncedOnce ==
    ASSUME HistoryOutlives PROVE Spec => []NoSecondAnnouncement
<1>1. ASSUME AlertInv PROVE NoSecondAnnouncement
  <2> SUFFICES ASSUME NEW t \in Trade
               PROVE  announced[t] <= IF ResendUsed(t) THEN 2 ELSE 1
    BY DEF NoSecondAnnouncement
  <2>1. announced[t] \in Nat
    BY <1>1 DEF AlertInv, DeliveryInv, TypeOK
  <2>2. announced[t] <= 1 + Extra(t)
    BY <1>1 DEF AlertInv, Counts
  <2>3. Extra(t) = IF Spent(t) THEN 1 ELSE 0
    BY DEF Extra
  <2>4. Spent(t) => ResendUsed(t)
    BY DEF Spent
  <2> QED
    BY <2>1, <2>2, <2>3, <2>4
<1>2. SafetySpec => []AlertInv
  BY AlertAlways
<1> QED
  BY <1>1, <1>2, PTL DEF Spec

-----------------------------------------------------------------------------
(***************************************************************************)
(* Outbox and bridge implement the ledger.                                  *)
(***************************************************************************)
Resends == {t \in Trade : ResendUsed(t)}

\* A step announces one alert at most, and one that the ledger lets it.
LEMMA AnnounceStep ==
    ASSUME AlertInv, [Next]_vars, announced' # announced
    PROVE  \E t \in Trade :
             /\ announced' = [announced EXCEPT ![t] = @ + 1]
             /\ announced[t] < IF t \in Resends THEN 2 ELSE 1
             /\ t \in Owed \cup Resends
<1> USE DEF AlertInv, DeliveryInv
<1>1. announced \in [Trade -> Nat] /\ announced' \in [Trade -> Nat]
  BY TypeOKNext DEF TypeOK
<1>2. PICK t \in Trade : announced'[t] # announced[t]
  BY <1>1
<1>3. PICK r \in Slot : /\ request[r].step = "sending" /\ request[r].trade = t
                        /\ announced'[t] = announced[t] + 1
  BY <1>2, AnnouncedFact
<1>4. \A u \in Trade : u # t => announced'[u] = announced[u]
  <2> SUFFICES ASSUME NEW u \in Trade, announced'[u] # announced[u] PROVE u = t
    OBVIOUS
  <2>1. PICK q \in Slot : request[q].step = "sending" /\ request[q].trade = u
    BY AnnouncedFact
  <2> QED
    BY <1>3, <2>1 DEF Line
<1>5. announced' = [announced EXCEPT ![t] = @ + 1]
  BY <1>1, <1>3, <1>4
<1>6. announced[t] \in Nat /\ (Spent(t) => t \in Resends)
  BY <1>1 DEF Spent, Resends
<1>7. CASE request[r].kind = "trade"
  <2>1. pending # <<>> /\ t = Head(pending)
    BY <1>3, <1>7 DEF Requests
  <2>2. Has(pending, t)
    BY <2>1, EmptySeq, LenProperties, HeadTailProperties DEF Has, TypeOK
  <2>3. t \in Owed
    BY <2>2 DEF Owed
  <2>4. announced[t] <= Extra(t)
    BY <1>3, <1>7 DEF Counts
  <2>5. Extra(t) = IF Spent(t) THEN 1 ELSE 0
    BY DEF Extra
  <2>6. announced[t] < IF t \in Resends THEN 2 ELSE 1
    BY <1>6, <2>4, <2>5
  <2> QED
    BY <1>5, <2>3, <2>6
<1>8. CASE request[r].kind = "resending"
  <2>1. t \in Resends /\ ~Spent(t)
    BY <1>3, <1>8 DEF Claims, Spent, Resending, Resends
  <2>2. announced[t] <= 1 + Extra(t) /\ Extra(t) = 0
    BY <2>1 DEF Counts, Extra
  <2>3. announced[t] < 2
    BY <1>6, <2>2
  <2> QED
    BY <1>5, <2>1, <2>3
<1> QED
  BY <1>3, <1>7, <1>8 DEF Requests

\* What is owed is confirmed.
LEMMA OwedFact == ASSUME DeliveryInv PROVE Owed \subseteq confirmed
BY DEF Owed, DeliveryInv, Outboxes, Stages

\* The moves between the journal and the outbox leave the debt as it is.
LEMMA OwedSteps ==
    ASSUME DeliveryInv, [Next]_vars
    PROVE  \/ Owed' = Owed /\ confirmed' = confirmed
           \/ \E t \in Trade : Confirm(t)
           \/ MarkDelivered
<1> USE DEF DeliveryInv
<1>1. ASSUME NEW t \in staged, Outbox(t), Queue \/ Recover(t)
      PROVE  Owed' = Owed /\ confirmed' = confirmed
  <2>1. staged' = staged /\ confirmed' = confirmed
    BY <1>1 DEF Queue, Recover, worldVars
  <2>2. \A u : Has(pending', u) <=> Has(pending, u) \/ u = t
    BY <1>1, MovedFact
  <2> QED
    BY <2>1, <2>2 DEF Owed
<1>2. CASE Acknowledge \/ RecoverAcknowledge
  <2>1. /\ staged' = staged \ {moving} /\ pending' = pending /\ confirmed' = confirmed
        /\ phase \in {"ack", "recoverAck"}
    BY <1>2 DEF Acknowledge, RecoverAcknowledge, worldVars
  <2>2. Has(pending, moving)
    BY <2>1 DEF Stages
  <2> QED
    BY <2>1, <2>2 DEF Owed
<1>3. CASE staged' = staged /\ confirmed' = confirmed /\ pending' = pending
  BY <1>3 DEF Owed
<1> QED
  BY <1>1, <1>2, <1>3, OutboxSteps, StagedSteps DEF Acknowledge, RecoverAcknowledge

\* What the delivery journal records changes by a claim of a resend or by the
\* word of an operator.
LEMMA AuditSteps ==
    ASSUME DeliveryInv, [Next]_vars
    PROVE  \/ Resends' = Resends /\ Vouched' = Vouched
           \/ \E r \in Slot : Claiming(r)
           \/ \E r \in Slot : Resolve(r) /\ Uncertain(request[r].trade)
<1>1. ASSUME NEW r \in Slot, NEW o \in {"delivered", "rejected", "unknown"},
             NEW a \in BOOLEAN, Sent(r, o, a)
      PROVE  Resends' = Resends /\ Vouched' = Vouched
  <2>1. \A t, u : /\ Logged(t, "resend", "requested") # Logged(u, "resend", o)
                  /\ Logged(t, "delivered", "delivered") # Logged(u, "resend", o)
    BY DEF Logged
  <2>2. audit' = audit \/ \E u : audit' = audit \cup {Logged(u, "resend", o)}
    BY <1>1 DEF Sent
  <2> QED
    BY <2>1, <2>2 DEF Resends, Vouched, ResendUsed
<1>2. CASE audit' = audit
  BY <1>2 DEF Resends, Vouched, ResendUsed
<1>3. \/ audit' = audit
      \/ \E r \in Slot : Claiming(r)
      \/ \E r \in Slot : Resolve(r) /\ Uncertain(request[r].trade)
      \/ \E r \in Slot, o \in {"delivered", "rejected", "unknown"}, a \in BOOLEAN :
            Sent(r, o, a)
  BY DEF Next, BotStep, Delivery, Confirm, Recover, Queue, QueueFails,
      Acknowledge, RecoverAcknowledge, Recovered, NextPass, PostFails,
      PostTimesOut, MarkDelivered, FlushEnds, BotCrash, Post, Operator, Busy,
      Resolve, ClaimResend, Claiming, Deliver, BridgeCrash, LockAges, vars, fileVars
<1> QED
  BY <1>1, <1>2, <1>3

\* Alerts are waived by the answers of a bridge that is switched off.
LEMMA WaivedSteps ==
    ASSUME [Next]_vars
    PROVE  waived' = waived \/ \E r \in Slot : Post(r) /\ ~enabled
BY DEF Next, BotStep, Delivery, Confirm, Recover, Queue, QueueFails,
    Acknowledge, RecoverAcknowledge, Recovered, NextPass, PostFails,
    PostTimesOut, MarkDelivered, FlushEnds, BotCrash, Post, Operator, Busy,
    Resolve, ClaimResend, Deliver, Sent, BridgeCrash, LockAges, vars, worldVars

\* Nothing is owed, settled or announced at first.
LEMMA LedgerInit == Init => Ledger!Init
<1> SUFFICES ASSUME Init PROVE Ledger!Init
  OBVIOUS
<1>1. \A u : ~Has(<<>>, u)
  BY DEF Has
<1>2. Owed = {}
  BY <1>1 DEF Init, Owed
<1>3. Vouched = {} /\ Resends = {}
  BY DEF Init, Vouched, Resends, ResendUsed
<1> QED
  BY <1>2, <1>3 DEF Init, Ledger!Init, Resends

\* Every step of outbox and bridge is a step of the ledger or leaves it alone.
LEMMA LedgerNext ==
    ASSUME AlertInv, [Next]_vars PROVE [Ledger!Next]_(Ledger!ledger)
<1> USE DEF AlertInv, DeliveryInv
<1> DEFINE settled == confirmed \ Owed
<1>0. Owed \subseteq confirmed /\ confirmed \subseteq Trade
  BY OwedFact DEF TypeOK
<1>1. ASSUME NEW t \in Trade, Confirm(t) PROVE Ledger!Confirm(t)
  <2>1. /\ t \notin confirmed /\ confirmed' = confirmed \cup {t}
        /\ staged' = staged \cup {t} /\ pending' = pending
        /\ announced' = announced /\ waived' = waived /\ audit' = audit
    BY <1>1 DEF Confirm, fileVars
  <2>2. Owed' = Owed \cup {t}
    BY <2>1 DEF Owed
  <2>3. settled' = settled
    BY <2>1, <2>2, <1>0
  <2>4. Resends' = Resends /\ Vouched' = Vouched
    BY <2>1 DEF Resends, Vouched, ResendUsed
  <2> QED
    BY <2>1, <2>2, <2>3, <2>4, <1>0 DEF Ledger!Confirm, Resends
<1>2. ASSUME MarkDelivered PROVE Ledger!Settle(Head(todo)) /\ Head(todo) \in Trade
  <2> DEFINE t == Head(todo)
  <2>1. /\ \A u : Has(pending', u) <=> Has(pending, u) /\ u # t
        /\ Justified(t) /\ Has(todo, t) /\ t \in Trade
    BY <1>2, MarkedFact
  <2>2. /\ staged' = staged /\ confirmed' = confirmed
        /\ announced' = announced /\ waived' = waived /\ audit' = audit
    BY <1>2 DEF MarkDelivered, fileVars, worldVars
  <2>3. Has(pending, t) /\ t \in confirmed /\ t \notin staged
    BY <2>1, TodoPending DEF Stages, Unsent
  <2> HIDE DEF t
  <2>4. Owed' = Owed \ {t} /\ t \in Owed
    BY <2>1, <2>2, <2>3 DEF Owed
  <2>5. settled' = settled \cup {t}
    BY <2>2, <2>3, <2>4, <1>0
  <2>6. Resends' = Resends /\ Vouched' = Vouched
    BY <2>2 DEF Resends, Vouched, ResendUsed
  <2>7. Ledger!Settle(t)
    BY <2>1, <2>2, <2>4, <2>5, <2>6 DEF Ledger!Settle, Justified, Resends
  <2> QED
    BY <2>1, <2>7 DEF t
<1>3. ASSUME NEW r \in Slot, Post(r), ~enabled
      PROVE  Ledger!Waive(Head(todo)) /\ Head(todo) \in Trade
  <2>1. /\ todo # <<>> /\ waived' = waived \cup {Head(todo)}
        /\ pending' = pending /\ staged' = staged /\ confirmed' = confirmed
        /\ announced' = announced /\ audit' = audit
    BY <1>3 DEF Post, MayPost, botVars, fileVars
  <2>2. Has(pending, Head(todo)) /\ Head(todo) \in Trade
    BY <2>1, TodoFact
  <2>3. Owed' = Owed /\ Head(todo) \in Owed /\ settled' = settled
    BY <2>1, <2>2 DEF Owed
  <2>4. Resends' = Resends /\ Vouched' = Vouched
    BY <2>1 DEF Resends, Vouched, ResendUsed
  <2> QED
    BY <2>1, <2>2, <2>3, <2>4 DEF Ledger!Waive, Resends
<1>4. ASSUME NEW r \in Slot, Claiming(r)
      PROVE  \E t \in Trade : Ledger!AllowResend(t)
  <2>1. /\ audit' = audit \cup {Logged(request[r].trade, "resend", "requested")}
        /\ ~ResendUsed(request[r].trade) /\ request[r].step # "free"
        /\ pending' = pending /\ staged' = staged /\ confirmed' = confirmed
        /\ announced' = announced /\ waived' = waived
    BY <1>4 DEF Claiming, ClaimResend, MayResend, MayLock, Turn, botVars, worldVars
  <2>2. PICK t \in Trade : t = request[r].trade /\ t \in confirmed
    BY <2>1, RequestFact
  <2>3. Owed' = Owed /\ settled' = settled
    BY <2>1 DEF Owed
  <2>4. \A u : /\ Logged(u, "resend", "requested") = Logged(t, "resend", "requested")
                    => u = t
               /\ Logged(u, "delivered", "delivered") # Logged(t, "resend", "requested")
    BY DEF Logged
  <2>5. t \notin Resends /\ Resends' = Resends \cup {t} /\ Vouched' = Vouched
    BY <2>1, <2>2, <2>4 DEF Resends, Vouched, ResendUsed
  <2>6. Ledger!AllowResend(t)
    BY <2>1, <2>2, <2>3, <2>5 DEF Ledger!AllowResend, Ledger!Known, Resends
  <2> QED
    BY <2>6
<1>5. ASSUME NEW r \in Slot, Resolve(r), Uncertain(request[r].trade)
      PROVE  \E t \in Trade : Ledger!Vouch(t)
  <2>1. /\ audit' = audit \cup {Logged(request[r].trade, "delivered", "requested"),
                                Logged(request[r].trade, "delivered", "delivered")}
        /\ request[r].step # "free"
        /\ pending' = pending /\ staged' = staged /\ confirmed' = confirmed
        /\ announced' = announced /\ waived' = waived
    BY <1>5 DEF Resolve, MayLock, Turn, botVars, worldVars
  <2>2. PICK t \in Trade : t = request[r].trade /\ t \in confirmed
    BY <2>1, RequestFact
  <2>3. Owed' = Owed /\ settled' = settled
    BY <2>1 DEF Owed
  <2>4. \A u : /\ Logged(u, "delivered", "delivered") = Logged(t, "delivered", "delivered")
                    => u = t
               /\ Logged(u, "delivered", "delivered") # Logged(t, "delivered", "requested")
               /\ Logged(u, "resend", "requested") # Logged(t, "delivered", "delivered")
               /\ Logged(u, "resend", "requested") # Logged(t, "delivered", "requested")
    BY DEF Logged
  <2>5. Resends' = Resends /\ Vouched' = Vouched \cup {t}
    BY <2>1, <2>2, <2>4 DEF Resends, Vouched, ResendUsed
  <2>6. Ledger!Vouch(t)
    BY <2>1, <2>2, <2>3, <2>5 DEF Ledger!Vouch, Ledger!Known, Resends
  <2> QED
    BY <2>6
<1>6. ASSUME Owed' = Owed, confirmed' = confirmed, Resends' = Resends,
             Vouched' = Vouched, waived' = waived
      PROVE  [Ledger!Next]_(Ledger!ledger)
  <2>1. CASE announced' = announced
    BY <1>6, <2>1 DEF Ledger!ledger, Resends
  <2>2. CASE announced' # announced
    <3>1. PICK t \in Trade : /\ announced' = [announced EXCEPT ![t] = @ + 1]
                             /\ announced[t] < IF t \in Resends THEN 2 ELSE 1
                             /\ t \in Owed \cup Resends
      BY <2>2, AnnounceStep
    <3>2. Ledger!Announce(t)
      BY <1>6, <3>1 DEF Ledger!Announce, Ledger!Allowed, Resends
    <3> QED
      BY <3>2 DEF Ledger!Next
  <2> QED
    BY <2>1, <2>2
<1> QED
  BY <1>1, <1>2, <1>3, <1>4, <1>5, <1>6, OwedSteps, AuditSteps, WaivedSteps
  DEF Ledger!Next

\* The outbox of the live runner and the delivery bridge implement the ledger
\* of announcements: an alert is owed from the confirmation of its trade until
\* it was announced, vouched for or waived, and no file, lock, request or retry
\* drops it or announces it once more than the operator allowed.
THEOREM OutboxKeepsTheLedger ==
    ASSUME HistoryOutlives PROVE Spec => KeepsTheLedger
<1>1. SafetySpec => []AlertInv
  BY AlertAlways
<1>2. AlertInv /\ [Next]_vars => [Ledger!Next]_(Ledger!ledger)
  BY LedgerNext
<1> QED
  BY <1>1, <1>2, LedgerInit, PTL DEF Spec, SafetySpec, KeepsTheLedger, Ledger!Spec

=============================================================================

---------------------------- MODULE FighterProofs ----------------------------
(***************************************************************************)
(* Proofs about the fighting game, for any number of sockets, any health,    *)
(* queues, keys and breaks: its types; the server counts the player as       *)
(* present exactly while one of its sockets is served; a round that is over  *)
(* stays as it ended; and the guard the server gives the player is the one   *)
(* the player holds.                                                        *)
(***************************************************************************)
EXTENDS Fighter, TLAPS, SequenceTheorems, FiniteSetTheorems

MatchState ==
    [status : {"active", "round_complete"}, health : [{"player_1", "player_2"} -> 0 .. MaxHealth],
     blocking : [{"player_1", "player_2"} -> BOOLEAN],
     winner : {"player_1", "player_2", "none"}, connected : BOOLEAN]

\* A match is created once, and who is present is known while it is resident.
MatchInv ==
    /\ match = NoMatch \/ match \in MatchState
    /\ loop = "none" => match = NoMatch
    /\ match = NoMatch => presence = {}
    /\ PresenceIsTrue

\* m becomes n in a step of the fight: nobody connects or leaves, and a round
\* that is over does not change.
Continues(m, n) ==
    /\ n \in MatchState /\ n.connected = m.connected
    /\ m.status = "round_complete" => n = m

-----------------------------------------------------------------------------
\* The absent match is no state of a match.
LEMMA NoMatchFact == NoMatch \notin MatchState
  BY DEF NoMatch, MatchState

\* There are two fighters.
LEMMA OtherFact ==
    /\ Fighter = {"player_1", "player_2"}
    /\ Other("player_1") = "player_2" /\ Other("player_2") = "player_1"
  BY DEF Fighter, Other

\* A new match is active and nobody is connected.
LEMMA NewMatchFact == NewMatch \in MatchState /\ ~NewMatch.connected
<1>1. MaxHealth \in 0 .. MaxHealth
  BY FightAssumption
<1> QED
  BY <1>1, OtherFact DEF NewMatch, MatchState

\* The winner on time is one of the fighters, or nobody.
LEMMA HealthierFact ==
    ASSUME NEW m \in MatchState
    PROVE  Healthier(m) \in {"player_1", "player_2", "none"}
<1>1. m.health["player_1"] \in Int /\ m.health["player_2"] \in Int
  BY FightAssumption DEF MatchState
<1>2. CASE m.health["player_1"] = m.health["player_2"]
  BY <1>2, OtherFact DEF Healthier
<1>3. CASE m.health["player_1"] # m.health["player_2"]
  <2>1. \E f \in Fighter : m.health[f] > m.health[Other(f)]
    <3>1. \/ m.health["player_1"] > m.health["player_2"]
          \/ m.health["player_2"] > m.health["player_1"]
      BY <1>1, <1>3
    <3> QED
      BY <3>1, OtherFact
  <2>2. (CHOOSE f \in Fighter : m.health[f] > m.health[Other(f)]) \in Fighter
    BY <2>1
  <2> QED
    BY <1>3, <2>2, OtherFact DEF Healthier
<1> QED
  BY <1>2, <1>3

\* Reading the clock ends an active round at most.
LEMMA FinishFact ==
    ASSUME NEW m \in MatchState
    PROVE  Continues(m, Finish(m)) /\ Finish(m).blocking = m.blocking
<1>1. ASSUME NEW w \in {"player_1", "player_2", "none"}
      PROVE  LET n == [m EXCEPT !.status = "round_complete", !.winner = w] IN
             n \in MatchState /\ n.connected = m.connected /\ n.blocking = m.blocking
  BY DEF MatchState
<1>2. CASE m.status = "active" /\ timeIsUp
  <2>1. PICK w \in {"player_1", "player_2", "none"} : w = Healthier(m)
    BY HealthierFact
  <2>2. Finish(m) = [m EXCEPT !.status = "round_complete", !.winner = w]
    BY <1>2, <2>1 DEF Finish
  <2> QED
    BY <1>1, <1>2, <2>2 DEF Continues
<1>3. CASE ~(m.status = "active" /\ timeIsUp)
  BY <1>3 DEF Finish, Continues
<1> QED
  BY <1>2, <1>3

\* An input sets the guard and nothing else.
LEMMA GuardFact ==
    ASSUME NEW m \in MatchState, NEW f \in Fighter, NEW action
    PROVE  Guarded(m, f, action) \in MatchState
           /\ Guarded(m, f, action).connected = m.connected
           /\ Guarded(m, f, action).status = m.status
           /\ \A g \in Fighter : Guarded(m, f, action).blocking[g] =
                IF g = f THEN action = "block" ELSE m.blocking[g]
<1>1. [m.blocking EXCEPT ![f] = (action = "block")]
        \in [{"player_1", "player_2"} -> BOOLEAN]
  BY OtherFact DEF MatchState
<1>2. ASSUME NEW b \in [{"player_1", "player_2"} -> BOOLEAN]
      PROVE  LET n == [m EXCEPT !.blocking = b] IN
             /\ n \in MatchState /\ n.connected = m.connected /\ n.status = m.status
             /\ n.blocking = b
  BY DEF MatchState
<1>3. Guarded(m, f, action) =
        [m EXCEPT !.blocking = [m.blocking EXCEPT ![f] = (action = "block")]]
  BY DEF Guarded, MatchState
<1>4. PICK b \in [{"player_1", "player_2"} -> BOOLEAN] :
         b = [m.blocking EXCEPT ![f] = (action = "block")]
  BY <1>1
<1>5. Guarded(m, f, action) = [m EXCEPT !.blocking = b]
  BY <1>3, <1>4, Zenon
<1>6. \A g \in Fighter : b[g] = IF g = f THEN action = "block" ELSE m.blocking[g]
  BY <1>4, OtherFact DEF MatchState
<1> QED
  BY <1>2, <1>5, <1>6

\* A blow takes health and may end the round.
LEMMA StruckFact ==
    ASSUME NEW m \in MatchState, NEW f \in Fighter
    PROVE  /\ Struck(m, f) \in MatchState /\ Struck(m, f).connected = m.connected
           /\ Struck(m, f).blocking = m.blocking
<1> DEFINE d == Other(f)
<1> DEFINE left == Left(m.health[d], Damage(m.blocking[d]))
<1>1. d \in {"player_1", "player_2"}
  BY OtherFact
<1>2. m.health[d] \in 0 .. MaxHealth
  BY <1>1 DEF MatchState
<1>3. left \in 0 .. MaxHealth
  BY <1>2, FightAssumption DEF Left, Damage
<1> HIDE DEF left, d
<1>4. [m.health EXCEPT ![d] = left] \in [{"player_1", "player_2"} -> 0 .. MaxHealth]
  BY <1>1, <1>3 DEF MatchState
<1>5. ASSUME NEW h \in [{"player_1", "player_2"} -> 0 .. MaxHealth]
      PROVE  LET n == [m EXCEPT !.health = h] IN
             n \in MatchState /\ n.connected = m.connected /\ n.blocking = m.blocking
  BY DEF MatchState
<1> DEFINE hit == [m EXCEPT !.health[d] = left]
<1>6. hit = [m EXCEPT !.health = [m.health EXCEPT ![d] = left]]
  BY DEF MatchState
<1>7. hit \in MatchState /\ hit.connected = m.connected /\ hit.blocking = m.blocking
  BY <1>4, <1>5, <1>6
<1>8. Struck(m, f) = IF left <= 0
                     THEN [hit EXCEPT !.status = "round_complete", !.winner = f] ELSE hit
  BY DEF Struck, left, d
<1>9. ASSUME NEW n \in MatchState
      PROVE  LET e == [n EXCEPT !.status = "round_complete", !.winner = f] IN
             e \in MatchState /\ e.connected = n.connected /\ e.blocking = n.blocking
  BY OtherFact DEF MatchState
<1> HIDE DEF hit
<1> QED
  BY <1>7, <1>8, <1>9

\* What an input may make of a round that is on.
LEMMA AppliedFact ==
    ASSUME NEW m \in MatchState, m.status = "active", NEW f \in Fighter, NEW action,
           NEW n \in Applied(m, f, action).done \cup Applied(m, f, action).refused
    PROVE  /\ Continues(m, n)
           /\ n.blocking["player_1"] =
                IF f = "player_1" THEN action = "block" ELSE m.blocking["player_1"]
<1> DEFINE g == Guarded(m, f, action)
<1>1. g \in MatchState /\ g.connected = m.connected
  BY GuardFact
<1>2. n = g \/ n = Struck(g, f)
  BY DEF Applied
<1>4. g.blocking["player_1"] =
        IF f = "player_1" THEN action = "block" ELSE m.blocking["player_1"]
  BY GuardFact, OtherFact
<1> HIDE DEF g
<1>3. /\ Struck(g, f) \in MatchState /\ Struck(g, f).connected = g.connected
      /\ Struck(g, f).blocking = g.blocking
  BY <1>1, StruckFact
<1>5. Continues(m, n)
  BY <1>1, <1>2, <1>3 DEF Continues
<1> QED
  BY <1>2, <1>3, <1>4, <1>5

-----------------------------------------------------------------------------
\* At the start there is no match.
LEMMA MatchInvInit == Init => MatchInv
  BY DEF Init, MatchInit, MatchInv, PresenceIsTrue, Resident

\* What a step may make of the match, for both theorems.
MatchStep ==
    \/ UNCHANGED <<match, presence>>
    \/ match = NoMatch /\ match' = NewMatch /\ UNCHANGED presence
    \/ match # NoMatch /\ Continues(match, match') /\ UNCHANGED presence
    \/ match # NoMatch /\ match' = Present(match) /\ \E s : presence' = presence \cup {s}
    \/ \E s : /\ presence' = presence \ {s}
              /\ IF s \in presence /\ presence = {s} /\ match # NoMatch
                 THEN match' = [match EXCEPT !.connected = FALSE] ELSE match' = match
    \/ match' = NoMatch /\ presence' = {}

\* The player's input, after the clock was read.
LEMMA InputIsStep ==
    ASSUME NEW m \in MatchState, m = match, NEW s, NEW action, PlayerInput(s, action)
    PROVE  /\ Continues(match, match')
           /\ match'.status = "active" => (match'.blocking["player_1"] <=> action = "block")
<1> DEFINE n == Finish(m)
<1>1. Continues(m, n) /\ n \in MatchState
  BY FinishFact DEF Continues
<1>2. /\ n.status = "active" =>
           match' \in Applied(n, "player_1", action).done
                      \cup Applied(n, "player_1", action).refused
      /\ n.status # "active" => match' = n
  BY DEF PlayerInput
<1> HIDE DEF n
<1>3. CASE n.status = "active"
  <2>1. Continues(n, match') /\ match'.blocking["player_1"] = (action = "block")
    BY <1>1, <1>2, <1>3, AppliedFact, OtherFact
  <2> QED
    BY <1>1, <1>3, <2>1 DEF Continues
<1>4. CASE n.status # "active"
  BY <1>1, <1>2, <1>4
<1> QED
  BY <1>3, <1>4

\* The computer's turn, and the clock after it: the player's guard is its own.
LEMMA TurnFact ==
    ASSUME NEW m \in MatchState, m = match, Tick
    PROVE  Continues(m, match') /\ match'.blocking["player_1"] = m.blocking["player_1"]
<1>1. match' \in IF m.status = "active"
                 THEN {Finish(k) : k \in {m} \cup ComputerActs(m)} ELSE {m}
  BY NoMatchFact DEF Tick, Resident
<1>2. CASE m.status # "active"
  BY <1>1, <1>2 DEF Continues
<1>3. CASE m.status = "active"
  <2>1. PICK k \in {m} \cup ComputerActs(m) : match' = Finish(k)
    BY <1>1, <1>3
  <2>2. Continues(m, k) /\ k.blocking["player_1"] = m.blocking["player_1"]
    <3>1. CASE k = m
      BY <3>1 DEF Continues
    <3>2. CASE k \in ComputerActs(m)
      <4>1. PICK action \in {"move_left", "block", "light_punch"} :
               k \in Applied(m, "player_2", action).done
                     \cup Applied(m, "player_2", action).refused
        BY <3>2 DEF ComputerActs
      <4> QED
        BY <1>3, <4>1, AppliedFact, OtherFact
    <3> QED
      BY <2>1, <3>1, <3>2
  <2>3. Continues(k, Finish(k)) /\ Finish(k).blocking = k.blocking
    BY <2>2, FinishFact DEF Continues
  <2> QED
    BY <1>3, <2>1, <2>2, <2>3 DEF Continues
<1> QED
  BY <1>2, <1>3

\* The match loop.
LEMMA TickIsStep ==
    ASSUME MatchInv, Tick
    PROVE  MatchStep /\ loop' # "none"
<1>1. loop' # "none" /\ UNCHANGED presence
  BY DEF Tick
<1>2. CASE match = NoMatch
  <2>1. UNCHANGED match
    BY <1>2 DEF Tick, Resident
  <2> QED
    BY <1>1, <2>1 DEF MatchStep
<1>3. CASE match # NoMatch
  <2>1. Continues(match, match')
    BY <1>3, TurnFact DEF MatchInv
  <2> QED
    BY <1>1, <1>3, <2>1 DEF MatchStep
<1> QED
  BY <1>1, <1>2, <1>3

\* What a handler reads is a sync, an input, or nothing the match can answer.
LEMMA ReceiveIsStep ==
    ASSUME MatchInv, NEW s \in Socket, Receive(s)
    PROVE  MatchStep /\ UNCHANGED loop
<1>1. UNCHANGED <<loop, presence>>
  BY DEF Receive
<1>2. CASE UNCHANGED match
  BY <1>1, <1>2 DEF MatchStep
<1>3. CASE match # NoMatch /\ match' = Finish(match)
  <2>1. Continues(match, match')
    BY <1>3, FinishFact DEF MatchInv
  <2> QED
    BY <1>1, <1>3, <2>1 DEF MatchStep
<1>4. CASE match # NoMatch /\ \E action : PlayerInput(s, action)
  <2>1. PICK action : PlayerInput(s, action)
    BY <1>4
  <2>2. Continues(match, match')
    BY <1>4, <2>1, InputIsStep DEF MatchInv
  <2> QED
    BY <1>1, <1>4, <2>2 DEF MatchStep
<1> QED
  BY <1>2, <1>3, <1>4 DEF Receive, Resident

\* A socket that names its match makes the player present.
LEMMA AuthenticateIsStep ==
    ASSUME NEW s \in Socket, Authenticate(s)
    PROVE  MatchStep /\ UNCHANGED loop
  BY DEF Authenticate, Resident, MatchStep

\* The end of the last handler makes the player absent.
LEMMA DisconnectIsStep ==
    ASSUME NEW s \in Socket, Disconnect(s)
    PROVE  MatchStep /\ UNCHANGED loop
<1>1. UNCHANGED loop /\ presence' = presence \ {s}
  BY DEF Disconnect
<1>2. IF s \in presence /\ presence = {s} /\ match # NoMatch
      THEN match' = [match EXCEPT !.connected = FALSE] ELSE match' = match
  BY DEF Disconnect, IsLast, Resident
<1> QED
  BY <1>1, <1>2 DEF MatchStep

\* Every step of the specification is one of them, and the loop starts once.
LEMMA NextIsStep ==
    ASSUME MatchInv, [Next]_vars
    PROVE  MatchStep /\ (loop' = "none" => loop = "none" /\ (match = NoMatch => UNCHANGED match))
<1> DEFINE Goal ==
    MatchStep /\ (loop' = "none" => loop = "none" /\ (match = NoMatch => UNCHANGED match))
<1>0. UNCHANGED <<match, presence, loop>> => Goal
  BY DEF MatchStep
<1>1. CASE ServeCreate
  <2>1. CASE loop = "none" /\ CreateAiMatch /\ UNCHANGED served
    <3>1. match = NoMatch /\ match' = NewMatch /\ UNCHANGED presence /\ loop' = "running"
      BY <2>1 DEF MatchInv, CreateAiMatch, served
    <3> QED
      BY <3>1 DEF MatchStep
  <2>2. CASE UNCHANGED fight /\ UNCHANGED served
    BY <1>0, <2>2 DEF fight, served
  <2> QED
    BY <1>1, <2>1, <2>2 DEF ServeCreate
<1>2. CASE \E s \in Socket : Serve(s)
  <2>1. PICK s \in Socket : Authenticate(s) \/ Receive(s) \/ Disconnect(s)
    BY <1>2 DEF Serve
  <2>2. MatchStep /\ UNCHANGED loop
    BY <2>1, AuthenticateIsStep, ReceiveIsStep, DisconnectIsStep
  <2>3. match = NoMatch => UNCHANGED match
    BY <2>1 DEF Authenticate, Receive, Disconnect, Resident
  <2> QED
    BY <2>2, <2>3
<1>3. CASE Keep
  <2>1. CASE TimeIsUp
    BY <1>0, <2>1 DEF TimeIsUp
  <2>2. CASE Tick
    BY <2>2, TickIsStep
  <2>3. CASE Evict
    <3>1. match' = NoMatch /\ presence' = {} /\ UNCHANGED loop
      BY <2>3 DEF Evict
    <3> QED
      BY <3>1 DEF MatchStep
  <2> QED
    BY <1>3, <2>1, <2>2, <2>3 DEF Keep
<1>4. CASE CreateMatch \/ CreateSucceeds \/ CreateFails \/ Opened \/ Break
           \/ ServerHangsUp \/ Closed \/ Reconnect \/ Read \/ Leave
  <2>1. UNCHANGED <<match, presence, loop>>
    BY <1>4 DEF CreateMatch, CreateSucceeds, CreateFails, Opened, Break, ServerHangsUp,
                Closed, Reconnect, Read, Leave, fight, served
  <2> QED
    BY <1>0, <2>1
<1>5. CASE (\E k \in Key : KeyDown(k) \/ KeyUp(k)) \/ ReleaseAll \/ AttackTimeout \/ RepeatMove
  <2>1. UNCHANGED <<match, presence, loop>>
    BY <1>5 DEF KeyDown, KeyUp, ReleaseAll, AttackTimeout, RepeatMove, PadOnly, fight, served
  <2> QED
    BY <1>0, <2>1
<1>6. CASE UNCHANGED vars
  BY <1>0, <1>6 DEF vars, fight, served
<1> QED
  BY <1>1, <1>2, <1>3, <1>4, <1>5, <1>6 DEF Next

\* The fight goes on with somebody there, or with nobody.
LEMMA StepKeepsPresence ==
    ASSUME MatchInv, MatchStep
    PROVE  /\ match' = NoMatch \/ match' \in MatchState
           /\ match' = NoMatch => presence' = {}
           /\ PresenceIsTrue'
<1>1. CASE UNCHANGED <<match, presence>>
  BY <1>1 DEF MatchInv, PresenceIsTrue, Resident
<1>2. CASE match = NoMatch /\ match' = NewMatch /\ UNCHANGED presence
  BY <1>2, NewMatchFact DEF MatchInv, PresenceIsTrue, Resident
<1>3. CASE match # NoMatch /\ Continues(match, match') /\ UNCHANGED presence
  BY <1>3, NoMatchFact DEF MatchInv, PresenceIsTrue, Resident, Continues
<1>4. CASE match # NoMatch /\ match' = Present(match) /\ \E s : presence' = presence \cup {s}
  <2>1. match' \in MatchState /\ match'.connected
    BY <1>4 DEF MatchInv, MatchState, Present
  <2> QED
    BY <1>4, <2>1, NoMatchFact DEF PresenceIsTrue, Resident
<1>5. CASE \E s : /\ presence' = presence \ {s}
                  /\ IF s \in presence /\ presence = {s} /\ match # NoMatch
                     THEN match' = [match EXCEPT !.connected = FALSE] ELSE match' = match
  <2>1. PICK s : /\ presence' = presence \ {s}
                 /\ IF s \in presence /\ presence = {s} /\ match # NoMatch
                    THEN match' = [match EXCEPT !.connected = FALSE] ELSE match' = match
    BY <1>5
  <2>2. CASE s \in presence /\ presence = {s} /\ match # NoMatch
    <3>1. presence' = {}
      BY <2>1, <2>2
    <3>2. match' \in MatchState /\ ~match'.connected
      BY <2>1, <2>2 DEF MatchInv, MatchState
    <3> QED
      BY <3>1, <3>2, NoMatchFact DEF PresenceIsTrue, Resident
  <2>3. CASE match = NoMatch
    BY <2>1, <2>3 DEF MatchInv, PresenceIsTrue, Resident
  <2>4. CASE match # NoMatch /\ ~(s \in presence /\ presence = {s})
    <3>1. match' = match /\ (presence' = {} <=> presence = {})
      BY <2>1, <2>4
    <3> QED
      BY <2>4, <3>1 DEF MatchInv, PresenceIsTrue, Resident
  <2> QED
    BY <2>2, <2>3, <2>4
<1>6. CASE match' = NoMatch /\ presence' = {}
  BY <1>6 DEF PresenceIsTrue, Resident
<1> QED
  BY <1>1, <1>2, <1>3, <1>4, <1>5, <1>6 DEF MatchStep

\* The inductive invariant.
LEMMA MatchInvHolds == Spec => []MatchInv
<1>1. MatchInv /\ [Next]_vars => MatchInv'
  <2> SUFFICES ASSUME MatchInv, [Next]_vars PROVE MatchInv'
    OBVIOUS
  <2>1. MatchStep /\ (loop' = "none" => loop = "none" /\ (match = NoMatch => UNCHANGED match))
    BY NextIsStep
  <2>2. /\ match' = NoMatch \/ match' \in MatchState
        /\ match' = NoMatch => presence' = {}
        /\ PresenceIsTrue'
    BY <2>1, StepKeepsPresence
  <2> QED
    BY <2>1, <2>2 DEF MatchInv
<1> QED
  BY <1>1, MatchInvInit, PTL DEF Spec

(* The player counts as connected exactly while one of its sockets is in the  *)
(* hands of a handler, however its sockets open, break and overlap: an old    *)
(* socket that ends late does not make the player absent (server.py:319).     *)
THEOREM PresenceHolds == Spec => []PresenceIsTrue
<1>1. MatchInv => PresenceIsTrue
  BY DEF MatchInv
<1> QED
  BY <1>1, MatchInvHolds, PTL

(* A round that is over keeps its status, its winner and the health of both   *)
(* fighters until the match is evicted, whatever arrives after it             *)
(* (match_state.py:509).                                                      *)
THEOREM ResultsAreFinal == Spec => ResultIsFinal
<1> DEFINE Final ==
    Resident /\ match.status = "round_complete" /\ match' # NoMatch =>
      match'.status = match.status /\ match'.winner = match.winner
      /\ match'.health = match.health
<1>1. MatchInv /\ [Next]_vars => [Final]_vars
  <2> SUFFICES ASSUME MatchInv, [Next]_vars, Resident, match.status = "round_complete",
                      match' # NoMatch
               PROVE  match'.status = match.status /\ match'.winner = match.winner
                      /\ match'.health = match.health
    OBVIOUS
  <2>1. MatchStep
    BY NextIsStep
  <2>2. match \in MatchState
    BY DEF MatchInv, Resident
  <2>3. /\ match' = match \/ match' = Present(match)
           \/ match' = [match EXCEPT !.connected = FALSE]
    BY <2>1 DEF MatchStep, Resident, Continues
  <2> QED
    BY <2>2, <2>3 DEF Present, MatchState
<1> QED
  BY <1>1, MatchInvHolds, PTL DEF Spec, ResultIsFinal

(***************************************************************************)
(* Types of the page and of what waits in its sockets.                      *)
(***************************************************************************)
UpMsg == [kind : {"authenticate", "sync"}, value : {"none"}]
         \cup [kind : {"player_input"}, value : Inputs]
Refusal == {"match not found", "round is not active", "combat action is cooling down"}
DownMsg == [kind : {"state"}, value : {"active", "round_complete"}]
           \cup [kind : {"error"}, value : Refusal]

PageTypes ==
    /\ gameState \in Status /\ error \in Refusal \cup {"none", "create"}
    /\ connecting \in BOOLEAN /\ mounted \in BOOLEAN
    /\ request \in {"none", "sent", "created", "refused", "failed", "done"}
    /\ ws \in 0 .. Cardinality(Socket) /\ wire \in {"none", "opening", "open", "broken"}
    /\ wire # "none" => ws \in Socket
    /\ onclose \in BOOLEAN /\ retry \in BOOLEAN
    /\ keys \subseteq Key /\ lastAction \in Inputs
    /\ attackTimeout \in Attack \cup {"none"} /\ lost \in BOOLEAN

ServerTypes ==
    /\ timeIsUp \in BOOLEAN /\ loop \in {"none", "running", "ended"}
    /\ registry \in [key : BOOLEAN, sockets : SUBSET Socket] /\ presence \subseteq Socket
    /\ handler \in [Socket -> {"none", "accepted", "served", "left", "closed", "ended"}]

QueueTypes ==
    /\ up \in [Socket -> Seq(UpMsg)] /\ down \in [Socket -> Seq(DownMsg)]
    /\ \A s \in Socket : Len(down[s]) <= MaxQueue

\* A step of the server reads the head of a socket and sends some sockets one
\* message; what it says of the match is what the match has become.
Heard == up' = up \/ \E s \in Socket : up[s] # <<>> /\ up' = [up EXCEPT ![s] = Tail(@)]
Told ==
    \/ down' = down
    \/ \E m \in DownMsg, S \in SUBSET Socket :
         /\ Room(down)
         /\ down' = [s \in Socket |-> IF s \in S THEN Append(down[s], m) ELSE down[s]]
         /\ m.kind = "state" => match' # NoMatch /\ m.value = match'.status

-----------------------------------------------------------------------------
\* What a set of held keys means is an input, and nothing held is idle.
LEMMA ActionFact == (\A held : Action(held) \in Inputs) /\ Action({}) = "idle"
<1>1. ASSUME NEW held PROVE Action(held) \in Inputs
  <2>1. CASE "light_punch" \in held
    <3>1. Action(held) = "light_punch"
      BY <2>1 DEF Action, Attack
    <3> QED
      BY <3>1 DEF Inputs, Attack
  <2>2. CASE "light_punch" \notin held /\ "heavy_kick" \in held
    <3>1. Action(held) = "heavy_kick"
      BY <2>2 DEF Action, Attack
    <3> QED
      BY <3>1 DEF Inputs, Attack
  <2>3. CASE held \cap Attack = {} /\ "block" \in held
    <3>1. Action(held) = "block"
      BY <2>3 DEF Action, Attack
    <3> QED
      BY <3>1 DEF Inputs
  <2>4. CASE held \cap Attack = {} /\ "block" \notin held
    <3>1. Action(held) = IF Move \subseteq held \/ Move \cap held = {} THEN "idle"
                         ELSE CHOOSE m \in Move : m \in held
      BY <2>4 DEF Action, Attack
    <3>2. Move \cap held # {} => (CHOOSE m \in Move : m \in held) \in Move
      OBVIOUS
    <3> QED
      BY <3>1, <3>2 DEF Inputs
  <2> QED
    BY <2>1, <2>2, <2>3, <2>4 DEF Attack
<1>2. Action({}) = "idle"
  BY DEF Action, Attack, Move
<1> QED
  BY <1>1, <1>2

\* The messages.
LEMMA MsgFact ==
    /\ Msg("authenticate", "none") \in UpMsg /\ Msg("sync", "none") \in UpMsg
    /\ \A a \in Inputs : Msg("player_input", a) \in UpMsg
    /\ \A v \in {"active", "round_complete"} : Msg("state", v) \in DownMsg
    /\ \A e \in Refusal : Msg("error", e) \in DownMsg /\ Msg("error", e).kind = "error"
    /\ \A v : Msg("state", v).kind = "state" /\ Msg("state", v).value = v
  BY DEF Msg, UpMsg, DownMsg

\* Adding an element to a sequence, and taking one.
LEMMA AppendFact ==
    ASSUME NEW S, NEW q \in Seq(S), NEW x \in S
    PROVE  /\ Append(q, x) \in Seq(S) /\ Len(Append(q, x)) = Len(q) + 1
           /\ Append(q, x) # <<>>
           /\ \A i \in 1 .. Len(q) : Append(q, x)[i] = q[i]
           /\ Append(q, x)[Len(q) + 1] = x
  BY AppendProperties

\* Taking the head of a sequence.
LEMMA TailFact ==
    ASSUME NEW S, NEW q \in Seq(S), q # <<>>
    PROVE  /\ Tail(q) \in Seq(S) /\ Len(Tail(q)) = Len(q) - 1 /\ Len(q) \in Nat \ {0}
           /\ Head(q) = q[1] /\ Head(q) \in S
           /\ \A i \in 1 .. Len(q) - 1 : Tail(q)[i] = q[i + 1]
  BY HeadTailProperties, LenProperties, EmptySeq, ElementOfSeq

\* A broadcast of the state that the match has after the step.
LEMMA BroadcastFact ==
    ASSUME QueueTypes, NEW m, NEW listed, Broadcast(m, listed),
           match' # NoMatch, m.status = match'.status,
           match'.status \in {"active", "round_complete"}
    PROVE  Told
<1> DEFINE S == {s \in Socket : s \in listed /\ handler[s] # "left"}
<1> DEFINE k == Msg("state", m.status)
<1>1. k \in DownMsg /\ k.value = match'.status
  BY MsgFact
<1>2. down' = [s \in Socket |-> IF s \in S THEN Append(down[s], k) ELSE down[s]]
  BY DEF Broadcast
<1>3. Room(down) /\ S \in SUBSET Socket
  BY DEF Broadcast
<1> HIDE DEF S, k
<1> QED
  BY <1>1, <1>2, <1>3 DEF Told

\* A refusal is told to one socket.
LEMMA TellFact ==
    ASSUME QueueTypes, NEW s \in Socket, Room(down), NEW e \in Refusal, down' = Tell(s, e)
    PROVE  Told
<1> DEFINE k == Msg("error", e)
<1>1. k \in DownMsg /\ k.kind # "state"
  BY MsgFact
<1>2. down' = [t \in Socket |-> IF t \in {s} THEN Append(down[t], k) ELSE down[t]]
  BY DEF Tell, QueueTypes
<1> HIDE DEF k
<1> QED
  BY <1>1, <1>2 DEF Told

\* What the server reads and tells keeps the queues typed.
LEMMA ServerKeepsQueues ==
    ASSUME QueueTypes, Heard, Told
    PROVE  QueueTypes'
<1>1. up' \in [Socket -> Seq(UpMsg)]
  <2>1. CASE up' = up
    BY <2>1 DEF QueueTypes
  <2>2. CASE up' # up
    <3>1. PICK s \in Socket : up[s] # <<>> /\ up' = [up EXCEPT ![s] = Tail(up[s])]
      BY <2>2 DEF Heard
    <3>2. Tail(up[s]) \in Seq(UpMsg)
      BY <3>1, TailFact DEF QueueTypes
    <3> QED
      BY <3>1, <3>2 DEF QueueTypes
  <2> QED
    BY <2>1, <2>2
<1>2. down' \in [Socket -> Seq(DownMsg)] /\ \A s \in Socket : Len(down'[s]) <= MaxQueue
  <2>1. CASE down' = down
    BY <2>1 DEF QueueTypes
  <2>2. CASE down' # down
    <3>1. PICK m \in DownMsg, S \in SUBSET Socket :
            /\ Room(down)
            /\ down' = [s \in Socket |-> IF s \in S THEN Append(down[s], m) ELSE down[s]]
      BY <2>2 DEF Told
    <3>2. ASSUME NEW s \in Socket
          PROVE  Append(down[s], m) \in Seq(DownMsg) /\ Len(Append(down[s], m)) <= MaxQueue
      <4>1. Len(Append(down[s], m)) = Len(down[s]) + 1 /\ Append(down[s], m) \in Seq(DownMsg)
        BY AppendFact DEF QueueTypes
      <4>2. Len(down[s]) \in Nat /\ Len(down[s]) < MaxQueue /\ MaxQueue \in Nat
        BY <3>1, FightAssumption, LenProperties DEF Room, QueueTypes
      <4> QED
        BY <4>1, <4>2
    <3> QED
      BY <3>1, <3>2 DEF QueueTypes
  <2> QED
    BY <2>1, <2>2
<1> QED
  BY <1>1, <1>2 DEF QueueTypes

FightTypes == MatchInv /\ PageTypes /\ ServerTypes /\ QueueTypes

\* The status of a match that is there.
LEMMA StatusFact ==
    ASSUME MatchInv, [Next]_vars
    PROVE  MatchInv' /\ (match' # NoMatch =>
             match' \in MatchState /\ match'.status \in {"active", "round_complete"})
<1>1. MatchStep /\ (loop' = "none" => loop = "none" /\ (match = NoMatch => UNCHANGED match))
  BY NextIsStep
<1>2. /\ match' = NoMatch \/ match' \in MatchState
      /\ match' = NoMatch => presence' = {}
      /\ PresenceIsTrue'
  BY <1>1, StepKeepsPresence
<1> QED
  BY <1>1, <1>2 DEF MatchInv, MatchState

\* Each handler of the server reads and tells, and keeps its own types.
LEMMA ServeTypes ==
    ASSUME FightTypes, [Next]_vars, NEW s \in Socket,
           Authenticate(s) \/ Receive(s) \/ Disconnect(s)
    PROVE  Heard /\ Told /\ ServerTypes'
<1>1. match' # NoMatch => match' \in MatchState /\ match'.status \in {"active", "round_complete"}
  BY StatusFact DEF FightTypes
<1>0. QueueTypes
  BY DEF FightTypes
<1>2. CASE Authenticate(s)
  <2>1. Heard
    BY <1>2 DEF Authenticate, Heard
  <2>2. Told
    <3>1. CASE Resident /\ match' = Present(match) /\ Broadcast(match', registry.sockets \cup {s})
      <4>1. match' # NoMatch
        BY <3>1, NoMatchFact DEF Present, FightTypes, MatchInv, MatchState, Resident
      <4> QED
        BY <1>1, <1>0, <3>1, <4>1, BroadcastFact
    <3>2. CASE Room(down) /\ down' = Tell(s, "match not found")
      BY <1>0, <3>2, TellFact DEF Refusal
    <3> QED
      BY <1>2, <3>1, <3>2 DEF Authenticate
  <2>3. ServerTypes'
    BY <1>2 DEF Authenticate, FightTypes, ServerTypes
  <2> QED
    BY <2>1, <2>2, <2>3
<1>3. CASE Receive(s)
  <2>1. Heard
    BY <1>3 DEF Receive, Heard
  <2>2. Told
    <3>0. Room(down)
      BY <1>3 DEF Receive
    <3>1. CASE down' = Tell(s, "match not found")
      BY <1>0, <3>0, <3>1, TellFact DEF Refusal
    <3>2. CASE Resident /\ match' = Finish(match) /\ Broadcast(match', registry.sockets)
      <4>1. match' \in MatchState
        BY <3>2, FinishFact DEF FightTypes, MatchInv, Resident, Continues
      <4> QED
        BY <1>1, <1>0, <3>2, <4>1, BroadcastFact, NoMatchFact
    <3>3. CASE Resident /\ \E action : PlayerInput(s, action)
      <4>1. PICK action : PlayerInput(s, action)
        BY <3>3
      <4>2. match' \in MatchState
        BY <3>3, <4>1, InputIsStep DEF FightTypes, MatchInv, Resident, Continues
      <4>3. \/ Broadcast(match', registry.sockets)
            \/ down' = Tell(s, "combat action is cooling down")
            \/ down' = Tell(s, "round is not active")
        BY <4>1 DEF PlayerInput
      <4> QED
        BY <1>1, <1>0, <3>0, <4>2, <4>3, BroadcastFact, TellFact, NoMatchFact DEF Refusal
    <3> QED
      BY <1>3, <3>1, <3>2, <3>3 DEF Receive
  <2>3. ServerTypes'
    BY <1>3 DEF Receive, FightTypes, ServerTypes
  <2> QED
    BY <2>1, <2>2, <2>3
<1>4. CASE Disconnect(s)
  <2>1. Heard
    BY <1>4 DEF Disconnect, Heard
  <2>2. Told
    <3>1. CASE Resident /\ match' = [match EXCEPT !.connected = FALSE]
               /\ Broadcast(match, registry.sockets \ {s})
      <4>1. match \in MatchState
        BY <3>1 DEF FightTypes, MatchInv, Resident
      <4>2. match' \in MatchState /\ match'.status = match.status
        BY <3>1, <4>1 DEF MatchState
      <4> QED
        BY <1>1, <1>0, <3>1, <4>2, BroadcastFact, NoMatchFact
    <3>2. CASE down' = down
      BY <3>2 DEF Told
    <3> QED
      BY <1>4, <3>1, <3>2 DEF Disconnect
  <2>3. ServerTypes'
    BY <1>4 DEF Disconnect, FightTypes, ServerTypes
  <2> QED
    BY <2>1, <2>2, <2>3
<1> QED
  BY <1>2, <1>3, <1>4

\* So do the clock, the match loop and the eviction.
LEMMA KeepTypes ==
    ASSUME FightTypes, [Next]_vars, TimeIsUp \/ Tick \/ Evict
    PROVE  Heard /\ Told /\ ServerTypes'
<1>1. match' # NoMatch => match' \in MatchState /\ match'.status \in {"active", "round_complete"}
  BY StatusFact DEF FightTypes
<1>0. QueueTypes
  BY DEF FightTypes
<1>2. CASE TimeIsUp
  BY <1>2 DEF TimeIsUp, Heard, Told, FightTypes, ServerTypes
<1>3. CASE Tick
  <2>1. Heard
    BY <1>3 DEF Tick, Heard
  <2>2. Told
    <3>1. CASE Resident /\ Broadcast(match', registry.sockets)
      <4>1. match' # NoMatch
        <5>1. match \in MatchState
          BY <3>1 DEF FightTypes, MatchInv, Resident
        <5> QED
          BY <1>3, <5>1, TurnFact, NoMatchFact DEF Continues
      <4> QED
        BY <1>1, <1>0, <3>1, <4>1, BroadcastFact
    <3>2. CASE down' = down
      BY <3>2 DEF Told
    <3> QED
      BY <1>3, <3>1, <3>2 DEF Tick
  <2>3. ServerTypes'
    BY <1>3 DEF Tick, FightTypes, ServerTypes
  <2> QED
    BY <2>1, <2>2, <2>3
<1>4. CASE Evict
  BY <1>4 DEF Evict, Heard, Told, FightTypes, ServerTypes
<1> QED
  BY <1>2, <1>3, <1>4

\* A socket that is hung up holds nothing.
LEMMA HangupTypes ==
    ASSUME ServerTypes, QueueTypes, NEW s, Hangup(s), UNCHANGED <<timeIsUp, loop, registry, presence>>
    PROVE  ServerTypes' /\ QueueTypes'
<1>1. ServerTypes'
  <2>0. DEFINE h == IF handler[s] = "closed" THEN "ended"
                    ELSE IF handler[s] = "none" THEN "none" ELSE "left"
  <2>1. handler' = [handler EXCEPT ![s] = h] /\ h \in {"ended", "none", "left"}
    BY DEF Hangup
  <2> HIDE DEF h
  <2> QED
    BY <2>1 DEF ServerTypes
<1>2. up' \in [Socket -> Seq(UpMsg)] /\ down' \in [Socket -> Seq(DownMsg)]
  <2>1. <<>> \in Seq(UpMsg) /\ <<>> \in Seq(DownMsg)
    OBVIOUS
  <2>2. up' = [up EXCEPT ![s] = <<>>] /\ down' = [down EXCEPT ![s] = <<>>]
    BY DEF Hangup
  <2>3. PICK p \in Seq(UpMsg), q \in Seq(DownMsg) : p = <<>> /\ q = <<>>
    BY <2>1
  <2>4. [up EXCEPT ![s] = p] \in [Socket -> Seq(UpMsg)]
        /\ [down EXCEPT ![s] = q] \in [Socket -> Seq(DownMsg)]
    BY DEF QueueTypes
  <2> QED
    BY <2>2, <2>3, <2>4
<1>3. ASSUME NEW t \in Socket PROVE Len(down'[t]) <= MaxQueue
  <2>1. Len(<<>>) = 0 /\ 0 <= MaxQueue
    BY FightAssumption
  <2>2. down'[t] = <<>> \/ down'[t] = down[t]
    BY DEF Hangup, QueueTypes
  <2> QED
    BY <2>1, <2>2 DEF QueueTypes
<1> QED
  BY <1>1, <1>2, <1>3 DEF QueueTypes

\* Sending and processing keys.
LEMMA SendTypes ==
    ASSUME QueueTypes, NEW a \in Inputs, Send(a)
    PROVE  up' \in [Socket -> Seq(UpMsg)] /\ lost' \in BOOLEAN
<1>1. CASE wire = "open"
  <2>1. up' = [up EXCEPT ![ws] = Append(up[ws], Msg("player_input", a))] /\ lost' = FALSE
    BY <1>1 DEF Send
  <2>2. ws \in Socket => Append(up[ws], Msg("player_input", a)) \in Seq(UpMsg)
    BY MsgFact, AppendFact DEF QueueTypes
  <2> QED
    BY <2>1, <2>2 DEF QueueTypes
<1>2. CASE wire # "open"
  BY <1>2 DEF Send, QueueTypes
<1> QED
  BY <1>1, <1>2

\* What processKeys leaves is typed.
LEMMA ProcessTypes ==
    ASSUME PageTypes, QueueTypes, NEW held \in SUBSET Key, Process(held)
    PROVE  /\ up' \in [Socket -> Seq(UpMsg)] /\ lost' \in BOOLEAN
           /\ keys' \subseteq Key /\ lastAction' \in Inputs
           /\ attackTimeout' \in Attack \cup {"none"}
<1>1. PICK a \in Inputs : a = Action(held)
  BY ActionFact
<1>2. CASE Active /\ a # lastAction
  <2>1. /\ keys' = held /\ lastAction' = a /\ Send(a)
        /\ attackTimeout' = IF a \in Attack THEN a ELSE attackTimeout
    BY <1>1, <1>2 DEF Process
  <2> QED
    BY <2>1, SendTypes DEF PageTypes
<1>3. CASE ~(Active /\ a # lastAction)
  BY <1>1, <1>3 DEF Process, PageTypes, QueueTypes
<1> QED
  BY <1>2, <1>3

\* A connection takes the next number.
LEMMA ConnectTypes ==
    ASSUME PageTypes, Connect
    PROVE  /\ ws' \in Socket /\ ws' \in 0 .. Cardinality(Socket) /\ ws' = ws + 1
           /\ wire' = "opening" /\ onclose' = TRUE
<1>1. PICK n \in Nat : n = Cardinality(Socket)
  BY FightAssumption, FS_CardinalityType
<1>2. Socket = 1 .. n /\ ws + 1 \in Socket /\ ws \in 0 .. n
  BY <1>1, FightAssumption DEF Connect, PageTypes
<1>3. ws + 1 \in 0 .. n
  BY <1>2
<1> QED
  BY <1>1, <1>2, <1>3 DEF Connect

Kept == ServerTypes' /\ QueueTypes'

\* The steps of the page that leave the sockets alone.
LEMMA QuietPageTypes ==
    ASSUME FightTypes, [Next]_vars, CreateMatch \/ ServeCreate \/ CreateSucceeds \/ CreateFails
           \/ Closed \/ Reconnect
    PROVE  PageTypes' /\ Kept /\ UNCHANGED <<up, down, handler>>
<1>0. UNCHANGED <<up, down>> => QueueTypes'
  BY DEF FightTypes, QueueTypes
<1>1. CASE CreateMatch
  BY <1>0, <1>1 DEF CreateMatch, FightTypes, PageTypes, ServerTypes, Kept, fight, served, socket, pad, bounds
<1>2. CASE ServeCreate
  <2>1. /\ UNCHANGED <<served, up, down, gameState, error, connecting, mounted, socket, pad>>
        /\ request' \in {"created", "refused"}
    BY <1>2 DEF ServeCreate
  <2>2. loop' \in {"running", loop} /\ timeIsUp' \in {FALSE, timeIsUp}
    BY <1>2 DEF ServeCreate, CreateAiMatch, fight
  <2>3. PageTypes'
    BY <2>1 DEF FightTypes, PageTypes, socket, pad
  <2>4. ServerTypes'
    BY <2>1, <2>2 DEF FightTypes, ServerTypes, served
  <2> QED
    BY <1>0, <2>1, <2>3, <2>4 DEF Kept, served
<1>3. CASE CreateSucceeds
  <2>1. ws' \in 0 .. Cardinality(Socket) /\ ws' \in Socket /\ wire' = "opening" /\ onclose' = TRUE
    BY <1>3, ConnectTypes DEF CreateSucceeds, FightTypes
  <2>2. gameState' \in Status
    BY <1>3 DEF CreateSucceeds, FightTypes, PageTypes, Status
  <2>3. UNCHANGED <<fight, served, up, down, error, mounted, retry, lastAction, attackTimeout, lost>>
        /\ request' = "done" /\ connecting' = TRUE /\ keys' = {}
    BY <1>3 DEF CreateSucceeds
  <2>4. PageTypes'
    BY <2>1, <2>2, <2>3 DEF FightTypes, PageTypes
  <2> QED
    BY <1>0, <2>3, <2>4 DEF FightTypes, ServerTypes, Kept, fight, served
<1>4. CASE CreateFails
  BY <1>0, <1>4 DEF CreateFails, FightTypes, PageTypes, ServerTypes, Kept, fight, served, socket, pad
<1>5. CASE Closed
  BY <1>0, <1>5 DEF Closed, Rearm, FightTypes, PageTypes, ServerTypes, Kept, fight, served, pad
<1>6. CASE Reconnect
  <2>1. ws' \in 0 .. Cardinality(Socket) /\ ws' \in Socket /\ wire' = "opening" /\ onclose' = TRUE
    BY <1>6, ConnectTypes DEF Reconnect, FightTypes
  <2>3. UNCHANGED <<fight, served, up, down, gameState, error, mounted, request, pad>>
        /\ retry' = FALSE /\ connecting' = TRUE
    BY <1>6 DEF Reconnect
  <2>4. PageTypes'
    BY <2>1, <2>3 DEF FightTypes, PageTypes, pad
  <2> QED
    BY <1>0, <2>3, <2>4 DEF FightTypes, ServerTypes, Kept, fight, served
<1> QED
  BY <1>1, <1>2, <1>3, <1>4, <1>5, <1>6

\* The callbacks of the socket, and leaving the page.
LEMMA SocketTypes ==
    ASSUME FightTypes, [Next]_vars, Opened \/ Break \/ ServerHangsUp \/ Read \/ Leave
    PROVE  PageTypes' /\ Kept
<1>1. CASE Opened
  <2>1. /\ handler' = [handler EXCEPT ![ws] = "accepted"]
        /\ registry' = [registry EXCEPT !.key = TRUE]
        /\ up' = [up EXCEPT ![ws] = <<Msg("authenticate", "none"), Msg("sync", "none")>>]
        /\ wire = "opening" /\ wire' = "open" /\ connecting' = FALSE
        /\ UNCHANGED <<fight, presence, down, gameState, error, mounted, request,
                       ws, onclose, retry, pad>>
    BY <1>1 DEF Opened, Accept
  <2>2. <<Msg("authenticate", "none"), Msg("sync", "none")>> \in Seq(UpMsg)
    BY MsgFact
  <2>3. QueueTypes'
    BY <2>1, <2>2 DEF FightTypes, QueueTypes
  <2>4. ServerTypes'
    BY <2>1 DEF FightTypes, ServerTypes, fight
  <2> QED
    BY <2>1, <2>3, <2>4 DEF FightTypes, PageTypes, Kept, pad
<1>2. CASE Break
  <2>1. Kept
    BY <1>2, HangupTypes DEF Break, FightTypes, fight, Kept
  <2>2. lost' \in BOOLEAN
    BY <1>2, Zenon DEF Break
  <2> QED
    BY <1>2, <2>1, <2>2 DEF Break, FightTypes, PageTypes, page
<1>3. CASE ServerHangsUp
  <2>1. Kept
    BY <1>3, HangupTypes DEF ServerHangsUp, FightTypes, fight, Kept
  <2> QED
    BY <1>3, <2>1 DEF ServerHangsUp, FightTypes, PageTypes, page, pad
<1>4. CASE Read
  <2>0. UNCHANGED <<fight, served, up, connecting, mounted, request, socket, lastAction, lost>>
    BY <1>4 DEF Read
  <2>1. ws \in Socket /\ down[ws] # <<>> /\ down[ws] \in Seq(DownMsg)
    BY <1>4 DEF Read, FightTypes, PageTypes, QueueTypes
  <2>2. PICK m \in DownMsg : m = Head(down[ws])
    BY <2>1, TailFact
  <2>3. IF m.kind = "state"
        THEN gameState' = (IF mounted THEN m.value ELSE gameState) /\ error' = "none"
        ELSE error' = m.value /\ gameState' = gameState
    BY <1>4, <2>2 DEF Read, AfterError
  <2>4. gameState' \in Status /\ error' \in Refusal \cup {"none", "create"}
    BY <2>3 DEF DownMsg, FightTypes, PageTypes, Status
  <2>5. keys' \subseteq Key /\ attackTimeout' \in Attack \cup {"none"}
    BY <1>4 DEF Read, FightTypes, PageTypes
  <2>6. down' = [down EXCEPT ![ws] = Tail(down[ws])]
    BY <1>4 DEF Read
  <2>7. Tail(down[ws]) \in Seq(DownMsg) /\ Len(Tail(down[ws])) <= Len(down[ws])
    BY <2>1, TailFact
  <2>8. Len(Tail(down[ws])) <= MaxQueue
    <3>1. PICK a \in Nat, b \in Nat : a = Len(Tail(down[ws])) /\ b = Len(down[ws])
      BY <2>1, <2>7, LenProperties
    <3> QED
      BY <2>1, <2>7, <3>1, FightAssumption DEF FightTypes, QueueTypes
  <2>9. QueueTypes'
    BY <2>0, <2>6, <2>7, <2>8 DEF FightTypes, QueueTypes
  <2> QED
    BY <2>0, <2>4, <2>5, <2>9 DEF FightTypes, PageTypes, ServerTypes, Kept, fight, served, socket
<1>5. CASE Leave
  <2>1. Kept
    <3>1. CASE Hangup(ws)
      BY <1>5, <3>1, HangupTypes DEF Leave, FightTypes, fight, Kept
    <3>2. CASE UNCHANGED <<wire, handler, up, down>>
      BY <1>5, <3>2 DEF Leave, FightTypes, fight, Kept, ServerTypes, QueueTypes
    <3> QED
      BY <1>5, <3>1, <3>2 DEF Leave
  <2> QED
    BY <1>5, <2>1 DEF Leave, FightTypes, PageTypes
<1> QED
  BY <1>1, <1>2, <1>3, <1>4, <1>5

\* Keys, touches and their timers.
LEMMA PadTypes ==
    ASSUME FightTypes, [Next]_vars,
           (\E k \in Key : KeyDown(k) \/ KeyUp(k)) \/ ReleaseAll \/ AttackTimeout \/ RepeatMove
    PROVE  PageTypes' /\ Kept
<1>1. /\ UNCHANGED <<fight, served, down, page, socket>>
      /\ up' \in [Socket -> Seq(UpMsg)] /\ lost' \in BOOLEAN
      /\ keys' \subseteq Key /\ lastAction' \in Inputs
      /\ attackTimeout' \in Attack \cup {"none"}
  <2>1. ASSUME NEW held \in SUBSET Key, Process(held), PadOnly
        PROVE  <1>1!:
    BY <2>1, ProcessTypes DEF PadOnly, FightTypes
  <2>2. CASE \E k \in Key : KeyDown(k)
    <3>1. PICK k \in Key : KeyDown(k)
      BY <2>2
    <3> QED
      BY <2>1, <3>1 DEF KeyDown, FightTypes, PageTypes
  <2>3. CASE \E k \in Key : KeyUp(k)
    <3>1. PICK k \in Key : KeyUp(k)
      BY <2>3
    <3> QED
      BY <2>1, <3>1 DEF KeyUp, Release, FightTypes, PageTypes
  <2>4. CASE ReleaseAll
    BY <2>1, <2>4 DEF ReleaseAll
  <2>5. CASE AttackTimeout
    <3>1. PICK held \in SUBSET Key, a \in Inputs : held = keys \ {attackTimeout} /\ a = Action(held)
      BY ActionFact DEF FightTypes, PageTypes
    <3>2. UNCHANGED <<fight, served, down, page, socket>> /\ keys' = held
      BY <2>5, <3>1 DEF AttackTimeout, PadOnly
    <3>3. \/ Send(a) /\ lastAction' = a
             /\ attackTimeout' = IF a \in Attack THEN a ELSE "none"
          \/ attackTimeout' = "none" /\ UNCHANGED <<lastAction, up, lost>>
      BY <2>5, <3>1 DEF AttackTimeout
    <3> QED
      BY <3>2, <3>3, SendTypes DEF FightTypes, PageTypes, QueueTypes
  <2>6. CASE RepeatMove
    <3>1. PICK a \in Inputs : Send(a)
      BY <2>6, ActionFact DEF RepeatMove
    <3> QED
      BY <2>6, <3>1, SendTypes DEF RepeatMove, PadOnly, FightTypes, PageTypes
  <2> QED
    BY <2>2, <2>3, <2>4, <2>5, <2>6
<1> QED
  BY <1>1 DEF FightTypes, PageTypes, ServerTypes, QueueTypes, Kept, fight, served, page, socket

\* At the start everything is empty.
LEMMA FightTypesInit == Init => FightTypes
<1> SUFFICES ASSUME Init PROVE FightTypes
  OBVIOUS
<1>1. MatchInv
  BY MatchInvInit DEF Init
<1>2. PageTypes
  <2>1. 0 \in 0 .. Cardinality(Socket)
    BY FightAssumption, FS_CardinalityType
  <2> QED
    BY <2>1 DEF Init, PageTypes, Status, Inputs
<1>3. ServerTypes
  BY DEF Init, MatchInit, ServerTypes
<1>4. QueueTypes
  <2>1. Len(<<>>) = 0 /\ 0 <= MaxQueue
    BY FightAssumption
  <2> QED
    BY <2>1 DEF Init, MatchInit, QueueTypes
<1> QED
  BY <1>1, <1>2, <1>3, <1>4 DEF FightTypes

\* Every step keeps the types.
LEMMA FightTypesNext == FightTypes /\ [Next]_vars => FightTypes'
<1> SUFFICES ASSUME FightTypes, [Next]_vars PROVE FightTypes'
  OBVIOUS
<1>1. MatchInv'
  BY StatusFact DEF FightTypes
<1>2. PageTypes' /\ Kept
  <2>0. UNCHANGED <<page, socket, pad>> => PageTypes'
    BY DEF FightTypes, PageTypes, page, socket, pad
  <2>1. CASE \E s \in Socket : Serve(s)
    <3>1. PICK s \in Socket : Serve(s)
      BY <2>1
    <3>2. Heard /\ Told /\ ServerTypes' /\ UNCHANGED <<page, socket, pad>>
      BY <3>1, ServeTypes DEF Serve
    <3> QED
      BY <2>0, <3>2, ServerKeepsQueues DEF Kept, FightTypes
  <2>2. CASE Keep
    <3>1. Heard /\ Told /\ ServerTypes' /\ UNCHANGED <<page, socket, pad>>
      BY <2>2, KeepTypes DEF Keep
    <3> QED
      BY <2>0, <3>1, ServerKeepsQueues DEF Kept, FightTypes
  <2>3. CASE UNCHANGED vars
    BY <2>3 DEF vars, FightTypes, PageTypes, ServerTypes, QueueTypes, Kept,
                fight, served, page, socket, pad
  <2>4. CASE CreateMatch \/ ServeCreate \/ CreateSucceeds \/ CreateFails \/ Closed \/ Reconnect
    BY <2>4, QuietPageTypes
  <2>5. CASE Opened \/ Break \/ ServerHangsUp \/ Read \/ Leave
    BY <2>5, SocketTypes
  <2>6. CASE (\E k \in Key : KeyDown(k) \/ KeyUp(k)) \/ ReleaseAll \/ AttackTimeout \/ RepeatMove
    BY <2>6, PadTypes
  <2> QED
    BY <2>1, <2>2, <2>3, <2>4, <2>5, <2>6 DEF Next
<1> QED
  BY <1>1, <1>2 DEF FightTypes, Kept

\* The types are invariant.
LEMMA FightTypesHold == Spec => []FightTypes
  BY FightTypesInit, FightTypesNext, PTL DEF Spec

(* Every variable of the server and of the page keeps to its type, whatever   *)
(* is pressed and lost; in particular no socket is sent more than its queue   *)
(* holds and no fighter's health leaves 0 .. MaxHealth.                       *)
THEOREM FighterTypes == Spec => []TypeOK
<1>1. FightTypes => TypeOK
  <2> SUFFICES ASSUME FightTypes PROVE TypeOK
    OBVIOUS
  <2>1. Resident =>
          /\ match.status \in Status \ {"none"} /\ match.winner \in Fighter \cup {"none"}
          /\ match.health \in [Fighter -> 0 .. MaxHealth]
          /\ match.blocking \in [Fighter -> BOOLEAN]
    <3> SUFFICES ASSUME Resident
                 PROVE  /\ match.status \in Status \ {"none"}
                        /\ match.winner \in Fighter \cup {"none"}
                        /\ match.health \in [Fighter -> 0 .. MaxHealth]
                        /\ match.blocking \in [Fighter -> BOOLEAN]
      OBVIOUS
    <3>1. PICK m \in MatchState : m = match
      BY DEF Resident, FightTypes, MatchInv
    <3> QED
      BY <3>1, OtherFact DEF MatchState, Status
  <2>2. registry.sockets \subseteq Socket /\ registry.key \in BOOLEAN
    BY DEF FightTypes, ServerTypes
  <2>3. {connecting, mounted, onclose, retry, lost} \subseteq BOOLEAN
    BY DEF FightTypes, PageTypes
  <2> QED
    BY <2>1, <2>2, <2>3 DEF FightTypes, PageTypes, ServerTypes, QueueTypes, TypeOK, Refusal
<1> QED
  BY <1>1, FightTypesHold, PTL

(***************************************************************************)
(* The guard: what the page has sent last, what still waits in its socket,   *)
(* and what the server has made of it.                                      *)
(***************************************************************************)
\* How far the page has come.
Stage ==
    /\ loop = "none" => request \notin {"created", "done"}
    /\ request # "done" =>
        /\ wire = "none" /\ ~retry /\ gameState = "none" /\ lastAction = "idle"
        /\ Resident => ~match.blocking["player_1"]
    /\ request = "done" => ws \in Socket
    /\ request = "done" /\ mounted => gameState # "none"
    /\ ~mounted /\ gameState # "none" =>
        wire \notin {"opening", "open"} /\ ~retry /\ ~onclose

\* Only the socket that is open holds messages, and one that the server closed
\* belongs to a match that is gone.
Wired ==
    /\ retry => wire = "none"
    /\ \A s \in Socket : up[s] # <<>> => s = ws /\ wire = "open"
    /\ \A s \in Socket : handler[s] = "closed" => match = NoMatch /\ loop # "none"

\* While the round is on, nobody has been told that it is over.
RoundOn == Resident /\ match.status = "active"
News ==
    loop = "none" \/ RoundOn =>
        /\ gameState # "round_complete"
        /\ \A s \in Socket : \A i \in 1 .. Len(down[s]) :
             down[s][i] # Msg("state", "round_complete")

\* The last input that waits in q is the one sent last; without one the guard
\* on the server is already the one it asks for.
HoldsInput(q) == \E i \in 1 .. Len(q) : q[i].kind = "player_input"
Arrives(q, blocking, last) ==
    IF HoldsInput(q) THEN q[Len(q)] = Msg("player_input", last)
    ELSE blocking <=> last = "block"
Guard ==
    Active /\ mounted /\ RoundOn =>
        /\ lastAction = Action(keys)
        /\ ~lost => Arrives(up[ws], match.blocking["player_1"], lastAction)

FightInv == FightTypes /\ Stage /\ Wired /\ News /\ Guard

-----------------------------------------------------------------------------
\* The match takes a step that is no input of the player.
GuardKept ==
    match' # NoMatch =>
        /\ match # NoMatch /\ (match'.status = "active" => match.status = "active")
        /\ match'.blocking["player_1"] <=> match.blocking["player_1"]

\* The match takes the input a.
GuardTaken(a) ==
    /\ match # NoMatch /\ (match'.status = "active" => match.status = "active")
    /\ match'.status = "active" => (match'.blocking["player_1"] <=> a = "block")

\* The clock, the computer and the eviction leave the player's guard alone.
LEMMA KeepIsKept ==
    ASSUME FightTypes, TimeIsUp \/ Tick \/ Evict
    PROVE  GuardKept
<1>1. CASE TimeIsUp
  BY <1>1 DEF TimeIsUp, GuardKept
<1>2. CASE Tick
  <2>1. CASE match = NoMatch
    BY <1>2, <2>1 DEF Tick, Resident, GuardKept
  <2>2. CASE match # NoMatch
    <3>1. match \in MatchState
      BY <2>2 DEF FightTypes, MatchInv
    <3>2. Continues(match, match') /\ match'.blocking["player_1"] = match.blocking["player_1"]
      BY <1>2, <3>1, TurnFact
    <3>3. match.status \in {"active", "round_complete"}
      BY <3>1 DEF MatchState
    <3> QED
      BY <2>2, <3>2, <3>3 DEF Continues, GuardKept
  <2> QED
    BY <2>1, <2>2
<1>3. CASE Evict
  BY <1>3 DEF Evict, GuardKept
<1> QED
  BY <1>1, <1>2, <1>3

\* So do the first message of a socket and the end of its handler.
LEMMA ServeIsKept ==
    ASSUME FightTypes, NEW s \in Socket, Authenticate(s) \/ Disconnect(s)
    PROVE  GuardKept
<1>1. CASE match' = match
  BY <1>1 DEF GuardKept
<1>2. CASE match # NoMatch /\ match' \in {Present(match), [match EXCEPT !.connected = FALSE]}
  <2>1. match \in MatchState
    BY <1>2 DEF FightTypes, MatchInv
  <2>2. match'.status = match.status /\ match'.blocking = match.blocking
    BY <1>2, <2>1 DEF Present, MatchState
  <2> QED
    BY <1>2, <2>2 DEF GuardKept
<1> QED
  BY <1>1, <1>2 DEF Authenticate, Disconnect, Resident

\* An input sets the guard it asks for; nothing else that is read touches it.
LEMMA ReceiveIsKept ==
    ASSUME FightTypes, NEW s \in Socket, Receive(s)
    PROVE  IF Head(up[s]).kind = "player_input" /\ match # NoMatch
           THEN GuardTaken(Head(up[s]).value) ELSE GuardKept
<1>1. CASE match = NoMatch
  BY <1>1 DEF Receive, Resident, GuardKept
<1>2. CASE match # NoMatch /\ Head(up[s]).kind # "player_input"
  <2>1. match' = Finish(match) /\ match \in MatchState
    BY <1>2 DEF Receive, Resident, FightTypes, MatchInv
  <2>2. Continues(match, match') /\ match'.blocking = match.blocking
    BY <2>1, FinishFact
  <2>3. match.status \in {"active", "round_complete"}
    BY <2>1 DEF MatchState
  <2> QED
    BY <1>2, <2>2, <2>3 DEF Continues, GuardKept
<1>3. CASE match # NoMatch /\ Head(up[s]).kind = "player_input"
  <2>1. PlayerInput(s, Head(up[s]).value) /\ match \in MatchState
    BY <1>3 DEF Receive, Resident, FightTypes, MatchInv
  <2>2. /\ Continues(match, match')
        /\ match'.status = "active" =>
             (match'.blocking["player_1"] <=> Head(up[s]).value = "block")
    BY <2>1, InputIsStep
  <2>3. match.status \in {"active", "round_complete"}
    BY <2>1 DEF MatchState
  <2> QED
    BY <1>3, <2>2, <2>3 DEF Continues, GuardTaken
<1> QED
  BY <1>1, <1>2, <1>3

\* A step of the server is one or the other.
ServerStep == \E s \in Socket : Authenticate(s) \/ Receive(s) \/ Disconnect(s)
Serves == (ServerStep \/ TimeIsUp \/ Tick \/ Evict) /\ UNCHANGED <<page, socket, pad, bounds>>

\* No step of the server begins a round.
LEMMA ServesFact ==
    ASSUME FightTypes, Serves
    PROVE  /\ GuardKept \/ (\E a : GuardTaken(a))
           /\ RoundOn' => RoundOn
           /\ match' # NoMatch => match # NoMatch
<1>1. GuardKept \/ (\E a : GuardTaken(a))
  <2>1. CASE ServerStep
    <3>1. PICK s \in Socket : Authenticate(s) \/ Receive(s) \/ Disconnect(s)
      BY <2>1 DEF ServerStep
    <3> QED
      BY <3>1, ServeIsKept, ReceiveIsKept
  <2> QED
    BY <2>1, KeepIsKept DEF Serves
<1> QED
  BY <1>1 DEF GuardKept, GuardTaken, RoundOn, Resident

\* What follows from the end of a queue.
LEMMA TailArrives ==
    ASSUME NEW q \in Seq(UpMsg), q # <<>>, NEW b, NEW c, NEW a, Arrives(q, b, a),
           IF Head(q).kind = "player_input" THEN c <=> Head(q).value = "block" ELSE c <=> b
    PROVE  Arrives(Tail(q), c, a)
<1>1. PICK n \in Nat \ {0} : n = Len(q)
  BY TailFact
<1>2. /\ Tail(q) \in Seq(UpMsg) /\ Len(Tail(q)) = n - 1
      /\ Head(q) = q[1]
      /\ \A i \in 1 .. n - 1 : Tail(q)[i] = q[i + 1]
  BY <1>1, TailFact
<1>3. CASE n = 1
  <2>1. ~HoldsInput(Tail(q))
    <3>1. Len(Tail(q)) = 0 /\ 1 .. 0 = {}
      BY <1>2, <1>3
    <3> QED
      BY <3>1, Zenon DEF HoldsInput
  <2>2. CASE Head(q).kind = "player_input"
    <3>1. HoldsInput(q)
      BY <1>1, <1>2, <1>3, <2>2 DEF HoldsInput
    <3>2. Head(q) = Msg("player_input", a)
      BY <1>1, <1>2, <1>3, <3>1 DEF Arrives
    <3>3. Head(q).value = a
      BY <3>2 DEF Msg
    <3> QED
      BY <2>1, <2>2, <3>3 DEF Arrives
  <2>3. CASE Head(q).kind # "player_input"
    <3>1. ~HoldsInput(q)
      BY <1>1, <1>2, <1>3, <2>3 DEF HoldsInput
    <3> QED
      BY <2>1, <2>3, <3>1 DEF Arrives
  <2> QED
    BY <2>2, <2>3
<1>4. CASE n > 1
  <2>1. Tail(q)[n - 1] = q[n] /\ n - 1 \in 1 .. n - 1
    <3>1. n - 1 \in 1 .. n - 1 /\ (n - 1) + 1 = n
      BY <1>4
    <3> QED
      BY <1>2, <3>1
  <2>2. CASE HoldsInput(q)
    <3>1. q[n] = Msg("player_input", a)
      BY <1>1, <2>2 DEF Arrives
    <3>2. Msg("player_input", a).kind = "player_input"
      BY DEF Msg
    <3>3. Tail(q)[n - 1].kind = "player_input"
      BY <2>1, <3>1, <3>2, Zenon
    <3>4. HoldsInput(Tail(q))
      BY <1>2, <2>1, <3>3 DEF HoldsInput
    <3> QED
      BY <1>2, <2>1, <3>1, <3>4 DEF Arrives
  <2>3. CASE ~HoldsInput(q)
    <3>1. \A i \in 1 .. n : q[i].kind # "player_input"
      BY <1>1, <2>3 DEF HoldsInput
    <3>2. \A i \in 1 .. n - 1 : i + 1 \in 1 .. n
      OBVIOUS
    <3>3. ~HoldsInput(Tail(q))
      BY <1>2, <3>1, <3>2 DEF HoldsInput
    <3>4. Head(q).kind # "player_input"
      BY <1>2, <3>1
    <3> QED
      BY <2>3, <3>3, <3>4 DEF Arrives
  <2> QED
    BY <2>2, <2>3
<1> QED
  BY <1>3, <1>4

\* Where no input waits, the guard is the one that was asked for.
LEMMA EmptyArrives ==
    ASSUME NEW b, NEW a
    PROVE  /\ Arrives(<<>>, b, a) <=> (b <=> a = "block")
           /\ LET q == <<Msg("authenticate", "none"), Msg("sync", "none")>>
              IN Arrives(q, b, a) <=> (b <=> a = "block")
<1>1. ~HoldsInput(<<>>)
  BY DEF HoldsInput
<1>2. ~HoldsInput(<<Msg("authenticate", "none"), Msg("sync", "none")>>)
  <2>1. \A i \in 1 .. 2 : i = 1 \/ i = 2
    OBVIOUS
  <2> QED
    BY <2>1 DEF HoldsInput, Msg
<1> QED
  BY <1>1, <1>2 DEF Arrives

\* An input that is sent is the last that waits.
LEMMA SentArrives ==
    ASSUME NEW q \in Seq(UpMsg), NEW a \in Inputs, NEW b
    PROVE  Arrives(Append(q, Msg("player_input", a)), b, a)
<1> DEFINE m == Msg("player_input", a)
<1>1. m \in UpMsg
  BY MsgFact
<1>2. m.kind = "player_input"
  BY DEF Msg
<1> HIDE DEF m
<1>3. PICK n \in Nat : n = Len(q)
  BY LenProperties
<1>4. Len(Append(q, m)) = n + 1 /\ Append(q, m)[n + 1] = m
  BY <1>1, <1>3, AppendFact
<1>5. n + 1 \in 1 .. n + 1
  OBVIOUS
<1>6. HoldsInput(Append(q, m))
  BY <1>2, <1>4, <1>5 DEF HoldsInput
<1> QED
  BY <1>4, <1>6 DEF Arrives, m

\* The match does not come back once its loop has run.
LEMMA LoopFact ==
    ASSUME FightTypes, [Next]_vars
    PROVE  loop' = "none" => loop = "none" /\ (match = NoMatch => match' = NoMatch)
  BY NextIsStep DEF FightTypes

\* A message that waits can only wait in the socket that is open, and then the
\* match was created.
LEMMA WaitingFact ==
    ASSUME Stage, Wired, NEW s \in Socket, up[s] # <<>>
    PROVE  s = ws /\ wire = "open" /\ request = "done" /\ loop # "none"
  BY DEF Stage, Wired

-----------------------------------------------------------------------------
(* The steps of the server. *)
LEMMA ServesStage ==
    ASSUME FightInv, [Next]_vars, Serves
    PROVE  Stage'
<1>1. UNCHANGED <<gameState, request, mounted, ws, wire, onclose, retry, lastAction>>
  BY DEF Serves, page, socket, pad
<1>2. request # "done" => GuardKept
  <2>1. ASSUME NEW s \in Socket, Receive(s) PROVE request = "done"
    BY <2>1, WaitingFact DEF Receive, FightInv
  <2>2. ASSUME NEW s \in Socket, Authenticate(s) \/ Disconnect(s) PROVE GuardKept
    BY <2>2, ServeIsKept DEF FightInv
  <2>3. ASSUME TimeIsUp \/ Tick \/ Evict PROVE GuardKept
    BY <2>3, KeepIsKept DEF FightInv
  <2> QED
    BY <2>1, <2>2, <2>3 DEF Serves, ServerStep
<1>3. loop' = "none" => loop = "none"
  BY LoopFact DEF FightInv
<1>4. request # "done" => (Resident' => ~match'.blocking["player_1"])
  BY <1>2 DEF FightInv, Stage, GuardKept, Resident
<1> QED
  BY <1>1, <1>3, <1>4 DEF FightInv, Stage

\* A socket is closed only when its match is gone.
LEMMA ServesWired ==
    ASSUME FightInv, [Next]_vars, Serves
    PROVE  Wired'
<1>1. UNCHANGED <<ws, wire, retry>>
  BY DEF Serves, socket
<1>2. Heard
  <2>1. CASE ServerStep
    BY <2>1, ServeTypes DEF ServerStep, FightInv
  <2> QED
    BY <2>1, KeepTypes DEF Serves, FightInv
<1>3. ASSUME NEW s \in Socket, up'[s] # <<>> PROVE s = ws /\ wire = "open"
  <2>1. up[s] # <<>>
    <3>1. CASE up' = up
      BY <1>3, <3>1
    <3>2. CASE \E t \in Socket : up[t] # <<>> /\ up' = [up EXCEPT ![t] = Tail(@)]
      BY <1>3, <3>2 DEF FightInv, FightTypes, QueueTypes
    <3> QED
      BY <1>2, <3>1, <3>2 DEF Heard
  <2> QED
    BY <2>1 DEF FightInv, Wired
<1>4. ASSUME NEW s \in Socket, handler'[s] = "closed"
      PROVE  match' = NoMatch /\ loop' # "none"
  <2>1. CASE handler[s] = "closed"
    <3>1. match = NoMatch /\ loop # "none"
      BY <2>1 DEF FightInv, Wired
    <3>2. loop' # "none"
      BY <3>1, LoopFact DEF FightInv
    <3> QED
      BY <3>1, <3>2, ServesFact DEF FightInv
  <2>2. CASE handler[s] # "closed"
    <3>1. CASE \E t \in Socket : Authenticate(t)
      <4>1. PICK t \in Socket : Authenticate(t)
        BY <3>1
      <4>2. match' = NoMatch
        BY <1>4, <2>2, <4>1 DEF Authenticate, Resident, FightInv, FightTypes, ServerTypes
      <4>3. loop # "none"
        BY <4>1, WaitingFact DEF Authenticate, FightInv
      <4> QED
        BY <4>2, <4>3, LoopFact DEF FightInv
    <3>2. CASE Evict
      <4>1. match' = NoMatch /\ match # NoMatch /\ loop' = loop
        BY <3>2 DEF Evict, Resident
      <4> QED
        BY <4>1 DEF FightInv, FightTypes, MatchInv
    <3>3. CASE \E t \in Socket : Receive(t) \/ Disconnect(t)
      BY <1>4, <2>2, <3>3 DEF Receive, Disconnect, FightInv, FightTypes, ServerTypes
    <3>4. CASE TimeIsUp \/ Tick
      BY <1>4, <2>2, <3>4 DEF TimeIsUp, Tick
    <3> QED
      BY <3>1, <3>2, <3>3, <3>4 DEF Serves, ServerStep
  <2> QED
    BY <2>1, <2>2
<1> QED
  BY <1>1, <1>3, <1>4 DEF FightInv, Wired

\* While the round is on, nobody is told that it is over.
LEMMA ServesNews ==
    ASSUME FightInv, [Next]_vars, Serves
    PROVE  News'
<1> SUFFICES ASSUME loop' = "none" \/ RoundOn'
             PROVE  /\ gameState' # "round_complete"
                    /\ \A s \in Socket : \A i \in 1 .. Len(down'[s]) :
                         down'[s][i] # Msg("state", "round_complete")
  BY DEF News
<1>1. Told
  <2>1. CASE ServerStep
    BY <2>1, ServeTypes DEF ServerStep, FightInv
  <2> QED
    BY <2>1, KeepTypes DEF Serves, FightInv
<1>2. loop = "none" \/ RoundOn
  BY LoopFact, ServesFact DEF FightInv
<1>3. /\ gameState # "round_complete"
      /\ \A s \in Socket : \A i \in 1 .. Len(down[s]) :
           down[s][i] # Msg("state", "round_complete")
  BY <1>2 DEF FightInv, News
<1>4. ASSUME NEW s \in Socket, NEW i \in 1 .. Len(down'[s])
      PROVE  down'[s][i] # Msg("state", "round_complete")
  <2>1. CASE down' = down
    BY <1>3, <1>4, <2>1
  <2>2. CASE down' # down
    <3>1. PICK m \in DownMsg, S \in SUBSET Socket :
            /\ down' = [t \in Socket |-> IF t \in S THEN Append(down[t], m) ELSE down[t]]
            /\ m.kind = "state" => match' # NoMatch /\ m.value = match'.status
      BY <1>1, <2>2 DEF Told
    <3>2. m # Msg("state", "round_complete")
      <4>1. loop' = "none" => match' = NoMatch
        BY StatusFact DEF FightInv, FightTypes, MatchInv
      <4>2. m.kind = "state" => m.value = "active"
        BY <3>1, <4>1 DEF RoundOn
      <4> QED
        BY <4>2, MsgFact
    <3>3. down[s] \in Seq(DownMsg)
      BY DEF FightInv, FightTypes, QueueTypes
    <3>4. CASE s \notin S
      BY <1>3, <1>4, <3>1, <3>4
    <3>5. CASE s \in S
      <4>1. down'[s] = Append(down[s], m)
        BY <3>1, <3>5
      <4>2. PICK n \in Nat : n = Len(down[s])
        BY <3>3, LenProperties
      <4>3. /\ Len(down'[s]) = n + 1 /\ down'[s][n + 1] = m
            /\ \A j \in 1 .. n : down'[s][j] = down[s][j]
        BY <3>3, <4>1, <4>2, AppendFact
      <4>4. i \in 1 .. n \/ i = n + 1
        BY <4>3
      <4> QED
        BY <1>3, <3>2, <4>2, <4>3, <4>4
    <3> QED
      BY <3>4, <3>5
  <2> QED
    BY <2>1, <2>2
<1>5. gameState' = gameState
  BY DEF Serves, page
<1> QED
  BY <1>3, <1>4, <1>5

\* What the server reads brings its guard nearer to the one asked for.
LEMMA ServesGuard ==
    ASSUME FightInv, [Next]_vars, Serves
    PROVE  Guard'
<1> SUFFICES ASSUME Active', mounted', RoundOn'
             PROVE  /\ lastAction' = Action(keys')
                    /\ ~lost' => Arrives(up'[ws'], match'.blocking["player_1"], lastAction')
  BY DEF Guard
<1>1. UNCHANGED <<gameState, mounted, request, ws, wire, keys, lastAction, lost>>
  BY DEF Serves, page, socket, pad
<1>2. RoundOn /\ Active
  BY <1>1, ServesFact DEF FightInv, Active
<1>3. /\ lastAction = Action(keys)
      /\ ~lost => Arrives(up[ws], match.blocking["player_1"], lastAction)
  BY <1>1, <1>2 DEF FightInv, Guard
<1>4. ws \in Socket /\ up[ws] \in Seq(UpMsg) /\ DOMAIN up = Socket
  BY <1>2 DEF FightInv, FightTypes, QueueTypes, Stage, Active
<1>5. match # NoMatch /\ match' # NoMatch /\ match'.status = "active"
  BY <1>2 DEF RoundOn, Resident
<1>6. ASSUME ~lost PROVE Arrives(up'[ws], match'.blocking["player_1"], lastAction)
  <2>0. Arrives(up[ws], match.blocking["player_1"], lastAction)
    BY <1>3, <1>6
  <2>1. ASSUME NEW s \in Socket, Receive(s)
        PROVE  Arrives(up'[ws], match'.blocking["player_1"], lastAction)
    <3>1. up[s] # <<>> /\ up' = [up EXCEPT ![s] = Tail(up[s])] /\ s = ws
      BY <2>1, WaitingFact DEF Receive, FightInv
    <3>2. up'[ws] = Tail(up[ws])
      BY <1>4, <3>1
    <3>3. IF Head(up[ws]).kind = "player_input"
          THEN GuardTaken(Head(up[ws]).value) ELSE GuardKept
      BY <1>5, <2>1, <3>1, ReceiveIsKept DEF FightInv
    <3>4. IF Head(up[ws]).kind = "player_input"
          THEN match'.blocking["player_1"] <=> Head(up[ws]).value = "block"
          ELSE match'.blocking["player_1"] <=> match.blocking["player_1"]
      BY <1>5, <3>3 DEF GuardTaken, GuardKept
    <3> QED
      BY <1>4, <2>0, <3>1, <3>2, <3>4, TailArrives
  <2>2. ASSUME NEW s \in Socket, Authenticate(s)
        PROVE  Arrives(up'[ws], match'.blocking["player_1"], lastAction)
    <3>1. up[s] # <<>> /\ up' = [up EXCEPT ![s] = Tail(up[s])] /\ s = ws
          /\ Head(up[s]).kind = "authenticate"
      BY <2>2, WaitingFact DEF Authenticate, FightInv
    <3>2. up'[ws] = Tail(up[ws])
      BY <1>4, <3>1
    <3>3. match'.blocking["player_1"] <=> match.blocking["player_1"]
      BY <1>5, <2>2, ServeIsKept DEF FightInv, GuardKept
    <3>4. Head(up[ws]).kind # "player_input"
      BY <3>1
    <3> QED
      BY <1>4, <2>0, <3>1, <3>2, <3>3, <3>4, TailArrives
  <2>3. ASSUME GuardKept, up' = up
        PROVE  Arrives(up'[ws], match'.blocking["player_1"], lastAction)
    <3>1. match'.blocking["player_1"] <=> match.blocking["player_1"]
      BY <1>5, <2>3 DEF GuardKept
    <3> QED
      BY <2>0, <2>3, <3>1 DEF Arrives
  <2>4. ASSUME NEW s \in Socket, Disconnect(s) PROVE GuardKept /\ up' = up
    BY <2>4, ServeIsKept DEF FightInv, Disconnect
  <2>5. ASSUME TimeIsUp \/ Tick \/ Evict PROVE GuardKept /\ up' = up
    BY <2>5, KeepIsKept DEF FightInv, TimeIsUp, Tick, Evict
  <2> QED
    BY <2>1, <2>2, <2>3, <2>4, <2>5 DEF Serves, ServerStep
<1> QED
  BY <1>1, <1>3, <1>6

(* The steps of the page. *)
\* No message waits while the socket is not open.
LEMMA SilentFact ==
    ASSUME Wired, wire # "open", NEW s \in Socket
    PROVE  up[s] = <<>>
  BY DEF Wired

\* A socket that was closed by the server belongs to a match that stays gone.
LEMMA ClosedFact ==
    ASSUME FightInv, [Next]_vars, UNCHANGED match, NEW s \in Socket, handler[s] = "closed"
    PROVE  match' = NoMatch /\ loop' # "none"
<1>1. match = NoMatch /\ loop # "none"
  BY DEF FightInv, Wired
<1> QED
  BY <1>1, LoopFact DEF FightInv

\* The creation of the match comes no nearer to its success.
NoSuccess == request' = request \/ (request # "done" /\ request' \notin {"created", "done"})

\* Nothing the invariant depends on changes.
LEMMA PageRests ==
    ASSUME FightInv, [Next]_vars,
           UNCHANGED <<match, loop, handler, up, down, gameState, mounted, ws, wire, onclose,
                       retry, keys, lastAction, lost>>,
           NoSuccess
    PROVE  Stage' /\ Wired' /\ News' /\ Guard'
<1>1. Stage'
  BY DEF FightInv, Stage, Resident, NoSuccess
<1>2. Wired'
  BY DEF FightInv, Wired
<1>3. News'
  BY DEF FightInv, News, RoundOn, Resident
<1>4. Guard'
  BY DEF FightInv, Guard, RoundOn, Resident, Active
<1> QED
  BY <1>1, <1>2, <1>3, <1>4

\* A match is created once, before any socket is opened.
LEMMA ServeCreateKeeps ==
    ASSUME FightInv, [Next]_vars, ServeCreate
    PROVE  Stage' /\ Wired' /\ News' /\ Guard'
<1>0. /\ UNCHANGED <<handler, up, down, gameState, mounted, ws, wire, onclose, retry, keys,
                     lastAction, lost>>
      /\ request = "sent"
  BY DEF ServeCreate, served, socket, pad
<1>1. CASE request' = "refused" /\ UNCHANGED fight
  <2>1. UNCHANGED <<match, loop>> /\ NoSuccess
    BY <1>0, <1>1 DEF fight, NoSuccess
  <2>2. UNCHANGED <<match, loop, handler, up, down, gameState, mounted, ws, wire, onclose,
                    retry, keys, lastAction, lost>>
    BY <1>0, <2>1
  <2> QED
    BY <2>1, <2>2, PageRests
<1>2. CASE loop = "none" /\ CreateAiMatch /\ request' = "created"
  <2>1. match' = NewMatch /\ loop' = "running"
    BY <1>2 DEF CreateAiMatch
  <2>2. ~match'.blocking["player_1"]
    BY <2>1, OtherFact DEF NewMatch
  <2>3. gameState = "none" /\ wire = "none" /\ ~retry /\ lastAction = "idle"
    BY <1>0 DEF FightInv, Stage
  <2>4. Stage'
    BY <1>0, <1>2, <2>1, <2>2, <2>3 DEF Stage
  <2>5. \A s \in Socket : handler[s] # "closed"
    BY <1>2 DEF FightInv, Wired
  <2>6. Wired'
    BY <1>0, <2>5 DEF FightInv, Wired
  <2>7. News'
    BY <1>0, <1>2, <2>3 DEF FightInv, News
  <2>8. Guard'
    BY <1>0, <2>3 DEF Guard, Active
  <2> QED
    BY <2>4, <2>6, <2>7, <2>8
<1> QED
  BY <1>1, <1>2 DEF ServeCreate

\* The fight begins with no key held and no guard.
LEMMA CreateSucceedsKeeps ==
    ASSUME FightInv, [Next]_vars, CreateSucceeds
    PROVE  Stage' /\ Wired' /\ News' /\ Guard'
<1>0. /\ UNCHANGED <<match, loop, handler, up, down, mounted, retry, lastAction, lost>>
      /\ request = "created" /\ request' = "done" /\ keys' = {}
      /\ gameState' = IF mounted THEN "active" ELSE gameState
      /\ ws' \in Socket /\ wire' = "opening" /\ onclose' = TRUE
  BY ConnectTypes DEF CreateSucceeds, fight, served, FightInv, FightTypes
<1>1. /\ gameState = "none" /\ wire = "none" /\ ~retry /\ lastAction = "idle"
      /\ Resident => ~match.blocking["player_1"]
      /\ loop # "none"
  BY <1>0 DEF FightInv, Stage
<1>2. \A s \in Socket : up[s] = <<>>
  BY <1>1, SilentFact DEF FightInv
<1>3. Stage'
  BY <1>0, <1>1 DEF Stage
<1>4. Wired'
  BY <1>0, <1>1, <1>2 DEF FightInv, Wired
<1>5. News'
  BY <1>0, <1>1 DEF FightInv, News, RoundOn, Resident
<1>6. Guard'
  <2>1. RoundOn' => ~match'.blocking["player_1"]
    BY <1>0, <1>1 DEF RoundOn, Resident
  <2>2. lastAction' = "idle" /\ lastAction' = Action(keys') /\ up'[ws'] = <<>>
    BY <1>0, <1>1, <1>2, ActionFact
  <2>3. RoundOn' => Arrives(up'[ws'], match'.blocking["player_1"], lastAction')
    BY <2>1, <2>2, EmptyArrives
  <2> QED
    BY <2>2, <2>3 DEF Guard
<1> QED
  BY <1>3, <1>4, <1>5, <1>6

\* The next socket holds nothing, as the last one did.
LEMMA ReconnectKeeps ==
    ASSUME FightInv, [Next]_vars, Reconnect
    PROVE  Stage' /\ Wired' /\ News' /\ Guard'
<1>0. /\ UNCHANGED <<match, loop, handler, up, down, mounted, gameState, request, keys,
                     lastAction, lost>>
      /\ retry /\ ~retry'
      /\ ws' \in Socket /\ wire' = "opening" /\ onclose' = TRUE
  BY ConnectTypes DEF Reconnect, fight, served, pad, FightInv, FightTypes
<1>1. wire = "none" /\ request = "done" /\ (mounted \/ gameState = "none")
  BY <1>0 DEF FightInv, Wired, Stage
<1>2. \A s \in Socket : up[s] = <<>>
  BY <1>1, SilentFact DEF FightInv
<1>3. Stage'
  BY <1>0, <1>1 DEF FightInv, Stage, Resident
<1>4. Wired'
  BY <1>0, <1>2 DEF FightInv, Wired
<1>5. News'
  BY <1>0 DEF FightInv, News, RoundOn, Resident
<1>6. Guard'
  <2>1. ws \in Socket
    BY <1>1 DEF FightInv, Stage
  <2>2. up[ws] = up'[ws']
    BY <1>0, <1>2, <2>1
  <2> QED
    BY <1>0, <2>2 DEF FightInv, Guard, RoundOn, Resident, Active
<1> QED
  BY <1>3, <1>4, <1>5, <1>6

\* A closed socket arms the timer of the next.
LEMMA ClosedKeeps ==
    ASSUME FightInv, [Next]_vars, Closed
    PROVE  Stage' /\ Wired' /\ News' /\ Guard'
<1>0. /\ UNCHANGED <<match, loop, handler, up, down, mounted, gameState, request, keys,
                     lastAction, lost, ws, onclose>>
      /\ wire = "broken" /\ onclose /\ wire' = "none" /\ retry'
  BY DEF Closed, Rearm, fight, served, pad
<1>1. request = "done" /\ (mounted \/ gameState = "none")
  BY <1>0 DEF FightInv, Stage
<1>2. Stage'
  BY <1>0, <1>1 DEF FightInv, Stage, Resident
<1>3. \A s \in Socket : up[s] = <<>>
  BY <1>0, SilentFact DEF FightInv
<1>4. Wired'
  BY <1>0, <1>3 DEF FightInv, Wired
<1>5. News'
  BY <1>0 DEF FightInv, News, RoundOn, Resident
<1>6. Guard'
  BY <1>0 DEF FightInv, Guard, RoundOn, Resident, Active
<1> QED
  BY <1>2, <1>4, <1>5, <1>6

\* A socket that opens names the match and asks for its state.
LEMMA OpenedKeeps ==
    ASSUME FightInv, [Next]_vars, Opened
    PROVE  Stage' /\ Wired' /\ News' /\ Guard'
<1> DEFINE q == <<Msg("authenticate", "none"), Msg("sync", "none")>>
<1>0. /\ UNCHANGED <<match, loop, down, mounted, gameState, request, keys,
                     lastAction, lost, ws, onclose, retry>>
      /\ wire = "opening" /\ wire' = "open"
      /\ handler' = [handler EXCEPT ![ws] = "accepted"]
      /\ up' = [up EXCEPT ![ws] = q]
  BY DEF Opened, Accept, fight, pad
<1>1. ws \in Socket /\ DOMAIN up = Socket /\ DOMAIN handler = Socket
  BY <1>0 DEF FightInv, FightTypes, PageTypes, QueueTypes, ServerTypes
<1>2. \A s \in Socket : up[s] = <<>>
  BY <1>0, SilentFact DEF FightInv
<1>3. Arrives(q, match.blocking["player_1"], lastAction)
      <=> Arrives(<<>>, match.blocking["player_1"], lastAction)
  BY EmptyArrives
<1> HIDE DEF q
<1>4. \A s \in Socket : s # ws => up'[s] = <<>>
  BY <1>0, <1>1, <1>2
<1>5. Stage'
  BY <1>0 DEF FightInv, Stage, Resident
<1>6. Wired'
  <2>1. \A s \in Socket : handler'[s] = "closed" => handler[s] = "closed"
    BY <1>0, <1>1
  <2> QED
    BY <1>0, <1>4, <2>1 DEF FightInv, Wired
<1>7. News'
  BY <1>0 DEF FightInv, News, RoundOn, Resident
<1>8. Guard'
  <2>1. up[ws] = <<>> /\ up'[ws'] = q
    BY <1>0, <1>1, <1>2
  <2> QED
    BY <1>0, <1>3, <2>1 DEF FightInv, Guard, RoundOn, Resident, Active
<1> QED
  BY <1>5, <1>6, <1>7, <1>8

\* A socket that is hung up holds nothing and is not closed by the server.
LEMMA HangupFact ==
    ASSUME FightInv, ws \in Socket, Hangup(ws)
    PROVE  /\ \A s \in Socket : up'[s] = <<>>
           /\ \A s \in Socket : handler'[s] = "closed" => handler[s] = "closed"
           /\ \A s \in Socket : \A i \in 1 .. Len(down'[s]) :
                i \in 1 .. Len(down[s]) /\ down'[s][i] = down[s][i]
<1>1. \A s \in Socket : s # ws => up[s] = <<>>
  BY DEF FightInv, Wired
<1>2. /\ DOMAIN up = Socket /\ DOMAIN down = Socket /\ DOMAIN handler = Socket
      /\ up' = [up EXCEPT ![ws] = <<>>] /\ down' = [down EXCEPT ![ws] = <<>>]
  BY DEF FightInv, FightTypes, QueueTypes, ServerTypes, Hangup
<1>3. \A s \in Socket : up'[s] = <<>>
  BY <1>1, <1>2
<1>4. \A s \in Socket : handler'[s] = "closed" => handler[s] = "closed"
  <2>0. DEFINE h == IF handler[ws] = "closed" THEN "ended"
                    ELSE IF handler[ws] = "none" THEN "none" ELSE "left"
  <2>1. handler' = [handler EXCEPT ![ws] = h] /\ h # "closed"
    BY DEF Hangup
  <2> HIDE DEF h
  <2> QED
    BY <1>2, <2>1
<1>5. ASSUME NEW s \in Socket, NEW i \in 1 .. Len(down'[s])
      PROVE  i \in 1 .. Len(down[s]) /\ down'[s][i] = down[s][i]
  <2>1. CASE s # ws
    BY <1>2, <1>5, <2>1
  <2>2. CASE s = ws
    <3>1. Len(down'[s]) = 0 /\ 1 .. 0 = {}
      BY <1>2, <2>2
    <3> QED
      BY <1>5, <3>1, Zenon
  <2> QED
    BY <2>1, <2>2
<1> QED
  BY <1>3, <1>4, <1>5

\* The connection is lost, or the server hangs up.
LEMMA BreakKeeps ==
    ASSUME FightInv, [Next]_vars, Break
    PROVE  Stage' /\ Wired' /\ News' /\ Guard'
<1>0. /\ UNCHANGED <<match, loop, mounted, gameState, request, keys, lastAction, ws,
                     onclose, retry>>
      /\ wire \in {"opening", "open"} /\ wire' = "broken" /\ Hangup(ws)
      /\ lost' = (lost \/ \E i \in DOMAIN up[ws] : up[ws][i].kind = "player_input")
  BY DEF Break, fight, page
<1>1. ws \in Socket /\ up[ws] \in Seq(UpMsg)
  BY <1>0 DEF FightInv, FightTypes, PageTypes, QueueTypes
<1>2. /\ \A s \in Socket : up'[s] = <<>>
      /\ \A s \in Socket : handler'[s] = "closed" => handler[s] = "closed"
      /\ \A s \in Socket : \A i \in 1 .. Len(down'[s]) :
           i \in 1 .. Len(down[s]) /\ down'[s][i] = down[s][i]
  BY <1>0, <1>1, HangupFact
<1>3. Stage'
  BY <1>0 DEF FightInv, Stage, Resident
<1>4. Wired'
  BY <1>0, <1>2 DEF FightInv, Wired
<1>5. News'
  BY <1>0, <1>2 DEF FightInv, News, RoundOn, Resident
<1>6. Guard'
  <2> SUFFICES ASSUME Active', mounted', RoundOn'
               PROVE  /\ lastAction' = Action(keys')
                      /\ ~lost' => Arrives(up'[ws'], match'.blocking["player_1"], lastAction')
    BY DEF Guard
  <2>1. /\ lastAction = Action(keys)
        /\ ~lost => Arrives(up[ws], match.blocking["player_1"], lastAction)
    BY <1>0 DEF FightInv, Guard, RoundOn, Resident, Active
  <2>2. ASSUME ~lost' PROVE ~lost /\ ~HoldsInput(up[ws])
    <3>1. DOMAIN up[ws] = 1 .. Len(up[ws])
      BY <1>1, LenProperties
    <3>2. ~lost /\ ~\E i \in DOMAIN up[ws] : up[ws][i].kind = "player_input"
      BY <1>0, <2>2
    <3> QED
      BY <3>1, <3>2, Zenon DEF HoldsInput
  <2>3. ASSUME ~lost' PROVE Arrives(<<>>, match.blocking["player_1"], lastAction)
    <3>1. match.blocking["player_1"] <=> lastAction = "block"
      BY <2>1, <2>2, <2>3 DEF Arrives
    <3> QED
      BY <3>1, EmptyArrives
  <2>4. up'[ws'] = <<>>
    BY <1>0, <1>1, <1>2
  <2> QED
    BY <1>0, <2>1, <2>3, <2>4
<1> QED
  BY <1>3, <1>4, <1>5, <1>6

\* The server hangs up on a match that is gone.
LEMMA ServerHangsUpKeeps ==
    ASSUME FightInv, [Next]_vars, ServerHangsUp
    PROVE  Stage' /\ Wired' /\ News' /\ Guard'
<1>0. /\ UNCHANGED <<match, loop, mounted, gameState, request, keys, lastAction, ws,
                     onclose, retry, lost>>
      /\ wire = "open" /\ handler[ws] = "closed" /\ wire' = "broken" /\ Hangup(ws)
  BY DEF ServerHangsUp, fight, page, pad
<1>1. ws \in Socket
  BY <1>0 DEF FightInv, FightTypes, PageTypes
<1>2. /\ \A s \in Socket : up'[s] = <<>>
      /\ \A s \in Socket : handler'[s] = "closed" => handler[s] = "closed"
      /\ \A s \in Socket : \A i \in 1 .. Len(down'[s]) :
           i \in 1 .. Len(down[s]) /\ down'[s][i] = down[s][i]
  BY <1>0, <1>1, HangupFact
<1>3. Stage'
  BY <1>0 DEF FightInv, Stage, Resident
<1>4. Wired'
  BY <1>0, <1>2 DEF FightInv, Wired
<1>5. News'
  BY <1>0, <1>2 DEF FightInv, News, RoundOn, Resident
<1>6. Guard'
  BY <1>0, <1>1 DEF FightInv, Wired, Guard, RoundOn, Resident
<1> QED
  BY <1>3, <1>4, <1>5, <1>6

\* A page that is left has no socket.
LEMMA LeaveKeeps ==
    ASSUME FightInv, [Next]_vars, Leave
    PROVE  Stage' /\ Wired' /\ News' /\ Guard'
<1>0. /\ UNCHANGED <<match, loop, gameState, request, lastAction, ws>>
      /\ mounted /\ ~mounted' /\ ~onclose' /\ ~retry'
      /\ IF wire \in {"opening", "open"} THEN wire' = "none" /\ Hangup(ws)
         ELSE UNCHANGED <<wire, handler, up, down>>
  BY DEF Leave, fight
<1>1. wire' \notin {"opening", "open"} /\ (wire = "none" => wire' = "none")
  BY <1>0
<1>2. /\ \A s \in Socket : up'[s] = <<>>
      /\ \A s \in Socket : handler'[s] = "closed" => handler[s] = "closed"
      /\ \A s \in Socket : \A i \in 1 .. Len(down'[s]) :
           i \in 1 .. Len(down[s]) /\ down'[s][i] = down[s][i]
  <2>1. CASE wire \in {"opening", "open"}
    <3>1. ws \in Socket /\ Hangup(ws)
      BY <1>0, <2>1 DEF FightInv, FightTypes, PageTypes
    <3> QED
      BY <3>1, HangupFact
  <2>2. CASE wire \notin {"opening", "open"}
    <3>1. UNCHANGED <<handler, up, down>>
      BY <1>0, <2>2
    <3>2. \A s \in Socket : up[s] = <<>>
      BY <2>2, SilentFact DEF FightInv
    <3> QED
      BY <3>1, <3>2
  <2> QED
    BY <2>1, <2>2
<1>3. Stage'
  BY <1>0, <1>1 DEF FightInv, Stage, Resident
<1>4. Wired'
  BY <1>0, <1>2 DEF FightInv, Wired
<1>5. News'
  BY <1>0, <1>2 DEF FightInv, News, RoundOn, Resident
<1>6. Guard'
  BY <1>0 DEF Guard
<1> QED
  BY <1>3, <1>4, <1>5, <1>6

\* While the round is on, what the page is told does not change what it shows.
LEMMA ReadKeeps ==
    ASSUME FightInv, [Next]_vars, Read
    PROVE  Stage' /\ Wired' /\ News' /\ Guard'
<1>0. /\ UNCHANGED <<match, loop, handler, up, mounted, request, ws, wire, onclose, retry,
                     lastAction, lost>>
      /\ wire = "open" /\ down[ws] # <<>> /\ down' = [down EXCEPT ![ws] = Tail(down[ws])]
      /\ gameState' = gameState => keys' = keys
  BY DEF Read, fight, served, socket
<1>1. ws \in Socket /\ down \in [Socket -> Seq(DownMsg)] /\ request = "done"
  BY <1>0 DEF FightInv, FightTypes, PageTypes, QueueTypes, Stage
<1>2. PICK n \in Nat \ {0} : n = Len(down[ws])
  BY <1>0, <1>1, TailFact
<1>3. /\ Len(Tail(down[ws])) = n - 1 /\ Head(down[ws]) = down[ws][1]
      /\ Head(down[ws]) \in DownMsg
      /\ \A i \in 1 .. n - 1 : Tail(down[ws])[i] = down[ws][i + 1]
  BY <1>0, <1>1, <1>2, TailFact
<1>4. \/ gameState' = gameState
      \/ mounted /\ Head(down[ws]).kind = "state" /\ gameState' = Head(down[ws]).value
  BY DEF Read, AfterError
<1>5. gameState' # gameState => gameState' \in {"active", "round_complete"}
  BY <1>3, <1>4 DEF DownMsg
<1>6. ASSUME loop = "none" \/ RoundOn PROVE gameState' = gameState
  <2>1. gameState # "round_complete" /\ down[ws][1] # Msg("state", "round_complete")
    <3>1. 1 \in 1 .. Len(down[ws])
      BY <1>2
    <3> QED
      BY <1>1, <1>6, <3>1 DEF FightInv, News
  <2>2. CASE mounted /\ Head(down[ws]).kind = "state" /\ gameState' = Head(down[ws]).value
    <3>1. gameState = "active"
      BY <1>1, <2>1, <2>2 DEF FightInv, Stage, FightTypes, PageTypes, Status
    <3>2. PICK m \in DownMsg : m = Head(down[ws])
      BY <1>3
    <3>3. m.value = "active"
      <4>1. CASE m.value = "round_complete"
        <5>1. m = Msg("state", "round_complete")
          BY <2>2, <3>2, <4>1 DEF DownMsg, Msg
        <5> QED
          BY <1>3, <2>1, <3>2, <5>1
      <4> QED
        BY <2>2, <3>2, <4>1 DEF DownMsg
    <3> QED
      BY <2>2, <3>1, <3>2, <3>3
  <2> QED
    BY <1>4, <2>2
<1>7. Stage'
  BY <1>0, <1>1, <1>4, <1>5 DEF FightInv, Stage, Resident
<1>8. Wired'
  BY <1>0 DEF FightInv, Wired
<1>9. News'
  <2> SUFFICES ASSUME loop' = "none" \/ RoundOn'
               PROVE  /\ gameState' # "round_complete"
                      /\ \A s \in Socket : \A i \in 1 .. Len(down'[s]) :
                           down'[s][i] # Msg("state", "round_complete")
    BY DEF News
  <2>1. loop = "none" \/ RoundOn
    BY <1>0 DEF RoundOn, Resident
  <2>2. /\ gameState # "round_complete"
        /\ \A s \in Socket : \A i \in 1 .. Len(down[s]) :
             down[s][i] # Msg("state", "round_complete")
    BY <2>1 DEF FightInv, News
  <2>3. ASSUME NEW s \in Socket, NEW i \in 1 .. Len(down'[s])
        PROVE  down'[s][i] # Msg("state", "round_complete")
    <3>1. CASE s # ws
      BY <1>0, <1>1, <2>2, <2>3, <3>1
    <3>2. CASE s = ws
      <4>1. down'[s] = Tail(down[ws])
        BY <1>0, <1>1, <3>2
      <4>2. i \in 1 .. n - 1
        BY <1>3, <4>1
      <4>3. i + 1 \in 1 .. n
        BY <4>2
      <4> QED
        BY <1>1, <1>2, <1>3, <2>2, <4>1, <4>2, <4>3
    <3> QED
      BY <3>1, <3>2
  <2> QED
    BY <1>6, <2>1, <2>2, <2>3
<1>10. Guard'
  <2>1. RoundOn' => RoundOn /\ gameState' = gameState /\ keys' = keys
    BY <1>0, <1>6 DEF RoundOn, Resident
  <2> QED
    BY <1>0, <2>1 DEF FightInv, Guard, RoundOn, Active
<1> QED
  BY <1>7, <1>8, <1>9, <1>10

-----------------------------------------------------------------------------
\* What the pad sends, it sends over the open socket or loses.
Sends(a) ==
    \/ wire = "open" /\ up' = [up EXCEPT ![ws] = Append(up[ws], Msg("player_input", a))]
    \/ wire # "open" /\ up' = up /\ lost'

\* A step of the pad sends the action the held keys mean, or it is the one sent last.
LEMMA PadKeeps ==
    ASSUME FightInv, [Next]_vars,
           UNCHANGED <<match, loop, handler, down, gameState, mounted, request,
                       ws, wire, onclose, retry>>,
           \/ \E a \in Inputs :
                Active /\ Sends(a)
                /\ (RoundOn /\ mounted => lastAction' = a /\ a = Action(keys'))
           \/ UNCHANGED <<up, lost, lastAction>>
              /\ (Active => Action(keys') = lastAction \/ ~mounted)
    PROVE  Stage' /\ Wired' /\ News' /\ Guard'
<1>0. UNCHANGED <<match, loop, handler, down, gameState, mounted, request,
                  ws, wire, onclose, retry>>
  OBVIOUS
<1>1. Active => request = "done" /\ ws \in Socket
  BY DEF FightInv, Stage, Active
<1>2. DOMAIN up = Socket /\ up \in [Socket -> Seq(UpMsg)]
  BY DEF FightInv, FightTypes, QueueTypes
<1>3. Stage'
  <2>1. ~Active => lastAction' = lastAction
    OBVIOUS
  <2> QED
    BY <1>0, <1>1, <2>1 DEF FightInv, Stage, Resident, Active
<1>4. Wired'
  <2>1. \A s \in Socket : up'[s] # up[s] => s = ws /\ wire = "open"
    BY <1>2 DEF Sends
  <2> QED
    BY <1>0, <2>1 DEF FightInv, Wired
<1>5. News'
  BY <1>0 DEF FightInv, News, RoundOn, Resident
<1>6. Guard'
  <2> SUFFICES ASSUME Active', mounted', RoundOn'
               PROVE  /\ lastAction' = Action(keys')
                      /\ ~lost' => Arrives(up'[ws'], match'.blocking["player_1"], lastAction')
    BY DEF Guard
  <2>1. Active /\ mounted /\ RoundOn
    BY <1>0 DEF Active, RoundOn, Resident
  <2>2. CASE UNCHANGED <<up, lost, lastAction>> /\ Action(keys') = lastAction
    BY <1>0, <2>1, <2>2 DEF FightInv, Guard
  <2>3. CASE \E a \in Inputs : Sends(a) /\ lastAction' = a /\ a = Action(keys')
    <3>0. lastAction' \in Inputs /\ lastAction' = Action(keys') /\ Sends(lastAction')
      BY <2>3
    <3>1. CASE wire # "open"
      BY <3>0, <3>1 DEF Sends
    <3>2. CASE wire = "open"
      <4>1. up'[ws'] = Append(up[ws], Msg("player_input", lastAction')) /\ up[ws] \in Seq(UpMsg)
        BY <1>0, <1>1, <1>2, <2>1, <3>0, <3>2 DEF Sends
      <4> QED
        BY <3>0, <4>1, SentArrives
    <3> QED
      BY <3>1, <3>2
  <2> QED
    BY <2>1, <2>2, <2>3
<1> QED
  BY <1>3, <1>4, <1>5, <1>6

\* Sending is one of the two.
LEMMA SendFact ==
    ASSUME NEW a, Send(a)
    PROVE  Sends(a)
  BY DEF Send, Sends

\* Keys that are pressed or released.
LEMMA ProcessKeeps ==
    ASSUME FightInv, [Next]_vars, NEW held, Process(held),
           UNCHANGED <<match, loop, handler, down, gameState, mounted, request,
                       ws, wire, onclose, retry>>
    PROVE  Stage' /\ Wired' /\ News' /\ Guard'
<1>1. PICK a \in Inputs : a = Action(held)
  BY ActionFact
<1>2. CASE Active /\ a # lastAction
  <2>1. keys' = held /\ lastAction' = a /\ Sends(a)
    BY <1>1, <1>2, SendFact DEF Process
  <2>2. lastAction' = a /\ a = Action(keys')
    BY <1>1, <2>1
  <2> QED
    BY <1>2, <2>1, <2>2, PadKeeps
<1>3. CASE ~(Active /\ a # lastAction)
  <2>1. keys' = held /\ UNCHANGED <<lastAction, up, lost>>
    BY <1>1, <1>3 DEF Process
  <2>2. Active => Action(keys') = lastAction
    BY <1>1, <1>3, <2>1
  <2> QED
    BY <2>1, <2>2, PadKeeps
<1> QED
  BY <1>2, <1>3

\* The keys, the timer of the blow and the repeated movement.
LEMMA PadStepKeeps ==
    ASSUME FightInv, [Next]_vars,
           (\E k \in Key : KeyDown(k) \/ KeyUp(k)) \/ ReleaseAll \/ AttackTimeout \/ RepeatMove
    PROVE  Stage' /\ Wired' /\ News' /\ Guard'
<1>0. UNCHANGED <<match, loop, handler, down, gameState, mounted, request,
                  ws, wire, onclose, retry>>
  BY DEF KeyDown, KeyUp, ReleaseAll, AttackTimeout, RepeatMove, PadOnly, fight, served,
         page, socket
<1>1. CASE \E held : Process(held)
  BY <1>0, <1>1, ProcessKeeps
<1>2. CASE AttackTimeout
  <2> DEFINE held == keys \ {attackTimeout}
  <2>1. PICK a \in Inputs : a = Action(held)
    BY ActionFact
  <2>2. keys' = held
    BY <1>2, <2>1 DEF AttackTimeout
  <2>3. CASE Active /\ a # lastAction
    <3>1. lastAction' = a /\ Sends(a)
      BY <1>2, <2>1, <2>3, SendFact DEF AttackTimeout
    <3>2. lastAction' = a /\ a = Action(keys')
      BY <2>1, <2>2, <3>1
    <3> QED
      BY <1>0, <2>3, <3>1, <3>2, PadKeeps
  <2>4. CASE ~(Active /\ a # lastAction)
    <3>1. UNCHANGED <<lastAction, up, lost>>
      BY <1>2, <2>1, <2>4 DEF AttackTimeout
    <3>2. Active => Action(keys') = lastAction
      BY <2>1, <2>2, <2>4
    <3> QED
      BY <1>0, <3>1, <3>2, PadKeeps
  <2> QED
    BY <2>3, <2>4
<1>3. CASE RepeatMove
  <2>1. PICK a \in Inputs : a = Action(keys)
    BY ActionFact
  <2>2. keys' = keys /\ lastAction' = lastAction /\ Active /\ Sends(a)
    BY <1>3, <2>1, SendFact DEF RepeatMove
  <2>3. RoundOn /\ mounted => lastAction' = a /\ a = Action(keys')
    BY <2>1, <2>2 DEF FightInv, Guard
  <2> QED
    BY <1>0, <2>2, <2>3, PadKeeps
<1> QED
  BY <1>1, <1>2, <1>3 DEF KeyDown, KeyUp, Release, ReleaseAll

\* The steps around the creation of the match.
LEMMA PageKeeps ==
    ASSUME FightInv, [Next]_vars, CreateMatch \/ CreateFails \/ UNCHANGED vars
    PROVE  Stage' /\ Wired' /\ News' /\ Guard'
<1>1. UNCHANGED <<match, loop, handler, up, down, gameState, mounted, ws, wire, onclose,
                  retry, keys, lastAction, lost>>
  BY DEF CreateMatch, CreateFails, vars, fight, served, page, socket, pad
<1>2. NoSuccess
  <2>1. CASE CreateMatch
    <3>1. request # "done" /\ request' = "sent"
      BY <2>1 DEF CreateMatch, FormShown, FightInv, Stage
    <3> QED
      BY <3>1 DEF NoSuccess
  <2>2. CASE CreateFails
    BY <2>2 DEF CreateFails, NoSuccess
  <2>3. CASE UNCHANGED vars
    BY <2>3 DEF vars, page, NoSuccess
  <2> QED
    BY <2>1, <2>2, <2>3
<1> QED
  BY <1>1, <1>2, PageRests

-----------------------------------------------------------------------------
\* At the start there is no round.
LEMMA FightInvInit == Init => FightInv
<1> SUFFICES ASSUME Init PROVE FightInv
  OBVIOUS
<1>1. FightTypes
  BY FightTypesInit
<1>2. Stage
  BY DEF Init, MatchInit, Stage, Resident
<1>3. Wired
  BY DEF Init, MatchInit, Wired
<1>4. News
  <2>1. gameState = "none" /\ \A s \in Socket : Len(down[s]) = 0
    BY DEF Init, MatchInit
  <2>2. 1 .. 0 = {}
    OBVIOUS
  <2> QED
    BY <2>1, <2>2 DEF News
<1>5. Guard
  BY DEF Init, MatchInit, Guard, Active
<1> QED
  BY <1>1, <1>2, <1>3, <1>4, <1>5 DEF FightInv

\* Every step keeps the invariant.
LEMMA FightInvNext == FightInv /\ [Next]_vars => FightInv'
<1> SUFFICES ASSUME FightInv, [Next]_vars PROVE FightInv'
  OBVIOUS
<1>1. FightTypes'
  BY FightTypesNext DEF FightInv
<1>2. Stage' /\ Wired' /\ News' /\ Guard'
  <2>1. CASE Serves
    BY <2>1, ServesStage, ServesWired, ServesNews, ServesGuard
  <2>2. CASE (\E s \in Socket : Serve(s)) \/ Keep
    BY <2>1, <2>2 DEF Serve, Keep, Serves, ServerStep
  <2>3. CASE CreateMatch \/ CreateFails \/ UNCHANGED vars
    BY <2>3, PageKeeps
  <2>4. CASE (\E k \in Key : KeyDown(k) \/ KeyUp(k)) \/ ReleaseAll \/ AttackTimeout \/ RepeatMove
    BY <2>4, PadStepKeeps
  <2>5. CASE ServeCreate \/ CreateSucceeds \/ Reconnect \/ Closed \/ Opened
    BY <2>5, ServeCreateKeeps, CreateSucceedsKeeps, ReconnectKeeps, ClosedKeeps, OpenedKeeps
  <2>6. CASE Break \/ ServerHangsUp \/ Leave \/ Read
    BY <2>6, BreakKeeps, ServerHangsUpKeeps, LeaveKeeps, ReadKeeps
  <2> QED
    BY <2>2, <2>3, <2>4, <2>5, <2>6 DEF Next
<1> QED
  BY <1>1, <1>2 DEF FightInv

(* The guard the server gives the player is the one the player holds, once    *)
(* every input has been read and the last one was not lost, through blows     *)
(* that are refused, keys held across the start of the round, sockets that    *)
(* break and are opened again, and eviction (index.tsx:30, match_state.py:415). *)
THEOREM GuardStaysHeld == Spec => []GuardIsHeld
<1>1. FightInv => GuardIsHeld
  <2> SUFFICES ASSUME FightInv, Quiet
               PROVE  match.blocking["player_1"] <=> Action(keys) = "block"
    BY DEF GuardIsHeld
  <2>1. Active /\ RoundOn /\ ~lost /\ wire = "open" /\ up[ws] = <<>>
    BY DEF Quiet, RoundOn
  <2>2. mounted
    BY <2>1 DEF FightInv, Stage, Active
  <2>3. lastAction = Action(keys) /\ Arrives(<<>>, match.blocking["player_1"], lastAction)
    BY <2>1, <2>2 DEF FightInv, Guard
  <2> QED
    BY <2>3, EmptyArrives
<1> QED
  BY <1>1, FightInvInit, FightInvNext, PTL DEF Spec
=============================================================================

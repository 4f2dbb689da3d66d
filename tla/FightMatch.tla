------------------------------ MODULE FightMatch ------------------------------
(***************************************************************************)
(* One match of the fighting game against the computer, as its server keeps *)
(* it: match_state.py (every transition runs under one lock and suspends    *)
(* nowhere, so each is one step) and server.py, with one handler per socket, *)
(* the match loop, and the eviction of a match that is over or abandoned.   *)
(* Positions, cooldowns and combos are abstracted to what a step makes of   *)
(* them: a blow lands, misses or is refused. The clock of the round runs    *)
(* out at any time.                                                         *)
(***************************************************************************)
EXTENDS Integers, Sequences, FiniteSets

CONSTANTS
    Socket,         \* the connections of the page, numbered as they are opened
    MaxHealth,
    MaxQueue        \* bound on what waits in a socket

ASSUME FightAssumption ==
    /\ IsFiniteSet(Socket) /\ Socket = 1 .. Cardinality(Socket)
    /\ MaxHealth \in Nat /\ MaxQueue \in Nat

VARIABLES
    match,          \* the resident match, or NoMatch
    timeIsUp,       \* ROUND_SECONDS have passed
    loop,           \* the task of run_match: "none", "running", "ended"
    registry,       \* app.state.sockets: the listed sockets, and the key itself
    presence,       \* app.state.player_sockets of the player
    handler,        \* match_socket per socket
    up, down        \* what waits in a socket, towards and from the server

fight == <<match, timeIsUp, loop>>
served == <<registry, presence, handler>>

Fighter == {"player_1", "player_2"}
Other(f) == CHOOSE g \in Fighter : g # f
Attack == {"light_punch", "heavy_kick"}
Move == {"move_left", "move_right"}
NoMatch == [status |-> "none"]
Resident == match # NoMatch

MatchInit ==
    /\ match = NoMatch /\ timeIsUp = FALSE /\ loop = "none"
    /\ registry = [key |-> FALSE, sockets |-> {}]
    /\ presence = {}
    /\ handler = [s \in Socket |-> "none"]
    /\ up = [s \in Socket |-> <<>>] /\ down = [s \in Socket |-> <<>>]

NewMatch ==
    [status |-> "active", health |-> [f \in Fighter |-> MaxHealth],
     blocking |-> [f \in Fighter |-> FALSE], winner |-> "none", connected |-> FALSE]

\* create_ai_match and _schedule_match_loop.
CreateAiMatch ==
    /\ match' = NewMatch /\ timeIsUp' = FALSE /\ loop' = "running"

-----------------------------------------------------------------------------
\* _finish_if_timer_expired
Healthier(m) ==
    IF \A f \in Fighter : m.health[f] = m.health[Other(f)] THEN "none"
    ELSE CHOOSE f \in Fighter : m.health[f] > m.health[Other(f)]

Finish(m) ==
    IF m.status = "active" /\ timeIsUp
    THEN [m EXCEPT !.status = "round_complete", !.winner = Healthier(m)] ELSE m

\* The damage of a blow, and of one that is blocked: max(1, damage // 4).
Damage(blocked) == IF blocked THEN 1 ELSE 2

\* (Mutant: health is not kept from falling below zero.)
Overkill(health, damage) == health - damage
Left(health, damage) == IF damage < health THEN health - damage ELSE 0

Struck(m, attacker) ==
    LET defender == Other(attacker)
        left == Left(m.health[defender], Damage(m.blocking[defender]))
        hit == [m EXCEPT !.health[defender] = left]
    IN IF left <= 0 THEN [hit EXCEPT !.status = "round_complete", !.winner = attacker]
       ELSE hit

\* _apply_input: what an input may make of the match. A blow that is refused
\* because the fighter cools down has lowered the guard all the same.
Guarded(m, f, action) == [m EXCEPT !.blocking[f] = (action = "block")]
Applied(m, f, action) ==
    LET g == Guarded(m, f, action)
    IN [done |-> {g} \cup (IF action \in Attack THEN {Struck(g, f)} ELSE {}),
        refused |-> IF action \in Attack THEN {g} ELSE {}]

-----------------------------------------------------------------------------
Msg(kind, value) == [kind |-> kind, value |-> value]
Room(queues) == \A s \in Socket : Len(queues[s]) < MaxQueue

\* _broadcast: a listed socket is sent the state; the send to one that its
\* peer has left is dropped with it.
Broadcast(m, listed) ==
    /\ Room(down)
    /\ down' = [s \in Socket |->
          IF s \in listed /\ handler[s] # "left" THEN Append(down[s], Msg("state", m.status))
          ELSE down[s]]

Tell(s, detail) == [down EXCEPT ![s] = Append(@, Msg("error", detail))]

\* The socket is accepted before it is known whether the match exists.
Accept(s) ==
    /\ handler' = [handler EXCEPT ![s] = "accepted"]
    /\ registry' = [registry EXCEPT !.key = TRUE]

\* The first message, and set_connected.
\* (Mutant: a player who connects starts the round.)
Started(m) == [m EXCEPT !.connected = TRUE, !.status = "active"]
Present(m) == [m EXCEPT !.connected = TRUE]

Authenticate(s) ==
    /\ handler[s] = "accepted" /\ up[s] # <<>> /\ Head(up[s]).kind = "authenticate"
    /\ Room(down)
    /\ up' = [up EXCEPT ![s] = Tail(@)]
    /\ \/ /\ Resident
          /\ match' = Present(match)
          /\ registry' = [registry EXCEPT !.sockets = @ \cup {s}]
          /\ presence' = presence \cup {s}
          /\ handler' = [handler EXCEPT ![s] = "served"]
          /\ Broadcast(match', registry.sockets \cup {s})
       \/ /\ ~Resident
          /\ handler' = [handler EXCEPT ![s] = "closed"]
          /\ down' = Tell(s, "match not found")
          /\ UNCHANGED <<match, registry, presence>>
    /\ UNCHANGED <<timeIsUp, loop>>

\* player_input: a refused blow is answered to its own socket.
PlayerInput(s, action) ==
    LET m == Finish(match)
        outcome == Applied(m, "player_1", action)
    IN IF m.status = "active"
       THEN \/ \E n \in outcome.done : match' = n /\ Broadcast(n, registry.sockets)
            \/ /\ match' \in outcome.refused
               /\ down' = Tell(s, "combat action is cooling down")
       ELSE match' = m /\ down' = Tell(s, "round is not active")

Receive(s) ==
    /\ handler[s] = "served" /\ up[s] # <<>>
    /\ Room(down)
    /\ up' = [up EXCEPT ![s] = Tail(@)]
    /\ LET message == Head(up[s])
       IN \/ ~Resident /\ down' = Tell(s, "match not found") /\ UNCHANGED match
          \/ /\ Resident /\ message.kind = "sync"
             /\ match' = Finish(match) /\ Broadcast(match', registry.sockets)
          \/ /\ Resident /\ message.kind = "player_input"
             /\ PlayerInput(s, message.value)
    /\ UNCHANGED <<timeIsUp, loop, registry, presence, handler>>

\* The end of a handler whose peer has left.
\* (Mutant: the older of two sockets ends the presence of both.)
NoneLeft(s) == TRUE
IsLast(s) == presence = {s}

Disconnect(s) ==
    /\ handler[s] = "left" /\ up[s] = <<>>
    /\ handler' = [handler EXCEPT ![s] = "ended"]
    /\ registry' = [registry EXCEPT !.sockets = @ \ {s}]
    /\ presence' = presence \ {s}
    /\ IF s \in presence /\ IsLast(s) /\ Resident
       THEN /\ match' = [match EXCEPT !.connected = FALSE]
            /\ Broadcast(match, registry.sockets \ {s})
       ELSE UNCHANGED <<match, down>>
    /\ UNCHANGED <<timeIsUp, loop, up>>

-----------------------------------------------------------------------------
TimeIsUp ==
    /\ Resident /\ ~timeIsUp /\ timeIsUp' = TRUE
    /\ UNCHANGED <<match, loop, registry, presence, handler, up, down>>

\* tick_match: the computer acts, then the clock is read; the loop ends with
\* the state it broadcast last.
ComputerActs(m) ==
    UNION {Applied(m, "player_2", action).done \cup Applied(m, "player_2", action).refused :
           action \in {"move_left", "block", "light_punch"}}

Tick ==
    /\ loop = "running"
    /\ \/ /\ Resident
          /\ match' \in IF match.status = "active"
                        THEN {Finish(m) : m \in {match} \cup ComputerActs(match)}
                        ELSE {match}
          /\ Broadcast(match', registry.sockets)
          /\ loop' = IF match'.status = "active" THEN "running" ELSE "ended"
       \/ ~Resident /\ loop' = "ended" /\ UNCHANGED <<match, down>>
    /\ UNCHANGED <<timeIsUp, registry, presence, handler, up>>

\* _evict_match, after COMPLETED_MATCH_TTL_SECONDS or by cleanup_stale; two
\* minutes without a player are more than a round.
Evict ==
    /\ Resident
    /\ \/ match.status = "round_complete"
       \/ match.status = "active" /\ ~match.connected /\ timeIsUp
    /\ match' = NoMatch
    /\ handler' = [s \in Socket |->
          IF s \in registry.sockets /\ handler[s] = "served" THEN "closed" ELSE handler[s]]
    /\ registry' = [key |-> FALSE, sockets |-> {}]
    /\ presence' = {}
    /\ UNCHANGED <<timeIsUp, loop, up, down>>
=============================================================================

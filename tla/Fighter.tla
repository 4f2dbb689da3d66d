-------------------------------- MODULE Fighter --------------------------------
(***************************************************************************)
(* The page of the fighting game (useFighter.ts, index.tsx): it creates a    *)
(* match, keeps a socket to it and opens another when one is lost, shows the *)
(* state it is sent, and turns keys and touches into inputs. The match is    *)
(* FightMatch; the page plays one match, as a rematch reloads it.            *)
(* What a lost socket held is lost in both directions: a reconnection waits  *)
(* a second, by when the server has read what had arrived.                   *)
(***************************************************************************)
EXTENDS FightMatch

CONSTANTS
    Key,            \* the inputs the player uses
    MaxPresses,     \* bound on key presses
    MaxBreaks       \* bound on lost connections

VARIABLES
    gameState,      \* the status of the match that is shown
    error, connecting, mounted,
    request,        \* the POST of createMatch
    ws,             \* wsRef: the number of the last socket, 0 for none
    wire,           \* its state: "none", "opening", "open", "broken"
    onclose,        \* the socket still has its onclose
    retry,          \* reconnectTimeout is armed
    keys, lastAction, attackTimeout,
    lost,           \* history: the last input sent did not arrive
    presses, breaks

page == <<gameState, error, connecting, mounted, request>>
socket == <<ws, wire, onclose, retry>>
pad == <<keys, lastAction, attackTimeout, lost>>
bounds == <<presses, breaks>>
vars == <<fight, served, up, down, page, socket, pad, bounds>>

Init ==
    /\ MatchInit
    /\ gameState = "none" /\ error = "none" /\ connecting = FALSE /\ mounted = TRUE
    /\ request = "none"
    /\ ws = 0 /\ wire = "none" /\ onclose = FALSE /\ retry = FALSE
    /\ keys = {} /\ lastAction = "idle" /\ attackTimeout = "none" /\ lost = FALSE
    /\ presses = 0 /\ breaks = 0

-----------------------------------------------------------------------------
(* What the page shows. *)
FormShown == mounted /\ gameState = "none"
FightShown == mounted /\ gameState \in {"active", "round_complete"}
ResultShown == mounted /\ gameState = "round_complete"
Active == gameState = "active"

\* The button of the form is disabled while the page connects.
CreateMatch ==
    /\ FormShown /\ ~connecting
    /\ request' = "sent" /\ connecting' = TRUE /\ error' = "none"
    /\ UNCHANGED <<fight, served, up, down, gameState, mounted, socket, pad, bounds>>

\* The server creates the match, or refuses it at a limit.
ServeCreate ==
    /\ request = "sent"
    /\ \/ loop = "none" /\ CreateAiMatch /\ request' = "created"
       \/ request' = "refused" /\ UNCHANGED fight
    /\ UNCHANGED <<served, up, down, gameState, error, connecting, mounted, socket, pad, bounds>>

\* connectWS closes the socket before and opens the next.
Connect ==
    /\ ws + 1 \in Socket
    /\ ws' = ws + 1 /\ wire' = "opening" /\ onclose' = TRUE

\* A match that is created after the page was left is connected to as well.
CreateSucceeds ==
    /\ request = "created"
    /\ request' = "done"
    /\ gameState' = IF mounted THEN "active" ELSE gameState
    /\ Connect /\ connecting' = TRUE
    /\ keys' = {}
    /\ UNCHANGED <<fight, served, up, down, error, mounted, retry,
                   lastAction, attackTimeout, lost, bounds>>

CreateFails ==
    /\ \/ request = "refused" /\ UNCHANGED breaks
       \/ request = "created" /\ breaks < MaxBreaks /\ breaks' = breaks + 1
    /\ request' = "failed" /\ connecting' = FALSE /\ error' = "create"
    /\ UNCHANGED <<fight, served, up, down, gameState, mounted, socket, pad, presses>>

-----------------------------------------------------------------------------
Opened ==
    /\ wire = "opening" /\ wire' = "open"
    /\ connecting' = FALSE
    /\ Accept(ws)
    /\ up' = [up EXCEPT ![ws] = <<Msg("authenticate", "none"), Msg("sync", "none")>>]
    /\ UNCHANGED <<fight, presence, down, gameState, error, mounted, request,
                   ws, onclose, retry, pad, bounds>>

\* The connection is lost, or cannot be opened.
Hangup(s) ==
    /\ handler' = [handler EXCEPT ![s] = IF @ = "closed" THEN "ended"
                                         ELSE IF @ = "none" THEN "none" ELSE "left"]
    /\ up' = [up EXCEPT ![s] = <<>>] /\ down' = [down EXCEPT ![s] = <<>>]

Break ==
    /\ wire \in {"opening", "open"} /\ wire' = "broken"
    /\ breaks < MaxBreaks /\ breaks' = breaks + 1
    /\ Hangup(ws)
    /\ lost' = (lost \/ \E i \in DOMAIN up[ws] : up[ws][i].kind = "player_input")
    /\ UNCHANGED <<fight, registry, presence, page, ws, onclose, retry,
                   keys, lastAction, attackTimeout, presses>>

ServerHangsUp ==
    /\ wire = "open" /\ handler[ws] = "closed" /\ down[ws] = <<>>
    /\ wire' = "broken" /\ Hangup(ws)
    /\ UNCHANGED <<fight, registry, presence, page, ws, onclose, retry, pad, bounds>>

\* ws.onclose
\* (Mutant: a socket that closes is not opened again.)
NeverAgain == UNCHANGED retry
Rearm == retry' = TRUE

Closed ==
    /\ wire = "broken" /\ onclose
    /\ wire' = "none" /\ connecting' = TRUE
    /\ Rearm
    /\ UNCHANGED <<fight, served, up, down, gameState, error, mounted, request,
                   ws, onclose, pad, bounds>>

Reconnect ==
    /\ retry /\ retry' = FALSE
    /\ Connect /\ connecting' = TRUE
    /\ UNCHANGED <<fight, served, up, down, gameState, error, mounted, request, pad, bounds>>

\* ws.onmessage. A round that begins or ends clears the keys and the timer of
\* the blow, not the action that was sent last.
AfterError == gameState

Read ==
    /\ wire = "open" /\ down[ws] # <<>>
    /\ LET message == Head(down[ws])
       IN IF message.kind = "state"
          THEN /\ gameState' = IF mounted THEN message.value ELSE gameState
               /\ error' = "none"
          ELSE error' = message.value /\ gameState' = AfterError
    /\ down' = [down EXCEPT ![ws] = Tail(@)]
    /\ IF gameState' # gameState THEN keys' = {} /\ attackTimeout' = "none"
       ELSE UNCHANGED <<keys, attackTimeout>>
    /\ UNCHANGED <<fight, served, up, connecting, mounted, request, socket,
                   lastAction, lost, bounds>>

\* Unmount, or the rematch, which loads the page anew.
Leave ==
    /\ mounted /\ mounted' = FALSE
    /\ onclose' = FALSE /\ retry' = FALSE
    /\ IF wire \in {"opening", "open"} THEN wire' = "none" /\ Hangup(ws)
       ELSE UNCHANGED <<wire, handler, up, down>>
    /\ keys' = {} /\ attackTimeout' = "none"
    /\ UNCHANGED <<fight, registry, presence, gameState, error, connecting, request,
                   ws, lastAction, lost, bounds>>

-----------------------------------------------------------------------------
(* Keys and touches. *)
Action(held) ==
    CASE "light_punch" \in held -> "light_punch"
      [] "light_punch" \notin held /\ "heavy_kick" \in held -> "heavy_kick"
      [] held \cap Attack = {} /\ "block" \in held -> "block"
      [] OTHER -> IF Move \subseteq held \/ Move \cap held = {} THEN "idle"
                  ELSE CHOOSE m \in Move : m \in held

\* sendAction: an input is dropped while the socket is not open.
Send(action) ==
    IF wire = "open"
    THEN up' = [up EXCEPT ![ws] = Append(@, Msg("player_input", action))] /\ lost' = FALSE
    ELSE UNCHANGED up /\ lost' = TRUE

\* processKeys
Process(held) ==
    /\ keys' = held
    /\ IF Active /\ Action(held) # lastAction
       THEN /\ lastAction' = Action(held) /\ Send(Action(held))
            /\ attackTimeout' = IF Action(held) \in Attack THEN Action(held) ELSE attackTimeout
       ELSE UNCHANGED <<lastAction, attackTimeout, up, lost>>

PadOnly == UNCHANGED <<fight, served, down, page, socket, breaks>>

KeyDown(k) ==
    /\ mounted /\ presses < MaxPresses /\ presses' = presses + 1
    /\ Process(keys \cup {k})
    /\ PadOnly

\* (Mutant: the release of a key is not processed.)
ReleaseUnheard(k) == keys' = keys \ {k} /\ UNCHANGED <<lastAction, attackTimeout, up, lost>>
Release(k) == Process(keys \ {k})

KeyUp(k) == mounted /\ k \in keys /\ Release(k) /\ PadOnly /\ UNCHANGED presses

\* A released mouse button or a window without focus releases every key.
ReleaseAll == keys # {} /\ Process({}) /\ PadOnly /\ UNCHANGED presses

\* A blow is held for 200 ms.
AttackTimeout ==
    /\ attackTimeout # "none"
    /\ LET held == keys \ {attackTimeout}
       IN /\ keys' = held
          /\ IF Active /\ Action(held) # lastAction
             THEN /\ lastAction' = Action(held) /\ Send(Action(held))
                  /\ attackTimeout' = IF Action(held) \in Attack THEN Action(held) ELSE "none"
             ELSE attackTimeout' = "none" /\ UNCHANGED <<lastAction, up, lost>>
    /\ PadOnly /\ UNCHANGED presses

\* A held movement is sent again every 70 ms.
RepeatMove ==
    /\ mounted /\ Active /\ Action(keys) \in Move
    /\ wire = "open" => Len(up[ws]) < MaxQueue
    /\ Send(Action(keys))
    /\ PadOnly /\ UNCHANGED <<keys, lastAction, attackTimeout, presses>>

Serve(s) ==
    /\ Authenticate(s) \/ Receive(s) \/ Disconnect(s)
    /\ UNCHANGED <<page, socket, pad, bounds>>

Keep == (TimeIsUp \/ Tick \/ Evict) /\ UNCHANGED <<page, socket, pad, bounds>>

Next ==
    \/ CreateMatch \/ ServeCreate \/ CreateSucceeds \/ CreateFails
    \/ Opened \/ Break \/ ServerHangsUp \/ Closed \/ Reconnect \/ Read \/ Leave
    \/ \E k \in Key : KeyDown(k) \/ KeyUp(k)
    \/ ReleaseAll \/ AttackTimeout \/ RepeatMove
    \/ \E s \in Socket : Serve(s)
    \/ Keep

\* The server's tasks run, the clock passes, and the browser's callbacks and
\* timers are called. Nothing is assumed of the player or of lost connections.
Fairness ==
    /\ WF_vars(ServeCreate) /\ WF_vars(CreateSucceeds \/ CreateFails)
    /\ WF_vars(Opened) /\ WF_vars(ServerHangsUp) /\ WF_vars(Closed)
    /\ WF_vars(Reconnect) /\ WF_vars(Read)
    /\ \A s \in Socket : WF_vars(Serve(s))
    /\ WF_vars(TimeIsUp /\ UNCHANGED <<page, socket, pad, bounds>>)
    /\ WF_vars(Tick /\ UNCHANGED <<page, socket, pad, bounds>>)
    /\ WF_vars(Evict /\ UNCHANGED <<page, socket, pad, bounds>>)

Spec == Init /\ [][Next]_vars /\ Fairness

-----------------------------------------------------------------------------
Inputs == {"idle", "jump", "crouch", "block"} \cup Attack \cup Move
Status == {"none", "active", "round_complete"}

(* Every variable keeps to its type. *)
TypeOK ==
    /\ Resident =>
        /\ match.status \in Status \ {"none"} /\ match.winner \in Fighter \cup {"none"}
        /\ match.health \in [Fighter -> 0 .. MaxHealth]
        /\ match.blocking \in [Fighter -> BOOLEAN]
    /\ timeIsUp \in BOOLEAN /\ loop \in {"none", "running", "ended"}
    /\ registry.sockets \subseteq Socket /\ registry.key \in BOOLEAN
    /\ presence \subseteq Socket
    /\ handler \in [Socket -> {"none", "accepted", "served", "left", "closed", "ended"}]
    /\ gameState \in Status /\ ws \in 0 .. Cardinality(Socket)
    /\ error \in {"none", "create", "match not found", "round is not active",
                  "combat action is cooling down"}
    /\ request \in {"none", "sent", "created", "refused", "failed", "done"}
    /\ wire \in {"none", "opening", "open", "broken"}
    /\ {connecting, mounted, onclose, retry, lost} \subseteq BOOLEAN
    /\ keys \subseteq Key /\ lastAction \in Inputs
    /\ attackTimeout \in Attack \cup {"none"}
    /\ \A s \in Socket : Len(down[s]) <= MaxQueue

(* The player counts as connected exactly while one of its sockets is in the  *)
(* hands of a handler (server.py:319): an old socket whose end is seen after  *)
(* the new one was accepted does not make the player absent.                  *)
PresenceIsTrue ==
    Resident => (match.connected <=> presence # {})

(* The guard the server gives the player is the one the player holds, once    *)
(* every input has been read and the last one was not lost: the page sends    *)
(* changes only, and a blow that is refused still lowers the guard            *)
(* (index.tsx:30, match_state.py:415).                                        *)
Quiet ==
    /\ Active /\ Resident /\ match.status = "active"
    /\ ~lost /\ wire = "open" /\ handler[ws] = "served" /\ up[ws] = <<>>
GuardIsHeld == Quiet => (match.blocking["player_1"] <=> Action(keys) = "block")

(* A round that is over stays as it ended: neither the clock, the computer    *)
(* nor an input that arrives late changes its result (match_state.py:509).    *)
ResultIsFinal ==
    [][Resident /\ match.status = "round_complete" /\ match' # NoMatch =>
         match'.status = match.status /\ match'.winner = match.winner
         /\ match'.health = match.health]_vars

(* A page that shows a fight comes to show its end, or to be told that the    *)
(* match is gone, unless the player leaves (useFighter.ts:53).                *)
OutcomeIsLearned ==
    Active ~> (gameState = "round_complete" \/ error = "match not found" \/ ~mounted)
=============================================================================

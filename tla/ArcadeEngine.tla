----------------------------- MODULE ArcadeEngine -----------------------------
(***************************************************************************)
(* The engine of the retro arcade (hooks/use-arcade-engine.ts) in the tabs  *)
(* of one browser, which share the identity of the player, on top of the    *)
(* room. The refs of the hook are the fields of a tab; state that React     *)
(* renders is kept where the screens or the handlers read it.               *)
(***************************************************************************)
EXTENDS ArcadeRoom

CONSTANTS
    Tab,
    NoSocket,
    TestLevel,      \* levels of the test portal, none in production
    Tester,         \* the tabs whose user knows its password
    MaxMoves        \* bound on what the player does

ASSUME NoSocketAssumption == NoSocket \notin Socket
ASSUME MovesAssumption == MaxMoves \in Nat
ASSUME TestLevelAssumption == TestLevel \subseteq Level \cap 1 .. 3 /\ Tester \subseteq Tab

VARIABLES
    tab,
    ready,          \* readyState of a socket
    moves

client == <<tab, ready, moves>>
vars == <<room, wires, bounds, client>>

NoRun == [collected |-> {}, completed |-> FALSE]
NoPlayer == [level |-> 0, over |-> FALSE]

Closed == [cur |-> NoSocket, status |-> "disconnected", known |-> FALSE,
           local |-> NoPlayer, run |-> NoRun, asking |-> 0, pending |-> 0,
           near |-> FALSE, charge |-> FALSE, late |-> FALSE]

Init ==
    /\ RoomInit
    /\ tab = [t \in Tab |-> Closed]
    /\ ready = [s \in Socket |-> "none"]
    /\ moves = 0

Fresh == {s \in Socket : ready[s] = "none"}

\* close(): what was sent before still arrives, nothing is received any more.
Close(s, states) ==
    IF s = NoSocket \/ states[s] \notin {"connecting", "open"}
    THEN /\ ready' = states /\ UNCHANGED wires
    ELSE /\ ready' = [states EXCEPT ![s] = "closed"]
         /\ IF states[s] = "open" /\ link[s] = "up"
            THEN /\ link' = [link EXCEPT ![s] = "lost"]
                 /\ up' = [up EXCEPT ![s] = Append(@, Bye)]
            ELSE UNCHANGED <<link, up>>
         /\ down' = [down EXCEPT ![s] = <<>>]

\* A socket closed before it opened still reports an error later.
Late(t) ==
    \/ tab[t].late
    \/ tab[t].cur # NoSocket /\ ready[tab[t].cur] = "connecting"

\* join, with the request of the test portal that is still unanswered and the
\* pending level, which an earlier attempt that failed left behind.
Connect(t, asking, pending) ==
    LET s == CHOOSE n \in Fresh : TRUE IN
        /\ Fresh # {}
        /\ tab' = [tab EXCEPT ![t] = [@ EXCEPT !.cur = s, !.run = NoRun,
              !.status = "connecting", !.asking = asking, !.pending = pending,
              !.late = Late(t)]]
        /\ Close(tab[t].cur, [ready EXCEPT ![s] = "connecting"])
        /\ UNCHANGED <<room, bounds, moves>>

\* "INSERT COIN"
Insert(t) ==
    /\ tab[t].status = "disconnected"
    /\ Connect(t, tab[t].asking, tab[t].pending)

\* A button of the test portal; its two requests may be answered after the
\* player has joined without it.
AskTest(t, level) ==
    /\ t \in Tester /\ tab[t].status = "disconnected" /\ tab[t].asking = 0
    /\ tab' = [tab EXCEPT ![t].asking = level]
    /\ UNCHANGED <<room, wires, bounds, ready, moves>>

TestGranted(t) == tab[t].asking # 0 /\ Connect(t, 0, tab[t].asking)

TestRefused(t) ==
    /\ tab[t].asking # 0
    /\ tab' = [tab EXCEPT ![t].asking = 0]
    /\ UNCHANGED <<room, wires, bounds, ready, moves>>

Owner(s) == {t \in Tab : tab[t].cur = s}

Opened(s) ==
    /\ ready[s] = "connecting"
    /\ ready' = [ready EXCEPT ![s] = "open"]
    /\ link' = [link EXCEPT ![s] = "up"]
    /\ up' = [up EXCEPT ![s] = <<Msg("join", 0)>>]
    /\ UNCHANGED <<room, down, bounds, tab, moves>>

\* The close handler of the current socket. (Mutant: the status is set to the
\* state of the socket.)
InterruptedClosed(t) ==
    [tab[t] EXCEPT !.cur = NoSocket, !.known = FALSE, !.local = NoPlayer,
                   !.status = "closed"]
Interrupted(t) ==
    [tab[t] EXCEPT !.cur = NoSocket, !.known = FALSE, !.local = NoPlayer,
                   !.status = "error"]

\* The room cannot be reached or refuses the connection: error, then close.
\* (Mutant: nobody listens.)
ConnectFailsUnheard(s) ==
    /\ ready[s] = "connecting"
    /\ ready' = [ready EXCEPT ![s] = "closed"]
    /\ UNCHANGED <<room, wires, bounds, tab, moves>>
ConnectFails(s) ==
    /\ ready[s] = "connecting"
    /\ ready' = [ready EXCEPT ![s] = "closed"]
    /\ tab' = [t \in Tab |-> IF t \in Owner(s) THEN Interrupted(t) ELSE tab[t]]
    /\ UNCHANGED <<room, wires, bounds, moves>>

\* The error of a socket that was closed too early: its handler does not
\* ask whether it is still the current one.
LateError(t) ==
    /\ tab[t].late
    /\ tab' = [tab EXCEPT ![t].status = "error", ![t].late = FALSE]
    /\ UNCHANGED <<room, wires, bounds, ready, moves>>

\* send: only on a socket that is open. A socket whose link is lost takes the
\* message, and loses it.
Sent(t, messages) ==
    LET s == tab[t].cur IN
    up' = IF s # NoSocket /\ ready[s] = "open" /\ link[s] = "up"
          THEN [up EXCEPT ![s] = @ \o messages] ELSE up

Welcome(t) ==
    /\ tab' = [tab EXCEPT ![t] = [@ EXCEPT !.known = TRUE, !.pending = 0,
                                           !.status = "connected"]]
    /\ Sent(t, IF tab[t].pending = 0 THEN <<>>
               ELSE <<Msg("admin_configure_test", tab[t].pending)>>)

\* applySnapshot: a near orb is claimed once.
Snapshot(t, player) ==
    LET mine == tab[t].known
        claims == mine /\ player.level <= 6 /\ ~player.over
    IN
    \E near \in IF claims THEN BOOLEAN ELSE {tab[t].near} :
        /\ near /\ ~tab[t].near => moves < MaxMoves
        /\ tab' = [tab EXCEPT ![t] = [@ EXCEPT !.near = near,
                       !.local = IF mine THEN player ELSE tab[t].local]]
        /\ Sent(t, IF claims /\ near /\ ~tab[t].near
                   THEN <<Msg("collect", 0)>> ELSE <<>>)
        /\ moves' = IF claims /\ near /\ ~tab[t].near THEN moves + 1 ELSE moves

\* The handlers of message and close.
Receive(t) ==
    LET s == tab[t].cur m == Head(down[s]) IN
    /\ s # NoSocket /\ ready[s] = "open" /\ down[s] # <<>>
    /\ CASE m.kind = "welcome" -> Welcome(t) /\ UNCHANGED <<ready, link, moves>>
         [] m.kind = "error" ->
              /\ tab' = [tab EXCEPT ![t].status =
                            IF @ = "connecting" THEN "error" ELSE @]
              /\ UNCHANGED <<ready, up, link, moves>>
         [] m.kind = "state" ->
              Snapshot(t, m.value) /\ UNCHANGED <<ready, link>>
         [] m.kind \in {"replaced", "lost"} ->
              /\ ready' = [ready EXCEPT ![s] = "closed"]
              /\ link' = [link EXCEPT ![s] = "lost"]
              /\ up' = IF link[s] = "lost" THEN up
                       ELSE [up EXCEPT ![s] = Append(@, Bye)]
              /\ tab' = [tab EXCEPT ![t] = Interrupted(t)]
              /\ UNCHANGED moves
    /\ down' = [down EXCEPT ![s] = Tail(@)]
    /\ UNCHANGED <<room, bounds>>

\* reset: a new game on the same socket after a game over, else the cabinet
\* is left. Offered by the game over and the error screens.
ResetCabinet(t) ==
    LET s == tab[t].cur IN
    /\ tab[t].status = "error" \/ tab[t].local.over
    /\ IF s # NoSocket /\ ready[s] = "open" /\ tab[t].local.over
       THEN /\ moves < MaxMoves
            /\ moves' = moves + 1
            /\ tab' = [tab EXCEPT ![t].run = NoRun]
            /\ Sent(t, <<Msg("reset", 0)>>)
            /\ UNCHANGED <<ready, down, link>>
       ELSE /\ tab' = [tab EXCEPT ![t] = [@ EXCEPT !.cur = NoSocket,
                  !.known = FALSE, !.local = NoPlayer, !.run = NoRun,
                  !.status = "disconnected", !.late = Late(t)]]
            /\ Close(s, ready)
            /\ UNCHANGED moves
    /\ UNCHANGED <<room, bounds>>

\* The page is closed or reloaded: the provider unmounts.
Leave(t) ==
    /\ tab[t] # Closed
    /\ tab' = [tab EXCEPT ![t] = Closed]
    /\ Close(tab[t].cur, ready)
    /\ UNCHANGED <<room, bounds, moves>>

Plays(t) ==
    /\ tab[t].local # NoPlayer /\ ~tab[t].local.over /\ moves < MaxMoves
    /\ moves' = moves + 1

\* applyLevelOneStep: where a step ends, the chips in reach of it and the
\* finish. A step into a laser ends elsewhere.
LevelOneStep(run, place) ==
    LET collected == run.collected \cup ({place} \cap Chip) IN
    [collected |-> collected,
     completed |-> run.completed \/ (collected = Chip /\ place = "finish")]

\* directionalAction
Direct(t, place) ==
    LET level == tab[t].local.level
        run == tab[t].run
        next == LevelOneStep(run, place)
        new == next.collected \ run.collected
    IN
    /\ Plays(t)
    /\ tab' = IF level = 1 THEN [tab EXCEPT ![t].run = next] ELSE tab
    /\ Sent(t, IF level > 6 THEN <<Msg("input", level)>>
               ELSE <<Msg("position", 0)>>
                    \o (IF level = 1
                        THEN [i \in 1 .. Cardinality(new) |->
                                 Msg("level_one_chip",
                                     ClientName(SetToSeq(new)[i]))]
                             \o (IF next.completed /\ ~run.completed
                                 THEN <<Msg("level_one_complete", 0)>>
                                 ELSE <<>>)
                        ELSE <<>>))
    /\ UNCHANGED <<room, down, link, bounds, ready>>

\* primaryAction: a jump on level 2, a shot or a jump on levels 7 and 9, the
\* charge of level 10, which is held until the button is released.
Primary(t, pressed) ==
    LET level == tab[t].local.level IN
    /\ Plays(t)
    /\ level \in {2, 7, 9, 10} /\ (pressed \/ level = 10)
    /\ tab' = IF level = 10 THEN [tab EXCEPT ![t].charge = pressed] ELSE tab
    /\ Sent(t, <<IF level = 2 THEN Msg("position", 0)
                 ELSE Msg("input", level)>>)
    /\ UNCHANGED <<room, down, link, bounds, ready>>

Next ==
    \/ \E s \in Socket : RoomStep(s) /\ UNCHANGED client
    \/ \E s \in Socket : Opened(s) \/ ConnectFails(s)
    \/ \E t \in Tab :
          \/ Insert(t) \/ TestGranted(t) \/ TestRefused(t)
          \/ \E level \in TestLevel : AskTest(t, level)
          \/ Receive(t) \/ ResetCabinet(t) \/ Leave(t) \/ LateError(t)
          \/ \E place \in Chip \cup {"elsewhere", "finish"} : Direct(t, place)
          \/ \E pressed \in BOOLEAN : Primary(t, pressed)

\* The room serves its sockets, connections open or fail, messages arrive: as
\* long as one of these can happen, one of them does.
Fairness ==
    WF_vars(\/ \E s \in Socket : \/ Serve(s) /\ UNCHANGED client
                                \/ Opened(s) \/ ConnectFails(s)
            \/ \E t \in Tab : Receive(t))

Spec == Init /\ [][Next]_vars /\ Fairness

TypeOK ==
    /\ RoomTypeOK
    /\ tab \in [Tab -> [cur : Socket \cup {NoSocket},
           status : {"disconnected", "connecting", "connected", "error"},
           known : BOOLEAN,
           local : [level : Level \cup {0}, over : BOOLEAN],
           run : [collected : SUBSET Chip, completed : BOOLEAN],
           asking : TestLevel \cup {0}, pending : TestLevel \cup {0},
           late : BOOLEAN,
           near : BOOLEAN, charge : BOOLEAN]]
    /\ ready \in [Socket -> {"none", "connecting", "open", "closed"}]
    /\ moves \in 0 .. MaxMoves

\* A tab that says it is connected holds an open socket, and this socket has
\* the player's seat unless the news that it lost it is on its way: a tab
\* that was replaced by another one does not go on as if it played.
ConnectedIsSeated ==
    \A t \in Tab : tab[t].status = "connected" =>
        LET s == tab[t].cur IN
        /\ s # NoSocket /\ ready[s] = "open"
        /\ \/ Seated(s)
           \/ \E i \in 1 .. Len(down[s]) : down[s][i].kind \in {"replaced", "lost"}

\* A join is decided: the tab is welcomed, refused or interrupted.
JoinIsDecided ==
    \A t \in Tab : tab[t].status = "connecting" ~> tab[t].status # "connecting"

\* "keeps the exit open while authoritative Level 2 advancement arrives"
\* (level-one-rules.test.ts): once the tab has completed level 1 and every
\* message was handled, the player is past level 1 or the game is over.
AdvancementArrives ==
    \A t \in Tab :
        LET s == tab[t].cur IN
        (/\ tab[t].run.completed /\ tab[t].status = "connected"
         /\ up[s] = <<>> /\ down[s] = <<>> /\ Seated(s))
        => seat[s].level > 1 \/ seat[s].over
==============================================================================

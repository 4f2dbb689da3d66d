------------------------------ MODULE ArcadeRoom ------------------------------
(***************************************************************************)
(* The room of the game backend (llama_game/backend.py) as one player meets *)
(* it: sockets that ask for the seat of that player, the match ticket of a  *)
(* seat, and the messages of a game. Sockets are FIFO queues in both        *)
(* directions. A socket is lost when its browser closes it or the network   *)
(* fails; the room learns it from the end of the queue, or earlier from a   *)
(* broadcast that cannot be sent. The room itself drops the socket of a     *)
(* message whose handler raises.                                            *)
(* Places, hazards and the worlds of the higher levels are what the room    *)
(* makes of them: a step may be refused, kill, or raise the level.          *)
(***************************************************************************)
EXTENDS Naturals, Sequences, FiniteSets, SequencesExt

CONSTANTS
    Socket,
    Chip,           \* the five chips of level 1
    Level,          \* the levels that are told apart, 1 among them
    MaxTicket,      \* bound on match tickets
    MaxMishaps,     \* bound on lost connections and failing handlers
    MaxFates        \* bound on what the worlds do to the player

ASSUME LevelAssumption == 1 \in Level /\ Level \subseteq 1 .. 10
ASSUME ChipAssumption == Chip # {}
ASSUME RoomBoundAssumption == {MaxTicket, MaxMishaps, MaxFates} \subseteq Nat

VARIABLES
    seat,           \* the player of a joined socket
    ticket,         \* match_tickets
    up, down,       \* messages to and from the room
    link,           \* "none", "up", "lost"
    mishaps, fates

room == <<seat, ticket>>
wires == <<up, down, link>>
bounds == <<mishaps, fates>>

Ticket == 1 .. MaxTicket
Empty == [ticket |-> 0, level |-> 0, chips |-> {},
          over |-> FALSE, test |-> FALSE]

\* LEVEL_ONE_CHIPS, and the names the browser gives the same five chips.
ServerName(c) == <<"chip", c>>
ClientName(c) == <<"neon-chip", c>>

RoomInit ==
    /\ seat = [s \in Socket |-> Empty]
    /\ ticket = [k \in Ticket |-> "none"]
    /\ up = [s \in Socket |-> <<>>] /\ down = [s \in Socket |-> <<>>]
    /\ link = [s \in Socket |-> "none"]
    /\ mishaps = 0 /\ fates = 0

Msg(kind, value) == [kind |-> kind, value |-> value]
Bye == Msg("bye", 0)
Seated(s) == seat[s] # Empty

\* A snapshot behind one that is not read yet takes its place: the tab may
\* always read the first one before the second is sent.
Deliver(queue, player) ==
    LET state == Msg("state", [level |-> player.level, over |-> player.over])
    IN IF queue # <<>> /\ Last(queue).kind = "state"
       THEN Append(Front(queue), state) ELSE Append(queue, state)

\* _send_state and broadcast: every seated socket gets a snapshot; one that
\* is lost may make send_json raise and then leaves connections on the spot.
Broadcast(seats, queues) ==
    \E dropped \in SUBSET {s \in Socket : link[s] = "lost"} :
        /\ seat' = [s \in Socket |-> IF s \in dropped THEN Empty ELSE seats[s]]
        /\ down' = [s \in Socket |->
              IF seats[s] # Empty /\ link[s] = "up"
              THEN Deliver(queues[s], seats[s])
              ELSE queues[s]]

Tell(s, kind) == IF link[s] = "up" THEN [down EXCEPT ![s] = Append(@, Msg(kind, 0))]
                 ELSE down

\* complete_match_ticket; nothing is recorded of a player under test.
Completed(players) ==
    {seat[d].ticket : d \in {p \in players : Seated(p) /\ ~seat[p].test}}

Complete(players, issued) ==
    [k \in Ticket |-> IF k \in Completed(players) THEN "completed"
                      ELSE IF k \in issued THEN "active" ELSE ticket[k]]

Unissued == {k \in Ticket : ticket[k] = "none"}
NextTicket == CHOOSE k \in Unissued : \A l \in Unissued : k <= l

\* _join: every other socket of the player is replaced.
\* (Mutant: an older socket keeps its seat.)
NoDuplicates(s) == {}
Duplicates(s) == {d \in Socket \ {s} : Seated(d)}

\* Their sockets are closed with code 4001. (Mutant: they are not.)
ToldNobody(gone) == down
Told(gone) ==
    [d \in Socket |-> IF d \in gone /\ link[d] = "up"
                      THEN Append(down[d], Msg("replaced", 0)) ELSE down[d]]

Join(s) ==
    LET gone == Duplicates(s)
        told == Told(gone)
    IN
    /\ Unissued # {}
    /\ ticket' = Complete(gone, {NextTicket})
    /\ Broadcast([d \in Socket |-> IF d = s
                    THEN [Empty EXCEPT !.ticket = NextTicket, !.level = 1]
                    ELSE IF d \in gone THEN Empty ELSE seat[d]],
                 IF link[s] = "up"
                 THEN [told EXCEPT ![s] = Append(@, Msg("welcome", 0))]
                 ELSE told)

Refuse(s) ==
    /\ down' = Tell(s, "error")
    /\ UNCHANGED room

Play(s, player) ==
    /\ Broadcast([seat EXCEPT ![s] = player], down)
    /\ UNCHANGED ticket

\* _reset keeps the chips of the game before.
Reset(s) ==
    IF ~seat[s].over THEN Refuse(s)
    ELSE /\ Unissued # {}
         /\ ticket' = Complete({s}, {NextTicket})
         /\ Broadcast([seat EXCEPT ![s] = [Empty EXCEPT !.ticket = NextTicket,
                          !.level = 1, !.chips = seat[s].chips]], down)

\* A step is taken, or refused by a stun or a hazard, which may cost the
\* last life. Without fates nothing stands in the way, and the player is in
\* the room where the tab shows it.
Position(s) ==
    \/ Play(s, seat[s])
    \/ /\ seat[s].level <= 6 /\ MaxFates > 0
       /\ Play(s, [seat[s] EXCEPT !.over = TRUE])

InReach == IF MaxFates = 0 THEN {TRUE} ELSE BOOLEAN

TakeChip(s, name) ==
    LET named == {c \in Chip : ServerName(c) = name} IN
    \E near \in InReach :
        Play(s, IF seat[s].over \/ seat[s].level # 1 \/ ~near THEN seat[s]
                ELSE [seat[s] EXCEPT !.chips = @ \cup named])

FinishLevelOne(s) ==
    \E near \in InReach :
        Play(s, IF near /\ ~seat[s].over /\ seat[s].level = 1
                   /\ seat[s].chips = Chip
                THEN [seat[s] EXCEPT !.level = 2] ELSE seat[s])

\* The score of an orb may raise the level.
Collect(s) ==
    IF seat[s].over THEN UNCHANGED <<room, down>>
    ELSE \E n \in {m \in Level : m >= seat[s].level} :
             Play(s, [seat[s] EXCEPT !.level = n])

\* The inputs of levels 7 to 10; one for another level is dropped.
Input(s, level) ==
    IF seat[s].over \/ seat[s].level # level THEN UNCHANGED <<room, down>>
    ELSE Play(s, seat[s])

\* The grant of the test portal may be refused or used up.
ConfigureTest(s, level) ==
    \/ Refuse(s)
    \/ Play(s, [Empty EXCEPT !.ticket = seat[s].ticket, !.test = TRUE,
                             !.level = level])

Disconnect(s, queues) ==
    IF Seated(s)
    THEN /\ ticket' = Complete({s}, {})
         /\ Broadcast([seat EXCEPT ![s] = Empty], queues)
    ELSE down' = queues /\ UNCHANGED room

Handle(s, m) ==
    CASE m.kind = "bye" -> Disconnect(s, down)
      [] m.kind = "join" /\ Seated(s) -> UNCHANGED <<room, down>>
      [] m.kind = "join" /\ ~Seated(s) -> Join(s) \/ Refuse(s)
      [] m.kind \notin {"bye", "join"} /\ ~Seated(s) -> Refuse(s)
      [] m.kind = "reset" /\ Seated(s) -> Reset(s)
      [] m.kind = "position" /\ Seated(s) -> Position(s)
      [] m.kind = "level_one_chip" /\ Seated(s) -> TakeChip(s, m.value)
      [] m.kind = "level_one_complete" /\ Seated(s) -> FinishLevelOne(s)
      [] m.kind = "collect" /\ Seated(s) -> Collect(s)
      [] m.kind = "input" /\ Seated(s) -> Input(s, m.value)
      [] m.kind = "admin_configure_test" /\ Seated(s) ->
            ConfigureTest(s, m.value)

\* websocket_endpoint: the messages of a socket one after the other.
Serve(s) ==
    /\ up[s] # <<>>
    /\ Handle(s, Head(up[s]))
    /\ up' = [up EXCEPT ![s] = Tail(@)]
    /\ UNCHANGED <<link, bounds>>

\* The handler of a message raises before it has changed anything: the message
\* is no JSON, or the storage fails. The endpoint takes the socket out of the
\* room and returns without a notice, so that the server ends the connection;
\* what else was on its way to the room is not read.
Fails(s) ==
    /\ up[s] # <<>> /\ Head(up[s]) # Bye /\ mishaps < MaxMishaps
    /\ mishaps' = mishaps + 1
    /\ link' = [link EXCEPT ![s] = "lost"]
    /\ up' = [up EXCEPT ![s] = <<>>]
    /\ Disconnect(s, Tell(s, "lost"))
    /\ UNCHANGED fates

\* The worlds of levels 7 to 10 advance: the player dies or gets on.
Fate(s) ==
    /\ Seated(s) /\ ~seat[s].over /\ seat[s].level >= 7 /\ fates < MaxFates
    /\ fates' = fates + 1
    /\ \/ \E n \in {m \in Level : m > seat[s].level} :
             Play(s, [seat[s] EXCEPT !.level = n])
       \/ Play(s, [seat[s] EXCEPT !.over = TRUE])
    /\ UNCHANGED <<up, link, mishaps>>

\* The connection breaks. What was on its way to the room may be lost.
Break(s) ==
    /\ link[s] = "up" /\ mishaps < MaxMishaps
    /\ mishaps' = mishaps + 1
    /\ link' = [link EXCEPT ![s] = "lost"]
    /\ \E kept \in {up[s], <<>>} : up' = [up EXCEPT ![s] = Append(kept, Bye)]
    /\ down' = [down EXCEPT ![s] = Append(@, Msg("lost", 0))]
    /\ UNCHANGED <<room, fates>>

RoomStep(s) == Serve(s) \/ Fails(s) \/ Fate(s) \/ Break(s)

RoomTypeOK ==
    /\ seat \in [Socket -> [ticket : 0 .. MaxTicket, level : Level \cup {0},
                            chips : SUBSET Chip, over : BOOLEAN, test : BOOLEAN]]
    /\ ticket \in [Ticket -> {"none", "active", "completed"}]
    /\ link \in [Socket -> {"none", "up", "lost"}]
    /\ mishaps \in 0 .. MaxMishaps /\ fates \in 0 .. MaxFates

\* However its tabs join, reset, break and replace each other, the player has
\* one seat, and a seat's ticket is active and no other seat's (_join).
OneSeat ==
    /\ Cardinality({s \in Socket : Seated(s)}) <= 1
    /\ \A s \in Socket : Seated(s) => ticket[seat[s].ticket] = "active"

==============================================================================

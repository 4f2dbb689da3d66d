---------------------------- MODULE ArcadeProofs ----------------------------
(***************************************************************************)
(* Machine-checked facts about the retro arcade and the room of the game     *)
(* backend, for every set of tabs and sockets, all chips and levels and     *)
(* every bound:                                                             *)
(*   - tabs, sockets and the room are well typed;                           *)
(*   - the player has one seat, and its ticket is active;                   *)
(*   - a tab that says it is connected holds the seat, or the news that it  *)
(*     lost it are on their way;                                            *)
(*   - the room never books a chip of level 1, so that nobody finishes      *)
(*     level 1 by its chips (the run arcade_level_one shows a tab that      *)
(*     thinks it did).                                                      *)
(***************************************************************************)
EXTENDS ArcadeEngine, FiniteSetTheorems, SequenceTheorems, TLAPS

(***************************************************************************)
(* Messages.                                                                *)
(***************************************************************************)
UpMsg ==
    [kind : {"bye", "join", "reset", "position", "level_one_complete", "collect"},
     value : {0}]
    \cup [kind : {"level_one_chip"}, value : {ClientName(c) : c \in Chip}]
    \cup [kind : {"admin_configure_test"}, value : TestLevel]
    \cup [kind : {"input"}, value : Level]

DownMsg ==
    [kind : {"welcome", "error", "replaced", "lost"}, value : {0}]
    \cup [kind : {"state"}, value : [level : Level \cup {0}, over : BOOLEAN]]

Holds(queue, kind) == \E i \in 1 .. Len(queue) : queue[i].kind = kind

Ending(m) == m.kind \in {"replaced", "lost"}
Ends(queue) == \E i \in 1 .. Len(queue) : Ending(queue[i])

(***************************************************************************)
(* The inductive invariant.                                                 *)
(***************************************************************************)
Wires ==
    /\ up \in [Socket -> Seq(UpMsg)]
    /\ down \in [Socket -> Seq(DownMsg)]

\* One seat, with an active ticket. No chip of level 1 is ever booked: the
\* tab and the room name the chips differently.
Seats ==
    /\ \A s, d \in Socket : Seated(s) /\ Seated(d) => s = d
    /\ \A s \in Socket : Seated(s) =>
          /\ seat[s].ticket \in Ticket
          /\ ticket[seat[s].ticket] = "active"
    /\ \A s \in Socket : seat[s].chips = {}

\* A socket speaks from its opening on, and its join comes first; the room has
\* nothing to tell it before. What it says last is that it is gone.
Joins ==
    /\ \A s \in Socket : ready[s] \in {"none", "connecting"} =>
          up[s] = <<>> /\ down[s] = <<>> /\ link[s] = "none" /\ ~Seated(s)
    /\ \A s \in Socket : \A i \in 1 .. Len(up[s]) : up[s][i].kind = "join" =>
          /\ i = 1 /\ ~Seated(s)
          /\ link[s] = "up" => down[s] = <<>>
    /\ \A s \in Socket : Holds(up[s], "bye") => link[s] = "lost"

\* The news of a lost connection are the last of an open socket.
Breaks ==
    \A s \in Socket : ready[s] = "open" /\ link[s] # "up" =>
        down[s] # <<>> /\ down[s][Len(down[s])].kind = "lost"

\* A welcome is for a seat, or the news that it was lost are behind it.
Welcomes ==
    \A s \in Socket : ready[s] = "open" =>
        \A i \in 1 .. Len(down[s]) : down[s][i].kind = "welcome" =>
            \/ Seated(s)
            \/ \E j \in 1 .. Len(down[s]) : i < j /\ Ending(down[s][j])

\* A socket belongs to one tab.
Tabs ==
    /\ \A t, u \in Tab : tab[t].cur = tab[u].cur => t = u \/ tab[t].cur = NoSocket
    /\ \A t \in Tab : tab[t].cur # NoSocket => ready[tab[t].cur] # "none"
    /\ \A t \in Tab : tab[t].status = "connected" =>
          /\ tab[t].cur # NoSocket /\ ready[tab[t].cur] = "open"
          /\ Seated(tab[t].cur) \/ Ends(down[tab[t].cur])

ArcadeInv == TypeOK /\ Wires /\ Seats /\ Joins /\ Breaks /\ Welcomes /\ Tabs

Player == [ticket : 0 .. MaxTicket, level : Level \cup {0},
           chips : SUBSET Chip, over : BOOLEAN, test : BOOLEAN]

\* A queue that keeps the kinds of its messages and may have got new ones.
Grown(q, w) ==
    /\ Len(q) <= Len(w)
    /\ \A i \in 1 .. Len(q) : w[i].kind = q[i].kind

-----------------------------------------------------------------------------
\* What a message is made of.
LEMMA DownMsgFact ==
    /\ \A m \in DownMsg : m.kind \in {"welcome", "error", "replaced", "lost", "state"}
    /\ \A k \in {"welcome", "error", "replaced", "lost"} : Msg(k, 0) \in DownMsg
    /\ \A k, v : Msg(k, v).kind = k
    /\ \A m \in DownMsg : m.kind = "state" =>
          m.value \in [level : Level \cup {0}, over : BOOLEAN]
BY DEF DownMsg, Msg

\* A queue with one message more.
LEMMA AppendFact ==
    ASSUME NEW S, NEW q \in Seq(S), NEW m \in S
    PROVE  /\ Append(q, m) \in Seq(S) /\ Grown(q, Append(q, m))
           /\ Len(Append(q, m)) = Len(q) + 1 /\ Append(q, m)[Len(q) + 1] = m
           /\ \A i \in 1 .. Len(q) : Append(q, m)[i] = q[i]
           /\ \A i \in 1 .. Len(Append(q, m)) :
                 Append(q, m)[i] = m \/ (i \in 1 .. Len(q) /\ Append(q, m)[i] = q[i])
<1>1. Len(q) \in Nat
  BY LenProperties
<1>2. /\ Append(q, m) \in Seq(S) /\ Len(Append(q, m)) = Len(q) + 1
      /\ \A i \in 1 .. Len(q) : Append(q, m)[i] = q[i]
      /\ Append(q, m)[Len(q) + 1] = m
  BY AppendProperties
<1>3. \A i \in 1 .. Len(q) + 1 : i = Len(q) + 1 \/ i \in 1 .. Len(q)
  BY <1>1
<1> QED
  BY <1>1, <1>2, <1>3 DEF Grown

\* A snapshot takes the place of one before it or comes last.
LEMMA DeliverFact ==
    ASSUME NEW q \in Seq(DownMsg), NEW player \in Player
    PROVE  /\ Deliver(q, player) \in Seq(DownMsg) /\ Grown(q, Deliver(q, player))
           /\ \A i \in Len(q) + 1 .. Len(Deliver(q, player)) :
                 Deliver(q, player)[i].kind = "state"
<1> DEFINE state == Msg("state", [level |-> player.level, over |-> player.over])
<1>1. state \in DownMsg /\ state.kind = "state"
  BY DEF DownMsg, Msg, Player
<1>2. Len(q) \in Nat
  BY LenProperties
<1> HIDE DEF state
<1>3. CASE q # <<>> /\ Last(q).kind = "state"
  <2>1. Deliver(q, player) = Append(Front(q), state)
    BY <1>3 DEF Deliver, state
  <2>2. Len(q) > 0
    BY <1>3, EmptySeq
  <2>3. \A i \in 1 .. Len(q) - 1 : q[i] \in DownMsg
    <3>1. \A i \in 1 .. Len(q) - 1 : i \in 1 .. Len(q)
      BY <1>2
    <3> QED
      BY <3>1, ElementOfSeq
  <2>4. /\ Front(q) \in Seq(DownMsg) /\ Len(Front(q)) = Len(q) - 1
        /\ \A i \in 1 .. Len(q) - 1 : Front(q)[i] = q[i]
    <3>1. /\ SubSeq(q, 1, Len(q) - 1) \in Seq(DownMsg)
          /\ Len(SubSeq(q, 1, Len(q) - 1)) =
                IF 1 <= Len(q) - 1 THEN (Len(q) - 1) - 1 + 1 ELSE 0
          /\ \A i \in 1 .. (Len(q) - 1) - 1 + 1 :
                SubSeq(q, 1, Len(q) - 1)[i] = q[1 + i - 1]
      <4>1. 1 \in Int /\ Len(q) - 1 \in Int
        BY <1>2
      <4> QED
        BY <2>3, <4>1, SubSeqProperties
    <3>2. Len(SubSeq(q, 1, Len(q) - 1)) = Len(q) - 1
      <4>1. PICK n \in Nat : n = Len(q)
        BY <1>2
      <4>2. n > 0 /\ Len(SubSeq(q, 1, n - 1)) =
                         IF 1 <= n - 1 THEN (n - 1) - 1 + 1 ELSE 0
        BY <2>2, <3>1, <4>1
      <4>3. n > 0 => (IF 1 <= n - 1 THEN (n - 1) - 1 + 1 ELSE 0) = n - 1
        OBVIOUS
      <4> QED
        BY <4>1, <4>2, <4>3
    <3>3. \A i \in 1 .. Len(q) - 1 : SubSeq(q, 1, Len(q) - 1)[i] = q[i]
      <4>1. (Len(q) - 1) - 1 + 1 = Len(q) - 1
        BY <1>2
      <4>2. \A i \in 1 .. Len(q) - 1 : 1 + i - 1 = i
        BY <1>2
      <4> QED
        BY <3>1, <4>1, <4>2
    <3> QED
      BY <3>1, <3>2, <3>3 DEF Front
  <2>5. /\ Append(Front(q), state) \in Seq(DownMsg)
        /\ Len(Append(Front(q), state)) = Len(q)
        /\ \A i \in 1 .. Len(q) - 1 : Append(Front(q), state)[i] = q[i]
        /\ Append(Front(q), state)[Len(q)] = state
    BY <1>1, <1>2, <2>4, AppendFact
  <2>6. q[Len(q)].kind = "state"
    BY <1>3 DEF Last
  <2>7. \A i \in 1 .. Len(q) : i \in 1 .. Len(q) - 1 \/ i = Len(q)
    BY <1>2
  <2> QED
    BY <1>1, <1>2, <2>1, <2>5, <2>6, <2>7 DEF Grown
<1>4. CASE ~(q # <<>> /\ Last(q).kind = "state")
  <2>1. Deliver(q, player) = Append(q, state)
    BY <1>4 DEF Deliver, state
  <2>2. /\ Append(q, state) \in Seq(DownMsg) /\ Grown(q, Append(q, state))
        /\ Len(Append(q, state)) = Len(q) + 1
        /\ Append(q, state)[Len(q) + 1] = state
    BY <1>1, AppendFact
  <2> QED
    BY <1>1, <1>2, <2>1, <2>2
<1> QED
  BY <1>3, <1>4

\* Who keeps the seat, and what is sent, in a broadcast.
LEMMA BroadcastFact ==
    ASSUME NEW seats \in [Socket -> Player], NEW queues \in [Socket -> Seq(DownMsg)],
           Empty \in Player, Broadcast(seats, queues)
    PROVE  /\ seat' \in [Socket -> Player] /\ down' \in [Socket -> Seq(DownMsg)]
           /\ \A d \in Socket : \/ seat'[d] = seats[d]
                                \/ seat'[d] = Empty /\ link[d] = "lost"
           /\ \A d \in Socket :
                 \/ down'[d] = queues[d]
                 \/ /\ seats[d] # Empty /\ link[d] = "up"
                    /\ Grown(queues[d], down'[d])
                    /\ \A i \in Len(queues[d]) + 1 .. Len(down'[d]) :
                          down'[d][i].kind = "state"
<1>1. PICK dropped \in SUBSET {s \in Socket : link[s] = "lost"} :
        /\ seat' = [s \in Socket |-> IF s \in dropped THEN Empty ELSE seats[s]]
        /\ down' = [s \in Socket |->
              IF seats[s] # Empty /\ link[s] = "up"
              THEN Deliver(queues[s], seats[s])
              ELSE queues[s]]
  BY DEF Broadcast
<1>2. \A d \in Socket : queues[d] \in Seq(DownMsg) /\ seats[d] \in Player
  OBVIOUS
<1>3. \A d \in Socket : Deliver(queues[d], seats[d]) \in Seq(DownMsg)
  BY <1>2, DeliverFact
<1>4. seat' \in [Socket -> Player] /\ down' \in [Socket -> Seq(DownMsg)]
  BY <1>1, <1>3
<1>5. \A d \in Socket : \/ seat'[d] = seats[d]
                        \/ seat'[d] = Empty /\ link[d] = "lost"
  BY <1>1
<1>6. \A d \in Socket :
        \/ down'[d] = queues[d]
        \/ /\ seats[d] # Empty /\ link[d] = "up"
           /\ down'[d] = Deliver(queues[d], seats[d])
  BY <1>1
<1>7. \A d \in Socket :
        /\ Grown(queues[d], Deliver(queues[d], seats[d]))
        /\ \A i \in Len(queues[d]) + 1 .. Len(Deliver(queues[d], seats[d])) :
              Deliver(queues[d], seats[d])[i].kind = "state"
  BY <1>2, DeliverFact
<1>8. ASSUME NEW d \in Socket, down'[d] # queues[d]
      PROVE  /\ seats[d] # Empty /\ link[d] = "up"
             /\ Grown(queues[d], down'[d])
             /\ \A i \in Len(queues[d]) + 1 .. Len(down'[d]) :
                   down'[d][i].kind = "state"
  <2>1. /\ seats[d] # Empty /\ link[d] = "up"
        /\ down'[d] = Deliver(queues[d], seats[d])
    BY <1>6, <1>8
  <2> QED
    BY <2>1, <1>7
<1> QED
  BY <1>4, <1>5, <1>8

\* The next match ticket is one that was not issued.
LEMMA TicketFact ==
    ASSUME TypeOK, Unissued # {}
    PROVE  NextTicket \in Ticket /\ ticket[NextTicket] = "none"
<1>1. Unissued \subseteq Nat
  BY RoomBoundAssumption DEF Unissued, Ticket
<1>2. PICK k \in Unissued : \A l \in Unissued : ~ (<<l, k>> \in OpToRel(<, Nat))
  <2> HIDE DEF Unissued
  <2> QED
    BY <1>1, NatLessThanWellFounded, WFMin
<1>3. \A l \in Unissued : k <= l
  <2> SUFFICES ASSUME NEW l \in Unissued PROVE k <= l
    OBVIOUS
  <2>1. k \in Nat /\ l \in Nat
    BY <1>1
  <2>2. ~(l < k)
    BY <1>2, <2>1 DEF OpToRel
  <2> QED
    BY <2>1, <2>2
<1>4. NextTicket \in Unissued
  BY <1>3 DEF NextTicket
<1> QED
  BY <1>4 DEF Unissued

-----------------------------------------------------------------------------
(***************************************************************************)
(* The room.                                                                *)
(***************************************************************************)
\* What a step of the room does to seats and queues: it tells only sockets
\* whose link is up, and who loses the seat is gone or told so.
Moved(s) ==
    /\ seat' \in [Socket -> Player]
    /\ ticket' \in [Ticket -> {"none", "active", "completed"}]
    /\ down' \in [Socket -> Seq(DownMsg)]
    /\ \A d \in Socket : \/ down'[d] = down[d]
                         \/ link[d] = "up" /\ Grown(down[d], down'[d])
    /\ \A d \in Socket : seat[d] # Empty =>
          \/ seat'[d] # Empty
          \/ link[d] # "up"
          \/ /\ Len(down'[d]) = Len(down[d]) + 1
             /\ down'[d][Len(down[d]) + 1].kind = "replaced"
    /\ \A d \in Socket : \A i \in Len(down[d]) + 1 .. Len(down'[d]) :
          down'[d][i].kind = "welcome" => seat'[d] # Empty
    /\ \A d \in Socket : seat[d] = Empty /\ d # s =>
          seat'[d] = Empty /\ down'[d] = down[d]

\* An empty seat is a player without chips and without a ticket.
LEMMA EmptyFact == Empty \in Player /\ Empty.chips = {} /\ Empty.ticket = 0
BY RoomBoundAssumption DEF Empty, Player

\* A step that leaves seats and queues alone.
LEMMA StillFact ==
    ASSUME TypeOK, Wires, Seats, NEW s \in Socket, UNCHANGED <<room, down>>
    PROVE  Moved(s) /\ Seats'
<1>1. seat \in [Socket -> Player]
  BY DEF TypeOK, RoomTypeOK, Player
<1>2. \A d \in Socket : Len(down[d]) \in Nat
  BY LenProperties DEF Wires
<1>3. \A d \in Socket : \A i \in Len(down[d]) + 1 .. Len(down[d]) : FALSE
  BY <1>2
<1>4. seat' = seat /\ ticket' = ticket /\ down' = down
  BY DEF room
<1>5. Seats'
  BY <1>4 DEF Seats, Seated
<1> QED
  BY <1>1, <1>3, <1>4, <1>5 DEF Moved, TypeOK, RoomTypeOK, Wires

\* A message that is refused.
LEMMA RefuseFact ==
    ASSUME TypeOK, Wires, Seats, NEW s \in Socket, Refuse(s)
    PROVE  Moved(s) /\ Seats'
<1>1. seat \in [Socket -> Player]
  BY DEF TypeOK, RoomTypeOK, Player
<1>2. \A d \in Socket : down[d] \in Seq(DownMsg) /\ Len(down[d]) \in Nat
  BY LenProperties DEF Wires
<1>3. /\ seat' = seat /\ ticket' = ticket
      /\ down' = IF link[s] = "up" THEN [down EXCEPT ![s] = Append(@, Msg("error", 0))]
                 ELSE down
  BY DEF Refuse, room, Tell
<1>4. Msg("error", 0) \in DownMsg /\ Msg("error", 0).kind = "error"
  BY DownMsgFact
<1>5. /\ Append(down[s], Msg("error", 0)) \in Seq(DownMsg)
      /\ Grown(down[s], Append(down[s], Msg("error", 0)))
      /\ Len(Append(down[s], Msg("error", 0))) = Len(down[s]) + 1
      /\ Append(down[s], Msg("error", 0))[Len(down[s]) + 1] = Msg("error", 0)
  BY <1>2, <1>4, AppendFact
<1>6. Seats'
  BY <1>3 DEF Seats, Seated
<1>7. down' \in [Socket -> Seq(DownMsg)]
  BY <1>3, <1>5 DEF Wires
<1>8. ASSUME NEW d \in Socket
      PROVE  /\ \/ down'[d] = down[d]
                \/ link[d] = "up" /\ Grown(down[d], down'[d])
             /\ \A i \in Len(down[d]) + 1 .. Len(down'[d]) :
                   down'[d][i].kind # "welcome"
             /\ d # s => down'[d] = down[d]
  <2>1. CASE down'[d] = down[d]
    BY <2>1, <1>2
  <2>2. CASE down'[d] # down[d]
    <3>1. d = s /\ link[s] = "up" /\ down'[d] = Append(down[s], Msg("error", 0))
      BY <2>2, <1>3 DEF Wires
    <3>2. \A i \in Len(down[s]) + 1 .. Len(down[s]) + 1 : i = Len(down[s]) + 1
      BY <1>2
    <3> QED
      BY <3>1, <3>2, <1>4, <1>5
  <2> QED
    BY <2>1, <2>2
<1> QED
  BY <1>1, <1>3, <1>6, <1>7, <1>8 DEF Moved, TypeOK, RoomTypeOK

\* The player of a seat is played on, restarted or put off: nobody else is
\* seated, so nobody else is concerned.
LEMMA PlayFact ==
    ASSUME TypeOK, Wires, Seats, NEW s \in Socket, Seated(s),
           NEW player \in Player, player.chips = {},
           Broadcast([seat EXCEPT ![s] = player], down),
           ticket' \in [Ticket -> {"none", "active", "completed"}],
           player # Empty =>
               player.ticket \in Ticket /\ ticket'[player.ticket] = "active",
           player = Empty => link[s] # "up"
    PROVE  Moved(s) /\ Seats'
<1> DEFINE seats == [seat EXCEPT ![s] = player]
<1>1. seat \in [Socket -> Player]
  BY DEF TypeOK, RoomTypeOK, Player
<1>2. \A d \in Socket : down[d] \in Seq(DownMsg) /\ Len(down[d]) \in Nat
  BY LenProperties DEF Wires
<1>3. \A d \in Socket : d # s => seat[d] = Empty
  BY DEF Seats, Seated
<1>4. /\ seats \in [Socket -> Player] /\ seats[s] = player
      /\ \A d \in Socket : d # s => seats[d] = Empty
  BY <1>1, <1>3
<1>5. down \in [Socket -> Seq(DownMsg)] /\ Broadcast(seats, down)
  BY DEF Wires
<1> HIDE DEF seats
<1>6. /\ seat' \in [Socket -> Player] /\ down' \in [Socket -> Seq(DownMsg)]
      /\ \A d \in Socket : \/ seat'[d] = seats[d]
                           \/ seat'[d] = Empty /\ link[d] = "lost"
      /\ \A d \in Socket :
            \/ down'[d] = down[d]
            \/ /\ seats[d] # Empty /\ link[d] = "up"
               /\ Grown(down[d], down'[d])
               /\ \A i \in Len(down[d]) + 1 .. Len(down'[d]) :
                     down'[d][i].kind = "state"
  BY <1>4, <1>5, EmptyFact, BroadcastFact
<1>7. \A d \in Socket : \A i \in Len(down[d]) + 1 .. Len(down'[d]) :
         down'[d][i].kind # "welcome"
  <2> SUFFICES ASSUME NEW d \in Socket,
                      NEW i \in Len(down[d]) + 1 .. Len(down'[d])
               PROVE  down'[d][i].kind # "welcome"
    OBVIOUS
  <2>1. down'[d] # down[d]
    BY <1>2
  <2>2. down'[d][i].kind = "state"
    BY <2>1, <1>6
  <2> QED
    BY <2>2
<1>8. Seats'
  <2>1. \A d \in Socket : seat'[d] # Empty => d = s /\ seat'[d] = player
    BY <1>4, <1>6
  <2>2. \A d \in Socket : seat'[d].chips = {}
    BY <2>1, EmptyFact
  <2>3. \A d \in Socket : seat'[d] # Empty =>
           seat'[d].ticket \in Ticket /\ ticket'[seat'[d].ticket] = "active"
    BY <2>1
  <2> QED
    BY <2>1, <2>2, <2>3 DEF Seats, Seated
<1>9. \A d \in Socket : seat[d] # Empty => seat'[d] # Empty \/ link[d] # "up"
  BY <1>3, <1>4, <1>6
<1>10. \A d \in Socket : seat[d] = Empty /\ d # s => seat'[d] = Empty /\ down'[d] = down[d]
  BY <1>4, <1>6
<1> QED
  BY <1>6, <1>7, <1>8, <1>9, <1>10 DEF Moved

\* A move of the player in the game it plays.
LEMMA PlayedFact ==
    ASSUME TypeOK, Wires, Seats, NEW s \in Socket, Seated(s),
           NEW player \in Player, player.chips = {},
           player.ticket = seat[s].ticket, Play(s, player)
    PROVE  Moved(s) /\ Seats'
<1>1. /\ Broadcast([seat EXCEPT ![s] = player], down) /\ ticket' = ticket
  BY DEF Play
<1>2. player.ticket \in Ticket /\ ticket[player.ticket] = "active"
  BY DEF Seats
<1>3. player # Empty
  BY <1>2, EmptyFact DEF Ticket
<1>4. ticket' \in [Ticket -> {"none", "active", "completed"}]
  BY <1>1 DEF TypeOK, RoomTypeOK
<1> QED
  BY <1>1, <1>2, <1>3, <1>4, PlayFact

\* Tickets are completed only with the seats they are of.
LEMMA CompleteFact ==
    ASSUME TypeOK, NEW players, NEW issued
    PROVE  /\ Complete(players, issued) \in [Ticket -> {"none", "active", "completed"}]
           /\ \A k \in Ticket : k \in issued /\ k \notin Completed(players) =>
                 Complete(players, issued)[k] = "active"
BY DEF Complete, TypeOK, RoomTypeOK

\* A ticket that is issued now is not one of those completed with it.
LEMMA IssuedFact ==
    ASSUME TypeOK, Seats, Unissued # {}, NEW players \in SUBSET Socket
    PROVE  /\ NextTicket \in Ticket
           /\ Complete(players, {NextTicket}) \in
                 [Ticket -> {"none", "active", "completed"}]
           /\ Complete(players, {NextTicket})[NextTicket] = "active"
<1>1. NextTicket \in Ticket /\ ticket[NextTicket] = "none"
  BY TicketFact
<1>2. \A k \in Completed(players) : ticket[k] = "active"
  BY DEF Completed, Seats
<1> QED
  BY <1>1, <1>2, CompleteFact

\* A player who starts on a ticket.
LEMMA NewPlayerFact ==
    ASSUME NEW k \in Ticket, NEW player, NEW chips, chips = {},
           \/ player = [Empty EXCEPT !.ticket = k, !.level = 1]
           \/ player = [Empty EXCEPT !.ticket = k, !.level = 1, !.chips = chips]
    PROVE  /\ player \in Player /\ player # Empty
           /\ player.chips = {} /\ player.ticket = k
<1>1. k \in 0 .. MaxTicket /\ k # 0
  BY RoomBoundAssumption DEF Ticket
<1>2. player \in Player
  BY <1>1, EmptyFact, LevelAssumption DEF Player
<1>3. player.chips = {} /\ player.ticket = k
  BY EmptyFact DEF Empty
<1>4. player # Empty
  BY <1>1, <1>3, EmptyFact
<1> QED
  BY <1>2, <1>3, <1>4

\* The player starts a new game on its seat (_reset).
LEMMA ResetFact ==
    ASSUME TypeOK, Wires, Seats, NEW s \in Socket, Seated(s), Reset(s)
    PROVE  Moved(s) /\ Seats'
<1>1. CASE ~seat[s].over
  BY <1>1, RefuseFact DEF Reset
<1>2. CASE seat[s].over
  <2> DEFINE player == [Empty EXCEPT !.ticket = NextTicket, !.level = 1,
                                     !.chips = seat[s].chips]
  <2>1. /\ Unissued # {} /\ ticket' = Complete({s}, {NextTicket})
        /\ Broadcast([seat EXCEPT ![s] = player], down)
    BY <1>2 DEF Reset
  <2>2. /\ NextTicket \in Ticket
        /\ ticket' \in [Ticket -> {"none", "active", "completed"}]
        /\ ticket'[NextTicket] = "active"
    BY <2>1, IssuedFact
  <2>3. player \in Player /\ player.chips = {} /\ player # Empty
        /\ player.ticket = NextTicket
    <3>1. seat[s].chips = {}
      BY DEF Seats
    <3> QED
      BY <2>2, <3>1, NewPlayerFact
  <2> HIDE DEF player
  <2> QED
    BY <2>1, <2>2, <2>3, PlayFact
<1> QED
  BY <1>1, <1>2

\* The end of a connection.
LEMMA DisconnectFact ==
    ASSUME TypeOK, Wires, Seats, NEW s \in Socket, Disconnect(s, down), link[s] # "up"
    PROVE  Moved(s) /\ Seats'
<1>1. CASE ~Seated(s)
  BY <1>1, StillFact DEF Disconnect
<1>2. CASE Seated(s)
  <2>1. ticket' = Complete({s}, {}) /\ Broadcast([seat EXCEPT ![s] = Empty], down)
    BY <1>2 DEF Disconnect
  <2>2. ticket' \in [Ticket -> {"none", "active", "completed"}]
    BY <2>1, CompleteFact
  <2> QED
    BY <1>2, <2>1, <2>2, EmptyFact, PlayFact
<1> QED
  BY <1>1, <1>2

\* A join takes the seat over from the socket that had it, which is told so.
LEMMA JoinFact ==
    ASSUME TypeOK, Wires, Seats, NEW s \in Socket, ~Seated(s), Join(s)
    PROVE  Moved(s) /\ Seats'
<1> DEFINE new == [Empty EXCEPT !.ticket = NextTicket, !.level = 1]
           gone == Duplicates(s)
           told == Told(gone)
           seats == [d \in Socket |-> IF d = s THEN new
                        ELSE IF d \in gone THEN Empty ELSE seat[d]]
           queues == IF link[s] = "up"
                     THEN [told EXCEPT ![s] = Append(@, Msg("welcome", 0))]
                     ELSE told
<1>1. /\ Unissued # {} /\ ticket' = Complete(gone, {NextTicket})
      /\ Broadcast(seats, queues)
  BY DEF Join
<1>2. /\ NextTicket \in Ticket /\ ticket' \in [Ticket -> {"none", "active", "completed"}]
      /\ ticket'[NextTicket] = "active"
  BY <1>1, IssuedFact DEF Duplicates
<1>3. new \in Player /\ new.chips = {} /\ new.ticket = NextTicket /\ new # Empty
  BY <1>2, NewPlayerFact
<1>4. \A d \in Socket : d \in gone <=> d # s /\ seat[d] # Empty
  BY DEF Duplicates, Seated
<1> HIDE DEF new
<1>5. seats \in [Socket -> Player] /\ seats[s] = new
      /\ \A d \in Socket : d # s => seats[d] = Empty
  BY <1>3, <1>4, EmptyFact DEF TypeOK, RoomTypeOK, Player
<1>6. \A d \in Socket : down[d] \in Seq(DownMsg) /\ Len(down[d]) \in Nat
  BY LenProperties DEF Wires
<1>7. /\ Msg("welcome", 0) \in DownMsg /\ Msg("replaced", 0) \in DownMsg
      /\ Msg("replaced", 0).kind = "replaced" /\ Msg("welcome", 0).kind = "welcome"
  BY DownMsgFact
<1>8. \A d \in Socket, k \in {"welcome", "replaced"} :
         /\ Append(down[d], Msg(k, 0)) \in Seq(DownMsg)
         /\ Grown(down[d], Append(down[d], Msg(k, 0)))
         /\ Len(Append(down[d], Msg(k, 0))) = Len(down[d]) + 1
         /\ Append(down[d], Msg(k, 0))[Len(down[d]) + 1] = Msg(k, 0)
  BY <1>6, <1>7, AppendFact
<1>9. /\ \A d \in Socket : d # s =>
            queues[d] = IF d \in gone /\ link[d] = "up"
                        THEN Append(down[d], Msg("replaced", 0)) ELSE down[d]
      /\ queues[s] = IF link[s] = "up" THEN Append(down[s], Msg("welcome", 0))
                     ELSE down[s]
      /\ queues \in [Socket -> Seq(DownMsg)]
  <2>1. told \in [Socket -> Seq(DownMsg)]
        /\ \A d \in Socket : told[d] = IF d \in gone /\ link[d] = "up"
                        THEN Append(down[d], Msg("replaced", 0)) ELSE down[d]
    BY <1>6, <1>8 DEF Told
  <2>2. told[s] = down[s]
    BY <2>1, <1>4
  <2> HIDE DEF told, gone
  <2> QED
    BY <2>1, <2>2, <1>8
<1> HIDE DEF gone, told, seats, queues
<1>10. /\ seat' \in [Socket -> Player] /\ down' \in [Socket -> Seq(DownMsg)]
       /\ \A d \in Socket : \/ seat'[d] = seats[d]
                            \/ seat'[d] = Empty /\ link[d] = "lost"
       /\ \A d \in Socket :
             \/ down'[d] = queues[d]
             \/ /\ seats[d] # Empty /\ link[d] = "up"
                /\ Grown(queues[d], down'[d])
                /\ \A i \in Len(queues[d]) + 1 .. Len(down'[d]) :
                      down'[d][i].kind = "state"
  BY <1>1, <1>5, <1>9, EmptyFact, BroadcastFact
<1>11. \A d \in Socket : d # s => seat'[d] = Empty /\ down'[d] = queues[d]
  BY <1>5, <1>10
<1>12. Seats'
  <2>1. \A d \in Socket : seat'[d] # Empty => d = s /\ seat'[d] = new
    BY <1>5, <1>10, <1>11
  <2>2. \A d \in Socket : seat'[d].chips = {}
    BY <2>1, <1>3, EmptyFact
  <2>3. \A d \in Socket : seat'[d] # Empty =>
           seat'[d].ticket \in Ticket /\ ticket'[seat'[d].ticket] = "active"
    BY <2>1, <1>2, <1>3
  <2> QED
    BY <2>1, <2>2, <2>3 DEF Seats, Seated
<1>13. \A d \in Socket : \/ down'[d] = down[d]
                         \/ link[d] = "up" /\ Grown(down[d], down'[d])
  <2> SUFFICES ASSUME NEW d \in Socket, down'[d] # down[d]
               PROVE  link[d] = "up" /\ Grown(down[d], down'[d])
    OBVIOUS
  <2>1. CASE d # s
    BY <2>1, <1>8, <1>9, <1>11
  <2>2. CASE d = s
    <3>1. link[s] = "up" /\ queues[s] = Append(down[s], Msg("welcome", 0))
      BY <2>2, <1>9, <1>10
    <3>2. Grown(down[s], queues[s])
      BY <3>1, <1>8
    <3>3. Grown(queues[s], down'[s]) \/ down'[s] = queues[s]
      BY <1>10
    <3>4. Len(queues[s]) \in Nat /\ Len(down'[s]) \in Nat
      BY <1>9, <1>10, LenProperties
    <3>5. Grown(down[s], down'[s])
      BY <3>2, <3>3, <3>4, <1>6 DEF Grown
    <3> QED
      BY <2>2, <3>1, <3>5
  <2> QED
    BY <2>1, <2>2
<1>14. \A d \in Socket : seat[d] # Empty =>
          \/ seat'[d] # Empty
          \/ link[d] # "up"
          \/ /\ Len(down'[d]) = Len(down[d]) + 1
             /\ down'[d][Len(down[d]) + 1].kind = "replaced"
  <2> SUFFICES ASSUME NEW d \in Socket, seat[d] # Empty, link[d] = "up"
               PROVE  /\ Len(down'[d]) = Len(down[d]) + 1
                      /\ down'[d][Len(down[d]) + 1].kind = "replaced"
    OBVIOUS
  <2>1. d # s /\ d \in gone
    BY <1>4 DEF Seated, gone
  <2>2. down'[d] = Append(down[d], Msg("replaced", 0))
    BY <2>1, <1>9, <1>11
  <2> QED
    BY <2>2, <1>7, <1>8
<1>15. \A d \in Socket : \A i \in Len(down[d]) + 1 .. Len(down'[d]) :
          down'[d][i].kind = "welcome" => seat'[d] # Empty
  <2> SUFFICES ASSUME NEW d \in Socket, NEW i \in Len(down[d]) + 1 .. Len(down'[d]),
                      down'[d][i].kind = "welcome"
               PROVE  seat'[d] # Empty
    OBVIOUS
  <2>1. CASE d = s
    <3>1. link[s] = "up"
      <4> SUFFICES ASSUME link[s] # "up" PROVE FALSE
        OBVIOUS
      <4>1. down'[s] = down[s]
        BY <1>9, <1>10
      <4> QED
        BY <2>1, <4>1, <1>6
    <3> QED
      BY <2>1, <3>1, <1>3, <1>5, <1>10
  <2>2. CASE d # s
    <3>1. \/ down'[d] = down[d]
          \/ down'[d] = Append(down[d], Msg("replaced", 0))
      BY <2>2, <1>9, <1>11
    <3>2. down'[d] # down[d]
      BY <1>6
    <3>3. i = Len(down[d]) + 1
      BY <3>1, <3>2, <1>6, <1>8
    <3> QED
      BY <3>1, <3>2, <3>3, <1>7, <1>8
  <2> QED
    BY <2>1, <2>2
<1>16. \A d \in Socket : seat[d] = Empty /\ d # s => seat'[d] = Empty /\ down'[d] = down[d]
  BY <1>4, <1>9, <1>11 DEF gone
<1> QED
  BY <1>2, <1>10, <1>12, <1>13, <1>14, <1>15, <1>16 DEF Moved

\* What a message from a tab may be.
LEMMA UpMsgFact ==
    ASSUME NEW m \in UpMsg
    PROVE  /\ m.kind \in {"bye", "join", "reset", "position", "level_one_complete",
                          "collect", "level_one_chip", "admin_configure_test", "input"}
           /\ m.kind = "level_one_chip" => \E c \in Chip : m.value = ClientName(c)
           /\ m.kind = "admin_configure_test" => m.value \in TestLevel
BY DEF UpMsg

\* The room, all of whose chips are named otherwise, books none of them, and
\* nobody has the five of them.
LEMMA GameFact ==
    ASSUME TypeOK, Wires, Seats, NEW s \in Socket, Seated(s), NEW m \in UpMsg,
           \/ m.kind = "position" /\ Position(s)
           \/ m.kind = "level_one_chip" /\ TakeChip(s, m.value)
           \/ m.kind = "level_one_complete" /\ FinishLevelOne(s)
           \/ m.kind = "collect" /\ Collect(s)
           \/ m.kind = "input" /\ Input(s, m.value)
           \/ m.kind = "admin_configure_test" /\ ConfigureTest(s, m.value)
    PROVE  Moved(s) /\ Seats'
<1>1. /\ seat[s] \in Player /\ seat[s].chips = {}
      /\ seat[s].ticket \in 0 .. MaxTicket
  BY DEF TypeOK, RoomTypeOK, Player, Seats
<1>2. Play(s, seat[s]) => Moved(s) /\ Seats'
  BY <1>1, PlayedFact
<1>3. ASSUME Play(s, [seat[s] EXCEPT !.over = TRUE]) PROVE Moved(s) /\ Seats'
  <2> DEFINE player == [seat[s] EXCEPT !.over = TRUE]
  <2>1. player \in Player /\ player.chips = {} /\ player.ticket = seat[s].ticket
    BY <1>1 DEF Player
  <2> HIDE DEF player
  <2> QED
    BY <1>3, <2>1, PlayedFact DEF player
<1>4. ASSUME NEW n \in Level, Play(s, [seat[s] EXCEPT !.level = n])
      PROVE  Moved(s) /\ Seats'
  <2> DEFINE player == [seat[s] EXCEPT !.level = n]
  <2>1. player \in Player /\ player.chips = {} /\ player.ticket = seat[s].ticket
    BY <1>1 DEF Player
  <2> HIDE DEF player
  <2> QED
    BY <1>4, <2>1, PlayedFact DEF player
<1>5. CASE Position(s)
  BY <1>2, <1>3, <1>5 DEF Position
<1>6. CASE m.kind = "level_one_chip" /\ TakeChip(s, m.value)
  <2>1. PICK c \in Chip : m.value = ClientName(c)
    BY <1>6, UpMsgFact
  <2> DEFINE named == {d \in Chip : ServerName(d) = m.value}
             player == [seat[s] EXCEPT !.chips = @ \cup named]
  <2>2. named = {}
    BY <2>1 DEF ServerName, ClientName
  <2>3. Play(s, seat[s]) \/ Play(s, player)
    BY <1>6 DEF TakeChip
  <2>4. player \in Player /\ player.chips = {} /\ player.ticket = seat[s].ticket
    BY <1>1, <2>2 DEF Player
  <2> HIDE DEF player
  <2> QED
    BY <1>2, <2>3, <2>4, PlayedFact
<1>7. CASE FinishLevelOne(s)
  BY <1>1, <1>2, <1>7, ChipAssumption DEF FinishLevelOne
<1>8. CASE Collect(s)
  BY <1>4, <1>8, StillFact DEF Collect
<1>9. CASE Input(s, m.value)
  BY <1>2, <1>9, StillFact DEF Input
<1>10. CASE m.kind = "admin_configure_test" /\ ConfigureTest(s, m.value)
  <2> DEFINE player == [Empty EXCEPT !.ticket = seat[s].ticket, !.test = TRUE,
                                     !.level = m.value]
  <2>1. m.value \in Level
    BY <1>10, UpMsgFact, TestLevelAssumption
  <2>2. player \in Player /\ player.ticket = seat[s].ticket
    BY <1>1, <2>1, EmptyFact DEF Player
  <2>3. player.chips = {}
    BY DEF Empty
  <2>4. Refuse(s) \/ Play(s, player)
    BY <1>10 DEF ConfigureTest
  <2> HIDE DEF player
  <2> QED
    BY <2>2, <2>3, <2>4, RefuseFact, PlayedFact
<1> QED
  BY <1>5, <1>6, <1>7, <1>8, <1>9, <1>10

\* Whatever a socket says, the handler moves seats and queues as Moved allows.
LEMMA HandleFact ==
    ASSUME TypeOK, Wires, Seats, NEW s \in Socket, NEW m \in UpMsg,
           m.kind = "bye" => link[s] # "up", Handle(s, m)
    PROVE  Moved(s) /\ Seats'
<1>1. \/ m.kind = "bye" /\ Disconnect(s, down)
      \/ m.kind = "join" /\ ~Seated(s) /\ Join(s)
      \/ Refuse(s)
      \/ UNCHANGED <<room, down>>
      \/ m.kind = "reset" /\ Seated(s) /\ Reset(s)
      \/ /\ Seated(s)
         /\ \/ m.kind = "position" /\ Position(s)
            \/ m.kind = "level_one_chip" /\ TakeChip(s, m.value)
            \/ m.kind = "level_one_complete" /\ FinishLevelOne(s)
            \/ m.kind = "collect" /\ Collect(s)
            \/ m.kind = "input" /\ Input(s, m.value)
            \/ m.kind = "admin_configure_test" /\ ConfigureTest(s, m.value)
  BY UpMsgFact DEF Handle
<1>2. CASE m.kind = "bye" /\ Disconnect(s, down)
  BY <1>2, DisconnectFact
<1>3. CASE m.kind = "join" /\ ~Seated(s) /\ Join(s)
  BY <1>3, JoinFact
<1>4. CASE Refuse(s)
  BY <1>4, RefuseFact
<1>5. CASE UNCHANGED <<room, down>>
  BY <1>5, StillFact
<1>6. CASE m.kind = "reset" /\ Seated(s) /\ Reset(s)
  BY <1>6, ResetFact
<1>7. CASE /\ Seated(s)
           /\ \/ m.kind = "position" /\ Position(s)
              \/ m.kind = "level_one_chip" /\ TakeChip(s, m.value)
              \/ m.kind = "level_one_complete" /\ FinishLevelOne(s)
              \/ m.kind = "collect" /\ Collect(s)
              \/ m.kind = "input" /\ Input(s, m.value)
              \/ m.kind = "admin_configure_test" /\ ConfigureTest(s, m.value)
  BY <1>7, GameFact
<1> QED
  BY <1>1, <1>2, <1>3, <1>4, <1>5, <1>6, <1>7

\* The worlds kill the player or let it get on.
LEMMA FateFact ==
    ASSUME TypeOK, Wires, Seats, NEW s \in Socket, Fate(s)
    PROVE  Moved(s) /\ Seats' /\ Seated(s)
<1>1. /\ seat[s] \in Player /\ seat[s].chips = {}
      /\ seat[s].ticket \in 0 .. MaxTicket
  BY DEF TypeOK, RoomTypeOK, Player, Seats
<1>2. CASE Play(s, [seat[s] EXCEPT !.over = TRUE])
  <2> DEFINE player == [seat[s] EXCEPT !.over = TRUE]
  <2>1. player \in Player /\ player.chips = {} /\ player.ticket = seat[s].ticket
    BY <1>1 DEF Player
  <2>2. Play(s, player)
    BY <1>2
  <2> HIDE DEF player
  <2> QED
    BY <2>1, <2>2, PlayedFact DEF Fate
<1>3. ASSUME NEW n \in Level, Play(s, [seat[s] EXCEPT !.level = n])
      PROVE  Moved(s) /\ Seats' /\ Seated(s)
  <2> DEFINE player == [seat[s] EXCEPT !.level = n]
  <2>1. player \in Player /\ player.chips = {} /\ player.ticket = seat[s].ticket
    BY <1>1 DEF Player
  <2>2. Play(s, player)
    BY <1>3
  <2> HIDE DEF player
  <2> QED
    BY <2>1, <2>2, PlayedFact DEF Fate
<1> QED
  BY <1>2, <1>3 DEF Fate

-----------------------------------------------------------------------------
(***************************************************************************)
(* Steps of the room.                                                       *)
(***************************************************************************)
\* A queue without its first message.
LEMMA TailFact ==
    ASSUME NEW S, NEW q \in Seq(S), q # <<>>
    PROVE  /\ Tail(q) \in Seq(S) /\ Len(q) \in Nat /\ Len(q) > 0
           /\ Len(Tail(q)) = Len(q) - 1
           /\ Head(q) = q[1] /\ q[1] \in S
           /\ \A i \in 1 .. Len(Tail(q)) :
                 i + 1 \in 1 .. Len(q) /\ i + 1 > 1 /\ Tail(q)[i] = q[i + 1]
           /\ \A j \in 1 .. Len(q) : j > 1 =>
                 j - 1 \in 1 .. Len(Tail(q)) /\ Tail(q)[j - 1] = q[j]
<1>1. /\ Tail(q) \in Seq(S) /\ Head(q) \in S /\ Len(Tail(q)) = Len(q) - 1
      /\ \A i \in 1 .. Len(Tail(q)) : Tail(q)[i] = q[i + 1]
  BY HeadTailProperties
<1>2. Len(q) \in Nat /\ Len(q) > 0
  BY LenProperties, EmptySeq
<1>3. Head(q) = q[1]
  OBVIOUS
<1>4. PICK n \in Nat : n = Len(q)
  BY <1>2
<1>5. /\ \A i \in 1 .. n - 1 : i + 1 \in 1 .. n /\ i + 1 > 1
      /\ \A j \in 1 .. n : j > 1 => j - 1 \in 1 .. n - 1 /\ (j - 1) + 1 = j
  OBVIOUS
<1>6. \A i \in 1 .. Len(Tail(q)) : i + 1 \in 1 .. Len(q) /\ i + 1 > 1
  BY <1>1, <1>4, <1>5
<1>7. \A j \in 1 .. Len(q) : j > 1 =>
         j - 1 \in 1 .. Len(Tail(q)) /\ Tail(q)[j - 1] = q[j]
  BY <1>1, <1>4, <1>5
<1> QED
  BY <1>1, <1>2, <1>3, <1>6, <1>7

\* A queue that has grown still tells that the connection ends.
LEMMA GrownFact ==
    ASSUME NEW q \in Seq(DownMsg), NEW w \in Seq(DownMsg), Grown(q, w)
    PROVE  /\ Ends(q) => Ends(w)
           /\ \A i \in 1 .. Len(q) : i \in 1 .. Len(w) /\ w[i].kind = q[i].kind
<1>1. Len(q) \in Nat /\ Len(w) \in Nat
  BY LenProperties
<1> QED
  BY <1>1 DEF Grown, Ends, Ending

\* A lost seat: its socket is lost, with the news in the queue, or is told.
LEMMA LostSeatFact ==
    ASSUME ArcadeInv, NEW s \in Socket, Moved(s), NEW d \in Socket,
           ready[d] = "open", Seated(d), seat'[d] = Empty,
           NEW i \in 1 .. Len(down[d])
    PROVE  \E j \in 1 .. Len(down'[d]) :
              /\ Ending(down'[d][j])
              /\ i < j \/ down[d][i].kind = "lost"
<1>1. /\ down[d] \in Seq(DownMsg) /\ Len(down[d]) \in Nat
      /\ down'[d] \in Seq(DownMsg) /\ Len(down'[d]) \in Nat
  BY LenProperties DEF ArcadeInv, Wires, Moved
<1>2. CASE link[d] # "up"
  <2>1. /\ down[d] # <<>> /\ down[d][Len(down[d])].kind = "lost"
        /\ down'[d] = down[d]
    BY <1>2 DEF ArcadeInv, Breaks, Moved
  <2>2. Len(down[d]) \in 1 .. Len(down[d]) /\ (i < Len(down[d]) \/ i = Len(down[d]))
    BY <1>1
  <2> QED
    BY <2>1, <2>2 DEF Ending
<1>3. CASE link[d] = "up"
  <2>1. /\ Len(down'[d]) = Len(down[d]) + 1
        /\ down'[d][Len(down[d]) + 1].kind = "replaced"
    BY <1>3 DEF Moved, Seated
  <2>2. Len(down[d]) + 1 \in 1 .. Len(down'[d]) /\ i < Len(down[d]) + 1
    BY <1>1, <2>1
  <2> QED
    BY <2>1, <2>2 DEF Ending
<1> QED
  BY <1>2, <1>3

\* The same for a queue that is empty.
LEMMA LostSeatEndsFact ==
    ASSUME ArcadeInv, NEW s \in Socket, Moved(s), NEW d \in Socket,
           ready[d] = "open", Seated(d), seat'[d] = Empty
    PROVE  Ends(down'[d])
<1>1. /\ down[d] \in Seq(DownMsg) /\ Len(down[d]) \in Nat
      /\ down'[d] \in Seq(DownMsg) /\ Len(down'[d]) \in Nat
  BY LenProperties DEF ArcadeInv, Wires, Moved
<1>2. CASE link[d] # "up"
  <2>1. /\ down[d] # <<>> /\ down[d][Len(down[d])].kind = "lost"
        /\ down'[d] = down[d]
    BY <1>2 DEF ArcadeInv, Breaks, Moved
  <2>2. Len(down[d]) > 0
    BY <1>1, <2>1, EmptySeq
  <2>3. Len(down[d]) \in 1 .. Len(down[d])
    BY <1>1, <2>2
  <2> QED
    BY <2>1, <2>3 DEF Ending, Ends
<1>3. CASE link[d] = "up"
  <2>1. /\ Len(down'[d]) = Len(down[d]) + 1
        /\ down'[d][Len(down[d]) + 1].kind = "replaced"
    BY <1>3 DEF Moved, Seated
  <2>2. Len(down[d]) + 1 \in 1 .. Len(down'[d])
    BY <1>1, <2>1
  <2> QED
    BY <2>1, <2>2 DEF Ending, Ends
<1> QED
  BY <1>2, <1>3

\* What the handler of a message, or the worlds, do to seats and queues keeps
\* the invariant.
LEMMA MovedFact ==
    ASSUME ArcadeInv, NEW s \in Socket, Moved(s), UNCHANGED <<link, tab, ready>>,
           ready[s] \notin {"none", "connecting"},
           up' \in [Socket -> Seq(UpMsg)],
           \A d \in Socket : d # s => up'[d] = up[d],
           \A i \in 1 .. Len(up'[s]) : up'[s][i].kind # "join",
           Holds(up'[s], "bye") => Holds(up[s], "bye")
    PROVE  Wires' /\ Joins' /\ Breaks' /\ Welcomes' /\ Tabs'
<1>1. Wires'
  BY DEF Wires, Moved
<1>2. \A d \in Socket :
         /\ down[d] \in Seq(DownMsg) /\ Len(down[d]) \in Nat
         /\ down'[d] \in Seq(DownMsg) /\ Len(down'[d]) \in Nat
  BY LenProperties DEF ArcadeInv, Wires, Moved
<1>3. Joins'
  <2>1. \A d \in Socket : ready[d] \in {"none", "connecting"} =>
           /\ up'[d] = <<>> /\ down'[d] = <<>> /\ link[d] = "none"
           /\ seat'[d] = Empty
    BY DEF ArcadeInv, Joins, Moved, Seated
  <2>2. \A d \in Socket : \A i \in 1 .. Len(up'[d]) : up'[d][i].kind = "join" =>
           i = 1 /\ seat'[d] = Empty /\ (link[d] = "up" => down'[d] = <<>>)
    <3> SUFFICES ASSUME NEW d \in Socket, NEW i \in 1 .. Len(up'[d]),
                        up'[d][i].kind = "join"
                 PROVE  i = 1 /\ seat'[d] = Empty /\ (link[d] = "up" => down'[d] = <<>>)
      OBVIOUS
    <3>1. d # s /\ up'[d] = up[d]
      OBVIOUS
    <3>2. i = 1 /\ seat[d] = Empty /\ (link[d] = "up" => down[d] = <<>>)
      BY <3>1 DEF ArcadeInv, Joins, Seated
    <3> QED
      BY <3>1, <3>2 DEF Moved
  <2>3. \A d \in Socket : Holds(up'[d], "bye") => link[d] = "lost"
    BY DEF ArcadeInv, Joins
  <2> QED
    BY <2>1, <2>2, <2>3 DEF Joins, Seated, Holds
<1>4. Breaks'
  BY DEF ArcadeInv, Breaks, Moved
<1>5. Welcomes'
  <2> SUFFICES ASSUME NEW d \in Socket, ready[d] = "open",
                      NEW i \in 1 .. Len(down'[d]), down'[d][i].kind = "welcome",
                      seat'[d] = Empty
               PROVE  \E j \in 1 .. Len(down'[d]) : i < j /\ Ending(down'[d][j])
    BY DEF Welcomes, Seated
  <2>1. i \in 1 .. Len(down[d]) /\ down[d][i].kind = "welcome"
    <3>1. i \in 1 .. Len(down[d])
      <4> SUFFICES ASSUME i \notin 1 .. Len(down[d]) PROVE FALSE
        OBVIOUS
      <4>1. i \in Len(down[d]) + 1 .. Len(down'[d])
        BY <1>2
      <4> QED
        BY <4>1 DEF Moved
    <3>2. down'[d] = down[d] \/ Grown(down[d], down'[d])
      BY DEF Moved
    <3> QED
      BY <3>1, <3>2 DEF Grown
  <2>2. CASE Seated(d)
    <3>1. PICK j \in 1 .. Len(down'[d]) :
             Ending(down'[d][j]) /\ (i < j \/ down[d][i].kind = "lost")
      BY <2>1, <2>2, LostSeatFact
    <3> QED
      BY <3>1, <2>1
  <2>3. CASE ~Seated(d)
    <3>1. PICK j \in 1 .. Len(down[d]) : i < j /\ Ending(down[d][j])
      BY <2>1, <2>3 DEF ArcadeInv, Welcomes
    <3>2. down'[d] = down[d] \/ Grown(down[d], down'[d])
      BY DEF Moved
    <3>3. j \in 1 .. Len(down'[d]) /\ down'[d][j].kind = down[d][j].kind
      BY <1>2, <3>2, GrownFact
    <3> QED
      BY <3>1, <3>3 DEF Ending
  <2> QED
    BY <2>2, <2>3
<1>6. Tabs'
  <2>1. ASSUME NEW t \in Tab, tab[t].status = "connected"
        PROVE  /\ tab[t].cur # NoSocket /\ ready[tab[t].cur] = "open"
               /\ seat'[tab[t].cur] # Empty \/ Ends(down'[tab[t].cur])
    <3> DEFINE d == tab[t].cur
    <3>1. /\ d \in Socket /\ d # NoSocket /\ ready[d] = "open"
          /\ Seated(d) \/ Ends(down[d])
      BY <2>1 DEF ArcadeInv, Tabs, TypeOK
    <3> HIDE DEF d
    <3>2. CASE Seated(d) /\ seat'[d] = Empty
      BY <3>1, <3>2, LostSeatEndsFact DEF d
    <3>3. CASE Ends(down[d])
      <4>1. down'[d] = down[d] \/ Grown(down[d], down'[d])
        BY <3>1 DEF Moved
      <4>2. Ends(down'[d])
        BY <1>2, <3>1, <3>3, <4>1, GrownFact
      <4> QED
        BY <3>1, <4>2 DEF d
    <3> QED
      BY <3>1, <3>2, <3>3 DEF d
  <2> QED
    BY <2>1 DEF ArcadeInv, Tabs, Seated, Ends, Ending
<1> QED
  BY <1>1, <1>3, <1>4, <1>5, <1>6

\* A step of the room with the tabs left alone keeps the types.
LEMMA RoomTypeFact ==
    ASSUME TypeOK, NEW s \in Socket, Moved(s), UNCHANGED <<client, link>>,
           mishaps' \in 0 .. MaxMishaps, fates' \in 0 .. MaxFates
    PROVE  TypeOK'
BY DEF TypeOK, RoomTypeOK, Moved, client, Player

\* The room handles the first message of a socket.
LEMMA ServeFact ==
    ASSUME ArcadeInv, NEW s \in Socket, Serve(s), UNCHANGED client
    PROVE  ArcadeInv'
<1>1. up[s] \in Seq(UpMsg) /\ up[s] # <<>> /\ up \in [Socket -> Seq(UpMsg)]
  BY DEF ArcadeInv, Wires, Serve
<1>2. /\ Tail(up[s]) \in Seq(UpMsg) /\ Len(up[s]) \in Nat /\ Len(up[s]) > 0
      /\ Head(up[s]) = up[s][1] /\ up[s][1] \in UpMsg
      /\ \A i \in 1 .. Len(Tail(up[s])) :
            i + 1 \in 1 .. Len(up[s]) /\ i + 1 > 1 /\ Tail(up[s])[i] = up[s][i + 1]
  BY <1>1, TailFact
<1>3. up' = [up EXCEPT ![s] = Tail(@)] /\ UNCHANGED <<link, bounds>>
      /\ Handle(s, up[s][1])
  BY <1>2 DEF Serve
<1>4. up[s][1].kind = "bye" => link[s] # "up"
  <2>1. 1 \in 1 .. Len(up[s])
    BY <1>2
  <2> QED
    BY <2>1 DEF ArcadeInv, Joins, Holds
<1>5. Moved(s) /\ Seats'
  BY <1>2, <1>3, <1>4, HandleFact DEF ArcadeInv
<1>6. up'[s] = Tail(up[s]) /\ up' \in [Socket -> Seq(UpMsg)]
      /\ \A d \in Socket : d # s => up'[d] = up[d]
  BY <1>1, <1>2, <1>3
<1>7. \A i \in 1 .. Len(up'[s]) : up'[s][i].kind # "join"
  <2>1. \A i \in 1 .. Len(up[s]) : i > 1 => up[s][i].kind # "join"
    BY DEF ArcadeInv, Joins
  <2> QED
    BY <2>1, <1>2, <1>6
<1>8. Holds(up'[s], "bye") => Holds(up[s], "bye")
  BY <1>2, <1>6 DEF Holds
<1>9. ready[s] \notin {"none", "connecting"}
  BY <1>1 DEF ArcadeInv, Joins
<1>10. Wires' /\ Joins' /\ Breaks' /\ Welcomes' /\ Tabs'
  <2>1. UNCHANGED <<link, tab, ready>>
    BY <1>3 DEF client
  <2> QED
    BY <2>1, <1>5, <1>6, <1>7, <1>8, <1>9, MovedFact
<1>11. TypeOK'
  BY <1>3, <1>5, RoomTypeFact DEF ArcadeInv, TypeOK, RoomTypeOK, bounds
<1> QED
  BY <1>5, <1>10, <1>11 DEF ArcadeInv

\* The worlds advance.
LEMMA FateStepFact ==
    ASSUME ArcadeInv, NEW s \in Socket, Fate(s), UNCHANGED client
    PROVE  ArcadeInv'
<1>1. Moved(s) /\ Seats' /\ Seated(s)
  BY FateFact DEF ArcadeInv
<1>2. up' = up /\ link' = link /\ mishaps' = mishaps /\ fates' = fates + 1
      /\ fates < MaxFates
  BY DEF Fate
<1>3. ready[s] \notin {"none", "connecting"}
  BY <1>1 DEF ArcadeInv, Joins
<1>4. \A i \in 1 .. Len(up'[s]) : up'[s][i].kind # "join"
  BY <1>1, <1>2 DEF ArcadeInv, Joins
<1>5. Wires' /\ Joins' /\ Breaks' /\ Welcomes' /\ Tabs'
  <2>1. UNCHANGED <<link, tab, ready>> /\ up' \in [Socket -> Seq(UpMsg)]
    BY <1>2 DEF client, ArcadeInv, Wires
  <2> QED
    BY <2>1, <1>1, <1>2, <1>3, <1>4, MovedFact
<1>6. TypeOK'
  <2>1. fates' \in 0 .. MaxFates /\ mishaps' \in 0 .. MaxMishaps
    BY <1>2, RoomBoundAssumption DEF ArcadeInv, TypeOK, RoomTypeOK
  <2> QED
    BY <2>1, <1>1, <1>2, RoomTypeFact DEF ArcadeInv
<1> QED
  BY <1>1, <1>5, <1>6 DEF ArcadeInv

\* A seat that is left alone.
LEMMA SeatsKeptFact ==
    ASSUME Seats, UNCHANGED room
    PROVE  Seats' /\ \A s \in Socket : Seated(s)' <=> Seated(s)
<1>1. seat' = seat /\ ticket' = ticket
  BY DEF room
<1> QED
  BY <1>1 DEF Seats, Seated

\* What comes behind the messages of a queue, and what they were.
LEMMA BehindFact ==
    ASSUME NEW S, NEW q \in Seq(S), NEW m \in S
    PROVE  /\ Append(q, m) \in Seq(S) /\ Len(q) \in Nat
           /\ Len(Append(q, m)) = Len(q) + 1
           /\ Len(q) + 1 \in 1 .. Len(Append(q, m))
           /\ Append(q, m)[Len(q) + 1] = m /\ Append(q, m) # <<>>
           /\ \A i \in 1 .. Len(q) :
                 /\ i \in 1 .. Len(Append(q, m)) /\ i < Len(q) + 1
                 /\ Append(q, m)[i] = q[i]
           /\ \A i \in 1 .. Len(Append(q, m)) :
                 i \in 1 .. Len(q) \/ i = Len(q) + 1
<1>1. Len(q) \in Nat
  BY LenProperties
<1>2. /\ Append(q, m) \in Seq(S) /\ Len(Append(q, m)) = Len(q) + 1
      /\ \A i \in 1 .. Len(q) : Append(q, m)[i] = q[i]
      /\ Append(q, m)[Len(q) + 1] = m
  BY AppendFact
<1>3. PICK n \in Nat : n = Len(q)
  BY <1>1
<1>4. n + 1 \in 1 .. n + 1 /\ n + 1 # 0
      /\ (\A i \in 1 .. n : i \in 1 .. n + 1 /\ i < n + 1)
      /\ (\A i \in 1 .. n + 1 : i \in 1 .. n \/ i = n + 1)
  OBVIOUS
<1>5. Append(q, m) # <<>>
  <2>1. Len(Append(q, m)) # 0
    BY <1>2, <1>3, <1>4
  <2> QED
    BY <2>1, <1>2, EmptySeq
<1> QED
  BY <1>1, <1>2, <1>3, <1>4, <1>5

\* The connection breaks.
LEMMA BreakFact ==
    ASSUME ArcadeInv, NEW s \in Socket, Break(s), UNCHANGED client
    PROVE  ArcadeInv'
<1> DEFINE lost == Msg("lost", 0)
<1>1. PICK kept \in {up[s], <<>>} : up' = [up EXCEPT ![s] = Append(kept, Bye)]
  BY DEF Break
<1>2. /\ link[s] = "up" /\ mishaps < MaxMishaps /\ mishaps' = mishaps + 1
      /\ link' = [link EXCEPT ![s] = "lost"] /\ fates' = fates
      /\ down' = [down EXCEPT ![s] = Append(@, lost)] /\ UNCHANGED room
  BY DEF Break
<1>3. Bye \in UpMsg /\ Bye.kind = "bye" /\ lost \in DownMsg /\ lost.kind = "lost"
  BY DEF Bye, Msg, UpMsg, DownMsg
<1> HIDE DEF lost
<1>4. /\ kept \in Seq(UpMsg) /\ down[s] \in Seq(DownMsg)
      /\ up \in [Socket -> Seq(UpMsg)] /\ down \in [Socket -> Seq(DownMsg)]
  BY EmptySeq DEF ArcadeInv, Wires
<1>5. /\ Append(kept, Bye) \in Seq(UpMsg)
      /\ Append(kept, Bye)[Len(kept) + 1] = Bye
      /\ \A i \in 1 .. Len(kept) : Append(kept, Bye)[i] = kept[i]
      /\ \A i \in 1 .. Len(Append(kept, Bye)) : i \in 1 .. Len(kept) \/ i = Len(kept) + 1
  BY <1>3, <1>4, BehindFact
<1>6. /\ Append(down[s], lost) \in Seq(DownMsg) /\ Len(down[s]) \in Nat
      /\ Len(Append(down[s], lost)) = Len(down[s]) + 1
      /\ Len(down[s]) + 1 \in 1 .. Len(Append(down[s], lost))
      /\ Append(down[s], lost)[Len(down[s]) + 1] = lost /\ Append(down[s], lost) # <<>>
      /\ \A i \in 1 .. Len(down[s]) :
            /\ i \in 1 .. Len(Append(down[s], lost)) /\ i < Len(down[s]) + 1
            /\ Append(down[s], lost)[i] = down[s][i]
      /\ \A i \in 1 .. Len(Append(down[s], lost)) :
            i \in 1 .. Len(down[s]) \/ i = Len(down[s]) + 1
  BY <1>3, <1>4, BehindFact
<1>7. /\ up'[s] = Append(kept, Bye) /\ down'[s] = Append(down[s], lost)
      /\ link'[s] = "lost"
      /\ \A d \in Socket : d # s => /\ up'[d] = up[d] /\ down'[d] = down[d]
                                    /\ link'[d] = link[d]
      /\ up' \in [Socket -> Seq(UpMsg)] /\ down' \in [Socket -> Seq(DownMsg)]
      /\ link' \in [Socket -> {"none", "up", "lost"}]
      /\ tab' = tab /\ ready' = ready /\ moves' = moves
  BY <1>1, <1>2, <1>4, <1>5, <1>6 DEF client, ArcadeInv, TypeOK, RoomTypeOK
<1>8. Seats' /\ \A d \in Socket : Seated(d)' <=> Seated(d)
  BY <1>2, SeatsKeptFact DEF ArcadeInv
<1>9. ready[s] \notin {"none", "connecting"}
  BY <1>2 DEF ArcadeInv, Joins
<1>10. Joins'
  <2>1. \A d \in Socket : ready'[d] \in {"none", "connecting"} =>
           /\ up'[d] = <<>> /\ down'[d] = <<>> /\ link'[d] = "none" /\ ~Seated(d)'
    BY <1>7, <1>8, <1>9 DEF ArcadeInv, Joins
  <2>2. ASSUME NEW d \in Socket, NEW i \in 1 .. Len(up'[d]), up'[d][i].kind = "join"
        PROVE  i = 1 /\ ~Seated(d)' /\ (link'[d] = "up" => down'[d] = <<>>)
    <3>1. CASE d # s
      BY <2>2, <3>1, <1>7, <1>8 DEF ArcadeInv, Joins
    <3>2. CASE d = s
      <4>1. i \in 1 .. Len(kept) /\ kept[i].kind = "join"
        BY <2>2, <3>2, <1>3, <1>5, <1>7
      <4>2. kept = up[s]
        BY <4>1
      <4>3. i = 1 /\ ~Seated(s)
        BY <4>1, <4>2 DEF ArcadeInv, Joins
      <4> QED
        BY <4>3, <3>2, <1>7, <1>8
    <3> QED
      BY <3>1, <3>2
  <2>3. \A d \in Socket : Holds(up'[d], "bye") => link'[d] = "lost"
    BY <1>7 DEF ArcadeInv, Joins
  <2> QED
    BY <2>1, <2>2, <2>3 DEF Joins, Holds
<1>11. Breaks'
  <2>1. ASSUME NEW d \in Socket, ready'[d] = "open", link'[d] # "up"
        PROVE  down'[d] # <<>> /\ down'[d][Len(down'[d])].kind = "lost"
    <3>1. CASE d # s
      BY <2>1, <3>1, <1>7 DEF ArcadeInv, Breaks
    <3>2. CASE d = s
      <4>1. /\ down'[s] # <<>> /\ Len(down'[s]) = Len(down[s]) + 1
            /\ down'[s][Len(down[s]) + 1] = lost
        BY <1>6, <1>7
      <4> QED
        BY <3>2, <4>1, <1>3
    <3> QED
      BY <3>1, <3>2
  <2> QED
    BY <2>1 DEF Breaks
<1>12. Welcomes'
  <2>1. ASSUME NEW d \in Socket, ready'[d] = "open",
               NEW i \in 1 .. Len(down'[d]), down'[d][i].kind = "welcome"
        PROVE  \/ Seated(d)'
               \/ \E j \in 1 .. Len(down'[d]) : i < j /\ Ending(down'[d][j])
    <3>1. CASE d # s
      BY <2>1, <3>1, <1>7, <1>8 DEF ArcadeInv, Welcomes
    <3>2. CASE d = s
      <4>1. i \in 1 .. Len(down[s])
        BY <2>1, <3>2, <1>3, <1>6, <1>7
      <4> QED
        BY <4>1, <3>2, <1>3, <1>6, <1>7 DEF Ending
    <3> QED
      BY <3>1, <3>2
  <2> QED
    BY <2>1 DEF Welcomes, Ending
<1>13. Tabs'
  <2>1. \A d \in Socket : Ends(down[d]) => Ends(down'[d])
    BY <1>6, <1>7 DEF Ends
  <2>2. \A t \in Tab : tab[t].cur # NoSocket => tab[t].cur \in Socket
    BY DEF ArcadeInv, TypeOK
  <2>3. \A t \in Tab : tab[t].status = "connected" =>
           /\ tab[t].cur \in Socket /\ tab[t].cur # NoSocket /\ ready[tab[t].cur] = "open"
           /\ Seated(tab[t].cur) \/ Ends(down[tab[t].cur])
    BY <2>2 DEF ArcadeInv, Tabs
  <2>4. ASSUME NEW t \in Tab, tab'[t].status = "connected"
        PROVE  /\ tab'[t].cur # NoSocket /\ ready'[tab'[t].cur] = "open"
               /\ Seated(tab[t].cur)' \/ Ends(down'[tab'[t].cur])
    BY <2>1, <2>3, <2>4, <1>7, <1>8
  <2> QED
    BY <2>4, <1>7 DEF ArcadeInv, Tabs, Ends, Ending, Seated
<1>14. TypeOK'
  <2>1. mishaps' \in 0 .. MaxMishaps
    BY <1>2, RoomBoundAssumption DEF ArcadeInv, TypeOK, RoomTypeOK
  <2> QED
    BY <2>1, <1>2, <1>7 DEF ArcadeInv, TypeOK, RoomTypeOK, room
<1> QED
  BY <1>7, <1>8, <1>10, <1>11, <1>12, <1>13, <1>14 DEF ArcadeInv, Wires

\* What a failing handler does to the seats: the player loses the one there is,
\* or somebody else keeps it.
LEMMA DroppedFact ==
    ASSUME TypeOK, Wires, Seats, NEW s \in Socket,
           NEW queues \in [Socket -> Seq(DownMsg)], Disconnect(s, queues)
    PROVE  /\ seat' \in [Socket -> Player] /\ down' = queues
           /\ ticket' \in [Ticket -> {"none", "active", "completed"}]
           /\ seat'[s] = Empty /\ \A d \in Socket : d # s => seat'[d] = seat[d]
           /\ Seats'
<1>1. seat \in [Socket -> Player]
  BY DEF TypeOK, RoomTypeOK, Player
<1>2. CASE ~Seated(s)
  <2>1. seat' = seat /\ ticket' = ticket /\ down' = queues /\ seat[s] = Empty
    BY <1>2 DEF Disconnect, room, Seated
  <2> QED
    BY <2>1, <1>1 DEF Seats, Seated, TypeOK, RoomTypeOK
<1>3. CASE Seated(s)
  <2> DEFINE seats == [seat EXCEPT ![s] = Empty]
  <2>1. ticket' = Complete({s}, {}) /\ Broadcast(seats, queues)
    BY <1>3 DEF Disconnect
  <2>2. ticket' \in [Ticket -> {"none", "active", "completed"}]
    BY <2>1, CompleteFact
  <2>3. \A d \in Socket : d # s => seat[d] = Empty
    BY <1>3 DEF Seats, Seated
  <2>4. seats \in [Socket -> Player] /\ \A d \in Socket : seats[d] = Empty
    BY <1>1, <2>3, EmptyFact
  <2> HIDE DEF seats
  <2>5. /\ seat' \in [Socket -> Player] /\ down' \in [Socket -> Seq(DownMsg)]
        /\ \A d \in Socket : seat'[d] = Empty /\ down'[d] = queues[d]
    BY <2>1, <2>4, EmptyFact, BroadcastFact
  <2>6. down' = queues
    BY <2>5
  <2>7. Seats'
    BY <2>5, EmptyFact DEF Seats, Seated
  <2> QED
    BY <2>2, <2>3, <2>5, <2>6, <2>7
<1> QED
  BY <1>2, <1>3

\* The handler of a message raises.
LEMMA FailsFact ==
    ASSUME ArcadeInv, NEW s \in Socket, Fails(s), UNCHANGED client
    PROVE  ArcadeInv'
<1> DEFINE lost == Msg("lost", 0)
<1>1. lost \in DownMsg /\ lost.kind = "lost"
  BY DownMsgFact
<1>2. /\ up[s] # <<>> /\ mishaps < MaxMishaps /\ mishaps' = mishaps + 1
      /\ link' = [link EXCEPT ![s] = "lost"] /\ fates' = fates
      /\ up' = [up EXCEPT ![s] = <<>>] /\ Disconnect(s, Tell(s, "lost"))
  BY DEF Fails
<1>3. Tell(s, "lost") = IF link[s] = "up" THEN [down EXCEPT ![s] = Append(@, lost)]
                        ELSE down
  BY DEF Tell
<1> HIDE DEF lost
<1>4. /\ up \in [Socket -> Seq(UpMsg)] /\ down \in [Socket -> Seq(DownMsg)]
      /\ down[s] \in Seq(DownMsg) /\ link \in [Socket -> {"none", "up", "lost"}]
  BY DEF ArcadeInv, Wires, TypeOK, RoomTypeOK
<1>5. /\ Append(down[s], lost) \in Seq(DownMsg) /\ Len(down[s]) \in Nat
      /\ Len(Append(down[s], lost)) = Len(down[s]) + 1
      /\ Len(down[s]) + 1 \in 1 .. Len(Append(down[s], lost))
      /\ Append(down[s], lost)[Len(down[s]) + 1] = lost /\ Append(down[s], lost) # <<>>
      /\ \A i \in 1 .. Len(Append(down[s], lost)) :
            i \in 1 .. Len(down[s]) \/ i = Len(down[s]) + 1
  BY <1>1, <1>4, BehindFact
<1>6. Tell(s, "lost") \in [Socket -> Seq(DownMsg)]
  BY <1>3, <1>4, <1>5
<1>7. /\ seat' \in [Socket -> Player] /\ down' = Tell(s, "lost")
      /\ ticket' \in [Ticket -> {"none", "active", "completed"}]
      /\ seat'[s] = Empty /\ \A d \in Socket : d # s => seat'[d] = seat[d]
      /\ Seats'
  BY <1>2, <1>6, DroppedFact DEF ArcadeInv
<1>8. /\ up'[s] = <<>> /\ link'[s] = "lost"
      /\ \A d \in Socket : d # s => /\ up'[d] = up[d] /\ down'[d] = down[d]
                                    /\ link'[d] = link[d]
      /\ up' \in [Socket -> Seq(UpMsg)] /\ down' \in [Socket -> Seq(DownMsg)]
      /\ link' \in [Socket -> {"none", "up", "lost"}]
      /\ tab' = tab /\ ready' = ready /\ moves' = moves
  BY <1>2, <1>3, <1>4, <1>6, <1>7, EmptySeq DEF client
<1>9. ready[s] \notin {"none", "connecting"}
  BY <1>2 DEF ArcadeInv, Joins
\* The end of the connection is the last thing its tab will read.
<1>10. ASSUME ready[s] = "open"
       PROVE  /\ down'[s] # <<>> /\ down'[s][Len(down'[s])].kind = "lost"
              /\ Len(down'[s]) \in 1 .. Len(down'[s])
              /\ \A i \in 1 .. Len(down'[s]) : i < Len(down'[s]) \/ i = Len(down'[s])
  <2>1. CASE link[s] = "up"
    <3>1. down'[s] = Append(down[s], lost)
      BY <2>1, <1>3, <1>4, <1>7
    <3>2. Len(down'[s]) \in Nat
      BY <3>1, <1>5
    <3> QED
      BY <3>1, <3>2, <1>1, <1>5
  <2>2. CASE link[s] # "up"
    <3>1. down'[s] = down[s] /\ down[s] # <<>> /\ down[s][Len(down[s])].kind = "lost"
      BY <2>2, <1>3, <1>7, <1>10 DEF ArcadeInv, Breaks
    <3>2. Len(down[s]) \in Nat /\ Len(down[s]) # 0
      BY <3>1, <1>4, <1>5, EmptySeq
    <3>3. PICK n \in Nat : n = Len(down[s]) /\ n # 0
      BY <3>2
    <3>4. n \in 1 .. n /\ \A i \in 1 .. n : i < n \/ i = n
      BY <3>3
    <3> QED
      BY <3>1, <3>3, <3>4
  <2> QED
    BY <2>1, <2>2
<1>11. Joins'
  <2>1. \A d \in Socket : ready'[d] \in {"none", "connecting"} =>
           /\ up'[d] = <<>> /\ down'[d] = <<>> /\ link'[d] = "none" /\ ~Seated(d)'
    BY <1>7, <1>8, <1>9 DEF ArcadeInv, Joins, Seated
  <2>2. ASSUME NEW d \in Socket, NEW i \in 1 .. Len(up'[d]), up'[d][i].kind = "join"
        PROVE  i = 1 /\ ~Seated(d)' /\ (link'[d] = "up" => down'[d] = <<>>)
    <3>1. d # s
      BY <2>2, <1>8
    <3> QED
      BY <2>2, <3>1, <1>7, <1>8 DEF ArcadeInv, Joins, Seated
  <2>3. \A d \in Socket : Holds(up'[d], "bye") => link'[d] = "lost"
    BY <1>8 DEF ArcadeInv, Joins
  <2> QED
    BY <2>1, <2>2, <2>3 DEF Joins, Holds
<1>12. Breaks'
  <2>1. ASSUME NEW d \in Socket, ready'[d] = "open", link'[d] # "up"
        PROVE  down'[d] # <<>> /\ down'[d][Len(down'[d])].kind = "lost"
    <3>1. CASE d # s
      BY <2>1, <3>1, <1>8 DEF ArcadeInv, Breaks
    <3>2. CASE d = s
      BY <2>1, <3>2, <1>8, <1>10
    <3> QED
      BY <3>1, <3>2
  <2> QED
    BY <2>1 DEF Breaks
<1>13. Welcomes'
  <2>1. ASSUME NEW d \in Socket, ready'[d] = "open",
               NEW i \in 1 .. Len(down'[d]), down'[d][i].kind = "welcome"
        PROVE  \/ Seated(d)'
               \/ \E j \in 1 .. Len(down'[d]) : i < j /\ Ending(down'[d][j])
    <3>1. CASE d # s
      BY <2>1, <3>1, <1>7, <1>8 DEF ArcadeInv, Welcomes, Seated
    <3>2. CASE d = s
      <4>1. ready[s] = "open"
        BY <2>1, <3>2, <1>8
      <4>2. i < Len(down'[s]) /\ Len(down'[s]) \in 1 .. Len(down'[s])
            /\ Ending(down'[s][Len(down'[s])])
        BY <2>1, <3>2, <4>1, <1>10 DEF Ending
      <4> QED
        BY <4>2, <3>2
    <3> QED
      BY <3>1, <3>2
  <2> QED
    BY <2>1 DEF Welcomes, Ending
<1>14. Tabs'
  <2>1. ASSUME NEW t \in Tab, tab[t].status = "connected"
        PROVE  /\ tab[t].cur \in Socket /\ tab[t].cur # NoSocket
               /\ ready[tab[t].cur] = "open"
               /\ Seated(tab[t].cur) \/ Ends(down[tab[t].cur])
    BY <2>1 DEF ArcadeInv, Tabs, TypeOK
  <2>2. ASSUME NEW t \in Tab, tab[t].status = "connected"
        PROVE  seat'[tab[t].cur] # Empty \/ Ends(down'[tab[t].cur])
    <3>1. CASE tab[t].cur = s
      BY <2>1, <2>2, <3>1, <1>10 DEF Ends, Ending
    <3>2. CASE tab[t].cur # s
      BY <2>1, <2>2, <3>2, <1>7, <1>8 DEF Seated
    <3> QED
      BY <3>1, <3>2
  <2> QED
    BY <2>1, <2>2, <1>8 DEF ArcadeInv, Tabs, Ends, Ending, Seated
<1>15. TypeOK'
  <2>1. mishaps' \in 0 .. MaxMishaps
    BY <1>2, RoomBoundAssumption DEF ArcadeInv, TypeOK, RoomTypeOK
  <2> QED
    BY <2>1, <1>2, <1>7, <1>8 DEF ArcadeInv, TypeOK, RoomTypeOK, Player
<1> QED
  BY <1>7, <1>8, <1>11, <1>12, <1>13, <1>14, <1>15 DEF ArcadeInv, Wires

-----------------------------------------------------------------------------
(***************************************************************************)
(* Steps of a tab.                                                          *)
(***************************************************************************)
TabState == [cur : Socket \cup {NoSocket},
             status : {"disconnected", "connecting", "connected", "error"},
             known : BOOLEAN,
             local : [level : Level \cup {0}, over : BOOLEAN],
             run : [collected : SUBSET Chip, completed : BOOLEAN],
             asking : TestLevel \cup {0}, pending : TestLevel \cup {0},
             late : BOOLEAN, near : BOOLEAN, charge : BOOLEAN]

\* What a tab may add to the queues to the room: neither a join nor a bye,
\* and nothing before its socket is open.
Sends ==
    /\ up' \in [Socket -> Seq(UpMsg)]
    /\ \A d \in Socket : ready[d] \in {"none", "connecting"} => up'[d] = up[d]
    /\ \A d \in Socket : \A i \in 1 .. Len(up'[d]) :
          up'[d][i].kind \in {"join", "bye"} =>
             i \in 1 .. Len(up[d]) /\ up[d][i] = up'[d][i]

\* Sending nothing.
LEMMA SilentFact == ASSUME Wires, up' = up PROVE Sends
BY DEF Wires, Sends

\* Sending the messages of an action.
LEMMA SentFact ==
    ASSUME TypeOK, Wires, NEW t \in Tab, NEW messages \in Seq(UpMsg),
           \A i \in 1 .. Len(messages) : messages[i].kind \notin {"join", "bye"},
           Sent(t, messages)
    PROVE  Sends
<1> DEFINE s == tab[t].cur
<1>1. CASE up' = up
  BY <1>1, SilentFact
<1>2. CASE up' # up
  <2>1. s \in Socket /\ ready[s] = "open" /\ up' = [up EXCEPT ![s] = @ \o messages]
    BY <1>2 DEF Sent, TypeOK
  <2> HIDE DEF s
  <2>2. up[s] \in Seq(UpMsg) /\ up \in [Socket -> Seq(UpMsg)]
    BY <2>1 DEF Wires
  <2>3. /\ up[s] \o messages \in Seq(UpMsg)
        /\ Len(up[s] \o messages) = Len(up[s]) + Len(messages)
        /\ \A i \in 1 .. Len(up[s]) + Len(messages) : (up[s] \o messages)[i] =
              IF i <= Len(up[s]) THEN up[s][i] ELSE messages[i - Len(up[s])]
    BY <2>2, ConcatProperties
  <2>4. Len(up[s]) \in Nat /\ Len(messages) \in Nat
    BY <2>2, LenProperties
  <2>5. PICK n \in Nat, k \in Nat : n = Len(up[s]) /\ k = Len(messages)
    BY <2>4
  <2>6. \A i \in 1 .. n + k : i <= n => i \in 1 .. n
    OBVIOUS
  <2>7. \A i \in 1 .. n + k : ~(i <= n) => i - n \in 1 .. k
    OBVIOUS
  <2>8. ASSUME NEW i \in 1 .. Len(up[s] \o messages),
               (up[s] \o messages)[i].kind \in {"join", "bye"}
        PROVE  i \in 1 .. Len(up[s]) /\ up[s][i] = (up[s] \o messages)[i]
    <3>1. i \in 1 .. n + k
      BY <2>3, <2>5, <2>8
    <3>2. (up[s] \o messages)[i] = IF i <= n THEN up[s][i] ELSE messages[i - n]
      BY <2>3, <2>5, <3>1
    <3>3. i <= n
      BY <2>5, <2>7, <2>8, <3>1, <3>2
    <3> QED
      BY <2>5, <2>6, <3>1, <3>2, <3>3
  <2>9. /\ up'[s] = up[s] \o messages /\ up' \in [Socket -> Seq(UpMsg)]
        /\ \A d \in Socket : d # s => up'[d] = up[d]
    BY <2>1, <2>2, <2>3
  <2> QED
    BY <2>1, <2>8, <2>9 DEF Sends
<1> QED
  BY <1>1, <1>2

\* A queue without its first message, unless it was news of the end.
LEMMA ReadFact ==
    ASSUME NEW q \in Seq(DownMsg), q # <<>>, ~Ending(Head(q))
    PROVE  /\ Ends(q) => Ends(Tail(q))
           /\ q[Len(q)].kind = "lost" =>
                 Tail(q) # <<>> /\ Tail(q)[Len(Tail(q))].kind = "lost"
<1>1. /\ Tail(q) \in Seq(DownMsg) /\ Len(q) \in Nat /\ Len(q) > 0
      /\ Len(Tail(q)) = Len(q) - 1
      /\ Head(q) = q[1] /\ q[1] \in DownMsg
      /\ \A j \in 1 .. Len(q) : j > 1 =>
            j - 1 \in 1 .. Len(Tail(q)) /\ Tail(q)[j - 1] = q[j]
  BY TailFact
<1>2. Ends(q) => Ends(Tail(q))
  <2> SUFFICES ASSUME NEW j \in 1 .. Len(q), Ending(q[j]) PROVE Ends(Tail(q))
    BY DEF Ends
  <2>1. j # 1
    BY <1>1
  <2>2. j > 1
    BY <2>1, <1>1
  <2> QED
    BY <2>2, <1>1 DEF Ends
<1>3. ASSUME q[Len(q)].kind = "lost"
      PROVE  Tail(q) # <<>> /\ Tail(q)[Len(Tail(q))].kind = "lost"
  <2>1. Len(q) # 1
    BY <1>1, <1>3 DEF Ending
  <2>2. Len(q) > 1 /\ Len(q) \in 1 .. Len(q)
    BY <2>1, <1>1
  <2>3. Len(q) - 1 \in 1 .. Len(Tail(q)) /\ Tail(q)[Len(q) - 1] = q[Len(q)]
    BY <2>2, <1>1
  <2>4. Tail(q) # <<>>
    <3>1. Len(Tail(q)) # 0
      BY <2>2, <1>1
    <3> QED
      BY <3>1, <1>1, EmptySeq
  <2> QED
    BY <2>3, <2>4, <1>1, <1>3
<1> QED
  BY <1>2, <1>3

\* A tab acts or reads a message on the socket it has.
LEMMA StepFact ==
    ASSUME ArcadeInv, Sends, UNCHANGED <<room, link, bounds, ready>>,
           moves' \in 0 .. MaxMoves,
           NEW t \in Tab, NEW r \in TabState, tab' = [tab EXCEPT ![t] = r],
           r.cur = tab[t].cur,
           r.status = "connected" =>
              /\ r.cur # NoSocket /\ ready[r.cur] = "open"
              /\ Seated(r.cur) \/ Ends(down[r.cur]),
           \/ down' = down
           \/ /\ r.cur \in Socket /\ ready[r.cur] = "open"
              /\ down[r.cur] # <<>> /\ ~Ending(Head(down[r.cur]))
              /\ down' = [down EXCEPT ![r.cur] = Tail(@)]
    PROVE  ArcadeInv'
<1>1. \A d \in Socket : down[d] \in Seq(DownMsg) /\ Len(down[d]) \in Nat
  BY LenProperties DEF ArcadeInv, Wires
<1>2. \A d \in Socket :
         \/ down'[d] = down[d]
         \/ /\ ready[d] = "open" /\ down[d] # <<>> /\ ~Ending(Head(down[d]))
            /\ down'[d] = Tail(down[d])
  BY DEF ArcadeInv, Wires
<1>3. \A d \in Socket : down[d] # <<>> => Tail(down[d]) \in Seq(DownMsg)
  BY <1>1, TailFact
<1>4. Wires'
  BY <1>1, <1>2, <1>3 DEF ArcadeInv, Wires, Sends
<1>5. Seats' /\ \A d \in Socket : Seated(d)' <=> Seated(d)
  BY SeatsKeptFact DEF ArcadeInv
<1>6. ready' = ready /\ link' = link
  OBVIOUS
<1>7. Joins'
  <2>1. \A d \in Socket : ready[d] \in {"none", "connecting"} =>
           /\ up'[d] = <<>> /\ down'[d] = <<>> /\ link[d] = "none" /\ ~Seated(d)
    BY <1>2 DEF ArcadeInv, Joins, Sends
  <2>2. ASSUME NEW d \in Socket, NEW i \in 1 .. Len(up'[d]), up'[d][i].kind = "join"
        PROVE  i = 1 /\ ~Seated(d) /\ (link[d] = "up" => down'[d] = <<>>)
    <3>1. i \in 1 .. Len(up[d]) /\ up[d][i].kind = "join"
      BY <2>2 DEF Sends
    <3> QED
      BY <3>1, <1>2 DEF ArcadeInv, Joins
  <2>3. ASSUME NEW d \in Socket, NEW i \in 1 .. Len(up'[d]), up'[d][i].kind = "bye"
        PROVE  link[d] = "lost"
    <3>1. i \in 1 .. Len(up[d]) /\ up[d][i].kind = "bye"
      BY <2>3 DEF Sends
    <3> QED
      BY <3>1 DEF ArcadeInv, Joins, Holds
  <2> QED
    BY <2>1, <2>2, <2>3, <1>5, <1>6 DEF Joins, Holds
<1>8. Breaks'
  <2>1. ASSUME NEW d \in Socket, ready[d] = "open", link[d] # "up"
        PROVE  down'[d] # <<>> /\ down'[d][Len(down'[d])].kind = "lost"
    <3>1. down[d] # <<>> /\ down[d][Len(down[d])].kind = "lost"
      BY <2>1 DEF ArcadeInv, Breaks
    <3>2. CASE down'[d] = down[d]
      BY <3>1, <3>2
    <3>3. CASE ~Ending(Head(down[d])) /\ down'[d] = Tail(down[d])
      BY <3>1, <3>3, <1>1, ReadFact
    <3> QED
      BY <3>2, <3>3, <1>2
  <2> QED
    BY <2>1, <1>6 DEF Breaks
<1>9. Welcomes'
  <2>1. ASSUME NEW d \in Socket, ready[d] = "open", ~Seated(d),
               NEW i \in 1 .. Len(down'[d]), down'[d][i].kind = "welcome"
        PROVE  \E j \in 1 .. Len(down'[d]) : i < j /\ Ending(down'[d][j])
    <3>1. CASE down'[d] = down[d]
      BY <2>1, <3>1 DEF ArcadeInv, Welcomes
    <3>2. CASE down[d] # <<>> /\ down'[d] = Tail(down[d])
      <4>1. /\ i + 1 \in 1 .. Len(down[d]) /\ i + 1 > 1
            /\ down[d][i + 1].kind = "welcome"
            /\ \A j \in 1 .. Len(down[d]) : j > 1 =>
                  j - 1 \in 1 .. Len(Tail(down[d])) /\ Tail(down[d])[j - 1] = down[d][j]
        BY <2>1, <3>2, <1>1, TailFact
      <4>2. PICK j \in 1 .. Len(down[d]) : i + 1 < j /\ Ending(down[d][j])
        BY <2>1, <4>1 DEF ArcadeInv, Welcomes
      <4>3. i \in Nat /\ j \in Nat
        BY <1>1, <4>1
      <4>4. j > 1 /\ i < j - 1
        BY <4>1, <4>2, <4>3
      <4> QED
        BY <3>2, <4>1, <4>2, <4>4
    <3> QED
      BY <3>1, <3>2, <1>2
  <2> QED
    BY <2>1, <1>5, <1>6 DEF Welcomes
<1>10. Tabs'
  <2>1. ASSUME NEW d \in Socket, Ends(down[d]) PROVE Ends(down'[d])
    <3>1. CASE down'[d] = down[d]
      BY <2>1, <3>1
    <3>2. CASE down[d] # <<>> /\ ~Ending(Head(down[d])) /\ down'[d] = Tail(down[d])
      BY <2>1, <3>2, <1>1, ReadFact
    <3> QED
      BY <3>1, <3>2, <1>2
  <2>2. \A u \in Tab : tab'[u].cur = tab[u].cur /\ tab'[u] = IF u = t THEN r ELSE tab[u]
    BY DEF ArcadeInv, TypeOK
  <2>3. ASSUME NEW u \in Tab, tab'[u].status = "connected"
        PROVE  /\ tab[u].cur # NoSocket /\ ready[tab[u].cur] = "open"
               /\ tab[u].cur \in Socket
               /\ Seated(tab[u].cur) \/ Ends(down[tab[u].cur])
    <3>1. tab[u].cur \in Socket \cup {NoSocket}
      BY DEF ArcadeInv, TypeOK
    <3>2. CASE u = t
      BY <2>2, <2>3, <3>1, <3>2
    <3>3. CASE u # t
      BY <2>2, <2>3, <3>1, <3>3 DEF ArcadeInv, Tabs
    <3> QED
      BY <3>2, <3>3
  <2>4. ASSUME NEW u \in Tab, tab'[u].status = "connected"
        PROVE  seat'[tab'[u].cur] # Empty \/ Ends(down'[tab'[u].cur])
    <3>1. seat' = seat /\ tab'[u].cur = tab[u].cur
      BY <2>2 DEF room
    <3> QED
      BY <2>1, <2>3, <2>4, <3>1 DEF Seated
  <2>5. ASSUME NEW u \in Tab, tab'[u].status = "connected"
        PROVE  tab'[u].cur # NoSocket /\ ready'[tab'[u].cur] = "open"
    BY <2>2, <2>3, <2>5, <1>6
  <2>6. \A u, v \in Tab : tab'[u].cur = tab'[v].cur => u = v \/ tab'[u].cur = NoSocket
    BY <2>2 DEF ArcadeInv, Tabs
  <2>7. \A u \in Tab : tab'[u].cur # NoSocket => ready'[tab'[u].cur] # "none"
    BY <2>2, <1>6 DEF ArcadeInv, Tabs
  <2> QED
    BY <2>4, <2>5, <2>6, <2>7 DEF Tabs, Ends, Ending, Seated
<1>11. TypeOK'
  BY DEF ArcadeInv, TypeOK, RoomTypeOK, room, bounds, TabState
<1> QED
  BY <1>4, <1>5, <1>7, <1>8, <1>9, <1>10, <1>11 DEF ArcadeInv

\* A tab that was interrupted.
LEMMA InterruptedFact ==
    ASSUME TypeOK, NEW t \in Tab
    PROVE  /\ Interrupted(t) \in TabState /\ Interrupted(t).cur = NoSocket
           /\ Interrupted(t).status = "error"
<1>1. tab[t] \in TabState
  BY DEF TypeOK, TabState
<1>2. NoPlayer \in [level : Level \cup {0}, over : BOOLEAN]
  BY DEF NoPlayer
<1>3. \A old \in TabState, none \in [level : Level \cup {0}, over : BOOLEAN] :
         LET new == [old EXCEPT !.cur = NoSocket, !.known = FALSE, !.local = none,
                                !.status = "error"]
         IN new \in TabState /\ new.cur = NoSocket /\ new.status = "error"
  BY DEF TabState
<1> QED
  BY <1>1, <1>2, <1>3 DEF Interrupted

\* The tab reads that its socket has ended.
LEMMA EndFact ==
    ASSUME ArcadeInv, UNCHANGED <<room, bounds, moves>>,
           NEW t \in Tab, NEW s \in Socket, s = tab[t].cur,
           ready[s] = "open", down[s] # <<>>,
           tab' = [tab EXCEPT ![t] = Interrupted(t)],
           ready' = [ready EXCEPT ![s] = "closed"],
           link' = [link EXCEPT ![s] = "lost"],
           up' = IF link[s] = "lost" THEN up ELSE [up EXCEPT ![s] = Append(@, Bye)],
           down' = [down EXCEPT ![s] = Tail(@)]
    PROVE  ArcadeInv'
<1>1. /\ up \in [Socket -> Seq(UpMsg)] /\ down \in [Socket -> Seq(DownMsg)]
      /\ up[s] \in Seq(UpMsg) /\ down[s] \in Seq(DownMsg)
  BY DEF ArcadeInv, Wires
<1>2. Bye \in UpMsg /\ Bye.kind = "bye"
  BY DEF Bye, Msg, UpMsg
<1>3. /\ Append(up[s], Bye) \in Seq(UpMsg)
      /\ Append(up[s], Bye)[Len(up[s]) + 1] = Bye
      /\ \A i \in 1 .. Len(up[s]) : Append(up[s], Bye)[i] = up[s][i]
      /\ \A i \in 1 .. Len(Append(up[s], Bye)) : i \in 1 .. Len(up[s]) \/ i = Len(up[s]) + 1
  BY <1>1, <1>2, BehindFact
<1>4. Tail(down[s]) \in Seq(DownMsg)
  BY <1>1, TailFact
<1>5. /\ ready'[s] = "closed" /\ link'[s] = "lost"
      /\ up'[s] \in {up[s], Append(up[s], Bye)}
      /\ \A d \in Socket : d # s => /\ up'[d] = up[d] /\ down'[d] = down[d]
                                    /\ link'[d] = link[d] /\ ready'[d] = ready[d]
  BY <1>1 DEF ArcadeInv, TypeOK, RoomTypeOK
<1>6. Wires'
  BY <1>1, <1>3, <1>4 DEF Wires
<1>7. Seats' /\ \A d \in Socket : Seated(d)' <=> Seated(d)
  BY SeatsKeptFact DEF ArcadeInv
<1>8. Joins'
  <2>1. \A d \in Socket : ready'[d] \in {"none", "connecting"} =>
           /\ up'[d] = <<>> /\ down'[d] = <<>> /\ link'[d] = "none" /\ ~Seated(d)'
    BY <1>5, <1>7 DEF ArcadeInv, Joins
  <2>2. ASSUME NEW d \in Socket, NEW i \in 1 .. Len(up'[d]), up'[d][i].kind = "join"
        PROVE  i = 1 /\ ~Seated(d)' /\ (link'[d] = "up" => down'[d] = <<>>)
    <3>1. CASE d # s
      BY <2>2, <3>1, <1>5, <1>7 DEF ArcadeInv, Joins
    <3>2. CASE d = s
      <4>1. i \in 1 .. Len(up[s]) /\ up[s][i].kind = "join"
        BY <2>2, <3>2, <1>2, <1>3, <1>5
      <4>2. i = 1 /\ ~Seated(s)
        BY <4>1 DEF ArcadeInv, Joins
      <4> QED
        BY <4>2, <3>2, <1>5, <1>7
    <3> QED
      BY <3>1, <3>2
  <2>3. \A d \in Socket : Holds(up'[d], "bye") => link'[d] = "lost"
    BY <1>5 DEF ArcadeInv, Joins
  <2> QED
    BY <2>1, <2>2, <2>3 DEF Joins, Holds
<1>9. Breaks'
  <2>1. \A d \in Socket : ready'[d] = "open" => d # s
    BY <1>5
  <2> QED
    BY <2>1, <1>5 DEF ArcadeInv, Breaks
<1>10. Welcomes'
  <2>1. \A d \in Socket : ready'[d] = "open" => d # s
    BY <1>5
  <2> QED
    BY <2>1, <1>5, <1>7 DEF ArcadeInv, Welcomes, Ending
<1>11. Interrupted(t) \in TabState /\ Interrupted(t).cur = NoSocket
       /\ Interrupted(t).status = "error"
  BY InterruptedFact DEF ArcadeInv
<1>12. \A u \in Tab : tab'[u] = IF u = t THEN Interrupted(t) ELSE tab[u]
  BY DEF ArcadeInv, TypeOK
<1>13. Tabs'
  <2>1. \A u \in Tab : u # t => tab[u].cur # s
    BY NoSocketAssumption DEF ArcadeInv, Tabs
  <2>2. \A u \in Tab : tab[u].cur \in Socket \cup {NoSocket}
    BY DEF ArcadeInv, TypeOK
  <2>3. ASSUME NEW u \in Tab, tab'[u].status = "connected"
        PROVE  /\ tab'[u].cur # NoSocket /\ ready'[tab'[u].cur] = "open"
               /\ seat'[tab'[u].cur] # Empty \/ Ends(down'[tab'[u].cur])
    <3>1. u # t /\ tab'[u] = tab[u]
      BY <2>3, <1>11, <1>12
    <3>2. /\ tab[u].cur # NoSocket /\ ready[tab[u].cur] = "open"
          /\ Seated(tab[u].cur) \/ Ends(down[tab[u].cur])
      BY <2>3, <3>1 DEF ArcadeInv, Tabs
    <3>3. tab[u].cur \in Socket /\ tab[u].cur # s
      BY <2>1, <2>2, <3>1, <3>2
    <3>4. seat' = seat
      BY DEF room
    <3> QED
      BY <3>1, <3>2, <3>3, <3>4, <1>5 DEF Seated
  <2>4. \A u, v \in Tab : tab'[u].cur = tab'[v].cur => u = v \/ tab'[u].cur = NoSocket
    BY <1>11, <1>12 DEF ArcadeInv, Tabs
  <2>5. \A u \in Tab : tab'[u].cur # NoSocket => ready'[tab'[u].cur] # "none"
    BY <1>5, <1>11, <1>12, <2>1, <2>2 DEF ArcadeInv, Tabs
  <2> QED
    BY <2>3, <2>4, <2>5 DEF Tabs, Ends, Ending, Seated
<1>14. TypeOK'
  BY <1>11 DEF ArcadeInv, TypeOK, RoomTypeOK, room, bounds, TabState
<1> QED
  BY <1>6, <1>7, <1>8, <1>9, <1>10, <1>13, <1>14 DEF ArcadeInv

\* What close() does to a socket, which stays closed, and to no other.
LEMMA CloseFact ==
    ASSUME ArcadeInv, NEW c \in Socket \cup {NoSocket},
           NEW states \in [Socket -> {"none", "connecting", "open", "closed"}],
           Close(c, states)
    PROVE  /\ up' \in [Socket -> Seq(UpMsg)] /\ down' \in [Socket -> Seq(DownMsg)]
           /\ link' \in [Socket -> {"none", "up", "lost"}]
           /\ ready' \in [Socket -> {"none", "connecting", "open", "closed"}]
           /\ \A d \in Socket :
                 \/ /\ ready'[d] = states[d] /\ up'[d] = up[d]
                    /\ down'[d] = down[d] /\ link'[d] = link[d]
                 \/ /\ d = c /\ ready'[d] = "closed" /\ down'[d] = <<>>
                    /\ \/ up'[d] = up[d] /\ link'[d] = link[d]
                       \/ up'[d] = Append(up[d], Bye) /\ link'[d] = "lost"
<1>1. /\ up \in [Socket -> Seq(UpMsg)] /\ down \in [Socket -> Seq(DownMsg)]
      /\ link \in [Socket -> {"none", "up", "lost"}]
  BY DEF ArcadeInv, Wires, TypeOK, RoomTypeOK
<1>2. CASE c = NoSocket \/ states[c] \notin {"connecting", "open"}
  BY <1>1, <1>2 DEF Close, wires
<1>3. CASE ~(c = NoSocket \/ states[c] \notin {"connecting", "open"})
  <2>1. c \in Socket
    BY <1>3
  <2>2. /\ ready' = [states EXCEPT ![c] = "closed"]
        /\ down' = [down EXCEPT ![c] = <<>>]
        /\ \/ /\ link' = [link EXCEPT ![c] = "lost"]
              /\ up' = [up EXCEPT ![c] = Append(@, Bye)]
           \/ link' = link /\ up' = up
    BY <1>3 DEF Close
  <2>3. Append(up[c], Bye) \in Seq(UpMsg)
    <3>1. Bye \in UpMsg /\ up[c] \in Seq(UpMsg)
      BY <1>1, <2>1 DEF Bye, Msg, UpMsg
    <3> QED
      BY <3>1, BehindFact
  <2>4. <<>> \in Seq(DownMsg)
    OBVIOUS
  <2> QED
    BY <1>1, <2>1, <2>2, <2>3, <2>4
<1> QED
  BY <1>2, <1>3

\* A tab lets go of its socket, for a new one or for none.
LEMMA CloseStepFact ==
    ASSUME ArcadeInv, UNCHANGED <<room, bounds, moves>>,
           NEW t \in Tab, NEW r \in TabState, tab' = [tab EXCEPT ![t] = r],
           r.status # "connected", NEW states, Close(tab[t].cur, states),
           \/ r.cur = NoSocket /\ states = ready
           \/ /\ r.cur \in Socket /\ ready[r.cur] = "none"
              /\ states = [ready EXCEPT ![r.cur] = "connecting"]
    PROVE  ArcadeInv'
<1> DEFINE c == tab[t].cur
<1>1. c \in Socket \cup {NoSocket}
      /\ states \in [Socket -> {"none", "connecting", "open", "closed"}]
  BY DEF ArcadeInv, TypeOK
<1>2. \A d \in Socket : \/ states[d] = ready[d]
                        \/ /\ d = r.cur /\ ready[d] = "none"
                           /\ states[d] = "connecting"
  BY DEF ArcadeInv, TypeOK
<1>3. \A u \in Tab : tab'[u] = IF u = t THEN r ELSE tab[u]
  BY DEF ArcadeInv, TypeOK
<1>4. \A u \in Tab : tab[u].cur \in Socket \cup {NoSocket}
  BY DEF ArcadeInv, TypeOK
<1>5. Close(c, states)
  OBVIOUS
<1>6. /\ up' \in [Socket -> Seq(UpMsg)] /\ down' \in [Socket -> Seq(DownMsg)]
      /\ link' \in [Socket -> {"none", "up", "lost"}]
      /\ ready' \in [Socket -> {"none", "connecting", "open", "closed"}]
      /\ \A d \in Socket :
            \/ /\ ready'[d] = states[d] /\ up'[d] = up[d]
               /\ down'[d] = down[d] /\ link'[d] = link[d]
            \/ /\ d = c /\ ready'[d] = "closed" /\ down'[d] = <<>>
               /\ \/ up'[d] = up[d] /\ link'[d] = link[d]
                  \/ up'[d] = Append(up[d], Bye) /\ link'[d] = "lost"
  BY <1>1, <1>5, CloseFact
<1>7. \A u \in Tab : u # t => tab[u].cur # c \/ tab[u].cur = NoSocket
  BY DEF ArcadeInv, Tabs
<1>8. r.cur = NoSocket \/ (r.cur \in Socket /\ ready[r.cur] = "none")
  OBVIOUS
<1> HIDE DEF c
<1>9. Seats' /\ \A d \in Socket : Seated(d)' <=> Seated(d)
  BY SeatsKeptFact DEF ArcadeInv
<1>10. seat' = seat
  BY DEF room
<1>11. Joins'
  <2>1. ASSUME NEW d \in Socket, ready'[d] \in {"none", "connecting"}
        PROVE  /\ up'[d] = <<>> /\ down'[d] = <<>> /\ link'[d] = "none" /\ ~Seated(d)'
    <3>1. /\ ready'[d] = states[d] /\ up'[d] = up[d]
          /\ down'[d] = down[d] /\ link'[d] = link[d]
      BY <2>1, <1>6
    <3>2. ready[d] \in {"none", "connecting"}
      BY <2>1, <3>1, <1>2
    <3> QED
      BY <3>1, <3>2, <1>9 DEF ArcadeInv, Joins
  <2>2. ASSUME NEW d \in Socket, NEW i \in 1 .. Len(up'[d]), up'[d][i].kind = "join"
        PROVE  i = 1 /\ ~Seated(d)' /\ (link'[d] = "up" => down'[d] = <<>>)
    <3>1. CASE up'[d] = up[d]
      <4>1. i = 1 /\ ~Seated(d) /\ (link[d] = "up" => down[d] = <<>>)
        BY <2>2, <3>1 DEF ArcadeInv, Joins
      <4>2. \/ down'[d] = down[d] /\ link'[d] = link[d]
            \/ down'[d] = <<>>
        BY <1>6
      <4> QED
        BY <4>1, <4>2, <1>9
    <3>2. CASE up'[d] = Append(up[d], Bye) /\ link'[d] = "lost"
      <4>1. /\ up[d] \in Seq(UpMsg) /\ Bye \in UpMsg /\ Bye.kind = "bye"
        BY DEF ArcadeInv, Wires, Bye, Msg, UpMsg
      <4>2. i \in 1 .. Len(up[d]) /\ up[d][i].kind = "join"
        <5>1. /\ Append(up[d], Bye)[Len(up[d]) + 1] = Bye
              /\ \A j \in 1 .. Len(up[d]) : Append(up[d], Bye)[j] = up[d][j]
              /\ \A j \in 1 .. Len(Append(up[d], Bye)) :
                    j \in 1 .. Len(up[d]) \/ j = Len(up[d]) + 1
          BY <4>1, BehindFact
        <5> QED
          BY <2>2, <3>2, <4>1, <5>1
      <4> QED
        BY <3>2, <4>2, <1>9 DEF ArcadeInv, Joins
    <3> QED
      BY <3>1, <3>2, <1>6
  <2>3. \A d \in Socket : Holds(up'[d], "bye") => link'[d] = "lost"
    BY <1>6 DEF ArcadeInv, Joins
  <2> QED
    BY <2>1, <2>2, <2>3 DEF Joins, Holds
<1>12. ASSUME NEW d \in Socket, ready'[d] = "open"
       PROVE  /\ ready[d] = "open" /\ down'[d] = down[d] /\ link'[d] = link[d]
  BY <1>12, <1>2, <1>6
<1>13. Breaks'
  BY <1>12 DEF ArcadeInv, Breaks
<1>14. Welcomes'
  BY <1>12, <1>9 DEF ArcadeInv, Welcomes, Ending
<1>15. Tabs'
  <2>1. ASSUME NEW u \in Tab, tab'[u].status = "connected"
        PROVE  /\ tab'[u].cur # NoSocket /\ ready'[tab'[u].cur] = "open"
               /\ seat'[tab'[u].cur] # Empty \/ Ends(down'[tab'[u].cur])
    <3>1. u # t /\ tab'[u] = tab[u]
      BY <2>1, <1>3
    <3>2. /\ tab[u].cur # NoSocket /\ ready[tab[u].cur] = "open"
          /\ Seated(tab[u].cur) \/ Ends(down[tab[u].cur])
      BY <2>1, <3>1 DEF ArcadeInv, Tabs
    <3>3. tab[u].cur \in Socket /\ tab[u].cur # c
      BY <1>4, <1>7, <3>1, <3>2
    <3>4. /\ ready'[tab[u].cur] = states[tab[u].cur]
          /\ down'[tab[u].cur] = down[tab[u].cur]
      BY <3>3, <1>6
    <3>5. ready'[tab[u].cur] = "open"
      BY <3>2, <3>3, <3>4, <1>2
    <3> QED
      BY <3>1, <3>2, <3>4, <3>5, <1>10 DEF Seated
  <2>2. \A u, v \in Tab : tab'[u].cur = tab'[v].cur => u = v \/ tab'[u].cur = NoSocket
    BY <1>3, <1>8 DEF ArcadeInv, Tabs
  <2>3. ASSUME NEW u \in Tab, tab'[u].cur # NoSocket
        PROVE  ready'[tab'[u].cur] # "none"
    <3>1. CASE u = t
      <4>1. tab'[u].cur = r.cur /\ r.cur \in Socket
        BY <2>3, <3>1, <1>3, <1>8
      <4>2. states[r.cur] = "connecting"
        BY <2>3, <4>1, NoSocketAssumption DEF ArcadeInv, TypeOK
      <4> QED
        BY <4>1, <4>2, <1>6
    <3>2. CASE u # t
      <4>1. /\ tab'[u].cur = tab[u].cur /\ tab[u].cur \in Socket
            /\ ready[tab[u].cur] # "none"
        BY <2>3, <3>2, <1>3, <1>4 DEF ArcadeInv, Tabs
      <4>2. states[tab[u].cur] # "none"
        BY <4>1, <1>2
      <4> QED
        BY <4>1, <4>2, <1>6
    <3> QED
      BY <3>1, <3>2
  <2> QED
    BY <2>1, <2>2, <2>3 DEF Tabs, Ends, Ending, Seated
<1>16. TypeOK'
  BY <1>6 DEF ArcadeInv, TypeOK, RoomTypeOK, room, bounds, TabState
<1> QED
  BY <1>6, <1>9, <1>11, <1>13, <1>14, <1>15, <1>16 DEF ArcadeInv, Wires

\* A connection opens, and the join goes out.
LEMMA OpenedFact ==
    ASSUME ArcadeInv, NEW s \in Socket, Opened(s)
    PROVE  ArcadeInv'
<1>1. /\ ready[s] = "connecting" /\ ready' = [ready EXCEPT ![s] = "open"]
      /\ link' = [link EXCEPT ![s] = "up"] /\ up' = [up EXCEPT ![s] = <<Msg("join", 0)>>]
      /\ UNCHANGED room /\ down' = down /\ UNCHANGED bounds /\ tab' = tab /\ moves' = moves
  BY DEF Opened
<1>2. up[s] = <<>> /\ down[s] = <<>> /\ ~Seated(s)
  BY <1>1 DEF ArcadeInv, Joins
<1>3. /\ <<Msg("join", 0)>> \in Seq(UpMsg)
      /\ Len(<<Msg("join", 0)>>) = 1 /\ <<Msg("join", 0)>>[1].kind = "join"
  BY DEF Msg, UpMsg
<1>4. /\ ready'[s] = "open" /\ link'[s] = "up" /\ up'[s] = <<Msg("join", 0)>>
      /\ \A d \in Socket : d # s => /\ up'[d] = up[d] /\ link'[d] = link[d]
                                    /\ ready'[d] = ready[d]
      /\ link' \in [Socket -> {"none", "up", "lost"}]
      /\ ready' \in [Socket -> {"none", "connecting", "open", "closed"}]
  BY <1>1 DEF ArcadeInv, TypeOK, RoomTypeOK, Wires
<1>5. Wires'
  BY <1>1, <1>3 DEF ArcadeInv, Wires
<1>6. Seats' /\ \A d \in Socket : Seated(d)' <=> Seated(d)
  BY <1>1, SeatsKeptFact DEF ArcadeInv
<1>7. Joins'
  <2>1. \A d \in Socket : ready'[d] \in {"none", "connecting"} =>
           /\ up'[d] = <<>> /\ down'[d] = <<>> /\ link'[d] = "none" /\ ~Seated(d)'
    BY <1>1, <1>4, <1>6 DEF ArcadeInv, Joins
  <2>2. ASSUME NEW d \in Socket, NEW i \in 1 .. Len(up'[d]), up'[d][i].kind = "join"
        PROVE  i = 1 /\ ~Seated(d)' /\ (link'[d] = "up" => down'[d] = <<>>)
    <3>1. CASE d # s
      BY <2>2, <3>1, <1>1, <1>4, <1>6 DEF ArcadeInv, Joins
    <3>2. CASE d = s
      <4>1. i \in 1 .. 1
        BY <3>2, <1>3, <1>4
      <4> QED
        BY <4>1, <3>2, <1>1, <1>2, <1>6
    <3> QED
      BY <3>1, <3>2
  <2>3. ASSUME NEW d \in Socket, NEW i \in 1 .. Len(up'[d]), up'[d][i].kind = "bye"
        PROVE  link'[d] = "lost"
    <3>1. CASE d # s
      BY <2>3, <3>1, <1>4 DEF ArcadeInv, Joins, Holds
    <3>2. CASE d = s
      <4>1. i \in 1 .. 1
        BY <3>2, <1>3, <1>4
      <4> QED
        BY <4>1, <2>3, <3>2, <1>3, <1>4
    <3> QED
      BY <3>1, <3>2
  <2> QED
    BY <2>1, <2>2, <2>3 DEF Joins, Holds
<1>8. Breaks'
  BY <1>1, <1>4 DEF ArcadeInv, Breaks
<1>9. Welcomes'
  <2>1. ASSUME NEW d \in Socket, ready'[d] = "open", ~Seated(d)',
               NEW i \in 1 .. Len(down'[d]), down'[d][i].kind = "welcome"
        PROVE  \E j \in 1 .. Len(down'[d]) : i < j /\ Ending(down'[d][j])
    <3>1. d # s
      <4> SUFFICES ASSUME d = s PROVE FALSE
        OBVIOUS
      <4>1. i \in 1 .. 0
        BY <1>1, <1>2, EmptySeq
      <4> QED
        BY <4>1
    <3> QED
      BY <2>1, <3>1, <1>1, <1>4, <1>6 DEF ArcadeInv, Welcomes
  <2> QED
    BY <2>1 DEF Welcomes, Ending
<1>10. Tabs'
  <2>1. \A u \in Tab : tab[u].cur \in Socket \cup {NoSocket}
    BY DEF ArcadeInv, TypeOK
  <2>2. seat' = seat
    BY <1>1 DEF room
  <2>3. \A d \in Socket : (ready[d] = "open" => ready'[d] = "open")
                          /\ (ready[d] # "none" => ready'[d] # "none")
    BY <1>1, <1>4
  <2>4. ASSUME NEW u \in Tab, tab[u].status = "connected"
        PROVE  /\ tab[u].cur # NoSocket /\ ready'[tab[u].cur] = "open"
               /\ seat'[tab[u].cur] # Empty \/ Ends(down'[tab[u].cur])
    BY <2>1, <2>2, <2>3, <2>4, <1>1 DEF ArcadeInv, Tabs, Seated
  <2>5. \A u \in Tab : tab[u].cur # NoSocket => ready'[tab[u].cur] # "none"
    BY <2>1, <2>3 DEF ArcadeInv, Tabs
  <2> QED
    BY <2>4, <2>5, <1>1 DEF ArcadeInv, Tabs, Ends, Ending, Seated
<1>11. TypeOK'
  BY <1>1, <1>4 DEF ArcadeInv, TypeOK, RoomTypeOK, room, bounds
<1> QED
  BY <1>5, <1>6, <1>7, <1>8, <1>9, <1>10, <1>11 DEF ArcadeInv

\* A connection fails: its tab is interrupted.
LEMMA ConnectFailsFact ==
    ASSUME ArcadeInv, NEW s \in Socket, ConnectFails(s)
    PROVE  ArcadeInv'
<1>1. /\ ready[s] = "connecting" /\ ready' = [ready EXCEPT ![s] = "closed"]
      /\ tab' = [t \in Tab |-> IF t \in Owner(s) THEN Interrupted(t) ELSE tab[t]]
      /\ UNCHANGED room /\ up' = up /\ down' = down /\ link' = link
      /\ UNCHANGED bounds /\ moves' = moves
  BY DEF ConnectFails, wires
<1>2. /\ ready'[s] = "closed"
      /\ \A d \in Socket : d # s => ready'[d] = ready[d]
  BY <1>1 DEF ArcadeInv, TypeOK
<1>3. \A u \in Tab : /\ Interrupted(u) \in TabState /\ Interrupted(u).cur = NoSocket
                     /\ Interrupted(u).status = "error"
  BY InterruptedFact DEF ArcadeInv
<1>4. \A u \in Tab : \/ tab'[u] = Interrupted(u)
                     \/ tab'[u] = tab[u] /\ tab[u].cur # s
  BY <1>1 DEF Owner
<1>5. Seats' /\ \A d \in Socket : Seated(d)' <=> Seated(d)
  BY <1>1, SeatsKeptFact DEF ArcadeInv
<1>6. Wires'
  BY <1>1 DEF ArcadeInv, Wires
<1>7. Joins'
  <2>1. \A d \in Socket : ready'[d] \in {"none", "connecting"} =>
           /\ up'[d] = <<>> /\ down'[d] = <<>> /\ link'[d] = "none" /\ ~Seated(d)'
    BY <1>1, <1>2, <1>5 DEF ArcadeInv, Joins
  <2> QED
    BY <2>1, <1>1, <1>5 DEF ArcadeInv, Joins, Holds
<1>8. \A d \in Socket : ready'[d] = "open" => ready[d] = "open"
  BY <1>2
<1>9. Breaks'
  BY <1>1, <1>8 DEF ArcadeInv, Breaks
<1>10. Welcomes'
  BY <1>1, <1>5, <1>8 DEF ArcadeInv, Welcomes, Ending
<1>11. Tabs'
  <2>1. \A u \in Tab : tab[u].cur \in Socket \cup {NoSocket}
    BY DEF ArcadeInv, TypeOK
  <2>2. seat' = seat
    BY <1>1 DEF room
  <2>3. ASSUME NEW u \in Tab, tab'[u].status = "connected"
        PROVE  /\ tab'[u].cur # NoSocket /\ ready'[tab'[u].cur] = "open"
               /\ seat'[tab'[u].cur] # Empty \/ Ends(down'[tab'[u].cur])
    <3>1. tab'[u] = tab[u] /\ tab[u].cur # s
      BY <2>3, <1>3, <1>4
    <3>2. /\ tab[u].cur # NoSocket /\ ready[tab[u].cur] = "open"
          /\ Seated(tab[u].cur) \/ Ends(down[tab[u].cur])
      BY <2>3, <3>1 DEF ArcadeInv, Tabs
    <3> QED
      BY <3>1, <3>2, <2>1, <2>2, <1>1, <1>2 DEF Seated
  <2>4. \A u, v \in Tab : tab'[u].cur = tab'[v].cur => u = v \/ tab'[u].cur = NoSocket
    BY <1>3, <1>4 DEF ArcadeInv, Tabs
  <2>5. \A u \in Tab : tab'[u].cur # NoSocket => ready'[tab'[u].cur] # "none"
    BY <1>2, <1>3, <1>4, <2>1 DEF ArcadeInv, Tabs
  <2> QED
    BY <2>3, <2>4, <2>5 DEF Tabs, Ends, Ending, Seated
<1>12. TypeOK'
  <2>1. tab' \in [Tab -> TabState]
    <3>1. tab \in [Tab -> TabState]
      BY DEF ArcadeInv, TypeOK, TabState
    <3> QED
      BY <3>1, <1>1, <1>3
  <2> QED
    BY <2>1, <1>1 DEF ArcadeInv, TypeOK, RoomTypeOK, room, bounds, TabState
<1> QED
  BY <1>5, <1>6, <1>7, <1>9, <1>10, <1>11, <1>12 DEF ArcadeInv

\* Queues of messages an action may send.
Saying == {q \in Seq(UpMsg) : \A i \in 1 .. Len(q) : q[i].kind \notin {"join", "bye"}}

\* What an action says may be appended to what was said.
LEMMA SayFact ==
    /\ <<>> \in Saying
    /\ \A m \in UpMsg : m.kind \notin {"join", "bye"} => <<m>> \in Saying
    /\ \A p, q \in Saying : p \o q \in Saying
<1>1. <<>> \in Saying
  BY DEF Saying
<1>2. \A m \in UpMsg : m.kind \notin {"join", "bye"} => <<m>> \in Saying
  BY DEF Saying
<1>3. ASSUME NEW p \in Saying, NEW q \in Saying PROVE p \o q \in Saying
  <2>1. p \in Seq(UpMsg) /\ q \in Seq(UpMsg)
    BY DEF Saying
  <2>2. /\ p \o q \in Seq(UpMsg) /\ Len(p \o q) = Len(p) + Len(q)
        /\ \A i \in 1 .. Len(p) + Len(q) : (p \o q)[i] =
              IF i <= Len(p) THEN p[i] ELSE q[i - Len(p)]
    BY <2>1, ConcatProperties
  <2>3. Len(p) \in Nat /\ Len(q) \in Nat
    BY <2>1, LenProperties
  <2>4. PICK n \in Nat, k \in Nat : n = Len(p) /\ k = Len(q)
    BY <2>3
  <2>5. \A i \in 1 .. n + k : IF i <= n THEN i \in 1 .. n ELSE i - n \in 1 .. k
    OBVIOUS
  <2>6. \A i \in 1 .. n : p[i].kind \notin {"join", "bye"}
    BY <2>4 DEF Saying
  <2>7. \A i \in 1 .. k : q[i].kind \notin {"join", "bye"}
    BY <2>4 DEF Saying
  <2>8. ASSUME NEW i \in 1 .. n + k
        PROVE  (p \o q)[i].kind \notin {"join", "bye"}
    <3>1. (p \o q)[i] = IF i <= n THEN p[i] ELSE q[i - n]
      BY <2>2, <2>4
    <3> QED
      BY <3>1, <2>5, <2>6, <2>7
  <2> QED
    BY <2>2, <2>4, <2>8 DEF Saying
<1> QED
  BY <1>1, <1>2, <1>3

\* And what was said stays in the queue of what is said after it.
LEMMA SaidFact ==
    ASSUME TypeOK, Wires, NEW t \in Tab, NEW messages \in Saying, Sent(t, messages)
    PROVE  Sends
BY SentFact DEF Saying

\* The messages of the tabs.
LEMMA WordsFact ==
    /\ \A k \in {"reset", "position", "level_one_complete", "collect"} :
          <<Msg(k, 0)>> \in Saying
    /\ \A c \in Chip : <<Msg("level_one_chip", ClientName(c))>> \in Saying
    /\ \A n \in TestLevel : <<Msg("admin_configure_test", n)>> \in Saying
    /\ \A n \in Level : <<Msg("input", n)>> \in Saying
<1>1. \A k \in {"reset", "position", "level_one_complete", "collect"} :
         Msg(k, 0) \in UpMsg /\ Msg(k, 0).kind = k
  BY DEF Msg, UpMsg
<1>2. \A c \in Chip : /\ Msg("level_one_chip", ClientName(c)) \in UpMsg
                      /\ Msg("level_one_chip", ClientName(c)).kind = "level_one_chip"
  BY DEF Msg, UpMsg
<1>3. \A n \in TestLevel : /\ Msg("admin_configure_test", n) \in UpMsg
                           /\ Msg("admin_configure_test", n).kind = "admin_configure_test"
  BY DEF Msg, UpMsg
<1>4. \A n \in Level : Msg("input", n) \in UpMsg /\ Msg("input", n).kind = "input"
  BY DEF Msg, UpMsg
<1> QED
  BY <1>1, <1>2, <1>3, <1>4, SayFact

\* The chips that a step of level 1 claims: at most the one it ends on.
LEMMA ClaimFact ==
    ASSUME NEW place, NEW new, new \subseteq {place} \cap Chip
    PROVE  [i \in 1 .. Cardinality(new) |->
               Msg("level_one_chip", ClientName(SetToSeq(new)[i]))] \in Saying
<1>1. CASE new = {}
  <2>1. Cardinality(new) = 0
    BY <1>1, FS_EmptySet
  <2>2. [i \in 1 .. Cardinality(new) |->
               Msg("level_one_chip", ClientName(SetToSeq(new)[i]))] = <<>>
    BY <2>1
  <2> QED
    BY <2>2, SayFact
<1>2. CASE new # {}
  <2>1. new = {place} /\ place \in Chip
    BY <1>2
  <2>2. Cardinality(new) = 1
    BY <2>1, FS_Singleton
  <2>3. SetToSeq(new) \in [1 .. 1 -> new]
    <3> DEFINE f == [i \in 1 .. 1 |-> place]
    <3>1. f \in [1 .. 1 -> new] /\ IsInjective(f)
      BY <2>1 DEF IsInjective
    <3> HIDE DEF f
    <3>2. \E g \in [1 .. 1 -> new] : IsInjective(g)
      BY <3>1
    <3> QED
      BY <2>2, <3>2 DEF SetToSeq
  <2>4. SetToSeq(new)[1] = place
    BY <2>1, <2>3
  <2>5. [i \in 1 .. Cardinality(new) |->
               Msg("level_one_chip", ClientName(SetToSeq(new)[i]))]
           = <<Msg("level_one_chip", ClientName(place))>>
    BY <2>2, <2>4
  <2> QED
    BY <2>1, <2>5, WordsFact
<1> QED
  BY <1>1, <1>2

\* What a tab that says it is connected has.
LEMMA HeldFact ==
    ASSUME ArcadeInv, NEW t \in Tab
    PROVE  /\ tab[t] \in TabState
           /\ tab[t].status = "connected" =>
                 /\ tab[t].cur # NoSocket /\ ready[tab[t].cur] = "open"
                 /\ Seated(tab[t].cur) \/ Ends(down[tab[t].cur])
BY DEF ArcadeInv, TypeOK, TabState, Tabs

\* A tab starts a connection.
LEMMA ConnectFact ==
    ASSUME ArcadeInv, NEW t \in Tab, NEW asking \in TestLevel \cup {0},
           NEW pending \in TestLevel \cup {0}, Connect(t, asking, pending)
    PROVE  ArcadeInv'
<1> DEFINE s == CHOOSE n \in Fresh : TRUE
           r == [tab[t] EXCEPT !.cur = s, !.run = NoRun, !.status = "connecting",
                               !.asking = asking, !.pending = pending,
                               !.late = Late(t)]
<1>1. /\ Fresh # {} /\ tab' = [tab EXCEPT ![t] = r]
      /\ Close(tab[t].cur, [ready EXCEPT ![s] = "connecting"])
      /\ UNCHANGED <<room, bounds, moves>>
  BY DEF Connect
<1>2. s \in Socket /\ ready[s] = "none"
  <2>1. s \in Fresh
    BY <1>1
  <2> QED
    BY <2>1 DEF Fresh
<1> HIDE DEF s
<1>3. r \in TabState /\ r.cur = s /\ r.status = "connecting"
  <2>1. tab[t] \in TabState
    BY HeldFact
  <2>2. NoRun \in [collected : SUBSET Chip, completed : BOOLEAN]
    BY DEF NoRun
  <2>3. Late(t) \in BOOLEAN
    <3>1. tab[t].late \in BOOLEAN
      BY <2>1 DEF TabState
    <3> QED
      BY <3>1 DEF Late
  <2> QED
    BY <1>2, <2>1, <2>2, <2>3 DEF TabState
<1> HIDE DEF r
<1> QED
  BY <1>1, <1>2, <1>3, CloseStepFact

\* A tab acts, or reads a message and acts on it.
LEMMA ActFact ==
    ASSUME ArcadeInv, NEW t \in Tab, NEW messages \in Saying, Sent(t, messages),
           UNCHANGED <<room, down, link, bounds, ready>>, moves' \in 0 .. MaxMoves,
           NEW r \in TabState, tab' = [tab EXCEPT ![t] = r],
           r.cur = tab[t].cur, r.status = tab[t].status
    PROVE  ArcadeInv'
<1>1. Sends
  BY SaidFact DEF ArcadeInv
<1>2. r.status = "connected" =>
         /\ r.cur # NoSocket /\ ready[r.cur] = "open"
         /\ Seated(r.cur) \/ Ends(down[r.cur])
  BY HeldFact
<1>3. UNCHANGED <<room, link, bounds, ready>> /\ down' = down
  OBVIOUS
<1> QED
  BY <1>1, <1>2, <1>3, StepFact

\* The handlers of message and close.
LEMMA ReceiveFact ==
    ASSUME ArcadeInv, NEW t \in Tab, Receive(t)
    PROVE  ArcadeInv'
<1> DEFINE s == tab[t].cur
           m == Head(down[s])
<1>1. /\ s # NoSocket /\ ready[s] = "open" /\ down[s] # <<>>
      /\ down' = [down EXCEPT ![s] = Tail(@)] /\ UNCHANGED <<room, bounds>>
  BY DEF Receive
<1>2. s \in Socket /\ tab[t] \in TabState
  BY <1>1, HeldFact DEF TabState
<1>3. down[s] \in Seq(DownMsg) /\ m \in DownMsg /\ m = down[s][1]
      /\ 1 \in 1 .. Len(down[s])
  <2>1. down[s] \in Seq(DownMsg)
    BY <1>2 DEF ArcadeInv, Wires
  <2>2. /\ Len(down[s]) \in Nat /\ Len(down[s]) > 0
        /\ Head(down[s]) = down[s][1] /\ down[s][1] \in DownMsg
    BY <1>1, <2>1, TailFact
  <2>3. 1 \in 1 .. Len(down[s])
    BY <2>2
  <2> QED
    BY <2>1, <2>2, <2>3
<1>4. m.kind \in {"welcome", "error", "replaced", "lost", "state"}
      /\ (m.kind = "state" => m.value \in [level : Level \cup {0}, over : BOOLEAN])
  BY <1>3, DownMsgFact
<1>5. \/ m.kind = "welcome" /\ Welcome(t) /\ UNCHANGED <<ready, link, moves>>
      \/ /\ m.kind = "error" /\ UNCHANGED <<ready, up, link, moves>>
         /\ tab' = [tab EXCEPT ![t].status = IF @ = "connecting" THEN "error" ELSE @]
      \/ m.kind = "state" /\ Snapshot(t, m.value) /\ UNCHANGED <<ready, link>>
      \/ /\ m.kind \in {"replaced", "lost"}
         /\ ready' = [ready EXCEPT ![s] = "closed"]
         /\ link' = [link EXCEPT ![s] = "lost"]
         /\ up' = IF link[s] = "lost" THEN up ELSE [up EXCEPT ![s] = Append(@, Bye)]
         /\ tab' = [tab EXCEPT ![t] = Interrupted(t)]
         /\ UNCHANGED moves
  BY <1>4 DEF Receive
<1>6. moves \in 0 .. MaxMoves
  BY DEF ArcadeInv, TypeOK
<1>7. tab[t].status = "connected" =>
         /\ tab[t].cur # NoSocket /\ ready[tab[t].cur] = "open"
         /\ Seated(tab[t].cur) \/ Ends(down[tab[t].cur])
  BY HeldFact
<1>8. ASSUME NEW r \in TabState, tab' = [tab EXCEPT ![t] = r], r.cur = s,
             r.status = "connected" => Seated(s) \/ Ends(down[s]),
             Sends, UNCHANGED <<ready, link>>, moves' \in 0 .. MaxMoves,
             m.kind \notin {"replaced", "lost"}
      PROVE  ArcadeInv'
  <2>1. ~Ending(Head(down[r.cur]))
    BY <1>8 DEF Ending
  <2>2. UNCHANGED <<room, link, bounds, ready>>
    BY <1>1, <1>8
  <2>3. /\ r.cur \in Socket /\ ready[r.cur] = "open" /\ down[r.cur] # <<>>
        /\ down' = [down EXCEPT ![r.cur] = Tail(@)] /\ r.cur = tab[t].cur
    BY <1>1, <1>2, <1>8
  <2>4. r.status = "connected" =>
           /\ r.cur # NoSocket /\ ready[r.cur] = "open"
           /\ Seated(r.cur) \/ Ends(down[r.cur])
    BY <1>1, <1>8
  <2> HIDE DEF s, m
  <2> QED
    BY <1>8, <2>1, <2>2, <2>3, <2>4, StepFact
<1>9. CASE m.kind = "welcome" /\ Welcome(t) /\ UNCHANGED <<ready, link, moves>>
  <2> DEFINE r == [tab[t] EXCEPT !.known = TRUE, !.pending = 0, !.status = "connected"]
             messages == IF tab[t].pending = 0 THEN <<>>
                         ELSE <<Msg("admin_configure_test", tab[t].pending)>>
  <2>1. r \in TabState /\ r.cur = s
    BY <1>2 DEF TabState
  <2>2. tab' = [tab EXCEPT ![t] = r] /\ Sent(t, messages)
    BY <1>9 DEF Welcome
  <2>3. messages \in Saying
    <3>1. tab[t].pending = 0 \/ tab[t].pending \in TestLevel
      BY <1>2 DEF TabState
    <3> QED
      BY <3>1, SayFact, WordsFact
  <2>4. Seated(s) \/ Ends(down[s])
    BY <1>1, <1>2, <1>3, <1>9 DEF ArcadeInv, Welcomes, Ends
  <2> HIDE DEF r, messages, s, m
  <2>5. Sends
    BY <2>2, <2>3, SaidFact DEF ArcadeInv
  <2>6. moves' \in 0 .. MaxMoves /\ UNCHANGED <<ready, link>>
    BY <1>6, <1>9
  <2>7. m.kind \notin {"replaced", "lost"}
    BY <1>9
  <2> QED
    BY <1>8, <2>1, <2>2, <2>4, <2>5, <2>6, <2>7
<1>10. CASE /\ m.kind = "error" /\ UNCHANGED <<ready, up, link, moves>>
            /\ tab' = [tab EXCEPT ![t].status = IF @ = "connecting" THEN "error" ELSE @]
  <2> DEFINE r == [tab[t] EXCEPT !.status = IF @ = "connecting" THEN "error" ELSE @]
  <2>1. r \in TabState /\ r.cur = s /\ (r.status = "connected" => tab[t].status = "connected")
    BY <1>2 DEF TabState
  <2>2. tab' = [tab EXCEPT ![t] = r]
    BY <1>10
  <2> HIDE DEF r
  <2>3. r.status = "connected" => Seated(s) \/ Ends(down[s])
    BY <1>7, <2>1
  <2> HIDE DEF s, m
  <2>4. Sends
    BY <1>10, SilentFact DEF ArcadeInv
  <2>5. moves' \in 0 .. MaxMoves /\ UNCHANGED <<ready, link>>
        /\ m.kind \notin {"replaced", "lost"}
    BY <1>6, <1>10
  <2> QED
    BY <1>8, <2>1, <2>2, <2>3, <2>4, <2>5
<1>11. CASE m.kind = "state" /\ Snapshot(t, m.value) /\ UNCHANGED <<ready, link>>
  <2> DEFINE mine == tab[t].known
             claims == mine /\ m.value.level <= 6 /\ ~m.value.over
  <2>1. PICK near \in IF claims THEN BOOLEAN ELSE {tab[t].near} :
           /\ near /\ ~tab[t].near => moves < MaxMoves
           /\ tab' = [tab EXCEPT ![t] = [tab[t] EXCEPT !.near = near,
                          !.local = IF mine THEN m.value ELSE tab[t].local]]
           /\ Sent(t, IF claims /\ near /\ ~tab[t].near
                      THEN <<Msg("collect", 0)>> ELSE <<>>)
           /\ moves' = IF claims /\ near /\ ~tab[t].near THEN moves + 1 ELSE moves
    BY <1>11 DEF Snapshot
  <2> DEFINE r == [tab[t] EXCEPT !.near = near, !.local = IF mine THEN m.value ELSE @]
             messages == IF claims /\ near /\ ~tab[t].near
                         THEN <<Msg("collect", 0)>> ELSE <<>>
  <2>2. near \in BOOLEAN /\ m.value \in [level : Level \cup {0}, over : BOOLEAN]
    <3>1. tab[t].near \in BOOLEAN
      BY <1>2 DEF TabState
    <3> QED
      BY <1>4, <1>11, <3>1
  <2>3. messages \in Saying
    BY SayFact, WordsFact
  <2>4. tab' = [tab EXCEPT ![t] = r] /\ Sent(t, messages)
    <3>1. tab' = [tab EXCEPT ![t] = r]
      BY <2>1
    <3>2. Sent(t, messages)
      BY <2>1, Zenon
    <3> QED
      BY <3>1, <3>2
  <2>5. moves' \in 0 .. MaxMoves
    <3>1. moves' = moves \/ (moves < MaxMoves /\ moves' = moves + 1)
      BY <2>1, Zenon
    <3> QED
      BY <1>6, <3>1, MovesAssumption
  <2> HIDE DEF claims, messages
  <2>6. r \in TabState /\ r.cur = s /\ r.status = tab[t].status
    BY <1>2, <2>2 DEF TabState
  <2> HIDE DEF r, mine
  <2>7. r.status = "connected" => Seated(s) \/ Ends(down[s])
    BY <1>7, <2>6
  <2> HIDE DEF s, m
  <2>8. Sends
    BY <2>3, <2>4, SaidFact DEF ArcadeInv
  <2>9. UNCHANGED <<ready, link>> /\ m.kind \notin {"replaced", "lost"}
    BY <1>11
  <2> QED
    BY <1>8, <2>4, <2>5, <2>6, <2>7, <2>8, <2>9
<1>12. CASE /\ m.kind \in {"replaced", "lost"}
            /\ ready' = [ready EXCEPT ![s] = "closed"]
            /\ link' = [link EXCEPT ![s] = "lost"]
            /\ up' = IF link[s] = "lost" THEN up ELSE [up EXCEPT ![s] = Append(@, Bye)]
            /\ tab' = [tab EXCEPT ![t] = Interrupted(t)]
            /\ UNCHANGED moves
  <2>1. s = tab[t].cur /\ UNCHANGED <<room, bounds, moves>>
    BY <1>1, <1>12
  <2> HIDE DEF s, m
  <2> QED
    BY <1>1, <1>2, <1>12, <2>1, EndFact
<1> QED
  BY <1>5, <1>9, <1>10, <1>11, <1>12

\* The reset button of the cabinet.
LEMMA ResetCabinetFact ==
    ASSUME ArcadeInv, NEW t \in Tab, ResetCabinet(t)
    PROVE  ArcadeInv'
<1> DEFINE s == tab[t].cur
<1>1. tab[t] \in TabState /\ UNCHANGED <<room, bounds>>
  BY HeldFact DEF ResetCabinet
<1>2. NoRun \in [collected : SUBSET Chip, completed : BOOLEAN]
  BY DEF NoRun
<1>3. CASE s # NoSocket /\ ready[s] = "open" /\ tab[t].local.over
  <2> DEFINE r == [tab[t] EXCEPT !.run = NoRun]
  <2>1. /\ moves < MaxMoves /\ moves' = moves + 1 /\ tab' = [tab EXCEPT ![t].run = NoRun]
        /\ Sent(t, <<Msg("reset", 0)>>) /\ UNCHANGED <<ready, down, link>>
    BY <1>3 DEF ResetCabinet
  <2>2. tab' = [tab EXCEPT ![t] = r]
    BY <2>1
  <2>3. r \in TabState /\ r.cur = tab[t].cur /\ r.status = tab[t].status
    BY <1>1, <1>2 DEF TabState
  <2>4. moves' \in 0 .. MaxMoves
    BY <2>1, MovesAssumption DEF ArcadeInv, TypeOK
  <2>5. <<Msg("reset", 0)>> \in Saying
    BY WordsFact
  <2> HIDE DEF r
  <2> QED
    BY <1>1, <2>1, <2>2, <2>3, <2>4, <2>5, ActFact
<1>4. CASE ~(s # NoSocket /\ ready[s] = "open" /\ tab[t].local.over)
  <2> DEFINE r == [tab[t] EXCEPT !.cur = NoSocket, !.known = FALSE, !.local = NoPlayer,
                      !.run = NoRun, !.status = "disconnected", !.late = Late(t)]
  <2>1. tab' = [tab EXCEPT ![t] = r] /\ Close(s, ready) /\ UNCHANGED moves
    BY <1>4 DEF ResetCabinet
  <2>2. r \in TabState /\ r.cur = NoSocket /\ r.status = "disconnected"
    <3>1. Late(t) \in BOOLEAN
      <4>1. tab[t].late \in BOOLEAN
        BY <1>1 DEF TabState
      <4> QED
        BY <4>1 DEF Late
    <3>2. NoPlayer \in [level : Level \cup {0}, over : BOOLEAN]
      BY DEF NoPlayer
    <3> QED
      BY <1>1, <1>2, <3>1, <3>2 DEF TabState
  <2> HIDE DEF r
  <2> QED
    BY <1>1, <2>1, <2>2, CloseStepFact
<1> QED
  BY <1>3, <1>4

\* The page is closed.
LEMMA LeaveFact ==
    ASSUME ArcadeInv, NEW t \in Tab, Leave(t)
    PROVE  ArcadeInv'
<1>1. /\ tab' = [tab EXCEPT ![t] = Closed] /\ Close(tab[t].cur, ready)
      /\ UNCHANGED <<room, bounds, moves>>
  BY DEF Leave
<1>2. Closed \in TabState /\ Closed.cur = NoSocket /\ Closed.status = "disconnected"
  BY DEF Closed, NoPlayer, NoRun, TabState
<1> QED
  BY <1>1, <1>2, CloseStepFact

\* An action of the player.
LEMMA PlaysFact ==
    ASSUME ArcadeInv, NEW t \in Tab, Plays(t)
    PROVE  /\ tab[t] \in TabState /\ moves' \in 0 .. MaxMoves
           /\ tab[t].local.level \in Level \cup {0}
<1>1. tab[t] \in TabState
  BY HeldFact
<1>2. moves' \in 0 .. MaxMoves
  BY MovesAssumption DEF Plays, ArcadeInv, TypeOK
<1> QED
  BY <1>1, <1>2 DEF TabState

\* directionalAction
LEMMA DirectFact ==
    ASSUME ArcadeInv, NEW t \in Tab, NEW place, Direct(t, place)
    PROVE  ArcadeInv'
<1> DEFINE level == tab[t].local.level
           run == tab[t].run
           next == LevelOneStep(run, place)
           new == next.collected \ run.collected
           chips == [i \in 1 .. Cardinality(new) |->
                        Msg("level_one_chip", ClientName(SetToSeq(new)[i]))]
           finish == IF next.completed /\ ~run.completed
                     THEN <<Msg("level_one_complete", 0)>> ELSE <<>>
           messages == IF level > 6 THEN <<Msg("input", level)>>
                       ELSE <<Msg("position", 0)>>
                            \o (IF level = 1 THEN chips \o finish ELSE <<>>)
           r == IF level = 1 THEN [tab[t] EXCEPT !.run = next] ELSE tab[t]
<1>1. /\ Plays(t) /\ Sent(t, messages)
      /\ tab' = IF level = 1 THEN [tab EXCEPT ![t].run = next] ELSE tab
      /\ UNCHANGED <<room, down, link, bounds, ready>>
  BY DEF Direct
<1>2. tab[t] \in TabState /\ moves' \in 0 .. MaxMoves /\ level \in Level \cup {0}
      /\ run \in [collected : SUBSET Chip, completed : BOOLEAN]
  <2>1. tab[t] \in TabState /\ moves' \in 0 .. MaxMoves /\ level \in Level \cup {0}
    BY <1>1, PlaysFact
  <2> QED
    BY <2>1 DEF TabState
<1> HIDE DEF level, run
<1>3. /\ next.collected = run.collected \cup ({place} \cap Chip)
      /\ next.completed =
            (run.completed \/ (next.collected = Chip /\ place = "finish"))
      /\ next = [collected |-> next.collected, completed |-> next.completed]
  BY DEF LevelOneStep
<1>4. next \in [collected : SUBSET Chip, completed : BOOLEAN]
  <2>1. next.completed \in BOOLEAN
    BY <1>2, <1>3
  <2> HIDE DEF next
  <2> QED
    BY <2>1, <1>2, <1>3
<1>5. new \subseteq {place} \cap Chip
  BY <1>3
<1> HIDE DEF next, new
<1>6. chips \in Saying
  BY <1>5, ClaimFact
<1>7. finish \in Saying
  BY SayFact, WordsFact
<1> HIDE DEF chips, finish
<1>8. messages \in Saying
  <2>1. chips \o finish \in Saying /\ <<Msg("position", 0)>> \in Saying /\ <<>> \in Saying
    BY <1>6, <1>7, SayFact, WordsFact
  <2>2. /\ <<Msg("position", 0)>> \o (chips \o finish) \in Saying
        /\ <<Msg("position", 0)>> \o <<>> \in Saying
    BY <2>1, SayFact
  <2>3. level > 6 => level \in Level
    BY <1>2
  <2> QED
    BY <2>2, <2>3, WordsFact
<1>9. tab' = [tab EXCEPT ![t] = r]
  <2>1. tab = [tab EXCEPT ![t] = tab[t]]
    BY DEF ArcadeInv, TypeOK
  <2> QED
    BY <2>1, <1>1
<1>10. r \in TabState /\ r.cur = tab[t].cur /\ r.status = tab[t].status
  BY <1>2, <1>4 DEF TabState
<1> HIDE DEF messages, r
<1> QED
  BY <1>1, <1>2, <1>8, <1>9, <1>10, ActFact

\* primaryAction
LEMMA PrimaryFact ==
    ASSUME ArcadeInv, NEW t \in Tab, NEW pressed \in BOOLEAN, Primary(t, pressed)
    PROVE  ArcadeInv'
<1> DEFINE level == tab[t].local.level
           messages == <<IF level = 2 THEN Msg("position", 0) ELSE Msg("input", level)>>
           r == IF level = 10 THEN [tab[t] EXCEPT !.charge = pressed] ELSE tab[t]
<1>1. /\ Plays(t) /\ Sent(t, messages) /\ level \in {2, 7, 9, 10}
      /\ tab' = IF level = 10 THEN [tab EXCEPT ![t].charge = pressed] ELSE tab
      /\ UNCHANGED <<room, down, link, bounds, ready>>
  BY DEF Primary
<1>2. tab[t] \in TabState /\ moves' \in 0 .. MaxMoves /\ level \in Level \cup {0}
  BY <1>1, PlaysFact
<1>3. r \in TabState /\ r.cur = tab[t].cur /\ r.status = tab[t].status
  BY <1>2 DEF TabState
<1> HIDE DEF level
<1>4. messages \in Saying
  <2>1. level \in Level
    BY <1>1, <1>2
  <2> QED
    BY <2>1, WordsFact
<1>5. tab' = [tab EXCEPT ![t] = r]
  <2>1. tab = [tab EXCEPT ![t] = tab[t]]
    BY DEF ArcadeInv, TypeOK
  <2> QED
    BY <2>1, <1>1
<1> HIDE DEF messages, r
<1> QED
  BY <1>1, <1>2, <1>3, <1>4, <1>5, ActFact

\* The buttons of the test portal, and a late error, change only the tab.
LEMMA QuietFact ==
    ASSUME ArcadeInv, NEW t \in Tab,
           \/ \E level \in TestLevel : AskTest(t, level)
           \/ TestRefused(t) \/ LateError(t)
    PROVE  ArcadeInv'
<1>1. tab[t] \in TabState /\ moves \in 0 .. MaxMoves
  BY HeldFact DEF ArcadeInv, TypeOK
<1>2. UNCHANGED <<room, wires, bounds, ready, moves>>
  BY DEF AskTest, TestRefused, LateError
<1>3. \E r \in TabState : /\ tab' = [tab EXCEPT ![t] = r] /\ r.cur = tab[t].cur
                          /\ r.status = "connected" => tab[t].status = "connected"
  <2>1. CASE \E level \in TestLevel : AskTest(t, level)
    <3>1. PICK level \in TestLevel : tab' = [tab EXCEPT ![t].asking = level]
      BY <2>1 DEF AskTest
    <3> DEFINE r == [tab[t] EXCEPT !.asking = level]
    <3>2. tab' = [tab EXCEPT ![t] = r]
      BY <3>1
    <3>3. r \in TabState /\ r.cur = tab[t].cur /\ r.status = tab[t].status
      BY <1>1 DEF TabState
    <3> HIDE DEF r
    <3> QED
      BY <3>2, <3>3
  <2>2. CASE TestRefused(t)
    <3> DEFINE r == [tab[t] EXCEPT !.asking = 0]
    <3>1. tab' = [tab EXCEPT ![t] = r]
      BY <2>2 DEF TestRefused
    <3>2. r \in TabState /\ r.cur = tab[t].cur /\ r.status = tab[t].status
      BY <1>1 DEF TabState
    <3> HIDE DEF r
    <3> QED
      BY <3>1, <3>2
  <2>3. CASE LateError(t)
    <3> DEFINE r == [tab[t] EXCEPT !.status = "error", !.late = FALSE]
    <3>1. tab' = [tab EXCEPT ![t].status = "error", ![t].late = FALSE]
      BY <2>3 DEF LateError
    <3>2. tab' = [tab EXCEPT ![t] = r]
      BY <3>1 DEF ArcadeInv, TypeOK
    <3>3. r \in TabState /\ r.cur = tab[t].cur /\ r.status = "error"
      BY <1>1 DEF TabState
    <3> HIDE DEF r
    <3> QED
      BY <3>2, <3>3
  <2> QED
    BY <2>1, <2>2, <2>3
<1>4. PICK r \in TabState : /\ tab' = [tab EXCEPT ![t] = r] /\ r.cur = tab[t].cur
                            /\ r.status = "connected" => tab[t].status = "connected"
  BY <1>3
<1>5. Sends
  BY <1>2, SilentFact DEF ArcadeInv, wires
<1>6. UNCHANGED <<room, link, bounds, ready>> /\ down' = down /\ moves' \in 0 .. MaxMoves
  BY <1>1, <1>2 DEF wires
<1>7. r.status = "connected" =>
         /\ r.cur # NoSocket /\ ready[r.cur] = "open"
         /\ Seated(r.cur) \/ Ends(down[r.cur])
  BY <1>4, HeldFact
<1> QED
  BY <1>4, <1>5, <1>6, <1>7, StepFact

-----------------------------------------------------------------------------
(***************************************************************************)
(* The whole.                                                               *)
(***************************************************************************)
\* The inductive invariant holds initially.
LEMMA ArcadeInit == Init => ArcadeInv
<1> SUFFICES ASSUME Init PROVE ArcadeInv
  OBVIOUS
<1>1. /\ seat = [s \in Socket |-> Empty] /\ ticket = [k \in Ticket |-> "none"]
      /\ up = [s \in Socket |-> <<>>] /\ down = [s \in Socket |-> <<>>]
      /\ link = [s \in Socket |-> "none"] /\ mishaps = 0 /\ fates = 0
      /\ tab = [t \in Tab |-> Closed] /\ ready = [s \in Socket |-> "none"] /\ moves = 0
  BY DEF Init, RoomInit
<1>2. Closed \in TabState /\ Closed.cur = NoSocket /\ Closed.status = "disconnected"
  BY DEF Closed, NoPlayer, NoRun, TabState
<1>3. seat \in [Socket -> Player] /\ \A s \in Socket : seat[s] = Empty
  BY <1>1, EmptyFact
<1>4. \A s \in Socket : up[s] = <<>> /\ down[s] = <<>>
  BY <1>1
<1>5. TypeOK
  BY <1>1, <1>2, <1>3, RoomBoundAssumption, MovesAssumption
     DEF TypeOK, RoomTypeOK, TabState, Player
<1>6. Wires
  BY <1>1 DEF Wires
<1>7. Seats
  BY <1>3, EmptyFact DEF Seats, Seated
<1>8. Joins
  <2>1. \A s \in Socket : link[s] = "none" /\ ~Seated(s)
    BY <1>1, <1>3 DEF Seated
  <2>2. \A s \in Socket : \A i \in 1 .. Len(up[s]) : FALSE
    BY <1>4, EmptySeq
  <2> QED
    BY <1>4, <2>1, <2>2 DEF Joins, Holds
<1>9. Breaks /\ Welcomes
  BY <1>1 DEF Breaks, Welcomes
<1>10. Tabs
  BY <1>1, <1>2 DEF Tabs
<1> QED
  BY <1>5, <1>6, <1>7, <1>8, <1>9, <1>10 DEF ArcadeInv

\* Every step keeps the inductive invariant.
LEMMA ArcadeNext == ArcadeInv /\ [Next]_vars => ArcadeInv'
<1> SUFFICES ASSUME ArcadeInv, [Next]_vars PROVE ArcadeInv'
  OBVIOUS
<1>1. CASE UNCHANGED vars
  BY <1>1 DEF vars, room, wires, bounds, client, ArcadeInv, TypeOK, RoomTypeOK, Wires,
              Seats, Joins, Holds, Breaks, Welcomes, Tabs, Seated, Ends, Ending
<1>2. ASSUME NEW s \in Socket, RoomStep(s), UNCHANGED client PROVE ArcadeInv'
  BY <1>2, ServeFact, FailsFact, FateStepFact, BreakFact DEF RoomStep
<1>3. ASSUME NEW s \in Socket, Opened(s) \/ ConnectFails(s) PROVE ArcadeInv'
  BY <1>3, OpenedFact, ConnectFailsFact
<1>4. ASSUME NEW t \in Tab, Insert(t) PROVE ArcadeInv'
  <2>1. Connect(t, tab[t].asking, tab[t].pending)
    BY <1>4 DEF Insert
  <2>2. tab[t].asking \in TestLevel \cup {0} /\ tab[t].pending \in TestLevel \cup {0}
    BY HeldFact DEF TabState
  <2> QED
    BY <2>1, <2>2, ConnectFact
<1>5. ASSUME NEW t \in Tab, TestGranted(t) PROVE ArcadeInv'
  <2>1. Connect(t, 0, tab[t].asking)
    BY <1>5 DEF TestGranted
  <2>2. 0 \in TestLevel \cup {0} /\ tab[t].asking \in TestLevel \cup {0}
    BY HeldFact DEF TabState
  <2> QED
    BY <2>1, <2>2, ConnectFact
<1>6. ASSUME NEW t \in Tab,
             \/ \E level \in TestLevel : AskTest(t, level)
             \/ TestRefused(t) \/ LateError(t)
      PROVE  ArcadeInv'
  BY <1>6, QuietFact
<1>7. ASSUME NEW t \in Tab, Receive(t) \/ ResetCabinet(t) \/ Leave(t) PROVE ArcadeInv'
  BY <1>7, ReceiveFact, ResetCabinetFact, LeaveFact
<1>8. ASSUME NEW t \in Tab,
             \/ \E place \in Chip \cup {"elsewhere", "finish"} : Direct(t, place)
             \/ \E pressed \in BOOLEAN : Primary(t, pressed)
      PROVE  ArcadeInv'
  BY <1>8, DirectFact, PrimaryFact
<1> QED
  BY <1>1, <1>2, <1>3, <1>4, <1>5, <1>6, <1>7, <1>8 DEF Next

\* The inductive invariant of the arcade.
LEMMA ArcadeAlways == Spec => []ArcadeInv
BY ArcadeInit, ArcadeNext, PTL DEF Spec

\* Every state of the tabs, the sockets and the room has its type: a message
\* read late, a tab closed early or a socket that breaks in mid-game leaves no
\* ref of use-arcade-engine.ts and no player of backend.py half set.
THEOREM ArcadeTypes == Spec => []TypeOK
<1>1. ArcadeInv => TypeOK
  BY DEF ArcadeInv
<1> QED
  BY <1>1, ArcadeAlways, PTL

\* However the tabs of the player join, reset, break and replace each other,
\* the room keeps one seat for it, and the ticket of that seat is active
\* (_join, _reset, _disconnect).
THEOREM PlayerHasOneSeat == Spec => []OneSeat
<1>1. ASSUME ArcadeInv PROVE OneSeat
  <2> DEFINE seated == {s \in Socket : Seated(s)}
  <2>1. \A s, d \in seated : s = d
    BY <1>1 DEF ArcadeInv, Seats
  <2>2. Cardinality(seated) <= 1
    <3>1. CASE seated = {}
      BY <3>1, FS_EmptySet
    <3>2. CASE seated # {}
      <4>1. PICK s : s \in seated
        BY <3>2
      <4> HIDE DEF seated
      <4>2. seated = {s}
        BY <2>1, <4>1
      <4>3. Cardinality({s}) = 1
        BY FS_Singleton
      <4> QED
        BY <4>2, <4>3
    <3> QED
      BY <3>1, <3>2
  <2> QED
    BY <2>2, <1>1 DEF OneSeat, ArcadeInv, Seats
<1>2. ArcadeInv => OneSeat
  BY <1>1
<1> QED
  BY <1>2, ArcadeAlways, PTL

\* A tab that says it is connected has an open socket that holds the seat, or
\* the replacement or the loss of its connection is still to be read: what it
\* shows is the player's game (onmessage and onclose of use-arcade-engine.ts).
THEOREM ConnectedHoldsTheSeat == Spec => []ConnectedIsSeated
<1>1. ArcadeInv => ConnectedIsSeated
  BY DEF ArcadeInv, Tabs, ConnectedIsSeated, Ends, Ending
<1> QED
  BY <1>1, ArcadeAlways, PTL

\* The room books no chip of level 1, whatever the tabs send: their names of
\* the chips are none of LEVEL_ONE_CHIPS. This is the cause of what the run
\* arcade_level_one shows.
THEOREM NoChipIsBooked == Spec => [](\A s \in Socket : seat[s].chips = {})
<1>1. ArcadeInv => \A s \in Socket : seat[s].chips = {}
  BY DEF ArcadeInv, Seats
<1> QED
  BY <1>1, ArcadeAlways, PTL
=============================================================================

-------------------------------- MODULE Poker --------------------------------
(***************************************************************************)
(* The server of module Hub with what its clients make of the messages: the*)
(* reducer of web/src/ws.ts keeps, in every tab, a copy of the room.  The  *)
(* question is whether the copies are true.                                *)
(*                                                                         *)
(* A client here reads what its connection delivers; how connections come  *)
(* about is module WebClient.                                              *)
(***************************************************************************)
EXTENDS Hub

VARIABLES
  view,     \* view[c]: roomState and timerState of the tab behind c
  mustJoin, \* mustJoin[c]: it has sent a join the server has not read yet
  untold    \* history: what changed about a participant and was not announced

pokerVars == <<vars, view, mustJoin, untold>>

Facts == {"name", "role", "hasVoted"}

\* roomState is null.
NoView == [known |-> FALSE, phase |-> "voting", votes |-> {},
           participants |-> [s \in {} |-> {}], timer |-> [state |-> "idle"]]

\* Changes one field of the entry of s, if there is one.
Update(v, s, field, value) ==
  [v EXCEPT !.participants =
     [q \in DOMAIN @ |-> IF q = s THEN [@[q] EXCEPT ![field] = value] ELSE @[q]]]

\* An announcement reduces the view of a room; the view is known.
Announced(v, m) ==
  CASE m.type = "participant_joined" ->
         IF m.session \in DOMAIN v.participants THEN v
         ELSE [v EXCEPT !.participants = Put(@, m.session,
                [name |-> m.name, status |-> "active", role |-> m.role,
                 hasVoted |-> FALSE])]
    [] m.type = "participant_left" ->
         [v EXCEPT !.participants = Restrict(@, DOMAIN @ \ {m.session})]
    [] m.type = "vote_cast" -> Update(v, m.session, "hasVoted", TRUE)
    [] m.type = "vote_retracted" -> Update(v, m.session, "hasVoted", FALSE)
    [] m.type = "votes_revealed" ->
         [v EXCEPT !.phase = "reveal", !.votes = m.votes]
    [] m.type = "round_reset" ->
         [v EXCEPT !.phase = "voting", !.votes = {}, !.participants =
            [q \in DOMAIN @ |-> [@[q] EXCEPT !.hasVoted = FALSE]]]
    [] m.type = "presence_changed" -> Update(v, m.session, "status", m.status)
    [] m.type = "name_updated" -> Update(v, m.session, "name", m.name)
    [] m.type = "role_updated" -> Update(v, m.session, "role", m.role)
    [] OTHER -> v

\* Mutant: the cards of the last round are not taken off the table.
ReducedKeepingVotes(v, m) ==
  CASE m.type = "room_state" ->
         [known |-> TRUE, phase |-> m.phase, votes |-> m.votes \cup v.votes,
          participants |-> m.participants, timer |-> m.timer]
    [] m.type = "timer_updated" -> [v EXCEPT !.timer = m.timer]
    [] m.type = "round_reset" /\ v.known ->
         [Announced(v, m) EXCEPT !.votes = v.votes]
    [] OTHER -> IF v.known THEN Announced(v, m) ELSE v

\* handleMessage: a room_state replaces the view, the timer is kept in a signal
\* of its own, and without a view nothing else is heeded.
Reduced(v, m) ==
  CASE m.type = "room_state" ->
         [known |-> TRUE, phase |-> m.phase, votes |-> m.votes,
          participants |-> m.participants, timer |-> m.timer]
    [] m.type = "timer_updated" -> [v EXCEPT !.timer = m.timer]
    [] OTHER -> IF v.known THEN Announced(v, m) ELSE v

-----------------------------------------------------------------------------
PokerInit ==
  /\ Init
  /\ view = [c \in Conn |-> NoView]
  /\ mustJoin = [c \in Conn |-> FALSE]
  /\ untold = {}

\* The tab behind c handles a message; room_cleared makes it join again.
Hear(c) ==
  /\ Deliver(c)
  /\ view' = [view EXCEPT ![c] = Reduced(@, Head(buf[c]))]
  /\ mustJoin' = [mustJoin EXCEPT ![c] = @ \/ Head(buf[c]).type = "room_cleared"]
  /\ UNCHANGED untold

\* The facts about s that differ between the rooms r and q.
Changed(r, q) ==
  {e \in (Members(r) \cap Members(q)) \X Facts :
     LET a == r.participants[e[1]]
         b == q.participants[e[1]]
     IN  CASE e[2] = "name" -> a.name # b.name
           [] e[2] = "role" -> a.role # b.role
           [] e[2] = "hasVoted" -> (a.vote = "") # (b.vote = "")}

Tells(m, s, fact) ==
  \/ m.type = "participant_joined" /\ m.session = s
  \/ m.type = "name_updated" /\ m.session = s /\ fact = "name"
  \/ m.type = "role_updated" /\ m.session = s /\ fact = "role"
  \/ m.type \in {"vote_cast", "vote_retracted"} /\ m.session = s
     /\ fact = "hasVoted"
  \/ m.type = "round_reset" /\ fact = "hasVoted"

\* A step of the server; a change counts as told if the handler that makes it
\* is about to broadcast it.
Work ==
  /\ Serve
  /\ mustJoin' = [c \in Conn |->
       mustJoin[c] /\ ~(\E q \in Request : ReceiveJoin(c, q))]
  /\ untold' =
       {e \in untold \cup Changed(heap[1], heap'[1]) :
          /\ e[1] \in Members(heap'[1])
          /\ \A c \in Conn : \A n \in DOMAIN job'[c].todo :
               ~Tells(job'[c].todo[n], e[1], e[2])}
  /\ UNCHANGED view

PokerNext == Work \/ \E c \in Conn : Hear(c)

PokerSpec == PokerInit /\ [][PokerNext]_pokerVars

-----------------------------------------------------------------------------
(* Properties, for instances with one room that is never collected.        *)

\* c has heard everything there is to hear.
UpToDate(c) ==
  /\ c \in clients
  /\ pump[c] /\ ~done[c]
  /\ buf[c] = <<>>
  /\ ~mustJoin[c]

\* A view is true: the phase, who is there and how, the countdown, no cards
\* before the reveal and all of them after it; and name, role and whether
\* there is a card as far as the server told.
Agrees(v, r) ==
  /\ v.known
  /\ v.phase = r.phase
  /\ r.phase = "voting" => v.votes = {}
  /\ r.phase = "reveal" => ResultVotes(r) \subseteq v.votes
  /\ v.timer.duration = r.timer.duration
  /\ v.timer.state = "idle" <=> r.timer.state = "idle"
  /\ DOMAIN v.participants = Members(r)
  /\ \A s \in Members(r) :
       LET a == v.participants[s]
           b == r.participants[s]
       IN  /\ a.status = b.status
           /\ a.name = b.name \/ <<s, "name">> \in untold
           /\ a.role = b.role \/ <<s, "role">> \in untold
           /\ a.hasVoted = (b.vote # "") \/ <<s, "hasVoted">> \in untold

\* Whatever is done in a room, by whom and in which order, and whenever
\* messages arrive: as long as no two handlers overlap, every tab that has
\* read its messages shows the room as it is.
ViewsConverge ==
  Quiet => \A c \in Conn : UpToDate(c) => Agrees(view[c], heap[1])

\* What the server does not announce is little: another name, role or hand
\* with which a session rejoins, and the card an observer gives up.  (Clients
\* go on showing them until the next room_state; see the README.)
LittleIsUntold ==
  [][\A e \in untold' \ untold : \E c \in Conn :
       \/ pc[c] = "join" /\ pc'[c] = "register" /\ sid'[c] = e[1]
       \/ /\ pc[c] = "handle" /\ job[c].event.kind = "update_role"
          /\ e = <<sid[c], "hasVoted">>
          /\ heap'[1].participants[e[1]].role = "observer"]_pokerVars
=============================================================================

------------------------------ MODULE WebClient ------------------------------
(***************************************************************************)
(* One browser tab: the connection of web/src/ws.ts with its reconnection  *)
(* timer, and the parts of RoomPage, ConnectionBanner, EditNameModal and   *)
(* NameEntryModal that start, end and use it.  JavaScript runs one         *)
(* callback at a time, so every callback (of a click, of the timer, of a   *)
(* socket, of an effect) is one step; what lies between two of them, a     *)
(* render not yet followed by its effect for instance, is a state.         *)
(*                                                                         *)
(* The browser's sockets and the server are the environment.  A socket the *)
(* client closes fires nothing any more once its handlers are detached, so *)
(* it is forgotten at once.  Of roomState only the phase is kept; what     *)
(* the reducer makes of the participants is in module Poker.               *)
(***************************************************************************)
EXTENDS Integers

CONSTANTS
  Room,              \* room ids
  UserName,          \* names, of the one user
  Sock,              \* the browser's WebSocket objects
  MAX_QUEUE_SIZE,    \* 20 in the code
  RECONNECT_TIMEOUT, \* 30 s
  MaxAttempts        \* bound of the attempt counter

\* What RoomPage's effect depends on, a room and a name; NoPage is the home
\* page, or the room page without a name, where the effect does nothing.
NoPage == <<>>
Page == Room \X UserName
Home == "home"

NoSock == "none"

ASSUME ClientAssumption ==
  /\ {MAX_QUEUE_SIZE, RECONNECT_TIMEOUT, MaxAttempts} \subseteq Nat \ {0}
  /\ Sock # {} /\ NoSock \notin Sock
  /\ Home \notin Room
  /\ "" \notin UserName

VARIABLES
  path,     \* the room the URL names, or Home
  userName, \* the user's name, "" before the first one was entered
  mounted,  \* the page whose effect is in force
  client,   \* the variables of ws.ts and the signals it sets
  trying,   \* history: how long connections have been failing
  cut       \* history: the request that is pending has lost its connection

ui == <<path, userName>>
vars == <<ui, mounted, client, trying, cut>>

\* The page the URL and the name ask for.
Wanted == IF path = Home \/ userName = "" THEN NoPage ELSE <<path, userName>>

\* A socket; joined is the room and the name the server was last told on
\* it, owed whether it has yet to answer a reveal or a new_round.
Closed == [state |-> "closed", room |-> "", joined |-> NoPage, owed |-> FALSE]

Sockets(c) == {k \in Sock : c.socks[k].state # "closed"}
IsOpen(c) == c.socket # NoSock /\ c.socks[c.socket].state = "open"

AtMost(n, bound) == IF n > bound THEN bound ELSE n

-----------------------------------------------------------------------------
(* The functions of ws.ts, on the client c.                                *)

\* Mutant: the queue has no limit.
SendUncapped(c) == IF IsOpen(c) THEN c ELSE [c EXCEPT !.queue = @ + 1]

\* send for events that change nothing below.
Send(c) ==
  IF IsOpen(c) THEN c ELSE [c EXCEPT !.queue = AtMost(@ + 1, MAX_QUEUE_SIZE)]

SendJoin(c) ==
  IF IsOpen(c) THEN [c EXCEPT !.socks[c.socket].joined = <<c.roomId, userName>>]
  ELSE Send(c)

SendName(c, name) ==
  IF IsOpen(c) THEN [c EXCEPT !.socks[c.socket].joined = <<c.roomId, name>>]
  ELSE Send(c)

SendRequest(c) ==
  IF IsOpen(c) THEN [c EXCEPT !.socks[c.socket].owed = TRUE] ELSE Send(c)

\* closeSocket: no timer, no handlers, no socket.
CloseSocket(c) ==
  LET d == [c EXCEPT !.timer = FALSE]
  IN  IF c.socket = NoSock THEN d
      ELSE [d EXCEPT !.socks[c.socket] = Closed, !.socket = NoSock]

Connect(c, roomId) ==
  LET d == CloseSocket(c)
      k == CHOOSE s \in Sock : d.socks[s].state = "closed"
  IN  [d EXCEPT !.roomId = roomId, !.status = "connecting",
                !.elapsed = IF d.attempt = 0 THEN 0 ELSE @,
                !.socket = k,
                !.socks[k] = [Closed EXCEPT !.state = "connecting",
                                            !.room = roomId]]

\* Mutant: the timer of a disconnected client keeps running.
DisconnectKeepsTimer(c) ==
  LET d == [CloseSocket(c) EXCEPT !.timer = c.timer]
  IN  [d EXCEPT !.status = "disconnected", !.pending = FALSE, !.attempt = 0,
                !.info = [attempt |-> 0, maxReached |-> FALSE], !.queue = 0]

\* disconnect; the leave it sends on an open socket is the socket's last.
Disconnect(c) ==
  [CloseSocket(c) EXCEPT
     !.status = "disconnected", !.pending = FALSE, !.attempt = 0,
     !.info = [attempt |-> 0, maxReached |-> FALSE], !.queue = 0]

\* Mutant: after the timeout nothing is tried any more.
ScheduleUntilTimeout(c) ==
  IF c.timer \/ c.elapsed > RECONNECT_TIMEOUT THEN c
  ELSE LET n == AtMost(c.attempt + 1, MaxAttempts)
       IN  [c EXCEPT !.attempt = n, !.timer = TRUE,
                     !.info = [attempt |-> n, maxReached |-> FALSE]]

ScheduleReconnect(c) ==
  IF c.timer THEN c
  ELSE LET n == AtMost(c.attempt + 1, MaxAttempts)
       IN  [c EXCEPT !.attempt = n, !.timer = TRUE,
                     !.info = [attempt    |-> n,
                               maxReached |-> c.elapsed > RECONNECT_TIMEOUT]]

-----------------------------------------------------------------------------
Init ==
  /\ path = Home
  /\ userName = ""
  /\ mounted = NoPage
  /\ client = [socks |-> [k \in Sock |-> Closed], socket |-> NoSock,
               timer |-> FALSE, attempt |-> 0,
               elapsed |-> RECONNECT_TIMEOUT + 1, roomId |-> "", queue |-> 0,
               status |-> "disconnected",
               info |-> [attempt |-> 0, maxReached |-> FALSE],
               pending |-> FALSE, roomState |-> "null"]
  /\ trying = 0
  /\ cut = FALSE

\* Links, the browser's history and the address bar.
Navigate(room) ==
  /\ room # path
  /\ path' = room
  /\ UNCHANGED <<userName, mounted, client, trying, cut>>

\* NameEntryModal, shown on the room page while there is no name.
EnterName(name) ==
  /\ path # Home
  /\ userName = ""
  /\ userName' = name
  /\ UNCHANGED <<path, mounted, client, trying, cut>>

\* The effect of RoomPage after a render: first the clean-up of the page it
\* was in force for, then the connection for the new one.
Effect ==
  LET left == IF mounted = NoPage THEN client
              ELSE [Disconnect(client) EXCEPT !.roomState = "null"]
  IN  /\ mounted # Wanted
      /\ mounted' = Wanted
      /\ client' = IF Wanted = NoPage THEN left ELSE Connect(left, path)
      /\ trying' = 0
      /\ cut' = FALSE
      /\ UNCHANGED ui

-----------------------------------------------------------------------------
(* The socket's events.  Only an attached socket has any.                  *)

\* Mutant: a reconnection forgets to join.
OpensWithoutRejoin(k) ==
  LET c == [client EXCEPT !.socks[k].state = "open", !.status = "connected",
                          !.attempt = 0, !.queue = 0,
                          !.info = [attempt |-> 0, maxReached |-> FALSE]]
  IN  /\ client.socks[k].state = "connecting"
      /\ client' = IF client.attempt = 0 THEN SendJoin(c) ELSE c
      /\ trying' = 0
      /\ UNCHANGED <<ui, mounted, cut>>

\* onopen.  What was queued is discarded; the join, with the name as it is
\* now, goes over the module's socket.
Opens(k) ==
  LET c == [client EXCEPT !.socks[k].state = "open", !.status = "connected",
                          !.attempt = 0, !.queue = 0,
                          !.info = [attempt |-> 0, maxReached |-> FALSE]]
  IN  /\ client.socks[k].state = "connecting"
      /\ client' = SendJoin(c)
      /\ trying' = 0
      /\ UNCHANGED <<ui, mounted, cut>>

\* onclose, after onerror if the connection failed.
Closes(k) ==
  /\ k \in Sockets(client)
  /\ client' = ScheduleReconnect(
       [client EXCEPT !.socks[k] = Closed, !.socket = NoSock,
                      !.status = "disconnected"])
  /\ trying' = IF client.socks[k].state = "open" THEN 0 ELSE trying
  /\ cut' = client.pending
  /\ UNCHANGED <<ui, mounted>>

\* Mutant: the button stays locked when the reveal is announced.
ReceivedKeepsPending(c, type) ==
  CASE type = "votes_revealed" /\ c.roomState # "null" ->
         [c EXCEPT !.roomState = "reveal"]
    [] type = "round_reset" /\ c.roomState # "null" ->
         [c EXCEPT !.pending = FALSE, !.roomState = "voting"]
    [] type = "error" -> [c EXCEPT !.pending = FALSE]
    [] type = "room_cleared" -> SendJoin(c)
    [] type \in {"voting", "reveal"} -> [c EXCEPT !.roomState = type]
    [] OTHER -> c

\* handleMessage, as far as it touches the phase, the pending action and the
\* socket; "voting" and "reveal" stand for room_state with that phase.
Received(c, type) ==
  CASE type = "votes_revealed" /\ c.roomState # "null" ->
         [c EXCEPT !.pending = FALSE, !.roomState = "reveal"]
    [] type = "round_reset" /\ c.roomState # "null" ->
         [c EXCEPT !.pending = FALSE, !.roomState = "voting"]
    [] type = "error" -> [c EXCEPT !.pending = FALSE]
    [] type = "room_cleared" -> SendJoin(c)
    [] type \in {"voting", "reveal"} -> [c EXCEPT !.roomState = type]
    [] OTHER -> c

Answers == {"votes_revealed", "round_reset", "error"}

Message(k, type) ==
  LET c == IF type \in Answers THEN [client EXCEPT !.socks[k].owed = FALSE]
           ELSE client
  IN  /\ client.socks[k].state = "open"
      /\ client' = Received(c, type)
      /\ UNCHANGED <<ui, mounted, trying, cut>>

TimerFires ==
  /\ client.timer
  /\ client' = Connect([client EXCEPT !.timer = FALSE], client.roomId)
  /\ UNCHANGED <<ui, mounted, trying, cut>>

\* Time passes; it need not be told apart beyond the timeout.
Tick ==
  /\ client' = [client EXCEPT !.elapsed = AtMost(@ + 1, RECONNECT_TIMEOUT + 1)]
  /\ trying' = IF client.status = "connected" THEN 0
               ELSE AtMost(trying + 1, RECONNECT_TIMEOUT + 1)
  /\ <<client', trying'>> # <<client, trying>>
  /\ UNCHANGED <<ui, mounted, cut>>

-----------------------------------------------------------------------------
(* What the user does in a room.                                           *)

\* The page shows more than "Connecting...".
Visible ==
  /\ mounted # NoPage
  /\ client.status # "connecting"
  /\ ~(client.roomState = "null" /\ client.status = "connected")

\* handleReveal and handleNewRound: their buttons belong to a phase and are
\* locked while a request is pending.  (That somebody has voted, which the
\* first of them also wants, depends on the participants; see Poker.)
ClickRequest(phase) ==
  /\ Visible
  /\ client.roomState = phase
  /\ ~client.pending
  /\ client' = [SendRequest(client) EXCEPT !.pending = TRUE]
  /\ cut' = ~IsOpen(client)
  /\ UNCHANGED <<ui, mounted, trying>>

Reveal == ClickRequest("voting")
NewRound == ClickRequest("reveal")

\* EditNameModal: the name changes at once, the effect comes later, and
\* update_name goes to the connection there is in between.
Rename(name) ==
  /\ Visible
  /\ userName' = name
  /\ client' = SendName(client, name)
  /\ UNCHANGED <<path, mounted, trying, cut>>

\* A card, the role, the timer, the clearing of the room; or usePresence,
\* which needs no visible page.
Say ==
  /\ path # Home
  /\ client' = Send(client)
  /\ UNCHANGED <<ui, mounted, trying, cut>>

\* The button of ConnectionBanner.
Retry ==
  /\ Visible
  /\ client.status # "connected"
  /\ client.info.maxReached
  /\ client' = Connect([client EXCEPT !.attempt = 0, !.elapsed = 0,
                          !.info = [attempt |-> 0, maxReached |-> FALSE]],
                       client.roomId)
  /\ UNCHANGED <<ui, mounted, trying, cut>>

-----------------------------------------------------------------------------
Next ==
  \/ \E room \in Room \cup {Home} : Navigate(room)
  \/ \E name \in UserName : EnterName(name) \/ Rename(name)
  \/ Effect
  \/ \E k \in Sock : Opens(k) \/ Closes(k)
  \/ \E k \in Sock, type \in Answers \cup {"voting", "reveal", "room_cleared"} :
       Message(k, type)
  \/ TimerFires
  \/ Tick
  \/ Reveal \/ NewRound \/ Say \/ Retry

Spec == Init /\ [][Next]_vars

\* Answer: the server says what it owes.
Answer ==
  \E k \in Sock, type \in Answers :
    client.socks[k].owed /\ Message(k, type)

\* The browser runs effects and timers, and the server answers on a connection
\* that lasts (HandlersFinish of Hub).  The network owes nothing but that,
\* of infinitely many attempts, not all fail.  Nobody has to click.
Fairness ==
  /\ WF_vars(Effect)
  /\ WF_vars(TimerFires)
  /\ WF_vars(Answer)
  /\ SF_vars(\E k \in Sock : Opens(k))

FairSpec == Spec /\ Fairness

-----------------------------------------------------------------------------
(* Properties.                                                             *)

Socket == [state : {"closed", "connecting", "open"}, room : Room \cup {""},
           joined : Page \cup {NoPage}, owed : BOOLEAN]
Info == [attempt : 0 .. MaxAttempts, maxReached : BOOLEAN]
Client == [socks : [Sock -> Socket], socket : Sock \cup {NoSock},
           timer : BOOLEAN, attempt : 0 .. MaxAttempts,
           elapsed : 0 .. RECONNECT_TIMEOUT + 1, roomId : Room \cup {""},
           queue : 0 .. MAX_QUEUE_SIZE,
           status : {"disconnected", "connecting", "connected"},
           info : Info, pending : BOOLEAN,
           roomState : {"null", "voting", "reveal"}]

\* Every variable has its shape; the queue of what could not be sent never
\* outgrows its limit.
TypeOK ==
  /\ path \in Room \cup {Home}
  /\ userName \in UserName \cup {""}
  /\ mounted \in Page \cup {NoPage}
  /\ client \in Client
  /\ trying \in 0 .. RECONNECT_TIMEOUT + 1
  /\ cut \in BOOLEAN

\* However the timer, the manual retry, the loss of connections, a change of
\* name or room and the way home interleave: while a room is shown there is
\* exactly one attempt to be in it, a socket that is the module's own or a
\* timer that will make one, and it is for the room shown; afterwards there
\* is neither, and nobody is counted as present who has left.
OneAttempt ==
  /\ Sockets(client) = {client.socket} \ {NoSock}
  /\ IF mounted = NoPage
     THEN client.socket = NoSock /\ ~client.timer
     ELSE /\ client.socket = NoSock <=> client.timer
          /\ client.roomId = mounted[1]
          /\ \A k \in Sockets(client) : client.socks[k].room = mounted[1]

\* Once effects have caught up, the server knows the user of an open
\* connection by the present name, however often it was changed and the
\* connection lost on the way (the effect's reconnection joins anew).
ServerKnowsTheName ==
  mounted = Wanted =>
    \A k \in Sockets(client) :
      client.socks[k].state = "open" => client.socks[k].joined = Wanted

\* Whoever stays in a room is connected in the end, if the network permits,
\* whatever timers, retries and failures there were (ws.ts: it polls slowly
\* for ever).
StaysOrConnects ==
  \A p \in Page :
    Wanted = p ~> (Wanted # p \/ (mounted = p /\ client.status = "connected"))

\* A button that was locked by a click is free again in the end, unless the
\* request was made without a connection or has lost it: nothing in the code
\* frees it then (see the README).
ButtonsComeBack == client.pending ~> (~client.pending \/ cut)

\* "After 30 seconds of failed attempts" (docs/planning/02-frontend-plan.md)
\* the banner says that the connection is lost.
LostBannerIsEarned ==
  client.info.maxReached => trying > RECONNECT_TIMEOUT
=============================================================================

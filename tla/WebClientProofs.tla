--------------------------- MODULE WebClientProofs ---------------------------
(***************************************************************************)
(* Proofs about module WebClient: whatever callbacks run in whatever       *)
(* order, there is one attempt to be in the room shown and none in any     *)
(* other, and the server learns the user's name; for any rooms, names,     *)
(* number of sockets, queue and timeout.                                   *)
(***************************************************************************)
EXTENDS WebClient, TLAPS

\* The client c has a socket other than closed only as the module's own.
Own(c) == Sockets(c) = {c.socket} \ {NoSock}

\* There is nothing under way.
Resting(c) == Own(c) /\ c.socket = NoSock /\ ~c.timer

\* There is one attempt, for the page p.
Attempting(c, p) ==
  /\ Own(c)
  /\ c.socket = NoSock <=> c.timer
  /\ c.roomId = p[1]
  /\ \A k \in Sockets(c) : c.socks[k].room = p[1]

\* On an open connection the server was last told the name n.
Told(c, p, n) ==
  \A k \in Sockets(c) :
    c.socks[k].state = "open" => c.socks[k].joined = <<p[1], n>>

\* Not even OneAttempt is inductive without the room of the sockets, nor
\* ServerKnowsTheName while an effect is due: a rename in between is told on
\* the connection for the old name, and it is the name that counts.
IInv ==
  /\ TypeOK
  /\ userName = "" => mounted = NoPage
  /\ mounted = NoPage => Resting(client)
  /\ mounted # NoPage => Attempting(client, mounted)
                         /\ Told(client, mounted, userName)

-----------------------------------------------------------------------------
(* Pages and sockets.                                                      *)

\* A page is a room and a name, and NoPage is none.
LEMMA PageParts ==
  ASSUME NEW p \in Page
  PROVE  /\ p[1] \in Room /\ p[2] \in UserName
         /\ p = <<p[1], p[2]>>
         /\ p # NoPage
  BY DEF Page, NoPage

\* What the page asked for looks like.
LEMMA WantedIsAPage ==
  ASSUME TypeOK
  PROVE  /\ Wanted \in Page \cup {NoPage}
         /\ Wanted # NoPage => /\ path \in Room
                               /\ userName \in UserName
                               /\ Wanted = <<path, userName>>
  BY ClientAssumption DEF Wanted, TypeOK, Page, NoPage

\* The bounds are positive.
LEMMA Limits ==
  /\ MAX_QUEUE_SIZE \in Nat \ {0}
  /\ RECONNECT_TIMEOUT \in Nat \ {0}
  /\ MaxAttempts \in Nat \ {0}
  BY ClientAssumption

-----------------------------------------------------------------------------
(* The functions of ws.ts.                                                 *)

\* closeSocket leaves neither socket nor timer.
LEMMA CloseSocketRests ==
  ASSUME NEW c \in Client, Own(c)
  PROVE  CloseSocket(c) \in Client /\ Resting(CloseSocket(c))
<1>1. CASE c.socket = NoSock
  BY <1>1 DEF CloseSocket, Client, Own, Resting, Sockets
<1>2. CASE c.socket # NoSock
  <2> DEFINE d == CloseSocket(c)
             socks == [c.socks EXCEPT ![c.socket] = Closed]
  <2>1. c.socket \in Sock /\ Closed \in Socket
    BY <1>2 DEF Client, Closed, Socket
  <2>2. socks \in [Sock -> Socket]
    BY <2>1 DEF Client
  <2>3. d = [c EXCEPT !.timer = FALSE, !.socks = socks, !.socket = NoSock]
    BY <1>2 DEF CloseSocket, Client
  <2>4. d \in Client /\ d.socks = socks /\ d.socket = NoSock /\ ~d.timer
    BY <2>2, <2>3 DEF Client
  <2>5. \A k \in Sock : socks[k].state = "closed"
    BY <2>1, <1>2 DEF Own, Sockets, Client, Closed
  <2>6. Sockets(d) = {}
    BY <2>4, <2>5 DEF Sockets
  <2>7. d \in Client /\ Resting(d)
    <3> HIDE DEF d
    <3> QED BY <2>4, <2>6 DEF Resting, Own
  <2> QED BY <2>7
<1> QED BY <1>1, <1>2

\* Whatever else changes in the client: its socket and timer do their work.
LEMMA SameWires ==
  ASSUME NEW c \in Client, NEW d \in Client,
         d.socks = c.socks, d.socket = c.socket, d.timer = c.timer,
         d.roomId = c.roomId
  PROVE  /\ Own(c) => Own(d)
         /\ Resting(c) => Resting(d)
         /\ \A p \in Page : Attempting(c, p) => Attempting(d, p)
         /\ \A p \in Page : \A n : Told(c, p, n) => Told(d, p, n)
<1>1. Sockets(d) = Sockets(c)
  BY DEF Sockets
<1> QED BY <1>1 DEF Own, Resting, Attempting, Told

\* disconnect leaves neither socket nor timer.
LEMMA DisconnectRests ==
  ASSUME NEW c \in Client, Own(c)
  PROVE  Disconnect(c) \in Client /\ Resting(Disconnect(c))
<1> DEFINE d == CloseSocket(c)
<1>1. d \in Client /\ Resting(d)
  BY CloseSocketRests
<1> HIDE DEF d
<1>2. [d EXCEPT !.status = "disconnected", !.pending = FALSE, !.attempt = 0,
                !.info = [attempt |-> 0, maxReached |-> FALSE],
                !.queue = 0] \in Client
  <2>1. 0 \in 0 .. MaxAttempts /\ 0 \in 0 .. MAX_QUEUE_SIZE
    BY Limits
  <2>2. [attempt |-> 0, maxReached |-> FALSE] \in Info
    BY <2>1 DEF Info
  <2> QED BY <1>1, <2>1, <2>2 DEF Client
<1>3. Resting([d EXCEPT !.status = "disconnected", !.pending = FALSE,
                        !.attempt = 0,
                        !.info = [attempt |-> 0, maxReached |-> FALSE],
                        !.queue = 0])
  BY <1>1, <1>2, SameWires DEF Client
<1> QED BY <1>2, <1>3 DEF d, Disconnect

\* connect makes one socket, for the room it is called with.
LEMMA ConnectAttempts ==
  ASSUME NEW c \in Client, Own(c), NEW p \in Page
  PROVE  /\ Connect(c, p[1]) \in Client
         /\ Attempting(Connect(c, p[1]), p)
         /\ \A n : Told(Connect(c, p[1]), p, n)
<1> DEFINE d == CloseSocket(c)
           k == CHOOSE s \in Sock : d.socks[s].state = "closed"
           fresh == [Closed EXCEPT !.state = "connecting", !.room = p[1]]
           socks == [d.socks EXCEPT ![k] = fresh]
           elapsed == IF d.attempt = 0 THEN 0 ELSE d.elapsed
           e == Connect(c, p[1])
<1>1. d \in Client /\ Resting(d)
  BY CloseSocketRests
<1>2. p[1] \in Room
  BY PageParts
<1> HIDE DEF d
<1>3. \A s \in Sock : d.socks[s].state = "closed"
  BY <1>1, ClientAssumption DEF Resting, Own, Sockets
<1>4. k \in Sock
  BY <1>3, ClientAssumption
<1>5. fresh \in Socket /\ fresh.state = "connecting" /\ fresh.room = p[1]
  BY <1>2 DEF Closed, Socket
<1>6. e = [d EXCEPT !.roomId = p[1], !.status = "connecting",
                    !.elapsed = elapsed, !.socket = k, !.socks = socks]
  BY <1>1 DEF Connect, d, Client
<1> HIDE DEF k, fresh
<1>7. socks \in [Sock -> Socket]
  BY <1>1, <1>5 DEF Client
<1>8. elapsed \in 0 .. RECONNECT_TIMEOUT + 1
  <2>1. 0 \in 0 .. RECONNECT_TIMEOUT + 1
    BY Limits
  <2>2. d.elapsed \in 0 .. RECONNECT_TIMEOUT + 1
    BY <1>1 DEF Client
  <2> QED BY <2>1, <2>2
<1> HIDE DEF socks, elapsed
<1>9. /\ e \in Client
      /\ e.socks = socks /\ e.socket = k /\ ~e.timer /\ e.roomId = p[1]
  BY <1>1, <1>2, <1>4, <1>6, <1>7, <1>8 DEF Client, Resting
<1> HIDE DEF e
<1>10. Sockets(e) = {k}
  <2>1. \A s \in Sock : socks[s] = IF s = k THEN fresh ELSE d.socks[s]
    BY <1>1, <1>4 DEF Client, socks
  <2>2. \A s \in Sock : socks[s].state # "closed" <=> s = k
    BY <2>1, <1>3, <1>5
  <2> QED BY <2>2, <1>4, <1>9 DEF Sockets
<1>11. e.socks[k].room = p[1] /\ e.socks[k].state = "connecting"
  BY <1>1, <1>4, <1>5, <1>9 DEF Client, socks
<1>12. Attempting(e, p) /\ \A n : Told(e, p, n)
  BY <1>4, <1>9, <1>10, <1>11, ClientAssumption DEF Attempting, Own, Told
<1> QED BY <1>9, <1>12 DEF e

\* An event sent on an open connection, or queued: the wires stay.
LEMMA SendKeeps ==
  ASSUME NEW c \in Client
  PROVE  /\ Send(c) \in Client
         /\ Send(c).socks = c.socks /\ Send(c).socket = c.socket
         /\ Send(c).timer = c.timer /\ Send(c).roomId = c.roomId
<1> DEFINE q == AtMost(c.queue + 1, MAX_QUEUE_SIZE)
<1>1. q \in 0 .. MAX_QUEUE_SIZE
  <2>1. c.queue \in 0 .. MAX_QUEUE_SIZE
    BY DEF Client
  <2> QED BY <2>1, Limits DEF AtMost
<1> HIDE DEF q
<1>2. [c EXCEPT !.queue = q] \in Client
  BY <1>1 DEF Client
<1>3. Send(c) = IF IsOpen(c) THEN c ELSE [c EXCEPT !.queue = q]
  BY DEF Send, Client, q
<1> QED BY <1>2, <1>3 DEF Client

\* The own socket of a client that is open.
LEMMA OpenSocket ==
  ASSUME NEW c \in Client, IsOpen(c)
  PROVE  c.socket \in Sock /\ c.socks[c.socket] \in Socket
         /\ c.socks[c.socket].state = "open"
  BY DEF IsOpen, Client

\* A client that is not open has told nobody anything wrong.
LEMMA NotOpenTold ==
  ASSUME NEW c \in Client, Own(c), ~IsOpen(c), NEW p, NEW n
  PROVE  Told(c, p, n)
  BY DEF Own, IsOpen, Told

\* On its open socket a client may say anything: only the last name told and
\* the answer owed change.
LEMMA SpeakKeeps ==
  ASSUME NEW c \in Client, IsOpen(c), NEW w \in Socket,
         w.state = "open", w.room = c.socks[c.socket].room
  PROVE  LET d == [c EXCEPT !.socks[c.socket] = w] IN
         /\ d \in Client
         /\ d.socket = c.socket /\ d.socks[c.socket] = w
         /\ Sockets(d) = Sockets(c)
         /\ \A p \in Page : Attempting(c, p) => Attempting(d, p)
<1> DEFINE socks == [c.socks EXCEPT ![c.socket] = w]
           d == [c EXCEPT !.socks[c.socket] = w]
<1>1. c.socket \in Sock /\ c.socks[c.socket].state = "open"
  BY OpenSocket
<1>2. socks \in [Sock -> Socket]
  BY DEF Client
<1>3. \A k \in Sock : socks[k] = IF k = c.socket THEN w ELSE c.socks[k]
  BY <1>1 DEF Client
<1>4. d = [c EXCEPT !.socks = socks]
  BY DEF Client
<1> HIDE DEF socks
<1>5. /\ d \in Client
      /\ d.socks = socks /\ d.socket = c.socket /\ d.timer = c.timer
      /\ d.roomId = c.roomId
  BY <1>2, <1>4 DEF Client
<1> HIDE DEF d
<1>6. Sockets(d) = Sockets(c)
  BY <1>1, <1>3, <1>5 DEF Sockets
<1>7. \A p \in Page : Attempting(c, p) => Attempting(d, p)
  BY <1>1, <1>3, <1>5, <1>6 DEF Attempting, Own, Sockets
<1> QED BY <1>1, <1>3, <1>5, <1>6, <1>7 DEF d

\* Telling the name n, now or with the next join.
LEMMA NameIsTold ==
  ASSUME NEW c \in Client, NEW p \in Page, NEW n \in UserName,
         Attempting(c, p)
  PROVE  /\ SendName(c, n) \in Client
         /\ Attempting(SendName(c, n), p)
         /\ Told(SendName(c, n), p, n)
<1>1. CASE IsOpen(c)
  <2> DEFINE w == [c.socks[c.socket] EXCEPT !.joined = <<c.roomId, n>>]
             d == [c EXCEPT !.socks[c.socket] = w]
  <2>1. c.socks[c.socket] \in Socket /\ c.socket \in Sock
    BY <1>1, OpenSocket
  <2>2. c.roomId = p[1] /\ p[1] \in Room
    BY PageParts DEF Attempting
  <2>3. <<c.roomId, n>> \in Page
    BY <2>2 DEF Page
  <2>4. /\ w \in Socket /\ w.state = "open"
        /\ w.room = c.socks[c.socket].room /\ w.joined = <<p[1], n>>
    BY <2>1, <2>2, <2>3, <1>1, OpenSocket DEF Socket
  <2>5. SendName(c, n) = d
    BY <1>1, <2>1 DEF SendName, Client
  <2> HIDE DEF w
  <2>6. /\ d \in Client /\ d.socket = c.socket /\ d.socks[c.socket] = w
        /\ Attempting(d, p)
    BY <2>4, <1>1, SpeakKeeps
  <2> HIDE DEF d
  <2>7. Told(d, p, n)
    BY <2>4, <2>6 DEF Told, Attempting, Own
  <2> QED BY <2>5, <2>6, <2>7
<1>2. CASE ~IsOpen(c)
  <2>1. SendName(c, n) = Send(c)
    BY <1>2 DEF SendName
  <2>2. Told(c, p, n)
    BY <1>2, NotOpenTold DEF Attempting
  <2> QED BY <2>1, <2>2, SendKeeps, SameWires
<1> QED BY <1>1, <1>2

\* A join tells the present name.
LEMMA JoinIsTold ==
  ASSUME NEW c \in Client, NEW p \in Page, userName \in UserName,
         Attempting(c, p)
  PROVE  /\ SendJoin(c) \in Client
         /\ Attempting(SendJoin(c), p)
         /\ Told(SendJoin(c), p, userName)
<1>1. SendJoin(c) = SendName(c, userName)
  BY DEF SendJoin, SendName
<1> QED BY <1>1, NameIsTold

\* Asking for a reveal or a new round, and getting the answer.
LEMMA OwedKeeps ==
  ASSUME NEW c \in Client, IsOpen(c), NEW b \in BOOLEAN
  PROVE  LET d == [c EXCEPT !.socks[c.socket].owed = b] IN
         /\ d \in Client
         /\ \A p \in Page : Attempting(c, p) => Attempting(d, p)
         /\ \A p \in Page : \A n : Attempting(c, p) /\ Told(c, p, n) => Told(d, p, n)
<1> DEFINE w == [c.socks[c.socket] EXCEPT !.owed = b]
           d == [c EXCEPT !.socks[c.socket] = w]
<1>1. c.socks[c.socket] \in Socket /\ c.socket \in Sock
  BY OpenSocket
<1>2. /\ w \in Socket /\ w.state = "open"
      /\ w.room = c.socks[c.socket].room
      /\ w.joined = c.socks[c.socket].joined
  BY <1>1, OpenSocket DEF Socket
<1>3. [c EXCEPT !.socks[c.socket].owed = b] = d
  BY <1>1 DEF Client
<1> HIDE DEF w
<1>4. /\ d \in Client /\ d.socks[c.socket] = w /\ Sockets(d) = Sockets(c)
      /\ \A p \in Page : Attempting(c, p) => Attempting(d, p)
  BY <1>2, SpeakKeeps
<1> HIDE DEF d
<1>5. ASSUME NEW p \in Page, NEW n, Attempting(c, p), Told(c, p, n)
      PROVE  Told(d, p, n)
  BY <1>2, <1>4, <1>5, OpenSocket DEF Told, Attempting, Own
<1> QED BY <1>3, <1>4, <1>5

\* A lost connection starts the timer, and the timer is the attempt.
LEMMA LossIsRetried ==
  ASSUME NEW c \in Client, NEW k \in Sockets(c), NEW p \in Page,
         Attempting(c, p)
  PROVE  LET d == ScheduleReconnect([c EXCEPT !.socks[k] = Closed,
                                       !.socket = NoSock,
                                       !.status = "disconnected"])
         IN  d \in Client /\ Attempting(d, p) /\ \A n : Told(d, p, n)
<1> DEFINE socks == [c.socks EXCEPT ![k] = Closed]
           e == [c EXCEPT !.socks = socks, !.socket = NoSock,
                          !.status = "disconnected"]
           n == AtMost(e.attempt + 1, MaxAttempts)
           info == [attempt |-> n, maxReached |-> e.elapsed > RECONNECT_TIMEOUT]
<1>1. k \in Sock /\ k = c.socket /\ k # NoSock /\ ~c.timer
  BY ClientAssumption DEF Attempting, Own, Sockets, Client
<1>2. Closed \in Socket
  BY DEF Closed, Socket
<1>3. socks \in [Sock -> Socket]
  BY <1>2 DEF Client
<1>4. \A s \in Sock : socks[s].state = "closed"
  BY <1>1 DEF Client, Attempting, Own, Sockets, Closed
<1> HIDE DEF socks
<1>5. /\ e \in Client /\ e.socks = socks /\ e.socket = NoSock /\ ~e.timer
      /\ e.roomId = c.roomId
  BY <1>1, <1>3 DEF Client
<1>6. [c EXCEPT !.socks[k] = Closed, !.socket = NoSock,
                !.status = "disconnected"] = e
  BY DEF Client, socks
<1> HIDE DEF e
<1>7. n \in 0 .. MaxAttempts
  <2>1. e.attempt \in 0 .. MaxAttempts
    BY <1>5 DEF Client
  <2> QED BY <2>1, Limits DEF AtMost
<1> HIDE DEF n
<1>8. info \in Info
  BY <1>7 DEF Info
<1> HIDE DEF info
<1> DEFINE d == [e EXCEPT !.attempt = n, !.timer = TRUE, !.info = info]
<1>9. ScheduleReconnect(e) = d
  BY <1>5 DEF ScheduleReconnect, n, info
<1>10. /\ d \in Client /\ d.socks = socks /\ d.socket = NoSock /\ d.timer
       /\ d.roomId = c.roomId
  BY <1>5, <1>7, <1>8 DEF Client
<1> HIDE DEF d
<1>11. Sockets(d) = {}
  BY <1>4, <1>10 DEF Sockets
<1>12. Attempting(d, p) /\ \A m : Told(d, p, m)
  BY <1>10, <1>11 DEF Attempting, Own, Told
<1> QED BY <1>6, <1>9, <1>10, <1>12

-----------------------------------------------------------------------------
(* The steps.                                                              *)

\* Init establishes the invariant.
LEMMA InitGood ==
  ASSUME Init
  PROVE  IInv
<1> DEFINE info == [attempt |-> 0, maxReached |-> FALSE]
<1>1. 0 \in 0 .. MaxAttempts /\ 0 \in 0 .. MAX_QUEUE_SIZE
      /\ RECONNECT_TIMEOUT + 1 \in 0 .. RECONNECT_TIMEOUT + 1
      /\ 0 \in 0 .. RECONNECT_TIMEOUT + 1
  BY Limits
<1>2. info \in Info /\ [k \in Sock |-> Closed] \in [Sock -> Socket]
  BY <1>1 DEF Info, Closed, Socket
<1> HIDE DEF info
<1>3. client \in Client
  BY <1>1, <1>2 DEF Init, Client, info
<1>4. client.socket = NoSock /\ ~client.timer /\ Sockets(client) = {}
  BY DEF Init, Sockets, Closed
<1>5. Resting(client)
  BY <1>4 DEF Resting, Own
<1>6. TypeOK
  BY <1>1, <1>3 DEF Init, TypeOK
<1> QED BY <1>5, <1>6 DEF IInv, Init

\* Leaving a page and entering the wanted one, or none.
LEMMA EffectKeeps ==
  ASSUME IInv, Effect
  PROVE  IInv'
<1> DEFINE left == IF mounted = NoPage THEN client
                   ELSE [Disconnect(client) EXCEPT !.roomState = "null"]
<1>1. client \in Client /\ mounted \in Page \cup {NoPage}
  BY DEF IInv, TypeOK
<1>2. left \in Client /\ Resting(left)
  <2>1. CASE mounted = NoPage
    BY <2>1, <1>1 DEF IInv
  <2>2. CASE mounted # NoPage
    <3> DEFINE d == Disconnect(client)
               e == [d EXCEPT !.roomState = "null"]
    <3>1. d \in Client /\ Resting(d)
      BY <2>2, <1>1, DisconnectRests DEF IInv, Attempting
    <3> HIDE DEF d
    <3>2. /\ e \in Client /\ e.socks = d.socks /\ e.socket = d.socket
          /\ e.timer = d.timer /\ e.roomId = d.roomId
      BY <3>1 DEF Client
    <3> HIDE DEF e
    <3>3. Resting(e)
      BY <3>1, <3>2, SameWires
    <3> QED BY <2>2, <3>2, <3>3 DEF d, e
  <2> QED BY <2>1, <2>2
<1>3. /\ Wanted \in Page \cup {NoPage}
      /\ Wanted # NoPage => /\ Wanted \in Page /\ path = Wanted[1]
                            /\ userName \in UserName
      /\ userName = "" => Wanted = NoPage
  BY WantedIsAPage DEF IInv, Wanted
<1>4. /\ mounted' = Wanted /\ path' = path /\ userName' = userName
      /\ client' = IF Wanted = NoPage THEN left ELSE Connect(left, path)
      /\ trying' = 0 /\ cut' = FALSE
  BY DEF Effect, ui
<1>7. 0 \in 0 .. RECONNECT_TIMEOUT + 1
  BY Limits
<1> HIDE DEF left
<1>5. CASE Wanted = NoPage
  <2>1. client' = left
    BY <1>4, <1>5
  <2>2. TypeOK'
    BY <1>2, <1>3, <1>4, <1>7, <2>1, <1>5 DEF IInv, TypeOK
  <2>3. Resting(client')
    BY <1>2, <2>1
  <2> QED BY <2>2, <2>3, <1>4, <1>5 DEF IInv
<1>6. CASE Wanted # NoPage
  <2>1. client' = Connect(left, Wanted[1])
    BY <1>3, <1>4, <1>6
  <2>2. /\ client' \in Client /\ Attempting(client', Wanted)
        /\ \A n : Told(client', Wanted, n)
    BY <1>2, <1>3, <1>6, <2>1, ConnectAttempts DEF Resting
  <2>3. TypeOK'
    BY <1>3, <1>4, <1>6, <1>7, <2>2 DEF IInv, TypeOK
  <2> QED BY <2>2, <2>3, <1>3, <1>4, <1>6 DEF IInv
<1> QED BY <1>5, <1>6

\* A step that stays on its page and keeps the attempt for it.
LEMMA StaysOnPage ==
  ASSUME IInv, mounted # NoPage, UNCHANGED <<path, mounted>>,
         userName' \in UserName, trying' \in 0 .. RECONNECT_TIMEOUT + 1,
         cut' \in BOOLEAN, client' \in Client,
         Attempting(client', mounted), Told(client', mounted, userName')
  PROVE  IInv'
<1>1. TypeOK'
  BY DEF IInv, TypeOK
<1>2. userName' # ""
  BY ClientAssumption
<1> QED BY <1>1, <1>2 DEF IInv

\* What the invariant says when a page is shown.
LEMMA OnPage ==
  ASSUME IInv, mounted # NoPage
  PROVE  /\ mounted \in Page /\ userName \in UserName /\ client \in Client
         /\ trying \in 0 .. RECONNECT_TIMEOUT + 1 /\ cut \in BOOLEAN
         /\ Attempting(client, mounted) /\ Told(client, mounted, userName)
  BY DEF IInv, TypeOK

\* Without a page there is no socket, and nothing happens to one.
LEMMA OffPage ==
  ASSUME IInv, NEW k \in Sock, client.socks[k].state # "closed"
  PROVE  mounted # NoPage /\ k = client.socket /\ k # NoSock
  BY ClientAssumption DEF IInv, Resting, Attempting, Own, Sockets

\* The attempt Attempting(c, p), after a change that leaves the wires alone.
LEMMA WiresKeep ==
  ASSUME NEW c \in Client, NEW d \in Client, NEW p \in Page, NEW n,
         d.socks = c.socks, d.socket = c.socket, d.timer = c.timer,
         d.roomId = c.roomId, Attempting(c, p), Told(c, p, n)
  PROVE  Attempting(d, p) /\ Told(d, p, n)
  BY SameWires

\* Whatever the server says, a rejoin included, the attempt stays.
LEMMA ReceivedKeeps ==
  ASSUME NEW c \in Client, NEW p \in Page, userName \in UserName,
         Attempting(c, p), Told(c, p, userName),
         NEW type \in Answers \cup {"voting", "reveal", "room_cleared"}
  PROVE  /\ Received(c, type) \in Client
         /\ Attempting(Received(c, type), p)
         /\ Told(Received(c, type), p, userName)
<1> DEFINE d == Received(c, type)
<1>1. CASE type = "room_cleared"
  <2>1. d = SendJoin(c)
    BY <1>1 DEF Received
  <2> QED BY <2>1, JoinIsTold
<1>2. CASE type # "room_cleared"
  <2>1. /\ d \in Client /\ d.socks = c.socks /\ d.socket = c.socket
        /\ d.timer = c.timer /\ d.roomId = c.roomId
    <3>1. CASE type = "votes_revealed"
      BY <3>1 DEF Received, Client
    <3>2. CASE type = "round_reset"
      BY <3>2 DEF Received, Client
    <3>3. CASE type = "error"
      BY <3>3 DEF Received, Client
    <3>4. CASE type = "voting"
      BY <3>4 DEF Received, Client
    <3>5. CASE type = "reveal"
      BY <3>5 DEF Received, Client
    <3> QED BY <1>2, <3>1, <3>2, <3>3, <3>4, <3>5 DEF Answers
  <2> HIDE DEF d
  <2>2. Attempting(d, p) /\ Told(d, p, userName)
    BY <2>1, WiresKeep
  <2> QED BY <2>1, <2>2 DEF d
<1> QED BY <1>1, <1>2

\* onopen: the join is told.
LEMMA OpensKeeps ==
  ASSUME IInv, NEW k \in Sock, Opens(k)
  PROVE  IInv'
<1> DEFINE info == [attempt |-> 0, maxReached |-> FALSE]
           socks == [client.socks EXCEPT ![k].state = "open"]
           c == [client EXCEPT !.socks = socks, !.status = "connected",
                               !.attempt = 0, !.queue = 0, !.info = info]
<1>1. mounted # NoPage /\ k = client.socket /\ k # NoSock
  BY OffPage DEF Opens
<1>2. /\ mounted \in Page /\ userName \in UserName /\ client \in Client
      /\ Attempting(client, mounted)
  BY <1>1, OnPage
<1>3. 0 \in 0 .. MaxAttempts /\ 0 \in 0 .. MAX_QUEUE_SIZE
      /\ 0 \in 0 .. RECONNECT_TIMEOUT + 1
  BY Limits
<1>4. info \in Info
  BY <1>3 DEF Info
<1>5. /\ socks \in [Sock -> Socket]
      /\ \A s \in Sock : /\ socks[s].room = client.socks[s].room
                         /\ socks[s].state # "closed"
                              <=> client.socks[s].state # "closed"
  <2>1. client.socks \in [Sock -> Socket] /\ client.socks[k].state = "connecting"
    BY <1>2 DEF Client, Opens
  <2>2. [client.socks[k] EXCEPT !.state = "open"] \in Socket
    BY <2>1 DEF Socket
  <2> QED BY <2>1, <2>2 DEF Socket
<1>6. client' = SendJoin(c)
  BY <1>2 DEF Opens, Client
<1> HIDE DEF info, socks
<1>7. /\ c \in Client /\ c.socks = socks /\ c.socket = client.socket
      /\ c.timer = client.timer /\ c.roomId = client.roomId
  BY <1>2, <1>3, <1>4, <1>5 DEF Client
<1> HIDE DEF c
<1>8. Sockets(c) = Sockets(client)
  BY <1>5, <1>7 DEF Sockets
<1>9. Attempting(c, mounted)
  BY <1>2, <1>5, <1>7, <1>8 DEF Attempting, Own, Sockets
<1>10. /\ client' \in Client /\ Attempting(client', mounted)
       /\ Told(client', mounted, userName)
  BY <1>2, <1>6, <1>7, <1>9, JoinIsTold
<1> QED BY <1>1, <1>2, <1>3, <1>10, OnPage, StaysOnPage DEF Opens, ui

\* onclose: the timer is the attempt.
LEMMA ClosesKeeps ==
  ASSUME IInv, NEW k \in Sock, Closes(k)
  PROVE  IInv'
<1>1. mounted # NoPage
  BY OffPage DEF Closes, Sockets
<1>2. /\ mounted \in Page /\ userName \in UserName /\ client \in Client
      /\ Attempting(client, mounted) /\ trying \in 0 .. RECONNECT_TIMEOUT + 1
  BY <1>1, OnPage
<1>3. /\ client' \in Client /\ Attempting(client', mounted)
      /\ Told(client', mounted, userName)
  BY <1>2, LossIsRetried DEF Closes
<1>4. trying' \in 0 .. RECONNECT_TIMEOUT + 1
  <2>1. 0 \in 0 .. RECONNECT_TIMEOUT + 1
    BY Limits
  <2> QED BY <1>2, <2>1 DEF Closes
<1>5. cut' \in BOOLEAN
  BY <1>2 DEF Closes, Client
<1> QED BY <1>1, <1>2, <1>3, <1>4, <1>5, StaysOnPage DEF Closes, ui

\* handleMessage.
LEMMA MessageKeeps ==
  ASSUME IInv, NEW k \in Sock,
         NEW type \in Answers \cup {"voting", "reveal", "room_cleared"},
         Message(k, type)
  PROVE  IInv'
<1> DEFINE c == IF type \in Answers THEN [client EXCEPT !.socks[k].owed = FALSE]
                ELSE client
<1>1. mounted # NoPage /\ k = client.socket /\ k # NoSock
  BY OffPage DEF Message
<1>2. /\ mounted \in Page /\ userName \in UserName /\ client \in Client
      /\ Attempting(client, mounted) /\ Told(client, mounted, userName)
  BY <1>1, OnPage
<1>3. IsOpen(client)
  BY <1>1 DEF IsOpen, Message
<1>4. /\ c \in Client /\ Attempting(c, mounted) /\ Told(c, mounted, userName)
  <2>1. CASE type \in Answers
    <3> DEFINE d == [client EXCEPT !.socks[client.socket].owed = FALSE]
    <3>1. d \in Client /\ Attempting(d, mounted) /\ Told(d, mounted, userName)
      BY <1>2, <1>3, OwedKeeps
    <3>2. c = d
      BY <2>1, <1>1
    <3> HIDE DEF c, d
    <3> QED BY <3>1, <3>2
  <2>2. CASE type \notin Answers
    BY <2>2, <1>2
  <2> QED BY <2>1, <2>2
<1>5. client' = Received(c, type) /\ UNCHANGED <<ui, mounted, trying, cut>>
  BY DEF Message
<1> HIDE DEF c
<1>6. /\ client' \in Client /\ Attempting(client', mounted)
      /\ Told(client', mounted, userName)
  BY <1>2, <1>4, <1>5, ReceivedKeeps
<1> QED BY <1>1, <1>2, <1>5, <1>6, OnPage, StaysOnPage DEF ui

\* The timer makes one new attempt.
LEMMA TimerFiresKeeps ==
  ASSUME IInv, TimerFires
  PROVE  IInv'
<1> DEFINE c == [client EXCEPT !.timer = FALSE]
<1>1. mounted # NoPage
  BY DEF IInv, Resting, TimerFires
<1>2. /\ mounted \in Page /\ userName \in UserName /\ client \in Client
      /\ Attempting(client, mounted)
  BY <1>1, OnPage
<1>3. /\ c \in Client /\ c.socks = client.socks /\ c.socket = client.socket
  BY <1>2 DEF Client
<1>4. client' = Connect(c, mounted[1])
  BY <1>2 DEF TimerFires, Attempting
<1> HIDE DEF c
<1>5. Own(c)
  BY <1>2, <1>3 DEF Attempting, Own, Sockets
<1>6. /\ client' \in Client /\ Attempting(client', mounted)
      /\ Told(client', mounted, userName)
  BY <1>2, <1>3, <1>4, <1>5, ConnectAttempts
<1> QED BY <1>1, <1>2, <1>6, OnPage, StaysOnPage DEF TimerFires, ui

\* retry.
LEMMA RetryKeeps ==
  ASSUME IInv, Retry
  PROVE  IInv'
<1> DEFINE info == [attempt |-> 0, maxReached |-> FALSE]
           c == [client EXCEPT !.attempt = 0, !.elapsed = 0, !.info = info]
<1>1. mounted # NoPage
  BY DEF Retry, Visible
<1>2. /\ mounted \in Page /\ userName \in UserName /\ client \in Client
      /\ Attempting(client, mounted)
  BY <1>1, OnPage
<1>3. 0 \in 0 .. MaxAttempts /\ 0 \in 0 .. RECONNECT_TIMEOUT + 1
  BY Limits
<1>4. info \in Info
  BY <1>3 DEF Info
<1>5. client' = Connect(c, mounted[1])
  BY <1>2 DEF Retry, Attempting
<1> HIDE DEF info
<1>6. /\ c \in Client /\ c.socks = client.socks /\ c.socket = client.socket
  BY <1>2, <1>3, <1>4 DEF Client
<1> HIDE DEF c
<1>7. Own(c)
  BY <1>2, <1>6 DEF Attempting, Own, Sockets
<1>8. /\ client' \in Client /\ Attempting(client', mounted)
      /\ Told(client', mounted, userName)
  BY <1>2, <1>5, <1>6, <1>7, ConnectAttempts
<1> QED BY <1>1, <1>2, <1>8, OnPage, StaysOnPage DEF Retry, ui

\* A new name is told on the connection of the old one.
LEMMA RenameKeeps ==
  ASSUME IInv, NEW n \in UserName, Rename(n)
  PROVE  IInv'
<1>1. mounted # NoPage
  BY DEF Rename, Visible
<1>2. /\ mounted \in Page /\ client \in Client
      /\ Attempting(client, mounted)
  BY <1>1, OnPage
<1>3. client' = SendName(client, n) /\ userName' = n
  BY DEF Rename
<1>4. /\ client' \in Client /\ Attempting(client', mounted)
      /\ Told(client', mounted, n)
  BY <1>2, <1>3, NameIsTold
<1> QED BY <1>1, <1>3, <1>4, OnPage, StaysOnPage DEF Rename

\* handleReveal and handleNewRound.
LEMMA ClickKeeps ==
  ASSUME IInv, NEW phase, ClickRequest(phase)
  PROVE  IInv'
<1> DEFINE c == SendRequest(client)
           d == [c EXCEPT !.pending = TRUE]
<1>1. mounted # NoPage
  BY DEF ClickRequest, Visible
<1>2. /\ mounted \in Page /\ userName \in UserName /\ client \in Client
      /\ Attempting(client, mounted) /\ Told(client, mounted, userName)
  BY <1>1, OnPage
<1>3. /\ c \in Client /\ Attempting(c, mounted) /\ Told(c, mounted, userName)
  <2>1. CASE IsOpen(client)
    <3>1. c = [client EXCEPT !.socks[client.socket].owed = TRUE]
      BY <2>1 DEF SendRequest
    <3> QED BY <3>1, <2>1, <1>2, OwedKeeps
  <2>2. CASE ~IsOpen(client)
    <3>1. c = Send(client)
      BY <2>2 DEF SendRequest
    <3> HIDE DEF c
    <3> QED BY <3>1, <1>2, SendKeeps, WiresKeep
  <2> QED BY <2>1, <2>2
<1>4. client' = d /\ UNCHANGED <<ui, mounted, trying>>
  BY DEF ClickRequest
<1> HIDE DEF c
<1>5. /\ d \in Client /\ d.socks = c.socks /\ d.socket = c.socket
      /\ d.timer = c.timer /\ d.roomId = c.roomId
  BY <1>3 DEF Client
<1> HIDE DEF d
<1>6. Attempting(d, mounted) /\ Told(d, mounted, userName)
  BY <1>2, <1>3, <1>5, WiresKeep
<1>7. cut' \in BOOLEAN
  BY DEF ClickRequest, IsOpen
<1> QED BY <1>1, <1>2, <1>4, <1>5, <1>6, <1>7, OnPage, StaysOnPage DEF ui

\* A step that changes neither page nor wires.
LEMMA WiresStay ==
  ASSUME IInv, UNCHANGED <<ui, mounted, cut>>, client' \in Client,
         trying' \in 0 .. RECONNECT_TIMEOUT + 1,
         client'.socks = client.socks, client'.socket = client.socket,
         client'.timer = client.timer, client'.roomId = client.roomId
  PROVE  IInv'
<1>1. client \in Client
  BY DEF IInv, TypeOK
<1>2. CASE mounted = NoPage
  <2>1. Resting(client')
    BY <1>1, <1>2, SameWires DEF IInv
  <2> QED BY <2>1, <1>2 DEF IInv, TypeOK, ui
<1>3. CASE mounted # NoPage
  <2>1. Attempting(client', mounted) /\ Told(client', mounted, userName)
    BY <1>1, <1>3, OnPage, WiresKeep
  <2> QED BY <2>1, <1>3, OnPage, StaysOnPage DEF ui
<1> QED BY <1>2, <1>3

\* Any other event of the user.
LEMMA SayKeeps ==
  ASSUME IInv, Say
  PROVE  IInv'
<1>1. client \in Client /\ trying \in 0 .. RECONNECT_TIMEOUT + 1
  BY DEF IInv, TypeOK
<1>2. client' = Send(client)
  BY DEF Say
<1> QED BY <1>1, <1>2, SendKeeps, WiresStay DEF Say, ui

\* Time passes.
LEMMA TickKeeps ==
  ASSUME IInv, Tick
  PROVE  IInv'
<1> DEFINE e == AtMost(client.elapsed + 1, RECONNECT_TIMEOUT + 1)
<1>1. client \in Client /\ trying \in 0 .. RECONNECT_TIMEOUT + 1
  BY DEF IInv, TypeOK
<1>2. e \in 0 .. RECONNECT_TIMEOUT + 1
  <2>1. client.elapsed \in 0 .. RECONNECT_TIMEOUT + 1
    BY <1>1 DEF Client
  <2> QED BY <2>1, Limits DEF AtMost
<1>3. trying' \in 0 .. RECONNECT_TIMEOUT + 1
  BY <1>1, Limits DEF Tick, AtMost
<1>4. client' = [client EXCEPT !.elapsed = e]
  BY <1>1 DEF Tick, Client
<1> HIDE DEF e
<1>5. /\ client' \in Client /\ client'.socks = client.socks
      /\ client'.socket = client.socket /\ client'.timer = client.timer
      /\ client'.roomId = client.roomId
  BY <1>1, <1>2, <1>4 DEF Client
<1> QED BY <1>3, <1>5, WiresStay DEF Tick

\* A link followed, or the first name entered: the effect comes later.
LEMMA UiKeeps ==
  ASSUME IInv, \/ \E room \in Room \cup {Home} : Navigate(room)
               \/ \E name \in UserName : EnterName(name)
  PROVE  IInv'
<1>1. UNCHANGED <<mounted, client, trying, cut>>
      /\ path' \in Room \cup {Home} /\ userName' \in UserName \cup {""}
      /\ (userName' # userName => userName = "")
  BY DEF Navigate, EnterName, IInv, TypeOK
<1>2. TypeOK'
  BY <1>1 DEF IInv, TypeOK
<1>3. CASE userName' = userName
  BY <1>1, <1>2, <1>3 DEF IInv, Resting, Own, Sockets, Attempting, Told
<1>4. CASE userName' # userName
  <2>1. mounted = NoPage
    BY <1>1, <1>4 DEF IInv
  <2> QED BY <2>1, <1>1, <1>2 DEF IInv, Resting, Own, Sockets
<1> QED BY <1>3, <1>4

\* Every step keeps the invariant.
LEMMA StepKeeps ==
  ASSUME IInv, [Next]_vars
  PROVE  IInv'
<1>1. CASE \E room \in Room \cup {Home} : Navigate(room)
  BY <1>1, UiKeeps
<1>2. CASE \E name \in UserName : EnterName(name)
  BY <1>2, UiKeeps
<1>3. CASE \E name \in UserName : Rename(name)
  BY <1>3, RenameKeeps
<1>4. CASE Effect
  BY <1>4, EffectKeeps
<1>5. CASE \E k \in Sock : Opens(k)
  BY <1>5, OpensKeeps
<1>6. CASE \E k \in Sock : Closes(k)
  BY <1>6, ClosesKeeps
<1>7. CASE \E k \in Sock,
           type \in Answers \cup {"voting", "reveal", "room_cleared"} :
             Message(k, type)
  BY <1>7, MessageKeeps
<1>8. CASE TimerFires
  BY <1>8, TimerFiresKeeps
<1>9. CASE Tick
  BY <1>9, TickKeeps
<1>10. CASE Reveal \/ NewRound
  BY <1>10, ClickKeeps DEF Reveal, NewRound
<1>11. CASE Say
  BY <1>11, SayKeeps
<1>12. CASE Retry
  BY <1>12, RetryKeeps
<1>13. CASE UNCHANGED vars
  BY <1>13 DEF vars, ui, IInv, TypeOK, Resting, Own, Sockets, Attempting, Told
<1> QED BY <1>1, <1>2, <1>3, <1>4, <1>5, <1>6, <1>7, <1>8, <1>9, <1>10,
           <1>11, <1>12, <1>13 DEF Next

-----------------------------------------------------------------------------
\* The invariant holds in every behaviour.
LEMMA ClientInvariant == Spec => []IInv
  BY InitGood, StepKeeps, PTL DEF Spec

\* Every variable of the client keeps its shape, the queue its limit.
THEOREM ClientTypeCorrect == Spec => []TypeOK
<1>1. IInv => TypeOK
  BY DEF IInv
<1> QED BY <1>1, ClientInvariant, PTL

\* While a room is shown there is exactly one attempt to be in it, and none
\* when it is left (connect, closeSocket, scheduleReconnect, retry and
\* disconnect of ws.ts under RoomPage's effect).
THEOREM OneAttemptAtATime == Spec => []OneAttempt
<1>1. IInv => OneAttempt
  BY DEF IInv, Resting, Attempting, Own, OneAttempt
<1> QED BY <1>1, ClientInvariant, PTL

\* Once effects have caught up, the server knows the user of an open
\* connection by the present name (onopen, EditNameModal, room_cleared).
THEOREM TheNameIsKnown == Spec => []ServerKnowsTheName
<1>1. IInv => ServerKnowsTheName
  <2> SUFFICES ASSUME IInv, mounted = Wanted, NEW k \in Sockets(client),
                      client.socks[k].state = "open"
               PROVE  client.socks[k].joined = Wanted
    BY DEF ServerKnowsTheName
  <2>1. k \in Sock /\ mounted # NoPage
    BY OffPage DEF Sockets
  <2>2. Wanted = <<path, userName>>
    BY <2>1, WantedIsAPage DEF IInv
  <2>3. client.socks[k].joined = <<mounted[1], userName>>
    BY <2>1, OnPage DEF Told
  <2> QED BY <2>2, <2>3
<1> QED BY <1>1, ClientInvariant, PTL
=============================================================================
